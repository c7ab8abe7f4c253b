---------------------------- MODULE MarbleLineage ----------------------------
(***************************************************************************)
(* verify_lineage of EDEN Marble v2 (src/marble/marble.py): a list of      *)
(* Marbles is supplied, and a depth-first search along "parents" decides   *)
(* whether they form a closed acyclic graph.  The search is Python         *)
(* recursion; the model keeps its call stack, one action per call that is  *)
(* made, skipped or returned from.                                         *)
(*                                                                         *)
(* A Marble is intact when its id is the hash of its content, parents      *)
(* included (compute_id).  The hash is modelled by what it gives: nobody   *)
(* can name an id before the content it commits to is fixed, so an intact  *)
(* Marble names smaller ids, or ids of Marbles that are not supplied; and  *)
(* intact Marbles with one id have the same parents.  verify_lineage does  *)
(* not check this and must work for edited Marbles too.                    *)
(***************************************************************************)
EXTENDS Naturals, Sequences, FiniteSets, SequencesExt

CONSTANTS
  Ids,          \* ids of Marbles that may be supplied
  Names,        \* what "parents" may name: these, and others; all numbers
  ParentLists,  \* the values of "parents"
  None,         \* no marble_id
  MaxItems,     \* bound: Marbles in the list
  MaxDepth      \* calls of dfs that the recursion limit leaves room for

ASSUME IdsAssumption == Ids \subseteq Names /\ Names \subseteq Nat /\ None \notin Ids
ASSUME ListsAssumption == ParentLists \subseteq Seq(Names)
ASSUME BoundsAssumption ==
  MaxItems \in Nat /\ MaxDepth \in Nat \ {0}

Items == [id : Ids \union {None}, parents : ParentLists, intact : BOOLEAN]

VARIABLES
  pc,        \* "supply", "search", "done" or "raised"
  items,
  by_id,     \* parents of the Marble with an id
  roots,     \* ids the outer loop has not come to
  stack,     \* calls of dfs, the outermost first: id, parents still to visit
  visiting,
  visited,
  errors     \* kind and id of every error

vars == <<pc, items, by_id, roots, stack, visiting, visited, errors>>

Known == DOMAIN by_id

Frames == [id : Known, todo : Seq(Names)]

TypeOK ==
  /\ pc \in {"supply", "search", "done", "raised"}
  /\ items \in Seq(Items)
  /\ Known \subseteq Ids
  /\ \A k \in Known : by_id[k] \in Seq(Names)
  /\ roots \subseteq Known
  /\ stack \in Seq(Frames)
  /\ visiting \subseteq Known
  /\ visited \subseteq Known
  /\ errors \subseteq {"missing", "cycle"} \X Names

NoMarbles == [k \in {} |-> <<>>]

Init ==
  /\ pc = "supply"
  /\ items = <<>>
  /\ by_id = NoMarbles
  /\ roots = {}
  /\ stack = <<>>
  /\ visiting = {}
  /\ visited = {}
  /\ errors = {}

\* What hashing leaves possible for an intact Marble.
CanBeIntact(m) ==
  /\ m.id # None
  /\ \A p \in ToSet(m.parents) : p \in Ids => p < m.id
  /\ \A i \in DOMAIN items :
       items[i].intact /\ items[i].id = m.id => items[i].parents = m.parents

Supply ==
  /\ pc = "supply"
  /\ Len(items) < MaxItems
  /\ \E m \in Items :
       /\ m.intact => CanBeIntact(m)
       /\ items' = Append(items, m)
  /\ UNCHANGED <<pc, by_id, roots, stack, visiting, visited, errors>>

-----------------------------------------------------------------------------
(* verify_lineage                                                          *)

ItemsWith(k) == {i \in DOMAIN items : items[i].id = k}

\* The last of several Marbles with one id is kept.
ById ==
  [k \in {items[i].id : i \in DOMAIN items} \ {None} |->
     items[Max(ItemsWith(k))].parents]

Named == UNION {ToSet(items[i].parents) : i \in DOMAIN items}

\* Mutation: the search starts at the Marbles that no other names.
VerifyFromLeaves ==
  /\ pc = "supply"
  /\ pc' = "search"
  /\ by_id' = ById
  /\ roots' = DOMAIN ById \ Named
  /\ errors' = {"missing"} \X (Named \ DOMAIN ById)
  /\ UNCHANGED <<items, stack, visiting, visited>>

Verify ==
  /\ pc = "supply"
  /\ pc' = "search"
  /\ by_id' = ById
  /\ roots' = DOMAIN ById
  /\ errors' = {"missing"} \X (Named \ DOMAIN ById)
  /\ UNCHANGED <<items, stack, visiting, visited>>

\* Parents the innermost call has still to visit.
Todo == stack[Len(stack)].todo

\* The call of dfs that is made next: by the loop over by_id, whose order is
\* left open, or by the innermost call.
Calls(mid) ==
  /\ pc = "search"
  /\ IF stack = <<>> THEN mid \in roots ELSE Todo # <<>> /\ mid = Head(Todo)

RootsLeft(mid) == IF stack = <<>> THEN roots \ {mid} ELSE roots

\* The stack with the caller past this call.
CallerPast ==
  IF stack = <<>> THEN stack
  ELSE [stack EXCEPT ![Len(stack)].todo = Tail(Todo)]

Room == Len(stack) < MaxDepth

ReportCycle(mid) ==
  /\ Calls(mid) /\ Room
  /\ mid \in visiting
  /\ errors' = errors \union {<<"cycle", mid>>}
  /\ roots' = RootsLeft(mid)
  /\ stack' = CallerPast
  /\ UNCHANGED <<pc, items, by_id, visiting, visited>>

Skip(mid) ==
  /\ Calls(mid) /\ Room
  /\ mid \notin visiting
  /\ mid \in visited \/ mid \notin Known
  /\ roots' = RootsLeft(mid)
  /\ stack' = CallerPast
  /\ UNCHANGED <<pc, items, by_id, visiting, visited, errors>>

\* Mutation: Marbles that are being visited are not told apart.
DescendAgain(mid) ==
  /\ Calls(mid) /\ Room
  /\ mid \in Known /\ mid \notin visited
  /\ roots' = RootsLeft(mid)
  /\ stack' = Append(CallerPast, [id |-> mid, todo |-> by_id[mid]])
  /\ visiting' = visiting \union {mid}
  /\ UNCHANGED <<pc, items, by_id, visited, errors>>

Descend(mid) ==
  /\ Calls(mid) /\ Room
  /\ mid \in Known /\ mid \notin visiting \union visited
  /\ roots' = RootsLeft(mid)
  /\ stack' = Append(CallerPast, [id |-> mid, todo |-> by_id[mid]])
  /\ visiting' = visiting \union {mid}
  /\ UNCHANGED <<pc, items, by_id, visited, errors>>

\* RecursionError, which nothing catches.
Raise(mid) ==
  /\ Calls(mid) /\ ~Room
  /\ pc' = "raised"
  /\ UNCHANGED <<items, by_id, roots, stack, visiting, visited, errors>>

\* Mutation: a Marble stays marked as being visited.
ReturnStillVisiting ==
  /\ pc = "search"
  /\ stack # <<>> /\ Todo = <<>>
  /\ visited' = visited \union {stack[Len(stack)].id}
  /\ stack' = SubSeq(stack, 1, Len(stack) - 1)
  /\ UNCHANGED <<pc, items, by_id, roots, visiting, errors>>

Return ==
  /\ pc = "search"
  /\ stack # <<>> /\ Todo = <<>>
  /\ visiting' = visiting \ {stack[Len(stack)].id}
  /\ visited' = visited \union {stack[Len(stack)].id}
  /\ stack' = SubSeq(stack, 1, Len(stack) - 1)
  /\ UNCHANGED <<pc, items, by_id, roots, errors>>

Finish ==
  /\ pc = "search"
  /\ stack = <<>> /\ roots = {}
  /\ pc' = "done"
  /\ UNCHANGED <<items, by_id, roots, stack, visiting, visited, errors>>

\* The program has printed its result, or ended with a traceback.
Ended == pc \in {"done", "raised"} /\ UNCHANGED vars

Next ==
  \/ Supply \/ Verify \/ Return \/ Finish \/ Ended
  \/ \E mid \in Names : ReportCycle(mid) \/ Skip(mid) \/ Descend(mid) \/ Raise(mid)

Spec == Init /\ [][Next]_vars

-----------------------------------------------------------------------------

Parents(k) == ToSet(by_id[k])

\* Every Marble that is named has been supplied.
Closed == Named \subseteq Known

\* No set of Marbles in which each has a parent: in a finite graph, no cycle.
Acyclic ==
  \A C \in SUBSET Known : C # {} => \E k \in C : Parents(k) \intersect C = {}

\* verify_lineage "rejects missing parent references and cycles within the
\* supplied graph" (marble/README.md:47), and nothing else: when it answers,
\* it has reported an error exactly if the graph is not closed and acyclic.
\* Diamonds, shared ancestors and several entries into one cycle included.
LineageDecided == (pc = "done") => (errors = {} <=> Closed /\ Acyclic)

\* A cycle is evidence of tampering: while every supplied Marble is intact,
\* none is reported, however often and in whatever order they are supplied.
IntactNeverCyclic ==
  (\A i \in DOMAIN items : items[i].intact) =>
    \A k \in Ids : <<"cycle", k>> \notin errors

\* "visiting" is the call stack, each Marble on it once, and what is visited is
\* not entered again: the search is linear in the Marbles and parents.
VisitingIsStack ==
  /\ visiting = {stack[i].id : i \in DOMAIN stack}
  /\ \A i, j \in DOMAIN stack : stack[i].id = stack[j].id => i = j
  /\ visiting \intersect visited = {}

\* The recursion limit is only met by as many Marbles as it has room for: a
\* cycle does not exhaust it.
RaisedOnlyWhenDeep == (pc = "raised") => Cardinality(Known) >= MaxDepth
=============================================================================
