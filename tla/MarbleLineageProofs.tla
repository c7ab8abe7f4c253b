------------------------- MODULE MarbleLineageProofs -------------------------
(***************************************************************************)
(* Proofs about MarbleLineage, for every supply of Marbles and every       *)
(* recursion limit: the search decides whether the graph is closed and     *)
(* acyclic.  The invariant says what a depth-first search knows: the stack *)
(* is a path, what has been visited is closed and acyclic unless a cycle   *)
(* has been reported, and a reported cycle is one.                         *)
(***************************************************************************)
EXTENDS MarbleLineage, WellFoundedInduction, FiniteSetTheorems, TLAPS

\* Before the search nothing is set.
Fresh ==
  (pc = "supply") =>
    /\ by_id = NoMarbles /\ roots = {} /\ stack = <<>>
    /\ visiting = {} /\ visited = {} /\ errors = {}

\* by_id comes from the items; missing parents are reported before the search.
FromItems ==
  \A k \in Known : \E i \in DOMAIN items :
    items[i].id = k /\ items[i].parents = by_id[k]

MissingReported ==
  (pc # "supply") =>
    \A p \in Names : <<"missing", p>> \in errors <=> p \in Named \ Known

\* Every Marble has been visited, is being visited or is still to come.
Covered ==
  /\ (pc # "supply") => Known \subseteq roots \union visiting \union visited
  /\ (pc = "done") => stack = <<>> /\ roots = {}
  /\ (pc = "raised") => Len(stack) >= MaxDepth

\* Each call visits a parent of its caller.
StackIsPath ==
  /\ \A i \in DOMAIN stack : ToSet(stack[i].todo) \subseteq Parents(stack[i].id)
  /\ \A i \in DOMAIN stack :
       i + 1 \in DOMAIN stack => stack[i + 1].id \in Parents(stack[i].id)

Reported == \E k \in Names : <<"cycle", k>> \in errors

\* No set C of visited Marbles in which each has a parent.
VisitedAcyclic ==
  \A C \in SUBSET visited : C # {} => \E k \in C : Parents(k) \intersect C = {}

VisitedClosed == \A k \in visited : Parents(k) \intersect Known \subseteq visited

\* What a call has passed has been visited, or is the call it has made.
Passed ==
  \A i \in DOMAIN stack : \A p \in Parents(stack[i].id) \intersect Known :
    \/ p \in ToSet(stack[i].todo)
    \/ p \in visited
    \/ i + 1 \in DOMAIN stack /\ p = stack[i + 1].id

Explored == ~Reported => VisitedClosed /\ VisitedAcyclic /\ Passed

CycleIsReal == Reported => ~Acyclic

\* The hash lets an intact Marble name smaller ids only.
Hashed ==
  \A i \in DOMAIN items : items[i].intact =>
    items[i].id # None /\ \A p \in ToSet(items[i].parents) : p \in Ids => p < items[i].id

IInv ==
  /\ TypeOK /\ Fresh /\ FromItems /\ MissingReported /\ Covered
  /\ VisitingIsStack /\ StackIsPath /\ Explored /\ CycleIsReal /\ Hashed

-----------------------------------------------------------------------------
(* Numbers and sequences                                                   *)

LessOnNat == OpToRel(<, Nat)

\* A set of numbers that is not empty has a least element.
LEMMA LeastExists ==
  ASSUME NEW S \in SUBSET Nat, S # {}
  PROVE  \E m \in S : \A n \in S : m <= n
<1>1. IsWellFoundedOn(LessOnNat, Nat)
  BY NatLessThanWellFounded DEF LessOnNat
<1>2. PICK m \in S : \A n \in S : <<n, m>> \notin LessOnNat
  BY <1>1, WFMin
<1>3. ASSUME NEW n \in S PROVE m <= n
  <2>1. <<n, m>> \in LessOnNat <=> n < m
    BY DEF LessOnNat, OpToRel
  <2> QED BY <2>1, <1>2
<1> QED BY <1>3

\* A set of positions that is not empty has a greatest element, which Max is.
LEMMA MaxOfPositions ==
  ASSUME NEW n \in Nat, NEW S \in SUBSET (1 .. n), S # {}
  PROVE  Max(S) \in S
<1> DEFINE T == {n - i : i \in S}
<1>1. T \in SUBSET Nat /\ T # {}
  <2>1. \A i \in S : i \in 1 .. n
    OBVIOUS
  <2>2. \A i \in 1 .. n : n - i \in Nat
    OBVIOUS
  <2> QED BY <2>1, <2>2
<1>2. PICK m \in T : \A k \in T : m <= k
  BY <1>1, LeastExists
<1>3. PICK i \in S : m = n - i
  OBVIOUS
<1>4. \A j \in S : i >= j
  BY <1>2, <1>3
<1> QED BY <1>3, <1>4 DEF Max

\* The stack past a call: ids as before, and one parent less to visit.
LEMMA CallerPastFacts ==
  ASSUME TypeOK, NEW mid \in Names, Calls(mid)
  PROVE  /\ CallerPast \in Seq(Frames)
         /\ Len(CallerPast) = Len(stack)
         /\ \A i \in DOMAIN stack :
              /\ CallerPast[i].id = stack[i].id
              /\ ToSet(CallerPast[i].todo) \subseteq ToSet(stack[i].todo)
              /\ ToSet(stack[i].todo)
                   \subseteq ToSet(CallerPast[i].todo) \union {mid}
              /\ i # Len(stack) => CallerPast[i] = stack[i]
         /\ stack # <<>> => mid \in ToSet(stack[Len(stack)].todo)
<1>1. CASE stack = <<>>
  BY <1>1 DEF CallerPast, TypeOK
<1>2. CASE stack # <<>>
  <2> DEFINE n == Len(stack)
  <2>1. stack \in Seq(Frames) /\ n \in Nat \ {0} /\ DOMAIN stack = 1 .. n
    BY <1>2 DEF TypeOK
  <2>2. stack[n] \in Frames
    BY <2>1
  <2>3. Todo \in Seq(Names) /\ Todo # <<>> /\ mid = Head(Todo)
    BY <1>2, <2>2 DEF Calls, Todo, Frames
  <2>4. Tail(Todo) \in Seq(Names)
    BY <2>3
  <2>5. [stack[n] EXCEPT !.todo = Tail(Todo)] \in Frames
    BY <2>2, <2>4 DEF Frames
  <2>6. /\ CallerPast = [stack EXCEPT ![n] = [stack[n] EXCEPT !.todo = Tail(Todo)]]
    BY <1>2 DEF CallerPast
  <2>7. CallerPast \in Seq(Frames) /\ Len(CallerPast) = n
    BY <2>1, <2>5, <2>6
  <2>8. \A i \in 1 .. n : i # n => CallerPast[i] = stack[i]
    BY <2>1, <2>6
  <2>9. CallerPast[n].id = stack[n].id /\ CallerPast[n].todo = Tail(Todo)
    BY <2>1, <2>2, <2>6 DEF Frames
  <2>10. /\ ToSet(Tail(Todo)) \subseteq ToSet(Todo)
         /\ ToSet(Todo) \subseteq ToSet(Tail(Todo)) \union {mid}
         /\ mid \in ToSet(Todo)
    <3>1. /\ DOMAIN Todo = 1 .. Len(Todo)
          /\ DOMAIN Tail(Todo) = 1 .. Len(Todo) - 1
          /\ Len(Todo) \in Nat \ {0}
          /\ \A i \in 1 .. Len(Todo) - 1 : Tail(Todo)[i] = Todo[i + 1]
          /\ mid = Todo[1]
      BY <2>3
    <3>2. ASSUME NEW i \in 1 .. Len(Todo) PROVE Todo[i] \in ToSet(Tail(Todo)) \union {mid}
      <4>1. CASE i = 1
        BY <4>1, <3>1
      <4>2. CASE i # 1
        <5>1. i - 1 \in DOMAIN Tail(Todo) /\ Tail(Todo)[i - 1] = Todo[i]
          BY <4>2, <3>1
        <5> QED BY <5>1 DEF ToSet
      <4> QED BY <4>1, <4>2
    <3> QED BY <3>1, <3>2 DEF ToSet
  <2>11. Todo = stack[n].todo
    BY DEF Todo
  <2> QED BY <2>1, <2>7, <2>8, <2>9, <2>10, <2>11
<1> QED BY <1>1, <1>2

\* Known is finite: each id stands for a position of the list.
LEMMA KnownFinite ==
  ASSUME TypeOK, FromItems
  PROVE  IsFiniteSet(Known)
<1> DEFINE at(k) == CHOOSE i \in DOMAIN items : items[i].id = k
<1> DEFINE f == [k \in Known |-> at(k)]
<1>1. \A k \in Known : at(k) \in DOMAIN items /\ items[at(k)].id = k
  BY DEF FromItems
<1>2. f \in [Known -> DOMAIN items]
  BY <1>1
<1>3. \A j, k \in Known : f[j] = f[k] => j = k
  BY <1>1
<1>4. f \in Injection(Known, DOMAIN items)
  BY <1>2, <1>3 DEF Injection, IsInjective
<1>5. IsFiniteSet(DOMAIN items)
  <2>1. DOMAIN items = 1 .. Len(items) /\ Len(items) \in Nat
    BY DEF TypeOK
  <2> QED BY <2>1, FS_Interval
<1> QED BY <1>4, <1>5, FS_Injection

LEMMA NamedAreNames ==
  ASSUME TypeOK
  PROVE  Named \in SUBSET Names
<1>1. ASSUME NEW i \in DOMAIN items PROVE items[i].parents \in Seq(Names)
  <2>1. items \in Seq(Items) /\ DOMAIN items = 1 .. Len(items)
    BY DEF TypeOK
  <2>2. items[i] \in Items
    BY <2>1
  <2> QED BY <2>2, ListsAssumption DEF Items
<1> QED BY <1>1 DEF Named, ToSet

-----------------------------------------------------------------------------
(* The invariant is inductive                                              *)

LEMMA InitIInv == Init => IInv
<1> SUFFICES ASSUME Init PROVE IInv
  OBVIOUS
<1>1. Known = {}
  BY DEF Init, Known, NoMarbles
<1>2. TypeOK
  BY <1>1 DEF Init, TypeOK
<1>3. ~Reported /\ VisitedClosed /\ VisitedAcyclic /\ Passed
  BY DEF Init, Reported, VisitedClosed, VisitedAcyclic, Passed
<1>4. VisitingIsStack /\ StackIsPath /\ Hashed
  BY DEF Init, VisitingIsStack, StackIsPath, Hashed
<1> QED BY <1>1, <1>2, <1>3, <1>4
        DEF Init, IInv, Fresh, FromItems, MissingReported, Covered, Explored, CycleIsReal

LEMMA SupplyKeeps == IInv /\ Supply => IInv'
<1> SUFFICES ASSUME IInv, Supply PROVE IInv'
  OBVIOUS
<1> USE DEF IInv
<1>0. PICK m \in Items : (m.intact => CanBeIntact(m)) /\ items' = Append(items, m)
  BY DEF Supply
<1>1. /\ pc = "supply" /\ by_id = NoMarbles /\ Known = {} /\ stack = <<>>
      /\ roots = {} /\ visiting = {} /\ visited = {} /\ errors = {}
  BY DEF Fresh, Supply, NoMarbles, Known
<1>2. /\ pc' = pc /\ by_id' = by_id /\ Known' = {} /\ stack' = stack
      /\ roots' = roots /\ visiting' = visiting /\ visited' = visited /\ errors' = errors
  BY <1>1 DEF Supply, Known
<1>3. items \in Seq(Items) /\ items' \in Seq(Items)
  BY <1>0 DEF TypeOK
<1>4. TypeOK'
  BY <1>1, <1>2, <1>3 DEF TypeOK
<1>5. Hashed'
  <2>1. ASSUME NEW i \in DOMAIN items', items'[i].intact
        PROVE  /\ items'[i].id # None
               /\ \A p \in ToSet(items'[i].parents) : p \in Ids => p < items'[i].id
    <3>1. CASE i \in DOMAIN items
      <4>1. items'[i] = items[i]
        BY <1>0, <1>3, <3>1
      <4> QED BY <2>1, <3>1, <4>1 DEF Hashed
    <3>2. CASE i \notin DOMAIN items
      <4>1. items'[i] = m
        BY <1>0, <1>3, <3>2
      <4> QED BY <2>1, <4>1, <1>0 DEF CanBeIntact
    <3> QED BY <3>1, <3>2
  <2> QED BY <2>1 DEF Hashed
<1>6. ~Reported' /\ VisitedClosed' /\ VisitedAcyclic' /\ Passed'
  BY <1>1, <1>2 DEF Reported, VisitedClosed, VisitedAcyclic, Passed
<1>7. VisitingIsStack' /\ StackIsPath'
  BY <1>1, <1>2 DEF VisitingIsStack, StackIsPath
<1>8. Fresh' /\ FromItems' /\ MissingReported' /\ Covered'
  BY <1>1, <1>2 DEF Fresh, FromItems, MissingReported, Covered, NoMarbles
<1> QED BY <1>4, <1>5, <1>6, <1>7, <1>8 DEF Explored, CycleIsReal

LEMMA VerifyKeeps == IInv /\ Verify => IInv'
<1> SUFFICES ASSUME IInv, Verify PROVE IInv'
  OBVIOUS
<1> USE DEF IInv
<1>1. /\ pc = "supply" /\ stack = <<>> /\ visiting = {} /\ visited = {}
      /\ pc' = "search" /\ stack' = <<>> /\ visiting' = {} /\ visited' = {}
      /\ items' = items /\ by_id' = ById /\ roots' = DOMAIN ById
      /\ errors' = {"missing"} \X (Named \ DOMAIN ById)
  BY DEF Fresh, Verify
<1>2. Known' = DOMAIN ById /\ Named' = Named
  BY <1>1 DEF Known, Named
<1>3. ASSUME NEW k \in DOMAIN ById
      PROVE  /\ k \in Ids
             /\ \E i \in DOMAIN items : items[i].id = k /\ items[i].parents = ById[k]
             /\ ById[k] \in Seq(Names)
  <2>1. items \in Seq(Items) /\ DOMAIN items = 1 .. Len(items) /\ Len(items) \in Nat
    BY DEF TypeOK
  <2>2. k # None /\ ItemsWith(k) # {} /\ ItemsWith(k) \in SUBSET (1 .. Len(items))
    BY <2>1 DEF ById, ItemsWith
  <2>3. Max(ItemsWith(k)) \in ItemsWith(k)
    BY <2>1, <2>2, MaxOfPositions
  <2>4. ById[k] = items[Max(ItemsWith(k))].parents
    BY DEF ById
  <2>5. PICK i \in DOMAIN items : items[i].id = k /\ items[i].parents = ById[k]
    BY <2>3, <2>4 DEF ItemsWith
  <2>6. items[i] \in Items
    BY <2>1
  <2> QED BY <2>2, <2>5, <2>6, ListsAssumption DEF Items
<1>4. Named \in SUBSET Names
  BY NamedAreNames
<1>5. TypeOK'
  BY <1>1, <1>2, <1>3, <1>4 DEF TypeOK
<1>6. FromItems'
  BY <1>1, <1>2, <1>3 DEF FromItems
<1>7. MissingReported' /\ Covered' /\ Fresh'
  BY <1>1, <1>2, <1>4 DEF MissingReported, Covered, Fresh
<1>8. ~Reported' /\ VisitedClosed' /\ VisitedAcyclic' /\ Passed'
  <2>1. ~Reported'
    BY <1>1 DEF Reported
  <2>2. VisitedClosed' /\ Passed'
    BY <1>1 DEF VisitedClosed, Passed
  <2>3. VisitedAcyclic'
    BY <1>1 DEF VisitedAcyclic
  <2> QED BY <2>1, <2>2, <2>3
<1>9. VisitingIsStack' /\ StackIsPath' /\ Hashed'
  BY <1>1 DEF VisitingIsStack, StackIsPath, Hashed
<1> QED BY <1>5, <1>6, <1>7, <1>8, <1>9 DEF Explored, CycleIsReal

\* A call leaves the items alone, so the graph stays the same.
LEMMA GraphStays ==
  ASSUME items' = items, by_id' = by_id
  PROVE  /\ Known' = Known /\ Named' = Named /\ Frames' = Frames
         /\ Acyclic' = Acyclic
         /\ \A k : Parents(k)' = Parents(k)
  BY DEF Known, Named, Frames, Acyclic, Parents

LEMMA ReportCycleKeeps ==
  ASSUME IInv, NEW mid \in Names, ReportCycle(mid)
  PROVE  IInv'
<1> USE DEF IInv
<1> DEFINE n == Len(stack)
<1>1. /\ pc = "search" /\ pc' = pc /\ items' = items /\ by_id' = by_id
      /\ visiting' = visiting /\ visited' = visited
      /\ mid \in visiting /\ Calls(mid)
      /\ errors' = errors \union {<<"cycle", mid>>}
      /\ roots' = RootsLeft(mid) /\ stack' = CallerPast
  BY DEF ReportCycle, Calls
<1>2. /\ Known' = Known /\ Named' = Named /\ Frames' = Frames
      /\ Acyclic' = Acyclic /\ \A k : Parents(k)' = Parents(k)
  BY <1>1, GraphStays
<1>3. /\ stack' \in Seq(Frames) /\ Len(stack') = n
      /\ \A i \in DOMAIN stack :
           /\ stack'[i].id = stack[i].id
           /\ ToSet(stack'[i].todo) \subseteq ToSet(stack[i].todo)
      /\ stack # <<>> => mid \in ToSet(stack[n].todo)
  BY <1>1, CallerPastFacts
<1>4. /\ stack \in Seq(Frames) /\ n \in Nat
      /\ DOMAIN stack = 1 .. n /\ DOMAIN stack' = 1 .. n
  BY <1>3 DEF TypeOK
<1>n. n \in Nat
  BY <1>4
<1>5. PICK m \in 1 .. n : stack[m].id = mid
  BY <1>1, <1>4 DEF VisitingIsStack
<1>6. n \in DOMAIN stack /\ stack # <<>>
  BY <1>4, <1>5
<1>7. ~Acyclic
  <2> DEFINE C == {stack[i].id : i \in m .. n}
  <2>1. C \in SUBSET Known /\ C # {}
    <3>1. \A i \in m .. n : i \in 1 .. n /\ stack[i] \in Frames
      BY <1>4, <1>5
    <3>2. m \in m .. n
      BY <1>4, <1>5
    <3> QED BY <3>1, <3>2 DEF Frames
  <2>2. ASSUME NEW i \in m .. n PROVE Parents(stack[i].id) \intersect C # {}
    <3>1. CASE i = n
      <4>1. mid \in Parents(stack[n].id)
        BY <1>3, <1>6 DEF StackIsPath
      <4>2. mid \in C
        BY <1>4, <1>5
      <4> QED BY <4>1, <4>2, <3>1
    <3>2. CASE i # n
      <4>1. i \in 1 .. n /\ i + 1 \in 1 .. n /\ i + 1 \in m .. n
        <5>1. n \in Nat /\ m \in Nat /\ m >= 1 /\ i \in Int /\ m <= i /\ i <= n /\ i # n
          BY <3>2, <1>n
        <5> HIDE DEF n
        <5> QED BY <5>1
      <4>2. stack[i + 1].id \in Parents(stack[i].id)
        BY <4>1, <1>4 DEF StackIsPath
      <4> QED BY <4>1, <4>2
    <3> QED BY <3>1, <3>2
  <2>3. \A k \in C : Parents(k) \intersect C # {}
    BY <2>2
  <2> HIDE DEF C
  <2> QED BY <2>1, <2>3 DEF Acyclic
<1>8. TypeOK'
  <2>1. roots' \subseteq Known
    BY <1>1 DEF RootsLeft, TypeOK
  <2>2. errors' \subseteq {"missing", "cycle"} \X Names
    BY <1>1 DEF TypeOK
  <2> QED BY <1>1, <1>2, <1>3, <2>1, <2>2 DEF TypeOK
<1>9. Fresh' /\ FromItems' /\ MissingReported' /\ Hashed'
  BY <1>1, <1>2 DEF Fresh, FromItems, MissingReported, Hashed
<1>10. Covered'
  BY <1>1, <1>2, <1>6 DEF Covered, RootsLeft
<1>11. VisitingIsStack'
  BY <1>1, <1>3, <1>4 DEF VisitingIsStack
<1>12. StackIsPath'
  <2>1. ASSUME NEW i \in DOMAIN stack'
        PROVE  ToSet(stack'[i].todo) \subseteq Parents(stack'[i].id)
    BY <1>3, <1>4 DEF StackIsPath
  <2>2. ASSUME NEW i \in DOMAIN stack', i + 1 \in DOMAIN stack'
        PROVE  stack'[i + 1].id \in Parents(stack'[i].id)
    BY <2>2, <1>3, <1>4 DEF StackIsPath
  <2> QED BY <2>1, <2>2, <1>1 DEF StackIsPath, Parents
<1>13. Reported'
  BY <1>1 DEF Reported
<1> QED BY <1>2, <1>7, <1>8, <1>9, <1>10, <1>11, <1>12, <1>13 DEF Explored, CycleIsReal

LEMMA SkipKeeps ==
  ASSUME IInv, NEW mid \in Names, Skip(mid)
  PROVE  IInv'
<1> USE DEF IInv
<1> DEFINE n == Len(stack)
<1>1. /\ pc = "search" /\ pc' = pc /\ items' = items /\ by_id' = by_id
      /\ visiting' = visiting /\ visited' = visited /\ errors' = errors
      /\ Calls(mid) /\ (mid \in visited \/ mid \notin Known)
      /\ roots' = RootsLeft(mid) /\ stack' = CallerPast
  BY DEF Skip, Calls
<1>2. /\ Known' = Known /\ Named' = Named /\ Frames' = Frames
      /\ Acyclic' = Acyclic /\ \A k : Parents(k)' = Parents(k)
  BY <1>1, GraphStays
<1>3. /\ stack' \in Seq(Frames) /\ Len(stack') = n
      /\ \A i \in DOMAIN stack :
           /\ stack'[i].id = stack[i].id
           /\ ToSet(stack'[i].todo) \subseteq ToSet(stack[i].todo)
           /\ ToSet(stack[i].todo) \subseteq ToSet(stack'[i].todo) \union {mid}
  BY <1>1, CallerPastFacts
<1>4. /\ stack \in Seq(Frames) /\ n \in Nat
      /\ DOMAIN stack = 1 .. n /\ DOMAIN stack' = 1 .. n
  BY <1>3 DEF TypeOK
<1>5. TypeOK'
  <2>1. roots' \subseteq Known
    BY <1>1 DEF RootsLeft, TypeOK
  <2> QED BY <1>1, <1>2, <1>3, <2>1 DEF TypeOK
<1>6. Fresh' /\ FromItems' /\ MissingReported' /\ Hashed'
  BY <1>1, <1>2 DEF Fresh, FromItems, MissingReported, Hashed
<1>7. Covered'
  BY <1>1, <1>2 DEF Covered, RootsLeft, Calls, TypeOK
<1>8. VisitingIsStack'
  BY <1>1, <1>3, <1>4 DEF VisitingIsStack
<1>9. StackIsPath'
  <2>1. ASSUME NEW i \in DOMAIN stack'
        PROVE  ToSet(stack'[i].todo) \subseteq Parents(stack'[i].id)
    BY <1>3, <1>4 DEF StackIsPath
  <2>2. ASSUME NEW i \in DOMAIN stack', i + 1 \in DOMAIN stack'
        PROVE  stack'[i + 1].id \in Parents(stack'[i].id)
    BY <2>2, <1>3, <1>4 DEF StackIsPath
  <2> QED BY <2>1, <2>2, <1>1 DEF StackIsPath, Parents
<1>10. Reported' = Reported
  BY <1>1 DEF Reported
<1>11. VisitedClosed' = VisitedClosed /\ VisitedAcyclic' = VisitedAcyclic
  BY <1>1, <1>2 DEF VisitedClosed, VisitedAcyclic
<1>12. ASSUME Passed PROVE Passed'
  <2>1. ASSUME NEW i \in DOMAIN stack, NEW p \in Parents(stack'[i].id) \intersect Known
        PROVE  \/ p \in ToSet(stack'[i].todo)
               \/ p \in visited
               \/ i + 1 \in DOMAIN stack' /\ p = stack'[i + 1].id
    <3>1. \/ p \in ToSet(stack[i].todo)
          \/ p \in visited
          \/ i + 1 \in DOMAIN stack /\ p = stack[i + 1].id
      BY <1>3, <1>12 DEF Passed
    <3>2. p \in ToSet(stack[i].todo) => p \in ToSet(stack'[i].todo) \/ p = mid
      BY <1>3
    <3> QED BY <1>1, <1>3, <1>4, <3>1, <3>2
  <2> QED BY <2>1, <1>1, <1>2, <1>4 DEF Passed, Parents, Known
<1>13. Explored'
  BY <1>10, <1>11, <1>12 DEF Explored
<1>14. CycleIsReal'
  BY <1>2, <1>10 DEF CycleIsReal
<1> QED BY <1>5, <1>6, <1>7, <1>8, <1>9, <1>13, <1>14

LEMMA DescendKeeps ==
  ASSUME IInv, NEW mid \in Names, Descend(mid)
  PROVE  IInv'
<1> USE DEF IInv
<1> DEFINE n == Len(stack)
           frame == [id |-> mid, todo |-> by_id[mid]]
<1>1. /\ pc = "search" /\ pc' = pc /\ items' = items /\ by_id' = by_id
      /\ visiting' = visiting \union {mid} /\ visited' = visited /\ errors' = errors
      /\ Calls(mid) /\ mid \in Known /\ mid \notin visiting \union visited
      /\ roots' = RootsLeft(mid) /\ stack' = Append(CallerPast, frame)
  BY DEF Descend, Calls
<1>2. /\ Known' = Known /\ Named' = Named /\ Frames' = Frames
      /\ Acyclic' = Acyclic /\ \A k : Parents(k)' = Parents(k)
  BY <1>1, GraphStays
<1>3. /\ CallerPast \in Seq(Frames) /\ Len(CallerPast) = n
      /\ \A i \in DOMAIN stack :
           /\ CallerPast[i].id = stack[i].id
           /\ ToSet(CallerPast[i].todo) \subseteq ToSet(stack[i].todo)
           /\ ToSet(stack[i].todo) \subseteq ToSet(CallerPast[i].todo) \union {mid}
           /\ i # n => CallerPast[i] = stack[i]
      /\ stack # <<>> => mid \in ToSet(stack[n].todo)
  BY <1>1, CallerPastFacts
<1>4. stack \in Seq(Frames) /\ n \in Nat /\ DOMAIN stack = 1 .. n
  BY DEF TypeOK
<1>n. n \in Nat /\ n + 1 \notin 1 .. n /\ \A i \in 1 .. n + 1 : i \in 1 .. n \/ i = n + 1
  <2>1. n \in Nat
    BY <1>4
  <2> HIDE DEF n
  <2> QED BY <2>1
<1>5. frame \in Frames
  BY <1>1 DEF Frames, TypeOK
<1>6. /\ stack' \in Seq(Frames) /\ DOMAIN stack' = 1 .. n + 1 /\ Len(stack') = n + 1
      /\ stack'[n + 1] = frame /\ \A i \in 1 .. n : stack'[i] = CallerPast[i]
  BY <1>1, <1>3, <1>4, <1>5
<1>7. /\ \A i \in 1 .. n :
           /\ i \in DOMAIN stack
           /\ stack'[i].id = stack[i].id
           /\ ToSet(stack'[i].todo) \subseteq ToSet(stack[i].todo)
           /\ ToSet(stack[i].todo) \subseteq ToSet(stack'[i].todo) \union {mid}
           /\ i # n => stack'[i] = stack[i]
      /\ stack'[n + 1].id = mid
      /\ ToSet(stack'[n + 1].todo) = Parents(mid)
  <2>1. stack'[n + 1].id = mid /\ stack'[n + 1].todo = by_id[mid]
    BY <1>6
  <2>2. \A i \in 1 .. n : i \in DOMAIN stack /\ stack'[i] = CallerPast[i]
    BY <1>4, <1>6
  <2> HIDE DEF frame
  <2> QED BY <2>1, <2>2, <1>3 DEF Parents
<1> HIDE DEF frame, n
<1>8. TypeOK'
  <2>1. roots' \subseteq Known
    BY <1>1 DEF RootsLeft, TypeOK
  <2> QED BY <1>1, <1>2, <1>6, <2>1 DEF TypeOK
<1>9. Fresh' /\ FromItems' /\ MissingReported' /\ Hashed'
  BY <1>1, <1>2 DEF Fresh, FromItems, MissingReported, Hashed
<1>10. Covered'
  BY <1>1, <1>2 DEF Covered, RootsLeft
<1>11. VisitingIsStack'
  <2>1. \A i \in 1 .. n : stack[i].id \in visiting
    BY <1>4 DEF VisitingIsStack
  <2>2. visiting' = {stack'[i].id : i \in 1 .. n + 1}
    <3>1. \A k \in visiting : \E i \in 1 .. n : k = stack'[i].id
      BY <1>4, <1>7 DEF VisitingIsStack
    <3>2. \A i \in 1 .. n : i \in 1 .. n + 1
      BY <1>n
    <3>3. n + 1 \in 1 .. n + 1
      BY <1>n
    <3>4. ASSUME NEW k \in visiting' PROVE \E i \in 1 .. n + 1 : k = stack'[i].id
      BY <1>1, <1>7, <3>1, <3>2, <3>3
    <3>5. ASSUME NEW i \in 1 .. n + 1 PROVE stack'[i].id \in visiting'
      BY <1>1, <1>7, <1>n, <2>1
    <3> QED BY <3>4, <3>5
  <2>3. ASSUME NEW i \in 1 .. n + 1, NEW j \in 1 .. n + 1, stack'[i].id = stack'[j].id
        PROVE  i = j
    <3>1. CASE i \in 1 .. n /\ j \in 1 .. n
      BY <2>3, <3>1, <1>4, <1>7 DEF VisitingIsStack
    <3>2. CASE i \notin 1 .. n /\ j \notin 1 .. n
      BY <3>2, <1>n
    <3>3. CASE i \in 1 .. n /\ j \notin 1 .. n
      <4>1. j = n + 1
        BY <3>3, <1>n
      <4> QED BY <2>1, <2>3, <3>3, <4>1, <1>1, <1>7
    <3>4. CASE i \notin 1 .. n /\ j \in 1 .. n
      <4>1. i = n + 1
        BY <3>4, <1>n
      <4> QED BY <2>1, <2>3, <3>4, <4>1, <1>1, <1>7
    <3> QED BY <3>1, <3>2, <3>3, <3>4
  <2>4. visiting' \intersect visited' = {}
    BY <1>1 DEF VisitingIsStack
  <2> QED BY <1>6, <2>2, <2>3, <2>4 DEF VisitingIsStack
<1>12. StackIsPath'
  <2>1. ASSUME NEW i \in 1 .. n + 1
        PROVE  ToSet(stack'[i].todo) \subseteq Parents(stack'[i].id)
    <3>1. CASE i \in 1 .. n
      BY <3>1, <1>7 DEF StackIsPath
    <3>2. CASE i \notin 1 .. n
      BY <3>2, <1>n, <1>7
    <3> QED BY <3>1, <3>2
  <2>2. ASSUME NEW i \in 1 .. n
        PROVE  stack'[i + 1].id \in Parents(stack'[i].id)
    <3>1. CASE i = n
      <4>1. stack # <<>>
        BY <1>4, <3>1
      <4> QED BY <3>1, <4>1, <1>3, <1>4, <1>7 DEF StackIsPath
    <3>2. CASE i # n
      <4>1. i + 1 \in 1 .. n
        BY <3>2, <1>n
      <4> QED BY <4>1, <1>4, <1>7 DEF StackIsPath
    <3> QED BY <3>1, <3>2
  <2>3. \A i \in 1 .. n + 1 : i + 1 \in 1 .. n + 1 => i \in 1 .. n
    BY <1>n
  <2> QED BY <2>1, <2>2, <2>3, <1>1, <1>6 DEF StackIsPath, Parents
<1>13. Reported' = Reported
  BY <1>1 DEF Reported
<1>14. VisitedClosed' = VisitedClosed /\ VisitedAcyclic' = VisitedAcyclic
  BY <1>1, <1>2 DEF VisitedClosed, VisitedAcyclic
<1>15. ASSUME Passed PROVE Passed'
  <2>1. ASSUME NEW i \in 1 .. n + 1, NEW p \in Parents(stack'[i].id) \intersect Known
        PROVE  \/ p \in ToSet(stack'[i].todo)
               \/ p \in visited
               \/ i + 1 \in 1 .. n + 1 /\ p = stack'[i + 1].id
    <3>1. CASE i \notin 1 .. n
      BY <3>1, <1>n, <1>7
    <3>2. CASE i = n
      <4>1. n \in 1 .. n
        BY <3>2, <1>n
      <4>2. p \in ToSet(stack[n].todo) \/ p \in visited
        BY <3>2, <4>1, <1>4, <1>7, <1>15 DEF Passed
      <4>3. n + 1 \in 1 .. n + 1
        BY <1>n
      <4> QED BY <3>2, <4>1, <4>2, <4>3, <1>7
    <3>3. CASE i \in 1 .. n /\ i # n
      <4>1. i + 1 \in 1 .. n /\ i + 1 \in 1 .. n + 1
        BY <3>3, <1>n
      <4>2. \/ p \in ToSet(stack[i].todo)
            \/ p \in visited
            \/ p = stack[i + 1].id
        BY <3>3, <1>4, <1>7, <1>15 DEF Passed
      <4> QED BY <3>3, <4>1, <4>2, <1>7
    <3> QED BY <3>1, <3>2, <3>3
  <2> QED BY <2>1, <1>1, <1>2, <1>6 DEF Passed, Parents, Known
<1>16. Explored'
  BY <1>13, <1>14, <1>15 DEF Explored
<1>17. CycleIsReal'
  BY <1>2, <1>13 DEF CycleIsReal
<1> QED BY <1>8, <1>9, <1>10, <1>11, <1>12, <1>16, <1>17

LEMMA ReturnKeeps == IInv /\ Return => IInv'
<1> SUFFICES ASSUME IInv, Return PROVE IInv'
  OBVIOUS
<1> USE DEF IInv
<1> DEFINE n == Len(stack)
           t == stack[n].id
<1>1. /\ pc = "search" /\ pc' = pc /\ items' = items /\ by_id' = by_id
      /\ roots' = roots /\ errors' = errors
      /\ visiting' = visiting \ {t} /\ visited' = visited \union {t}
      /\ stack # <<>> /\ stack[n].todo = <<>>
      /\ stack' = SubSeq(stack, 1, n - 1)
  BY DEF Return, Todo
<1>2. /\ Known' = Known /\ Named' = Named /\ Frames' = Frames
      /\ Acyclic' = Acyclic /\ \A k : Parents(k)' = Parents(k)
  BY <1>1, GraphStays
<1>3. stack \in Seq(Frames) /\ n \in Nat \ {0} /\ DOMAIN stack = 1 .. n
  BY <1>1 DEF TypeOK
<1>4. /\ stack' \in Seq(Frames) /\ Len(stack') = n - 1 /\ DOMAIN stack' = 1 .. n - 1
      /\ \A i \in 1 .. n - 1 : stack'[i] = stack[i]
  BY <1>1, <1>3
<1>n. /\ n \in 1 .. n /\ \A i \in 1 .. n : i \in 1 .. n - 1 \/ i = n
      /\ \A i \in 1 .. n - 1 : i \in 1 .. n /\ i # n /\ i + 1 \in 1 .. n
      /\ n + 1 \notin 1 .. n
  <2>1. n \in Nat \ {0}
    BY <1>3
  <2> HIDE DEF n
  <2> QED BY <2>1
<1> HIDE DEF n
<1>5. t \in Known /\ t \in visiting /\ t \notin visited
  <2>1. stack[n] \in Frames
    BY <1>3, <1>n
  <2> QED BY <2>1, <1>3, <1>n DEF Frames, VisitingIsStack
<1> HIDE DEF t
<1>6. TypeOK'
  BY <1>1, <1>2, <1>4, <1>5 DEF TypeOK
<1>7. Fresh' /\ FromItems' /\ MissingReported' /\ Hashed'
  BY <1>1, <1>2 DEF Fresh, FromItems, MissingReported, Hashed
<1>8. Covered'
  BY <1>1, <1>2 DEF Covered
<1>9. VisitingIsStack'
  <2>1. ASSUME NEW k \in visiting' PROVE \E i \in 1 .. n - 1 : k = stack'[i].id
    <3>1. PICK i \in 1 .. n : k = stack[i].id /\ k # t
      BY <1>1, <1>3 DEF VisitingIsStack
    <3>2. i \in 1 .. n - 1
      BY <3>1, <1>n DEF t
    <3> QED BY <3>1, <3>2, <1>4
  <2>2. ASSUME NEW i \in 1 .. n - 1 PROVE stack'[i].id \in visiting'
    <3>1. stack'[i].id = stack[i].id /\ i \in 1 .. n /\ i # n
      BY <1>4, <1>n
    <3>2. stack[i].id \in visiting /\ stack[i].id # t
      BY <3>1, <1>3, <1>n DEF VisitingIsStack, t
    <3> QED BY <3>1, <3>2, <1>1
  <2>3. ASSUME NEW i \in 1 .. n - 1, NEW j \in 1 .. n - 1, stack'[i].id = stack'[j].id
        PROVE  i = j
    BY <2>3, <1>3, <1>4, <1>n DEF VisitingIsStack
  <2>4. visiting' \intersect visited' = {}
    BY <1>1 DEF VisitingIsStack
  <2> QED BY <2>1, <2>2, <2>3, <2>4, <1>4 DEF VisitingIsStack
<1>10. StackIsPath'
  <2>1. ASSUME NEW i \in 1 .. n - 1
        PROVE  ToSet(stack'[i].todo) \subseteq Parents(stack'[i].id)
    BY <1>3, <1>4, <1>n DEF StackIsPath
  <2>2. ASSUME NEW i \in 1 .. n - 1, i + 1 \in 1 .. n - 1
        PROVE  stack'[i + 1].id \in Parents(stack'[i].id)
    BY <2>2, <1>3, <1>4, <1>n DEF StackIsPath
  <2> QED BY <2>1, <2>2, <1>1, <1>4 DEF StackIsPath, Parents
<1>11. Reported' = Reported
  BY <1>1 DEF Reported
<1>12. ASSUME VisitedClosed, VisitedAcyclic, Passed
       PROVE  VisitedClosed' /\ VisitedAcyclic' /\ Passed'
  <2>1. Parents(t) \intersect Known \subseteq visited
    <3>1. ToSet(stack[n].todo) = {}
      BY <1>1 DEF ToSet
    <3> QED BY <3>1, <1>3, <1>n, <1>12 DEF Passed, t
  <2>2. VisitedClosed'
    BY <2>1, <1>1, <1>2, <1>12 DEF VisitedClosed
  <2>3. ASSUME NEW C \in SUBSET (visited \union {t}), C # {}
        PROVE  \E k \in C : Parents(k) \intersect C = {}
    <3>1. visited \subseteq Known
      BY DEF TypeOK
    <3>2. CASE C \ {t} = {}
      <4>1. C = {t}
        BY <2>3, <3>2
      <4>2. t \notin Parents(t)
        BY <2>1, <1>5
      <4> QED BY <4>1, <4>2
    <3>3. CASE C \ {t} # {}
      <4>1. PICK k \in C \ {t} : Parents(k) \intersect (C \ {t}) = {}
        BY <3>3, <1>12 DEF VisitedAcyclic
      <4>2. t \notin Parents(k)
        BY <4>1, <1>5, <1>12 DEF VisitedClosed
      <4> QED BY <4>1, <4>2
    <3> QED BY <3>2, <3>3
  <2>4. VisitedAcyclic'
    BY <2>3, <1>1, <1>2 DEF VisitedAcyclic
  <2>5. ASSUME NEW i \in 1 .. n - 1, NEW p \in Parents(stack'[i].id) \intersect Known
        PROVE  \/ p \in ToSet(stack'[i].todo)
               \/ p \in visited'
               \/ i + 1 \in 1 .. n - 1 /\ p = stack'[i + 1].id
    <3>1. /\ stack'[i] = stack[i] /\ i \in 1 .. n
          /\ \/ p \in ToSet(stack[i].todo)
             \/ p \in visited
             \/ i + 1 \in 1 .. n /\ p = stack[i + 1].id
      BY <1>3, <1>4, <1>n, <1>12 DEF Passed
    <3>2. CASE i + 1 \in 1 .. n /\ p = stack[i + 1].id
      <4>1. CASE i + 1 = n
        BY <3>2, <4>1, <1>1 DEF t
      <4>2. CASE i + 1 # n
        BY <3>2, <4>2, <1>4, <1>n
      <4> QED BY <4>1, <4>2
    <3> QED BY <3>1, <3>2, <1>1
  <2>6. Passed'
    BY <2>5, <1>1, <1>2, <1>4 DEF Passed, Parents, Known
  <2> QED BY <2>2, <2>4, <2>6
<1> QED BY <1>2, <1>6, <1>7, <1>8, <1>9, <1>10, <1>11, <1>12 DEF Explored, CycleIsReal

\* The other steps change pc only, or nothing.
LEMMA OthersKeep ==
  ASSUME IInv, Finish \/ Ended \/ UNCHANGED vars \/ (\E mid \in Names : Raise(mid))
  PROVE  IInv'
<1> USE DEF IInv
<1>1. /\ items' = items /\ by_id' = by_id /\ roots' = roots /\ stack' = stack
      /\ visiting' = visiting /\ visited' = visited /\ errors' = errors
  BY DEF Finish, Ended, Raise, vars
<1>2. \/ pc' = pc
      \/ pc = "search" /\ pc' = "done" /\ stack = <<>> /\ roots = {}
      \/ pc = "search" /\ pc' = "raised" /\ Len(stack) >= MaxDepth
  <2>1. Len(stack) \in Nat /\ MaxDepth \in Nat
    BY BoundsAssumption DEF TypeOK
  <2> QED BY <2>1 DEF Finish, Ended, Raise, Calls, Room, vars
<1>3. /\ Known' = Known /\ Named' = Named /\ Frames' = Frames
      /\ Acyclic' = Acyclic /\ \A k : Parents(k)' = Parents(k)
  BY <1>1, GraphStays
<1>4. TypeOK'
  BY <1>1, <1>2, <1>3 DEF TypeOK
<1>5. Fresh' /\ FromItems' /\ MissingReported' /\ Covered' /\ Hashed'
  BY <1>1, <1>2, <1>3 DEF Fresh, FromItems, MissingReported, Covered, Hashed
<1>6. VisitingIsStack' /\ StackIsPath' /\ (Reported' = Reported)
  BY <1>1, <1>3 DEF VisitingIsStack, StackIsPath, Reported, Parents
<1>7. VisitedClosed' = VisitedClosed /\ VisitedAcyclic' = VisitedAcyclic
  BY <1>1, <1>3 DEF VisitedClosed, VisitedAcyclic
<1>8. Passed' = Passed
  BY <1>1, <1>3 DEF Passed, Parents
<1>9. Explored'
  BY <1>6, <1>7, <1>8 DEF Explored
<1>10. CycleIsReal'
  BY <1>3, <1>6 DEF CycleIsReal
<1> QED BY <1>4, <1>5, <1>6, <1>9, <1>10

THEOREM Inductive == Spec => []IInv
<1>1. IInv /\ [Next]_vars => IInv'
  <2> SUFFICES ASSUME IInv, [Next]_vars PROVE IInv'
    OBVIOUS
  <2>1. CASE Supply
    BY <2>1, SupplyKeeps
  <2>2. CASE Verify
    BY <2>2, VerifyKeeps
  <2>3. CASE Return
    BY <2>3, ReturnKeeps
  <2>4. ASSUME NEW mid \in Names, ReportCycle(mid) \/ Skip(mid) \/ Descend(mid)
        PROVE  IInv'
    BY <2>4, ReportCycleKeeps, SkipKeeps, DescendKeeps
  <2>5. CASE Finish \/ Ended \/ UNCHANGED vars \/ (\E mid \in Names : Raise(mid))
    BY <2>5, OthersKeep
  <2> QED BY <2>1, <2>2, <2>3, <2>4, <2>5 DEF Next
<1> QED BY InitIInv, <1>1, PTL DEF Spec

-----------------------------------------------------------------------------
(* Theorems                                                                *)

\* Type correctness, whatever is supplied.
THEOREM TypeCorrect == Spec => []TypeOK
<1>1. IInv => TypeOK
  BY DEF IInv
<1> QED BY Inductive, <1>1, PTL

\* The call stack and "visiting" agree, and nothing is entered twice.
THEOREM VisitingIsTheStack == Spec => []VisitingIsStack
<1>1. IInv => VisitingIsStack
  BY DEF IInv
<1> QED BY Inductive, <1>1, PTL

\* For every list of Marbles, edited and duplicate ones included, an answer of
\* verify_lineage is free of errors exactly if the graph is closed and acyclic.
THEOREM SearchDecides == Spec => []LineageDecided
<1>1. ASSUME IInv, pc = "done" PROVE errors = {} <=> Closed /\ Acyclic
  <2> USE <1>1 DEF IInv
  <2>1. visited = Known
    <3>1. stack = <<>> /\ roots = {} /\ Known \subseteq roots \union visiting \union visited
      BY DEF Covered
    <3>2. DOMAIN stack = {}
      BY <3>1
    <3>3. visiting = {}
      BY <3>2 DEF VisitingIsStack
    <3> QED BY <3>1, <3>3 DEF TypeOK
  <2>2. ASSUME errors = {} PROVE Closed /\ Acyclic
    <3>1. Closed
      BY <2>2, NamedAreNames DEF Closed, MissingReported
    <3>2. VisitedAcyclic
      BY <2>2 DEF Explored, Reported
    <3> QED BY <3>1, <3>2, <2>1 DEF VisitedAcyclic, Acyclic
  <2>3. ASSUME Closed, Acyclic, NEW e \in errors PROVE FALSE
    <3>1. PICK p \in Names : e = <<"missing", p>> \/ e = <<"cycle", p>>
      BY DEF TypeOK
    <3>2. CASE e = <<"missing", p>>
      BY <2>3, <3>2 DEF MissingReported, Closed
    <3>3. CASE e = <<"cycle", p>>
      BY <2>3, <3>3 DEF CycleIsReal, Reported
    <3> QED BY <3>1, <3>2, <3>3
  <2> QED BY <2>2, <2>3
<1>2. IInv => LineageDecided
  BY <1>1 DEF LineageDecided
<1> QED BY Inductive, <1>2, PTL

\* A reported cycle proves that some supplied Marble is not what its id says.
THEOREM IntactAreAcyclic == Spec => []IntactNeverCyclic
<1>1. ASSUME IInv, \A i \in DOMAIN items : items[i].intact PROVE Acyclic
  <2> SUFFICES ASSUME NEW C \in SUBSET Known, C # {}
               PROVE  \E k \in C : Parents(k) \intersect C = {}
    BY DEF Acyclic
  <2>1. C \subseteq Ids /\ C \in SUBSET Nat
    BY <1>1, IdsAssumption DEF IInv, TypeOK
  <2>2. PICK m \in C : \A k \in C : m <= k
    BY <2>1, LeastExists
  <2>3. PICK i \in DOMAIN items : items[i].id = m /\ items[i].parents = by_id[m]
    BY <1>1 DEF IInv, FromItems
  <2>4. \A p \in Parents(m) : p \in Ids => p < m
    BY <1>1, <2>3 DEF IInv, Hashed, Parents
  <2>5. ASSUME NEW p \in Parents(m), p \in C PROVE FALSE
    <3>1. p < m /\ m <= p /\ p \in Nat /\ m \in Nat
      BY <2>1, <2>2, <2>4, <2>5
    <3> QED BY <3>1
  <2> QED BY <2>5
<1>2. IInv => IntactNeverCyclic
  BY <1>1, IdsAssumption DEF IInv, CycleIsReal, Reported, IntactNeverCyclic
<1> QED BY Inductive, <1>2, PTL

\* A cycle never exhausts the recursion limit: that takes as many Marbles as
\* the limit has room for.
THEOREM CyclesDoNotRaise == Spec => []RaisedOnlyWhenDeep
<1>1. ASSUME IInv, pc = "raised" PROVE Cardinality(Known) >= MaxDepth
  <2> USE <1>1 DEF IInv
  <2> DEFINE n == Len(stack)
             f == [i \in 1 .. n |-> stack[i].id]
  <2>1. stack \in Seq(Frames) /\ n \in Nat /\ DOMAIN stack = 1 .. n
    BY DEF TypeOK
  <2>2. f \in Injection(1 .. n, Known)
    <3>1. ASSUME NEW i \in 1 .. n PROVE stack[i].id \in Known
      <4>1. stack[i] \in Frames
        BY <2>1
      <4> QED BY <4>1 DEF Frames
    <3>2. \A i, j \in 1 .. n : f[i] = f[j] => i = j
      BY <2>1 DEF VisitingIsStack
    <3> QED BY <3>1, <3>2 DEF Injection, IsInjective
  <2>3. IsFiniteSet(Known)
    BY KnownFinite
  <2>4. Cardinality(1 .. n) <= Cardinality(Known)
    BY <2>2, <2>3, FS_Injection
  <2>5. Cardinality(1 .. n) = n
    BY <2>1, FS_Interval
  <2>6. Cardinality(Known) \in Nat /\ n >= MaxDepth
    BY <2>3, FS_CardinalityType DEF Covered
  <2> QED BY <2>1, <2>4, <2>5, <2>6, BoundsAssumption
<1>2. IInv => RaisedOnlyWhenDeep
  BY <1>1 DEF RaisedOnlyWhenDeep
<1> QED BY Inductive, <1>2, PTL
=============================================================================
