---------------------------- MODULE ReuseTrials ----------------------------
(***************************************************************************)
(* Five single-threaded experiments on exact reuse: the flagship, capacity *)
(* and CPU avoidance scripts, quickstart.py and the structured reuse trial *)
(* (src/experiments).  Each builds requests, has them answered by several  *)
(* arms, and reports whether the outputs agree and how many executions     *)
(* were avoided.  The EDEN arms check what they take from their store.     *)
(*                                                                         *)
(* A stored output can be changed behind an arm's back, as the test        *)
(* test_tampered_hit_is_rejected does; the arms differ in what they make   *)
(* of that.                                                                *)
(*                                                                         *)
(* Abstractions.  A task (seed, job or section) is a number, and so is its *)
(* right output; a commitment is what it commits to.  A request is the     *)
(* sequence of its tasks, one unless the script is the structured trial.   *)
(* A turn, one request answered by one arm, is one step.  Trials of one    *)
(* call share no state, so a call has one.  Timings are left out.          *)
(***************************************************************************)
EXTENDS Naturals, Sequences, FiniteSets, SequencesExt

CONSTANTS
  MaxRequests,  \* bound: requests per arm
  Shares,       \* reuse fractions, in quarters
  Sections,     \* lists of sections that a structured request may have
  None,         \* no report
  Wrong,        \* a changed output of the right form
  Broken        \* one whose form is wrong

VARIABLES
  script,     \* which of the five
  pc,         \* "off", "run", "reported" or "raised"
  requests,   \* the trace
  unique,     \* the number of different tasks in it, by its builder's count
  base,       \* structured: order of the arms in this block
  begun,      \* structured: requests that have had their order
  queue,      \* turns to come
  stores,     \* per arm, what it has stored
  outputs,    \* per arm, its outputs
  executed,   \* per arm, full executions
  hits,       \* per arm, tasks answered from the store
  failures,   \* avoidance: verification failures
  evidence,   \* structured: per EDEN request, whether each section was reused
  report,     \* the report, None if the script ended without one
  turns,      \* history: the arms in the order of their turns
  tampered    \* history: the arm with a changed output

trace == <<script, requests, unique>>
order == <<base, begun>>
counts == <<executed, hits, failures, evidence>>
vars == <<trace, order, pc, queue, stores, outputs, counts, report, turns,
          tampered>>

ArmsOf(s) ==
  CASE s = "structured" -> <<"CONTROL", "WHOLE_CACHE", "COMPONENT_CACHE", "EDEN">>
    [] s = "quickstart" -> <<"CONTROL", "CACHE", "EDEN">>
    [] OTHER -> <<"CONTROL", "EDEN">>

Arms == ToSet(ArmsOf(script))

Init ==
  /\ script \in {"flagship", "capacity", "avoidance", "quickstart", "structured"}
  /\ pc = "off"
  /\ requests = <<>> /\ unique = 0
  /\ base = <<>> /\ begun = 0
  /\ queue = <<>>
  /\ stores = [a \in Arms |-> <<>>]
  /\ outputs = [a \in Arms |-> <<>>]
  /\ executed = [a \in Arms |-> 0] /\ hits = [a \in Arms |-> 0]
  /\ failures = 0 /\ evidence = <<>>
  /\ report = None
  /\ turns = <<>> /\ tampered = None

-----------------------------------------------------------------------------
(* The trace                                                               *)

\* Python's round of n / 4: halves go to the even neighbour.
Rounded(n) ==
  LET q == n \div 4
      r == n % 4
  IN  IF r > 2 \/ (r = 2 /\ q % 2 = 1) THEN q + 1 ELSE q

AtLeastOne(n) == IF n < 1 THEN 1 ELSE n

\* The numbers 1 to u over and over, as a trace of n requests.
Cycle(n, u) == [i \in 1 .. n |-> <<1 + ((i - 1) % u)>>]

\* One arm after the other has all the requests.
ArmAfterArm(n) ==
  LET arms == ArmsOf(script)
  IN  [t \in 1 .. n * Len(arms) |-> <<arms[1 + ((t - 1) \div n)], 1 + ((t - 1) % n)>>]

Build(s, n, u, list) ==
  /\ pc = "off" /\ script = s
  /\ pc' = "run"
  /\ requests' = list
  /\ unique' = u
  /\ queue' = IF s = "structured" THEN <<>> ELSE ArmAfterArm(n)
  /\ UNCHANGED <<script, order, stores, outputs, counts, report, turns, tampered>>

\* build_requests, and the loop of its main.
BuildRequests(s) ==
  \E n \in 1 .. MaxRequests, p \in Shares :
    LET u == AtLeastOne(n - Rounded(n * p)) IN Build(s, n, u, Cycle(n, u))

BuildFlagship == BuildRequests("flagship")

\* Nobody looks at the number of requests: without one no arm has a turn, and
\* the reuse fraction of the EDEN arm divides by it.
FlagshipOfNothing ==
  /\ pc = "off" /\ script = "flagship"
  /\ pc' = "raised"
  /\ UNCHANGED <<trace, order, queue, stores, outputs, counts, report, turns,
                 tampered>>

BuildCapacity == BuildRequests("capacity")

\* make_jobs
BuildAvoidance ==
  \E n \in 2 .. MaxRequests, p \in Shares :
    LET u == AtLeastOne(Rounded(n * (4 - p))) IN Build("avoidance", n, u, Cycle(n, u))

BuildQuickstart ==
  \E n \in 2 .. MaxRequests : \E u \in 1 .. n : Build("quickstart", n, u, Cycle(n, u))

\* The places of a list of lists.
Occurrences(list) == UNION {{i} \X DOMAIN list[i] : i \in DOMAIN list}

TasksOf(list) == UNION {ToSet(list[i]) : i \in DOMAIN list}

\* build_trace
BuildStructured ==
  \E n \in 1 .. MaxRequests : \E list \in [1 .. n -> Sections] :
    Build("structured", n, Cardinality(TasksOf(list)), list)

-----------------------------------------------------------------------------
(* The order of the arms in the structured trial (run_trial)               *)

\* Mutation: the order of a block is not rotated.
Fixed(s, k) == s

Rotated(s, k) == [p \in DOMAIN s |-> s[1 + ((p - 1 + k) % Len(s))]]

\* A new order is drawn for every block of as many requests as there are arms,
\* and rotated by one place from request to request.
NextRequest ==
  /\ pc = "run" /\ script = "structured"
  /\ queue = <<>> /\ begun < Len(requests)
  /\ LET arms == ArmsOf(script)
         offset == begun % Len(arms)
     IN  /\ IF offset = 0 THEN base' \in SetToSeqs(ToSet(arms)) ELSE base' = base
         /\ queue' = [p \in DOMAIN arms |-> <<Rotated(base', offset)[p], begun + 1>>]
  /\ begun' = begun + 1
  /\ UNCHANGED <<trace, pc, stores, outputs, counts, report, turns, tampered>>

-----------------------------------------------------------------------------
(* The turns of the arms                                                   *)

Turn(arms) == pc = "run" /\ queue # <<>> /\ Head(queue)[1] \in arms

Request == requests[Head(queue)[2]]
Store == stores[Head(queue)[1]]

Stored(v) == [value |-> v, bound |-> v]

\* The places of a request whose task is in the store when they are reached.
Hits(store, request) ==
  {j \in DOMAIN request :
     \/ request[j] \in DOMAIN store
     \/ \E i \in 1 .. j - 1 : request[i] = request[j]}

\* The store after the tasks that it lacks have been executed.
Filled(store, request) ==
  [t \in DOMAIN store \union ToSet(request) |->
     IF t \in DOMAIN store THEN store[t] ELSE Stored(t)]

Answers(out, store, executions, found) ==
  LET a == Head(queue)[1] IN
  /\ outputs' = [outputs EXCEPT ![a] = Append(@, out)]
  /\ stores' = [stores EXCEPT ![a] = store]
  /\ executed' = [executed EXCEPT ![a] = @ + executions]
  /\ hits' = [hits EXCEPT ![a] = @ + found]
  /\ turns' = Append(turns, a)
  /\ queue' = Tail(queue)
  /\ UNCHANGED <<trace, order, pc, report, tampered>>

\* Every task of the request, from the store or executed.
AnswersFrom(store, request) ==
  LET found == Cardinality(Hits(store, request))
      filled == Filled(store, request)
  IN  Answers([j \in DOMAIN request |-> filled[request[j]].value], filled,
              Len(request) - found, found)

Control ==
  /\ Turn({"CONTROL"})
  /\ Answers(Request, Store, Len(Request), 0)
  /\ UNCHANGED <<failures, evidence>>

\* The key is the whole request, its number included.
WholeCache ==
  /\ Turn({"WHOLE_CACHE"})
  /\ LET i == Head(queue)[2] IN
       IF i \in DOMAIN Store
         THEN Answers(Store[i].value, Store, 0, Len(Request))
         ELSE Answers(Request, [k \in DOMAIN Store \union {i} |->
                                  IF k = i THEN Stored(Request) ELSE Store[k]],
                      Len(Request), 0)
  /\ UNCHANGED <<failures, evidence>>

ComponentCache ==
  /\ Turn({"CACHE", "COMPONENT_CACHE"})
  /\ AnswersFrom(Store, Request)
  /\ UNCHANGED <<failures, evidence>>

\* Mutation: no commitment is checked.
NoMismatch(store, request) == FALSE

Mismatch(store, request) ==
  \E t \in ToSet(request) \intersect DOMAIN store : store[t].value # store[t].bound

\* A stored output is returned if it is the one that was committed to.
Eden ==
  /\ Turn({"EDEN"}) /\ script # "avoidance"
  /\ ~Mismatch(Store, Request)
  /\ AnswersFrom(Store, Request)
  /\ evidence' = IF script = "structured"
                   THEN Append(evidence, [j \in DOMAIN Request |->
                                            j \in Hits(Store, Request)])
                   ELSE evidence
  /\ UNCHANGED failures

\* Otherwise the script ends with an exception.
EdenRaises ==
  /\ Turn({"EDEN"}) /\ script # "avoidance"
  /\ Mismatch(Store, Request)
  /\ pc' = "raised"
  /\ UNCHANGED <<trace, order, queue, stores, outputs, counts, report, turns,
                 tampered>>

\* The avoidance script looks at the form alone, and executes the task again
\* if it is wrong.
EdenByForm ==
  /\ Turn({"EDEN"}) /\ script = "avoidance"
  /\ LET t == Request[1] IN
       IF t \in DOMAIN Store /\ Store[t].value = Broken
         THEN /\ Answers(<<t>>, [Store EXCEPT ![t] = Stored(t)], 1, 0)
              /\ failures' = failures + 1
         ELSE /\ AnswersFrom(Store, Request)
              /\ UNCHANGED failures
  /\ UNCHANGED evidence

\* What a stored output may become: to all but the avoidance script a change
\* of its form is a change like any other.
Changes == IF script = "avoidance" THEN {Wrong, Broken} ELSE {Wrong}

\* A stored output is changed, between two turns and once in a run.
Tamper ==
  /\ pc = "run" /\ tampered = None
  /\ \E a \in Arms \ {"CONTROL", "WHOLE_CACHE"} : \E t \in DOMAIN stores[a] :
       /\ \E v \in Changes : stores' = [stores EXCEPT ![a][t].value = v]
       /\ tampered' = a
  /\ UNCHANGED <<trace, order, pc, queue, outputs, counts, report, turns>>

-----------------------------------------------------------------------------
(* The report                                                              *)

Done == pc = "run" /\ queue = <<>> /\ (script = "structured" => begun = Len(requests))

Equivalent == \A a, b \in Arms : outputs[a] = outputs[b]

\* These two write no report unless the outputs agree.
Strict == script \in {"avoidance", "structured"}

Report ==
  /\ Done
  /\ Strict => Equivalent /\ failures = 0
  /\ report' = [equivalent |-> Equivalent,
                executions |-> executed,
                avoided |-> IF script = "structured"
                              THEN Cardinality({o \in Occurrences(evidence) :
                                                  evidence[o[1]][o[2]]})
                              ELSE executed["CONTROL"] - executed["EDEN"]]
  /\ pc' = "reported"
  /\ UNCHANGED <<trace, order, queue, stores, outputs, counts, turns, tampered>>

Refuse ==
  /\ Done /\ Strict
  /\ ~Equivalent \/ failures > 0
  /\ pc' = "raised"
  /\ UNCHANGED <<trace, order, queue, stores, outputs, counts, report, turns,
                 tampered>>

-----------------------------------------------------------------------------
Main ==
  \/ BuildFlagship \/ FlagshipOfNothing \/ BuildCapacity \/ BuildAvoidance
  \/ BuildQuickstart \/ BuildStructured \/ NextRequest
  \/ Control \/ WholeCache \/ ComponentCache \/ Eden \/ EdenRaises \/ EdenByForm
  \/ Report \/ Refuse

Next == Main \/ Tamper

Spec == Init /\ [][Next]_vars

-----------------------------------------------------------------------------
(* What is reused is what was built to be reused.  An EDEN arm that checks   *)
(* its store never puts out a changed output, and a report that finds the    *)
(* outputs equivalent stands on right outputs only, though the avoidance     *)
(* script and the plain caches return changed ones.  A report has executed   *)
(* each different task once and reused the rest, which is what it says was   *)
(* avoided; the evidence of the structured trial calls a section reused      *)
(* where it has occurred before, in the same request or an earlier one.  A   *)
(* run of requests without a changed output ends with a report of            *)
(* equivalence.                                                              *)
ReuseAsBuilt ==
  /\ script # "avoidance" =>
       \A i \in DOMAIN outputs["EDEN"] : outputs["EDEN"][i] = requests[i]
  /\ report # None =>
       /\ report.equivalent => \A a \in Arms : outputs[a] = requests
       /\ report.executions["EDEN"] = unique
       /\ Cardinality(TasksOf(requests)) = unique
       /\ report.avoided = hits["EDEN"]
       /\ report.avoided + unique = report.executions["CONTROL"]
       /\ script = "structured" =>
            \A o \in Occurrences(requests) :
              evidence[o[1]][o[2]] <=>
                \E e \in Occurrences(requests) :
                  /\ e[1] < o[1] \/ (e[1] = o[1] /\ e[2] < o[2])
                  /\ requests[e[1]][e[2]] = requests[o[1]][o[2]]
  /\ tampered = None => /\ requests # <<>> => pc # "raised"
                        /\ report # None => report.equivalent

(* "Each consecutive block puts every arm in every timing position once"     *)
(* (azure_structured_reuse_001.py:161), whatever orders were drawn.          *)
PositionsBalanced ==
  script = "structured" =>
    LET n == Len(ArmsOf(script)) IN
    \A block \in 0 .. (Len(turns) \div (n * n)) - 1 : \A a \in Arms :
      {p \in 1 .. n : \E i \in 0 .. n - 1 : turns[n * (n * block + i) + p] = a} = 1 .. n
=============================================================================
