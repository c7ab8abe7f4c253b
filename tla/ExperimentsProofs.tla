------------------------- MODULE ExperimentsProofs -------------------------
(***************************************************************************)
(* Proofs about the fair A/B harness (FairAB), and about the Refinery      *)
(* benchmark, the handset trials and the trials of exact reuse, as they    *)
(* run in Experiments: for any tasks, requests, runs, threads and          *)
(* attempts, any trials, samples and requests of a window, and any         *)
(* sections and shares of what is reused.                                  *)
(***************************************************************************)
EXTENDS Experiments, FiniteSetTheorems, SequenceTheorems, WellFoundedInduction,
        TLAPS

-----------------------------------------------------------------------------
(* The fair A/B harness.  That the arms are alike when a run is over is      *)
(* inductive only together with how far each arm has come: what was posted   *)
(* to it, answered or in flight, and what is left of the workload, make up   *)
(* the workload; what is in the cache of an arm was called for once; and a   *)
(* call is in a record or in the hands of the handler.  All this is lost     *)
(* when a request fails, and then the run is.                                *)

Phases == {"off", "run", "aborted", "save", "manifest"}
Steps == {"lookup", "call", "store", "integrate", "log", "reply"}
Served == [arm : Arms, task : Tasks]

\* Requests posted in this run.
Posted == 2 * (MaxRequests - Len(work)) + (IF arms = Arms THEN 0 ELSE 1)

TypeOK ==
  /\ phase \in Phases
  /\ work \in Seq(Tasks) /\ Len(work) <= MaxRequests
  /\ arms \in SUBSET Arms
  /\ records \in [Arms -> Seq(Records)]
  /\ pc \in Steps \union {"idle"}
  /\ request \in Served \union {None}
  /\ result \in Results \union {None}
  /\ called \in BOOLEAN
  /\ caches \in [Arms -> [Tasks -> Results \union {None}]]
  /\ calls \in Seq(Served)
  /\ events \in Seq(Records)
  /\ saved \in [Arms -> Seq(Records) \union {None}]
  /\ runs \in Nat

\* One handler at a time; it has called the provider or found a result; and no
\* more calls are made than requests are posted.
Handling ==
  /\ pc # "idle" => phase \in {"run", "aborted"} /\ request \in Served
  /\ pc \in {"call", "store"} => called
  /\ pc \in {"store", "integrate", "log", "reply"} =>
       /\ result \in Results
       /\ called => result \in DOMAIN calls /\ calls[result] = request
  /\ phase # "off" => arms # {} /\ (work = <<>> => arms = Arms)
  /\ phase # "off" => Len(calls) + (IF pc \in {"lookup", "call"} THEN 1 ELSE 0)
                        <= Posted

\* A run in which nothing has failed.
Intact == phase \in {"run", "save", "manifest"}

Serves(a) == pc # "idle" /\ request.arm = a

\* Requests that an arm has got, and their tasks.
Length == [a \in Arms |-> Len(records[a]) + (IF Serves(a) THEN 1 ELSE 0)]
TaskOf == [a \in Arms |-> [i \in 1 .. Length[a] |->
             IF i <= Len(records[a]) THEN records[a][i].task ELSE request.task]]

\* Both arms have got the same tasks, one at most being a request ahead; every
\* task of the workload is among them or still to be posted.
InStep ==
  /\ \A a \in Arms : Length[a] + Len(work)
                       = MaxRequests + (IF a \in arms THEN 0 ELSE 1)
  /\ \A a \in Arms \ arms : TaskOf[a][Length[a]] = Head(work)
  /\ \A a, b \in Arms : \A i \in 1 .. Length[a] :
       i <= Length[b] => TaskOf[a][i] = TaskOf[b][i]
  /\ \A t \in Tasks :
       \/ \E i \in DOMAIN work : work[i] = t
       \/ \A a \in Arms : \E i \in 1 .. Length[a] : TaskOf[a][i] = t

\* The handler holds the result of a call for this arm and task.
Holds(a, t) ==
  /\ pc \in {"integrate", "log", "reply"} /\ called
  /\ request.arm = a /\ request.task = t

\* A result in the cache of an arm is that of one call for it, in a record or in
\* the handler's hands; a task that was answered is in the cache.
CalledOnce(a) ==
  /\ \A i \in DOMAIN records[a] : caches[a][records[a][i].task] # None
  /\ \A i, k \in Called(records[a]) :
       records[a][i].task = records[a][k].task => i = k
  /\ \A t \in Tasks : caches[a][t] # None =>
       Holds(a, t) \/ \E i \in Called(records[a]) : records[a][i].task = t
  /\ \A t \in Tasks : Holds(a, t) =>
       \A i \in Called(records[a]) : records[a][i].task # t
  /\ Serves(a) /\ pc \in {"integrate", "log", "reply"} =>
       caches[a][request.task] # None
  /\ Serves(a) /\ pc \in {"call", "store"} => caches[a][request.task] = None
  /\ \A i \in Called(records[a]) :
       /\ records[a][i].result \in DOMAIN calls
       /\ calls[records[a][i].result] = [arm |-> a, task |-> records[a][i].task]

\* Every call is in a record, or the handler has its result.
CallsKept ==
  \A c \in DOMAIN calls :
    \/ \E i \in Called(records[calls[c].arm]) :
         records[calls[c].arm][i].result = c
    \/ pc \in {"store", "integrate", "log", "reply"} /\ called /\ result = c

\* Events of an arm whose answers have been recorded.
Logged ==
  [a \in Arms |-> {k \in DOMAIN events :
     events[k].arm = a /\ (pc = "reply" => k # Len(events))}]

\* The place of such an event among those of its arm.
Rank ==
  [a \in Arms |-> [k \in Logged[a] |-> Cardinality({m \in Logged[a] : m <= k})]]

\* The log holds the records of each arm in their order, and after them the
\* answer that is on its way.
LogInStep ==
  /\ pc = "reply" => events # <<>> /\ events[Len(events)] = Record
  /\ \A a \in Arms :
       /\ Len(records[a]) = Cardinality(Logged[a])
       /\ \A k \in Logged[a] : records[a][Rank[a][k]] = events[k]

\* The records are written as they are when the workload is done.
Saving ==
  /\ phase \in {"save", "manifest"} => work = <<>>
  /\ phase = "save" => saved["control"] = records["control"]
  /\ phase = "manifest" => saved = records

IInv ==
  /\ TypeOK
  /\ Handling
  /\ Intact => InStep /\ LogInStep /\ CallsKept /\ \A a \in Arms : CalledOnce(a)
  /\ Saving
  /\ ArmsAlike
  /\ LogMatchesRecords

-----------------------------------------------------------------------------
(* Sequences                                                               *)

\* A record is added to a log, or a call to the calls.
LEMMA AppendFacts ==
  ASSUME NEW S, NEW s \in Seq(S), NEW e \in S
  PROVE  /\ Append(s, e) \in Seq(S) /\ Len(Append(s, e)) = Len(s) + 1
         /\ DOMAIN s = 1 .. Len(s) /\ DOMAIN Append(s, e) = 1 .. Len(s) + 1
         /\ Len(s) \in Nat
         /\ \A i \in 1 .. Len(s) : Append(s, e)[i] = s[i]
         /\ Append(s, e)[Len(s) + 1] = e
  OBVIOUS

\* A task is taken from the workload.
LEMMA TailFacts ==
  ASSUME NEW S, NEW s \in Seq(S), s # <<>>
  PROVE  /\ Tail(s) \in Seq(S) /\ Len(Tail(s)) = Len(s) - 1 /\ Head(s) \in S
         /\ Len(s) \in Nat \ {0}
         /\ \A i \in DOMAIN s :
              s[i] = Head(s) \/ \E k \in DOMAIN Tail(s) : Tail(s)[k] = s[i]
<1>1. /\ Tail(s) \in Seq(S) /\ Len(Tail(s)) = Len(s) - 1 /\ Head(s) \in S
      /\ Len(s) \in Nat \ {0} /\ Head(s) = s[1]
      /\ \A k \in 1 .. Len(s) - 1 : Tail(s)[k] = s[k + 1]
      /\ DOMAIN Tail(s) = 1 .. Len(s) - 1 /\ DOMAIN s = 1 .. Len(s)
  OBVIOUS
<1>2. ASSUME NEW i \in 1 .. Len(s), i # 1
      PROVE  i - 1 \in 1 .. Len(s) - 1 /\ Tail(s)[i - 1] = s[i]
  <2>1. i - 1 \in 1 .. Len(s) - 1 /\ (i - 1) + 1 = i
    BY <1>1, <1>2
  <2> QED
    BY <1>1, <2>1
<1> QED
  BY <1>1, <1>2

-----------------------------------------------------------------------------
(* Types and the handler                                                   *)

LEMMA TypeInit == Init => TypeOK /\ Handling
<1> SUFFICES ASSUME Init PROVE TypeOK /\ Handling
  OBVIOUS
<1> USE DEF Init, NoHandler
<1>1. work \in Seq(Tasks) /\ Len(work) = 0 /\ calls \in Seq(Served)
      /\ events \in Seq(Records)
  OBVIOUS
<1>2. <<>> \in Seq(Records)
  OBVIOUS
<1>3. records \in [Arms -> Seq(Records)]
  BY <1>2 DEF NoRecords
<1>4. caches \in [Arms -> [Tasks -> Results \union {None}]]
  BY DEF EmptyCaches
<1>5. /\ phase \in Phases /\ arms \in SUBSET Arms /\ pc \in Steps \union {"idle"}
      /\ request \in Served \union {None} /\ result \in Results \union {None}
      /\ called \in BOOLEAN /\ runs \in Nat
  BY DEF Phases
<1>6. saved \in [Arms -> Seq(Records) \union {None}]
  OBVIOUS
<1>7. Len(work) <= MaxRequests
  BY <1>1, BoundsAssumption
<1>8. pc = "idle" /\ phase = "off"
  OBVIOUS
<1> HIDE DEF Init, NoHandler
<1>9. TypeOK
  BY <1>1, <1>3, <1>4, <1>5, <1>6, <1>7 DEF TypeOK
<1> QED
  BY <1>8, <1>9 DEF Handling

LEMMA OtherArm == \A a \in Arms : \E b \in Arms : b # a /\ Arms = {a, b}
<1>1. "control" # "eden"
  OBVIOUS
<1> QED
  BY <1>1, Zenon DEF Arms

\* What is posted.
LEMMA PostFacts ==
  ASSUME TypeOK, NEW a \in arms, work # <<>>
  PROVE  /\ [arm |-> a, task |-> Head(work)] \in Served
         /\ a \in Arms /\ Head(work) \in Tasks /\ Tail(work) \in Seq(Tasks)
         /\ Len(Tail(work)) = Len(work) - 1 /\ Len(work) \in Nat \ {0}
         /\ (arms = {a} \/ arms = Arms)
<1>1. work \in Seq(Tasks) /\ a \in Arms /\ (arms = {a} \/ arms = Arms)
  BY DEF TypeOK, Arms
<1>2. /\ Tail(work) \in Seq(Tasks) /\ Len(Tail(work)) = Len(work) - 1
      /\ Head(work) \in Tasks /\ Len(work) \in Nat \ {0}
  BY <1>1, TailFacts
<1> QED
  BY <1>1, <1>2 DEF Served

\* What is logged and recorded.
LEMMA RecordFacts ==
  ASSUME TypeOK, Handling, pc \in {"log", "reply"}
  PROVE  /\ Record \in Records /\ request.arm \in Arms
         /\ Record.arm = request.arm /\ Record.task = request.task
         /\ Record.result = result /\ Record.called = called
  BY DEF TypeOK, Handling, Record, Records, Served

\* A workload is a sequence of its tasks.
LEMMA WorkloadFacts ==
  ASSUME NEW w \in Workloads
  PROVE  /\ w \in Seq(Tasks) /\ Len(w) = MaxRequests
         /\ \A t \in Tasks : \E i \in DOMAIN w : w[i] = t
         /\ w # <<>>
<1>1. MaxRequests \in Nat /\ w \in [1 .. MaxRequests -> Tasks] /\ ToSet(w) = Tasks
  BY BoundsAssumption DEF Workloads
<1>2. w \in Seq(Tasks) /\ Len(w) = MaxRequests
  BY <1>1
<1>3. \A t \in Tasks : \E i \in DOMAIN w : w[i] = t
  BY <1>1 DEF ToSet
<1> QED
  BY <1>2, <1>3, TasksAssumption

LEMMA TypeStep ==
  ASSUME TypeOK, Handling, Saving, [Next]_vars
  PROVE  TypeOK' /\ Handling'
<1> USE BoundsAssumption DEF handler, disk
<1> DEFINE Goal == TypeOK' /\ Handling'
<1>1. ASSUME Begin PROVE Goal
  BY <1>1, WorkloadFacts DEF Begin, TypeOK, Handling, NoRecords, EmptyCaches, Phases,
     Posted, Arms
<1>2. ASSUME Post PROVE Goal
  <2>1. PICK a \in arms :
          /\ request' = [arm |-> a, task |-> Head(work)]
          /\ IF arms = {a} THEN work' = Tail(work) /\ arms' = Arms
                           ELSE arms' = arms \ {a} /\ UNCHANGED work
    BY <1>2 DEF Post
  <2>2. work # <<>> /\ pc = "idle" /\ pc' = "lookup" /\ phase = "run"
        /\ phase' = phase /\ calls' = calls
    BY <1>2 DEF Post
  <2>3. /\ request' \in Served /\ a \in Arms /\ (arms = {a} \/ arms = Arms)
        /\ Tail(work) \in Seq(Tasks) /\ Len(Tail(work)) = Len(work) - 1
        /\ Len(work) \in Nat \ {0} /\ Len(work) <= MaxRequests
        /\ work \in Seq(Tasks)
    BY <2>1, <2>2, PostFacts DEF TypeOK
  <2>4. {a} # Arms /\ Arms \ {a} # {} /\ Arms \ {a} # Arms
    BY <2>3, OtherArm
  <2>5. Posted' = Posted + 1 /\ work' \in Seq(Tasks) /\ Len(work') <= MaxRequests
        /\ arms' # {} /\ arms' \in SUBSET Arms
        /\ (work' = <<>> => arms' = Arms)
    <3>1. CASE arms = {a}
      BY <2>1, <2>3, <2>4, <3>1 DEF Posted
    <3>2. CASE arms = Arms
      BY <2>1, <2>2, <2>3, <2>4, <3>2 DEF Posted
    <3> QED
      BY <2>3, <3>1, <3>2
  <2>6. TypeOK'
    BY <1>2, <2>2, <2>3, <2>5 DEF Post, TypeOK, Steps, Phases
  <2>7. Len(calls) <= Posted /\ Len(calls) \in Nat /\ Posted \in Int
    BY <2>2, <2>3 DEF TypeOK, Handling, Posted
  <2>8. Len(calls') + 1 <= Posted'
    BY <2>2, <2>5, <2>7
  <2> QED
    BY <2>2, <2>3, <2>5, <2>6, <2>8 DEF Handling
<1>3. ASSUME TimeOut \/ Exit \/ Fail PROVE Goal
  <2>1. TypeOK'
    BY <1>3 DEF TimeOut, Exit, Fail, TypeOK, Phases
  <2>2. /\ phase' # "off" => phase # "off"
        /\ Posted' = Posted /\ calls' = calls /\ arms' = arms /\ work' = work
        /\ \/ pc' = "idle"
           \/ pc' = pc /\ phase' = "aborted" /\ request' = request
              /\ result' = result /\ called' = called
    BY <1>3 DEF TimeOut, Exit, Fail, Posted
  <2>3. phase # "off" => Len(calls) <= Posted /\ Len(calls) \in Nat
    BY DEF Handling, TypeOK, Posted
  <2> QED
    BY <2>1, <2>2, <2>3 DEF Handling
<1>4. ASSUME WriteRecords \/ WriteManifest PROVE Goal
  BY <1>4 DEF WriteRecords, WriteManifest, TypeOK, Handling, Phases, Posted, Arms
<1>5. ASSUME Lookup PROVE Goal
  <2>1. pc = "lookup" /\ request \in Served /\ request.arm \in Arms
        /\ request.task \in Tasks
    BY <1>5 DEF Lookup, Handling, Served
  <2>2. Cached \in Results \union {None}
    BY <2>1 DEF Cached, TypeOK
  <2>3. TypeOK'
    BY <1>5, <2>2 DEF Lookup, TypeOK, Steps
  <2>4. /\ Posted' = Posted /\ UNCHANGED <<calls, arms, work, phase, request>>
        /\ pc' \in {"call", "integrate", "log"}
        /\ pc' = "call" => called'
        /\ pc' # "call" => ~called' /\ result' \in Results
    BY <1>5, <2>2 DEF Lookup, Posted
  <2>5. phase # "off" => Len(calls) + 1 <= Posted /\ Len(calls) \in Nat
    BY <2>1 DEF Handling, TypeOK, Posted
  <2>6. phase # "off" => Len(calls) <= Posted
    BY <2>5 DEF TypeOK, Posted
  <2> QED
    BY <2>1, <2>3, <2>4, <2>5, <2>6 DEF Handling
<1>6. ASSUME CallProvider PROVE Goal
  <2>1. pc = "call" /\ request \in Served /\ phase # "off" /\ called
    BY <1>6 DEF CallProvider, Handling
  <2>2. /\ calls' \in Seq(Served) /\ Len(calls') = Len(calls) + 1
        /\ Len(calls) \in Nat /\ DOMAIN calls' = 1 .. Len(calls) + 1
        /\ calls'[Len(calls) + 1] = request
    BY <1>6, <2>1, AppendFacts DEF CallProvider, TypeOK
  <2>3. /\ Posted' = Posted /\ pc' = "store" /\ result' = Len(calls')
        /\ UNCHANGED <<arms, work, phase, request, called>>
    BY <1>6 DEF CallProvider, Posted
  <2>4. Len(calls) + 1 <= Posted
    BY <2>1 DEF Handling
  <2>5. Posted <= 2 * MaxRequests /\ Posted \in Int
    <3>1. Len(work) \in Nat /\ Len(work) <= MaxRequests
          /\ (arms = Arms \/ Len(work) # 0)
      BY <2>1 DEF Handling, TypeOK
    <3> QED
      BY <3>1 DEF Posted
  <2>6. result' \in Results
    BY <2>2, <2>3, <2>4, <2>5 DEF Results
  <2>7. TypeOK'
    BY <1>6, <2>2, <2>6 DEF CallProvider, TypeOK, Steps
  <2>8. result' \in DOMAIN calls' /\ calls'[result'] = request
    BY <2>2, <2>3
  <2>9. Len(calls') <= Posted'
    BY <2>2, <2>3, <2>4
  <2> QED
    BY <2>1, <2>3, <2>6, <2>7, <2>8, <2>9 DEF Handling
<1>7. ASSUME Store PROVE Goal
  BY <1>7 DEF Store, TypeOK, Handling, Steps, Posted
<1>8. ASSUME Integrate PROVE Goal
  BY <1>8 DEF Integrate, TypeOK, Handling, Steps, Posted
<1>9. ASSUME Log \/ Reply PROVE Goal
  <2>1. events' \in Seq(Records) /\ records' \in [Arms -> Seq(Records)]
    <3>1. Record \in Records /\ request.arm \in Arms
      BY <1>9, RecordFacts DEF Log, Reply
    <3>2. CASE Log
      BY <3>1, <3>2, AppendFacts DEF Log, TypeOK
    <3>3. CASE Reply
      <4>1. \A s \in Seq(Records) : Append(s, Record) \in Seq(Records)
        BY <3>1, AppendFacts
      <4> QED
        BY <3>1, <3>3, <4>1 DEF Reply, TypeOK
    <3> QED
      BY <1>9, <3>2, <3>3
  <2>2. TypeOK'
    BY <1>9, <2>1 DEF Log, Reply, TypeOK, Steps
  <2>3. Posted' = Posted
    BY <1>9 DEF Log, Reply, Posted
  <2> QED
    BY <1>9, <2>2, <2>3 DEF Log, Reply, Handling
<1>10. CASE UNCHANGED vars
  BY <1>10 DEF vars, TypeOK, Handling, Posted
<1> QED
  BY <1>1, <1>2, <1>3, <1>4, <1>5, <1>6, <1>7, <1>8, <1>9, <1>10
  DEF Next, HarnessStep, HandlerStep

-----------------------------------------------------------------------------
(* How far the arms have come                                              *)

LEMMA LengthFacts ==
  ASSUME TypeOK, NEW a \in Arms
  PROVE  Length[a] \in Nat /\ Len(records[a]) \in Nat /\ Len(work) \in Nat
  BY DEF TypeOK, Length

\* Nothing that is posted or left to be posted changes.
LEMMA InStepFrame ==
  ASSUME InStep, UNCHANGED <<work, arms>>, TypeOK,
         \A a \in Arms :
           /\ Length'[a] = Length[a]
           /\ \A i \in 1 .. Length[a] : TaskOf'[a][i] = TaskOf[a][i]
  PROVE  InStep'
<1>1. \A a \in Arms \ arms : Length[a] \in 1 .. Length[a]
  <2>1. \A a \in Arms \ arms : Length[a] + Len(work) = MaxRequests + 1
    BY DEF InStep
  <2> QED
    BY <2>1, LengthFacts, BoundsAssumption DEF TypeOK
<1>2. (\A a \in Arms \ arms : TaskOf[a][Length[a]] = Head(work))'
  BY <1>1 DEF InStep
<1>3. (\A a \in Arms : Length[a] + Len(work)
                         = MaxRequests + (IF a \in arms THEN 0 ELSE 1))'
  BY DEF InStep
<1>4. (\A a, b \in Arms : \A i \in 1 .. Length[a] :
         i <= Length[b] => TaskOf[a][i] = TaskOf[b][i])'
  <2> SUFFICES ASSUME NEW a \in Arms, NEW b \in Arms, NEW i \in 1 .. Length[a],
                      i <= Length[b]
               PROVE  TaskOf'[a][i] = TaskOf'[b][i]
    OBVIOUS
  <2>1. i \in 1 .. Length[b]
    BY LengthFacts
  <2> QED
    BY <2>1 DEF InStep
<1>5. (\A t \in Tasks :
         \/ \E i \in DOMAIN work : work[i] = t
         \/ \A a \in Arms : \E i \in 1 .. Length[a] : TaskOf[a][i] = t)'
  BY DEF InStep
<1> QED
  BY <1>2, <1>3, <1>4, <1>5 DEF InStep

\* One more request for one arm.
LEMMA InStepPost ==
  ASSUME TypeOK, InStep, Post
  PROVE  InStep'
<1>1. PICK a \in arms :
        /\ request' = [arm |-> a, task |-> Head(work)]
        /\ IF arms = {a} THEN work' = Tail(work) /\ arms' = Arms
                         ELSE arms' = arms \ {a} /\ UNCHANGED work
  BY DEF Post
<1>2. work # <<>> /\ pc = "idle" /\ pc' = "lookup" /\ records' = records
  BY DEF Post
<1>3. /\ a \in Arms /\ (arms = {a} \/ arms = Arms) /\ work \in Seq(Tasks)
      /\ Len(Tail(work)) = Len(work) - 1 /\ Len(work) \in Nat \ {0}
  BY <1>2, PostFacts DEF TypeOK
<1>4. PICK b \in Arms : b # a /\ Arms = {a, b}
  BY <1>3, OtherArm
<1>5. request'.arm = a /\ request'.task = Head(work)
  BY <1>1
<1> DEFINE n == Len(records[a])
           m == Len(records[b])
           h == Head(work)
<1>6. n \in Nat /\ m \in Nat /\ MaxRequests \in Nat
  BY <1>3, LengthFacts, BoundsAssumption
<1>7. Length[a] = n /\ Length[b] = m /\ Length'[a] = n + 1 /\ Length'[b] = m
  <2>1. ~Serves(a) /\ ~Serves(b) /\ Serves(a)' /\ ~Serves(b)'
    BY <1>2, <1>4, <1>5 DEF Serves
  <2>2. Len(records'[a]) = n /\ Len(records'[b]) = m
    BY <1>2
  <2> QED
    BY <2>1, <2>2, <1>3, <1>6 DEF Length
<1>8. /\ \A i \in 1 .. n : TaskOf[a][i] = records[a][i].task
                           /\ TaskOf'[a][i] = records[a][i].task
      /\ \A i \in 1 .. m : TaskOf[b][i] = records[b][i].task
                           /\ TaskOf'[b][i] = records[b][i].task
      /\ TaskOf'[a][n + 1] = h
  <2>1. \A i \in 1 .. n : i \in 1 .. n + 1 /\ i <= n
    BY <1>6
  <2>2. n + 1 \in 1 .. n + 1 /\ ~(n + 1 <= n)
    BY <1>6
  <2>3. \A i \in 1 .. m : i <= m
    BY <1>6
  <2> QED
    BY <1>2, <1>3, <1>5, <1>7, <2>1, <2>2, <2>3 DEF TaskOf
<1>9. n + Len(work) = MaxRequests
  <2>1. Length[a] + Len(work) = MaxRequests + 0
    BY <1>3 DEF InStep
  <2> QED
    BY <1>3, <1>6, <1>7, <2>1
<1>10. \A i \in 1 .. n : i <= m => records[a][i].task = records[b][i].task
  <2>1. \A i \in 1 .. Length[a] : i <= Length[b] => TaskOf[a][i] = TaskOf[b][i]
    BY <1>3 DEF InStep
  <2> QED
    BY <1>6, <1>7, <1>8, <2>1
<1>11. \A t \in Tasks :
         \/ \E i \in DOMAIN work : work[i] = t
         \/ (\E i \in 1 .. n : records[a][i].task = t)
            /\ (\E i \in 1 .. m : records[b][i].task = t)
  <2>1. \A t \in Tasks :
          \/ \E i \in DOMAIN work : work[i] = t
          \/ (\E i \in 1 .. n : TaskOf[a][i] = t)
             /\ (\E i \in 1 .. m : TaskOf[b][i] = t)
    BY <1>3, <1>7 DEF InStep
  <2>2. \A t \in Tasks, i \in 1 .. n : TaskOf[a][i] = t => records[a][i].task = t
    BY <1>8
  <2>3. \A t \in Tasks, i \in 1 .. m : TaskOf[b][i] = t => records[b][i].task = t
    BY <1>8
  <2> HIDE DEF n, m
  <2> QED
    BY <2>1, <2>2, <2>3
<1>14. /\ \A i \in 1 .. n : TaskOf'[a][i] = records[a][i].task
       /\ \A i \in 1 .. m : TaskOf'[b][i] = records[b][i].task
       /\ TaskOf'[a][n + 1] = h
  BY <1>8
<1> HIDE DEF n, m, h
<1>12. CASE arms = Arms
  <2>1. work' = work /\ arms' = {b}
    BY <1>1, <1>4, <1>12
  <2>2. m + Len(work) = MaxRequests
    BY <1>6, <1>7, <1>12 DEF InStep
  <2>3. m = n
    BY <1>3, <1>6, <1>9, <2>2
  <2>4. (\A c \in Arms : Length[c] + Len(work)
                           = MaxRequests + (IF c \in arms THEN 0 ELSE 1))'
    BY <1>3, <1>4, <1>6, <1>7, <1>9, <2>1, <2>2
  <2>5. (\A c \in Arms \ arms : TaskOf[c][Length[c]] = Head(work))'
    BY <1>4, <1>7, <1>8, <2>1 DEF h
  <2>6. \A i \in 1 .. n : TaskOf'[a][i] = TaskOf'[b][i]
    BY <1>6, <1>10, <1>14, <2>3
  <2>7. (\A c, d \in Arms : \A i \in 1 .. Length[c] :
           i <= Length[d] => TaskOf[c][i] = TaskOf[d][i])'
    <3>1. \A i \in 1 .. n + 1 : i <= n => i \in 1 .. n
      BY <1>6
    <3> QED
      BY <1>4, <1>6, <1>7, <2>3, <2>6, <3>1
  <2>8. (\A t \in Tasks :
           \/ \E i \in DOMAIN work : work[i] = t
           \/ \A c \in Arms : \E i \in 1 .. Length[c] : TaskOf[c][i] = t)'
    <3>1. \A i \in 1 .. n : i \in 1 .. n + 1
      BY <1>6
    <3>2. ASSUME NEW t \in Tasks, ~ \E i \in DOMAIN work' : work'[i] = t
          PROVE  /\ \E i \in 1 .. Length'[a] : TaskOf'[a][i] = t
                 /\ \E i \in 1 .. Length'[b] : TaskOf'[b][i] = t
      BY <1>7, <1>11, <1>14, <2>1, <3>1, <3>2
    <3> QED
      BY <1>4, <3>2
  <2> QED
    BY <2>4, <2>5, <2>7, <2>8 DEF InStep
<1>13. CASE arms = {a}
  <2>1. work' = Tail(work) /\ arms' = Arms
    BY <1>1, <1>13
  <2>2. m + Len(work) = MaxRequests + 1
    <3>1. b \in Arms \ arms
      BY <1>4, <1>13
    <3>2. Length[b] + Len(work) = MaxRequests + 1
      BY <3>1 DEF InStep
    <3> QED
      BY <1>7, <3>2
  <2>3. m = n + 1
    BY <1>3, <1>6, <1>9, <2>2
  <2>4. (\A c \in Arms : Length[c] + Len(work)
                           = MaxRequests + (IF c \in arms THEN 0 ELSE 1))'
    <3>1. Len(work') = Len(work) - 1
      BY <1>3, <2>1
    <3>2. n + 1 + Len(work') = MaxRequests /\ m + Len(work') = MaxRequests
      BY <1>3, <1>6, <1>9, <2>3, <3>1
    <3>3. \A c \in Arms : Length'[c] + Len(work') = MaxRequests
      BY <1>4, <1>7, <2>3, <3>2
    <3> QED
      BY <1>6, <2>1, <3>3
  <2>5. TaskOf'[b][m] = h
    <3>1. TaskOf[b][m] = h
      BY <1>4, <1>7, <1>13 DEF InStep, h
    <3>2. m \in 1 .. m
      BY <1>6, <2>3
    <3> QED
      BY <1>8, <1>14, <3>1, <3>2
  <2>6. \A i \in 1 .. n + 1 : TaskOf'[a][i] = TaskOf'[b][i]
    <3>1. \A i \in 1 .. n + 1 : i = n + 1 \/ (i \in 1 .. n /\ i \in 1 .. m /\ i <= m)
      BY <1>6, <2>3
    <3> QED
      BY <1>10, <1>14, <2>3, <2>5, <3>1
  <2>7. (\A c, d \in Arms : \A i \in 1 .. Length[c] :
           i <= Length[d] => TaskOf[c][i] = TaskOf[d][i])'
    BY <1>4, <1>7, <2>3, <2>6
  <2>8. (\A t \in Tasks :
           \/ \E i \in DOMAIN work : work[i] = t
           \/ \A c \in Arms : \E i \in 1 .. Length[c] : TaskOf[c][i] = t)'
    <3>1. n + 1 \in 1 .. n + 1 /\ m \in 1 .. m
          /\ \A i \in 1 .. n : i \in 1 .. n + 1
      BY <1>6, <2>3
    <3>2. ASSUME NEW t \in Tasks, ~ \E i \in DOMAIN work' : work'[i] = t
          PROVE  /\ \E i \in 1 .. Length'[a] : TaskOf'[a][i] = t
                 /\ \E i \in 1 .. Length'[b] : TaskOf'[b][i] = t
      <4>1. CASE \E i \in DOMAIN work : work[i] = t
        <5>1. t = h
          BY <1>2, <1>3, <2>1, <3>2, <4>1, TailFacts DEF h
        <5> QED
          BY <1>7, <1>14, <2>5, <3>1, <5>1
      <4>2. CASE ~ \E i \in DOMAIN work : work[i] = t
        BY <1>7, <1>11, <1>14, <3>1, <4>2
      <4> QED
        BY <4>1, <4>2
    <3> QED
      BY <1>4, <3>2
  <2> QED
    BY <2>1, <2>4, <2>7, <2>8 DEF InStep
<1> QED
  BY <1>3, <1>12, <1>13

\* An answer is recorded: what was in flight is in the records.
LEMMA ReplyKeepsTasks ==
  ASSUME TypeOK, Handling, Reply, phase = "run"
  PROVE  \A a \in Arms :
           /\ Length'[a] = Length[a]
           /\ \A i \in 1 .. Length[a] : TaskOf'[a][i] = TaskOf[a][i]
<1> SUFFICES ASSUME NEW a \in Arms
             PROVE  /\ Length'[a] = Length[a]
                    /\ \A i \in 1 .. Length[a] : TaskOf'[a][i] = TaskOf[a][i]
  OBVIOUS
<1>1. /\ pc = "reply" /\ pc' = "idle"
      /\ records' = [records EXCEPT ![request.arm] = Append(@, Record)]
  BY DEF Reply
<1>2. Record \in Records /\ request.arm \in Arms /\ Record.task = request.task
  BY <1>1, RecordFacts
<1> DEFINE s == records[a]
           n == Len(s)
<1>3. s \in Seq(Records) /\ n \in Nat
  BY DEF TypeOK
<1>4. ~Serves(a)'
  BY <1>1 DEF Serves
<1>5. CASE request.arm = a
  <2>1. records'[a] = Append(s, Record)
    BY <1>1, <1>5 DEF TypeOK
  <2>2. /\ Len(records'[a]) = n + 1
        /\ \A i \in 1 .. n : records'[a][i] = s[i]
        /\ records'[a][n + 1] = Record
    BY <1>2, <1>3, <2>1, AppendFacts
  <2>3. Serves(a)
    BY <1>1, <1>5 DEF Serves
  <2> HIDE DEF n, s
  <2>4. Length[a] = n + 1 /\ Length'[a] = n + 1
    BY <1>3, <1>4, <2>2, <2>3 DEF Length, n, s
  <2>5. ASSUME NEW i \in 1 .. n + 1 PROVE TaskOf'[a][i] = TaskOf[a][i]
    <3>1. TaskOf'[a][i] = records'[a][i].task
      BY <2>2, <2>4 DEF TaskOf
    <3>2. TaskOf[a][i] = IF i <= n THEN s[i].task ELSE request.task
      BY <2>4 DEF TaskOf, n, s
    <3>3. (i \in 1 .. n /\ i <= n) \/ (i = n + 1 /\ ~(i <= n))
      BY <1>3
    <3> QED
      BY <1>2, <2>2, <3>1, <3>2, <3>3
  <2> QED
    BY <2>4, <2>5
<1>6. CASE request.arm # a
  <2>1. records'[a] = records[a] /\ ~Serves(a)
    BY <1>1, <1>6 DEF TypeOK, Serves
  <2>2. Length'[a] = Length[a] /\ Length[a] = n
    BY <1>3, <1>4, <2>1 DEF Length
  <2>3. ASSUME NEW i \in 1 .. n PROVE TaskOf'[a][i] = TaskOf[a][i]
    BY <1>3, <2>1, <2>2 DEF TaskOf
  <2> QED
    BY <2>2, <2>3
<1> QED
  BY <1>5, <1>6

\* While a request is in flight, and while files are written, the arms stand still.
LEMMA InStepStep ==
  ASSUME TypeOK, Handling, Intact => InStep, [Next]_vars
  PROVE  (Intact => InStep)'
<1> USE DEF handler, disk
<1> DEFINE Goal == (Intact => InStep)'
<1>1. ASSUME Begin PROVE Goal
  <2>1. /\ work' \in Workloads /\ arms' = Arms /\ records' = NoRecords
        /\ phase = "off" /\ pc' = pc
    BY <1>1 DEF Begin
  <2>2. pc = "idle"
    BY <2>1 DEF Handling
  <2>3. \A a \in Arms : Length'[a] = 0
    BY <2>1, <2>2 DEF Length, Serves, NoRecords
  <2>4. /\ Len(work') = MaxRequests /\ MaxRequests \in Nat
        /\ \A t \in Tasks : \E i \in DOMAIN work' : work'[i] = t
    BY <2>1, WorkloadFacts, BoundsAssumption
  <2> QED
    BY <2>1, <2>3, <2>4 DEF InStep
<1>2. ASSUME Post PROVE Goal
  BY <1>2, InStepPost DEF Post, Intact
<1>3. ASSUME Reply PROVE Goal
  <2>1. UNCHANGED <<work, arms, phase>>
    BY <1>3 DEF Reply
  <2>2. pc = "reply" /\ phase \in {"run", "aborted"}
    BY <1>3 DEF Reply, Handling
  <2> QED
    BY <1>3, <2>1, <2>2, InStepFrame, ReplyKeepsTasks DEF Intact
<1>4. ASSUME TimeOut \/ Exit \/ Fail \/ WriteManifest PROVE Goal
  <2>1. phase' \in {"off", "aborted"}
    BY <1>4 DEF TimeOut, Exit, Fail, WriteManifest, Handling
  <2> QED
    BY <2>1 DEF Intact
<1>5. ASSUME WriteRecords \/ Lookup \/ CallProvider \/ Store \/ Integrate \/ Log
             \/ UNCHANGED vars
      PROVE  Goal
  <2>1. /\ UNCHANGED <<work, arms, records, request>>
        /\ pc' = "idle" <=> pc = "idle"
        /\ Intact' => Intact
    BY <1>5 DEF WriteRecords, Lookup, CallProvider, Store, Integrate, Log, vars,
       Intact
  <2>2. \A a \in Arms : Serves(a)' = Serves(a)
    BY <2>1 DEF Serves
  <2>3. Length' = Length
    BY <2>1, <2>2 DEF Length
  <2>4. TaskOf' = TaskOf
    BY <2>1, <2>3 DEF TaskOf
  <2> QED
    BY <2>1, <2>3, <2>4, InStepFrame
<1> QED
  BY <1>1, <1>2, <1>3, <1>4, <1>5 DEF Next, HarnessStep, HandlerStep

-----------------------------------------------------------------------------
(* Calls                                                                   *)

LEMMA RecordsFacts ==
  ASSUME TypeOK, NEW a \in Arms
  PROVE  /\ records[a] \in Seq(Records)
         /\ Called(records[a]) \subseteq DOMAIN records[a]
         /\ DOMAIN records[a] = 1 .. Len(records[a]) /\ Len(records[a]) \in Nat
         /\ \A i \in DOMAIN records[a] :
              records[a][i] \in Records /\ records[a][i].task \in Tasks
         /\ \A i \in DOMAIN records[a] :
              i \in Called(records[a]) <=> records[a][i].called
<1>1. records[a] \in Seq(Records)
  BY DEF TypeOK
<1>2. /\ DOMAIN records[a] = 1 .. Len(records[a]) /\ Len(records[a]) \in Nat
      /\ \A i \in DOMAIN records[a] : records[a][i] \in Records
  BY <1>1
<1>3. \A r \in Records : r.task \in Tasks
  BY DEF Records
<1> QED
  BY <1>1, <1>2, <1>3 DEF Called

\* The handler works for the other arm, or does nothing that counts.
LEMMA CalledOnceFrame ==
  ASSUME NEW a \in Arms, CalledOnce(a), UNCHANGED <<records, calls>>,
         caches'[a] = caches[a],
         \A t \in Tasks : Holds(a, t)' = Holds(a, t),
         (Serves(a) /\ pc \in {"integrate", "log", "reply"})'
           => Serves(a) /\ pc \in {"integrate", "log", "reply"}
              /\ request' = request,
         (Serves(a) /\ pc \in {"call", "store"})'
           => Serves(a) /\ pc \in {"call", "store"} /\ request' = request
  PROVE  CalledOnce(a)'
<1>1. Called(records[a])' = Called(records[a])
  BY DEF Called
<1> QED
  BY <1>1 DEF CalledOnce

\* The answer is recorded.
LEMMA CalledOnceReply ==
  ASSUME TypeOK, Handling, phase = "run", Reply, NEW a \in Arms, CalledOnce(a)
  PROVE  CalledOnce(a)'
<1>1. /\ pc = "reply" /\ pc' = "idle" /\ UNCHANGED <<calls, caches>>
      /\ records' = [records EXCEPT ![request.arm] = Append(@, Record)]
  BY DEF Reply
<1>2. /\ Record \in Records /\ request.arm \in Arms
      /\ Record.task = request.task /\ Record.called = called
      /\ Record.result = result /\ request \in Served
      /\ called => result \in DOMAIN calls /\ calls[result] = request
  <2>1. pc # "idle" /\ pc \in {"store", "integrate", "log", "reply"}
    BY <1>1
  <2>2. /\ request \in Served
        /\ called => result \in DOMAIN calls /\ calls[result] = request
    BY <2>1 DEF Handling
  <2> QED
    BY <1>1, <2>2, RecordFacts
<1> DEFINE s == records[a]
           n == Len(s)
<1>3. \A t \in Tasks : ~Holds(a, t)'
  BY <1>1 DEF Holds
<1>4. ~Serves(a)'
  BY <1>1 DEF Serves
<1>5. CASE request.arm # a
  <2>1. records'[a] = records[a]
    BY <1>1, <1>5 DEF TypeOK
  <2>2. \A t \in Tasks : ~Holds(a, t)
    BY <1>5 DEF Holds
  <2>3. Called(records'[a]) = Called(records[a])
    BY <2>1
  <2> HIDE DEF s, n
  <2>4. \A t \in Tasks : caches[a][t] # None =>
          \E i \in Called(records[a]) : records[a][i].task = t
    BY <2>2 DEF CalledOnce
  <2> DEFINE C == Called(records[a])
  <2>5. /\ \A i \in DOMAIN records[a] : caches[a][records[a][i].task] # None
        /\ \A i, k \in C : records[a][i].task = records[a][k].task => i = k
    BY DEF CalledOnce
  <2>6. \A i \in C :
          /\ records[a][i].result \in DOMAIN calls
          /\ calls[records[a][i].result] = [arm |-> a, task |-> records[a][i].task]
    BY DEF CalledOnce
  <2> HIDE DEF C
  <2>7. Called(records'[a]) = C
    BY <2>3 DEF C
  <2>8. \A t \in Tasks : caches[a][t] # None =>
          \E i \in C : records[a][i].task = t
    BY <2>4 DEF C
  <2>9. UNCHANGED <<calls, caches>>
    BY <1>1
  <2> QED
    BY <1>3, <1>4, <2>1, <2>5, <2>6, <2>7, <2>8, <2>9 DEF CalledOnce
<1>6. CASE request.arm = a
  <2>1. s \in Seq(Records) /\ records'[a] = Append(s, Record)
    BY <1>1, <1>6 DEF TypeOK
  <2>2. /\ DOMAIN s = 1 .. n /\ DOMAIN records'[a] = 1 .. n + 1 /\ n \in Nat
        /\ \A i \in 1 .. n : records'[a][i] = s[i]
        /\ records'[a][n + 1] = Record
    BY <1>2, <2>1, AppendFacts
  <2>3. \A i \in 1 .. n + 1 : i \in 1 .. n \/ i = n + 1
    BY <2>2
  <2>4. \A i \in 1 .. n : i \in 1 .. n + 1 /\ i # n + 1
    BY <2>2
  <2>5. n + 1 \in 1 .. n + 1
    BY <2>2
  <2> DEFINE C == Called(s)
             D == Called(records'[a])
  <2>6. /\ C \subseteq 1 .. n /\ C \subseteq D
        /\ \A i \in D : i \in C \/ (i = n + 1 /\ called)
        /\ called => n + 1 \in D
    BY <1>2, <2>2, <2>3, <2>4, <2>5 DEF Called
  <2>7. \A i \in C : records'[a][i] = s[i] /\ i # n + 1
    BY <2>2, <2>4, <2>6
  <2>8. request.task \in Tasks /\ Serves(a) /\ caches[a][request.task] # None
    BY <1>1, <1>2, <1>6 DEF CalledOnce, Served, Serves
  <2>9. called <=> Holds(a, request.task)
    BY <1>1, <1>6 DEF Holds
  <2>10. called => \A i \in C : s[i].task # request.task
    BY <2>8, <2>9 DEF CalledOnce
  <2>11. request = [arm |-> a, task |-> request.task]
    BY <1>2, <1>6 DEF Served
  <2> HIDE DEF s, n, C, D
  <2>12. \A i \in 1 .. n + 1 : caches[a][records'[a][i].task] # None
    <3>1. \A i \in 1 .. n : caches[a][s[i].task] # None
      BY <2>2 DEF CalledOnce, s
    <3> QED
      BY <1>2, <2>2, <2>3, <2>8, <3>1
  <2>13. \A i, k \in D : records'[a][i].task = records'[a][k].task => i = k
    <3>1. \A i, k \in C : s[i].task = s[k].task => i = k
      BY DEF CalledOnce, s, C
    <3> QED
      BY <1>2, <2>2, <2>6, <2>7, <2>10, <3>1
  <2>14. \A t \in Tasks : caches[a][t] # None =>
           \E i \in D : records'[a][i].task = t
    <3>1. ASSUME NEW t \in Tasks, caches[a][t] # None
          PROVE  Holds(a, t) \/ \E i \in C : s[i].task = t
      BY <3>1 DEF CalledOnce, s, C
    <3>2. ASSUME NEW t \in Tasks, Holds(a, t) PROVE called /\ t = request.task
      BY <3>2 DEF Holds
    <3> QED
      BY <1>2, <2>2, <2>6, <2>7, <3>1, <3>2
  <2>15. \A i \in D :
           /\ records'[a][i].result \in DOMAIN calls
           /\ calls[records'[a][i].result] = [arm |-> a,
                                              task |-> records'[a][i].task]
    <3>1. \A i \in C :
            /\ s[i].result \in DOMAIN calls
            /\ calls[s[i].result] = [arm |-> a, task |-> s[i].task]
      BY DEF CalledOnce, s, C
    <3> QED
      BY <1>2, <2>2, <2>6, <2>7, <2>11, <3>1
  <2> QED
    BY <1>1, <1>3, <1>4, <2>2, <2>12, <2>13, <2>14, <2>15 DEF CalledOnce, D
<1> QED
  BY <1>5, <1>6

\* A new call is numbered after those that are in records.
LEMMA CalledOnceCall ==
  ASSUME TypeOK, Handling, CallProvider, NEW a \in Arms, CalledOnce(a)
  PROVE  CalledOnce(a)'
<1>1. /\ pc = "call" /\ pc' = "store"
      /\ UNCHANGED <<records, caches, request>> /\ calls' = Append(calls, request)
  BY DEF CallProvider
<1>2. request \in Served /\ calls \in Seq(Served)
  BY <1>1 DEF Handling, TypeOK
<1>3. /\ DOMAIN calls \subseteq DOMAIN calls'
      /\ \A c \in DOMAIN calls : calls'[c] = calls[c]
  <2>1. /\ DOMAIN calls = 1 .. Len(calls) /\ DOMAIN calls' = 1 .. Len(calls) + 1
        /\ Len(calls) \in Nat
        /\ \A c \in 1 .. Len(calls) : calls'[c] = calls[c]
    BY <1>1, <1>2, AppendFacts
  <2> QED
    BY <2>1
<1>4. \A t \in Tasks : ~Holds(a, t) /\ ~Holds(a, t)'
  BY <1>1 DEF Holds
<1>5. Serves(a)' <=> Serves(a)
  BY <1>1 DEF Serves
<1>6. UNCHANGED <<records, caches, request>> /\ pc = "call" /\ pc' = "store"
  BY <1>1
<1> QED
  BY <1>3, <1>4, <1>5, <1>6 DEF CalledOnce, Called

\* The result of a call goes into the cache.
LEMMA CalledOnceStore ==
  ASSUME TypeOK, Handling, Store, NEW a \in Arms, CalledOnce(a)
  PROVE  CalledOnce(a)'
<1>1. /\ pc = "store" /\ pc' \in {"integrate", "log"}
      /\ UNCHANGED <<records, calls, request, called>>
      /\ caches' = [caches EXCEPT ![request.arm][request.task] = result]
  BY DEF Store
<1>2. request.arm \in Arms /\ request.task \in Tasks /\ called
      /\ result # None
  <2>1. pc # "idle" /\ request \in Served /\ called /\ result \in Results
    BY <1>1 DEF Handling
  <2> QED
    BY <2>1, NoneAssumption DEF Served
<1>3. \A t \in Tasks : ~Holds(a, t)
  BY <1>1 DEF Holds
<1>4. Serves(a)' <=> Serves(a)
  BY <1>1 DEF Serves
<1>5. UNCHANGED <<records, calls, request>> /\ pc = "store"
      /\ pc' \in {"integrate", "log"}
  BY <1>1
<1>6. CASE request.arm # a
  <2>1. caches'[a] = caches[a]
    BY <1>1, <1>6 DEF TypeOK
  <2>2. \A t \in Tasks : Holds(a, t)' = Holds(a, t)
    BY <1>5, <1>6 DEF Holds
  <2>3. ~Serves(a) /\ ~Serves(a)'
    BY <1>4, <1>6 DEF Serves
  <2> QED
    BY <1>5, <2>1, <2>2, <2>3, CalledOnceFrame
<1>7. CASE request.arm = a
  <2> DEFINE u == request.task
             C == Called(records[a])
  <2>1. /\ \A t \in Tasks : t # u => caches'[a][t] = caches[a][t]
        /\ caches'[a][u] # None
    BY <1>1, <1>2, <1>7 DEF TypeOK
  <2>2. caches[a][u] = None
    BY <1>5, <1>7 DEF CalledOnce, Serves
  <2>3. \A i \in DOMAIN records[a] : caches[a][records[a][i].task] # None
    BY DEF CalledOnce
  <2>4. \A i \in DOMAIN records[a] :
          records[a][i].task # u /\ records[a][i].task \in Tasks
    BY <2>2, <2>3, RecordsFacts
  <2>5. C \subseteq DOMAIN records[a]
    BY RecordsFacts
  <2>6. \A t \in Tasks : Holds(a, t)' <=> t = u
    BY <1>1, <1>2, <1>7 DEF Holds
  <2>7. \A t \in Tasks : caches[a][t] # None =>
          \E i \in C : records[a][i].task = t
    BY <1>3 DEF CalledOnce
  <2>8. \A i, k \in C : records[a][i].task = records[a][k].task => i = k
    BY DEF CalledOnce
  <2>9. \A i \in C :
          /\ records[a][i].result \in DOMAIN calls
          /\ calls[records[a][i].result] = [arm |-> a, task |-> records[a][i].task]
    BY DEF CalledOnce
  <2>10. Called(records'[a]) = C
    BY <1>5
  <2>11. \A i \in DOMAIN records[a] : caches'[a][records[a][i].task] # None
    BY <2>1, <2>3, <2>4
  <2>12. \A t \in Tasks : caches'[a][t] # None =>
           t = u \/ \E i \in C : records[a][i].task = t
    BY <2>1, <2>7
  <2> HIDE DEF C
  <2>13. \A t \in Tasks : Holds(a, t)' => \A i \in C : records[a][i].task # t
    BY <2>4, <2>5, <2>6
  <2> QED
    BY <1>5, <2>1, <2>6, <2>8, <2>9, <2>10, <2>11, <2>12, <2>13
    DEF CalledOnce
<1> QED
  BY <1>6, <1>7

LEMMA CalledOnceStep ==
  ASSUME TypeOK, Handling, Intact => \A a \in Arms : CalledOnce(a), [Next]_vars
  PROVE  (Intact => \A a \in Arms : CalledOnce(a))'
<1> USE DEF handler, disk
<1> DEFINE Goal == (Intact => \A a \in Arms : CalledOnce(a))'
<1>1. ASSUME Begin PROVE Goal
  <2>1. /\ records' = NoRecords /\ caches' = EmptyCaches /\ pc' = "idle"
    BY <1>1 DEF Begin, Handling
  <2>2. \A a \in Arms : Called(records'[a]) = {} /\ DOMAIN records'[a] = {}
    BY <2>1 DEF Called, NoRecords
  <2>3. \A a \in Arms, t \in Tasks : caches'[a][t] = None
    BY <2>1 DEF EmptyCaches
  <2>4. \A a \in Arms : ~Serves(a)' /\ \A t \in Tasks : ~Holds(a, t)'
    BY <2>1 DEF Serves, Holds
  <2> QED
    BY <2>2, <2>3, <2>4 DEF CalledOnce
<1>2. ASSUME TimeOut \/ Exit \/ Fail \/ WriteManifest PROVE Goal
  <2>1. phase' \in {"off", "aborted"}
    BY <1>2 DEF TimeOut, Exit, Fail, WriteManifest, Handling
  <2> QED
    BY <2>1 DEF Intact
<1>3. ASSUME Reply PROVE Goal
  <2>1. phase \in {"run", "aborted"} /\ phase' = phase
    BY <1>3 DEF Reply, Handling
  <2> QED
    BY <1>3, <2>1, CalledOnceReply DEF Intact
<1>4. ASSUME CallProvider \/ Store PROVE Goal
  <2>1. phase' = phase
    BY <1>4 DEF CallProvider, Store
  <2> QED
    BY <1>4, <2>1, CalledOnceCall, CalledOnceStore DEF Intact
<1>5. ASSUME Post \/ WriteRecords \/ UNCHANGED vars, Intact, NEW a \in Arms
      PROVE  CalledOnce(a)'
  <2>1. UNCHANGED <<records, calls, caches>> /\ CalledOnce(a)
    BY <1>5 DEF Post, WriteRecords, vars
  <2>2. \/ pc = "idle" /\ pc' = "lookup"
        \/ UNCHANGED <<pc, request, called>>
    BY <1>5 DEF Post, WriteRecords, vars
  <2>3. \A t \in Tasks : Holds(a, t)' = Holds(a, t)
    BY <2>2 DEF Holds
  <2>4. pc' \in {"integrate", "log", "reply", "call", "store"} =>
          pc' = pc /\ request' = request /\ Serves(a)' = Serves(a)
    BY <2>2 DEF Serves
  <2> QED
    BY <2>1, <2>3, <2>4, CalledOnceFrame
<1>6. ASSUME Lookup, Intact, NEW a \in Arms PROVE CalledOnce(a)'
  <2>1. /\ UNCHANGED <<records, calls, caches, request>> /\ CalledOnce(a)
        /\ pc = "lookup" /\ pc' \in {"call", "integrate", "log"}
        /\ called' = (Cached = None)
        /\ pc' = IF Cached = None THEN "call"
                 ELSE IF request.arm = "eden" THEN "integrate" ELSE "log"
    BY <1>6 DEF Lookup
  <2>2. Serves(a)' => caches'[a][request.task] = Cached
    BY <2>1 DEF Serves, Cached
  <2>3. \A t \in Tasks : ~Holds(a, t) /\ ~Holds(a, t)'
    BY <2>1 DEF Holds
  <2>4. Called(records'[a]) = Called(records[a])
    BY <2>1
  <2> QED
    BY <2>1, <2>2, <2>3, <2>4 DEF CalledOnce
<1>7. ASSUME Integrate \/ Log, Intact, NEW a \in Arms PROVE CalledOnce(a)'
  <2>1. /\ UNCHANGED <<records, calls, caches, request, called>> /\ CalledOnce(a)
        /\ pc \in {"integrate", "log"} /\ pc' \in {"log", "reply"}
    BY <1>7 DEF Integrate, Log
  <2>2. \A t \in Tasks : Holds(a, t)' = Holds(a, t)
    BY <2>1 DEF Holds
  <2>3. Serves(a)' <=> Serves(a)
    BY <2>1 DEF Serves
  <2> QED
    BY <2>1, <2>2, <2>3, CalledOnceFrame
<1>8. ASSUME Post \/ WriteRecords \/ UNCHANGED vars \/ Lookup \/ Integrate \/ Log
      PROVE  Intact' => Intact
  BY <1>8 DEF Post, WriteRecords, vars, Lookup, Integrate, Log, Intact
<1> QED
  BY <1>1, <1>2, <1>3, <1>4, <1>5, <1>6, <1>7, <1>8
  DEF Next, HarnessStep, HandlerStep

\* A call whose result the handler holds is recorded with the answer.
LEMMA CallsKeptStep ==
  ASSUME TypeOK, Handling, Intact => CallsKept, [Next]_vars
  PROVE  (Intact => CallsKept)'
<1> USE DEF handler, disk
<1> DEFINE Goal == (Intact => CallsKept)'
<1>1. ASSUME Begin PROVE Goal
  BY <1>1 DEF Begin, CallsKept
<1>2. ASSUME TimeOut \/ Exit \/ Fail \/ WriteManifest PROVE Goal
  <2>1. phase' \in {"off", "aborted"}
    BY <1>2 DEF TimeOut, Exit, Fail, WriteManifest, Handling
  <2> QED
    BY <2>1 DEF Intact
<1>3. ASSUME Reply, phase = "run", CallsKept PROVE CallsKept'
  <2>1. /\ pc = "reply" /\ calls' = calls
        /\ records' = [records EXCEPT ![request.arm] = Append(@, Record)]
    BY <1>3 DEF Reply
  <2>2. pc # "idle" /\ pc \in {"store", "integrate", "log", "reply"}
    BY <2>1
  <2>3. /\ Record \in Records /\ request.arm \in Arms
        /\ Record.called = called /\ Record.result = result
        /\ called => calls[result] = request
    BY <2>1, <2>2, RecordFacts DEF Handling
  <2> DEFINE a == request.arm
             n == Len(records[a])
  <2>4. /\ records[a] \in Seq(Records) /\ records'[a] = Append(records[a], Record)
        /\ \A b \in Arms : b # a => records'[b] = records[b]
    BY <2>1, <2>3 DEF TypeOK
  <2>5. /\ n \in Nat /\ DOMAIN records[a] = 1 .. n
        /\ DOMAIN records'[a] = 1 .. n + 1
        /\ \A i \in 1 .. n : records'[a][i] = records[a][i]
        /\ records'[a][n + 1] = Record
    BY <2>3, <2>4, AppendFacts
  <2>6. /\ \A i \in 1 .. n : i \in 1 .. n + 1
        /\ n + 1 \in 1 .. n + 1
    BY <2>5
  <2>7. ASSUME NEW b \in Arms, NEW i \in Called(records[b])
        PROVE  i \in Called(records'[b]) /\ records'[b][i] = records[b][i]
    BY <2>4, <2>5, <2>6 DEF Called
  <2>8. called => n + 1 \in Called(records'[a])
    BY <2>3, <2>5, <2>6 DEF Called
  <2>9. \A c \in DOMAIN calls : calls[c].arm \in Arms
    <3>1. calls \in Seq(Served)
      BY DEF TypeOK
    <3>2. \A c \in DOMAIN calls : calls[c] \in Served
      BY <3>1
    <3> QED
      BY <3>2 DEF Served
  <2>10. \A c \in DOMAIN calls :
           \/ \E i \in Called(records[calls[c].arm]) :
                records[calls[c].arm][i].result = c
           \/ called /\ result = c
    BY <1>3 DEF CallsKept
  <2>11. ASSUME NEW c \in DOMAIN calls
         PROVE  \E i \in Called(records'[calls[c].arm]) :
                  records'[calls[c].arm][i].result = c
    <3>1. CASE called /\ result = c
      BY <2>3, <2>5, <2>8, <3>1
    <3>2. CASE \E i \in Called(records[calls[c].arm]) :
                 records[calls[c].arm][i].result = c
      BY <2>7, <2>9, <3>2
    <3> QED
      BY <2>10, <3>1, <3>2
  <2>12. calls' = calls
    BY <2>1
  <2> HIDE DEF a, n
  <2> QED
    BY <2>11, <2>12 DEF CallsKept
<1>4. ASSUME CallProvider, CallsKept PROVE CallsKept'
  <2>1. /\ pc = "call" /\ pc' = "store" /\ records' = records
        /\ calls' = Append(calls, request) /\ result' = Len(calls') /\ called'
    BY <1>4 DEF CallProvider, Handling
  <2>2. /\ DOMAIN calls = 1 .. Len(calls) /\ DOMAIN calls' = 1 .. Len(calls) + 1
        /\ Len(calls) \in Nat /\ Len(calls') = Len(calls) + 1
        /\ \A c \in 1 .. Len(calls) : calls'[c] = calls[c]
    <3>1. request \in Served /\ calls \in Seq(Served)
      BY <2>1 DEF Handling, TypeOK
    <3> QED
      BY <2>1, <3>1, AppendFacts
  <2>3. \A c \in DOMAIN calls' : c \in DOMAIN calls \/ c = result'
    BY <2>1, <2>2
  <2>4. \A c \in DOMAIN calls : \E i \in Called(records[calls[c].arm]) :
          records[calls[c].arm][i].result = c
    BY <1>4, <2>1 DEF CallsKept
  <2>5. \A c \in DOMAIN calls : calls'[c] = calls[c]
    BY <2>2
  <2>6. records' = records /\ pc' = "store" /\ called'
    BY <2>1
  <2> QED
    BY <2>3, <2>4, <2>5, <2>6 DEF CallsKept
<1>5. ASSUME Post \/ WriteRecords \/ UNCHANGED vars \/ Lookup \/ Store
             \/ Integrate \/ Log, CallsKept
      PROVE  CallsKept'
  <2>1. UNCHANGED <<records, calls>>
    BY <1>5 DEF Post, WriteRecords, vars, Lookup, Store, Integrate, Log
  <2>2. pc \in {"store", "integrate", "log", "reply"} =>
          /\ pc' \in {"store", "integrate", "log", "reply"}
          /\ called' = called /\ result' = result
    BY <1>5 DEF Post, WriteRecords, vars, Lookup, Store, Integrate, Log
  <2> QED
    BY <1>5, <2>1, <2>2 DEF CallsKept
<1>6. ASSUME Post \/ WriteRecords \/ UNCHANGED vars \/ Lookup \/ Store
             \/ CallProvider \/ Integrate \/ Log \/ Reply, Intact'
      PROVE  Intact /\ (Reply => phase = "run")
  BY <1>6 DEF Post, WriteRecords, vars, Lookup, Store, CallProvider, Integrate,
     Log, Reply, Intact, Handling
<1> QED
  BY <1>1, <1>2, <1>3, <1>4, <1>5, <1>6 DEF Next, HarnessStep, HandlerStep

-----------------------------------------------------------------------------
(* The log                                                                 *)

LEMMA LoggedFacts ==
  ASSUME TypeOK, NEW a \in Arms
  PROVE  /\ DOMAIN events = 1 .. Len(events) /\ Len(events) \in Nat
         /\ Logged[a] \subseteq 1 .. Len(events) /\ IsFiniteSet(Logged[a])
         /\ Cardinality(Logged[a]) \in Nat
<1>1. events \in Seq(Records)
  BY DEF TypeOK
<1>2. DOMAIN events = 1 .. Len(events) /\ Len(events) \in Nat
  BY <1>1
<1>3. Logged[a] \subseteq 1 .. Len(events)
  BY <1>2 DEF Logged
<1>4. IsFiniteSet(Logged[a])
  <2>1. IsFiniteSet(1 .. Len(events))
    BY <1>2, FS_Interval
  <2> QED
    BY <1>3, <2>1, FS_Subset
<1> QED
  BY <1>2, <1>3, <1>4, FS_CardinalityType

LEMMA LogStep ==
  ASSUME TypeOK, Handling, Intact => LogInStep, [Next]_vars
  PROVE  (Intact => LogInStep)'
<1> USE DEF handler, disk
<1> DEFINE Goal == (Intact => LogInStep)'
<1>1. ASSUME Begin PROVE Goal
  <2>1. records' = NoRecords /\ events' = <<>> /\ pc' = "idle"
    BY <1>1 DEF Begin, Handling
  <2>2. \A a \in Arms : Logged'[a] = {}
    BY <2>1 DEF Logged
  <2> QED
    BY <2>1, <2>2, FS_EmptySet DEF LogInStep, NoRecords
<1>2. ASSUME TimeOut \/ Exit \/ Fail \/ WriteManifest PROVE Goal
  <2>1. phase' \in {"off", "aborted"}
    BY <1>2 DEF TimeOut, Exit, Fail, WriteManifest, Handling
  <2> QED
    BY <2>1 DEF Intact
<1>3. ASSUME Post \/ WriteRecords \/ UNCHANGED vars \/ Lookup \/ Store
             \/ CallProvider \/ Integrate, LogInStep
      PROVE  LogInStep'
  <2>1. /\ UNCHANGED <<records, events>>
        /\ pc' = "reply" <=> pc = "reply"
        /\ pc' = "reply" => UNCHANGED <<request, result, called>>
    BY <1>3 DEF Post, WriteRecords, vars, Lookup, Store, CallProvider, Integrate
  <2>2. Logged' = Logged
    BY <2>1 DEF Logged
  <2>3. pc' = "reply" => Record' = Record
    BY <2>1 DEF Record
  <2>4. Rank' = Rank
    BY <2>2 DEF Rank
  <2> QED
    BY <1>3, <2>1, <2>2, <2>3, <2>4 DEF LogInStep
<1>4. ASSUME Log, LogInStep PROVE LogInStep'
  <2>1. /\ pc = "log" /\ pc' = "reply" /\ events' = Append(events, Record)
        /\ UNCHANGED <<records, request, result, called>>
    BY <1>4 DEF Log
  <2>2. Record \in Records /\ events \in Seq(Records)
    BY <2>1, RecordFacts DEF TypeOK
  <2> DEFINE n == Len(events)
  <2>3. /\ n \in Nat /\ DOMAIN events = 1 .. n /\ DOMAIN events' = 1 .. n + 1
        /\ Len(events') = n + 1 /\ events'[n + 1] = Record
        /\ \A k \in 1 .. n : events'[k] = events[k]
    BY <2>1, <2>2, AppendFacts
  <2>4. \A k \in 1 .. n + 1 : k # n + 1 <=> k \in 1 .. n
    BY <2>3
  <2>5. \A k \in 1 .. n : k \in 1 .. n + 1 /\ k # n + 1
    BY <2>3
  <2> HIDE DEF n
  <2>6. Logged' = Logged
    BY <2>1, <2>3, <2>4, <2>5 DEF Logged
  <2>7. Record' = Record /\ events' # <<>>
    BY <2>1, <2>2 DEF Record
  <2>8. \A a \in Arms : \A k \in Logged[a] : events'[k] = events[k]
    BY <2>3, LoggedFacts DEF n
  <2>9. records' = records
    BY <2>1
  <2>10. Rank' = Rank
    BY <2>6 DEF Rank
  <2> QED
    BY <1>4, <2>3, <2>6, <2>7, <2>8, <2>9, <2>10 DEF LogInStep
<1>5. ASSUME Reply, phase = "run", LogInStep PROVE LogInStep'
  <2>1. /\ pc = "reply" /\ pc' = "idle" /\ events' = events
        /\ records' = [records EXCEPT ![request.arm] = Append(@, Record)]
    BY <1>5 DEF Reply
  <2>2. Record \in Records /\ request.arm \in Arms /\ Record.arm = request.arm
    BY <2>1, RecordFacts
  <2> DEFINE n == Len(events)
  <2>3. /\ n \in Nat \ {0} /\ DOMAIN events = 1 .. n /\ events[n] = Record
    <3>1. events \in Seq(Records) /\ events # <<>> /\ events[n] = Record
      BY <1>5, <2>1 DEF LogInStep, TypeOK
    <3> QED
      BY <3>1
  <2>4. \A a \in Arms : a # request.arm => Logged'[a] = Logged[a]
    BY <2>1, <2>2, <2>3 DEF Logged
  <2>5. /\ Logged'[request.arm] = Logged[request.arm] \union {n}
        /\ n \notin Logged[request.arm]
    BY <2>1, <2>2, <2>3 DEF Logged
  <2>6. /\ records[request.arm] \in Seq(Records)
        /\ records'[request.arm] = Append(records[request.arm], Record)
        /\ \A a \in Arms : a # request.arm => records'[a] = records[a]
    BY <2>1, <2>2 DEF TypeOK
  <2>7. \A a \in Arms :
          /\ Len(records[a]) = Cardinality(Logged[a])
          /\ \A k \in Logged[a] : records[a][Rank[a][k]] = events[k]
    BY <1>5 DEF LogInStep
  <2>8. pc' # "reply" /\ events' = events
    BY <2>1
  <2> DEFINE a == request.arm
             own == Logged[a]
             s == records[a]
             l == Len(s)
             Below(k) == {m \in own : m <= k}
  <2>9. /\ own \subseteq 1 .. n /\ IsFiniteSet(own) /\ Cardinality(own) = l
        /\ l \in Nat
    BY <2>2, <2>7, LoggedFacts
  <2>10. /\ Len(records'[a]) = l + 1 /\ records'[a][l + 1] = Record
         /\ \A i \in 1 .. l : records'[a][i] = s[i]
    BY <2>2, <2>6, AppendFacts
  <2>11. n \notin own /\ Logged'[a] = own \union {n}
    BY <2>5
  <2>12. \A k \in own : s[Rank[a][k]] = events[k] /\ Rank[a][k] = Cardinality(Below(k))
    BY <2>2, <2>7 DEF Rank
  <2>13. Rank'[a] = [k \in Logged'[a] |-> Cardinality({m \in Logged'[a] : m <= k})]
    BY <2>2 DEF Rank
  <2>14. a \in Arms
    BY <2>2
  <2> HIDE DEF a, own, s, l, n
  <2>15. Cardinality(own \union {n}) = l + 1
    <3>1. Cardinality(own \union {n}) = Cardinality(own) + 1
      BY <2>9, <2>11, FS_AddElement
    <3> QED
      BY <2>9, <3>1
  <2>16. Rank'[a][n] = l + 1
    <3>1. \A m \in own \union {n} : m <= n
      BY <2>3, <2>9
    <3>2. {m \in own \union {n} : m <= n} = own \union {n}
      BY <3>1
    <3>3. Rank'[a][n] = Cardinality({m \in own \union {n} : m <= n})
      BY <2>11, <2>13
    <3> QED
      BY <2>15, <3>2, <3>3
  <2>17. ASSUME NEW k \in own
         PROVE  Rank'[a][k] = Rank[a][k] /\ Rank[a][k] \in 1 .. l
    <3>1. k \in 1 .. n /\ k # n /\ n \in Nat
      BY <2>3, <2>9, <2>11
    <3>2. ~(n <= k) /\ k <= k
      BY <3>1
    <3>3. {m \in own \union {n} : m <= k} = Below(k)
      BY <3>2
    <3>4. Rank'[a][k] = Cardinality({m \in own \union {n} : m <= k})
      BY <2>11, <2>13
    <3>5. Rank'[a][k] = Rank[a][k]
      BY <2>12, <3>3, <3>4
    <3>6. Below(k) \subseteq own /\ k \in Below(k)
      BY <3>2
    <3> HIDE DEF Below
    <3>7. /\ IsFiniteSet(Below(k)) /\ Cardinality(Below(k)) \in Nat
          /\ Cardinality(Below(k)) <= l
      BY <2>9, <3>6, FS_Subset, FS_CardinalityType
    <3>8. Cardinality(Below(k)) # 0
      BY <3>6, <3>7, FS_EmptySet
    <3> QED
      BY <2>9, <2>12, <3>5, <3>7, <3>8
  <2>18. Len(records'[a]) = Cardinality(Logged'[a])
    BY <2>10, <2>11, <2>15
  <2>19. ASSUME NEW k \in Logged'[a] PROVE records'[a][Rank'[a][k]] = events[k]
    <3>1. CASE k = n
      BY <2>3, <2>10, <2>16, <3>1
    <3>2. CASE k \in own
      BY <2>10, <2>12, <2>17, <3>2
    <3> QED
      BY <2>11, <3>1, <3>2
  <2>20. \A b \in Arms : b # a => records'[b] = records[b] /\ Logged'[b] = Logged[b]
    BY <2>4, <2>6 DEF a
  <2>21. \A b \in Arms : b # a => Rank'[b] = Rank[b]
    BY <2>20 DEF Rank
  <2>22. \A b \in Arms :
           /\ Len(records'[b]) = Cardinality(Logged'[b])
           /\ \A k \in Logged'[b] : records'[b][Rank'[b][k]] = events[k]
    <3> TAKE b \in Arms
    <3>1. CASE b = a
      BY <2>18, <2>19, <3>1
    <3>2. CASE b # a
      BY <2>7, <2>20, <2>21, <3>2
    <3> QED
      BY <3>1, <3>2
  <2> QED
    BY <2>8, <2>22 DEF LogInStep
<1>6. ASSUME Post \/ WriteRecords \/ UNCHANGED vars \/ Lookup \/ Store
             \/ CallProvider \/ Integrate \/ Log \/ Reply, Intact'
      PROVE  Intact /\ (Reply => phase = "run")
  BY <1>6 DEF Post, WriteRecords, vars, Lookup, Store, CallProvider, Integrate,
     Log, Reply, Intact, Handling
<1> QED
  BY <1>1, <1>2, <1>3, <1>4, <1>5, <1>6 DEF Next, HarnessStep, HandlerStep

-----------------------------------------------------------------------------
(* The end of a run                                                        *)

LEMMA SavingStep ==
  ASSUME TypeOK, Handling, Saving, [Next]_vars
  PROVE  Saving'
<1> USE DEF handler, disk
<1> DEFINE Goal == Saving'
<1>1. ASSUME Begin \/ TimeOut \/ Exit \/ Fail \/ WriteManifest PROVE Goal
  <2>1. phase' \in {"run", "off", "aborted"}
    BY <1>1 DEF Begin, TimeOut, Exit, Fail, WriteManifest, Handling
  <2> QED
    BY <2>1 DEF Saving
<1>2. ASSUME WriteRecords PROVE Goal
  <2>1. work' = work /\ records' = records /\ work = <<>>
    BY <1>2 DEF WriteRecords, Saving
  <2>2. CASE phase = "run"
    BY <1>2, <2>1, <2>2 DEF WriteRecords, Saving, TypeOK, Arms
  <2>3. CASE phase = "save"
    <3>1. /\ phase' = "manifest" /\ saved' = [saved EXCEPT !["eden"] = records["eden"]]
          /\ saved["control"] = records["control"]
      BY <1>2, <2>3 DEF WriteRecords, Saving
    <3>2. \A a \in Arms : a = "eden" \/ a = "control"
      BY DEF Arms
    <3>3. "eden" \in Arms /\ "control" \in Arms
      BY DEF Arms
    <3>4. \A a \in Arms : saved'[a] = records[a]
      BY <3>1, <3>2, <3>3 DEF TypeOK
    <3>5. saved' = records
      BY <3>1, <3>4 DEF TypeOK
    <3> QED
      BY <2>1, <3>1, <3>5 DEF Saving
  <2> QED
    BY <1>2, <2>2, <2>3 DEF WriteRecords
<1>3. ASSUME Post \/ Reply \/ Lookup \/ CallProvider \/ Store \/ Integrate \/ Log
             \/ UNCHANGED vars
      PROVE  Goal
  <2>1. \/ phase' = phase /\ phase \in {"run", "aborted"}
        \/ UNCHANGED <<phase, work, records, saved>>
    BY <1>3 DEF Post, Reply, Lookup, CallProvider, Store, Integrate, Log, vars,
       Handling
  <2> QED
    BY <2>1 DEF Saving
<1> QED
  BY <1>1, <1>2, <1>3 DEF Next, HarnessStep, HandlerStep

\* A run that is over has had every task in both arms, and called for each once.
LEMMA RunOver ==
  ASSUME TypeOK, Handling, InStep, \A a \in Arms : CalledOnce(a), Saving,
         phase = "manifest"
  PROVE  /\ \A a \in Arms : Len(records[a]) = MaxRequests
         /\ \A a, b \in Arms : \A i \in 1 .. MaxRequests :
              records[a][i].task = records[b][i].task
         /\ \A a \in Arms : Cardinality(Called(records[a])) = Cardinality(Tasks)
<1>1. work = <<>> /\ pc = "idle" /\ arms = Arms /\ MaxRequests \in Nat
  BY BoundsAssumption DEF Saving, Handling
<1>2. \A a \in Arms : Length[a] = Len(records[a])
  BY <1>1, RecordsFacts DEF Length, Serves
<1>3. \A a \in Arms : Len(records[a]) = MaxRequests
  <2>1. \A a \in Arms : Length[a] + 0 = MaxRequests + 0
    BY <1>1 DEF InStep
  <2> QED
    BY <1>1, <1>2, <2>1, LengthFacts
<1>4. \A a \in Arms : \A i \in 1 .. MaxRequests : TaskOf[a][i] = records[a][i].task
  BY <1>1, <1>2, <1>3 DEF TaskOf
<1>5. \A a, b \in Arms : \A i \in 1 .. MaxRequests :
        records[a][i].task = records[b][i].task
  <2>1. \A a, b \in Arms : \A i \in 1 .. MaxRequests : TaskOf[a][i] = TaskOf[b][i]
    BY <1>1, <1>2, <1>3 DEF InStep
  <2> QED
    BY <1>4, <2>1
<1>6. ASSUME NEW a \in Arms
      PROVE  Cardinality(Called(records[a])) = Cardinality(Tasks)
  <2> DEFINE C == Called(records[a])
             f == [i \in C |-> records[a][i].task]
  <2>1. C \subseteq 1 .. MaxRequests
    BY <1>3, RecordsFacts
  <2>2. IsFiniteSet(C)
    <3>1. IsFiniteSet(1 .. MaxRequests)
      BY <1>1, FS_Interval
    <3> QED
      BY <2>1, <3>1, FS_Subset
  <2>3. \A i \in C : records[a][i].task \in Tasks
    BY RecordsFacts
  <2>4. \A i, k \in C : f[i] = f[k] => i = k
    BY DEF CalledOnce
  <2>5. ASSUME NEW t \in Tasks PROVE \E i \in C : f[i] = t
    <3>1. \E i \in 1 .. MaxRequests : TaskOf[a][i] = t
      BY <1>1, <1>2, <1>3 DEF InStep
    <3>2. \E i \in DOMAIN records[a] : records[a][i].task = t
      BY <1>3, <1>4, <3>1, RecordsFacts
    <3>3. caches[a][t] # None
      BY <3>2 DEF CalledOnce
    <3>4. ~Holds(a, t)
      BY <1>1 DEF Holds
    <3> QED
      BY <3>3, <3>4 DEF CalledOnce
  <2> HIDE DEF C
  <2>6. f \in Bijection(C, Tasks)
    BY <2>3, <2>4, <2>5 DEF Bijection, Injection, Surjection, IsInjective
  <2>7. ExistsBijection(C, Tasks)
    BY <2>6 DEF ExistsBijection
  <2> QED
    BY <2>2, <2>7, FS_Bijection DEF C
<1> QED
  BY <1>3, <1>5, <1>6

\* What LogMatchesRecords says of a manifest: m commits to a log and to records.
Matches(m) ==
  \A a \in Arms :
    LET own == {k \in DOMAIN m.events : m.events[k].arm = a}
    IN  /\ Len(m.saved[a]) = Cardinality(own)
        /\ \A k \in own :
             m.saved[a][Cardinality({l \in own : l <= k})] = m.events[k]

\* The manifest commits to a run that is over, and to its log.
LEMMA ManifestStep ==
  ASSUME TypeOK, Handling,
         Intact => InStep /\ LogInStep /\ \A a \in Arms : CalledOnce(a),
         Saving, ArmsAlike, LogMatchesRecords, [Next]_vars
  PROVE  ArmsAlike' /\ LogMatchesRecords'
<1> USE DEF handler, disk
<1>a. LogMatchesRecords => (manifest # None => Matches(manifest))
  BY Zenon DEF LogMatchesRecords, Matches
<1>b. (manifest' # None => Matches(manifest')) => LogMatchesRecords'
  BY Zenon DEF LogMatchesRecords, Matches
<1>1. CASE manifest' = manifest
  <2>1. ArmsAlike'
    BY <1>1 DEF ArmsAlike
  <2>2. LogMatchesRecords'
    BY <1>1, <1>a, <1>b
  <2> QED
    BY <2>1, <2>2
<1>2. CASE WriteManifest
  <2>1. phase = "manifest" /\ manifest' = [events |-> events, saved |-> saved]
    BY <1>2 DEF WriteManifest
  <2>2. saved = records /\ Intact /\ pc = "idle"
    BY <2>1 DEF Saving, Intact, Handling
  <2>3. manifest'.saved = records /\ manifest'.events = events
    BY <2>1, <2>2
  <2>4. /\ \A a \in Arms : Len(records[a]) = MaxRequests
        /\ \A a, b \in Arms : \A i \in 1 .. MaxRequests :
             records[a][i].task = records[b][i].task
        /\ \A a \in Arms : Cardinality(Called(records[a])) = Cardinality(Tasks)
    BY <2>1, <2>2, RunOver
  <2>5. "control" \in Arms /\ "eden" \in Arms
    BY DEF Arms
  <2>6. ArmsAlike'
    BY <2>3, <2>4, <2>5 DEF ArmsAlike
  <2>7. ASSUME NEW a \in Arms, NEW own, own = {k \in DOMAIN events : events[k].arm = a}
        PROVE  /\ Len(records[a]) = Cardinality(own)
               /\ \A k \in own :
                    records[a][Cardinality({m \in own : m <= k})] = events[k]
    <3>1. own = Logged[a]
      BY <2>2, <2>7 DEF Logged
    <3>2. /\ Len(records[a]) = Cardinality(Logged[a])
          /\ \A k \in Logged[a] : records[a][Rank[a][k]] = events[k]
      BY <2>2 DEF LogInStep
    <3>3. \A k \in own : Rank[a][k] = Cardinality({m \in own : m <= k})
      BY <3>1, Zenon DEF Rank
    <3> QED
      BY <3>1, <3>2, <3>3
  <2>8. Matches(manifest')
    <3>1. SUFFICES ASSUME NEW a \in Arms
                   PROVE  LET own == {k \in DOMAIN events : events[k].arm = a}
                          IN  /\ Len(records[a]) = Cardinality(own)
                              /\ \A k \in own :
                                   records[a][Cardinality({l \in own : l <= k})]
                                     = events[k]
      BY <2>3 DEF Matches
    <3> DEFINE own == {k \in DOMAIN events : events[k].arm = a}
    <3>2. own = {k \in DOMAIN events : events[k].arm = a}
      OBVIOUS
    <3> HIDE DEF own
    <3>3. /\ Len(records[a]) = Cardinality(own)
          /\ \A k \in own :
               records[a][Cardinality({l \in own : l <= k})] = events[k]
      BY <2>7, <3>2
    <3> QED
      BY <3>3 DEF own
  <2>9. LogMatchesRecords'
    BY <2>8, <1>b
  <2> QED
    BY <2>6, <2>9
<1> QED
  BY <1>1, <1>2 DEF Next, HarnessStep, HandlerStep, Begin, Post, TimeOut, Exit,
     WriteRecords, Lookup, CallProvider, Store, Integrate, Log, Reply, Fail, vars

\* Every call is in one record.
LEMMA ReportComplete == IInv => CallsReported
<1> SUFFICES ASSUME IInv, phase = "manifest", NEW c \in DOMAIN calls
             PROVE  LET log == saved[calls[c].arm] IN
                    Cardinality({i \in Called(log) : log[i].result = c}) = 1
  BY DEF CallsReported
<1> DEFINE a == calls[c].arm
           S == {i \in Called(records[a]) : records[a][i].result = c}
<1>1. saved = records /\ pc = "idle"
  BY DEF IInv, Saving, Handling
<1>2. a \in Arms
  <2>1. calls \in Seq(Served)
    BY DEF IInv, TypeOK
  <2>2. calls[c] \in Served
    BY <2>1
  <2> QED
    BY <2>2 DEF Served
<1>3. CalledOnce(a) /\ CallsKept
  BY <1>2 DEF IInv, Intact
<1>4. \E i \in S : TRUE
  BY <1>1, <1>3 DEF CallsKept
<1>5. \A i, k \in S : i = k
  <2> HIDE DEF a
  <2>1. ASSUME NEW i \in S PROVE calls[c].task = records[a][i].task
    <3>1. calls[c] = [arm |-> a, task |-> records[a][i].task]
      BY <1>3 DEF CalledOnce
    <3> QED
      BY <3>1
  <2> QED
    BY <1>3, <2>1 DEF CalledOnce
<1>6. PICK i : S = {i}
  BY <1>4, <1>5
<1>7. Cardinality(S) = 1
  BY <1>6, FS_Singleton
<1> QED
  BY <1>1, <1>7

-----------------------------------------------------------------------------
(* The invariant                                                           *)

LEMMA InvariantInit == Init => IInv
<1> SUFFICES ASSUME Init PROVE IInv
  OBVIOUS
<1>1. TypeOK /\ Handling
  BY TypeInit
<1>2. phase = "off" /\ manifest = None
  BY DEF Init
<1> QED
  BY <1>1, <1>2 DEF IInv, Intact, Saving, ArmsAlike, LogMatchesRecords

LEMMA InvariantStep == IInv /\ [Next]_vars => IInv'
<1> SUFFICES ASSUME IInv, [Next]_vars PROVE IInv'
  OBVIOUS
<1> USE DEF IInv
<1>1. TypeOK' /\ Handling'
  BY TypeStep
<1>2. (Intact => InStep)'
  BY InStepStep
<1>3. (Intact => \A a \in Arms : CalledOnce(a))'
  BY CalledOnceStep
<1>4. (Intact => CallsKept)'
  BY CallsKeptStep
<1>5. (Intact => LogInStep)'
  BY LogStep
<1>6. Saving' /\ ArmsAlike' /\ LogMatchesRecords'
  BY SavingStep, ManifestStep
<1> QED
  BY <1>1, <1>2, <1>3, <1>4, <1>5, <1>6

LEMMA InvariantHolds == Spec => []IInv
  BY InvariantInit, InvariantStep, PTL DEF Spec

\* The variables of the harness and of the service keep their types; the results
\* of a run are numbered within the requests of both arms.
THEOREM TypeCorrect == Spec => []TypeOK
<1>1. IInv => TypeOK
  BY DEF IInv
<1> QED
  BY <1>1, InvariantHolds, PTL

\* For any workload and any order of the arms, a run with a manifest has asked
\* both arms the same and has called the provider once per task and arm.
THEOREM ArmsAreAlike == Spec => []ArmsAlike
<1>1. IInv => ArmsAlike
  BY DEF IInv
<1> QED
  BY <1>1, InvariantHolds, PTL

\* When the records of a run are complete, each provider call is in one of them.
THEOREM AllCallsAreReported == Spec => []CallsReported
  BY ReportComplete, InvariantHolds, PTL

\* The log that a manifest commits to is, arm by arm, the list of records that it
\* commits to, whatever earlier runs and abandoned handlers have written.
THEOREM LogIsTheRecords == Spec => []LogMatchesRecords
<1>1. IInv => LogMatchesRecords
  BY DEF IInv
<1> QED
  BY <1>1, InvariantHolds, PTL

-----------------------------------------------------------------------------
(* The Refinery benchmark                                                  *)

\* What the pool has not taken yet is as it was; a thread is at a request of its
\* own that has no record yet, and its attempts are the calls made for it.
Pool ==
  /\ next \in Nat \ {0}
  /\ \A i \in R!Requests : i >= next => done[i] = None /\ calls[i] = 0
  /\ \A w \in Workers : worker[w] # None =>
       /\ worker[w] \in [index : R!Requests, attempt : 1 .. Attempts]
       /\ worker[w].index < next
       /\ done[worker[w].index] = None
       /\ calls[worker[w].index] = worker[w].attempt

\* A record, a count of calls and a count of answers for every request.
Ledger ==
  /\ runs \in Nat
  /\ DOMAIN done = R!Requests
  /\ DOMAIN worker = Workers
  /\ sent \in [R!Requests -> Nat]
  /\ unread \in [R!Requests -> Nat]
  /\ calls \in [R!Requests -> Nat]

Billing == Ledger /\ Pool /\ R!BillAccounted

\* The benchmark starts with nothing sent, nothing called and no record.
LEMMA BillingInit == R!Init => Billing
  BY RefineryAssumption
  DEF R!Init, Billing, Ledger, Pool, R!BillAccounted, R!Requests

\* The record of a failure: what was sent for the request could not be read.
LEMMA FailureReturned ==
  ASSUME Billing, NEW w \in Workers, worker[w] # None,
         R!Returns(w, R!Failed(worker[w].index)), UNCHANGED <<runs, next>>,
         sent' \in [R!Requests -> Nat], unread' \in [R!Requests -> Nat],
         \A k \in R!Requests :
           k # worker[w].index => sent'[k] = sent[k] /\ unread'[k] = unread[k],
         sent'[worker[w].index] = unread'[worker[w].index]
  PROVE  Billing'
<1> DEFINE i == worker[w].index
           r == [index |-> i, ok |-> FALSE, run |-> None, answer |-> None]
<1>1. /\ done' = [done EXCEPT ![i] = r]
      /\ worker' = [worker EXCEPT ![w] = None]
      /\ calls' = calls
  BY DEF R!Returns, R!Failed
<1>2. i \in R!Requests /\ i < next /\ done[i] = None
  BY DEF Billing, Pool
<1>3. \A v \in Workers : v # w /\ worker[v] # None => worker[v].index # i
  BY DEF Billing, R!BillAccounted
<1>4. ~r.ok
  OBVIOUS
<1> HIDE DEF r
<1>5. /\ DOMAIN done' = R!Requests /\ done'[i] = r
      /\ \A k \in R!Requests : k # i => done'[k] = done[k]
  BY <1>1, <1>2 DEF Billing, Ledger
<1>6. /\ DOMAIN worker' = Workers /\ worker'[w] = None
      /\ \A v \in Workers : v # w => worker'[v] = worker[v]
  BY <1>1 DEF Billing, Ledger
<1>7. UNCHANGED <<runs, next, calls>>
  BY <1>1
<1> HIDE DEF i
<1>8. Ledger'
  BY <1>5, <1>6, <1>7 DEF Billing, Ledger
<1>9. Pool'
  BY <1>2, <1>3, <1>5, <1>6, <1>7 DEF Billing, Pool, R!Requests
<1>10. R!BillAccounted'
  BY <1>2, <1>4, <1>5, <1>6, <1>7 DEF Billing, R!BillAccounted, i
<1> QED
  BY <1>8, <1>9, <1>10 DEF Billing

\* No step of the benchmark bills what is not accounted for.
LEMMA BillingStep ==
  ASSUME Billing, R!Next PROVE Billing'
<1> DEFINE Goal == Billing'
<1> USE DEF Billing
<1>0. ASSUME UNCHANGED <<next, worker, done, sent, unread, calls>>, runs' \in Nat
      PROVE  Goal
  BY <1>0 DEF Ledger, Pool, R!BillAccounted
<1>1. ASSUME R!Begin PROVE Goal
  <2>1. runs' \in Nat /\ UNCHANGED <<next, worker, done, sent, unread, calls>>
    BY <1>1 DEF R!Begin, R!log, Ledger
  <2> QED
    BY <2>1, <1>0
<1>2. ASSUME NEW status, R!Ends(status) PROVE Goal
  BY <1>2, RefineryAssumption DEF R!Ends, R!Requests, Ledger, Pool, R!BillAccounted
<1>3. ASSUME NEW w \in Workers, R!Take(w) PROVE Goal
  <2> DEFINE task == [index |-> next, attempt |-> 1]
  <2>1. /\ next \in R!Requests /\ next' = next + 1
        /\ worker[w] = None /\ worker' = [worker EXCEPT ![w] = task]
        /\ calls' = [calls EXCEPT ![next] = @ + 1]
        /\ UNCHANGED <<runs, done, sent, unread>>
    BY <1>3 DEF R!Take, R!Requests, Pool
  <2>2. /\ worker'[w] = task
        /\ \A v \in Workers : v # w => worker'[v] = worker[v]
        /\ DOMAIN worker' = Workers
    BY <2>1 DEF Ledger
  <2>3. /\ calls' \in [R!Requests -> Nat] /\ calls'[next] = 1
        /\ \A i \in R!Requests : i # next => calls'[i] = calls[i]
    BY <2>1 DEF Ledger, Pool
  <2>4. task \in [index : R!Requests, attempt : 1 .. Attempts] /\ task.index = next
        /\ task.attempt = 1
    BY <2>1, RefineryAssumption
  <2>a. next' = next + 1 /\ UNCHANGED <<runs, done, sent, unread>>
    BY <2>1
  <2>5. Ledger'
    BY <2>a, <2>2, <2>3 DEF Ledger
  <2> HIDE DEF task
  <2>6. Pool'
    <3>1. next \in R!Requests /\ R!Requests \subseteq Nat
      BY <2>1 DEF R!Requests
    <3> QED
      <4>1. next' \in Nat \ {0}
        BY <2>a DEF Pool
      <4>2. \A i \in R!Requests : i >= next' => done'[i] = None /\ calls'[i] = 0
        <5>1. \A i \in R!Requests : i >= next => done[i] = None /\ calls[i] = 0
          BY DEF Pool
        <5>2. \A i \in R!Requests : i >= next + 1 => i >= next /\ i # next
          BY <3>1
        <5> QED
          BY <2>a, <2>3, <5>1, <5>2
      <4>3. ASSUME NEW v \in Workers, worker'[v] # None, v # w
            PROVE  /\ worker'[v] \in [index : R!Requests, attempt : 1 .. Attempts]
                   /\ worker'[v].index < next'
                   /\ done'[worker'[v].index] = None
                   /\ calls'[worker'[v].index] = worker'[v].attempt
        <5>1. /\ worker[v] \in [index : R!Requests, attempt : 1 .. Attempts]
              /\ worker[v].index < next
              /\ done[worker[v].index] = None
              /\ calls[worker[v].index] = worker[v].attempt
          BY <4>3, <2>2 DEF Pool
        <5>2. worker[v].index \in R!Requests /\ worker[v].index # next
          BY <5>1, <3>1
        <5>3. next' > worker[v].index
          <6>1. worker[v].index \in Nat /\ next \in Nat
            BY <3>1, <5>2
          <6> QED
            BY <2>a, <5>1, <6>1
        <5>4. worker'[v] = worker[v]
          BY <4>3, <2>2
        <5> QED
          BY <2>a, <2>3, <5>1, <5>2, <5>3, <5>4, <3>1
      <4>4. /\ done[next] = None /\ next < next'
        BY <2>a, <3>1 DEF Pool
      <4> QED
        BY <2>a, <2>2, <2>3, <2>4, <3>1, <4>1, <4>2, <4>3, <4>4 DEF Pool
  <2>7. R!BillAccounted'
    BY <2>a, <2>2, <2>3, <2>4, RefineryAssumption DEF Pool, R!BillAccounted
  <2> QED
    BY <2>5, <2>6, <2>7
<1>4. ASSUME NEW w \in Workers, R!Answer(w) PROVE Goal
  <2> DEFINE i == worker[w].index
             r == [index |-> i, ok |-> TRUE, run |-> runs, answer |-> sent[i] + 1]
  <2>1. /\ worker[w] # None
        /\ done' = [done EXCEPT ![i] = r]
        /\ worker' = [worker EXCEPT ![w] = None]
        /\ sent' = [sent EXCEPT ![i] = @ + 1]
        /\ UNCHANGED <<runs, next, calls, unread>>
    BY <1>4 DEF R!Answer, R!Returns, R!Answered, R!Calling, R!CallStep
  <2>2. i \in R!Requests /\ i < next /\ done[i] = None
    BY <2>1 DEF Pool
  <2>3. r \in R!Answers /\ r.ok /\ r.answer = sent[i] + 1
    BY <2>2 DEF R!Answers, Ledger
  <2> HIDE DEF i, r
  <2>4. r # None
    BY <2>3, RefineryAssumption
  <2>5. /\ DOMAIN done' = R!Requests /\ done'[i] = r
        /\ \A k \in R!Requests : k # i => done'[k] = done[k]
    BY <2>1, <2>2 DEF Ledger
  <2>6. /\ sent' \in [R!Requests -> Nat] /\ sent'[i] = sent[i] + 1
        /\ \A k \in R!Requests : k # i => sent'[k] = sent[k]
    BY <2>1, <2>2 DEF Ledger
  <2>7. /\ DOMAIN worker' = Workers /\ worker'[w] = None
        /\ \A v \in Workers : v # w => worker'[v] = worker[v]
    BY <2>1 DEF Ledger
  <2>8. \A v \in Workers : v # w /\ worker[v] # None => worker[v].index # i
    BY <2>1 DEF i, R!BillAccounted
  <2>9. UNCHANGED <<runs, next, calls, unread>>
    BY <2>1
  <2>10. Ledger'
    BY <2>5, <2>6, <2>7, <2>9 DEF Ledger
  <2>11. Pool'
    BY <2>2, <2>5, <2>7, <2>8, <2>9 DEF Pool, R!Requests
  <2>12. R!BillAccounted'
    BY <2>2, <2>3, <2>4, <2>5, <2>6, <2>7, <2>9 DEF R!BillAccounted, Ledger
  <2> QED
    BY <2>10, <2>11, <2>12
<1>5. ASSUME NEW w \in Workers, worker[w] # None, R!TriesAgain(w),
             UNCHANGED <<runs, next>>,
             sent' \in [R!Requests -> Nat], unread' \in [R!Requests -> Nat],
             \A k \in R!Requests :
               k # worker[w].index => sent'[k] = sent[k] /\ unread'[k] = unread[k],
             sent'[worker[w].index] = unread'[worker[w].index]
      PROVE  Goal
  <2> DEFINE i == worker[w].index
  <2>1. i \in R!Requests /\ i < next /\ done[i] = None /\ calls[i] = worker[w].attempt
    BY <1>5 DEF Pool
  <2>2. \A v \in Workers : v # w /\ worker[v] # None => worker[v].index # i
    BY <1>5 DEF R!BillAccounted
  <2>3. CASE worker[w].attempt < Attempts
    <3> DEFINE again == [worker[w] EXCEPT !.attempt = @ + 1]
    <3>1. /\ worker' = [worker EXCEPT ![w] = again]
          /\ calls' = [calls EXCEPT ![i] = @ + 1] /\ done' = done
      BY <1>5, <2>3 DEF R!TriesAgain
    <3>2. worker[w] \in [index : R!Requests, attempt : 1 .. Attempts]
      BY <1>5 DEF Pool
    <3>3. /\ again = [index |-> i, attempt |-> calls[i] + 1]
          /\ calls[i] + 1 \in 1 .. Attempts
      BY <2>1, <2>3, <3>2, RefineryAssumption
    <3>4. /\ again \in [index : R!Requests, attempt : 1 .. Attempts]
          /\ again.index = i /\ again.attempt = calls[i] + 1
      BY <2>1, <3>3
    <3> HIDE DEF again
    <3>5. /\ DOMAIN worker' = Workers /\ worker'[w] = again
          /\ \A v \in Workers : v # w => worker'[v] = worker[v]
      BY <3>1 DEF Ledger
    <3>6. /\ calls' \in [R!Requests -> Nat] /\ calls'[i] = calls[i] + 1
          /\ \A k \in R!Requests : k # i => calls'[k] = calls[k]
      BY <3>1, <2>1 DEF Ledger
    <3>7. done' = done
      BY <3>1
    <3> HIDE DEF i
    <3>8. Ledger'
      BY <1>5, <3>5, <3>6, <3>7 DEF Ledger
    <3>9. Pool'
      <4>1. next' = next /\ R!Requests \subseteq Nat
        BY <1>5 DEF R!Requests
      <4>2. next' \in Nat \ {0}
        BY <4>1 DEF Pool
      <4>3. \A k \in R!Requests : k >= next' => done'[k] = None /\ calls'[k] = 0
        <5>1. \A k \in R!Requests : k >= next => done[k] = None /\ calls[k] = 0
          BY DEF Pool
        <5>2. i \in Nat /\ next \in Nat
          BY <2>1, <4>1 DEF Pool
        <5>3. \A k \in R!Requests : k >= next => k # i
          BY <2>1, <4>1, <5>2
        <5> QED
          BY <3>6, <3>7, <4>1, <5>1, <5>3
      <4>4. ASSUME NEW v \in Workers, worker'[v] # None, v # w
            PROVE  /\ worker'[v] \in [index : R!Requests, attempt : 1 .. Attempts]
                   /\ worker'[v].index < next'
                   /\ done'[worker'[v].index] = None
                   /\ calls'[worker'[v].index] = worker'[v].attempt
        <5>1. worker'[v] = worker[v] /\ worker[v].index # i
          BY <4>4, <2>2, <3>5
        <5>2. /\ worker[v] \in [index : R!Requests, attempt : 1 .. Attempts]
              /\ worker[v].index < next
              /\ done[worker[v].index] = None
              /\ calls[worker[v].index] = worker[v].attempt
          BY <4>4, <5>1 DEF Pool
        <5>3. worker[v].index \in R!Requests
          BY <5>2
        <5> QED
          BY <3>6, <3>7, <4>1, <5>1, <5>2, <5>3
      <4> QED
        BY <2>1, <3>4, <3>5, <3>6, <3>7, <4>1, <4>2, <4>3, <4>4 DEF Pool
    <3>10. R!BillAccounted'
      <4>1. \A v \in Workers \ {w} : worker'[v] # None => worker'[v].index # i
        BY <2>2, <3>5
      <4>2. \A k \in R!Requests : calls'[k] <= Attempts
        <5>1. calls[i] + 1 <= Attempts
          BY <3>3, RefineryAssumption
        <5> QED
          BY <3>6, <5>1 DEF R!BillAccounted
      <4>3. \A k \in R!Requests :
              IF done'[k] # None /\ done'[k].ok
                THEN done'[k].answer = sent'[k] /\ sent'[k] = unread'[k] + 1
                ELSE sent'[k] = unread'[k]
        BY <1>5, <2>1, <3>7 DEF i, R!BillAccounted
      <4> QED
        BY <3>4, <3>5, <4>1, <4>2, <4>3 DEF R!BillAccounted
    <3> QED
      BY <3>8, <3>9, <3>10
  <2>4. CASE ~(worker[w].attempt < Attempts)
    <3>1. R!Returns(w, R!Failed(i))
      BY <1>5, <2>4 DEF R!TriesAgain
    <3> QED
      BY <1>5, <2>1, <2>2, <3>1, FailureReturned
  <2> QED
    BY <2>3, <2>4
<1>6. ASSUME NEW w \in Workers, R!LoseAnswer(w) PROVE Goal
  <2> DEFINE i == worker[w].index
  <2>1. /\ worker[w] # None /\ R!TriesAgain(w) /\ UNCHANGED <<runs, next>>
        /\ sent' = [sent EXCEPT ![i] = @ + 1]
        /\ unread' = [unread EXCEPT ![i] = @ + 1]
    BY <1>6 DEF R!LoseAnswer, R!Calling, R!CallStep
  <2>2. i \in R!Requests /\ sent[i] = unread[i]
    BY <2>1 DEF Pool, R!BillAccounted
  <2> HIDE DEF i
  <2>3. /\ sent' \in [R!Requests -> Nat] /\ unread' \in [R!Requests -> Nat]
        /\ sent'[i] = unread'[i]
        /\ \A k \in R!Requests : k # i => sent'[k] = sent[k] /\ unread'[k] = unread[k]
    BY <2>1, <2>2 DEF Ledger
  <2> QED
    BY <2>1, <2>3, <1>5 DEF i
<1>7. ASSUME NEW w \in Workers, R!FailCall(w) PROVE Goal
  <2>1. /\ worker[w] # None /\ R!TriesAgain(w)
        /\ UNCHANGED <<runs, next, sent, unread>>
    BY <1>7 DEF R!FailCall, R!Calling, R!CallStep
  <2>2. sent[worker[w].index] = unread[worker[w].index]
    BY <2>1 DEF Pool, R!BillAccounted
  <2> QED
    BY <2>1, <2>2, <1>5 DEF Ledger
<1>8. ASSUME NEW w \in Workers, R!RefuseCall(w) PROVE Goal
  <2>1. /\ worker[w] # None /\ R!Returns(w, R!Failed(worker[w].index))
        /\ UNCHANGED <<runs, next, sent, unread>>
    BY <1>8 DEF R!RefuseCall, R!Calling, R!CallStep
  <2>2. sent[worker[w].index] = unread[worker[w].index]
    BY <2>1 DEF Pool, R!BillAccounted
  <2> QED
    BY <2>1, <2>2, FailureReturned DEF Ledger
<1>9. ASSUME R!WriteRecords PROVE Goal
  <2>1. UNCHANGED <<runs, next, worker, done, sent, unread, calls>>
    BY <1>9 DEF R!WriteRecords, R!log
  <2> QED
    BY <2>1, <1>0 DEF Ledger
<1>10. ASSUME R!Kill \/ R!AddUpFails \/ R!WriteManifest PROVE Goal
  <2>1. \E status : R!Ends(status)
    BY <1>10 DEF R!Kill, R!AddUpFails, R!WriteManifest
  <2> QED
    BY <2>1, <1>2
<1> QED
  BY <1>1, <1>3, <1>4, <1>6, <1>7, <1>8, <1>9, <1>10 DEF R!Next, R!Main, R!Call

\* The provider's bill is accounted for, for any number of requests, threads and
\* attempts (call_one, main of the Refinery benchmark).
THEOREM BillIsAccountedFor == SpecExperiments => []BillAccounted
<1> DEFINE I == program = "refinery" => Billing
<1>1. InitExperiments => I
  BY BillingInit
  DEF InitExperiments, InitFairAB, InitHandset, InitRefinery, InitReuse
<1>2. I /\ [NextExperiments]_allVars => I'
  <2> SUFFICES ASSUME I, [NextExperiments]_allVars, program' = "refinery"
               PROVE  Billing'
    OBVIOUS
  <2>1. CASE UNCHANGED allVars
    BY <2>1 DEF allVars, vars, handler, disk, ofRefinery, Billing, Ledger, Pool,
       R!BillAccounted
  <2>2. CASE RefineryAlone /\ R!Next
    BY <2>2, BillingStep DEF RefineryAlone, Is
  <2> QED
    BY <2>1, <2>2 DEF NextExperiments, FairABAlone, HandsetAlone, RefineryAlone,
       ReuseAlone, Is
<1>3. I => BillAccounted
  BY DEF BillAccounted, Billing
<1> QED
  BY <1>1, <1>2, <1>3, PTL DEF SpecExperiments

-----------------------------------------------------------------------------
(* The samples of the handset trials                                       *)

Before == {"open", "work", "save", "post", "loop", "stop", "join", "close",
           "closed"}
After == {"integrate", "count", "write"}
Readings == [at : Nat, kind : {"pre", "mid", "post"}]

\* The sampler has outlived its window, and its last sample may be in the list.
Late == IF expired /\ sampler \in {"check", "none"} THEN 1 ELSE 0

SamplerType ==
  /\ script \in {"AB-001", "AB-002"}
  /\ pc \in Before \union After \union {"off", "prewarm", "next"}
  /\ sampler \in {"none", "check", "read", "append"}
  /\ samples \in Seq(Readings)
  /\ ticks \in Nat
  /\ sampler = "append" => held \in Readings /\ held.kind = "mid"
  /\ expired \in BOOLEAN /\ stopped \in BOOLEAN
  /\ pc \in {"off", "prewarm", "open"} => sampler = "none"
  /\ pc = "open" => samples = <<>> /\ ticks = 0
  /\ pc \in After \union {"join", "close", "closed"} => stopped
  /\ pc \in After \union {"close", "closed"} => (expired \/ sampler = "none")

\* Samples are in the order in which they were taken until now, the opening one
\* first and none of them the closing one.
Taken(s, now) ==
  /\ \A i \in DOMAIN s : /\ s[i].at <= now
                         /\ s[i].kind # "post"
                         /\ s[i].kind = "pre" => i = 1
  /\ \A i, j \in DOMAIN s : i < j => s[i].at < s[j].at

\* The same up to the closing one, behind which late ones may be.
Closed(s, late) ==
  /\ \A i \in DOMAIN s : /\ s[i].kind = "pre" => i = 1
                         /\ s[i].kind = "post" => i + late >= Len(s)
  /\ \A i, j \in 1 .. Len(s) - late : i < j => s[i].at < s[j].at

Opens(s) == Len(s) >= 1 /\ s[1].kind = "pre"
Closes(s) == \E i \in DOMAIN s : s[i].kind = "post"

\* Until the window is closed, the samples are in order, with the one that the
\* sampler holds, too.
Recording ==
  pc \in Before =>
    /\ Taken(samples, ticks)
    /\ sampler = "append" => Taken(Append(samples, held), ticks)
    /\ script = "AB-002" /\ pc # "open" => Opens(samples)

\* When the closing sample has been taken, one may come that was taken later.
Closing ==
  pc = "closed" =>
    /\ closing \in Readings /\ closing.kind = "post"
    /\ \A i \in 1 .. Len(samples) - Late : samples[i].at < closing.at

\* Once it is closed, one sample may still come.
Recorded ==
  pc \in After =>
    /\ Closed(samples, Late)
    /\ script = "AB-002" => Opens(samples) /\ Closes(samples)
    /\ pc # "integrate" =>
         integrated \in Nat /\ integrated \in Len(samples) - Late .. Len(samples)
    /\ pc = "write" /\ script = "AB-002" =>
         counted \in Nat /\ counted \in integrated .. Len(samples)

Sampled == SamplerType /\ Recording /\ Closing /\ Recorded /\ H!SamplesWhole

\* Sequences of no element and of one.
LEMMA ShortSequences ==
  ASSUME NEW S PROVE <<>> \in Seq(S) /\ \A e \in S : <<e>> \in Seq(S)
  OBVIOUS

\* Before the first run there is no sample and no row.
LEMMA SampledInit == H!Init => Sampled
<1> SUFFICES ASSUME H!Init PROVE Sampled
  OBVIOUS
<1>1. /\ script \in {"AB-001", "AB-002"} /\ pc = "off" /\ row = None
      /\ sampler = "none" /\ samples = <<>> /\ ticks = 0
      /\ expired = FALSE /\ stopped = FALSE
  BY DEF H!Init, H!NoWork
<1>2. SamplerType
  BY <1>1, ShortSequences DEF SamplerType, Before, After
<1>3. Recording /\ Closing /\ Recorded
  BY <1>1 DEF Recording, Closing, Recorded, Before, After
<1>4. H!SamplesWhole
  BY <1>1 DEF H!SamplesWhole
<1> QED
  BY <1>2, <1>3, <1>4 DEF Sampled

\* Every sample of a list has its time.
LEMMA ReadingsAreTimed ==
  ASSUME NEW s \in Seq(Readings)
  PROVE  /\ Len(s) \in Nat /\ DOMAIN s = 1 .. Len(s)
         /\ \A i \in DOMAIN s : s[i].at \in Nat
<1>1. \A i \in DOMAIN s : s[i] \in Readings
  OBVIOUS
<1> QED
  BY <1>1 DEF Readings

\* A sample that was taken after the others.
LEMMA TakeOne ==
  ASSUME NEW s \in Seq(Readings), NEW now \in Nat, Taken(s, now),
         NEW e \in Readings, e.at = now + 1, e.kind = "mid"
  PROVE  Taken(s, now + 1) /\ Taken(Append(s, e), now + 1)
<1> DEFINE r == Append(s, e)
<1>1. /\ DOMAIN s = 1 .. Len(s) /\ DOMAIN r = 1 .. Len(s) + 1 /\ Len(s) \in Nat
      /\ \A i \in 1 .. Len(s) : r[i] = s[i]
      /\ r[Len(s) + 1] = e
  BY AppendFacts
<1>2. \A i \in 1 .. Len(s) : s[i].at \in Nat
  BY ReadingsAreTimed
<1> HIDE DEF r
<1>3. Taken(s, now + 1)
  BY <1>1, <1>2 DEF Taken
<1>4. \A i \in DOMAIN r : /\ r[i].at <= now + 1
                          /\ r[i].kind # "post"
                          /\ r[i].kind = "pre" => i = 1
  BY <1>1, <1>2 DEF Taken
<1>5. ASSUME NEW i \in DOMAIN r, NEW j \in DOMAIN r, i < j PROVE r[i].at < r[j].at
  <2>1. i \in 1 .. Len(s) /\ r[i] = s[i]
    BY <1>1, <1>5
  <2>2. CASE j = Len(s) + 1
    <3>1. s[i].at <= now /\ s[i].at \in Nat
      BY <1>1, <1>2, <2>1 DEF Taken
    <3> QED
      BY <1>1, <2>1, <2>2, <3>1
  <2>3. CASE j \in 1 .. Len(s)
    BY <1>1, <1>5, <2>1, <2>3 DEF Taken
  <2> QED
    BY <1>1, <2>2, <2>3
<1>6. Taken(r, now + 1)
  BY <1>4, <1>5 DEF Taken
<1> QED
  BY <1>3, <1>6 DEF r

\* The window is closed, with a closing sample that was taken after all others, the
\* late one aside, or without one.
LEMMA CloseWhole ==
  ASSUME NEW s \in Seq(Readings), NEW now, Taken(s, now), NEW late \in {0, 1},
         NEW e \in Readings, e.kind = "post",
         \A i \in 1 .. Len(s) - late : s[i].at < e.at
  PROVE  /\ Closed(Append(s, e), late)
         /\ Opens(s) => Opens(Append(s, e)) /\ Closes(Append(s, e))
<1> DEFINE r == Append(s, e)
<1>1. /\ DOMAIN s = 1 .. Len(s) /\ DOMAIN r = 1 .. Len(s) + 1 /\ Len(s) \in Nat
      /\ \A i \in 1 .. Len(s) : r[i] = s[i]
      /\ r[Len(s) + 1] = e /\ Len(r) = Len(s) + 1
  BY AppendFacts
<1> HIDE DEF r
<1>2. \A i \in DOMAIN r : /\ r[i].kind = "pre" => i = 1
                          /\ r[i].kind = "post" => i + late >= Len(r)
  BY <1>1 DEF Taken
<1>3. ASSUME NEW i \in 1 .. Len(r) - late, NEW j \in 1 .. Len(r) - late, i < j
      PROVE  r[i].at < r[j].at
  <2>1. i \in 1 .. Len(s) /\ r[i] = s[i]
    BY <1>1, <1>3
  <2>2. CASE j = Len(s) + 1
    <3>1. i \in 1 .. Len(s) - late
      BY <1>1, <1>3, <2>2
    <3> QED
      BY <1>1, <2>1, <2>2, <3>1
  <2>3. CASE j \in 1 .. Len(s)
    BY <1>1, <1>3, <2>1, <2>3 DEF Taken
  <2> QED
    BY <1>1, <2>2, <2>3
<1>4. Closed(r, late)
  BY <1>2, <1>3 DEF Closed
<1>5. Opens(s) => Opens(r) /\ Closes(r)
  BY <1>1 DEF Opens, Closes
<1> QED
  BY <1>4, <1>5 DEF r

LEMMA CloseWithout ==
  ASSUME NEW s \in Seq(Readings), NEW now, Taken(s, now), NEW late \in {0, 1}
  PROVE  Closed(s, late)
<1>1. DOMAIN s = 1 .. Len(s) /\ Len(s) \in Nat
  OBVIOUS
<1>2. \A i \in 1 .. Len(s) - late : i \in 1 .. Len(s)
  BY <1>1
<1>3. \A i \in DOMAIN s : s[i].kind # "post" /\ (s[i].kind = "pre" => i = 1)
  BY DEF Taken
<1>4. \A i, j \in 1 .. Len(s) : i < j => s[i].at < s[j].at
  BY <1>1 DEF Taken
<1>5. \A i, j \in 1 .. Len(s) - late : i < j => s[i].at < s[j].at
  BY <1>2, <1>4
<1> QED
  BY <1>3, <1>5 DEF Closed

\* The sampler comes with its last sample behind the closing one.
LEMMA CloseLate ==
  ASSUME NEW s \in Seq(Readings), Closed(s, 0), NEW e \in Readings, e.kind = "mid"
  PROVE  /\ Closed(s, 1) /\ Closed(Append(s, e), 1)
         /\ Opens(s) => Opens(Append(s, e))
         /\ Closes(s) => Closes(Append(s, e))
<1> DEFINE r == Append(s, e)
<1>1. /\ DOMAIN s = 1 .. Len(s) /\ DOMAIN r = 1 .. Len(s) + 1 /\ Len(s) \in Nat
      /\ \A i \in 1 .. Len(s) : r[i] = s[i]
      /\ r[Len(s) + 1] = e /\ Len(r) = Len(s) + 1
  BY AppendFacts
<1> HIDE DEF r
<1>2. Closed(s, 1)
  BY <1>1 DEF Closed
<1>3. Closed(r, 1)
  BY <1>1 DEF Closed
<1>4. Opens(s) => Opens(r)
  BY <1>1 DEF Opens
<1>5. Closes(s) => Closes(r)
  BY <1>1 DEF Closes
<1> QED
  BY <1>2, <1>3, <1>4, <1>5 DEF r

\* Time goes on.
LEMMA TakenLater ==
  ASSUME NEW now \in Nat
  PROVE  \A s \in Seq(Readings) : Taken(s, now) => Taken(s, now + 1)
<1> TAKE s \in Seq(Readings)
<1>1. \A i \in DOMAIN s : s[i].at \in Nat
  BY ReadingsAreTimed
<1> QED
  BY <1>1 DEF Taken

\* No step of the main thread or of the sampler spoils the samples.
LEMMA SampledStep ==
  ASSUME Sampled, H!Next PROVE Sampled'
<1> DEFINE Goal == Sampled'
           lists == <<samples, ticks, sampler, held, stopped, closing>>
           outcome == <<expired, integrated, counted, row>>
<1> USE DEF Sampled
<1>row. ASSUME UNCHANGED <<script, row>> PROVE H!SamplesWhole'
  BY <1>row DEF H!SamplesWhole
<1>ends. ASSUME H!Ends PROVE Goal
  <2>1. /\ script' = script /\ pc' = "off" /\ row' = None
        /\ sampler' = "none" /\ samples' = <<>> /\ ticks' = 0
        /\ expired' = FALSE /\ stopped' = FALSE
    BY <1>ends DEF H!Ends
  <2>2. SamplerType'
    BY <2>1, ShortSequences DEF SamplerType, Before, After
  <2>3. Recording' /\ Closing' /\ Recorded'
    BY <2>1 DEF Recording, Closing, Recorded, Before, After
  <2>4. H!SamplesWhole'
    BY <2>1 DEF H!SamplesWhole
  <2> QED
    BY <2>2, <2>3, <2>4
<1>work. ASSUME UNCHANGED <<script, lists, outcome>>,
                pc \in Before \ {"open", "join", "close", "closed"},
                pc' \in Before \ {"open", "join", "close", "closed"}
         PROVE  Goal
  <2>1. SamplerType'
    BY <1>work DEF SamplerType, Before, After
  <2>2. Recording' /\ Closing' /\ Recorded'
    BY <1>work DEF Recording, Closing, Recorded, Before, After
  <2> QED
    BY <2>1, <2>2, <1>row, <1>work
<1>idle. ASSUME UNCHANGED <<script, lists, outcome>>,
                pc \in {"off", "prewarm"}, pc' \in {"prewarm", "next"}
         PROVE  Goal
  <2>1. SamplerType'
    BY <1>idle DEF SamplerType, Before, After
  <2>2. Recording' /\ Closing' /\ Recorded'
    BY <1>idle DEF Recording, Closing, Recorded, Before, After
  <2> QED
    BY <2>1, <2>2, <1>row, <1>idle
<1>1. ASSUME H!Begin001 \/ H!Begin002 \/ H!Prewarm PROVE Goal
  BY <1>1, <1>idle DEF H!Begin001, H!Begin002, H!Prewarm, H!Starts, H!work, H!result,
     H!lists
<1>2. ASSUME H!Kill \/ H!Refuse002 \/ H!Dies \/ H!WriteLastRow002 \/ H!Summarise
      PROVE  Goal
  BY <1>2, <1>ends DEF H!Kill, H!Refuse002, H!Dies, H!WriteLastRow002, H!Summarise
<1>3. ASSUME H!NextTrial PROVE Goal
  <2>1. /\ script' = script /\ pc' = "open" /\ row' = None
        /\ sampler' = "none" /\ samples' = <<>> /\ ticks' = 0
        /\ expired' = FALSE /\ stopped' = FALSE
    BY <1>3 DEF H!NextTrial
  <2>2. SamplerType'
    BY <2>1, ShortSequences DEF SamplerType, Before, After
  <2>3. Recording' /\ Closing' /\ Recorded'
    BY <2>1 DEF Recording, Closing, Recorded, Taken, Before, After
  <2>4. H!SamplesWhole'
    BY <2>1 DEF H!SamplesWhole
  <2> QED
    BY <2>2, <2>3, <2>4
<1>4. ASSUME NEW available \in BOOLEAN, H!OpenWindow(available),
             script = "AB-002" => available
      PROVE  Goal
  <2>1. /\ pc = "open" /\ pc' = "work" /\ sampler' = "check"
        /\ UNCHANGED <<script, outcome, held, stopped>>
        /\ samples = <<>> /\ ticks = 0
    BY <1>4 DEF H!OpenWindow, H!result, SamplerType
  <2>2. \/ script # "AB-002" /\ samples' = <<>> /\ ticks' = 0
        \/ samples' = <<[at |-> 1, kind |-> "pre"]>> /\ ticks' = 1
    BY <1>4, <2>1 DEF H!OpenWindow, H!Sample
  <2>3. SamplerType'
    <3>1. samples' \in Seq(Readings) /\ ticks' \in Nat
      <4>1. [at |-> 1, kind |-> "pre"] \in Readings
        BY DEF Readings
      <4>2. CASE samples' = <<>> /\ ticks' = 0
        BY <4>2, ShortSequences
      <4>3. CASE samples' = <<[at |-> 1, kind |-> "pre"]>> /\ ticks' = 1
        BY <4>1, <4>3, ShortSequences
      <4> QED
        BY <2>2, <4>2, <4>3
    <3>2. expired' \in BOOLEAN /\ stopped' \in BOOLEAN
      BY <2>1 DEF SamplerType
    <3> QED
      BY <2>1, <3>1, <3>2 DEF SamplerType, Before, After
  <2>4. Taken(samples', ticks') /\ (script = "AB-002" => Opens(samples'))
    <3>1. CASE samples' = <<>> /\ ticks' = 0 /\ script # "AB-002"
      BY <3>1 DEF Taken
    <3>2. CASE samples' = <<[at |-> 1, kind |-> "pre"]>> /\ ticks' = 1
      <4>1. /\ DOMAIN samples' = {1} /\ Len(samples') = 1
            /\ samples'[1].at = 1 /\ samples'[1].kind = "pre"
        BY <3>2
      <4> QED
        BY <3>2, <4>1 DEF Taken, Opens
    <3> QED
      BY <2>2, <3>1, <3>2
  <2>5. Recording' /\ Closing' /\ Recorded'
    BY <2>1, <2>4 DEF Recording, Closing, Recorded, Before, After
  <2> QED
    BY <2>1, <2>3, <2>5, <1>row
<1>5. ASSUME H!Open001 \/ H!Open002 PROVE Goal
  BY <1>5, <1>4 DEF H!Open001, H!Open002
<1>6. ASSUME \/ H!Baseline001 \/ H!Compute001 \/ H!Save001 \/ H!Raise \/ H!Post001
             \/ H!Enter002 \/ H!Recompute002 \/ H!Reuse002 \/ H!Eden002
             \/ H!Deadline002
      PROVE  Goal
  <2>1. UNCHANGED <<script, lists, outcome>>
    BY <1>6 DEF H!Baseline001, H!Compute001, H!Save001, H!Raise, H!Post001, H!Enter002,
       H!Recompute002, H!Reuse002, H!Eden002, H!Deadline002, H!WorkStep, H!result,
       H!lists
  <2>2. /\ pc \in Before \ {"open", "join", "close", "closed"}
        /\ pc' \in Before \ {"open", "join", "close", "closed"}
    BY <1>6 DEF H!Baseline001, H!Compute001, H!Save001, H!Raise, H!Post001, H!Enter002,
       H!Recompute002, H!Reuse002, H!Eden002, H!Deadline002, H!Working, Before
  <2> QED
    BY <2>1, <2>2, <1>work
<1>7. ASSUME H!Stop PROVE Goal
  <2>1. /\ pc = "stop" /\ pc' = "join" /\ stopped'
        /\ UNCHANGED <<script, samples, ticks, sampler, held, outcome>>
    BY <1>7 DEF H!Stop, H!MainStep, H!Waiting, H!result
  <2>2. stopped' = TRUE
    BY <1>7 DEF H!Stop
  <2>3. SamplerType'
    BY <2>1, <2>2 DEF SamplerType, Before, After
  <2>4. Recording' /\ Closing' /\ Recorded'
    BY <2>1 DEF Recording, Closing, Recorded, Before, After
  <2> QED
    BY <2>1, <2>3, <2>4, <1>row
<1>8. ASSUME H!Join \/ H!JoinExpires PROVE Goal
  <2>1. /\ pc = "join" /\ pc' = "close" /\ stopped
        /\ UNCHANGED <<script, samples, ticks, sampler, held, stopped, row>>
        /\ expired' \in BOOLEAN /\ (expired' \/ sampler = "none")
    BY <1>8 DEF H!Join, H!JoinExpires, H!MainStep, H!Waiting, SamplerType
  <2>3. SamplerType'
    BY <2>1 DEF SamplerType, Before, After
  <2>4. Recording' /\ Closing' /\ Recorded'
    BY <2>1 DEF Recording, Closing, Recorded, Before, After
  <2> QED
    BY <2>1, <2>3, <2>4, <1>row
<1>9. ASSUME NEW available \in BOOLEAN, H!CloseWindow(available),
             script = "AB-002" => available
      PROVE  Goal
  <2> DEFINE last == [at |-> ticks + 1, kind |-> "post"]
  <2>1. /\ pc = "close"
        /\ UNCHANGED <<script, samples, outcome, sampler, held, stopped>>
        /\ \/ /\ pc' = "integrate" /\ script # "AB-002"
              /\ UNCHANGED <<closing, ticks>>
           \/ pc' = "closed" /\ closing' = last /\ ticks' = ticks + 1
    BY <1>9 DEF H!CloseWindow, H!Waiting, H!result, H!Sample
  <2>2. /\ ticks \in Nat /\ samples \in Seq(Readings) /\ last \in Readings
        /\ last.at = ticks + 1 /\ last.kind = "post"
    BY DEF SamplerType, Readings
  <2> HIDE DEF last
  <2>3. SamplerType'
    BY <2>1, <2>2 DEF SamplerType, Before, After
  <2>4. /\ Taken(samples, ticks)
        /\ sampler = "append" => Taken(Append(samples, held), ticks)
        /\ script = "AB-002" => Opens(samples)
    BY <2>1 DEF Recording, Before
  <2>5. Late' = Late /\ Late \in {0, 1}
    BY <2>1 DEF Late
  <2>6. CASE pc' = "integrate"
    <3>1. Closed(samples, Late)
      BY <2>2, <2>4, <2>5, CloseWithout
    <3>2. Recording' /\ Closing'
      BY <2>6 DEF Recording, Closing, Before
    <3>3. Recorded'
      BY <2>1, <2>5, <2>6, <3>1 DEF Recorded
    <3> QED
      BY <2>1, <2>3, <3>2, <3>3, <1>row
  <2>7. CASE pc' = "closed"
    <3>1. closing' = last /\ ticks' = ticks + 1
      BY <2>1, <2>7
    <3>2. /\ Taken(samples, ticks + 1)
          /\ sampler = "append" => Taken(Append(samples, held), ticks + 1)
      <4>1. sampler = "append" => Append(samples, held) \in Seq(Readings)
        BY <2>2 DEF SamplerType
      <4> QED
        BY <2>2, <2>4, <4>1, TakenLater
    <3>3. Recording'
      BY <2>1, <2>4, <2>7, <3>1, <3>2 DEF Recording
    <3>4. \A i \in 1 .. Len(samples) - Late : samples[i].at < last.at
      <4>1. /\ DOMAIN samples = 1 .. Len(samples) /\ Len(samples) \in Nat
            /\ \A i \in DOMAIN samples : samples[i].at \in Nat
        BY <2>2, ReadingsAreTimed
      <4> QED
        BY <2>2, <2>4, <2>5, <4>1 DEF Taken
    <3>5. Closing'
      BY <2>1, <2>2, <2>5, <3>1, <3>4 DEF Closing
    <3>6. Recorded'
      BY <2>7 DEF Recorded, After
    <3> QED
      BY <2>1, <2>3, <3>3, <3>5, <3>6, <1>row
  <2> QED
    BY <2>1, <2>6, <2>7
<1>10. ASSUME H!Close001 \/ H!Close002 PROVE Goal
  BY <1>10, <1>9 DEF H!Close001, H!Close002
<1>17. ASSUME H!AppendClosing PROVE Goal
  <2>1. /\ pc = "closed" /\ pc' = "integrate" /\ samples' = Append(samples, closing)
        /\ UNCHANGED <<script, ticks, outcome, sampler, held, stopped>>
    BY <1>17 DEF H!AppendClosing, H!Waiting, H!result
  <2>2. /\ samples \in Seq(Readings) /\ closing \in Readings
        /\ closing.kind = "post" /\ Taken(samples, ticks)
        /\ \A i \in 1 .. Len(samples) - Late : samples[i].at < closing.at
        /\ script = "AB-002" => Opens(samples)
    BY <2>1 DEF SamplerType, Recording, Closing, Before
  <2>3. SamplerType'
    BY <2>1, <2>2, AppendFacts DEF SamplerType, Before, After
  <2>4. Recording' /\ Closing'
    BY <2>1 DEF Recording, Closing, Before
  <2>5. Late' = Late /\ Late \in {0, 1}
    BY <2>1 DEF Late
  <2>6. /\ Closed(samples', Late)
        /\ Opens(samples) => Opens(samples') /\ Closes(samples')
    BY <2>1, <2>2, <2>5, CloseWhole
  <2>7. Recorded'
    BY <2>1, <2>2, <2>5, <2>6 DEF Recorded
  <2> QED
    BY <2>1, <2>3, <2>4, <2>7, <1>row
<1>11. ASSUME H!Integrate PROVE Goal
  <2>1. /\ pc = "integrate" /\ integrated' = Len(samples)
        /\ pc' = (IF script = "AB-002" THEN "count" ELSE "write")
        /\ UNCHANGED <<script, lists, expired, row>>
    BY <1>11 DEF H!Integrate, H!MainStep, H!Waiting
  <2>2. SamplerType'
    BY <2>1 DEF SamplerType, Before, After
  <2>3. Len(samples) \in Nat
    BY DEF SamplerType
  <2>4. Recording' /\ Closing' /\ Recorded'
    BY <2>1, <2>3 DEF Recording, Closing, Recorded, Late, Before, After
  <2> QED
    BY <2>1, <2>2, <2>4, <1>row
<1>12. ASSUME H!Count002 PROVE Goal
  <2>1. /\ pc = "count" /\ counted' = Len(samples) /\ pc' = "write"
        /\ UNCHANGED <<script, lists, expired, integrated, row>>
    BY <1>12 DEF H!Count002, H!MainStep, H!Waiting
  <2>2. SamplerType'
    BY <2>1 DEF SamplerType, Before, After
  <2>3. Len(samples) \in Nat
    BY DEF SamplerType
  <2>4. Recording' /\ Closing' /\ Recorded'
    BY <2>1, <2>3 DEF Recording, Closing, Recorded, Late, Before, After
  <2> QED
    BY <2>1, <2>2, <2>4, <1>row
<1>13. ASSUME H!WriteRow PROVE Goal
  <2>1. /\ pc = "write" /\ pc' = "next"
        /\ row' = [samples |-> samples, integrated |-> integrated,
                   counted |-> counted, expired |-> expired]
        /\ UNCHANGED <<script, lists, expired, integrated, counted>>
    BY <1>13 DEF H!WriteRow, H!WriteFile, H!MainStep, H!Waiting
  <2>2. SamplerType'
    BY <2>1 DEF SamplerType, Before, After
  <2>3. Recording' /\ Closing' /\ Recorded'
    BY <2>1 DEF Recording, Closing, Recorded, Before, After
  <2>4. H!SamplesWhole'
    <3>1. /\ row'.samples = samples /\ row'.integrated = integrated
          /\ row'.counted = counted /\ row'.expired = expired /\ script' = script
      BY <2>1
    <3>2. Late <= (IF expired THEN 1 ELSE 0) /\ Late \in {0, 1}
      BY DEF Late
    <3>3. Len(samples) \in Nat /\ DOMAIN samples = 1 .. Len(samples)
      BY DEF SamplerType
    <3> QED
      BY <2>1, <3>1, <3>2, <3>3 DEF Recorded, Closed, Opens, Closes, After,
         H!SamplesWhole
  <2> QED
    BY <2>2, <2>3, <2>4
<1>14. ASSUME H!Check PROVE Goal
  <2>1. /\ UNCHANGED <<script, pc, samples, ticks, held, stopped, closing,
                       outcome>>
        /\ sampler = "check"
        /\ \/ stopped /\ sampler' = "none"
           \/ ~stopped /\ sampler' = "read"
    BY <1>14 DEF H!Check, H!SamplerStep, H!result
  <2>2. SamplerType'
    BY <2>1 DEF SamplerType, Before, After
  <2>3. Recording'
    BY <2>1 DEF Recording
  <2>4. Closing' /\ Recorded'
    <3>1. pc \in After \union {"closed"} => sampler' = "none"
      BY <2>1 DEF SamplerType
    <3> QED
      BY <2>1, <3>1 DEF Closing, Recorded, Late, After
  <2> QED
    BY <2>1, <2>2, <2>3, <2>4, <1>row
<1>15. ASSUME H!Read PROVE Goal
  <2>1. /\ UNCHANGED <<script, pc, samples, stopped, closing, outcome>>
        /\ sampler = "read"
        /\ \/ /\ ticks' = ticks + 1 /\ sampler' = "append"
              /\ held' = [at |-> ticks + 1, kind |-> "mid"]
           \/ sampler' = "check" /\ UNCHANGED <<ticks, held>>
    BY <1>15 DEF H!Read, H!SamplerStep, H!result, H!Sample
  <2>2. SamplerType'
    BY <2>1 DEF SamplerType, Before, After, Readings
  <2>3. Recording'
    <3> DEFINE e == [at |-> ticks + 1, kind |-> "mid"]
    <3>1. ticks \in Nat /\ samples \in Seq(Readings) /\ e \in Readings
      BY DEF SamplerType, Readings
    <3>2. e.at = ticks + 1 /\ e.kind = "mid"
      OBVIOUS
    <3>3. \/ ticks' = ticks + 1 /\ held' = e
          \/ ticks' = ticks /\ sampler' = "check"
      BY <2>1
    <3> HIDE DEF e
    <3>4. pc \in Before => /\ Taken(samples, ticks + 1)
                           /\ Taken(Append(samples, e), ticks + 1)
      BY <3>1, <3>2, TakeOne DEF Recording
    <3>5. UNCHANGED <<script, pc, samples>>
      BY <2>1
    <3> QED
      BY <3>3, <3>4, <3>5 DEF Recording
  <2>4. Recorded'
    <3>1. Late = 0 /\ Late' \in {0, 1} /\ Len(samples) \in Nat
      BY <2>1 DEF Late, SamplerType
    <3>2. UNCHANGED <<script, pc, samples, integrated, counted>>
      BY <2>1
    <3>3. Closed(samples, 0) => Closed(samples, Late')
      BY <3>1 DEF Closed, SamplerType
    <3> QED
      BY <3>1, <3>2, <3>3 DEF Recorded
  <2>5. Closing'
    <3>1. Late = 0 /\ Late' \in {0, 1} /\ Len(samples) \in Nat
      BY <2>1 DEF Late, SamplerType
    <3>2. UNCHANGED <<pc, samples, closing>>
      BY <2>1
    <3> QED
      BY <3>1, <3>2 DEF Closing
  <2> QED
    BY <2>1, <2>2, <2>3, <2>4, <2>5, <1>row
<1>16. ASSUME H!AppendSample PROVE Goal
  <2>1. /\ UNCHANGED <<script, pc, ticks, stopped, closing, outcome>>
        /\ sampler = "append" /\ sampler' = "check"
        /\ samples' = Append(samples, held)
    BY <1>16 DEF H!AppendSample, H!SamplerStep, H!result
  <2>2. /\ samples \in Seq(Readings) /\ held \in Readings /\ held.kind = "mid"
        /\ Len(samples) \in Nat
    BY <2>1 DEF SamplerType, Readings
  <2>3. Append(samples, held) \in Seq(Readings) /\ Len(samples') = Len(samples) + 1
    BY <2>1, <2>2, AppendFacts
  <2>4. SamplerType'
    BY <2>1, <2>3 DEF SamplerType, Before, After
  <2>5. Opens(samples) => Opens(Append(samples, held))
    BY <2>2, AppendFacts DEF Opens
  <2>6. Recording'
    BY <2>1, <2>5 DEF Recording
  <2>7. Recorded'
    <3>1. SUFFICES ASSUME pc \in After PROVE Recorded'
      BY <2>1 DEF Recorded
    <3>2. Late = 0 /\ Late' = 1
      BY <2>1, <3>1 DEF Late, SamplerType
    <3>3. Closed(samples, 0)
      BY <3>1, <3>2 DEF Recorded
    <3>4. Closed(samples', 1) /\ (Closes(samples) => Closes(samples'))
      BY <2>1, <2>2, <3>3, CloseLate
    <3> QED
      BY <2>1, <2>2, <2>3, <2>5, <3>1, <3>2, <3>4 DEF Recorded
  <2>8. Closing'
    <3>1. SUFFICES ASSUME pc = "closed" PROVE Closing'
      BY <2>1 DEF Closing
    <3>2. Late = 0 /\ Late' = 1
      BY <2>1, <3>1 DEF Late, SamplerType
    <3>3. /\ closing \in Readings /\ closing.kind = "post"
          /\ \A i \in 1 .. Len(samples) : samples[i].at < closing.at
      BY <2>2, <3>1, <3>2 DEF Closing
    <3>4. \A i \in 1 .. Len(samples) : samples'[i] = samples[i]
      BY <2>1, <2>2, AppendFacts
    <3>5. \A i \in 1 .. Len(samples') - Late' : samples'[i].at < closing.at
      BY <2>1, <2>2, <2>3, <3>2, <3>3, <3>4
    <3> QED
      BY <2>1, <3>3, <3>5 DEF Closing
  <2> QED
    BY <2>1, <2>4, <2>6, <2>7, <2>8, <1>row
<1> QED
  BY <1>1, <1>2, <1>3, <1>5, <1>6, <1>7, <1>8, <1>10, <1>11, <1>12, <1>13, <1>14,
     <1>15, <1>16, <1>17 DEF H!Next, H!Main, H!Sampler

\* A row of a handset trial has the samples that were taken for it: the opening and
\* the closing one where the script takes them, in the order they were taken, and at
\* most one late one when the sampler outlived its join; for any trials, samples and
\* requests (power_sampler, run_trial of both scripts).
THEOREM SamplesAreWhole == SpecExperiments => []SamplesWhole
<1> DEFINE I == program = "handset" => Sampled
<1>1. InitExperiments => I
  BY SampledInit
  DEF InitExperiments, InitFairAB, InitHandset, InitRefinery, InitReuse
<1>2. I /\ [NextExperiments]_allVars => I'
  <2> SUFFICES ASSUME I, [NextExperiments]_allVars, program' = "handset"
               PROVE  Sampled'
    OBVIOUS
  <2>1. ASSUME UNCHANGED allVars PROVE Sampled'
    <3>1. UNCHANGED <<program, script, requests, pc, runs, ofHandset>>
      BY <2>1 DEF allVars, vars, handler, disk
    <3>2. Sampled
      BY <3>1
    <3>3. SamplerType'
      BY <3>1, <3>2 DEF Sampled, SamplerType, ofHandset
    <3>4. Recording' /\ Closing' /\ Recorded'
      BY <3>1, <3>2 DEF Sampled, Recording, Closing, Recorded, Late, ofHandset
    <3>5. H!SamplesWhole'
      BY <3>1, <3>2 DEF Sampled, H!SamplesWhole, ofHandset
    <3> QED
      BY <3>3, <3>4, <3>5 DEF Sampled
  <2>2. CASE HandsetAlone /\ H!Next
    BY <2>2, SampledStep DEF HandsetAlone, Is
  <2> QED
    BY <2>1, <2>2 DEF NextExperiments, FairABAlone, HandsetAlone, RefineryAlone,
       ReuseAlone, Is
<1>3. I => SamplesWhole
  BY DEF SamplesWhole, Sampled
<1> QED
  BY <1>1, <1>2, <1>3, PTL DEF SpecExperiments

-----------------------------------------------------------------------------
(* The rows of the handset trials                                          *)

HandsetType ==
  /\ script \in {"AB-001", "AB-002"}
  /\ pc \in Before \union After \union {"off", "prewarm", "next"}
  /\ runs \in Nat
  /\ todo \in SUBSET H!Schedule
  /\ DOMAIN files = H!Schedule
  /\ rows \in SUBSET BOOLEAN
  /\ verified \in BOOLEAN /\ rejected \in BOOLEAN
  /\ pc \in Before \union After => trial \in H!Schedule /\ trial \notin todo
  /\ pc = "prewarm" => script = "AB-002" /\ todo = H!Schedule
  /\ pc \in {"save", "post"} => script = "AB-001" /\ trial[1] = "EDEN"
  /\ pc \in {"loop", "count"} => script = "AB-002"

\* A summary is of a run that is over.
SummaryIsOfPast ==
  summary # None =>
    summary.run \in Nat /\ summary.run <= runs /\ (pc # "off" => summary.run < runs)

\* What the run reuses is its own: the cache is the run's, or is empty.
OwnCache ==
  /\ pc \in {"off", "prewarm"} => found = None
  /\ pc \notin {"off", "prewarm"} =>
       /\ cache \in {None, runs} /\ found \in {None, runs}
       /\ script = "AB-002" => cache = runs
  /\ pc \in {"open", "work", "save"} /\ script = "AB-001" /\ trial[1] = "EDEN" =>
       found = cache
  /\ pc = "save" => source = runs /\ cache = None
  /\ pc \in {"open", "work"} => requests = 0
  /\ pc \in (Before \union After) \ {"open", "work"} =>
       \/ source = runs
       \/ script = "AB-002" /\ trial[1] = "RECOMPUTE" /\ requests = 0

\* Every trial of this run that is done has left its row.
RowsLeft ==
  pc # "off" =>
    \A k \in H!Schedule \ todo :
      \/ k = trial /\ pc # "next"
      \/ files[k] = [run |-> runs, source |-> runs]

\* Verdicts are kept in the rows, or in hand.
VerdictsKept ==
  /\ pc \in {"off", "prewarm"} => rows = {} /\ verified
  /\ pc # "off" => (rejected <=> FALSE \in rows \/ ~verified)
  /\ pc = "next" => verified \/ FALSE \in rows

\* AB-001 computes its result for the first EDEN trial, and saves it.
ComputedOnce ==
  /\ pc = "off" => fresh = 0
  /\ script = "AB-001" /\ pc # "off" =>
       IF cache = None
         THEN /\ fresh = 0
              /\ \A k \in H!Schedule \ todo :
                   k[1] = "EDEN" => k = trial /\ pc \in {"open", "work", "save"}
         ELSE fresh = IF /\ pc \in (Before \union After) \ {"open", "work", "save"}
                         /\ trial[1] = "EDEN" /\ found = None
                        THEN 0
                        ELSE 1

Resulting ==
  /\ HandsetType /\ SummaryIsOfPast /\ OwnCache /\ RowsLeft /\ VerdictsKept
  /\ ComputedOnce /\ H!ResultsOfOneRun

\* AB-001 has at least one EDEN trial.
LEMMA ScheduleHasTrials ==
  script = "AB-001" => <<"EDEN", 1>> \in H!Schedule
  BY HandsetAssumption DEF H!Schedule, H!Arms

\* Before the first run there is no summary, no result and no verdict.
LEMMA ResultingInit == H!Init => Resulting
<1> SUFFICES ASSUME H!Init PROVE Resulting
  OBVIOUS
<1>1. /\ script \in {"AB-001", "AB-002"} /\ pc = "off" /\ runs = 0 /\ summary = None
      /\ todo = {} /\ rows = {} /\ verified = TRUE /\ rejected = FALSE /\ fresh = 0
      /\ DOMAIN files = H!Schedule /\ found = None
  BY DEF H!Init, H!NoWork
<1>2. HandsetType /\ SummaryIsOfPast
  BY <1>1 DEF HandsetType, SummaryIsOfPast, Before, After
<1>3. OwnCache /\ RowsLeft /\ VerdictsKept /\ ComputedOnce
  BY <1>1 DEF OwnCache, RowsLeft, VerdictsKept, ComputedOnce, Before, After
<1>4. H!ResultsOfOneRun
  BY <1>1 DEF H!ResultsOfOneRun
<1> QED
  BY <1>2, <1>3, <1>4 DEF Resulting

\* The process ends without a summary.
LEMMA RunGivenUp ==
  ASSUME Resulting, pc # "off", H!Ends, summary' \in {summary, None},
         DOMAIN files' = H!Schedule
  PROVE  Resulting'
<1> USE DEF Resulting
<1>1. /\ script' = script /\ runs' = runs /\ rejected' = rejected
      /\ pc' = "off" /\ todo' = {} /\ rows' = {} /\ verified' = TRUE /\ fresh' = 0
      /\ found' = None
  BY DEF H!Ends
<1>2. H!Schedule' = H!Schedule
  BY <1>1 DEF H!Schedule, H!Arms
<1>3. HandsetType'
  BY <1>1, <1>2 DEF HandsetType, Before, After
<1>4. summary' # None => summary' = summary /\ summary.run < runs /\ summary.run \in Nat
  BY DEF SummaryIsOfPast
<1>5. SummaryIsOfPast' /\ (summary' # None => summary'.run # runs')
  BY <1>1, <1>4 DEF SummaryIsOfPast, HandsetType
<1>6. OwnCache' /\ RowsLeft' /\ VerdictsKept' /\ ComputedOnce'
  BY <1>1 DEF OwnCache, RowsLeft, VerdictsKept, ComputedOnce, Before, After
<1>7. H!ResultsOfOneRun'
  BY <1>1, <1>5 DEF H!ResultsOfOneRun
<1> QED
  BY <1>3, <1>5, <1>6, <1>7

\* The window takes its course.
LEMMA WindowGoesOn ==
  ASSUME Resulting,
         UNCHANGED <<script, runs, cache, files, summary, todo, trial, found, source,
                     requests, verified, rows, fresh, rejected>>,
         pc \in {"post", "loop", "stop", "join", "close", "closed"} \union After,
         pc' \in {"stop", "join", "close", "closed"} \union After,
         pc' = "count" => script = "AB-002"
  PROVE  Resulting'
<1> USE DEF Resulting
<1>1. H!Schedule' = H!Schedule
  BY DEF H!Schedule, H!Arms
<1>2. HandsetType'
  BY <1>1 DEF HandsetType, Before, After
<1>3. SummaryIsOfPast' /\ RowsLeft' /\ VerdictsKept'
  BY <1>1 DEF SummaryIsOfPast, RowsLeft, VerdictsKept, Before, After
<1>4. OwnCache'
  BY DEF OwnCache, Before, After
<1>5. ComputedOnce'
  BY <1>1 DEF ComputedOnce, Before, After
<1>6. H!ResultsOfOneRun'
  BY DEF H!ResultsOfOneRun, After
<1> QED
  BY <1>2, <1>3, <1>4, <1>5, <1>6

\* No step of a script mixes the results of two runs.
LEMMA ResultingStep ==
  ASSUME Resulting, H!Next PROVE Resulting'
<1> DEFINE Goal == Resulting'
           kept == <<script, runs, files, summary, todo, trial, found, rows, fresh>>
<1> USE DEF Resulting
<1>a. runs \in Nat /\ runs # None
  BY HandsetAssumption DEF HandsetType
<1>b. ASSUME script' = script PROVE H!Schedule' = H!Schedule
  BY <1>b DEF H!Schedule, H!Arms
<1>c. ASSUME pc' \in Before \union After PROVE H!ResultsOfOneRun'
  BY <1>c DEF H!ResultsOfOneRun, Before, After
<1>d. ASSUME UNCHANGED kept, pc \in Before, pc' \in Before
      PROVE  SummaryIsOfPast' /\ RowsLeft'
  BY <1>b, <1>d DEF SummaryIsOfPast, RowsLeft, Before
<1>e. ASSUME UNCHANGED kept, pc \in Before \ {"open"}, pc' \in Before \ {"open"},
             verified' \in BOOLEAN, rejected' \in BOOLEAN,
             pc' \in {"save", "post"} => script = "AB-001" /\ trial[1] = "EDEN",
             pc' = "loop" => script = "AB-002"
      PROVE  HandsetType'
  BY <1>b, <1>e DEF HandsetType, Before, After
<1>f. ASSUME UNCHANGED <<rows, verified, rejected>>, pc \in Before, pc' \in Before
      PROVE  VerdictsKept'
  BY <1>f DEF VerdictsKept, Before
<1>g. HandsetType
  OBVIOUS
<1>1. ASSUME H!Begin001 \/ H!Begin002 PROVE Goal
  <2>1. /\ pc = "off" /\ runs' = runs + 1 /\ todo' = H!Schedule /\ rejected' = FALSE
        /\ UNCHANGED <<script, files, summary, rows, fresh, verified, found>>
        /\ \/ script = "AB-001" /\ pc' = "next" /\ cache' = None
           \/ script = "AB-002" /\ pc' = "prewarm"
    BY <1>1 DEF H!Begin001, H!Begin002, H!Starts, H!work, H!result
  <2>2. HandsetType'
    <3>1. H!Schedule' = H!Schedule /\ runs' \in Nat
      BY <2>1, <1>a, <1>b
    <3>2. CASE script = "AB-001" /\ pc' = "next"
      BY <2>1, <3>1, <3>2 DEF HandsetType, Before, After
    <3>3. CASE script = "AB-002" /\ pc' = "prewarm"
      BY <2>1, <3>1, <3>3 DEF HandsetType, Before, After
    <3> QED
      BY <2>1, <3>2, <3>3
  <2>3. SummaryIsOfPast'
    BY <2>1, <1>a DEF SummaryIsOfPast
  <2>4. OwnCache'
    BY <2>1 DEF OwnCache, Before, After
  <2>5. RowsLeft' /\ VerdictsKept'
    BY <2>1, <1>b DEF RowsLeft, VerdictsKept
  <2>6. ComputedOnce'
    BY <2>1, <1>b DEF ComputedOnce
  <2>7. H!ResultsOfOneRun'
    BY <2>1, <1>b, ScheduleHasTrials DEF H!ResultsOfOneRun
  <2> QED
    BY <2>2, <2>3, <2>4, <2>5, <2>6, <2>7
<1>2. ASSUME H!Prewarm PROVE Goal
  <2>1. /\ pc = "prewarm" /\ pc' = "next" /\ cache' = runs /\ script = "AB-002"
        /\ UNCHANGED <<script, runs, files, summary, todo, trial, rows, fresh,
                       verified, rejected>>
        /\ todo = H!Schedule
    BY <1>2 DEF H!Prewarm, H!work, H!result, HandsetType
  <2>2. HandsetType'
    BY <2>1, <1>b DEF HandsetType, Before, After
  <2>3. SummaryIsOfPast' /\ RowsLeft' /\ ComputedOnce'
    BY <2>1, <1>b DEF SummaryIsOfPast, RowsLeft, ComputedOnce
  <2>4. OwnCache'
    <3>1. found' = found
      BY <1>2 DEF H!Prewarm, H!work
    <3> QED
      BY <2>1, <3>1 DEF OwnCache, Before, After
  <2>5. VerdictsKept'
    BY <2>1 DEF VerdictsKept
  <2>6. H!ResultsOfOneRun'
    BY <2>1 DEF H!ResultsOfOneRun
  <2> QED
    BY <2>2, <2>3, <2>4, <2>5, <2>6
<1>3. ASSUME H!Kill \/ H!Refuse002 \/ H!Dies \/ H!WriteLastRow002 PROVE Goal
  <2>1. /\ pc # "off" /\ H!Ends /\ summary' \in {summary, None}
        /\ DOMAIN files' = H!Schedule
    BY <1>3 DEF H!Kill, H!Refuse002, H!Dies, H!WriteLastRow002, H!disk, HandsetType
  <2> QED
    BY <2>1, RunGivenUp
<1>4. ASSUME H!NextTrial PROVE Goal
  <2>1. PICK k \in todo : trial' = k /\ todo' = todo \ {k}
    BY <1>4 DEF H!NextTrial
  <2>2. /\ pc = "next" /\ pc' = "open" /\ requests' = 0 /\ verified' = TRUE
        /\ found' = (IF script = "AB-001" /\ trial'[1] = "EDEN" THEN cache ELSE None)
        /\ UNCHANGED <<script, runs, cache, files, summary, rows, fresh, rejected>>
    BY <1>4 DEF H!NextTrial, H!disk
  <2>3. HandsetType'
    BY <2>1, <2>2, <1>b DEF HandsetType, Before, After
  <2>4. SummaryIsOfPast'
    BY <2>2 DEF SummaryIsOfPast
  <2>5. OwnCache'
    BY <2>2 DEF OwnCache, Before, After
  <2>6. RowsLeft'
    BY <2>1, <2>2, <1>b DEF RowsLeft
  <2>7. VerdictsKept'
    BY <2>2 DEF VerdictsKept
  <2>8. ComputedOnce'
    <3>1. SUFFICES ASSUME script = "AB-001" PROVE ComputedOnce'
      BY <2>2 DEF ComputedOnce
    <3>2. CASE cache = None
      BY <2>1, <2>2, <3>1, <3>2, <1>b DEF ComputedOnce
    <3>3. CASE cache # None
      BY <2>2, <3>1, <3>3 DEF ComputedOnce, Before, After
    <3> QED
      BY <3>2, <3>3
  <2>9. H!ResultsOfOneRun'
    BY <2>2, <1>c DEF Before
  <2> QED
    BY <2>3, <2>4, <2>5, <2>6, <2>7, <2>8, <2>9
<1>5. ASSUME H!Open001 \/ H!Open002 PROVE Goal
  <2>1. /\ pc = "open" /\ pc' = "work" /\ UNCHANGED kept
        /\ UNCHANGED <<cache, source, requests, verified, rejected>>
    BY <1>5 DEF H!Open001, H!Open002, H!OpenWindow, H!disk, H!work, H!result
  <2>2. HandsetType'
    BY <2>1, <1>b DEF HandsetType, Before, After
  <2>3. SummaryIsOfPast' /\ RowsLeft' /\ VerdictsKept' /\ H!ResultsOfOneRun'
    BY <2>1, <1>c, <1>d, <1>f DEF Before
  <2>4. OwnCache'
    BY <2>1 DEF OwnCache, Before, After
  <2>5. ComputedOnce'
    BY <2>1, <1>b DEF ComputedOnce, Before, After
  <2> QED
    BY <2>2, <2>3, <2>4, <2>5
<1>6. ASSUME H!Baseline001 PROVE Goal
  <2>1. /\ script = "AB-001" /\ trial[1] = "BASELINE" /\ pc = "work" /\ pc' = "stop"
        /\ source' = runs /\ UNCHANGED kept
        /\ UNCHANGED <<cache, requests, verified, rejected>>
    BY <1>6 DEF H!Baseline001, H!Working, H!WorkStep, H!result
  <2>2. HandsetType'
    BY <2>1, <1>e, <1>g DEF HandsetType, Before
  <2>3. SummaryIsOfPast' /\ RowsLeft' /\ VerdictsKept' /\ H!ResultsOfOneRun'
    BY <2>1, <1>c, <1>d, <1>f DEF Before
  <2>4. OwnCache'
    BY <2>1 DEF OwnCache, Before, After
  <2>5. ComputedOnce'
    <3>1. trial \in H!Schedule \ todo
      BY <2>1 DEF HandsetType, Before
    <3>2. CASE cache = None
      BY <2>1, <3>1, <3>2, <1>b DEF ComputedOnce, Before, After
    <3>3. CASE cache # None
      BY <2>1, <3>3, <1>b DEF ComputedOnce, Before, After
    <3> QED
      BY <3>2, <3>3
  <2> QED
    BY <2>2, <2>3, <2>4, <2>5
<1>7. ASSUME H!Compute001 PROVE Goal
  <2>1. /\ script = "AB-001" /\ trial[1] = "EDEN" /\ pc = "work"
        /\ source' = (IF found = None THEN runs ELSE found)
        /\ pc' = (IF found = None THEN "save" ELSE "post")
        /\ UNCHANGED kept /\ UNCHANGED <<cache, requests, verified, rejected>>
    BY <1>7 DEF H!Compute001, H!Working, H!WorkStep, H!result
  <2>2. HandsetType'
    BY <2>1, <1>e, <1>g DEF HandsetType, Before
  <2>3. SummaryIsOfPast' /\ RowsLeft' /\ VerdictsKept' /\ H!ResultsOfOneRun'
    BY <2>1, <1>c, <1>d, <1>f DEF Before
  <2>4. found = cache /\ cache \in {None, runs}
    BY <2>1 DEF OwnCache
  <2>5. OwnCache'
    BY <2>1, <2>4, <1>a DEF OwnCache, Before, After
  <2>6. ComputedOnce'
    BY <2>1, <2>4, <1>b DEF ComputedOnce, Before, After
  <2> QED
    BY <2>2, <2>3, <2>5, <2>6
<1>8. ASSUME H!Save001 PROVE Goal
  <2>1. /\ script = "AB-001" /\ trial[1] = "EDEN" /\ pc = "save" /\ pc' = "post"
        /\ cache' = source /\ source = runs /\ cache = None /\ found = None
        /\ UNCHANGED kept /\ UNCHANGED <<source, requests, verified, rejected>>
    BY <1>8 DEF H!Save001, H!WorkStep, H!result, HandsetType, OwnCache
  <2>2. HandsetType'
    BY <2>1, <1>e, <1>g DEF HandsetType, Before
  <2>3. SummaryIsOfPast' /\ RowsLeft' /\ VerdictsKept' /\ H!ResultsOfOneRun'
    BY <2>1, <1>c, <1>d, <1>f DEF Before
  <2>4. OwnCache'
    BY <2>1 DEF OwnCache, Before, After
  <2>5. ComputedOnce'
    BY <2>1, <1>a, <1>b DEF ComputedOnce, Before, After
  <2> QED
    BY <2>2, <2>3, <2>4, <2>5
<1>9. ASSUME H!Raise \/ H!Deadline002 PROVE Goal
  <2>1. /\ pc \in {"post", "loop"} /\ pc' = "stop"
        /\ UNCHANGED <<script, runs, cache, files, summary, todo, trial, found, source,
                       requests, verified, rows, fresh, rejected>>
    BY <1>9 DEF H!Raise, H!Deadline002, H!WorkStep, H!result
  <2> QED
    BY <2>1, WindowGoesOn
<1>10. ASSUME H!Post001 PROVE Goal
  <2>1. /\ pc = "post" /\ pc' = "stop" /\ UNCHANGED kept
        /\ UNCHANGED <<cache, source, requests>>
    BY <1>10 DEF H!Post001, H!WorkStep, H!result
  <2>2. PICK ok \in BOOLEAN : /\ verified' = (verified /\ ok)
                              /\ rejected' = (rejected \/ ~ok)
    BY <1>10 DEF H!Post001, H!Received
  <2>3. HandsetType'
    BY <2>1, <2>2, <1>e, <1>g DEF HandsetType, Before
  <2>4. SummaryIsOfPast' /\ RowsLeft' /\ H!ResultsOfOneRun'
    BY <2>1, <1>c, <1>d DEF Before
  <2>5. VerdictsKept'
    BY <2>1, <2>2 DEF VerdictsKept
  <2>6. OwnCache' /\ ComputedOnce'
    BY <2>1, <1>b DEF OwnCache, ComputedOnce, Before, After
  <2> QED
    BY <2>3, <2>4, <2>5, <2>6
<1>11. ASSUME H!Enter002 PROVE Goal
  <2>1. /\ script = "AB-002" /\ pc = "work" /\ pc' = "loop"
        /\ source' = (IF trial[1] = "RECOMPUTE" THEN None ELSE cache)
        /\ UNCHANGED kept /\ UNCHANGED <<cache, requests, verified, rejected>>
    BY <1>11 DEF H!Enter002, H!WorkStep, H!result
  <2>2. HandsetType'
    BY <2>1, <1>e, <1>g DEF HandsetType, Before
  <2>3. SummaryIsOfPast' /\ RowsLeft' /\ VerdictsKept' /\ H!ResultsOfOneRun'
    BY <2>1, <1>c, <1>d, <1>f DEF Before
  <2>4. requests = 0 /\ cache = runs
    BY <2>1 DEF OwnCache
  <2>5. OwnCache' /\ ComputedOnce'
    BY <2>1, <2>4, <1>b DEF OwnCache, ComputedOnce, Before, After
  <2> QED
    BY <2>2, <2>3, <2>5
<1>12. ASSUME H!Recompute002 \/ H!Reuse002 PROVE Goal
  <2>1. /\ script = "AB-002" /\ pc = "loop" /\ pc' = "loop"
        /\ source' = runs \/ (source' = source /\ trial[1] = "REUSE")
        /\ UNCHANGED kept /\ UNCHANGED <<cache, verified, rejected>>
    BY <1>12 DEF H!Recompute002, H!Reuse002, H!Working, H!WorkStep, H!result
  <2>2. HandsetType'
    BY <2>1, <1>e, <1>g DEF HandsetType, Before
  <2>3. SummaryIsOfPast' /\ RowsLeft' /\ VerdictsKept' /\ H!ResultsOfOneRun'
    BY <2>1, <1>c, <1>d, <1>f DEF Before
  <2>4. source' = runs
    BY <2>1 DEF OwnCache, Before
  <2>5. OwnCache' /\ ComputedOnce'
    BY <2>1, <2>4, <1>b DEF OwnCache, ComputedOnce, Before, After
  <2> QED
    BY <2>2, <2>3, <2>5
<1>13. ASSUME H!Eden002 PROVE Goal
  <2>1. /\ script = "AB-002" /\ trial[1] = "EDEN" /\ pc = "loop" /\ pc' = "loop"
        /\ UNCHANGED kept /\ UNCHANGED <<cache, source>>
    BY <1>13 DEF H!Eden002, H!Working, H!WorkStep, H!result
  <2>2. PICK ok \in BOOLEAN : /\ verified' = (verified /\ ok)
                              /\ rejected' = (rejected \/ ~ok)
    BY <1>13 DEF H!Eden002, H!Received
  <2>3. HandsetType'
    BY <2>1, <2>2, <1>e, <1>g DEF HandsetType, Before
  <2>4. SummaryIsOfPast' /\ RowsLeft' /\ H!ResultsOfOneRun'
    BY <2>1, <1>c, <1>d DEF Before
  <2>5. VerdictsKept'
    BY <2>1, <2>2 DEF VerdictsKept
  <2>6. source = runs
    BY <2>1 DEF OwnCache, Before
  <2>7. OwnCache' /\ ComputedOnce'
    BY <2>1, <2>6, <1>b DEF OwnCache, ComputedOnce, Before, After
  <2> QED
    BY <2>3, <2>4, <2>5, <2>7
<1>14. ASSUME \/ H!Stop \/ H!Join \/ H!JoinExpires \/ H!Close001 \/ H!Close002
              \/ H!AppendClosing \/ H!Integrate \/ H!Count002
       PROVE  Goal
  <2>1. /\ pc \in {"stop", "join", "close", "closed"} \union After
        /\ pc' \in {"stop", "join", "close", "closed"} \union After
        /\ pc' = "count" => script = "AB-002"
    BY <1>14 DEF H!Stop, H!Join, H!JoinExpires, H!Close001, H!Close002, H!CloseWindow,
       H!AppendClosing, H!Integrate, H!Count002, After
  <2>2. UNCHANGED <<script, runs, cache, files, summary, todo, trial, found, source,
                    requests, verified, rows, fresh, rejected>>
    BY <1>14 DEF H!Stop, H!Join, H!JoinExpires, H!Close001, H!Close002, H!CloseWindow,
       H!AppendClosing, H!Integrate, H!Count002, H!MainStep, H!Waiting, H!work,
       H!result
  <2> QED
    BY <2>1, <2>2, WindowGoesOn
<1>15. ASSUME H!WriteRow PROVE Goal
  <2>1. /\ pc = "write" /\ pc' = "next" /\ (script = "AB-001" \/ requests > 0)
        /\ rows' = rows \union {verified}
        /\ fresh' = (IF script = "AB-001" /\ trial[1] = "EDEN" /\ found = None
                       THEN fresh + 1 ELSE fresh)
        /\ UNCHANGED <<script, runs, cache, summary, todo, trial, found, source,
                       requests, verified, rejected>>
    BY <1>15 DEF H!WriteRow, H!WriteFile, H!MainStep, H!Waiting, H!work
  <2>2. source = runs
    BY <2>1 DEF OwnCache, Before, After
  <2>3. H!Row = [run |-> runs, source |-> runs]
    BY <2>1, <2>2 DEF H!Row
  <2>4. files' = [files EXCEPT ![trial] = [run |-> runs, source |-> runs]]
    BY <1>15, <2>3 DEF H!WriteRow, H!WriteFile
  <2>5. trial \in H!Schedule /\ trial \notin todo /\ DOMAIN files = H!Schedule
    BY <2>1 DEF HandsetType, After
  <2>6. /\ DOMAIN files' = H!Schedule
        /\ files'[trial] = [run |-> runs, source |-> runs]
        /\ \A k \in H!Schedule : k # trial => files'[k] = files[k]
    BY <2>4, <2>5
  <2>7. HandsetType'
    BY <2>1, <2>6, <1>b DEF HandsetType, Before, After
  <2>8. SummaryIsOfPast'
    BY <2>1 DEF SummaryIsOfPast
  <2>9. RowsLeft'
    BY <2>1, <2>5, <2>6, <1>b DEF RowsLeft
  <2>10. VerdictsKept'
    BY <2>1 DEF VerdictsKept, HandsetType
  <2>11. OwnCache'
    BY <2>1 DEF OwnCache, Before, After
  <2>12. ComputedOnce'
    <3>1. SUFFICES ASSUME script = "AB-001" PROVE ComputedOnce'
      BY <2>1 DEF ComputedOnce
    <3>2. CASE cache = None
      BY <2>1, <2>5, <3>1, <3>2, <1>b DEF ComputedOnce
    <3>3. CASE cache # None
      BY <2>1, <3>1, <3>3 DEF ComputedOnce, Before, After
    <3> QED
      BY <3>2, <3>3
  <2>13. H!ResultsOfOneRun'
    <3>1. SUFFICES ASSUME script = "AB-001", todo = {} PROVE fresh' = 1
      BY <2>1 DEF H!ResultsOfOneRun
    <3>2. <<"EDEN", 1>> \in H!Schedule \ todo
      BY <3>1, ScheduleHasTrials
    <3>3. cache # None
      <4>1. <<"EDEN", 1>>[1] = "EDEN"
        OBVIOUS
      <4> QED
        BY <2>1, <3>1, <3>2, <4>1 DEF ComputedOnce
    <3> QED
      BY <2>1, <3>1, <3>3 DEF ComputedOnce, After
  <2> QED
    BY <2>7, <2>8, <2>9, <2>10, <2>11, <2>12, <2>13
<1>16. ASSUME H!Summarise PROVE Goal
  <2>1. /\ pc = "next" /\ todo = {} /\ H!Ends /\ files' = files
        /\ summary' = [run |-> runs, verified |-> FALSE \notin rows]
    BY <1>16 DEF H!Summarise
  <2>2. /\ script' = script /\ runs' = runs /\ rejected' = rejected
        /\ pc' = "off" /\ todo' = {} /\ rows' = {} /\ verified' = TRUE /\ fresh' = 0
        /\ found' = None
    BY <2>1 DEF H!Ends
  <2>3. summary'.run = runs /\ summary'.verified = (FALSE \notin rows)
    BY <2>1
  <2>4. \A k \in H!Schedule : files[k] = [run |-> runs, source |-> runs]
    BY <2>1 DEF RowsLeft
  <2>5. \A k \in H!Schedule :
          files[k] # None /\ files[k].run = runs /\ files[k].source = runs
    <3>1. [run |-> runs, source |-> runs] # None
      BY <1>a, HandsetAssumption
    <3> QED
      BY <2>4, <3>1
  <2>6. rejected <=> FALSE \in rows
    BY <2>1 DEF VerdictsKept
  <2>7. HandsetType'
    BY <2>1, <2>2, <1>b DEF HandsetType, Before, After
  <2>8. SummaryIsOfPast'
    BY <2>2, <2>3, <1>a DEF SummaryIsOfPast
  <2>9. OwnCache' /\ RowsLeft' /\ VerdictsKept' /\ ComputedOnce'
    BY <2>2 DEF OwnCache, RowsLeft, VerdictsKept, ComputedOnce, Before, After
  <2>10. H!ResultsOfOneRun'
    <3>1. \A k \in H!Schedule' :
            files'[k] # None /\ files'[k].run = runs' /\ files'[k].source = runs'
      BY <2>1, <2>2, <2>5, <1>b
    <3>2. summary'.verified <=> ~rejected'
      BY <2>2, <2>3, <2>6
    <3> QED
      BY <2>2, <3>1, <3>2 DEF H!ResultsOfOneRun
  <2> QED
    BY <2>7, <2>8, <2>9, <2>10
<1>17. ASSUME H!Sampler PROVE Goal
  <2>1. UNCHANGED <<script, runs, cache, files, summary, pc, todo, trial, found, source,
                    requests, verified, rows, fresh, rejected>>
    BY <1>17 DEF H!Sampler, H!Check, H!Read, H!AppendSample, H!SamplerStep, H!disk,
       H!work, H!result
  <2> QED
    <3>1. HandsetType' /\ SummaryIsOfPast'
      BY <2>1, <1>b DEF HandsetType, SummaryIsOfPast
    <3>2. OwnCache' /\ VerdictsKept'
      BY <2>1 DEF OwnCache, VerdictsKept
    <3>3. RowsLeft' /\ ComputedOnce'
      BY <2>1, <1>b DEF RowsLeft, ComputedOnce
    <3>4. H!ResultsOfOneRun'
      BY <2>1, <1>b DEF H!ResultsOfOneRun
    <3> QED
      BY <3>1, <3>2, <3>3, <3>4
<1> QED
  BY <1>1, <1>2, <1>3, <1>4, <1>5, <1>6, <1>7, <1>8, <1>9, <1>10, <1>11, <1>12, <1>13,
     <1>14, <1>15, <1>16, <1>17 DEF H!Next, H!Main

\* The summary of a handset run is of rows of that run, which rest on that run's own
\* result, tells a rejected verdict, and AB-001 computes its result exactly once; for
\* any trials, samples and requests (main, run_trial of both scripts).
THEOREM SummariesAreOfOneRun == SpecExperiments => []ResultsOfOneRun
<1> DEFINE I == program = "handset" => Resulting
<1>1. InitExperiments => I
  BY ResultingInit
  DEF InitExperiments, InitFairAB, InitHandset, InitRefinery, InitReuse
<1>2. I /\ [NextExperiments]_allVars => I'
  <2> SUFFICES ASSUME I, [NextExperiments]_allVars, program' = "handset"
               PROVE  Resulting'
    OBVIOUS
  <2>1. ASSUME UNCHANGED allVars PROVE Resulting'
    <3>1. UNCHANGED <<program, script, requests, pc, runs, ofHandset>>
      BY <2>1 DEF allVars, vars, handler, disk
    <3>2. Resulting
      BY <3>1
    <3>3. H!Schedule' = H!Schedule
      BY <3>1 DEF H!Schedule, H!Arms
    <3>4. HandsetType' /\ SummaryIsOfPast'
      BY <3>1, <3>2, <3>3 DEF Resulting, HandsetType, SummaryIsOfPast, ofHandset
    <3>5. OwnCache' /\ VerdictsKept'
      BY <3>1, <3>2 DEF Resulting, OwnCache, VerdictsKept, ofHandset
    <3>6. RowsLeft' /\ ComputedOnce'
      BY <3>1, <3>2, <3>3 DEF Resulting, RowsLeft, ComputedOnce, ofHandset
    <3>7. H!ResultsOfOneRun'
      BY <3>1, <3>2, <3>3 DEF Resulting, H!ResultsOfOneRun, ofHandset
    <3> QED
      BY <3>4, <3>5, <3>6, <3>7 DEF Resulting
  <2>2. CASE HandsetAlone /\ H!Next
    BY <2>2, ResultingStep DEF HandsetAlone, Is
  <2> QED
    BY <2>1, <2>2 DEF NextExperiments, FairABAlone, HandsetAlone, RefineryAlone,
       ReuseAlone, Is
<1>3. I => ResultsOfOneRun
  BY DEF ResultsOfOneRun, Resulting
<1> QED
  BY <1>1, <1>2, <1>3, PTL DEF SpecExperiments
-----------------------------------------------------------------------------
(* The order of the arms in the structured trial                           *)

StructuredArms == {"CONTROL", "WHOLE_CACHE", "COMPONENT_CACHE", "EDEN"}

Orders ==
  {s \in [1 .. 4 -> StructuredArms] : \A i, j \in 1 .. 4 : i # j => s[i] # s[j]}

\* The turns of a block, as far as they have been taken, are those of an order that
\* is rotated by one place from request to request.
Follows(list, s, block) ==
  \A i \in 0 .. 3, p \in 1 .. 4 :
    LET t == 4 * (4 * block + i) + p
    IN  t \in DOMAIN list => list[t] = s[1 + ((p - 1 + i) % 4)]

\* The turns that are still to come in a request are the rest of its order.
ToCome(list, s, offset) ==
  \A q \in 1 .. Len(list) :
    list[q][1] = s[1 + ((3 - Len(list) + q + offset) % 4)]

InTurn ==
  script = "structured" =>
    /\ pc = "off" => begun = 0
    /\ begun \in Nat
    /\ turns \in Seq(StructuredArms)
    /\ queue \in Seq(StructuredArms \X Nat)
    /\ Len(queue) \in 0 .. 4 /\ (begun = 0 => Len(queue) = 0)
    /\ Len(turns) = 4 * begun - Len(queue)
    /\ \A block \in Nat : \E s \in Orders : Follows(turns, s, block)
    /\ begun > 0 => /\ base \in Orders
                    /\ Follows(turns, base, (begun - 1) \div 4)
                    /\ ToCome(queue, base, (begun - 1) % 4)

\* The structured trial has four arms.
LEMMA FourArms ==
  /\ script = "structured" =>
       /\ T!ArmsOf(script) = <<"CONTROL", "WHOLE_CACHE", "COMPONENT_CACHE", "EDEN">>
       /\ Len(T!ArmsOf(script)) = 4 /\ DOMAIN T!ArmsOf(script) = 1 .. 4
       /\ T!Arms = StructuredArms
       /\ T!SetToSeqs(T!Arms) = Orders
  /\ \E s \in Orders : TRUE
<1>1. ASSUME script = "structured"
      PROVE  /\ T!ArmsOf(script) = <<"CONTROL", "WHOLE_CACHE", "COMPONENT_CACHE", "EDEN">>
             /\ Len(T!ArmsOf(script)) = 4 /\ DOMAIN T!ArmsOf(script) = 1 .. 4
             /\ T!Arms = StructuredArms
  <2>1. T!ArmsOf(script) = <<"CONTROL", "WHOLE_CACHE", "COMPONENT_CACHE", "EDEN">>
    BY <1>1 DEF T!ArmsOf
  <2>2. Len(T!ArmsOf(script)) = 4 /\ DOMAIN T!ArmsOf(script) = 1 .. 4
    BY <2>1
  <2>3. T!Arms = StructuredArms
    <3> DEFINE s == <<"CONTROL", "WHOLE_CACHE", "COMPONENT_CACHE", "EDEN">>
    <3>1. /\ DOMAIN s = {1, 2, 3, 4} /\ s[1] = "CONTROL" /\ s[2] = "WHOLE_CACHE"
          /\ s[3] = "COMPONENT_CACHE" /\ s[4] = "EDEN"
      OBVIOUS
    <3>2. T!Arms = {s[i] : i \in DOMAIN s}
      BY <2>1 DEF T!Arms, T!ToSet
    <3> HIDE DEF s
    <3> QED
      BY <3>1, <3>2 DEF StructuredArms
  <2> QED
    BY <2>1, <2>2, <2>3
<1>2. Cardinality(StructuredArms) = 4
  <2>1. IsFiniteSet({}) /\ Cardinality({}) = 0
    BY FS_EmptySet
  <2>2. IsFiniteSet({"CONTROL"}) /\ Cardinality({"CONTROL"}) = 1
    BY FS_Singleton
  <2>3. /\ IsFiniteSet({"CONTROL", "WHOLE_CACHE"})
        /\ Cardinality({"CONTROL", "WHOLE_CACHE"}) = 2
    <3>1. {"CONTROL", "WHOLE_CACHE"} = {"CONTROL"} \union {"WHOLE_CACHE"}
      OBVIOUS
    <3> QED
      BY <2>2, <3>1, FS_AddElement
  <2>4. /\ IsFiniteSet({"CONTROL", "WHOLE_CACHE", "COMPONENT_CACHE"})
        /\ Cardinality({"CONTROL", "WHOLE_CACHE", "COMPONENT_CACHE"}) = 3
    <3>1. {"CONTROL", "WHOLE_CACHE", "COMPONENT_CACHE"}
            = {"CONTROL", "WHOLE_CACHE"} \union {"COMPONENT_CACHE"}
      OBVIOUS
    <3> QED
      BY <2>3, <3>1, FS_AddElement
  <2>5. StructuredArms = {"CONTROL", "WHOLE_CACHE", "COMPONENT_CACHE"} \union {"EDEN"}
    BY DEF StructuredArms
  <2> QED
    BY <2>4, <2>5, FS_AddElement
<1>3. T!SetToSeqs(StructuredArms) = Orders
  <2>1. T!Cardinality(StructuredArms) = Cardinality(StructuredArms)
    BY DEF T!Cardinality, Cardinality
  <2> QED
    BY <1>2, <2>1 DEF T!SetToSeqs, Orders
<1>4. \E s \in Orders : TRUE
  <2> DEFINE s == <<"CONTROL", "WHOLE_CACHE", "COMPONENT_CACHE", "EDEN">>
  <2>1. s \in Orders
    BY DEF Orders, StructuredArms
  <2> QED
    BY <2>1
<1> QED
  BY <1>1, <1>3, <1>4

\* Four things in a row are a sequence.
LEMMA FourInARow ==
  ASSUME NEW S, NEW f \in [1 .. 4 -> S] PROVE f \in Seq(S) /\ Len(f) = 4
<1>1. f \in Seq(S)
  <2>1. \E n \in Nat : f \in [1 .. n -> S]
    OBVIOUS
  <2> QED
    BY <2>1, SeqDef
<1>2. DOMAIN f = 1 .. 4
  OBVIOUS
<1>3. DOMAIN f = 1 .. Len(f) /\ Len(f) \in Nat
  BY <1>1, LenProperties
<1> QED
  BY <1>1, <1>2, <1>3

\* The arithmetic of blocks of four requests with four turns each.
LEMMA Places ==
  ASSUME NEW k \in Nat
  PROVE  /\ k % 4 \in 0 .. 3 /\ k \div 4 \in Nat
         /\ k = 4 * (k \div 4) + (k % 4)
  OBVIOUS

LEMMA OnePlace ==
  ASSUME NEW b \in Nat, NEW c \in Nat, NEW i \in 0 .. 3, NEW j \in 0 .. 3,
         NEW p \in 1 .. 4, NEW q \in 1 .. 4,
         4 * (4 * b + i) + p = 4 * (4 * c + j) + q
  PROVE  b = c /\ i = j /\ p = q
  OBVIOUS

LEMMA InTurnInit == T!Init => InTurn
<1> SUFFICES ASSUME T!Init, script = "structured" PROVE InTurn
  BY DEF InTurn
<1>1. /\ begun = 0 /\ turns = <<>> /\ queue = <<>>
      /\ Len(turns) = 0 /\ Len(queue) = 0
  BY DEF T!Init
<1>2. turns \in Seq(StructuredArms) /\ queue \in Seq(StructuredArms \X Nat)
  BY <1>1
<1>3. \A block \in Nat : \E s \in Orders : Follows(turns, s, block)
  BY <1>1, FourArms DEF Follows
<1>4. /\ begun \in Nat /\ ~(begun > 0) /\ Len(queue) \in 0 .. 4
      /\ Len(turns) = 4 * begun - Len(queue)
  <2>1. begun = 0 /\ Len(turns) = 0 /\ Len(queue) = 0
    BY <1>1
  <2> QED
    BY <2>1
<1> QED
  BY <1>1, <1>2, <1>3, <1>4 DEF InTurn

\* Where a turn is in its request, and how many are left.
LEMMA InARequest ==
  ASSUME NEW b \in Nat \ {0}, NEW l \in 1 .. 4, NEW n, n = 4 * b - l
  PROVE  /\ b - 1 \in Nat /\ 4 - l + 1 \in 1 .. 4 /\ n \in Nat
         /\ n + 1 = 4 * (b - 1) + (4 - l + 1)
         /\ l - 1 \in 0 .. 4 /\ n + 1 = 4 * b - (l - 1)
  OBVIOUS

\* What a turn of any arm does to the order.
TakesTurn ==
  /\ script = "structured" /\ script' = script /\ pc' # "off"
  /\ begun' = begun /\ base' = base
  /\ queue # <<>> /\ queue' = Tail(queue)
  /\ turns' = Append(turns, Head(queue)[1])

\* A turn is taken: it is the next in the order of its request.
LEMMA TurnTaken ==
  ASSUME InTurn, TakesTurn PROVE InTurn'
<1> DEFINE l == Len(queue)
           a == Head(queue)[1]
           k == begun - 1
           place == 4 - l + 1
           block == k \div 4
           offset == k % 4
<1>0. /\ script = "structured" /\ script' = script /\ pc' # "off"
      /\ begun' = begun /\ base' = base /\ turns' = Append(turns, a)
      /\ queue' = Tail(queue) /\ queue # <<>>
  BY DEF TakesTurn
<1>1. /\ l \in 1 .. 4 /\ begun \in Nat \ {0}
      /\ queue \in Seq(StructuredArms \X Nat) /\ turns \in Seq(StructuredArms)
      /\ Len(turns) = 4 * begun - l
  BY <1>0 DEF InTurn
<1>2. /\ Tail(queue) \in Seq(StructuredArms \X Nat) /\ Len(Tail(queue)) = l - 1
      /\ \A q \in 1 .. l - 1 : Tail(queue)[q] = queue[q + 1]
      /\ Head(queue) = queue[1] /\ queue[1] \in StructuredArms \X Nat
  BY <1>0, <1>1
<1>3. a \in StructuredArms /\ a = queue[1][1]
  BY <1>2
<1>4. base \in Orders /\ Follows(turns, base, block) /\ ToCome(queue, base, offset)
  BY <1>0, <1>1 DEF InTurn
<1> HIDE DEF l, a, k, place, block, offset
<1>i. /\ k \in Nat /\ place \in 1 .. 4 /\ Len(turns) \in Nat
      /\ Len(turns) + 1 = 4 * k + place
      /\ l - 1 \in 0 .. 4 /\ Len(turns) + 1 = 4 * begun - (l - 1)
  BY <1>1, InARequest DEF k, place
<1>5. offset \in 0 .. 3 /\ block \in Nat /\ k = 4 * block + offset
  BY <1>i, Places DEF offset, block
<1>6. a = base[1 + ((place - 1 + offset) % 4)]
  <2>1. 1 \in 1 .. Len(queue) /\ 3 - Len(queue) + 1 + offset = place - 1 + offset
    <3>1. 1 \in 1 .. l /\ 3 - l + 1 + offset = place - 1 + offset
      BY <1>1, <1>5 DEF place
    <3> QED
      BY <3>1 DEF l
  <2> QED
    BY <1>3, <1>4, <2>1 DEF ToCome
<1>7. Len(turns) + 1 = 4 * (4 * block + offset) + place
  BY <1>i, <1>5
<1>8. ToCome(queue', base', offset)
  <2> SUFFICES ASSUME NEW q \in 1 .. l - 1
               PROVE  queue[q + 1][1] = base[1 + ((3 - (l - 1) + q + offset) % 4)]
    BY <1>0, <1>2 DEF ToCome
  <2>1. q + 1 \in 1 .. Len(queue)
        /\ 3 - Len(queue) + (q + 1) + offset = 3 - (l - 1) + q + offset
    BY <1>1, <1>5 DEF l
  <2> QED
    BY <1>4, <2>1 DEF ToCome
<1>9. /\ turns' \in Seq(StructuredArms) /\ Len(turns') = Len(turns) + 1
      /\ DOMAIN turns = 1 .. Len(turns) /\ DOMAIN turns' = 1 .. Len(turns) + 1
      /\ \A t \in 1 .. Len(turns) : turns'[t] = turns[t]
      /\ turns'[Len(turns) + 1] = a
  <2>1. turns \in Seq(StructuredArms) /\ turns' = Append(turns, a)
    BY <1>0, <1>1
  <2>2. /\ Append(turns, a) \in Seq(StructuredArms)
        /\ Len(Append(turns, a)) = Len(turns) + 1
        /\ DOMAIN turns = 1 .. Len(turns)
        /\ DOMAIN Append(turns, a) = 1 .. Len(turns) + 1
        /\ \A t \in 1 .. Len(turns) : Append(turns, a)[t] = turns[t]
        /\ Append(turns, a)[Len(turns) + 1] = a
    BY <1>3, <2>1, AppendFacts
  <2> QED
    BY <2>1, <2>2
<1>10. ASSUME NEW c \in Nat, NEW s \in Orders, Follows(turns, s, c), c = block => s = base
       PROVE  Follows(turns', s, c)
  <2> SUFFICES ASSUME NEW i \in 0 .. 3, NEW p \in 1 .. 4,
                      4 * (4 * c + i) + p \in DOMAIN turns'
               PROVE  turns'[4 * (4 * c + i) + p] = s[1 + ((p - 1 + i) % 4)]
    BY DEF Follows
  <2> DEFINE t == 4 * (4 * c + i) + p
  <2>1. CASE t \in DOMAIN turns
    <3>1. turns[t] = s[1 + ((p - 1 + i) % 4)]
      BY <1>10, <2>1 DEF Follows
    <3> QED
      BY <1>9, <2>1, <3>1
  <2>2. CASE t = Len(turns) + 1
    <3>1. c = block /\ i = offset /\ p = place
      BY <1>i, <1>5, <1>7, <2>2, OnePlace
    <3>2. turns'[t] = a
      BY <1>9, <2>2
    <3> QED
      BY <1>6, <1>10, <3>1, <3>2
  <2>3. t \in 1 .. Len(turns) + 1
    BY <1>9
  <2> HIDE DEF t
  <2>4. t \in 1 .. Len(turns) \/ t = Len(turns) + 1
    BY <1>i, <2>3
  <2>5. t \in DOMAIN turns \/ t = Len(turns) + 1
    BY <1>9, <2>4
  <2> QED
    BY <2>1, <2>2, <2>5 DEF t
<1>11. \A c \in Nat : \E s \in Orders : Follows(turns', s, c)
  <2> TAKE c \in Nat
  <2>1. CASE c = block
    BY <1>4, <1>10, <2>1
  <2>2. CASE c # block
    <3>1. PICK s \in Orders : Follows(turns, s, c)
      BY <1>0 DEF InTurn
    <3> QED
      BY <1>10, <2>2, <3>1
  <2> QED
    BY <2>1, <2>2
<1>12. Follows(turns', base, block)
  BY <1>4, <1>5, <1>10
<1>13. Len(queue') \in 0 .. 4 /\ Len(turns') = 4 * begun' - Len(queue')
  <2>1. Len(queue') = l - 1 /\ begun' = begun
    BY <1>0, <1>2
  <2> QED
    BY <1>i, <1>9, <2>1
<1>14. /\ base' \in Orders /\ Follows(turns', base', (begun' - 1) \div 4)
       /\ ToCome(queue', base', (begun' - 1) % 4)
  BY <1>0, <1>4, <1>8, <1>12 DEF block, offset, k
<1>15. begun' \in Nat /\ begun' # 0 /\ queue' \in Seq(StructuredArms \X Nat)
  BY <1>0, <1>1, <1>2
<1> QED
  BY <1>0, <1>9, <1>11, <1>13, <1>14, <1>15 DEF InTurn

\* The next request begins: at the start of a block with an order of its own.
LEMMA RequestBegun ==
  ASSUME InTurn, script = "structured", T!NextRequest PROVE InTurn'
<1> DEFINE offset == begun % 4
           block == begun \div 4
<1>1. /\ begun \in Nat /\ queue = <<>> /\ Len(queue) = 0 /\ turns \in Seq(StructuredArms)
      /\ Len(turns) = 4 * begun
  BY DEF T!NextRequest, InTurn
<1>2. /\ script' = script /\ begun' = begun + 1 /\ turns' = turns
      /\ queue' = [p \in 1 .. 4 |-> <<T!Rotated(base', offset)[p], begun + 1>>]
      /\ IF offset = 0 THEN base' \in Orders ELSE base' = base
  <2> DEFINE list == T!ArmsOf(script)
  <2>1. /\ script' = script /\ begun' = begun + 1 /\ turns' = turns
        /\ IF begun % Len(list) = 0 THEN base' \in T!SetToSeqs(T!ToSet(list))
                                    ELSE base' = base
        /\ queue' = [p \in DOMAIN list |->
                        <<T!Rotated(base', begun % Len(list))[p], begun + 1>>]
    BY DEF T!NextRequest, T!trace
  <2>2. /\ Len(list) = 4 /\ DOMAIN list = 1 .. 4
        /\ T!SetToSeqs(T!ToSet(list)) = Orders
    BY FourArms DEF T!Arms
  <2> HIDE DEF list
  <2> QED
    BY <2>1, <2>2
<1>3. /\ offset \in 0 .. 3 /\ block \in Nat /\ begun = 4 * block + offset
  BY <1>1, Places
<1>4. ASSUME offset # 0 PROVE begun > 0 /\ (begun - 1) \div 4 = block
  <2>1. begun > 0 /\ begun - 1 \in Nat
    BY <1>1, <1>3, <1>4
  <2>2. /\ (begun - 1) % 4 \in 0 .. 3 /\ (begun - 1) \div 4 \in Nat
        /\ begun - 1 = 4 * ((begun - 1) \div 4) + ((begun - 1) % 4)
    BY <2>1, Places
  <2> HIDE DEF offset, block
  <2> QED
    BY <1>3, <1>4, <2>1, <2>2
<1> HIDE DEF offset, block
<1>5. base' \in Orders /\ Follows(turns, base', block)
  <2>1. CASE offset = 0
    <3>1. \A i \in 0 .. 3, p \in 1 .. 4 : 4 * (4 * block + i) + p \notin 1 .. Len(turns)
      BY <1>1, <1>3, <2>1
    <3>2. DOMAIN turns = 1 .. Len(turns)
      BY <1>1
    <3> QED
      BY <1>2, <2>1, <3>1, <3>2 DEF Follows
  <2>2. CASE offset # 0
    BY <1>2, <1>4, <2>2 DEF InTurn
  <2> QED
    BY <2>1, <2>2
<1>6. \A p \in 1 .. 4 : T!Rotated(base', offset)[p] = base'[1 + ((p - 1 + offset) % 4)]
  <2>1. base' \in [1 .. 4 -> StructuredArms]
    BY <1>5 DEF Orders
  <2>2. DOMAIN base' = 1 .. 4 /\ Len(base') = 4
    BY <2>1
  <2> QED
    BY <2>2 DEF T!Rotated
<1>7. \A p \in 1 .. 4 : base'[1 + ((p - 1 + offset) % 4)] \in StructuredArms
  <2>1. \A p \in 1 .. 4 : 1 + ((p - 1 + offset) % 4) \in 1 .. 4
    BY <1>3
  <2> QED
    BY <1>5, <2>1 DEF Orders
<1>8. queue' \in Seq(StructuredArms \X Nat) /\ Len(queue') = 4
  <2>1. \A p \in 1 .. 4 : <<T!Rotated(base', offset)[p], begun + 1>> \in StructuredArms \X Nat
    BY <1>1, <1>6, <1>7
  <2>2. queue' \in [1 .. 4 -> StructuredArms \X Nat]
    BY <1>2, <2>1
  <2> QED
    BY <2>2, FourInARow
<1>9. ToCome(queue', base', offset)
  <2> SUFFICES ASSUME NEW q \in 1 .. 4
               PROVE  queue'[q][1] = base'[1 + ((3 - 4 + q + offset) % 4)]
    BY <1>8 DEF ToCome
  <2>1. queue'[q][1] = base'[1 + ((q - 1 + offset) % 4)]
    BY <1>2, <1>6
  <2>2. 3 - 4 + q + offset = q - 1 + offset
    BY <1>3
  <2> QED
    BY <2>1, <2>2
<1>10. begun' - 1 = begun /\ begun' \in Nat /\ begun' > 0 /\ Len(turns) = 4 * begun' - 4
  BY <1>1, <1>2
<1>11. \A c \in Nat : \E s \in Orders : Follows(turns, s, c)
  BY DEF InTurn
<1>12. (begun' - 1) \div 4 = block /\ (begun' - 1) % 4 = offset
  BY <1>10 DEF block, offset
<1>13. pc' # "off"
  BY DEF T!NextRequest
<1> QED
  BY <1>1, <1>2, <1>5, <1>8, <1>9, <1>10, <1>11, <1>12, <1>13 DEF InTurn

\* No step of the trial takes a turn out of its order.
LEMMA InTurnStep ==
  ASSUME InTurn, T!Next PROVE InTurn'
<1> SUFFICES ASSUME script' = "structured" PROVE InTurn'
  BY DEF InTurn
<1>0. script' = script /\ pc' # "off"
  BY DEF T!Turn, T!Next, T!Main, T!BuildFlagship, T!BuildCapacity, T!BuildRequests,
     T!BuildAvoidance, T!BuildQuickstart, T!BuildStructured, T!Build, T!NextRequest,
     T!Control, T!WholeCache, T!ComponentCache, T!Eden, T!EdenRaises, T!EdenByForm,
     T!AnswersFrom, T!Answers, T!Tamper, T!Report, T!Refuse, T!FlagshipOfNothing,
     T!trace
<1>s. script = "structured"
  BY <1>0
<1>1. ASSUME UNCHANGED <<begun, base, turns, queue>> PROVE InTurn'
  BY <1>0, <1>1 DEF InTurn
<1>2. ASSUME \/ T!BuildFlagship \/ T!FlagshipOfNothing \/ T!BuildCapacity
             \/ T!BuildAvoidance \/ T!BuildQuickstart
      PROVE  FALSE
  BY <1>2, <1>s DEF T!BuildFlagship, T!BuildCapacity, T!BuildRequests, T!BuildAvoidance,
     T!BuildQuickstart, T!FlagshipOfNothing, T!Build
<1>3. ASSUME T!BuildStructured PROVE InTurn'
  <2>1. UNCHANGED <<begun, base, turns>> /\ queue' = <<>> /\ pc = "off"
    BY <1>3, <1>s DEF T!BuildStructured, T!Build, T!order
  <2>2. begun = 0 /\ queue' \in Seq(StructuredArms \X Nat) /\ Len(queue') = 0
    BY <1>s, <2>1 DEF InTurn
  <2>3. turns \in Seq(StructuredArms) /\ Len(turns) = 0
        /\ \A block \in Nat : \E s \in Orders : Follows(turns, s, block)
    BY <1>s, <2>2 DEF InTurn
  <2> QED
    BY <1>0, <2>1, <2>2, <2>3 DEF InTurn
<1>4. ASSUME T!NextRequest PROVE InTurn'
  BY <1>4, <1>s, RequestBegun
<1>5. ASSUME T!Control \/ T!WholeCache \/ T!ComponentCache \/ T!Eden \/ T!EdenByForm
      PROVE  InTurn'
  <2>1. /\ queue # <<>> /\ turns' = Append(turns, Head(queue)[1])
        /\ queue' = Tail(queue) /\ begun' = begun /\ base' = base
    BY <1>5 DEF T!Control, T!WholeCache, T!ComponentCache, T!Eden, T!EdenByForm, T!Turn,
       T!AnswersFrom, T!Answers, T!order
  <2> QED
    BY <1>0, <1>s, <2>1, TurnTaken DEF TakesTurn
<1>6. ASSUME T!EdenRaises \/ T!Tamper \/ T!Report \/ T!Refuse PROVE InTurn'
  <2>1. UNCHANGED <<begun, base, turns, queue>>
    BY <1>6 DEF T!EdenRaises, T!Tamper, T!Report, T!Refuse, T!order
  <2> QED
    BY <1>1, <2>1
<1> QED
  BY <1>2, <1>3, <1>4, <1>5, <1>6 DEF T!Next, T!Main

-----------------------------------------------------------------------------
\* An order of the arms has each of them at one place.
LEMMA OnceInAnOrder ==
  ASSUME NEW s \in Orders, NEW a \in StructuredArms
  PROVE  \E q \in 1 .. 4 : s[q] = a
<1>1. /\ s[1] \in StructuredArms /\ s[2] \in StructuredArms
      /\ s[3] \in StructuredArms /\ s[4] \in StructuredArms
      /\ s[1] # s[2] /\ s[1] # s[3] /\ s[1] # s[4]
      /\ s[2] # s[3] /\ s[2] # s[4] /\ s[3] # s[4]
  <2>1. /\ s \in [1 .. 4 -> StructuredArms] /\ \A i, j \in 1 .. 4 : i # j => s[i] # s[j]
        /\ 1 \in 1 .. 4 /\ 2 \in 1 .. 4 /\ 3 \in 1 .. 4 /\ 4 \in 1 .. 4
    BY DEF Orders
  <2> QED
    BY <2>1
<1>2. s[1] = a \/ s[2] = a \/ s[3] = a \/ s[4] = a
  BY <1>1 DEF StructuredArms
<1> QED
  BY <1>2

\* Rotating by one place from request to request brings every place to the front
\* of every other.
LEMMA Turned ==
  ASSUME NEW p \in 1 .. 4, NEW q \in 1 .. 4
  PROVE  \E i \in 0 .. 3 : 1 + ((p - 1 + i) % 4) = q
<1> DEFINE i == (q - p + 4) % 4
<1>1. i \in 0 .. 3 /\ 1 + ((p - 1 + i) % 4) = q
  OBVIOUS
<1> QED
  BY <1>1

LEMMA BalancedWhenInTurn == InTurn => T!PositionsBalanced
<1> SUFFICES ASSUME InTurn, script = "structured" PROVE T!PositionsBalanced
  BY DEF T!PositionsBalanced
<1> DEFINE Balanced(n) ==
             \A block \in 0 .. (Len(turns) \div (n * n)) - 1 : \A a \in StructuredArms :
               {p \in 1 .. n : \E i \in 0 .. n - 1 : turns[n * (n * block + i) + p] = a}
                 = 1 .. n
<1>f. Len(T!ArmsOf(script)) = 4 /\ T!Arms = StructuredArms
  BY FourArms
<1>b. Balanced(4) => T!PositionsBalanced
  <2> DEFINE n == Len(T!ArmsOf(script))
  <2>1. Balanced(n) => T!PositionsBalanced
    BY <1>f DEF T!PositionsBalanced
  <2> HIDE DEF Balanced
  <2> QED
    BY <1>f, <2>1
<1>c. /\ 4 * 4 = 16 /\ 0 .. 4 - 1 = 0 .. 3
  OBVIOUS
<1> SUFFICES ASSUME NEW block \in 0 .. (Len(turns) \div 16) - 1,
                    NEW a \in StructuredArms
             PROVE  {p \in 1 .. 4 : \E i \in 0 .. 3 :
                       turns[4 * (4 * block + i) + p] = a} = 1 .. 4
  BY <1>b, <1>c
<1>1. turns \in Seq(StructuredArms) /\ \E s \in Orders : Follows(turns, s, block)
  BY DEF InTurn
<1>2. PICK s \in Orders : Follows(turns, s, block)
  BY <1>1
<1>3. PICK q \in 1 .. 4 : s[q] = a
  BY OnceInAnOrder
<1>4. ASSUME NEW p \in 1 .. 4
      PROVE  \E i \in 0 .. 3 : turns[4 * (4 * block + i) + p] = a
  <2>1. PICK i \in 0 .. 3 : 1 + ((p - 1 + i) % 4) = q
    BY Turned
  <2>2. 4 * (4 * block + i) + p \in DOMAIN turns
    <3>1. Len(turns) \in Nat /\ DOMAIN turns = 1 .. Len(turns)
      BY <1>1
    <3> DEFINE n == Len(turns)
    <3>2. n \in Nat /\ block \in 0 .. (n \div 16) - 1
      BY <3>1
    <3> HIDE DEF n
    <3>3. 16 * (n \div 16) <= n /\ n \div 16 \in Nat
      BY <3>2
    <3>4. 4 * (4 * block + i) + p \in 1 .. n
      BY <3>2, <3>3
    <3> QED
      BY <3>1, <3>4 DEF n
  <2>3. turns[4 * (4 * block + i) + p] = s[1 + ((p - 1 + i) % 4)]
    BY <1>2, <2>2 DEF Follows
  <2> QED
    BY <1>3, <2>1, <2>3
<1> QED
  BY <1>4

\* In the structured trial each block of four requests has every arm in every
\* position once, whatever orders are drawn and however many requests there are
\* (run_trial).
THEOREM PositionsStayBalanced == SpecExperiments => []PositionsBalanced
<1> DEFINE I == program = "reuse" => InTurn
<1>1. InitExperiments => I
  BY InTurnInit DEF InitExperiments, InitFairAB, InitHandset, InitRefinery, InitReuse
<1>2. I /\ [NextExperiments]_allVars => I'
  <2> SUFFICES ASSUME I, [NextExperiments]_allVars, program' = "reuse"
               PROVE  InTurn'
    OBVIOUS
  <2>1. CASE UNCHANGED allVars
    BY <2>1 DEF allVars, vars, handler, ofReuse, InTurn
  <2>2. CASE ReuseAlone /\ T!Next
    BY <2>2, InTurnStep DEF ReuseAlone, Is
  <2> QED
    BY <2>1, <2>2 DEF NextExperiments, FairABAlone, HandsetAlone, RefineryAlone,
       ReuseAlone, Is
<1>3. I => PositionsBalanced
  BY BalancedWhenInTurn DEF PositionsBalanced
<1> HIDE DEF I
<1> QED
  BY <1>1, <1>2, <1>3, PTL DEF SpecExperiments

-----------------------------------------------------------------------------
(* The trials of exact reuse.  That a report is right is inductive only      *)
(* together with what leads to it: the line of turns has, for each arm, the  *)
(* requests that it has not answered, in their order; the stores hold the    *)
(* tasks seen so far; and what the EDEN arm has executed and reused adds up  *)
(* to the tasks asked for so far, the first time each is seen counting as    *)
(* an execution.                                                             *)

LessOnNat == OpToRel(<, Nat)

\* A set of numbers that is not empty has a least element.
LEMMA LeastExists ==
  ASSUME NEW S \in SUBSET Nat, S # {}
  PROVE  \E m \in S : \A n \in S : m <= n
<1>1. IsWellFoundedOn(LessOnNat, Nat)
  BY NatLessThanWellFounded DEF LessOnNat
<1>2. PICK m \in S : \A n \in S : <<n, m>> \notin LessOnNat
  BY <1>1, WFMin
<1>3. ASSUME NEW n \in S PROVE m <= n
  <2>1. <<n, m>> \in LessOnNat <=> n < m
    BY DEF LessOnNat, OpToRel
  <2> QED BY <2>1, <1>2
<1> QED BY <1>3

-----------------------------------------------------------------------------
(* What the invariant of the reuse trials says                             *)

Values == Nat \union {Wrong, Broken}

\* The places of the first n requests, and the tasks at them.
UpTo(list, n) == {o \in T!Occurrences(list) : o[1] <= n}
Seen(list, n) == {list[o[1]][o[2]] : o \in UpTo(list, n)}

\* A task has occurred before, in an earlier request or in the same one.
Reused(list, i, j) ==
  list[i][j] \in Seen(list, i - 1) \/ \E e \in 1 .. j - 1 : list[i][e] = list[i][j]

\* The places where the evidence says so.
Marked(ev) == {o \in T!Occurrences(ev) : ev[o[1]][o[2]]}

\* The line of turns: of each arm the requests that it has not answered, in
\* their order.  It has answered n[a] of those that have had their order.
InLine(line, n, total) ==
  /\ total \in Nat /\ n \in [T!Arms -> 0 .. total]
  /\ line \in Seq(T!Arms \X Nat)
  /\ \A p \in DOMAIN line : line[p][2] \in n[line[p][1]] + 1 .. total
  /\ \A p, q \in DOMAIN line :
       p < q /\ line[p][1] = line[q][1] => line[p][2] < line[q][2]
  /\ \A a \in T!Arms : \A i \in n[a] + 1 .. total :
       \E p \in DOMAIN line : line[p] = <<a, i>>

\* What an arm has answered and stored.
Answering(a, list, out, store, ex, ta) ==
  /\ a \in {"CONTROL", "WHOLE_CACHE"} \/ ta = None =>
       \A i \in 1 .. Len(out) : out[i] = list[i]
  /\ a = "CONTROL" => ex = Cardinality(UpTo(list, Len(out)))
  /\ a = "WHOLE_CACHE" => DOMAIN store = 1 .. Len(out)
  /\ a \notin {"CONTROL", "WHOLE_CACHE"} =>
       /\ DOMAIN store = Seen(list, Len(out))
       /\ \A t \in DOMAIN store : /\ store[t] \in [value : Values, bound : {t}]
                                  /\ ta = None => store[t].value = t

EvidenceRight(list, n, hit, ev) ==
  /\ ev \in Seq(Seq(BOOLEAN)) /\ Len(ev) = n
  /\ \A i \in 1 .. n : /\ DOMAIN ev[i] = DOMAIN list[i]
                        /\ \A j \in DOMAIN list[i] : ev[i][j] <=> Reused(list, i, j)
  /\ IsFiniteSet(Marked(ev)) /\ hit = Cardinality(Marked(ev))

\* What the EDEN arm has executed and reused.
EdenRight(s, list, out, ex, hit, fails, ev, ta) ==
  /\ s # "avoidance" => \A i \in 1 .. Len(out) : out[i] = list[i]
  /\ s # "avoidance" \/ ta = None => fails = 0
  /\ ex = Cardinality(Seen(list, Len(out))) + fails
  /\ ex + hit = Cardinality(UpTo(list, Len(out)))
  /\ s = "structured" => EvidenceRight(list, Len(out), hit, ev)

Total == IF script = "structured" THEN begun ELSE Len(requests)

Answered == [a \in T!Arms |-> Len(outputs[a])]

Scripts == {"flagship", "capacity", "avoidance", "quickstart", "structured"}

TrialType ==
  /\ script \in Scripts /\ pc \in {"off", "run", "reported", "raised"}
  /\ requests \in Seq(Seq(Nat)) /\ Total \in 0 .. Len(requests)
  /\ script = "avoidance" => \A i \in DOMAIN requests : Len(requests[i]) = 1
  /\ outputs \in [T!Arms -> Seq(Seq(Values))] /\ DOMAIN stores = T!Arms
  /\ executed \in [T!Arms -> Nat] /\ hits \in [T!Arms -> Nat] /\ failures \in Nat

NothingYet ==
  /\ outputs = [a \in T!Arms |-> <<>>] /\ stores = [a \in T!Arms |-> <<>>]
  /\ executed = [a \in T!Arms |-> 0] /\ hits = [a \in T!Arms |-> 0]
  /\ failures = 0 /\ evidence = <<>>

ArmsRight(list) ==
  /\ \A a \in T!Arms :
       Answering(a, list, outputs[a], stores[a], executed[a], tampered)
  /\ EdenRight(script, list, outputs["EDEN"], executed["EDEN"], hits["EDEN"],
               failures, evidence, tampered)

Concluded ==
  /\ tampered = None /\ requests # <<>> => pc # "raised"
  /\ report # None =>
       /\ pc = "reported"
       /\ report.equivalent => \A a \in T!Arms : outputs[a] = requests
       /\ report.executions["EDEN"] = unique
       /\ report.avoided = hits["EDEN"]
       /\ report.avoided + unique = report.executions["CONTROL"]
       /\ Len(outputs["EDEN"]) = Len(requests)
       /\ tampered = None => report.equivalent

Reusing ==
  /\ TrialType
  /\ pc = "off" => /\ NothingYet /\ begun = 0 /\ queue = <<>> /\ report = None
                   /\ requests = <<>>
  /\ pc \in {"run", "reported"} => unique = Cardinality(T!TasksOf(requests))
  /\ InLine(queue, Answered, Total)
  /\ ArmsRight(requests)
  /\ Concluded

-----------------------------------------------------------------------------
(* What is asked for, and what is counted                                  *)

LEMMA PlaceOf ==
  ASSUME NEW list, NEW o
  PROVE  o \in T!Occurrences(list) <=>
           \E i \in DOMAIN list : \E j \in DOMAIN list[i] : o = <<i, j>>
BY DEF T!Occurrences

LEMMA SameCardinality == ASSUME NEW S PROVE T!Cardinality(S) = Cardinality(S)
BY DEF T!Cardinality, Cardinality

\* The places of a list of requests are finitely many.
LEMMA PlacesFinite ==
  ASSUME NEW list, NEW n \in Nat, DOMAIN list = 1 .. n,
         \A i \in 1 .. n : IsFiniteSet(DOMAIN list[i])
  PROVE  IsFiniteSet(T!Occurrences(list))
<1> DEFINE place == [i \in 1 .. n |-> {i} \X DOMAIN list[i]]
           PlaceSets == {{i} \X DOMAIN list[i] : i \in DOMAIN list}
<1>1. IsFiniteSet(1 .. n)
  BY FS_Interval
<1>2. place \in Surjection(1 .. n, PlaceSets)
  BY DEF Surjection
<1>3. IsFiniteSet(PlaceSets)
  BY <1>1, <1>2, FS_Surjection
<1>4. \A i \in 1 .. n : IsFiniteSet({i} \X DOMAIN list[i])
  BY FS_Singleton, FS_Product
<1>5. IsFiniteSet(UNION PlaceSets)
  BY <1>3, <1>4, FS_UNION
<1> QED
  BY <1>5 DEF T!Occurrences

\* A row of a list and its places.
LEMMA RowCounts ==
  ASSUME NEW k, NEW S, IsFiniteSet(S)
  PROVE  IsFiniteSet({k} \X S) /\ Cardinality({k} \X S) = Cardinality(S)
<1>1. IsFiniteSet({k}) /\ Cardinality({k}) = 1 /\ Cardinality(S) \in Nat
  BY FS_Singleton, FS_CardinalityType
<1> QED
  BY <1>1, FS_Product

\* A sequence has as many places as it is long, and finitely many members.
LEMMA SequencePlaces ==
  ASSUME NEW S, NEW s \in Seq(S)
  PROVE  /\ DOMAIN s = 1 .. Len(s) /\ Len(s) \in Nat
         /\ IsFiniteSet(DOMAIN s) /\ Cardinality(DOMAIN s) = Len(s)
         /\ \A i \in DOMAIN s : s[i] \in S
         /\ IsFiniteSet(T!ToSet(s)) /\ T!ToSet(s) = {s[i] : i \in DOMAIN s}
<1>1. DOMAIN s = 1 .. Len(s) /\ Len(s) \in Nat /\ \A i \in DOMAIN s : s[i] \in S
  OBVIOUS
<1>2. IsFiniteSet(DOMAIN s) /\ Cardinality(DOMAIN s) = Len(s)
  <2> DEFINE n == Len(s)
  <2>1. n \in Nat /\ DOMAIN s = 1 .. n
    BY <1>1
  <2> HIDE DEF n
  <2>2. IsFiniteSet(1 .. n) /\ Cardinality(1 .. n) = IF 1 > n THEN 0 ELSE n - 1 + 1
    BY <2>1, FS_Interval
  <2>3. (IF 1 > n THEN 0 ELSE n - 1 + 1) = n
    BY <2>1
  <2> QED
    BY <2>1, <2>2, <2>3 DEF n
<1>3. T!ToSet(s) = {s[i] : i \in DOMAIN s}
  BY DEF T!ToSet
<1>4. IsFiniteSet({s[i] : i \in DOMAIN s})
  <2> DEFINE f == [i \in DOMAIN s |-> s[i]]
  <2>1. f \in Surjection(DOMAIN s, {s[i] : i \in DOMAIN s})
    BY DEF Surjection
  <2> QED
    BY <1>2, <2>1, FS_Surjection
<1> QED
  BY <1>1, <1>2, <1>3, <1>4

\* The next request adds its places and its tasks.
LEMMA BeforeNext ==
  ASSUME NEW list \in Seq(Seq(Nat)), NEW n \in Nat, n + 1 \in 1 .. Len(list)
  PROVE  /\ UpTo(list, n + 1) = UpTo(list, n) \union ({n + 1} \X DOMAIN list[n + 1])
         /\ UpTo(list, n) \intersect ({n + 1} \X DOMAIN list[n + 1]) = {}
         /\ Seen(list, n + 1) = Seen(list, n) \union T!ToSet(list[n + 1])
<1> DEFINE added == {n + 1} \X DOMAIN list[n + 1]
<1>1. n + 1 \in DOMAIN list /\ \A i \in DOMAIN list : i \in Nat
  OBVIOUS
<1>2. \A o : o \in UpTo(list, n) <=>
        \E i \in DOMAIN list : \E j \in DOMAIN list[i] : o = <<i, j>> /\ i <= n
  BY PlaceOf DEF UpTo
<1>3. \A o : o \in UpTo(list, n + 1) <=>
        \E i \in DOMAIN list : \E j \in DOMAIN list[i] : o = <<i, j>> /\ i <= n + 1
  BY PlaceOf DEF UpTo
<1>4. \A o : o \in added <=> \E j \in DOMAIN list[n + 1] : o = <<n + 1, j>>
  OBVIOUS
<1>5. \A i \in DOMAIN list : i <= n + 1 <=> i <= n \/ i = n + 1
  <2>1. \A i \in Nat : i <= n + 1 <=> i <= n \/ i = n + 1
    OBVIOUS
  <2> QED
    BY <1>1, <2>1
<1>6. UpTo(list, n + 1) = UpTo(list, n) \union added
  <2> HIDE DEF added
  <2> QED
    BY <1>1, <1>2, <1>3, <1>4, <1>5
<1>7. UpTo(list, n) \intersect added = {}
  <2>1. ~(n + 1 <= n)
    OBVIOUS
  <2> HIDE DEF added
  <2> QED
    BY <1>2, <1>4, <2>1
<1>8. {list[o[1]][o[2]] : o \in added} = T!ToSet(list[n + 1])
  <2>1. T!ToSet(list[n + 1]) = {list[n + 1][j] : j \in DOMAIN list[n + 1]}
    BY DEF T!ToSet
  <2>2. \A o \in added : \E j \in DOMAIN list[n + 1] :
          list[o[1]][o[2]] = list[n + 1][j]
    BY <1>4
  <2>3. \A j \in DOMAIN list[n + 1] : \E o \in added :
          list[o[1]][o[2]] = list[n + 1][j]
    <3> TAKE j \in DOMAIN list[n + 1]
    <3>1. <<n + 1, j>> \in added
      BY <1>4
    <3> HIDE DEF added
    <3> QED
      BY <3>1
  <2> DEFINE set == {list[o[1]][o[2]] : o \in added}
             members == T!ToSet(list[n + 1])
  <2>4. \A v : v \in set <=> \E o \in added : v = list[o[1]][o[2]]
    OBVIOUS
  <2>5. \A v : v \in members <=> \E j \in DOMAIN list[n + 1] : v = list[n + 1][j]
    BY <2>1
  <2> HIDE DEF set, members, added
  <2>6. ASSUME NEW v \in set PROVE v \in members
    <3>1. PICK o \in added : v = list[o[1]][o[2]]
      BY <2>4
    <3>2. PICK j \in DOMAIN list[n + 1] : list[o[1]][o[2]] = list[n + 1][j]
      BY <2>2
    <3> QED
      BY <2>5, <3>1, <3>2
  <2>7. ASSUME NEW v \in members PROVE v \in set
    <3>1. PICK j \in DOMAIN list[n + 1] : v = list[n + 1][j]
      BY <2>5
    <3>2. PICK o \in added : list[o[1]][o[2]] = list[n + 1][j]
      BY <2>3
    <3> QED
      BY <2>4, <3>1, <3>2
  <2>8. set = members
    BY <2>6, <2>7
  <2> QED
    BY <2>8 DEF set, members
<1>9. Seen(list, n + 1) = Seen(list, n) \union {list[o[1]][o[2]] : o \in added}
  <2> HIDE DEF added
  <2> QED
    BY <1>6 DEF Seen
<1> QED
  BY <1>6, <1>7, <1>8, <1>9

LEMMA CountsBefore ==
  ASSUME NEW list \in Seq(Seq(Nat)), NEW n \in Nat
  PROVE  /\ IsFiniteSet(UpTo(list, n)) /\ IsFiniteSet(Seen(list, n))
         /\ Cardinality(UpTo(list, n)) \in Nat /\ Cardinality(Seen(list, n)) \in Nat
         /\ n + 1 \in 1 .. Len(list) =>
              Cardinality(UpTo(list, n + 1))
                = Cardinality(UpTo(list, n)) + Len(list[n + 1])
<1>1. IsFiniteSet(T!Occurrences(list))
  <2>1. Len(list) \in Nat /\ DOMAIN list = 1 .. Len(list)
        /\ \A i \in 1 .. Len(list) : list[i] \in Seq(Nat)
    BY SequencePlaces
  <2>2. \A i \in 1 .. Len(list) : IsFiniteSet(DOMAIN list[i])
    BY <2>1, SequencePlaces
  <2> QED
    BY <2>1, <2>2, PlacesFinite
<1>2. IsFiniteSet(UpTo(list, n))
  BY <1>1, FS_Subset DEF UpTo
<1>3. IsFiniteSet(Seen(list, n))
  <2> DEFINE f == [o \in UpTo(list, n) |-> list[o[1]][o[2]]]
  <2>1. f \in Surjection(UpTo(list, n), Seen(list, n))
    BY DEF Surjection, Seen
  <2> QED
    BY <1>2, <2>1, FS_Surjection
<1>4. Cardinality(UpTo(list, n)) \in Nat /\ Cardinality(Seen(list, n)) \in Nat
  BY <1>2, <1>3, FS_CardinalityType
<1>5. ASSUME n + 1 \in 1 .. Len(list)
      PROVE  Cardinality(UpTo(list, n + 1))
               = Cardinality(UpTo(list, n)) + Len(list[n + 1])
  <2> DEFINE r == list[n + 1]
             added == {n + 1} \X DOMAIN r
  <2>1. r \in Seq(Nat)
    BY <1>5
  <2>2. IsFiniteSet(DOMAIN r) /\ Cardinality(DOMAIN r) = Len(r) /\ Len(r) \in Nat
    BY <2>1, SequencePlaces
  <2>3. IsFiniteSet(added) /\ Cardinality(added) = Len(r)
    BY <2>2, RowCounts
  <2>4. UpTo(list, n + 1) = UpTo(list, n) \union added
        /\ UpTo(list, n) \intersect added = {}
    BY <1>5, BeforeNext
  <2>5. Cardinality({}) = 0
    BY FS_EmptySet
  <2> DEFINE before == UpTo(list, n)
  <2>6. IsFiniteSet(before) /\ before \intersect added = {}
    BY <1>2, <2>4
  <2> HIDE DEF added, r, before
  <2>7. Cardinality(before \union added)
          = Cardinality(before) + Cardinality(added) - Cardinality(before \intersect added)
    BY <2>3, <2>6, FS_Union
  <2>8. Cardinality(before \union added) = Cardinality(before) + Len(r)
    <3>1. Cardinality(before) \in Nat
      BY <2>6, FS_CardinalityType
    <3>2. Cardinality(before \intersect added) = 0
      BY <2>5, <2>6
    <3> QED
      BY <2>2, <2>3, <2>7, <3>1, <3>2
  <2> QED
    BY <2>4, <2>8 DEF r, before
<1> QED
  BY <1>2, <1>3, <1>4, <1>5

\* As many tasks are executed as are new in a request: the first of each.
LEMMA NewTasks ==
  ASSUME NEW r \in Seq(Nat), NEW store, IsFiniteSet(DOMAIN store)
  PROVE  LET h == T!Hits(store, r) IN
         /\ h \subseteq DOMAIN r /\ IsFiniteSet(h) /\ T!Cardinality(h) = Cardinality(h)
         /\ Cardinality(h) \in 0 .. Len(r)
         /\ Cardinality(DOMAIN store \union T!ToSet(r))
              = Cardinality(DOMAIN store) + (Len(r) - Cardinality(h))
<1> DEFINE h == T!Hits(store, r)
           new == DOMAIN r \ h
           tasks == T!ToSet(r) \ DOMAIN store
<1>1. /\ DOMAIN r = 1 .. Len(r) /\ Len(r) \in Nat
      /\ IsFiniteSet(DOMAIN r) /\ Cardinality(DOMAIN r) = Len(r)
      /\ T!ToSet(r) = {r[j] : j \in DOMAIN r}
      /\ IsFiniteSet(T!ToSet(r)) /\ \A j \in DOMAIN r : r[j] \in Nat
  BY SequencePlaces
<1>2. h \subseteq DOMAIN r /\ T!Cardinality(h) = Cardinality(h)
  BY SameCardinality DEF T!Hits
<1>3. IsFiniteSet(h) /\ Cardinality(h) \in Nat /\ Cardinality(h) <= Len(r)
  BY <1>1, <1>2, FS_Subset, FS_CardinalityType
<1>4. IsFiniteSet(new) /\ Cardinality(new) = Len(r) - Cardinality(h)
  <2> DEFINE d == DOMAIN r
  <2>1. d \intersect h = h /\ IsFiniteSet(d) /\ Cardinality(d) = Len(r)
    BY <1>1, <1>2
  <2>2. new = d \ h
    OBVIOUS
  <2> HIDE DEF h, d, new
  <2>3. IsFiniteSet(d \ h) /\ Cardinality(d \ h) = Cardinality(d) - Cardinality(d \intersect h)
    BY <2>1, FS_Difference
  <2> QED
    BY <2>1, <2>2, <2>3
<1>5. \A j \in DOMAIN r :
        j \in new <=> r[j] \notin DOMAIN store /\ \A i \in 1 .. j - 1 : r[i] # r[j]
  BY DEF T!Hits
<1> DEFINE f == [j \in new |-> r[j]]
<1>6. f \in Bijection(new, tasks)
  <2>1. \A j \in new : r[j] \in tasks
    BY <1>1, <1>5
  <2>2. ASSUME NEW i \in new, NEW j \in new, r[i] = r[j] PROVE i = j
    <3>1. i \in 1 .. Len(r) /\ j \in 1 .. Len(r)
      BY <1>1
    <3>2. i \notin 1 .. j - 1 /\ j \notin 1 .. i - 1
      BY <1>1, <1>5, <2>2
    <3> QED
      BY <1>1, <3>1, <3>2
  <2>3. ASSUME NEW t \in tasks PROVE \E j \in new : r[j] = t
    <3> DEFINE places == {j \in DOMAIN r : r[j] = t}
    <3>1. places \in SUBSET Nat /\ places # {}
      BY <1>1
    <3>2. PICK j \in places : \A i \in places : j <= i
      BY <3>1, LeastExists
    <3>3. j \in DOMAIN r /\ r[j] = t
      BY <3>2
    <3>4. ASSUME NEW i \in 1 .. j - 1 PROVE r[i] # r[j]
      <4>1. i \in DOMAIN r /\ ~(j <= i)
        BY <1>1, <3>3
      <4> QED
        BY <3>2, <3>3, <4>1
    <3> HIDE DEF new, places
    <3>5. j \in new
      BY <1>5, <3>3, <3>4
    <3> QED
      BY <3>3, <3>5
  <2> HIDE DEF new, tasks
  <2>4. f \in [new -> tasks]
    BY <2>1
  <2>5. IsInjective(f)
    BY <2>2 DEF IsInjective
  <2>6. \A t \in tasks : \E j \in new : f[j] = t
    BY <2>3
  <2> QED
    BY <2>4, <2>5, <2>6 DEF Bijection, Injection, Surjection
<1>7. IsFiniteSet(tasks) /\ Cardinality(tasks) = Cardinality(new)
  <2>1. ExistsBijection(new, tasks)
    BY <1>6 DEF ExistsBijection
  <2> HIDE DEF new, tasks, f
  <2> QED
    BY <1>4, <2>1, FS_Bijection
<1>8. /\ DOMAIN store \union T!ToSet(r) = DOMAIN store \union tasks
      /\ DOMAIN store \intersect tasks = {}
  OBVIOUS
<1>9. Cardinality(DOMAIN store) \in Nat /\ Cardinality({}) = 0
  BY FS_CardinalityType, FS_EmptySet
<1> HIDE DEF new, tasks, h
<1>10. Cardinality(DOMAIN store \union tasks)
         = Cardinality(DOMAIN store) + Cardinality(tasks) - 0
  BY <1>7, <1>8, <1>9, FS_Union
<1>11. Cardinality(h) \in 0 .. Len(r)
  BY <1>1, <1>3
<1>12. Cardinality(DOMAIN store \union tasks)
         = Cardinality(DOMAIN store) + (Len(r) - Cardinality(h))
  BY <1>1, <1>3, <1>4, <1>7, <1>9, <1>10
<1> QED
  BY <1>2, <1>3, <1>8, <1>11, <1>12 DEF h

-----------------------------------------------------------------------------
(* The line of turns                                                       *)

\* What the first turn of a line and the rest of it are.
LEMMA FirstAndRest ==
  ASSUME NEW S, NEW s \in Seq(S), s # <<>>
  PROVE  /\ Len(s) \in Nat \ {0} /\ DOMAIN s = 1 .. Len(s) /\ 1 \in DOMAIN s
         /\ Head(s) = s[1] /\ s[1] \in S
         /\ Tail(s) \in Seq(S) /\ Len(Tail(s)) = Len(s) - 1
         /\ DOMAIN Tail(s) = 1 .. Len(s) - 1
         /\ \A q \in 1 .. Len(s) - 1 : Tail(s)[q] = s[q + 1] /\ q + 1 \in DOMAIN s
<1>1. Len(s) \in Nat \ {0} /\ DOMAIN s = 1 .. Len(s)
  OBVIOUS
<1>2. Tail(s) \in Seq(S) /\ Len(Tail(s)) = Len(s) - 1 /\ Head(s) = s[1] /\ s[1] \in S
  OBVIOUS
<1>3. \A q \in 1 .. Len(s) - 1 : Tail(s)[q] = s[q + 1]
  OBVIOUS
<1>4. DOMAIN Tail(s) = 1 .. Len(Tail(s))
  BY <1>2
<1>5. 1 \in 1 .. Len(s) /\ \A q \in 1 .. Len(s) - 1 : q + 1 \in 1 .. Len(s)
  BY <1>1
<1> QED
  BY <1>1, <1>2, <1>3, <1>4, <1>5

\* The first turn is that of an arm for the first request that it has not
\* answered.
LEMMA FirstInLine ==
  ASSUME NEW line, NEW n, NEW total, InLine(line, n, total), line # <<>>
  PROVE  LET a == line[1][1] IN
         /\ Head(line) = line[1] /\ a \in T!Arms
         /\ line[1] = <<a, n[a] + 1>> /\ n[a] \in Nat /\ n[a] + 1 \in 1 .. total
<1> DEFINE a == line[1][1]
           i == line[1][2]
<1>1. /\ DOMAIN line = 1 .. Len(line) /\ 1 \in DOMAIN line /\ Head(line) = line[1]
      /\ line[1] \in T!Arms \X Nat /\ Len(line) \in Nat
  BY FirstAndRest DEF InLine
<1>2. a \in T!Arms /\ i \in Nat /\ line[1] = <<a, i>>
  BY <1>1
<1>3. total \in Nat /\ n[a] \in 0 .. total /\ i \in n[a] + 1 .. total
  BY <1>1, <1>2 DEF InLine
<1>4. n[a] + 1 \in n[a] + 1 .. total /\ n[a] \in Nat /\ n[a] + 1 \in 1 .. total
  BY <1>2, <1>3
<1>5. PICK p \in DOMAIN line : line[p] = <<a, n[a] + 1>>
  BY <1>2, <1>4 DEF InLine
<1>6. p = 1
  <2> SUFFICES ASSUME p # 1 PROVE FALSE
    OBVIOUS
  <2>1. 1 < p
    BY <1>1
  <2>2. line[1][1] = line[p][1] /\ line[p][2] = n[a] + 1
    BY <1>5
  <2>3. i < n[a] + 1
    BY <1>1, <2>1, <2>2 DEF InLine
  <2> QED
    BY <1>2, <1>3, <2>3
<1> QED
  BY <1>1, <1>2, <1>4, <1>5, <1>6

\* When it has been taken the line is that of the requests that are left.
LEMMA RestOfLine ==
  ASSUME NEW line, NEW n, NEW total, InLine(line, n, total), line # <<>>,
         NEW m, NEW a, a = line[1][1],
         m \in [T!Arms -> Nat],
         \A b \in T!Arms : m[b] = IF b = a THEN n[a] + 1 ELSE n[b]
  PROVE  InLine(Tail(line), m, total)
<1>1. /\ a \in T!Arms /\ line[1] = <<a, n[a] + 1>>
      /\ n[a] \in Nat /\ n[a] + 1 \in 1 .. total
  BY FirstInLine
<1> DEFINE rest == Tail(line)
           l == Len(line)
<1>2. /\ DOMAIN line = 1 .. l /\ l \in Nat \ {0} /\ 1 \in DOMAIN line
      /\ rest \in Seq(T!Arms \X Nat) /\ DOMAIN rest = 1 .. l - 1
      /\ \A q \in 1 .. l - 1 : rest[q] = line[q + 1] /\ q + 1 \in DOMAIN line
  BY FirstAndRest DEF InLine
<1>3. /\ total \in Nat /\ n \in [T!Arms -> 0 .. total]
      /\ \A p \in DOMAIN line : line[p] \in T!Arms \X Nat
      /\ \A p \in DOMAIN line : line[p][2] \in n[line[p][1]] + 1 .. total
      /\ \A p, q \in DOMAIN line :
           p < q /\ line[p][1] = line[q][1] => line[p][2] < line[q][2]
      /\ \A b \in T!Arms : \A i \in n[b] + 1 .. total :
           \E p \in DOMAIN line : line[p] = <<b, i>>
  BY DEF InLine
<1> HIDE DEF rest, l
<1>4. m \in [T!Arms -> 0 .. total]
  <2>1. \A b \in T!Arms : m[b] \in 0 .. total
    BY <1>1, <1>3
  <2> QED
    BY <2>1
<1>5. ASSUME NEW q \in DOMAIN rest PROVE rest[q][2] \in m[rest[q][1]] + 1 .. total
  <2>1. /\ rest[q] = line[q + 1] /\ q + 1 \in DOMAIN line /\ q \in Nat /\ 1 < q + 1
    BY <1>2
  <2> DEFINE b == rest[q][1]
             i == rest[q][2]
  <2>2. b \in T!Arms /\ i \in Nat /\ i \in n[b] + 1 .. total /\ n[b] \in Nat
    BY <1>3, <2>1
  <2>3. CASE b = a
    <3>1. line[1][1] = line[q + 1][1] /\ line[1][2] = n[a] + 1
      BY <1>1, <2>1, <2>3
    <3>2. n[a] + 1 < i
      BY <1>2, <1>3, <2>1, <3>1
    <3> HIDE DEF b, i
    <3>3. m[b] = n[a] + 1
      BY <1>1, <2>3
    <3>4. i \in m[b] + 1 .. total
      BY <1>1, <2>2, <2>3, <3>2, <3>3
    <3> QED
      BY <3>4 DEF b, i
  <2>4. CASE b # a
    <3>1. m[b] = n[b]
      BY <2>2, <2>4
    <3> QED
      BY <2>2, <3>1
  <2> QED
    BY <2>3, <2>4
<1>6. ASSUME NEW p \in DOMAIN rest, NEW q \in DOMAIN rest, p < q, rest[p][1] = rest[q][1]
      PROVE  rest[p][2] < rest[q][2]
  <2>1. p \in 1 .. l - 1 /\ q \in 1 .. l - 1
    BY <1>2
  <2>2. /\ rest[p] = line[p + 1] /\ rest[q] = line[q + 1]
        /\ p + 1 \in DOMAIN line /\ q + 1 \in DOMAIN line
    BY <1>2, <2>1
  <2>3. p + 1 < q + 1
    BY <1>2, <1>6, <2>1
  <2> QED
    BY <1>3, <1>6, <2>2, <2>3
<1>7. ASSUME NEW b \in T!Arms, NEW i \in m[b] + 1 .. total
      PROVE  \E q \in DOMAIN rest : rest[q] = <<b, i>>
  <2>1. n[b] \in Nat /\ i \in n[b] + 1 .. total /\ (b = a => i # n[a] + 1)
    BY <1>1, <1>3
  <2>2. PICK p \in DOMAIN line : line[p] = <<b, i>>
    BY <1>3, <2>1
  <2>3. p # 1
    <3> SUFFICES ASSUME p = 1 PROVE FALSE
      OBVIOUS
    <3>1. <<a, n[a] + 1>> = <<b, i>>
      BY <1>1, <2>2
    <3>2. a = b /\ n[a] + 1 = i
      BY <3>1
    <3> QED
      BY <2>1, <3>2
  <2>4. p - 1 \in DOMAIN rest /\ rest[p - 1] = line[p]
    <3>1. p \in 1 .. l /\ l \in Nat
      BY <1>2
    <3>2. p - 1 \in 1 .. l - 1 /\ p - 1 + 1 = p
      BY <2>3, <3>1
    <3> QED
      BY <1>2, <3>2
  <2> QED
    BY <2>2, <2>4
<1> QED
  BY <1>2, <1>3, <1>4, <1>5, <1>6, <1>7 DEF InLine, rest

\* A line with all arms in it once, in whatever order, for the next request.
LEMMA NextInLine ==
  ASSUME NEW n, NEW total, InLine(<<>>, n, total),
         NEW turn,
         turn \in Seq(T!Arms \X Nat),
         \A p \in DOMAIN turn : turn[p][2] = total + 1,
         \A p, q \in DOMAIN turn : turn[p][1] = turn[q][1] => p = q,
         \A a \in T!Arms : \E p \in DOMAIN turn : turn[p][1] = a
  PROVE  InLine(turn, n, total + 1)
<1>1. total \in Nat /\ n \in [T!Arms -> 0 .. total]
      /\ \A a \in T!Arms : \A i \in n[a] + 1 .. total :
           \E p \in DOMAIN <<>> : <<>>[p] = <<a, i>>
  BY DEF InLine
<1>2. ASSUME NEW a \in T!Arms PROVE n[a] = total
  <2>1. ~ \E p \in DOMAIN <<>> : TRUE
    OBVIOUS
  <2>2. n[a] \in 0 .. total /\ ~ \E i \in n[a] + 1 .. total : TRUE
    BY <1>1, <2>1
  <2>3. n[a] < total => n[a] + 1 \in n[a] + 1 .. total
    BY <1>1, <2>2
  <2> QED
    BY <1>1, <2>2, <2>3
<1>3. n \in [T!Arms -> 0 .. total + 1] /\ total + 1 \in Nat
  <2>1. total + 1 \in 0 .. total + 1
    BY <1>1
  <2>2. \A k \in 0 .. total : k \in 0 .. total + 1
    BY <1>1
  <2>3. \A a \in T!Arms : n[a] \in 0 .. total + 1
    BY <1>1, <2>2
  <2> QED
    BY <1>1, <2>3
<1>4. \A p \in DOMAIN turn : turn[p] \in T!Arms \X Nat
  OBVIOUS
<1>5. \A p \in DOMAIN turn : turn[p][2] \in n[turn[p][1]] + 1 .. total + 1
  <2> TAKE p \in DOMAIN turn
  <2>1. turn[p][2] = total + 1 /\ n[turn[p][1]] = total
    BY <1>2, <1>4
  <2> QED
    BY <1>1, <2>1
<1>6. \A p, q \in DOMAIN turn :
        p < q /\ turn[p][1] = turn[q][1] => turn[p][2] < turn[q][2]
  <2>1. DOMAIN turn = 1 .. Len(turn)
    OBVIOUS
  <2>2. \A p \in DOMAIN turn : ~(p < p)
    BY <2>1
  <2> QED
    BY <2>2
<1>7. ASSUME NEW a \in T!Arms, NEW i \in n[a] + 1 .. total + 1
      PROVE  \E p \in DOMAIN turn : turn[p] = <<a, i>>
  <2>1. PICK p \in DOMAIN turn : turn[p][1] = a
    OBVIOUS
  <2>2. i = total + 1
    BY <1>1, <1>2
  <2>3. turn[p] = <<turn[p][1], turn[p][2]>>
    BY <1>4
  <2> QED
    BY <2>1, <2>2, <2>3
<1> QED
  BY <1>3, <1>5, <1>6, <1>7 DEF InLine

-----------------------------------------------------------------------------
(* What an answer adds to what an arm has stored and counted               *)

\* A store that lacks tasks of a request is filled with them, and answers it
\* rightly if what it had of them was right.
LEMMA FromStore ==
  ASSUME NEW r \in Seq(Nat), NEW store,
         \A t \in DOMAIN store : store[t] \in [value : Values, bound : {t}]
  PROVE  LET filled == T!Filled(store, r)
             answer == [j \in DOMAIN r |-> filled[r[j]].value]
         IN
         /\ DOMAIN filled = DOMAIN store \union T!ToSet(r)
         /\ \A t \in DOMAIN filled : filled[t] \in [value : Values, bound : {t}]
         /\ answer \in Seq(Values)
         /\ (\A t \in T!ToSet(r) \intersect DOMAIN store : store[t].value = t)
              => answer = r
         /\ (\A t \in DOMAIN store : store[t].value = t)
              => \A t \in DOMAIN filled : filled[t].value = t
<1> DEFINE filled == T!Filled(store, r)
           answer == [j \in DOMAIN r |-> filled[r[j]].value]
<1>1. /\ DOMAIN r = 1 .. Len(r) /\ Len(r) \in Nat /\ \A j \in DOMAIN r : r[j] \in Nat
      /\ T!ToSet(r) = {r[j] : j \in DOMAIN r}
  BY SequencePlaces
<1>2. /\ DOMAIN filled = DOMAIN store \union T!ToSet(r)
      /\ \A t \in DOMAIN filled :
           filled[t] = IF t \in DOMAIN store THEN store[t] ELSE T!Stored(t)
  BY DEF T!Filled
<1>3. \A t \in Nat : /\ T!Stored(t) \in [value : Values, bound : {t}]
                     /\ T!Stored(t).value = t
  BY DEF T!Stored, Values
<1>4. \A t \in T!ToSet(r) : t \in Nat
  BY <1>1
<1>5. \A j \in DOMAIN r : r[j] \in T!ToSet(r)
  BY <1>1
<1> HIDE DEF filled
<1>6. \A t \in DOMAIN filled : filled[t] \in [value : Values, bound : {t}]
  BY <1>2, <1>3, <1>4
<1>7. \A j \in DOMAIN r : filled[r[j]].value \in Values
  <2> TAKE j \in DOMAIN r
  <2>1. filled[r[j]] \in [value : Values, bound : {r[j]}]
    BY <1>2, <1>5, <1>6
  <2> QED
    BY <2>1
<1>8. answer \in Seq(Values)
  <2> DEFINE l == Len(r)
  <2>1. answer \in [1 .. l -> Values] /\ l \in Nat
    BY <1>1, <1>7
  <2> HIDE DEF l, answer
  <2> QED
    BY <2>1
<1>9. ASSUME \A t \in T!ToSet(r) \intersect DOMAIN store : store[t].value = t
      PROVE  answer = r
  <2>1. \A j \in DOMAIN r : filled[r[j]].value = r[j]
    BY <1>2, <1>3, <1>4, <1>5, <1>9
  <2>2. r = [j \in DOMAIN r |-> r[j]]
    BY <1>1
  <2> QED
    BY <2>1, <2>2
<1>10. ASSUME \A t \in DOMAIN store : store[t].value = t
       PROVE  \A t \in DOMAIN filled : filled[t].value = t
  BY <1>2, <1>3, <1>4, <1>10
<1> HIDE DEF answer
<1>11. /\ DOMAIN filled = DOMAIN store \union T!ToSet(r)
       /\ \A t \in DOMAIN filled : filled[t] \in [value : Values, bound : {t}]
       /\ answer \in Seq(Values)
       /\ (\A t \in T!ToSet(r) \intersect DOMAIN store : store[t].value = t)
            => answer = r
       /\ (\A t \in DOMAIN store : store[t].value = t)
            => \A t \in DOMAIN filled : filled[t].value = t
  BY <1>2, <1>6, <1>8, <1>9, <1>10
<1> QED
  BY <1>11 DEF filled, answer

\* An answer that is right keeps the answers right.
LEMMA RightSoFar ==
  ASSUME NEW S, NEW list, NEW out \in Seq(S), NEW answer \in S,
         \A i \in 1 .. Len(out) : out[i] = list[i], answer = list[Len(out) + 1]
  PROVE  \A i \in 1 .. Len(Append(out, answer)) : Append(out, answer)[i] = list[i]
<1> DEFINE n == Len(out)
           more == Append(out, answer)
<1>1. n \in Nat /\ Len(more) = n + 1 /\ more[n + 1] = answer
      /\ \A i \in 1 .. n : more[i] = out[i]
  BY AppendFacts
<1> HIDE DEF more, n
<1>2. \A i \in 1 .. n + 1 : i \in 1 .. n \/ i = n + 1
  BY <1>1
<1>3. (\A i \in 1 .. n : out[i] = list[i]) /\ answer = list[n + 1]
  BY DEF n
<1>4. \A i \in 1 .. n + 1 : more[i] = list[i]
  BY <1>1, <1>2, <1>3
<1> QED
  BY <1>1, <1>4 DEF more

\* What is asked of an arm with a request to answer.
Asked(list, out, r) ==
  /\ list \in Seq(Seq(Nat)) /\ out \in Seq(Seq(Values))
  /\ Len(out) + 1 \in 1 .. Len(list) /\ r = list[Len(out) + 1]

LEMMA AskedFacts ==
  ASSUME NEW list, NEW out, NEW r, Asked(list, out, r)
  PROVE  /\ list \in Seq(Seq(Nat)) /\ out \in Seq(Seq(Values))
         /\ r \in Seq(Nat) /\ r \in Seq(Values) /\ r = list[Len(out) + 1]
         /\ Len(out) \in Nat /\ Len(out) + 1 \in 1 .. Len(list)
         /\ \A answer \in Seq(Values) : /\ Append(out, answer) \in Seq(Seq(Values))
                                        /\ Len(Append(out, answer)) = Len(out) + 1
<1>1. list \in Seq(Seq(Nat)) /\ out \in Seq(Seq(Values)) /\ r = list[Len(out) + 1]
      /\ Len(out) + 1 \in 1 .. Len(list)
  BY DEF Asked
<1>2. r \in Seq(Nat)
  BY <1>1
<1>3. r \in Seq(Values)
  <2>1. DOMAIN r = 1 .. Len(r) /\ Len(r) \in Nat /\ \A i \in DOMAIN r : r[i] \in Nat
    BY <1>2
  <2> DEFINE l == Len(r)
  <2>2. l \in Nat /\ r \in [1 .. l -> Values]
    BY <1>2, <2>1 DEF Values
  <2> HIDE DEF l
  <2> QED
    BY <2>2
<1>4. Len(out) \in Nat
  BY <1>1
<1>5. \A answer \in Seq(Values) : /\ Append(out, answer) \in Seq(Seq(Values))
                                  /\ Len(Append(out, answer)) = Len(out) + 1
  BY <1>1, AppendFacts
<1> QED
  BY <1>1, <1>2, <1>3, <1>4, <1>5

LEMMA ControlAnswers ==
  ASSUME NEW list, NEW out, NEW r, Asked(list, out, r), NEW store, NEW ex \in Nat,
         NEW ta, Answering("CONTROL", list, out, store, ex, ta)
  PROVE  Answering("CONTROL", list, Append(out, r), store, ex + Len(r), ta)
<1>1. /\ list \in Seq(Seq(Nat)) /\ out \in Seq(Seq(Values)) /\ r \in Seq(Values)
      /\ r = list[Len(out) + 1] /\ Len(out) \in Nat /\ Len(out) + 1 \in 1 .. Len(list)
      /\ Len(Append(out, r)) = Len(out) + 1
  BY AskedFacts
<1>2. /\ \A i \in 1 .. Len(out) : out[i] = list[i]
      /\ ex = Cardinality(UpTo(list, Len(out)))
  BY DEF Answering
<1>3. \A i \in 1 .. Len(Append(out, r)) : Append(out, r)[i] = list[i]
  BY <1>1, <1>2, RightSoFar
<1>4. Cardinality(UpTo(list, Len(out) + 1)) = ex + Len(r)
  BY <1>1, <1>2, CountsBefore
<1> QED
  BY <1>1, <1>3, <1>4 DEF Answering

LEMMA WholeAnswers ==
  ASSUME NEW list, NEW out, NEW r, Asked(list, out, r), NEW store, NEW more,
         DOMAIN more = DOMAIN store \union {Len(out) + 1},
         NEW ex, NEW ey, NEW ta, Answering("WHOLE_CACHE", list, out, store, ex, ta)
  PROVE  /\ Len(out) + 1 \notin DOMAIN store
         /\ Answering("WHOLE_CACHE", list, Append(out, r), more, ey, ta)
<1>1. /\ out \in Seq(Seq(Values)) /\ r \in Seq(Values)
      /\ r = list[Len(out) + 1] /\ Len(out) \in Nat
      /\ Len(Append(out, r)) = Len(out) + 1
  BY AskedFacts
<1>2. (\A i \in 1 .. Len(out) : out[i] = list[i]) /\ DOMAIN store = 1 .. Len(out)
  BY DEF Answering
<1>3. \A i \in 1 .. Len(Append(out, r)) : Append(out, r)[i] = list[i]
  BY <1>1, <1>2, RightSoFar
<1>4. \A n \in Nat : n + 1 \notin 1 .. n /\ 1 .. n + 1 = (1 .. n) \union {n + 1}
  OBVIOUS
<1>5. Len(out) + 1 \notin DOMAIN store /\ DOMAIN more = 1 .. Len(out) + 1
  BY <1>1, <1>2, <1>4
<1> QED
  BY <1>1, <1>3, <1>5 DEF Answering

\* An arm with a store answers from it, or does what amounts to that.
LEMMA StoreAnswers ==
  ASSUME NEW a, a \notin {"CONTROL", "WHOLE_CACHE"},
         NEW list, NEW out, NEW r, Asked(list, out, r), NEW store, NEW more,
         NEW answer \in Seq(Values), NEW ex, NEW ey, NEW ta,
         Answering(a, list, out, store, ex, ta),
         DOMAIN more = DOMAIN store \union T!ToSet(r),
         \A t \in DOMAIN more : more[t] \in [value : Values, bound : {t}],
         ta = None => answer = r /\ \A t \in DOMAIN more : more[t].value = t
  PROVE  Answering(a, list, Append(out, answer), more, ey, ta)
<1>1. /\ list \in Seq(Seq(Nat)) /\ out \in Seq(Seq(Values))
      /\ r = list[Len(out) + 1] /\ Len(out) \in Nat /\ Len(out) + 1 \in 1 .. Len(list)
      /\ Len(Append(out, answer)) = Len(out) + 1
  BY AskedFacts
<1>2. /\ ta = None => \A i \in 1 .. Len(out) : out[i] = list[i]
      /\ DOMAIN store = Seen(list, Len(out))
  BY DEF Answering
<1>3. ta = None => \A i \in 1 .. Len(Append(out, answer)) :
                     Append(out, answer)[i] = list[i]
  BY <1>1, <1>2, RightSoFar
<1>4. DOMAIN more = Seen(list, Len(out) + 1)
  BY <1>1, <1>2, BeforeNext
<1> QED
  BY <1>1, <1>3, <1>4 DEF Answering

AnswerOf(store, r) == [j \in DOMAIN r |-> T!Filled(store, r)[r[j]].value]

\* What an arm that answers from its store does is such an answer.
LEMMA AnswersFromStore ==
  ASSUME NEW a, a \notin {"CONTROL", "WHOLE_CACHE"},
         NEW list, NEW out, NEW r, Asked(list, out, r), NEW store, NEW ex, NEW ta,
         Answering(a, list, out, store, ex, ta)
  PROVE  /\ AnswerOf(store, r) \in Seq(Values)
         /\ \A ey : Answering(a, list, Append(out, AnswerOf(store, r)),
                             T!Filled(store, r), ey, ta)
         /\ ~T!Mismatch(store, r) => AnswerOf(store, r) = r
<1> DEFINE filled == T!Filled(store, r)
           answer == [j \in DOMAIN r |-> filled[r[j]].value]
<1>1. r \in Seq(Nat)
  BY AskedFacts
<1>2. /\ \A t \in DOMAIN store : store[t] \in [value : Values, bound : {t}]
      /\ ta = None => \A t \in DOMAIN store : store[t].value = t
  BY DEF Answering
<1>3. /\ DOMAIN filled = DOMAIN store \union T!ToSet(r)
      /\ \A t \in DOMAIN filled : filled[t] \in [value : Values, bound : {t}]
      /\ answer \in Seq(Values)
      /\ (\A t \in T!ToSet(r) \intersect DOMAIN store : store[t].value = t)
           => answer = r
      /\ (\A t \in DOMAIN store : store[t].value = t)
           => \A t \in DOMAIN filled : filled[t].value = t
  BY <1>1, <1>2, FromStore
<1>4. ~T!Mismatch(store, r) => \A t \in T!ToSet(r) \intersect DOMAIN store : store[t].value = t
  <2>1. \A t \in DOMAIN store : store[t].bound = t
    BY <1>2
  <2> QED
    BY <2>1 DEF T!Mismatch
<1> HIDE DEF filled, answer
<1>5. /\ ta = None => answer = r /\ \A t \in DOMAIN filled : filled[t].value = t
  BY <1>2, <1>3
<1>6. \A ey : Answering(a, list, Append(out, answer), filled, ey, ta)
  BY <1>3, <1>5, StoreAnswers
<1>7. ~T!Mismatch(store, r) => answer = r
  BY <1>3, <1>4
<1> QED
  BY <1>3, <1>6, <1>7 DEF filled, answer, AnswerOf

LEMMA MarkedAt ==
  ASSUME NEW ev, NEW o
  PROVE  o \in Marked(ev) <=>
           \E i \in DOMAIN ev : \E j \in DOMAIN ev[i] : o = <<i, j>> /\ ev[i][j]
<1>1. o \in Marked(ev) <=> o \in T!Occurrences(ev) /\ ev[o[1]][o[2]]
  BY DEF Marked
<1>2. ASSUME NEW i \in DOMAIN ev, NEW j \in DOMAIN ev[i], o = <<i, j>>
      PROVE  o \in T!Occurrences(ev) /\ (ev[o[1]][o[2]] <=> ev[i][j])
  <2>1. o[1] = i /\ o[2] = j
    BY <1>2
  <2> QED
    BY <1>2, <2>1, PlaceOf
<1>3. o \in T!Occurrences(ev) => \E i \in DOMAIN ev : \E j \in DOMAIN ev[i] : o = <<i, j>>
  BY PlaceOf
<1> QED
  BY <1>1, <1>2, <1>3

AddsUp(ex, hit, fails, l, c, k) ==
  /\ ex + (l - k) = c + (l - k) + fails /\ ex + (l - k) + (hit + k) = ex + hit + l
  /\ ex + (l - k) \in Nat /\ hit + k \in Nat

LEMMA Sums ==
  ASSUME NEW ex \in Nat, NEW hit \in Nat, NEW fails \in Nat, NEW l \in Nat, NEW c \in Nat,
         NEW k \in 0 .. l, ex = c + fails
  PROVE  AddsUp(ex, hit, fails, l, c, k)
BY DEF AddsUp

\* The evidence of a request: a section is reused where it has occurred before.
LEMMA EvidenceGrows ==
  ASSUME NEW list, NEW out, NEW r, Asked(list, out, r),
         NEW store, DOMAIN store = Seen(list, Len(out)),
         NEW hit \in Nat, NEW ev, EvidenceRight(list, Len(out), hit, ev),
         IsFiniteSet(T!Hits(store, r)), T!Hits(store, r) \subseteq DOMAIN r
  PROVE  EvidenceRight(list, Len(out) + 1, hit + Cardinality(T!Hits(store, r)),
                       Append(ev, [j \in DOMAIN r |-> j \in T!Hits(store, r)]))
<1> DEFINE h == T!Hits(store, r)
           n == Len(out)
           new == [j \in DOMAIN r |-> j \in h]
           more == Append(ev, new)
<1>1. /\ n \in Nat /\ n + 1 \in 1 .. Len(list) /\ r = list[n + 1] /\ r \in Seq(Nat)
      /\ n + 1 - 1 = n
  BY AskedFacts
<1>2. /\ ev \in Seq(Seq(BOOLEAN)) /\ Len(ev) = n
      /\ \A i \in 1 .. n : /\ DOMAIN ev[i] = DOMAIN list[i]
                           /\ \A j \in DOMAIN list[i] : ev[i][j] <=> Reused(list, i, j)
      /\ IsFiniteSet(Marked(ev)) /\ hit = Cardinality(Marked(ev))
  BY DEF EvidenceRight
<1>3. \A j \in DOMAIN r : j \in h <=> Reused(list, n + 1, j)
  BY <1>1 DEF T!Hits, Reused
<1>4. IsFiniteSet(h) /\ h \subseteq DOMAIN r
  OBVIOUS
<1> HIDE DEF h, n
<1>5. DOMAIN new = DOMAIN r /\ \A j \in DOMAIN r : new[j] <=> j \in h
  OBVIOUS
<1>6. new \in Seq(BOOLEAN)
  <2> DEFINE l == Len(r)
  <2>1. l \in Nat /\ DOMAIN r = 1 .. l
    BY <1>1, SequencePlaces
  <2>2. \A j \in DOMAIN r : (j \in h) \in BOOLEAN
    OBVIOUS
  <2>3. new \in [1 .. l -> BOOLEAN]
    BY <2>1, <2>2
  <2> HIDE DEF l, new
  <2> QED
    BY <2>1, <2>3
<1> HIDE DEF new
<1>7. /\ more \in Seq(Seq(BOOLEAN)) /\ Len(more) = n + 1
      /\ DOMAIN ev = 1 .. n /\ DOMAIN more = 1 .. n + 1
      /\ more[n + 1] = new /\ \A i \in 1 .. n : more[i] = ev[i]
  BY <1>2, <1>6, AppendFacts
<1> HIDE DEF more
<1>8. \A i \in 1 .. n + 1 : i \in 1 .. n \/ i = n + 1
  BY <1>1
<1>9. \A i \in 1 .. n + 1 : /\ DOMAIN more[i] = DOMAIN list[i]
                            /\ \A j \in DOMAIN list[i] : more[i][j] <=> Reused(list, i, j)
  <2> TAKE i \in 1 .. n + 1
  <2>1. CASE i \in 1 .. n
    BY <1>2, <1>7, <2>1
  <2>2. CASE i = n + 1
    <3>1. DOMAIN new = DOMAIN list[n + 1]
      BY <1>1, <1>5
    <3>2. \A j \in DOMAIN list[n + 1] : new[j] <=> Reused(list, n + 1, j)
      BY <1>1, <1>3, <1>5
    <3> QED
      BY <1>7, <2>2, <3>1, <3>2
  <2> QED
    BY <1>8, <2>1, <2>2
<1>10. \A o : o \in Marked(ev) <=>
         \E i \in 1 .. n : \E j \in DOMAIN ev[i] : o = <<i, j>> /\ ev[i][j]
  BY <1>7, MarkedAt
<1>11. \A o : o \in Marked(more) <=>
         \E i \in 1 .. n + 1 : \E j \in DOMAIN more[i] : o = <<i, j>> /\ more[i][j]
  BY <1>7, MarkedAt
<1>12. Marked(more) = Marked(ev) \union ({n + 1} \X h)
  <2>1. \A i \in 1 .. n : i \in 1 .. n + 1
    BY <1>1
  <2>2. n + 1 \in 1 .. n + 1
    BY <1>1
  <2>3. ASSUME NEW o \in Marked(more) PROVE o \in Marked(ev) \/ o \in {n + 1} \X h
    <3>1. PICK i \in 1 .. n + 1 : \E j \in DOMAIN more[i] : o = <<i, j>> /\ more[i][j]
      BY <1>11
    <3>2. PICK j \in DOMAIN more[i] : o = <<i, j>> /\ more[i][j]
      BY <3>1
    <3>3. CASE i \in 1 .. n
      <4>1. j \in DOMAIN ev[i] /\ ev[i][j]
        BY <1>7, <3>2, <3>3
      <4> QED
        BY <1>10, <3>2, <3>3, <4>1
    <3>4. CASE i = n + 1
      <4>1. j \in h
        BY <1>5, <1>7, <3>2, <3>4
      <4> QED
        BY <3>2, <3>4, <4>1
    <3> QED
      BY <1>8, <3>3, <3>4
  <2>4. ASSUME NEW o \in Marked(ev) PROVE o \in Marked(more)
    <3>1. PICK i \in 1 .. n : \E j \in DOMAIN ev[i] : o = <<i, j>> /\ ev[i][j]
      BY <1>10
    <3>2. PICK j \in DOMAIN ev[i] : o = <<i, j>> /\ ev[i][j]
      BY <3>1
    <3>3. j \in DOMAIN more[i] /\ more[i][j]
      BY <1>7, <3>2
    <3> QED
      BY <1>11, <2>1, <3>2, <3>3
  <2>5. ASSUME NEW o \in {n + 1} \X h PROVE o \in Marked(more)
    <3>1. PICK j \in h : o = <<n + 1, j>>
      OBVIOUS
    <3>2. j \in DOMAIN more[n + 1] /\ more[n + 1][j]
      BY <1>4, <1>5, <1>7, <3>1
    <3> QED
      BY <1>11, <2>2, <3>1, <3>2
  <2> QED
    BY <2>3, <2>4, <2>5
<1>13. Marked(ev) \intersect ({n + 1} \X h) = {}
  <2>1. n + 1 \notin 1 .. n
    BY <1>1
  <2> SUFFICES ASSUME NEW o \in Marked(ev), o \in {n + 1} \X h PROVE FALSE
    OBVIOUS
  <2>2. PICK i \in 1 .. n : \E j \in DOMAIN ev[i] : o = <<i, j>>
    BY <1>10
  <2>3. o[1] = n + 1
    OBVIOUS
  <2> QED
    BY <2>1, <2>2, <2>3
<1>14. IsFiniteSet({n + 1} \X h) /\ Cardinality({n + 1} \X h) = Cardinality(h)
  BY <1>4, RowCounts
<1>15. IsFiniteSet(Marked(more)) /\ Cardinality(Marked(more)) = hit + Cardinality(h)
  <2> DEFINE marked == Marked(ev)
             added == {n + 1} \X h
  <2>1. /\ IsFiniteSet(marked) /\ IsFiniteSet(added) /\ marked \intersect added = {}
        /\ Cardinality({}) = 0 /\ Cardinality(marked) = hit
        /\ Cardinality(added) = Cardinality(h)
    BY <1>2, <1>13, <1>14, FS_EmptySet
  <2> HIDE DEF marked, added
  <2>2. /\ IsFiniteSet(marked \union added)
        /\ Cardinality(marked \union added) = Cardinality(marked) + Cardinality(added) - 0
    BY <2>1, FS_Union
  <2>3. Cardinality(marked) \in Nat /\ Cardinality(added) \in Nat
    BY <2>1, FS_CardinalityType
  <2>4. Cardinality(marked \union added) = hit + Cardinality(h)
    BY <2>1, <2>2, <2>3
  <2> QED
    BY <1>12, <2>2, <2>4 DEF marked, added
<1>16. EvidenceRight(list, n + 1, hit + Cardinality(h), more)
  BY <1>7, <1>9, <1>15 DEF EvidenceRight
<1> QED
  BY <1>16 DEF n, h, new, more

\* What is known before the EDEN arm answers from its store.
EdenAsked(s, list, out, r, store, ex, hit, fails, ev, evs, ta) ==
  /\ Asked(list, out, r) /\ ex \in Nat /\ hit \in Nat /\ fails \in Nat
  /\ Answering("EDEN", list, out, store, ex, ta)
  /\ EdenRight(s, list, out, ex, hit, fails, ev, ta)
  /\ s # "avoidance" => ~T!Mismatch(store, r)
  /\ s = "structured" =>
       evs = Append(ev, [j \in DOMAIN r |-> j \in T!Hits(store, r)])

LEMMA EdenAnswer ==
  ASSUME NEW list, NEW out, NEW r, Asked(list, out, r), NEW store, NEW ex, NEW ta,
         Answering("EDEN", list, out, store, ex, ta)
  PROVE  /\ AnswerOf(store, r) \in Seq(Values)
         /\ ~T!Mismatch(store, r) => AnswerOf(store, r) = r
<1>1. "EDEN" \notin {"CONTROL", "WHOLE_CACHE"}
  OBVIOUS
<1> QED
  BY <1>1, AnswersFromStore

LEMMA EdenAnswers ==
  ASSUME NEW s, NEW list, NEW out, NEW r, NEW store, NEW ex, NEW hit, NEW fails,
         NEW ev, NEW evs, NEW ta,
         EdenAsked(s, list, out, r, store, ex, hit, fails, ev, evs, ta),
         NEW answer, answer = AnswerOf(store, r),
         NEW k, k = T!Cardinality(T!Hits(store, r))
  PROVE  /\ EdenRight(s, list, Append(out, answer), ex + (Len(r) - k), hit + k, fails,
                      evs, ta)
         /\ ex + (Len(r) - k) \in Nat /\ hit + k \in Nat
<1> DEFINE n == Len(out)
           h == T!Hits(store, r)
           grown == Append(out, answer)
<1>0. /\ Asked(list, out, r) /\ ex \in Nat /\ hit \in Nat /\ fails \in Nat
      /\ Answering("EDEN", list, out, store, ex, ta)
      /\ EdenRight(s, list, out, ex, hit, fails, ev, ta)
      /\ s # "avoidance" => ~T!Mismatch(store, r)
      /\ s = "structured" =>
           evs = Append(ev, [j \in DOMAIN r |-> j \in T!Hits(store, r)])
  BY DEF EdenAsked
<1> USE <1>0
<1>1. /\ list \in Seq(Seq(Nat)) /\ out \in Seq(Seq(Values)) /\ r \in Seq(Nat)
      /\ n \in Nat /\ n + 1 \in 1 .. Len(list) /\ r = list[n + 1] /\ Len(r) \in Nat
      /\ \A b \in Seq(Values) : Len(Append(out, b)) = n + 1
  BY AskedFacts
<1>2. answer \in Seq(Values) /\ (~T!Mismatch(store, r) => answer = r)
  BY EdenAnswer
<1>3. Len(grown) = n + 1
  BY <1>1, <1>2
<1>4. s # "avoidance" => \A i \in 1 .. Len(grown) : grown[i] = list[i]
  <2> SUFFICES ASSUME s # "avoidance" PROVE \A i \in 1 .. Len(grown) : grown[i] = list[i]
    OBVIOUS
  <2>1. answer = list[Len(out) + 1] /\ \A i \in 1 .. Len(out) : out[i] = list[i]
    BY <1>1, <1>2 DEF EdenRight
  <2> QED
    BY <1>1, <1>2, <2>1, RightSoFar
<1>5. DOMAIN store = Seen(list, n)
  BY DEF Answering
<1>6. /\ IsFiniteSet(Seen(list, n)) /\ Cardinality(Seen(list, n)) \in Nat
      /\ Cardinality(UpTo(list, n)) \in Nat
      /\ Cardinality(UpTo(list, n + 1)) = Cardinality(UpTo(list, n)) + Len(r)
  BY <1>1, CountsBefore
<1>7. /\ h \subseteq DOMAIN r /\ IsFiniteSet(h) /\ k = Cardinality(h)
      /\ k \in 0 .. Len(r)
      /\ Cardinality(Seen(list, n) \union T!ToSet(r))
           = Cardinality(Seen(list, n)) + (Len(r) - k)
  BY <1>1, <1>5, <1>6, NewTasks
<1>8. Seen(list, n + 1) = Seen(list, n) \union T!ToSet(r)
  BY <1>1, BeforeNext
<1>9. /\ s # "avoidance" \/ ta = None => fails = 0
      /\ ex = Cardinality(Seen(list, n)) + fails
      /\ ex + hit = Cardinality(UpTo(list, n))
      /\ s = "structured" => EvidenceRight(list, n, hit, ev)
  BY DEF EdenRight
<1>10. s = "structured" => EvidenceRight(list, n + 1, hit + k, evs)
  <2> SUFFICES ASSUME s = "structured" PROVE EvidenceRight(list, n + 1, hit + k, evs)
    OBVIOUS
  <2>1. EvidenceRight(list, Len(out), hit, ev) /\ DOMAIN store = Seen(list, Len(out))
    BY <1>5, <1>9
  <2>2. EvidenceRight(list, Len(out) + 1, hit + Cardinality(T!Hits(store, r)),
                      Append(ev, [j \in DOMAIN r |-> j \in T!Hits(store, r)]))
    BY <1>7, <2>1, EvidenceGrows
  <2> QED
    BY <1>7, <2>2
<1> HIDE DEF n, grown, h
<1>11. /\ ex + (Len(r) - k) = Cardinality(Seen(list, n + 1)) + fails
       /\ ex + (Len(r) - k) + (hit + k) = Cardinality(UpTo(list, n + 1))
       /\ ex + (Len(r) - k) \in Nat /\ hit + k \in Nat
  <2> DEFINE l == Len(r)
             c == Cardinality(Seen(list, n))
             b == Cardinality(UpTo(list, n))
             d == Cardinality(Seen(list, n + 1))
             e == Cardinality(UpTo(list, n + 1))
  <2>1. /\ l \in Nat /\ c \in Nat /\ b \in Nat /\ k \in 0 .. l
        /\ d = c + (l - k) /\ e = b + l /\ ex = c + fails /\ ex + hit = b
    BY <1>1, <1>6, <1>7, <1>8, <1>9
  <2> HIDE DEF l, c, b, d, e
  <2>2. AddsUp(ex, hit, fails, l, c, k)
    BY <2>1, Sums
  <2>3. /\ ex + (l - k) = d + fails /\ ex + (l - k) + (hit + k) = e
        /\ ex + (l - k) \in Nat /\ hit + k \in Nat
    BY <2>1, <2>2 DEF AddsUp
  <2> QED
    BY <2>3 DEF l, d, e
<1>12. EdenRight(s, list, grown, ex + (Len(r) - k), hit + k, fails, evs, ta)
  BY <1>3, <1>4, <1>9, <1>10, <1>11 DEF EdenRight
<1> QED
  BY <1>11, <1>12 DEF grown

\* The avoidance script executes a task again whose stored output has lost its
\* form; nothing else has changed its form than what changed the store.
LEMMA EdenRepairs ==
  ASSUME NEW s, s = "avoidance", NEW list, NEW out, NEW r, Asked(list, out, r), Len(r) = 1,
         NEW store, NEW ex \in Nat, NEW hit \in Nat, NEW fails \in Nat, NEW ev, NEW ta,
         Answering("EDEN", list, out, store, ex, ta),
         EdenRight(s, list, out, ex, hit, fails, ev, ta),
         r[1] \in DOMAIN store, store[r[1]].value = Broken
  PROVE  LET more == [store EXCEPT ![r[1]] = T!Stored(r[1])] IN
         /\ <<r[1]>> \in Seq(Values)
         /\ Answering("EDEN", list, Append(out, <<r[1]>>), more, ex + 1, ta)
         /\ EdenRight(s, list, Append(out, <<r[1]>>), ex + 1, hit + 0, fails + 1, ev, ta)
<1> DEFINE n == Len(out)
           t == r[1]
           more == [store EXCEPT ![t] = T!Stored(t)]
<1>1. /\ list \in Seq(Seq(Nat)) /\ out \in Seq(Seq(Values)) /\ r \in Seq(Nat)
      /\ n \in Nat /\ n + 1 \in 1 .. Len(list) /\ r = list[n + 1]
      /\ \A b \in Seq(Values) : Len(Append(out, b)) = n + 1
  BY AskedFacts
<1>2. /\ DOMAIN r = {1} /\ t \in Nat /\ T!ToSet(r) = {t}
  <2>1. DOMAIN r = 1 .. 1
    BY <1>1
  <2>2. DOMAIN r = {1}
    BY <2>1
  <2>3. T!ToSet(r) = {r[j] : j \in {1}}
    BY <2>2 DEF T!ToSet
  <2> QED
    BY <1>1, <2>2, <2>3
<1>3. /\ DOMAIN store = Seen(list, n)
      /\ \A u \in DOMAIN store : store[u] \in [value : Values, bound : {u}]
      /\ ta = None => \A u \in DOMAIN store : store[u].value = u
  BY DEF Answering
<1>4. ta # None
  <2>1. Broken \notin Nat
    BY ReuseAssumption
  <2> QED
    BY <1>2, <1>3, <2>1
<1>5. <<t>> \in Seq(Values)
  <2>1. t \in Values
    BY <1>2 DEF Values
  <2> QED
    BY <2>1
<1>6. T!Stored(t) \in [value : Values, bound : {t}]
  BY <1>2 DEF T!Stored, Values
<1> HIDE DEF t
<1>7. /\ DOMAIN more = DOMAIN store
      /\ \A u \in DOMAIN store : more[u] = IF u = t THEN T!Stored(t) ELSE store[u]
  OBVIOUS
<1>8. t \in DOMAIN store /\ DOMAIN more = DOMAIN store \union T!ToSet(r)
  BY <1>2, <1>7 DEF t
<1>9. \A u \in DOMAIN more : more[u] \in [value : Values, bound : {u}]
  BY <1>3, <1>6, <1>7
<1> HIDE DEF more
<1>10. Answering("EDEN", list, Append(out, <<t>>), more, ex + 1, ta)
  BY <1>4, <1>5, <1>8, <1>9, StoreAnswers
<1>11. Len(Append(out, <<t>>)) = n + 1
  BY <1>1, <1>5
<1>12. Seen(list, n + 1) = Seen(list, n)
  <2>1. Seen(list, n + 1) = Seen(list, n) \union T!ToSet(r)
    BY <1>1, BeforeNext
  <2>2. T!ToSet(r) \subseteq Seen(list, n)
    BY <1>2, <1>3, <1>8
  <2> QED
    BY <2>1, <2>2
<1>13. /\ Cardinality(Seen(list, n)) \in Nat /\ Cardinality(UpTo(list, n)) \in Nat
       /\ Cardinality(UpTo(list, n + 1)) = Cardinality(UpTo(list, n)) + 1
  BY <1>1, CountsBefore
<1>14. /\ ex = Cardinality(Seen(list, n)) + fails
       /\ ex + hit = Cardinality(UpTo(list, n))
  BY DEF EdenRight
<1> HIDE DEF n
<1>15. /\ ex + 1 = Cardinality(Seen(list, n + 1)) + (fails + 1)
       /\ ex + 1 + (hit + 0) = Cardinality(UpTo(list, n + 1))
  BY <1>12, <1>13, <1>14
<1>16. EdenRight(s, list, Append(out, <<t>>), ex + 1, hit + 0, fails + 1, ev, ta)
  BY <1>4, <1>11, <1>15 DEF EdenRight
<1> QED
  BY <1>5, <1>10, <1>16 DEF t, more

-----------------------------------------------------------------------------
(* The turns of the arms                                                   *)

\* Whose turn it is.
Whose == Head(queue)[1]

LEMMA ArmsThereAre ==
  ASSUME script \in Scripts
  PROVE  /\ "CONTROL" \in T!Arms /\ "EDEN" \in T!Arms
         /\ script # "structured" =>
              \E l \in {2, 3} :
                /\ Len(T!ArmsOf(script)) = l /\ DOMAIN T!ArmsOf(script) = 1 .. l
                /\ \A i, j \in 1 .. l :
                     T!ArmsOf(script)[i] = T!ArmsOf(script)[j] => i = j
                /\ T!Arms = {T!ArmsOf(script)[i] : i \in 1 .. l}
<1>1. CASE script = "structured"
  <2>1. T!Arms = StructuredArms
    BY <1>1, FourArms
  <2> QED
    BY <1>1, <2>1 DEF StructuredArms
<1>2. CASE script = "quickstart"
  <2> DEFINE s == <<"CONTROL", "CACHE", "EDEN">>
  <2>1. T!ArmsOf(script) = s
    BY <1>2 DEF T!ArmsOf
  <2>2. /\ Len(s) = 3 /\ DOMAIN s = 1 .. 3 /\ DOMAIN s = {1, 2, 3}
        /\ s[1] = "CONTROL" /\ s[2] = "CACHE" /\ s[3] = "EDEN"
    OBVIOUS
  <2>3. T!Arms = {s[i] : i \in DOMAIN s}
    BY <2>1 DEF T!Arms, T!ToSet
  <2> HIDE DEF s
  <2>4. \A i, j \in {1, 2, 3} : s[i] = s[j] => i = j
    BY <2>2
  <2>5. 1 \in DOMAIN s /\ 3 \in DOMAIN s
    BY <2>2
  <2>6. "CONTROL" \in T!Arms /\ "EDEN" \in T!Arms
    BY <2>2, <2>3, <2>5
  <2> QED
    BY <1>2, <2>1, <2>2, <2>3, <2>4, <2>6
<1>3. CASE script \in {"flagship", "capacity", "avoidance"}
  <2> DEFINE s == <<"CONTROL", "EDEN">>
  <2>1. T!ArmsOf(script) = s
    BY <1>3 DEF T!ArmsOf
  <2>2. /\ Len(s) = 2 /\ DOMAIN s = 1 .. 2 /\ DOMAIN s = {1, 2}
        /\ s[1] = "CONTROL" /\ s[2] = "EDEN"
    OBVIOUS
  <2>3. T!Arms = {s[i] : i \in DOMAIN s}
    BY <2>1 DEF T!Arms, T!ToSet
  <2> HIDE DEF s
  <2>4. \A i, j \in {1, 2} : s[i] = s[j] => i = j
    BY <2>2
  <2>5. 1 \in DOMAIN s /\ 2 \in DOMAIN s
    BY <2>2
  <2>6. "CONTROL" \in T!Arms /\ "EDEN" \in T!Arms
    BY <2>2, <2>3, <2>5
  <2> QED
    BY <1>3, <2>1, <2>2, <2>3, <2>4, <2>6
<1> QED
  BY <1>1, <1>2, <1>3 DEF Scripts

\* An arm has its turn at the first request that it has not answered.
LEMMA TurnAt ==
  ASSUME Reusing, NEW S, T!Turn(S)
  PROVE  /\ Whose \in S /\ Whose \in T!Arms /\ pc = "run" /\ queue # <<>>
         /\ T!Store = stores[Whose]
         /\ Head(queue)[2] = Len(outputs[Whose]) + 1
         /\ Asked(requests, outputs[Whose], T!Request)
<1>1. queue # <<>> /\ Whose \in S /\ pc = "run"
  BY DEF T!Turn, Whose
<1>2. /\ InLine(queue, Answered, Total) /\ requests \in Seq(Seq(Nat))
      /\ outputs \in [T!Arms -> Seq(Seq(Values))] /\ Total \in 0 .. Len(requests)
  BY DEF Reusing, TrialType
<1>3. /\ Head(queue) = queue[1] /\ queue[1][1] \in T!Arms
      /\ queue[1] = <<queue[1][1], Answered[queue[1][1]] + 1>>
      /\ Answered[queue[1][1]] + 1 \in 1 .. Total
  BY <1>1, <1>2, FirstInLine
<1>4. /\ Whose \in T!Arms /\ Head(queue)[2] = Answered[Whose] + 1
      /\ Answered[Whose] + 1 \in 1 .. Total
  <2>1. Whose = queue[1][1]
    BY <1>3 DEF Whose
  <2>2. queue[1][2] = Answered[queue[1][1]] + 1
    BY <1>3
  <2> QED
    BY <1>3, <2>1, <2>2
<1>5. Answered[Whose] = Len(outputs[Whose])
  BY <1>4 DEF Answered
<1>6. T!Store = stores[Whose] /\ T!Request = requests[Len(outputs[Whose]) + 1]
  BY <1>4, <1>5 DEF T!Store, T!Request, Whose
<1>7. Len(outputs[Whose]) + 1 \in 1 .. Len(requests)
  <2>1. Len(requests) \in Nat /\ Total \in 0 .. Len(requests)
    BY <1>2
  <2>2. \A i \in 1 .. Total : i \in 1 .. Len(requests)
    BY <2>1
  <2> QED
    BY <1>4, <1>5, <2>2
<1>8. Asked(requests, outputs[Whose], T!Request)
  BY <1>2, <1>4, <1>6, <1>7 DEF Asked
<1> QED
  BY <1>1, <1>4, <1>5, <1>6, <1>8

\* What an answer changes, arm by arm.
Given(answer, store, k, hit) ==
  /\ script' = script /\ requests' = requests /\ unique' = unique /\ begun' = begun
  /\ pc' = pc /\ report' = report /\ tampered' = tampered /\ T!Arms' = T!Arms
  /\ outputs'[Whose] = Append(outputs[Whose], answer) /\ stores'[Whose] = store
  /\ executed'[Whose] = executed[Whose] + k /\ hits'[Whose] = hits[Whose] + hit
  /\ \A b \in T!Arms : b # Whose =>
       /\ outputs'[b] = outputs[b] /\ stores'[b] = stores[b]
       /\ executed'[b] = executed[b] /\ hits'[b] = hits[b]

LEMMA AnswerGiven ==
  ASSUME Reusing, NEW S, T!Turn(S),
         NEW answer \in Seq(Values), NEW store, NEW k, NEW hit,
         executed[Whose] + k \in Nat, hits[Whose] + hit \in Nat, failures' \in Nat,
         T!Answers(answer, store, k, hit)
  PROVE  /\ Given(answer, store, k, hit) /\ TrialType'
         /\ InLine(queue', Answered', Total') /\ Concluded'
<1> DEFINE a == Whose
<1>1. /\ a \in T!Arms /\ pc = "run" /\ queue # <<>>
  BY TurnAt
<1>2. /\ script' = script /\ requests' = requests /\ unique' = unique
      /\ begun' = begun /\ pc' = pc /\ report' = report /\ tampered' = tampered
      /\ outputs' = [outputs EXCEPT ![a] = Append(@, answer)]
      /\ stores' = [stores EXCEPT ![a] = store]
      /\ executed' = [executed EXCEPT ![a] = @ + k]
      /\ hits' = [hits EXCEPT ![a] = @ + hit]
      /\ queue' = Tail(queue)
  BY DEF T!Answers, T!trace, T!order, Whose
<1>3. TrialType /\ InLine(queue, Answered, Total) /\ Concluded
  BY DEF Reusing
<1>4. /\ outputs \in [T!Arms -> Seq(Seq(Values))] /\ DOMAIN stores = T!Arms
      /\ executed \in [T!Arms -> Nat] /\ hits \in [T!Arms -> Nat]
  BY <1>3 DEF TrialType
<1>5. T!Arms' = T!Arms /\ Total' = Total
  BY <1>2 DEF T!Arms, Total
<1> HIDE DEF a
<1>6. /\ outputs'[a] = Append(outputs[a], answer) /\ stores'[a] = store
      /\ executed'[a] = executed[a] + k /\ hits'[a] = hits[a] + hit
      /\ \A b \in T!Arms : b # a =>
           /\ outputs'[b] = outputs[b] /\ stores'[b] = stores[b]
           /\ executed'[b] = executed[b] /\ hits'[b] = hits[b]
  BY <1>1, <1>2, <1>4
<1>7. Given(answer, store, k, hit)
  BY <1>2, <1>5, <1>6 DEF Given, a
<1>8. /\ Append(outputs[a], answer) \in Seq(Seq(Values))
      /\ Len(Append(outputs[a], answer)) = Len(outputs[a]) + 1
      /\ \A b \in T!Arms : Len(outputs[b]) \in Nat
  <2>1. \A b \in T!Arms : outputs[b] \in Seq(Seq(Values))
    BY <1>4
  <2>2. \A b \in T!Arms : Len(outputs[b]) \in Nat
    BY <2>1
  <2> QED
    BY <1>1, <2>1, <2>2, AppendFacts
<1>9. /\ outputs' \in [T!Arms -> Seq(Seq(Values))] /\ DOMAIN stores' = T!Arms
      /\ executed' \in [T!Arms -> Nat] /\ hits' \in [T!Arms -> Nat]
  <2>1. /\ DOMAIN outputs' = T!Arms /\ DOMAIN stores' = T!Arms
        /\ outputs' = [b \in T!Arms |-> outputs'[b]]
        /\ executed' = [b \in T!Arms |-> executed'[b]]
        /\ hits' = [b \in T!Arms |-> hits'[b]]
    BY <1>2, <1>4
  <2>2. /\ executed[a] + k \in Nat /\ hits[a] + hit \in Nat
    BY DEF a
  <2>3. \A b \in T!Arms : /\ outputs'[b] \in Seq(Seq(Values))
                          /\ executed'[b] \in Nat /\ hits'[b] \in Nat
    BY <1>4, <1>6, <1>8, <2>2
  <2> QED
    BY <2>1, <2>3
<1>10. TrialType'
  BY <1>2, <1>3, <1>5, <1>9 DEF TrialType
<1>11. InLine(queue', Answered', Total')
  <2> DEFINE m == [b \in T!Arms |-> Len(outputs'[b])]
  <2>1. m = Answered'
    BY <1>5 DEF Answered
  <2>2. m \in [T!Arms -> Nat]
    <3>1. \A b \in T!Arms : outputs'[b] \in Seq(Seq(Values))
      BY <1>9
    <3>2. \A b \in T!Arms : Len(outputs'[b]) \in Nat
      BY <3>1
    <3> QED
      BY <3>2
  <2>3. \A b \in T!Arms : m[b] = IF b = a THEN Answered[a] + 1 ELSE Answered[b]
    BY <1>1, <1>6, <1>8 DEF Answered
  <2>4. a = queue[1][1]
    <3>1. Head(queue) = queue[1]
      BY <1>1, <1>3, FirstInLine
    <3> QED
      BY <3>1 DEF a, Whose
  <2> HIDE DEF m
  <2>5. InLine(Tail(queue), m, Total)
    BY <1>1, <1>3, <2>2, <2>3, <2>4, RestOfLine
  <2> QED
    BY <1>2, <1>5, <2>1, <2>5
<1>12. Concluded'
  BY <1>1, <1>2, <1>3 DEF Concluded
<1> QED
  BY <1>7, <1>10, <1>11, <1>12

\* If the arm is right after its answer, all is.
LEMMA TurnOver ==
  ASSUME Reusing, NEW S, T!Turn(S), NEW answer, NEW store, NEW k, NEW hit,
         Given(answer, store, k, hit), TrialType',
         InLine(queue', Answered', Total'), Concluded',
         Answering(Whose, requests, Append(outputs[Whose], answer), store,
                   executed[Whose] + k, tampered),
         Whose = "EDEN" =>
           EdenRight(script, requests, Append(outputs[Whose], answer),
                     executed[Whose] + k, hits[Whose] + hit, failures', evidence',
                     tampered),
         Whose # "EDEN" => UNCHANGED <<failures, evidence>>
  PROVE  Reusing'
<1>1. /\ Whose \in T!Arms /\ pc = "run"
  BY TurnAt
<1>2. /\ ArmsRight(requests) /\ unique = Cardinality(T!TasksOf(requests))
      /\ script \in Scripts
  BY <1>1 DEF Reusing, TrialType
<1>3. "EDEN" \in T!Arms
  BY <1>2, ArmsThereAre
<1>4. \A b \in T!Arms :
        Answering(b, requests, outputs'[b], stores'[b], executed'[b], tampered)
  <2> TAKE b \in T!Arms
  <2>1. CASE b = Whose
    BY <2>1 DEF Given
  <2>2. CASE b # Whose
    BY <1>2, <2>2 DEF Given, ArmsRight
  <2> QED
    BY <2>1, <2>2
<1>5. EdenRight(script, requests, outputs'["EDEN"], executed'["EDEN"], hits'["EDEN"],
                failures', evidence', tampered)
  <2>1. CASE Whose = "EDEN"
    BY <2>1 DEF Given
  <2>2. CASE Whose # "EDEN"
    BY <1>2, <1>3, <2>2 DEF Given, ArmsRight
  <2> QED
    BY <2>1, <2>2
<1>6. ArmsRight(requests)'
  BY <1>4, <1>5 DEF ArmsRight, Given
<1>7. /\ pc' # "off" /\ unique' = Cardinality(T!TasksOf(requests'))
  BY <1>1, <1>2 DEF Given
<1>8. InLine(queue, Answered, Total)'
  BY DEF InLine, Given
<1> QED
  BY <1>6, <1>7, <1>8 DEF Reusing

LEMMA ArmState ==
  ASSUME Reusing, NEW a \in T!Arms
  PROVE  /\ executed[a] \in Nat /\ hits[a] \in Nat /\ failures \in Nat
         /\ Answering(a, requests, outputs[a], stores[a], executed[a], tampered)
         /\ EdenRight(script, requests, outputs["EDEN"], executed["EDEN"], hits["EDEN"],
                      failures, evidence, tampered)
BY DEF Reusing, TrialType, ArmsRight

\* As many tasks are found as the request has at most.
LEMMA HitsFit ==
  ASSUME NEW a, a \notin {"CONTROL", "WHOLE_CACHE"},
         NEW list, NEW out, NEW r, Asked(list, out, r), NEW store, NEW ex, NEW ta,
         Answering(a, list, out, store, ex, ta)
  PROVE  T!Cardinality(T!Hits(store, r)) \in 0 .. Len(r) /\ Len(r) \in Nat
<1>1. list \in Seq(Seq(Nat)) /\ r \in Seq(Nat) /\ Len(out) \in Nat
  BY AskedFacts
<1>2. IsFiniteSet(DOMAIN store)
  <2>1. DOMAIN store = Seen(list, Len(out))
    BY DEF Answering
  <2> QED
    BY <1>1, <2>1, CountsBefore
<1>3. Len(r) \in Nat
  BY <1>1
<1> QED
  BY <1>1, <1>2, <1>3, NewTasks

LEMMA ControlTurn == ASSUME Reusing, T!Control PROVE Reusing'
<1>1. /\ T!Turn({"CONTROL"}) /\ T!Answers(T!Request, T!Store, Len(T!Request), 0)
      /\ UNCHANGED <<failures, evidence>>
  BY DEF T!Control
<1>2. /\ Whose = "CONTROL" /\ Whose \in T!Arms /\ T!Store = stores[Whose]
      /\ Asked(requests, outputs[Whose], T!Request)
  BY <1>1, TurnAt
<1>3. /\ executed[Whose] \in Nat /\ hits[Whose] \in Nat /\ failures \in Nat
      /\ Answering("CONTROL", requests, outputs[Whose], stores[Whose], executed[Whose],
                   tampered)
  BY <1>2, ArmState
<1>4. T!Request \in Seq(Nat) /\ T!Request \in Seq(Values)
  BY <1>2, AskedFacts
<1>5. /\ executed[Whose] + Len(T!Request) \in Nat /\ hits[Whose] + 0 \in Nat
      /\ failures' \in Nat
  <2>1. Len(T!Request) \in Nat
    BY <1>4
  <2> QED
    BY <1>1, <1>3, <2>1
<1>6. Answering("CONTROL", requests, Append(outputs[Whose], T!Request), stores[Whose],
                executed[Whose] + Len(T!Request), tampered)
  BY <1>2, <1>3, ControlAnswers
<1>7. /\ Given(T!Request, stores[Whose], Len(T!Request), 0) /\ TrialType'
      /\ InLine(queue', Answered', Total') /\ Concluded'
  BY <1>1, <1>2, <1>4, <1>5, AnswerGiven
<1> QED
  BY <1>1, <1>2, <1>6, <1>7, TurnOver

LEMMA WholeCacheTurn == ASSUME Reusing, T!WholeCache PROVE Reusing'
<1> DEFINE i == Head(queue)[2]
           more == [k \in DOMAIN T!Store \union {i} |->
                      IF k = i THEN T!Stored(T!Request) ELSE T!Store[k]]
<1>1. /\ T!Turn({"WHOLE_CACHE"}) /\ UNCHANGED <<failures, evidence>>
      /\ i \notin DOMAIN T!Store => T!Answers(T!Request, more, Len(T!Request), 0)
  BY DEF T!WholeCache
<1>2. /\ Whose = "WHOLE_CACHE" /\ Whose \in T!Arms /\ T!Store = stores[Whose]
      /\ i = Len(outputs[Whose]) + 1 /\ Asked(requests, outputs[Whose], T!Request)
  BY <1>1, TurnAt
<1>3. /\ executed[Whose] \in Nat /\ hits[Whose] \in Nat /\ failures \in Nat
      /\ Answering("WHOLE_CACHE", requests, outputs[Whose], stores[Whose],
                   executed[Whose], tampered)
  BY <1>2, ArmState
<1>4. T!Request \in Seq(Nat) /\ T!Request \in Seq(Values)
  BY <1>2, AskedFacts
<1>5. /\ executed[Whose] + Len(T!Request) \in Nat /\ hits[Whose] + 0 \in Nat
      /\ failures' \in Nat
  <2>1. Len(T!Request) \in Nat
    BY <1>4
  <2> QED
    BY <1>1, <1>3, <2>1
<1>6. DOMAIN more = DOMAIN stores[Whose] \union {Len(outputs[Whose]) + 1}
  BY <1>2
<1> HIDE DEF more, i
<1>7. /\ Len(outputs[Whose]) + 1 \notin DOMAIN stores[Whose]
      /\ Answering("WHOLE_CACHE", requests, Append(outputs[Whose], T!Request), more,
                   executed[Whose] + Len(T!Request), tampered)
  BY <1>2, <1>3, <1>6, WholeAnswers
<1>8. T!Answers(T!Request, more, Len(T!Request), 0)
  BY <1>1, <1>2, <1>7
<1>9. /\ Given(T!Request, more, Len(T!Request), 0) /\ TrialType'
      /\ InLine(queue', Answered', Total') /\ Concluded'
  BY <1>1, <1>2, <1>4, <1>5, <1>8, AnswerGiven
<1> QED
  BY <1>1, <1>2, <1>7, <1>9, TurnOver

\* An answer from the store, unfolded.
LEMMA FromTheStore ==
  ASSUME NEW store, NEW r, T!AnswersFrom(store, r)
  PROVE  LET k == T!Cardinality(T!Hits(store, r)) IN
         T!Answers(AnswerOf(store, r), T!Filled(store, r), Len(r) - k, k)
BY DEF T!AnswersFrom, AnswerOf

LEMMA ComponentCacheTurn == ASSUME Reusing, T!ComponentCache PROVE Reusing'
<1> DEFINE k == T!Cardinality(T!Hits(T!Store, T!Request))
           answer == AnswerOf(T!Store, T!Request)
           filled == T!Filled(T!Store, T!Request)
<1>1. /\ T!Turn({"CACHE", "COMPONENT_CACHE"}) /\ UNCHANGED <<failures, evidence>>
      /\ T!Answers(answer, filled, Len(T!Request) - k, k)
  BY FromTheStore DEF T!ComponentCache
<1>2. /\ Whose \in {"CACHE", "COMPONENT_CACHE"} /\ Whose \in T!Arms
      /\ T!Store = stores[Whose] /\ Asked(requests, outputs[Whose], T!Request)
  BY <1>1, TurnAt
<1>3. /\ executed[Whose] \in Nat /\ hits[Whose] \in Nat /\ failures \in Nat
      /\ Answering(Whose, requests, outputs[Whose], T!Store, executed[Whose], tampered)
  BY <1>2, ArmState
<1>4. Whose \notin {"CONTROL", "WHOLE_CACHE"} /\ Whose # "EDEN"
  BY <1>2
<1>5. k \in 0 .. Len(T!Request) /\ Len(T!Request) \in Nat
  BY <1>2, <1>3, <1>4, HitsFit
<1>6. /\ answer \in Seq(Values)
      /\ \A ey : Answering(Whose, requests, Append(outputs[Whose], answer), filled, ey,
                           tampered)
  BY <1>2, <1>3, <1>4, AnswersFromStore
<1> HIDE DEF k, answer, filled
<1>7. /\ executed[Whose] + (Len(T!Request) - k) \in Nat /\ hits[Whose] + k \in Nat
      /\ failures' \in Nat
  <2> DEFINE l == Len(T!Request)
             m == executed[Whose]
             n == hits[Whose]
  <2>1. l \in Nat /\ m \in Nat /\ n \in Nat /\ k \in 0 .. l /\ failures' \in Nat
    BY <1>1, <1>3, <1>5
  <2> HIDE DEF l, m, n
  <2>2. m + (l - k) \in Nat /\ n + k \in Nat
    BY <2>1
  <2> QED
    BY <2>1, <2>2 DEF l, m, n
<1>8. /\ Given(answer, filled, Len(T!Request) - k, k) /\ TrialType'
      /\ InLine(queue', Answered', Total') /\ Concluded'
  BY <1>1, <1>6, <1>7, AnswerGiven
<1> QED
  BY <1>1, <1>4, <1>6, <1>8, TurnOver

\* The EDEN arm answers from its store.
LEMMA EdenAnswersFromStore ==
  ASSUME Reusing, T!Turn({"EDEN"}), T!AnswersFrom(T!Store, T!Request), UNCHANGED failures,
         script # "avoidance" => ~T!Mismatch(T!Store, T!Request),
         script = "structured" =>
           evidence' = Append(evidence, [j \in DOMAIN T!Request |->
                                           j \in T!Hits(T!Store, T!Request)])
  PROVE  Reusing'
<1> DEFINE k == T!Cardinality(T!Hits(T!Store, T!Request))
           answer == AnswerOf(T!Store, T!Request)
           filled == T!Filled(T!Store, T!Request)
<1>1. T!Answers(answer, filled, Len(T!Request) - k, k)
  BY FromTheStore
<1>2. /\ Whose = "EDEN" /\ Whose \in T!Arms
      /\ T!Store = stores[Whose] /\ Asked(requests, outputs[Whose], T!Request)
  BY TurnAt
<1>3. /\ executed[Whose] \in Nat /\ hits[Whose] \in Nat /\ failures \in Nat
      /\ Answering("EDEN", requests, outputs[Whose], T!Store, executed[Whose], tampered)
      /\ EdenRight(script, requests, outputs[Whose], executed[Whose], hits[Whose],
                   failures, evidence, tampered)
  BY <1>2, ArmState
<1>4. /\ answer \in Seq(Values)
      /\ \A ey : Answering("EDEN", requests, Append(outputs[Whose], answer), filled, ey,
                           tampered)
  <2>1. "EDEN" \notin {"CONTROL", "WHOLE_CACHE"}
    OBVIOUS
  <2> QED
    BY <1>2, <1>3, <2>1, AnswersFromStore
<1>5. /\ EdenRight(script, requests, Append(outputs[Whose], answer),
                   executed[Whose] + (Len(T!Request) - k), hits[Whose] + k, failures,
                   evidence', tampered)
      /\ executed[Whose] + (Len(T!Request) - k) \in Nat /\ hits[Whose] + k \in Nat
  <2>1. EdenAsked(script, requests, outputs[Whose], T!Request, T!Store, executed[Whose],
                  hits[Whose], failures, evidence, evidence', tampered)
    BY <1>2, <1>3 DEF EdenAsked
  <2> QED
    BY <2>1, EdenAnswers
<1> HIDE DEF k, answer, filled
<1>6. /\ Given(answer, filled, Len(T!Request) - k, k) /\ TrialType'
      /\ InLine(queue', Answered', Total') /\ Concluded'
  BY <1>1, <1>3, <1>4, <1>5, AnswerGiven
<1> QED
  BY <1>2, <1>4, <1>5, <1>6, TurnOver

LEMMA EdenTurn == ASSUME Reusing, T!Eden PROVE Reusing'
<1>1. /\ T!Turn({"EDEN"}) /\ ~T!Mismatch(T!Store, T!Request)
      /\ T!AnswersFrom(T!Store, T!Request) /\ UNCHANGED failures
      /\ script = "structured" =>
           evidence' = Append(evidence, [j \in DOMAIN T!Request |->
                                           j \in T!Hits(T!Store, T!Request)])
  BY DEF T!Eden
<1> QED
  BY <1>1, EdenAnswersFromStore

LEMMA EdenByFormTurn == ASSUME Reusing, T!EdenByForm PROVE Reusing'
<1> DEFINE t == T!Request[1]
           more == [T!Store EXCEPT ![t] = T!Stored(t)]
<1>1. T!Turn({"EDEN"}) /\ script = "avoidance" /\ evidence' = evidence
  BY DEF T!EdenByForm
<1>2. ASSUME ~(t \in DOMAIN T!Store /\ T!Store[t].value = Broken) PROVE Reusing'
  <2>1. T!AnswersFrom(T!Store, T!Request) /\ UNCHANGED failures
    BY <1>2 DEF T!EdenByForm
  <2>2. script # "structured"
    BY <1>1
  <2> QED
    BY <1>1, <2>1, <2>2, EdenAnswersFromStore
<1>3. ASSUME t \in DOMAIN T!Store, T!Store[t].value = Broken PROVE Reusing'
  <2>1. T!Answers(<<t>>, more, 1, 0) /\ failures' = failures + 1
    BY <1>3 DEF T!EdenByForm
  <2>2. /\ Whose = "EDEN" /\ Whose \in T!Arms /\ pc = "run"
        /\ T!Store = stores[Whose] /\ Asked(requests, outputs[Whose], T!Request)
    BY <1>1, TurnAt
  <2>3. /\ executed[Whose] \in Nat /\ hits[Whose] \in Nat /\ failures \in Nat
        /\ Answering("EDEN", requests, outputs[Whose], T!Store, executed[Whose], tampered)
        /\ EdenRight(script, requests, outputs[Whose], executed[Whose], hits[Whose],
                     failures, evidence, tampered)
    BY <2>2, ArmState
  <2>4. Len(T!Request) = 1
    <3>1. /\ T!Request = requests[Len(outputs[Whose]) + 1]
          /\ Len(outputs[Whose]) + 1 \in 1 .. Len(requests) /\ requests \in Seq(Seq(Nat))
      BY <2>2, AskedFacts
    <3>2. Len(outputs[Whose]) + 1 \in DOMAIN requests
      BY <3>1
    <3> QED
      BY <1>1, <3>1, <3>2 DEF Reusing, TrialType
  <2>5. /\ <<t>> \in Seq(Values)
        /\ Answering("EDEN", requests, Append(outputs[Whose], <<t>>), more,
                     executed[Whose] + 1, tampered)
        /\ EdenRight(script, requests, Append(outputs[Whose], <<t>>), executed[Whose] + 1,
                     hits[Whose] + 0, failures + 1, evidence, tampered)
    BY <1>1, <1>3, <2>2, <2>3, <2>4, EdenRepairs
  <2> HIDE DEF t, more
  <2>6. executed[Whose] + 1 \in Nat /\ hits[Whose] + 0 \in Nat /\ failures' \in Nat
    BY <2>1, <2>3
  <2>7. /\ Given(<<t>>, more, 1, 0) /\ TrialType'
        /\ InLine(queue', Answered', Total') /\ Concluded'
    BY <1>1, <2>1, <2>5, <2>6, AnswerGiven
  <2> QED
    BY <1>1, <2>1, <2>2, <2>5, <2>7, TurnOver
<1> QED
  BY <1>2, <1>3

-----------------------------------------------------------------------------
(* What else happens to a trial                                            *)

\* The requests, the arms and what they have are as they were.
LEMMA NothingMoved ==
  ASSUME Reusing, pc = "run", pc' \in {"run", "reported", "raised"}, Concluded',
         UNCHANGED <<script, requests, unique, begun, queue, stores, outputs, executed,
                     hits, failures, evidence, tampered>>
  PROVE  Reusing'
<1>1. T!Arms' = T!Arms /\ Total' = Total /\ Answered' = Answered
  BY DEF T!Arms, Total, Answered
<1>2. TrialType'
  BY <1>1 DEF Reusing, TrialType
<1>3. InLine(queue, Answered, Total)'
  BY <1>1 DEF Reusing, InLine
<1>4. ArmsRight(requests)'
  BY <1>1 DEF Reusing, ArmsRight
<1>5. pc' # "off" /\ unique' = Cardinality(T!TasksOf(requests'))
  BY DEF Reusing
<1> QED
  BY <1>2, <1>3, <1>4, <1>5 DEF Reusing

LEMMA EdenRaisesStep == ASSUME Reusing, T!EdenRaises PROVE Reusing'
<1>1. /\ T!Turn({"EDEN"}) /\ T!Mismatch(T!Store, T!Request) /\ pc' = "raised"
      /\ UNCHANGED <<script, requests, unique, begun, queue, stores, outputs, executed,
                     hits, failures, evidence, tampered, report>>
  BY DEF T!EdenRaises, T!trace, T!order, T!counts
<1>2. /\ Whose = "EDEN" /\ Whose \in T!Arms /\ pc = "run" /\ T!Store = stores[Whose]
  BY <1>1, TurnAt
<1>3. Answering("EDEN", requests, outputs[Whose], T!Store, executed[Whose], tampered)
  BY <1>2, ArmState
<1>4. tampered # None
  <2>1. \A t \in DOMAIN T!Store : T!Store[t] \in [value : Values, bound : {t}]
        /\ (tampered = None => T!Store[t].value = t)
    BY <1>3 DEF Answering
  <2>2. PICK t \in DOMAIN T!Store : T!Store[t].value # T!Store[t].bound
    BY <1>1 DEF T!Mismatch
  <2>3. T!Store[t].bound = t
    BY <2>1
  <2> QED
    BY <2>1, <2>2, <2>3
<1>5. report = None
  BY <1>2 DEF Reusing, Concluded
<1>6. Concluded'
  BY <1>1, <1>4, <1>5 DEF Concluded
<1> QED
  BY <1>1, <1>2, <1>6, NothingMoved

\* A changed output leaves the store of the same tasks, and undoes only what is
\* said of a run without one.
LEMMA TamperStep == ASSUME Reusing, T!Tamper PROVE Reusing'
<1>1. /\ pc = "run" /\ pc' = pc /\ tampered = None
      /\ UNCHANGED <<script, requests, unique, begun, queue, outputs, executed,
                     hits, failures, evidence, report>>
  BY DEF T!Tamper, T!Changes, T!trace, T!order, T!counts
<1>2. PICK a \in T!Arms \ {"CONTROL", "WHOLE_CACHE"} : \E t \in DOMAIN stores[a] :
        /\ \E v \in {Wrong, Broken} : stores' = [stores EXCEPT ![a][t].value = v]
        /\ tampered' = a
  BY DEF T!Tamper, T!Changes
<1>3. PICK t \in DOMAIN stores[a] :
        /\ \E v \in {Wrong, Broken} : stores' = [stores EXCEPT ![a][t].value = v]
        /\ tampered' = a
  BY <1>2
<1>4. PICK v \in {Wrong, Broken} : stores' = [stores EXCEPT ![a][t].value = v]
  BY <1>3
<1>5. tampered' # None
  <2>1. script \in Scripts
    BY DEF Reusing, TrialType
  <2>2. a \in {"CACHE", "COMPONENT_CACHE", "EDEN"}
    <3>1. CASE script = "structured"
      <4>1. a \in StructuredArms
        BY <3>1, FourArms
      <4> QED
        BY <4>1 DEF StructuredArms
    <3>2. CASE script = "quickstart"
      <4> DEFINE s == <<"CONTROL", "CACHE", "EDEN">>
      <4>1. T!Arms = {s[i] : i \in DOMAIN s}
        BY <3>2 DEF T!Arms, T!ToSet, T!ArmsOf
      <4>2. /\ DOMAIN s = {1, 2, 3}
            /\ s[1] = "CONTROL" /\ s[2] = "CACHE" /\ s[3] = "EDEN"
        OBVIOUS
      <4> HIDE DEF s
      <4> QED
        BY <4>1, <4>2
    <3>3. CASE script \in {"flagship", "capacity", "avoidance"}
      <4> DEFINE s == <<"CONTROL", "EDEN">>
      <4>1. T!Arms = {s[i] : i \in DOMAIN s}
        BY <3>3 DEF T!Arms, T!ToSet, T!ArmsOf
      <4>2. DOMAIN s = {1, 2} /\ s[1] = "CONTROL" /\ s[2] = "EDEN"
        OBVIOUS
      <4> HIDE DEF s
      <4> QED
        BY <4>1, <4>2
    <3> QED
      BY <2>1, <3>1, <3>2, <3>3 DEF Scripts
  <2> QED
    BY <1>3, <2>2, ReuseAssumption
<1>6. /\ T!Arms' = T!Arms /\ Total' = Total /\ Answered' = Answered
  BY <1>1 DEF T!Arms, Total, Answered
<1>7. /\ DOMAIN stores = T!Arms /\ DOMAIN stores' = T!Arms
      /\ \A b \in T!Arms : b # a => stores'[b] = stores[b]
      /\ stores'[a] = [stores[a] EXCEPT ![t].value = v]
  <2>1. DOMAIN stores = T!Arms
    BY DEF Reusing, TrialType
  <2> QED
    BY <1>4, <2>1
<1>8. \A b \in T!Arms :
        Answering(b, requests, outputs[b], stores'[b], executed[b], tampered')
  <2> TAKE b \in T!Arms
  <2>1. Answering(b, requests, outputs[b], stores[b], executed[b], tampered)
    BY ArmState
  <2>2. CASE b # a
    BY <1>1, <1>5, <1>7, <2>1, <2>2 DEF Answering
  <2>3. CASE b = a
    <3> DEFINE store == stores[a]
               more == stores'[a]
    <3>1. /\ DOMAIN store = Seen(requests, Len(outputs[a]))
          /\ \A u \in DOMAIN store : store[u] \in [value : Values, bound : {u}]
      BY <2>1, <2>3 DEF Answering
    <3>2. v \in Values
      BY DEF Values
    <3>3. /\ DOMAIN more = DOMAIN store
          /\ \A u \in DOMAIN store :
               more[u] = IF u = t THEN [store[t] EXCEPT !.value = v] ELSE store[u]
      BY <1>7
    <3> HIDE DEF store, more
    <3>4. t \in DOMAIN store
      BY DEF store
    <3>5. [store[t] EXCEPT !.value = v] \in [value : Values, bound : {t}]
      BY <3>1, <3>2, <3>4
    <3>6. \A u \in DOMAIN more : more[u] \in [value : Values, bound : {u}]
      BY <3>1, <3>3, <3>5
    <3>7. DOMAIN more = Seen(requests, Len(outputs[a]))
      BY <3>1, <3>3
    <3>8. Answering(a, requests, outputs[a], more, executed[a], tampered')
      BY <1>5, <3>6, <3>7 DEF Answering
    <3> QED
      BY <2>3, <3>8 DEF more
  <2> QED
    BY <2>2, <2>3
<1>9. EdenRight(script, requests, outputs["EDEN"], executed["EDEN"], hits["EDEN"],
                failures, evidence, tampered')
  <2>1. EdenRight(script, requests, outputs["EDEN"], executed["EDEN"], hits["EDEN"],
                  failures, evidence, tampered)
    BY DEF Reusing, ArmsRight
  <2> QED
    BY <1>5, <2>1 DEF EdenRight
<1>10. ArmsRight(requests)'
  BY <1>1, <1>6, <1>8, <1>9 DEF ArmsRight
<1>11. TrialType'
  BY <1>1, <1>6, <1>7 DEF Reusing, TrialType
<1>12. InLine(queue, Answered, Total)'
  BY <1>1, <1>6 DEF Reusing, InLine
<1>13. Concluded'
  BY <1>1, <1>5 DEF Reusing, Concluded
<1>14. pc' # "off" /\ unique' = Cardinality(T!TasksOf(requests'))
  BY <1>1 DEF Reusing
<1> QED
  BY <1>10, <1>11, <1>12, <1>13, <1>14 DEF Reusing

-----------------------------------------------------------------------------
(* The report                                                              *)

\* When no turn is left, each arm has answered all.
LEMMA NoneLeft ==
  ASSUME NEW n, NEW total, InLine(<<>>, n, total), NEW a \in T!Arms
  PROVE  n[a] = total /\ total \in Nat
<1>1. total \in Nat /\ n[a] \in 0 .. total
      /\ \A i \in n[a] + 1 .. total : \E p \in DOMAIN <<>> : <<>>[p] = <<a, i>>
  BY DEF InLine
<1>2. ~ \E p \in DOMAIN <<>> : TRUE
  OBVIOUS
<1>3. ~ \E i \in n[a] + 1 .. total : TRUE
  BY <1>1, <1>2
<1>4. n[a] < total => n[a] + 1 \in n[a] + 1 .. total
  BY <1>1
<1> QED
  BY <1>1, <1>3, <1>4

\* All tasks have been seen after the last request.
LEMMA AllSeen ==
  ASSUME NEW list \in Seq(Seq(Nat))
  PROVE  Seen(list, Len(list)) = T!TasksOf(list)
<1> DEFINE n == Len(list)
<1>1. n \in Nat /\ DOMAIN list = 1 .. n /\ \A i \in 1 .. n : i <= n
  OBVIOUS
<1>2. ASSUME NEW t \in Seen(list, n) PROVE t \in T!TasksOf(list)
  <2>1. PICK o \in UpTo(list, n) : t = list[o[1]][o[2]]
    BY DEF Seen
  <2>2. PICK i \in DOMAIN list : \E j \in DOMAIN list[i] : o = <<i, j>>
    BY PlaceOf DEF UpTo
  <2>3. PICK j \in DOMAIN list[i] : o = <<i, j>>
    BY <2>2
  <2>4. t = list[i][j]
    BY <2>1, <2>3
  <2>5. t \in T!ToSet(list[i])
    BY <2>4 DEF T!ToSet
  <2> QED
    BY <2>5 DEF T!TasksOf
<1>3. ASSUME NEW t \in T!TasksOf(list) PROVE t \in Seen(list, n)
  <2>1. PICK i \in DOMAIN list : t \in T!ToSet(list[i])
    BY DEF T!TasksOf
  <2>2. PICK j \in DOMAIN list[i] : t = list[i][j]
    BY <2>1 DEF T!ToSet
  <2>3. <<i, j>> \in T!Occurrences(list)
    BY PlaceOf
  <2>4. <<i, j>>[1] <= n /\ list[<<i, j>>[1]][<<i, j>>[2]] = t
    BY <1>1, <2>2
  <2> QED
    BY <2>3, <2>4 DEF Seen, UpTo
<1> QED
  BY <1>2, <1>3

\* Where an arm has answered all, and rightly, its outputs are the requests.
LEMMA SameSequence ==
  ASSUME NEW S, NEW s \in Seq(S), NEW U, NEW u \in Seq(U), Len(s) = Len(u),
         \A i \in 1 .. Len(s) : s[i] = u[i]
  PROVE  s = u
<1>1. /\ DOMAIN s = 1 .. Len(s) /\ DOMAIN u = 1 .. Len(u)
      /\ s = [i \in DOMAIN s |-> s[i]] /\ u = [i \in DOMAIN u |-> u[i]]
  OBVIOUS
<1> QED
  BY <1>1

\* What is known of a trial whose turns are over.
LEMMA WhenDone ==
  ASSUME Reusing, T!Done
  PROVE  /\ pc = "run" /\ report = None
         /\ \A a \in T!Arms : /\ Len(outputs[a]) = Len(requests)
                              /\ a = "CONTROL" \/ tampered = None => outputs[a] = requests
         /\ unique \in Nat /\ hits["EDEN"] \in Nat /\ executed["EDEN"] = unique + failures
         /\ executed["EDEN"] + hits["EDEN"] = executed["CONTROL"]
         /\ script = "structured" =>
              hits["EDEN"] = T!Cardinality({o \in T!Occurrences(evidence) :
                                              evidence[o[1]][o[2]]})
         /\ script # "avoidance" \/ tampered = None => failures = 0
         /\ failures \in Nat
<1>1. /\ pc = "run" /\ queue = <<>> /\ (script = "structured" => begun = Len(requests))
  BY DEF T!Done
<1>2. /\ requests \in Seq(Seq(Nat)) /\ Len(requests) \in Nat /\ script \in Scripts
      /\ outputs \in [T!Arms -> Seq(Seq(Values))]
      /\ InLine(<<>>, Answered, Total) /\ report = None
      /\ unique = Cardinality(T!TasksOf(requests))
  <2>1. Reusing
    OBVIOUS
  <2> QED
    BY <1>1, <2>1 DEF Reusing, TrialType, Concluded
<1>3. Total = Len(requests)
  BY <1>1 DEF Total
<1>4. \A a \in T!Arms : Len(outputs[a]) = Len(requests)
  <2> TAKE a \in T!Arms
  <2>1. Answered[a] = Len(outputs[a])
    BY DEF Answered
  <2>2. Answered[a] = Total
    BY <1>2, NoneLeft
  <2> QED
    BY <1>3, <2>1, <2>2
<1>5. ASSUME NEW a \in T!Arms, a = "CONTROL" \/ tampered = None PROVE outputs[a] = requests
  <2>1. Answering(a, requests, outputs[a], stores[a], executed[a], tampered)
    BY ArmState
  <2>2. \A i \in 1 .. Len(outputs[a]) : outputs[a][i] = requests[i]
    BY <1>5, <2>1 DEF Answering
  <2>3. outputs[a] \in Seq(Seq(Values))
    BY <1>2
  <2> QED
    BY <1>2, <1>4, <2>2, <2>3, SameSequence
<1>6. "CONTROL" \in T!Arms /\ "EDEN" \in T!Arms
  BY <1>2, ArmsThereAre
<1>7. executed["CONTROL"] = Cardinality(UpTo(requests, Len(requests)))
  <2>1. Answering("CONTROL", requests, outputs["CONTROL"], stores["CONTROL"],
                  executed["CONTROL"], tampered)
    BY <1>6, ArmState
  <2> QED
    BY <1>4, <1>6, <2>1 DEF Answering
<1>8. /\ hits["EDEN"] \in Nat /\ failures \in Nat
      /\ EdenRight(script, requests, outputs["EDEN"], executed["EDEN"], hits["EDEN"],
                   failures, evidence, tampered)
  BY <1>6, ArmState
<1>9. /\ script # "avoidance" \/ tampered = None => failures = 0
      /\ executed["EDEN"] = Cardinality(Seen(requests, Len(requests))) + failures
      /\ executed["EDEN"] + hits["EDEN"] = Cardinality(UpTo(requests, Len(requests)))
      /\ script = "structured" => hits["EDEN"] = Cardinality(Marked(evidence))
  BY <1>4, <1>6, <1>8 DEF EdenRight, EvidenceRight
<1>10. Cardinality(Seen(requests, Len(requests))) = unique /\ unique \in Nat
  <2>1. Cardinality(Seen(requests, Len(requests))) \in Nat
    BY <1>2, CountsBefore
  <2>2. Seen(requests, Len(requests)) = T!TasksOf(requests)
    BY <1>2, AllSeen
  <2> QED
    BY <1>2, <2>1, <2>2
<1>11. Cardinality(Marked(evidence))
         = T!Cardinality({o \in T!Occurrences(evidence) : evidence[o[1]][o[2]]})
  BY SameCardinality DEF Marked
<1> QED
  BY <1>1, <1>2, <1>4, <1>5, <1>7, <1>8, <1>9, <1>10, <1>11

LEMMA ReportStep == ASSUME Reusing, T!Report PROVE Reusing'
<1>1. /\ T!Done /\ (T!Strict => T!Equivalent /\ failures = 0) /\ pc' = "reported"
      /\ report' = [equivalent |-> T!Equivalent,
                    executions |-> executed,
                    avoided |-> IF script = "structured"
                                  THEN T!Cardinality({o \in T!Occurrences(evidence) :
                                                        evidence[o[1]][o[2]]})
                                  ELSE executed["CONTROL"] - executed["EDEN"]]
      /\ UNCHANGED <<script, requests, unique, begun, queue, stores, outputs, executed,
                     hits, failures, evidence, tampered>>
  BY DEF T!Report, T!trace, T!order, T!counts
<1>2. /\ pc = "run"
      /\ \A a \in T!Arms : /\ Len(outputs[a]) = Len(requests)
                           /\ a = "CONTROL" \/ tampered = None => outputs[a] = requests
      /\ unique \in Nat /\ hits["EDEN"] \in Nat /\ executed["EDEN"] = unique + failures
      /\ executed["EDEN"] + hits["EDEN"] = executed["CONTROL"]
      /\ script = "structured" =>
           hits["EDEN"] = T!Cardinality({o \in T!Occurrences(evidence) :
                                           evidence[o[1]][o[2]]})
      /\ script # "avoidance" \/ tampered = None => failures = 0
  BY <1>1, WhenDone
<1>3. failures = 0
  BY <1>1, <1>2 DEF T!Strict
<1>4. "CONTROL" \in T!Arms /\ "EDEN" \in T!Arms
  BY ArmsThereAre DEF Reusing, TrialType
<1>5. executed["EDEN"] = unique /\ unique + hits["EDEN"] = executed["CONTROL"]
  BY <1>2, <1>3
<1>6. report'.avoided = hits["EDEN"]
  <2>1. CASE script = "structured"
    BY <1>1, <1>2, <2>1
  <2>2. CASE script # "structured"
    <3>1. report'.avoided = executed["CONTROL"] - executed["EDEN"]
      BY <1>1, <2>2
    <3> QED
      BY <1>2, <1>5, <3>1
  <2> QED
    BY <2>1, <2>2
<1>7. /\ report'.equivalent = T!Equivalent /\ report'.executions = executed
  BY <1>1
<1>8. T!Equivalent => \A a \in T!Arms : outputs[a] = requests
  BY <1>2, <1>4 DEF T!Equivalent
<1>9. tampered = None => T!Equivalent
  BY <1>2 DEF T!Equivalent
<1>10. T!Arms' = T!Arms
  BY <1>1 DEF T!Arms
<1>11. report'.avoided + unique = report'.executions["CONTROL"]
  BY <1>2, <1>5, <1>6, <1>7
<1>12. Concluded'
  BY <1>1, <1>2, <1>4, <1>5, <1>6, <1>7, <1>8, <1>9, <1>10, <1>11 DEF Concluded
<1> QED
  BY <1>1, <1>2, <1>12, NothingMoved

LEMMA RefuseStep == ASSUME Reusing, T!Refuse PROVE Reusing'
<1>1. /\ T!Done /\ (~T!Equivalent \/ failures > 0) /\ pc' = "raised"
      /\ UNCHANGED <<script, requests, unique, begun, queue, stores, outputs, executed,
                     hits, failures, evidence, tampered, report>>
  BY DEF T!Refuse, T!trace, T!order, T!counts
<1>2. /\ pc = "run" /\ report = None
      /\ \A a \in T!Arms : tampered = None => outputs[a] = requests
      /\ tampered = None => failures = 0
  BY <1>1, WhenDone
<1>3. tampered # None
  BY <1>1, <1>2 DEF T!Equivalent
<1>4. Concluded'
  BY <1>1, <1>2, <1>3 DEF Concluded
<1> QED
  BY <1>1, <1>2, <1>4, NothingMoved

-----------------------------------------------------------------------------
(* The trace and the line of its turns                                     *)

\* Each place of a rotated order is taken from another place of the order.
LEMMA OneTurnEach ==
  ASSUME NEW p \in 1 .. 4, NEW q \in 1 .. 4, NEW o \in 0 .. 3
  PROVE  /\ 1 + ((3 - 4 + q + o) % 4) \in 1 .. 4
         /\ 1 + ((3 - 4 + p + o) % 4) = 1 + ((3 - 4 + q + o) % 4) => p = q
         /\ \E i \in 1 .. 4 : 1 + ((3 - 4 + i + o) % 4) = q
<1> DEFINE i == 1 + ((q - 1 - o + 4) % 4)
<1>1. i \in 1 .. 4 /\ 1 + ((3 - 4 + i + o) % 4) = q
  OBVIOUS
<1>2. 1 + ((3 - 4 + q + o) % 4) \in 1 .. 4
  OBVIOUS
<1>3. 1 + ((3 - 4 + p + o) % 4) = 1 + ((3 - 4 + q + o) % 4) => p = q
  OBVIOUS
<1> QED
  BY <1>1, <1>2, <1>3

LEMMA NextRequestStep == ASSUME Reusing, InTurn, T!NextRequest PROVE Reusing'
<1> DEFINE offset == begun % 4
<1>1. /\ pc = "run" /\ pc' = pc /\ script = "structured" /\ queue = <<>>
      /\ begun < Len(requests) /\ begun' = begun + 1
      /\ UNCHANGED <<script, requests, unique, stores, outputs, executed,
                     hits, failures, evidence, tampered, report>>
  BY DEF T!NextRequest, T!trace, T!counts
<1>2. /\ TrialType /\ InLine(<<>>, Answered, begun) /\ Concluded /\ ArmsRight(requests)
      /\ unique = Cardinality(T!TasksOf(requests)) /\ begun \in Nat
      /\ Len(requests) \in Nat
  <2>1. TrialType /\ InLine(queue, Answered, Total) /\ Concluded /\ ArmsRight(requests)
        /\ unique = Cardinality(T!TasksOf(requests))
    BY <1>1 DEF Reusing
  <2>2. begun \in Nat /\ Len(requests) \in Nat
    BY <1>1, <2>1 DEF InTurn, TrialType
  <2> QED
    BY <1>1, <2>1, <2>2 DEF Total
<1>3. T!Arms = StructuredArms /\ T!Arms' = T!Arms /\ Answered' = Answered
  BY <1>1, FourArms DEF T!Arms, Answered
<1>4. Total' = begun + 1 /\ begun + 1 \in 0 .. Len(requests)
  BY <1>1, <1>2 DEF Total
<1>5. InTurn' /\ offset \in 0 .. 3
  BY <1>1, <1>2, RequestBegun, Places
<1>6. base' \in Orders /\ ToCome(queue', base', offset)
  <2>1. begun' > 0 /\ begun' - 1 = begun
    BY <1>1, <1>2
  <2> QED
    BY <1>1, <1>5, <2>1 DEF InTurn
<1>7. /\ queue' \in Seq(StructuredArms \X Nat) /\ DOMAIN queue' = 1 .. 4 /\ Len(queue') = 4
      /\ \A p \in 1 .. 4 : queue'[p][2] = begun + 1
  <2> DEFINE list == T!ArmsOf(script)
  <2>1. queue' = [p \in DOMAIN list |->
                    <<T!Rotated(base', begun % Len(list))[p], begun + 1>>]
    BY DEF T!NextRequest
  <2>2. DOMAIN list = 1 .. 4
    BY <1>1, FourArms
  <2>3. DOMAIN queue' = 1 .. 4 /\ \A p \in 1 .. 4 : queue'[p][2] = begun + 1
    BY <2>1, <2>2
  <2>4. queue' \in Seq(StructuredArms \X Nat)
    BY <1>1, <1>5 DEF InTurn
  <2>5. DOMAIN queue' = 1 .. Len(queue') /\ Len(queue') \in Nat
    BY <2>4
  <2>6. Len(queue') = 4
    BY <2>3, <2>5
  <2> QED
    BY <2>3, <2>4, <2>6
<1> HIDE DEF offset
<1>8. \A p \in 1 .. 4 : queue'[p][1] = base'[1 + ((3 - 4 + p + offset) % 4)]
  BY <1>6, <1>7 DEF ToCome
<1>9. ASSUME NEW p \in 1 .. 4, NEW q \in 1 .. 4, queue'[p][1] = queue'[q][1] PROVE p = q
  <2> DEFINE i == 1 + ((3 - 4 + p + offset) % 4)
             j == 1 + ((3 - 4 + q + offset) % 4)
  <2>1. /\ i \in 1 .. 4 /\ j \in 1 .. 4 /\ (i = j => p = q)
    BY <1>5, OneTurnEach
  <2>2. base'[i] = base'[j]
    BY <1>8, <1>9
  <2> HIDE DEF i, j
  <2>3. i = j
    BY <1>6, <2>1, <2>2 DEF Orders
  <2> QED
    BY <2>1, <2>3
<1>10. ASSUME NEW a \in StructuredArms PROVE \E p \in 1 .. 4 : queue'[p][1] = a
  <2>1. PICK q \in 1 .. 4 : base'[q] = a
    BY <1>6, OnceInAnOrder
  <2>2. PICK p \in 1 .. 4 : 1 + ((3 - 4 + p + offset) % 4) = q
    BY <1>5, OneTurnEach
  <2> QED
    BY <1>8, <2>1, <2>2
<1>11. InLine(queue', Answered, begun + 1)
  BY <1>2, <1>3, <1>7, <1>9, <1>10, NextInLine
<1>12. InLine(queue, Answered, Total)'
  BY <1>3, <1>4, <1>11 DEF InLine
<1>13. TrialType'
  BY <1>1, <1>2, <1>3, <1>4 DEF TrialType
<1>14. ArmsRight(requests)'
  BY <1>1, <1>2, <1>3 DEF ArmsRight
<1>15. Concluded'
  BY <1>1, <1>2, <1>3 DEF Concluded
<1>16. pc' # "off" /\ unique' = Cardinality(T!TasksOf(requests'))
  BY <1>1, <1>2
<1> QED
  BY <1>12, <1>13, <1>14, <1>15, <1>16 DEF Reusing

\* One line after the other: the place of a turn among n to each arm.
LEMMA Remainder ==
  ASSUME NEW n \in Nat \ {0}, NEW k \in {0, 1, 2}, NEW x \in Nat, NEW r \in 0 .. n - 1,
         x = n * k + r
  PROVE  x \div n = k /\ x % n = r
OBVIOUS

LEMMA QuotientBelow ==
  ASSUME NEW n \in Nat \ {0}, NEW l \in {2, 3}, NEW x \in 0 .. n * l - 1
  PROVE  \E k \in {0, 1, 2} : \E r \in 0 .. n - 1 : k < l /\ x = n * k + r
<1>1. CASE x < n
  <2>1. x \in 0 .. n - 1 /\ x = n * 0 + x
    BY <1>1
  <2> QED
    BY <2>1
<1>2. CASE n <= x /\ x < n + n
  <2>1. x - n \in 0 .. n - 1 /\ x = n * 1 + (x - n)
    BY <1>2
  <2> QED
    BY <2>1
<1>3. CASE n + n <= x
  <2>1. l = 3
    BY <1>3
  <2>2. x - n - n \in 0 .. n - 1 /\ x = n * 2 + (x - n - n)
    BY <1>3, <2>1
  <2> QED
    BY <2>1, <2>2
<1>4. x \in Nat /\ n \in Nat
  OBVIOUS
<1> QED
  BY <1>1, <1>2, <1>3, <1>4

LEMMA AllInLine ==
  ASSUME script \in Scripts, script # "structured", NEW n \in Nat \ {0}
  PROVE  InLine(T!ArmAfterArm(n), [a \in T!Arms |-> 0], n)
<1> DEFINE s == T!ArmsOf(script)
           line == T!ArmAfterArm(n)
           none == [a \in T!Arms |-> 0]
<1>1. PICK l \in {2, 3} : /\ Len(s) = l /\ DOMAIN s = 1 .. l
                          /\ \A i, j \in 1 .. l : s[i] = s[j] => i = j
                          /\ T!Arms = {s[i] : i \in 1 .. l}
  BY ArmsThereAre
<1>2. /\ DOMAIN line = 1 .. n * l
      /\ \A t \in 1 .. n * l :
           line[t] = <<s[1 + ((t - 1) \div n)], 1 + ((t - 1) % n)>>
  BY <1>1 DEF T!ArmAfterArm
<1> HIDE DEF s, line
<1>3. ASSUME NEW k \in {0, 1, 2}, NEW r \in 0 .. n - 1, k < l
      PROVE  /\ n * k + r + 1 \in 1 .. n * l
             /\ line[n * k + r + 1] = <<s[k + 1], r + 1>>
             /\ s[k + 1] \in T!Arms
  <2>1. n * k + r + 1 \in 1 .. n * l
    BY <1>3
  <2>2. n * k + r \in Nat /\ n * k + r + 1 - 1 = n * k + r
    OBVIOUS
  <2>3. (n * k + r) \div n = k /\ (n * k + r) % n = r
    BY <2>2, Remainder
  <2>4. 1 + k = k + 1 /\ 1 + r = r + 1 /\ k + 1 \in 1 .. l
    BY <1>3
  <2>5. line[n * k + r + 1] = <<s[1 + k], 1 + r>>
    <3> DEFINE t == n * k + r + 1
               c == n * l
               d == (t - 1) \div n
               e == (t - 1) % n
    <3>1. t \in 1 .. c /\ d = k /\ e = r
      BY <2>1, <2>2, <2>3
    <3>2. \A i \in 1 .. c : line[i] = <<s[1 + ((i - 1) \div n)], 1 + ((i - 1) % n)>>
      BY <1>2
    <3> HIDE DEF c
    <3>3. line[t] = <<s[1 + d], 1 + e>>
      <4> HIDE DEF t
      <4> QED
        BY <3>1, <3>2
    <3> HIDE DEF d, e
    <3> QED
      BY <3>1, <3>3
  <2> QED
    BY <1>1, <2>1, <2>4, <2>5
<1>4. ASSUME NEW t \in DOMAIN line
      PROVE  \E k \in {0, 1, 2}, r \in 0 .. n - 1 :
               /\ k < l /\ t = n * k + r + 1 /\ line[t] = <<s[k + 1], r + 1>>
               /\ s[k + 1] \in T!Arms
  <2>1. t - 1 \in 0 .. n * l - 1 /\ t - 1 + 1 = t
    <3> DEFINE c == n * l
    <3>1. c \in Nat /\ t \in 1 .. c
      BY <1>2
    <3> HIDE DEF c
    <3>2. t - 1 \in 0 .. c - 1 /\ t - 1 + 1 = t
      BY <3>1
    <3> QED
      BY <3>2 DEF c
  <2>2. PICK k \in {0, 1, 2}, r \in 0 .. n - 1 : k < l /\ t - 1 = n * k + r
    BY <2>1, QuotientBelow
  <2>3. t = n * k + r + 1
    BY <2>1, <2>2
  <2> QED
    BY <1>3, <2>2, <2>3
<1>5. line \in Seq(T!Arms \X Nat)
  <2> DEFINE m == n * l
  <2>1. m \in Nat
    OBVIOUS
  <2>2. \A t \in 1 .. m : line[t] \in T!Arms \X Nat
    <3> TAKE t \in 1 .. m
    <3>1. PICK k \in {0, 1, 2}, r \in 0 .. n - 1 :
            line[t] = <<s[k + 1], r + 1>> /\ s[k + 1] \in T!Arms
      BY <1>2, <1>4
    <3>2. r + 1 \in Nat
      OBVIOUS
    <3> QED
      BY <3>1, <3>2
  <2>3. line = [t \in 1 .. m |-> line[t]]
    BY <1>2 DEF line, T!ArmAfterArm
  <2> HIDE DEF m
  <2>4. line \in [1 .. m -> T!Arms \X Nat]
    BY <2>2, <2>3
  <2> QED
    BY <2>1, <2>4
<1>6. ASSUME NEW p \in DOMAIN line PROVE line[p][2] \in none[line[p][1]] + 1 .. n
  <2>1. PICK k \in {0, 1, 2}, r \in 0 .. n - 1 :
          line[p] = <<s[k + 1], r + 1>> /\ s[k + 1] \in T!Arms
    BY <1>4
  <2>2. none[line[p][1]] = 0 /\ line[p][2] = r + 1
    BY <2>1
  <2>3. r + 1 \in 0 + 1 .. n
    OBVIOUS
  <2> QED
    BY <2>2, <2>3
<1>7. ASSUME NEW p \in DOMAIN line, NEW q \in DOMAIN line, p < q, line[p][1] = line[q][1]
      PROVE  line[p][2] < line[q][2]
  <2>1. PICK k \in {0, 1, 2}, r \in 0 .. n - 1 :
          k < l /\ p = n * k + r + 1 /\ line[p] = <<s[k + 1], r + 1>>
    BY <1>4
  <2>2. PICK j \in {0, 1, 2}, i \in 0 .. n - 1 :
          j < l /\ q = n * j + i + 1 /\ line[q] = <<s[j + 1], i + 1>>
    BY <1>4
  <2>3. k + 1 \in 1 .. l /\ j + 1 \in 1 .. l /\ s[k + 1] = s[j + 1]
    BY <1>7, <2>1, <2>2
  <2>4. k + 1 = j + 1
    BY <1>1, <2>3
  <2>5. k = j
    BY <2>4
  <2>6. n * k + r + 1 < n * k + i + 1
    BY <1>7, <2>1, <2>2, <2>5
  <2>7. r + 1 < i + 1
    BY <2>6
  <2> QED
    BY <2>1, <2>2, <2>7
<1>8. ASSUME NEW a \in T!Arms, NEW i \in none[a] + 1 .. n
      PROVE  \E p \in DOMAIN line : line[p] = <<a, i>>
  <2>1. PICK j \in 1 .. l : a = s[j]
    BY <1>1
  <2>2. i \in 1 .. n
    OBVIOUS
  <2>3. /\ j - 1 \in {0, 1, 2} /\ j - 1 < l /\ j - 1 + 1 = j
        /\ i - 1 \in 0 .. n - 1 /\ i - 1 + 1 = i
    BY <2>2
  <2>4. /\ n * (j - 1) + (i - 1) + 1 \in 1 .. n * l
        /\ line[n * (j - 1) + (i - 1) + 1] = <<s[j - 1 + 1], i - 1 + 1>>
    BY <1>3, <2>3
  <2>5. line[n * (j - 1) + (i - 1) + 1] = <<a, i>>
    BY <2>1, <2>3, <2>4
  <2> QED
    BY <1>2, <2>4, <2>5
<1>9. none \in [T!Arms -> 0 .. n]
  OBVIOUS
<1> HIDE DEF none
<1>10. InLine(line, none, n)
  BY <1>5, <1>6, <1>7, <1>8, <1>9 DEF InLine
<1> QED
  BY <1>10 DEF line, none

\* A cycle of u tasks asks for each of them.
LEMMA CycleTasks ==
  ASSUME NEW n \in Nat \ {0}, NEW u \in 1 .. n
  PROVE  /\ T!Cycle(n, u) \in Seq(Seq(Nat)) /\ Len(T!Cycle(n, u)) = n
         /\ \A i \in DOMAIN T!Cycle(n, u) : Len(T!Cycle(n, u)[i]) = 1
         /\ Cardinality(T!TasksOf(T!Cycle(n, u))) = u
<1> DEFINE list == T!Cycle(n, u)
<1>1. DOMAIN list = 1 .. n /\ list = [i \in 1 .. n |-> list[i]]
      /\ \A i \in 1 .. n : list[i] = <<1 + ((i - 1) % u)>>
  BY DEF T!Cycle
<1>2. \A i \in 1 .. n : 1 + ((i - 1) % u) \in 1 .. u
  OBVIOUS
<1>3. ASSUME NEW k \in 1 .. u PROVE k \in 1 .. n /\ 1 + ((k - 1) % u) = k
  <2>1. u \in Nat \ {0} /\ k - 1 \in 0 .. u - 1 /\ k - 1 \in Nat /\ k - 1 = u * 0 + (k - 1)
    OBVIOUS
  <2>2. (k - 1) % u = k - 1
    BY <2>1, Remainder
  <2> QED
    BY <2>2
<1> HIDE DEF list
<1>4. \A i \in 1 .. n : list[i] \in Seq(Nat) /\ Len(list[i]) = 1
                        /\ T!ToSet(list[i]) = {1 + ((i - 1) % u)}
  <2> TAKE i \in 1 .. n
  <2> DEFINE t == 1 + ((i - 1) % u)
  <2>1. t \in Nat /\ list[i] = <<t>>
    BY <1>1, <1>2
  <2> HIDE DEF t
  <2>2. /\ <<t>> \in Seq(Nat) /\ Len(<<t>>) = 1 /\ DOMAIN <<t>> = {1} /\ <<t>>[1] = t
    BY <2>1
  <2>3. T!ToSet(<<t>>) = {t}
    <3>1. T!ToSet(<<t>>) = {<<t>>[j] : j \in {1}}
      BY <2>2 DEF T!ToSet
    <3> QED
      BY <2>2, <3>1
  <2> QED
    BY <2>1, <2>2, <2>3 DEF t
<1>5. list \in Seq(Seq(Nat)) /\ Len(list) = n
  <2>1. list \in [1 .. n -> Seq(Nat)]
    BY <1>1, <1>4
  <2>2. list \in Seq(Seq(Nat))
    BY <2>1
  <2>3. DOMAIN list = 1 .. Len(list) /\ Len(list) \in Nat
    BY <2>2
  <2> QED
    BY <1>1, <2>2, <2>3
<1>6. T!TasksOf(list) = 1 .. u
  <2>1. ASSUME NEW t \in T!TasksOf(list) PROVE t \in 1 .. u
    <3>1. PICK i \in 1 .. n : t \in T!ToSet(list[i])
      BY <1>1 DEF T!TasksOf
    <3>2. t = 1 + ((i - 1) % u)
      BY <1>4, <3>1
    <3> QED
      BY <1>2, <3>2
  <2>2. ASSUME NEW t \in 1 .. u PROVE t \in T!TasksOf(list)
    <3>1. t \in 1 .. n /\ t \in T!ToSet(list[t])
      BY <1>3, <1>4
    <3> QED
      BY <1>1, <3>1 DEF T!TasksOf
  <2> QED
    BY <2>1, <2>2
<1>7. Cardinality(1 .. u) = u
  <2>1. u \in Nat /\ Cardinality(1 .. u) = IF 1 > u THEN 0 ELSE u - 1 + 1
    BY FS_Interval
  <2> QED
    BY <2>1
<1> QED
  BY <1>1, <1>4, <1>5, <1>6, <1>7 DEF list

\* The builders ask for at least one task and for no more than requests.
LEMMA Rounds ==
  ASSUME NEW n \in Nat \ {0}, NEW p \in 0 .. 4
  PROVE  /\ T!AtLeastOne(n - T!Rounded(n * p)) \in 1 .. n
         /\ T!AtLeastOne(T!Rounded(n * (4 - p))) \in 1 .. n
<1>1. ASSUME NEW m \in 0 .. 4 * n PROVE T!Rounded(m) \in 0 .. n
  <2>1. /\ m \in Nat /\ m % 4 \in 0 .. 3 /\ m \div 4 \in Nat
        /\ m = 4 * (m \div 4) + (m % 4)
    BY Places
  <2>2. m \div 4 <= n /\ (m % 4 # 0 => m \div 4 + 1 <= n)
    BY <2>1
  <2>3. T!Rounded(m) = m \div 4 \/ (m % 4 # 0 /\ T!Rounded(m) = m \div 4 + 1)
    BY <2>1 DEF T!Rounded
  <2> QED
    BY <2>1, <2>2, <2>3
<1>2. n * p \in 0 .. 4 * n /\ n * (4 - p) \in 0 .. 4 * n
  <2>1. p = 0 \/ p = 1 \/ p = 2 \/ p = 3 \/ p = 4
    OBVIOUS
  <2> QED
    BY <2>1
<1>3. T!Rounded(n * p) \in 0 .. n /\ T!Rounded(n * (4 - p)) \in 0 .. n
  BY <1>1, <1>2
<1>4. \A m \in 0 .. n : T!AtLeastOne(n - m) \in 1 .. n /\ T!AtLeastOne(m) \in 1 .. n
  BY DEF T!AtLeastOne
<1> QED
  BY <1>3, <1>4

\* Before the first turn all arms are right, whatever is asked.
LEMMA EmptySequence ==
  /\ Len(<<>>) = 0 /\ 1 .. Len(<<>>) = {} /\ DOMAIN <<>> = {}
  /\ 1 .. 0 = {} /\ <<>> \in Seq(Seq(BOOLEAN))
OBVIOUS

LEMMA RightAtFirst ==
  ASSUME NothingYet, script \in Scripts, NEW list \in Seq(Seq(Nat))
  PROVE  ArmsRight(list)
<1>1. "EDEN" \in T!Arms
  BY ArmsThereAre
<1>2. /\ \A a \in T!Arms : /\ outputs[a] = <<>> /\ stores[a] = <<>>
                           /\ executed[a] = 0 /\ hits[a] = 0
      /\ failures = 0 /\ evidence = <<>>
  BY DEF NothingYet
<1>3. UpTo(list, 0) = {} /\ Seen(list, 0) = {}
  <2>1. \A i \in DOMAIN list : ~(i <= 0)
    OBVIOUS
  <2>2. \A o : o \notin UpTo(list, 0)
    <3> SUFFICES ASSUME NEW o \in UpTo(list, 0) PROVE FALSE
      OBVIOUS
    <3>1. PICK i \in DOMAIN list : \E j \in DOMAIN list[i] : o = <<i, j>>
      BY PlaceOf DEF UpTo
    <3>2. o[1] = i /\ o[1] <= 0
      BY <3>1 DEF UpTo
    <3> QED
      BY <2>1, <3>2
  <2>3. UpTo(list, 0) = {}
    BY <2>2
  <2> QED
    BY <2>3 DEF Seen
<1>4. Cardinality({}) = 0 /\ IsFiniteSet({})
  BY FS_EmptySet
<1>5. Marked(<<>>) = {}
  <2>1. \A o : o \notin Marked(<<>>)
    BY MarkedAt
  <2> QED
    BY <2>1
<1> DEFINE nil == <<>>
<1>6. Len(nil) = 0 /\ 1 .. Len(nil) = {} /\ DOMAIN nil = {} /\ nil \in Seq(Seq(BOOLEAN))
  BY EmptySequence
<1>7. 1 .. 0 = {} /\ Marked(nil) = {}
  BY <1>5, EmptySequence
<1> HIDE DEF nil
<1>8. \A a \in T!Arms : Answering(a, list, nil, nil, 0, tampered)
  BY <1>3, <1>4, <1>6, <1>7 DEF Answering
<1>9. EvidenceRight(list, 0, 0, nil)
  BY <1>4, <1>6, <1>7 DEF EvidenceRight
<1>10. EdenRight(script, list, nil, 0, 0, 0, nil, tampered)
  <2>1. Len(nil) = 0 /\ ~ \E i \in 1 .. Len(nil) : TRUE
    BY <1>6
  <2>2. /\ Cardinality(Seen(list, Len(nil))) = 0
        /\ Cardinality(UpTo(list, Len(nil))) = 0
    BY <1>3, <1>4, <2>1
  <2>3. EvidenceRight(list, Len(nil), 0, nil)
    BY <1>9, <2>1
  <2>4. 0 = 0 + 0
    OBVIOUS
  <2> QED
    BY <2>1, <2>2, <2>3, <2>4 DEF EdenRight
<1> QED
  BY <1>1, <1>2, <1>8, <1>10 DEF ArmsRight, nil

\* A trial is built: nothing has been answered, and everything is in the line
\* (in the structured trial, the first request is still to have its order).
Builds(s, n, u, list) ==
  /\ T!Build(s, n, u, list)
  /\ list \in Seq(Seq(Nat)) /\ u = Cardinality(T!TasksOf(list))
  /\ n \in Nat \ {0} /\ Len(list) = n
  /\ s = "avoidance" => \A i \in DOMAIN list : Len(list[i]) = 1

LEMMA Started ==
  ASSUME Reusing, NEW s, NEW n, NEW u, NEW list, Builds(s, n, u, list)
  PROVE  Reusing'
<1>1. /\ pc = "off" /\ script = s /\ pc' = "run" /\ requests' = list /\ unique' = u
      /\ queue' = IF s = "structured" THEN <<>> ELSE T!ArmAfterArm(n)
      /\ UNCHANGED <<script, begun, stores, outputs, executed, hits, failures,
                     evidence, report, tampered>>
  BY DEF Builds, T!Build, T!order, T!counts
<1>2. /\ list \in Seq(Seq(Nat)) /\ u = Cardinality(T!TasksOf(list))
      /\ n \in Nat \ {0} /\ Len(list) = n
      /\ s = "avoidance" => \A i \in DOMAIN list : Len(list[i]) = 1
  BY DEF Builds
<1>3. /\ TrialType /\ NothingYet /\ begun = 0 /\ queue = <<>> /\ report = None
      /\ InLine(queue, Answered, Total) /\ script \in Scripts
  BY <1>1 DEF Reusing, TrialType
<1>4. T!Arms' = T!Arms /\ Answered' = Answered
  BY <1>1 DEF T!Arms, Answered
<1>5. Total' = (IF s = "structured" THEN 0 ELSE n) /\ Total' \in 0 .. Len(list)
  BY <1>1, <1>2, <1>3 DEF Total
<1>6. InLine(queue', Answered, Total')
  <2>1. CASE s = "structured"
    <3>1. Total = 0 /\ queue' = <<>>
      BY <1>1, <1>3, <2>1 DEF Total
    <3> QED
      BY <1>3, <1>5, <2>1, <3>1
  <2>2. CASE s # "structured"
    <3>1. Answered = [a \in T!Arms |-> 0]
      <4> DEFINE nil == <<>>
      <4>1. \A a \in T!Arms : outputs[a] = nil
        BY <1>3 DEF NothingYet
      <4>2. Len(nil) = 0
        BY EmptySequence
      <4> HIDE DEF nil
      <4> QED
        BY <4>1, <4>2 DEF Answered
    <3>2. InLine(T!ArmAfterArm(n), [a \in T!Arms |-> 0], n)
      BY <1>1, <1>2, <1>3, <2>2, AllInLine
    <3> QED
      BY <1>1, <1>5, <2>2, <3>1, <3>2
  <2> QED
    BY <2>1, <2>2
<1>7. InLine(queue, Answered, Total)'
  BY <1>4, <1>6 DEF InLine
<1>8. TrialType'
  BY <1>1, <1>2, <1>3, <1>4, <1>5 DEF TrialType
<1>9. ArmsRight(list)
  BY <1>2, <1>3, RightAtFirst
<1>10. ArmsRight(requests)'
  BY <1>1, <1>4, <1>9 DEF ArmsRight
<1>11. Concluded'
  BY <1>1, <1>3 DEF Concluded
<1>12. pc' # "off" /\ unique' = Cardinality(T!TasksOf(requests'))
  BY <1>1, <1>2
<1> QED
  BY <1>7, <1>8, <1>10, <1>11, <1>12 DEF Reusing

\* What the builders build.
LEMMA CycleBuilt ==
  ASSUME NEW s, NEW n \in Nat \ {0}, NEW u \in 1 .. n, T!Build(s, n, u, T!Cycle(n, u))
  PROVE  Builds(s, n, u, T!Cycle(n, u))
BY CycleTasks DEF Builds

LEMMA BuildStep ==
  ASSUME Reusing,
         \/ T!BuildFlagship \/ T!BuildCapacity \/ T!BuildAvoidance
         \/ T!BuildQuickstart \/ T!BuildStructured
  PROVE  Reusing'
<1>1. TrialRequests \in Nat /\ Shares \subseteq 0 .. 4 /\ Sections \subseteq Seq(Nat)
  BY ReuseAssumption
<1>2. ASSUME NEW s, T!BuildRequests(s) PROVE Reusing'
  <2>1. PICK n \in 1 .. TrialRequests, q \in Shares :
          LET u == T!AtLeastOne(n - T!Rounded(n * q)) IN T!Build(s, n, u, T!Cycle(n, u))
    BY <1>2 DEF T!BuildRequests
  <2> DEFINE u == T!AtLeastOne(n - T!Rounded(n * q))
  <2>2. n \in Nat \ {0} /\ q \in 0 .. 4
    BY <1>1
  <2>3. u \in 1 .. n
    BY <2>2, Rounds
  <2>4. T!Build(s, n, u, T!Cycle(n, u))
    BY <2>1
  <2> HIDE DEF u
  <2> QED
    BY <2>2, <2>3, <2>4, CycleBuilt, Started
<1>3. ASSUME T!BuildAvoidance PROVE Reusing'
  <2>1. PICK n \in 2 .. TrialRequests, q \in Shares :
          LET u == T!AtLeastOne(T!Rounded(n * (4 - q)))
          IN  T!Build("avoidance", n, u, T!Cycle(n, u))
    BY <1>3 DEF T!BuildAvoidance
  <2> DEFINE u == T!AtLeastOne(T!Rounded(n * (4 - q)))
  <2>2. n \in Nat \ {0} /\ q \in 0 .. 4
    BY <1>1
  <2>3. u \in 1 .. n
    BY <2>2, Rounds
  <2>4. T!Build("avoidance", n, u, T!Cycle(n, u))
    BY <2>1
  <2> HIDE DEF u
  <2> QED
    BY <2>2, <2>3, <2>4, CycleBuilt, Started
<1>4. ASSUME T!BuildQuickstart PROVE Reusing'
  <2>1. PICK n \in 2 .. TrialRequests : \E u \in 1 .. n :
          T!Build("quickstart", n, u, T!Cycle(n, u))
    BY <1>4 DEF T!BuildQuickstart
  <2>2. n \in Nat \ {0}
    BY <1>1
  <2> QED
    BY <2>1, <2>2, CycleBuilt, Started
<1>5. ASSUME T!BuildStructured PROVE Reusing'
  <2>1. PICK n \in 1 .. TrialRequests : \E list \in [1 .. n -> Sections] :
          T!Build("structured", n, T!Cardinality(T!TasksOf(list)), list)
    BY <1>5 DEF T!BuildStructured
  <2>2. PICK list \in [1 .. n -> Sections] :
          T!Build("structured", n, T!Cardinality(T!TasksOf(list)), list)
    BY <2>1
  <2>3. n \in Nat \ {0} /\ list \in [1 .. n -> Seq(Nat)]
    BY <1>1
  <2>4. list \in Seq(Seq(Nat)) /\ Len(list) = n
    <3>1. list \in Seq(Seq(Nat))
      BY <2>3
    <3>2. DOMAIN list = 1 .. Len(list) /\ Len(list) \in Nat /\ DOMAIN list = 1 .. n
      BY <2>3, <3>1
    <3> QED
      BY <2>3, <3>1, <3>2
  <2>5. T!Build("structured", n, Cardinality(T!TasksOf(list)), list)
    BY <2>2, SameCardinality
  <2>6. Builds("structured", n, Cardinality(T!TasksOf(list)), list)
    BY <2>3, <2>4, <2>5 DEF Builds
  <2> QED
    BY <2>6, Started
<1> QED
  BY <1>2, <1>3, <1>4, <1>5 DEF T!BuildFlagship, T!BuildCapacity

LEMMA ReusingInit == T!Init => Reusing
<1> SUFFICES ASSUME T!Init PROVE Reusing
  OBVIOUS
<1>1. /\ script \in Scripts /\ pc = "off" /\ begun = 0 /\ failures = 0
      /\ report = None /\ tampered = None /\ NothingYet
  BY DEF T!Init, Scripts, NothingYet
<1>2. requests = <<>> /\ queue = <<>>
  BY DEF T!Init
<1> DEFINE nil == <<>>
<1>3. /\ Len(nil) = 0 /\ DOMAIN nil = {} /\ nil \in Seq(Seq(Nat))
      /\ nil \in Seq(Seq(Values)) /\ nil \in Seq(T!Arms \X Nat)
  OBVIOUS
<1>4. /\ requests = nil /\ queue = nil
      /\ outputs = [a \in T!Arms |-> nil] /\ stores = [a \in T!Arms |-> nil]
      /\ executed = [a \in T!Arms |-> 0] /\ hits = [a \in T!Arms |-> 0]
  BY DEF T!Init
<1> HIDE DEF nil
<1>5. Total = 0 /\ Total \in 0 .. Len(requests)
  BY <1>1, <1>3, <1>4 DEF Total
<1>6. TrialType
  <2>1. requests \in Seq(Seq(Nat)) /\ \A i \in DOMAIN requests : Len(requests[i]) = 1
    BY <1>3, <1>4
  <2>2. outputs \in [T!Arms -> Seq(Seq(Values))] /\ DOMAIN stores = T!Arms
    BY <1>3, <1>4
  <2>3. executed \in [T!Arms -> Nat] /\ hits \in [T!Arms -> Nat] /\ failures \in Nat
    BY <1>1, <1>4
  <2> QED
    BY <1>1, <1>5, <2>1, <2>2, <2>3 DEF TrialType
<1>7. Answered = [a \in T!Arms |-> 0]
  BY <1>3, <1>4 DEF Answered
<1>8. InLine(queue, Answered, Total)
  <2> DEFINE none == [a \in T!Arms |-> 0]
  <2>1. none \in [T!Arms -> 0 .. 0] /\ \A a \in T!Arms : none[a] = 0
    OBVIOUS
  <2>2. ~ \E i \in 0 + 1 .. 0 : TRUE
    OBVIOUS
  <2> HIDE DEF none
  <2>3. InLine(nil, none, 0)
    BY <1>3, <2>1, <2>2 DEF InLine
  <2> QED
    BY <1>4, <1>5, <1>7, <2>3 DEF none
<1>9. ArmsRight(requests)
  BY <1>1, <1>3, <1>4, RightAtFirst
<1>10. Concluded
  BY <1>1 DEF Concluded
<1> QED
  BY <1>1, <1>2, <1>6, <1>8, <1>9, <1>10 DEF Reusing

\* The flagship without a request.
LEMMA NothingStep ==
  ASSUME Reusing, T!FlagshipOfNothing PROVE Reusing'
<1>1. /\ pc = "off" /\ pc' = "raised"
      /\ UNCHANGED <<script, requests, unique, begun, queue, stores, outputs,
                     executed, hits, failures, evidence, report, tampered>>
  BY DEF T!FlagshipOfNothing, T!trace, T!order, T!counts
<1>2. T!Arms' = T!Arms /\ Total' = Total /\ Answered' = Answered
  BY <1>1 DEF T!Arms, Total, Answered
<1>3. TrialType'
  BY <1>1, <1>2 DEF Reusing, TrialType
<1>4. InLine(queue, Answered, Total)'
  BY <1>1, <1>2 DEF Reusing, InLine
<1>5. ArmsRight(requests)'
  BY <1>1, <1>2 DEF Reusing, ArmsRight
<1>6. Concluded'
  BY <1>1 DEF Reusing, Concluded
<1> QED
  BY <1>1, <1>3, <1>4, <1>5, <1>6 DEF Reusing

LEMMA ReusingStep == Reusing /\ InTurn /\ T!Next => Reusing'
<1> SUFFICES ASSUME Reusing, InTurn, T!Next PROVE Reusing'
  OBVIOUS
<1>1. CASE \/ T!BuildFlagship \/ T!BuildCapacity \/ T!BuildAvoidance
           \/ T!BuildQuickstart \/ T!BuildStructured
  BY <1>1, BuildStep
<1>2. CASE T!NextRequest
  BY <1>2, NextRequestStep
<1>3. CASE T!Control
  BY <1>3, ControlTurn
<1>4. CASE T!WholeCache
  BY <1>4, WholeCacheTurn
<1>5. CASE T!ComponentCache
  BY <1>5, ComponentCacheTurn
<1>6. CASE T!Eden
  BY <1>6, EdenTurn
<1>7. CASE T!EdenByForm
  BY <1>7, EdenByFormTurn
<1>8. CASE T!EdenRaises
  BY <1>8, EdenRaisesStep
<1>9. CASE T!Report
  BY <1>9, ReportStep
<1>10. CASE T!Refuse
  BY <1>10, RefuseStep
<1>11. CASE T!Tamper
  BY <1>11, TamperStep
<1>12. CASE T!FlagshipOfNothing
  BY <1>12, NothingStep
<1> QED
  BY <1>1, <1>2, <1>3, <1>4, <1>5, <1>6, <1>7, <1>8, <1>9, <1>10, <1>11, <1>12
     DEF T!Next, T!Main

LEMMA ReusingKept ==
  ASSUME Reusing,
         UNCHANGED <<script, pc, requests, unique, begun, queue, stores, outputs,
                     executed, hits, failures, evidence, report, tampered>>
  PROVE  Reusing'
<1>1. T!Arms' = T!Arms /\ Total' = Total /\ Answered' = Answered
  BY DEF T!Arms, Total, Answered
<1>2. TrialType'
  BY <1>1 DEF Reusing, TrialType
<1>3. InLine(queue, Answered, Total)'
  BY <1>1 DEF Reusing, InLine
<1>4. ArmsRight(requests)'
  BY <1>1 DEF Reusing, ArmsRight
<1>5. Concluded'
  BY <1>1 DEF Reusing, Concluded
<1>6. pc' = "off" => /\ NothingYet' /\ begun' = 0 /\ queue' = <<>> /\ report' = None
                     /\ requests' = <<>>
  BY <1>1 DEF Reusing, NothingYet
<1>7. pc' \in {"run", "reported"} => unique' = Cardinality(T!TasksOf(requests'))
  BY DEF Reusing
<1> QED
  BY <1>2, <1>3, <1>4, <1>5, <1>6, <1>7 DEF Reusing

\* A task is reused where it has occurred at an earlier place.
Earlier(e, i, j) == e[1] < i \/ (e[1] = i /\ e[2] < j)

LEMMA ReusedIsEarlier ==
  ASSUME NEW list \in Seq(Seq(Nat)), NEW i \in DOMAIN list, NEW j \in DOMAIN list[i]
  PROVE  Reused(list, i, j) <=>
           \E e \in T!Occurrences(list) :
             Earlier(e, i, j) /\ list[e[1]][e[2]] = list[i][j]
<1>1. /\ i \in Nat /\ j \in Nat /\ DOMAIN list \subseteq Nat
      /\ \A k \in DOMAIN list : DOMAIN list[k] \subseteq Nat
      /\ DOMAIN list[i] = 1 .. Len(list[i]) /\ Len(list[i]) \in Nat
  <2>1. \A k \in DOMAIN list : list[k] \in Seq(Nat)
    OBVIOUS
  <2>2. \A k \in DOMAIN list : /\ DOMAIN list[k] = 1 .. Len(list[k])
                               /\ Len(list[k]) \in Nat
    BY <2>1
  <2>3. \A n \in Nat : 1 .. n \subseteq Nat
    OBVIOUS
  <2>4. DOMAIN list \subseteq Nat
    OBVIOUS
  <2> QED
    BY <2>2, <2>3, <2>4
<1>2. ASSUME Reused(list, i, j)
      PROVE  \E e \in T!Occurrences(list) :
               Earlier(e, i, j) /\ list[e[1]][e[2]] = list[i][j]
  <2>1. CASE list[i][j] \in Seen(list, i - 1)
    <3>1. PICK o \in T!Occurrences(list) : o[1] <= i - 1 /\ list[i][j] = list[o[1]][o[2]]
      BY <2>1 DEF Seen, UpTo
    <3>2. o[1] \in Nat
      <4>1. PICK k \in DOMAIN list : \E m \in DOMAIN list[k] : o = <<k, m>>
        BY PlaceOf
      <4> QED
        BY <1>1, <4>1
    <3>3. o[1] < i
      BY <1>1, <3>1, <3>2
    <3> QED
      BY <3>1, <3>3 DEF Earlier
  <2>2. CASE \E m \in 1 .. j - 1 : list[i][m] = list[i][j]
    <3>1. PICK m \in 1 .. j - 1 : list[i][m] = list[i][j]
      BY <2>2
    <3>2. m \in DOMAIN list[i] /\ m < j
      BY <1>1
    <3>3. <<i, m>> \in T!Occurrences(list)
      BY <3>2, PlaceOf
    <3>4. Earlier(<<i, m>>, i, j) /\ list[<<i, m>>[1]][<<i, m>>[2]] = list[i][j]
      BY <3>1, <3>2 DEF Earlier
    <3> QED
      BY <3>3, <3>4
  <2> QED
    BY <1>2, <2>1, <2>2 DEF Reused
<1>3. ASSUME NEW e \in T!Occurrences(list), Earlier(e, i, j),
             list[e[1]][e[2]] = list[i][j]
      PROVE  Reused(list, i, j)
  <2>1. PICK k \in DOMAIN list : \E m \in DOMAIN list[k] : e = <<k, m>>
    BY PlaceOf
  <2>2. PICK m \in DOMAIN list[k] : e = <<k, m>>
    BY <2>1
  <2>3. e[1] = k /\ e[2] = m /\ k \in Nat /\ m \in Nat
    BY <1>1, <2>2
  <2>4. CASE k < i
    <3>1. k <= i - 1
      BY <1>1, <2>3, <2>4
    <3> QED
      BY <1>3, <2>3, <3>1 DEF Reused, Seen, UpTo
  <2>5. CASE k = i /\ m < j
    <3>1. m \in 1 .. j - 1
      BY <1>1, <2>5
    <3> QED
      BY <1>3, <2>3, <2>5, <3>1 DEF Reused
  <2> QED
    BY <1>3, <2>3, <2>4, <2>5 DEF Earlier
<1> QED
  BY <1>2, <1>3

LEMMA ReusedAsBuilt == Reusing => T!ReuseAsBuilt
<1> SUFFICES ASSUME Reusing PROVE T!ReuseAsBuilt
  OBVIOUS
<1>1. /\ TrialType /\ Concluded /\ (pc = "reported" => unique = Cardinality(T!TasksOf(requests)))
      /\ EdenRight(script, requests, outputs["EDEN"], executed["EDEN"], hits["EDEN"],
                   failures, evidence, tampered)
  BY DEF Reusing, ArmsRight
<1>2. requests \in Seq(Seq(Nat)) /\ "EDEN" \in T!Arms
  BY <1>1, ArmsThereAre DEF TrialType
<1>3. DOMAIN outputs["EDEN"] = 1 .. Len(outputs["EDEN"])
  BY <1>1, <1>2 DEF TrialType
<1>4. script # "avoidance" =>
        \A i \in DOMAIN outputs["EDEN"] : outputs["EDEN"][i] = requests[i]
  BY <1>1, <1>3 DEF EdenRight
<1>5. ASSUME report # None
      PROVE  /\ report.equivalent => \A a \in T!Arms : outputs[a] = requests
             /\ report.executions["EDEN"] = unique
             /\ T!Cardinality(T!TasksOf(requests)) = unique
             /\ report.avoided = hits["EDEN"]
             /\ report.avoided + unique = report.executions["CONTROL"]
             /\ Len(outputs["EDEN"]) = Len(requests)
  BY <1>1, <1>5, SameCardinality DEF Concluded
<1>6. ASSUME report # None, script = "structured", NEW o \in T!Occurrences(requests)
      PROVE  evidence[o[1]][o[2]] <=>
               \E e \in T!Occurrences(requests) :
                 Earlier(e, o[1], o[2]) /\ requests[e[1]][e[2]] = requests[o[1]][o[2]]
  <2>1. PICK i \in DOMAIN requests : \E j \in DOMAIN requests[i] : o = <<i, j>>
    BY PlaceOf
  <2>2. PICK j \in DOMAIN requests[i] : o = <<i, j>>
    BY <2>1
  <2>3. o[1] = i /\ o[2] = j /\ i \in 1 .. Len(requests)
    BY <1>2, <2>2
  <2>4. EvidenceRight(requests, Len(requests), hits["EDEN"], evidence)
    BY <1>1, <1>5, <1>6 DEF EdenRight
  <2>5. evidence[i][j] <=> Reused(requests, i, j)
    BY <2>3, <2>4 DEF EvidenceRight
  <2>6. Reused(requests, i, j) <=>
          \E e \in T!Occurrences(requests) :
            Earlier(e, i, j) /\ requests[e[1]][e[2]] = requests[i][j]
    BY <1>2, ReusedIsEarlier
  <2> QED
    BY <2>3, <2>5, <2>6
<1>7. tampered = None => /\ requests # <<>> => pc # "raised"
                         /\ report # None => report.equivalent
  BY <1>1 DEF Concluded
<1> QED
  BY <1>4, <1>5, <1>6, <1>7 DEF T!ReuseAsBuilt, Earlier

(* What is reused is what was built to be reused (the structured, flagship,  *)
(* capacity and avoidance scripts and quickstart.py in src/experiments).     *)
(* However many requests there are, whatever sections they have and          *)
(* whichever stored output is changed: an EDEN arm that checks its store     *)
(* puts out no changed output; a report of equivalence stands on right       *)
(* outputs; each different task was executed once, and the rest is what is   *)
(* said to be avoided; and a run without a changed output is not given up.   *)
THEOREM ReuseIsAsBuilt == SpecExperiments => []ReuseAsBuilt
<1> DEFINE I == program = "reuse" => InTurn /\ Reusing
<1>1. InitExperiments => I
  BY InTurnInit, ReusingInit
     DEF InitExperiments, InitFairAB, InitHandset, InitRefinery, InitReuse
<1>2. I /\ [NextExperiments]_allVars => I'
  <2> SUFFICES ASSUME I, [NextExperiments]_allVars, program' = "reuse"
               PROVE  InTurn' /\ Reusing'
    OBVIOUS
  <2>1. CASE UNCHANGED allVars
    <3>1. InTurn'
      BY <2>1 DEF allVars, vars, handler, ofReuse, InTurn
    <3>2. UNCHANGED <<script, pc, requests, unique, begun, queue, stores, outputs,
                      executed, hits, failures, evidence, report, tampered>>
      BY <2>1 DEF allVars, vars, handler, ofReuse
    <3>3. Reusing
      BY <2>1 DEF allVars
    <3>4. Reusing'
      BY <3>2, <3>3, ReusingKept
    <3> QED
      BY <3>1, <3>4
  <2>2. CASE ReuseAlone /\ T!Next
    BY <2>2, InTurnStep, ReusingStep DEF ReuseAlone, Is
  <2> QED
    BY <2>1, <2>2 DEF NextExperiments, FairABAlone, HandsetAlone, RefineryAlone,
       ReuseAlone, Is
<1>3. I => ReuseAsBuilt
  BY ReusedAsBuilt DEF ReuseAsBuilt
<1> HIDE DEF I
<1> QED
  BY <1>1, <1>2, <1>3, PTL DEF SpecExperiments

-----------------------------------------------------------------------------
(* The manifest of the Refinery benchmark.  Its root fixes the records       *)
(* because no level of the tree loses what the one below it says: the nodes  *)
(* of a level are equally long, so that each can be read off its parent.     *)

\* What holds of 0 and with each number of the next one, up to n.
LEMMA Reached ==
  ASSUME NEW n \in Nat, NEW S, 0 \in S,
         \A k \in 1 .. n : k - 1 \in S => k \in S
  PROVE  \A k \in 0 .. n : k \in S
<1> DEFINE Rest == {k \in 0 .. n : k \notin S}
<1> SUFFICES ASSUME Rest # {} PROVE FALSE
  OBVIOUS
<1>1. Rest \in SUBSET Nat
  OBVIOUS
<1>2. PICK k \in Rest : \A m \in Rest : k <= m
  BY <1>1, LeastExists
<1>3. k \in 1 .. n /\ k - 1 \in 0 .. n /\ ~(k <= k - 1)
  BY <1>2
<1> QED
  BY <1>2, <1>3

\* A level of l nodes that have m leaves each.
Level(S, level, l, m) ==
  /\ level \in Seq(Seq(S)) /\ Len(level) = l /\ l \in Nat \ {0} /\ m \in Nat
  /\ \A p \in 1 .. l : Len(level[p]) = m

LEMMA Pairs ==
  ASSUME NEW l \in Nat, l > 1
  PROVE  LET h == (l + (l % 2)) \div 2 IN
         /\ h \in Nat \ {0} /\ h + h = l + (l % 2) /\ h < l
         /\ \A j \in 1 .. h : 2 * j - 1 \in 1 .. h + h /\ 2 * j \in 1 .. h + h
         /\ \A p \in 1 .. l : \E j \in 1 .. h : p = 2 * j - 1 \/ p = 2 * j
<1> DEFINE h == (l + (l % 2)) \div 2
<1>1. h \in Nat \ {0} /\ h + h = l + (l % 2) /\ h < l
  OBVIOUS
<1>2. ASSUME NEW p \in 1 .. l PROVE \E j \in 1 .. h : p = 2 * j - 1 \/ p = 2 * j
  <2> DEFINE j == (p + (p % 2)) \div 2
  <2>1. j \in Nat /\ (p = 2 * j - 1 \/ p = 2 * j) /\ j >= 1
    OBVIOUS
  <2>2. p <= h + h
    BY <1>1
  <2> HIDE DEF j, h
  <2>3. j <= h
    BY <1>1, <2>1, <2>2
  <2> QED
    BY <1>1, <2>1, <2>3
<1> HIDE DEF h
<1>3. \A j \in 1 .. h : 2 * j - 1 \in 1 .. h + h /\ 2 * j \in 1 .. h + h
  BY <1>1
<1> QED
  BY <1>1, <1>2, <1>3 DEF h

\* An odd level repeats its last node.
LEMMA EvenFacts ==
  ASSUME NEW S, NEW level, NEW l, NEW m, Level(S, level, l, m)
  PROVE  /\ Level(S, R!Even(level), l + (l % 2), m)
         /\ \A p \in 1 .. l : R!Even(level)[p] = level[p]
<1>1. /\ level \in Seq(Seq(S)) /\ Len(level) = l /\ l \in Nat \ {0} /\ m \in Nat
      /\ \A p \in 1 .. l : Len(level[p]) = m
      /\ DOMAIN level = 1 .. l /\ \A p \in 1 .. l : level[p] \in Seq(S)
  BY DEF Level
<1>2. CASE l % 2 = 1
  <2> DEFINE e == Append(level, level[l])
  <2>1. R!Even(level) = e
    BY <1>1, <1>2 DEF R!Even, R!Last
  <2>2. level[l] \in Seq(S) /\ Len(level[l]) = m
    BY <1>1
  <2>3. /\ e \in Seq(Seq(S)) /\ Len(e) = l + 1
        /\ \A p \in 1 .. l : e[p] = level[p]
        /\ e[l + 1] = level[l]
    BY <1>1, <2>2
  <2>4. \A p \in 1 .. l + 1 : p \in 1 .. l \/ p = l + 1
    BY <1>1
  <2> HIDE DEF e
  <2>5. \A p \in 1 .. l + 1 : Len(e[p]) = m
    BY <1>1, <2>2, <2>3, <2>4
  <2>6. l + (l % 2) = l + 1 /\ l + 1 \in Nat \ {0}
    BY <1>1, <1>2
  <2> QED
    BY <1>1, <2>1, <2>3, <2>5, <2>6 DEF Level
<1>3. CASE l % 2 # 1
  <2>1. R!Even(level) = level
    BY <1>1, <1>3 DEF R!Even
  <2>2. l + (l % 2) = l
    BY <1>1, <1>3
  <2> QED
    BY <2>1, <2>2
<1> QED
  BY <1>2, <1>3

\* A node says what the two below it are.
Splits(node, a, b, m) ==
  \A q \in 1 .. m : node[q] = a[q] /\ node[m + q] = b[q]

LEMMA Joined ==
  ASSUME NEW S, NEW a \in Seq(S), NEW b \in Seq(S), NEW m \in Nat, Len(a) = m, Len(b) = m
  PROVE  /\ a \o b \in Seq(S) /\ Len(a \o b) = m + m
         /\ Splits(a \o b, a, b, m)
BY DEF Splits

LEMMA NextLevelFacts ==
  ASSUME NEW S, NEW level, NEW l, NEW m, Level(S, level, l, m), l > 1
  PROVE  LET h == (l + (l % 2)) \div 2
             up == R!NextLevel(level)
             e == R!Even(level)
         IN  /\ Level(S, up, h, m + m)
             /\ \A j \in 1 .. h : up[j] = e[2 * j - 1] \o e[2 * j]
<1> DEFINE h == (l + (l % 2)) \div 2
           up == R!NextLevel(level)
           e == R!Even(level)
<1>1. l \in Nat /\ m \in Nat /\ m + m \in Nat
  BY DEF Level
<1>2. /\ e \in Seq(Seq(S)) /\ Len(e) = l + (l % 2)
      /\ \A p \in 1 .. l + (l % 2) : Len(e[p]) = m /\ e[p] \in Seq(S)
  <2>1. Level(S, e, l + (l % 2), m)
    BY EvenFacts
  <2> HIDE DEF e
  <2> QED
    BY <2>1 DEF Level
<1>3. /\ h \in Nat \ {0} /\ h + h = l + (l % 2)
      /\ \A j \in 1 .. h : 2 * j - 1 \in 1 .. h + h /\ 2 * j \in 1 .. h + h
  BY <1>1, Pairs
<1>4. up = [j \in 1 .. h |-> e[2 * j - 1] \o e[2 * j]]
  <2>1. Len(e) \div 2 = h
    BY <1>2
  <2> QED
    BY <2>1 DEF R!NextLevel
<1> HIDE DEF h, e, up
<1>5. \A j \in 1 .. h : /\ up[j] = e[2 * j - 1] \o e[2 * j]
                        /\ up[j] \in Seq(S) /\ Len(up[j]) = m + m
  <2> TAKE j \in 1 .. h
  <2>1. up[j] = e[2 * j - 1] \o e[2 * j]
    BY <1>4
  <2> DEFINE a == e[2 * j - 1]
             b == e[2 * j]
  <2>2. a \in Seq(S) /\ b \in Seq(S) /\ Len(a) = m /\ Len(b) = m
    BY <1>2, <1>3
  <2>3. up[j] = a \o b
    BY <2>1
  <2> HIDE DEF a, b
  <2>4. a \o b \in Seq(S) /\ Len(a \o b) = m + m
    BY <1>1, <2>2, Joined
  <2> QED
    BY <2>1, <2>3, <2>4
<1>6. up \in Seq(Seq(S)) /\ Len(up) = h
  <2>1. up \in [1 .. h -> Seq(S)]
    BY <1>4, <1>5
  <2>2. up \in Seq(Seq(S)) /\ DOMAIN up = 1 .. h
    BY <1>3, <2>1
  <2>3. DOMAIN up = 1 .. Len(up) /\ Len(up) \in Nat
    BY <2>2
  <2> QED
    BY <1>3, <2>2, <2>3
<1>7. Level(S, up, h, m + m)
  BY <1>1, <1>3, <1>5, <1>6 DEF Level
<1> QED
  BY <1>5, <1>7 DEF h, e, up

\* What two trees of one shape say of the lists they were built from, as far as
\* their levels k: that they are the same if the levels are.
LEMMA NothingIsLost ==
  ASSUME NEW S, NEW a, NEW b, NEW l, NEW m, Level(S, a, l, m), Level(S, b, l, m),
         l > 1, R!NextLevel(a) = R!NextLevel(b)
  PROVE  a = b
<1> DEFINE h == (l + (l % 2)) \div 2
           up == R!NextLevel(a)
           e == R!Even(a)
           f == R!Even(b)
<1>1. /\ l \in Nat \ {0} /\ m \in Nat
      /\ a \in Seq(Seq(S)) /\ Len(a) = l /\ \A p \in 1 .. l : Len(a[p]) = m
      /\ b \in Seq(Seq(S)) /\ Len(b) = l /\ \A p \in 1 .. l : Len(b[p]) = m
  BY DEF Level
<1>2. /\ \A p \in 1 .. l : e[p] = a[p] /\ f[p] = b[p]
      /\ Level(S, e, l + (l % 2), m) /\ Level(S, f, l + (l % 2), m)
  BY EvenFacts
<1>3. /\ h \in Nat /\ h + h = l + (l % 2)
      /\ \A j \in 1 .. h : 2 * j - 1 \in 1 .. h + h /\ 2 * j \in 1 .. h + h
      /\ \A p \in 1 .. l : \E j \in 1 .. h : p = 2 * j - 1 \/ p = 2 * j
  BY <1>1, Pairs
<1>4. \A j \in 1 .. h : /\ up[j] = e[2 * j - 1] \o e[2 * j]
                        /\ up[j] = f[2 * j - 1] \o f[2 * j]
  BY NextLevelFacts
<1> HIDE DEF h, up, e, f
<1>5. \A i \in 1 .. h + h : /\ e[i] \in Seq(S) /\ Len(e[i]) = m
                            /\ f[i] \in Seq(S) /\ Len(f[i]) = m
  <2>1. /\ e \in Seq(Seq(S)) /\ Len(e) = h + h /\ \A i \in 1 .. h + h : Len(e[i]) = m
        /\ f \in Seq(Seq(S)) /\ Len(f) = h + h /\ \A i \in 1 .. h + h : Len(f[i]) = m
    BY <1>2, <1>3 DEF Level
  <2> QED
    BY <2>1
<1>6. ASSUME NEW j \in 1 .. h
      PROVE  /\ \A q \in 1 .. m : e[2 * j - 1][q] = f[2 * j - 1][q]
             /\ \A q \in 1 .. m : e[2 * j][q] = f[2 * j][q]
  <2> DEFINE el == e[2 * j - 1]
             er == e[2 * j]
             fl == f[2 * j - 1]
             fr == f[2 * j]
  <2>1. /\ el \in Seq(S) /\ Len(el) = m /\ er \in Seq(S) /\ Len(er) = m
        /\ fl \in Seq(S) /\ Len(fl) = m /\ fr \in Seq(S) /\ Len(fr) = m
        /\ m \in Nat
    BY <1>1, <1>3, <1>5
  <2>2. el \o er = fl \o fr
    BY <1>4
  <2> HIDE DEF el, er, fl, fr
  <2>3. Splits(el \o er, el, er, m) /\ Splits(fl \o fr, fl, fr, m)
    BY <2>1, Joined
  <2> DEFINE node == el \o er
  <2>4. Splits(node, el, er, m) /\ Splits(node, fl, fr, m)
    BY <2>2, <2>3
  <2> HIDE DEF node
  <2>5. \A q \in 1 .. m : el[q] = fl[q] /\ er[q] = fr[q]
    BY <2>4 DEF Splits
  <2> QED
    BY <2>5 DEF el, er, fl, fr
<1>7. ASSUME NEW p \in 1 .. l PROVE a[p] = b[p]
  <2>1. /\ a[p] \in Seq(S) /\ Len(a[p]) = m /\ b[p] \in Seq(S) /\ Len(b[p]) = m
    BY <1>1
  <2>2. PICK j \in 1 .. h : p = 2 * j - 1 \/ p = 2 * j
    BY <1>3
  <2>3. \A q \in 1 .. m : a[p][q] = b[p][q]
    BY <1>2, <1>6, <2>2
  <2> QED
    BY <2>1, <2>3, SameSequence
<1> QED
  BY <1>1, <1>7, SameSequence

\* Two levels of one shape, which are shorter than n - k unless they are roots,
\* and the same only if it is so.
Alike(S, a, b, bound, so) ==
  /\ bound \in Nat \ {0}
  /\ \E l \in 1 .. bound, m \in Nat : Level(S, a, l, m) /\ Level(S, b, l, m)
  /\ a = b => so

LEMMA AboveAlike ==
  ASSUME NEW S, NEW a, NEW b, NEW bound, NEW so \in BOOLEAN, Alike(S, a, b, bound, so)
  PROVE  Alike(S, R!Above(a), R!Above(b), IF bound > 1 THEN bound - 1 ELSE 1, so)
<1> DEFINE less == IF bound > 1 THEN bound - 1 ELSE 1
<1>1. bound \in Nat \ {0} /\ (a = b => so)
  BY DEF Alike
<1>2. PICK l \in 1 .. bound, m \in Nat : Level(S, a, l, m) /\ Level(S, b, l, m)
  BY DEF Alike
<1>3. less \in Nat \ {0} /\ (l = 1 => l \in 1 .. less)
  BY <1>1
<1>4. Len(a) = l /\ Len(b) = l
  BY <1>2 DEF Level
<1>5. CASE l = 1
  <2>1. R!Above(a) = a /\ R!Above(b) = b
    BY <1>4, <1>5 DEF R!Above
  <2> HIDE DEF less
  <2>2. Alike(S, a, b, less, so)
    BY <1>1, <1>2, <1>3, <1>5 DEF Alike
  <2> QED
    BY <2>1, <2>2 DEF less
<1>6. CASE l > 1
  <2> DEFINE h == (l + (l % 2)) \div 2
  <2>1. R!Above(a) = R!NextLevel(a) /\ R!Above(b) = R!NextLevel(b)
    BY <1>4, <1>6 DEF R!Above
  <2>2. Level(S, R!NextLevel(a), h, m + m) /\ Level(S, R!NextLevel(b), h, m + m)
    BY <1>2, <1>6, NextLevelFacts
  <2>3. h \in Nat \ {0} /\ h < l
    BY <1>6, Pairs
  <2>4. h \in 1 .. less /\ m + m \in Nat
    <3> HIDE DEF h
    <3> QED
      BY <1>1, <2>3
  <2>5. R!NextLevel(a) = R!NextLevel(b) => a = b
    BY <1>2, <1>6, NothingIsLost
  <2> HIDE DEF h, less
  <2>6. Alike(S, R!NextLevel(a), R!NextLevel(b), less, so)
    BY <1>1, <1>3, <2>2, <2>4, <2>5 DEF Alike
  <2> QED
    BY <2>1, <2>6 DEF less
<1>7. l = 1 \/ l > 1
  BY <1>1
<1> QED
  BY <1>5, <1>6, <1>7

\* A step from value to value can be taken any number of times.
CanFollow(n, V, first, step) ==
  \E f \in [0 .. n -> V] :
    f[0] = first /\ \A i \in 1 .. n : f[i] = step[f[i - 1]]

LEMMA StepsFollow ==
  ASSUME NEW n \in Nat, NEW V, NEW first \in V, NEW step \in [V -> V]
  PROVE  CanFollow(n, V, first, step)
<1> DEFINE Upto(k) == \E f \in [0 .. n -> V] :
                        f[0] = first /\ \A i \in 1 .. k : f[i] = step[f[i - 1]]
           Reach == {k \in 0 .. n : Upto(k)}
<1>1. Upto(0)
  <2> DEFINE f == [i \in 0 .. n |-> first]
  <2>1. f \in [0 .. n -> V] /\ f[0] = first
    OBVIOUS
  <2>2. 1 .. 0 = {}
    OBVIOUS
  <2> HIDE DEF f
  <2> QED
    BY <2>1, <2>2
<1>2. ASSUME NEW k \in 1 .. n, Upto(k - 1) PROVE Upto(k)
  <2>1. PICK f \in [0 .. n -> V] :
               f[0] = first /\ \A i \in 1 .. k - 1 : f[i] = step[f[i - 1]]
    BY <1>2
  <2> DEFINE v == step[f[k - 1]]
             g == [f EXCEPT ![k] = v]
  <2>2. v \in V
    <3>1. k - 1 \in 0 .. n
      OBVIOUS
    <3> QED
      BY <3>1
  <2> HIDE DEF v
  <2>3. /\ g \in [0 .. n -> V]
        /\ \A i \in 0 .. n : g[i] = IF i = k THEN v ELSE f[i]
    BY <2>2
  <2> HIDE DEF g
  <2>4. g[0] = first
    BY <2>1, <2>3
  <2>5. ASSUME NEW i \in 1 .. k PROVE g[i] = step[g[i - 1]]
    <3>1. i - 1 \in 0 .. n /\ i \in 0 .. n /\ i - 1 # k /\ (i = k \/ i \in 1 .. k - 1)
      OBVIOUS
    <3>2. g[i - 1] = f[i - 1]
      BY <2>3, <3>1
    <3>3. CASE i = k
      BY <2>3, <3>1, <3>2, <3>3 DEF v
    <3>4. CASE i \in 1 .. k - 1 /\ i # k
      BY <2>1, <2>3, <3>1, <3>2, <3>4
    <3> QED
      BY <3>1, <3>3, <3>4
  <2> QED
    BY <2>3, <2>4, <2>5
<1> HIDE DEF Upto
<1>3. 0 \in Reach /\ \A k \in 1 .. n : k - 1 \in Reach => k \in Reach
  BY <1>1, <1>2
<1>4. \A k \in 0 .. n : k \in Reach
  <2> HIDE DEF Reach
  <2> QED
    BY <1>3, Reached
<1>5. Upto(n)
  BY <1>4
<1> QED
  BY <1>5 DEF Upto, CanFollow

Leaves(list) == [i \in DOMAIN list |-> <<list[i]>>]

LEMMA LeavesFacts ==
  ASSUME NEW S, NEW list \in Seq(S), Len(list) # 0
  PROVE  Level(S, Leaves(list), Len(list), 1) /\ \A i \in DOMAIN list : Leaves(list)[i] = <<list[i]>>
<1> DEFINE n == Len(list)
<1>1. n \in Nat \ {0} /\ DOMAIN list = 1 .. n /\ \A i \in 1 .. n : list[i] \in S
  OBVIOUS
<1> HIDE DEF n
<1>2. \A i \in 1 .. n : <<list[i]>> \in Seq(S) /\ Len(<<list[i]>>) = 1
  BY <1>1
<1>3. Leaves(list) = [i \in 1 .. n |-> <<list[i]>>]
  BY <1>1 DEF Leaves
<1>4. Leaves(list) \in [1 .. n -> Seq(S)]
  BY <1>2, <1>3
<1>5. Leaves(list) \in Seq(Seq(S)) /\ Len(Leaves(list)) = n
  <2>1. Leaves(list) \in Seq(Seq(S)) /\ DOMAIN Leaves(list) = 1 .. n
    BY <1>1, <1>4
  <2>2. DOMAIN Leaves(list) = 1 .. Len(Leaves(list)) /\ Len(Leaves(list)) \in Nat
    BY <2>1
  <2> QED
    BY <1>1, <2>1, <2>2
<1>6. Level(S, Leaves(list), n, 1)
  BY <1>1, <1>2, <1>3, <1>5 DEF Level
<1> QED
  BY <1>1, <1>3, <1>6 DEF n

\* The levels of a tree.
Tree(f, list) ==
  /\ f[0] = Leaves(list)
  /\ \A k \in 1 .. Len(list) : f[k] = R!Above(f[k - 1])

LEMMA TreeOf ==
  ASSUME NEW S, NEW list \in Seq(S), Len(list) # 0
  PROVE  \E f : Tree(f, list) /\ R!Root(list) = f[Len(list)][1]
<1> DEFINE n == Len(list)
           Grown(f) == [k \in 0 .. Len(list) |->
              IF k = 0 THEN [i \in DOMAIN list |-> <<list[i]>>] ELSE R!Above(f[k - 1])]
           tree == CHOOSE f : f = Grown(f)
<1>1. n \in Nat /\ list # <<>>
  OBVIOUS
<1>2. R!Root(list) = tree[n][1]
  BY <1>1 DEF R!Root
<1>3. \E f : f = Grown(f)
  <2> DEFINE V == {v \in Seq(Seq(S)) : \E l, m \in Nat : Level(S, v, l, m)}
             step == [v \in V |-> R!Above(v)]
  <2>1. Leaves(list) \in V
    BY LeavesFacts DEF Level
  <2>2. ASSUME NEW v \in V PROVE R!Above(v) \in V
    <3>1. PICK l, m \in Nat : Level(S, v, l, m)
      OBVIOUS
    <3>2. l \in Nat \ {0} /\ l \in 1 .. l
      BY <3>1 DEF Level
    <3>3. Alike(S, v, v, l, TRUE)
      BY <3>1, <3>2 DEF Alike
    <3> DEFINE less == IF l > 1 THEN l - 1 ELSE 1
    <3>4. Alike(S, R!Above(v), R!Above(v), less, TRUE)
      BY <3>3, AboveAlike
    <3> HIDE DEF less
    <3>5. PICK i \in 1 .. less, j \in Nat : Level(S, R!Above(v), i, j)
      BY <3>4 DEF Alike
    <3> QED
      BY <3>5 DEF Level
  <2>3. step \in [V -> V]
    <3> HIDE DEF V
    <3> QED
      BY <2>2
  <2>4. PICK f \in [0 .. n -> V] :
               f[0] = Leaves(list) /\ \A i \in 1 .. n : f[i] = step[f[i - 1]]
    <3> DEFINE first == Leaves(list)
    <3>1. first \in V /\ n \in Nat
      BY <1>1, <2>1
    <3> HIDE DEF V, step, n, first
    <3>2. CanFollow(n, V, first, step)
      BY <2>3, <3>1, StepsFollow
    <3> QED
      BY <3>2 DEF first, CanFollow
  <2>5. ASSUME NEW k \in 0 .. n
        PROVE  f[k] = IF k = 0 THEN Leaves(list) ELSE R!Above(f[k - 1])
    <3>1. CASE k = 0
      BY <2>4, <3>1
    <3>2. CASE k # 0
      <4>1. k \in 1 .. n /\ k - 1 \in 0 .. n
        BY <3>2
      <4>2. f[k - 1] \in V
        BY <4>1
      <4>3. step[f[k - 1]] = R!Above(f[k - 1])
        <5> HIDE DEF V
        <5> QED
          BY <4>2
      <4> QED
        BY <2>4, <3>2, <4>1, <4>3
    <3> QED
      BY <3>1, <3>2
  <2>6. f = [k \in 0 .. n |-> f[k]]
    OBVIOUS
  <2>7. f = Grown(f)
    BY <2>5, <2>6 DEF Leaves
  <2> QED
    BY <2>7
<1>4. tree = Grown(tree)
  BY <1>3
<1>5. \A k \in 0 .. n : tree[k] = IF k = 0 THEN Leaves(list) ELSE R!Above(tree[k - 1])
  <2>1. \A k \in 0 .. n : tree[k] = Grown(tree)[k]
    BY <1>4
  <2> HIDE DEF tree
  <2> QED
    BY <2>1 DEF Leaves
<1> HIDE DEF tree
<1>6. 0 \in 0 .. n /\ \A k \in 1 .. n : k \in 0 .. n /\ k # 0
  BY <1>1
<1>7. Tree(tree, list)
  BY <1>5, <1>6 DEF Tree
<1> QED
  BY <1>2, <1>7

\* A root belongs to one list of a length.
LEMMA RootFixesList ==
  ASSUME NEW S, NEW a \in Seq(S), NEW b \in Seq(S), Len(a) = Len(b),
         R!Root(a) = R!Root(b)
  PROVE  a = b
<1> DEFINE n == Len(a)
           so == a = b
<1>1. n \in Nat /\ n = Len(b) /\ DOMAIN a = 1 .. n /\ DOMAIN b = 1 .. n /\ so \in BOOLEAN
  OBVIOUS
<1>2. CASE n = 0
  <2>1. ~ \E i \in 1 .. Len(a) : TRUE
    BY <1>2
  <2> QED
    BY <2>1, SameSequence
<1>3. CASE n # 0
  <2>1. PICK f : Tree(f, a) /\ R!Root(a) = f[n][1]
    BY <1>1, <1>3, TreeOf
  <2>2. PICK g : Tree(g, b) /\ R!Root(b) = g[n][1]
    BY <1>1, <1>3, TreeOf
  <2> DEFINE Same(k) == Alike(S, f[k], g[k], IF n - k > 1 THEN n - k ELSE 1, so)
             Reach == {k \in 0 .. n : Same(k)}
  <2>3. Same(0)
    <3>1. Level(S, Leaves(a), n, 1) /\ Level(S, Leaves(b), n, 1)
      BY <1>1, <1>3, LeavesFacts
    <3>2. ASSUME Leaves(a) = Leaves(b) PROVE so
      <4>1. ASSUME NEW i \in 1 .. n PROVE a[i] = b[i]
        <5>1. Leaves(a)[i] = <<a[i]>> /\ Leaves(b)[i] = <<b[i]>>
          BY <1>1, <1>3, LeavesFacts
        <5>2. <<a[i]>>[1] = <<b[i]>>[1]
          BY <3>2, <5>1
        <5> QED
          BY <5>2
      <4> QED
        BY <1>1, <4>1, SameSequence
    <3>3. n \in Nat \ {0} /\ n \in 1 .. n /\ (IF n - 0 > 1 THEN n - 0 ELSE 1) = n
      BY <1>1, <1>3
    <3>4. f[0] = Leaves(a) /\ g[0] = Leaves(b)
      BY <2>1, <2>2 DEF Tree
    <3> HIDE DEF n, so
    <3>5. Alike(S, f[0], g[0], n, so)
      BY <3>1, <3>2, <3>3, <3>4 DEF Alike
    <3> QED
      BY <3>3, <3>5
  <2>4. ASSUME NEW k \in 1 .. n, Same(k - 1) PROVE Same(k)
    <3> DEFINE bound == IF n - (k - 1) > 1 THEN n - (k - 1) ELSE 1
    <3>1. (IF n - k > 1 THEN n - k ELSE 1) = IF bound > 1 THEN bound - 1 ELSE 1
      BY <1>1
    <3>2. Alike(S, f[k - 1], g[k - 1], bound, so)
      BY <2>4
    <3>3. f[k] = R!Above(f[k - 1]) /\ g[k] = R!Above(g[k - 1])
      BY <1>1, <2>1, <2>2 DEF Tree
    <3> HIDE DEF bound, n, so
    <3>4. Alike(S, f[k], g[k], IF bound > 1 THEN bound - 1 ELSE 1, so)
      BY <1>1, <3>2, <3>3, AboveAlike
    <3> QED
      BY <3>1, <3>4
  <2>5. Same(n)
    <3> HIDE DEF Same
    <3>1. 0 \in 0 .. n /\ \A k \in 1 .. n : k \in 0 .. n
      BY <1>1
    <3>2. 0 \in Reach /\ \A k \in 1 .. n : k - 1 \in Reach => k \in Reach
      BY <2>3, <2>4, <3>1
    <3>3. \A k \in 0 .. n : k \in Reach
      <4> HIDE DEF Reach, n
      <4> QED
        BY <1>1, <3>2, Reached
    <3> QED
      BY <1>1, <3>3
  <2>6. (IF n - n > 1 THEN n - n ELSE 1) = 1
    BY <1>1
  <2>7. Alike(S, f[n], g[n], 1, so)
    BY <2>5, <2>6
  <2> HIDE DEF n, so
  <2>8. PICK l \in 1 .. 1, m \in Nat : Level(S, f[n], l, m) /\ Level(S, g[n], l, m)
    BY <2>7 DEF Alike
  <2>9. l = 1 /\ f[n][1] = g[n][1]
    <3>1. l = 1
      OBVIOUS
    <3>2. R!Root(a) = R!Root(b)
      OBVIOUS
    <3> QED
      BY <2>1, <2>2, <3>1, <3>2
  <2>10. f[n] = g[n]
    <3>1. /\ f[n] \in Seq(Seq(S)) /\ Len(f[n]) = 1
          /\ g[n] \in Seq(Seq(S)) /\ Len(g[n]) = 1
      BY <2>8, <2>9 DEF Level
    <3>2. \A i \in 1 .. 1 : i = 1
      OBVIOUS
    <3> QED
      BY <2>9, <3>1, <3>2, SameSequence
  <2> QED
    BY <2>7, <2>10 DEF Alike, so
<1> QED
  BY <1>2, <1>3

\* The record of request i in a run.
RecordOf(r, i, run) == r.index = i /\ (r.ok => r.run = run)

FixedBy(m, list) ==
  /\ list = [i \in R!Requests |-> list[i]]
  /\ \A i \in R!Requests : RecordOf(list[i], i, m.run)
  /\ m.requested = N /\ m.root = R!Root(list)
  /\ m.succeeded = R!Cardinality(R!Succeeded(list))

\* The records in memory are of this run; when they are added up, they are in the
\* file, and none is missing; and a manifest fixes the file that it was made with.
Filing ==
  /\ done = [i \in R!Requests |-> done[i]]
  /\ \A i \in R!Requests : done[i] # None => phase # "off" /\ RecordOf(done[i], i, runs)
  /\ phase = "adding" => records = done /\ \A i \in R!Requests : done[i] # None
  /\ totals # None => FixedBy(totals, totals.file)

LEMMA FilingInit == R!Init => Filing
BY DEF R!Init, Filing

\* A call leaves the records as they are, or puts that of its request in.
LEMMA CallFiled ==
  ASSUME Filing, NEW w \in Workers, R!Call(w)
  PROVE  Filing'
<1>1. /\ phase = "calling" /\ UNCHANGED <<runs, phase, records, totals>>
      /\ \/ done' = done
         \/ \E i, r : RecordOf(r, i, runs) /\ done' = [done EXCEPT ![i] = r]
  <2>1. CASE R!Take(w)
    BY <2>1 DEF R!Take
  <2> DEFINE i == worker[w].index
  <2>2. ASSUME R!Returns(w, R!Failed(i)) \/ R!Returns(w, R!Answered(i))
        PROVE  \E r : RecordOf(r, i, runs) /\ done' = [done EXCEPT ![i] = r]
    <3>1. RecordOf(R!Failed(i), i, runs) /\ RecordOf(R!Answered(i), i, runs)
      BY DEF RecordOf, R!Failed, R!Answered
    <3>2. \/ done' = [done EXCEPT ![i] = R!Failed(i)]
          \/ done' = [done EXCEPT ![i] = R!Answered(i)]
      BY <2>2 DEF R!Returns
    <3> QED
      BY <3>1, <3>2
  <2>3. ASSUME R!TriesAgain(w)
        PROVE  done' = done \/ R!Returns(w, R!Failed(i))
    BY <2>3 DEF R!TriesAgain
  <2>4. CASE R!Answer(w) \/ R!LoseAnswer(w) \/ R!FailCall(w) \/ R!RefuseCall(w)
    <3>1. phase = "calling" /\ UNCHANGED <<runs, phase, records, totals>>
      BY <2>4 DEF R!Answer, R!LoseAnswer, R!FailCall, R!RefuseCall, R!Calling, R!CallStep
    <3>2. R!Returns(w, R!Answered(i)) \/ R!Returns(w, R!Failed(i)) \/ R!TriesAgain(w)
      BY <2>4 DEF R!Answer, R!LoseAnswer, R!FailCall, R!RefuseCall
    <3> HIDE DEF i
    <3> QED
      BY <2>2, <2>3, <3>1, <3>2
  <2> QED
    BY <2>1, <2>4 DEF R!Call
<1>2. /\ done = [k \in R!Requests |-> done[k]]
      /\ \A k \in R!Requests : done[k] # None => RecordOf(done[k], k, runs)
      /\ totals # None => FixedBy(totals, totals.file)
  BY DEF Filing
<1>3. CASE done' = done
  BY <1>1, <1>2, <1>3 DEF Filing, FixedBy
<1>4. ASSUME NEW i, NEW r, RecordOf(r, i, runs), done' = [done EXCEPT ![i] = r]
      PROVE  Filing'
  <2>1. \A k \in R!Requests : done'[k] = IF k = i THEN r ELSE done[k]
    BY <1>2, <1>4
  <2>2. done' = [k \in R!Requests |-> done'[k]]
    BY <1>2, <1>4
  <2>3. \A k \in R!Requests : done'[k] # None => RecordOf(done'[k], k, runs)
    BY <1>2, <1>4, <2>1
  <2> QED
    BY <1>1, <1>2, <2>2, <2>3 DEF Filing, FixedBy
<1> QED
  BY <1>1, <1>3, <1>4

\* When a run ends, nothing of it is left but the files.
LEMMA EndFiled ==
  ASSUME NEW status, R!Ends(status), totals' # None => FixedBy(totals', totals'.file)
  PROVE  Filing'
<1>1. phase' = "off" /\ done' = [i \in R!Requests |-> None]
  BY DEF R!Ends
<1> QED
  BY <1>1 DEF Filing, FixedBy

LEMMA FilingStep == Filing /\ R!Next => Filing'
<1> SUFFICES ASSUME Filing, R!Next PROVE Filing'
  OBVIOUS
<1>1. totals # None => FixedBy(totals, totals.file)
  BY DEF Filing
<1>2. CASE R!Begin
  <2>1. /\ phase = "off" /\ phase' = "calling" /\ UNCHANGED <<done, totals>>
    BY <1>2 DEF R!Begin
  <2> QED
    BY <1>1, <2>1 DEF Filing, FixedBy
<1>3. CASE R!Kill
  <2>1. R!Ends("killed") /\ (totals' = totals \/ totals' = None)
    BY <1>3 DEF R!Kill
  <2>2. totals' # None => FixedBy(totals', totals'.file)
    BY <1>1, <2>1
  <2> QED
    BY <2>1, <2>2, EndFiled
<1>4. CASE R!WriteRecords
  <2>1. /\ phase = "calling" /\ \A i \in R!Requests : done[i] # None
        /\ records' = done /\ phase' = "adding" /\ UNCHANGED <<runs, done, totals>>
    BY <1>4 DEF R!WriteRecords, R!Complete
  <2> QED
    BY <1>1, <2>1 DEF Filing, FixedBy
<1>5. CASE R!AddUpFails
  <2>1. R!Ends("error") /\ totals' = totals
    BY <1>5 DEF R!AddUpFails
  <2> QED
    BY <1>1, <2>1, EndFiled
<1>6. CASE R!WriteManifest
  <2>1. /\ phase = "adding"
        /\ totals' = [run |-> runs, requested |-> N,
                      succeeded |-> R!Cardinality(R!Succeeded(done)),
                      root |-> R!Root(done), file |-> records]
    BY <1>6 DEF R!WriteManifest
  <2>2. \E status : R!Ends(status)
    BY <1>6 DEF R!WriteManifest
  <2>3. /\ records = done /\ done = [i \in R!Requests |-> done[i]]
        /\ \A i \in R!Requests : RecordOf(done[i], i, runs)
    BY <2>1 DEF Filing
  <2>4. /\ totals'.run = runs /\ totals'.requested = N /\ totals'.file = done
        /\ totals'.succeeded = R!Cardinality(R!Succeeded(done))
        /\ totals'.root = R!Root(done)
    BY <2>1, <2>3
  <2>5. FixedBy(totals', done)
    BY <2>3, <2>4 DEF FixedBy
  <2> QED
    BY <2>2, <2>4, <2>5, EndFiled
<1>7. CASE \E w \in Workers : R!Call(w)
  BY <1>7, CallFiled
<1> QED
  BY <1>2, <1>3, <1>4, <1>5, <1>6, <1>7 DEF R!Next, R!Main

LEMMA FiledIsFixed == Filing => R!ManifestFixesRecords
<1> SUFFICES ASSUME Filing, totals # None, totals.file = records
             PROVE  /\ totals.requested = Len(records)
                    /\ \A i \in DOMAIN records : records[i].index = i
                    /\ \A i \in R!Succeeded(records) : records[i].run = totals.run
                    /\ totals.succeeded = R!Cardinality(R!Succeeded(records))
                    /\ \A list \in [1 .. totals.requested
                                      -> {records[i] : i \in DOMAIN records}] :
                         R!Root(list) = totals.root => list = records
  BY DEF R!ManifestFixesRecords
<1>1. /\ records = [i \in R!Requests |-> records[i]]
      /\ \A i \in R!Requests : RecordOf(records[i], i, totals.run)
      /\ totals.requested = N /\ totals.root = R!Root(records)
      /\ totals.succeeded = R!Cardinality(R!Succeeded(records))
  BY DEF Filing, FixedBy
<1>2. R!Requests = 1 .. N /\ N \in Nat /\ DOMAIN records = 1 .. N
  BY <1>1, RefineryAssumption DEF R!Requests
<1> DEFINE S == {records[i] : i \in DOMAIN records}
<1>3. ASSUME NEW list \in [1 .. N -> S] PROVE list \in Seq(S) /\ Len(list) = N
  <2> HIDE DEF S
  <2>1. list \in Seq(S) /\ DOMAIN list = 1 .. N
    BY <1>2, <1>3
  <2>2. DOMAIN list = 1 .. Len(list) /\ Len(list) \in Nat
    BY <2>1
  <2> QED
    BY <1>2, <2>1, <2>2
<1>4. records \in [1 .. N -> S]
  BY <1>1, <1>2
<1>5. records \in Seq(S) /\ Len(records) = N
  BY <1>3, <1>4
<1>6. ASSUME NEW list \in [1 .. N -> S], R!Root(list) = totals.root PROVE list = records
  <2>1. list \in Seq(S) /\ Len(list) = N
    BY <1>3
  <2> HIDE DEF S
  <2> QED
    BY <1>1, <1>5, <1>6, <2>1, RootFixesList
<1>7. /\ \A i \in DOMAIN records : records[i].index = i
      /\ \A i \in R!Succeeded(records) : records[i].run = totals.run
  BY <1>1, <1>2 DEF RecordOf, R!Succeeded
<1> QED
  BY <1>1, <1>5, <1>6, <1>7

(* A manifest of the Refinery benchmark that carries the hash of the records *)
(* file fixes the records (main and merkle_root of                           *)
(* eden_refinery_benchmark.py): for any number of requests, threads and      *)
(* attempts, whatever runs were killed between the two files, they are those *)
(* of one run, one per request in their order, and no other list of them has *)
(* this root.                                                                *)
THEOREM ManifestsFixRecords == SpecExperiments => []ManifestFixesRecords
<1> DEFINE I == program = "refinery" => Filing
<1>1. InitExperiments => I
  BY FilingInit DEF InitExperiments, InitFairAB, InitHandset, InitRefinery, InitReuse
<1>2. I /\ [NextExperiments]_allVars => I'
  <2> SUFFICES ASSUME I, [NextExperiments]_allVars, program' = "refinery"
               PROVE  Filing'
    OBVIOUS
  <2>1. CASE UNCHANGED allVars
    <3>1. UNCHANGED <<program, done, runs, phase, records, totals>>
      BY <2>1 DEF allVars, vars, ofRefinery, handler
    <3> QED
      BY <3>1 DEF Filing, FixedBy
  <2>2. CASE RefineryAlone /\ R!Next
    BY <2>2, FilingStep DEF RefineryAlone, Is
  <2> QED
    BY <2>1, <2>2 DEF NextExperiments, FairABAlone, HandsetAlone, RefineryAlone,
       ReuseAlone, Is
<1>3. I => ManifestFixesRecords
  BY FiledIsFixed DEF ManifestFixesRecords
<1> HIDE DEF I
<1> QED
  BY <1>1, <1>2, <1>3, PTL DEF SpecExperiments
=============================================================================
