------------------------------- MODULE FairAB -------------------------------
(***************************************************************************)
(* AZURE-FAIR-AB-001                                                       *)
(* (src/experiments/azure-fair-ab-001/azure_fair_ab.py): a harness posts   *)
(* the same workload to two arms of one local service.  Both arms look the *)
(* request up in a cache of their own and call the provider on a miss; the *)
(* EDEN arm then passes through EDEN Core.  Every answer is logged by the  *)
(* service and recorded by the harness, and a manifest commits to the log  *)
(* and to the records of a run that got to its end.                        *)
(*                                                                         *)
(* The harness posts one request at a time, so one handler runs at a time; *)
(* but a request that times out ends the run while its handler works on    *)
(* until the process is gone.                                              *)
(*                                                                         *)
(* Abstractions.  A cache key is the task.  Each provider call gives a     *)
(* result of its own, named by its position among the calls of the run.    *)
(* A file that is hashed stands in the manifest as its content.            *)
(***************************************************************************)
EXTENDS Naturals, Sequences, FiniteSets, SequencesExt

CONSTANTS
  Tasks,        \* unique tasks of the workload
  MaxRequests,  \* bound: requests per arm and run
  MaxRuns,      \* bound: runs into the same output directory
  None          \* no result, no file, no request

Arms == {"control", "eden"}

ASSUME TasksAssumption ==
  IsFiniteSet(Tasks) /\ Tasks # {} /\ None \notin Tasks
ASSUME BoundsAssumption ==
  /\ MaxRequests \in Nat /\ MaxRuns \in Nat
  /\ Cardinality(Tasks) <= MaxRequests

Results == 1 .. 2 * MaxRequests

Records ==
  [arm : Arms, task : Tasks, result : Results, called : BOOLEAN]

ASSUME NoneAssumption == None \notin Results \union Records

VARIABLES
  phase,     \* of the harness: "off", "run", "aborted", "save", "manifest"
  work,      \* tasks still to be posted, the current one first
  arms,      \* arms that have not had the current task yet
  records,   \* what the harness has received
  pc,        \* what the handler does next
  request,   \* the arm and task it serves
  result,    \* the result it has
  called,    \* it has called the provider
  caches,    \* per arm and task, the result in the cache
  calls,     \* history: arm and task of every provider call of this run
  events,    \* file service-events.jsonl
  saved,     \* files control-records.jsonl and eden-records.jsonl
  manifest,  \* file manifest.json
  runs

handler == <<pc, request, result, called>>
disk == <<events, saved, manifest>>
vars == <<phase, work, arms, records, handler, caches, calls, disk, runs>>

EmptyCaches == [a \in Arms |-> [t \in Tasks |-> None]]
NoRecords == [a \in Arms |-> <<>>]

NoHandler ==
  pc = "idle" /\ request = None /\ result = None /\ called = FALSE

Init ==
  /\ phase = "off"
  /\ work = <<>>
  /\ arms = {}
  /\ records = NoRecords
  /\ NoHandler
  /\ caches = EmptyCaches
  /\ calls = <<>>
  /\ events = <<>>
  /\ saved = [a \in Arms |-> None]
  /\ manifest = None
  /\ runs = 0

-----------------------------------------------------------------------------
(* The harness (run)                                                       *)

\* make_workload: every task once, then repetitions, shuffled.
Workloads ==
  {w \in [1 .. MaxRequests -> Tasks] : ToSet(w) = Tasks}

\* Mutation: the log of an earlier run is kept.
BeginOverOldLog ==
  /\ phase = "off"
  /\ runs < MaxRuns
  /\ runs' = runs + 1
  /\ phase' = "run"
  /\ work' \in Workloads
  /\ arms' = Arms
  /\ records' = NoRecords
  /\ caches' = EmptyCaches
  /\ calls' = <<>>
  /\ UNCHANGED <<handler, disk>>

\* The log of an earlier run is removed; its records and manifest stay.
Begin ==
  /\ phase = "off"
  /\ runs < MaxRuns
  /\ runs' = runs + 1
  /\ phase' = "run"
  /\ work' \in Workloads
  /\ arms' = Arms
  /\ records' = NoRecords
  /\ caches' = EmptyCaches
  /\ calls' = <<>>
  /\ events' = <<>>
  /\ UNCHANGED <<handler, saved, manifest>>

\* The arms take turns in random order.
Post ==
  /\ phase = "run"
  /\ pc = "idle"
  /\ work # <<>>
  /\ \E a \in arms :
       /\ request' = [arm |-> a, task |-> Head(work)]
       /\ IF arms = {a} THEN work' = Tail(work) /\ arms' = Arms
                        ELSE arms' = arms \ {a} /\ UNCHANGED work
  /\ pc' = "lookup"
  /\ UNCHANGED <<phase, records, result, called, caches, calls, disk, runs>>

\* post_json gives up; the service is shut down, the handler is not.
TimeOut ==
  /\ phase = "run"
  /\ pc # "idle"
  /\ phase' = "aborted"
  /\ UNCHANGED <<work, arms, records, handler, caches, calls, disk, runs>>

WriteRecords ==
  /\ \/ /\ phase = "run" /\ pc = "idle" /\ work = <<>>
        /\ saved' = [saved EXCEPT !["control"] = records["control"]]
        /\ phase' = "save"
     \/ /\ phase = "save"
        /\ saved' = [saved EXCEPT !["eden"] = records["eden"]]
        /\ phase' = "manifest"
  /\ UNCHANGED <<work, arms, records, handler, caches, calls, events, manifest,
                 runs>>

\* The three files are read back, hashed and committed to.
WriteManifest ==
  /\ phase = "manifest"
  /\ manifest' = [events |-> events, saved |-> saved]
  /\ phase' = "off"
  /\ UNCHANGED <<work, arms, records, handler, caches, calls, events, saved,
                 runs>>

\* The process ends, its handler with it: after an exception or by a signal.
Exit ==
  /\ phase # "off"
  /\ phase' = "off"
  /\ pc' = "idle" /\ request' = None /\ result' = None /\ called' = FALSE
  /\ UNCHANGED <<work, arms, records, caches, calls, disk, runs>>

-----------------------------------------------------------------------------
(* The service (evaluate)                                                  *)

Cached == caches[request.arm][request.task]

Lookup ==
  /\ pc = "lookup"
  /\ result' = Cached
  /\ called' = (Cached = None)
  /\ pc' = IF Cached = None THEN "call"
           ELSE IF request.arm = "eden" THEN "integrate" ELSE "log"
  /\ UNCHANGED <<phase, work, arms, records, request, caches, calls, disk,
                 runs>>

CallProvider ==
  /\ pc = "call"
  /\ calls' = Append(calls, request)
  /\ result' = Len(calls')
  /\ pc' = "store"
  /\ UNCHANGED <<phase, work, arms, records, request, called, caches, disk,
                 runs>>

\* Mutation: one cache for both arms.
StoreForBoth ==
  /\ pc = "store"
  /\ caches' = [a \in Arms |-> [caches[a] EXCEPT ![request.task] = result]]
  /\ pc' = IF request.arm = "eden" THEN "integrate" ELSE "log"
  /\ UNCHANGED <<phase, work, arms, records, request, result, called, calls,
                 disk, runs>>

Store ==
  /\ pc = "store"
  /\ caches' = [caches EXCEPT ![request.arm][request.task] = result]
  /\ pc' = IF request.arm = "eden" THEN "integrate" ELSE "log"
  /\ UNCHANGED <<phase, work, arms, records, request, result, called, calls,
                 disk, runs>>

\* The EDEN Core path (module EdenCore) has returned.
Integrate ==
  /\ pc = "integrate"
  /\ pc' = "log"
  /\ UNCHANGED <<phase, work, arms, records, request, result, called, caches,
                 calls, disk, runs>>

Record ==
  [arm |-> request.arm, task |-> request.task, result |-> result,
   called |-> called]

Log ==
  /\ pc = "log"
  /\ events' = Append(events, Record)
  /\ pc' = "reply"
  /\ UNCHANGED <<phase, work, arms, records, request, result, called, caches,
                 calls, saved, manifest, runs>>

\* The answer reaches the harness if it still waits for it.
Reply ==
  /\ pc = "reply"
  /\ records' = IF phase = "run"
                  THEN [records EXCEPT ![request.arm] = Append(@, Record)]
                  ELSE records
  /\ pc' = "idle" /\ request' = None /\ result' = None /\ called' = FALSE
  /\ UNCHANGED <<phase, work, arms, caches, calls, disk, runs>>

\* Mutation: the harness carries on after an error status.
FailAndContinue ==
  /\ pc \in {"call", "integrate", "log"}
  /\ pc' = "idle" /\ request' = None /\ result' = None /\ called' = FALSE
  /\ UNCHANGED <<phase, work, arms, records, caches, calls, disk, runs>>

\* The provider, EDEN Core or the log raises: status 400, which post_json raises again
\* and which ends the run.
Fail ==
  /\ pc \in {"call", "integrate", "log"}
  /\ phase' = IF phase = "run" THEN "aborted" ELSE phase
  /\ pc' = "idle" /\ request' = None /\ result' = None /\ called' = FALSE
  /\ UNCHANGED <<work, arms, records, caches, calls, disk, runs>>

-----------------------------------------------------------------------------

HandlerStep ==
  Lookup \/ CallProvider \/ Store \/ Integrate \/ Log \/ Reply \/ Fail

HarnessStep == Post \/ WriteRecords \/ WriteManifest

Next == Begin \/ HarnessStep \/ TimeOut \/ Exit \/ HandlerStep

Spec == Init /\ [][Next]_vars

-----------------------------------------------------------------------------
(* Safety                                                                  *)

Called(log) == {i \in DOMAIN log : log[i].called}

\* Whatever the order of tasks and arms, a run that gets to its manifest has
\* called the provider once per task and arm ("avoid exactly the same Azure
\* calls", README.md:49), and both arms have had the same tasks in the same
\* order.
ArmsAlike ==
  manifest # None =>
    LET control == manifest.saved["control"]
        eden == manifest.saved["eden"]
    IN  /\ Len(control) = MaxRequests /\ Len(eden) = MaxRequests
        /\ \A i \in 1 .. MaxRequests : control[i].task = eden[i].task
        /\ Cardinality(Called(control)) = Cardinality(Tasks)
        /\ Cardinality(Called(eden)) = Cardinality(Tasks)

\* No provider call goes missing from the report: when a run ends, every call
\* it made is in exactly one record, so the token sums are complete.
CallsReported ==
  phase = "manifest" =>
    \A c \in DOMAIN calls :
      LET log == saved[calls[c].arm] IN
      Cardinality({i \in Called(log) : log[i].result = c}) = 1

\* The log that a manifest commits to holds exactly the records it commits to,
\* those of each arm in their order: nothing of an earlier run, of a handler
\* that outlived its request or of a request that failed.
LogMatchesRecords ==
  manifest # None =>
    \A a \in Arms :
      LET log == manifest.events
          own == {k \in DOMAIN log : log[k].arm = a}
      IN  /\ Len(manifest.saved[a]) = Cardinality(own)
          /\ \A k \in own :
               manifest.saved[a][Cardinality({m \in own : m <= k})] = log[k]

=============================================================================
