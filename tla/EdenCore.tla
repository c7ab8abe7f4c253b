------------------------------ MODULE EdenCore ------------------------------
(***************************************************************************)
(* The EDEN Core process (src/eden_core/core.py): a threading HTTP server  *)
(* whose handlers run components, count what they did and persist the      *)
(* counters to state.json after every count.                               *)
(*                                                                         *)
(* A count is a read and a write of the counter table under one lock       *)
(* (_inc, verify_marble).  Persisting is four steps outside the lock: copy *)
(* the counters, open state.tmp for writing (which truncates it), write    *)
(* and close it, rename it to state.json.  All handlers use the same       *)
(* state.tmp, and the main thread persists as well, at start and at the    *)
(* end.                                                                    *)
(*                                                                         *)
(* A component either returns or raises; what it computes is modelled      *)
(* elsewhere.  A file is its content; an open file follows the rename of   *)
(* its name, so a write can land in state.json itself.                     *)
(***************************************************************************)
EXTENDS Naturals, Sequences, FiniteSets

CONSTANTS
  Threads,      \* handler threads
  Main,         \* the thread that runs serve
  Endpoints,    \* the endpoints that are called
  ScansFail,    \* TRUE: evidence_summary may raise (an artifact vanishes)
  Interrupts,   \* TRUE: the process may be interrupted (a foreground serve)
  MaxRequests,  \* bound: requests received
  Absent,       \* content of a file that does not exist
  Empty,        \* of a file opened for writing and not yet written
  Torn          \* of a file where a text was written over a longer one

Counters ==
  {"marbles_minted", "marbles_verified", "marbles_void",
   "chrysalis_evaluations", "chrononav_schedules", "refinery_envelopes",
   "integrated_runs"}

\* The counts an endpoint makes, in order.
Program ==
  [mint      |-> <<"marbles_minted">>,
   verify    |-> <<"marbles_verified">>,
   evaluate  |-> <<"chrysalis_evaluations">>,
   schedule  |-> <<"chrononav_schedules">>,
   envelope  |-> <<"refinery_envelopes">>,
   run       |-> <<"refinery_envelopes", "chrononav_schedules",
                   "chrysalis_evaluations", "marbles_minted",
                   "marbles_verified", "integrated_runs">>,
   telemetry |-> <<>>]

None == "none"   \* no holder of the lock, no open file

ASSUME ThreadsAssumption ==
  IsFiniteSet(Threads) /\ Main \notin Threads
    /\ None \notin Threads \union {Main}
ASSUME EndpointsAssumption == Endpoints \subseteq DOMAIN Program
ASSUME FaultsAssumption == ScansFail \in BOOLEAN /\ Interrupts \in BOOLEAN
ASSUME BoundsAssumption == MaxRequests \in Nat

Actors == Threads \union {Main}

Snapshots == [Counters -> Nat]
Zero == [c \in Counters |-> 0]

Contents == Snapshots \union {Absent, Empty, Torn}

ASSUME ContentsAssumption ==
  /\ {Absent, Empty, Torn} \intersect Snapshots = {}
  /\ Absent # Empty /\ Absent # Torn /\ Empty # Torn

VARIABLES
  phase,     \* of the process: "down", "boot", "serving", "closing"
  counters,  \* _counters
  lock,      \* holder of _lock, or None
  pc,        \* what each thread does next
  request,   \* endpoint a handler serves
  done,      \* counts a handler has made for its request
  loaded,    \* counter table as read inside the lock
  snap,      \* copy of the counters a thread persists or reports
  fd,        \* where a thread's open file is now: None, "tmp", "state", "orphan"
  reply,     \* status of a handler's last answer, 0 for none
  tmp,       \* state.tmp
  state,     \* state.json
  effects,   \* counts made in this life of the process (history)
  received,  \* requests received
  unsaved    \* requests refused after a count since state.json was last
             \* replaced (history)

memory == <<counters, lock, loaded, effects>>
storage == <<fd, tmp, state>>
vars == <<phase, memory, pc, request, done, snap, reply, storage, received,
          unsaved>>

TypeOK ==
  /\ phase \in {"down", "boot", "serving", "closing"}
  /\ counters \in Snapshots
  /\ lock \in Actors \union {None}
  /\ pc \in [Actors -> {"idle", "stage", "store", "copy", "open", "write",
                        "replace"}]
  /\ request \in [Threads -> DOMAIN Program]
  /\ done \in [Threads -> 0 .. 6]
  /\ loaded \in [Threads -> Snapshots]
  /\ snap \in [Actors -> Snapshots]
  /\ fd \in [Actors -> {None, "tmp", "state", "orphan"}]
  /\ reply \in [Threads -> {0, 200, 400}]
  /\ tmp \in Contents
  /\ state \in Contents
  /\ effects \in Snapshots
  /\ received \in 0 .. MaxRequests
  /\ unsaved \in Nat

\* What the threads of a process that is not running have: nothing.
Resting(label) == [a \in Actors |-> label]
Unused(value) == [t \in Threads |-> value]

Init ==
  /\ phase = "down"
  /\ counters = Zero /\ effects = Zero /\ lock = None
  /\ pc = Resting("idle") /\ fd = Resting(None) /\ snap = Resting(Zero)
  /\ request = Unused("telemetry") /\ done = Unused(0) /\ reply = Unused(0)
  /\ loaded = Unused(Zero)
  /\ tmp = Absent
  /\ state = Absent
  /\ received = 0
  /\ unsaved = 0

-----------------------------------------------------------------------------
(* Persisting (persist_state, telemetry), by any thread.                   *)

Goto(a, label) == pc' = [pc EXCEPT ![a] = label]

Stages(t) == Program[request[t]]

\* telemetry: the copy is made under the lock; the report is then built.
Copy(a) ==
  /\ pc[a] = "copy"
  /\ lock = None
  /\ snap' = [snap EXCEPT ![a] = counters]
  /\ UNCHANGED <<phase, memory, request, done, storage, received, unsaved>>
  /\ IF a \in Threads /\ request[a] = "telemetry"
       THEN Goto(a, "idle") /\ reply' = [reply EXCEPT ![a] = 200]
       ELSE Goto(a, "open") /\ UNCHANGED reply

\* write_text, first half: open for writing creates or truncates state.tmp.
Open(a) ==
  /\ pc[a] = "open"
  /\ tmp' = Empty
  /\ fd' = [fd EXCEPT ![a] = "tmp"]
  /\ Goto(a, "write")
  /\ UNCHANGED <<phase, memory, request, done, snap, reply, state, received,
                 unsaved>>

\* A write at the start of a file that is no longer empty leaves the rest of
\* a longer text behind it.
Written(content, s) == IF content = Empty THEN {s} ELSE {s, Torn}

\* write_text, second half: one write to wherever the open file is by now.
Write(a) ==
  /\ pc[a] = "write"
  /\ IF fd[a] = "tmp" THEN tmp' \in Written(tmp, snap[a]) ELSE UNCHANGED tmp
  /\ IF fd[a] = "state" THEN state' \in Written(state, snap[a])
                        ELSE UNCHANGED state
  /\ fd' = [fd EXCEPT ![a] = None]
  /\ Goto(a, "replace")
  /\ UNCHANGED <<phase, memory, request, done, snap, reply, received, unsaved>>

\* Open files keep their file when its name changes.
Renamed(where) ==
  CASE where = "tmp" -> "state"
    [] where = "state" -> "orphan"
    [] OTHER -> where

Rename ==
  /\ tmp # Absent
  /\ state' = tmp
  /\ tmp' = Absent
  /\ fd' = [b \in Actors |-> Renamed(fd[b])]

-----------------------------------------------------------------------------
(* Handlers (do_POST, do_GET and the methods they call).                   *)

Receive(t, e) ==
  /\ phase = "serving"
  /\ pc[t] = "idle"
  /\ received < MaxRequests
  /\ received' = received + 1
  /\ request' = [request EXCEPT ![t] = e]
  /\ done' = [done EXCEPT ![t] = 0]
  /\ reply' = [reply EXCEPT ![t] = 0]
  /\ Goto(t, IF e = "telemetry" THEN "copy" ELSE "stage")
  /\ UNCHANGED <<phase, memory, snap, storage, unsaved>>

\* An exception ends the request with status 400; do_GET has no such clause
\* and sends nothing.
Raise(t) ==
  /\ reply' = [reply EXCEPT ![t] = IF request[t] = "telemetry" THEN 0 ELSE 400]
  /\ Goto(t, "idle")

\* A component rejects its input before anything is counted.  What the run
\* endpoint verifies it has just minted, and its last count has no input.
ComponentRaises(t) ==
  /\ pc[t] = "stage"
  /\ request[t] = "run" => done[t] < 4
  /\ Raise(t)
  /\ UNCHANGED <<phase, memory, request, done, snap, storage, received,
                 unsaved>>

\* Mutation: the counters are read without the lock.
LoadUnlocked(t) ==
  /\ pc[t] = "stage"
  /\ lock' = t
  /\ loaded' = [loaded EXCEPT ![t] = counters]
  /\ Goto(t, "store")
  /\ UNCHANGED <<phase, counters, effects, request, done, snap, reply, storage,
                 received, unsaved>>

\* The component has returned; the counter table is read under the lock.
Load(t) ==
  /\ pc[t] = "stage"
  /\ lock = None
  /\ lock' = t
  /\ loaded' = [loaded EXCEPT ![t] = counters]
  /\ Goto(t, "store")
  /\ UNCHANGED <<phase, counters, effects, request, done, snap, reply, storage,
                 received, unsaved>>

\* Mutation: a void marble is not counted as verified.
CountedApart(t) ==
  LET c == Stages(t)[done[t] + 1] IN
  IF c = "marbles_verified" /\ request[t] = "verify"
    THEN {{c}, {"marbles_void"}}
    ELSE {{c}}

\* The counters the current stage adds to.  A marble that fails verification
\* counts as void as well; one minted by the same run does not fail.
Counted(t) ==
  LET c == Stages(t)[done[t] + 1] IN
  IF c = "marbles_verified" /\ request[t] = "verify"
    THEN {{c}, {c, "marbles_void"}}
    ELSE {{c}}

Bump(table, cs) == [c \in Counters |-> table[c] + IF c \in cs THEN 1 ELSE 0]

\* Mutation: only the last count of a request is persisted, when it is not the
\* only one.
StoreThenPersistOnce(t) ==
  /\ pc[t] = "store"
  /\ \E cs \in Counted(t) :
       /\ counters' = [c \in Counters |->
                         IF c \in cs THEN loaded[t][c] + 1 ELSE counters[c]]
       /\ effects' = Bump(effects, cs)
  /\ lock' = None
  /\ done' = [done EXCEPT ![t] = @ + 1]
  /\ loaded' = [loaded EXCEPT ![t] = Zero]
  /\ Goto(t, IF done[t] + 1 < Len(Stages(t)) THEN "stage" ELSE "copy")
  /\ UNCHANGED <<phase, request, snap, reply, storage, received, unsaved>>

\* Mutation: the lock is not released.
StoreHoldingLock(t) ==
  /\ pc[t] = "store"
  /\ \E cs \in Counted(t) :
       /\ counters' = [c \in Counters |->
                         IF c \in cs THEN loaded[t][c] + 1 ELSE counters[c]]
       /\ effects' = Bump(effects, cs)
  /\ done' = [done EXCEPT ![t] = @ + 1]
  /\ loaded' = [loaded EXCEPT ![t] = Zero]
  /\ Goto(t, "copy")
  /\ UNCHANGED <<phase, lock, request, snap, reply, storage, received,
                 unsaved>>

\* ... and written back before the lock is released.
Store(t) ==
  /\ pc[t] = "store"
  /\ \E cs \in Counted(t) :
       /\ counters' = [c \in Counters |->
                         IF c \in cs THEN loaded[t][c] + 1 ELSE counters[c]]
       /\ effects' = Bump(effects, cs)
  /\ lock' = None
  /\ done' = [done EXCEPT ![t] = @ + 1]
  /\ loaded' = [loaded EXCEPT ![t] = Zero]
  /\ Goto(t, "copy")
  /\ UNCHANGED <<phase, request, snap, reply, storage, received, unsaved>>

\* evidence_summary meets an artifact that is gone.
ScanRaises(t) ==
  /\ ScansFail
  /\ \/ pc[t] = "open"
     \/ pc[t] = "copy" /\ request[t] = "telemetry" /\ lock = None
  /\ Raise(t)
  /\ unsaved' = unsaved + IF done[t] > 0 THEN 1 ELSE 0
  /\ snap' = [snap EXCEPT ![t] = Zero]
  /\ UNCHANGED <<phase, memory, request, done, storage, received>>

\* The counters are persisted: next stage, or the answer.
Publish(t) ==
  /\ pc[t] = "replace"
  /\ Rename
  /\ snap' = [snap EXCEPT ![t] = Zero]
  /\ IF done[t] < Len(Stages(t))
       THEN Goto(t, "stage") /\ UNCHANGED reply
       ELSE Goto(t, "idle") /\ reply' = [reply EXCEPT ![t] = 200]
  /\ unsaved' = 0
  /\ UNCHANGED <<phase, memory, request, done, received>>

\* Another thread has renamed state.tmp in the meantime: FileNotFoundError.
PublishRaises(t) ==
  /\ pc[t] = "replace"
  /\ tmp = Absent
  /\ Raise(t)
  /\ unsaved' = unsaved + 1
  /\ snap' = [snap EXCEPT ![t] = Zero]
  /\ UNCHANGED <<phase, memory, request, done, storage, received>>

-----------------------------------------------------------------------------
(* The main thread (serve) and the life of the process.                    *)

\* Mutation: the server starts without persisting the fresh counters.
BootUnpersisted ==
  /\ phase = "down"
  /\ phase' = "serving"
  /\ UNCHANGED <<memory, pc, request, done, snap, reply, storage, received,
                 unsaved>>

\* EdenCore.__init__: the counters start at zero, whatever state.json says.
Boot ==
  /\ phase = "down"
  /\ phase' = "boot"
  /\ Goto(Main, "copy")
  /\ UNCHANGED <<memory, request, done, snap, reply, storage, received,
                 unsaved>>

\* Interrupt: serve_forever returns; handlers are daemon threads and run on
\* while the main thread persists once more.
Interrupt ==
  /\ Interrupts
  /\ phase = "serving"
  /\ phase' = "closing"
  /\ Goto(Main, "copy")
  /\ UNCHANGED <<memory, request, done, snap, reply, storage, received,
                 unsaved>>

\* The threads and the memory of the process are gone.
Ends ==
  /\ phase' = "down"
  /\ counters' = Zero /\ effects' = Zero /\ lock' = None
  /\ pc' = Resting("idle") /\ fd' = Resting(None) /\ snap' = Resting(Zero)
  /\ request' = Unused("telemetry") /\ done' = Unused(0) /\ reply' = Unused(0)
  /\ loaded' = Unused(Zero)
  /\ unsaved' = 0

MainPublish ==
  /\ pc[Main] = "replace"
  /\ phase = "boot"
  /\ Rename
  /\ phase' = "serving"
  /\ Goto(Main, "idle")
  /\ snap' = [snap EXCEPT ![Main] = Zero]
  /\ unsaved' = 0
  /\ UNCHANGED <<memory, request, done, reply, received>>

MainExits ==
  /\ pc[Main] = "replace"
  /\ phase = "closing"
  /\ Ends
  /\ IF tmp = Absent
       THEN UNCHANGED <<tmp, state>>
       ELSE tmp' = Absent /\ state' = tmp
  /\ UNCHANGED received

\* SIGTERM, the launcher's stop, has its default effect; a crash and an
\* exception in the main thread end the process as well.
Kill ==
  /\ phase # "down"
  /\ Ends
  /\ UNCHANGED <<tmp, state, received>>

-----------------------------------------------------------------------------

HandlerStep(t) ==
  \/ ComponentRaises(t) \/ Load(t) \/ Store(t) \/ ScanRaises(t)
  \/ Copy(t) \/ Open(t) \/ Write(t)
  \/ Publish(t) \/ PublishRaises(t)

MainStep ==
  Copy(Main) \/ Open(Main) \/ Write(Main) \/ MainPublish \/ MainExits

Next ==
  \/ \E t \in Threads :
       HandlerStep(t) \/ \E e \in Endpoints : Receive(t, e)
  \/ MainStep
  \/ Boot \/ Interrupt \/ Kill

Spec == Init /\ [][Next]_vars

\* Every thread runs on; a lock that is released again and again is acquired
\* by a waiting thread once the others have no more requests.
FairSpec ==
  /\ Spec
  /\ \A t \in Threads : WF_vars(HandlerStep(t))
  /\ WF_vars(MainStep)

-----------------------------------------------------------------------------
(* Safety                                                                  *)

\* Counter tables that a sequence of whole requests and one partial run per
\* thread can produce: no more void marbles than verified ones, no more
\* integrated runs than counts of any stage of a run.
Coherent(table) ==
  /\ table["marbles_void"] <= table["marbles_verified"]
  /\ \A i \in 1 .. 5 : table["integrated_runs"] <= table[Program.run[i]]

\* That holds of the counters in memory, of every report in preparation and
\* of every complete file, whichever threads overlap.
CountersCoherent ==
  /\ Coherent(counters)
  /\ \A a \in Actors : Coherent(snap[a])
  /\ \A content \in {tmp, state} :
       content \in {Absent, Empty, Torn} \/ Coherent(content)

\* No count is lost or made twice: concurrent increments are serialised by
\* the lock, and persisting never writes the counters.
NoLostCount == counters = effects

\* With one request at a time a server that serves has a whole state.json,
\* whatever vanishes, after a kill at any step and over an old file.  Between
\* two stages or requests it lags by no count but those of requests that were
\* refused because a scan failed after the count, at most one each, and no
\* longer than until the file is next replaced.  It is not claimed of a server
\* that has been interrupted: its main thread and a handler that still runs
\* share state.tmp, and the file they leave may be unreadable.
StateCurrent ==
  phase = "serving" =>
    /\ state \in Snapshots
    /\ (\A t \in Threads : pc[t] \in {"idle", "stage"})
         => \A c \in Counters :
              state[c] <= counters[c] /\ counters[c] <= state[c] + unsaved

\* Stated of the program by test_launcher_integration.py:133-134: once the
\* mint endpoint has answered, state.json can be read and has the mint.
MintIsPersisted ==
  \A t \in Threads :
    phase = "serving" /\ request[t] = "mint" /\ reply[t] = 200
      => /\ state \notin {Absent, Empty, Torn}
         /\ state["marbles_minted"] >= 1

-----------------------------------------------------------------------------
(* Refinement                                                              *)

\* Counters that one count adds to.
Counts ==
  {{c} : c \in Counters \ {"marbles_void"}}
    \union {{"marbles_verified", "marbles_void"}}

Table ==
  INSTANCE CounterTable WITH
    Missing <- Absent,
    Unreadable <- {Empty, Torn},
    serving <- phase \in {"serving", "closing"},
    table <- counters,
    file <- state

\* To a client and to whoever reads state.json, the threads, their lock and
\* state.tmp do not exist: there is one table that is counted in, and a file
\* that starts at zero with every life of the process and is never ahead.
ImplementsTable == Table!Spec

-----------------------------------------------------------------------------
(* Liveness                                                                *)

\* Every request is answered unless the process ends: no thread waits for the
\* lock for ever, in particular not for one it holds itself.
RequestsAnswered ==
  \A t \in Threads : pc[t] # "idle" ~> pc[t] = "idle"
=============================================================================
