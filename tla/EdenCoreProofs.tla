--------------------------- MODULE EdenCoreProofs ---------------------------
(***************************************************************************)
(* Proofs about EdenCore, for every finite set of handler threads, every   *)
(* set of endpoints and every number of requests.                          *)
(*                                                                         *)
(* CountersCoherent is not inductive: that runs never outnumber the counts *)
(* of a stage follows from how many runs are between that stage and their  *)
(* last count.  IInv adds those, the owner of the lock, and the fact that  *)
(* copies and files only ever lag behind the counters of their own life.   *)
(*                                                                         *)
(* That the core implements CounterTable follows from IInv and from        *)
(* Booting, which says what the main thread persists before there are      *)
(* handlers.                                                               *)
(*                                                                         *)
(* What the server promises when it serves one request at a time is proved *)
(* in the last section: there the one writer of state.tmp has it to itself *)
(* from its copy to its rename, which OneWriter adds to IInv, and what the *)
(* file lacks is accounted for by LagAccounted.                            *)
(***************************************************************************)
EXTENDS EdenCore, FiniteSetTheorems, TLAPS

\* The lock is held exactly while a handler has read the table and not yet
\* written it back, and nobody writes in between.
LockOwner ==
  /\ \A t \in Threads : pc[t] = "store" <=> lock = t
  /\ \A t \in Threads : pc[t] = "store" => loaded[t] = counters
  /\ pc[Main] \notin {"stage", "store"}
  /\ lock # Main

\* A handler about to count has a count left to make.
WithinProgram ==
  \A t \in Threads :
    pc[t] \in {"stage", "store"} => done[t] < Len(Program[request[t]])

\* The runs that have made their i-th count and not yet their last.
Past(i) ==
  {t \in Threads : /\ request[t] = "run"
                   /\ pc[t] # "idle"
                   /\ i <= done[t] /\ done[t] < 6}

RunsAccounted ==
  \A i \in 1 .. 5 :
    counters["integrated_runs"] + Cardinality(Past(i))
      <= counters[Program.run[i]]

VoidsAccounted == counters["marbles_void"] <= counters["marbles_verified"]

CopiesCoherent ==
  /\ \A a \in Actors : Coherent(snap[a])
  /\ \A content \in {tmp, state} :
       content \in {Absent, Empty, Torn} \/ Coherent(content)

Lags(content) ==
  \/ content \in {Absent, Empty, Torn}
  \/ \A c \in Counters : content[c] <= counters[c]

CopiesLag ==
  /\ \A a \in Actors : \A c \in Counters : snap[a][c] <= counters[c]
  /\ phase = "down" => counters = Zero /\ \A a \in Actors : pc[a] = "idle"
  /\ phase = "boot" =>
       /\ \A t \in Threads : pc[t] = "idle"
       /\ pc[Main] \in {"copy", "open", "write", "replace"}
  /\ phase = "boot" /\ pc[Main] \in {"write", "replace"} => Lags(tmp)
  /\ phase \in {"serving", "closing"} => Lags(tmp) /\ Lags(state)

IInv ==
  /\ TypeOK
  /\ LockOwner
  /\ WithinProgram
  /\ RunsAccounted
  /\ VoidsAccounted
  /\ NoLostCount
  /\ CopiesCoherent
  /\ CopiesLag

\* One request at a time.
OneHandler == \A t, u \in Threads : t = u

\* Until it is interrupted a server has one writer of state.tmp at a time: how
\* far that one has got, and that nobody has changed its copy or the file.
OneWriter ==
  phase # "closing" =>
    /\ phase = "serving" => pc[Main] = "idle"
    /\ \A a \in Actors :
         /\ pc[a] \in {"open", "write", "replace"} => snap[a] = counters
         /\ pc[a] = "write" => fd[a] = "tmp" /\ tmp = Empty
         /\ pc[a] # "write" => fd[a] = None
         /\ pc[a] = "replace" => tmp = snap[a]

\* A handler that persists has made a count for its request.
Persisting(t) ==
  \/ pc[t] \in {"open", "write", "replace"}
  \/ pc[t] = "copy" /\ request[t] # "telemetry"

CountedBefore == \A t \in Threads : Persisting(t) => done[t] > 0

\* state.json is whole, and what it lacks is the count that is being persisted
\* and those of the requests that were refused since it was last replaced.
Pending == IF \E t \in Threads : Persisting(t) THEN 1 ELSE 0

LagAccounted ==
  phase = "serving" =>
    /\ state \in Snapshots
    /\ \A c \in Counters : counters[c] <= state[c] + unsaved + Pending

-----------------------------------------------------------------------------

\* What the endpoints count.
LEMMA ProgramFacts ==
  ASSUME NEW e \in DOMAIN Program
  PROVE  /\ Len(Program[e]) \in 0 .. 6
         /\ \A i \in 1 .. Len(Program[e]) :
              /\ Program[e][i] \in Counters
              /\ Program[e][i] # "marbles_void"
              /\ e # "run" => Program[e][i] # "integrated_runs"
<1>1. e \in {"mint", "verify", "evaluate", "schedule", "envelope", "run",
            "telemetry"}
  BY DEF Program
<1>2. CASE e = "mint"
  BY <1>2 DEF Program, Counters
<1>3. CASE e = "verify"
  BY <1>3 DEF Program, Counters
<1>4. CASE e = "evaluate"
  BY <1>4 DEF Program, Counters
<1>5. CASE e = "schedule"
  BY <1>5 DEF Program, Counters
<1>6. CASE e = "envelope"
  BY <1>6 DEF Program, Counters
<1>7. CASE e = "run"
  BY <1>7 DEF Program, Counters
<1>8. CASE e = "telemetry"
  BY <1>8 DEF Program, Counters
<1> QED
  BY <1>1, <1>2, <1>3, <1>4, <1>5, <1>6, <1>7, <1>8

LEMMA RunFacts ==
  /\ {"run", "telemetry"} \subseteq DOMAIN Program
  /\ Len(Program["telemetry"]) = 0
  /\ Len(Program["run"]) = 6
  /\ Program["run"][6] = "integrated_runs"
  /\ \A i \in 1 .. 5 : Program["run"][i] \in Counters \ {"integrated_runs"}
  /\ \A i, j \in 1 .. 6 : Program["run"][i] = Program["run"][j] => i = j
  BY DEF Program, Counters

LEMMA ZeroFacts ==
  /\ Zero \in Snapshots
  /\ \A c \in Counters : Zero[c] = 0
  /\ Coherent(Zero)
  BY RunFacts DEF Zero, Snapshots, Coherent, Counters, Program

LEMMA TypeInit == Init => TypeOK
  BY ZeroFacts, RunFacts, BoundsAssumption
  DEF Init, TypeOK, Resting, Unused, Contents, Actors

LEMMA TypeStep == TypeOK /\ WithinProgram /\ [Next]_vars => TypeOK'
<1> SUFFICES ASSUME TypeOK, WithinProgram, [Next]_vars PROVE TypeOK'
  OBVIOUS
<1> USE ZeroFacts, RunFacts, BoundsAssumption
    DEF TypeOK, Goto, Actors, memory, storage
<1>1. ASSUME NEW t \in Threads, NEW e \in Endpoints, Receive(t, e)
      PROVE  TypeOK'
  BY <1>1, EndpointsAssumption DEF Receive
<1>2. ASSUME NEW t \in Threads, ComponentRaises(t) PROVE TypeOK'
  BY <1>2 DEF ComponentRaises, Raise
<1>3. ASSUME NEW t \in Threads, Load(t) PROVE TypeOK'
  BY <1>3 DEF Load
<1>4. ASSUME NEW t \in Threads, Store(t) PROVE TypeOK'
  <2>1. /\ counters' \in Snapshots
        /\ effects' \in Snapshots
    <3>1. PICK cs \in Counted(t) :
            /\ counters' = [c \in Counters |->
                   IF c \in cs THEN loaded[t][c] + 1 ELSE counters[c]]
            /\ effects' = Bump(effects, cs)
      BY <1>4 DEF Store
    <3>2. \A c \in Counters :
            loaded[t][c] \in Nat /\ counters[c] \in Nat /\ effects[c] \in Nat
      BY DEF Snapshots
    <3> HIDE DEF TypeOK
    <3>3. counters' \in Snapshots
      BY <3>1, <3>2, Z3 DEF Snapshots
    <3>4. effects' \in Snapshots
      BY <3>1, <3>2, Z3 DEF Snapshots, Bump
    <3> QED
      BY <3>3, <3>4
  <2>2. done[t] + 1 \in 0 .. 6
    <3> DEFINE n == done[t]
               last == Len(Program[request[t]])
    <3>1. pc[t] = "store" /\ request[t] \in DOMAIN Program
      BY <1>4 DEF Store
    <3>2. n < last
      BY <3>1 DEF WithinProgram
    <3>3. last \in 0 .. 6 /\ n \in 0 .. 6
      BY <3>1, ProgramFacts
    <3> HIDE DEF TypeOK, n, last
    <3>4. n + 1 \in 0 .. 6
      BY <3>2, <3>3
    <3> QED
      BY <3>4 DEF n
  <2> QED
    BY <1>4, <2>1, <2>2 DEF Store
<1>5. ASSUME NEW t \in Threads, ScanRaises(t) PROVE TypeOK'
  BY <1>5 DEF ScanRaises, Raise
<1>6. ASSUME NEW t \in Threads, Publish(t) PROVE TypeOK'
  <2>1. fd' \in [Actors -> {None, "tmp", "state", "orphan"}]
    BY <1>6 DEF Publish, Rename, Renamed
  <2>2. tmp' \in Contents /\ state' \in Contents
    BY <1>6 DEF Publish, Rename, Contents
  <2>3. pc' \in [Actors -> {"idle", "stage", "store", "copy", "open", "write",
                            "replace"}]
          /\ reply' \in [Threads -> {0, 200, 400}]
    BY <1>6 DEF Publish
  <2> QED
    BY <1>6, <2>1, <2>2, <2>3 DEF Publish
<1>7. ASSUME NEW t \in Threads, PublishRaises(t) PROVE TypeOK'
  BY <1>7 DEF PublishRaises, Raise
<1>8. ASSUME NEW a \in Actors, Copy(a) PROVE TypeOK'
  BY <1>8 DEF Copy
<1>9. ASSUME NEW a \in Actors, Open(a) PROVE TypeOK'
  BY <1>9 DEF Open, Contents
<1>10. ASSUME NEW a \in Actors, Write(a) PROVE TypeOK'
  BY <1>10 DEF Write, Written, Contents
<1>11. CASE Boot \/ Interrupt
  BY <1>11 DEF Boot, Interrupt
<1>12. CASE MainPublish
  BY <1>12 DEF MainPublish, Rename, Renamed, Contents
<1>13. CASE MainExits \/ Kill
  BY <1>13 DEF MainExits, Kill, Ends, Resting, Unused, Contents
<1>14. CASE UNCHANGED vars
  BY <1>14 DEF vars
<1> HIDE DEF TypeOK, Goto, memory, storage
<1> QED
  BY <1>1, <1>2, <1>3, <1>4, <1>5, <1>6, <1>7, <1>8, <1>9, <1>10, <1>11,
     <1>12, <1>13, <1>14 DEF Next, HandlerStep, MainStep

-----------------------------------------------------------------------------
(* The lock                                                                *)

LEMMA LockStep ==
  TypeOK /\ WithinProgram /\ LockOwner /\ CopiesLag /\ [Next]_vars
    => LockOwner' /\ WithinProgram'
<1> SUFFICES ASSUME TypeOK, WithinProgram, LockOwner, CopiesLag, [Next]_vars
             PROVE  LockOwner' /\ WithinProgram'
  OBVIOUS
<1> USE ThreadsAssumption DEF Goto, Actors, memory, storage
<1>0. /\ pc \in [Actors -> {"idle", "stage", "store", "copy", "open", "write",
                            "replace"}]
      /\ request \in [Threads -> DOMAIN Program]
      /\ done \in [Threads -> 0 .. 6]
      /\ loaded \in [Threads -> Snapshots]
      /\ lock \in Actors \union {None}
  BY DEF TypeOK
<1>1. ASSUME NEW t \in Threads, NEW e \in Endpoints, Receive(t, e)
      PROVE  LockOwner' /\ WithinProgram'
  <2>1. e # "telemetry" => 0 < Len(Program[e])
    BY EndpointsAssumption DEF Program
  <2> QED
    BY <1>0, <1>1, <2>1, EndpointsAssumption
    DEF Receive, LockOwner, WithinProgram
<1>2. ASSUME NEW t \in Threads, ComponentRaises(t)
      PROVE  LockOwner' /\ WithinProgram'
  BY <1>0, <1>2 DEF ComponentRaises, Raise, LockOwner, WithinProgram
<1>3. ASSUME NEW t \in Threads, Load(t) PROVE LockOwner' /\ WithinProgram'
  BY <1>0, <1>3 DEF Load, LockOwner, WithinProgram
<1>4. ASSUME NEW t \in Threads, Store(t) PROVE LockOwner' /\ WithinProgram'
  <2>1. /\ pc[t] = "store" /\ lock' = None
        /\ done' = [done EXCEPT ![t] = @ + 1]
        /\ pc' = [pc EXCEPT ![t] = "copy"]
        /\ request' = request
    BY <1>4 DEF Store
  <2>2. \A u \in Threads : pc'[u] # "store"
    BY <1>0, <2>1 DEF LockOwner
  <2>3. LockOwner'
    BY <1>0, <2>1, <2>2 DEF LockOwner
  <2>4. WithinProgram'
    BY <1>0, <2>1 DEF WithinProgram
  <2> QED
    BY <2>3, <2>4
<1>5. ASSUME NEW t \in Threads, ScanRaises(t)
      PROVE  LockOwner' /\ WithinProgram'
  BY <1>0, <1>5 DEF ScanRaises, Raise, LockOwner, WithinProgram
<1>6. ASSUME NEW t \in Threads, Publish(t)
      PROVE  LockOwner' /\ WithinProgram'
  BY <1>0, <1>6 DEF Publish, Stages, LockOwner, WithinProgram
<1>7. ASSUME NEW t \in Threads, PublishRaises(t)
      PROVE  LockOwner' /\ WithinProgram'
  BY <1>0, <1>7 DEF PublishRaises, Raise, LockOwner, WithinProgram
<1>8. ASSUME NEW a \in Actors, Copy(a) \/ Open(a) \/ Write(a)
      PROVE  LockOwner' /\ WithinProgram'
  BY <1>0, <1>8 DEF Copy, Open, Write, LockOwner, WithinProgram
<1>9. CASE Boot \/ Interrupt \/ MainPublish
  BY <1>0, <1>9 DEF Boot, Interrupt, MainPublish, LockOwner, WithinProgram
<1>10. CASE MainExits \/ Kill
  <2>1. pc' = [a \in Actors |-> "idle"] /\ lock' = None
    BY <1>10 DEF MainExits, Kill, Ends, Resting
  <2>2. Main \in Actors /\ \A t \in Threads : t \in Actors
    OBVIOUS
  <2>3. \A t \in Threads : pc'[t] = "idle"
    BY <2>1, <2>2
  <2>4. LockOwner'
    BY <2>1, <2>2, <2>3 DEF LockOwner
  <2>5. WithinProgram'
    BY <2>3 DEF WithinProgram
  <2> QED
    BY <2>4, <2>5
<1>11. CASE UNCHANGED vars
  BY <1>11 DEF vars, LockOwner, WithinProgram
<1> HIDE DEF Goto, memory, storage
<1> QED
  BY <1>1, <1>2, <1>3, <1>4, <1>5, <1>6, <1>7, <1>8, <1>9, <1>10, <1>11
  DEF Next, HandlerStep, MainStep

-----------------------------------------------------------------------------
(* The counts                                                              *)

\* One count: the tables grow alike, by one at the counters in cs.
LEMMA StoreFacts ==
  ASSUME TypeOK, LockOwner, WithinProgram, NEW t \in Threads, Store(t)
  PROVE  \E cs \in Counted(t) :
           /\ counters' = Bump(counters, cs)
           /\ effects' = Bump(effects, cs)
<1>1. PICK cs \in Counted(t) :
        /\ counters' = [c \in Counters |->
               IF c \in cs THEN loaded[t][c] + 1 ELSE counters[c]]
        /\ effects' = Bump(effects, cs)
  BY DEF Store
<1>2. loaded[t] = counters
  BY DEF Store, LockOwner
<1>3. \A c \in Counters : counters[c] \in Nat
  BY DEF TypeOK, Snapshots
<1>4. counters' = Bump(counters, cs)
  BY <1>1, <1>2, <1>3 DEF Bump
<1> QED
  BY <1>1, <1>4

\* What one count adds to: never voids without verified marbles, and the
\* integrated runs only as the last count of a run.
LEMMA CountedFacts ==
  ASSUME TypeOK, WithinProgram, NEW t \in Threads, pc[t] = "store",
         NEW cs \in Counted(t)
  PROVE  /\ Program[request[t]][done[t] + 1] \in cs
         /\ "marbles_void" \in cs => "marbles_verified" \in cs
         /\ "integrated_runs" \in cs
              => cs = {"integrated_runs"} /\ request[t] = "run" /\ done[t] = 5
<1> DEFINE e == request[t]
           n == done[t] + 1
<1>1. e \in DOMAIN Program /\ n \in 1 .. Len(Program[e])
  BY ProgramFacts DEF TypeOK, WithinProgram
<1>2. /\ Program[e][n] \in cs
      /\ cs \in {{Program[e][n]}, {Program[e][n], "marbles_void"}}
      /\ cs # {Program[e][n]} => Program[e][n] = "marbles_verified"
  BY DEF Counted, Stages
<1>3. /\ Program[e][n] # "marbles_void"
      /\ e # "run" => Program[e][n] # "integrated_runs"
  BY <1>1, ProgramFacts
<1>4. e = "run" /\ Program[e][n] = "integrated_runs" => n = 6
  BY <1>1, RunFacts
<1> QED
  BY <1>1, <1>2, <1>3, <1>4 DEF TypeOK

\* Every other step leaves the counters alone, or ends the process.
LEMMA OtherSteps ==
  ASSUME [Next]_vars
  PROVE  \/ \E t \in Threads : Store(t)
         \/ UNCHANGED <<counters, effects>>
         \/ /\ counters' = Zero /\ effects' = Zero
            /\ pc' = [a \in Actors |-> "idle"]
            /\ snap' = [a \in Actors |-> Zero]
            /\ phase' = "down"
  BY DEF Next, HandlerStep, MainStep, vars, memory, storage, Receive,
     ComponentRaises, Load, ScanRaises, Publish, PublishRaises, Copy, Open,
     Write, Boot, Interrupt, MainPublish, MainExits, Kill, Ends, Resting

LEMMA CountStep ==
  TypeOK /\ LockOwner /\ WithinProgram /\ NoLostCount /\ VoidsAccounted
    /\ [Next]_vars => NoLostCount' /\ VoidsAccounted'
<1> SUFFICES ASSUME TypeOK, LockOwner, WithinProgram, NoLostCount,
                    VoidsAccounted, [Next]_vars
             PROVE  NoLostCount' /\ VoidsAccounted'
  OBVIOUS
<1>1. ASSUME NEW t \in Threads, Store(t) PROVE NoLostCount' /\ VoidsAccounted'
  <2>1. PICK cs \in Counted(t) :
          counters' = Bump(counters, cs) /\ effects' = Bump(effects, cs)
    BY <1>1, StoreFacts
  <2>2. "marbles_void" \in cs => "marbles_verified" \in cs
    BY <1>1, CountedFacts DEF Store
  <2>3. {"marbles_void", "marbles_verified"} \subseteq Counters
    BY DEF Counters
  <2>4. \A c \in Counters : counters[c] \in Nat
    BY DEF TypeOK, Snapshots
  <2> QED
    BY <2>1, <2>2, <2>3, <2>4 DEF Bump, NoLostCount, VoidsAccounted
<1>2. CASE UNCHANGED <<counters, effects>>
  BY <1>2 DEF NoLostCount, VoidsAccounted
<1>3. CASE counters' = Zero /\ effects' = Zero
  BY <1>3, ZeroFacts DEF NoLostCount, VoidsAccounted, Coherent
<1> QED
  BY <1>1, <1>2, <1>3, OtherSteps

-----------------------------------------------------------------------------
(* The runs in progress                                                    *)

LEMMA PastFinite ==
  ASSUME NEW i
  PROVE  IsFiniteSet(Past(i)) /\ Cardinality(Past(i)) \in Nat
<1>1. Past(i) \subseteq Threads
  BY DEF Past
<1> QED
  BY <1>1, FS_Subset, FS_CardinalityType, ThreadsAssumption

\* Only a count makes a run pass a stage.
LEMMA PastShrinks ==
  ASSUME TypeOK, [Next]_vars, \A t \in Threads : ~Store(t), NEW i \in 1 .. 5
  PROVE  Past(i)' \subseteq Past(i)
<1> SUFFICES ASSUME NEW u \in Threads, request'[u] = "run", pc'[u] # "idle",
                    i <= done'[u], done'[u] < 6
             PROVE  u \in Past(i)
  BY DEF Past
<1>0. /\ pc \in [Actors -> {"idle", "stage", "store", "copy", "open", "write",
                            "replace"}]
      /\ request \in [Threads -> DOMAIN Program]
      /\ done \in [Threads -> 0 .. 6]
      /\ \A t \in Threads : t \in Actors /\ t # Main
  BY ThreadsAssumption DEF TypeOK, Actors
<1> USE DEF Past, Goto, memory, storage
<1>1. ASSUME NEW t \in Threads, NEW e \in Endpoints, Receive(t, e)
      PROVE  u \in Past(i)
  BY <1>0, <1>1 DEF Receive
<1>2. ASSUME NEW t \in Threads,
             ComponentRaises(t) \/ ScanRaises(t) \/ PublishRaises(t)
      PROVE  u \in Past(i)
  BY <1>0, <1>2 DEF ComponentRaises, ScanRaises, PublishRaises, Raise
<1>3. ASSUME NEW t \in Threads, Load(t) \/ Publish(t) PROVE u \in Past(i)
  BY <1>0, <1>3 DEF Load, Publish
<1>4. ASSUME NEW a \in Actors, Copy(a) \/ Open(a) \/ Write(a)
      PROVE  u \in Past(i)
  BY <1>0, <1>4 DEF Copy, Open, Write
<1>5. CASE Boot \/ Interrupt \/ MainPublish
  BY <1>0, <1>5 DEF Boot, Interrupt, MainPublish
<1>6. CASE MainExits \/ Kill
  BY <1>0, <1>6 DEF MainExits, Kill, Ends, Resting
<1>7. CASE UNCHANGED vars
  BY <1>7 DEF vars
<1> HIDE DEF Past, Goto, memory, storage
<1> QED
  BY <1>1, <1>2, <1>3, <1>4, <1>5, <1>6, <1>7
  DEF Next, HandlerStep, MainStep, Actors

LEMMA RunsStep ==
  TypeOK /\ LockOwner /\ WithinProgram /\ RunsAccounted /\ [Next]_vars
    => RunsAccounted'
<1> SUFFICES ASSUME TypeOK, LockOwner, WithinProgram, RunsAccounted,
                    [Next]_vars, NEW i \in 1 .. 5
             PROVE  (counters["integrated_runs"] + Cardinality(Past(i))
                       <= counters[Program.run[i]])'
  BY DEF RunsAccounted
<1> DEFINE c == Program["run"][i]
<1>0. /\ c \in Counters \ {"integrated_runs"}
      /\ "integrated_runs" \in Counters
      /\ counters["integrated_runs"] \in Nat
      /\ counters[c] \in Nat
      /\ counters["integrated_runs"] + Cardinality(Past(i)) <= counters[c]
      /\ IsFiniteSet(Past(i)) /\ Cardinality(Past(i)) \in Nat
      /\ Cardinality(Past(i)') \in Nat
  <2>1. c \in Counters \ {"integrated_runs"} /\ "integrated_runs" \in Counters
    BY RunFacts DEF Counters
  <2>2. Past(i)' \subseteq Threads
    BY DEF Past
  <2>3. Cardinality(Past(i)') \in Nat
    BY <2>2, FS_Subset, FS_CardinalityType, ThreadsAssumption
  <2> QED
    BY <2>1, <2>3, PastFinite DEF RunsAccounted, TypeOK, Snapshots
<1>1. ASSUME NEW t \in Threads, Store(t)
      PROVE  counters'["integrated_runs"] + Cardinality(Past(i)')
               <= counters'[c]
  <2>1. PICK cs \in Counted(t) : counters' = Bump(counters, cs)
    BY <1>1, StoreFacts
  <2>2. /\ pc[t] = "store"
        /\ pc' = [pc EXCEPT ![t] = "copy"]
        /\ request' = request
        /\ done' = [done EXCEPT ![t] = done[t] + 1]
        /\ pc \in [Actors -> {"idle", "stage", "store", "copy", "open",
                              "write", "replace"}]
        /\ done \in [Threads -> 0 .. 6]
        /\ t \in Actors /\ Threads \subseteq Actors
    BY <1>1 DEF Store, Goto, TypeOK, Actors
  <2>3. /\ Program[request[t]][done[t] + 1] \in cs
        /\ "integrated_runs" \in cs
             => cs = {"integrated_runs"} /\ request[t] = "run" /\ done[t] = 5
    BY <2>2, CountedFacts
  <2>4. /\ counters'[c] = counters[c] + IF c \in cs THEN 1 ELSE 0
        /\ counters'["integrated_runs"] = counters["integrated_runs"]
             + IF "integrated_runs" \in cs THEN 1 ELSE 0
    BY <1>0, <2>1 DEF Bump
  <2>5. \A u \in Threads \ {t} : u \in Past(i)' <=> u \in Past(i)
    BY <2>2 DEF Past
  <2>6. CASE request[t] # "run"
    <3>1. t \notin Past(i)' /\ t \notin Past(i)
      BY <2>2, <2>6 DEF Past
    <3>2. Past(i)' = Past(i)
      BY <2>5, <3>1 DEF Past
    <3> QED
      BY <1>0, <2>3, <2>4, <2>6, <3>2
  <2>7. CASE request[t] = "run" /\ done[t] + 1 = i
    <3>1. t \in Past(i)' /\ t \notin Past(i)
      BY <2>2, <2>7 DEF Past
    <3>2. Past(i)' = Past(i) \union {t}
      BY <2>5, <3>1 DEF Past
    <3>3. Cardinality(Past(i)') = Cardinality(Past(i)) + 1
      BY <1>0, <3>1, <3>2, FS_AddElement
    <3>4. c \in cs /\ "integrated_runs" \notin cs
      BY <1>0, <2>2, <2>3, <2>7
    <3> QED
      BY <1>0, <2>4, <3>3, <3>4
  <2>8. CASE request[t] = "run" /\ done[t] < 5 /\ done[t] + 1 # i
    <3>1. t \in Past(i)' <=> t \in Past(i)
      BY <2>2, <2>8 DEF Past
    <3>2. Past(i)' = Past(i)
      BY <2>5, <3>1 DEF Past
    <3> QED
      BY <1>0, <2>2, <2>3, <2>4, <2>8, <3>2
  <2>9. CASE request[t] = "run" /\ done[t] = 5
    <3>1. t \notin Past(i)' /\ t \in Past(i)
      BY <2>2, <2>9 DEF Past
    <3>2. Past(i)' = Past(i) \ {t}
      BY <2>5, <3>1 DEF Past
    <3>3. Cardinality(Past(i)') = Cardinality(Past(i)) - 1
      BY <1>0, <3>1, <3>2, FS_RemoveElement
    <3> QED
      BY <1>0, <2>4, <3>3
  <2>10. request[t] = "run" => done[t] < 6
    <3>1. done[t] < Len(Program[request[t]])
      BY <2>2 DEF WithinProgram
    <3> QED
      BY <3>1, RunFacts
  <2> QED
    BY <2>2, <2>6, <2>7, <2>8, <2>9, <2>10
<1>2. ASSUME \A t \in Threads : ~Store(t)
      PROVE  counters'["integrated_runs"] + Cardinality(Past(i)')
               <= counters'[c]
  <2>1. Past(i)' \subseteq Past(i)
    BY <1>2, PastShrinks
  <2>2. Cardinality(Past(i)') <= Cardinality(Past(i))
    BY <1>0, <2>1, FS_Subset
  <2>3. CASE UNCHANGED counters
    BY <1>0, <2>2, <2>3
  <2>4. CASE counters' = Zero /\ pc' = [a \in Actors |-> "idle"]
    <3>1. Past(i)' = {}
      BY <2>4 DEF Past, Actors
    <3> QED
      BY <1>0, <2>4, <3>1, FS_EmptySet, ZeroFacts
  <2> QED
    BY <1>2, <2>3, <2>4, OtherSteps
<1> QED
  BY <1>1, <1>2

LEMMA CountersAreCoherent ==
  ASSUME TypeOK, VoidsAccounted, RunsAccounted
  PROVE  Coherent(counters)
<1>1. ASSUME NEW i \in 1 .. 5
      PROVE  counters["integrated_runs"] <= counters[Program.run[i]]
  <2>1. Cardinality(Past(i)) \in Nat /\ Cardinality(Past(i)) >= 0
    BY PastFinite
  <2>2. /\ counters["integrated_runs"] \in Nat
        /\ counters[Program.run[i]] \in Nat
    <3>1. Program.run[i] \in Counters /\ "integrated_runs" \in Counters
      BY RunFacts DEF Counters
    <3> QED
      BY <3>1 DEF TypeOK, Snapshots
  <2> QED
    BY <2>1, <2>2 DEF RunsAccounted
<1> QED
  BY <1>1 DEF Coherent, VoidsAccounted

-----------------------------------------------------------------------------
(* The copies and the files                                                *)

\* Whatever a thread writes, a file becomes what it was, one of the marks, or
\* a copy some thread holds; and copies are made of the counters.
LEMMA FileFlow ==
  ASSUME TypeOK, [Next]_vars
  PROVE  /\ tmp' \in {tmp, Absent, Empty, Torn} \union {snap[a] : a \in Actors}
         /\ state' \in {state, tmp, Absent, Empty, Torn}
                         \union {snap[a] : a \in Actors}
         /\ \A a \in Actors : snap'[a] \in {snap[a], counters, Zero}
<1> USE DEF memory, storage
<1>0. snap \in [Actors -> Snapshots] /\ Main \in Actors /\ Threads \subseteq Actors
  BY DEF TypeOK, Actors
<1> DEFINE Goal ==
         /\ tmp' \in {tmp, Absent, Empty, Torn} \union {snap[a] : a \in Actors}
         /\ state' \in {state, tmp, Absent, Empty, Torn}
                         \union {snap[a] : a \in Actors}
         /\ \A a \in Actors : snap'[a] \in {snap[a], counters, Zero}
<1> SUFFICES Goal
  OBVIOUS
<1>1. ASSUME NEW t \in Threads, NEW e \in Endpoints, Receive(t, e)
      PROVE  Goal
  BY <1>0, <1>1 DEF Receive
<1>2. ASSUME NEW t \in Threads,
             \/ ComponentRaises(t) \/ Load(t) \/ Store(t)
             \/ ScanRaises(t) \/ PublishRaises(t)
      PROVE  Goal
  BY <1>0, <1>2 DEF ComponentRaises, Load, Store, ScanRaises, PublishRaises
<1>3. ASSUME NEW t \in Threads, Publish(t) PROVE Goal
  BY <1>0, <1>3 DEF Publish, Rename
<1>4. ASSUME NEW a \in Actors, Copy(a) PROVE Goal
  BY <1>0, <1>4 DEF Copy
<1>5. ASSUME NEW a \in Actors, Open(a) PROVE Goal
  BY <1>0, <1>5 DEF Open
<1>6. ASSUME NEW a \in Actors, Write(a) PROVE Goal
  BY <1>0, <1>6 DEF Write, Written
<1>7. CASE Boot \/ Interrupt
  BY <1>0, <1>7 DEF Boot, Interrupt
<1>8. CASE MainPublish
  BY <1>0, <1>8 DEF MainPublish, Rename
<1>9. CASE MainExits \/ Kill
  BY <1>0, <1>9 DEF MainExits, Kill, Ends, Resting
<1>10. CASE UNCHANGED vars
  BY <1>0, <1>10 DEF vars
<1> HIDE DEF Goal, memory, storage
<1> QED
  BY <1>1, <1>2, <1>3, <1>4, <1>5, <1>6, <1>7, <1>8, <1>9, <1>10
  DEF Next, HandlerStep, MainStep, Actors

LEMMA CoherentStep ==
  TypeOK /\ VoidsAccounted /\ RunsAccounted /\ CopiesCoherent /\ [Next]_vars
    => CopiesCoherent'
<1> SUFFICES ASSUME TypeOK, VoidsAccounted, RunsAccounted, CopiesCoherent,
                    [Next]_vars
             PROVE  CopiesCoherent'
  OBVIOUS
<1>1. Coherent(counters) /\ Coherent(Zero)
  BY CountersAreCoherent, ZeroFacts
<1>2. \A a \in Actors : Coherent(snap[a])
  BY DEF CopiesCoherent
<1>3. \A a \in Actors : Coherent(snap'[a])
  BY <1>1, <1>2, FileFlow
<1>4. \A content \in {tmp, state} :
        content \in {Absent, Empty, Torn} \/ Coherent(content)
  BY DEF CopiesCoherent
<1>5. \A content \in {tmp', state'} :
        content \in {Absent, Empty, Torn} \/ Coherent(content)
  BY <1>2, <1>4, FileFlow
<1> QED
  BY <1>3, <1>5 DEF CopiesCoherent, Actors

\* Counters only grow while the process lives, so a copy that lagged lags.
LEMMA LagStep ==
  TypeOK /\ LockOwner /\ WithinProgram /\ CopiesLag /\ [Next]_vars
    => CopiesLag'
<1> SUFFICES ASSUME TypeOK, LockOwner, WithinProgram, CopiesLag, [Next]_vars
             PROVE  CopiesLag'
  OBVIOUS
<1> USE DEF memory, storage, Goto
<1>0. /\ snap \in [Actors -> Snapshots]
      /\ counters \in Snapshots
      /\ pc \in [Actors -> {"idle", "stage", "store", "copy", "open", "write",
                            "replace"}]
      /\ Main \in Actors /\ Threads \subseteq Actors /\ Main \notin Threads
      /\ Actors = Threads \union {Main}
      /\ \A c \in Counters : counters[c] \in Nat
      /\ \A a \in Actors, c \in Counters : snap[a][c] \in Nat
  BY ThreadsAssumption DEF TypeOK, Actors, Snapshots
<1>1. ASSUME NEW t \in Threads, NEW e \in Endpoints, Receive(t, e)
      PROVE  CopiesLag'
  BY <1>0, <1>1 DEF Receive, CopiesLag, Lags
<1>2. ASSUME NEW t \in Threads,
             \/ ComponentRaises(t) \/ Load(t)
             \/ ScanRaises(t) \/ PublishRaises(t)
      PROVE  CopiesLag'
  BY <1>0, <1>2, ZeroFacts
  DEF ComponentRaises, Load, ScanRaises, PublishRaises, Raise, CopiesLag, Lags
<1>3. ASSUME NEW t \in Threads, Store(t) PROVE CopiesLag'
  <2>1. PICK cs \in Counted(t) : counters' = Bump(counters, cs)
    BY <1>3, StoreFacts
  <2>2. \A c \in Counters : counters'[c] \in Nat /\ counters[c] <= counters'[c]
    BY <1>0, <2>1 DEF Bump
  <2>3. \A content \in Snapshots :
          (\A c \in Counters : content[c] <= counters[c])
            => \A c \in Counters : content[c] <= counters'[c]
    <3>1. \A content \in Snapshots, c \in Counters : content[c] \in Nat
      BY DEF Snapshots
    <3> QED
      BY <1>0, <2>2, <3>1
  <2>4. /\ UNCHANGED <<phase, tmp, state, snap>>
        /\ pc' = [pc EXCEPT ![t] = "copy"]
        /\ pc[t] = "store"
    BY <1>3 DEF Store
  <2>5. tmp \in Contents /\ state \in Contents
    BY DEF TypeOK
  <2>6. \A a \in Actors, c \in Counters : snap'[a][c] <= counters'[c]
    BY <1>0, <2>2, <2>4 DEF CopiesLag
  <2>7. Lags(tmp) => Lags(tmp)'
    BY <2>3, <2>4, <2>5 DEF Lags, Contents
  <2>8. Lags(state) => Lags(state)'
    BY <2>3, <2>4, <2>5 DEF Lags, Contents
  <2>9. phase \in {"serving", "closing"}
    BY <1>0, <2>4 DEF CopiesLag, TypeOK
  <2> QED
    BY <1>0, <2>4, <2>6, <2>7, <2>8, <2>9 DEF CopiesLag
<1>4. ASSUME NEW t \in Threads, Publish(t) PROVE CopiesLag'
  BY <1>0, <1>4, ZeroFacts DEF Publish, Rename, CopiesLag, Lags
<1>5. ASSUME NEW a \in Actors, Copy(a) PROVE CopiesLag'
  BY <1>0, <1>5 DEF Copy, CopiesLag, Lags
<1>6. ASSUME NEW a \in Actors, Open(a) PROVE CopiesLag'
  BY <1>0, <1>6 DEF Open, CopiesLag, Lags
<1>7. ASSUME NEW a \in Actors, Write(a) PROVE CopiesLag'
  BY <1>0, <1>7 DEF Write, Written, CopiesLag, Lags
<1>8. CASE Boot \/ Interrupt
  BY <1>0, <1>8 DEF Boot, Interrupt, CopiesLag, Lags
<1>9. CASE MainPublish
  BY <1>0, <1>9, ZeroFacts DEF MainPublish, Rename, CopiesLag, Lags
<1>10. CASE MainExits \/ Kill
  BY <1>0, <1>10, ZeroFacts DEF MainExits, Kill, Ends, Resting, CopiesLag, Lags
<1>11. CASE UNCHANGED vars
  BY <1>0, <1>11 DEF vars, CopiesLag, Lags
<1> HIDE DEF memory, storage, Goto
<1> QED
  BY <1>1, <1>2, <1>3, <1>4, <1>5, <1>6, <1>7, <1>8, <1>9, <1>10, <1>11
  DEF Next, HandlerStep, MainStep, Actors

-----------------------------------------------------------------------------
(* The invariant                                                           *)

LEMMA Initially == Init => IInv
<1> SUFFICES ASSUME Init PROVE IInv
  OBVIOUS
<1>1. TypeOK
  BY TypeInit
<1>2. LockOwner /\ WithinProgram /\ NoLostCount
  BY ThreadsAssumption
  DEF Init, LockOwner, WithinProgram, NoLostCount, Resting, Actors
<1>3. RunsAccounted
  <2>1. \A i \in 1 .. 5 : Past(i) = {}
    BY DEF Init, Past, Resting, Actors
  <2> QED
    <3>1. \A c \in Counters : counters[c] = 0
      BY ZeroFacts DEF Init
    <3>2. \A i \in 1 .. 5 : Program.run[i] \in Counters
      BY RunFacts
    <3>3. \A i \in 1 .. 5 : Cardinality(Past(i)) = 0
      BY <2>1, FS_EmptySet
    <3> QED
      BY <3>1, <3>2, <3>3 DEF RunsAccounted, Counters
<1>4. VoidsAccounted /\ CopiesCoherent /\ CopiesLag
  BY ZeroFacts
  DEF Init, VoidsAccounted, CopiesCoherent, CopiesLag, Coherent, Lags, Resting,
      Actors, Zero
<1> QED
  BY <1>1, <1>2, <1>3, <1>4 DEF IInv

LEMMA Inductive == IInv /\ [Next]_vars => IInv'
  BY TypeStep, LockStep, CountStep, RunsStep, CoherentStep, LagStep DEF IInv

LEMMA InvariantHolds == Spec => []IInv
  BY Initially, Inductive, PTL DEF Spec

\* Every variable keeps to its type, for any number of handlers.
THEOREM TypeCorrect == Spec => []TypeOK
<1>1. IInv => TypeOK
  BY DEF IInv
<1> QED
  BY <1>1, InvariantHolds, PTL

\* No increment is lost, for any number of handlers (_inc, verify_marble).
THEOREM NoCountIsLost == Spec => []NoLostCount
<1>1. IInv => NoLostCount
  BY DEF IInv
<1> QED
  BY <1>1, InvariantHolds, PTL

\* Counters, reports and complete state files are coherent at every moment,
\* for any number of overlapping, failing and killed requests
\* (integrated_run, verify_marble, persist_state).
THEOREM AlwaysCoherent == Spec => []CountersCoherent
<1>1. IInv => CountersCoherent
  BY CountersAreCoherent DEF IInv, CountersCoherent, CopiesCoherent
<1> QED
  BY <1>1, InvariantHolds, PTL

\* While the process serves, the files may lag behind the counters but are
\* never ahead of them: nothing of an earlier life is left,
\* not even in state.tmp.
FilesNotAhead ==
  phase = "serving" =>
    \A content \in {tmp, state} :
      \/ content \in {Absent, Empty, Torn}
      \/ \A c \in Counters : content[c] <= counters[c]

\* While the process serves no file is ahead of its counters (serve persists
\* before the server exists, and every copy is made under the lock).
THEOREM FilesNeverAhead == Spec => []FilesNotAhead
<1>1. IInv => FilesNotAhead
  BY DEF IInv, FilesNotAhead, CopiesLag, Lags
<1> QED
  BY <1>1, InvariantHolds, PTL

-----------------------------------------------------------------------------
(* The abstract table                                                      *)

\* Until there are handlers the main thread has state.tmp to itself, and what
\* it persists is the table of zeros.
Booting ==
  phase = "boot" =>
    /\ counters = Zero
    /\ pc[Main] # "copy" => snap[Main] = Zero
    /\ pc[Main] = "write" => fd[Main] = "tmp" /\ tmp = Empty
    /\ pc[Main] = "replace" => tmp = Zero

LEMMA BootStep == IInv /\ Booting /\ [Next]_vars => Booting'
<1> SUFFICES ASSUME IInv, Booting, [Next]_vars PROVE Booting'
  OBVIOUS
<1> USE DEF memory, storage, Goto, Booting
<1>0. /\ snap \in [Actors -> Snapshots]
      /\ fd \in [Actors -> {None, "tmp", "state", "orphan"}]
      /\ pc \in [Actors -> {"idle", "stage", "store", "copy", "open", "write",
                            "replace"}]
      /\ Main \in Actors /\ Threads \subseteq Actors /\ Main \notin Threads
      /\ Actors = Threads \union {Main}
      /\ phase = "down" => counters = Zero
      /\ phase = "boot" => \A t \in Threads : pc[t] = "idle"
      /\ phase = "boot" => pc[Main] \in {"copy", "open", "write", "replace"}
  BY ThreadsAssumption DEF Actors, IInv, TypeOK, CopiesLag
<1>1. ASSUME NEW t \in Threads, NEW e \in Endpoints, Receive(t, e)
      PROVE  Booting'
  BY <1>0, <1>1 DEF Receive
<1>2. ASSUME NEW t \in Threads,
             \/ ComponentRaises(t) \/ Load(t) \/ Store(t) \/ ScanRaises(t)
             \/ Publish(t) \/ PublishRaises(t)
      PROVE  Booting'
  <2>1. pc[t] # "idle" /\ phase' = phase
    BY <1>2 DEF ComponentRaises, Load, Store, ScanRaises, Publish,
                PublishRaises
  <2> QED
    BY <1>0, <2>1
<1>3. ASSUME NEW a \in Actors, Copy(a) PROVE Booting'
  BY <1>0, <1>3 DEF Copy
<1>4. ASSUME NEW a \in Actors, Open(a) PROVE Booting'
  BY <1>0, <1>4 DEF Open
<1>5. ASSUME NEW a \in Actors, Write(a) PROVE Booting'
  BY <1>0, <1>5 DEF Write, Written
<1>6. CASE Boot \/ Interrupt
  BY <1>0, <1>6 DEF Boot, Interrupt
<1>7. CASE MainPublish \/ MainExits \/ Kill
  BY <1>0, <1>7 DEF MainPublish, MainExits, Kill, Ends
<1>8. CASE UNCHANGED vars
  BY <1>8 DEF vars
<1> HIDE DEF memory, storage, Goto, Booting
<1> QED
  BY <1>1, <1>2, <1>3, <1>4, <1>5, <1>6, <1>7, <1>8
  DEF Next, HandlerStep, MainStep, Actors

\* A table that lags is one that the abstract file may be replaced by.
LEMMA LaggingIsBehind ==
  ASSUME NEW content \in Contents \ {Absent}, Lags(content)
  PROVE  Table!Behind(content)
  BY ContentsAssumption DEF Lags, Contents, Snapshots, Table!Behind,
     Table!Tables

\* What a store counts, the abstract table may count.
LEMMA CountedTogether ==
  ASSUME TypeOK, WithinProgram, NEW t \in Threads, pc[t] = "store",
         NEW cs \in Counted(t)
  PROVE  cs \in Counts
<1> DEFINE c == Program[request[t]][done[t] + 1]
<1>1. request[t] \in DOMAIN Program
        /\ done[t] + 1 \in 1 .. Len(Program[request[t]])
  BY ProgramFacts DEF TypeOK, WithinProgram
<1>2. c \in Counters /\ c # "marbles_void"
  BY <1>1, ProgramFacts
<1>3. cs = {c} \/ cs = {"marbles_verified", "marbles_void"}
  BY DEF Counted, Stages
<1> QED
  BY <1>2, <1>3 DEF Counts

\* The core implements CounterTable.  A store under the lock is a count; a
\* write that lands in state.json, a rename and the last persist of an
\* interrupted server replace the file by a table that lags; the rename with
\* which the main thread ends the boot shows the service with a file of zeros.
\* No other step can be seen (EdenCore, persist_state).
THEOREM CoreRefinesTable == Spec => ImplementsTable
<1> DEFINE serving == phase \in {"serving", "closing"}
<1> USE DEF memory, storage, Goto
<1>1. Init => Table!Init /\ Booting
  BY DEF Init, Table!Init, Table!Zero, Zero, Booting
<1>2. IInv /\ Booting /\ [Next]_vars
        => [Table!Next]_<<serving, counters, state>>
  <2> SUFFICES ASSUME IInv, Booting, [Next]_vars
               PROVE  [Table!Next]_<<serving, counters, state>>
    OBVIOUS
  <2>0. /\ TypeOK /\ LockOwner /\ WithinProgram
        /\ snap \in [Actors -> Snapshots]
        /\ tmp \in Contents
        /\ Main \in Actors /\ Threads \subseteq Actors /\ Main \notin Threads
        /\ Actors = Threads \union {Main}
        /\ phase = "down" => counters = Zero /\ \A a \in Actors : pc[a] = "idle"
        /\ phase = "boot" => \A t \in Threads : pc[t] = "idle"
        /\ serving => Lags(tmp)
        /\ \A a \in Actors : Lags(snap[a])
        /\ phase \in {"down", "boot", "serving", "closing"}
    BY ThreadsAssumption DEF Actors, IInv, TypeOK, CopiesLag, Lags
  <2>1. ASSUME NEW t \in Threads, pc[t] # "idle" PROVE serving
    BY <2>0, <2>1
  <2>2. ASSUME NEW t \in Threads, Store(t) PROVE Table!Next
    <3>1. PICK cs \in Counted(t) : counters' = Bump(counters, cs)
      BY <2>0, <2>2, StoreFacts
    <3>2. pc[t] = "store" /\ UNCHANGED <<phase, state>>
      BY <2>2 DEF Store
    <3>3. cs \in Counts
      BY <2>0, <3>1, <3>2, CountedTogether
    <3>4. Table!Count(cs)
      BY <2>1, <3>1, <3>2 DEF Table!Count, Bump
    <3> QED
      BY <3>3, <3>4 DEF Table!Next
  <2>3. ASSUME NEW t \in Threads, Publish(t) PROVE Table!Next
    <3>1. /\ pc[t] = "replace" /\ tmp # Absent /\ state' = tmp
          /\ UNCHANGED <<phase, counters>>
      BY <2>3 DEF Publish, Rename
    <3>2. serving /\ Lags(tmp) /\ tmp \in Contents \ {Absent}
      BY <2>0, <2>1, <3>1
    <3>3. Table!Behind(state')
      BY <3>1, <3>2, LaggingIsBehind
    <3> QED
      BY <3>1, <3>2, <3>3 DEF Table!Persist, Table!Next
  <2>4. ASSUME NEW a \in Actors, Write(a)
        PROVE  [Table!Next]_<<serving, counters, state>>
    <3>1. pc[a] = "write" /\ UNCHANGED <<phase, counters>>
      BY <2>4 DEF Write
    <3>2. CASE fd[a] # "state"
      BY <2>4, <3>1, <3>2 DEF Write
    <3>3. CASE fd[a] = "state"
      <4>1. state' \in {snap[a], Torn}
        BY <2>4, <3>3 DEF Write, Written
      <4>2. serving
        BY <2>0, <3>1, <3>3 DEF Booting
      <4>3. Lags(state') /\ state' \in Contents \ {Absent}
        BY <2>0, <4>1, ContentsAssumption DEF Lags, Contents
      <4>4. Table!Behind(state')
        BY <4>3, LaggingIsBehind
      <4> QED
        BY <3>1, <4>2, <4>4 DEF Table!Persist, Table!Next
    <3> QED
      BY <3>2, <3>3
  <2>5. CASE MainPublish
    <3>1. /\ phase = "boot" /\ phase' = "serving"
          /\ state' = Zero
          /\ UNCHANGED counters
      BY <2>5 DEF MainPublish, Rename, Booting
    <3> QED
      BY <3>1 DEF Table!Start, Table!Next, Table!Zero, Zero
  <2>6. CASE MainExits \/ Kill
    <3>1. /\ phase # "down" /\ phase' = "down"
          /\ counters' = Zero
      BY <2>6 DEF MainExits, Kill, Ends
    <3>2. \/ state' = state
          \/ phase = "closing" /\ tmp # Absent /\ state' = tmp
      BY <2>6 DEF MainExits, Kill
    <3>3. CASE phase = "boot"
      BY <3>1, <3>2, <3>3 DEF Booting
    <3>4. CASE serving
      <4>1. state' = state \/ Table!Behind(state')
        BY <2>0, <3>2, <3>4, LaggingIsBehind
      <4> QED
        BY <3>1, <3>4, <4>1 DEF Table!Stop, Table!Next, Table!Zero, Zero
    <3> QED
      BY <2>0, <3>1, <3>3, <3>4
  <2>7. ASSUME NEW t \in Threads,
               \/ \E e \in Endpoints : Receive(t, e)
               \/ ComponentRaises(t) \/ Load(t)
               \/ ScanRaises(t) \/ PublishRaises(t)
        PROVE  UNCHANGED <<serving, counters, state>>
    BY <2>7 DEF Receive, ComponentRaises, Load, ScanRaises, PublishRaises
  <2>8. ASSUME NEW a \in Actors, Copy(a) \/ Open(a)
        PROVE  UNCHANGED <<serving, counters, state>>
    BY <2>8 DEF Copy, Open
  <2>9. CASE Boot \/ Interrupt \/ UNCHANGED vars
    BY <2>9 DEF Boot, Interrupt, vars
  <2> HIDE DEF serving, memory, storage, Goto
  <2> QED
    BY <2>0, <2>2, <2>3, <2>4, <2>5, <2>6, <2>7, <2>8, <2>9
    DEF Next, HandlerStep, MainStep
<1>3. Spec => [](IInv /\ Booting)
  BY <1>1, Initially, Inductive, BootStep, PTL DEF Spec
<1> HIDE DEF memory, storage, Goto
<1> QED
  BY <1>1, <1>2, <1>3, PTL DEF Spec, ImplementsTable, Table!Spec

-----------------------------------------------------------------------------
(* One request at a time                                                   *)

LEMMA WriterStep ==
  ASSUME OneHandler, IInv, OneWriter, [Next]_vars
  PROVE  OneWriter'
<1> USE ContentsAssumption DEF Goto, memory, storage, OneWriter
<1>0. /\ pc \in [Actors -> {"idle", "stage", "store", "copy", "open", "write",
                            "replace"}]
      /\ fd \in [Actors -> {None, "tmp", "state", "orphan"}]
      /\ snap \in [Actors -> Snapshots] /\ counters \in Snapshots
      /\ Main \in Actors /\ Threads \subseteq Actors /\ Main \notin Threads
      /\ Actors = Threads \union {Main}
      /\ phase \in {"down", "boot", "serving", "closing"}
  BY ThreadsAssumption DEF IInv, TypeOK, Actors
<1>a. /\ phase = "down" => \A a \in Actors : pc[a] = "idle"
      /\ phase = "boot" => \A t \in Threads : pc[t] = "idle"
      /\ pc[Main] \notin {"stage", "store"}
  BY DEF IInv, CopiesLag, LockOwner
<1>b. phase # "closing" =>
        \A a, b \in Actors : pc[a] # "idle" /\ pc[b] # "idle" => a = b
  BY <1>0, <1>a DEF OneHandler
<1>1. ASSUME NEW t \in Threads, NEW e \in Endpoints, Receive(t, e)
      PROVE  OneWriter'
  BY <1>0, <1>1 DEF Receive
<1>2. ASSUME NEW t \in Threads, ComponentRaises(t) PROVE OneWriter'
  BY <1>0, <1>2 DEF ComponentRaises, Raise
<1>3. ASSUME NEW t \in Threads, Load(t) PROVE OneWriter'
  BY <1>0, <1>3 DEF Load
<1>4. ASSUME NEW t \in Threads, Store(t) PROVE OneWriter'
  <2>1. phase # "closing" => \A a \in Actors : a # t => pc[a] = "idle"
    BY <1>0, <1>b, <1>4 DEF Store
  <2> QED
    BY <1>0, <2>1, <1>4 DEF Store
<1>5. ASSUME NEW t \in Threads, Publish(t) PROVE OneWriter'
  <2>1. /\ pc[t] = "replace" /\ t \in Actors
        /\ phase' = phase
        /\ pc' \in {[pc EXCEPT ![t] = "stage"], [pc EXCEPT ![t] = "idle"]}
        /\ fd' = [b \in Actors |-> Renamed(fd[b])]
    BY <1>0, <1>5 DEF Publish, Rename
  <2>2. phase # "closing" => fd = [b \in Actors |-> None]
    BY <1>0, <1>b, <2>1
  <2>3. phase # "closing" =>
          \A b \in Actors : pc'[b] \in {"idle", "stage"} /\ fd'[b] = None
    BY <1>0, <1>b, <2>1, <2>2 DEF Renamed, None
  <2>4. pc'[Main] = pc[Main]
    BY <1>0, <2>1
  <2> QED
    BY <1>0, <2>1, <2>3, <2>4
<1>6. ASSUME NEW t \in Threads, ScanRaises(t) \/ PublishRaises(t)
      PROVE  OneWriter'
  BY <1>0, <1>6 DEF ScanRaises, PublishRaises, Raise
<1>7. ASSUME NEW a \in Actors, Copy(a) PROVE OneWriter'
  BY <1>0, <1>a, <1>7 DEF Copy
<1>8. ASSUME NEW a \in Actors, Open(a) PROVE OneWriter'
  <2>1. phase # "closing" => \A b \in Actors : b # a => pc[b] = "idle"
    BY <1>0, <1>b, <1>8 DEF Open
  <2> QED
    BY <1>0, <1>a, <2>1, <1>8 DEF Open
<1>9. ASSUME NEW a \in Actors, Write(a) PROVE OneWriter'
  <2>1. /\ pc[a] = "write"
        /\ UNCHANGED <<phase, counters, snap>>
        /\ pc' = [pc EXCEPT ![a] = "replace"]
        /\ fd' = [fd EXCEPT ![a] = None]
        /\ phase # "closing" => tmp' = snap[a]
    BY <1>0, <1>9 DEF Write, Written
  <2>2. phase # "closing" => \A b \in Actors : b # a => pc[b] = "idle"
    BY <1>0, <1>b, <2>1
  <2> QED
    BY <1>0, <1>a, <2>1, <2>2
<1>10. CASE Boot \/ Interrupt
  BY <1>0, <1>a, <1>10 DEF Boot, Interrupt
<1>11. CASE MainPublish
  <2>1. \A b \in Actors : fd[b] = None /\ (b # Main => pc[b] = "idle")
    BY <1>0, <1>b, <1>11 DEF MainPublish
  <2>2. \A b \in Actors : fd'[b] = None
    BY <2>1, <1>11 DEF MainPublish, Rename, Renamed, None
  <2> QED
    BY <1>0, <1>11, <2>1, <2>2 DEF MainPublish
<1>12. CASE MainExits \/ Kill
  BY <1>0, <1>12 DEF MainExits, Kill, Ends, Resting, Unused
<1>13. CASE UNCHANGED vars
  BY <1>13 DEF vars
<1> HIDE DEF Goto, memory, storage, OneWriter
<1> QED
  BY <1>1, <1>2, <1>3, <1>4, <1>5, <1>6, <1>7, <1>8, <1>9, <1>10, <1>11,
     <1>12, <1>13 DEF Next, HandlerStep, MainStep, Actors

LEMMA CountedStep ==
  IInv /\ CountedBefore /\ [Next]_vars => CountedBefore'
<1> SUFFICES ASSUME IInv, CountedBefore, [Next]_vars PROVE CountedBefore'
  OBVIOUS
<1> USE DEF Goto, memory, storage, CountedBefore, Persisting
<1>0. /\ pc \in [Actors -> {"idle", "stage", "store", "copy", "open", "write",
                            "replace"}]
      /\ request \in [Threads -> DOMAIN Program]
      /\ done \in [Threads -> 0 .. 6]
      /\ Main \in Actors /\ Threads \subseteq Actors /\ Main \notin Threads
  BY ThreadsAssumption DEF IInv, TypeOK, Actors
<1>1. ASSUME NEW t \in Threads, NEW e \in Endpoints, Receive(t, e)
      PROVE  CountedBefore'
  BY <1>0, <1>1, EndpointsAssumption DEF Receive
<1>2. ASSUME NEW t \in Threads,
             \/ ComponentRaises(t) \/ Load(t) \/ Store(t) \/ Publish(t)
             \/ ScanRaises(t) \/ PublishRaises(t)
      PROVE  CountedBefore'
  <2>1. CASE ComponentRaises(t) \/ ScanRaises(t) \/ PublishRaises(t)
    BY <1>0, <2>1 DEF ComponentRaises, ScanRaises, PublishRaises, Raise
  <2>2. CASE Load(t)
    BY <1>0, <2>2 DEF Load
  <2>3. CASE Store(t)
    BY <1>0, <2>3 DEF Store
  <2>4. CASE Publish(t)
    BY <1>0, <2>4 DEF Publish
  <2> QED
    BY <1>2, <2>1, <2>2, <2>3, <2>4
<1>3. ASSUME NEW a \in Actors, Copy(a) \/ Open(a) \/ Write(a)
      PROVE  CountedBefore'
  BY <1>0, <1>3 DEF Copy, Open, Write
<1>4. CASE Boot \/ Interrupt \/ MainPublish
  BY <1>0, <1>4 DEF Boot, Interrupt, MainPublish
<1>5. CASE MainExits \/ Kill
  BY <1>0, <1>5 DEF MainExits, Kill, Ends, Resting
<1>6. CASE UNCHANGED vars
  BY <1>6 DEF vars
<1> HIDE DEF Goto, memory, storage, CountedBefore, Persisting
<1> QED
  BY <1>1, <1>2, <1>3, <1>4, <1>5, <1>6 DEF Next, HandlerStep, MainStep, Actors

LEMMA LagAccountedStep ==
  ASSUME OneHandler, IInv, OneWriter, CountedBefore, LagAccounted, [Next]_vars
  PROVE  LagAccounted'
<1> USE DEF Goto, memory, storage
<1>0. /\ pc \in [Actors -> {"idle", "stage", "store", "copy", "open", "write",
                            "replace"}]
      /\ request \in [Threads -> DOMAIN Program]
      /\ done \in [Threads -> 0 .. 6]
      /\ unsaved \in Nat
      /\ snap \in [Actors -> Snapshots] /\ counters \in Snapshots
      /\ \A content \in Snapshots, c \in Counters : content[c] \in Nat
      /\ Main \in Actors /\ Threads \subseteq Actors /\ Main \notin Threads
      /\ phase \in {"down", "boot", "serving", "closing"}
      /\ phase = "boot" => \A t \in Threads : pc[t] = "idle"
  BY ThreadsAssumption DEF IInv, TypeOK, Actors, Snapshots, CopiesLag
<1>p. Pending \in {0, 1} /\ Pending' \in {0, 1}
  BY DEF Pending
<1> SUFFICES ASSUME phase' = "serving" PROVE LagAccounted'
  BY DEF LagAccounted
<1>a. ASSUME phase = "serving", UNCHANGED <<counters, state, unsaved>>,
             \A t \in Threads : Persisting(t)' <=> Persisting(t)
      PROVE  LagAccounted'
  BY <1>a DEF LagAccounted, Pending
<1>1. ASSUME NEW t \in Threads, NEW e \in Endpoints, Receive(t, e)
      PROVE  LagAccounted'
  <2>1. \A u \in Threads : Persisting(u)' <=> Persisting(u)
    BY <1>0, <1>1, EndpointsAssumption DEF Receive, Persisting
  <2> QED
    BY <1>1, <1>a, <2>1 DEF Receive
<1>2. ASSUME NEW t \in Threads, ComponentRaises(t) \/ Load(t)
      PROVE  LagAccounted'
  <2>1. \A u \in Threads : Persisting(u)' <=> Persisting(u)
    BY <1>0, <1>2 DEF ComponentRaises, Raise, Load, Persisting
  <2> QED
    BY <1>2, <1>a, <2>1 DEF ComponentRaises, Load
<1>3. ASSUME NEW t \in Threads, Store(t) PROVE LagAccounted'
  <2>1. PICK cs \in Counted(t) : counters' = Bump(counters, cs)
    BY <1>3, StoreFacts DEF IInv
  <2>2. \A c \in Counters : counters'[c] <= counters[c] + 1
    BY <1>0, <2>1 DEF Bump
  <2>3. pc[t] = "store" /\ UNCHANGED <<phase, state, unsaved>>
    BY <1>3 DEF Store
  <2>4. Pending = 0
    BY <2>3 DEF Pending, Persisting, OneHandler
  <2>5. Pending' = 1
    <3>1. request'[t] # "telemetry"
      <4>1. done[t] < Len(Program[request[t]])
        BY <2>3 DEF IInv, WithinProgram
      <4>2. request' = request
        BY <1>3 DEF Store
      <4>3. ~(done[t] < 0)
        BY <1>0
      <4>4. request[t] # "telemetry"
        BY <4>1, <4>3, RunFacts
      <4> QED
        BY <4>2, <4>4
    <3>2. Persisting(t)'
      BY <1>0, <1>3, <3>1 DEF Store, Persisting
    <3> QED
      BY <3>2 DEF Pending
  <2>6. \A c \in Counters : counters'[c] \in Nat
    BY <1>0, <2>1 DEF Bump
  <2> QED
    BY <1>0, <2>2, <2>3, <2>4, <2>5, <2>6 DEF LagAccounted
<1>4. ASSUME NEW t \in Threads, Publish(t) PROVE LagAccounted'
  <2>1. /\ pc[t] = "replace" /\ t \in Actors
        /\ phase = "serving"
        /\ state' = tmp /\ counters' = counters /\ unsaved' = 0
    BY <1>0, <1>4 DEF Publish, Rename
  <2>2. state' = counters'
    BY <2>1 DEF OneWriter
  <2> QED
    BY <1>0, <1>p, <2>1, <2>2 DEF LagAccounted
<1>5. ASSUME NEW t \in Threads, ScanRaises(t) PROVE LagAccounted'
  <2>1. UNCHANGED <<phase, counters, state>>
    BY <1>5 DEF ScanRaises
  <2>2. Pending' = 0
    BY <1>0, <1>5 DEF ScanRaises, Raise, Pending, Persisting, OneHandler
  <2>3. CASE Persisting(t)
    <3>1. unsaved' = unsaved + 1 /\ Pending = 1
      BY <1>0, <1>5, <2>3 DEF ScanRaises, CountedBefore, Pending
    <3> QED
      BY <1>0, <2>1, <2>2, <3>1 DEF LagAccounted
  <2>4. CASE ~Persisting(t)
    <3>1. Pending = 0
      BY <2>4 DEF Pending, OneHandler
    <3>2. unsaved' \in Nat /\ unsaved <= unsaved'
      BY <1>0, <1>5 DEF ScanRaises
    <3> QED
      BY <1>0, <2>1, <2>2, <3>1, <3>2 DEF LagAccounted
  <2> QED
    BY <2>3, <2>4
<1>6. ASSUME NEW t \in Threads, PublishRaises(t) PROVE FALSE
  <2>1. phase = "serving" /\ pc[t] = "replace" /\ t \in Actors /\ tmp = Absent
    BY <1>0, <1>6 DEF PublishRaises
  <2>2. tmp \in Snapshots
    BY <1>0, <2>1 DEF OneWriter
  <2> QED
    BY <2>1, <2>2, ContentsAssumption
<1>7. ASSUME NEW a \in Actors, Copy(a) PROVE LagAccounted'
  <2>1. /\ phase' = phase
        /\ UNCHANGED <<counters, state, unsaved>>
        /\ phase = "serving" => a \in Threads
    BY <1>0, <1>7 DEF Copy, OneWriter, Actors
  <2>2. \A u \in Threads : Persisting(u)' <=> Persisting(u)
    BY <1>0, <1>7, <2>1 DEF Copy, Persisting
  <2> QED
    BY <1>a, <2>1, <2>2
<1>8. ASSUME NEW a \in Actors, Open(a) PROVE LagAccounted'
  <2>1. \A u \in Threads : Persisting(u)' <=> Persisting(u)
    BY <1>0, <1>8 DEF Open, Persisting
  <2> QED
    BY <1>8, <1>a, <2>1 DEF Open
<1>9. ASSUME NEW a \in Actors, Write(a) PROVE LagAccounted'
  <2>1. /\ phase = "serving" /\ pc[a] = "write"
        /\ UNCHANGED <<counters, unsaved>>
        /\ \A u \in Threads : Persisting(u)' <=> Persisting(u)
    BY <1>0, <1>9 DEF Write, Persisting
  <2>2. fd[a] = "tmp"
    BY <2>1 DEF OneWriter
  <2> QED
    BY <1>9, <1>a, <2>1, <2>2 DEF Write
<1>10. CASE Boot \/ Interrupt \/ MainExits \/ Kill
  BY <1>10 DEF Boot, Interrupt, MainExits, Kill, Ends
<1>11. CASE MainPublish
  <2>1. /\ pc[Main] = "replace" /\ phase = "boot"
        /\ state' = tmp /\ counters' = counters /\ unsaved' = 0
    BY <1>11 DEF MainPublish, Rename
  <2>2. state' = counters'
    BY <1>0, <2>1 DEF OneWriter
  <2> QED
    BY <1>0, <1>p, <2>1, <2>2 DEF LagAccounted
<1>12. CASE UNCHANGED vars
  BY <1>12, <1>a DEF vars, Persisting
<1> HIDE DEF Goto, memory, storage
<1> QED
  BY <1>1, <1>2, <1>3, <1>4, <1>5, <1>6, <1>7, <1>8, <1>9, <1>10, <1>11, <1>12
  DEF Next, HandlerStep, MainStep, Actors

\* With one request at a time a server has a whole state.json while it serves,
\* which lacks no count but those of requests that a vanished artifact made it
\* refuse, at most one each; whatever vanishes, and over kills, interrupts and
\* restarts (persist_state, evidence_summary, serve).
THEOREM StateStaysCurrent ==
  ASSUME OneHandler
  PROVE  Spec => []StateCurrent
<1>1. Init => OneWriter /\ CountedBefore /\ LagAccounted
  BY DEF Init, OneWriter, CountedBefore, Persisting, LagAccounted, Resting,
         Unused, Actors
<1>2. IInv /\ OneWriter /\ CountedBefore /\ LagAccounted /\ [Next]_vars
        => OneWriter' /\ CountedBefore' /\ LagAccounted'
  BY WriterStep, CountedStep, LagAccountedStep
<1>3. IInv /\ LagAccounted => StateCurrent
  <2> SUFFICES ASSUME IInv, LagAccounted, phase = "serving"
               PROVE  /\ state \in Snapshots
                      /\ (\A t \in Threads : pc[t] \in {"idle", "stage"})
                           => \A c \in Counters :
                                /\ state[c] <= counters[c]
                                /\ counters[c] <= state[c] + unsaved
    BY DEF StateCurrent
  <2>1. state \in Snapshots
    BY DEF LagAccounted
  <2>2. \A c \in Counters : state[c] <= counters[c]
    BY <2>1, ContentsAssumption DEF IInv, CopiesLag, Lags
  <2>3. ASSUME \A t \in Threads : pc[t] \in {"idle", "stage"}
        PROVE  \A c \in Counters : counters[c] <= state[c] + unsaved
    <3>1. Pending = 0
      BY <2>3 DEF Pending, Persisting
    <3>2. unsaved \in Nat /\ \A c \in Counters : state[c] \in Nat
      BY <2>1 DEF IInv, TypeOK, Snapshots
    <3> QED
      BY <3>1, <3>2 DEF LagAccounted
  <2> QED
    BY <2>1, <2>2, <2>3
<1> QED
  BY <1>1, <1>2, <1>3, InvariantHolds, PTL DEF Spec
=============================================================================
