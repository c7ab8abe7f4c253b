----------------------- MODULE ManifoldPipelineProofs -----------------------
(***************************************************************************)
(* Proofs about the pipeline, for any sessions, payloads and bounds on     *)
(* frames, damage, redelivery and crashes.  What the gate does in the      *)
(* pipeline is what it does alone, so that its theorems hold here; to them *)
(* comes where a frame is between the sender and the connector.            *)
(***************************************************************************)
EXTENDS ManifoldPipeline, TLAPS

P == INSTANCE ManifoldGateProofs

-----------------------------------------------------------------------------
(* The gate in the pipeline                                                *)

\* The gate of the pipeline and the gate of its proofs are one.
LEMMA SameGate ==
  /\ Gate!Init => P!Init
  /\ Gate!Next => P!Next
  /\ UNCHANGED Gate!vars => UNCHANGED P!vars
<1>1. Gate!Init => P!Init
  BY DEF Gate!Init, P!Init, Gate!NoSequence, P!NoSequence, Gate!Never, P!Never,
     Gate!NoMarble, P!NoMarble
<1>2. UNCHANGED Gate!vars => UNCHANGED P!vars
  BY DEF Gate!vars, P!vars
<1>3. Gate!Next => P!Next
  BY DEF Gate!Next, P!Next, Gate!HandleLine, P!HandleLine, Gate!Start, P!Start,
     Gate!Refuse, P!Refuse, Gate!ReadLine, P!ReadLine, Gate!Reject, P!Reject,
     Gate!MintMarble, P!MintMarble, Gate!AppendMarble, P!AppendMarble,
     Gate!WriteHead, P!WriteHead, Gate!AcceptSequence, P!AcceptSequence,
     Gate!Handoff, P!Handoff, Gate!EndOfInput, P!EndOfInput, Gate!Crash, P!Crash,
     Gate!CrashWhileAppending, P!CrashWhileAppending, Gate!Die, P!Die, Gate!Exit,
     P!Exit, Gate!files, P!files, Gate!EvidenceOk, P!EvidenceOk, Gate!LogTail,
     P!LogTail, Gate!Verified, P!Verified, Gate!Fresh, P!Fresh, Gate!Marble,
     P!Marble, Gate!Lines, P!Lines, Gate!Frames, P!Frames, Gate!Stopped, P!Stopped,
     Gate!Running, P!Running, Gate!NoSequence, P!NoSequence, Gate!Never, P!Never,
     Gate!NoMarble, P!NoMarble
<1> QED
  BY <1>1, <1>2, <1>3

\* The pipeline runs the gate, and nothing but the gate touches its files, its
\* memory and its output: damage, redelivery and a dying sender are its input.
THEOREM PipelineRunsTheGate == Spec => Gate!Spec
<1>1. Init => Gate!Init
  BY DEF Init
<1>2. [Next]_vars => [Gate!Next]_Gate!vars
  BY DEF Next, StartSender, Seal, StopSender, Damage, Resend, GateReads, GateWorks,
     GateExits, GateDies, Observe, Gate!Next, vars, gate, Gate!vars
<1> QED
  BY <1>1, <1>2, PTL DEF Spec, Gate!Spec

\* What is proved of the gate holds of the gate of the pipeline.
LEMMA GateInvariant == Spec => []P!IInv
<1>1. Gate!Spec => P!Spec
  BY SameGate, PTL DEF Gate!Spec, P!Spec
<1>2. P!BoundsAssumption /\ P!NoLineAssumption
  BY PipelineAssumption DEF P!Lines, Gate!Lines, P!Frames, Gate!Frames
<1>3. P!Spec => []P!IInv
  BY <1>2, P!InvariantHolds
<1> QED
  BY <1>1, <1>3, PipelineRunsTheGate, PTL

-----------------------------------------------------------------------------
(* The way of a frame                                                      *)

SenderType ==
  /\ sealed \in Seq(Gate!Frames)
  /\ wire \in Seq(Gate!Lines)
  /\ session \in Keys \union {NoSession}
  /\ sequence \in Nat

\* A line that would pass the authentication was sealed.
WireGenuine ==
  \A i \in DOMAIN wire : wire[i].intact => wire[i].frame \in Sealed

\* So is the one that the gate has read, and the one that it has verified.
LineGenuine ==
  /\ pc = "verify" /\ line.intact => line.frame \in Sealed
  /\ pc \in {"append", "head", "replay", "handoff"} => line.frame \in Sealed

RecordsGenuine ==
  /\ \A i \in DOMAIN log : log[i].frame \in Sealed
  /\ \A i \in DOMAIN handoffs : handoffs[i].frame \in Sealed

\* The connector has seen the first handoffs, in their order.
ObservedInTurn ==
  /\ observed \in Seq(Gate!Frames)
  /\ Len(observed) <= Len(handoffs)
  /\ \A i \in DOMAIN observed : observed[i] = handoffs[i].frame

Genuine ==
  /\ SenderType /\ WireGenuine /\ LineGenuine /\ RecordsGenuine /\ ObservedInTurn

\* What Append leaves as it was, and what it adds.
LEMMA AppendFacts ==
  ASSUME NEW S, NEW s \in Seq(S), NEW e \in S
  PROVE  /\ Append(s, e) \in Seq(S) /\ Len(Append(s, e)) = Len(s) + 1
         /\ Len(s) \in Nat
         /\ DOMAIN s = 1 .. Len(s) /\ DOMAIN Append(s, e) = 1 .. Len(s) + 1
         /\ \A i \in DOMAIN s : Append(s, e)[i] = s[i]
         /\ Append(s, e)[Len(s) + 1] = e
  OBVIOUS

\* An element of a sequence.
LEMMA ElementFacts ==
  ASSUME NEW S, NEW s \in Seq(S), NEW i \in DOMAIN s
  PROVE  s[i] \in S
  OBVIOUS

\* What has been sealed stays sealed, and what is appended is sealed with it.
LEMMA SealedGrows ==
  ASSUME NEW S, NEW s \in Seq(S), NEW e \in S
  PROVE  ToSet(Append(s, e)) = ToSet(s) \union {e}
  BY AppendFacts DEF ToSet

\* Nothing is sealed, recorded or observed before the pipeline starts.
LEMMA GenuineInit == Init => Genuine
<1> SUFFICES ASSUME Init PROVE Genuine
  OBVIOUS
<1>1. /\ session = NoSession /\ sequence = 0 /\ sealed = <<>> /\ wire = <<>>
      /\ observed = <<>> /\ log = <<>> /\ handoffs = <<>> /\ pc = "down"
  BY DEF Init, Gate!Init
<1> QED
  BY <1>1 DEF Genuine, SenderType, WireGenuine, LineGenuine, RecordsGenuine,
     ObservedInTurn

\* Steps beside the gate: what is sealed and what is on the wire only grows.
LEMMA SenderSteps ==
  ASSUME Genuine, P!IInv, UNCHANGED <<gate, observed>>,
         Sealed \subseteq Sealed', SenderType', WireGenuine'
  PROVE  Genuine'
<1>1. UNCHANGED <<log, handoffs, pc, line, observed>>
  BY DEF gate
<1>2. LineGenuine' /\ RecordsGenuine'
  BY <1>1 DEF Genuine, LineGenuine, RecordsGenuine
<1>3. ObservedInTurn'
  BY <1>1 DEF Genuine, ObservedInTurn
<1> QED
  BY <1>2, <1>3 DEF Genuine

LEMMA GenuineStep == Genuine /\ P!IInv /\ [Next]_vars => Genuine'
<1> SUFFICES ASSUME Genuine, P!IInv, [Next]_vars PROVE Genuine'
  OBVIOUS
<1>t. /\ log \in Seq(P!Marbles) /\ handoffs \in Seq([id : Nat, frame : P!Frames])
      /\ P!Frames = Gate!Frames /\ Gate!Lines = P!Lines
      /\ pc \in {"verify", "append", "head", "replay", "handoff"} => line \in P!Lines
  BY DEF P!IInv, P!TypeOK, P!LineFresh, P!Frames, Gate!Frames, Gate!Lines, P!Lines
<1>1. CASE UNCHANGED vars
  <2>1. UNCHANGED <<gate, observed, sealed, wire, session, sequence>>
    BY <1>1 DEF vars, sender
  <2> QED
    BY <2>1, SenderSteps DEF Genuine, SenderType, WireGenuine, Sealed
<1>2. CASE StartSender \/ StopSender
  <2>1. /\ UNCHANGED <<gate, observed, sealed, wire>>
        /\ session' \in Keys \union {NoSession} /\ sequence' \in Nat
    BY <1>2, PipelineAssumption DEF StartSender, StopSender
  <2> QED
    BY <2>1, SenderSteps DEF Genuine, SenderType, WireGenuine, Sealed
<1>3. CASE Seal
  <2>1. PICK p \in Payloads :
          LET f == [key |-> session, seq |-> sequence, payload |-> p] IN
          /\ sealed' = Append(sealed, f)
          /\ wire' = Append(wire, [frame |-> f, intact |-> TRUE])
    BY <1>3 DEF Seal
  <2> DEFINE f == [key |-> session, seq |-> sequence, payload |-> p]
             l == [frame |-> f, intact |-> TRUE]
  <2>2. /\ UNCHANGED <<gate, observed, session>> /\ sequence' = sequence + 1
        /\ session \in Keys /\ sequence \in 0 .. MaxSeq
    BY <1>3, PipelineAssumption DEF Seal, Genuine, SenderType
  <2>3. f \in Gate!Frames /\ l \in Gate!Lines /\ l.frame = f
    BY <2>2 DEF Gate!Frames, Gate!Lines
  <2>4. sealed' = Append(sealed, f) /\ wire' = Append(wire, l)
    BY <2>1
  <2> HIDE DEF f, l
  <2>5. sealed \in Seq(Gate!Frames) /\ wire \in Seq(Gate!Lines)
    BY DEF Genuine, SenderType
  <2>6. Sealed' = Sealed \union {f}
    BY <2>3, <2>4, <2>5, SealedGrows DEF Sealed
  <2>7. SenderType'
    BY <2>2, <2>3, <2>4, <2>5, AppendFacts DEF Genuine, SenderType
  <2>8. WireGenuine'
    BY <2>3, <2>4, <2>5, <2>6, AppendFacts DEF Genuine, WireGenuine
  <2> QED
    BY <2>2, <2>6, <2>7, <2>8, SenderSteps
<1>4. CASE Damage
  <2>1. PICK i \in DOMAIN wire, f \in Gate!Frames :
          wire' = [wire EXCEPT ![i] = [frame |-> f, intact |-> FALSE]]
    BY <1>4 DEF Damage
  <2> DEFINE l == [frame |-> f, intact |-> FALSE]
  <2>2. UNCHANGED <<gate, observed, sealed, session, sequence>>
    BY <1>4 DEF Damage, sender
  <2>3. l \in Gate!Lines /\ ~l.intact /\ wire' = [wire EXCEPT ![i] = l]
    BY <2>1 DEF Gate!Lines
  <2> HIDE DEF l
  <2>4. wire \in Seq(Gate!Lines)
    BY DEF Genuine, SenderType
  <2>5. /\ wire' \in Seq(Gate!Lines) /\ DOMAIN wire' = DOMAIN wire /\ wire'[i] = l
        /\ \A j \in DOMAIN wire : j # i => wire'[j] = wire[j]
    BY <2>3, <2>4
  <2>6. SenderType' /\ WireGenuine'
    BY <2>2, <2>3, <2>5 DEF Genuine, SenderType, WireGenuine, Sealed
  <2> QED
    BY <2>2, <2>6, SenderSteps DEF Sealed
<1>5. CASE Resend
  <2>1. PICK f \in Sealed : wire' = Append(wire, [frame |-> f, intact |-> TRUE])
    BY <1>5 DEF Resend
  <2> DEFINE l == [frame |-> f, intact |-> TRUE]
  <2>2. UNCHANGED <<gate, observed, sealed, session, sequence>>
    BY <1>5 DEF Resend, sender
  <2>3. sealed \in Seq(Gate!Frames) /\ wire \in Seq(Gate!Lines)
    BY DEF Genuine, SenderType
  <2>4. f \in Gate!Frames
    BY <2>3 DEF Sealed, ToSet
  <2>5. l \in Gate!Lines /\ l.frame = f /\ wire' = Append(wire, l)
    BY <2>1, <2>4 DEF Gate!Lines
  <2> HIDE DEF l
  <2>6. SenderType' /\ WireGenuine'
    BY <2>2, <2>3, <2>5, AppendFacts DEF Genuine, SenderType, WireGenuine, Sealed
  <2> QED
    BY <2>2, <2>6, SenderSteps DEF Sealed
<1>6. CASE GateReads
  <2>1. /\ pc' = "verify" /\ line' = Head(wire) /\ wire' = Tail(wire) /\ wire # <<>>
        /\ UNCHANGED <<log, handoffs, observed, sealed, session, sequence>>
    BY <1>6 DEF GateReads, Gate!ReadLine, Gate!files, sender
  <2>2. wire \in Seq(Gate!Lines)
    BY DEF Genuine, SenderType
  <2>3. /\ Tail(wire) \in Seq(Gate!Lines)
        /\ 1 \in DOMAIN wire /\ Head(wire) = wire[1]
        /\ \A i \in DOMAIN Tail(wire) : i + 1 \in DOMAIN wire /\ Tail(wire)[i] = wire[i + 1]
    BY <2>1, <2>2
  <2>4. SenderType' /\ WireGenuine'
    BY <2>1, <2>3 DEF Genuine, SenderType, WireGenuine, Sealed
  <2>5. LineGenuine'
    BY <2>1, <2>3 DEF Genuine, WireGenuine, LineGenuine, Sealed
  <2>6. RecordsGenuine' /\ ObservedInTurn'
    BY <2>1 DEF Genuine, RecordsGenuine, ObservedInTurn, Sealed
  <2> QED
    BY <2>4, <2>5, <2>6 DEF Genuine
<1>7. ASSUME wire' \in {wire, <<>>}, session' \in {session, NoSession},
             sequence' \in {sequence, 0}, UNCHANGED <<sealed, observed>>,
             LineGenuine', RecordsGenuine',
             \/ handoffs' = handoffs
             \/ pc = "handoff" /\ handoffs' = Append(handoffs, [id |-> minted, frame |-> line.frame])
      PROVE  Genuine'
  <2>1. SenderType' /\ WireGenuine'
    <3>1. CASE wire' = wire
      BY <1>7, <3>1 DEF Genuine, SenderType, WireGenuine, Sealed
    <3>2. CASE wire' = <<>>
      <4>1. wire' \in Seq(Gate!Lines) /\ DOMAIN wire' = {}
        BY <3>2
      <4> QED
        BY <1>7, <4>1 DEF Genuine, SenderType, WireGenuine
    <3> QED
      BY <1>7, <3>1, <3>2
  <2>2. ObservedInTurn'
    <3>1. CASE handoffs' = handoffs
      BY <1>7, <3>1 DEF Genuine, ObservedInTurn
    <3>2. CASE pc = "handoff" /\ handoffs' = Append(handoffs, [id |-> minted, frame |-> line.frame])
      <4>1. [id |-> minted, frame |-> line.frame] \in [id : Nat, frame : P!Frames]
        BY <3>2, <1>t DEF P!IInv, P!TypeOK, P!Lines
      <4>2. /\ Len(handoffs') = Len(handoffs) + 1 /\ Len(handoffs) \in Nat
            /\ \A i \in DOMAIN handoffs : handoffs'[i] = handoffs[i]
        BY <1>t, <3>2, <4>1, AppendFacts
      <4>3. \A i \in DOMAIN observed : i \in DOMAIN handoffs
        BY <1>t, <4>2 DEF Genuine, ObservedInTurn
      <4> QED
        BY <1>7, <4>2, <4>3 DEF Genuine, ObservedInTurn
    <3> QED
      BY <1>7, <3>1, <3>2
  <2> QED
    BY <1>7, <2>1, <2>2 DEF Genuine
<1>8. CASE GateWorks
  <2>1. UNCHANGED <<wire, session, sequence, sealed, observed>>
    BY <1>8 DEF GateWorks, sender
  <2>2. CASE Gate!Start \/ Gate!Refuse \/ Gate!Reject
    <3>1. UNCHANGED <<log, handoffs>> /\ pc' \in {"ready", "refused"}
      BY <2>2 DEF Gate!Start, Gate!Refuse, Gate!Reject, Gate!files
    <3>2. LineGenuine' /\ RecordsGenuine'
      BY <2>1, <3>1 DEF Genuine, LineGenuine, RecordsGenuine, Sealed
    <3> QED
      BY <1>7, <2>1, <3>1, <3>2
  <2>3. CASE Gate!MintMarble \/ Gate!WriteHead \/ Gate!AcceptSequence
    <3>1. /\ UNCHANGED <<log, handoffs, line>>
          /\ \/ pc = "verify" /\ line.intact
             \/ pc \in {"head", "replay"}
      BY <2>3 DEF Gate!MintMarble, Gate!WriteHead, Gate!AcceptSequence, Gate!files,
         Gate!Verified
    <3>2. line.frame \in Sealed
      BY <3>1 DEF Genuine, LineGenuine
    <3>3. LineGenuine' /\ RecordsGenuine'
      BY <2>1, <3>1, <3>2 DEF Genuine, LineGenuine, RecordsGenuine, Sealed
    <3> QED
      BY <1>7, <2>1, <3>1, <3>3
  <2>4. CASE Gate!AppendMarble
    <3> DEFINE m == Gate!Marble
    <3>1. /\ pc = "append" /\ log' = Append(log, m) /\ UNCHANGED <<handoffs, line>>
          /\ m.frame = line.frame
      BY <2>4 DEF Gate!AppendMarble, Gate!Marble
    <3>2. line.frame \in Sealed /\ m \in P!Marbles
      BY <3>1, <1>t DEF Genuine, LineGenuine, Gate!Marble, P!Marbles, P!IInv, P!TypeOK,
         P!Lines
    <3> HIDE DEF m
    <3>3. \A i \in DOMAIN log' : log'[i].frame \in Sealed
      BY <1>t, <3>1, <3>2, AppendFacts DEF Genuine, RecordsGenuine
    <3>4. LineGenuine' /\ RecordsGenuine'
      BY <2>1, <3>1, <3>2, <3>3 DEF Genuine, LineGenuine, RecordsGenuine, Sealed
    <3> QED
      BY <1>7, <2>1, <3>1, <3>4
  <2>5. CASE Gate!Handoff
    <3> DEFINE h == [id |-> minted, frame |-> line.frame]
    <3>1. pc = "handoff" /\ handoffs' = Append(handoffs, h) /\ pc' = "ready" /\ log' = log
      BY <2>5 DEF Gate!Handoff, Gate!files
    <3>2. h.frame \in Sealed /\ h \in [id : Nat, frame : P!Frames]
      BY <3>1, <1>t DEF Genuine, LineGenuine, P!IInv, P!TypeOK, P!Lines
    <3>3. \A i \in DOMAIN handoffs' : handoffs'[i].frame \in Sealed
      <4> HIDE DEF h
      <4> QED
        BY <1>t, <3>1, <3>2, AppendFacts DEF Genuine, RecordsGenuine
    <3>4. LineGenuine' /\ RecordsGenuine'
      BY <2>1, <3>1, <3>3 DEF Genuine, LineGenuine, RecordsGenuine, Sealed
    <3> QED
      BY <1>7, <2>1, <3>1, <3>4
  <2> QED
    BY <1>8, <2>2, <2>3, <2>4, <2>5 DEF GateWorks, Gate!HandleLine
<1>9. CASE GateExits \/ GateDies
  <2>1. /\ wire' \in {wire, <<>>} /\ session' \in {session, NoSession}
        /\ sequence' \in {sequence, 0}
        /\ pc' = "down" /\ UNCHANGED <<log, handoffs, sealed, observed>>
    BY <1>9 DEF GateExits, GateDies, Gate!EndOfInput, Gate!Crash,
       Gate!CrashWhileAppending, Gate!Die, Gate!Exit, Gate!files, sender
  <2>2. LineGenuine' /\ RecordsGenuine'
    BY <2>1 DEF Genuine, LineGenuine, RecordsGenuine, Sealed
  <2> QED
    BY <1>7, <2>1, <2>2
<1>10. CASE Observe
  <2> DEFINE n == Len(observed) + 1
  <2>1. /\ Len(observed) < Len(handoffs) /\ observed' = Append(observed, handoffs[n].frame)
        /\ UNCHANGED <<log, handoffs, pc, line, sealed, wire, session, sequence>>
    BY <1>10 DEF Observe, gate, sender
  <2>2. observed \in Seq(Gate!Frames) /\ n \in DOMAIN handoffs
    BY <1>t, <2>1 DEF Genuine, ObservedInTurn
  <2>3. handoffs[n].frame \in Gate!Frames
    <3>1. handoffs[n] \in [id : Nat, frame : P!Frames]
      BY <1>t, <2>2, ElementFacts
    <3> QED
      BY <1>t, <3>1
  <2>4. ObservedInTurn'
    BY <1>t, <2>1, <2>2, <2>3, AppendFacts DEF Genuine, ObservedInTurn
  <2>5. SenderType' /\ WireGenuine' /\ LineGenuine' /\ RecordsGenuine'
    BY <2>1 DEF Genuine, SenderType, WireGenuine, LineGenuine, RecordsGenuine, Sealed
  <2> QED
    BY <2>4, <2>5 DEF Genuine
<1> QED
  BY <1>1, <1>2, <1>3, <1>4, <1>5, <1>6, <1>8, <1>9, <1>10 DEF Next

\* The connector reports and the log records only what a sender sealed, and the
\* connector each number of a session once and in order, whatever is damaged, fed
\* again, killed and restarted (the pipeline of src/neural-interface/README.md).
THEOREM WhatIsObservedWasSealed == Spec => []ObservedAsSealed
<1>1. Genuine /\ P!IInv => ObservedAsSealed
  <2> SUFFICES ASSUME Genuine, P!IInv PROVE ObservedAsSealed
    OBVIOUS
  <2>1. /\ handoffs \in Seq([id : Nat, frame : P!Frames])
        /\ observed \in Seq(Gate!Frames)
        /\ Len(observed) <= Len(handoffs)
    BY DEF P!IInv, P!TypeOK, Genuine, ObservedInTurn
  <2>2. \A i \in DOMAIN observed : i \in DOMAIN handoffs /\ observed[i] = handoffs[i].frame
    BY <2>1 DEF Genuine, ObservedInTurn
  <2>3. Observed \subseteq Sealed
    BY <2>2 DEF Observed, ToSet, Genuine, RecordsGenuine
  <2>4. \A i, j \in DOMAIN observed :
          i < j /\ observed[i].key = observed[j].key
            => observed[i].seq < observed[j].seq
    BY <2>2 DEF P!IInv, P!HandoffInOrder
  <2> QED
    BY <2>3, <2>4 DEF ObservedAsSealed, Genuine, RecordsGenuine
<1> QED
  BY <1>1, GenuineInit, GenuineStep, GateInvariant, PTL DEF Spec
=============================================================================
