--------------------------- MODULE ManifoldPipeline ---------------------------
(***************************************************************************)
(* The shell pipeline of src/neural-interface/README.md:                   *)
(*                                                                         *)
(*    manifold_encrypt.py | manifold_gate.py | open_connector.py           *)
(*                                                                         *)
(* A sender numbers and seals lines, the gate (module ManifoldGate)        *)
(* verifies and records them, the connector observes what the gate hands   *)
(* over.  The sender keeps its session and sequence in memory only; frames *)
(* can be damaged on the wire or fed to the gate a second time; when the   *)
(* gate dies its input is lost and the sender dies of the broken pipe.     *)
(***************************************************************************)
EXTENDS Integers, Sequences, SequencesExt

CONSTANTS
  Keys, Payloads, MaxSeq, MaxCrashes, NoLine,   \* as in ManifoldGate
  NoSession,   \* no sender is running
  MaxSealed,   \* bound: frames sealed
  MaxDamaged,  \* bound: frames damaged on the wire
  MaxResent    \* bound: frames fed to the gate again

VARIABLES
  log, torn, head, replay, pc, accepted, prev, line, handoffs, minted, crashes,
  session,   \* session of the running sender
  sequence,  \* its next sequence number
  sealed,    \* every frame sealed so far, in order
  wire,      \* lines between sender and gate
  observed,  \* frames the connector has reported, in order
  damaged, resent

Gate == INSTANCE ManifoldGate

\* Those of the gate, and a session is not the absence of one.
ASSUME PipelineAssumption ==
  /\ MaxSeq \in Nat /\ MaxCrashes \in Nat
  /\ NoLine \notin Gate!Lines
  /\ NoSession \notin Keys

gate == <<log, torn, head, replay, pc, accepted, prev, line, handoffs, minted,
          crashes>>
sender == <<session, sequence, sealed>>
mishaps == <<damaged, resent>>
vars == <<gate, sender, wire, observed, mishaps>>

Sealed == ToSet(sealed)
Observed == ToSet(observed)

Init ==
  /\ Gate!Init
  /\ session = NoSession
  /\ sequence = 0
  /\ sealed = <<>>
  /\ wire = <<>>
  /\ observed = <<>>
  /\ damaged = 0
  /\ resent = 0

-----------------------------------------------------------------------------
(* The sender                                                              *)

\* A sender draws a random session or is given one with --session-id, which
\* may have been used before; it numbers from 0 or from --start-sequence.
StartSender ==
  /\ session = NoSession
  /\ Len(sealed) < MaxSealed
  /\ session' \in Keys
  /\ sequence' \in 0 .. MaxSeq
  /\ UNCHANGED <<gate, sealed, wire, observed, mishaps>>

Seal ==
  /\ session # NoSession
  /\ sequence <= MaxSeq
  /\ Len(sealed) < MaxSealed
  /\ \E p \in Payloads :
       LET f == [key |-> session, seq |-> sequence, payload |-> p] IN
       /\ sealed' = Append(sealed, f)
       /\ wire' = Append(wire, [frame |-> f, intact |-> TRUE])
  /\ sequence' = sequence + 1
  /\ UNCHANGED <<gate, session, observed, mishaps>>

StopSender ==
  /\ session # NoSession
  /\ session' = NoSession
  /\ sequence' = 0
  /\ UNCHANGED <<gate, sealed, wire, observed, mishaps>>

-----------------------------------------------------------------------------
(* The wire                                                                *)

\* Any field of a line may change; the authentication tag then fails.
Damage ==
  /\ damaged < MaxDamaged
  /\ \E i \in DOMAIN wire, f \in Gate!Frames :
       wire' = [wire EXCEPT ![i] = [frame |-> f, intact |-> FALSE]]
  /\ damaged' = damaged + 1
  /\ UNCHANGED <<gate, sender, observed, resent>>

\* A recorded frame is fed to the gate once more.
Resend ==
  /\ resent < MaxResent
  /\ \E f \in Sealed : wire' = Append(wire, [frame |-> f, intact |-> TRUE])
  /\ resent' = resent + 1
  /\ UNCHANGED <<gate, sender, observed, damaged>>

-----------------------------------------------------------------------------
(* The gate                                                                *)

GateReads ==
  /\ wire # <<>>
  /\ Gate!ReadLine
  /\ line' = Head(wire)
  /\ wire' = Tail(wire)
  /\ UNCHANGED <<sender, observed, mishaps>>

GateWorks ==
  /\ Gate!Start \/ Gate!Refuse \/ Gate!HandleLine
  /\ UNCHANGED <<sender, wire, observed, mishaps>>

\* Its input is at an end only when nobody is left to write to it.
GateExits ==
  /\ session = NoSession
  /\ wire = <<>>
  /\ Gate!EndOfInput
  /\ UNCHANGED <<sender, wire, observed, mishaps>>

GateDies ==
  /\ Gate!Crash \/ Gate!CrashWhileAppending
  /\ wire' = <<>>
  /\ session' = NoSession
  /\ sequence' = 0
  /\ UNCHANGED <<sealed, observed, mishaps>>

-----------------------------------------------------------------------------
(* The connector: a verified handoff of this manifold with a matching      *)
(* payload hash, which is all the gate prints.                             *)

Observe ==
  /\ Len(observed) < Len(handoffs)
  /\ observed' = Append(observed, handoffs[Len(observed) + 1].frame)
  /\ UNCHANGED <<gate, sender, wire, mishaps>>

-----------------------------------------------------------------------------

Next ==
  \/ StartSender \/ Seal \/ StopSender
  \/ Damage \/ Resend
  \/ GateReads \/ GateWorks \/ GateExits \/ GateDies
  \/ Observe

Spec == Init /\ [][Next]_vars

\* The gate and the connector are sequential loops over their input, and the
\* pipeline is running.
FairSpec ==
  /\ Spec
  /\ WF_vars(GateReads) /\ WF_vars(GateWorks) /\ WF_vars(Observe)

-----------------------------------------------------------------------------
(* Safety                                                                  *)

\* The connector reports and the log records only what a sender sealed, payload
\* and metadata together, and the connector each number of a session once and
\* in order, although frames are
\* damaged, repeated and interrupted by crashes, and although a restarted
\* sender may number other payloads alike.
ObservedAsSealed ==
  /\ Observed \subseteq Sealed
  /\ {log[i].frame : i \in DOMAIN log} \subseteq Sealed
  /\ \A i, j \in DOMAIN observed :
       i < j /\ observed[i].key = observed[j].key
         => observed[i].seq < observed[j].seq

-----------------------------------------------------------------------------
(* Liveness                                                                *)

\* A number that is higher than all that were sealed before it for its session.
Advances(i) ==
  \A j \in 1 .. i - 1 :
    sealed[j].key = sealed[i].key => sealed[j].seq < sealed[i].seq

\* Without crash and damage every frame that advances its session is observed,
\* from whatever number its sender starts, over gaps between senders and also
\* when frames are fed to the gate a second time.  One whose sender has started
\* below a number of its session is, as replay protection has it, not.
SealedIsObserved ==
  \A i \in 1 .. MaxSealed :
    i \in DOMAIN sealed /\ Advances(i)
      ~> \/ i \in DOMAIN sealed /\ sealed[i] \in Observed
         \/ crashes > 0 \/ damaged > 0
=============================================================================
