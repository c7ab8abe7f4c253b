---------------------------- MODULE ManifoldGate ----------------------------
(***************************************************************************)
(* The authenticated ingress of EDEN-MANIFOLD-NI-001                       *)
(* (src/neural-interface/manifold_gate.py): one process that reads frames  *)
(* line by line, verifies each, and advances three files before it hands   *)
(* the payload over:                                                       *)
(*                                                                         *)
(*    log      the Marble log, appended and fsynced      (append_marble)   *)
(*    head     the id of the newest Marble, replaced     (write_head)      *)
(*    replay   the newest sequence per source/session    (atomic_write_    *)
(*             pair, replaced                             json)            *)
(*                                                                         *)
(* The process can be killed between any two of these writes and inside    *)
(* the append, and is then started again on the same files.                *)
(*                                                                         *)
(* Abstractions.  A source/session pair is an element of Keys.  A Marble's *)
(* SHA-256 covers its predecessor and a timestamp, so it is a number that  *)
(* is never given twice.  Decoding, decryption and the comparison of the   *)
(* authenticated metadata either all succeed (an intact line) or reject    *)
(* the line before any state is consulted.                                 *)
(***************************************************************************)
EXTENDS Integers, Sequences, FiniteSets, SequencesExt

CONSTANTS
  Keys,        \* source/session pairs
  Payloads,    \* plaintexts
  MaxSeq,      \* bound: sequence numbers are 0 .. MaxSeq
  MaxCrashes,  \* bound: how often the process is killed
  NoLine       \* no line is being processed

ASSUME BoundsAssumption == MaxSeq \in Nat /\ MaxCrashes \in Nat

Frames == [key : Keys, seq : 0 .. MaxSeq, payload : Payloads]
Lines == [frame : Frames, intact : BOOLEAN]

ASSUME NoLineAssumption == NoLine \notin Lines

Never == -1     \* no sequence of the pair has been accepted
NoMarble == 0   \* prev_sha is None; the head file is missing

NoSequence == [k \in Keys |-> Never]

Marbles == [id : Nat, prev : Nat, frame : Frames]

VARIABLES
  \* files
  log,       \* the complete lines of the Marble log
  torn,      \* the log ends in an incomplete line
  head,      \* the id in the head file
  replay,    \* the replay-state file
  \* the process
  pc,        \* what it does next
  accepted,  \* replay_state
  prev,      \* prev_sha
  line,      \* the line being processed
  \* its output and its history
  handoffs,  \* Marble and frame of each verified handoff printed
  minted,    \* ids given so far
  crashes

files == <<log, torn, head, replay>>
vars == <<log, torn, head, replay, pc, accepted, prev, line, handoffs,
          minted, crashes>>

Running == {"ready", "verify", "append", "head", "replay", "handoff"}
Stopped == {"down", "refused"}

TypeOK ==
  /\ log \in Seq(Marbles)
  /\ torn \in BOOLEAN
  /\ head \in Nat
  /\ replay \in [Keys -> Never .. MaxSeq]
  /\ pc \in Running \union Stopped
  /\ accepted \in [Keys -> Never .. MaxSeq]
  /\ prev \in Nat
  /\ line \in Lines \union {NoLine}
  /\ handoffs \in Seq([id : Nat, frame : Frames])
  /\ minted \in Nat
  /\ crashes \in 0 .. MaxCrashes

Init ==
  /\ log = <<>>
  /\ torn = FALSE
  /\ head = NoMarble
  /\ replay = NoSequence
  /\ pc = "down"
  /\ accepted = NoSequence
  /\ prev = NoMarble
  /\ line = NoLine
  /\ handoffs = <<>>
  /\ minted = 0
  /\ crashes = 0

-----------------------------------------------------------------------------
(* Start-up: load_prev cross-checks the head with the last log line.       *)

LogTail == IF log = <<>> THEN NoMarble ELSE log[Len(log)].id

\* Mutation: the head is believed without a look at the log.
EvidenceOkHeadAlone == ~torn

\* Mutation: a last line that cannot be read is passed over.
EvidenceOkTornIgnored == head = LogTail

EvidenceOk == ~torn /\ head = LogTail

Start ==
  /\ pc \in Stopped
  /\ EvidenceOk
  /\ pc' = "ready"
  /\ prev' = head
  /\ accepted' = replay
  /\ UNCHANGED <<files, line, handoffs, minted, crashes>>

\* EvidenceStateError: exit status 2, and again on every later attempt.
Refuse ==
  /\ pc \in Stopped
  /\ ~EvidenceOk
  /\ pc' = "refused"
  /\ UNCHANGED <<files, accepted, prev, line, handoffs, minted, crashes>>

-----------------------------------------------------------------------------
(* One line of standard input.  The sender and the transport may repeat,   *)
(* reorder, skip or damage frames, and a restarted sender may use a        *)
(* sequence number again for another payload.                              *)

ReadLine ==
  /\ pc = "ready"
  /\ line' \in Lines
  /\ pc' = "verify"
  /\ UNCHANGED <<files, accepted, prev, handoffs, minted, crashes>>

\* Mutation: < instead of <= in the comparison that rejects.
FreshOrEqual(f) == f.seq >= accepted[f.key]

\* Mutation: a pair that is not in the replay state counts as one at 0.
FreshFromOne(f) == f.seq > accepted[f.key] /\ f.seq > 0

Fresh(f) == f.seq > accepted[f.key]

\* Mutation: only the successor of the newest sequence passes.
VerifiedConsecutive(l) ==
  l.intact /\ l.frame.seq = accepted[l.frame.key] + 1

\* Mutation: the authentication tag is not looked at.
VerifiedUnauthenticated(l) == Fresh(l.frame)

Verified(l) == l.intact /\ Fresh(l.frame)

Reject ==
  /\ pc = "verify"
  /\ ~Verified(line)
  /\ pc' = "ready"
  /\ line' = NoLine
  /\ UNCHANGED <<files, accepted, prev, handoffs, minted, crashes>>

MintMarble ==
  /\ pc = "verify"
  /\ Verified(line)
  /\ minted' = minted + 1
  /\ pc' = "append"
  /\ UNCHANGED <<files, accepted, prev, line, handoffs, crashes>>

\* The Marble in hand: its id was given last, and it names its predecessor.
Marble == [id |-> minted, prev |-> prev, frame |-> line.frame]

AppendMarble ==
  /\ pc = "append"
  /\ log' = Append(log, Marble)
  /\ pc' = "head"
  /\ UNCHANGED <<torn, head, replay, accepted, prev, line, handoffs, minted,
                 crashes>>

WriteHead ==
  /\ pc = "head"
  /\ head' = Marble.id
  /\ pc' = "replay"
  /\ UNCHANGED <<log, torn, replay, accepted, prev, line, handoffs, minted,
                 crashes>>

\* Mutation: the sequence is accepted in memory only.
AcceptSequenceUnsaved ==
  /\ pc = "replay"
  /\ accepted' = [accepted EXCEPT ![line.frame.key] = line.frame.seq]
  /\ prev' = Marble.id
  /\ pc' = "handoff"
  /\ UNCHANGED <<files, line, handoffs, minted, crashes>>

\* Mutation: the replay state keeps the current pair only.
AcceptSequenceAlone ==
  /\ pc = "replay"
  /\ accepted' = [NoSequence EXCEPT ![line.frame.key] = line.frame.seq]
  /\ replay' = accepted'
  /\ prev' = Marble.id
  /\ pc' = "handoff"
  /\ UNCHANGED <<log, torn, head, line, handoffs, minted, crashes>>

AcceptSequence ==
  /\ pc = "replay"
  /\ accepted' = [accepted EXCEPT ![line.frame.key] = line.frame.seq]
  /\ replay' = accepted'
  /\ prev' = Marble.id
  /\ pc' = "handoff"
  /\ UNCHANGED <<log, torn, head, line, handoffs, minted, crashes>>

Handoff ==
  /\ pc = "handoff"
  /\ handoffs' = Append(handoffs, [id |-> minted, frame |-> line.frame])
  /\ line' = NoLine
  /\ pc' = "ready"
  /\ UNCHANGED <<files, accepted, prev, minted, crashes>>

\* Memory goes with the process.
Exit ==
  /\ pc' = "down"
  /\ accepted' = NoSequence
  /\ prev' = NoMarble
  /\ line' = NoLine

\* End of input: the loop ends and the process exits.
EndOfInput ==
  /\ pc = "ready"
  /\ Exit
  /\ UNCHANGED <<files, handoffs, minted, crashes>>

-----------------------------------------------------------------------------
(* The process dies: a signal, or an exception the loop does not catch     *)
(* (OSError of a write or of the output pipe).  What has been written      *)
(* stays written: a power cut that takes back a rename is not modelled.    *)

Die ==
  /\ crashes < MaxCrashes
  /\ Exit
  /\ crashes' = crashes + 1
  /\ UNCHANGED <<log, head, replay, handoffs, minted>>

Crash ==
  /\ pc \in Running
  /\ Die
  /\ UNCHANGED torn

CrashWhileAppending ==
  /\ pc = "append"
  /\ Die
  /\ torn' = TRUE

-----------------------------------------------------------------------------

HandleLine ==
  Reject \/ MintMarble \/ AppendMarble \/ WriteHead \/ AcceptSequence
  \/ Handoff

Next ==
  \/ Start \/ Refuse \/ ReadLine \/ HandleLine \/ EndOfInput
  \/ Crash \/ CrashWhileAppending

Spec == Init /\ [][Next]_vars

\* A line that was read is processed to the end unless the process dies:
\* the loop is sequential and waits for nothing but its own writes.
FairSpec == Spec /\ WF_vars(HandleLine)

-----------------------------------------------------------------------------
(* Safety                                                                  *)

\* Every Marble names the one before it, whatever crashes and restarts lie
\* between them: load_prev never starts a second chain or branches off an
\* older Marble.
ChainIntact ==
  \A i \in DOMAIN log :
    log[i].prev = IF i = 1 THEN NoMarble ELSE log[i - 1].id

\* No payload of a source/session pair is handed over twice or after a later
\* one, although frames are redelivered and the replay state is written only
\* after the log and the head.
HandoffInOrder ==
  \A i, j \in DOMAIN handoffs :
    i < j /\ handoffs[i].frame.key = handoffs[j].frame.key
      => handoffs[i].frame.seq < handoffs[j].frame.seq

\* What was handed over has survived: its Marble is in the log at or before
\* the head, with the same frame, and the replay file covers its sequence.
HandoffBacked ==
  \A i \in DOMAIN handoffs :
    LET h == handoffs[i] IN
    /\ h.frame.seq <= replay[h.frame.key]
    /\ h.id <= head
    /\ \E j \in DOMAIN log : log[j].id = h.id /\ log[j].frame = h.frame

\* A frame is recorded a second time only when a crash fell between the log
\* and the replay state, once per crash; and a recorded frame misses its
\* handoff only when a crash or the current step accounts for it.
LogAccounted ==
  LET recorded == {<<log[i].frame.key, log[i].frame.seq>> : i \in DOMAIN log}
      inFlight == IF pc \in {"head", "replay", "handoff"} THEN 1 ELSE 0
  IN  /\ Len(log) <= Cardinality(recorded) + crashes
      /\ Len(log) <= Len(handoffs) + crashes + inFlight

\* The three files only move forward: the log is appended to, the head moves
\* to a newer Marble, no accepted sequence is forgotten.
EvidenceGrows ==
  [][/\ IsPrefix(log, log')
     /\ head' >= head
     /\ \A k \in Keys : replay'[k] >= replay[k]]_vars

\* However often the process is killed and started again, the damage is the
\* last line of the log and no more: it is incomplete, or it is the one Marble
\* that the head does not know; without it log and head agree.
DamageIsOneLine ==
  \/ head = LogTail
  \/ /\ ~torn /\ log # <<>>
     /\ head = IF Len(log) = 1 THEN NoMarble ELSE log[Len(log) - 1].id

-----------------------------------------------------------------------------
(* Liveness                                                                *)

\* An intact frame that is fresh when it is read is handed over, unless the
\* process dies on the way.
FreshFrameHandedOver ==
  \A f \in Frames :
    pc = "verify" /\ line = [frame |-> f, intact |-> TRUE] /\ Fresh(f)
      ~> \/ handoffs # <<>> /\ Last(handoffs).frame = f
         \/ pc = "down"

-----------------------------------------------------------------------------
(* Refinement                                                              *)

Delivery ==
  INSTANCE EvidencedDelivery WITH
    ledger <- [i \in DOMAIN log |-> log[i].frame],
    delivered <- [i \in DOMAIN handoffs |-> handoffs[i].frame]

\* Read as a ledger and a sequence of deliveries, the gate records a frame
\* and delivers the frame recorded last, and does nothing else; crashes and
\* restarts are invisible.
ImplementsDelivery == Delivery!Spec
=============================================================================
