------------------------- MODULE ManifoldGateProofs -------------------------
(***************************************************************************)
(* Proofs about ManifoldGate, for every set of source/session pairs and    *)
(* plaintexts and every bound on sequence numbers and crashes.             *)
(*                                                                         *)
(* The invariants of the model are not inductive: what makes the log a     *)
(* chain and the handoffs ordered is how far the current line has got,     *)
(* and that memory and files agree at that point.  IInv says so.           *)
(***************************************************************************)
EXTENDS ManifoldGate, FiniteSetTheorems, TLAPS

\* Ids are given in increasing order; the head is one that was given.
IdsGiven ==
  /\ head <= minted
  /\ \A i \in DOMAIN log : log[i].id <= minted
  /\ pc \in {"append", "head"} => head < minted

\* Memory mirrors the files while the process runs, and between two lines
\* (and until the current one is appended) the evidence is whole.
MemoryMirrors ==
  /\ pc \in Running => ~torn /\ accepted = replay
  /\ pc \in {"ready", "verify", "append"} => head = LogTail /\ prev = head
  /\ pc = "head" => log # <<>> /\ log[Len(log)] = Marble
  /\ pc = "replay" => log # <<>> /\ log[Len(log)] = Marble /\ head = minted
  /\ pc = "handoff" =>
       /\ log # <<>>
       /\ log[Len(log)].id = minted
       /\ log[Len(log)].frame = line.frame
       /\ head = minted
       /\ prev = minted

\* The line in hand is newer than anything claimed for its pair, until it is
\* claimed itself; even then it is newer than anything handed over.
LineFresh ==
  /\ pc \in {"verify", "append", "head", "replay", "handoff"} => line \in Lines
  /\ pc \in {"append", "head", "replay"} =>
       line.frame.seq > replay[line.frame.key]
  /\ pc = "handoff" =>
       /\ replay[line.frame.key] = line.frame.seq
       /\ \A i \in DOMAIN handoffs :
            handoffs[i].frame.key = line.frame.key
              => handoffs[i].frame.seq < line.frame.seq

IInv ==
  /\ TypeOK
  /\ IdsGiven
  /\ MemoryMirrors
  /\ LineFresh
  /\ ChainIntact
  /\ HandoffInOrder
  /\ HandoffBacked

\* The sequences in the log, and those of them the replay file does not cover:
\* a frame of the latter passes again after a restart.
Recorded == {<<log[i].frame.key, log[i].frame.seq>> : i \in DOMAIN log}
Uncovered == {r \in Recorded : r[2] > replay[r[1]]}

\* The current step has recorded, but not yet covered or not yet handed over.
ToCover == IF pc \in {"head", "replay"} THEN 1 ELSE 0
InFlight == IF pc \in {"head", "replay", "handoff"} THEN 1 ELSE 0

\* Each crash leaves at most one sequence uncovered, and a repetition in the
\* log uses one up.
RepetitionsCounted ==
  /\ IsFiniteSet(Recorded)
  /\ Len(log) + Cardinality(Uncovered)
       <= Cardinality(Recorded) + crashes + ToCover
  /\ Len(log) <= Len(handoffs) + crashes + InFlight

-----------------------------------------------------------------------------

LEMMA AppendFacts ==
  ASSUME NEW S, NEW s \in Seq(S), NEW e \in S
  PROVE  /\ Append(s, e) \in Seq(S)
         /\ Append(s, e) # <<>>
         /\ Len(Append(s, e)) = Len(s) + 1
         /\ DOMAIN s = 1 .. Len(s)
         /\ DOMAIN Append(s, e) = 1 .. Len(s) + 1
         /\ \A i \in DOMAIN s : Append(s, e)[i] = s[i]
         /\ Append(s, e)[Len(s) + 1] = e
  OBVIOUS

LEMMA ElementFacts ==
  ASSUME NEW S, NEW s \in Seq(S), NEW i \in DOMAIN s
  PROVE  s[i] \in S
  OBVIOUS

LEMMA Initially == Init => IInv
<1> SUFFICES ASSUME Init PROVE IInv
  OBVIOUS
<1> USE BoundsAssumption DEF Init, Never, NoMarble, NoSequence
<1>1. TypeOK
  <2>1. NoSequence \in [Keys -> Never .. MaxSeq]
    OBVIOUS
  <2>2. log \in Seq(Marbles) /\ handoffs \in Seq([id : Nat, frame : Frames])
    OBVIOUS
  <2>3. 0 \in 0 .. MaxCrashes
    OBVIOUS
  <2> QED
    BY <2>1, <2>2, <2>3 DEF TypeOK, Running, Stopped
<1>2. IdsGiven /\ MemoryMirrors /\ LineFresh
  BY DEF IdsGiven, MemoryMirrors, LineFresh, Running
<1>3. ChainIntact /\ HandoffInOrder /\ HandoffBacked
  BY DEF ChainIntact, HandoffInOrder, HandoffBacked
<1> QED
  BY <1>1, <1>2, <1>3 DEF IInv

LEMMA Inductive == IInv /\ [Next]_vars => IInv'
<1> SUFFICES ASSUME IInv, [Next]_vars PROVE IInv'
  OBVIOUS
<1> USE BoundsAssumption
    DEF Never, NoMarble, NoSequence, Running, Stopped, files
<1>0. TypeOK /\ IdsGiven /\ MemoryMirrors /\ LineFresh
  BY DEF IInv
<1>1. ChainIntact /\ HandoffInOrder /\ HandoffBacked
  BY DEF IInv
<1>2. CASE Start
  <2>1. TypeOK'
    BY <1>0, <1>2 DEF Start, TypeOK
  <2>2. LogTail' = LogTail
    BY <1>2 DEF Start, LogTail
  <2>3. IdsGiven' /\ MemoryMirrors' /\ LineFresh'
    BY <1>0, <1>2, <2>2
    DEF Start, EvidenceOk, IdsGiven, MemoryMirrors, LineFresh
  <2>4. ChainIntact' /\ HandoffInOrder' /\ HandoffBacked'
    BY <1>1, <1>2 DEF Start, ChainIntact, HandoffInOrder, HandoffBacked
  <2> QED
    BY <2>1, <2>3, <2>4 DEF IInv
<1>3. CASE Refuse
  <2>1. TypeOK'
    BY <1>0, <1>3 DEF Refuse, TypeOK
  <2>2. IdsGiven' /\ MemoryMirrors' /\ LineFresh'
    BY <1>0, <1>3 DEF Refuse, IdsGiven, MemoryMirrors, LineFresh
  <2>3. ChainIntact' /\ HandoffInOrder' /\ HandoffBacked'
    BY <1>1, <1>3 DEF Refuse, ChainIntact, HandoffInOrder, HandoffBacked
  <2> QED
    BY <2>1, <2>2, <2>3 DEF IInv
<1>4. CASE ReadLine
  <2>1. TypeOK'
    BY <1>0, <1>4 DEF ReadLine, TypeOK
  <2>2. IdsGiven' /\ MemoryMirrors' /\ LineFresh'
    BY <1>0, <1>4 DEF ReadLine, IdsGiven, MemoryMirrors, LineFresh, LogTail
  <2>3. ChainIntact' /\ HandoffInOrder' /\ HandoffBacked'
    BY <1>1, <1>4 DEF ReadLine, ChainIntact, HandoffInOrder, HandoffBacked
  <2> QED
    BY <2>1, <2>2, <2>3 DEF IInv
<1>5. CASE Reject
  <2>1. TypeOK'
    BY <1>0, <1>5 DEF Reject, TypeOK
  <2>2. IdsGiven' /\ MemoryMirrors' /\ LineFresh'
    BY <1>0, <1>5 DEF Reject, IdsGiven, MemoryMirrors, LineFresh, LogTail
  <2>3. ChainIntact' /\ HandoffInOrder' /\ HandoffBacked'
    BY <1>1, <1>5 DEF Reject, ChainIntact, HandoffInOrder, HandoffBacked
  <2> QED
    BY <2>1, <2>2, <2>3 DEF IInv
<1>6. CASE MintMarble
  <2>1. TypeOK'
    BY <1>0, <1>6 DEF MintMarble, TypeOK
  <2>2. IdsGiven'
    <3>1. \A i \in DOMAIN log : log[i] \in Marbles
      BY <1>0, ElementFacts DEF TypeOK
    <3> QED
      BY <1>0, <1>6, <3>1 DEF MintMarble, TypeOK, Marbles, IdsGiven
  <2>3. MemoryMirrors'
    BY <1>0, <1>6 DEF MintMarble, MemoryMirrors, LogTail
  <2>4. LineFresh'
    BY <1>0, <1>6 DEF MintMarble, Verified, Fresh, MemoryMirrors, LineFresh
  <2>5. ChainIntact' /\ HandoffInOrder' /\ HandoffBacked'
    BY <1>1, <1>6 DEF MintMarble, ChainIntact, HandoffInOrder, HandoffBacked
  <2> QED
    BY <2>1, <2>2, <2>3, <2>4, <2>5 DEF IInv
<1>7. CASE AppendMarble
  <2>1. line \in Lines /\ Marble \in Marbles
    BY <1>0, <1>7
    DEF AppendMarble, LineFresh, TypeOK, Marble, Marbles, Lines
  <2>2. /\ log' \in Seq(Marbles)
        /\ log' # <<>>
        /\ Len(log') = Len(log) + 1
        /\ DOMAIN log = 1 .. Len(log)
        /\ DOMAIN log' = 1 .. Len(log) + 1
        /\ \A i \in DOMAIN log : log'[i] = log[i]
        /\ log'[Len(log) + 1] = Marble
    BY <1>0, <1>7, <2>1, AppendFacts DEF AppendMarble, TypeOK
  <2>3. TypeOK'
    BY <1>0, <1>7, <2>2 DEF AppendMarble, TypeOK
  <2>4. Marble' = Marble /\ Marble.id = minted /\ Marble.prev = prev
    BY <1>7 DEF AppendMarble, Marble
  <2>5. IdsGiven'
    <3>1. Len(log) \in Nat /\ minted \in Nat
      BY <1>0 DEF TypeOK
    <3>2. \A i \in DOMAIN log' : i \in DOMAIN log \/ i = Len(log) + 1
      BY <2>2, <3>1
    <3> QED
      BY <1>0, <1>7, <2>2, <2>4, <3>1, <3>2 DEF AppendMarble, IdsGiven
  <2>6. MemoryMirrors'
    BY <1>0, <1>7, <2>2, <2>4 DEF AppendMarble, MemoryMirrors
  <2>7. LineFresh'
    BY <1>0, <1>7, <2>1 DEF AppendMarble, LineFresh
  <2>8. ChainIntact'
    <3>1. prev = LogTail
      BY <1>0, <1>7 DEF AppendMarble, MemoryMirrors
    <3>2. CASE log = <<>>
      BY <2>2, <2>4, <3>1, <3>2 DEF LogTail, ChainIntact
    <3>3. CASE log # <<>>
      <4>1. Len(log) \in Nat /\ Len(log) >= 1
        BY <1>0, <3>3 DEF TypeOK
      <4>2. \A i \in DOMAIN log : i # 1 => i - 1 \in DOMAIN log
        BY <2>2, <4>1
      <4>3. log'[Len(log) + 1].prev = log'[Len(log)].id
        BY <2>2, <2>4, <3>1, <3>3, <4>1 DEF LogTail
      <4> QED
        BY <1>1, <2>2, <4>1, <4>2, <4>3 DEF ChainIntact
    <3> QED
      BY <3>2, <3>3
  <2>9. HandoffInOrder' /\ HandoffBacked'
    <3>1. \A j \in DOMAIN log : j \in DOMAIN log' /\ log'[j] = log[j]
      BY <1>0, <2>2 DEF TypeOK
    <3> QED
      BY <1>1, <1>7, <3>1 DEF AppendMarble, HandoffInOrder, HandoffBacked
  <2> QED
    BY <2>3, <2>5, <2>6, <2>7, <2>8, <2>9 DEF IInv
<1>8. CASE WriteHead
  <2>1. TypeOK'
    BY <1>0, <1>8 DEF WriteHead, Marble, TypeOK
  <2>2. IdsGiven'
    BY <1>0, <1>8 DEF WriteHead, Marble, TypeOK, IdsGiven
  <2>3. MemoryMirrors' /\ LineFresh'
    BY <1>0, <1>8 DEF WriteHead, Marble, MemoryMirrors, LineFresh
  <2>4. ChainIntact' /\ HandoffInOrder'
    BY <1>1, <1>8 DEF WriteHead, ChainIntact, HandoffInOrder
  <2>5. HandoffBacked'
    <3>1. head \in Nat /\ head' \in Nat /\ head <= head'
      BY <1>0, <1>8 DEF WriteHead, Marble, TypeOK, IdsGiven
    <3>2. \A i \in DOMAIN handoffs : handoffs[i] \in [id : Nat, frame : Frames]
      BY <1>0, ElementFacts DEF TypeOK
    <3> QED
      BY <1>1, <1>8, <3>1, <3>2 DEF WriteHead, HandoffBacked
  <2> QED
    BY <2>1, <2>2, <2>3, <2>4, <2>5 DEF IInv
<1>9. CASE AcceptSequence
  <2> DEFINE k == line.frame.key
             n == line.frame.seq
  <2>1. /\ k \in Keys
        /\ n \in 0 .. MaxSeq
        /\ n > replay[k]
        /\ accepted = replay
        /\ replay \in [Keys -> Never .. MaxSeq]
        /\ replay' = [replay EXCEPT ![k] = n]
        /\ accepted' = replay'
    BY <1>0, <1>9
    DEF AcceptSequence, LineFresh, MemoryMirrors, TypeOK, Lines, Frames
  <2>2. \A i \in DOMAIN handoffs :
          /\ handoffs[i].frame.key \in Keys
          /\ handoffs[i].frame.seq \in 0 .. MaxSeq
          /\ handoffs[i].frame.seq <= replay[handoffs[i].frame.key]
    <3>1. \A i \in DOMAIN handoffs : handoffs[i] \in [id : Nat, frame : Frames]
      BY <1>0, ElementFacts DEF TypeOK
    <3> QED
      BY <1>1, <3>1 DEF Frames, HandoffBacked
  <2>3. TypeOK'
    BY <1>0, <1>9, <2>1 DEF AcceptSequence, Marble, TypeOK
  <2>4. IdsGiven' /\ MemoryMirrors'
    BY <1>0, <1>9, <2>1 DEF AcceptSequence, Marble, IdsGiven, MemoryMirrors
  <2>5. LineFresh'
    <3>1. \A i \in DOMAIN handoffs :
            handoffs[i].frame.key = k => handoffs[i].frame.seq < n
      BY <2>1, <2>2
    <3>2. line \in Lines /\ line' = line /\ handoffs' = handoffs
      BY <1>0, <1>9 DEF AcceptSequence, LineFresh
    <3> QED
      BY <1>9, <2>1, <3>1, <3>2 DEF AcceptSequence, LineFresh
  <2>6. ChainIntact' /\ HandoffInOrder'
    BY <1>1, <1>9 DEF AcceptSequence, ChainIntact, HandoffInOrder
  <2>7. HandoffBacked'
    <3>1. \A i \in DOMAIN handoffs :
            handoffs[i].frame.seq <= replay'[handoffs[i].frame.key]
      BY <2>1, <2>2
    <3> QED
      BY <1>1, <1>9, <3>1 DEF AcceptSequence, HandoffBacked
  <2> QED
    BY <2>3, <2>4, <2>5, <2>6, <2>7 DEF IInv
<1>10. CASE Handoff
  <2> DEFINE H == [id : Nat, frame : Frames]
             h == [id |-> minted, frame |-> line.frame]
  <2>1. h \in H /\ line.frame \in Frames
    BY <1>0, <1>10 DEF Handoff, LineFresh, TypeOK, Lines
  <2>2. /\ handoffs' \in Seq(H)
        /\ DOMAIN handoffs = 1 .. Len(handoffs)
        /\ DOMAIN handoffs' = 1 .. Len(handoffs) + 1
        /\ \A i \in DOMAIN handoffs : handoffs'[i] = handoffs[i]
        /\ handoffs'[Len(handoffs) + 1] = h
    <3>1. handoffs \in Seq(H) /\ handoffs' = Append(handoffs, h)
      BY <1>0, <1>10 DEF Handoff, TypeOK
    <3> HIDE DEF H, h
    <3> QED
      BY <2>1, <3>1, AppendFacts
  <2>3. Len(handoffs) \in Nat
    BY <1>0 DEF TypeOK
  <2>4. TypeOK'
    BY <1>0, <1>10, <2>2 DEF Handoff, TypeOK
  <2>5. IdsGiven' /\ MemoryMirrors' /\ LineFresh'
    BY <1>0, <1>10
    DEF Handoff, IdsGiven, MemoryMirrors, LineFresh, LogTail
  <2>6. ChainIntact'
    BY <1>1, <1>10 DEF Handoff, ChainIntact
  <2>7. HandoffInOrder'
    <3>1. \A i \in DOMAIN handoffs :
            handoffs[i].frame.key = h.frame.key
              => handoffs[i].frame.seq < h.frame.seq
      BY <1>0, <1>10 DEF Handoff, LineFresh
    <3>2. SUFFICES ASSUME NEW i \in DOMAIN handoffs',
                          NEW j \in DOMAIN handoffs',
                          i < j,
                          handoffs'[i].frame.key = handoffs'[j].frame.key
                   PROVE  handoffs'[i].frame.seq < handoffs'[j].frame.seq
      BY DEF HandoffInOrder
    <3>3. i \in DOMAIN handoffs
      BY <2>2, <2>3, <3>2
    <3>4. CASE j \in DOMAIN handoffs
      BY <1>1, <2>2, <3>2, <3>3, <3>4 DEF HandoffInOrder
    <3>5. CASE j = Len(handoffs) + 1
      BY <2>2, <3>1, <3>2, <3>3, <3>5
    <3> QED
      BY <2>2, <2>3, <3>4, <3>5
  <2>8. HandoffBacked'
    <3>1. /\ h.frame.seq <= replay[h.frame.key]
          /\ h.id <= head
          /\ \E j \in DOMAIN log :
               log[j].id = h.id /\ log[j].frame = h.frame
      <4>1. Len(log) \in DOMAIN log /\ log[Len(log)].id = minted
              /\ log[Len(log)].frame = line.frame
        BY <1>0, <1>10 DEF Handoff, MemoryMirrors, TypeOK
      <4>2. /\ head = minted
            /\ head \in Nat
            /\ replay[line.frame.key] = line.frame.seq
            /\ line.frame.seq \in 0 .. MaxSeq
        BY <1>0, <1>10, <2>1
        DEF Handoff, MemoryMirrors, LineFresh, TypeOK, Frames
      <4> QED
        BY <4>1, <4>2
    <3>2. \A i \in DOMAIN handoffs' :
            i \in DOMAIN handoffs \/ handoffs'[i] = h
      BY <2>2, <2>3
    <3>3. log' = log /\ head' = head /\ replay' = replay
      BY <1>10 DEF Handoff
    <3> HIDE DEF h
    <3> QED
      BY <1>1, <2>2, <3>1, <3>2, <3>3 DEF HandoffBacked
  <2> QED
    BY <2>4, <2>5, <2>6, <2>7, <2>8 DEF IInv
<1>11. CASE EndOfInput
  <2>1. TypeOK'
    BY <1>0, <1>11 DEF EndOfInput, Exit, TypeOK
  <2>2. IdsGiven' /\ MemoryMirrors' /\ LineFresh'
    BY <1>0, <1>11
    DEF EndOfInput, Exit, IdsGiven, MemoryMirrors, LineFresh
  <2>3. ChainIntact' /\ HandoffInOrder' /\ HandoffBacked'
    BY <1>1, <1>11 DEF EndOfInput, ChainIntact, HandoffInOrder, HandoffBacked
  <2> QED
    BY <2>1, <2>2, <2>3 DEF IInv
<1>12. CASE Crash \/ CrashWhileAppending
  <2>1. Die /\ torn' \in {torn, TRUE}
    BY <1>12 DEF Crash, CrashWhileAppending
  <2>2. TypeOK'
    <3>1. NoSequence \in [Keys -> Never .. MaxSeq]
      OBVIOUS
    <3>2. crashes' \in 0 .. MaxCrashes
      BY <1>0, <2>1 DEF Die, TypeOK
    <3>3. torn' \in BOOLEAN
      BY <1>0, <2>1 DEF TypeOK
    <3> QED
      BY <1>0, <2>1, <3>1, <3>2, <3>3 DEF Die, Exit, TypeOK
  <2>3. IdsGiven' /\ MemoryMirrors' /\ LineFresh'
    BY <1>0, <2>1 DEF Die, Exit, IdsGiven, MemoryMirrors, LineFresh
  <2>4. ChainIntact' /\ HandoffInOrder' /\ HandoffBacked'
    BY <1>1, <2>1 DEF Die, ChainIntact, HandoffInOrder, HandoffBacked
  <2> QED
    BY <2>2, <2>3, <2>4 DEF IInv
<1>13. CASE UNCHANGED vars
  <2>1. TypeOK' /\ IdsGiven' /\ LineFresh'
    BY <1>0, <1>13 DEF vars, TypeOK, IdsGiven, LineFresh
  <2>2. MemoryMirrors'
    BY <1>0, <1>13 DEF vars, MemoryMirrors, LogTail, Marble
  <2>3. ChainIntact' /\ HandoffInOrder' /\ HandoffBacked'
    BY <1>1, <1>13 DEF vars, ChainIntact, HandoffInOrder, HandoffBacked
  <2> QED
    BY <2>1, <2>2, <2>3 DEF IInv
<1> QED
  BY <1>2, <1>3, <1>4, <1>5, <1>6, <1>7, <1>8, <1>9, <1>10, <1>11, <1>12,
     <1>13
  DEF Next, HandleLine

LEMMA InvariantHolds == Spec => []IInv
  BY Initially, Inductive, PTL DEF Spec

-----------------------------------------------------------------------------
(* Invariants                                                              *)

\* Every variable keeps to its type, whatever is read and wherever the
\* process dies.
THEOREM TypeCorrect == Spec => []TypeOK
<1>1. IInv => TypeOK
  BY DEF IInv
<1> QED
  BY <1>1, InvariantHolds, PTL

\* The Marble log is one unbroken chain across all crashes and restarts
\* (load_prev, mint_marble).
THEOREM ChainStaysIntact == Spec => []ChainIntact
<1>1. IInv => ChainIntact
  BY DEF IInv
<1> QED
  BY <1>1, InvariantHolds, PTL

\* No pair's payload is handed over twice or out of order
\* (assert_fresh_sequence, the order of the writes in main).
THEOREM HandedOverInOrder == Spec => []HandoffInOrder
<1>1. IInv => HandoffInOrder
  BY DEF IInv
<1> QED
  BY <1>1, InvariantHolds, PTL

\* A payload is handed over only after its Marble, the head and the replay
\* state are on disk, and they stay there (main, 295-318).
THEOREM HandedOverWithEvidence == Spec => []HandoffBacked
<1>1. IInv => HandoffBacked
  BY DEF IInv
<1> QED
  BY <1>1, InvariantHolds, PTL

-----------------------------------------------------------------------------
(* Steps                                                                   *)

LEMMA PrefixOfAppend ==
  ASSUME NEW S, NEW s \in Seq(S), NEW e \in S
  PROVE  IsPrefix(s, s) /\ IsPrefix(s, Append(s, e))
  BY DEF IsPrefix

\* The log, the head and the replay state only move forward.
THEOREM EvidenceOnlyGrows == Spec => EvidenceGrows
<1> DEFINE Grows == /\ IsPrefix(log, log')
                    /\ head' >= head
                    /\ \A k \in Keys : replay'[k] >= replay[k]
<1>1. IInv /\ [Next]_vars => [Grows]_vars
  <2> SUFFICES ASSUME IInv, Next PROVE Grows
    OBVIOUS
  <2> USE BoundsAssumption DEF Never
  <2>1. /\ log \in Seq(Marbles)
        /\ head \in Nat
        /\ minted \in Nat
        /\ replay \in [Keys -> Never .. MaxSeq]
    BY DEF IInv, TypeOK
  <2>2. IsPrefix(log, log)
    BY <2>1 DEF IsPrefix
  <2>3. CASE AppendMarble
    <3>1. Marble \in Marbles
      BY <2>1, <2>3
      DEF AppendMarble, IInv, LineFresh, TypeOK, Marble, Marbles, Lines
    <3> QED
      BY <2>1, <2>3, <3>1, PrefixOfAppend DEF AppendMarble
  <2>4. CASE WriteHead
    BY <2>1, <2>2, <2>4 DEF WriteHead, Marble, IInv, IdsGiven
  <2>5. CASE AcceptSequence
    <3>1. /\ line.frame.key \in Keys
          /\ line.frame.seq \in 0 .. MaxSeq
          /\ line.frame.seq > replay[line.frame.key]
          /\ replay' = [replay EXCEPT ![line.frame.key] = line.frame.seq]
      BY <2>5
      DEF AcceptSequence, IInv, LineFresh, MemoryMirrors, Lines, Frames,
          Running
    <3> QED
      BY <2>1, <2>2, <2>5, <3>1 DEF AcceptSequence
  <2>6. CASE UNCHANGED <<log, head, replay>>
    BY <2>1, <2>2, <2>6
  <2>7. UNCHANGED <<log, head, replay>> \/ AppendMarble \/ WriteHead
          \/ AcceptSequence
    BY DEF Next, HandleLine, Start, Refuse, ReadLine, Reject, MintMarble,
           Handoff, EndOfInput, Crash, CrashWhileAppending, Die, files
  <2> QED
    BY <2>3, <2>4, <2>5, <2>6, <2>7
<1> QED
  BY <1>1, InvariantHolds, PTL DEF Spec, EvidenceGrows

LEMMA DamageStep == IInv /\ DamageIsOneLine /\ [Next]_vars => DamageIsOneLine'
<1> SUFFICES ASSUME IInv, DamageIsOneLine, [Next]_vars PROVE DamageIsOneLine'
  OBVIOUS
<1> USE DEF files, Running
<1>1. CASE UNCHANGED <<log, torn, head>>
  BY <1>1 DEF DamageIsOneLine, LogTail
<1>2. CASE AppendMarble
  <2>1. /\ head = LogTail /\ ~torn
        /\ log \in Seq(Marbles) /\ Marble \in Marbles
    BY <1>2 DEF AppendMarble, IInv, MemoryMirrors, LineFresh, TypeOK, Marble,
                Marbles, Lines
  <2>2. /\ Len(log') = Len(log) + 1 /\ Len(log) \in Nat /\ log' # <<>>
        /\ DOMAIN log = 1 .. Len(log)
        /\ \A i \in DOMAIN log : log'[i] = log[i]
    BY <1>2, <2>1, AppendFacts DEF AppendMarble
  <2>3. UNCHANGED <<head, torn>>
    BY <1>2 DEF AppendMarble
  <2>4. CASE log = <<>>
    BY <2>1, <2>2, <2>3, <2>4 DEF LogTail, DamageIsOneLine
  <2>5. CASE log # <<>>
    <3>1. Len(log) >= 1 /\ Len(log) \in DOMAIN log
      BY <2>1, <2>2, <2>5
    <3>2. log'[Len(log') - 1].id = head /\ Len(log') # 1
      BY <2>1, <2>2, <2>5, <3>1 DEF LogTail
    <3> QED
      BY <2>1, <2>2, <2>3, <3>2 DEF DamageIsOneLine
  <2> QED
    BY <2>4, <2>5
<1>3. CASE WriteHead
  BY <1>3 DEF WriteHead, IInv, MemoryMirrors, LogTail, DamageIsOneLine
<1>4. CASE CrashWhileAppending
  BY <1>4 DEF CrashWhileAppending, Die, IInv, MemoryMirrors, LogTail,
              DamageIsOneLine
<1> QED
  BY <1>1, <1>2, <1>3, <1>4
  DEF Next, HandleLine, Start, Refuse, ReadLine, Reject, MintMarble,
      AcceptSequence, Handoff, EndOfInput, Crash, Die, vars

\* Whatever crashes and restarts there are, log and head agree but for the last
\* line: a start that would go on from less would be refused (load_prev), so the
\* losses of several crashes do not add up.
THEOREM DamageStaysOneLine == Spec => []DamageIsOneLine
<1>1. Init => DamageIsOneLine
  BY DEF Init, DamageIsOneLine, LogTail
<1> QED
  BY <1>1, DamageStep, InvariantHolds, PTL DEF Spec

-----------------------------------------------------------------------------
(* Refinement                                                              *)

LEMMA FramesOfAppend ==
  ASSUME NEW S, NEW s \in Seq(S), NEW e \in S,
         \A x \in S : x.frame \in Frames
  PROVE  [i \in DOMAIN Append(s, e) |-> Append(s, e)[i].frame]
           = Append([i \in DOMAIN s |-> s[i].frame], e.frame)
<1> DEFINE t == [i \in DOMAIN s |-> s[i].frame]
<1>1. t \in Seq(Frames)
  <2>1. \A i \in 1 .. Len(s) : s[i].frame \in Frames
    BY ElementFacts
  <2>2. t = [i \in 1 .. Len(s) |-> s[i].frame] /\ Len(s) \in Nat
    OBVIOUS
  <2> QED
    BY <2>1, <2>2
<1>2. Len(t) = Len(s)
  OBVIOUS
<1> QED
  BY <1>1, <1>2

\* The gate implements EvidencedDelivery: each append records a frame newer
\* than all delivered ones, each handoff delivers the frame recorded last,
\* and no other step shows.
THEOREM GateRefinesDelivery == Spec => ImplementsDelivery
<1> DEFINE ledger == [i \in DOMAIN log |-> log[i].frame]
           delivered == [i \in DOMAIN handoffs |-> handoffs[i].frame]
<1>1. Init => Delivery!Init
  BY DEF Init, Delivery!Init
<1>2. IInv /\ [Next]_vars => [Delivery!Next]_<<ledger, delivered>>
  <2> SUFFICES ASSUME IInv, [Next]_vars
               PROVE  [Delivery!Next]_<<ledger, delivered>>
    OBVIOUS
  <2>1. CASE AppendMarble
    <3>1. /\ line.frame \in Frames
          /\ line.frame.seq > replay[line.frame.key]
          /\ Marble \in Marbles
          /\ Marble.frame = line.frame
      BY <2>1 DEF AppendMarble, IInv, LineFresh, TypeOK, Marble, Marbles, Lines
    <3>2. ledger' = Append(ledger, line.frame)
      BY <2>1, <3>1, FramesOfAppend DEF AppendMarble, IInv, TypeOK, Marbles
    <3>3. Delivery!Undelivered(line.frame)
      <4>1. \A i \in DOMAIN handoffs :
              /\ handoffs[i].frame \in Frames
              /\ handoffs[i].frame.seq <= replay[handoffs[i].frame.key]
        <5>1. \A i \in DOMAIN handoffs :
                handoffs[i] \in [id : Nat, frame : Frames]
          BY ElementFacts DEF IInv, TypeOK
        <5> QED
          BY <5>1 DEF IInv, HandoffBacked
      <4>2. replay \in [Keys -> Never .. MaxSeq]
        BY DEF IInv, TypeOK
      <4> QED
        BY BoundsAssumption, <3>1, <4>1, <4>2
        DEF Delivery!Undelivered, Frames, Never
    <3>4. UNCHANGED delivered
      BY <2>1 DEF AppendMarble
    <3>5. \E f \in Frames : Delivery!Record(f)
      BY <3>1, <3>2, <3>3, <3>4, Zenon DEF Delivery!Record
    <3> QED
      BY <3>5 DEF Delivery!Next
  <2>2. CASE Handoff
    <3> DEFINE H == [id : Nat, frame : Frames]
               h == [id |-> minted, frame |-> line.frame]
    <3>1. /\ line.frame \in Frames
          /\ log # <<>>
          /\ log[Len(log)].frame = line.frame
          /\ log \in Seq(Marbles)
          /\ handoffs \in Seq(H)
          /\ h \in H
      BY <2>2 DEF Handoff, IInv, LineFresh, MemoryMirrors, TypeOK, Lines
    <3>2. ledger # <<>> /\ ledger[Len(ledger)] = line.frame
      BY <3>1
    <3>3. delivered' = Append(delivered, ledger[Len(ledger)])
      <4>1. handoffs' = Append(handoffs, h)
        BY <2>2 DEF Handoff
      <4> QED
        BY <3>1, <3>2, <4>1, FramesOfAppend
    <3>4. Delivery!Undelivered(ledger[Len(ledger)])
      BY <2>2, <3>2 DEF Handoff, IInv, LineFresh, Delivery!Undelivered
    <3>5. Delivery!Deliver
      BY <2>2, <3>2, <3>3, <3>4 DEF Handoff, files, Delivery!Deliver
    <3> QED
      BY <3>5 DEF Delivery!Next
  <2>3. CASE UNCHANGED <<log, handoffs>>
    BY <2>3
  <2>4. UNCHANGED <<log, handoffs>> \/ AppendMarble \/ Handoff
    BY DEF Next, HandleLine, Start, Refuse, ReadLine, Reject, MintMarble,
           WriteHead, AcceptSequence, EndOfInput, Crash, CrashWhileAppending,
           Die, files, vars
  <2> QED
    BY <2>1, <2>2, <2>3, <2>4
<1> QED
  BY <1>1, <1>2, InvariantHolds, PTL DEF Spec, ImplementsDelivery, Delivery!Spec

-----------------------------------------------------------------------------
(* Counting the log                                                        *)

\* What a step does to the log, the replay file and the handoffs.
LEMMA StepKinds ==
  ASSUME [Next]_vars
  PROVE  \/ AppendMarble
         \/ AcceptSequence
         \/ Handoff
         \/ /\ crashes' = crashes + 1
            /\ pc' = "down"
            /\ UNCHANGED <<log, replay, handoffs>>
         \/ /\ ToCover' = ToCover /\ InFlight' = InFlight
            /\ UNCHANGED <<log, replay, handoffs, crashes>>
  BY DEF Next, HandleLine, Start, Refuse, ReadLine, Reject, MintMarble,
         WriteHead, EndOfInput, Crash, CrashWhileAppending, Die, Exit, files,
         vars, Stopped, ToCover, InFlight

\* The log grows by the sequence of the line.
LEMMA RecordedGrows ==
  ASSUME IInv, AppendMarble
  PROVE  Recorded' = Recorded \union {<<line.frame.key, line.frame.seq>>}
<1> DEFINE x == <<line.frame.key, line.frame.seq>>
<1>1. Marble \in Marbles /\ Marble.frame = line.frame /\ log \in Seq(Marbles)
  BY DEF AppendMarble, IInv, LineFresh, TypeOK, Marble, Marbles, Lines
<1>2. /\ DOMAIN log = 1 .. Len(log)
      /\ Len(log) \in Nat
      /\ DOMAIN log' = 1 .. Len(log) + 1
      /\ \A i \in DOMAIN log : log'[i] = log[i]
      /\ log'[Len(log) + 1] = Marble
  BY <1>1, AppendFacts DEF AppendMarble
<1>3. \A i \in DOMAIN log' : i \in DOMAIN log \/ i = Len(log) + 1
  BY <1>2
<1>4. Recorded' \subseteq Recorded \union {x}
  BY <1>1, <1>2, <1>3 DEF Recorded
<1>5. Recorded \subseteq Recorded'
  BY <1>2 DEF Recorded
<1>6. x \in Recorded'
  BY <1>1, <1>2 DEF Recorded
<1> QED
  BY <1>4, <1>5, <1>6

LEMMA RecordedFacts ==
  ASSUME log \in Seq(Marbles)
  PROVE  /\ \A r \in Recorded : r[1] \in Keys /\ r[2] \in Nat
         /\ log # <<>> =>
              <<log[Len(log)].frame.key, log[Len(log)].frame.seq>> \in Recorded
<1>1. \A i \in DOMAIN log : log[i] \in Marbles
  BY ElementFacts
<1>2. \A i \in DOMAIN log :
        log[i].frame.key \in Keys /\ log[i].frame.seq \in Nat
  BY <1>1, BoundsAssumption DEF Marbles, Frames
<1>3. log # <<>> => Len(log) \in DOMAIN log
  OBVIOUS
<1> QED
  BY <1>2, <1>3 DEF Recorded

LEMMA RepetitionsStep ==
  IInv /\ RepetitionsCounted /\ [Next]_vars => RepetitionsCounted'
<1> SUFFICES ASSUME IInv, RepetitionsCounted, [Next]_vars
             PROVE  RepetitionsCounted'
  OBVIOUS
<1> DEFINE x == <<line.frame.key, line.frame.seq>>
<1>0. /\ log \in Seq(Marbles) /\ Len(log) \in Nat
      /\ handoffs \in Seq([id : Nat, frame : Frames]) /\ Len(handoffs) \in Nat
      /\ crashes \in Nat
      /\ ToCover \in Nat /\ InFlight \in Nat
      /\ IsFiniteSet(Recorded) /\ IsFiniteSet(Uncovered)
      /\ Cardinality(Recorded) \in Nat /\ Cardinality(Uncovered) \in Nat
  <2>1. log \in Seq(Marbles) /\ handoffs \in Seq([id : Nat, frame : Frames])
    BY DEF IInv, TypeOK
  <2>2. crashes \in Nat /\ ToCover \in Nat /\ InFlight \in Nat
    BY BoundsAssumption DEF IInv, TypeOK, ToCover, InFlight
  <2>3. IsFiniteSet(Recorded) /\ Uncovered \subseteq Recorded
    BY DEF RepetitionsCounted, Uncovered
  <2> QED
    BY <2>1, <2>2, <2>3, FS_Subset, FS_CardinalityType
<1>1. CASE AppendMarble
  <2>1. Recorded' = Recorded \union {x}
    BY <1>1, RecordedGrows
  <2>2. x[2] > replay[x[1]]
    BY <1>1 DEF AppendMarble, IInv, LineFresh
  <2>3. Uncovered' = Uncovered \union {x}
    BY <1>1, <2>1, <2>2 DEF AppendMarble, Uncovered
  <2>4. x \in Recorded <=> x \in Uncovered
    BY <2>2 DEF Uncovered
  <2>5. /\ Cardinality(Recorded') = Cardinality(Recorded)
                                      + IF x \in Recorded THEN 0 ELSE 1
        /\ Cardinality(Uncovered') = Cardinality(Uncovered)
                                       + IF x \in Recorded THEN 0 ELSE 1
        /\ IsFiniteSet(Recorded')
    <3>1. /\ Cardinality(Recorded \union {x}) =
               IF x \in Recorded THEN Cardinality(Recorded)
                                ELSE Cardinality(Recorded) + 1
          /\ IsFiniteSet(Recorded \union {x})
      BY <1>0, FS_AddElement, Zenon
    <3>2. Cardinality(Uncovered \union {x}) =
            IF x \in Uncovered THEN Cardinality(Uncovered)
                              ELSE Cardinality(Uncovered) + 1
      BY <1>0, FS_AddElement, Zenon
    <3> HIDE DEF x
    <3> QED
      BY <1>0, <2>1, <2>3, <2>4, <3>1, <3>2
  <2>6. Len(log') = Len(log) + 1
    <3>1. Marble \in Marbles
      BY <1>1 DEF AppendMarble, IInv, LineFresh, TypeOK, Marble, Marbles, Lines
    <3> QED
      BY <1>0, <1>1, <3>1, AppendFacts DEF AppendMarble
  <2>7. /\ ToCover = 0 /\ ToCover' = 1 /\ InFlight = 0 /\ InFlight' = 1
        /\ crashes' = crashes /\ Len(handoffs') = Len(handoffs)
    BY <1>1 DEF AppendMarble, ToCover, InFlight
  <2> QED
    BY <1>0, <2>5, <2>6, <2>7 DEF RepetitionsCounted
<1>2. CASE AcceptSequence
  <2>1. Recorded' = Recorded
    BY <1>2 DEF AcceptSequence, files, Recorded
  <2>2. /\ line.frame \in Frames
        /\ line.frame.seq > replay[line.frame.key]
        /\ replay' = [replay EXCEPT ![line.frame.key] = line.frame.seq]
        /\ replay \in [Keys -> Never .. MaxSeq]
        /\ log # <<>> /\ log[Len(log)].frame = line.frame
    BY <1>2 DEF AcceptSequence, IInv, LineFresh, MemoryMirrors, Running, TypeOK,
                Lines, Marble
  <2>3. x \in Uncovered
    <3>1. x \in Recorded
      BY <1>0, <2>2, RecordedFacts
    <3> QED
      BY <2>2, <3>1 DEF Uncovered
  <2>4. Uncovered' \subseteq Uncovered \ {x}
    <3>1. \A r \in Recorded : r[1] \in Keys /\ r[2] \in Nat
      BY <1>0, RecordedFacts
    <3>2. x[1] \in Keys /\ x[2] \in Nat
      BY <2>2 DEF Frames
    <3>3. \A r \in Recorded : r[2] > replay'[r[1]] => r[2] > replay[r[1]] /\ r # x
      BY BoundsAssumption, <2>2, <3>1, <3>2 DEF Never
    <3> QED
      BY <2>1, <3>3 DEF Uncovered
  <2>5. Cardinality(Uncovered') <= Cardinality(Uncovered) - 1
        /\ Cardinality(Uncovered') \in Nat
    BY <1>0, <2>3, <2>4, FS_RemoveElement, FS_Subset, FS_CardinalityType
  <2>6. /\ ToCover = 1 /\ ToCover' = 0 /\ InFlight = 1 /\ InFlight' = 1
        /\ UNCHANGED <<log, handoffs, crashes>>
    BY <1>2 DEF AcceptSequence, ToCover, InFlight
  <2> QED
    BY <1>0, <2>1, <2>5, <2>6 DEF RepetitionsCounted
<1>3. CASE Handoff
  <2>1. Recorded' = Recorded /\ Uncovered' = Uncovered
    BY <1>3 DEF Handoff, files, Recorded, Uncovered
  <2>2. Len(handoffs') = Len(handoffs) + 1
    <3>1. [id |-> minted, frame |-> line.frame] \in [id : Nat, frame : Frames]
      BY <1>3 DEF Handoff, IInv, LineFresh, TypeOK, Lines
    <3> QED
      BY <1>0, <1>3, <3>1, AppendFacts DEF Handoff
  <2>3. /\ ToCover = 0 /\ ToCover' = 0 /\ InFlight = 1 /\ InFlight' = 0
        /\ UNCHANGED <<log, crashes>>
    BY <1>3 DEF Handoff, files, ToCover, InFlight
  <2> QED
    BY <1>0, <2>1, <2>2, <2>3 DEF RepetitionsCounted
<1>4. CASE /\ crashes' = crashes + 1
           /\ pc' = "down"
           /\ UNCHANGED <<log, replay, handoffs>>
  <2>1. Recorded' = Recorded /\ Uncovered' = Uncovered
    BY <1>4 DEF Recorded, Uncovered
  <2>2. ToCover' = 0 /\ InFlight' = 0 /\ ToCover <= 1 /\ InFlight <= 1
    BY <1>4 DEF ToCover, InFlight
  <2> QED
    BY <1>0, <1>4, <2>1, <2>2 DEF RepetitionsCounted
<1>5. CASE /\ ToCover' = ToCover /\ InFlight' = InFlight
           /\ UNCHANGED <<log, replay, handoffs, crashes>>
  <2>1. Recorded' = Recorded /\ Uncovered' = Uncovered
    BY <1>5 DEF Recorded, Uncovered
  <2> QED
    BY <1>5, <2>1 DEF RepetitionsCounted
<1> QED
  BY <1>1, <1>2, <1>3, <1>4, <1>5, StepKinds

\* However often the process is killed and frames come again, the log repeats
\* a frame at most once per crash, and at most as many recorded frames as there
\* were crashes have missed their handoff (append_marble, write_head,
\* atomic_write_json, and the order main calls them in).
THEOREM LogIsAccountedFor == Spec => []LogAccounted
<1>1. Init => RepetitionsCounted
  <2> SUFFICES ASSUME Init PROVE RepetitionsCounted
    OBVIOUS
  <2>1. Recorded = {} /\ Uncovered = {}
    BY DEF Init, Recorded, Uncovered
  <2>2. Len(log) = 0 /\ Len(handoffs) = 0 /\ crashes = 0 /\ ToCover = 0
          /\ InFlight = 0
    BY DEF Init, ToCover, InFlight
  <2> QED
    BY <2>1, <2>2, FS_EmptySet DEF RepetitionsCounted
<1>2. IInv /\ RepetitionsCounted /\ [Next]_vars => RepetitionsCounted'
  BY RepetitionsStep
<1>3. IInv /\ RepetitionsCounted => LogAccounted
  <2> SUFFICES ASSUME IInv, RepetitionsCounted PROVE LogAccounted
    OBVIOUS
  <2>1. /\ IsFiniteSet(Uncovered)
        /\ Cardinality(Uncovered) \in Nat /\ Cardinality(Recorded) \in Nat
    <3>1. IsFiniteSet(Recorded) /\ Uncovered \subseteq Recorded
      BY DEF RepetitionsCounted, Uncovered
    <3> QED
      BY <3>1, FS_Subset, FS_CardinalityType
  <2>2. log \in Seq(Marbles) /\ crashes \in Nat
    BY BoundsAssumption DEF IInv, TypeOK
  <2>3. pc \in {"head", "replay"} => Uncovered # {}
    <3> SUFFICES ASSUME pc \in {"head", "replay"} PROVE Uncovered # {}
      OBVIOUS
    <3>1. /\ log # <<>> /\ log[Len(log)].frame = line.frame
          /\ line.frame.seq > replay[line.frame.key]
      BY DEF IInv, MemoryMirrors, LineFresh, Marble
    <3>2. <<line.frame.key, line.frame.seq>> \in Recorded
      BY <2>2, <3>1, RecordedFacts
    <3> QED
      BY <3>1, <3>2 DEF Uncovered
  <2>4. ToCover <= Cardinality(Uncovered)
    BY <2>1, <2>3, FS_EmptySet DEF ToCover
  <2> QED
    BY <2>1, <2>2, <2>4 DEF RepetitionsCounted, LogAccounted, Recorded, InFlight,
                            ToCover
<1> QED
  BY <1>1, <1>2, <1>3, InvariantHolds, PTL DEF Spec
=============================================================================
