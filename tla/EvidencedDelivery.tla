-------------------------- MODULE EvidencedDelivery --------------------------
(***************************************************************************)
(* What the ingress promises to whoever reads its output and its log: a    *)
(* ledger that only grows, and deliveries of the frame recorded last, at   *)
(* most once per entry and, for each source/session pair, in the order of  *)
(* the sequence numbers.  Nothing is recorded for a pair once a frame as   *)
(* new has been delivered.                                                 *)
(***************************************************************************)
EXTENDS Naturals, Sequences

CONSTANT Frames    \* records with at least a key and a seq

VARIABLES ledger, delivered

Undelivered(f) ==
  \A i \in DOMAIN delivered :
    delivered[i].key = f.key => delivered[i].seq < f.seq

Init == ledger = <<>> /\ delivered = <<>>

Record(f) ==
  /\ Undelivered(f)
  /\ ledger' = Append(ledger, f)
  /\ UNCHANGED delivered

Deliver ==
  /\ ledger # <<>>
  /\ Undelivered(ledger[Len(ledger)])
  /\ delivered' = Append(delivered, ledger[Len(ledger)])
  /\ UNCHANGED ledger

Next == Deliver \/ \E f \in Frames : Record(f)

Spec == Init /\ [][Next]_<<ledger, delivered>>
=============================================================================
