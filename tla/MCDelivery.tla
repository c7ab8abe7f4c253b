----------------------------- MODULE MCDelivery -----------------------------
(* Small instances of Delivery for TLC. *)
EXTENDS Delivery, TLC

\* Jobs are interchangeable.
Symmetric == Permutations(Jobs)
=============================================================================
