----------------------------- MODULE MCEdenCore -----------------------------
(* Small instances of EdenCore for TLC. *)
EXTENDS EdenCore, TLC

Everything == DOMAIN Program

\* Handler threads are interchangeable.
Symmetric == Permutations(Threads)
=============================================================================
