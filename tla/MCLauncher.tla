----------------------------- MODULE MCLauncher -----------------------------
(* Small instances of Launcher for TLC. *)
EXTENDS Launcher, TLC

\* Shells are interchangeable, and so are pids.
Symmetric == Permutations(Shells) \union Permutations(Pids)
=============================================================================
