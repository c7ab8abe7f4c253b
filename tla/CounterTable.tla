---------------------------- MODULE CounterTable ----------------------------
(***************************************************************************)
(* What EDEN Core promises about its counters and their file, whatever its *)
(* handlers do at the same time.  A service that appears has all counters  *)
(* at zero and a file that says so.  Counts are then made one at a time,   *)
(* each adding one to counters that go together.  The file is replaced     *)
(* now and then, by a table that is not ahead of the counters or by        *)
(* something that cannot be read, but it does not go missing.  When the    *)
(* service goes, its counters go and its file stays.                       *)
(***************************************************************************)
EXTENDS Naturals

CONSTANTS
  Counters,    \* names
  Counts,      \* sets of counters that are counted together
  Missing,     \* what a file holds before there is one
  Unreadable   \* contents that are not a table

VARIABLES
  serving,   \* there is a service
  table,     \* its counters
  file       \* content of the file

Tables == [Counters -> Nat]
Zero == [c \in Counters |-> 0]

\* What the file may be replaced by.
Behind(content) ==
  \/ content \in Unreadable
  \/ content \in Tables /\ \A c \in Counters : content[c] <= table[c]

Init == ~serving /\ table = Zero /\ file = Missing

Start ==
  /\ ~serving
  /\ serving' = TRUE
  /\ file' = Zero
  /\ UNCHANGED table

Count(cs) ==
  /\ serving
  /\ table' = [c \in Counters |-> table[c] + IF c \in cs THEN 1 ELSE 0]
  /\ UNCHANGED <<serving, file>>

Persist ==
  /\ serving
  /\ Behind(file')
  /\ UNCHANGED <<serving, table>>

Stop ==
  /\ serving
  /\ serving' = FALSE
  /\ table' = Zero
  /\ file' = file \/ Behind(file')

Next == Start \/ Persist \/ Stop \/ \E cs \in Counts : Count(cs)

Spec == Init /\ [][Next]_<<serving, table, file>>
=============================================================================
