---------------------------- MODULE PythonValues ----------------------------
(***************************************************************************)
(* What the evaluators of EDEN need of Python: numbers that may be NaN     *)
(* (json.loads and float accept it), whose comparisons are then all false, *)
(* and min with a key, which keeps the first of the least it meets.        *)
(***************************************************************************)
EXTENDS Integers, Sequences

CONSTANT NaN

Le(a, b) == a # NaN /\ b # NaN /\ a <= b
Lt(a, b) == a # NaN /\ b # NaN /\ a < b

\* The place in s that min returns when it is given those in the set, in their
\* order; 0 if there are none.
FirstLeast(s, places, Less(_, _)) ==
  LET least[i \in 0 .. Len(s)] ==
        IF i = 0 THEN 0
        ELSE IF /\ i \in places
                /\ least[i - 1] = 0 \/ Less(s[i], s[least[i - 1]])
          THEN i ELSE least[i - 1]
  IN  least[Len(s)]
=============================================================================
