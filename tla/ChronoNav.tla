------------------------------ MODULE ChronoNav ------------------------------
(***************************************************************************)
(* The reference scheduler (src/chrononav/scheduler.py).  A profile is a   *)
(* worker count and the seconds predicted for it; profiles keep the order  *)
(* of the JSON object they come from.                                      *)
(***************************************************************************)
EXTENDS PythonValues, FiniteSetsExt

ProfilesAccepted(profiles, deadline) ==
  /\ profiles # <<>>
  /\ ~Le(deadline, 0)
  /\ \A i \in DOMAIN profiles :
       profiles[i].workers > 0 /\ ~Le(profiles[i].seconds, 0)

Meeting(profiles, deadline) ==
  {i \in DOMAIN profiles : Le(profiles[i].seconds, deadline)}

\* The key of min: seconds, then workers.  Tuples hold what is one object for
\* equal, as the NaN of JSON is (one written as a string is not, and left out).
Faster(p, q) ==
  \/ Lt(p.seconds, q.seconds)
  \/ p.seconds = q.seconds /\ p.workers < q.workers

Fastest(profiles) == profiles[FirstLeast(profiles, DOMAIN profiles, Faster)]

\* Mutation: the fastest profile, though fewer workers would do.
ChooseFastest(profiles, deadline) == Fastest(profiles)

\* The profile with the fewest workers that meets the deadline, or the fastest.
ChooseWorkers(profiles, deadline) ==
  LET meeting == Meeting(profiles, deadline)
      fewest == Min({profiles[i].workers : i \in meeting})
  IN  IF meeting = {} THEN Fastest(profiles)
      ELSE profiles[CHOOSE i \in meeting : profiles[i].workers = fewest]
=============================================================================
