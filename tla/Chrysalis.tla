------------------------------ MODULE Chrysalis ------------------------------
(***************************************************************************)
(* The resource evaluator (src/chrysalis/chrysalis.py).  A candidate has   *)
(* an id, a quality, its net cost (a total, or the sum of the charged      *)
(* fields) and the evidence it claims: "measured" with provenance, "bare"  *)
(* (measured without), or "supplied".  Qualities are whole numbers from 0  *)
(* to 1, reductions are per cent; their rounding in floating point is left *)
(* out.                                                                    *)
(***************************************************************************)
EXTENDS PythonValues

PolicyAccepted(policy) ==
  /\ Le(0, policy.quality) /\ Le(policy.quality, 1)
  /\ ~Lt(policy.reduction, 0)

EvaluationAccepted(baseline, candidates, policy) ==
  /\ candidates # <<>>
  /\ PolicyAccepted(policy)
  /\ baseline.evidence # "bare" /\ ~Le(baseline.cost, 0)
  /\ \A i \in DOMAIN candidates : candidates[i].evidence # "bare"

Reduces(baseline, c, policy) ==
  /\ NaN \notin {baseline.cost, c.cost, policy.reduction}
  /\ (baseline.cost - c.cost) * 100 >= policy.reduction * baseline.cost

Qualifies(baseline, c, policy) ==
  Le(policy.quality, c.quality) /\ Reduces(baseline, c, policy)

\* Mutation: quality does not break ties.
CheaperById(c, d) ==
  c.cost < d.cost \/ (c.cost = d.cost /\ c.id < d.id)

\* The key of min: cost, then quality, the better first, then id.
Cheaper(c, d) ==
  \/ c.cost < d.cost
  \/ c.cost = d.cost /\ c.quality > d.quality
  \/ c.cost = d.cost /\ c.quality = d.quality /\ c.id < d.id

\* The candidate selected, as a sequence of one or none.
Selected(baseline, candidates, policy) ==
  LET qualifying ==
        {i \in DOMAIN candidates : Qualifies(baseline, candidates[i], policy)}
      best == FirstLeast(candidates, qualifying, Cheaper)
  IN  IF best = 0 THEN <<>> ELSE <<candidates[best]>>
=============================================================================
