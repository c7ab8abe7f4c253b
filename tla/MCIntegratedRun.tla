--------------------------- MODULE MCIntegratedRun ---------------------------
(* Two worker counts and two candidates, in either order, ties included.   *)
EXTENDS IntegratedRun

Seconds == {0, 1, 2, 3, NaN}
Profile(w) == [workers : {w}, seconds : Seconds]

MCPayloads ==
  [chrononav |->
     [profiles : {<<>>} \union (Profile(1) \X Profile(2))
                        \union (Profile(2) \X Profile(1)),
      deadline : {0, 2, NaN}],
   chrysalis |->
     LET Candidate(id) ==
           [id : {id}, quality : {0, 1, NaN}, cost : {1, 2, NaN},
            evidence : {"supplied", "measured", "bare"}]
     IN  [baseline : [cost : {0, 2, NaN}, evidence : {"supplied", "bare"}],
          candidates : {<<>>} \union (Candidate(1) \X Candidate(2))
                              \union (Candidate(2) \X Candidate(1)),
          policy : [quality : {0, 1, 2}, reduction : {-1, 0, 50, NaN}]]]
=============================================================================
