--------------------------- MODULE MCMarbleLineage ---------------------------
(* Three Marbles and one that is never supplied; up to two parents each.   *)
EXTENDS MarbleLineage

MCIds == 1 .. 3
MCNames == 1 .. 4
MCParentLists ==
  {<<>>} \union {<<p>> : p \in 1 .. 4} \union {<<1, 2>>, <<3, 1>>, <<2, 3>>, <<4, 1>>}
=============================================================================
