--------------------------- MODULE MCPoolService ---------------------------
(* Notes of equal worth, so that they are interchangeable.                  *)
EXTENDS PoolService, TLC

MCValue == [n \in Notes |-> 1]

Interchangeable == Permutations(Notes)
=============================================================================
