------------------------------ MODULE MCWallet ------------------------------
(* An alias and its fresh output change places together.                     *)
EXTENDS Wallet, TLC

CONSTANTS h1, r1, f1, p1, z1, z2, a1, a2

MCValue == [n \in Notes |-> IF n \in {z1, z2} THEN 0 ELSE 1]

MCFresh == a1 :> z1 @@ a2 :> z2

Interchangeable ==
  {a1 :> a2 @@ a2 :> a1 @@ z1 :> z2 @@ z2 :> z1}
=============================================================================
