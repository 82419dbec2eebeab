---------------------------- MODULE MCScopeClock ----------------------------
(* The scope clock, the replacement walk that implements what it assumes of  *)
(* its terms' ends, and the kept answers such a walk is served from, on      *)
(* bounds of their own: one operator's commitments, one backing's            *)
(* replacements and one obligor. A behaviour runs one of the three and       *)
(* leaves the others at their start. The backings are interchangeable.       *)
EXTENDS ScopeClock, ReplacementChain, KeptAnswers, TLC

VARIABLE part

MCInit == part \in {"clock", "walk", "kept"} /\ Init /\ WalkInit /\ KeptInit

MCNext ==
  /\ UNCHANGED part
  /\ \/ part = "clock" /\ Next /\ UNCHANGED <<walk, kept>>
     \/ part = "walk" /\ Finalize /\ UNCHANGED <<vars, kept>>
     \/ part = "kept" /\ KeptNext /\ UNCHANGED <<vars, walk>>

MCSpec == MCInit /\ [][MCNext]_<<part, vars, walk, kept>>

Interchangeable == Permutations(Backings)
=============================================================================
