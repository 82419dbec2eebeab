------------------------------ MODULE MCVenue ------------------------------
(***************************************************************************)
(* Three parts of the Ergo venue, each on bounds of its own: the view over *)
(* its suppliers, a period's proving, and a replica's folds.  A behaviour  *)
(* runs one and leaves the others unused.                                  *)
(*                                                                         *)
(* The view: the network's chain H, whose work is in its last headers, and *)
(* a shorter chain A from the anchor that outweighs it until then.         *)
(***************************************************************************)
EXTENDS ErgoView, ExhaustionPool, ExhaustionFolds

H == <<"h1", "h2", "h3", "h4">>
A == <<"a1", "a2">>
MCHeaders == {H[i] : i \in DOMAIN H} \cup {A[i] : i \in DOMAIN A}
MCParent == ("h1" :> Anchor) @@ ("h2" :> "h1") @@ ("h3" :> "h2") @@ ("h4" :> "h3") @@ ("a1" :> Anchor) @@ ("a2" :> "a1")
MCDifficulty == [h \in MCHeaders |-> CASE h = "h3" -> 3 [] h \in {"a1", "a2"} -> 2 [] OTHER -> 1]
MCSuppliers == <<"other", "node">>
MCChain == <<"h3", "h4">>
MCPeriods == {[slots |-> <<1, 0, 2>>, ops |-> 3], [slots |-> <<3>>, ops |-> 1], [slots |-> <<0, 0>>, ops |-> 2]}

\* The headers are a tree: a path of each ends at the anchor.
ASSUME MCTree == Paths \in [MCHeaders \cup {Anchor} -> SUBSET MCHeaders]

VARIABLE part

IdlePool == PoolInit /\ period = [slots |-> <<3>>, ops |-> 1]
IdleReplica == ReplicaInit /\ ~prover /\ file = NoFold

MCInit ==
    /\ Init
    /\ \/ part = "view" /\ IdlePool /\ IdleReplica
       \/ part = "pool" /\ PoolInit /\ IdleReplica
       \/ part = "replica" /\ ReplicaInit /\ IdlePool

Views(step) == part = "view" /\ step /\ UNCHANGED <<part, poolVars, replicaVars>>
Proves(step) == part = "pool" /\ step /\ UNCHANGED <<part, vars, replicaVars>>
Serves(step) == part = "replica" /\ step /\ UNCHANGED <<part, vars, poolVars>>
MCNext == Views(Next) \/ Proves(PoolNext) \/ Serves(ReplicaNext)

mcVars == <<part, vars, poolVars, replicaVars>>
\* The fairness of each part, for the part that runs.
MCFairness ==
    /\ WF_mcVars(Views(Syncs) \/ Proves(Works) \/ Serves(Turn))
    /\ WF_mcVars(Views(Mine) \/ Serves(Proved))
    /\ WF_mcVars(Serves(Rested))
    /\ SF_mcVars(Serves(Grow))
MCSpec == MCInit /\ [][MCNext]_mcVars /\ MCFairness

(***************************************************************************)
(* What each part comes to; a part that does not run has its other parts'  *)
(* variables at their start.                                               *)
(***************************************************************************)
FoldMadeInPart == part = "pool" => FoldMade
FoldReachesTopInPart == part = "replica" => FoldReachesTop
ViewReachesHeaviest == part = "view" => ReachesHeaviest
=============================================================================
