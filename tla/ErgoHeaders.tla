---------------------------- MODULE ErgoHeaders ----------------------------
(***************************************************************************)
(* The header store of ergo-headers.ts over a tree of headers that meet    *)
(* the network's rules: what it accepted, and the tip of the heaviest      *)
(* chain.  A header is its place in the tree and the difficulty it needed; *)
(* its bytes, its work and the rules that judge them are left out, as is a *)
(* header that breaks one.                                                 *)
(***************************************************************************)
EXTENDS Naturals, Sequences, FiniteSets, FiniteSetsExt, TLC

CONSTANTS
    Headers,     \* the headers above the anchor
    Anchor,
    Parent,      \* header -> its parent
    Difficulty   \* header -> what it adds to its chain's score

\* A parent is one height below: no headers descend from one another in a circle.
ASSUME HeadersAssumption ==
    /\ IsFiniteSet(Headers) /\ Anchor \notin Headers
    /\ \A h \in Headers : Parent[h] \in Headers \cup {Anchor} /\ Difficulty[h] \in Nat \ {0}
    /\ \A S \in SUBSET Headers : S # {} => \E h \in S : Parent[h] \notin S

\* A header with its ancestors above the anchor.
Paths[h \in Headers \cup {Anchor}] == IF h = Anchor THEN {} ELSE {h} \cup Paths[Parent[h]]
Height(h) == Cardinality(Paths[h])
Scores[h \in Headers \cup {Anchor}] == IF h = Anchor THEN 0 ELSE Difficulty[h] + Scores[Parent[h]]

NewStore == [accepted |-> {}, tip |-> Anchor]
Known(store, h) == h = Anchor \/ h \in store.accepted
Best(store) == Paths[store.tip]
IsBest(store, h) == h \in Best(store)
BestAt(store, height) == CHOOSE h \in Best(store) : Height(h) = height
OffBest(store, h) == Paths[h] \ Best(store)
ForkHeight(store, h) == Cardinality(Paths[h] \cap Best(store))
Sides(store) == store.accepted \ Best(store)

\* The best chain stays unless a new one has strictly more score.
Add(store, h) ==
    IF Known(store, h) \/ ~Known(store, Parent[h]) THEN store
    ELSE [accepted |-> store.accepted \cup {h}, tip |-> IF Scores[h] > Scores[store.tip] THEN h ELSE store.tip]

\* Every header on the way to h, in order.
AddPath(store, h) ==
    LET added[g \in Headers \cup {Anchor}] == IF Known(store, g) THEN store ELSE Add(added[Parent[g]], g) IN added[h]

\* Side headers that meet the best chain below the final header go, but those on a protected path.
PruneAll(store, final, protected) ==  \* Mutation: a protected path is pruned like any other.
    [store EXCEPT !.accepted = {h \in @ : IsBest(store, h) \/ ForkHeight(store, h) >= Height(final)}]
Prune(store, final, protected) ==
    LET keep == UNION {OffBest(store, p) : p \in protected} IN
    [store EXCEPT !.accepted = {h \in @ : IsBest(store, h) \/ h \in keep \/ ForkHeight(store, h) >= Height(final)}]

\* What an audit of the rows finds whole: every parent is there and nothing outscores the best chain.
Audited(store) ==
    /\ Known(store, store.tip)
    /\ \A h \in store.accepted : Known(store, Parent[h]) /\ Scores[h] <= Scores[store.tip]
=============================================================================
