---------------------------- MODULE VenueProofs ----------------------------
(* Proofs about the Ergo venue's view (ErgoView) for any tree of headers, any *)
(* suppliers, budgets and quotas and any number of failures and crashes:      *)
(* what a view answers is one chain's and opens again, and while the supplier *)
(* of the heaviest chain is read, the clock's block is on that chain.  About  *)
(* a period's proving (ExhaustionPool) for periods of any leaves, any leaf    *)
(* sizes and any number of failures, damaged files and stops, and a replica   *)
(* of folds (ExhaustionFolds) for every set of peers, every height and period *)
(* and any number of faults and restarts: leaves prove one at a time and span *)
(* the period, level by level, a proof that is kept is never made again, a    *)
(* replica answers at its latest fold, which the view bears out, and a set    *)
(* once disagreed with is never served or proved again.                       *)
EXTENDS ErgoView, ExhaustionPool, ExhaustionFolds, Integers, FiniteSetTheorems, SequenceTheorems,
        WellFoundedInduction, TLAPS

(***************************************************************************)
(* The tree of headers: a function defined over it from each header's      *)
(* parent exists, and what Paths and Scores, which are such functions, say *)
(* of a header's ancestors.                                                *)
(***************************************************************************)
Tree == Headers \cup {Anchor}

\* A set of headers that is closed under parents, and a function that steps from each header's parent over it.
Rooted(C) == C \subseteq Tree /\ Anchor \in C /\ \A h \in C : h # Anchor => Parent[h] \in C
StepsOn(C, z, step, V, f) ==
  f \in [C -> V] /\ f[Anchor] = z /\ \A h \in C : h # Anchor => f[h] = step[<<h, f[Parent[h]]>>]

\* Of any headers some has its parent elsewhere.
LEMMA Lowest ==
  ASSUME NEW S \in SUBSET Headers, S # {}
  PROVE  \E h \in S : Parent[h] \notin S
BY HeadersAssumption

\* The parents of headers.
LEMMA Parents == Anchor \notin Headers /\ \A h \in Headers : Parent[h] \in Tree /\ Difficulty[h] \in Nat \ {0}
BY HeadersAssumption DEF Tree

\* Two functions that step alike agree where both are defined.
LEMMA StepsAgree ==
  ASSUME NEW V, NEW z \in V, NEW step, NEW C, NEW E, NEW f, NEW g, Rooted(C), Rooted(E),
         StepsOn(C, z, step, V, f), StepsOn(E, z, step, V, g)
  PROVE  \A h \in C \cap E : f[h] = g[h]
<1> DEFINE S == {h \in C \cap E : f[h] # g[h]}
<1>1. SUFFICES ASSUME S # {} PROVE FALSE
  OBVIOUS
<1>2. S \subseteq Headers
  BY DEF Rooted, StepsOn, Tree
<1>3. PICK h \in S : Parent[h] \notin S
  BY <1>1, <1>2, Lowest
<1>4. h # Anchor /\ h \in C /\ h \in E /\ Parent[h] \in C \cap E
  BY <1>2, <1>3, Parents DEF Rooted
<1>5. f[Parent[h]] = g[Parent[h]]
  BY <1>3, <1>4
<1> QED BY <1>3, <1>4, <1>5 DEF StepsOn

\* A function defined over the tree by a step from each header's parent exists.
TreeFold(V, z, step, f) == f \in [Tree -> V] /\ f[Anchor] = z /\ \A h \in Headers : f[h] = step[<<h, f[Parent[h]]>>]
LEMMA TreeFoldExists == \A V : \A z \in V : \A step \in [Headers \X V -> V] : \E f : TreeFold(V, z, step, f)
<1> SUFFICES ASSUME NEW V, NEW z \in V, NEW step \in [Headers \X V -> V] PROVE \E f : TreeFold(V, z, step, f)
  OBVIOUS
<1> DEFINE Good == {h \in Tree : \E C, f : Rooted(C) /\ h \in C /\ StepsOn(C, z, step, V, f)}
<1>1. Anchor \in Good
  <2> DEFINE f == [x \in {Anchor} |-> z]
  <2>1. Rooted({Anchor}) /\ StepsOn({Anchor}, z, step, V, f)
    BY DEF Rooted, StepsOn, Tree
  <2> QED BY <2>1 DEF Tree
<1>2. Tree \subseteq Good
  <2> DEFINE S == Headers \ Good
  <2>1. SUFFICES ASSUME S # {} PROVE FALSE
    BY <1>1 DEF Tree
  <2>2. PICK h \in S : Parent[h] \notin S
    BY <2>1, Lowest
  <2>3. h \in Headers /\ h # Anchor /\ Parent[h] \in Tree
    BY <2>2, Parents
  <2>4. Parent[h] \in Good
    BY <1>1, <2>2, <2>3 DEF Tree
  <2>5. PICK C, f : Rooted(C) /\ Parent[h] \in C /\ StepsOn(C, z, step, V, f)
    BY <2>4
  <2>6. h \notin C
    BY <2>2, <2>3, <2>5 DEF Tree
  <2> DEFINE E == C \cup {h}
             g == [x \in E |-> IF x = h THEN step[<<h, f[Parent[h]]>>] ELSE f[x]]
  <2>7. Rooted(E)
    BY <2>3, <2>5 DEF Rooted, Tree
  <2>8. step[<<h, f[Parent[h]]>>] \in V
    BY <2>3, <2>5 DEF StepsOn
  <2>9. g \in [E -> V]
    BY <2>5, <2>8 DEF StepsOn
  <2>10. g[Anchor] = z
    BY <2>3, <2>5 DEF StepsOn, Rooted
  <2>11. ASSUME NEW x \in E, x # Anchor PROVE g[x] = step[<<x, g[Parent[x]]>>]
    <3>1. Parent[x] \in C
      BY <2>5, <2>11 DEF Rooted
    <3>2. g[Parent[x]] = f[Parent[x]]
      BY <2>6, <3>1
    <3> QED BY <2>5, <2>11, <3>2 DEF StepsOn
  <2>12. StepsOn(E, z, step, V, g)
    BY <2>9, <2>10, <2>11 DEF StepsOn
  <2>13. h \in Good
    <3> HIDE DEF g
    <3> QED BY <2>3, <2>7, <2>12 DEF Tree
  <2> QED BY <2>2, <2>13
<1> DEFINE Is(h, v) == \E C, f : Rooted(C) /\ h \in C /\ StepsOn(C, z, step, V, f) /\ v = f[h]
           F == [h \in Tree |-> CHOOSE v : Is(h, v)]
<1>3. ASSUME NEW C, NEW f, Rooted(C), StepsOn(C, z, step, V, f), NEW h \in C PROVE F[h] = f[h]
  <2>1. h \in Tree
    BY <1>3 DEF Rooted
  <2>2. Is(h, f[h])
    BY <1>3
  <2>3. \A v : Is(h, v) => v = f[h]
    BY <1>3, StepsAgree
  <2> HIDE DEF Is
  <2> QED BY <2>1, <2>2, <2>3
<1> HIDE DEF F
<1>4. F \in [Tree -> V] /\ F[Anchor] = z /\ \A h \in Headers : F[h] = step[<<h, F[Parent[h]]>>]
  <2>1. ASSUME NEW h \in Tree
        PROVE  F[h] \in V /\ (h = Anchor => F[h] = z) /\ (h # Anchor => F[h] = step[<<h, F[Parent[h]]>>])
    <3>1. PICK C, f : Rooted(C) /\ h \in C /\ StepsOn(C, z, step, V, f)
      BY <1>2
    <3>2. F[h] = f[h] /\ (h # Anchor => F[Parent[h]] = f[Parent[h]])
      BY <1>3, <3>1 DEF Rooted
    <3> QED BY <3>1, <3>2 DEF StepsOn
  <2>2. F = [h \in Tree |-> F[h]]
    BY DEF F
  <2> QED BY <2>1, <2>2, Parents DEF Tree
<1> QED BY <1>4 DEF TreeFold

-----------------------------------------------------------------------------
\* A header's path is its own and its parent's.
LEMMA PathsFacts ==
  /\ Paths \in [Tree -> SUBSET Headers] /\ Paths[Anchor] = {}
  /\ \A h \in Headers : Paths[h] = {h} \cup Paths[Parent[h]]
<1> DEFINE V == SUBSET Headers
           step == [x \in Headers \X V |-> {x[1]} \cup x[2]]
           Is(f) == f = [h \in Headers \cup {Anchor} |-> IF h = Anchor THEN {} ELSE {h} \cup f[Parent[h]]]
<1>1. step \in [Headers \X V -> V]
  OBVIOUS
<1>2. PICK f \in [Tree -> V] : f[Anchor] = {} /\ \A h \in Headers : f[h] = step[<<h, f[Parent[h]]>>]
  <2> HIDE DEF step
  <2>1. {} \in V
    OBVIOUS
  <2> HIDE DEF V
  <2>2. PICK f : TreeFold(V, {}, step, f)
    BY <1>1, <2>1, TreeFoldExists
  <2> QED BY <2>2 DEF TreeFold
<1>3. Is(f)
  <2>1. \A h \in Headers : f[h] = {h} \cup f[Parent[h]]
    BY <1>2, Parents
  <2> QED BY <1>2, <2>1, Parents DEF Tree
<1>4. Is(Paths)
  <2>1. Paths = CHOOSE g : Is(g)
    BY DEF Paths
  <2> HIDE DEF Is
  <2> QED BY <1>3, <2>1
<1>5. Paths = [h \in Tree |-> Paths[h]] /\ Paths[Anchor] = {} /\ \A h \in Headers : Paths[h] = {h} \cup Paths[Parent[h]]
  BY <1>4, Parents DEF Tree
<1>6. \A h \in Tree : Paths[h] \in SUBSET Headers
  <2> DEFINE S == {h \in Headers : ~(Paths[h] \subseteq Headers)}
  <2>1. SUFFICES ASSUME S # {} PROVE FALSE
    BY <1>5 DEF Tree
  <2>2. PICK h \in S : Parent[h] \notin S
    BY <2>1, Lowest
  <2>3. Paths[Parent[h]] \subseteq Headers
    BY <1>5, <2>2, Parents DEF Tree
  <2> QED BY <1>5, <2>2, <2>3
<1> QED BY <1>5, <1>6

\* A header's score is its parent's and its difficulty.
LEMMA ScoresFacts ==
  /\ Scores \in [Tree -> Nat] /\ Scores[Anchor] = 0
  /\ \A h \in Headers : Scores[h] = Difficulty[h] + Scores[Parent[h]]
<1> DEFINE step == [x \in Headers \X Nat |-> Difficulty[x[1]] + x[2]]
           Is(f) == f = [h \in Headers \cup {Anchor} |-> IF h = Anchor THEN 0 ELSE Difficulty[h] + f[Parent[h]]]
<1>1. step \in [Headers \X Nat -> Nat]
  BY Parents
<1>2. PICK f \in [Tree -> Nat] : f[Anchor] = 0 /\ \A h \in Headers : f[h] = step[<<h, f[Parent[h]]>>]
  <2> HIDE DEF step
  <2>1. PICK f : TreeFold(Nat, 0, step, f)
    BY <1>1, TreeFoldExists
  <2> QED BY <2>1 DEF TreeFold
<1>3. Is(f)
  <2>1. \A h \in Headers : f[h] = Difficulty[h] + f[Parent[h]]
    BY <1>2, Parents
  <2> QED BY <1>2, <2>1, Parents DEF Tree
<1>4. Is(Scores)
  <2>1. Scores = CHOOSE g : Is(g)
    BY DEF Scores
  <2> HIDE DEF Is
  <2> QED BY <1>3, <2>1
<1>5. Scores = [h \in Tree |-> Scores[h]] /\ Scores[Anchor] = 0 /\ \A h \in Headers : Scores[h] = Difficulty[h] + Scores[Parent[h]]
  BY <1>4, Parents DEF Tree
<1>6. \A h \in Tree : Scores[h] \in Nat
  <2> DEFINE S == {h \in Headers : Scores[h] \notin Nat}
  <2>1. SUFFICES ASSUME S # {} PROVE FALSE
    BY <1>5 DEF Tree
  <2>2. PICK h \in S : Parent[h] \notin S
    BY <2>1, Lowest
  <2>3. Scores[Parent[h]] \in Nat
    BY <1>5, <2>2, Parents DEF Tree
  <2> QED BY <1>5, <2>2, <2>3, Parents
<1> QED BY <1>5, <1>6

\* A header is on its path, with the paths of those on it, and on no path of its parent's; its path is finite.
LEMMA PathClosed ==
  ASSUME NEW h \in Headers
  PROVE  /\ h \in Paths[h] /\ h \notin Paths[Parent[h]]
         /\ \A g \in Paths[h] : g \in Headers /\ Paths[g] \subseteq Paths[h]
         /\ IsFiniteSet(Paths[h]) /\ Height(h) \in Nat \ {0}
<1>1. h \in Paths[h]
  BY PathsFacts
<1>2. \A x \in Headers : \A g \in Paths[x] : g \in Headers /\ Paths[g] \subseteq Paths[x]
  <2> DEFINE S == {x \in Headers : ~\A g \in Paths[x] : g \in Headers /\ Paths[g] \subseteq Paths[x]}
  <2>1. SUFFICES ASSUME S # {} PROVE FALSE
    OBVIOUS
  <2>2. PICK x \in S : Parent[x] \notin S
    BY <2>1, Lowest
  <2>3. \A g \in Paths[Parent[x]] : g \in Headers /\ Paths[g] \subseteq Paths[Parent[x]]
    BY <2>2, Parents, PathsFacts DEF Tree
  <2> QED BY <2>2, <2>3, PathsFacts
<1>3. h \notin Paths[Parent[h]]
  <2> DEFINE S == {x \in Paths[h] : h \in Paths[x]}
  <2>1. SUFFICES ASSUME h \in Paths[Parent[h]] PROVE FALSE
    OBVIOUS
  <2>2. S \in SUBSET Headers /\ h \in S
    BY <1>1, PathsFacts DEF Tree
  <2>3. PICK x \in S : Parent[x] \notin S
    BY <2>2, Lowest
  <2>4. x \in Headers /\ h \in Paths[Parent[x]]
    BY <2>1, <2>2, <2>3, PathsFacts
  <2>5. Parent[x] \in Headers
    BY <2>4, Parents, PathsFacts DEF Tree
  <2>6. Parent[x] \in Paths[x]
    BY <2>4, <2>5, PathsFacts
  <2>7. Parent[x] \in Paths[h]
    BY <1>2, <2>3, <2>6
  <2> QED BY <2>3, <2>4, <2>7
<1>4. IsFiniteSet(Paths[h])
  BY FS_Subset, HeadersAssumption, PathsFacts DEF Tree
<1>5. Height(h) \in Nat /\ Height(h) # 0
  BY <1>1, <1>4, FS_CardinalityType, FS_EmptySet DEF Height
<1> QED BY <1>1, <1>2, <1>3, <1>4, <1>5

\* A header is one above its parent, and heavier.
LEMMA AboveParent ==
  ASSUME NEW h \in Headers
  PROVE  /\ Height(h) = Height(Parent[h]) + 1 /\ Height(Parent[h]) \in Nat /\ Height(Anchor) = 0
         /\ Scores[Parent[h]] \in Nat /\ Scores[h] \in Nat /\ Scores[h] > Scores[Parent[h]]
<1>1. Height(Anchor) = 0
  BY PathsFacts, FS_EmptySet DEF Height
<1>2. IsFiniteSet(Paths[Parent[h]])
  BY FS_EmptySet, PathsFacts, PathClosed, Parents DEF Tree
<1>3. Paths[h] = Paths[Parent[h]] \cup {h} /\ h \notin Paths[Parent[h]]
  BY PathsFacts, PathClosed
<1>4. Height(h) = Height(Parent[h]) + 1 /\ Height(Parent[h]) \in Nat
  BY <1>2, <1>3, FS_AddElement, FS_CardinalityType DEF Height
<1>5. Scores[Parent[h]] \in Nat /\ Scores[h] \in Nat /\ Scores[h] > Scores[Parent[h]]
  BY ScoresFacts, Parents DEF Tree
<1> QED BY <1>1, <1>4, <1>5

\* Of two headers on a path one is on the other's, and they differ in height.
LEMMA OnOnePath ==
  ASSUME NEW h \in Tree, NEW a \in Paths[h], NEW b \in Paths[h]
  PROVE  /\ a \in Headers /\ b \in Headers /\ (a \in Paths[b] \/ b \in Paths[a])
         /\ a \in Paths[b] /\ a # b => Height(a) < Height(b)
         /\ Height(a) = Height(b) => a = b
<1>1. \A x \in Headers : \A c, d \in Paths[x] : c \in Paths[d] \/ d \in Paths[c]
  <2> DEFINE S == {x \in Headers : ~\A c, d \in Paths[x] : c \in Paths[d] \/ d \in Paths[c]}
  <2>1. SUFFICES ASSUME S # {} PROVE FALSE
    OBVIOUS
  <2>2. PICK x \in S : Parent[x] \notin S
    BY <2>1, Lowest
  <2>3. \A c, d \in Paths[Parent[x]] : c \in Paths[d] \/ d \in Paths[c]
    BY <2>2, Parents, PathsFacts DEF Tree
  <2> QED BY <2>2, <2>3, PathsFacts
<1>2. h \in Headers /\ a \in Headers /\ b \in Headers
  BY PathsFacts DEF Tree
<1>3. \A c, d \in Headers : c \in Paths[d] /\ c # d => Height(c) < Height(d)
  <2> SUFFICES ASSUME NEW c \in Headers, NEW d \in Headers, c \in Paths[d], c # d PROVE Height(c) < Height(d)
    OBVIOUS
  <2>1. c \in Paths[Parent[d]]
    BY PathsFacts
  <2>2. Parent[d] \in Headers
    BY <2>1, PathsFacts, Parents DEF Tree
  <2>3. Paths[c] \subseteq Paths[Parent[d]] /\ IsFiniteSet(Paths[Parent[d]])
    BY <2>1, <2>2, PathClosed
  <2>4. Height(c) <= Height(Parent[d])
    BY <2>3, FS_Subset DEF Height
  <2> QED BY <2>4, AboveParent, PathClosed
<1>4. a \in Paths[b] \/ b \in Paths[a]
  BY <1>1, <1>2
<1>5. Height(a) \in Nat /\ Height(b) \in Nat
  BY <1>2, PathClosed
<1> QED BY <1>2, <1>3, <1>4, <1>5

\* A path has a header at every height up to its end's.
LEMMA PathIsFull ==
  ASSUME NEW h \in Tree, NEW k \in 1..Height(h)
  PROVE  \E g \in Paths[h] : Height(g) = k
<1> DEFINE S == {x \in Headers : ~\A j \in 1..Height(x) : \E g \in Paths[x] : Height(g) = j}
<1>1. Height(Anchor) = 0
  BY PathsFacts, FS_EmptySet DEF Height
<1>2. SUFFICES ASSUME S # {} PROVE FALSE
  BY <1>1 DEF Tree
<1>3. PICK x \in S : Parent[x] \notin S
  BY <1>2, Lowest
<1>4. \A j \in 1..Height(Parent[x]) : \E g \in Paths[Parent[x]] : Height(g) = j
  BY <1>1, <1>3, Parents DEF Tree
<1>5. Height(x) = Height(Parent[x]) + 1 /\ Height(Parent[x]) \in Nat /\ x \in Paths[x] /\ Paths[Parent[x]] \subseteq Paths[x]
  BY <1>3, AboveParent, PathsFacts
<1>6. ASSUME NEW j \in 1..Height(x) PROVE \E g \in Paths[x] : Height(g) = j
  <2>1. CASE j = Height(x)
    BY <1>5, <2>1
  <2>2. CASE j # Height(x)
    <3>1. j \in 1..Height(Parent[x])
      BY <1>5, <2>2
    <3> QED BY <1>4, <1>5, <3>1
  <2> QED BY <2>1, <2>2
<1> QED BY <1>3, <1>6

\* A header is on every path that meets its own at its height or above, and a path it is on meets its own there.
LEMMA Meeting ==
  ASSUME NEW a \in Tree, NEW b \in Tree, NEW g \in Paths[b]
  PROVE  /\ Cardinality(Paths[a] \cap Paths[b]) \in Nat
         /\ g \in Paths[a] <=> Cardinality(Paths[a] \cap Paths[b]) >= Height(g)
<1> DEFINE X == Paths[a] \cap Paths[b]
<1>1. g \in Headers /\ b \in Headers
  BY PathsFacts DEF Tree
<1>2. IsFiniteSet(X) /\ IsFiniteSet(Paths[g]) /\ Cardinality(X) \in Nat /\ Height(g) \in Nat
  BY <1>1, PathClosed, FS_Subset, FS_CardinalityType DEF Height
<1>3. ASSUME g \in Paths[a] PROVE Cardinality(X) >= Height(g)
  <2>1. Paths[g] \subseteq Paths[a] /\ Paths[g] \subseteq Paths[b]
    BY <1>1, <1>3, PathClosed, PathsFacts DEF Tree
  <2> QED BY <1>2, <2>1, FS_Subset DEF Height
<1>4. ASSUME g \notin Paths[a] PROVE Cardinality(X) < Height(g)
  <2>1. \A x \in X : x \in Paths[g] \ {g}
    <3> SUFFICES ASSUME NEW x \in X PROVE x \in Paths[g] /\ x # g
      OBVIOUS
    <3>1. x \in Paths[g] \/ g \in Paths[x]
      BY OnOnePath
    <3>2. x \in Headers /\ a \in Headers
      BY PathsFacts DEF Tree
    <3>3. Paths[x] \subseteq Paths[a]
      BY <3>2, PathClosed
    <3> QED BY <1>4, <3>1, <3>3
  <2>2. g \in Paths[g] /\ IsFiniteSet(Paths[g] \ {g}) /\ Cardinality(Paths[g] \ {g}) = Cardinality(Paths[g]) - 1
    BY <1>1, <1>2, PathClosed, FS_RemoveElement
  <2>3. Cardinality(X) <= Cardinality(Paths[g] \ {g})
    BY <2>1, <2>2, FS_Subset
  <2> QED BY <1>2, <2>2, <2>3 DEF Height
<1> QED BY <1>2, <1>3, <1>4

(***************************************************************************)
(* The header store.                                                       *)
(***************************************************************************)
IsStore(s) == s = [accepted |-> s.accepted, tip |-> s.tip] /\ s.accepted \subseteq Headers /\ s.tip \in s.accepted \cup {Anchor}
StoreOK(s) == IsStore(s) /\ Audited(s)
Grows(s, t) == s.accepted \subseteq t.accepted /\ Scores[s.tip] <= Scores[t.tip]

\* What is accepted is there with its whole path, and the best chain with it.
LEMMA PathsAccepted ==
  ASSUME NEW s, StoreOK(s)
  PROVE  /\ s.tip \in Tree /\ Best(s) \subseteq s.accepted
         /\ \A h \in Tree : Known(s, h) => Paths[h] \subseteq s.accepted /\ Scores[h] <= Scores[s.tip]
<1> DEFINE S == {h \in s.accepted : ~(Paths[h] \subseteq s.accepted)}
<1>1. \A h \in s.accepted : Paths[h] \subseteq s.accepted
  <2>1. SUFFICES ASSUME S # {} PROVE FALSE
    OBVIOUS
  <2>2. S \subseteq Headers
    BY DEF StoreOK, IsStore
  <2>3. PICK h \in S : Parent[h] \notin S
    BY <2>1, <2>2, Lowest
  <2>4. Parent[h] = Anchor \/ Parent[h] \in s.accepted
    BY <2>3 DEF StoreOK, Audited, Known
  <2>5. Paths[Parent[h]] \subseteq s.accepted
    BY <2>3, <2>4, PathsFacts
  <2> QED BY <2>2, <2>3, <2>5, PathsFacts
<1>2. s.tip \in Tree
  BY DEF StoreOK, IsStore, Tree
<1>3. Scores[Anchor] = 0 /\ Scores[s.tip] \in Nat
  BY <1>2, ScoresFacts
<1> QED BY <1>1, <1>2, <1>3, PathsFacts DEF StoreOK, IsStore, Audited, Known, Best

\* A header that is added has its parent accepted; the best chain is the heaviest.
LEMMA AddSound ==
  ASSUME NEW s, StoreOK(s), NEW h \in Headers
  PROVE  StoreOK(Add(s, h)) /\ Grows(s, Add(s, h)) /\ (Known(s, Parent[h]) => Known(Add(s, h), h))
<1>1. s.tip \in Tree /\ Parent[h] \in Tree /\ h \in Tree
  BY Parents DEF StoreOK, IsStore, Tree
<1>2. Scores[s.tip] \in Nat /\ Scores[h] \in Nat
  BY <1>1, ScoresFacts
<1>3. CASE Known(s, h) \/ ~Known(s, Parent[h])
  <2>1. Add(s, h) = s
    BY <1>3 DEF Add
  <2> QED BY <1>2, <1>3, <2>1 DEF Grows
<1>4. CASE ~Known(s, h) /\ Known(s, Parent[h])
  <2> DEFINE t == [accepted |-> s.accepted \cup {h}, tip |-> IF Scores[h] > Scores[s.tip] THEN h ELSE s.tip]
  <2>1. Add(s, h) = t
    BY <1>4 DEF Add
  <2>2. IsStore(t)
    BY DEF StoreOK, IsStore
  <2>3. Scores[s.tip] <= Scores[t.tip] /\ Scores[h] <= Scores[t.tip]
    BY <1>2
  <2>4. \A g \in s.accepted : Scores[g] \in Nat /\ Scores[g] <= Scores[s.tip]
    BY ScoresFacts DEF StoreOK, IsStore, Audited, Tree
  <2>5. Scores[t.tip] \in Nat
    BY <1>2
  <2>6. \A g \in t.accepted : Scores[g] <= Scores[t.tip]
    BY <1>2, <2>3, <2>4, <2>5
  <2>7. \A g \in t.accepted : Known(t, Parent[g])
    BY <1>4 DEF StoreOK, Audited, Known
  <2>8. Known(t, t.tip) /\ Known(t, h)
    BY DEF StoreOK, IsStore, Known
  <2>9. s.accepted \subseteq t.accepted
    OBVIOUS
  <2> HIDE DEF t
  <2> QED BY <2>1, <2>2, <2>3, <2>6, <2>7, <2>8, <2>9 DEF StoreOK, Audited, Grows
<1> QED BY <1>3, <1>4

\* A path that is added header by header is known to its end.
LEMMA PathAdded ==
  ASSUME NEW s, StoreOK(s), NEW h \in Tree
  PROVE  StoreOK(AddPath(s, h)) /\ Grows(s, AddPath(s, h)) /\ Known(AddPath(s, h), h)
<1> DEFINE Stores == {t \in [accepted : SUBSET Headers, tip : Tree] : StoreOK(t)}
           step == [x \in Headers \X Stores |-> IF Known(s, x[1]) THEN s ELSE Add(x[2], x[1])]
           Is(f) == f = [g \in Headers \cup {Anchor} |-> IF Known(s, g) THEN s ELSE Add(f[Parent[g]], g)]
<1>1. s \in Stores
  <2>1. s.accepted \in SUBSET Headers /\ s.tip \in Tree
    BY DEF StoreOK, IsStore, Tree
  <2>2. s = [accepted |-> s.accepted, tip |-> s.tip]
    BY DEF StoreOK, IsStore
  <2>3. s \in [accepted : SUBSET Headers, tip : Tree]
    BY <2>1, <2>2
  <2> QED BY <2>3
<1>2. step \in [Headers \X Stores -> Stores]
  <2>1. ASSUME NEW g \in Headers, NEW t \in Stores PROVE Add(t, g) \in Stores
    <3>1. StoreOK(Add(t, g))
      BY AddSound
    <3> DEFINE r == Add(t, g)
    <3>2. r.accepted \in SUBSET Headers /\ r.tip \in Tree /\ r = [accepted |-> r.accepted, tip |-> r.tip]
      BY <3>1 DEF StoreOK, IsStore, Tree
    <3> HIDE DEF r
    <3>3. r \in [accepted : SUBSET Headers, tip : Tree]
      BY <3>2
    <3> QED BY <3>1, <3>3 DEF r
  <2> HIDE DEF Stores
  <2> QED BY <1>1, <2>1
<1>3. PICK f : TreeFold(Stores, s, step, f)
  <2> HIDE DEF Stores, step
  <2> QED BY <1>1, <1>2, TreeFoldExists
<1>4. Is(f)
  <2>1. \A g \in Headers : f[g] = IF Known(s, g) THEN s ELSE Add(f[Parent[g]], g)
    <3> SUFFICES ASSUME NEW g \in Headers PROVE f[g] = IF Known(s, g) THEN s ELSE Add(f[Parent[g]], g)
      OBVIOUS
    <3>1. f[Parent[g]] \in Stores /\ f[g] = step[<<g, f[Parent[g]]>>]
      BY <1>3, Parents DEF TreeFold
    <3> HIDE DEF Stores
    <3> QED BY <3>1
  <2>2. f = [g \in Tree |-> f[g]] /\ f[Anchor] = s
    BY <1>3 DEF TreeFold
  <2>3. Known(s, Anchor)
    BY DEF Known
  <2> HIDE DEF Stores, step
  <2> QED BY <2>1, <2>2, <2>3, Parents DEF Tree
<1> DEFINE added == CHOOSE g : Is(g)
<1>5. Is(added) /\ AddPath(s, h) = added[h]
  <2>1. AddPath(s, h) = (CHOOSE g : Is(g))[h]
    BY DEF AddPath
  <2> HIDE DEF Is
  <2> QED BY <1>4, <2>1
<1> HIDE DEF added
<1> DEFINE OK(g) == StoreOK(added[g]) /\ Grows(s, added[g]) /\ Known(added[g], g)
           S == {g \in Headers : ~OK(g)}
<1>6. \A g \in Tree : added[g] = IF Known(s, g) THEN s ELSE Add(added[Parent[g]], g)
  BY <1>5 DEF Tree
<1>7. Grows(s, s)
  BY PathsAccepted, ScoresFacts DEF Grows
<1>8. \A g \in Tree : Known(s, g) => OK(g)
  BY <1>6, <1>7
<1>9. OK(Anchor)
  BY <1>8 DEF Known, Tree
<1>10. SUFFICES ASSUME S # {} PROVE FALSE
  <2>1. OK(h)
    BY <1>9, <1>10 DEF Tree
  <2> QED BY <1>5, <2>1
<1>11. PICK g \in S : Parent[g] \notin S
  BY <1>10, Lowest
<1>12. g \in Headers /\ g \in Tree /\ ~Known(s, g)
  BY <1>8, <1>11 DEF Tree
<1>13. OK(Parent[g])
  BY <1>9, <1>11, <1>12, Parents DEF Tree
<1>14. added[g] = Add(added[Parent[g]], g)
  BY <1>6, <1>12
<1>15. StoreOK(added[g]) /\ Grows(added[Parent[g]], added[g]) /\ Known(added[g], g)
  BY <1>12, <1>13, <1>14, AddSound
<1>16. Grows(s, added[g])
  <2>1. Scores[s.tip] \in Nat /\ Scores[added[Parent[g]].tip] \in Nat /\ Scores[added[g].tip] \in Nat
    BY <1>13, <1>15, PathsAccepted, ScoresFacts
  <2> QED BY <1>13, <1>15, <2>1 DEF Grows
<1> QED BY <1>11, <1>15, <1>16

\* Pruning keeps the best chain, protected paths and what meets the best chain at the final header or above.
LEMMA PruneSound ==
  ASSUME NEW s, StoreOK(s), NEW final, NEW keep, \A p \in keep : p \in s.accepted
  PROVE  LET t == Prune(s, final, keep)
         IN /\ StoreOK(t) /\ t.tip = s.tip /\ Best(s) \subseteq t.accepted /\ t.accepted \subseteq s.accepted
            /\ keep \subseteq t.accepted
            /\ \A h \in s.accepted : ForkHeight(s, h) >= Height(final) => h \in t.accepted
<1> DEFINE K == UNION {OffBest(s, p) : p \in keep}
           A == {h \in s.accepted : IsBest(s, h) \/ h \in K \/ ForkHeight(s, h) >= Height(final)}
           t == [s EXCEPT !.accepted = A]
<1>1. Prune(s, final, keep) = t
  BY DEF Prune
<1>2. t = [accepted |-> A, tip |-> s.tip] /\ t.accepted = A /\ t.tip = s.tip
  <2>1. s = [accepted |-> s.accepted, tip |-> s.tip]
    BY DEF StoreOK, IsStore
  <2> HIDE DEF A
  <2> QED BY <2>1
<1>3. s.accepted \subseteq Headers /\ Best(s) \subseteq s.accepted /\ s.tip \in Tree
  BY PathsAccepted DEF StoreOK, IsStore
<1>4. keep \subseteq A
  <2> SUFFICES ASSUME NEW p \in keep PROVE p \in A
    OBVIOUS
  <2>1. p \in s.accepted /\ p \in Paths[p]
    BY <1>3, PathsFacts
  <2> QED BY <2>1 DEF OffBest, IsBest
<1>5. s.tip = Anchor \/ s.tip \in A
  BY <1>3, PathsFacts DEF IsBest, Best, Tree, StoreOK, IsStore
<1>6. ASSUME NEW h \in A, Parent[h] # Anchor PROVE Parent[h] \in A
  <2>1. h \in Headers /\ Parent[h] \in s.accepted /\ Parent[h] \in Headers
    BY <1>3, <1>6 DEF StoreOK, Audited, Known
  <2>2. Parent[h] \in Paths[h] /\ Paths[h] = {h} \cup Paths[Parent[h]]
    BY <2>1, PathsFacts
  <2>3. CASE IsBest(s, h)
    <3>1. Paths[h] \subseteq Best(s)
      BY <1>3, <2>3, PathClosed, PathsFacts DEF IsBest, Best, Tree
    <3> QED BY <2>1, <2>2, <3>1 DEF IsBest
  <2>4. CASE h \in K /\ ~IsBest(s, h)
    <3>1. PICK p \in keep : h \in Paths[p] /\ h \notin Best(s)
      BY <2>4 DEF OffBest
    <3>2. Parent[h] \in Paths[p]
      BY <1>3, <2>2, <3>1, PathClosed
    <3> QED BY <2>1, <3>1, <3>2 DEF OffBest, IsBest
  <2>5. CASE ForkHeight(s, h) >= Height(final) /\ ~IsBest(s, h)
    <3>1. Paths[h] \cap Best(s) = Paths[Parent[h]] \cap Best(s)
      BY <2>2, <2>5 DEF IsBest
    <3> QED BY <2>1, <2>5, <3>1 DEF ForkHeight
  <2> QED BY <2>3, <2>4, <2>5
<1>7. StoreOK(t)
  <2>1. IsStore(t)
    BY <1>2, <1>3, <1>5 DEF IsStore
  <2>2. \A h \in A : Known(t, Parent[h]) /\ Scores[h] <= Scores[s.tip]
    BY <1>2, <1>6 DEF Known, StoreOK, Audited
  <2>3. Known(t, t.tip)
    BY <1>2, <1>5 DEF Known
  <2> HIDE DEF t, A
  <2> QED BY <1>2, <2>1, <2>2, <2>3 DEF StoreOK, Audited
<1>8. Best(s) \subseteq A
  BY <1>3 DEF IsBest
<1> HIDE DEF K
<1> QED BY <1>1, <1>2, <1>4, <1>7, <1>8

\* The least of some heights.
LEMMA LeastHeight ==
  ASSUME NEW S \in SUBSET Nat, S # {}
  PROVE  Min(S) \in S /\ \A y \in S : Min(S) <= y
<1>1. PICK x \in S : \A y \in S : ~(<<y, x>> \in OpToRel(<, Nat))
  BY WFMin, NatLessThanWellFounded
<1>2. \A y \in S : x <= y
  <2> SUFFICES ASSUME NEW y \in S PROVE x <= y
    OBVIOUS
  <2>1. x \in Nat /\ y \in Nat
    OBVIOUS
  <2>2. ~(y < x)
    BY <1>1, <2>1 DEF OpToRel
  <2> QED BY <2>1, <2>2
<1> QED BY <1>2 DEF Min

\* The best chain has one header at every height up to its tip's.
LEMMA BestAtHeight ==
  ASSUME NEW s, s.tip \in Tree, NEW k \in 1..Height(s.tip)
  PROVE  BestAt(s, k) \in Best(s) /\ Height(BestAt(s, k)) = k
BY PathIsFull DEF BestAt, Best

\* Where a path meets the best chain is a height.
LEMMA ForkIsHeight ==
  ASSUME NEW s, s.tip \in Tree, NEW h \in Tree
  PROVE  ForkHeight(s, h) \in Nat /\ Height(h) \in Nat
<1>1. IsFiniteSet(Paths[h])
  BY FS_EmptySet, PathsFacts, PathClosed DEF Tree
<1> QED BY <1>1, FS_Subset, FS_CardinalityType DEF ForkHeight, Height

-----------------------------------------------------------------------------
\* What is left of a sequence without some members is of the others.
LEMMA WithoutType ==
  ASSUME NEW S, NEW q \in Seq(S), NEW hs
  PROVE  Without(q, hs) \in Seq(S \ hs)
<1> DEFINE n == Len(q)
           T == Seq(S \ hs)
           next(f, k) == IF k = 0 THEN <<>> ELSE IF q[k] \in hs THEN f[k - 1] ELSE Append(f[k - 1], q[k])
           Is(f) == f = [k \in 0 .. n |-> next(f, k)]
           Upto(f, m) == f \in [0..n -> T] /\ \A k \in 0..m : f[k] = next(f, k)
           Good == {m \in 0..n : \E f : Upto(f, m)}
<1>1. n \in Nat /\ \A k \in 1..n : q[k] \in S
  BY LenProperties, ElementOfSeq
<1>2. 0 \in Good
  <2> DEFINE f == [k \in 0..n |-> <<>>]
  <2>1. Upto(f, 0)
    BY <1>1
  <2> HIDE DEF f, Upto
  <2> QED BY <1>1, <2>1
<1>3. ASSUME NEW m \in 0..n - 1, m \in Good PROVE m + 1 \in Good
  <2>1. PICK f : Upto(f, m)
    BY <1>3
  <2> DEFINE g == [k \in 0..n |-> IF k = m + 1 THEN next(f, k) ELSE f[k]]
  <2>2. next(f, m + 1) \in T
    <3>0. m + 1 \in 1..n /\ m \in 0..n /\ (m + 1) - 1 = m /\ m + 1 # 0
      BY <1>1
    <3>1. q[m + 1] \in S /\ f[m] \in T /\ (m + 1) - 1 = m /\ m + 1 # 0
      <4> HIDE DEF next, n, T
      <4> QED BY <1>1, <2>1, <3>0
    <3>2. q[m + 1] \notin hs => Append(f[m], q[m + 1]) \in T
      BY <3>1, AppendProperties
    <3> HIDE DEF n, T
    <3> QED BY <3>1, <3>2
  <2>3. g \in [0..n -> T]
    <3> HIDE DEF next, T, n
    <3> QED BY <1>1, <2>1, <2>2
  <2>4. ASSUME NEW k \in 0..m + 1 PROVE g[k] = next(g, k)
    <3>1. k \in 0..n /\ (k # 0 => k - 1 \in 0..n /\ g[k - 1] = f[k - 1])
      BY <1>1
    <3>2. g[k] = next(f, k)
      <4>1. k # m + 1 => k \in 0..m
        OBVIOUS
      <4> HIDE DEF next, n, T
      <4> QED BY <2>1, <3>1, <4>1
    <3> HIDE DEF g
    <3> QED BY <3>1, <3>2
  <2>5. Upto(g, m + 1) /\ m + 1 \in 0..n
    <3>1. m + 1 \in 0..n
      BY <1>1
    <3> HIDE DEF g, next, n, T
    <3> QED BY <2>3, <2>4, <3>1
  <2> HIDE DEF g, Upto, n
  <2> QED BY <2>5
<1>4. n \in Good
  <2> DEFINE Bad == {m \in 0..n : m \notin Good}
  <2>1. SUFFICES ASSUME Bad # {} PROVE FALSE
    <3> HIDE DEF Good, n
    <3> QED BY <1>1, <2>1
  <2>2. Bad \in SUBSET Nat
    BY <1>1
  <2>3. Min(Bad) \in Bad /\ \A y \in Bad : Min(Bad) <= y
    <3> HIDE DEF Bad
    <3> QED BY <2>1, <2>2, LeastHeight
  <2> DEFINE m == Min(Bad)
  <2> HIDE DEF m
  <2>4. m \in 0..n /\ m \notin Good /\ m # 0
    <3> HIDE DEF Good
    <3> QED BY <1>2, <2>3 DEF m
  <2>5. m - 1 \in 0..n - 1 /\ m - 1 \in 0..n /\ m - 1 < m /\ (m - 1) + 1 = m
    BY <1>1, <2>4
  <2>6. m - 1 \in Good
    <3>1. m - 1 \notin Bad
      <4> HIDE DEF Bad
      <4> QED BY <2>3, <2>5 DEF m
    <3> HIDE DEF Good
    <3> QED BY <2>5, <3>1
  <2> HIDE DEF Good
  <2> QED BY <1>3, <2>4, <2>5, <2>6
<1>5. PICK f : Upto(f, n)
  BY <1>4
<1>6. Is(f)
  <2> HIDE DEF next, T, n
  <2> QED BY <1>5
<1> DEFINE left == CHOOSE g : Is(g)
<1>7. Is(left) /\ Without(q, hs) = left[n]
  <2>1. Without(q, hs) = (CHOOSE g : Is(g))[n]
    BY DEF Without
  <2> HIDE DEF Is
  <2> QED BY <1>6, <2>1
<1> HIDE DEF left
<1>8. \A k \in 0..n : left[k] \in T
  <2> DEFINE Bad == {k \in 0..n : left[k] \notin T}
  <2>1. SUFFICES ASSUME Bad # {} PROVE FALSE
    OBVIOUS
  <2>2. Bad \in SUBSET Nat
    BY <1>1
  <2>3. Min(Bad) \in Bad /\ \A y \in Bad : Min(Bad) <= y
    <3> HIDE DEF Bad
    <3> QED BY <2>1, <2>2, LeastHeight
  <2> DEFINE m == Min(Bad)
  <2> HIDE DEF m
  <2>4. m \in 0..n /\ left[m] \notin T
    BY <2>3 DEF m
  <2>5. left[m] = next(left, m)
    <3> HIDE DEF next, n
    <3> QED BY <1>7, <2>4
  <2>6. m # 0
    BY <2>4, <2>5
  <2>7. m - 1 \in 0..n /\ m \in 1..n /\ m - 1 < m
    BY <1>1, <2>4, <2>6
  <2>8. left[m - 1] \in T
    <3>1. m - 1 \notin Bad
      <4> HIDE DEF Bad
      <4> QED BY <2>3, <2>7, <2>4 DEF m
    <3> HIDE DEF T
    <3> QED BY <2>7, <3>1
  <2>9. q[m] \notin hs => Append(left[m - 1], q[m]) \in T
    BY <1>1, <2>7, <2>8, AppendProperties
  <2> HIDE DEF T, n
  <2> QED BY <2>4, <2>5, <2>6, <2>8, <2>9
<1> QED BY <1>1, <1>7, <1>8

(***************************************************************************)
(* The view's invariant.                                                   *)
(***************************************************************************)
IsDisk(d) == d = [store |-> d.store, side |-> d.side, protected |-> d.protected, rows |-> d.rows, buried |-> d.buried, failed |-> d.failed]
Passes == [name : Names, last : Tree, added : SUBSET Headers, stopped : BOOLEAN]

\* What each pass led to is known, one pass of every supplier in turn.
PassesOK ==
  /\ passes \in Seq(Passes) /\ Len(passes) <= Len(Suppliers)
  /\ \A i \in DOMAIN passes : passes[i].name = Suppliers[i] /\ Known(store, passes[i].last)

\* Rows are the path to the clock's block, one a height; while the view answers that block is on the best chain and
\* buried.
RowsOn(st, rows, buried, refuses) ==
  /\ rows \in Seq(st.accepted)
  /\ \A k \in DOMAIN rows : Height(rows[k]) = k /\ rows[k] \in Paths[rows[Len(rows)]]
  /\ ~refuses /\ Len(rows) > 0 =>
       /\ rows[Len(rows)] \in Best(st) /\ Known(st, buried) /\ buried \in Tree
       /\ Height(buried) >= Len(rows) + Depth /\ rows[Len(rows)] \in Paths[buried]

SoundView ==
  /\ mined \in 1..Len(Chain) /\ failures \in Nat
  /\ StoreOK(store) /\ IsDisk(disk) /\ StoreOK(disk.store) /\ disk.store.accepted \subseteq store.accepted
  /\ side = disk.side /\ protected = disk.protected /\ failed = disk.failed /\ failed \in BOOLEAN
  /\ disk.protected \in [Names -> Seq(disk.store.accepted)]
  /\ PassesOK /\ RowsOn(disk.store, disk.rows, disk.buried, disk.failed)

\* The suppliers, by their place.
LEMMA SupplierAt ==
  /\ Len(Suppliers) \in Nat /\ DOMAIN Suppliers = 1..Len(Suppliers) /\ \A i \in 1..Len(Suppliers) : Suppliers[i] \in Names
  /\ Len(Chain) \in Nat \ {0} /\ \A i \in 1..Len(Chain) : Chain[i] \in Headers
  /\ \A s \in Names : \E i \in 1..Len(Suppliers) : Suppliers[i] = s
<1>1. Len(Suppliers) \in Nat /\ DOMAIN Suppliers = 1..Len(Suppliers) /\ \A i \in 1..Len(Suppliers) : Suppliers[i] \in Names
  BY ViewAssumption, LenProperties, ElementOfSeq
<1>2. Len(Chain) \in Nat /\ \A i \in 1..Len(Chain) : Chain[i] \in Headers
  BY ViewAssumption, LenProperties, ElementOfSeq
<1>3. Len(Chain) # 0
  BY ViewAssumption, EmptySeq, LenProperties
<1> QED BY <1>1, <1>2, <1>3 DEF Names

\* A pass, ended early or not, adds a path and itself.
LEMMA PassSound ==
  ASSUME SoundView, NEW r \in Tree, NEW stop \in BOOLEAN, Len(passes) < Len(Suppliers), failures' \in Nat,
         passes' = Append(passes, [name |-> Next1, last |-> r, added |-> New(r), stopped |-> stop]),
         store' = AddPath(store, r), UNCHANGED <<mined, side, protected, failed, disk>>
  PROVE  SoundView'
<1>1. StoreOK(AddPath(store, r)) /\ Grows(store, AddPath(store, r)) /\ Known(AddPath(store, r), r)
  BY PathAdded DEF SoundView
<1>2. StoreOK(store') /\ disk'.store.accepted \subseteq store'.accepted
  BY <1>1 DEF SoundView, Grows
<1>3. PassesOK'
  <2> DEFINE e == [name |-> Next1, last |-> r, added |-> New(r), stopped |-> stop]
  <2>1. Len(passes) \in Nat /\ Len(passes) + 1 \in 1..Len(Suppliers) /\ Next1 \in Names /\ passes \in Seq(Passes)
    BY SupplierAt, LenProperties DEF SoundView, PassesOK, Next1
  <2>2. New(r) \in SUBSET Headers
    BY PathsFacts DEF New
  <2>3. e \in Passes
    BY <2>1, <2>2 DEF Passes
  <2>4. passes' \in Seq(Passes) /\ Len(passes') = Len(passes) + 1
    BY <2>1, <2>3, AppendProperties
  <2>5. \A i \in 1..Len(passes) : passes'[i] = passes[i]
    BY <2>1, <2>3, AppendProperties
  <2>6. passes'[Len(passes) + 1] = e
    BY <2>1, <2>3, AppendProperties
  <2>7. DOMAIN passes = 1..Len(passes) /\ DOMAIN passes' = 1..Len(passes')
    BY <2>1, <2>4, LenProperties
  <2>8. ASSUME NEW i \in 1..Len(passes) PROVE passes'[i].name = Suppliers[i] /\ Known(store', passes'[i].last)
    <3>1. passes[i].name = Suppliers[i] /\ Known(store, passes[i].last)
      BY <2>7 DEF SoundView, PassesOK
    <3> QED BY <1>1, <2>5, <3>1 DEF Grows, Known
  <2>9. e.name = Suppliers[Len(passes) + 1] /\ Known(store', e.last)
    BY <1>1 DEF Next1
  <2>10. \A i \in 1..Len(passes') : i \in 1..Len(passes) \/ i = Len(passes) + 1
    BY <2>1, <2>4
  <2> HIDE DEF e
  <2>11. \A i \in DOMAIN passes' : passes'[i].name = Suppliers[i] /\ Known(store', passes'[i].last)
    BY <2>6, <2>7, <2>8, <2>9, <2>10
  <2>12. Len(passes') <= Len(Suppliers)
    BY <2>1, <2>4, SupplierAt
  <2> QED BY <2>4, <2>11, <2>12 DEF PassesOK
<1> QED BY <1>2, <1>3 DEF SoundView

\* Every supplier has its pass once the sync asked them all.
LEMMA PassOf ==
  ASSUME SoundView, Len(passes) = Len(Suppliers), NEW s \in Names
  PROVE  /\ \E i \in DOMAIN passes : passes[i].name = s
         /\ \A i \in DOMAIN passes : passes[i].last \in Tree /\ Known(store, passes[i].last)
<1>1. passes \in Seq(Passes) /\ DOMAIN passes = 1..Len(passes)
  BY LenProperties DEF SoundView, PassesOK
<1>2. \A i \in DOMAIN passes : passes[i] \in Passes
  BY <1>1, ElementOfSeq
<1>3. PICK i \in 1..Len(Suppliers) : Suppliers[i] = s
  BY SupplierAt
<1> QED BY <1>1, <1>2, <1>3 DEF SoundView, PassesOK, Passes

\* What is protected after a sync's passes is accepted.
LEMMA ProtectedAccepted ==
  ASSUME SoundView, Len(passes) = Len(Suppliers)
  PROVE  /\ Protected \in [Names -> Seq(store.accepted)]
         /\ \A s \in Names : Without(Protected[s], Best(store)) \in Seq(store.accepted \ Best(store))
<1>1. ASSUME NEW s \in Names PROVE Protected[s] \in Seq(store.accepted)
  <2> DEFINE pass == passes[CHOOSE i \in DOMAIN passes : passes[i].name = s]
             remaining == Without(protected[s], OffBest(store, pass.last))
  <2>1. pass.last \in Tree /\ Known(store, pass.last)
    BY PassOf
  <2>2. protected[s] \in Seq(store.accepted)
    <3>1. protected[s] \in Seq(disk.store.accepted)
      BY DEF SoundView
    <3> QED BY <3>1, SeqMonotonic DEF SoundView
  <2>3. remaining \in Seq(store.accepted)
    <3>1. remaining \in Seq(store.accepted \ OffBest(store, pass.last))
      <4> HIDE DEF pass
      <4> QED BY <2>2, WithoutType
    <3> HIDE DEF remaining, pass
    <3> QED BY <3>1, SeqMonotonic
  <2>4. ASSUME pass.last # Anchor PROVE Newest(Append(remaining, pass.last)) \in Seq(store.accepted)
    <3> HIDE DEF remaining, pass
    <3> DEFINE q == Append(remaining, pass.last)
    <3>1. q \in Seq(store.accepted)
      BY <2>1, <2>3, <2>4, AppendProperties DEF Known
    <3> HIDE DEF q
    <3>2. Len(q) \in Nat /\ MaxProtected \in Nat \ {0}
      BY <3>1, LenProperties, ViewAssumption
    <3>3. Len(q) > MaxProtected => SubSeq(q, Len(q) - MaxProtected + 1, Len(q)) \in Seq(store.accepted)
      <4> SUFFICES ASSUME Len(q) > MaxProtected PROVE SubSeq(q, Len(q) - MaxProtected + 1, Len(q)) \in Seq(store.accepted)
        OBVIOUS
      <4> DEFINE m == Len(q) - MaxProtected + 1
      <4>1. m \in Int /\ m >= 1
        BY <3>2
      <4> HIDE DEF m
      <4>3. \A i \in m..Len(q) : q[i] \in store.accepted
        <5> SUFFICES ASSUME NEW i \in m..Len(q) PROVE q[i] \in store.accepted
          OBVIOUS
        <5>1. i \in 1..Len(q)
          BY <3>2, <4>1
        <5> QED BY <3>1, <5>1, ElementOfSeq
      <4>2. SubSeq(q, m, Len(q)) \in Seq(store.accepted)
        <5> DEFINE n == Len(q)
        <5>1. n \in Int /\ \A i \in m..n : q[i] \in store.accepted
          BY <3>2, <4>3
        <5> HIDE DEF n
        <5>2. SubSeq(q, m, n) \in Seq(store.accepted)
          BY <4>1, <5>1, SubSeqProperties
        <5> QED BY <5>2 DEF n
      <4> QED BY <4>2 DEF m
    <3>4. Newest(q) \in Seq(store.accepted)
      BY <3>1, <3>3 DEF Newest
    <3> QED BY <3>4 DEF q
  <2>5. Protected[s] = IF pass.last = Anchor \/ IsBest(store, pass.last) THEN protected[s] ELSE Newest(Append(remaining, pass.last))
    BY DEF Protected
  <2> HIDE DEF remaining, pass
  <2> QED BY <2>2, <2>4, <2>5
<1>2. Protected = [s \in Names |-> Protected[s]]
  BY DEF Protected
<1>3. \A s \in Names : Without(Protected[s], Best(store)) \in Seq(store.accepted \ Best(store))
  BY <1>1, WithoutType
<1> HIDE DEF Protected
<1> QED BY <1>1, <1>2, <1>3

\* The clock's bound lies the depth below the tip, and at or below where a pass stopped by its budget meets the best
\* chain above the clock.
LEMMA BoundFacts ==
  ASSUME SoundView, Len(passes) = Len(Suppliers), NEW charges
  PROVE  /\ Bound(charges) \in Nat /\ Bound(charges) <= Less(Height(store.tip), Depth)
         /\ \A f \in Meetings(charges) : Bound(charges) <= f
<1> DEFINE S == {Less(Height(store.tip), Depth)} \cup Meetings(charges)
<1>1. store.tip \in Tree
  BY PathsAccepted DEF SoundView
<1>2. Less(Height(store.tip), Depth) \in Nat
  BY <1>1, ForkIsHeight, ViewAssumption DEF Less
<1>3. Meetings(charges) \subseteq Nat
  <2>1. passes \in Seq(Passes)
    BY DEF SoundView, PassesOK
  <2>2. \A i \in DOMAIN passes : passes[i].last \in Tree
    <3>1. DOMAIN passes = 1..Len(passes)
      BY <2>1, LenProperties
    <3>2. \A i \in DOMAIN passes : passes[i] \in Passes
      BY <2>1, <3>1, ElementOfSeq
    <3> QED BY <3>2 DEF Passes
  <2>3. \A i \in DOMAIN passes : ForkHeight(store, passes[i].last) \in Nat
    BY <1>1, <2>2, ForkIsHeight
  <2> QED BY <2>3 DEF Meetings
<1>4. S \in SUBSET Nat /\ S # {}
  BY <1>2, <1>3
<1>5. Min(S) \in S /\ \A y \in S : Min(S) <= y
  <2> HIDE DEF S
  <2> QED BY <1>4, LeastHeight
<1>6. Bound(charges) = Min(S)
  BY DEF Bound
<1> QED BY <1>4, <1>5, <1>6

\* The rows, their clock and its block.
LEMMA ClockFacts ==
  ASSUME SoundView
  PROVE  /\ Clock \in Nat /\ DOMAIN disk.rows = 1..Clock /\ (Clock > 0 => Pin = disk.rows[Clock])
         /\ Clock > 0 => /\ Pin \in Headers /\ Pin \in disk.store.accepted /\ Height(Pin) = Clock /\ Pin \in Paths[Pin]
         /\ \A k \in 1..Clock : disk.rows[k] \in disk.store.accepted /\ Height(disk.rows[k]) = k /\ disk.rows[k] \in Paths[Pin]
<1>1. disk.rows \in Seq(disk.store.accepted) /\ disk.store.accepted \subseteq Headers
  BY DEF SoundView, RowsOn, StoreOK, IsStore
<1>2. Clock \in Nat /\ DOMAIN disk.rows = 1..Clock /\ \A k \in 1..Clock : disk.rows[k] \in disk.store.accepted
  BY <1>1, LenProperties, ElementOfSeq DEF Clock
<1>3. Clock > 0 => Pin = disk.rows[Clock] /\ Clock \in 1..Clock
  BY <1>2 DEF Pin
<1>4. \A k \in 1..Clock : Height(disk.rows[k]) = k /\ disk.rows[k] \in Paths[disk.rows[Clock]]
  BY <1>2 DEF SoundView, RowsOn, Clock
<1> QED BY <1>1, <1>2, <1>3, <1>4

\* The rows of a sync that read on to a height of the best chain.
LEMMA RowsRead ==
  ASSUME SoundView, KeepsPin, NEW w \in Nat, Clock <= w, w <= Clock \/ w <= Height(store.tip)
  PROVE  LET rows == disk.rows \o [k \in 1 .. w - Clock |-> BestAt(store, Clock + k)]
         IN /\ rows \in Seq(Best(store) \cup disk.store.accepted) /\ Len(rows) = w /\ (w = Clock => rows = disk.rows)
            /\ \A k \in 1..w : Height(rows[k]) = k /\ rows[k] \in Best(store) /\ rows[k] \in Paths[rows[w]]
<1> DEFINE more == [k \in 1 .. w - Clock |-> BestAt(store, Clock + k)]
           rows == disk.rows \o more
           S == Best(store) \cup disk.store.accepted
<1>1. store.tip \in Tree /\ Height(store.tip) \in Nat
  BY PathsAccepted, ForkIsHeight DEF SoundView
<1>2. Clock \in Nat /\ disk.rows \in Seq(S) /\ Len(disk.rows) = Clock
  <2>1. disk.rows \in Seq(disk.store.accepted)
    BY DEF SoundView, RowsOn
  <2>2. disk.rows \in Seq(S)
    <3> HIDE DEF rows, more
    <3> QED BY <2>1, SeqMonotonic
  <2> QED BY <2>2, ClockFacts DEF Clock
<1>3. \A k \in 1..w - Clock : more[k] = BestAt(store, Clock + k) /\ more[k] \in Best(store) /\ Height(more[k]) = Clock + k
  <2> SUFFICES ASSUME NEW k \in 1..w - Clock
               PROVE  BestAt(store, Clock + k) \in Best(store) /\ Height(BestAt(store, Clock + k)) = Clock + k
    OBVIOUS
  <2>1. Clock + k \in 1..Height(store.tip)
    BY <1>1, <1>2
  <2> QED BY <1>1, <2>1, BestAtHeight
<1>4. more \in Seq(S) /\ Len(more) = w - Clock
  <2>1. \A k \in 1..w - Clock : BestAt(store, Clock + k) \in S
    BY <1>3
  <2>2. w - Clock \in Nat
    BY <1>2
  <2> HIDE DEF S
  <2> QED BY <2>1, <2>2
<1> HIDE DEF more, S
<1>5. rows \in Seq(S) /\ Len(rows) = w
  <2>1. rows \in Seq(S) /\ Len(rows) = Len(disk.rows) + Len(more)
    BY <1>2, <1>4, ConcatProperties
  <2> QED BY <1>2, <1>4, <2>1
<1>6. \A k \in 1..Clock : rows[k] = disk.rows[k]
  BY <1>2, <1>4, ConcatProperties
<1>7. \A k \in 1..w : k > Clock => k - Clock \in 1..w - Clock /\ rows[k] = more[k - Clock] /\ Clock + (k - Clock) = k
  <2> SUFFICES ASSUME NEW k \in 1..w, k > Clock
               PROVE  k - Clock \in 1..w - Clock /\ rows[k] = more[k - Clock] /\ Clock + (k - Clock) = k
    OBVIOUS
  <2>1. k - Clock \in 1..w - Clock /\ Clock + (k - Clock) = k /\ k \in 1..Len(disk.rows) + Len(more) /\ k > Len(disk.rows)
    BY <1>2, <1>4
  <2>2. rows[k] = more[k - Len(disk.rows)]
    BY <1>2, <1>4, <2>1, ConcatProperties
  <2> QED BY <1>2, <2>1, <2>2
<1>8. ASSUME NEW k \in 1..w PROVE Height(rows[k]) = k /\ rows[k] \in Best(store)
  <2>1. CASE k <= Clock
    <3>1. k \in 1..Clock /\ Clock > 0
      BY <1>2, <2>1
    <3>2. Pin \in Best(store)
      BY <3>1 DEF KeepsPin, IsBest
    <3>3. Paths[Pin] \subseteq Best(store)
      BY <1>1, <3>2, PathClosed, PathsFacts DEF Best, Tree
    <3> QED BY <1>6, <3>1, <3>3, ClockFacts
  <2>2. CASE k > Clock
    <3>1. rows[k] = more[k - Clock] /\ k - Clock \in 1..w - Clock /\ Clock + (k - Clock) = k
      BY <1>7, <2>2
    <3> HIDE DEF rows
    <3> QED BY <1>3, <3>1
  <2>3. k <= Clock \/ k > Clock
    BY <1>2
  <2> HIDE DEF rows
  <2> QED BY <2>1, <2>2, <2>3
<1> HIDE DEF rows
<1>9. ASSUME NEW k \in 1..w PROVE rows[k] \in Paths[rows[w]]
  <2>1. w \in 1..w /\ k <= w
    BY <1>9
  <2>2. Height(rows[k]) = k /\ rows[k] \in Paths[store.tip] /\ Height(rows[w]) = w /\ rows[w] \in Paths[store.tip]
    BY <1>8, <2>1 DEF Best
  <2>3. rows[k] \in Paths[rows[w]] \/ rows[w] \in Paths[rows[k]]
    BY <1>1, <2>2, OnOnePath
  <2>4. rows[w] \in Paths[rows[k]] /\ rows[w] # rows[k] => Height(rows[w]) < Height(rows[k])
    BY <1>1, <2>2, OnOnePath
  <2>5. rows[w] \in Paths[rows[w]]
    BY <1>1, <2>2, OnOnePath, PathClosed
  <2> QED BY <2>1, <2>2, <2>3, <2>4, <2>5
<1>10. w = Clock => rows = disk.rows
  <2> SUFFICES ASSUME w = Clock PROVE rows = disk.rows
    OBVIOUS
  <2>1. more = <<>>
    BY <1>2, <1>4, EmptySeq
  <2> QED BY <1>2, <2>1, ConcatEmptySeq DEF rows
<1> QED BY <1>5, <1>8, <1>9, <1>10 DEF rows, more, S

\* A sequence whose members are of a set is one of that set.
LEMMA Narrowed ==
  ASSUME NEW S, NEW T, NEW q \in Seq(S), \A i \in 1..Len(q) : q[i] \in T
  PROVE  q \in Seq(T)
<1>1. Len(q) \in Nat /\ q \in [1..Len(q) -> S]
  BY LenProperties
<1>2. q \in [1..Len(q) -> T]
  BY <1>1
<1> QED BY <1>1, <1>2, SeqDef

\* No pass is under way after a sync, whatever it committed.
LEMMA NoPasses == ASSUME passes' = <<>> PROVE PassesOK'
<1>1. Len(Suppliers) \in Nat /\ <<>> \in Seq(Passes) /\ Len(<<>>) = 0 /\ DOMAIN <<>> = {}
  BY SupplierAt, EmptySeq
<1> QED BY <1>1 DEF PassesOK

\* What a sync that keeps the clock's block may read up to.
LEMMA WitnessedFacts ==
  ASSUME SoundView, Len(passes) = Len(Suppliers), NEW w \in Clock .. Bound(Charged) \cup {Clock}
  PROVE  /\ w \in Nat /\ Clock <= w /\ (w <= Clock \/ w <= Height(store.tip))
         /\ w = Clock \/ (w <= Bound(Charged) /\ w <= Less(Height(store.tip), Depth) /\ Clock < w)
         /\ w > Clock => w + Depth <= Height(store.tip)
<1>1. store.tip \in Tree /\ Height(store.tip) \in Nat
  BY PathsAccepted, ForkIsHeight DEF SoundView
<1>2. Bound(Charged) \in Nat /\ Bound(Charged) <= Less(Height(store.tip), Depth) /\ Clock \in Nat
  BY BoundFacts, ClockFacts
<1>3. Depth \in Nat
  BY ViewAssumption
<1>4. Less(Height(store.tip), Depth) \in Nat /\ Less(Height(store.tip), Depth) <= Height(store.tip)
      /\ (Less(Height(store.tip), Depth) > 0 => Less(Height(store.tip), Depth) + Depth = Height(store.tip))
  BY <1>1, <1>3 DEF Less
<1>5. w \in Nat /\ Clock <= w /\ (w = Clock \/ (w <= Bound(Charged) /\ Clock < w))
  BY <1>2
<1> HIDE DEF Less
<1> QED BY <1>1, <1>2, <1>3, <1>4, <1>5

\* A sync that finishes.
LEMMA FinishSound == ASSUME SoundView, Finish PROVE SoundView'
<1>1. Len(passes) = Len(Suppliers) /\ ~failed /\ KeepsPin /\ passes' = <<>> /\ UNCHANGED <<mined, failed, failures, crashes>>
  BY DEF Finish
<1>2. PICK w \in Clock .. Bound(Charged) \cup {Clock} :
        LET rows == disk.rows \o [k \in 1 .. w - Clock |-> BestAt(store, Clock + k)]
            pin == rows[w]
            paths == [s \in Names |-> Without(Protected[s], Best(store))]
            guarded == UNION {{paths[s][i] : i \in DOMAIN paths[s]} : s \in Names}
            buried == IF w > 0 /\ Height(store.tip) >= w + Depth THEN store.tip ELSE disk.buried
        IN IF w = 0 THEN Commit(Unmoved(FALSE))
           ELSE Commit([store |-> Prune(store, pin, guarded), side |-> Charged, protected |-> paths, rows |-> rows, buried |-> buried, failed |-> FALSE])
  BY DEF Finish
<1> DEFINE rows == disk.rows \o [k \in 1 .. w - Clock |-> BestAt(store, Clock + k)]
           paths == [s \in Names |-> Without(Protected[s], Best(store))]
           guarded == UNION {{paths[s][i] : i \in DOMAIN paths[s]} : s \in Names}
           buried == IF w > 0 /\ Height(store.tip) >= w + Depth THEN store.tip ELSE disk.buried
           t == Prune(store, rows[w], guarded)
<1>3. /\ w \in Nat /\ Clock <= w /\ (w <= Clock \/ w <= Height(store.tip)) /\ Clock \in Nat
      /\ w # Clock => w + Depth <= Height(store.tip)
  BY <1>1, WitnessedFacts, ClockFacts
<1>4. StoreOK(store) /\ store.tip \in Tree /\ Best(store) \subseteq store.accepted
  BY PathsAccepted DEF SoundView
<1>5. CASE w = 0
  <2> DEFINE d == Unmoved(FALSE)
  <2>1. disk' = d /\ store' = d.store /\ side' = d.side /\ protected' = d.protected
    BY <1>2, <1>5 DEF Commit
  <2>2. d = [store |-> store, side |-> Charged, protected |-> Protected, rows |-> disk.rows, buried |-> disk.buried, failed |-> FALSE]
    BY DEF Unmoved
  <2> HIDE DEF d
  <2>3. IsDisk(disk') /\ disk'.store = store /\ store' = store /\ disk'.protected = Protected /\ disk'.rows = disk.rows
        /\ disk'.failed = failed /\ side' = disk'.side /\ protected' = disk'.protected
    BY <1>1, <2>1, <2>2 DEF IsDisk, SoundView
  <2>4. Len(disk.rows) = 0
    BY <1>3, <1>5 DEF Clock
  <2>5. RowsOn(disk'.store, disk'.rows, disk'.buried, disk'.failed)
    <3>1. disk.rows \in Seq(disk.store.accepted)
      BY DEF SoundView, RowsOn
    <3>2. disk.rows = <<>> /\ <<>> \in Seq(store.accepted) /\ DOMAIN <<>> = {}
      BY <2>4, <3>1, EmptySeq
    <3> QED BY <2>3, <2>4, <3>2 DEF RowsOn
  <2> QED BY <1>1, <1>4, <2>3, <2>5, NoPasses, ProtectedAccepted DEF SoundView
<1>6. CASE w # 0
  <2>1. disk' = [store |-> t, side |-> Charged, protected |-> paths, rows |-> rows, buried |-> buried, failed |-> FALSE]
        /\ store' = t /\ side' = Charged /\ protected' = paths
    BY <1>2, <1>6 DEF Commit
  <2>2. /\ Len(rows) = w /\ (w = Clock => rows = disk.rows) /\ rows \in Seq(Best(store) \cup disk.store.accepted)
        /\ \A k \in 1..w : Height(rows[k]) = k /\ rows[k] \in Best(store) /\ rows[k] \in Paths[rows[w]]
    <3> HIDE DEF rows
    <3> QED BY <1>1, <1>3, RowsRead DEF rows
  <2>3. \A s \in Names : paths[s] \in Seq(store.accepted \ Best(store))
    BY <1>1, ProtectedAccepted
  <2> HIDE DEF rows, buried
  <2>4. \A p \in guarded : p \in store.accepted
    <3> SUFFICES ASSUME NEW s \in Names, NEW i \in DOMAIN paths[s] PROVE paths[s][i] \in store.accepted
      OBVIOUS
    <3> DEFINE q == paths[s]
    <3>1. q \in Seq(store.accepted \ Best(store)) /\ i \in DOMAIN q
      BY <2>3
    <3> HIDE DEF q
    <3>2. q[i] \in store.accepted
      BY <3>1, ElementOfSeq, LenProperties
    <3> QED BY <3>2 DEF q
  <2>5. \A s \in Names : \A i \in DOMAIN paths[s] : paths[s][i] \in guarded
    OBVIOUS
  <2>10. paths = [s \in Names |-> paths[s]]
    OBVIOUS
  <2> HIDE DEF guarded, paths
  <2>6. /\ StoreOK(t) /\ t.tip = store.tip /\ Best(store) \subseteq t.accepted /\ t.accepted \subseteq store.accepted
        /\ guarded \subseteq t.accepted
        /\ \A h \in store.accepted : ForkHeight(store, h) >= Height(rows[w]) => h \in t.accepted
    BY <1>4, <2>4, PruneSound
  <2> HIDE DEF t
  <2>7. \A s \in Names : paths[s] \in Seq(t.accepted)
    <3> SUFFICES ASSUME NEW s \in Names PROVE paths[s] \in Seq(t.accepted)
      OBVIOUS
    <3>1. DOMAIN paths[s] = 1..Len(paths[s])
      BY <2>3, LenProperties
    <3> QED BY <2>3, <2>5, <2>6, <3>1, Narrowed
  <2>8. rows \in Seq(t.accepted) /\ DOMAIN rows = 1..Len(rows)
    BY <2>2, <2>6, Narrowed, LenProperties
  <2>9. w \in 1..w /\ rows[w] \in Best(store) /\ Height(rows[w]) = w
    BY <1>3, <1>6, <2>2
  <2>11. Known(t, buried) /\ buried \in Tree /\ Height(buried) >= w + Depth /\ rows[w] \in Paths[buried]
    <3>1. CASE Height(store.tip) >= w + Depth
      <4>1. buried = store.tip
        BY <1>3, <1>6, <3>1 DEF buried
      <4> QED BY <1>4, <2>6, <2>9, <3>1, <4>1 DEF StoreOK, Audited, Best
    <3>2. CASE ~(Height(store.tip) >= w + Depth)
      <4>1. buried = disk.buried
        BY <3>2 DEF buried
      <4>2. w = Clock
        <5>1. Height(store.tip) \in Nat /\ Depth \in Nat
          BY <1>4, ForkIsHeight, ViewAssumption
        <5> QED BY <1>3, <3>2, <5>1
      <4>3. Known(disk.store, buried) /\ buried \in Tree /\ Height(buried) >= w + Depth /\ rows[w] \in Paths[buried]
        <5>1. ~disk.failed /\ Len(disk.rows) > 0 /\ rows = disk.rows /\ Len(disk.rows) = w
          BY <1>1, <1>3, <1>6, <2>2, <4>2 DEF SoundView, Clock
        <5> QED BY <4>1, <5>1 DEF SoundView, RowsOn
      <4>4. buried \in store.accepted
        BY <4>3, PathsFacts DEF Known, SoundView
      <4>5. ForkHeight(store, buried) >= Height(rows[w])
        BY <1>4, <2>9, <4>3, Meeting DEF ForkHeight, Best
      <4> QED BY <2>6, <4>3, <4>4, <4>5 DEF Known
    <3> QED BY <3>1, <3>2
  <2>12. RowsOn(t, rows, buried, FALSE)
    BY <2>2, <2>6, <2>8, <2>9, <2>11 DEF RowsOn, Best
  <2>13. IsDisk(disk') /\ disk'.store = t /\ disk'.protected = paths /\ disk'.rows = rows /\ disk'.buried = buried /\ disk'.failed = FALSE
         /\ side' = disk'.side
    BY <2>1 DEF IsDisk
  <2>14. failed' = FALSE
    BY <1>1 DEF SoundView
  <2> QED BY <1>1, <2>1, <2>6, <2>7, <2>10, <2>12, <2>13, <2>14, NoPasses DEF SoundView
<1> QED BY <1>5, <1>6

\* A sync that finds the clock's block gone.
LEMMA FailSound == ASSUME SoundView, Fail PROVE SoundView'
<1> DEFINE d == Unmoved(TRUE)
<1>1. /\ Len(passes) = Len(Suppliers) /\ disk' = d /\ store' = d.store /\ side' = d.side /\ protected' = d.protected
      /\ failed' = TRUE /\ passes' = <<>> /\ UNCHANGED <<mined, failures, crashes>>
  BY DEF Fail, Commit, SoundView
<1>2. d = [store |-> store, side |-> Charged, protected |-> Protected, rows |-> disk.rows, buried |-> disk.buried, failed |-> TRUE]
  BY DEF Unmoved
<1> HIDE DEF d
<1>3. IsDisk(disk') /\ disk'.store = store /\ store' = store /\ disk'.protected = Protected /\ disk'.rows = disk.rows
      /\ disk'.failed = TRUE /\ side' = disk'.side /\ protected' = disk'.protected
  BY <1>1, <1>2 DEF IsDisk
<1>4. disk.rows \in Seq(disk.store.accepted) /\ disk.store.accepted \subseteq store.accepted
  BY DEF SoundView, RowsOn
<1>5. disk.rows \in Seq(store.accepted)
  BY <1>4, SeqMonotonic
<1>6. RowsOn(store, disk.rows, disk'.buried, TRUE)
  BY <1>5 DEF SoundView, RowsOn
<1> QED BY <1>1, <1>3, <1>6, NoPasses, ProtectedAccepted DEF SoundView

\* The inductive invariant of the view: stores whose headers link and whose best chain is the heaviest, passes that led to
\* what is known, and rows that are the path to the clock's block.
THEOREM ViewSound == Spec => []SoundView
<1>1. ASSUME Init PROVE SoundView
  <2>1. StoreOK(NewStore)
    BY DEF NewStore, StoreOK, IsStore, Audited, Known
  <2>2. 1 \in 1..Len(Chain) /\ 0 \in Nat
    BY SupplierAt
  <2>3. <<>> \in Seq({}) /\ Len(<<>>) = 0 /\ DOMAIN <<>> = {} /\ <<>> \in Seq(Passes) /\ NewStore.accepted = {}
    BY EmptySeq DEF NewStore
  <2>4. NoPaths \in [Names -> Seq(NewStore.accepted)]
    BY <2>3 DEF NoPaths
  <2>5. disk = [store |-> NewStore, side |-> NoSides, protected |-> NoPaths, rows |-> <<>>, buried |-> Anchor, failed |-> FALSE]
        /\ store = NewStore /\ side = NoSides /\ protected = NoPaths /\ passes = <<>> /\ failed = FALSE /\ mined = 1 /\ failures = 0
    BY <1>1 DEF Init
  <2>6. IsDisk(disk) /\ disk.store = NewStore /\ disk.side = NoSides /\ disk.protected = NoPaths /\ disk.rows = <<>> /\ disk.failed = FALSE
    BY <2>5 DEF IsDisk
  <2>7. RowsOn(disk.store, disk.rows, disk.buried, disk.failed)
    BY <2>3, <2>6 DEF RowsOn
  <2>8. PassesOK
    BY <2>3, <2>5, SupplierAt DEF PassesOK
  <2> QED BY <2>1, <2>2, <2>4, <2>5, <2>6, <2>7, <2>8 DEF SoundView
<1>2. ASSUME SoundView, [Next]_vars PROVE SoundView'
  <2>1. CASE Pass
    <3>1. PICK tip \in (IF Next1 = Honest THEN {Chain[mined]} ELSE Headers), r \in Headers \cup {Anchor} :
            Asks(Next1, tip, r) /\ Ends(Next1, tip, r)
      BY <2>1 DEF Pass
    <3>2. /\ passes' = Append(passes, [name |-> Next1, last |-> r, added |-> New(r), stopped |-> Stopped(tip, r)])
          /\ store' = AddPath(store, r) /\ r \in Tree
      BY <3>1 DEF Asks, Tree
    <3>3. Len(passes) < Len(Suppliers) /\ UNCHANGED <<mined, side, protected, failed, disk>> /\ failures' = failures
      BY <2>1 DEF Pass
    <3>4. Stopped(tip, r) \in BOOLEAN /\ failures' \in Nat
      BY <1>2, <3>3 DEF Stopped, SoundView
    <3> HIDE DEF Stopped
    <3> QED BY <1>2, <3>2, <3>3, <3>4, PassSound
  <2>2. CASE PassFails
    <3>1. PICK r \in Paths[Chain[mined]] \cup {Anchor} :
            /\ passes' = Append(passes, [name |-> Honest, last |-> r, added |-> New(r), stopped |-> FALSE])
            /\ store' = AddPath(store, r)
      BY <2>2 DEF PassFails
    <3>2. Len(passes) < Len(Suppliers) /\ UNCHANGED <<mined, side, protected, failed, disk>> /\ failures' = failures + 1 /\ Next1 = Honest
      BY <2>2 DEF PassFails
    <3>3. Chain[mined] \in Headers /\ failures' \in Nat
      BY <1>2, <3>2, SupplierAt DEF SoundView
    <3>4. r \in Tree
      BY <3>3, PathsFacts DEF Tree
    <3> QED BY <1>2, <3>1, <3>2, <3>3, <3>4, PassSound
  <2>3. CASE Fail
    BY <1>2, <2>3, FailSound
  <2>4. CASE Finish
    BY <1>2, <2>4, FinishSound
  <2>5. CASE Crash
    BY <1>2, <2>5, NoPasses DEF Crash, SoundView
  <2>6. CASE Mine
    <3>1. mined' \in 1..Len(Chain)
      BY <1>2, <2>6, SupplierAt DEF Mine, SoundView
    <3> QED BY <1>2, <2>6, <3>1 DEF Mine, memory, SoundView, PassesOK
  <2>7. CASE UNCHANGED vars
    BY <1>2, <2>7 DEF vars, memory, SoundView, PassesOK
  <2> QED BY <1>2, <2>1, <2>2, <2>3, <2>4, <2>5, <2>6, <2>7 DEF Next, Syncs
<1> QED BY <1>1, <1>2, PTL DEF Spec

\* What a view answers is one chain's, and what it committed opens again.
THEOREM RowsAreReproduced == Spec => []RowsReproduce
<1>1. ASSUME SoundView PROVE RowsReproduce
  <2>1. /\ Clock \in Nat /\ (Clock > 0 => Pin = disk.rows[Clock] /\ Pin \in Headers /\ Height(Pin) = Clock)
        /\ \A k \in 1..Clock : disk.rows[k] \in disk.store.accepted /\ Height(disk.rows[k]) = k /\ disk.rows[k] \in Paths[Pin]
    BY <1>1, ClockFacts
  <2>2. StoreOK(disk.store) /\ disk.store.tip \in Tree
    BY <1>1, PathsAccepted DEF SoundView
  <2>3. ASSUME NEW k \in 2..Clock PROVE Parent[disk.rows[k]] = disk.rows[k - 1]
    <3>1. k \in 1..Clock /\ k - 1 \in 1..Clock /\ Clock > 0
      BY <2>1
    <3>2. disk.rows[k] \in Headers
      BY <2>1, <2>2, <3>1 DEF StoreOK, IsStore
    <3>3. Height(Parent[disk.rows[k]]) = k - 1
      BY <2>1, <3>1, <3>2, AboveParent
    <3>4. Parent[disk.rows[k]] \in Headers
      BY <2>1, <3>1, <3>2, <3>3, AboveParent, Parents DEF Tree
    <3>5. Parent[disk.rows[k]] \in Paths[Pin]
      <4>1. Parent[disk.rows[k]] \in Paths[disk.rows[k]]
        BY <3>2, <3>4, PathsFacts
      <4> QED BY <2>1, <3>1, <4>1, PathClosed
    <3> QED BY <2>1, <3>1, <3>3, <3>5, OnOnePath DEF Tree
  <2>4. ASSUME NEW s \in Names, NEW i \in DOMAIN disk.protected[s] PROVE Known(disk.store, disk.protected[s][i])
    <3> DEFINE q == disk.protected[s]
    <3>1. q \in Seq(disk.store.accepted) /\ i \in DOMAIN q
      BY <1>1, <2>4 DEF SoundView
    <3> HIDE DEF q
    <3>2. q[i] \in disk.store.accepted
      BY <3>1, ElementOfSeq, LenProperties
    <3> QED BY <3>2 DEF Known, q
  <2>5. ASSUME ~disk.failed, Clock > 0
        PROVE  /\ BestAt(disk.store, Clock) = Pin
               /\ Known(disk.store, disk.buried) /\ Height(disk.buried) >= Clock + Depth /\ ForkHeight(disk.store, disk.buried) >= Clock
    <3>1. /\ Pin \in Best(disk.store) /\ Known(disk.store, disk.buried) /\ disk.buried \in Tree
          /\ Height(disk.buried) >= Clock + Depth /\ Pin \in Paths[disk.buried]
      BY <1>1, <2>1, <2>5 DEF SoundView, RowsOn, Clock
    <3>2. BestAt(disk.store, Clock) = Pin
      <4>1. \A h \in Best(disk.store) : Height(h) = Clock => h = Pin
        BY <2>1, <2>2, <2>5, <3>1, OnOnePath DEF Best
      <4> QED BY <2>1, <2>5, <3>1, <4>1 DEF BestAt
    <3>3. ForkHeight(disk.store, disk.buried) >= Clock
      BY <2>1, <2>2, <2>5, <3>1, Meeting DEF ForkHeight, Best
    <3> QED BY <3>1, <3>2, <3>3
  <2> QED BY <2>1, <2>2, <2>3, <2>4, <2>5 DEF RowsReproduce, StoreOK
<1> QED BY <1>1, ViewSound, PTL

(***************************************************************************)
(* The clock's block is on the network's heaviest chain, while its         *)
(* supplier answers and has side headers left to be read.                  *)
(***************************************************************************)
OnChain == Clock > 0 => Pin \in Paths[Chain[mined]]

\* The honest supplier's pass led to a tip of the network's chain, or was stopped by its budget past the clock's block.
HonestPass(pass, tips, clock, pin) ==
  \E m \in 1..tips :
    /\ pass.last \in Paths[Chain[m]] \cup {Anchor}
    /\ pass.last = Chain[m] \/ (pass.stopped /\ (clock > 0 => pin \in Paths[pass.last]))
OnHeaviest ==
  failures = 0 => OnChain /\ \A i \in DOMAIN passes : passes[i].name = Honest => HonestPass(passes[i], mined, Clock, Pin)
QuotaLeft == ~SideQuotaSpent(side, Honest)

\* The network's tips are headers, each on the paths of the later ones.
LEMMA TipsGoOn ==
  ASSUME NEW m \in 1..Len(Chain), NEW n \in m..Len(Chain)
  PROVE  /\ Chain[m] \in Headers /\ Chain[n] \in Headers /\ Paths[Chain[m]] \subseteq Paths[Chain[n]]
         /\ \A h \in Headers : Scores[h] >= Scores[Chain[m]] => Cardinality(Paths[h] \cap Paths[Chain[m]]) + Depth >= Height(h)
<1>1. m \in 1..Len(Chain) /\ n \in 1..Len(Chain) /\ m <= n
  BY SupplierAt
<1>2. Chain[m] \in Headers /\ Chain[n] \in Headers
  BY <1>1, SupplierAt
<1>3. DOMAIN Chain = 1..Len(Chain)
  BY ViewAssumption, LenProperties
<1>4. Chain[m] \in Paths[Chain[n]] /\ \A h \in Headers : Scores[h] >= Scores[Chain[m]] => Cardinality(Paths[h] \cap Paths[Chain[m]]) + Depth >= Height(h)
  BY <1>1, <1>3, NetworkAssumption
<1> QED BY <1>2, <1>4, PathClosed

\* The honest supplier's pass.
LEMMA PassOnChain ==
  ASSUME SoundView, OnHeaviest, QuotaLeft, Pass
  PROVE  OnHeaviest'
<1>1. PICK tip \in (IF Next1 = Honest THEN {Chain[mined]} ELSE Headers), r \in Headers \cup {Anchor} :
        Asks(Next1, tip, r) /\ Ends(Next1, tip, r)
  BY DEF Pass
<1>2. failures' = failures /\ disk' = disk /\ mined' = mined /\ mined \in 1..Len(Chain)
  BY DEF Pass, SoundView
<1> DEFINE e == [name |-> Next1, last |-> r, added |-> New(r), stopped |-> Stopped(tip, r)]
<1>3. passes' = Append(passes, e) /\ passes \in Seq(Passes)
  BY <1>1 DEF Asks, SoundView, PassesOK
<1>4. SUFFICES ASSUME failures = 0 PROVE OnChain' /\ \A i \in DOMAIN passes' : passes'[i].name = Honest => HonestPass(passes'[i], mined', Clock', Pin')
  BY <1>2 DEF OnHeaviest
<1>5. OnChain' /\ Clock' = Clock /\ Pin' = Pin
  BY <1>2, <1>4 DEF OnHeaviest, OnChain, Clock, Pin
<1>6. ASSUME NEW pass, HonestPass(pass, mined, Clock, Pin) PROVE HonestPass(pass, mined', Clock', Pin')
  BY <1>2, <1>5, <1>6
<1>7. ASSUME Next1 = Honest PROVE HonestPass(e, mined, Clock, Pin)
  <2>1. tip = Chain[mined] /\ tip \in Headers /\ mined \in 1..mined
    BY <1>1, <1>2, <1>7, SupplierAt
  <2>2. r \in Paths[tip] \cup {Anchor} /\ r \in Tree
    BY <1>1 DEF Asks, Tree
  <2>3. r = tip \/ Stopped(tip, r)
    <3>1. \A h : Readable(Honest, h)
      BY DEF Readable, QuotaLeft
    <3> QED BY <1>1, <1>7, <3>1 DEF Ends, Stopped
  <2>4. ASSUME Stopped(tip, r), Clock > 0 PROVE Pin \in Paths[r]
    <3>1. New(r) # {}
      BY <2>4, ViewAssumption, FS_EmptySet DEF Stopped
    <3>2. r \in Paths[tip]
      BY <2>2, <3>1, PathsFacts DEF New
    <3>3. r \notin store.accepted
      BY <2>2, <3>1, PathsAccepted DEF New, SoundView, Known
    <3>4. Pin \in disk.store.accepted /\ Pin \in store.accepted /\ Pin \in Tree
      BY <2>4, ClockFacts DEF SoundView, Tree
    <3>5. r \notin Paths[Pin]
      BY <3>3, <3>4, PathsAccepted DEF SoundView, Known
    <3>6. Pin \in Paths[tip]
      BY <1>4, <2>1, <2>4 DEF OnHeaviest, OnChain
    <3> QED BY <2>1, <3>2, <3>5, <3>6, OnOnePath DEF Tree
  <2>5. e.last = r /\ e.stopped = Stopped(tip, r)
    OBVIOUS
  <2> HIDE DEF e
  <2>6. e.last \in Paths[Chain[mined]] \cup {Anchor} /\ (e.last = Chain[mined] \/ (e.stopped /\ (Clock > 0 => Pin \in Paths[e.last])))
    BY <2>1, <2>2, <2>3, <2>4, <2>5
  <2> QED BY <2>1, <2>6 DEF HonestPass
<1>8. e.name = Next1
  OBVIOUS
<1> HIDE DEF e
<1>9. ASSUME NEW i \in DOMAIN passes', passes'[i].name = Honest PROVE HonestPass(passes'[i], mined', Clock', Pin')
  <2>1. Len(passes) \in Nat /\ DOMAIN passes = 1..Len(passes) /\ DOMAIN passes' = 1..Len(passes) + 1
    BY <1>3, LenProperties
  <2>2. CASE i = Len(passes) + 1
    <3>1. passes'[i] = e
      BY <1>3, <2>1, <2>2
    <3> QED BY <1>6, <1>7, <1>8, <1>9, <3>1
  <2>3. CASE i # Len(passes) + 1
    <3>1. i \in DOMAIN passes
      BY <2>1, <2>3
    <3>2. passes'[i] = passes[i]
      BY <1>3, <2>1, <3>1
    <3> QED BY <1>4, <1>6, <1>9, <3>1, <3>2 DEF OnHeaviest
  <2> QED BY <2>2, <2>3
<1> QED BY <1>5, <1>9

\* What a sync commits.
LEMMA FinishOnChain ==
  ASSUME SoundView, OnHeaviest, QuotaLeft', Finish
  PROVE  OnHeaviest'
<1>1. Len(passes) = Len(Suppliers) /\ ~failed /\ KeepsPin /\ passes' = <<>> /\ UNCHANGED <<mined, failed, failures, crashes>>
  BY DEF Finish
<1>2. PICK w \in Clock .. Bound(Charged) \cup {Clock} :
        LET rows == disk.rows \o [k \in 1 .. w - Clock |-> BestAt(store, Clock + k)]
            pin == rows[w]
            paths == [s \in Names |-> Without(Protected[s], Best(store))]
            guarded == UNION {{paths[s][i] : i \in DOMAIN paths[s]} : s \in Names}
            buried == IF w > 0 /\ Height(store.tip) >= w + Depth THEN store.tip ELSE disk.buried
        IN IF w = 0 THEN Commit(Unmoved(FALSE))
           ELSE Commit([store |-> Prune(store, pin, guarded), side |-> Charged, protected |-> paths, rows |-> rows, buried |-> buried, failed |-> FALSE])
  BY DEF Finish
<1> DEFINE rows == disk.rows \o [k \in 1 .. w - Clock |-> BestAt(store, Clock + k)]
<1>3. /\ w \in Nat /\ Clock <= w /\ (w <= Clock \/ w <= Height(store.tip)) /\ Clock \in Nat
      /\ w = Clock \/ (w <= Bound(Charged) /\ Clock < w)
      /\ w > Clock => w + Depth <= Height(store.tip)
  BY <1>1, WitnessedFacts, ClockFacts
<1>4. side' = Charged /\ (w = 0 => disk'.rows = disk.rows) /\ (w # 0 => disk'.rows = rows)
  <2>1. CASE w = 0
    BY <1>2, <2>1 DEF Commit, Unmoved
  <2>2. CASE w # 0
    <3> DEFINE paths == [s \in Names |-> Without(Protected[s], Best(store))]
               guarded == UNION {{paths[s][i] : i \in DOMAIN paths[s]} : s \in Names}
               buried == IF w > 0 /\ Height(store.tip) >= w + Depth THEN store.tip ELSE disk.buried
               t == Prune(store, rows[w], guarded)
    <3>1. disk' = [store |-> t, side |-> Charged, protected |-> paths, rows |-> rows, buried |-> buried, failed |-> FALSE]
          /\ side' = Charged
      BY <1>2, <2>2 DEF Commit
    <3> HIDE DEF paths, guarded, buried, t, rows
    <3> QED BY <2>2, <3>1
  <2> QED BY <2>1, <2>2
<1>5. /\ Len(rows) = w /\ (w = Clock => rows = disk.rows)
      /\ \A k \in 1..w : Height(rows[k]) = k /\ rows[k] \in Best(store)
  <2> HIDE DEF rows
  <2> QED BY <1>1, <1>3, RowsRead DEF rows
<1> HIDE DEF rows
<1>6. SUFFICES ASSUME failures = 0 PROVE OnChain'
  <2>1. DOMAIN passes' = {}
    BY <1>1, EmptySeq
  <2> QED BY <1>1, <1>6, <2>1 DEF OnHeaviest
<1>7. CASE w = Clock
  <2>1. disk'.rows = disk.rows
    BY <1>4, <1>5, <1>7
  <2> QED BY <1>1, <1>6, <2>1 DEF OnHeaviest, OnChain, Clock, Pin
<1>8. CASE w # Clock
  <2>1. w > 0 /\ w \in 1..w /\ Clock < w
    BY <1>3, <1>8
  <2>2. disk'.rows = rows /\ Clock' = w /\ Pin' = rows[w]
    BY <1>4, <1>5, <2>1 DEF Clock, Pin
  <2> DEFINE pin == rows[w]
  <2>3. Height(pin) = w /\ pin \in Paths[store.tip]
    BY <1>5, <2>1 DEF Best
  <2> HIDE DEF pin
  <2>4. PICK i \in DOMAIN passes : passes[i].name = Honest
    BY <1>1, PassOf, ViewAssumption
  <2> DEFINE r == passes[i].last
  <2>5. r \in Tree /\ Known(store, r) /\ HonestPass(passes[i], mined, Clock, Pin)
    BY <1>1, <1>6, <2>4, PassOf, ViewAssumption DEF OnHeaviest
  <2>6. PICK m \in 1..mined :
          /\ r \in Paths[Chain[m]] \cup {Anchor}
          /\ r = Chain[m] \/ (passes[i].stopped /\ (Clock > 0 => Pin \in Paths[r]))
    BY <2>5 DEF HonestPass
  <2>7. mined \in 1..Len(Chain) /\ m \in 1..Len(Chain) /\ mined \in m..Len(Chain)
    BY SupplierAt DEF SoundView
  <2>8. /\ Chain[m] \in Headers /\ Paths[Chain[m]] \subseteq Paths[Chain[mined]]
        /\ \A h \in Headers : Scores[h] >= Scores[Chain[m]] => Cardinality(Paths[h] \cap Paths[Chain[m]]) + Depth >= Height(h)
    BY <2>7, TipsGoOn
  <2>9. StoreOK(store) /\ store.tip \in Headers
    BY <2>3, PathsFacts, PathsAccepted DEF SoundView, Tree
  <2>10. CASE r = Chain[m]
    <3>1. Scores[store.tip] >= Scores[Chain[m]]
      <4>1. Scores[Chain[m]] <= Scores[store.tip] /\ Scores[Chain[m]] \in Nat /\ Scores[store.tip] \in Nat
        BY <2>5, <2>8, <2>9, <2>10, PathsAccepted, ScoresFacts DEF Tree
      <4> QED BY <4>1
    <3> DEFINE c == Cardinality(Paths[store.tip] \cap Paths[Chain[m]])
    <3>2. c + Depth >= Height(store.tip) /\ c \in Nat /\ Height(store.tip) \in Nat /\ Depth \in Nat
      <4>1. c \in Nat
        <5>1. Chain[m] \in Paths[Chain[m]]
          BY <2>8, PathsFacts
        <5> QED BY <2>8, <2>9, <5>1, Meeting DEF Tree
      <4> QED BY <2>8, <2>9, <3>1, <4>1, ForkIsHeight, ViewAssumption DEF Tree
    <3>3. c >= w
      <4> HIDE DEF c
      <4> QED BY <1>3, <2>1, <3>2
    <3>4. pin \in Paths[Chain[m]]
      <4>1. Paths[store.tip] \cap Paths[Chain[m]] = Paths[Chain[m]] \cap Paths[store.tip]
        OBVIOUS
      <4>2. Cardinality(Paths[Chain[m]] \cap Paths[store.tip]) >= Height(pin)
        BY <2>3, <3>3, <4>1
      <4> QED BY <2>3, <2>8, <2>9, <4>2, Meeting DEF Tree
    <3> QED BY <1>1, <2>2, <2>8, <3>4 DEF OnChain, pin
  <2>11. CASE r # Chain[m]
    <3>1. passes[i].stopped /\ (Clock > 0 => Pin \in Paths[r])
      BY <2>6, <2>11
    <3> DEFINE f == ForkHeight(store, r)
    <3>2. f \in Nat /\ f = Cardinality(Paths[r] \cap Paths[store.tip])
      BY <2>5, <2>9, ForkIsHeight DEF ForkHeight, Best, Tree
    <3>3. f >= Clock
      <4>1. CASE Clock = 0
        BY <3>2, <4>1
      <4>2. CASE Clock > 0
        <5>1. Pin \in Paths[store.tip] /\ Height(Pin) = Clock /\ Pin \in Paths[r]
          BY <1>1, <3>1, <4>2, ClockFacts DEF KeepsPin, IsBest, Best
        <5> HIDE DEF f
        <5> QED BY <2>5, <2>9, <3>2, <5>1, Meeting DEF Tree
      <4> QED BY <1>3, <4>1, <4>2
    <3>4. f \in Meetings(Charged)
      <4>1. ~SideQuotaSpent(Charged, passes[i].name)
        BY <1>4, <2>4 DEF QuotaLeft
      <4> HIDE DEF f
      <4> QED BY <2>4, <3>1, <3>3, <4>1 DEF Meetings, f
    <3>5. w <= f
      <4>1. Bound(Charged) <= f /\ Bound(Charged) \in Nat
        <5> HIDE DEF f
        <5> QED BY <1>1, <3>4, BoundFacts
      <4> HIDE DEF f
      <4> QED BY <1>3, <2>1, <3>2, <4>1
    <3>6. pin \in Paths[r]
      <4>1. Cardinality(Paths[r] \cap Paths[store.tip]) >= Height(pin)
        BY <2>3, <3>2, <3>5
      <4> HIDE DEF f, r
      <4> QED BY <2>3, <2>5, <2>9, <4>1, Meeting DEF Tree
    <3>7. r \in Paths[Chain[m]] /\ Paths[r] \subseteq Paths[Chain[m]]
      <4> HIDE DEF r
      <4> QED BY <2>6, <2>8, <3>6, PathsFacts, PathClosed
    <3> QED BY <1>1, <2>2, <2>8, <3>6, <3>7 DEF OnChain, pin
  <2> QED BY <2>10, <2>11
<1> QED BY <1>7, <1>8

\* While the supplier of the heaviest chain answers and its side quota is not spent, whatever lighter chains others show
\* and however few headers a sync reads of it, the clock's block is on that chain.
THEOREM HeaviestIsWitnessed == Spec /\ []QuotaLeft => []WitnessesHeaviest
<1>1. ASSUME Init PROVE OnHeaviest
  <2>1. Len(<<>>) = 0 /\ DOMAIN <<>> = {}
    BY EmptySeq
  <2>2. disk.rows = <<>> /\ passes = <<>>
    BY <1>1 DEF Init
  <2> QED BY <2>1, <2>2 DEF OnHeaviest, OnChain, Clock
<1>2. ASSUME SoundView, OnHeaviest, QuotaLeft, QuotaLeft', [Next]_vars PROVE OnHeaviest'
  <2>0. DOMAIN <<>> = {}
    BY EmptySeq
  <2>1. CASE Pass
    BY <1>2, <2>1, PassOnChain
  <2>2. CASE PassFails
    <3>1. failures' = failures + 1 /\ failures \in Nat
      BY <1>2, <2>2 DEF PassFails, SoundView
    <3>2. failures' # 0
      BY <3>1
    <3> QED BY <3>2 DEF OnHeaviest
  <2>3. CASE Fail
    <3>1. disk'.rows = disk.rows /\ passes' = <<>> /\ UNCHANGED <<mined, failures>>
      BY <2>3 DEF Fail, Commit, Unmoved
    <3> QED BY <1>2, <2>0, <3>1 DEF OnHeaviest, OnChain, Clock, Pin
  <2>4. CASE Finish
    BY <1>2, <2>4, FinishOnChain
  <2>5. CASE Crash
    <3>1. disk' = disk /\ passes' = <<>> /\ UNCHANGED <<mined, failures>>
      BY <2>5 DEF Crash
    <3> QED BY <1>2, <2>0, <3>1 DEF OnHeaviest, OnChain, Clock, Pin
  <2>6. CASE Mine
    <3>1. disk' = disk /\ passes' = passes /\ failures' = failures /\ mined' = mined + 1 /\ mined \in 1..Len(Chain) /\ mined < Len(Chain)
      BY <1>2, <2>6 DEF Mine, memory, SoundView
    <3>2. mined' \in mined..Len(Chain) /\ 1..mined \subseteq 1..mined'
      BY <3>1, SupplierAt
    <3>3. Paths[Chain[mined]] \subseteq Paths[Chain[mined']]
      BY <3>1, <3>2, TipsGoOn
    <3>4. Clock' = Clock /\ Pin' = Pin
      BY <3>1 DEF Clock, Pin
    <3>5. OnChain => OnChain'
      BY <3>3, <3>4 DEF OnChain
    <3>6. \A pass : HonestPass(pass, mined, Clock, Pin) => HonestPass(pass, mined', Clock', Pin')
      BY <3>2, <3>4 DEF HonestPass
    <3> QED BY <1>2, <3>1, <3>5, <3>6 DEF OnHeaviest
  <2>7. CASE UNCHANGED vars
    BY <1>2, <2>7 DEF vars, memory, OnHeaviest, OnChain, HonestPass, Clock, Pin
  <2> QED BY <1>2, <2>1, <2>2, <2>3, <2>4, <2>5, <2>6, <2>7 DEF Next, Syncs
<1>3. SoundView /\ OnHeaviest => WitnessesHeaviest
  <2>1. Clock = 0 => Pin = Anchor
    BY DEF Pin
  <2>2. SoundView => Clock = 0 \/ Clock > 0
    BY ClockFacts
  <2> QED BY <2>1, <2>2 DEF OnHeaviest, OnChain, WitnessesHeaviest
<1>4. Spec => []SoundView
  BY ViewSound
<1> QED BY <1>1, <1>2, <1>3, <1>4, PTL DEF Spec

-----------------------------------------------------------------------------
(***************************************************************************)
(* A period's leaves.                                                      *)
(***************************************************************************)
\* A property of the counts 0 to n that 0 has and each passes to the next.
LEMMA CountsOn ==
  ASSUME NEW n \in Nat, NEW S, 0 \in S, \A k \in 0..n - 1 : k \in S => k + 1 \in S
  PROVE  0..n \subseteq S
<1> DEFINE Bad == {k \in 0..n : k \notin S}
<1>1. SUFFICES ASSUME Bad # {} PROVE FALSE
  OBVIOUS
<1>2. Bad \subseteq Nat
  OBVIOUS
<1>3. PICK x \in Bad : \A y \in Bad : ~(y < x)
  <2> HIDE DEF Bad
  <2>1. PICK x \in Bad : \A y \in Bad : ~(<<y, x>> \in OpToRel(<, Nat))
    BY <1>1, <1>2, WFMin, NatLessThanWellFounded
  <2> QED BY <1>2, <2>1 DEF OpToRel
<1>4. x \in 0..n /\ x \notin S
  OBVIOUS
<1>5. x - 1 \in 0..n - 1 /\ (x - 1) + 1 = x /\ x - 1 < x
  BY <1>4
<1>6. x - 1 \in S
  BY <1>3, <1>5
<1> QED BY <1>4, <1>5, <1>6

-----------------------------------------------------------------------------
\* A fold over a sequence of numbers takes the last of those left.
Folding(q, g) ==
  g = [s \in SUBSET (DOMAIN q) |-> IF s = {} THEN 0 ELSE g[s \ {Max(s)}] + q[Max(s)]]

\* What the slots after "from" through "to" emit is such a fold's.
LEMMA EmittedFolds ==
  ASSUME NEW slots, NEW from, NEW to
  PROVE  LET q == SubSeq(slots, from + 1, to) IN Emitted(slots, from, to) = (CHOOSE g : Folding(q, g))[DOMAIN q]
BY DEF Emitted, FoldLeft, MapThenFoldSet, Folding

\* The numbers of a sequence: finite, and the last of some of them is one of them.
LEMMA SomeOfThem ==
  ASSUME NEW n \in Nat, NEW s \in SUBSET (1..n)
  PROVE  /\ IsFiniteSet(s) /\ Cardinality(s) \in Nat /\ Cardinality(s) <= n
         /\ Cardinality(s) = 0 <=> s = {}
         /\ s # {} => Max(s) \in s /\ (\A x \in s : x <= Max(s)) /\ Cardinality(s \ {Max(s)}) = Cardinality(s) - 1
<1>1. IsFiniteSet(1..n) /\ Cardinality(1..n) = n
  BY FS_Interval
<1>2. IsFiniteSet(s) /\ Cardinality(s) <= n
  BY <1>1, FS_Subset
<1>3. ASSUME s # {} PROVE Max(s) \in s /\ \A x \in s : x <= Max(s)
  <2> DEFINE U == {k \in 0..n : \E x \in s : n - x = k}
  <2>1. U # {} /\ U \subseteq Nat
    <3>1. PICK x \in s : TRUE
      BY <1>3
    <3>2. n - x \in U
      OBVIOUS
    <3> QED BY <3>2
  <2>2. PICK k \in U : \A y \in U : ~(<<y, k>> \in OpToRel(<, Nat))
    <3> HIDE DEF U
    <3> QED BY <2>1, WFMin, NatLessThanWellFounded
  <2>3. PICK x \in s : n - x = k
    OBVIOUS
  <2>4. \A y \in s : y <= x
    <3> SUFFICES ASSUME NEW y \in s PROVE y <= x
      OBVIOUS
    <3>1. n - y \in U /\ n - y \in Nat /\ k \in Nat
      OBVIOUS
    <3>2. ~(n - y < k)
      BY <2>2, <3>1 DEF OpToRel
    <3> QED BY <2>3, <3>1, <3>2
  <2>5. \E m \in s : \A y \in s : m >= y
    BY <2>4
  <2> QED BY <2>5 DEF Max
<1> QED BY <1>2, <1>3, FS_CardinalityType, FS_EmptySet, FS_RemoveElement

\* A fold over a sequence of numbers exists and its sums are numbers.
LEMMA FoldingExists ==
  ASSUME NEW q \in Seq(Nat)
  PROVE  \E g \in [SUBSET (DOMAIN q) -> Nat] : Folding(q, g)
<1> DEFINE n == Len(q)
           S == 1..n
           Upto(k, g) == \A s \in SUBSET S : Cardinality(s) <= k => g[s] = IF s = {} THEN 0 ELSE g[s \ {Max(s)}] + q[Max(s)]
           Good(k) == \E g \in [SUBSET S -> Nat] : Upto(k, g)
           Ks == {k \in 0..n : Good(k)}
<1>0. n \in Nat /\ DOMAIN q = S /\ \A i \in S : q[i] \in Nat
  BY LenProperties, ElementOfSeq
<1>1. 0 \in Ks
  <2> DEFINE g == [s \in SUBSET S |-> 0]
  <2>1. g \in [SUBSET S -> Nat]
    OBVIOUS
  <2>2. \A s \in SUBSET S : Cardinality(s) <= 0 => s = {}
    <3> SUFFICES ASSUME NEW s \in SUBSET S, Cardinality(s) <= 0 PROVE s = {}
      OBVIOUS
    <3>1. Cardinality(s) \in Nat /\ (Cardinality(s) = 0 <=> s = {})
      <4> HIDE DEF n
      <4> QED BY <1>0, SomeOfThem
    <3> QED BY <3>1
  <2>3. Upto(0, g)
    BY <2>2
  <2> HIDE DEF g, Upto, n
  <2> QED BY <1>0, <2>1, <2>3
<1>2. \A k \in 0..n - 1 : k \in Ks => k + 1 \in Ks
  <2> SUFFICES ASSUME NEW k \in 0..n - 1, Good(k) PROVE Good(k + 1)
    <3> HIDE DEF Good, n
    <3> QED BY <1>0
  <2>1. PICK g \in [SUBSET S -> Nat] : Upto(k, g)
    OBVIOUS
  <2> DEFINE h == [s \in SUBSET S |-> IF s = {} THEN 0 ELSE g[s \ {Max(s)}] + q[Max(s)]]
  <2>2. h \in [SUBSET S -> Nat]
    <3> SUFFICES ASSUME NEW s \in SUBSET S, s # {} PROVE g[s \ {Max(s)}] + q[Max(s)] \in Nat
      OBVIOUS
    <3>1. Max(s) \in s
      <4> HIDE DEF n
      <4> QED BY <1>0, SomeOfThem
    <3>2. q[Max(s)] \in Nat /\ g[s \ {Max(s)}] \in Nat
      <4> HIDE DEF n
      <4> QED BY <1>0, <3>1
    <3> QED BY <3>2
  <2>3. Upto(k + 1, h)
    <3> SUFFICES ASSUME NEW s \in SUBSET S, Cardinality(s) <= k + 1, s # {}
                 PROVE  h[s \ {Max(s)}] = g[s \ {Max(s)}]
      OBVIOUS
    <3> DEFINE r == s \ {Max(s)}
    <3>1. Cardinality(s) \in Nat /\ Cardinality(r) = Cardinality(s) - 1
      <4> HIDE DEF n
      <4> QED BY <1>0, SomeOfThem
    <3>2. r \in SUBSET S
      OBVIOUS
    <3>5. Cardinality(r) <= k
      <4> HIDE DEF n, r
      <4> QED BY <1>0, <3>1
    <3> HIDE DEF r
    <3>3. g[r] = IF r = {} THEN 0 ELSE g[r \ {Max(r)}] + q[Max(r)]
      BY <2>1, <3>2, <3>5
    <3>4. h[r] = g[r]
      BY <3>2, <3>3
    <3> QED BY <3>4 DEF r
  <2> HIDE DEF h, Upto
  <2> QED BY <2>2, <2>3
<1>3. 0..n \subseteq Ks
  <2> HIDE DEF Ks, n
  <2> QED BY <1>0, <1>1, <1>2, CountsOn
<1>4. Good(n)
  <2> HIDE DEF Good, n
  <2> QED BY <1>0, <1>3
<1>5. PICK g \in [SUBSET S -> Nat] : Upto(n, g)
  BY <1>4
<1>6. \A s \in SUBSET S : Cardinality(s) <= n
  BY <1>0, SomeOfThem
<1>7. Folding(q, g)
  BY <1>0, <1>5, <1>6 DEF Folding
<1> QED BY <1>0, <1>7

\* What some slots emit is the difference of two sums from the first slot, which grow.
Sums(slots, h) ==
  /\ h \in [0..Len(slots) -> Nat] /\ h[0] = 0
  /\ \A a, b \in 0..Len(slots) : a <= b => h[a] <= h[b] /\ Emitted(slots, a, b) = h[b] - h[a]

LEMMA EmittedIsSum ==
  ASSUME NEW slots \in Seq(Nat)
  PROVE  \E h : Sums(slots, h)
<1> DEFINE n == Len(slots)
<1>0. n \in Nat /\ DOMAIN slots = 1..n /\ \A i \in 1..n : slots[i] \in Nat
  BY LenProperties, ElementOfSeq
<1>1. ASSUME NEW q \in Seq(Nat), NEW g, Folding(q, g), NEW k \in 1..Len(q)
      PROVE  g[1..k] = g[1..k - 1] + q[k]
  <2>1. Len(q) \in Nat /\ DOMAIN q = 1..Len(q)
    BY LenProperties
  <2>2. 1..k \in SUBSET (DOMAIN q) /\ k \in 1..k /\ 1..k # {}
    <3>1. k \in Nat /\ 1 <= k /\ k <= Len(q)
      BY <2>1
    <3>2. 1..k \subseteq 1..Len(q) /\ k \in 1..k
      BY <2>1, <3>1
    <3> QED BY <2>1, <3>2
  <2>3. Max(1..k) = k
    <3>1. Max(1..k) \in 1..k /\ k <= Max(1..k)
      BY <2>1, <2>2, SomeOfThem
    <3>2. k \in Nat
      BY <2>1
    <3> QED BY <3>1, <3>2
  <2>4. (1..k) \ {k} = 1..k - 1
    BY <2>1
  <2> QED BY <1>1, <2>2, <2>3, <2>4 DEF Folding
<1>2. ASSUME NEW q, NEW g, Folding(q, g) PROVE g[{}] = 0
  BY <1>2 DEF Folding
<1>3. PICK g \in [SUBSET (DOMAIN slots) -> Nat] : Folding(slots, g)
  BY FoldingExists
<1> DEFINE h == [k \in 0..n |-> g[1..k]]
<1>4. h \in [0..n -> Nat] /\ h[0] = 0 /\ \A k \in 1..n : h[k] = h[k - 1] + slots[k]
  <2>1. \A k \in 0..n : 1..k \in SUBSET (DOMAIN slots)
    BY <1>0
  <2>2. 1..0 = {}
    OBVIOUS
  <2>3. h \in [0..n -> Nat]
    BY <2>1
  <2>4. h[0] = 0
    BY <1>0, <1>2, <1>3, <2>2
  <2>5. \A k \in 1..n : g[1..k] = g[1..k - 1] + slots[k]
    BY <1>1, <1>3
  <2> HIDE DEF n
  <2> QED BY <1>0, <2>3, <2>4, <2>5
<1> HIDE DEF h
<1>5. ASSUME NEW a \in 0..n, NEW b \in 0..n, a <= b
      PROVE  h[a] <= h[b] /\ Emitted(slots, a, b) = h[b] - h[a]
  <2> DEFINE q == SubSeq(slots, a + 1, b)
  <2>1. q \in Seq(Nat) /\ Len(q) = b - a /\ \A i \in 1..b - a : q[i] = slots[a + i]
    <3>1. a \in Int /\ b \in Int /\ a + 1 \in Int /\ \A i \in a + 1..b : i \in 1..n
      BY <1>0
    <3>2. \A i \in a + 1..b : slots[i] \in Nat
      BY <1>0, <3>1
    <3>3. b - (a + 1) + 1 = b - a /\ (IF a + 1 <= b THEN b - (a + 1) + 1 ELSE 0) = b - a
          /\ \A i \in 1..b - a : a + 1 + i - 1 = a + i
      BY <1>5, <3>1
    <3>4. /\ q \in Seq(Nat) /\ Len(q) = IF a + 1 <= b THEN b - (a + 1) + 1 ELSE 0
          /\ \A i \in 1..b - (a + 1) + 1 : q[i] = slots[a + 1 + i - 1]
      BY <3>1, <3>2, SubSeqProperties
    <3> HIDE DEF q
    <3> QED BY <3>3, <3>4
  <2> DEFINE f == CHOOSE f : Folding(q, f)
  <2>2. Folding(q, f)
    <3> HIDE DEF q
    <3> QED BY <2>1, FoldingExists
  <2>3. Emitted(slots, a, b) = f[DOMAIN q]
    <3> HIDE DEF f, q
    <3> QED BY EmittedFolds DEF f, q
  <2> DEFINE Ks == {k \in 0..b - a : f[1..k] = h[a + k] - h[a] /\ h[a] <= h[a + k]}
  <2> HIDE DEF f, q, n
  <2>4. /\ b - a \in Nat /\ DOMAIN q = 1..b - a
        /\ a \in Nat /\ b \in Nat /\ b <= n /\ \A k \in 0..b - a : a + k \in 0..n
    <3>1. a \in Nat /\ b \in Nat /\ b <= n /\ b - a \in Nat
      BY <1>0, <1>5
    <3>2. \A k \in 0..b - a : a + k \in 0..n
      BY <1>0, <3>1
    <3> QED BY <2>1, <3>1, <3>2, LenProperties
  <2>5. 0 \in Ks
    <3>1. f[{}] = 0 /\ 1..0 = {} /\ a + 0 = a /\ h[a] \in Nat
      BY <1>0, <1>2, <1>4, <2>2
    <3> QED BY <2>4, <3>1
  <2>6. \A k \in 0..(b - a) - 1 : k \in Ks => k + 1 \in Ks
    <3> SUFFICES ASSUME NEW k \in 0..(b - a) - 1, k \in Ks PROVE k + 1 \in Ks
      OBVIOUS
    <3>0. f[1..k] = h[a + k] - h[a] /\ h[a] <= h[a + k]
      OBVIOUS
    <3> HIDE DEF Ks
    <3>1. k + 1 \in 1..Len(q) /\ (k + 1) - 1 = k /\ a + (k + 1) \in 1..n /\ (a + (k + 1)) - 1 = a + k /\ a + k \in 0..n
      BY <1>0, <2>1, <2>4
    <3>2. f[1..k + 1] = f[1..k] + q[k + 1]
      <4>1. f[1..k + 1] = f[1..(k + 1) - 1] + q[k + 1]
        BY <1>1, <2>1, <2>2, <3>1
      <4> QED BY <3>1, <4>1
    <3>3. h[a + (k + 1)] = h[a + k] + slots[a + (k + 1)]
      BY <1>4, <3>1
    <3>4. q[k + 1] = slots[a + (k + 1)] /\ slots[a + (k + 1)] \in Nat
      BY <1>0, <2>1, <3>1
    <3>5. h[a] \in Nat /\ h[a + k] \in Nat /\ h[a] <= h[a + k] /\ f[1..k] = h[a + k] - h[a] /\ k + 1 \in 0..b - a
      <4>1. h[a] \in Nat
        <5>1. a \in 0..n
          OBVIOUS
        <5> QED BY <1>4, <5>1
      <4>2. h[a + k] \in Nat
        BY <1>4, <3>1
      <4>3. k + 1 \in 0..b - a
        BY <2>4
      <4> QED BY <3>0, <4>1, <4>2, <4>3
    <3>6. f[1..k + 1] = h[a + (k + 1)] - h[a] /\ h[a] <= h[a + (k + 1)]
      <4> DEFINE u == h[a]
                 v == h[a + k]
                 w == slots[a + (k + 1)]
      <4>1. u \in Nat /\ v \in Nat /\ w \in Nat /\ u <= v
        BY <3>4, <3>5
      <4>2. f[1..k + 1] = (v - u) + w /\ h[a + (k + 1)] = v + w
        BY <3>2, <3>3, <3>4, <3>5
      <4>3. (v - u) + w = (v + w) - u /\ u <= v + w
        <5> HIDE DEF u, v, w
        <5> QED BY <4>1
      <4> QED BY <4>2, <4>3
    <3> QED BY <3>5, <3>6 DEF Ks
  <2>7. b - a \in Ks
    <3> HIDE DEF Ks
    <3>1. 0..b - a \subseteq Ks
      BY <2>4, <2>5, <2>6, CountsOn
    <3> QED BY <2>4, <3>1
  <2>8. a + (b - a) = b
    BY <1>0
  <2> QED BY <2>3, <2>4, <2>7, <2>8
<1> QED BY <1>4, <1>5 DEF Sums

-----------------------------------------------------------------------------
\* Where a period stands, and a leaf of it.
Stand == [t : Nat, m : Nat, emitted : Nat, applied : Nat]
ALeaf == [kind : {"t", "m", "u"}, before : Stand, after : Stand]

\* The leaves so far, and where they come to.
At(done) == IF done = <<>> THEN Start ELSE Last(done).after
Unfinished(p, at) == at.t < Len(p.slots) \/ at.m < p.ops \/ at.applied < at.emitted
OneMore(p, done) == IF Unfinished(p, At(done)) THEN Append(done, NextLeaf(p, At(done))) ELSE done

IsAfter(p, f) == f = [n \in 0 .. Longest(p) |-> IF n = 0 THEN <<>> ELSE OneMore(p, f[n - 1])]

\* leavesOf's loop is such a function, after as many turns as a period can take.
LEMMA LeavesOfLoop == ASSUME NEW p PROVE LeavesOf(p) = (CHOOSE f : IsAfter(p, f))[Longest(p)]
BY DEF LeavesOf, IsAfter, OneMore, At, Unfinished

\* The loop's turns, counted.
LEMMA AfterExists ==
  ASSUME NEW p, Longest(p) \in Nat
  PROVE  \E f : IsAfter(p, f)
<1> DEFINE N == Longest(p)
           Good(k) == \E f : f = [n \in 0..k |-> IF n = 0 THEN <<>> ELSE OneMore(p, f[n - 1])]
           Ks == {k \in 0..N : Good(k)}
<1>1. 0 \in Ks
  <2> DEFINE f == [n \in 0..0 |-> <<>>]
  <2>1. f = [n \in 0..0 |-> IF n = 0 THEN <<>> ELSE OneMore(p, f[n - 1])]
    OBVIOUS
  <2> HIDE DEF f
  <2> QED BY <2>1
<1>2. \A k \in 0..N - 1 : k \in Ks => k + 1 \in Ks
  <2> SUFFICES ASSUME NEW k \in 0..N - 1, Good(k) PROVE Good(k + 1)
    <3> HIDE DEF Good, N
    <3>1. N \in Nat
      BY DEF N
    <3> QED BY <3>1
  <2>1. PICK f : f = [n \in 0..k |-> IF n = 0 THEN <<>> ELSE OneMore(p, f[n - 1])]
    OBVIOUS
  <2> DEFINE h == [n \in 0..k + 1 |-> IF n = k + 1 THEN OneMore(p, f[k]) ELSE f[n]]
  <2>2. k \in Nat /\ k + 1 # 0
    OBVIOUS
  <2>3. ASSUME NEW n \in 0..k + 1 PROVE h[n] = IF n = 0 THEN <<>> ELSE OneMore(p, h[n - 1])
    <3>1. CASE n = k + 1
      <4>1. h[n] = OneMore(p, f[k]) /\ n - 1 = k /\ h[k] = f[k] /\ n # 0
        BY <2>2, <3>1
      <4> QED BY <4>1
    <3>2. CASE n # k + 1
      <4>1. n \in 0..k /\ h[n] = f[n]
        BY <2>2, <3>2
      <4>2. f[n] = IF n = 0 THEN <<>> ELSE OneMore(p, f[n - 1])
        BY <2>1, <4>1
      <4>3. n # 0 => h[n - 1] = f[n - 1]
        BY <2>2, <4>1
      <4> QED BY <4>1, <4>2, <4>3
    <3> QED BY <3>1, <3>2
  <2>4. h = [n \in 0..k + 1 |-> IF n = 0 THEN <<>> ELSE OneMore(p, h[n - 1])]
    <3>1. h = [n \in 0..k + 1 |-> h[n]]
      OBVIOUS
    <3> HIDE DEF h
    <3> QED BY <2>3, <3>1
  <2> HIDE DEF h
  <2> QED BY <2>4
<1>3. 0..N \subseteq Ks
  <2> HIDE DEF Ks
  <2> QED BY <1>1, <1>2, CountsOn
<1>4. Good(N)
  <2> HIDE DEF Good
  <2> QED BY <1>3
<1> QED BY <1>4 DEF IsAfter

\* A place within a period: its slots emitted what they emit, and no update was applied before it was emitted.
Within(p, h, at) ==
  /\ at \in Stand /\ at.t <= Len(p.slots) /\ at.m <= p.ops
  /\ at.emitted = h[at.t] /\ at.applied <= at.emitted

Steps(at) == at.t + at.m + at.applied

\* leavesOf's next leaf begins where the last ended and takes something of one stream, no more than is there.
LEMMA NextLeafWithin ==
  ASSUME NEW p \in Periods, NEW h, Sums(p.slots, h), NEW at, Within(p, h, at), Unfinished(p, at)
  PROVE  LET leaf == NextLeaf(p, at) IN
         /\ leaf \in ALeaf /\ leaf.before = at /\ Within(p, h, leaf.after)
         /\ leaf.kind = "u" => leaf.after.applied <= at.emitted
         /\ Steps(leaf.after) > Steps(at)
<1> DEFINE T == Len(p.slots)
           waiting == at.emitted - at.applied
           t == Least(SizeT, T - at.t)
           m == Least(SizeM, p.ops - at.m)
           u == Least(waiting, SizeU)
           leaf == NextLeaf(p, at)
           Fine == /\ leaf \in ALeaf /\ leaf.before = at /\ Within(p, h, leaf.after)
                   /\ leaf.kind = "u" => leaf.after.applied <= at.emitted
                   /\ Steps(leaf.after) > Steps(at)
<1>0. SUFFICES Fine
  OBVIOUS
<1>1. /\ T \in Nat /\ p.ops \in Nat /\ SizeT \in Nat /\ SizeM \in Nat /\ SizeU \in Nat
      /\ SizeT > 0 /\ SizeM > 0 /\ SizeU > 0 /\ p.slots \in Seq(Nat)
  <2>1. p.slots \in Seq(Nat)
    BY PoolAssumption
  <2> QED BY <2>1, PoolAssumption, LenProperties
<1>2. /\ at \in Stand /\ at.t \in Nat /\ at.m \in Nat /\ at.emitted \in Nat /\ at.applied \in Nat
      /\ at.t <= T /\ at.m <= p.ops /\ at.applied <= at.emitted /\ at.emitted = h[at.t]
      /\ at = [t |-> at.t, m |-> at.m, emitted |-> at.emitted, applied |-> at.applied]
  BY DEF Within, Stand
<1>3. CASE waiting >= SizeU \/ (at.t >= T /\ waiting > 0)
  <2>1. leaf = [kind |-> "u", before |-> at, after |-> [at EXCEPT !.applied = @ + u]]
    BY <1>3 DEF NextLeaf
  <2>2. u \in Nat /\ u > 0 /\ at.applied + u <= at.emitted /\ at.applied + u \in Nat
    BY <1>1, <1>2, <1>3 DEF Least
  <2> HIDE DEF u, waiting, leaf
  <2> DEFINE next == [at EXCEPT !.applied = at.applied + u]
  <2>3. next = [t |-> at.t, m |-> at.m, emitted |-> at.emitted, applied |-> at.applied + u]
    BY <1>2
  <2>4. leaf = [kind |-> "u", before |-> at, after |-> next]
    BY <2>1
  <2> HIDE DEF next
  <2>5. next \in Stand /\ Within(p, h, next) /\ Steps(next) > Steps(at) /\ next.applied <= at.emitted
    BY <1>1, <1>2, <2>2, <2>3 DEF Stand, Within, Steps
  <2>6. leaf \in ALeaf /\ leaf.before = at /\ leaf.after = next /\ leaf.kind = "u"
    BY <1>2, <2>4, <2>5 DEF ALeaf
  <2> QED BY <2>5, <2>6
<1>4. CASE ~(waiting >= SizeU \/ (at.t >= T /\ waiting > 0))
  <2>1. CASE at.t < T /\ (at.m >= p.ops \/ at.t * p.ops <= at.m * T)
    <3> DEFINE now == at.emitted + Emitted(p.slots, at.t, at.t + t)
    <3>1. leaf = [kind |-> "t", before |-> at, after |-> [at EXCEPT !.t = @ + t, !.emitted = @ + Emitted(p.slots, at.t, at.t + t)]]
      BY <1>4, <2>1 DEF NextLeaf
    <3>2. t \in Nat /\ t > 0 /\ at.t + t <= T /\ at.t + t \in Nat
      <4>1. T - at.t \in Nat /\ T - at.t > 0
        <5>1. T \in Nat /\ at.t \in Nat /\ at.t < T
          BY <1>1, <1>2, <2>1
        <5> HIDE DEF T
        <5> QED BY <5>1
      <4>2. t \in Nat /\ t > 0 /\ t <= T - at.t
        <5> DEFINE r == T - at.t
        <5> HIDE DEF r
        <5> QED BY <1>1, <4>1 DEF Least, r
      <4> HIDE DEF t, T
      <4> QED BY <1>1, <1>2, <4>2
    <3>3. now = h[at.t + t] /\ now \in Nat /\ at.emitted <= now
      <4> DEFINE b == at.t + t
      <4>1. at.t \in 0..T /\ b \in 0..T /\ at.t <= b
        BY <1>1, <1>2, <3>2
      <4> HIDE DEF b
      <4>2. h[at.t] <= h[b] /\ Emitted(p.slots, at.t, b) = h[b] - h[at.t] /\ h[at.t] \in Nat /\ h[b] \in Nat
        BY <4>1 DEF Sums
      <4>3. at.emitted + Emitted(p.slots, at.t, b) = h[b]
        BY <1>2, <4>2
      <4> QED BY <1>2, <4>2, <4>3 DEF b
    <3> DEFINE next == [at EXCEPT !.t = at.t + t, !.emitted = now]
    <3> HIDE DEF t, now, leaf
    <3>4. next = [t |-> at.t + t, m |-> at.m, emitted |-> now, applied |-> at.applied]
      <4> DEFINE mid == [at EXCEPT !.t = at.t + t]
      <4>1. mid = [t |-> at.t + t, m |-> at.m, emitted |-> at.emitted, applied |-> at.applied]
        BY <1>2
      <4>2. next = [mid EXCEPT !.emitted = now]
        BY <1>2
      <4> HIDE DEF mid, next
      <4> QED BY <4>1, <4>2
    <3>5. leaf = [kind |-> "t", before |-> at, after |-> next]
      BY <3>1 DEF now
    <3> HIDE DEF next
    <3>6. next \in Stand /\ Within(p, h, next) /\ Steps(next) > Steps(at)
      <4>1. next.t = at.t + t /\ next.m = at.m /\ next.emitted = now /\ next.applied = at.applied
        BY <3>4
      <4>2. at.applied <= now
        BY <1>2, <3>3
      <4>3. next \in Stand
        BY <1>2, <3>2, <3>3, <3>4 DEF Stand
      <4>4. Within(p, h, next)
        BY <1>2, <3>2, <3>3, <4>1, <4>2, <4>3 DEF Within
      <4>5. (at.t + t) + at.m + at.applied > at.t + at.m + at.applied
        BY <1>2, <3>2
      <4> QED BY <4>1, <4>3, <4>4, <4>5 DEF Steps
    <3>7. leaf \in ALeaf /\ leaf.before = at /\ leaf.after = next /\ leaf.kind # "u"
      BY <1>2, <3>5, <3>6 DEF ALeaf
    <3> QED BY <3>6, <3>7
  <2>2. CASE ~(at.t < T /\ (at.m >= p.ops \/ at.t * p.ops <= at.m * T))
    <3>1. leaf = [kind |-> "m", before |-> at, after |-> [at EXCEPT !.m = @ + m]]
      BY <1>4, <2>2 DEF NextLeaf
    <3>2. at.m < p.ops
      <4>1. CASE at.t < T
        BY <1>1, <1>2, <2>2, <4>1
      <4>2. CASE ~(at.t < T)
        <5>1. ~(at.applied < at.emitted)
          BY <1>1, <1>2, <1>4, <4>2
        <5> QED BY <4>2, <5>1 DEF Unfinished
      <4> QED BY <4>1, <4>2
    <3>3. m \in Nat /\ m > 0 /\ at.m + m <= p.ops /\ at.m + m \in Nat
      BY <1>1, <1>2, <3>2 DEF Least
    <3> DEFINE next == [at EXCEPT !.m = at.m + m]
    <3> HIDE DEF m, leaf
    <3>4. next = [t |-> at.t, m |-> at.m + m, emitted |-> at.emitted, applied |-> at.applied]
      BY <1>2
    <3>5. leaf = [kind |-> "m", before |-> at, after |-> next]
      BY <3>1
    <3> HIDE DEF next
    <3>6. next \in Stand /\ Within(p, h, next) /\ Steps(next) > Steps(at)
      BY <1>1, <1>2, <3>3, <3>4 DEF Stand, Within, Steps
    <3>7. leaf \in ALeaf /\ leaf.before = at /\ leaf.after = next /\ leaf.kind # "u"
      BY <1>2, <3>5, <3>6 DEF ALeaf
    <3> QED BY <3>6, <3>7
  <2> QED BY <2>1, <2>2
<1> QED BY <1>3, <1>4

\* Leaves that join from a period's start, each taking a step at least and no update before it was emitted.
LeavesJoin(s) ==
  \A k \in 1..Len(s) :
     /\ s[k].before = IF k = 1 THEN Start ELSE s[k - 1].after
     /\ s[k].kind = "u" => s[k].after.applied <= s[k].before.emitted
     /\ s[k].after # s[k].before

\* leavesOf's leaves join and come to the period's end.
LEMMA LeavesOfJoin ==
  ASSUME NEW p \in Periods
  PROVE  /\ LeavesOf(p) \in Seq(ALeaf) /\ LeavesOf(p) # <<>>
         /\ LeavesJoin(LeavesOf(p)) /\ Last(LeavesOf(p)).after = End(p)
<1> DEFINE T == Len(p.slots)
           N == Longest(p)
<1>1. p.slots \in Seq(Nat) /\ T \in Nat /\ T > 0 /\ p.ops \in Nat
  <2>1. p.slots \in Seq(Nat) /\ p.slots # <<>> /\ p.ops \in Nat
    BY PoolAssumption
  <2> QED BY <2>1, LenProperties, EmptySeq
<1>2. PICK h : Sums(p.slots, h)
  BY <1>1, EmittedIsSum
<1>3. /\ h[T] \in Nat /\ Emitted(p.slots, 0, T) = h[T] /\ h[0] = 0
      /\ End(p) = [t |-> T, m |-> p.ops, emitted |-> h[T], applied |-> h[T]]
      /\ N = T + p.ops + h[T] /\ N \in Nat
  <2>1. h[T] \in Nat /\ h[0] = 0 /\ Emitted(p.slots, 0, T) = h[T] - h[0]
    BY <1>1, <1>2 DEF Sums
  <2>2. Emitted(p.slots, 0, T) = h[T]
    BY <2>1
  <2>3. End(p) = [t |-> T, m |-> p.ops, emitted |-> h[T], applied |-> h[T]]
    BY <2>2 DEF End
  <2> QED BY <1>1, <2>1, <2>2, <2>3 DEF Longest
<1> DEFINE f == CHOOSE f : IsAfter(p, f)
<1>4. IsAfter(p, f) /\ LeavesOf(p) = f[N]
  BY <1>3, AfterExists, LeavesOfLoop
<1> DEFINE Fine(n, s) == /\ s \in Seq(ALeaf) /\ LeavesJoin(s) /\ Within(p, h, At(s))
                         /\ Unfinished(p, At(s)) => Steps(At(s)) >= n
           Ns == {n \in 0..N : Fine(n, f[n])}
<1> HIDE DEF f, N, T
<1>5. 0 \in Ns
  <2>1. f[0] = <<>>
    BY <1>3, <1>4 DEF IsAfter, N
  <2>2. At(<<>>) = Start /\ Start \in Stand
    BY DEF At, Start, Stand
  <2>3. Within(p, h, Start) /\ Steps(Start) >= 0
    BY <1>1, <1>3, <2>2 DEF Within, Start, Steps, T
  <2>4. <<>> \in Seq(ALeaf) /\ LeavesJoin(<<>>)
    BY EmptySeq DEF LeavesJoin
  <2>5. Fine(0, <<>>)
    BY <2>2, <2>3, <2>4
  <2> HIDE DEF Fine
  <2> QED BY <1>3, <2>1, <2>5
<1>6. \A n \in 0..N - 1 : n \in Ns => n + 1 \in Ns
  <2> SUFFICES ASSUME NEW n \in 0..N - 1, Fine(n, f[n]) PROVE Fine(n + 1, f[n + 1])
    <3> HIDE DEF Fine
    <3> QED BY <1>3
  <2> DEFINE s == f[n]
             at == At(s)
             leaf == NextLeaf(p, at)
             more == Append(s, leaf)
  <2>1. f[n + 1] = OneMore(p, s)
    <3>1. n + 1 \in 0..N /\ n + 1 # 0 /\ (n + 1) - 1 = n
      BY <1>3
    <3> QED BY <1>4, <3>1 DEF IsAfter, N
  <2>2. CASE ~Unfinished(p, at)
    BY <2>1, <2>2 DEF OneMore
  <2>3. CASE Unfinished(p, at)
    <3>1. f[n + 1] = more
      BY <2>1, <2>3 DEF OneMore
    <3>2. /\ leaf \in ALeaf /\ leaf.before = at /\ Within(p, h, leaf.after)
          /\ leaf.kind = "u" => leaf.after.applied <= at.emitted
          /\ Steps(leaf.after) > Steps(at) /\ Steps(at) >= n
      <4> HIDE DEF s
      <4>1. Within(p, h, at) /\ Steps(at) >= n
        BY <2>3 DEF s
      <4> HIDE DEF at
      <4> QED BY <1>2, <2>3, <4>1, NextLeafWithin DEF at
    <3>3. s \in Seq(ALeaf) /\ LeavesJoin(s) /\ at = At(s)
      OBVIOUS
    <3>4. n \in Nat /\ Steps(at) \in Int /\ Steps(leaf.after) \in Int
      <4>1. at \in Stand /\ leaf.after \in Stand
        BY <3>2 DEF Within
      <4>2. \A x \in Stand : Steps(x) \in Int
        BY DEF Steps, Stand
      <4> HIDE DEF at, leaf
      <4> QED BY <4>1, <4>2
    <3> HIDE DEF s, at, leaf
    <3>5. /\ more \in Seq(ALeaf) /\ Len(more) = Len(s) + 1 /\ Len(s) \in Nat
          /\ more[Len(s) + 1] = leaf /\ \A k \in 1..Len(s) : more[k] = s[k]
      BY <3>2, <3>3, AppendProperties, LenProperties
    <3>6. At(more) = leaf.after
      <4>1. more # <<>>
        BY <3>5
      <4> QED BY <3>5, <4>1 DEF At, Last
    <3>7. LeavesJoin(more)
      <4> SUFFICES ASSUME NEW k \in 1..Len(s) + 1
                   PROVE  /\ more[k].before = IF k = 1 THEN Start ELSE more[k - 1].after
                          /\ more[k].kind = "u" => more[k].after.applied <= more[k].before.emitted
                          /\ more[k].after # more[k].before
        BY <3>5 DEF LeavesJoin
      <4>1. CASE k \in 1..Len(s)
        <5>1. more[k] = s[k] /\ (k # 1 => more[k - 1] = s[k - 1])
          BY <3>5, <4>1
        <5> HIDE DEF more
        <5> QED BY <3>3, <4>1, <5>1 DEF LeavesJoin
      <4>2. CASE k = Len(s) + 1
        <5>1. at = IF k = 1 THEN Start ELSE more[k - 1].after
          <6>1. CASE s = <<>>
            BY <3>3, <3>5, <4>2, <6>1 DEF At
          <6>2. CASE s # <<>>
            <7>1. Len(s) > 0 /\ Len(s) \in 1..Len(s) /\ k - 1 = Len(s) /\ k # 1
              BY <3>3, <3>5, <4>2, <6>2, EmptySeq
            <7> QED BY <3>3, <3>5, <6>2, <7>1 DEF At, Last
          <6> QED BY <6>1, <6>2
        <5>2. leaf.after # at
          BY <3>2, <3>4
        <5> HIDE DEF more
        <5> QED BY <3>2, <3>5, <4>2, <5>1, <5>2
      <4> QED BY <3>5, <4>1, <4>2
    <3>8. Steps(At(more)) >= n + 1
      BY <3>2, <3>4, <3>6
    <3> QED BY <3>1, <3>2, <3>5, <3>6, <3>7, <3>8
  <2> QED BY <2>2, <2>3
<1>7. Fine(N, f[N])
  <2>1. 0..N \subseteq Ns
    <3> HIDE DEF Ns
    <3> QED BY <1>3, <1>5, <1>6, CountsOn
  <2>2. N \in Ns
    BY <1>3, <2>1
  <2> QED BY <2>2
<1> DEFINE s == f[N]
           at == At(s)
<1>8. s \in Seq(ALeaf) /\ LeavesJoin(s) /\ Within(p, h, at) /\ (Unfinished(p, at) => Steps(at) >= N)
  BY <1>7
<1> HIDE DEF s, at
<1>9. ~Unfinished(p, at)
  <2>1. at \in Stand /\ at.t <= T /\ at.m <= p.ops /\ at.emitted = h[at.t] /\ at.applied <= at.emitted
    BY <1>8 DEF Within, T
  <2>2. at.t \in Nat /\ at.m \in Nat /\ at.emitted \in Nat /\ at.applied \in Nat
    BY <2>1 DEF Stand
  <2>3. h[at.t] <= h[T]
    <3>1. at.t \in 0..T /\ T \in 0..T
      BY <1>1, <2>1, <2>2
    <3> QED BY <1>2, <2>1, <3>1 DEF Sums, T
  <2>0. at.t + at.m + at.applied >= N \/ ~Unfinished(p, at)
    BY <1>8 DEF Steps
  <2> DEFINE x == at.t
             y == at.m
             z == at.applied
             e == at.emitted
             c == h[T]
  <2>7. x + y + z >= N => x = T /\ y = p.ops /\ z = e
    <3>1. x \in Nat /\ y \in Nat /\ z \in Nat /\ e \in Nat /\ c \in Nat /\ x <= T /\ y <= p.ops /\ z <= e /\ e <= c /\ N = T + p.ops + c
      BY <1>3, <2>1, <2>2, <2>3
    <3> HIDE DEF x, y, z, e, c
    <3> QED BY <1>1, <3>1
  <2>8. at.t = T /\ at.m = p.ops /\ at.applied = at.emitted => ~Unfinished(p, at)
    BY <1>1, <2>2 DEF Unfinished, T
  <2> QED BY <2>0, <2>7, <2>8
<1>10. at = End(p)
  <2>1. at \in Stand /\ at.t <= T /\ at.m <= p.ops /\ at.emitted = h[at.t] /\ at.applied <= at.emitted
    BY <1>8 DEF Within, T
  <2>2. at.t \in Nat /\ at.m \in Nat /\ at.emitted \in Nat /\ at.applied \in Nat
        /\ at = [t |-> at.t, m |-> at.m, emitted |-> at.emitted, applied |-> at.applied]
    BY <2>1 DEF Stand
  <2>3. ~(at.t < T) /\ ~(at.m < p.ops) /\ ~(at.applied < at.emitted)
    BY <1>9 DEF Unfinished, T
  <2>4. at.t = T /\ at.m = p.ops /\ at.applied = at.emitted
    BY <1>1, <2>1, <2>2, <2>3
  <2> QED BY <1>3, <2>1, <2>2, <2>4
<1>11. s # <<>>
  <2>1. ~Unfinished(p, End(p)) /\ Unfinished(p, Start)
    BY <1>1, <1>3, <1>9, <1>10 DEF Unfinished, Start, T
  <2> QED BY <1>9, <2>1 DEF at, At
<1> QED BY <1>4, <1>8, <1>10, <1>11 DEF s, at, At

(***************************************************************************)
(* A period's proving.                                                     *)
(***************************************************************************)
Stages == {"leaves", "nodes", "fold", "failed", "sealed"}

States == {"unstarted", "witness", "waiting", "proving", "done", "failed"}

\* A call of fold is a record of its stage, its tasks and the level it climbs.
IsCall(call) ==
  /\ call = [stage |-> call.stage, task |-> call.task, level |-> call.level, proofs |-> call.proofs, done |-> call.done]
  /\ call.stage \in Stages /\ call.task \in [Leaves -> States]

AreCalls == \A c \in DOMAIN calls : IsCall(calls[c])

\* How often each label of some was proved or damaged.
Counts(counts) == counts \in [DOMAIN counts -> Nat]

PoolTypeOK ==
  /\ Len(leaves) \in Nat
  /\ (\E S : calls \in Seq(S)) /\ AreCalls
  /\ proofFiles \in [DOMAIN proofFiles -> BOOLEAN]
  /\ Counts(made) /\ Counts(damaged)

-----------------------------------------------------------------------------
\* Leaves start in order, each after the one two before it is done, and one
\* that proves follows leaves that are done.
InOrder(call) ==
  \A k \in Leaves :
     /\ call.task[k] # "unstarted" =>
          \A j \in Leaves : /\ j < k => call.task[j] # "unstarted"
                            /\ j < k - 1 => call.task[j] = "done"
     /\ call.task[k] = "proving" =>
          \A j \in Leaves : j < k => call.task[j] = "done"

\* A call past its leaves, or failed, proves no leaf any more: a task it left
\* behind waits for one that failed.
NoneProves(call) ==
  \A k \in Leaves :
     /\ call.task[k] # "proving"
     /\ call.task[k] \in {"witness", "waiting"} => k > 1 /\ call.task[k - 1] = "failed"

CallsInOrder ==
  \A c \in DOMAIN calls :
     /\ InOrder(calls[c])
     /\ calls[c].stage # "leaves" => NoneProves(calls[c])
     /\ c < Len(calls) => calls[c].stage = "failed"

\* A leaf is under way only where no whole file of it is kept.
UnderWayUnkept ==
  \A c \in DOMAIN calls, k \in Leaves :
     calls[c].stage = "leaves" /\ calls[c].task[k] \in {"witness", "waiting", "proving"}
       => ~Stored(LeafLabel(k))

\* A proof was made once more than its file was damaged only while the file is
\* whole.
MadeForKept ==
  \A x : /\ Count(x, made) <= Count(x, damaged) + 1
         /\ ~Stored(x) => Count(x, made) <= Count(x, damaged)

\* The inductive invariant.
SoundPool == PoolTypeOK /\ CallsInOrder /\ UnderWayUnkept /\ MadeForKept

-----------------------------------------------------------------------------
\* The calls after one of them was replaced by another record.
LEMMA CallReplaced ==
  ASSUME PoolTypeOK, NEW c \in DOMAIN calls, NEW e, calls' = [calls EXCEPT ![c] = e]
  PROVE  /\ \E S : calls' \in Seq(S)
         /\ Len(calls') = Len(calls) /\ DOMAIN calls' = DOMAIN calls
         /\ calls'[c] = e /\ \A d \in DOMAIN calls : d # c => calls'[d] = calls[d]
<1>1. PICK S : calls \in Seq(S)
  BY DEF PoolTypeOK
<1> DEFINE T == S \cup {e}
<1>2. calls \in Seq(T) /\ e \in T
  BY <1>1, SeqMonotonic
<1> HIDE DEF T
<1>3. DOMAIN calls = 1..Len(calls) /\ c \in 1..Len(calls)
  BY <1>2, LenProperties
<1>4. /\ calls' \in Seq(T) /\ Len(calls') = Len(calls)
      /\ \A j \in 1..Len(calls) : calls'[j] = IF j = c THEN e ELSE calls[j]
  BY <1>2, <1>3, ExceptSeq
<1>5. DOMAIN calls' = 1..Len(calls')
  BY <1>4, LenProperties
<1> QED BY <1>3, <1>4, <1>5

\* The calls are numbered, and the last is the live one where there is one.
LEMMA CallNumbers ==
  ASSUME PoolTypeOK
  PROVE  /\ Len(calls) \in Nat /\ DOMAIN calls = 1..Len(calls)
         /\ Leaves = 1..Len(leaves) /\ Leaves \subseteq Int
         /\ Live => /\ Len(calls) \in DOMAIN calls
                    /\ calls[Len(calls)].stage \in {"leaves", "nodes", "fold"}
<1>1. PICK S : calls \in Seq(S)
  BY DEF PoolTypeOK
<1>2. Len(calls) \in Nat /\ DOMAIN calls = 1..Len(calls)
  BY <1>1, LenProperties
<1>3. Leaves = 1..Len(leaves) /\ Leaves \subseteq Int
  BY DEF Leaves, PoolTypeOK
<1>4. ASSUME Live
      PROVE  /\ Len(calls) \in DOMAIN calls
             /\ calls[Len(calls)].stage \in {"leaves", "nodes", "fold"}
  <2>1. calls # <<>>
    BY <1>4 DEF Live
  <2>2. Len(calls) \in DOMAIN calls
    BY <1>1, <1>2, <2>1, EmptySeq
  <2>3. calls[Len(calls)].stage \in Stages
    BY <2>2 DEF PoolTypeOK, AreCalls, IsCall
  <2> QED BY <1>4, <2>2, <2>3 DEF Live, Last, Stages
<1> QED BY <1>2, <1>3, <1>4

\* The labels of two leaves differ.
LEMMA LabelsDiffer == \A j, k : LeafLabel(j) = LeafLabel(k) => j = k
BY DEF LeafLabel, Leaf

\* Counts with one more of a label.
LEMMA CountedOnce ==
  ASSUME NEW counts, Counts(counts), NEW label
  PROVE  /\ Counts(CountedAgain(label, counts))
         /\ \A x : Count(x, counts) \in Nat
         /\ \A x : Count(x, CountedAgain(label, counts)) = IF x = label THEN Count(x, counts) + 1 ELSE Count(x, counts)
<1> DEFINE more == CountedAgain(label, counts)
<1>1. \A x : Count(x, counts) \in Nat
  BY DEF Count, Counts
<1>2. DOMAIN more = DOMAIN counts \cup {label}
      /\ \A x \in DOMAIN more : more[x] = IF x = label THEN Count(x, counts) + 1 ELSE counts[x]
  BY DEF CountedAgain
<1>3. more = [x \in DOMAIN more |-> more[x]]
  BY DEF CountedAgain
<1> HIDE DEF more
<1>4. \A x \in DOMAIN more : more[x] \in Nat
  BY <1>1, <1>2 DEF Counts
<1>5. Counts(more)
  BY <1>3, <1>4 DEF Counts
<1>6. \A x : Count(x, more) = IF x = label THEN Count(x, counts) + 1 ELSE Count(x, counts)
  BY <1>2 DEF Count
<1> QED BY <1>1, <1>5, <1>6 DEF more

\* A leaf's task of one call changes its state, and the call its stage at most.
LEMMA TaskMoved ==
  ASSUME PoolTypeOK, NEW c \in DOMAIN calls, NEW k \in Leaves, NEW s \in States, Becomes(c, k, s)
  PROVE  /\ \E S : calls' \in Seq(S)
         /\ Len(calls') = Len(calls) /\ DOMAIN calls' = DOMAIN calls
         /\ IsCall(calls'[c]) /\ calls'[c].stage = calls[c].stage
         /\ calls'[c].task[k] = s
         /\ \A j \in Leaves : j # k => calls'[c].task[j] = calls[c].task[j]
         /\ \A d \in DOMAIN calls : d # c => calls'[d] = calls[d]
<1> DEFINE call == calls[c]
           e == [call EXCEPT !.task[k] = s, !.proofs[k] = InHand(c, k, s)]
           task == [call.task EXCEPT ![k] = s]
           proofs == [call.proofs EXCEPT ![k] = InHand(c, k, s)]
<1>1. IsCall(call)
  BY DEF PoolTypeOK, AreCalls
<1>2. task \in [Leaves -> States] /\ task[k] = s
      /\ \A j \in Leaves : j # k => task[j] = call.task[j]
  BY <1>1 DEF IsCall
<1>3. calls' = [calls EXCEPT ![c] = e]
  BY DEF Becomes
<1>4. e = [stage |-> call.stage, task |-> task, level |-> call.level, proofs |-> proofs, done |-> call.done]
  <2> DEFINE mid == [call EXCEPT !.task = task]
             held == InHand(c, k, s)
  <2>1. e = [mid EXCEPT !.proofs = [mid.proofs EXCEPT ![k] = held]]
    OBVIOUS
  <2> HIDE DEF task, held
  <2>2. mid = [stage |-> call.stage, task |-> task, level |-> call.level, proofs |-> call.proofs, done |-> call.done]
    BY <1>1 DEF IsCall
  <2> HIDE DEF mid, e
  <2>3. e = [mid EXCEPT !.proofs = proofs]
    BY <2>1, <2>2 DEF held
  <2> HIDE DEF proofs
  <2> QED BY <2>2, <2>3
<1> HIDE DEF task, proofs, e
<1>5. IsCall(e) /\ e.stage = call.stage /\ e.task = task
  BY <1>1, <1>2, <1>4 DEF IsCall
<1> QED BY <1>2, <1>3, <1>5, CallReplaced

\* A task's step that starts in order, proves after what is done and settles
\* once keeps the calls in order.
LEMMA TaskKeepsOrder ==
  ASSUME SoundPool, NEW c \in DOMAIN calls, NEW k \in Leaves, NEW s \in States \ {"unstarted"},
         Becomes(c, k, s), UNCHANGED leaves,
         calls[c].task[k] \notin {"done", "failed"},
         calls[c].task[k] = "unstarted" =>
           /\ calls[c].stage = "leaves"
           /\ \A j \in Leaves : /\ j < k => calls[c].task[j] # "unstarted"
                                /\ j < k - 1 => calls[c].task[j] = "done",
         s = "proving" => /\ calls[c].stage = "leaves"
                          /\ \A j \in Leaves : j < k => calls[c].task[j] = "done"
  PROVE  /\ \E S : calls' \in Seq(S)
         /\ AreCalls' /\ CallsInOrder'
<1>1. PoolTypeOK /\ CallsInOrder
  BY DEF SoundPool
<1>2. /\ \E S : calls' \in Seq(S)
      /\ Len(calls') = Len(calls) /\ DOMAIN calls' = DOMAIN calls
      /\ IsCall(calls'[c]) /\ calls'[c].stage = calls[c].stage
      /\ calls'[c].task[k] = s
      /\ \A j \in Leaves : j # k => calls'[c].task[j] = calls[c].task[j]
      /\ \A d \in DOMAIN calls : d # c => calls'[d] = calls[d]
  BY <1>1, TaskMoved
<1>3. Leaves' = Leaves /\ Leaves = 1..Len(leaves) /\ Len(leaves) \in Nat /\ Leaves \subseteq Int
  BY <1>1, CallNumbers DEF Leaves, PoolTypeOK
<1> DEFINE old == calls[c]
           new == calls'[c]
<1>4. InOrder(old) /\ (old.stage # "leaves" => NoneProves(old))
  BY <1>1 DEF CallsInOrder
<1>5. /\ new.stage = old.stage /\ new.task[k] = s
      /\ \A j \in Leaves : j # k => new.task[j] = old.task[j]
      /\ old.task[k] \notin {"done", "failed"}
      /\ old.task[k] = "unstarted" =>
           /\ old.stage = "leaves"
           /\ \A j \in Leaves : /\ j < k => old.task[j] # "unstarted"
                                /\ j < k - 1 => old.task[j] = "done"
      /\ s = "proving" => /\ old.stage = "leaves"
                          /\ \A j \in Leaves : j < k => old.task[j] = "done"
  BY <1>2
<1> HIDE DEF old, new
<1>6. InOrder(new)
  <2> SUFFICES ASSUME NEW x \in Leaves
               PROVE  /\ new.task[x] # "unstarted" =>
                           \A j \in Leaves : /\ j < x => new.task[j] # "unstarted"
                                             /\ j < x - 1 => new.task[j] = "done"
                      /\ new.task[x] = "proving" =>
                           \A j \in Leaves : j < x => new.task[j] = "done"
    BY DEF InOrder
  <2>1. CASE x = k
    <3>1. \A j \in Leaves : j < k => j # k
      BY <1>3
    <3>2. \A j \in Leaves : j < k - 1 => j < k
      BY <1>3
    <3> QED BY <1>3, <1>4, <1>5, <2>1, <3>1, <3>2 DEF InOrder
  <2>2. CASE x # k
    <3>1. new.task[x] = old.task[x]
      BY <1>5, <2>2
    <3>2. ASSUME old.task[x] # "unstarted", NEW j \in Leaves
          PROVE  /\ j < x => new.task[j] # "unstarted"
                 /\ j < x - 1 => new.task[j] = "done"
      BY <1>4, <1>5, <3>2 DEF InOrder
    <3>3. ASSUME old.task[x] = "proving", NEW j \in Leaves, j < x
          PROVE  new.task[j] = "done"
      BY <1>4, <1>5, <3>3 DEF InOrder
    <3> QED BY <3>1, <3>2, <3>3
  <2> QED BY <2>1, <2>2
<1>7. ASSUME new.stage # "leaves" PROVE NoneProves(new)
  <2>1. NoneProves(old) /\ old.task[k] \in {"witness", "waiting"} /\ s # "proving"
    <3>1. old.task[k] \in States
      BY <1>1 DEF PoolTypeOK, AreCalls, IsCall, old
    <3> QED BY <1>4, <1>5, <1>7, <3>1 DEF NoneProves, States
  <2>2. k > 1 /\ old.task[k - 1] = "failed"
    BY <2>1 DEF NoneProves
  <2> SUFFICES ASSUME NEW x \in Leaves
               PROVE  /\ new.task[x] # "proving"
                      /\ new.task[x] \in {"witness", "waiting"} => x > 1 /\ new.task[x - 1] = "failed"
    BY DEF NoneProves
  <2>3. CASE x = k
    <3>1. k - 1 \in Leaves /\ k - 1 # k
      BY <1>3, <2>2
    <3> QED BY <1>5, <2>1, <2>2, <2>3, <3>1
  <2>4. CASE x # k
    <3>1. new.task[x] = old.task[x]
      BY <1>5, <2>4
    <3>2. old.task[x] \in {"witness", "waiting"} => x > 1 /\ old.task[x - 1] = "failed" /\ x - 1 # k
      BY <1>5, <2>1 DEF NoneProves
    <3>3. x > 1 => x - 1 \in Leaves
      BY <1>3
    <3> QED BY <1>5, <2>1, <3>1, <3>2, <3>3 DEF NoneProves
  <2> QED BY <2>3, <2>4
<1>8. \A d \in DOMAIN calls' :
        /\ InOrder(calls'[d])
        /\ calls'[d].stage # "leaves" => NoneProves(calls'[d])
        /\ d < Len(calls') => calls'[d].stage = "failed"
  BY <1>1, <1>2, <1>6, <1>7 DEF CallsInOrder, old, new
<1>9. CallsInOrder'
  BY <1>3, <1>8 DEF CallsInOrder, InOrder, NoneProves
<1>10. AreCalls'
  <2>1. \A d \in DOMAIN calls' : IsCall(calls'[d])
    BY <1>1, <1>2 DEF PoolTypeOK, AreCalls
  <2> QED BY <1>3, <2>1 DEF AreCalls, IsCall
<1> QED BY <1>2, <1>9, <1>10

\* A proof that is kept makes its own file whole and no other.
LEMMA KeptAfter ==
  ASSUME PoolTypeOK, NEW label, Keep(label)
  PROVE  /\ proofFiles' \in [DOMAIN proofFiles' -> BOOLEAN]
         /\ Stored(label)' /\ \A x : x # label => (Stored(x)' <=> Stored(x))
         /\ Counts(made')
         /\ \A x : Count(x, made') = IF x = label THEN Count(x, made) + 1 ELSE Count(x, made)
<1>1. /\ made' = CountedAgain(label, made)
      /\ proofFiles' = [x \in DOMAIN proofFiles \cup {label} |-> IF x = label THEN TRUE ELSE proofFiles[x]]
  BY DEF Keep
<1>2. DOMAIN proofFiles' = DOMAIN proofFiles \cup {label}
  BY <1>1
<1>3. proofFiles' \in [DOMAIN proofFiles' -> BOOLEAN]
  BY <1>1, <1>2 DEF PoolTypeOK
<1>4. Stored(label)' /\ \A x : x # label => (Stored(x)' <=> Stored(x))
  BY <1>1, <1>2 DEF Stored
<1> QED BY <1>1, <1>3, <1>4, CountedOnce DEF PoolTypeOK

\* What has no whole file is proved, and its proof kept.
LEMMA KeepSound ==
  ASSUME PoolTypeOK, MadeForKept, NEW label, Keep(label), ~Stored(label), UNCHANGED damaged
  PROVE  MadeForKept' /\ Counts(made') /\ Counts(damaged')
<1>1. \A x : Count(x, made) \in Nat /\ Count(x, damaged) \in Nat
  BY CountedOnce DEF PoolTypeOK
<1>2. ASSUME NEW x
      PROVE  /\ Count(x, made') <= Count(x, damaged) + 1
             /\ ~Stored(x)' => Count(x, made') <= Count(x, damaged)
  BY <1>1, KeptAfter DEF MadeForKept
<1> QED BY <1>2, KeptAfter DEF MadeForKept, PoolTypeOK

\* A leaf's step that keeps the files as they are.
LEMMA LeafStepSound ==
  ASSUME SoundPool,
         \/ \E k \in Leaves : StartLeaf(k)
         \/ \E x \in Tasks : Witnessed(x[1], x[2]) \/ After(x[1], x[2]) \/ TaskFails(x[1], x[2])
  PROVE  SoundPool'
<1>1. PoolTypeOK /\ CallsInOrder /\ UnderWayUnkept /\ MadeForKept
  BY DEF SoundPool
<1>2. /\ UNCHANGED <<leaves, proofFiles, made, damaged>> /\ Leaves' = Leaves
      /\ \A x : Stored(x)' = Stored(x)
  BY DEF StartLeaf, Witnessed, After, TaskFails, Leaves, Stored
<1>3. Leaves = 1..Len(leaves) /\ Len(leaves) \in Nat /\ Leaves \subseteq Int
  BY <1>1, CallNumbers DEF PoolTypeOK
<1>4. MadeForKept' /\ Counts(made') /\ Counts(damaged')
      /\ proofFiles' \in [DOMAIN proofFiles' -> BOOLEAN] /\ Len(leaves') \in Nat
  BY <1>1, <1>2 DEF MadeForKept, PoolTypeOK
<1>5. PICK c \in DOMAIN calls, k \in Leaves, s \in States \ {"unstarted"} :
        /\ Becomes(c, k, s)
        /\ calls[c].task[k] \notin {"done", "failed"}
        /\ calls[c].task[k] = "unstarted" =>
             /\ calls[c].stage = "leaves"
             /\ \A j \in Leaves : /\ j < k => calls[c].task[j] # "unstarted"
                                  /\ j < k - 1 => calls[c].task[j] = "done"
        /\ s = "proving" => /\ calls[c].stage = "leaves"
                            /\ \A j \in Leaves : j < k => calls[c].task[j] = "done"
        /\ s \in {"witness", "waiting", "proving"} =>
             calls[c].task[k] \in {"witness", "waiting", "proving"} \/ ~Stored(LeafLabel(k))
  <2>1. CASE \E k \in Leaves : StartLeaf(k)
    <3>1. PICK k \in Leaves : StartLeaf(k)
      BY <2>1
    <3> DEFINE c == Len(calls)
               s == IF Stored(LeafLabel(k)) THEN "done" ELSE "witness"
    <3>2. /\ Live /\ calls[c].stage = "leaves" /\ calls[c].task[k] = "unstarted"
          /\ k > 1 => calls[c].task[k - 1] # "unstarted"
          /\ k > 2 => calls[c].task[k - 2] = "done"
          /\ Becomes(c, k, s)
      BY <3>1 DEF StartLeaf, Task
    <3>3. c \in DOMAIN calls
      BY <1>1, <3>2, CallNumbers
    <3>4. InOrder(calls[c])
      BY <1>1, <3>3 DEF CallsInOrder
    <3>5. ASSUME NEW j \in Leaves
          PROVE  /\ j < k => calls[c].task[j] # "unstarted"
                 /\ j < k - 1 => calls[c].task[j] = "done"
      <4>1. j < k => k - 1 \in Leaves /\ k > 1 /\ (j = k - 1 \/ j < k - 1)
        BY <1>3
      <4>2. j < k - 1 => k > 2 /\ (j = k - 2 \/ j < (k - 1) - 1)
        BY <1>3
      <4>3. j < k - 1 => calls[c].task[j] = "done"
        BY <1>3, <3>2, <3>4, <4>1, <4>2 DEF InOrder
      <4>4. j < k => calls[c].task[j] # "unstarted"
        BY <3>2, <4>1, <4>3
      <4> QED BY <4>3, <4>4
    <3>6. s \in States \ {"unstarted"} /\ s # "proving" /\ (s = "witness" => ~Stored(LeafLabel(k)))
          /\ s \notin {"waiting", "proving"}
      BY DEF States
    <3> HIDE DEF s, c
    <3> QED BY <3>2, <3>3, <3>5, <3>6
  <2>2. CASE \E x \in Tasks : Witnessed(x[1], x[2])
    <3>1. PICK x \in Tasks : Witnessed(x[1], x[2])
      BY <2>2
    <3>2. x[1] \in DOMAIN calls /\ x[2] \in Leaves
      BY DEF Tasks
    <3>3. "waiting" \in States \ {"unstarted"}
      BY DEF States
    <3> QED BY <3>1, <3>2, <3>3 DEF Witnessed, Task
  <2>3. CASE \E x \in Tasks : After(x[1], x[2])
    <3>1. PICK x \in Tasks : After(x[1], x[2])
      BY <2>3
    <3> DEFINE c == x[1]
               k == x[2]
               s == IF k > 1 /\ Task(c, k - 1) = "failed" THEN "failed" ELSE "proving"
    <3>2. c \in DOMAIN calls /\ k \in Leaves
      BY DEF Tasks
    <3> HIDE DEF c, k
    <3>3. /\ calls[c].task[k] = "waiting" /\ Becomes(c, k, s)
          /\ k > 1 => calls[c].task[k - 1] \in {"done", "failed"}
      BY <3>1 DEF After, Task, Settled, c, k
    <3>4. /\ InOrder(calls[c]) /\ (calls[c].stage # "leaves" => NoneProves(calls[c]))
      BY <1>1, <3>2 DEF CallsInOrder
    <3>5. s = "proving" => (k > 1 => calls[c].task[k - 1] = "done")
      BY <3>3 DEF Task
    <3>6. s = "proving" => calls[c].stage = "leaves"
      BY <3>2, <3>3, <3>4, <3>5 DEF NoneProves
    <3>7. ASSUME s = "proving", NEW j \in Leaves, j < k PROVE calls[c].task[j] = "done"
      <4>1. k > 1 /\ (j = k - 1 \/ j < k - 1)
        BY <1>3, <3>2, <3>7
      <4> QED BY <3>2, <3>3, <3>4, <3>5, <3>7, <4>1 DEF InOrder
    <3>8. s \in States \ {"unstarted"}
      BY DEF States
    <3> HIDE DEF s
    <3> QED BY <3>2, <3>3, <3>6, <3>7, <3>8
  <2>4. CASE \E x \in Tasks : TaskFails(x[1], x[2])
    <3>1. PICK x \in Tasks : TaskFails(x[1], x[2])
      BY <2>4
    <3>2. x[1] \in DOMAIN calls /\ x[2] \in Leaves
      BY DEF Tasks
    <3>3. "failed" \in States \ {"unstarted"}
      BY DEF States
    <3> QED BY <3>1, <3>2, <3>3 DEF TaskFails, Task
  <2> QED BY <2>1, <2>2, <2>3, <2>4
<1>6. /\ \E S : calls' \in Seq(S)
      /\ AreCalls' /\ CallsInOrder'
  BY <1>2, <1>5, TaskKeepsOrder
<1>7. UnderWayUnkept'
  <2>1. /\ DOMAIN calls' = DOMAIN calls
        /\ calls'[c].stage = calls[c].stage /\ calls'[c].task[k] = s
        /\ \A j \in Leaves : j # k => calls'[c].task[j] = calls[c].task[j]
        /\ \A d \in DOMAIN calls : d # c => calls'[d] = calls[d]
    BY <1>1, <1>5, TaskMoved
  <2> SUFFICES ASSUME NEW d \in DOMAIN calls, NEW j \in Leaves, calls'[d].stage = "leaves",
                      calls'[d].task[j] \in {"witness", "waiting", "proving"}
               PROVE  ~Stored(LeafLabel(j))
    BY <1>2, <2>1 DEF UnderWayUnkept, LeafLabel, Leaf
  <2>2. CASE d = c /\ j = k
    BY <1>1, <1>5, <2>1, <2>2 DEF UnderWayUnkept
  <2>3. CASE ~(d = c /\ j = k)
    BY <1>1, <2>1, <2>3 DEF UnderWayUnkept
  <2> QED BY <2>2, <2>3
<1> QED BY <1>4, <1>6, <1>7 DEF SoundPool, PoolTypeOK

\* A proof made of a leaf is kept where none was, and no other leaf waits for
\* that place.
LEMMA ProvedSound ==
  ASSUME SoundPool, NEW c \in DOMAIN calls, NEW k \in Leaves, LeafProved(c, k)
  PROVE  SoundPool'
<1>1. PoolTypeOK /\ CallsInOrder /\ UnderWayUnkept /\ MadeForKept
  BY DEF SoundPool
<1>2. /\ calls[c].task[k] = "proving" /\ Becomes(c, k, "done") /\ Keep(LeafLabel(k))
      /\ UNCHANGED <<leaves, damaged>> /\ Leaves' = Leaves
  BY DEF LeafProved, Task, Leaves
<1>3. calls[c].stage = "leaves"
  BY <1>1, <1>2 DEF CallsInOrder, NoneProves
<1>4. ~Stored(LeafLabel(k))
  BY <1>1, <1>2, <1>3 DEF UnderWayUnkept
<1>5. MadeForKept' /\ Counts(made') /\ Counts(damaged')
  BY <1>1, <1>2, <1>4, KeepSound
<1>6. /\ proofFiles' \in [DOMAIN proofFiles' -> BOOLEAN]
      /\ \A x : x # LeafLabel(k) => (Stored(x)' <=> Stored(x))
  BY <1>1, <1>2, KeptAfter
<1>7. "done" \in States \ {"unstarted"}
  BY DEF States
<1>8. (\E S : calls' \in Seq(S)) /\ AreCalls' /\ CallsInOrder'
  BY <1>2, <1>7, TaskKeepsOrder
<1>9. UnderWayUnkept'
  <2>1. /\ DOMAIN calls' = DOMAIN calls
        /\ calls'[c].stage = calls[c].stage /\ calls'[c].task[k] = "done"
        /\ \A j \in Leaves : j # k => calls'[c].task[j] = calls[c].task[j]
        /\ \A d \in DOMAIN calls : d # c => calls'[d] = calls[d]
    BY <1>1, <1>2, <1>7, TaskMoved
  <2> SUFFICES ASSUME NEW d \in DOMAIN calls, NEW j \in Leaves, calls'[d].stage = "leaves",
                      calls'[d].task[j] \in {"witness", "waiting", "proving"}
               PROVE  ~Stored(LeafLabel(j))'
    BY <1>2, <2>1 DEF UnderWayUnkept, LeafLabel, Leaf
  <2>2. ~(d = c /\ j = k)
    BY <2>1
  <2>3. calls[d].stage = "leaves" /\ calls[d].task[j] \in {"witness", "waiting", "proving"}
    BY <2>1, <2>2
  <2>4. ~Stored(LeafLabel(j))
    BY <1>1, <2>3 DEF UnderWayUnkept
  <2>5. d = c
    <3>1. Len(calls) \in Nat /\ DOMAIN calls = 1..Len(calls)
      BY <1>1, CallNumbers
    <3>2. \A x \in DOMAIN calls : calls[x].stage = "leaves" => ~(x < Len(calls))
      BY <1>1 DEF CallsInOrder
    <3>3. d = Len(calls) /\ c = Len(calls)
      BY <1>3, <2>3, <3>1, <3>2
    <3> QED BY <3>3
  <2>6. LeafLabel(j) # LeafLabel(k)
    BY <2>2, <2>5, LabelsDiffer
  <2> QED BY <1>6, <2>4, <2>6
<1> QED BY <1>1, <1>2, <1>5, <1>6, <1>8, <1>9 DEF SoundPool, PoolTypeOK

\* The last call leaves its leaves behind: it joins, it is sealed or it failed.
LEMMA StageMoved ==
  ASSUME PoolTypeOK, CallsInOrder, Live, UNCHANGED leaves, NEW e, IsCall(e), e.stage # "leaves",
         e.task = calls[Len(calls)].task, NoneProves(calls[Len(calls)]),
         calls' = [calls EXCEPT ![Len(calls)] = e]
  PROVE  (\E S : calls' \in Seq(S)) /\ AreCalls' /\ CallsInOrder' /\ UnderWayUnkept'
<1> DEFINE c == Len(calls)
<1>1. /\ c \in DOMAIN calls /\ Leaves' = Leaves /\ DOMAIN calls = 1..c /\ c \in Nat
  BY CallNumbers DEF Leaves
<1>2. /\ \E S : calls' \in Seq(S)
      /\ Len(calls') = c /\ DOMAIN calls' = DOMAIN calls
      /\ calls'[c] = e /\ \A d \in DOMAIN calls : d # c => calls'[d] = calls[d]
  BY <1>1, CallReplaced
<1>3. e.task = calls[c].task /\ NoneProves(calls[c])
  OBVIOUS
<1> HIDE DEF c
<1>4. AreCalls'
  <2>1. \A d \in DOMAIN calls' : IsCall(calls'[d])
    BY <1>2 DEF PoolTypeOK, AreCalls
  <2> QED BY <1>1, <2>1 DEF AreCalls, IsCall
<1>5. InOrder(e) /\ NoneProves(e)
  <2>1. InOrder(calls[c])
    BY <1>1 DEF CallsInOrder
  <2> QED BY <1>3, <2>1 DEF InOrder, NoneProves
<1>6. \A d \in DOMAIN calls' : /\ InOrder(calls'[d]) /\ NoneProves(calls'[d]) /\ calls'[d].stage # "leaves"
                               /\ d < c => calls'[d].stage = "failed"
  <2> SUFFICES ASSUME NEW d \in DOMAIN calls
               PROVE  /\ InOrder(calls'[d]) /\ NoneProves(calls'[d]) /\ calls'[d].stage # "leaves"
                      /\ d < c => calls'[d].stage = "failed"
    BY <1>2
  <2>1. CASE d = c
    BY <1>1, <1>2, <1>5, <2>1
  <2>2. CASE d # c
    <3>1. calls'[d] = calls[d] /\ d < c
      BY <1>1, <1>2, <2>2
    <3> QED BY <3>1 DEF CallsInOrder, c
  <2> QED BY <2>1, <2>2
<1>7. CallsInOrder'
  BY <1>1, <1>2, <1>6 DEF CallsInOrder, InOrder, NoneProves
<1>8. UnderWayUnkept'
  BY <1>6 DEF UnderWayUnkept
<1> QED BY <1>2, <1>4, <1>7, <1>8

\* A call that climbs a level keeps its tasks and joins on.
LEMMA ClimbedIsCall ==
  ASSUME NEW call, IsCall(call), call.stage \in {"nodes", "fold"}
  PROVE  /\ IsCall(Climbed(call)) /\ Climbed(call).task = call.task
         /\ Climbed(call).stage \in {"nodes", "fold"}
<1>1. CASE Len(call.level) = 1
  BY <1>1 DEF Climbed, IsCall, Stages
<1>2. CASE Len(call.level) # 1 /\ Len(call.done) < Len(Joined(call.level))
  BY <1>2 DEF Climbed
<1>3. CASE Len(call.level) # 1 /\ ~(Len(call.done) < Len(Joined(call.level)))
  <2> DEFINE stage == IF Len(Up(call.level)) = 1 THEN "fold" ELSE "nodes"
             level == Up(call.level)
             proofs == UpProofs(call)
  <2>1. Climbed(call) = [call EXCEPT !.level = level, !.proofs = proofs, !.done = <<>>, !.stage = stage]
    BY <1>3 DEF Climbed
  <2>2. stage \in {"nodes", "fold"}
    OBVIOUS
  <2> HIDE DEF stage, level, proofs
  <2> QED BY <2>1, <2>2 DEF IsCall, Stages
<1> QED BY <1>1, <1>2, <1>3

\* The tree begins, or a joined span is listed: the call's tasks stay.
LEMMA CallStays ==
  ASSUME NEW call, IsCall(call), NEW level, NEW done
  PROVE  LET begun == [call EXCEPT !.stage = "nodes", !.level = level]
             next == [call EXCEPT !.done = done]
         IN /\ IsCall(begun) /\ begun.stage = "nodes" /\ begun.task = call.task
            /\ IsCall(next) /\ next.stage = call.stage /\ next.task = call.task
<1> DEFINE begun == [call EXCEPT !.stage = "nodes", !.level = level]
           next == [call EXCEPT !.done = done]
<1>1. call = [stage |-> call.stage, task |-> call.task, level |-> call.level, proofs |-> call.proofs, done |-> call.done]
  BY DEF IsCall
<1>2. begun = [stage |-> "nodes", task |-> call.task, level |-> level, proofs |-> call.proofs, done |-> call.done]
  <2> DEFINE mid == [call EXCEPT !.stage = "nodes"]
  <2>1. mid = [stage |-> "nodes", task |-> call.task, level |-> call.level, proofs |-> call.proofs, done |-> call.done]
    BY <1>1
  <2>2. begun = [mid EXCEPT !.level = level]
    BY <1>1
  <2> HIDE DEF mid, begun
  <2> QED BY <2>1, <2>2
<1>3. next = [stage |-> call.stage, task |-> call.task, level |-> call.level, proofs |-> call.proofs, done |-> done]
  BY <1>1
<1>4. IsCall(begun) /\ begun.stage = "nodes" /\ begun.task = call.task
  BY <1>2 DEF IsCall, Stages
<1>5. IsCall(next) /\ next.stage = call.stage /\ next.task = call.task
  BY <1>3 DEF IsCall
<1> QED BY <1>4, <1>5

\* The steps of the live call after its leaves, and those that fail it.
LEMMA JoinStepSound ==
  ASSUME SoundPool, LeafFailed \/ LeavesDone \/ Join \/ JoinFails
  PROVE  SoundPool'
<1> DEFINE c == Len(calls)
<1>1. PoolTypeOK /\ CallsInOrder /\ UnderWayUnkept /\ MadeForKept
  BY DEF SoundPool
<1>2. Live /\ UNCHANGED <<leaves, damaged>> /\ Leaves' = Leaves
  BY DEF LeafFailed, LeavesDone, Join, JoinFails, Leaves
<1>3. c \in DOMAIN calls /\ Leaves = 1..Len(leaves) /\ Len(leaves) \in Nat
  BY <1>1, <1>2, CallNumbers DEF PoolTypeOK
<1>4. IsCall(calls[c]) /\ InOrder(calls[c]) /\ (calls[c].stage # "leaves" => NoneProves(calls[c]))
  BY <1>1, <1>3 DEF PoolTypeOK, AreCalls, CallsInOrder
<1> DEFINE call == calls[c]
<1> HIDE DEF c
<1>5. ASSUME NEW e, IsCall(e), e.stage # "leaves", e.task = calls[c].task, NoneProves(calls[c]),
             calls' = [calls EXCEPT ![c] = e]
      PROVE  (\E S : calls' \in Seq(S)) /\ AreCalls' /\ CallsInOrder' /\ UnderWayUnkept'
  BY <1>1, <1>2, <1>5, StageMoved DEF c
<1>6. ASSUME LeafFailed PROVE SoundPool'
  <2> DEFINE e == [call EXCEPT !.stage = "failed"]
  <2>1. PICK k \in Leaves : /\ call.task[k] = "failed"
                            /\ k < Len(leaves) => call.task[k + 1] # "unstarted"
                            /\ \A j \in 1 .. (k - 1) : call.task[j] = "done"
    BY <1>6 DEF LeafFailed, Task, c
  <2>2. calls' = [calls EXCEPT ![c] = e] /\ UNCHANGED <<proofFiles, made>>
    BY <1>6 DEF LeafFailed, c
  <2>3. IsCall(e) /\ e.stage = "failed" /\ e.task = call.task
    BY <1>4 DEF IsCall, Stages
  <2>4. NoneProves(call)
    <3> SUFFICES ASSUME NEW x \in Leaves
                 PROVE  /\ call.task[x] # "proving"
                        /\ call.task[x] \in {"witness", "waiting"} => x > 1 /\ call.task[x - 1] = "failed"
      BY DEF NoneProves
    <3> HIDE DEF call
    <3>1. InOrder(call)
      BY <1>4 DEF call
    <3>2. x < k \/ x = k \/ k < x - 1 \/ x = k + 1
      BY <1>3
    <3>3. CASE x < k
      <4>1. x \in 1 .. (k - 1)
        BY <1>3, <3>3
      <4> QED BY <2>1, <4>1
    <3>4. CASE x = k
      BY <2>1, <3>4
    <3>5. CASE k < x - 1
      <4>1. call.task[x] = "unstarted"
        BY <2>1, <3>1, <3>5 DEF InOrder
      <4> QED BY <4>1
    <3>6. CASE x = k + 1
      <4>1. k < x /\ x > 1 /\ x - 1 = k
        BY <1>3, <3>6
      <4> QED BY <2>1, <3>1, <4>1 DEF InOrder
    <3> QED BY <3>2, <3>3, <3>4, <3>5, <3>6
  <2> HIDE DEF e
  <2>5. (\E S : calls' \in Seq(S)) /\ AreCalls' /\ CallsInOrder' /\ UnderWayUnkept'
    BY <1>5, <2>2, <2>3, <2>4
  <2> QED BY <1>1, <1>2, <2>2, <2>5 DEF SoundPool, PoolTypeOK, MadeForKept, Stored
<1>7. ASSUME LeavesDone PROVE SoundPool'
  <2> DEFINE level == [k \in Leaves |-> <<k, k>>]
             begun == [call EXCEPT !.stage = "nodes", !.level = level]
  <2>1. /\ calls' = [calls EXCEPT ![c] = Climbed(begun)] /\ UNCHANGED <<proofFiles, made>>
        /\ \A k \in Leaves : call.task[k] = "done"
    BY <1>7 DEF LeavesDone, Task, c
  <2> HIDE DEF level
  <2>2. IsCall(begun) /\ begun.stage = "nodes" /\ begun.task = call.task
    BY <1>4, CallStays
  <2>3. NoneProves(call)
    BY <2>1 DEF NoneProves
  <2> HIDE DEF begun
  <2>4. /\ IsCall(Climbed(begun)) /\ Climbed(begun).task = call.task
        /\ Climbed(begun).stage # "leaves"
    BY <2>2, ClimbedIsCall
  <2>5. (\E S : calls' \in Seq(S)) /\ AreCalls' /\ CallsInOrder' /\ UnderWayUnkept'
    BY <1>5, <2>1, <2>3, <2>4
  <2> QED BY <1>1, <1>2, <2>1, <2>5 DEF SoundPool, PoolTypeOK, MadeForKept, Stored
<1>8. ASSUME Join PROVE SoundPool'
  <2> DEFINE label == Label(call)
             next == [call EXCEPT !.done = Append(call.done, Proof(label, made'))]
             e == IF call.stage = "fold" THEN [call EXCEPT !.stage = "sealed"] ELSE Climbed(next)
  <2>1. /\ call.stage \in {"nodes", "fold"}
        /\ IF Stored(label) THEN UNCHANGED <<proofFiles, made>> ELSE Keep(label)
        /\ calls' = [calls EXCEPT ![c] = e]
    BY <1>4, <1>8 DEF Join, IsCall, c
  <2>2. NoneProves(call)
    BY <1>4, <2>1
  <2> HIDE DEF label
  <2>3. IsCall(next) /\ next.stage = call.stage /\ next.task = call.task
    BY <1>4, CallStays
  <2>4. IsCall(e) /\ e.stage # "leaves" /\ e.task = call.task
    <3>1. CASE call.stage = "fold"
      BY <1>4, <3>1 DEF IsCall, Stages
    <3>2. CASE call.stage # "fold"
      <4> HIDE DEF next
      <4> QED BY <2>1, <2>3, <3>2, ClimbedIsCall
    <3> QED BY <3>1, <3>2
  <2> HIDE DEF e
  <2>5. (\E S : calls' \in Seq(S)) /\ AreCalls' /\ CallsInOrder' /\ UnderWayUnkept'
    BY <1>5, <2>1, <2>2, <2>4
  <2>6. MadeForKept' /\ Counts(made') /\ Counts(damaged')
        /\ proofFiles' \in [DOMAIN proofFiles' -> BOOLEAN]
    <3>1. CASE Stored(label)
      BY <1>1, <1>2, <2>1, <3>1 DEF MadeForKept, Stored, PoolTypeOK
    <3>2. CASE ~Stored(label)
      BY <1>1, <1>2, <2>1, <3>2, KeepSound, KeptAfter
    <3> QED BY <3>1, <3>2
  <2> QED BY <1>1, <1>2, <2>5, <2>6 DEF SoundPool, PoolTypeOK
<1>9. ASSUME JoinFails PROVE SoundPool'
  <2> DEFINE e == [call EXCEPT !.stage = "failed"]
  <2>1. call.stage \in {"nodes", "fold"} /\ calls' = [calls EXCEPT ![c] = e] /\ UNCHANGED <<proofFiles, made>>
    BY <1>9 DEF JoinFails, c
  <2>2. IsCall(e) /\ e.stage = "failed" /\ e.task = call.task
    BY <1>4 DEF IsCall, Stages
  <2>3. NoneProves(call)
    BY <1>4, <2>1
  <2> HIDE DEF e
  <2>4. (\E S : calls' \in Seq(S)) /\ AreCalls' /\ CallsInOrder' /\ UnderWayUnkept'
    BY <1>5, <2>1, <2>2, <2>3
  <2> QED BY <1>1, <1>2, <2>1, <2>4 DEF SoundPool, PoolTypeOK, MadeForKept, Stored
<1> QED BY <1>6, <1>7, <1>8, <1>9

\* A period that is proved again begins beside no live call, and a process that
\* stopped has none.
LEMMA BeginStopSound ==
  ASSUME SoundPool, StartFold \/ Stop
  PROVE  SoundPool'
<1>1. PoolTypeOK /\ CallsInOrder /\ UnderWayUnkept /\ MadeForKept
  BY DEF SoundPool
<1>2. /\ UNCHANGED <<leaves, proofFiles, made, damaged>> /\ Leaves' = Leaves
      /\ \A x : Stored(x)' = Stored(x)
  BY DEF StartFold, Stop, Leaves, Stored
<1>3. MadeForKept'
  BY <1>1, <1>2 DEF MadeForKept
<1>4. Leaves = 1..Len(leaves) /\ Len(leaves) \in Nat /\ Leaves \subseteq Int
  BY <1>1, CallNumbers DEF PoolTypeOK
<1>5. (\E S : calls' \in Seq(S)) /\ AreCalls' /\ CallsInOrder' /\ UnderWayUnkept'
  <2>1. CASE StartFold
    <3> DEFINE n == Len(calls)
    <3>1. PICK S : calls \in Seq(S)
      BY <1>1 DEF PoolTypeOK
    <3> DEFINE T == S \cup {NewCall}
    <3>2. calls \in Seq(T) /\ NewCall \in T
      BY <3>1, SeqMonotonic
    <3> HIDE DEF T
    <3>3. ~Live /\ ~Folded /\ calls' = Append(calls, NewCall)
      BY <2>1 DEF StartFold
    <3>4. /\ calls' \in Seq(T) /\ Len(calls') = n + 1 /\ calls'[n + 1] = NewCall
          /\ \A d \in 1..n : calls'[d] = calls[d]
      BY <3>2, <3>3, AppendProperties
    <3>5. n \in Nat /\ DOMAIN calls = 1..n /\ DOMAIN calls' = 1..(n + 1)
      BY <3>2, <3>4, LenProperties
    <3>6. /\ IsCall(NewCall) /\ NewCall.stage = "leaves"
          /\ \A k \in Leaves : NewCall.task[k] = "unstarted"
      <4> DEFINE task == [k \in Leaves |-> "unstarted"]
      <4>1. task \in [Leaves -> States] /\ \A k \in Leaves : task[k] = "unstarted"
        BY DEF States
      <4> DEFINE proofs == [k \in Leaves |-> <<>>]
      <4>2. NewCall = [stage |-> "leaves", task |-> task, level |-> <<>>, proofs |-> proofs, done |-> <<>>]
        BY DEF NewCall
      <4> HIDE DEF task, proofs
      <4> QED BY <4>1, <4>2 DEF IsCall, Stages
    <3>7. InOrder(NewCall)
      BY <3>6 DEF InOrder
    <3>8. n > 0 => calls[n].stage = "failed"
      <4>1. n > 0 => calls # <<>> /\ Last(calls) = calls[n]
        BY <3>5 DEF Last
      <4> QED BY <3>3, <4>1 DEF Live, Folded
    <3> HIDE DEF n
    <3>9. ASSUME NEW d \in DOMAIN calls'
          PROVE  (d = n + 1 /\ calls'[d] = NewCall)
                 \/ (d \in DOMAIN calls /\ d < n + 1 /\ calls'[d] = calls[d] /\ calls[d].stage = "failed")
      <4>1. CASE d = n + 1
        BY <3>4, <4>1
      <4>2. CASE d # n + 1
        <5>1. d \in DOMAIN calls /\ d < n + 1 /\ calls'[d] = calls[d] /\ (d = n \/ d < n)
          BY <3>4, <3>5, <4>2
        <5>2. calls[d].stage = "failed"
          <6>1. n = Len(calls) /\ (d = n => n > 0)
            BY <3>5, <5>1 DEF n
          <6> QED BY <1>1, <3>8, <5>1, <6>1 DEF CallsInOrder
        <5> QED BY <5>1, <5>2
      <4> QED BY <4>1, <4>2
    <3>10. ASSUME NEW d \in DOMAIN calls'
           PROVE  /\ IsCall(calls'[d]) /\ InOrder(calls'[d])
                  /\ calls'[d].stage # "leaves" => NoneProves(calls'[d])
                  /\ d < Len(calls') => calls'[d].stage = "failed"
                  /\ \A k \in Leaves : ~(calls'[d].stage = "leaves" /\ calls'[d].task[k] \in {"witness", "waiting", "proving"})
      <4>1. CASE d = n + 1 /\ calls'[d] = NewCall
        BY <3>4, <3>5, <3>6, <3>7, <4>1
      <4>2. CASE d \in DOMAIN calls /\ d < n + 1 /\ calls'[d] = calls[d] /\ calls[d].stage = "failed"
        BY <1>1, <4>2 DEF PoolTypeOK, AreCalls, CallsInOrder
      <4> QED BY <3>9, <4>1, <4>2
    <3>11. AreCalls'
      BY <1>2, <3>10 DEF AreCalls, IsCall
    <3>12. CallsInOrder'
      BY <1>2, <3>10 DEF CallsInOrder, InOrder, NoneProves
    <3>13. UnderWayUnkept'
      BY <1>2, <3>10 DEF UnderWayUnkept
    <3> QED BY <3>4, <3>11, <3>12, <3>13
  <2>2. CASE Stop
    <3>1. calls' = <<>>
      BY <2>2 DEF Stop
    <3>2. calls' \in Seq({}) /\ DOMAIN calls' = {}
      BY <3>1
    <3> QED BY <3>2 DEF AreCalls, CallsInOrder, UnderWayUnkept
  <2> QED BY <2>1, <2>2
<1> QED BY <1>1, <1>2, <1>3, <1>5 DEF SoundPool, PoolTypeOK

\* A damaged file is proved again, which the count of its damages allows.
LEMMA DamageSound ==
  ASSUME SoundPool, NEW label \in DOMAIN proofFiles, Damage(label)
  PROVE  SoundPool'
<1>1. PoolTypeOK /\ CallsInOrder /\ UnderWayUnkept /\ MadeForKept
  BY DEF SoundPool
<1>2. /\ UNCHANGED <<leaves, calls, made>> /\ Leaves' = Leaves
      /\ proofFiles' = [proofFiles EXCEPT ![label] = FALSE] /\ damaged' = CountedAgain(label, damaged)
  BY DEF Damage, Leaves
<1>3. proofFiles' \in [DOMAIN proofFiles' -> BOOLEAN] /\ \A x : Stored(x)' => Stored(x) /\ x # label
  BY <1>1, <1>2 DEF PoolTypeOK, Stored
<1>4. \A x : x # label => Stored(x)' = Stored(x)
  BY <1>1, <1>2 DEF PoolTypeOK, Stored
<1>5. /\ Counts(made') /\ Counts(damaged')
      /\ \A x : Count(x, made) \in Nat /\ Count(x, damaged) \in Nat
      /\ \A x : Count(x, damaged') = IF x = label THEN Count(x, damaged) + 1 ELSE Count(x, damaged)
  BY <1>1, <1>2, CountedOnce DEF PoolTypeOK
<1>6. MadeForKept'
  <2>1. ASSUME NEW x
        PROVE  /\ Count(x, made) <= Count(x, damaged') + 1
               /\ ~Stored(x)' => Count(x, made) <= Count(x, damaged')
    <3>1. Count(x, made) <= Count(x, damaged) + 1 /\ (~Stored(x) => Count(x, made) <= Count(x, damaged))
      BY <1>1 DEF MadeForKept
    <3> QED BY <1>4, <1>5, <3>1
  <2> QED BY <1>2, <2>1 DEF MadeForKept
<1>7. UnderWayUnkept'
  BY <1>1, <1>2, <1>3 DEF UnderWayUnkept
<1>8. AreCalls' /\ CallsInOrder'
  BY <1>1, <1>2 DEF PoolTypeOK, AreCalls, CallsInOrder, IsCall, InOrder, NoneProves
<1> QED BY <1>1, <1>2, <1>3, <1>5, <1>6, <1>7, <1>8 DEF SoundPool, PoolTypeOK

\* A period's leaves are numbered, and nothing is kept or made.
LEMMA InitSound == ASSUME PoolInit PROVE SoundPool
<1>1. Len(leaves) \in Nat
  <2>1. LeavesOf(period) \in Seq(ALeaf) /\ leaves = LeavesOf(period)
    BY LeavesOfJoin DEF PoolInit
  <2> QED BY <2>1, LenProperties
<1>2. calls = <<>> /\ calls \in Seq({}) /\ DOMAIN calls = {}
  BY DEF PoolInit
<1>3. proofFiles \in [DOMAIN proofFiles -> BOOLEAN] /\ made = [x \in {} |-> 0] /\ damaged = [x \in {} |-> 0]
  BY DEF PoolInit
<1>4. Counts([x \in {} |-> 0]) /\ \A x : Count(x, [y \in {} |-> 0]) = 0
  BY DEF Counts, Count
<1> QED BY <1>1, <1>2, <1>3, <1>4
        DEF SoundPool, PoolTypeOK, AreCalls, CallsInOrder, UnderWayUnkept, MadeForKept

\* Leaves prove in order and what is kept is not made again of the same inputs,
\* whatever fails, is damaged or stops: the inductive invariant of a period's
\* proving.
THEOREM PoolSound == PoolSpec => []SoundPool
<1>1. SoundPool /\ [PoolNext]_poolVars => SoundPool'
  <2> SUFFICES ASSUME SoundPool, [PoolNext]_poolVars PROVE SoundPool'
    OBVIOUS
  <2>1. CASE StartFold \/ Stop
    BY <2>1, BeginStopSound
  <2>2. CASE LeafFailed \/ LeavesDone \/ Join \/ JoinFails
    BY <2>2, JoinStepSound
  <2>3. CASE \/ \E k \in Leaves : StartLeaf(k)
             \/ \E x \in Tasks : Witnessed(x[1], x[2]) \/ After(x[1], x[2]) \/ TaskFails(x[1], x[2])
    BY <2>3, LeafStepSound
  <2>4. CASE \E x \in Tasks : LeafProved(x[1], x[2])
    <3>1. PICK x \in Tasks : LeafProved(x[1], x[2])
      BY <2>4
    <3>2. x[1] \in DOMAIN calls /\ x[2] \in Leaves
      BY DEF Tasks
    <3> QED BY <3>1, <3>2, ProvedSound
  <2>5. CASE \E label \in DOMAIN proofFiles : Damage(label)
    BY <2>5, DamageSound
  <2>6. CASE UNCHANGED poolVars
    BY <2>6 DEF poolVars, SoundPool, PoolTypeOK, AreCalls, IsCall, CallsInOrder, InOrder, NoneProves, UnderWayUnkept,
                MadeForKept, Stored, Leaves
  <2> QED BY <2>1, <2>2, <2>3, <2>4, <2>5, <2>6 DEF PoolNext, Works, Fails
<1> QED BY InitSound, <1>1, PTL DEF PoolSpec

\* At most one member where any two are equal, and at most two where the members
\* are neighbours.
LEMMA FewMembers ==
  ASSUME NEW S
  PROVE  /\ (\A x, y \in S : x = y) => Cardinality(S) <= 1
         /\ S \subseteq Int /\ (\A x, y \in S : y < x => y = x - 1) => Cardinality(S) <= 2
<1>1. ASSUME \A x, y \in S : x = y PROVE Cardinality(S) <= 1
  <2>1. CASE S = {}
    BY <2>1, FS_EmptySet
  <2>2. CASE S # {}
    <3>1. PICK x : S = {x}
      BY <1>1, <2>2
    <3> QED BY <3>1, FS_Singleton
  <2> QED BY <2>1, <2>2
<1>2. ASSUME S \subseteq Int, \A x, y \in S : y < x => y = x - 1 PROVE Cardinality(S) <= 2
  <2>1. CASE \A x, y \in S : x = y
    <3>1. Cardinality(S) <= 1 /\ IsFiniteSet(S)
      <4>1. CASE S = {}
        BY <4>1, FS_EmptySet
      <4>2. CASE S # {}
        <5>1. PICK x : S = {x}
          BY <2>1, <4>2
        <5> QED BY <5>1, FS_Singleton
      <4> QED BY <4>1, <4>2
    <3>2. Cardinality(S) \in Nat
      BY <3>1, FS_CardinalityType
    <3> QED BY <3>1, <3>2
  <2>2. CASE \E x, y \in S : x # y
    <3>1. PICK x, y \in S : y < x
      <4>1. PICK x, y \in S : x # y
        BY <2>2
      <4>2. x \in Int /\ y \in Int
        BY <1>2
      <4>3. x < y \/ y < x
        BY <4>1, <4>2
      <4> QED BY <4>3
    <3>2. x \in Int /\ y \in Int /\ y = x - 1
      BY <1>2, <3>1
    <3>3. ASSUME NEW z \in S PROVE z = x \/ z = y
      <4>1. z \in Int
        BY <1>2
      <4>2. z < y => z = x - 1
        BY <1>2, <3>2, <4>1
      <4>3. x < z => y = z - 1
        BY <1>2, <3>2, <4>1
      <4>4. y < z => y = z - 1
        BY <1>2
      <4> QED BY <3>2, <4>1, <4>2, <4>3, <4>4
    <3>4. S = {x} \cup {y} /\ y \notin {x}
      <4>1. y # x
        BY <3>1, <3>2
      <4> QED BY <3>3, <4>1, Zenon
    <3>5. Cardinality({x}) = 1 /\ IsFiniteSet({x})
      BY FS_Singleton
    <3>6. Cardinality({x} \cup {y}) = Cardinality({x}) + 1
      BY <3>4, <3>5, FS_AddElement
    <3> QED BY <3>4, <3>5, <3>6
  <2> QED BY <2>1, <2>2
<1> QED BY <1>1, <1>2

\* fold's proofs are made one at a time across its calls, whatever it left
\* behind, and no call holds more than two witnesses.
THEOREM LeavesProveInTurn == PoolSpec => []OneProofAtATime
<1>1. ASSUME SoundPool PROVE OneProofAtATime
  <2>1. PoolTypeOK /\ CallsInOrder
    BY <1>1 DEF SoundPool
  <2>2. Len(calls) \in Nat /\ DOMAIN calls = 1..Len(calls) /\ Leaves \subseteq Int
    BY <2>1, CallNumbers
  <2>3. Cardinality({x \in Tasks : Task(x[1], x[2]) = "proving"}) <= 1
    <3> DEFINE S == {x \in Tasks : Task(x[1], x[2]) = "proving"}
    <3>1. ASSUME NEW x \in S
          PROVE  /\ x = <<x[1], x[2]>> /\ x[1] = Len(calls) /\ x[1] \in DOMAIN calls /\ x[2] \in Leaves
                 /\ calls[x[1]].task[x[2]] = "proving"
      <4>1. x = <<x[1], x[2]>> /\ x[1] \in DOMAIN calls /\ x[2] \in Leaves
            /\ calls[x[1]].task[x[2]] = "proving"
        BY DEF Tasks, Task
      <4>2. calls[x[1]].stage = "leaves"
        BY <2>1, <4>1 DEF CallsInOrder, NoneProves
      <4>3. ~(x[1] < Len(calls))
        BY <2>1, <4>1, <4>2 DEF CallsInOrder
      <4> QED BY <2>2, <4>1, <4>3
    <3>2. ASSUME NEW x \in S, NEW y \in S PROVE x = y
      <4> DEFINE j == x[2]
                 k == y[2]
                 call == calls[Len(calls)]
      <4>1. j \in Leaves /\ k \in Leaves /\ call.task[j] = "proving" /\ call.task[k] = "proving"
        BY <3>1
      <4>2. InOrder(call)
        <5>1. Len(calls) \in DOMAIN calls
          BY <3>1
        <5> QED BY <2>1, <5>1 DEF CallsInOrder
      <4>3. x = <<Len(calls), j>> /\ y = <<Len(calls), k>>
        BY <3>1
      <4> HIDE DEF j, k, call
      <4>4. ~(j < k) /\ ~(k < j)
        BY <4>1, <4>2 DEF InOrder
      <4>5. j = k
        BY <2>2, <4>1, <4>4
      <4> QED BY <4>3, <4>5
    <3> HIDE DEF S
    <3> QED BY <3>2, FewMembers DEF S
  <2>4. ASSUME NEW c \in DOMAIN calls
        PROVE  Cardinality({k \in Leaves : Task(c, k) \in {"witness", "waiting"}}) <= 2
    <3> DEFINE S == {k \in Leaves : Task(c, k) \in {"witness", "waiting"}}
               call == calls[c]
    <3>1. InOrder(call)
      BY <2>1 DEF CallsInOrder
    <3>2. S \subseteq Int /\ S \subseteq Leaves /\ \A k \in S : call.task[k] \in {"witness", "waiting"}
      BY <2>2 DEF Task
    <3> HIDE DEF S, call
    <3>3. ASSUME NEW x \in S, NEW y \in S, y < x PROVE y = x - 1
      <4>1. ~(y < x - 1)
        BY <3>1, <3>2 DEF InOrder
      <4>2. x \in Int /\ y \in Int
        BY <3>2
      <4> QED BY <3>3, <4>1, <4>2
    <3> QED BY <3>2, <3>3, FewMembers DEF S
  <2> QED BY <2>3, <2>4 DEF OneProofAtATime
<1> QED BY <1>1, PoolSound, PTL

\* A prover that stops resumes where it stood: of the same inputs no proof is made
\* again unless its kept file was damaged.
THEOREM ProvesAgainForDamage == PoolSpec => []ProvedOnce
<1>1. ASSUME SoundPool, NEW label \in DOMAIN made PROVE made[label] <= Count(label, damaged) + 1
  <2>1. Count(label, made) <= Count(label, damaged) + 1
    BY <1>1 DEF SoundPool, MadeForKept
  <2> QED BY <2>1 DEF Count
<1>2. SoundPool => ProvedOnce
  BY <1>1 DEF ProvedOnce
<1> QED BY <1>2, PoolSound, PTL

-----------------------------------------------------------------------------
\* A level whose nodes span a period's leaves in order, or none.
SpansLeaves(level) ==
  /\ Len(level) \in Nat /\ (level # <<>> => Len(level) > 0)
  /\ Len(level) > 0 =>
       /\ level[1][1] = 1 /\ level[Len(level)][2] = Len(leaves)
       /\ \A i \in 2..Len(level) : level[i][1] = level[i - 1][2] + 1

\* A period's leaves are those of leavesOf, and every call's level spans them.
LeavesKept ==
  /\ period \in Periods /\ leaves = LeavesOf(period)
  /\ \A c \in DOMAIN calls : SpansLeaves(calls[c].level)

\* The level above one that spans the leaves spans them: its nodes take the
\* spans two by two, and the last of an odd level as it is.
LEMMA UpSpans == ASSUME NEW level, SpansLeaves(level) PROVE SpansLeaves(Up(level))
<1> DEFINE n == Len(level)
           m == (n + 1) \div 2
           up == Up(level)
<1>1. n \in Nat /\ m \in Nat /\ (n = 0 => m = 0) /\ (n > 0 => m > 0)
      /\ (n = 2 * m \/ n = 2 * m - 1)
  <2>1. n \in Nat
    BY DEF SpansLeaves
  <2> HIDE DEF n
  <2> QED BY <2>1
<1>2. up = [i \in 1..m |-> IF 2 * i <= n THEN <<level[2 * i - 1][1], level[2 * i][2]>> ELSE level[2 * i - 1]]
  BY DEF Up
<1> HIDE DEF m, up
<1>3. Len(up) = m
  BY <1>1, <1>2
<1>4. CASE n = 0
  <2>1. m = 0 /\ up = <<>>
    BY <1>1, <1>2, <1>4
  <2> QED BY <1>3, <2>1 DEF SpansLeaves, up
<1>5. CASE n > 0
  <2>1. /\ level[1][1] = 1 /\ level[n][2] = Len(leaves)
        /\ \A i \in 2..n : level[i][1] = level[i - 1][2] + 1
    BY <1>5 DEF SpansLeaves
  <2> HIDE DEF n
  <2>2. \A i \in 1..m : /\ up[i][1] = level[2 * i - 1][1]
                        /\ up[i][2] = IF 2 * i <= n THEN level[2 * i][2] ELSE level[2 * i - 1][2]
    BY <1>2
  <2>3. up[1][1] = 1
    BY <1>1, <1>5, <2>1, <2>2
  <2>4. up[m][2] = Len(leaves)
    <3>1. m \in 1..m /\ (2 * m <= n => 2 * m = n) /\ (~(2 * m <= n) => 2 * m - 1 = n)
      BY <1>1, <1>5
    <3> QED BY <2>1, <2>2, <3>1
  <2>5. ASSUME NEW i \in 2..m PROVE up[i][1] = up[i - 1][2] + 1
    <3>1. i \in 1..m /\ i - 1 \in 1..m /\ 2 * (i - 1) <= n /\ 2 * i - 1 \in 2..n /\ (2 * i - 1) - 1 = 2 * (i - 1)
      BY <1>1
    <3> QED BY <2>1, <2>2, <3>1
  <2> QED BY <1>1, <1>3, <1>5, <2>3, <2>4, <2>5 DEF SpansLeaves, up
<1> QED BY <1>1, <1>4, <1>5

\* A call climbs to the level it has or the one above.
LEMMA ClimbedSpans ==
  ASSUME NEW call, IsCall(call), SpansLeaves(call.level)
  PROVE  SpansLeaves(Climbed(call).level)
<1> DEFINE up == Up(call.level)
           proofs == UpProofs(call)
           stage == IF Len(up) = 1 THEN "fold" ELSE "nodes"
<1>1. CASE Climbed(call) = call
  BY <1>1
<1>2. CASE Climbed(call) = [call EXCEPT !.stage = "fold"]
  BY <1>2 DEF IsCall
<1>3. CASE Climbed(call) = [call EXCEPT !.level = up, !.proofs = proofs, !.done = <<>>, !.stage = stage]
  <2>1. SpansLeaves(up)
    BY UpSpans
  <2> HIDE DEF up, proofs, stage
  <2>2. [call EXCEPT !.level = up, !.proofs = proofs, !.done = <<>>, !.stage = stage].level = up
    BY DEF IsCall
  <2> QED BY <1>3, <2>1, <2>2
<1> QED BY <1>1, <1>2, <1>3 DEF Climbed

\* The leaves' own level.
LEMMA LeavesLevelSpans ==
  ASSUME Len(leaves) \in Nat, Len(leaves) > 0
  PROVE  SpansLeaves([k \in Leaves |-> <<k, k>>])
<1> DEFINE n == Len(leaves)
           level == [k \in 1..n |-> <<k, k>>]
<1>1. Len(level) = n /\ n \in Nat /\ n > 0
  OBVIOUS
<1>2. \A k \in 1..n : level[k][1] = k /\ level[k][2] = k
  OBVIOUS
<1>3. level = [k \in Leaves |-> <<k, k>>]
  BY DEF Leaves
<1> HIDE DEF level
<1>4. \A i \in 2..n : i \in 1..n /\ i - 1 \in 1..n /\ i = (i - 1) + 1
  BY <1>1
<1>5. SpansLeaves(level)
  <2> HIDE DEF n
  <2> QED BY <1>1, <1>2, <1>4 DEF SpansLeaves, n
<1> QED BY <1>3, <1>5

\* A step that leaves every call's level, or gives one call another that spans
\* the leaves.
LEMMA LevelMoved ==
  ASSUME PoolTypeOK, LeavesKept, UNCHANGED <<period, leaves>>,
         NEW c \in DOMAIN calls, NEW e, SpansLeaves(e.level), calls' = [calls EXCEPT ![c] = e]
  PROVE  LeavesKept'
<1>1. DOMAIN calls' = DOMAIN calls /\ calls'[c] = e /\ \A d \in DOMAIN calls : d # c => calls'[d] = calls[d]
  BY CallReplaced
<1>2. \A d \in DOMAIN calls : SpansLeaves(calls'[d].level)
  BY <1>1 DEF LeavesKept
<1> QED BY <1>1, <1>2 DEF LeavesKept, SpansLeaves

\* A call whose task or stage changed has the level it had.
LEMMA LevelStays ==
  ASSUME PoolTypeOK, LeavesKept, UNCHANGED <<period, leaves>>, NEW c \in DOMAIN calls, NEW x,
         \/ \E k : Becomes(c, k, x)
         \/ calls' = [calls EXCEPT ![c].stage = x]
  PROVE  LeavesKept'
<1>1. IsCall(calls[c]) /\ SpansLeaves(calls[c].level)
  BY DEF PoolTypeOK, AreCalls, LeavesKept
<1>2. CASE \E k : Becomes(c, k, x)
  <2>1. PICK k : Becomes(c, k, x)
    BY <1>2
  <2> DEFINE e == [calls[c] EXCEPT !.task[k] = x, !.proofs[k] = InHand(c, k, x)]
  <2>2. e.level = calls[c].level
    BY <1>1 DEF IsCall
  <2>3. calls' = [calls EXCEPT ![c] = e]
    BY <2>1 DEF Becomes
  <2> HIDE DEF e
  <2> QED BY <1>1, <2>2, <2>3, LevelMoved
<1>3. CASE calls' = [calls EXCEPT ![c].stage = x]
  <2> DEFINE e == [calls[c] EXCEPT !.stage = x]
  <2>1. e.level = calls[c].level
    BY <1>1 DEF IsCall
  <2>2. calls' = [calls EXCEPT ![c] = e]
    BY <1>3
  <2> HIDE DEF e
  <2> QED BY <1>1, <2>1, <2>2, LevelMoved
<1> QED BY <1>2, <1>3

\* Each step keeps the leaves and what their levels span.
LEMMA StepKeepsLeaves ==
  ASSUME PoolTypeOK, LeavesKept, PoolNext
  PROVE  LeavesKept'
<1>0. /\ UNCHANGED <<period, leaves>> /\ Len(calls) \in Nat /\ DOMAIN calls = 1..Len(calls)
      /\ Live => Len(calls) \in DOMAIN calls
  <2>1. UNCHANGED <<period, leaves>>
    BY DEF PoolNext, Works, Fails, StartFold, LeafFailed, LeavesDone, Join, StartLeaf, Witnessed, After, LeafProved,
           JoinFails, Stop, TaskFails, Damage
  <2> QED BY <2>1, CallNumbers
<1>1. CASE StartFold
  <2>1. calls' = Append(calls, NewCall) /\ NewCall.level = <<>>
    BY <1>1 DEF StartFold, NewCall
  <2>2. PICK S : calls \in Seq(S)
    BY DEF PoolTypeOK
  <2>3. calls \in Seq(S \cup {NewCall}) /\ NewCall \in S \cup {NewCall}
    BY <2>2, SeqMonotonic
  <2>4. /\ calls' \in Seq(S \cup {NewCall}) /\ Len(calls') = Len(calls) + 1
        /\ calls'[Len(calls) + 1] = NewCall /\ \A c \in 1..Len(calls) : calls'[c] = calls[c]
    <3> HIDE DEF NewCall
    <3> QED BY <2>1, <2>3, AppendProperties
  <2>5. DOMAIN calls' = 1..Len(calls) + 1
    BY <2>4, LenProperties
  <2>6. SpansLeaves(<<>>)
    BY DEF SpansLeaves
  <2>7. ASSUME NEW c \in DOMAIN calls' PROVE SpansLeaves(calls'[c].level)
    <3>1. CASE c = Len(calls) + 1
      BY <2>1, <2>4, <2>6, <3>1
    <3>2. CASE c # Len(calls) + 1
      <4>1. c \in 1..Len(calls)
        BY <1>0, <2>5, <3>2
      <4> QED BY <1>0, <2>4, <4>1 DEF LeavesKept
    <3> QED BY <3>1, <3>2
  <2> QED BY <1>0, <2>7 DEF LeavesKept, SpansLeaves
<1>2. CASE \/ \E k \in Leaves : StartLeaf(k)
           \/ \E x \in Tasks : \/ Witnessed(x[1], x[2]) \/ After(x[1], x[2])
                               \/ LeafProved(x[1], x[2]) \/ TaskFails(x[1], x[2])
  <2>1. \E c \in DOMAIN calls, k \in Leaves : \E s : Becomes(c, k, s)
    <3>1. CASE \E k \in Leaves : StartLeaf(k)
      BY <1>0, <3>1 DEF StartLeaf
    <3>2. CASE \E x \in Tasks : \/ Witnessed(x[1], x[2]) \/ After(x[1], x[2])
                                \/ LeafProved(x[1], x[2]) \/ TaskFails(x[1], x[2])
      <4>1. PICK x \in Tasks : \/ Witnessed(x[1], x[2]) \/ After(x[1], x[2])
                               \/ LeafProved(x[1], x[2]) \/ TaskFails(x[1], x[2])
        BY <3>2
      <4>2. x[1] \in DOMAIN calls /\ x[2] \in Leaves
        BY DEF Tasks
      <4> QED BY <4>1, <4>2 DEF Witnessed, After, LeafProved, TaskFails
    <3> QED BY <1>2, <3>1, <3>2
  <2> QED BY <1>0, <2>1, LevelStays
<1>3. CASE LeafFailed \/ JoinFails
  <2>1. Len(calls) \in DOMAIN calls /\ calls' = [calls EXCEPT ![Len(calls)].stage = "failed"]
    BY <1>0, <1>3 DEF LeafFailed, JoinFails
  <2> QED BY <1>0, <2>1, LevelStays
<1>4. CASE LeavesDone
  <2> DEFINE c == Len(calls)
             level == [k \in Leaves |-> <<k, k>>]
             begun == [calls[c] EXCEPT !.stage = "nodes", !.level = level]
  <2>1. c \in DOMAIN calls /\ IsCall(calls[c]) /\ calls' = [calls EXCEPT ![c] = Climbed(begun)]
    BY <1>0, <1>4 DEF LeavesDone, PoolTypeOK, AreCalls
  <2>2. SpansLeaves(level)
    <3>1. leaves \in Seq(ALeaf) /\ leaves # <<>>
      BY LeavesOfJoin DEF LeavesKept
    <3>2. Len(leaves) \in Nat /\ Len(leaves) > 0
      BY <3>1, LenProperties, EmptySeq
    <3> QED BY <3>2, LeavesLevelSpans
  <2> HIDE DEF c, level
  <2>3. IsCall(begun)
    BY <2>1, CallStays
  <2>4. begun.level = level
    BY <2>1 DEF IsCall
  <2> HIDE DEF begun
  <2>5. SpansLeaves(Climbed(begun).level)
    BY <2>2, <2>3, <2>4, ClimbedSpans
  <2> QED BY <1>0, <2>1, <2>5, LevelMoved
<1>5. CASE Join
  <2> DEFINE c == Len(calls)
             call == calls[c]
             next == [call EXCEPT !.done = Append(@, Proof(Label(call), made'))]
             sealed == [call EXCEPT !.stage = "sealed"]
  <2>1. /\ c \in DOMAIN calls /\ IsCall(call) /\ SpansLeaves(call.level)
        /\ calls' = [calls EXCEPT ![c] = IF call.stage = "fold" THEN sealed ELSE Climbed(next)]
    BY <1>0, <1>5 DEF Join, PoolTypeOK, AreCalls, LeavesKept
  <2> HIDE DEF c, call
  <2>2. sealed.level = call.level /\ next.level = call.level
    BY <2>1 DEF IsCall
  <2>3. IsCall(next)
    <3> DEFINE done == Append(call.done, Proof(Label(call), made'))
    <3>1. next = [call EXCEPT !.done = done]
      BY <2>1 DEF IsCall
    <3> HIDE DEF next, done
    <3> QED BY <2>1, <3>1, CallStays
  <2> HIDE DEF next, sealed
  <2>4. SpansLeaves(Climbed(next).level)
    BY <2>1, <2>2, <2>3, ClimbedSpans
  <2> DEFINE e == IF call.stage = "fold" THEN sealed ELSE Climbed(next)
  <2>5. SpansLeaves(e.level) /\ calls' = [calls EXCEPT ![c] = e]
    BY <2>1, <2>2, <2>4
  <2> HIDE DEF e
  <2> QED BY <1>0, <2>1, <2>5, LevelMoved
<1>6. CASE Stop
  <2>1. calls' = <<>> /\ DOMAIN calls' = {}
    BY <1>6 DEF Stop
  <2> QED BY <1>0, <2>1 DEF LeavesKept
<1>7. CASE \E label \in DOMAIN proofFiles : Damage(label)
  <2>1. calls' = calls
    BY <1>7 DEF Damage
  <2> QED BY <1>0, <2>1 DEF LeavesKept, SpansLeaves
<1> QED BY <1>1, <1>2, <1>3, <1>4, <1>5, <1>6, <1>7 DEF PoolNext, Works, Fails

\* leavesOf and fold's levels: whatever leaves a period is cut into, and
\* through every failure, stop and repeated call, its leaves join from its
\* start to its end and each level of nodes spans them in order.
THEOREM LeavesSpanThePeriod == PoolSpec => []LeavesSpan
<1>1. PoolInit => LeavesKept
  BY DEF PoolInit, LeavesKept
<1>2. SoundPool /\ LeavesKept /\ [PoolNext]_poolVars => LeavesKept'
  <2>1. CASE UNCHANGED poolVars
    BY <2>1 DEF poolVars, LeavesKept, SpansLeaves
  <2> QED BY <2>1, StepKeepsLeaves DEF SoundPool
<1>3. SoundPool /\ LeavesKept => LeavesSpan
  <2> SUFFICES ASSUME SoundPool, LeavesKept PROVE LeavesSpan
    OBVIOUS
  <2>1. /\ leaves \in Seq(ALeaf) /\ leaves # <<>> /\ LeavesJoin(leaves) /\ Last(leaves).after = End(period)
    BY LeavesOfJoin DEF LeavesKept
  <2>2. \A c \in DOMAIN calls : LET level == calls[c].level IN
           level # <<>> => level[1][1] = 1 /\ Last(level)[2] = Len(leaves)
                           /\ \A i \in 2 .. Len(level) : level[i][1] = level[i - 1][2] + 1
    BY DEF LeavesKept, SpansLeaves, Last
  <2> QED BY <2>1, <2>2 DEF LeavesSpan, Leaves, LeavesJoin
<1> QED BY <1>1, <1>2, <1>3, PoolSound, PTL DEF PoolSpec

(***************************************************************************)
(* A replica of folds.                                                     *)
(***************************************************************************)
\* A fold, kept, offered or served, and what stands for its absence.
AnyFold == [end : Nat, is : {"none", "unread", "failed", "sound", "unsound", "refused"}]

Turns == {"rest", "kept", "peers", "offers", "prove"}

ReplicaTypeOK ==
  /\ top \in Nat
  /\ file \in AnyFold /\ kept \in AnyFold
  /\ evidence \in BOOLEAN /\ stopped \in BOOLEAN /\ proving \in BOOLEAN
  /\ server \in [ahead : Nat, pending : Nat, fold : AnyFold, served : Nat]
  /\ turn \in Turns
  /\ offers \subseteq [peer : Peers, fold : AnyFold]

\* A proof runs beside rounds only, and over the period it is of.
ProofRuns == proving => turn = "rest" /\ server.pending # 0

\* The inductive invariant.
SoundReplica == ReplicaTypeOK /\ ProofRuns /\ FoldsSound

-----------------------------------------------------------------------------
\* The folds an answer may hold, and the marks of none.
LEMMA FoldTypes ==
  /\ Folds \subseteq AnyFold
  /\ NoFold \in AnyFold /\ Unread \in AnyFold /\ Failed \in AnyFold
  /\ NoFold.end = 0 /\ NoFold.is = "none"
BY FoldsAssumption DEF Folds, AnyFold, NoFold, Unread, Failed

\* A server that took a sound fold serves it.
LEMMA TakenServes ==
  ASSUME NEW s, NEW fold \in AnyFold, fold.is = "sound"
  PROVE  LET t == Taken(s, fold)
         IN /\ t \in [ahead : Nat, pending : Nat, fold : AnyFold, served : Nat]
            /\ t.served = t.fold.end /\ t.fold.is = "sound"
            /\ t.pending = 0 /\ t.ahead = t.fold.end
BY DEF Taken, AnyFold

\* A fresh server serves the set's start.
LEMMA FreshServes ==
  /\ Fresh \in [ahead : Nat, pending : Nat, fold : AnyFold, served : Nat]
  /\ Fresh.served = Fresh.fold.end /\ Fresh.fold.is = "none"
  /\ Fresh.pending = 0 /\ Fresh.ahead = Fresh.fold.end
BY FoldTypes DEF Fresh

\* The next period is cut from the latest fold on.
LEMMA PeriodFromFold ==
  ASSUME SoundReplica, server.pending = 0, server.ahead < top
  PROVE  LET end == Min({top, server.ahead + Period})
         IN end \in Nat /\ end > server.fold.end
<1>1. top \in Nat /\ server.ahead \in Nat /\ Period \in Nat /\ Period >= 1
  BY FoldsAssumption DEF SoundReplica, ReplicaTypeOK
<1> DEFINE S == {top, server.ahead + Period}
<1>2. \E x \in S : \A y \in S : x <= y
  BY <1>1
<1>3. Min(S) \in S
  BY <1>2 DEF Min
<1>4. server.ahead = server.fold.end
  BY DEF SoundReplica, FoldsSound, ServedAtLatestFold
<1> QED BY <1>1, <1>3, <1>4

-----------------------------------------------------------------------------
\* What is fresh or taken is served, whatever else the step does.
LEMMA ServerKept ==
  ASSUME SoundReplica,
         \/ server' = server
         \/ server' = Fresh
         \/ \E fold \in AnyFold : fold.is = "sound" /\ server' = Taken(server, fold)
  PROVE  /\ server' \in [ahead : Nat, pending : Nat, fold : AnyFold, served : Nat]
         /\ ServedAtLatestFold'
<1>1. CASE server' = server
  BY <1>1 DEF SoundReplica, ReplicaTypeOK, FoldsSound, ServedAtLatestFold
<1>2. CASE server' = Fresh
  BY <1>2, FreshServes DEF ServedAtLatestFold
<1>3. CASE \E fold \in AnyFold : fold.is = "sound" /\ server' = Taken(server, fold)
  BY <1>3, TakenServes DEF ServedAtLatestFold
<1> QED BY <1>1, <1>2, <1>3

\* A turn's steps up to the peers' answers.
LEMMA KeptSound ==
  ASSUME SoundReplica, Begin \/ ReadKept \/ KeptWaits \/ AdoptKept \/ PeersDone
  PROVE  SoundReplica'
<1>1. ReplicaTypeOK /\ ProofRuns /\ ServedAtLatestFold /\ StopsForGood
  BY DEF SoundReplica, FoldsSound
<1>2. /\ UNCHANGED <<top, file, evidence, stopped, offers, proving>>
      /\ ~proving /\ ~stopped
  BY <1>1 DEF Begin, ReadKept, KeptWaits, AdoptKept, PeersDone, ProofRuns, StopsForGood
<1>3. turn' \in Turns /\ kept' \in AnyFold
  BY <1>1, FoldTypes DEF Begin, ReadKept, KeptWaits, AdoptKept, PeersDone, Turns, ReplicaTypeOK
<1>4. \/ server' = server
      \/ server' = Fresh
      \/ \E fold \in AnyFold : fold.is = "sound" /\ server' = Taken(server, fold)
  BY <1>1 DEF Begin, ReadKept, KeptWaits, AdoptKept, PeersDone, Replaced, ReplicaTypeOK
<1>5. ServedAtLatestFold' /\ ReplicaTypeOK'
  BY <1>1, <1>2, <1>3, <1>4, ServerKept DEF ReplicaTypeOK
<1>6. ProofRuns' /\ StopsForGood'
  BY <1>1, <1>2 DEF ProofRuns, StopsForGood
<1> QED BY <1>5, <1>6 DEF SoundReplica, FoldsSound

\* The peers' answers and what becomes of each.
LEMMA OffersSound ==
  ASSUME SoundReplica,
         \/ AskPeers
         \/ \E offer \in offers : Take(offer) \/ RowsFail(offer) \/ Refuse(offer) \/ Unverifiable(offer)
  PROVE  SoundReplica'
<1>1. ReplicaTypeOK /\ ProofRuns /\ ServedAtLatestFold /\ StopsForGood
  BY DEF SoundReplica, FoldsSound
<1>2. /\ UNCHANGED <<top, evidence, stopped, proving>>
      /\ ~proving /\ ~stopped /\ turn' \in Turns
  BY <1>1 DEF AskPeers, Take, RowsFail, Refuse, Unverifiable, Highest, ProofRuns, StopsForGood, Turns
<1>3. offers' \subseteq [peer : Peers, fold : AnyFold]
  <2>1. CASE AskPeers
    <3>1. PICK answers \in [Peers \ silent -> Folds \cup {NoFold, Failed}] :
            /\ silent' = silent \cup {p \in Peers \ silent : answers[p] = Failed}
            /\ offers' = {[peer |-> p, fold |-> answers[p]] :
                            p \in {q \in Peers \ silent' : answers[q].end \in Floor + 1 .. top}}
      BY <2>1 DEF AskPeers
    <3>2. \A p \in Peers \ silent' : p \in Peers \ silent
      BY <3>1
    <3>3. \A p \in Peers \ silent : answers[p] \in AnyFold
      BY FoldTypes
    <3> QED BY <3>1, <3>2, <3>3
  <2>2. CASE \E offer \in offers : Take(offer) \/ RowsFail(offer) \/ Refuse(offer) \/ Unverifiable(offer)
    <3>1. offers' \subseteq offers
      BY <2>2 DEF Take, RowsFail, Refuse, Unverifiable
    <3> QED BY <1>1, <3>1 DEF ReplicaTypeOK
  <2> QED BY <2>1, <2>2
<1>4. /\ kept' \in AnyFold /\ file' \in AnyFold
      /\ \/ server' = server
         \/ server' = Fresh
         \/ \E fold \in AnyFold : fold.is = "sound" /\ server' = Taken(server, fold)
  <2>1. CASE AskPeers
    BY <1>1, <2>1 DEF AskPeers, ReplicaTypeOK
  <2>2. CASE \E offer \in offers : Take(offer) \/ RowsFail(offer) \/ Refuse(offer) \/ Unverifiable(offer)
    <3>1. PICK offer \in offers : Take(offer) \/ RowsFail(offer) \/ Refuse(offer) \/ Unverifiable(offer)
      BY <2>2
    <3>2. offer.fold \in AnyFold
      BY <1>1 DEF ReplicaTypeOK
    <3>3. CASE Take(offer)
      BY <1>1, <3>2, <3>3 DEF Take, Kept, ReplicaTypeOK
    <3>4. CASE RowsFail(offer)
      BY <1>1, <3>4, FoldTypes DEF RowsFail, Replaced, ReplicaTypeOK
    <3>5. CASE Refuse(offer) \/ Unverifiable(offer)
      BY <1>1, <3>5 DEF Refuse, Unverifiable, ReplicaTypeOK
    <3> QED BY <3>1, <3>3, <3>4, <3>5
  <2> QED BY <2>1, <2>2
<1>5. ServedAtLatestFold' /\ ReplicaTypeOK'
  BY <1>1, <1>2, <1>3, <1>4, ServerKept DEF ReplicaTypeOK
<1>6. ProofRuns' /\ StopsForGood'
  BY <1>1, <1>2 DEF ProofRuns, StopsForGood
<1> QED BY <1>5, <1>6 DEF SoundReplica, FoldsSound

\* A disagreement stops the set, with its evidence written or not.
LEMMA DisagreementSound ==
  ASSUME SoundReplica, KeptDisagrees \/ \E offer \in offers : OfferDisagrees(offer)
  PROVE  SoundReplica'
<1>1. ReplicaTypeOK /\ ProofRuns /\ ServedAtLatestFold /\ StopsForGood
  BY DEF SoundReplica, FoldsSound
<1>2. /\ UNCHANGED <<server, top, kept, proving>> /\ ~proving
      /\ stopped' = TRUE /\ turn' = "rest" /\ offers' = {}
      /\ evidence' \in BOOLEAN /\ file' \in AnyFold
  BY <1>1, FoldTypes DEF KeptDisagrees, OfferDisagrees, Disagrees, Highest, ProofRuns, ReplicaTypeOK
<1>3. ReplicaTypeOK' /\ ServedAtLatestFold'
  BY <1>1, <1>2 DEF ReplicaTypeOK, ServedAtLatestFold, Turns
<1>4. ProofRuns' /\ StopsForGood'
  BY <1>2 DEF ProofRuns, StopsForGood
<1> QED BY <1>3, <1>4 DEF SoundReplica, FoldsSound

\* A period is proved after the turn that cut it, and sealed or left pending.
LEMMA PeriodSound ==
  ASSUME SoundReplica, Prove \/ NothingToProve \/ Proved \/ ProveFails
  PROVE  SoundReplica'
<1>1. ReplicaTypeOK /\ ProofRuns /\ ServedAtLatestFold /\ StopsForGood
  BY DEF SoundReplica, FoldsSound
<1>2. CASE Prove
  <2>1. /\ UNCHANGED <<top, file, evidence, kept, stopped, offers>>
        /\ ~stopped /\ proving' = TRUE /\ turn' = "rest"
    BY <1>1, <1>2 DEF Prove, StopsForGood
  <2>2. /\ server' \in [ahead : Nat, pending : Nat, fold : AnyFold, served : Nat]
        /\ ServedAtLatestFold' /\ server'.pending # 0
    <3>1. CASE server.pending # 0
      BY <1>1, <1>2, <3>1 DEF Prove, ReplicaTypeOK, ServedAtLatestFold
    <3>2. CASE server.pending = 0
      <4> DEFINE end == Min({top, server.ahead + Period})
      <4>1. server' = [server EXCEPT !.ahead = end, !.pending = end]
        BY <1>2, <3>2 DEF Prove, Appended
      <4>2. end \in Nat /\ end > server.fold.end
        BY <1>2, <3>2, PeriodFromFold DEF Prove
      <4> HIDE DEF end
      <4>3. server.fold.end \in Nat
        BY <1>1 DEF ReplicaTypeOK, AnyFold
      <4>4. /\ server' \in [ahead : Nat, pending : Nat, fold : AnyFold, served : Nat]
            /\ server'.ahead = end /\ server'.pending = end /\ server'.fold = server.fold
            /\ server'.served = server.served
        BY <1>1, <4>1, <4>2 DEF ReplicaTypeOK
      <4> QED BY <1>1, <4>2, <4>3, <4>4 DEF ServedAtLatestFold
    <3> QED BY <3>1, <3>2
  <2>3. ReplicaTypeOK' /\ ProofRuns' /\ StopsForGood'
    BY <1>1, <2>1, <2>2 DEF ReplicaTypeOK, ProofRuns, StopsForGood, Turns
  <2> QED BY <2>2, <2>3 DEF SoundReplica, FoldsSound
<1>3. CASE NothingToProve
  <2>1. UNCHANGED <<top, file, evidence, kept, stopped, offers, server, proving>> /\ turn' = "rest"
    BY <1>3 DEF NothingToProve
  <2> QED BY <1>1, <2>1 DEF SoundReplica, FoldsSound, ReplicaTypeOK, ProofRuns, ServedAtLatestFold, StopsForGood, Turns
<1>4. CASE Proved
  <2> DEFINE fold == [end |-> server.pending, is |-> "sound"]
  <2>1. /\ UNCHANGED <<top, evidence, kept, stopped, offers, turn>>
        /\ proving' = FALSE /\ server' = Taken(server, fold)
        /\ file' \in {file, server'.fold}
    BY <1>4 DEF Proved, Sealed, Kept
  <2>2. fold \in AnyFold /\ fold.is = "sound"
    BY <1>1 DEF ReplicaTypeOK, AnyFold
  <2>3. /\ server' \in [ahead : Nat, pending : Nat, fold : AnyFold, served : Nat]
        /\ ServedAtLatestFold'
    BY <2>1, <2>2, ServerKept
  <2>4. file' \in AnyFold
    BY <1>1, <2>1, <2>3 DEF ReplicaTypeOK
  <2>5. ReplicaTypeOK' /\ ProofRuns' /\ StopsForGood'
    BY <1>1, <2>1, <2>3, <2>4 DEF ReplicaTypeOK, ProofRuns, StopsForGood
  <2> QED BY <2>3, <2>5 DEF SoundReplica, FoldsSound
<1>5. CASE ProveFails
  <2>1. UNCHANGED <<top, file, evidence, kept, stopped, offers, server, turn>> /\ proving' = FALSE
    BY <1>5 DEF ProveFails
  <2> QED BY <1>1, <2>1 DEF SoundReplica, FoldsSound, ReplicaTypeOK, ProofRuns, ServedAtLatestFold, StopsForGood
<1> QED BY <1>2, <1>3, <1>4, <1>5

\* A restart looks for the evidence before anything is served.
LEMMA RestartSound ==
  ASSUME SoundReplica, Restart
  PROVE  SoundReplica'
<1>1. ReplicaTypeOK /\ ProofRuns /\ ServedAtLatestFold /\ StopsForGood
  BY DEF SoundReplica, FoldsSound
<1>2. /\ server' = Fresh /\ kept' = Unread /\ stopped' = evidence /\ evidence' = evidence
      /\ turn' = "rest" /\ offers' = {} /\ proving' = FALSE /\ top' \in Nat /\ file' = file
  BY <1>1 DEF Restart, Started, ReplicaTypeOK
<1>3. ReplicaTypeOK' /\ ServedAtLatestFold'
  BY <1>1, <1>2, FoldTypes, ServerKept DEF ReplicaTypeOK, Turns
<1>4. ProofRuns' /\ StopsForGood'
  BY <1>2 DEF ProofRuns, StopsForGood
<1> QED BY <1>3, <1>4 DEF SoundReplica, FoldsSound

\* For every set of peers, height and period, and any faults and restarts, the
\* replica keeps its invariant.
THEOREM ReplicaSound == ReplicaSpec => []SoundReplica
<1>1. ReplicaInit => SoundReplica
  <2> SUFFICES ASSUME ReplicaInit PROVE SoundReplica
    OBVIOUS
  <2>1. file \in AnyFold
    BY FoldTypes DEF ReplicaInit, AnyFold
  <2>2. ReplicaTypeOK /\ ServedAtLatestFold
    BY <2>1, FoldTypes, FreshServes DEF ReplicaInit, ReplicaTypeOK, ServedAtLatestFold, Turns
  <2> QED BY <2>2 DEF ReplicaInit, SoundReplica, FoldsSound, ProofRuns, StopsForGood
<1>2. SoundReplica /\ [ReplicaNext]_replicaVars => SoundReplica'
  <2> SUFFICES ASSUME SoundReplica, [ReplicaNext]_replicaVars PROVE SoundReplica'
    OBVIOUS
  <2>1. CASE Turn
    BY <2>1, KeptSound, OffersSound, DisagreementSound, PeriodSound DEF Turn
  <2>2. CASE Proved \/ ProveFails
    BY <2>2, PeriodSound
  <2>3. CASE Restart
    BY <2>3, RestartSound
  <2>4. CASE Rested \/ Grow \/ \E p \in Peers : AskedAgain(p)
    BY <2>4 DEF Rested, Grow, AskedAgain, process, SoundReplica, FoldsSound, ReplicaTypeOK, ProofRuns,
       ServedAtLatestFold, StopsForGood
  <2>5. CASE UNCHANGED replicaVars
    BY <2>5 DEF replicaVars, process, SoundReplica, FoldsSound, ReplicaTypeOK, ProofRuns, ServedAtLatestFold, StopsForGood
  <2> QED BY <2>1, <2>2, <2>3, <2>4, <2>5 DEF ReplicaNext
<1> QED BY <1>1, <1>2, PTL DEF ReplicaSpec

\* A replica serves its latest fold only, one its own view bears out, and from a
\* disagreement on serves and proves nothing, through every restart that finds
\* the evidence (exhaustionOver and the map server of cli/venue.ts).
THEOREM FoldsAreSound == ReplicaSpec => []FoldsSound
<1>1. SoundReplica => FoldsSound
  BY DEF SoundReplica
<1> QED BY <1>1, ReplicaSound, PTL
=============================================================================
