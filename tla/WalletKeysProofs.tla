-------------------------- MODULE WalletKeysProofs --------------------------
(***************************************************************************)
(* Proofs about the owner keys of a seed (WalletKeys), for any look-ahead, *)
(* any minimal window and any number of copies, backups, restorations,     *)
(* payments and outputs.  First the windows and what the restoration rule  *)
(* reaches, then what a read of a history finds when no gap of it is wider *)
(* than the look-ahead, then the invariant action by action.               *)
(***************************************************************************)
EXTENDS WalletKeys, FiniteSetTheorems, SequenceTheorems, WellFoundedInduction, TLAPS

USE KeysAssumption

\* A property of the counts 0 to n that 0 has and each passes to the next.
LEMMA CountsOn ==
  ASSUME NEW n \in Nat, NEW S, 0 \in S, \A k \in 0..n - 1 : k \in S => k + 1 \in S
  PROVE  0..n \subseteq S
<1> DEFINE Bad == {k \in 0..n : k \notin S}
<1>1. SUFFICES ASSUME Bad # {} PROVE FALSE
  OBVIOUS
<1>2. Bad \subseteq Nat
  OBVIOUS
<1>3. PICK x \in Bad : \A y \in Bad : ~(y < x)
  <2> HIDE DEF Bad
  <2>1. PICK x \in Bad : \A y \in Bad : ~(<<y, x>> \in OpToRel(<, Nat))
    BY <1>1, <1>2, WFMin, NatLessThanWellFounded
  <2> QED BY <1>2, <2>1 DEF OpToRel
<1>4. x \in 0..n /\ x \notin S
  OBVIOUS
<1>5. x - 1 \in 0..n - 1 /\ (x - 1) + 1 = x /\ x - 1 < x
  BY <1>4
<1>6. x - 1 \in S
  BY <1>3, <1>5
<1> QED BY <1>4, <1>5, <1>6

\* A set of naturals that is not empty has a least member, and Min is it.
LEMMA LeastIs ==
  ASSUME NEW S, S \subseteq Nat, S # {}
  PROVE  Min(S) \in S /\ \A y \in S : Min(S) <= y
<1>1. PICK x \in S : \A y \in S : ~(y < x)
  <2>1. PICK x \in S : \A y \in S : ~(<<y, x>> \in OpToRel(<, Nat))
    BY WFMin, NatLessThanWellFounded
  <2> QED BY <2>1 DEF OpToRel
<1>2. \A y \in S : x <= y
  <2> SUFFICES ASSUME NEW y \in S PROVE x <= y
    OBVIOUS
  <2> QED BY <1>1
<1> QED BY <1>1, <1>2 DEF Min

\* A set of integers up to a bound that is not empty has a largest member, and Max is it.
LEMMA LargestIs ==
  ASSUME NEW n \in Int, NEW S, S # {}, \A x \in S : x \in Int /\ x <= n
  PROVE  Max(S) \in S /\ \A y \in S : y <= Max(S)
<1> DEFINE T == {n - x : x \in S}
<1>1. T \subseteq Nat /\ T # {}
  OBVIOUS
<1>2. Min(T) \in T /\ \A y \in T : Min(T) <= y
  <2> HIDE DEF T
  <2> QED BY <1>1, LeastIs
<1>3. PICK t \in T : \A y \in T : t <= y
  <2> HIDE DEF T
  <2> QED BY <1>2
<1>4. PICK x \in S : t = n - x
  OBVIOUS
<1>5. \A y \in S : y <= x
  <2> SUFFICES ASSUME NEW y \in S PROVE y <= x
    OBVIOUS
  <2>1. n - x <= n - y
    BY <1>3, <1>4
  <2> QED BY <2>1
<1>6. \E z \in S : \A y \in S : z >= y
  BY <1>5
<1>7. Max(S) \in S /\ \A y \in S : Max(S) >= y
  BY <1>6 DEF Max
<1> QED BY <1>7

-----------------------------------------------------------------------------
\* The windows.

Doublings == MaxKey + LookAhead

\* Each doubling of the minimal window is larger than its count.
LEMMA DoubledGrows ==
  /\ Doublings \in Nat
  /\ \A i \in 0..Doublings : Doubled[i] \in Nat /\ Doubled[i] > i
<1>1. LookAhead \in Nat /\ LookAhead > 0 /\ MinWindow \in Nat /\ MinWindow > 0
  OBVIOUS
<1>2. Doublings \in Nat
  BY <1>1 DEF Doublings
<1>3. Doubled = [i \in 0..Doublings |-> IF i = 0 THEN MinWindow ELSE 2 * Doubled[i - 1]]
  <2> DEFINE D == 0..Doublings
             Good(f) == f = [i \in D |-> IF i = 0 THEN MinWindow ELSE 2 * f[i - 1]]
             S == {k \in Nat : \E f : f = [i \in 0..k |-> IF i = 0 THEN MinWindow ELSE 2 * f[i - 1]]}
  <2>1. 0 \in S
    <3>1. [i \in 0..0 |-> MinWindow] = [i \in 0..0 |-> IF i = 0 THEN MinWindow ELSE 2 * [j \in 0..0 |-> MinWindow][i - 1]]
      OBVIOUS
    <3> QED BY <3>1
  <2>2. ASSUME NEW k \in 0..Doublings - 1, k \in S PROVE k + 1 \in S
    <3>1. PICK f : f = [i \in 0..k |-> IF i = 0 THEN MinWindow ELSE 2 * f[i - 1]]
      BY <2>2
    <3> DEFINE g == [i \in 0..k + 1 |-> IF i <= k THEN f[i] ELSE 2 * f[k]]
    <3>2. \A i \in 0..k : f[i] = IF i = 0 THEN MinWindow ELSE 2 * f[i - 1]
      BY <3>1
    <3>3. \A i \in 0..k + 1 : g[i] = IF i = 0 THEN MinWindow ELSE 2 * g[i - 1]
      <4> SUFFICES ASSUME NEW i \in 0..k + 1 PROVE g[i] = IF i = 0 THEN MinWindow ELSE 2 * g[i - 1]
        OBVIOUS
      <4>1. CASE i = 0
        BY <3>2, <4>1
      <4>2. CASE i # 0 /\ i <= k
        <5>1. i - 1 \in 0..k
          BY <4>2
        <5> QED BY <3>2, <4>2, <5>1
      <4>3. CASE i = k + 1
        <5>1. i - 1 = k /\ ~(i <= k) /\ i # 0 /\ k \in 0..k + 1 /\ k <= k
          BY <4>3
        <5> QED BY <5>1
      <4> QED BY <4>1, <4>2, <4>3
    <3>4. g = [i \in 0..k + 1 |-> IF i = 0 THEN MinWindow ELSE 2 * g[i - 1]]
      <4>1. g = [i \in 0..k + 1 |-> g[i]]
        OBVIOUS
      <4> HIDE DEF g
      <4> QED BY <3>3, <4>1
    <3>5. \E e : e = [i \in 0..k + 1 |-> IF i = 0 THEN MinWindow ELSE 2 * e[i - 1]]
      <4> HIDE DEF g
      <4> QED BY <3>4
    <3>6. k + 1 \in Nat
      BY <1>2
    <3> QED BY <3>5, <3>6
  <2>3. Doublings \in S
    <3> HIDE DEF S
    <3>1. 0..Doublings \subseteq S
      BY <1>2, <2>1, <2>2, CountsOn
    <3> QED BY <1>2, <3>1
  <2>4. \E f : Good(f)
    BY <2>3
  <2>5. Doubled = CHOOSE f : Good(f)
    BY DEF Doubled, Doublings
  <2>6. Good(Doubled)
    <3> HIDE DEF Good
    <3> QED BY <2>4, <2>5
  <2> QED BY <2>6
<1> DEFINE Above == {k \in 0..Doublings : Doubled[k] \in Nat /\ Doubled[k] > k}
<1>4. 0 \in Above
  BY <1>1, <1>2, <1>3
<1>5. ASSUME NEW k \in 0..Doublings - 1, k \in Above PROVE k + 1 \in Above
  <2>1. k + 1 \in 0..Doublings /\ k + 1 # 0 /\ (k + 1) - 1 = k
    BY <1>2
  <2>2. Doubled[k + 1] = 2 * Doubled[k]
    BY <1>3, <2>1
  <2> QED BY <1>5, <2>1, <2>2
<1>6. 0..Doublings \subseteq Above
  <2> HIDE DEF Above
  <2> QED BY <1>2, <1>4, <1>5, CountsOn
<1> QED BY <1>2, <1>6

\* A window is above its index's look-ahead, and a higher index has no smaller one.
LEMMA WindowFacts ==
  /\ \A h \in -1..MaxKey : Window(h) \in Nat /\ Window(h) > h + LookAhead
  /\ \A h, g \in -1..MaxKey : h <= g => Window(h) <= Window(g)
<1>1. LookAhead \in Nat
  OBVIOUS
<1> DEFINE A(h) == WindowsAbove(h + LookAhead)
<1>2. ASSUME NEW h \in -1..MaxKey PROVE A(h) \subseteq Nat /\ A(h) # {} /\ \A w \in A(h) : w > h + LookAhead
  <2>1. Doublings \in 0..Doublings /\ Doublings >= h + LookAhead
    BY <1>1, DoubledGrows DEF Doublings
  <2>2. Doubled[Doublings] \in Nat /\ Doubled[Doublings] > Doublings
    BY <2>1, DoubledGrows
  <2>3. Doubled[Doublings] > h + LookAhead
    BY <1>1, <2>1, <2>2, DoubledGrows
  <2>4. Doubled[Doublings] \in A(h)
    BY <2>1, <2>3 DEF WindowsAbove, Doublings
  <2>5. A(h) \subseteq Nat
    BY DoubledGrows DEF WindowsAbove, Doublings
  <2>6. \A w \in A(h) : w > h + LookAhead
    BY DEF WindowsAbove
  <2> QED BY <2>4, <2>5, <2>6
<1>3. \A h \in -1..MaxKey : Window(h) = Min(A(h))
  BY DEF Window, Windows, WindowFor
<1>4. ASSUME NEW h \in -1..MaxKey PROVE Window(h) \in A(h) /\ \A w \in A(h) : Window(h) <= w
  <2> HIDE DEF A
  <2> QED BY <1>2, <1>3, LeastIs
<1>5. ASSUME NEW h \in -1..MaxKey, NEW g \in -1..MaxKey, h <= g PROVE Window(h) <= Window(g)
  <2>1. A(g) \subseteq A(h)
    <3> SUFFICES ASSUME NEW w \in A(g) PROVE w \in A(h)
      OBVIOUS
    <3>1. w \in Nat /\ w > g + LookAhead
      BY <1>2
    <3>2. w > h + LookAhead
      BY <1>1, <1>5, <3>1
    <3> QED BY <3>2 DEF WindowsAbove
  <2> HIDE DEF A
  <2> QED BY <1>4, <2>1
<1>6. \A h \in -1..MaxKey : Window(h) \in Nat /\ Window(h) > h + LookAhead
  <2> HIDE DEF A
  <2> QED BY <1>2, <1>4
<1> QED BY <1>5, <1>6

-----------------------------------------------------------------------------
\* What the restoration rule reaches.

LetReach(S, k) == \A i \in S \cup {-1} : i < k => \E s \in S : i < s /\ s <= i + LookAhead
Dense(S) == \A k \in S : LetReach(S, k)

\* The highest index reached is -1 or a found one the rule comes to, and none it comes to is higher.
LEMMA ReachedFacts ==
  ASSUME NEW S \in SUBSET Indices
  PROVE  /\ Reached(S) \in S \cup {-1} /\ Reached(S) \in -1..MaxKey
         /\ Reached(S) \in S => LetReach(S, Reached(S))
         /\ \A k \in S : LetReach(S, k) => k <= Reached(S)
<1> DEFINE T == {-1} \cup {k \in S : LetReach(S, k)}
<1>1. Reached(S) = Max(T)
  BY DEF Reached, ReachedOf, ReachedIn, LetReach
<1>2. T # {} /\ \A x \in T : x \in Int /\ x <= MaxKey /\ x >= -1
  BY DEF Indices
<1>3. Max(T) \in T /\ \A y \in T : y <= Max(T)
  <2> HIDE DEF T
  <2> QED BY <1>2, LargestIs
<1>4. -1 \notin S /\ S \subseteq 0..MaxKey
  BY DEF Indices
<1>5. Reached(S) \in T /\ \A y \in T : y <= Reached(S)
  BY <1>1, <1>3
<1>6. Reached(S) \in S \cup {-1} /\ Reached(S) \in -1..MaxKey
  <2>1. Reached(S) = -1 \/ Reached(S) \in S
    BY <1>5
  <2>2. -1 \in -1..MaxKey /\ 0..MaxKey \subseteq -1..MaxKey
    OBVIOUS
  <2> QED BY <1>4, <2>1, <2>2
<1>7. Reached(S) \in S => LetReach(S, Reached(S))
  BY <1>4, <1>5
<1>8. \A k \in S : LetReach(S, k) => k <= Reached(S)
  BY <1>5
<1> QED BY <1>6, <1>7, <1>8

\* More indices found reach no lower.
LEMMA ReachesNoLower ==
  ASSUME NEW S \in SUBSET Indices, NEW T \in SUBSET Indices, S \subseteq T
  PROVE  Reached(S) <= Reached(T)
<1> DEFINE k == Reached(S)
<1>0. LookAhead \in Nat
  OBVIOUS
<1>1. k \in S \cup {-1} /\ k \in -1..MaxKey /\ (k \in S => LetReach(S, k))
  BY ReachedFacts
<1>2. Reached(T) \in -1..MaxKey
  BY ReachedFacts
<1>3. CASE k = -1
  BY <1>2, <1>3
<1>4. CASE k \in S
  <2>1. LetReach(T, k)
    <3> HIDE DEF k
    <3> SUFFICES ASSUME NEW i \in T \cup {-1}, i < k PROVE \E s \in T : i < s /\ s <= i + LookAhead
      BY DEF LetReach
    <3> DEFINE B == {j \in S \cup {-1} : j <= i}
    <3>1. i \in Int /\ i >= -1 /\ \A x \in S : x \in Int
      BY DEF Indices
    <3>2. B # {} /\ \A x \in B : x \in Int /\ x <= i
      BY <3>1
    <3>3. PICK j \in B : \A y \in B : y <= j
      <4> HIDE DEF B
      <4> QED BY <3>1, <3>2, LargestIs
    <3>4. j \in S \cup {-1} /\ j <= i /\ j < k /\ j \in Int
      BY <3>1, <3>3, <1>1
    <3>5. PICK s \in S : j < s /\ s <= j + LookAhead
      BY <1>1, <1>4, <3>4 DEF LetReach
    <3>6. ~(s <= i)
      BY <3>1, <3>3, <3>4, <3>5
    <3> QED BY <1>0, <3>1, <3>4, <3>5, <3>6
  <2>2. k \in T
    BY <1>4
  <2> QED BY <2>1, <2>2, ReachedFacts
<1> QED BY <1>1, <1>3, <1>4

\* Of a history without a wide gap every index is reached.
LEMMA DenseIsReached ==
  ASSUME NEW S \in SUBSET Indices, Dense(S)
  PROVE  \A k \in S : k <= Reached(S)
BY ReachedFacts DEF Dense

\* An index within the look-ahead of those reached opens no wide gap.
LEMMA DenseGoesOn ==
  ASSUME NEW S \in SUBSET Indices, Dense(S), NEW k \in Indices, k <= Reached(S) + LookAhead
  PROVE  Dense(S \cup {k})
<1>0. LookAhead \in Nat /\ LookAhead > 0
  OBVIOUS
<1> DEFINE T == S \cup {k}
           R == Reached(S)
<1>1. R \in S \cup {-1} /\ R \in -1..MaxKey /\ \A x \in S : x <= R
  BY ReachedFacts, DenseIsReached
<1>2. k \in Int /\ k >= 0 /\ \A x \in S : x \in Int /\ x >= 0
  BY DEF Indices
<1> SUFFICES ASSUME NEW j \in T, NEW i \in T \cup {-1}, i < j PROVE \E s \in T : i < s /\ s <= i + LookAhead
  BY DEF Dense, LetReach
<1>3. i \in Int /\ i >= -1 /\ j \in Int
  BY <1>2
<1> HIDE DEF R
<1>4. CASE i < R
  <2>1. R \in S
    BY <1>1, <1>3, <1>4
  <2> DEFINE B == {x \in S \cup {-1} : x <= i}
  <2>2. B # {} /\ \A x \in B : x \in Int /\ x <= i
    BY <1>2, <1>3
  <2>3. PICK b \in B : \A y \in B : y <= b
    <3> HIDE DEF B
    <3> QED BY <1>3, <2>2, LargestIs
  <2>4. b \in S \cup {-1} /\ b <= i /\ b < R /\ b \in Int
    BY <1>1, <1>2, <1>3, <1>4, <2>3
  <2>5. PICK s \in S : b < s /\ s <= b + LookAhead
    BY <2>1, <2>4 DEF Dense, LetReach
  <2>6. ~(s <= i)
    BY <1>2, <1>3, <2>3, <2>4, <2>5
  <2> QED BY <1>0, <1>2, <1>3, <2>4, <2>5, <2>6
<1>5. CASE R <= i
  <2>1. j = k
    BY <1>1, <1>2, <1>3, <1>5
  <2>2. k <= i + LookAhead
    BY <1>0, <1>1, <1>2, <1>3, <1>5 DEF R
  <2> QED BY <2>1, <2>2
<1> QED BY <1>1, <1>3, <1>4, <1>5

-----------------------------------------------------------------------------
\* What one pass of a read finds.

Outputs == [key : Indices, note : Nat]
KeysIn(n) == KeysAt(1..n)
MarkedKeys(w, n) == KeysAt(Marks(w, n))

IsWallet(w) ==
  /\ w = [frozen |-> w.frozen, forked |-> w.forked, exposed |-> w.exposed, high |-> w.high, found |-> w.found,
          since |-> w.since, after |-> w.after, saved |-> w.saved, requests |-> w.requests,
          credited |-> w.credited, doubtful |-> w.doubtful, seen |-> w.seen]
  /\ w.frozen \in BOOLEAN
  /\ w.exposed \in Int /\ w.exposed >= Unknown
  /\ w.high \in -1..MaxKey /\ w.found \in -1..MaxKey
  /\ w.since \in Int /\ w.since >= Unmarked /\ w.seen \in Nat /\ w.requests \subseteq Indices

\* Every index that can be named is within the exposure.
Full(w) == w.exposed >= w.high + LookAhead

\* What a pass leaves alone.
SameCustody(w, v) ==
  /\ v.frozen = w.frozen /\ v.after = w.after /\ v.saved = w.saved /\ v.requests = w.requests
  /\ v.credited = w.credited /\ v.doubtful = w.doubtful /\ v.seen = w.seen

\* Keys of outputs are owner indices, and a wider range of outputs has no fewer.
LEMMA KeysAreIndices ==
  ASSUME ledger \in Seq(Outputs), NEW n \in 0..Len(ledger)
  PROVE  /\ \A P \in SUBSET (1..n) : KeysAt(P) \in SUBSET Indices
         /\ \A w : Marks(w, n) \in SUBSET (1..n) /\ MarkedKeys(w, n) \in SUBSET Indices /\ MarkedKeys(w, n) \subseteq KeysIn(n)
         /\ KeysIn(n) \in SUBSET Indices
<1>1. \A p \in 1..n : ledger[p] \in Outputs
  OBVIOUS
<1>2. ASSUME NEW P \in SUBSET (1..n) PROVE KeysAt(P) \in SUBSET Indices
  BY <1>1 DEF KeysAt, Outputs
<1>3. ASSUME NEW w PROVE Marks(w, n) \in SUBSET (1..n) /\ MarkedKeys(w, n) \subseteq KeysIn(n)
  BY DEF Marks, MarkedKeys, KeysIn, KeysAt
<1>4. KeysIn(n) \in SUBSET Indices
  BY <1>2 DEF KeysIn
<1> QED BY <1>2, <1>3, <1>4

\* A pass keeps the wallet's records, moves high to what its outputs reach and never back, and never lowers an exposure.
LEMMA FoundFacts ==
  ASSUME ledger \in Seq(Outputs), NEW n \in 0..Len(ledger), NEW w, IsWallet(w)
  PROVE  LET v == Found(w, n)
             R == Reached(MarkedKeys(w, n))
         IN /\ IsWallet(v) /\ SameCustody(w, v)
            /\ R \in -1..MaxKey /\ v.high = Larger(w.high, R) /\ v.found >= w.found
            /\ w.exposed # Unknown => /\ v.exposed # Unknown /\ v.exposed >= w.exposed /\ v.since = w.since
            /\ Grew(w, v) => v.exposed = w.exposed /\ v.since = w.since
            /\ ~Grew(w, v) /\ w.exposed = Unknown => v.exposed = v.high + LookAhead /\ v.since = n
            /\ ~Grew(w, v) /\ w.exposed # Unknown /\ w.since # Unmarked /\ w.after = {} =>
                 IF Marks(w, n) = {} THEN v.exposed = w.exposed ELSE v.exposed = Larger(w.exposed, R + LookAhead)
<1> DEFINE marks == Marks(w, n)
           kept == {p \in marks : w.since = Unmarked \/ ledger[p] \notin w.after}
           R == Reached(MarkedKeys(w, n))
           K == Reached(KeysAt(kept))
           high == Larger(w.high, R)
           top == Larger(w.found, Max({-1} \cup KeysAt(marks)))
           exposed == IF w.since # Unmarked /\ w.exposed # Unknown /\ marks # {} THEN Larger(w.exposed, K + LookAhead) ELSE w.exposed
           grew == Window(high) > Window(w.high)
           first == ~grew /\ w.exposed = Unknown
           forked == w.forked \/ (exposed # Unknown /\ top > w.found /\ top > exposed)
           v == [frozen |-> w.frozen, forked |-> forked,
                 exposed |-> IF grew THEN w.exposed ELSE IF first THEN high + LookAhead ELSE exposed,
                 high |-> high, found |-> top, since |-> IF first THEN n ELSE w.since, after |-> w.after, saved |-> w.saved,
                 requests |-> w.requests, credited |-> w.credited, doubtful |-> w.doubtful, seen |-> w.seen]
<1>1. R \in -1..MaxKey
  BY KeysAreIndices, ReachedFacts
<1>2. K \in -1..MaxKey
  <2>1. kept \in SUBSET (1..n)
    BY KeysAreIndices
  <2> HIDE DEF kept
  <2> QED BY <2>1, KeysAreIndices, ReachedFacts
<1>3. Max({-1} \cup KeysAt(marks)) \in -1..MaxKey
  <2>1. KeysAt(marks) \in SUBSET Indices
    BY KeysAreIndices DEF MarkedKeys
  <2> DEFINE S == {-1} \cup KeysAt(marks)
  <2>2. S # {} /\ \A x \in S : x \in Int /\ x <= MaxKey /\ x >= -1
    BY <2>1 DEF Indices
  <2>3. Max(S) \in S
    <3> HIDE DEF S
    <3> QED BY <2>2, LargestIs
  <2> HIDE DEF S
  <2>4. Max(S) \in -1..MaxKey
    BY <2>2, <2>3
  <2> QED BY <2>4 DEF S
<1>4. high \in -1..MaxKey /\ top \in -1..MaxKey /\ top >= w.found
  <2> HIDE DEF R
  <2> QED BY <1>1, <1>3 DEF IsWallet, Larger
<1>5. Found(w, n) = v
  <2>1. Found(w, n) = [w EXCEPT !.high = high, !.found = top, !.forked = forked,
                                !.exposed = IF grew THEN w.exposed ELSE IF first THEN high + LookAhead ELSE exposed,
                                !.since = IF first THEN n ELSE w.since]
    BY DEF Found, MarkedKeys, IsWallet
  <2> HIDE DEF high, top, forked, grew, first, exposed
  <2> QED BY <2>1 DEF IsWallet
<1>6. exposed \in Int /\ exposed >= w.exposed /\ (w.exposed # Unknown => exposed # Unknown) /\ w.exposed \in Int /\ w.exposed >= -2
  <2> HIDE DEF K, marks
  <2> QED BY <1>2 DEF IsWallet, Larger, Unknown
<1>7. v.exposed \in Int /\ v.exposed >= Unknown /\ v.since \in Int /\ v.since >= Unmarked
  <2> HIDE DEF high, exposed, grew
  <2> QED BY <1>4, <1>6 DEF IsWallet, Unknown, Unmarked
<1>8. IsWallet(v) /\ SameCustody(w, v)
  <2> HIDE DEF high, exposed, grew, first, forked, top
  <2> QED BY <1>4, <1>7 DEF IsWallet, SameCustody
<1>9. Grew(w, v) <=> grew
  <2> HIDE DEF high, exposed, top, forked
  <2> QED BY DEF Grew
<1>10. ASSUME w.exposed # Unknown PROVE v.exposed # Unknown /\ v.exposed >= w.exposed /\ v.since = w.since
  <2> HIDE DEF high, exposed, grew, top, forked
  <2> QED BY <1>6, <1>10
<1>11. ASSUME grew PROVE v.exposed = w.exposed /\ v.since = w.since
  BY <1>11
<1>12. ASSUME ~grew, w.exposed = Unknown PROVE v.exposed = v.high + LookAhead /\ v.since = n
  <2> HIDE DEF high, exposed, grew, top, forked
  <2> QED BY <1>12
<1>13. ASSUME ~grew, w.exposed # Unknown, w.since # Unmarked, w.after = {}
       PROVE  IF marks = {} THEN v.exposed = w.exposed ELSE v.exposed = Larger(w.exposed, R + LookAhead)
  <2>1. kept = marks
    BY <1>13
  <2>2. K = R
    BY <2>1 DEF MarkedKeys
  <2>3. v.exposed = exposed
    <3> HIDE DEF high, exposed, grew, top, forked
    <3> QED BY <1>13
  <2> HIDE DEF K, R, marks, v
  <2> QED BY <1>13, <2>2, <2>3
<1>14. v.high = Larger(w.high, R) /\ v.found >= w.found
  <2> HIDE DEF exposed, grew, first, forked, R
  <2> QED BY <1>4
<1> HIDE DEF v, grew
<1> QED BY <1>1, <1>5, <1>8, <1>9, <1>10, <1>11, <1>12, <1>13, <1>14

-----------------------------------------------------------------------------
\* A read's passes.

\* No later pass grows the window.
Steady(v, n) == ~Grew(v, Found(v, n))
\* The wallet has reached no further than its outputs do, and there are some.
Supported(v, n) == Marks(v, n) # {} /\ v.high <= Reached(MarkedKeys(v, n))
\* The sizes of window up to the wallet's.
SizesUpTo(v) == {x \in {Windows[h] : h \in -1..MaxKey} : x <= Window(v.high)}

\* A wider window marks no fewer outputs.
LEMMA WidensMarks ==
  ASSUME ledger \in Seq(Outputs), NEW n \in 0..Len(ledger), NEW v, NEW u, v.high \in -1..MaxKey, u.high \in -1..MaxKey,
         Window(v.high) <= Window(u.high)
  PROVE  Marks(v, n) \subseteq Marks(u, n) /\ Reached(MarkedKeys(v, n)) <= Reached(MarkedKeys(u, n))
<1>1. Marks(v, n) \subseteq Marks(u, n)
  <2> SUFFICES ASSUME NEW p \in 1..n, ledger[p].key < Window(v.high) PROVE ledger[p].key < Window(u.high)
    BY DEF Marks
  <2>0. ledger[p] \in Outputs
    OBVIOUS
  <2>1. ledger[p].key \in Int
    BY <2>0 DEF Outputs, Indices
  <2>2. Window(v.high) \in Nat /\ Window(u.high) \in Nat
    BY WindowFacts
  <2> QED BY <2>1, <2>2
<1>2. MarkedKeys(v, n) \subseteq MarkedKeys(u, n)
  BY <1>1 DEF MarkedKeys, KeysAt
<1> QED BY <1>1, <1>2, KeysAreIndices, ReachesNoLower

\* A pass that grows the window is supported by what it found, one that does not is the last to change it, and a full
\* exposure stays full.
LEMMA PassStep ==
  ASSUME ledger \in Seq(Outputs), NEW n \in 0..Len(ledger), NEW v, IsWallet(v)
  PROVE  LET u == Found(v, n)
         IN /\ IsWallet(u) /\ SameCustody(v, u) /\ v.high <= u.high /\ v.found <= u.found
            /\ u.high <= Larger(v.high, Reached(KeysIn(n)))
            /\ Steady(v, n) => /\ Steady(u, n) /\ Marks(u, n) = Marks(v, n) /\ Reached(MarkedKeys(u, n)) <= u.high
            /\ ~Steady(v, n) => Supported(u, n) /\ Window(v.high) < Window(u.high)
            /\ Steady(v, n) /\ v.exposed = Unknown => u.exposed # Unknown /\ u.since = n /\ Full(u)
            /\ Steady(v, n) /\ v.exposed # Unknown /\ v.since # Unmarked /\ v.after = {} /\ (Full(v) \/ Supported(v, n))
                 => Full(u)
<1> DEFINE u == Found(v, n)
           R == Reached(MarkedKeys(v, n))
<1>1. IsWallet(u) /\ SameCustody(v, u) /\ R \in -1..MaxKey /\ u.high = Larger(v.high, R) /\ u.found >= v.found
  BY FoundFacts
<1>2. v.high \in -1..MaxKey /\ u.high \in -1..MaxKey /\ v.high <= u.high /\ R <= u.high /\ v.found <= u.found
  <2> HIDE DEF u, R
  <2> QED BY <1>1 DEF IsWallet, Larger
<1>3. R <= Reached(KeysIn(n)) /\ Reached(KeysIn(n)) \in -1..MaxKey
  BY KeysAreIndices, ReachesNoLower, ReachedFacts
<1>4. u.high <= Larger(v.high, Reached(KeysIn(n)))
  <2> HIDE DEF u, R
  <2> QED BY <1>1, <1>2, <1>3 DEF Larger
<1>5. Window(v.high) \in Nat /\ Window(u.high) \in Nat /\ Window(v.high) <= Window(u.high)
  BY <1>2, WindowFacts
<1>6. Steady(v, n) <=> Window(u.high) = Window(v.high)
  <2> HIDE DEF u
  <2> QED BY <1>5 DEF Steady, Grew, u
<1>7. ASSUME Steady(v, n)
      PROVE  Steady(u, n) /\ Marks(u, n) = Marks(v, n) /\ Reached(MarkedKeys(u, n)) = R
  <2>1. Marks(u, n) = Marks(v, n)
    BY <1>6, <1>7 DEF Marks
  <2>2. Reached(MarkedKeys(u, n)) = R
    BY <2>1 DEF MarkedKeys
  <2>3. Found(u, n).high = Larger(u.high, R)
    <3>1. Found(u, n).high = Larger(u.high, Reached(MarkedKeys(u, n)))
      <4> HIDE DEF u
      <4> QED BY <1>1, FoundFacts
    <3> HIDE DEF u, R
    <3> QED BY <2>2, <3>1
  <2>4. Found(u, n).high = u.high
    <3> HIDE DEF u, R
    <3> QED BY <1>1, <1>2, <2>3 DEF Larger
  <2>5. Steady(u, n)
    <3> HIDE DEF u
    <3> QED BY <1>5, <2>4 DEF Steady, Grew
  <2> QED BY <2>1, <2>2, <2>5
<1>8. ASSUME ~Steady(v, n) PROVE Supported(u, n) /\ Window(v.high) < Window(u.high)
  <2>1. Window(v.high) < Window(u.high)
    <3> HIDE DEF u
    <3> QED BY <1>5, <1>6, <1>8
  <2>2. u.high = R /\ R # -1
    <3>1. u.high # v.high
      <4> HIDE DEF u
      <4> QED BY <1>5, <2>1
    <3> HIDE DEF u, R
    <3> QED BY <1>1, <1>2, <3>1 DEF Larger
  <2>3. Marks(v, n) # {}
    <3>1. ASSUME Marks(v, n) = {} PROVE FALSE
      <4>1. MarkedKeys(v, n) = {}
        BY <3>1 DEF MarkedKeys, KeysAt
      <4>2. Reached({}) = -1
        BY ReachedFacts
      <4> QED BY <2>2, <4>1, <4>2
    <3> QED BY <3>1
  <2>4. Marks(v, n) \subseteq Marks(u, n) /\ R <= Reached(MarkedKeys(u, n))
    <3> HIDE DEF u
    <3> QED BY <1>2, <1>5, WidensMarks
  <2> HIDE DEF u, R
  <2> QED BY <2>1, <2>2, <2>3, <2>4 DEF Supported
<1>9. ASSUME Steady(v, n), v.exposed = Unknown PROVE u.exposed # Unknown /\ u.since = n /\ Full(u)
  <2>1. u.exposed = u.high + LookAhead /\ u.since = n
    BY <1>9, FoundFacts DEF Steady
  <2> HIDE DEF u
  <2> QED BY <1>2, <2>1 DEF Full, Unknown
<1>10. ASSUME Steady(v, n), v.exposed # Unknown, v.since # Unmarked, v.after = {}, Full(v) \/ Supported(v, n) PROVE Full(u)
  <2>0. ~Grew(v, u)
    BY <1>10 DEF Steady
  <2>1. IF Marks(v, n) = {} THEN u.exposed = v.exposed ELSE u.exposed = Larger(v.exposed, R + LookAhead)
    <3>1. /\ ~Grew(v, u) /\ v.exposed # Unknown /\ v.since # Unmarked /\ v.after = {} =>
                 IF Marks(v, n) = {} THEN u.exposed = v.exposed ELSE u.exposed = Larger(v.exposed, R + LookAhead)
      BY FoundFacts
    <3> HIDE DEF u, R
    <3> QED BY <1>10, <2>0, <3>1
  <2>2. CASE Marks(v, n) = {}
    <3>1. MarkedKeys(v, n) = {}
      BY <2>2 DEF MarkedKeys, KeysAt
    <3>2. R = -1
      BY <3>1, ReachedFacts
    <3>3. Full(v)
      BY <1>10, <2>2 DEF Supported
    <3>4. u.high = v.high
      <4> HIDE DEF u, R
      <4> QED BY <1>1, <1>2, <3>2 DEF Larger
    <3> HIDE DEF u, R
    <3> QED BY <2>1, <2>2, <3>3, <3>4 DEF Full
  <2>3. CASE Marks(v, n) # {}
    <3>1. v.exposed \in Int /\ (v.exposed >= v.high + LookAhead \/ v.high <= R)
      BY <1>10 DEF Full, Supported, IsWallet
    <3>2. u.exposed = Larger(v.exposed, R + LookAhead) /\ v.exposed \in Int
      BY <2>1, <2>3 DEF IsWallet
    <3> HIDE DEF u, R
    <3> QED BY <1>1, <1>2, <3>1, <3>2 DEF Full, Larger
  <2> QED BY <2>2, <2>3
<1> HIDE DEF u
<1>11. Steady(v, n) => Reached(MarkedKeys(u, n)) <= u.high
  BY <1>2, <1>7
<1> QED BY <1>1, <1>2, <1>4, <1>7, <1>8, <1>9, <1>10, <1>11 DEF u

\* The sizes of window up to a wallet's are finitely many, and more once a pass has grown it.
LEMMA SizesGrow ==
  /\ Sizes \in Nat
  /\ \A v : v.high \in -1..MaxKey => Cardinality(SizesUpTo(v)) \in 1..Sizes
  /\ \A v, u : /\ v.high \in -1..MaxKey /\ u.high \in -1..MaxKey /\ Window(v.high) < Window(u.high)
               => Cardinality(SizesUpTo(v)) < Cardinality(SizesUpTo(u))
<1> DEFINE S == {Windows[h] : h \in -1..MaxKey}
<1>1. \A h \in -1..MaxKey : Windows[h] = Window(h)
  BY DEF Window
<1>2. S \in SUBSET Nat /\ \A x \in S : x <= Window(MaxKey)
  <2> SUFFICES ASSUME NEW h \in -1..MaxKey PROVE Windows[h] \in Nat /\ Windows[h] <= Window(MaxKey)
    OBVIOUS
  <2>1. MaxKey \in -1..MaxKey /\ h <= MaxKey
    OBVIOUS
  <2> QED BY <1>1, <2>1, WindowFacts
<1>3. Window(MaxKey) \in Nat
  BY WindowFacts
<1>4. IsFiniteSet(S) /\ Cardinality(S) \in Nat
  <2> HIDE DEF S
  <2> QED BY <1>2, <1>3, FS_BoundedSetOfNaturals, FS_CardinalityType
<1>5. Sizes = Cardinality(S)
  BY DEF Sizes
<1>6. ASSUME NEW v, v.high \in -1..MaxKey
      PROVE  /\ SizesUpTo(v) \in SUBSET S /\ IsFiniteSet(SizesUpTo(v)) /\ Window(v.high) \in SizesUpTo(v)
             /\ Cardinality(SizesUpTo(v)) \in 1..Sizes
  <2>1. SizesUpTo(v) \in SUBSET S
    BY DEF SizesUpTo
  <2>2. Window(v.high) \in SizesUpTo(v)
    <3>1. Window(v.high) \in S /\ Window(v.high) <= Window(v.high)
      BY <1>1, <1>6, WindowFacts
    <3> QED BY <3>1 DEF SizesUpTo
  <2> HIDE DEF S
  <2>3. IsFiniteSet(SizesUpTo(v)) /\ Cardinality(SizesUpTo(v)) <= Cardinality(S)
    BY <1>4, <2>1, FS_Subset
  <2>4. Cardinality(SizesUpTo(v)) \in Nat /\ Cardinality(SizesUpTo(v)) # 0
    BY <2>2, <2>3, FS_CardinalityType, FS_EmptySet
  <2> QED BY <1>4, <1>5, <2>1, <2>2, <2>3, <2>4
<1>7. ASSUME NEW v, NEW u, v.high \in -1..MaxKey, u.high \in -1..MaxKey, Window(v.high) < Window(u.high)
      PROVE  Cardinality(SizesUpTo(v)) < Cardinality(SizesUpTo(u))
  <2>1. Window(v.high) \in Nat /\ Window(u.high) \in Nat
    BY <1>7, WindowFacts
  <2>2. SizesUpTo(v) \in SUBSET SizesUpTo(u)
    <3> SUFFICES ASSUME NEW x \in SizesUpTo(v) PROVE x \in SizesUpTo(u)
      OBVIOUS
    <3>1. x \in S /\ x <= Window(v.high)
      BY DEF SizesUpTo
    <3>2. x \in Nat
      BY <1>2, <3>1
    <3>3. x <= Window(u.high)
      BY <1>7, <2>1, <3>1, <3>2
    <3> QED BY <3>1, <3>3 DEF SizesUpTo
  <2>3. Window(u.high) \in SizesUpTo(u) /\ Window(u.high) \notin SizesUpTo(v)
    <3>1. Window(u.high) \notin SizesUpTo(v)
      BY <1>7, <2>1 DEF SizesUpTo
    <3> QED BY <1>6, <1>7, <3>1
  <2>4. IsFiniteSet(SizesUpTo(u)) /\ IsFiniteSet(SizesUpTo(v))
    BY <1>6, <1>7
  <2>5. Cardinality(SizesUpTo(v)) <= Cardinality(SizesUpTo(u)) /\ Cardinality(SizesUpTo(u)) # Cardinality(SizesUpTo(v))
    BY <2>2, <2>3, <2>4, FS_Subset
  <2>6. Cardinality(SizesUpTo(u)) \in Nat /\ Cardinality(SizesUpTo(v)) \in Nat
    BY <2>4, FS_CardinalityType
  <2> QED BY <2>5, <2>6
<1> QED BY <1>4, <1>5, <1>6, <1>7

-----------------------------------------------------------------------------
\* A read.

\* What the passes so far left of the wallet a read began with.
Passed(w, v, n) ==
  /\ IsWallet(v) /\ SameCustody(w, v)
  /\ w.high <= v.high /\ w.found <= v.found /\ v.high <= Larger(w.high, Reached(KeysIn(n)))
  /\ w.exposed # Unknown => v.exposed # Unknown /\ w.exposed <= v.exposed /\ v.since = w.since
  /\ w.exposed # Unknown /\ w.since # Unmarked /\ w.after = {} /\ Full(w) => Full(v) \/ Supported(v, n)
  /\ w.exposed = Unknown /\ w.after = {} => v.exposed = Unknown \/ (v.since = n /\ Full(v) /\ Steady(v, n))

\* A pass adds to what those before it left.
LEMMA PassKeeps ==
  ASSUME ledger \in Seq(Outputs), NEW n \in 0..Len(ledger), NEW w, IsWallet(w), NEW v, Passed(w, v, n)
  PROVE  Passed(w, Found(v, n), n)
<1> DEFINE u == Found(v, n)
           H == Reached(KeysIn(n))
<1>1. IsWallet(v)
  BY DEF Passed
<1>2. /\ IsWallet(u) /\ SameCustody(v, u) /\ v.high <= u.high /\ v.found <= u.found /\ u.high <= Larger(v.high, H)
      /\ Steady(v, n) => Steady(u, n)
      /\ ~Steady(v, n) => Supported(u, n)
      /\ Steady(v, n) /\ v.exposed = Unknown => u.exposed # Unknown /\ u.since = n /\ Full(u)
      /\ Steady(v, n) /\ v.exposed # Unknown /\ v.since # Unmarked /\ v.after = {} /\ (Full(v) \/ Supported(v, n)) => Full(u)
  <2> HIDE DEF H
  <2> QED BY <1>1, PassStep DEF H
<1>3. /\ v.exposed # Unknown => u.exposed # Unknown /\ v.exposed <= u.exposed /\ u.since = v.since
      /\ ~Steady(v, n) => u.exposed = v.exposed /\ u.since = v.since
  <2>1. /\ v.exposed # Unknown => u.exposed # Unknown /\ u.exposed >= v.exposed /\ u.since = v.since
        /\ Grew(v, u) => u.exposed = v.exposed /\ u.since = v.since
    BY <1>1, FoundFacts
  <2> HIDE DEF u
  <2>2. v.exposed \in Int /\ u.exposed \in Int
    BY <1>1, <1>2 DEF IsWallet
  <2> QED BY <2>1, <2>2 DEF Steady, u
<1>4. H \in -1..MaxKey
  BY KeysAreIndices, ReachedFacts
<1> HIDE DEF u, H
<1>5. SameCustody(w, u)
  BY <1>2 DEF Passed, SameCustody
<1>6. w.high <= u.high /\ w.found <= u.found /\ u.high <= Larger(w.high, H)
  <2>1. w.high \in Int /\ v.high \in Int /\ u.high \in Int /\ w.found \in Int /\ v.found \in Int /\ u.found \in Int /\ H \in Int
    BY <1>1, <1>2, <1>4 DEF IsWallet
  <2>2. v.high <= Larger(w.high, H) /\ w.high <= v.high /\ w.found <= v.found
    BY DEF Passed, H
  <2> QED BY <1>2, <2>1, <2>2 DEF Larger
<1>7. ASSUME w.exposed # Unknown PROVE u.exposed # Unknown /\ w.exposed <= u.exposed /\ u.since = w.since
  <2>1. v.exposed # Unknown /\ w.exposed <= v.exposed /\ v.since = w.since
    BY <1>7 DEF Passed
  <2>2. w.exposed \in Int /\ v.exposed \in Int /\ u.exposed \in Int
    BY <1>1, <1>2 DEF IsWallet
  <2> QED BY <1>3, <2>1, <2>2
<1>8. ASSUME w.exposed # Unknown, w.since # Unmarked, w.after = {}, Full(w) PROVE Full(u) \/ Supported(u, n)
  <2>1. v.exposed # Unknown /\ v.since = w.since /\ v.after = {} /\ (Full(v) \/ Supported(v, n))
    BY <1>8 DEF Passed, SameCustody
  <2> QED BY <1>2, <1>8, <2>1
<1>9. ASSUME w.exposed = Unknown, w.after = {} PROVE u.exposed = Unknown \/ (u.since = n /\ Full(u) /\ Steady(u, n))
  <2>1. CASE v.exposed = Unknown
    BY <1>2, <1>3, <2>1
  <2>2. CASE v.exposed # Unknown
    <3>1. v.since = n /\ Full(v) /\ Steady(v, n) /\ v.after = {}
      BY <1>9, <2>2 DEF Passed, SameCustody
    <3>2. n # Unmarked
      BY DEF Unmarked
    <3> QED BY <1>2, <1>3, <2>2, <3>1, <3>2
  <2> QED BY <2>1, <2>2
<1> QED BY <1>2, <1>5, <1>6, <1>7, <1>8, <1>9 DEF Passed, H, u

\* A read is its passes in turn, as often as there are sizes of window.
LEMMA ReadIsPasses ==
  ASSUME NEW n, NEW w
  PROVE  \E pass : /\ pass[0] = w /\ \A i \in 1..Sizes : pass[i] = Found(pass[i - 1], n)
                   /\ ReadAll(w, n) = pass[Sizes]
<1>1. Sizes \in Nat
  BY SizesGrow
<1> DEFINE Good(f) == f = [i \in 0..Sizes |-> IF i = 0 THEN w ELSE Found(f[i - 1], n)]
           S == {k \in Nat : \E f : f = [i \in 0..k |-> IF i = 0 THEN w ELSE Found(f[i - 1], n)]}
<1>2. 0 \in S
  <2>1. [i \in 0..0 |-> w] = [i \in 0..0 |-> IF i = 0 THEN w ELSE Found([j \in 0..0 |-> w][i - 1], n)]
    OBVIOUS
  <2> QED BY <2>1
<1>3. ASSUME NEW k \in 0..Sizes - 1, k \in S PROVE k + 1 \in S
  <2>1. PICK f : f = [i \in 0..k |-> IF i = 0 THEN w ELSE Found(f[i - 1], n)]
    BY <1>3
  <2> DEFINE g == [i \in 0..k + 1 |-> IF i <= k THEN f[i] ELSE Found(f[k], n)]
  <2>2. \A i \in 0..k : f[i] = IF i = 0 THEN w ELSE Found(f[i - 1], n)
    BY <2>1
  <2>3. ASSUME NEW i \in 0..k + 1 PROVE g[i] = IF i = 0 THEN w ELSE Found(g[i - 1], n)
    <3>1. CASE i = 0
      BY <2>2, <3>1
    <3>2. CASE i # 0 /\ i <= k
      <4>1. i - 1 \in 0..k /\ i \in 0..k
        BY <3>2
      <4>2. g[i] = f[i] /\ g[i - 1] = f[i - 1]
        BY <3>2, <4>1
      <4> HIDE DEF g
      <4> QED BY <2>2, <3>2, <4>1, <4>2
    <3>3. CASE i = k + 1
      <4>1. i - 1 = k /\ ~(i <= k) /\ i # 0 /\ k \in 0..k + 1 /\ k <= k
        BY <3>3
      <4>2. g[i] = Found(f[k], n) /\ g[k] = f[k]
        BY <4>1
      <4> HIDE DEF g
      <4> QED BY <4>1, <4>2
    <3> QED BY <3>1, <3>2, <3>3
  <2>4. g = [i \in 0..k + 1 |-> IF i = 0 THEN w ELSE Found(g[i - 1], n)]
    <3>1. g = [i \in 0..k + 1 |-> g[i]]
      OBVIOUS
    <3> HIDE DEF g
    <3> QED BY <2>3, <3>1
  <2>5. \E e : e = [i \in 0..k + 1 |-> IF i = 0 THEN w ELSE Found(e[i - 1], n)]
    <3> HIDE DEF g
    <3> QED BY <2>4
  <2> QED BY <2>5
<1>4. Sizes \in S
  <2> HIDE DEF S
  <2>1. 0..Sizes \subseteq S
    BY <1>1, <1>2, <1>3, CountsOn
  <2> QED BY <1>1, <2>1
<1>5. \E f : Good(f)
  BY <1>4
<1> DEFINE pass == CHOOSE f : Good(f)
<1>6. Good(pass)
  <2> HIDE DEF Good
  <2> QED BY <1>5
<1>7. ReadAll(w, n) = pass[Sizes]
  BY DEF ReadAll
<1> HIDE DEF pass
<1>8. pass[0] = w /\ \A i \in 1..Sizes : pass[i] = Found(pass[i - 1], n)
  <2>1. \A i \in 0..Sizes : pass[i] = IF i = 0 THEN w ELSE Found(pass[i - 1], n)
    BY <1>6
  <2>2. 0 \in 0..Sizes /\ \A i \in 1..Sizes : i \in 0..Sizes /\ i # 0
    BY <1>1
  <2> QED BY <2>1, <2>2
<1> QED BY <1>7, <1>8

\* There are passes enough: the last but one no longer grows the window.
LEMMA ReadEnds ==
  ASSUME ledger \in Seq(Outputs), NEW n \in 0..Len(ledger), NEW w, IsWallet(w)
  PROVE  \E v : Passed(w, v, n) /\ Steady(v, n) /\ ReadAll(w, n) = Found(v, n)
<1>1. PICK pass : /\ pass[0] = w /\ \A i \in 1..Sizes : pass[i] = Found(pass[i - 1], n)
                  /\ ReadAll(w, n) = pass[Sizes]
  BY ReadIsPasses
<1>2. Sizes \in Nat /\ Sizes >= 1
  <2>1. w.high \in -1..MaxKey
    BY DEF IsWallet
  <2> QED BY <2>1, SizesGrow
<1> DEFINE Grown(v) == Cardinality(SizesUpTo(v))
           Last == Sizes - 1
           Right == {i \in 0..Last : Passed(w, pass[i], n) /\ (Steady(pass[i], n) \/ Grown(pass[i]) >= i + 1)}
<1>3. 0 \in Right
  <2>1. Passed(w, w, n)
    <3>1. Reached(KeysIn(n)) \in -1..MaxKey
      BY KeysAreIndices, ReachedFacts
    <3> QED BY <3>1 DEF Passed, IsWallet, SameCustody, Larger
  <2>2. Grown(w) \in Nat /\ Grown(w) >= 1
    <3>1. w.high \in -1..MaxKey
      BY DEF IsWallet
    <3> QED BY <3>1, SizesGrow
  <2> HIDE DEF Grown
  <2> QED BY <1>1, <1>2, <2>1, <2>2
<1>4. ASSUME NEW i \in 0..Last - 1, i \in Right PROVE i + 1 \in Right
  <2> DEFINE v == pass[i]
             u == Found(v, n)
  <2>1. Passed(w, v, n) /\ (Steady(v, n) \/ Grown(v) >= i + 1) /\ IsWallet(v)
    BY <1>4 DEF Passed
  <2>2. i + 1 \in 1..Sizes /\ i + 1 \in 0..Last /\ (i + 1) - 1 = i
    BY <1>2
  <2>3. pass[i + 1] = u
    BY <1>1, <2>2
  <2>4. Passed(w, u, n)
    <3> HIDE DEF v
    <3> QED BY <2>1, PassKeeps
  <2>5. /\ Steady(v, n) => Steady(u, n)
        /\ ~Steady(v, n) => Window(v.high) < Window(u.high)
    <3> HIDE DEF v
    <3> QED BY <2>1, PassStep
  <2>6. ASSUME ~Steady(v, n) PROVE Grown(u) >= i + 1 + 1
    <3> HIDE DEF v, u
    <3>1. v.high \in -1..MaxKey /\ u.high \in -1..MaxKey
      BY <2>1, <2>4 DEF IsWallet, Passed
    <3>2. Grown(v) < Grown(u) /\ Grown(v) \in 1..Sizes /\ Grown(u) \in 1..Sizes
      BY <2>5, <2>6, <3>1, SizesGrow
    <3> HIDE DEF Grown
    <3> QED BY <1>2, <2>1, <2>6, <3>2
  <2> HIDE DEF v, u, Grown
  <2> QED BY <2>2, <2>3, <2>4, <2>5, <2>6
<1>5. Last \in Right
  <2>1. 0..Last \subseteq Right
    <3> HIDE DEF Right
    <3>1. Last \in Nat
      BY <1>2
    <3> HIDE DEF Last
    <3> QED BY <1>3, <1>4, <3>1, CountsOn
  <2>2. Last \in 0..Last
    BY <1>2
  <2> QED BY <2>1, <2>2
<1> DEFINE v == pass[Last]
           u == Found(v, n)
<1>6. Passed(w, v, n) /\ IsWallet(v)
  BY <1>5 DEF Passed
<1>7. Steady(v, n)
  <2> SUFFICES ASSUME ~Steady(v, n) PROVE FALSE
    OBVIOUS
  <2>1. Grown(v) >= Sizes
    <3> HIDE DEF Grown
    <3> QED BY <1>2, <1>5
  <2>2. Window(v.high) < Window(u.high) /\ v.high \in -1..MaxKey /\ u.high \in -1..MaxKey
    <3> HIDE DEF v
    <3>1. IsWallet(u) /\ Window(v.high) < Window(u.high)
      BY <1>6, PassStep
    <3> HIDE DEF u
    <3> QED BY <1>6, <3>1 DEF IsWallet
  <2> HIDE DEF v, u
  <2>3. Grown(v) < Grown(u) /\ Grown(v) \in 1..Sizes /\ Grown(u) \in 1..Sizes
    BY <2>2, SizesGrow
  <2> HIDE DEF Grown
  <2> QED BY <1>2, <2>1, <2>3
<1>8. ReadAll(w, n) = u
  <2>1. Sizes \in 1..Sizes
    BY <1>2
  <2> QED BY <1>1, <2>1
<1> HIDE DEF v
<1> QED BY <1>6, <1>7, <1>8

\* A wallet that has reached what it marks of a history without a wide gap marks all of it.
LEMMA AllMarked ==
  ASSUME ledger \in Seq(Outputs), NEW n \in 0..Len(ledger), NEW r, r.high \in -1..MaxKey, Dense(KeysIn(n)),
         Reached(MarkedKeys(r, n)) <= r.high
  PROVE  \A p \in 1..n : ledger[p].key < Window(r.high)
<1> DEFINE M == MarkedKeys(r, n)
           K == KeysIn(n)
           W == Window(r.high)
<1>0. LookAhead \in Nat
  OBVIOUS
<1>1. W \in Nat /\ W > r.high + LookAhead
  BY WindowFacts
<1>2. M \in SUBSET Indices /\ K \in SUBSET Indices /\ M \subseteq K
  BY KeysAreIndices
<1>3. \A k \in K : k < W => k \in M
  BY DEF KeysIn, KeysAt, MarkedKeys, Marks
<1>4. \A k \in M : k < W
  BY DEF KeysAt, MarkedKeys, Marks
<1>5. Reached(M) \in -1..MaxKey /\ \A k \in M : LetReach(M, k) => k <= Reached(M)
  <2> HIDE DEF M
  <2> QED BY <1>2, ReachedFacts
<1>6. Reached(M) <= r.high /\ r.high \in Int
  OBVIOUS
<1>7. \A k \in K : LetReach(K, k)
  BY DEF Dense
<1> SUFFICES ASSUME NEW p \in 1..n, ~(ledger[p].key < W) PROVE FALSE
  OBVIOUS
<1> DEFINE k == ledger[p].key
<1>8. k \in K
  BY DEF KeysIn, KeysAt
<1>9. k >= W /\ k \in Int
  <2>1. k \in Int
    BY <1>2, <1>8 DEF Indices
  <2> HIDE DEF W, k
  <2> QED BY <1>1, <2>1 DEF k
<1> DEFINE T == M \cup {-1}
<1>10. \A x \in M : x \in Int /\ x >= 0 /\ x <= MaxKey
  BY <1>2 DEF Indices
<1> HIDE DEF M, K, W, k
<1>11. PICK b \in T : \A y \in T : y <= b
  <2>1. T # {} /\ \A x \in T : x \in Int /\ x <= MaxKey
    BY <1>10
  <2>2. MaxKey \in Int
    OBVIOUS
  <2> HIDE DEF T
  <2>3. Max(T) \in T /\ \A y \in T : y <= Max(T)
    BY <2>1, <2>2, LargestIs
  <2> QED BY <2>3
<1>12. b \in Int /\ b >= -1 /\ \A y \in M : y <= b
  BY <1>10, <1>11
<1>13. b <= r.high
  <2>1. CASE b = -1
    BY <2>1
  <2>2. CASE b \in M
    <3>1. LetReach(M, b)
      <4> SUFFICES ASSUME NEW i \in M \cup {-1}, i < b PROVE \E s \in M : i < s /\ s <= i + LookAhead
        BY DEF LetReach
      <4>1. PICK s \in K : i < s /\ s <= i + LookAhead
        BY <1>2, <1>7, <2>2 DEF LetReach
      <4>2. s \in Int /\ i \in Int
        BY <1>2, <1>10 DEF Indices
      <4>3. CASE s < W
        BY <1>3, <4>1, <4>3
      <4>4. CASE ~(s < W)
        <5>1. b < W
          BY <1>4, <2>2
        <5>2. b <= i + LookAhead
          BY <1>0, <1>1, <1>12, <4>1, <4>2, <4>4, <5>1
        <5> QED BY <2>2, <5>2
      <4> QED BY <4>3, <4>4
    <3> QED BY <1>5, <1>6, <1>12, <2>2, <3>1
  <2> QED BY <1>11, <2>1, <2>2
<1>14. b < k /\ b \in K \cup {-1}
  <2>1. b < k
    BY <1>0, <1>1, <1>6, <1>9, <1>12, <1>13
  <2> QED BY <1>2, <1>11, <2>1
<1>15. PICK s \in K : b < s /\ s <= b + LookAhead
  BY <1>7, <1>8, <1>14 DEF LetReach
<1>16. s \in Int /\ s < W
  <2>1. s \in Int
    BY <1>2 DEF Indices
  <2> QED BY <1>0, <1>1, <1>6, <1>12, <1>13, <1>15, <2>1
<1>17. s \in M
  BY <1>3, <1>16
<1> QED BY <1>12, <1>15, <1>16, <1>17

\* A whole read keeps the wallet's records and its exposure, leaves a restored wallet's exposure over its whole window,
\* and of a history without a wide gap it marks everything.
LEMMA ReadFacts ==
  ASSUME ledger \in Seq(Outputs), NEW n \in 0..Len(ledger), NEW w, IsWallet(w)
  PROVE  LET r == ReadAll(w, n)
         IN /\ IsWallet(r) /\ SameCustody(w, r)
            /\ w.high <= r.high /\ w.found <= r.found /\ r.high <= Larger(w.high, Reached(KeysIn(n)))
            /\ w.exposed # Unknown => r.exposed # Unknown /\ w.exposed <= r.exposed /\ r.since = w.since
            /\ w.exposed # Unknown /\ w.since # Unmarked /\ w.after = {} /\ Full(w) => Full(r)
            /\ w.exposed = Unknown /\ w.after = {} => r.exposed # Unknown /\ r.since = n /\ Full(r)
            /\ Dense(KeysIn(n)) => (\A p \in 1..n : ledger[p].key < Window(r.high)) /\ Reached(KeysIn(n)) <= r.high
<1> DEFINE r == ReadAll(w, n)
<1>1. PICK v : Passed(w, v, n) /\ Steady(v, n) /\ r = Found(v, n)
  BY ReadEnds
<1>2. Passed(w, r, n)
  BY <1>1, PassKeeps
<1>3. IsWallet(v)
  BY <1>1 DEF Passed
<1>4. /\ Reached(MarkedKeys(r, n)) <= r.high
      /\ v.exposed = Unknown => r.exposed # Unknown
      /\ v.exposed # Unknown /\ v.since # Unmarked /\ v.after = {} /\ (Full(v) \/ Supported(v, n)) => Full(r)
  <2> DEFINE u == Found(v, n)
  <2>1. /\ Reached(MarkedKeys(u, n)) <= u.high
        /\ v.exposed = Unknown => u.exposed # Unknown
        /\ v.exposed # Unknown /\ v.since # Unmarked /\ v.after = {} /\ (Full(v) \/ Supported(v, n)) => Full(u)
    <3>1. /\ Steady(v, n) => Steady(u, n) /\ Marks(u, n) = Marks(v, n) /\ Reached(MarkedKeys(u, n)) <= u.high
          /\ Steady(v, n) /\ v.exposed = Unknown => u.exposed # Unknown
          /\ Steady(v, n) /\ v.exposed # Unknown /\ v.since # Unmarked /\ v.after = {} /\ (Full(v) \/ Supported(v, n)) => Full(u)
      BY <1>3, PassStep
    <3> HIDE DEF u
    <3> QED BY <1>1, <3>1
  <2> HIDE DEF r
  <2>2. r = u
    BY <1>1
  <2> HIDE DEF u
  <2> QED BY <2>1, <2>2
<1>5. v.exposed # Unknown => r.exposed # Unknown
  <2>1. v.exposed # Unknown => Found(v, n).exposed # Unknown
    BY <1>3, FoundFacts
  <2> HIDE DEF r
  <2> QED BY <1>1, <2>1
<1> HIDE DEF r
<1>6. ASSUME w.exposed # Unknown, w.since # Unmarked, w.after = {}, Full(w) PROVE Full(r)
  <2>1. v.exposed # Unknown /\ v.since # Unmarked /\ v.after = {} /\ (Full(v) \/ Supported(v, n))
    BY <1>1, <1>6 DEF Passed, SameCustody
  <2> QED BY <1>4, <2>1
<1>7. ASSUME w.exposed = Unknown, w.after = {} PROVE r.exposed # Unknown /\ r.since = n /\ Full(r)
  <2>1. r.exposed # Unknown
    BY <1>4, <1>5
  <2> QED BY <1>2, <1>7, <2>1 DEF Passed
<1>8. ASSUME Dense(KeysIn(n))
      PROVE  (\A p \in 1..n : ledger[p].key < Window(r.high)) /\ Reached(KeysIn(n)) <= r.high
  <2>1. r.high \in -1..MaxKey
    BY <1>2 DEF Passed, IsWallet
  <2>2. \A p \in 1..n : ledger[p].key < Window(r.high)
    BY <1>4, <1>8, <2>1, AllMarked
  <2>3. Marks(r, n) = 1..n
    BY <2>2 DEF Marks
  <2>4. MarkedKeys(r, n) = KeysIn(n)
    BY <2>3 DEF MarkedKeys, KeysIn
  <2> QED BY <1>4, <2>2, <2>4
<1> QED BY <1>2, <1>6, <1>7, <1>8 DEF Passed, r

-----------------------------------------------------------------------------
\* The invariant.

KeysOf(l, n) == {l[p].key : p \in 1..n}
Reach(l, n) == Reached(KeysOf(l, n))

\* The history's outputs open no gap wider than the look-ahead, at any index a view ends at.
History(l, e) == l \in Seq(Outputs) /\ e \in 0..Len(l) /\ \A n \in 0..Len(l) : Dense(KeysOf(l, n))

\* An instance has reached no further than the longest view read, and its window covers all it judged at; its requests
\* hold keys that were named; a restored one that has not read yet has no mark of a restoration's reads.
Known(w, l, e, names) ==
  /\ IsWallet(w) /\ w.high <= Reach(l, e) /\ w.seen <= e
  /\ \A p \in 1..w.seen : l[p].key < Window(w.high)
  /\ \A k \in w.requests : names[k] # 0
  /\ w.exposed = Unknown => w.since = Unmarked /\ w.after = {}

\* Every key was named once and within the look-ahead of what was reached.
NamesOK ==
  /\ named \in [Indices -> 0..1] /\ \A k \in Indices : named[k] # 0 => k <= Reach(ledger, seenEver) + LookAhead
  /\ \A s \in sent : s \in Outputs /\ s.key <= Reach(ledger, seenEver) + LookAhead
  /\ \A k \in asked : k \in Indices /\ named[k] # 0

\* An open request is credited nowhere, or a restoration marked it.
CreditsOK ==
  /\ credits \in [Indices -> 0..1] /\ \A k \in Indices : credits[k] # 0 => named[k] # 0
  /\ \A k \in wallet.requests \ wallet.doubtful : (\A c \in wallet.credited : c.key # k) => credits[k] = 0

\* A wallet that knows its exposure has every named key within it, or has its whole window exposed: it names no key
\* until it moves the window on from a view that reaches all of them.
Covers(w, names) ==
  w.exposed # Unknown => \/ \A k \in Indices : names[k] # 0 => k <= Larger(w.exposed, w.found)
                         \/ w.since # Unmarked /\ w.after = {} /\ Full(w)

KeysSound ==
  /\ History(ledger, seenEver) /\ NamesOK /\ CreditsOK /\ Covers(wallet, named)
  /\ Known(wallet, ledger, seenEver, named)
  /\ copy # None => Known(copy, ledger, seenEver, named)
  /\ backup # None => /\ Known(backup, ledger, seenEver, named)
                      /\ wallet.frozen /\ backup = [wallet EXCEPT !.frozen = FALSE]

\* A longer view reaches no lower.
LEMMA ReachGrows ==
  ASSUME NEW l \in Seq(Outputs), NEW n \in 0..Len(l), NEW m \in 0..Len(l)
  PROVE  /\ KeysOf(l, n) \in SUBSET Indices /\ Reach(l, n) \in -1..MaxKey
         /\ n <= m => Reach(l, n) <= Reach(l, m)
<1>1. \A p \in 1..Len(l) : l[p] \in Outputs
  OBVIOUS
<1>2. KeysOf(l, n) \in SUBSET Indices /\ KeysOf(l, m) \in SUBSET Indices
  BY <1>1 DEF KeysOf, Outputs
<1>3. n <= m => KeysOf(l, n) \subseteq KeysOf(l, m)
  BY DEF KeysOf
<1> QED BY <1>2, <1>3, ReachedFacts, ReachesNoLower DEF Reach

\* What is known of an instance is known still when a view reads on and more keys are named.
LEMMA KnownLater ==
  ASSUME NEW l, NEW e, History(l, e), NEW f \in e..Len(l), NEW names, NEW more,
         NEW w, Known(w, l, e, names), \A k \in Indices : names[k] # 0 => more[k] # 0
  PROVE  Known(w, l, f, more) /\ History(l, f) /\ Reach(l, e) <= Reach(l, f)
<1>1. e \in Nat /\ e <= f /\ f \in 0..Len(l) /\ l \in Seq(Outputs) /\ e \in 0..Len(l)
  BY DEF History
<1>2. Reach(l, e) <= Reach(l, f) /\ Reach(l, e) \in -1..MaxKey /\ Reach(l, f) \in -1..MaxKey
  BY <1>1, ReachGrows
<1>3. w.high \in Int /\ w.seen \in Nat /\ w.requests \subseteq Indices
  BY DEF Known, IsWallet
<1>4. w.high <= Reach(l, f) /\ w.seen <= f
  <2>1. w.high <= Reach(l, e) /\ w.seen <= e
    BY DEF Known
  <2> QED BY <1>1, <1>2, <1>3, <2>1
<1>5. \A k \in w.requests : more[k] # 0
  BY <1>3 DEF Known
<1> QED BY <1>1, <1>2, <1>4, <1>5 DEF Known, History

\* A new output leaves the views that were read as they were.
LEMMA KnownAppended ==
  ASSUME NEW l, NEW e, History(l, e), NEW o \in Outputs
  PROVE  LET m == Append(l, o)
         IN /\ Reach(m, e) = Reach(l, e)
            /\ \A w, names : Known(w, l, e, names) => Known(w, m, e, names)
<1> DEFINE m == Append(l, o)
<1>1. l \in Seq(Outputs) /\ e \in 0..Len(l)
  BY DEF History
<1>2. \A p \in 1..Len(l) : m[p] = l[p]
  BY <1>1
<1> HIDE DEF m
<1>3. \A p \in 1..e : m[p] = l[p]
  BY <1>1, <1>2
<1>4. KeysOf(m, e) = KeysOf(l, e)
  BY <1>3 DEF KeysOf
<1>5. Reach(m, e) = Reach(l, e)
  BY <1>4 DEF Reach
<1>6. ASSUME NEW w, NEW names, Known(w, l, e, names) PROVE Known(w, m, e, names)
  <2>1. w.seen \in Nat /\ w.seen <= e
    BY <1>6 DEF Known, IsWallet
  <2>2. \A p \in 1..w.seen : m[p].key < Window(w.high)
    <3> SUFFICES ASSUME NEW p \in 1..w.seen PROVE m[p].key < Window(w.high)
      OBVIOUS
    <3>1. p \in 1..e
      BY <1>1, <2>1
    <3>2. l[p].key < Window(w.high)
      BY <1>6 DEF Known
    <3> QED BY <1>3, <3>1, <3>2
  <2> QED BY <1>5, <1>6, <2>2 DEF Known
<1> QED BY <1>5, <1>6 DEF m

\* An output to a key within the look-ahead of what was reached opens no wide gap.
LEMMA HistoryGoesOn ==
  ASSUME NEW l, NEW e, History(l, e), NEW o \in Outputs, o.key <= Reach(l, e) + LookAhead
  PROVE  History(Append(l, o), e)
<1> DEFINE m == Append(l, o)
           L == Len(l)
<1>1. l \in Seq(Outputs) /\ e \in 0..L /\ L \in Nat /\ L \in 0..L /\ e <= L
  BY DEF History
<1>2. m \in Seq(Outputs) /\ Len(m) = L + 1 /\ (\A p \in 1..L : m[p] = l[p]) /\ m[L + 1] = o
  BY <1>1
<1>3. Reach(l, e) <= Reach(l, L) /\ Reach(l, L) \in -1..MaxKey /\ Reach(l, e) \in -1..MaxKey /\ KeysOf(l, L) \in SUBSET Indices
  BY <1>1, ReachGrows
<1>4. o.key \in Indices /\ o.key \in Int
  BY DEF Outputs, Indices
<1>5. o.key <= Reach(l, L) + LookAhead
  BY <1>3, <1>4
<1>6. Dense(KeysOf(l, L) \cup {o.key})
  <2>1. Dense(KeysOf(l, L))
    BY <1>1 DEF History
  <2> QED BY <1>3, <1>4, <1>5, <2>1, DenseGoesOn DEF Reach
<1> HIDE DEF m, L
<1>7. KeysOf(m, L + 1) = KeysOf(l, L) \cup {o.key}
  <2>1. 1..L + 1 = (1..L) \cup {L + 1}
    BY <1>1
  <2> QED BY <1>2, <2>1 DEF KeysOf
<1>8. ASSUME NEW n \in 0..Len(m) PROVE Dense(KeysOf(m, n))
  <2>1. CASE n = L + 1
    BY <1>6, <1>7, <2>1
  <2>2. CASE n # L + 1
    <3>1. n \in 0..L
      BY <1>1, <1>2, <2>2
    <3>2. KeysOf(m, n) = KeysOf(l, n)
      BY <1>1, <1>2, <3>1 DEF KeysOf
    <3> QED BY <3>1, <3>2 DEF History, L
  <2> QED BY <2>1, <2>2
<1>9. e \in 0..Len(m)
  BY <1>1, <1>2
<1> QED BY <1>2, <1>8, <1>9 DEF History, m

-----------------------------------------------------------------------------
\* A wallet's records changed.

WalletFields == {"frozen", "forked", "exposed", "high", "found", "since", "after", "saved", "requests", "credited", "doubtful", "seen"}
Whole(w) == w = [f \in WalletFields |-> w[f]]
Records(w) ==
  [frozen |-> w.frozen, forked |-> w.forked, exposed |-> w.exposed, high |-> w.high, found |-> w.found,
   since |-> w.since, after |-> w.after, saved |-> w.saved, requests |-> w.requests,
   credited |-> w.credited, doubtful |-> w.doubtful, seen |-> w.seen]

\* A function on the fields of a wallet is the record of its values there.
LEMMA WholeRecords == \A w : Whole(w) <=> w = Records(w)
<1>1. ASSUME NEW w, w = Records(w) PROVE Whole(w)
  BY <1>1 DEF Records, WalletFields, Whole
<1>2. ASSUME NEW w, Whole(w) PROVE w = Records(w)
  <2> DEFINE x == Records(w)
  <2>1. x = [f \in WalletFields |-> x[f]]
    BY DEF Records, WalletFields
  <2>2. \A f \in WalletFields : x[f] = w[f]
    BY DEF Records, WalletFields
  <2> HIDE DEF x
  <2>3. x = w
    BY <1>2, <2>1, <2>2 DEF Whole
  <2> QED BY <2>3 DEF x
<1> QED BY <1>1, <1>2

\* What a wallet record is, by its fields.
LEMMA WalletIs ==
  ASSUME NEW w
  PROVE  IsWallet(w) <=> /\ Whole(w)
                         /\ w.frozen \in BOOLEAN
                         /\ w.exposed \in Int /\ w.exposed >= Unknown
                         /\ w.high \in -1..MaxKey /\ w.found \in -1..MaxKey
                         /\ w.since \in Int /\ w.since >= Unmarked /\ w.seen \in Nat /\ w.requests \subseteq Indices
BY WholeRecords DEF IsWallet, Records

-----------------------------------------------------------------------------
\* The actions that read the venue.

\* Recording the index a resolution decided at changes nothing else.
LEMMA SawFacts ==
  ASSUME NEW w, IsWallet(w), NEW n \in Nat
  PROVE  LET v == Saw(w, n)
         IN /\ IsWallet(v) /\ v.seen = Larger(w.seen, n)
            /\ v.frozen = w.frozen /\ v.after = w.after /\ v.saved = w.saved /\ v.requests = w.requests
            /\ v.credited = w.credited /\ v.doubtful = w.doubtful
            /\ v.exposed = w.exposed /\ v.high = w.high /\ v.found = w.found /\ v.since = w.since
<1> DEFINE v == [frozen |-> w.frozen, forked |-> w.forked, exposed |-> w.exposed, high |-> w.high, found |-> w.found,
                 since |-> w.since, after |-> w.after, saved |-> w.saved, requests |-> w.requests,
                 credited |-> w.credited, doubtful |-> w.doubtful, seen |-> Larger(w.seen, n)]
<1>1. Saw(w, n) = v
  BY DEF Saw, IsWallet
<1>2. Larger(w.seen, n) \in Nat
  BY DEF Larger, IsWallet
<1>3. IsWallet(v)
  <2> HIDE DEF Larger
  <2> QED BY <1>2 DEF IsWallet
<1> QED BY <1>1, <1>3

\* What a read of the active instance leaves it knowing.
LEMMA ReadKnown ==
  ASSUME KeysSound, NEW n \in 0..Len(ledger)
  PROVE  LET r == ReadAll(wallet, n)
             e == Larger(seenEver, n)
         IN /\ e \in seenEver..Len(ledger) /\ n <= e /\ n \in Nat
            /\ Known(r, ledger, e, named) /\ SameCustody(wallet, r) /\ Covers(r, named) /\ r.exposed # Unknown
            /\ Reach(ledger, n) <= r.high
            /\ \A p \in 1..n : ledger[p].key < Window(r.high)
<1> DEFINE r == ReadAll(wallet, n)
           e == Larger(seenEver, n)
<1>1. ledger \in Seq(Outputs) /\ seenEver \in 0..Len(ledger) /\ Dense(KeysOf(ledger, n)) /\ Len(ledger) \in Nat
  BY DEF KeysSound, History
<1>2. e \in seenEver..Len(ledger) /\ n <= e /\ n \in Nat /\ e \in 0..Len(ledger) /\ seenEver <= e
  BY <1>1 DEF Larger
<1>3. KeysIn(n) = KeysOf(ledger, n)
  BY DEF KeysIn, KeysOf, KeysAt
<1>4. IsWallet(wallet) /\ wallet.high <= Reach(ledger, seenEver) /\ wallet.seen <= seenEver
      /\ (wallet.exposed = Unknown => wallet.since = Unmarked /\ wallet.after = {})
  BY DEF KeysSound, Known
<1>5. /\ IsWallet(r) /\ SameCustody(wallet, r)
      /\ wallet.high <= r.high /\ wallet.found <= r.found /\ r.high <= Larger(wallet.high, Reach(ledger, n))
      /\ wallet.exposed # Unknown => r.exposed # Unknown /\ wallet.exposed <= r.exposed /\ r.since = wallet.since
      /\ wallet.exposed # Unknown /\ wallet.since # Unmarked /\ wallet.after = {} /\ Full(wallet) => Full(r)
      /\ wallet.exposed = Unknown /\ wallet.after = {} => r.exposed # Unknown /\ r.since = n /\ Full(r)
      /\ (\A p \in 1..n : ledger[p].key < Window(r.high)) /\ Reach(ledger, n) <= r.high
  BY <1>1, <1>3, <1>4, ReadFacts DEF Reach
<1> HIDE DEF r, e
<1>6. r.exposed # Unknown
  BY <1>4, <1>5
<1>7. Reach(ledger, seenEver) <= Reach(ledger, e) /\ Reach(ledger, n) <= Reach(ledger, e)
      /\ Reach(ledger, e) \in Int /\ Reach(ledger, n) \in Int /\ Reach(ledger, seenEver) \in Int
  BY <1>1, <1>2, ReachGrows
<1>8. r.high <= Reach(ledger, e) /\ r.seen <= e /\ r.seen = wallet.seen
  <2>1. wallet.high \in Int /\ r.high \in Int /\ wallet.seen \in Nat /\ r.seen = wallet.seen
    BY <1>4, <1>5 DEF IsWallet, SameCustody
  <2> QED BY <1>1, <1>2, <1>4, <1>5, <1>7, <2>1 DEF Larger
<1>9. \A p \in 1..r.seen : ledger[p].key < Window(r.high)
  <2> SUFFICES ASSUME NEW p \in 1..wallet.seen PROVE ledger[p].key < Window(r.high)
    BY <1>8
  <2>1. ledger[p].key < Window(wallet.high)
    BY DEF KeysSound, Known
  <2>2. Window(wallet.high) \in Nat /\ Window(r.high) \in Nat /\ Window(wallet.high) <= Window(r.high)
    BY <1>4, <1>5, WindowFacts DEF IsWallet
  <2>3. ledger[p].key \in Int
    <3>1. p \in 1..Len(ledger)
      BY <1>1, <1>4 DEF IsWallet
    <3>2. ledger[p] \in Outputs
      BY <1>1, <3>1
    <3> QED BY <3>2 DEF Outputs, Indices
  <2> QED BY <2>1, <2>2, <2>3
<1>10. \A k \in r.requests : named[k] # 0
  BY <1>5 DEF SameCustody, KeysSound, Known
<1>11. Covers(r, named)
  <2>1. CASE wallet.exposed = Unknown
    <3>1. r.since = n /\ n # Unmarked /\ r.after = {} /\ Full(r)
      BY <1>2, <1>4, <1>5, <2>1 DEF SameCustody, Unmarked
    <3> QED BY <3>1 DEF Covers
  <2>2. CASE wallet.exposed # Unknown /\ \A k \in Indices : named[k] # 0 => k <= Larger(wallet.exposed, wallet.found)
    <3>1. \A k \in Indices : named[k] # 0 => k <= Larger(r.exposed, r.found)
      <4> SUFFICES ASSUME NEW k \in Indices, named[k] # 0 PROVE k <= Larger(r.exposed, r.found)
        OBVIOUS
      <4>1. k <= Larger(wallet.exposed, wallet.found) /\ k \in Int
        BY <2>2 DEF Indices
      <4>2. wallet.exposed \in Int /\ wallet.found \in Int /\ r.exposed \in Int /\ r.found \in Int
        BY <1>4, <1>5 DEF IsWallet
      <4> QED BY <1>5, <2>2, <4>1, <4>2 DEF Larger
    <3> QED BY <3>1 DEF Covers
  <2>3. CASE wallet.exposed # Unknown /\ wallet.since # Unmarked /\ wallet.after = {} /\ Full(wallet)
    BY <1>5, <2>3 DEF SameCustody, Covers
  <2> QED BY <2>1, <2>2, <2>3 DEF KeysSound, Covers
<1>12. Known(r, ledger, e, named)
  BY <1>5, <1>6, <1>8, <1>9, <1>10 DEF Known
<1> QED BY <1>2, <1>5, <1>6, <1>11, <1>12 DEF r, e

\* What an action that read the active instance leaves of the rest.
LEMMA OthersKeep ==
  ASSUME KeysSound, Mutable, NEW n \in 0..Len(ledger), seenEver' = Larger(seenEver, n), UNCHANGED <<ledger, copy, backup>>,
         \A k \in Indices : named[k] # 0 => named'[k] # 0
  PROVE  /\ History(ledger', seenEver') /\ Reach(ledger, seenEver) <= Reach(ledger', seenEver')
         /\ Reach(ledger, seenEver) \in Int /\ Reach(ledger', seenEver') \in Int
         /\ copy' # None => Known(copy', ledger', seenEver', named')
         /\ backup' = None
<1> DEFINE e == Larger(seenEver, n)
<1>1. ledger \in Seq(Outputs) /\ seenEver \in 0..Len(ledger) /\ Len(ledger) \in Nat /\ History(ledger, seenEver)
  BY DEF KeysSound, History
<1>2. e \in seenEver..Len(ledger) /\ e \in 0..Len(ledger)
  BY <1>1 DEF Larger
<1> HIDE DEF e
<1>3. Known(wallet, ledger, seenEver, named) /\ (copy # None => Known(copy, ledger, seenEver, named))
  BY DEF KeysSound
<1> DEFINE more == named'
<1>4. \A k \in Indices : named[k] # 0 => more[k] # 0
  OBVIOUS
<1> HIDE DEF more
<1>5. History(ledger, e) /\ Reach(ledger, seenEver) <= Reach(ledger, e)
  BY <1>1, <1>2, <1>3, <1>4, KnownLater
<1>6. copy # None => Known(copy, ledger, e, more)
  BY <1>1, <1>2, <1>3, <1>4, KnownLater
<1>7. backup = None
  BY DEF KeysSound, Mutable
<1>8. Reach(ledger, seenEver) \in Int /\ Reach(ledger, e) \in Int
  BY <1>1, <1>2, ReachGrows
<1>9. seenEver' = e /\ ledger' = ledger /\ copy' = copy /\ backup' = backup /\ named' = more
  BY DEF e, more
<1> QED BY <1>5, <1>6, <1>7, <1>8, <1>9

\* What was named is within what is now reached, and no credit is undone.
LEMMA NamesKeep ==
  ASSUME KeysSound, Mutable, NEW n \in 0..Len(ledger), seenEver' = Larger(seenEver, n), UNCHANGED <<ledger, copy, backup, named, sent, asked>>
  PROVE  NamesOK'
<1>1. Reach(ledger, seenEver) <= Reach(ledger', seenEver') /\ Reach(ledger, seenEver) \in Int /\ Reach(ledger', seenEver') \in Int
  BY OthersKeep
<1>2. LookAhead \in Nat
  OBVIOUS
<1> DEFINE B == Reach(ledger, seenEver) + LookAhead
           C == Reach(ledger', seenEver') + LookAhead
<1>3. B \in Int /\ C \in Int /\ B <= C
  BY <1>1, <1>2
<1>4. /\ named \in [Indices -> 0..1] /\ \A k \in Indices : named[k] # 0 => k <= B
      /\ \A s \in sent : s \in Outputs /\ s.key <= B
      /\ \A k \in asked : k \in Indices /\ named[k] # 0
  BY DEF KeysSound, NamesOK
<1> HIDE DEF B, C
<1>5. \A k \in Indices : named[k] # 0 => k <= C
  <2> SUFFICES ASSUME NEW k \in Indices, named[k] # 0 PROVE k <= C
    OBVIOUS
  <2>1. k \in Int /\ k <= B
    BY <1>4 DEF Indices
  <2> QED BY <1>3, <2>1
<1>6. \A s \in sent : s \in Outputs /\ s.key <= C
  <2> SUFFICES ASSUME NEW s \in sent PROVE s \in Outputs /\ s.key <= C
    OBVIOUS
  <2>1. s \in Outputs /\ s.key \in Int /\ s.key <= B
    BY <1>4 DEF Outputs, Indices
  <2> QED BY <1>3, <2>1
<1> QED BY <1>4, <1>5, <1>6 DEF NamesOK, C

\* A synchronization keeps the invariant.
LEMMA SyncSound == ASSUME KeysSound, NEW n \in 0..Len(ledger), Sync(n) PROVE KeysSound'
<1> DEFINE r == ReadAll(wallet, n)
           v == Saw(r, n)
           e == Larger(seenEver, n)
<1>1. Mutable /\ wallet' = v /\ seenEver' = e /\ UNCHANGED <<ledger, copy, backup, sent, asked, named, credits>>
  BY DEF Sync
<1>2. /\ e \in seenEver..Len(ledger) /\ n <= e /\ n \in Nat
      /\ Known(r, ledger, e, named) /\ SameCustody(wallet, r) /\ Covers(r, named)
      /\ \A p \in 1..n : ledger[p].key < Window(r.high)
  BY ReadKnown
<1> HIDE DEF r
<1>3. /\ IsWallet(v) /\ v.seen = Larger(r.seen, n)
      /\ v.frozen = r.frozen /\ v.after = r.after /\ v.saved = r.saved /\ v.requests = r.requests
      /\ v.credited = r.credited /\ v.doubtful = r.doubtful
      /\ v.exposed = r.exposed /\ v.high = r.high /\ v.found = r.found /\ v.since = r.since
  BY <1>2, SawFacts DEF Known
<1> HIDE DEF v, e
<1>4. Known(v, ledger, e, named) /\ Covers(v, named)
  <2>1. v.seen <= e /\ \A p \in 1..v.seen : ledger[p].key < Window(v.high)
    BY <1>2, <1>3 DEF Larger, Known
  <2>2. Covers(v, named)
    BY <1>2, <1>3 DEF Covers, Full
  <2> QED BY <1>2, <1>3, <2>1, <2>2 DEF Known
<1>5. History(ledger', seenEver') /\ (copy' # None => Known(copy', ledger', seenEver', named')) /\ backup' = None
  BY <1>1, OthersKeep DEF e
<1>6. NamesOK'
  BY <1>1, NamesKeep DEF e
<1>7. CreditsOK'
  <2>1. v.requests = wallet.requests /\ v.doubtful = wallet.doubtful /\ v.credited = wallet.credited
    BY <1>2, <1>3 DEF SameCustody
  <2>2. CreditsOK
    BY DEF KeysSound
  <2> QED BY <1>1, <2>1, <2>2 DEF CreditsOK
<1>8. Known(wallet', ledger', seenEver', named') /\ Covers(wallet', named')
  BY <1>1, <1>4
<1> QED BY <1>5, <1>6, <1>7, <1>8 DEF KeysSound

\* Crediting a request keeps the invariant: no instance credited it before.
LEMMA FulfilSound == ASSUME KeysSound, NEW n \in 0..Len(ledger), NEW k \in Indices, Fulfil(k, n) PROVE KeysSound'
<1> DEFINE r == ReadAll(wallet, n)
           e == Larger(seenEver, n)
<1>1. /\ Mutable /\ seenEver' = e /\ UNCHANGED <<ledger, copy, backup, sent, asked, named>>
      /\ k \in wallet.requests /\ (\A c \in wallet.credited : c.key # k) /\ (k \in wallet.doubtful => credits[k] = 0)
      /\ credits' = [credits EXCEPT ![k] = @ + 1]
  BY DEF Fulfil, Unforked
<1>2. PICK p \in 1..n : wallet' = Saw([r EXCEPT !.credited = @ \cup {[key |-> k, at |-> p]}, !.doubtful = @ \ {k}], n)
  BY DEF Fulfil
<1>3. /\ e \in seenEver..Len(ledger) /\ n <= e /\ n \in Nat
      /\ Known(r, ledger, e, named) /\ SameCustody(wallet, r) /\ Covers(r, named)
      /\ \A q \in 1..n : ledger[q].key < Window(r.high)
  BY ReadKnown
<1> HIDE DEF r
<1> DEFINE c == [key |-> k, at |-> p]
           u == [r EXCEPT !.credited = @ \cup {c}, !.doubtful = @ \ {k}]
           v == Saw(u, n)
<1>4. /\ IsWallet(u) /\ u.seen = r.seen
      /\ u.frozen = r.frozen /\ u.after = r.after /\ u.saved = r.saved /\ u.requests = r.requests
      /\ u.credited = r.credited \cup {c} /\ u.doubtful = r.doubtful \ {k}
      /\ u.exposed = r.exposed /\ u.high = r.high /\ u.found = r.found /\ u.since = r.since
  <2> HIDE DEF c
  <2>1. IsWallet(r) /\ Whole(r)
    BY <1>3, WalletIs DEF Known
  <2>2. Whole(u)
    BY <2>1 DEF Whole
  <2>3. /\ u.seen = r.seen
        /\ u.frozen = r.frozen /\ u.after = r.after /\ u.saved = r.saved /\ u.requests = r.requests
        /\ u.credited = r.credited \cup {c} /\ u.doubtful = r.doubtful \ {k}
        /\ u.exposed = r.exposed /\ u.high = r.high /\ u.found = r.found /\ u.since = r.since
    BY <2>1 DEF Whole, WalletFields
  <2> HIDE DEF u
  <2> QED BY <2>1, <2>2, <2>3, WalletIs
<1> HIDE DEF u
<1>5. /\ IsWallet(v) /\ v.seen = Larger(u.seen, n)
      /\ v.frozen = u.frozen /\ v.after = u.after /\ v.saved = u.saved /\ v.requests = u.requests
      /\ v.credited = u.credited /\ v.doubtful = u.doubtful
      /\ v.exposed = u.exposed /\ v.high = u.high /\ v.found = u.found /\ v.since = u.since
  BY <1>3, <1>4, SawFacts
<1>6. wallet' = v
  BY <1>2 DEF u
<1> HIDE DEF v, e
<1>7. Known(v, ledger, e, named) /\ Covers(v, named)
  <2>1. v.seen <= e /\ \A q \in 1..v.seen : ledger[q].key < Window(v.high)
    BY <1>3, <1>4, <1>5 DEF Larger, Known
  <2>2. Covers(v, named)
    BY <1>3, <1>4, <1>5 DEF Covers, Full
  <2> QED BY <1>3, <1>4, <1>5, <2>1, <2>2 DEF Known
<1>8. History(ledger', seenEver') /\ (copy' # None => Known(copy', ledger', seenEver', named')) /\ backup' = None
  BY <1>1, OthersKeep DEF e
<1>9. NamesOK'
  BY <1>1, NamesKeep DEF e
<1>10. /\ credits \in [Indices -> 0..1] /\ \A j \in Indices : credits[j] # 0 => named[j] # 0
       /\ \A j \in wallet.requests \ wallet.doubtful : (\A d \in wallet.credited : d.key # j) => credits[j] = 0
  BY DEF KeysSound, CreditsOK
<1>11. credits[k] = 0
  BY <1>1, <1>10
<1>12. named[k] # 0
  BY <1>1 DEF KeysSound, Known
<1>13. credits' \in [Indices -> 0..1] /\ \A j \in Indices : credits'[j] # 0 => named'[j] # 0
  BY <1>1, <1>10, <1>11, <1>12
<1>14. ASSUME NEW j \in v.requests \ v.doubtful, \A d \in v.credited : d.key # j PROVE credits'[j] = 0
  <2>1. v.requests = wallet.requests /\ v.doubtful = wallet.doubtful \ {k} /\ v.credited = wallet.credited \cup {c}
    BY <1>3, <1>4, <1>5 DEF SameCustody
  <2>2. j # k
    <3>1. c.key = k /\ c \in v.credited
      BY <2>1
    <3> HIDE DEF c
    <3> QED BY <1>14, <3>1
  <2>3. j \in wallet.requests \ wallet.doubtful /\ \A d \in wallet.credited : d.key # j
    BY <1>14, <2>1, <2>2
  <2>4. j \in Indices
    BY <2>3 DEF KeysSound, Known, IsWallet
  <2> QED BY <1>1, <1>10, <2>2, <2>3, <2>4
<1>15. CreditsOK'
  BY <1>6, <1>13, <1>14 DEF CreditsOK
<1>16. Known(wallet', ledger', seenEver', named') /\ Covers(wallet', named')
  BY <1>1, <1>6, <1>7
<1> QED BY <1>8, <1>9, <1>15, <1>16 DEF KeysSound

-----------------------------------------------------------------------------
\* The actions that name a key.

\* A key that can be allocated was never named, and is within the look-ahead of what is reached.
LEMMA NextIsFresh ==
  ASSUME NEW w, NEW l, NEW e, NEW names, Known(w, l, e, names), Covers(w, names), CanAllocate(w), Reach(l, e) \in Int,
         names \in [Indices -> 0..1]
  PROVE  LET k == NextIndex(w)
         IN /\ k \in Indices /\ names[k] = 0 /\ k <= Reach(l, e) + LookAhead /\ w.found < k
            /\ \A j \in Indices : names[j] # 0 => j <= k
<1> DEFINE k == NextIndex(w)
<1>1. w.exposed \in Int /\ w.found \in Int /\ w.found >= -1 /\ w.high \in Int /\ w.high <= Reach(l, e) /\ LookAhead \in Nat
  BY DEF Known, IsWallet
<1>2. w.exposed # Unknown /\ k <= w.high + LookAhead /\ k <= MaxKey
  BY DEF CanAllocate
<1>3. k = Larger(w.exposed, w.found) + 1 /\ k \in Int /\ k > w.found /\ k > w.exposed
  BY <1>1 DEF NextIndex, Larger
<1> HIDE DEF k
<1>4. k \in Indices
  BY <1>1, <1>2, <1>3 DEF Indices
<1>5. ~Full(w)
  BY <1>1, <1>2, <1>3 DEF Full
<1>6. \A j \in Indices : names[j] # 0 => j < k
  <2> SUFFICES ASSUME NEW j \in Indices, names[j] # 0 PROVE j < k
    OBVIOUS
  <2>1. j <= Larger(w.exposed, w.found) /\ j \in Int
    BY <1>2, <1>5 DEF Covers, Indices
  <2>2. Larger(w.exposed, w.found) \in Int
    BY <1>1 DEF Larger
  <2> QED BY <1>3, <2>1, <2>2
<1>7. names[k] = 0
  <2>1. ~(k < k)
    BY <1>3
  <2> QED BY <1>4, <1>6, <2>1
<1>8. \A j \in Indices : names[j] # 0 => j <= k
  <2>1. \A j \in Indices : j \in Int
    BY DEF Indices
  <2> QED BY <1>3, <1>6, <2>1
<1> QED BY <1>1, <1>2, <1>3, <1>4, <1>7, <1>8 DEF k

\* The instance that named a key, for a request or for change, holds every named key within its exposure.
LEMMA AllocatedKnown ==
  ASSUME NEW w, NEW l, NEW e, NEW names, Known(w, l, e, names), Covers(w, names), CanAllocate(w), Reach(l, e) \in Int,
         names \in [Indices -> 0..1], NEW v, IsWallet(v), v.exposed = NextIndex(w), v.since = Unmarked, v.after = {},
         v.high = w.high, v.found = w.found, v.seen = w.seen, v.requests \subseteq w.requests \cup {NextIndex(w)}
  PROVE  LET k == NextIndex(w)
             more == [names EXCEPT ![k] = @ + 1]
         IN /\ Known(v, l, e, more) /\ Covers(v, more)
            /\ more \in [Indices -> 0..1] /\ more[k] = 1 /\ \A j \in Indices \ {k} : more[j] = names[j]
<1> DEFINE k == NextIndex(w)
           more == [names EXCEPT ![k] = @ + 1]
<1>1. k \in Indices /\ names[k] = 0 /\ w.found < k /\ \A j \in Indices : names[j] # 0 => j <= k
  BY NextIsFresh
<1>2. v.exposed = k /\ v.requests \subseteq w.requests \cup {k}
  OBVIOUS
<1> HIDE DEF k
<1>3. more \in [Indices -> 0..1] /\ more[k] = 1 /\ \A j \in Indices \ {k} : more[j] = names[j]
  BY <1>1
<1>4. k \in Int /\ k >= 0
  BY <1>1 DEF Indices
<1> HIDE DEF more
<1>5. \A j \in v.requests : more[j] # 0
  <2> SUFFICES ASSUME NEW j \in v.requests PROVE more[j] # 0
    OBVIOUS
  <2>1. CASE j = k
    BY <1>3, <2>1
  <2>2. CASE j # k
    <3>1. j \in w.requests /\ j \in Indices
      BY <1>2, <2>2 DEF Known, IsWallet
    <3>2. names[j] # 0
      BY <3>1 DEF Known
    <3> QED BY <1>3, <2>2, <3>1, <3>2
  <2> QED BY <2>1, <2>2
<1>6. Known(v, l, e, more)
  <2>1. v.exposed # Unknown
    BY <1>2, <1>4 DEF Unknown
  <2> QED BY <1>5, <2>1 DEF Known
<1>7. Covers(v, more)
  <2>1. \A j \in Indices : more[j] # 0 => j <= k
    BY <1>1, <1>3, <1>4
  <2>2. Larger(v.exposed, v.found) = k
    <3>1. w.found \in Int
      BY DEF Known, IsWallet
    <3> QED BY <1>1, <1>2, <1>4, <3>1 DEF Larger
  <2> QED BY <2>1, <2>2 DEF Covers
<1> QED BY <1>3, <1>6, <1>7 DEF more, k

\* A request given the next key keeps the invariant.
LEMMA RequestSound == ASSUME KeysSound, Request PROVE KeysSound'
<1> DEFINE k == NextIndex(wallet)
           e == seenEver
           v == [Allocated(wallet, k) EXCEPT !.requests = @ \cup {k}]
           more == [named EXCEPT ![k] = @ + 1]
<1>1. /\ Mutable /\ CanAllocate(wallet) /\ wallet' = v /\ asked' = asked \cup {k} /\ named' = more
      /\ UNCHANGED <<ledger, copy, backup, sent, seenEver, credits>>
  BY DEF Request, Unforked
<1>2. /\ Known(wallet, ledger, e, named) /\ Covers(wallet, named) /\ IsWallet(wallet) /\ Whole(wallet)
      /\ History(ledger, e) /\ NamesOK /\ CreditsOK
  BY WalletIs DEF KeysSound, Known
<1>3. Reach(ledger, e) \in Int /\ e \in e..Len(ledger) /\ ledger \in Seq(Outputs) /\ e \in 0..Len(ledger)
  BY <1>2, ReachGrows DEF History
<1>4. named \in [Indices -> 0..1]
  BY <1>2 DEF NamesOK
<1>5. k \in Indices /\ named[k] = 0 /\ k <= Reach(ledger, e) + LookAhead
  <2> HIDE DEF e
  <2> QED BY <1>1, <1>2, <1>3, <1>4, NextIsFresh
<1>6. /\ Whole(v) /\ v.exposed = k /\ v.since = Unmarked /\ v.after = {} /\ v.high = wallet.high /\ v.found = wallet.found
      /\ v.seen = wallet.seen /\ v.requests = wallet.requests \cup {k} /\ v.credited = wallet.credited
      /\ v.doubtful = wallet.doubtful /\ v.frozen = wallet.frozen
  <2> HIDE DEF k
  <2> DEFINE u == Allocated(wallet, k)
  <2>1. Whole(u)
    BY <1>2 DEF Whole, Allocated
  <2>2. /\ u.exposed = k /\ u.since = Unmarked /\ u.after = {} /\ u.high = wallet.high /\ u.found = wallet.found
        /\ u.seen = wallet.seen /\ u.requests = wallet.requests /\ u.credited = wallet.credited
        /\ u.doubtful = wallet.doubtful /\ u.frozen = wallet.frozen
    BY <1>2 DEF Whole, WalletFields, Allocated
  <2> HIDE DEF u
  <2>3. Whole(v)
    BY <2>1 DEF Whole, u
  <2>4. /\ v.exposed = u.exposed /\ v.since = u.since /\ v.after = u.after /\ v.high = u.high /\ v.found = u.found
        /\ v.seen = u.seen /\ v.requests = u.requests \cup {k} /\ v.credited = u.credited
        /\ v.doubtful = u.doubtful /\ v.frozen = u.frozen
    <3>1. v = [u EXCEPT !.requests = @ \cup {k}]
      BY DEF u
    <3> HIDE DEF v
    <3> QED BY <2>1, <3>1 DEF Whole, WalletFields
  <2> QED BY <2>2, <2>3, <2>4
<1> HIDE DEF v
<1>7. IsWallet(v)
  <2>1. k \in Int /\ k >= Unknown
    BY <1>5 DEF Indices, Unknown
  <2>2. v.requests \subseteq Indices
    BY <1>2, <1>5, <1>6 DEF IsWallet
  <2>3. Unmarked \in Int /\ Unmarked >= Unmarked
    BY DEF Unmarked
  <2> HIDE DEF k
  <2> QED BY <1>2, <1>6, <2>1, <2>2, <2>3, WalletIs
<1>8. Known(v, ledger, e, more) /\ Covers(v, more) /\ more \in [Indices -> 0..1] /\ more[k] = 1 /\ \A j \in Indices \ {k} : more[j] = named[j]
  <2> HIDE DEF e
  <2> QED BY <1>1, <1>2, <1>3, <1>4, <1>6, <1>7, AllocatedKnown
<1> HIDE DEF k, more
<1>9. \A j \in Indices : named[j] # 0 => more[j] # 0
  BY <1>5, <1>8
<1>10. copy # None => Known(copy, ledger, e, more)
  <2>1. copy # None => Known(copy, ledger, e, named)
    BY DEF KeysSound
  <2> HIDE DEF e
  <2> QED BY <1>2, <1>3, <1>9, <2>1, KnownLater
<1>11. backup = None
  BY <1>1 DEF KeysSound, Mutable
<1>12. NamesOK'
  <2>1. \A j \in Indices : more[j] # 0 => j <= Reach(ledger, e) + LookAhead
    BY <1>2, <1>5, <1>8 DEF NamesOK
  <2>2. \A j \in asked \cup {k} : j \in Indices /\ more[j] # 0
    BY <1>2, <1>5, <1>8, <1>9 DEF NamesOK
  <2>3. \A s \in sent : s \in Outputs /\ s.key <= Reach(ledger, e) + LookAhead
    BY <1>2 DEF NamesOK
  <2> QED BY <1>1, <1>8, <2>1, <2>2, <2>3 DEF NamesOK
<1>13. CreditsOK'
  <2>1. \A j \in Indices : credits[j] # 0 => more[j] # 0
    BY <1>2, <1>9 DEF CreditsOK
  <2>2. credits[k] = 0
    BY <1>2, <1>5 DEF CreditsOK
  <2>3. \A j \in v.requests \ v.doubtful : (\A c \in v.credited : c.key # j) => credits[j] = 0
    BY <1>2, <1>6, <2>2 DEF CreditsOK
  <2> QED BY <1>1, <1>2, <2>1, <2>3 DEF CreditsOK
<1>14. History(ledger', seenEver') /\ Known(wallet', ledger', seenEver', named') /\ Covers(wallet', named')
       /\ (copy' # None => Known(copy', ledger', seenEver', named')) /\ backup' = None
  BY <1>1, <1>2, <1>8, <1>10, <1>11
<1> QED BY <1>12, <1>13, <1>14 DEF KeysSound

\* A payment whose change takes the next key keeps the invariant.
LEMMA PayWithChangeSound == ASSUME KeysSound, NEW n \in 0..Len(ledger), PayWithChange(n) PROVE KeysSound'
<1> DEFINE r == ReadAll(wallet, n)
           k == NextIndex(r)
           e == Larger(seenEver, n)
           more == [named EXCEPT ![k] = @ + 1]
<1>1. /\ Mutable /\ seenEver' = e /\ CanAllocate(r)
      /\ UNCHANGED <<ledger, copy, backup, asked, credits>>
  BY DEF PayWithChange, Prepares, Unforked
<1>2. PICK p \in Spendable(r, n) :
        /\ wallet' = [Allocated(r, k) EXCEPT !.saved = @ \cup {[key |-> k, note |-> p]}]
        /\ sent' = sent \cup {[key |-> k, note |-> p]}
        /\ named' = more
  BY DEF PayWithChange
<1>3. /\ e \in seenEver..Len(ledger)
      /\ Known(r, ledger, e, named) /\ SameCustody(wallet, r) /\ Covers(r, named)
  BY ReadKnown
<1>4. p \in Nat
  BY DEF Spendable, Marks
<1> HIDE DEF r
<1> DEFINE s == [key |-> k, note |-> p]
           v == [Allocated(r, k) EXCEPT !.saved = @ \cup {s}]
<1>5. IsWallet(r) /\ Whole(r) /\ NamesOK /\ CreditsOK
  BY <1>3, WalletIs DEF KeysSound, Known
<1>6. /\ History(ledger', seenEver') /\ Reach(ledger, seenEver) <= Reach(ledger, e)
      /\ Reach(ledger, seenEver) \in Int /\ Reach(ledger, e) \in Int
      /\ backup' = None
  <2>1. ledger \in Seq(Outputs) /\ seenEver \in 0..Len(ledger) /\ e \in 0..Len(ledger) /\ seenEver <= e /\ History(ledger, seenEver)
    BY <1>3 DEF KeysSound, History
  <2> HIDE DEF e
  <2>2. Reach(ledger, seenEver) <= Reach(ledger, e) /\ Reach(ledger, seenEver) \in Int /\ Reach(ledger, e) \in Int
    BY <2>1, ReachGrows
  <2>3. backup = None
    BY <1>1 DEF KeysSound, Mutable
  <2>4. History(ledger, e)
    BY <2>1 DEF History
  <2> QED BY <1>1, <2>2, <2>3, <2>4
<1>7. named \in [Indices -> 0..1]
  BY <1>5 DEF NamesOK
<1>8. k \in Indices /\ named[k] = 0 /\ k <= Reach(ledger, e) + LookAhead
  <2> HIDE DEF e
  <2> QED BY <1>1, <1>3, <1>6, <1>7, NextIsFresh
<1>9. /\ Whole(v) /\ v.exposed = k /\ v.since = Unmarked /\ v.after = {} /\ v.high = r.high /\ v.found = r.found
      /\ v.seen = r.seen /\ v.requests = r.requests /\ v.credited = r.credited /\ v.doubtful = r.doubtful /\ v.frozen = r.frozen
  <2> HIDE DEF k, s
  <2> DEFINE u == Allocated(r, k)
  <2>1. Whole(u)
    BY <1>5 DEF Whole, Allocated
  <2>2. /\ u.exposed = k /\ u.since = Unmarked /\ u.after = {} /\ u.high = r.high /\ u.found = r.found
        /\ u.seen = r.seen /\ u.requests = r.requests /\ u.credited = r.credited /\ u.doubtful = r.doubtful /\ u.frozen = r.frozen
    BY <1>5 DEF Whole, WalletFields, Allocated
  <2> HIDE DEF u
  <2>3. v = [u EXCEPT !.saved = @ \cup {s}]
    BY DEF u
  <2> HIDE DEF v
  <2>4. Whole(v)
    BY <2>1, <2>3 DEF Whole
  <2>5. /\ v.exposed = u.exposed /\ v.since = u.since /\ v.after = u.after /\ v.high = u.high /\ v.found = u.found
        /\ v.seen = u.seen /\ v.requests = u.requests /\ v.credited = u.credited /\ v.doubtful = u.doubtful /\ v.frozen = u.frozen
    BY <2>1, <2>3 DEF Whole, WalletFields
  <2> QED BY <2>2, <2>4, <2>5
<1>10. wallet' = v
  BY <1>2
<1> HIDE DEF v
<1>11. IsWallet(v)
  <2>1. k \in Int /\ k >= Unknown
    BY <1>8 DEF Indices, Unknown
  <2>2. Unmarked \in Int /\ Unmarked >= Unmarked
    BY DEF Unmarked
  <2> HIDE DEF k
  <2> QED BY <1>5, <1>9, <2>1, <2>2, WalletIs
<1>12. Known(v, ledger, e, more) /\ Covers(v, more) /\ more \in [Indices -> 0..1] /\ more[k] = 1 /\ \A j \in Indices \ {k} : more[j] = named[j]
  <2> HIDE DEF e
  <2> QED BY <1>1, <1>3, <1>6, <1>7, <1>9, <1>11, AllocatedKnown
<1>13. named' = more
  BY <1>2
<1> HIDE DEF k, more
<1>14. \A j \in Indices : named[j] # 0 => more[j] # 0
  BY <1>8, <1>12
<1>15. copy' # None => Known(copy', ledger', seenEver', named')
  <2>1. \A j \in Indices : named[j] # 0 => named'[j] # 0
    BY <1>13, <1>14
  <2> QED BY <1>1, <2>1, OthersKeep DEF e
<1> HIDE DEF e
<1>16. NamesOK'
  <2> DEFINE B == Reach(ledger, seenEver) + LookAhead
             C == Reach(ledger, e) + LookAhead
  <2>1. B \in Int /\ C \in Int /\ B <= C /\ k <= C
    <3>1. LookAhead \in Nat
      OBVIOUS
    <3> QED BY <1>6, <1>8, <3>1
  <2>2. /\ \A j \in Indices : named[j] # 0 => j <= B
        /\ \A t \in sent : t \in Outputs /\ t.key <= B
        /\ \A j \in asked : j \in Indices /\ named[j] # 0
    BY <1>5 DEF NamesOK
  <2> HIDE DEF B, C
  <2>3. \A j \in Indices : more[j] # 0 => j <= C
    <3> SUFFICES ASSUME NEW j \in Indices, more[j] # 0 PROVE j <= C
      OBVIOUS
    <3>1. CASE j = k
      BY <2>1, <3>1
    <3>2. CASE j # k
      <4>1. j <= B /\ j \in Int
        BY <1>12, <2>2, <3>2 DEF Indices
      <4> QED BY <2>1, <4>1
    <3> QED BY <3>1, <3>2
  <2>4. \A t \in sent \cup {s} : t \in Outputs /\ t.key <= C
    <3>1. s \in Outputs /\ s.key <= C
      BY <1>4, <1>8, <2>1 DEF Outputs
    <3>2. ASSUME NEW t \in sent PROVE t \in Outputs /\ t.key <= C
      <4>1. t \in Outputs /\ t.key \in Int /\ t.key <= B
        BY <2>2 DEF Outputs, Indices
      <4> QED BY <2>1, <4>1
    <3> QED BY <3>1, <3>2
  <2>5. \A j \in asked : j \in Indices /\ more[j] # 0
    BY <1>14, <2>2
  <2>6. sent' = sent \cup {s}
    BY <1>2
  <2> HIDE DEF s
  <2> QED BY <1>1, <1>12, <1>13, <2>3, <2>4, <2>5, <2>6 DEF NamesOK, C
<1>17. CreditsOK'
  <2>1. \A j \in Indices : credits[j] # 0 => more[j] # 0
    BY <1>5, <1>14 DEF CreditsOK
  <2>2. v.requests = wallet.requests /\ v.doubtful = wallet.doubtful /\ v.credited = wallet.credited
    BY <1>3, <1>9 DEF SameCustody
  <2> QED BY <1>1, <1>5, <1>10, <1>13, <2>1, <2>2 DEF CreditsOK
<1>18. Known(wallet', ledger', seenEver', named') /\ Covers(wallet', named')
  BY <1>1, <1>10, <1>12, <1>13
<1> QED BY <1>6, <1>15, <1>16, <1>17, <1>18 DEF KeysSound

\* Moving a full window keeps the invariant: the view it moves from reaches every key ever named.
LEMMA MoveWindowSound == ASSUME KeysSound, NEW n \in 0..Len(ledger), MoveWindow(n) PROVE KeysSound'
<1> DEFINE r == ReadAll(wallet, n)
           k == Larger(r.exposed, r.found)
           e == Larger(seenEver, n)
<1>1. /\ Mutable /\ seenEver' = e /\ r.exposed # Unknown /\ CaughtUp(r, n) /\ k = r.high + LookAhead /\ k <= MaxKey
      /\ UNCHANGED <<ledger, copy, backup, asked, named, credits>>
  BY DEF MoveWindow, Prepares, Unforked
<1>2. PICK p \in Spendable(r, n) :
        /\ wallet' = [r EXCEPT !.saved = @ \cup {[key |-> k, note |-> p]},
                               !.after = SavedSinceRestoration(r, [key |-> k, note |-> p], n)]
        /\ sent' = sent \cup {[key |-> k, note |-> p]}
  BY DEF MoveWindow
<1>3. /\ e \in seenEver..Len(ledger) /\ n \in Nat
      /\ Known(r, ledger, e, named) /\ SameCustody(wallet, r) /\ Covers(r, named) /\ Reach(ledger, n) <= r.high
  BY ReadKnown
<1>4. p \in Nat
  BY DEF Spendable, Marks
<1> HIDE DEF r
<1> DEFINE s == [key |-> k, note |-> p]
           after == SavedSinceRestoration(r, s, n)
           v == [r EXCEPT !.saved = @ \cup {s}, !.after = after]
<1>5. IsWallet(r) /\ Whole(r) /\ NamesOK /\ CreditsOK
  BY <1>3, WalletIs DEF KeysSound, Known
<1>6. ledger \in Seq(Outputs) /\ seenEver \in 0..Len(ledger) /\ Len(ledger) \in Nat
  BY DEF KeysSound, History
<1>7. /\ History(ledger', seenEver') /\ Reach(ledger, seenEver) <= Reach(ledger', seenEver')
      /\ Reach(ledger, seenEver) \in Int /\ Reach(ledger', seenEver') \in Int
      /\ (copy' # None => Known(copy', ledger', seenEver', named')) /\ backup' = None
  <2>1. \A j \in Indices : named[j] # 0 => named'[j] # 0
    BY <1>1
  <2> QED BY <1>1, <2>1, OthersKeep
<1>8. Reach(ledger, seenEver) <= Reach(ledger, e) /\ Reach(ledger, e) \in Int
  <2> HIDE DEF e
  <2> QED BY <1>1, <1>7
<1>9. /\ Whole(v) /\ v.exposed = r.exposed /\ v.since = r.since /\ v.high = r.high /\ v.found = r.found
      /\ v.seen = r.seen /\ v.requests = r.requests /\ v.credited = r.credited /\ v.doubtful = r.doubtful /\ v.frozen = r.frozen
  <2> HIDE DEF k, s, after
  <2>1. Whole(v)
    BY <1>5 DEF Whole
  <2> QED BY <1>5, <2>1 DEF Whole, WalletFields
<1>10. wallet' = v
  BY <1>2
<1> HIDE DEF v
<1>11. IsWallet(v)
  <2> HIDE DEF k
  <2> QED BY <1>5, <1>9, WalletIs
<1>12. k \in Indices /\ k <= Reach(ledger, e) + LookAhead
  <2>1. r.high \in Int /\ r.high >= -1 /\ LookAhead \in Nat /\ LookAhead >= 1 /\ r.high <= Reach(ledger, e)
    BY <1>3, <1>5 DEF IsWallet, Known
  <2> HIDE DEF k, e
  <2> QED BY <1>1, <1>8, <2>1 DEF Indices
<1>13. \A j \in Indices : named[j] # 0 => j <= k
  <2>1. CASE \A j \in Indices : named[j] # 0 => j <= k
    BY <2>1
  <2>2. CASE r.since # Unmarked
    <3>1. n >= seenEver
      BY <1>1, <2>2 DEF CaughtUp
    <3>2. Reach(ledger, seenEver) <= Reach(ledger, n) /\ Reach(ledger, n) \in Int
      BY <1>3, <1>6, <3>1, ReachGrows
    <3> SUFFICES ASSUME NEW j \in Indices, named[j] # 0 PROVE j <= k
      OBVIOUS
    <3>3. j <= Reach(ledger, seenEver) + LookAhead /\ j \in Int
      BY <1>5 DEF NamesOK, Indices
    <3>4. r.high \in Int /\ LookAhead \in Nat
      BY <1>5 DEF IsWallet
    <3> HIDE DEF k
    <3> QED BY <1>1, <1>3, <1>7, <3>2, <3>3, <3>4
  <2> QED BY <1>1, <1>3, <2>1, <2>2 DEF Covers
<1>14. Known(v, ledger, e, named) /\ Covers(v, named)
  <2>1. Known(v, ledger, e, named)
    BY <1>1, <1>3, <1>9, <1>11 DEF Known
  <2>2. Covers(v, named)
    BY <1>9, <1>13 DEF Covers
  <2> QED BY <2>1, <2>2
<1>15. NamesOK'
  <2> DEFINE B == Reach(ledger, seenEver) + LookAhead
             C == Reach(ledger, e) + LookAhead
  <2>1. B \in Int /\ C \in Int /\ B <= C /\ k <= C
    <3>1. LookAhead \in Nat
      OBVIOUS
    <3> HIDE DEF e, k
    <3> QED BY <1>7, <1>8, <1>12, <3>1
  <2>2. /\ \A j \in Indices : named[j] # 0 => j <= B
        /\ \A t \in sent : t \in Outputs /\ t.key <= B
        /\ \A j \in asked : j \in Indices /\ named[j] # 0
        /\ named \in [Indices -> 0..1]
    BY <1>5 DEF NamesOK
  <2> HIDE DEF B, C, k
  <2>3. \A j \in Indices : named[j] # 0 => j <= C
    <3> SUFFICES ASSUME NEW j \in Indices, named[j] # 0 PROVE j <= C
      OBVIOUS
    <3>1. j <= B /\ j \in Int
      BY <2>2 DEF Indices
    <3> QED BY <2>1, <3>1
  <2>4. \A t \in sent \cup {s} : t \in Outputs /\ t.key <= C
    <3>1. s \in Outputs /\ s.key <= C
      BY <1>4, <1>12, <2>1 DEF Outputs
    <3>2. ASSUME NEW t \in sent PROVE t \in Outputs /\ t.key <= C
      <4>1. t \in Outputs /\ t.key \in Int /\ t.key <= B
        BY <2>2 DEF Outputs, Indices
      <4> QED BY <2>1, <4>1
    <3> QED BY <3>1, <3>2
  <2>5. sent' = sent \cup {s}
    BY <1>2 DEF k
  <2> HIDE DEF s
  <2> QED BY <1>1, <2>2, <2>3, <2>4, <2>5 DEF NamesOK, C
<1>16. CreditsOK'
  <2>1. v.requests = wallet.requests /\ v.doubtful = wallet.doubtful /\ v.credited = wallet.credited
    BY <1>3, <1>9 DEF SameCustody
  <2> QED BY <1>1, <1>5, <1>10, <2>1 DEF CreditsOK
<1>17. Known(wallet', ledger', seenEver', named') /\ Covers(wallet', named')
  <2> HIDE DEF e
  <2> QED BY <1>1, <1>10, <1>14
<1> QED BY <1>7, <1>15, <1>16, <1>17 DEF KeysSound

-----------------------------------------------------------------------------
\* The history's actions and the custody's.

\* An output to a key that was named keeps the invariant.
LEMMA OutputSound ==
  ASSUME KeysSound, NEW o \in Outputs, o.key <= Reach(ledger, seenEver) + LookAhead, ledger' = Append(ledger, o),
         UNCHANGED <<wallet, copy, backup, sent, seenEver, asked, named, credits>>
  PROVE  KeysSound'
<1> DEFINE m == Append(ledger, o)
<1>1. History(ledger, seenEver) /\ NamesOK /\ CreditsOK
  BY DEF KeysSound
<1>2. History(m, seenEver)
  BY <1>1, HistoryGoesOn
<1>3. Reach(m, seenEver) = Reach(ledger, seenEver) /\ \A w, names : Known(w, ledger, seenEver, names) => Known(w, m, seenEver, names)
  BY <1>1, KnownAppended
<1>4. ledger' = m
  OBVIOUS
<1> HIDE DEF m
<1>5. NamesOK'
  BY <1>1, <1>3, <1>4 DEF NamesOK
<1>6. CreditsOK'
  BY <1>1 DEF CreditsOK
<1>7. Known(wallet, m, seenEver, named) /\ (copy # None => Known(copy, m, seenEver, named))
      /\ (backup # None => Known(backup, m, seenEver, named))
  BY <1>3 DEF KeysSound
<1> QED BY <1>2, <1>4, <1>5, <1>6, <1>7 DEF KeysSound, Covers, Full

\* A restoration keeps the invariant: of a wallet whose exposure is unknown, or of the one that was exported.
LEMMA RestoreSound ==
  ASSUME KeysSound, NEW w, Restore(w), Known(w, ledger, seenEver, named), Covers(w, named),
         \A k \in w.requests \ w.doubtful : (\A c \in w.credited : c.key # k) => credits[k] = 0
  PROVE  KeysSound'
<1>1. wallet' = w /\ backup' = None /\ UNCHANGED <<ledger, copy, sent, seenEver, asked, named, credits>>
  BY DEF Restore
<1>2. NamesOK'
  BY <1>1 DEF KeysSound, NamesOK
<1>3. CreditsOK'
  <2>1. CreditsOK
    BY DEF KeysSound
  <2> QED BY <1>1, <2>1 DEF CreditsOK
<1>4. History(ledger', seenEver') /\ Known(wallet', ledger', seenEver', named') /\ Covers(wallet', named')
      /\ (copy' # None => Known(copy', ledger', seenEver', named')) /\ backup' = None
  BY <1>1 DEF KeysSound
<1> QED BY <1>2, <1>3, <1>4 DEF KeysSound

\* A new wallet, of a seed or of none, has read and asked for nothing.
LEMMA NewIsKnown ==
  ASSUME NEW l \in Seq(Outputs), NEW e \in 0..Len(l), NEW names, NEW seeded \in BOOLEAN
  PROVE  LET w == NewWallet(seeded)
         IN Known(w, l, e, names) /\ w.requests = {} /\ ~w.frozen /\ (seeded => w.exposed = Unknown)
<1> DEFINE x == IF seeded THEN Unknown ELSE -1
           w == NewWallet(seeded)
<1>1. Reach(l, e) \in -1..MaxKey
  BY ReachGrows
<1>2. x \in Int /\ x >= Unknown
  BY DEF Unknown
<1>3. w = [frozen |-> FALSE, forked |-> FALSE, exposed |-> x, high |-> -1, found |-> -1, since |-> Unmarked,
           after |-> {}, saved |-> {}, requests |-> {}, credited |-> {}, doubtful |-> {}, seen |-> 0]
  BY DEF NewWallet
<1> HIDE DEF x, w
<1>4. /\ w.frozen = FALSE /\ w.exposed = x /\ w.high = -1 /\ w.found = -1 /\ w.since = Unmarked /\ w.after = {}
      /\ w.requests = {} /\ w.seen = 0 /\ w = Records(w)
  BY <1>3 DEF Records
<1>5. IsWallet(w)
  <2>1. Whole(w) /\ w.frozen \in BOOLEAN
    BY <1>4, WholeRecords
  <2>2. -1 \in -1..MaxKey
    OBVIOUS
  <2>3. w.requests \subseteq Indices /\ w.seen \in Nat
    BY <1>4
  <2> QED BY <1>2, <1>4, <2>1, <2>2, <2>3, WalletIs DEF Unmarked
<1>6. Known(w, l, e, names)
  BY <1>1, <1>4, <1>5 DEF Known
<1> QED BY <1>4, <1>6 DEF w, x

\* Every step of the seed's files keeps the invariant.
LEMMA StepSound == ASSUME KeysSound, Next PROVE KeysSound'
<1>1. ASSUME NEW n \in 0..Len(ledger), Sync(n) PROVE KeysSound'
  BY <1>1, SyncSound
<1>2. ASSUME NEW n \in 0..Len(ledger), PayWithChange(n) PROVE KeysSound'
  BY <1>2, PayWithChangeSound
<1>3. ASSUME NEW n \in 0..Len(ledger), MoveWindow(n) PROVE KeysSound'
  BY <1>3, MoveWindowSound
<1>4. ASSUME NEW n \in 0..Len(ledger), NEW k \in Indices, Fulfil(k, n) PROVE KeysSound'
  BY <1>4, FulfilSound
<1>5. CASE Request
  BY <1>5, RequestSound
<1>6. CASE Copy
  <2>1. copy' = wallet /\ UNCHANGED <<ledger, wallet, backup, sent, seenEver, asked, named, credits>>
    BY <1>6 DEF Copy
  <2>2. NamesOK' /\ CreditsOK'
    BY <2>1 DEF KeysSound, NamesOK, CreditsOK
  <2> QED BY <2>1, <2>2 DEF KeysSound, Covers, Full
<1>7. CASE ExportBackup
  <2>1. /\ Mutable /\ wallet' = [wallet EXCEPT !.frozen = TRUE] /\ backup' = wallet
        /\ UNCHANGED <<ledger, copy, sent, seenEver, asked, named, credits>>
    BY <1>7 DEF ExportBackup, Unforked
  <2>2. Known(wallet, ledger, seenEver, named) /\ Covers(wallet, named) /\ IsWallet(wallet) /\ Whole(wallet)
    BY WalletIs DEF KeysSound, Known
  <2> DEFINE v == [wallet EXCEPT !.frozen = TRUE]
  <2>3. /\ Whole(v) /\ v.exposed = wallet.exposed /\ v.since = wallet.since /\ v.after = wallet.after /\ v.high = wallet.high
        /\ v.found = wallet.found /\ v.seen = wallet.seen /\ v.requests = wallet.requests /\ v.credited = wallet.credited
        /\ v.doubtful = wallet.doubtful /\ v.frozen = TRUE
    <3>1. Whole(v)
      BY <2>2 DEF Whole
    <3> QED BY <2>2, <3>1 DEF Whole, WalletFields
  <2>4. wallet = [v EXCEPT !.frozen = FALSE]
    <3>1. wallet.frozen = FALSE
      BY <2>1, <2>2 DEF Mutable, IsWallet
    <3> QED BY <2>2, <3>1 DEF Whole, WalletFields
  <2> HIDE DEF v
  <2>5. IsWallet(v)
    BY <2>2, <2>3, WalletIs
  <2>6. Known(v, ledger, seenEver, named) /\ Covers(v, named)
    BY <2>2, <2>3, <2>5 DEF Known, Covers, Full
  <2>7. wallet' = v
    BY <2>1 DEF v
  <2>8. NamesOK'
    BY <2>1 DEF KeysSound, NamesOK
  <2>9. CreditsOK'
    <3>1. CreditsOK
      BY DEF KeysSound
    <3> QED BY <2>1, <2>3, <2>7, <3>1 DEF CreditsOK
  <2>10. History(ledger', seenEver') /\ Known(wallet', ledger', seenEver', named') /\ Covers(wallet', named')
         /\ (copy' # None => Known(copy', ledger', seenEver', named'))
    BY <2>1, <2>6, <2>7 DEF KeysSound
  <2>11. Known(backup', ledger', seenEver', named') /\ wallet'.frozen /\ backup' = [wallet' EXCEPT !.frozen = FALSE]
    BY <2>1, <2>2, <2>3, <2>4, <2>7
  <2> QED BY <2>8, <2>9, <2>10, <2>11 DEF KeysSound
<1>8. CASE RestoreBackup
  <2>1. Restore(backup) /\ backup = [wallet EXCEPT !.frozen = FALSE] /\ Known(backup, ledger, seenEver, named)
    BY <1>8 DEF RestoreBackup, KeysSound
  <2>2. Whole(wallet) /\ Covers(wallet, named) /\ CreditsOK
    BY WalletIs DEF KeysSound, Known
  <2>3. /\ backup.exposed = wallet.exposed /\ backup.since = wallet.since /\ backup.after = wallet.after
        /\ backup.high = wallet.high /\ backup.found = wallet.found /\ backup.requests = wallet.requests
        /\ backup.credited = wallet.credited /\ backup.doubtful = wallet.doubtful
    BY <2>1, <2>2 DEF Whole, WalletFields
  <2>4. Covers(backup, named)
    BY <2>2, <2>3 DEF Covers, Full
  <2>5. \A k \in backup.requests \ backup.doubtful : (\A c \in backup.credited : c.key # k) => credits[k] = 0
    BY <2>2, <2>3 DEF CreditsOK
  <2> QED BY <2>1, <2>4, <2>5, RestoreSound
<1>9. CASE RestoreSeed
  <2> DEFINE w == NewWallet(TRUE)
  <2>1. Known(w, ledger, seenEver, named) /\ w.requests = {} /\ w.exposed = Unknown
    BY NewIsKnown DEF KeysSound, History
  <2>2. Restore(w)
    BY <1>9 DEF RestoreSeed
  <2> HIDE DEF w
  <2> QED BY <2>1, <2>2, RestoreSound DEF Covers
<1>10. CASE RecordRestoration
  <2> DEFINE w == [copy EXCEPT !.exposed = Unknown, !.since = Unmarked, !.after = {},
                               !.doubtful = @ \cup Open(copy), !.forked = FALSE]
  <2>1. Restore(w) /\ Known(copy, ledger, seenEver, named)
    BY <1>10 DEF RecordRestoration, KeysSound
  <2>2. IsWallet(copy) /\ Whole(copy)
    BY <2>1, WalletIs DEF Known
  <2> DEFINE more == copy.doubtful \cup Open(copy)
  <2>3. /\ Whole(w) /\ w.exposed = Unknown /\ w.since = Unmarked /\ w.after = {} /\ w.high = copy.high /\ w.found = copy.found
        /\ w.seen = copy.seen /\ w.requests = copy.requests /\ w.credited = copy.credited /\ w.doubtful = more /\ w.frozen = copy.frozen
    <3>1. w = [copy EXCEPT !.exposed = Unknown, !.since = Unmarked, !.after = {}, !.doubtful = more, !.forked = FALSE]
      OBVIOUS
    <3> HIDE DEF more, w
    <3>2. Whole(w)
      BY <2>2, <3>1 DEF Whole
    <3> QED BY <2>2, <3>1, <3>2 DEF Whole, WalletFields
  <2> HIDE DEF w
  <2>4. IsWallet(w)
    BY <2>2, <2>3, WalletIs DEF Unknown, Unmarked
  <2>5. Known(w, ledger, seenEver, named) /\ Covers(w, named)
    BY <2>1, <2>3, <2>4 DEF Known, Covers
  <2>6. \A k \in w.requests \ w.doubtful : (\A c \in w.credited : c.key # k) => credits[k] = 0
    BY <2>3 DEF Open
  <2> QED BY <2>1, <2>5, <2>6, RestoreSound
<1>11. ASSUME NEW k \in Indices, PayRequest(k) PROVE KeysSound'
  <2> DEFINE o == [key |-> k, note |-> 0]
  <2>1. k \in asked /\ ledger' = Append(ledger, o) /\ UNCHANGED <<wallet, copy, backup, sent, seenEver, asked, named, credits>>
    BY <1>11 DEF PayRequest
  <2>2. o \in Outputs /\ o.key = k
    BY DEF Outputs
  <2>3. k <= Reach(ledger, seenEver) + LookAhead
    BY <2>1 DEF KeysSound, NamesOK
  <2> HIDE DEF o
  <2> QED BY <2>1, <2>2, <2>3, OutputSound
<1>12. ASSUME NEW s \in sent, Land(s) PROVE KeysSound'
  <2>1. ledger' = Append(ledger, s) /\ UNCHANGED <<wallet, copy, backup, sent, seenEver, asked, named, credits>>
    BY <1>12 DEF Land
  <2>2. s \in Outputs /\ s.key <= Reach(ledger, seenEver) + LookAhead
    BY DEF KeysSound, NamesOK
  <2> QED BY <2>1, <2>2, OutputSound
<1> QED BY <1>1, <1>2, <1>3, <1>4, <1>5, <1>6, <1>7, <1>8, <1>9, <1>10, <1>11, <1>12 DEF Next

\* The first wallet satisfies the invariant.
LEMMA InitSound == Init => KeysSound
<1> SUFFICES ASSUME Init PROVE KeysSound
  OBVIOUS
<1>1. /\ ledger = <<>> /\ wallet = NewWallet(FALSE) /\ copy = None /\ backup = None /\ sent = {} /\ seenEver = 0 /\ asked = {}
      /\ named = [k \in Indices |-> 0] /\ credits = [k \in Indices |-> 0]
  BY DEF Init
<1>2. ledger \in Seq(Outputs) /\ Len(ledger) = 0 /\ seenEver \in 0..Len(ledger)
  BY <1>1
<1>3. History(ledger, seenEver)
  <2>1. \A n \in 0..Len(ledger) : KeysOf(ledger, n) = {}
    BY <1>2 DEF KeysOf
  <2>2. Dense({})
    BY DEF Dense
  <2> QED BY <1>2, <2>1, <2>2 DEF History
<1>4. Known(wallet, ledger, seenEver, named) /\ wallet.requests = {}
  <2> DEFINE w == NewWallet(FALSE)
  <2>1. Known(w, ledger, seenEver, named) /\ w.requests = {}
    BY <1>2, NewIsKnown
  <2> HIDE DEF w
  <2>2. wallet = w
    BY <1>1 DEF w
  <2> QED BY <2>1, <2>2
<1>5. \A k \in Indices : named[k] = 0 /\ credits[k] = 0
  BY <1>1
<1>6. NamesOK /\ CreditsOK
  <2>1. named \in [Indices -> 0..1] /\ credits \in [Indices -> 0..1]
    BY <1>1
  <2> QED BY <1>1, <1>4, <1>5, <2>1 DEF NamesOK, CreditsOK
<1>7. Covers(wallet, named)
  BY <1>5 DEF Covers
<1> QED BY <1>1, <1>3, <1>4, <1>6, <1>7 DEF KeysSound

\* The invariant of a seed's files: what each instance knows, the exposure that covers every key named, and the
\* history that opens no gap wider than the look-ahead.
THEOREM KeysStaySound == Spec => []KeysSound
<1>1. KeysSound /\ [Next]_vars => KeysSound'
  <2> SUFFICES ASSUME KeysSound, [Next]_vars PROVE KeysSound'
    OBVIOUS
  <2>1. CASE Next
    BY <2>1, StepSound
  <2>2. CASE UNCHANGED vars
    <3>1. UNCHANGED <<ledger, wallet, copy, backup, sent, seenEver, asked, named, credits>>
      BY <2>2 DEF vars
    <3>2. NamesOK' /\ CreditsOK'
      BY <3>1 DEF KeysSound, NamesOK, CreditsOK
    <3> QED BY <3>1, <3>2 DEF KeysSound, Covers, Full
  <2> QED BY <2>1, <2>2
<1> QED BY <1>1, InitSound, PTL DEF Spec

\* Whatever instances a seed is lost and restored through, no owner key is named twice: allocate and found of
\* wallet-store.ts, recordRestoration's unknown exposure, and the window's move from a view caught up with the lost one's.
THEOREM KeysNamedOnce == Spec => []KeyNamedOnce
<1>1. KeysSound => KeyNamedOnce
  BY DEF KeysSound, NamesOK, KeyNamedOnce
<1> QED BY <1>1, KeysStaySound, PTL

\* No request is credited twice over the instances of the seed: keyedFulfill's guard and the marks of recordRestoration.
THEOREM RequestsCreditedOnce == Spec => []CreditedOnce
<1>1. KeysSound => CreditedOnce
  BY DEF KeysSound, CreditsOK, CreditedOnce
<1> QED BY <1>1, KeysStaySound, PTL

\* The windows of holdings.ts miss no output: a wallet has marked all that the longest view it judged at holds, though
\* it was restored of the seed alone.
THEOREM FundsAreFound == Spec => []FundsFound
<1>1. KeysSound => FundsFound
  <2> SUFFICES ASSUME KeysSound PROVE Marks(wallet, wallet.seen) = 1..wallet.seen
    BY DEF FundsFound
  <2>1. \A p \in 1..wallet.seen : ledger[p].key < Window(wallet.high)
    BY DEF KeysSound, Known
  <2> QED BY <2>1 DEF Marks
<1> QED BY <1>1, KeysStaySound, PTL
=============================================================================
