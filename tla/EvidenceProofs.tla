--------------------------- MODULE EvidenceProofs ---------------------------
(***************************************************************************)
(* Proofs about what a reader is given (EvidenceSupply), for any           *)
(* checkpoints and trails, any quota, any sources that leave parts out and *)
(* any number of damaged rows, broken streams, stopped parties and         *)
(* restored copies: a trail read over a damaged file is its own records,   *)
(* never another's and never a shorter trail that ends whole; while no     *)
(* storage is damaged, a replica serves enough to read what it serves, and *)
(* while no file is put back a mark of a source that leaves nothing out    *)
(* passes nothing the file does not hold.                                  *)
(***************************************************************************)
EXTENDS EvidenceSupply, Integers, FiniteSetTheorems, SequenceTheorems, WellFoundedInduction, TLAPS

\* A property of the counts 0 to n that 0 has and each passes to the next.
LEMMA CountsOn ==
  ASSUME NEW n \in Nat, NEW S, 0 \in S, \A k \in 0..n - 1 : k \in S => k + 1 \in S
  PROVE  0..n \subseteq S
<1> DEFINE Bad == {k \in 0..n : k \notin S}
<1>1. SUFFICES ASSUME Bad # {} PROVE FALSE
  OBVIOUS
<1>2. Bad \subseteq Nat
  OBVIOUS
<1>3. PICK x \in Bad : \A y \in Bad : ~(y < x)
  <2> HIDE DEF Bad
  <2>1. PICK x \in Bad : \A y \in Bad : ~(<<y, x>> \in OpToRel(<, Nat))
    BY <1>1, <1>2, WFMin, NatLessThanWellFounded
  <2> QED BY <1>2, <2>1 DEF OpToRel
<1>4. x \in 0..n /\ x \notin S
  OBVIOUS
<1>5. x - 1 \in 0..n - 1 /\ (x - 1) + 1 = x /\ x - 1 < x
  BY <1>4
<1>6. x - 1 \in S
  BY <1>3, <1>5
<1> QED BY <1>4, <1>5, <1>6

\* A property of the positions p to n that n has and each passes to the one before.
LEMMA CountsBack ==
  ASSUME NEW n \in Nat, NEW p \in 0..n, NEW S, n \in S, \A q \in p + 1..n : q \in S => q - 1 \in S
  PROVE  p..n \subseteq S
<1> DEFINE T == {k \in 0..n - p : n - k \in S}
<1>1. n - p \in Nat /\ n - 0 = n
  OBVIOUS
<1>2. 0 \in T
  BY <1>1
<1>3. \A k \in 0..(n - p) - 1 : k \in T => k + 1 \in T
  <2> SUFFICES ASSUME NEW k \in 0..(n - p) - 1, n - k \in S PROVE k + 1 \in T
    OBVIOUS
  <2>1. n - k \in p + 1..n /\ (n - k) - 1 = n - (k + 1) /\ k + 1 \in 0..n - p
    OBVIOUS
  <2> QED BY <2>1
<1>4. 0..n - p \subseteq T
  <2> HIDE DEF T
  <2> QED BY <1>1, <1>2, <1>3, CountsOn
<1>5. ASSUME NEW q \in p..n PROVE q \in S
  <2>1. n - q \in 0..n - p /\ n - (n - q) = q
    OBVIOUS
  <2>2. n - q \in T
    BY <1>4, <2>1
  <2> QED BY <2>1, <2>2
<1> QED BY <1>5

-----------------------------------------------------------------------------
\* A value's length and the values before it.
LEMMA ValueFacts ==
  ASSUME NEW v, IsValue(v)
  PROVE  /\ Len(v) \in Nat /\ Len(v) >= 1 /\ Position(v) \in Nat /\ Position(v) = Len(v) - 1
         /\ DOMAIN v = 1..Len(v) /\ v = SubSeq(v, 1, Position(v) + 1)
<1>1. v \in Seq(ToSet(v)) /\ v # <<>>
  BY DEF IsValue
<1>2. Len(v) \in Nat /\ DOMAIN v = 1..Len(v) /\ Len(v) >= 1
  BY <1>1, LenProperties, EmptySeq
<1>3. Position(v) = Len(v) - 1 /\ Position(v) \in Nat /\ Position(v) + 1 = Len(v)
  BY <1>2 DEF Position
<1>4. v = SubSeq(v, 1, Len(v))
  BY <1>1, <1>2
<1> QED BY <1>2, <1>3, <1>4

\* The value a trail had at a position: its first records.
LEMMA PrefixFacts ==
  ASSUME NEW v, IsValue(v), NEW p \in 0..Position(v)
  PROVE  LET w == SubSeq(v, 1, p + 1) IN
         /\ IsValue(w) /\ Len(w) = p + 1 /\ Position(w) = p /\ Last(w) = v[p + 1] /\ Segment(w) = Segment(v)
         /\ \A i \in 1..p + 1 : w[i] = v[i]
         /\ p > 0 => Front(w) = SubSeq(v, 1, (p - 1) + 1)
<1> DEFINE w == SubSeq(v, 1, p + 1)
<1>1. Len(v) \in Nat /\ Len(v) >= 1 /\ Position(v) = Len(v) - 1 /\ p \in Nat /\ p + 1 <= Len(v) /\ DOMAIN v = 1..Len(v)
  BY ValueFacts
<1>2. Len(w) = p + 1 /\ \A i \in 1..p + 1 : w[i] = v[i]
  BY <1>1
<1>3. \A S : v \in Seq(S) => w \in Seq(S)
  BY <1>1
<1>4. w \in Seq(ToSet(v)) /\ DOMAIN w = 1..p + 1
  BY <1>1, <1>2, <1>3 DEF IsValue
<1> HIDE DEF w
<1>5. w \in Seq(ToSet(w)) /\ w # <<>>
  <2>1. \A i \in 1..Len(w) : w[i] \in ToSet(w)
    BY <1>2, <1>4 DEF ToSet
  <2> QED BY <1>1, <1>2, <1>4, <2>1
<1>6. p > 0 => Front(w) = SubSeq(v, 1, (p - 1) + 1)
  <2> SUFFICES ASSUME p > 0 PROVE Front(w) = SubSeq(v, 1, p)
    BY <1>1
  <2>1. Front(w) = SubSeq(w, 1, p)
    BY <1>1, <1>2 DEF Front
  <2>2. SubSeq(w, 1, p) = SubSeq(v, 1, p)
    BY <1>1, <1>2, <1>4
  <2> QED BY <2>1, <2>2
<1>7. Head(w) = Head(v)
  <2>1. w[1] = v[1] /\ v # <<>> /\ w # <<>>
    BY <1>1, <1>2, <1>5 DEF IsValue
  <2> QED BY <1>4, <2>1 DEF IsValue
<1>8. Position(w) = p /\ Last(w) = v[p + 1] /\ Segment(w) = Segment(v)
  BY <1>1, <1>2, <1>7 DEF Position, Last, Segment
<1> QED BY <1>2, <1>5, <1>6, <1>8 DEF w, IsValue

-----------------------------------------------------------------------------
\* What storage may have made of the rows kept: the value before a row's is the one it was kept over, or none's.
Nobody == <<"damaged">>

GenuineRow(v, row) ==
  /\ row = [prev |-> row.prev, position |-> row.position, size |-> row.size, bytes |-> row.bytes]
  /\ row.prev \in {Front(v), Nobody}

GenuineFile(f) ==
  /\ f = [rows |-> f.rows, objects |-> f.objects, heads |-> f.heads]
  /\ f.rows = [v \in DOMAIN f.rows |-> f.rows[v]]
  /\ \A v \in DOMAIN f.rows : IsValue(v) /\ Len(v) >= 2 /\ GenuineRow(v, f.rows[v])

\* Nothing is kept under the value a damaged row may name.
LEMMA NobodyIsUnkept == ASSUME NEW f, GenuineFile(f) PROVE ~Kept(f, Nobody)
<1>1. Len(Nobody) = 1
  BY DEF Nobody
<1> QED BY <1>1 DEF GenuineFile, Kept

\* A chain step that holds names the value before the row's, and the row's own record.
LEMMA StepHolds ==
  ASSUME NEW f, GenuineFile(f), NEW w, NEW p, ChainStep(f, w, p)
  PROVE  /\ w \in DOMAIN f.rows /\ IsValue(w) /\ p = Position(w)
         /\ f.rows[w].prev = Front(w) /\ f.rows[w].bytes = Last(w)
<1> DEFINE row == f.rows[w]
           prev == row.prev
<1>1. w \in DOMAIN f.rows /\ p = Position(w) /\ Append(prev, row.bytes) = w
  BY DEF ChainStep, Kept
<1>2. IsValue(w) /\ Len(w) >= 2 /\ prev \in {Front(w), Nobody}
  BY <1>1 DEF GenuineFile, GenuineRow
<1> HIDE DEF prev, row
<1>3. Len(w) \in Nat /\ DOMAIN w = 1..Len(w)
  BY <1>2, ValueFacts
<1>4. \E S : prev \in Seq(S)
  <2>1. CASE prev = Nobody
    <3>1. prev \in Seq({"damaged"})
      BY <2>1 DEF Nobody
    <3> QED BY <3>1
  <2>2. CASE prev = Front(w)
    <3>1. w \in Seq(ToSet(w))
      BY <1>2 DEF IsValue
    <3>2. prev \in Seq(ToSet(w))
      BY <1>2, <1>3, <2>2, <3>1 DEF Front
    <3> QED BY <3>2
  <2> QED BY <1>2, <2>1, <2>2
<1>5. PICK S : prev \in Seq(S) /\ row.bytes \in S
  <2>1. PICK S : prev \in Seq(S)
    BY <1>4
  <2>2. prev \in Seq(S \cup {row.bytes})
    BY <2>1, SeqMonotonic
  <2> QED BY <2>2
<1>6. Len(w) = Len(prev) + 1 /\ Len(prev) \in Nat /\ w[Len(w)] = row.bytes /\ \A i \in 1..Len(prev) : w[i] = prev[i]
  BY <1>1, <1>5, AppendProperties, LenProperties
<1>7. prev = SubSeq(w, 1, Len(w) - 1)
  BY <1>3, <1>5, <1>6
<1> QED BY <1>1, <1>2, <1>6, <1>7 DEF Last, Front, row, prev

-----------------------------------------------------------------------------
\* The value met before another on the way back.
Before(f, next, p) ==
  IF next # Broken /\ Kept(f, next) /\ f.rows[next].position = p + 1 THEN f.rows[next].prev ELSE Broken

IsBack(f, v, g) == g = [p \in 0 .. Position(v) |-> IF p = Position(v) THEN v ELSE Before(f, g[p + 1], p)]

\* walk's way back is such a function.
LEMMA BackIs == ASSUME NEW f, NEW v PROVE Back(f, v) = CHOOSE g : IsBack(f, v, g)
BY DEF Back, IsBack, Before

\* It exists: each position's value is had from the one after it.
LEMMA BackExists ==
  ASSUME NEW f, NEW v, Position(v) \in Nat
  PROVE  \E g : IsBack(f, v, g)
<1> DEFINE n == Position(v)
           Good(q) == \E g : g = [p \in q..n |-> IF p = n THEN v ELSE Before(f, g[p + 1], p)]
           Qs == {q \in 0..n : Good(q)}
<1>0. n \in Nat /\ 0 \in 0..n
  OBVIOUS
<1>1. n \in Qs
  <2> DEFINE g == [p \in n..n |-> v]
  <2>1. g = [p \in n..n |-> IF p = n THEN v ELSE Before(f, g[p + 1], p)]
    <3>1. \A p \in n..n : p = n
      BY <1>0
    <3> QED BY <3>1
  <2> HIDE DEF g, n
  <2> QED BY <1>0, <2>1
<1>2. \A q \in 0 + 1..n : q \in Qs => q - 1 \in Qs
  <2> SUFFICES ASSUME NEW q \in 1..n, Good(q) PROVE Good(q - 1)
    <3> HIDE DEF Good, n
    <3> QED BY <1>0
  <2>1. PICK g : g = [p \in q..n |-> IF p = n THEN v ELSE Before(f, g[p + 1], p)]
    OBVIOUS
  <2> DEFINE h == [p \in q - 1..n |-> IF p = q - 1 THEN Before(f, g[q], q - 1) ELSE g[p]]
  <2>2. q \in Nat /\ q - 1 \in Nat /\ q - 1 # n /\ q <= n /\ (q - 1) + 1 = q
    BY <1>0
  <2>3. ASSUME NEW p \in q - 1..n PROVE h[p] = IF p = n THEN v ELSE Before(f, h[p + 1], p)
    <3>1. CASE p = q - 1
      <4>1. h[p] = Before(f, g[q], p) /\ p # n /\ p + 1 = q /\ h[q] = g[q]
        BY <1>0, <2>2, <3>1
      <4> QED BY <4>1
    <3>2. CASE p # q - 1
      <4>1. p \in q..n /\ h[p] = g[p]
        BY <1>0, <2>2, <3>2
      <4>2. g[p] = IF p = n THEN v ELSE Before(f, g[p + 1], p)
        BY <2>1, <4>1
      <4>3. p # n => h[p + 1] = g[p + 1]
        BY <1>0, <2>2, <4>1
      <4> QED BY <4>1, <4>2, <4>3
    <3> QED BY <3>1, <3>2
  <2>4. h = [p \in q - 1..n |-> IF p = n THEN v ELSE Before(f, h[p + 1], p)]
    <3>1. h = [p \in q - 1..n |-> h[p]]
      OBVIOUS
    <3> HIDE DEF h
    <3> QED BY <2>3, <3>1
  <2> HIDE DEF h
  <2> QED BY <2>4
<1>3. 0..n \subseteq Qs
  <2> HIDE DEF Qs, n
  <2> QED BY <1>0, <1>1, <1>2, CountsBack
<1>4. Good(0)
  <2> HIDE DEF Good
  <2> QED BY <1>0, <1>3
<1> QED BY <1>4 DEF IsBack

\* walk's way back: the top first, then what each row says came before it.
LEMMA BackSteps ==
  ASSUME NEW f, NEW v, IsValue(v)
  PROVE  /\ Back(f, v)[Position(v)] = v
         /\ \A p \in 0..Position(v) - 1 : Back(f, v)[p] = Before(f, Back(f, v)[p + 1], p)
<1> DEFINE g == Back(f, v)
           n == Position(v)
<1>1. n \in Nat
  BY ValueFacts
<1>2. IsBack(f, v, g)
  BY <1>1, BackExists, BackIs
<1> HIDE DEF g
<1>3. \A p \in 0..n : g[p] = IF p = n THEN v ELSE Before(f, g[p + 1], p)
  BY <1>2 DEF IsBack
<1> HIDE DEF n
<1>4. n \in 0..n /\ \A p \in 0..n - 1 : p \in 0..n /\ p # n
  BY <1>1
<1> QED BY <1>3, <1>4 DEF g, n

\* A way back on which a value was met at every position down to p met the trail's own, but where the last row
\* names none.
LEMMA WalkedBack ==
  ASSUME NEW f, GenuineFile(f), NEW v, IsValue(v), Len(v) >= 2, v \in DOMAIN f.rows, NEW p \in 0..Position(v),
         \A q \in p..Position(v) : Back(f, v)[q] # Broken
  PROVE  /\ \A q \in p + 1..Position(v) : Back(f, v)[q] = SubSeq(v, 1, q + 1)
         /\ Back(f, v)[p] \in {SubSeq(v, 1, p + 1), Nobody}
<1> DEFINE n == Position(v)
           g == Back(f, v)
           At1(q) == SubSeq(v, 1, q + 1)
           Qs == {q \in p..n : g[q] \in {At1(q), Nobody} /\ (q > p => g[q] = At1(q))}
<1>0. n \in Nat /\ p \in Nat /\ p \in 0..n /\ n >= 1
  BY ValueFacts DEF Position
<1>1. g[n] = v /\ \A q \in 0..n - 1 : g[q] = Before(f, g[q + 1], q)
  BY BackSteps
<1>2. \A q \in p..n : g[q] # Broken
  OBVIOUS
<1>3. At1(n) = v
  BY ValueFacts
<1> HIDE DEF g
<1>4. n \in Qs
  BY <1>0, <1>1, <1>3
<1>5. \A q \in p + 1..n : q \in Qs => q - 1 \in Qs
  <2> SUFFICES ASSUME NEW q \in p + 1..n, q \in Qs PROVE q - 1 \in Qs
    OBVIOUS
  <2>1. q \in Nat /\ q > p /\ q <= n /\ q - 1 \in 0..n - 1 /\ q - 1 \in p..n /\ (q - 1) + 1 = q
    BY <1>0
  <2>2. g[q] = At1(q)
    BY <2>1
  <2>3. g[q - 1] = Before(f, g[q], q - 1) /\ g[q - 1] # Broken
    BY <1>1, <1>2, <2>1
  <2>4. Kept(f, g[q]) /\ g[q - 1] = f.rows[g[q]].prev
    BY <2>3 DEF Before
  <2>5. g[q - 1] \in {Front(At1(q)), Nobody}
    BY <2>2, <2>4 DEF GenuineFile, GenuineRow, Kept
  <2>6. Front(At1(q)) = At1(q - 1)
    <3>1. q \in 0..Position(v) /\ q > 0
      BY <1>0, <2>1
    <3> HIDE DEF n
    <3> QED BY <3>1, PrefixFacts
  <2>7. q - 1 > p => g[q - 1] # Nobody
    <3> SUFFICES ASSUME q - 1 > p PROVE g[q - 1] # Nobody
      OBVIOUS
    <3>1. q - 2 \in 0..n - 1 /\ q - 2 \in p..n /\ (q - 2) + 1 = q - 1
      BY <1>0, <2>1
    <3>2. Before(f, g[q - 1], q - 2) # Broken
      BY <1>1, <1>2, <3>1
    <3>3. Kept(f, g[q - 1])
      BY <3>2 DEF Before
    <3> QED BY <3>3, NobodyIsUnkept
  <2> HIDE DEF At1
  <2> QED BY <2>1, <2>5, <2>6, <2>7
<1>6. p..n \subseteq Qs
  <2> HIDE DEF Qs, n
  <2> QED BY <1>0, <1>4, <1>5, CountsBack
<1>7. \A q \in p + 1..n : q \in p..n /\ q > p
  BY <1>0
<1>8. p \in p..n
  BY <1>0
<1> QED BY <1>6, <1>7, <1>8 DEF g

\* evidence: a value read back at a position is the trail's own.
LEMMA EvidenceIsOwn ==
  ASSUME NEW f, GenuineFile(f), NEW v \in DOMAIN f.rows, NEW p \in 1..Position(v)
  PROVE  EvidenceAt(f, v, p) \in {Broken, SubSeq(v, 1, p + 1)}
<1> DEFINE n == Position(v)
           g == Back(f, v)
<1>1. IsValue(v) /\ Len(v) >= 2 /\ n \in Nat /\ p \in 0..n /\ p # 0 /\ p \in p..n
  BY ValueFacts DEF GenuineFile
<1> SUFFICES ASSUME \A q \in p..n : g[q] # Broken /\ ChainStep(f, g[q], q)
             PROVE  g[p] = SubSeq(v, 1, p + 1)
  BY <1>1 DEF EvidenceAt
<1>2. g[p] \in {SubSeq(v, 1, p + 1), Nobody}
  BY <1>1, WalkedBack
<1>3. g[p] # Nobody
  BY <1>1, NobodyIsUnkept DEF ChainStep
<1> QED BY <1>2, <1>3

\* The records of a trail after a position.
After(v, p) == SubSeq(v, p + 2, Len(v))

\* They are as many as the positions above it, the first the one after its own.
LEMMA AfterFacts ==
  ASSUME NEW v, IsValue(v), NEW p \in 0..Position(v)
  PROVE  /\ After(v, p) = [i \in 1..Position(v) - p |-> v[p + 1 + i]]
         /\ Len(After(v, p)) = Position(v) - p
<1>1. Len(v) \in Nat /\ Len(v) >= 1 /\ Position(v) = Len(v) - 1 /\ p \in Nat /\ DOMAIN v = 1..Len(v) /\ v \in Seq(ToSet(v))
  BY ValueFacts DEF IsValue
<1>2. p + 2 \in Int /\ \A i \in p + 2..Len(v) : v[i] \in ToSet(v)
  BY <1>1
<1>3. /\ After(v, p) \in Seq(ToSet(v))
      /\ Len(After(v, p)) = IF p + 2 <= Len(v) THEN Len(v) - (p + 2) + 1 ELSE 0
      /\ \A i \in 1..Len(v) - (p + 2) + 1 : After(v, p)[i] = v[p + 2 + i - 1]
  BY <1>1, <1>2, SubSeqProperties DEF After
<1>4. Len(After(v, p)) = Position(v) - p /\ Position(v) - p \in Nat /\ Len(v) - (p + 2) + 1 = Position(v) - p
  <2> DEFINE n == Len(v)
             a == Len(After(v, p))
  <2>0. p <= Position(v)
    BY <1>1
  <2>1. n \in Nat /\ p \in Nat /\ p <= n - 1
    BY <1>1, <2>0
  <2>3. a = IF p + 2 <= n THEN n - (p + 2) + 1 ELSE 0
    BY <1>3
  <2> HIDE DEF n, a
  <2>2. a = n - 1 - p /\ n - 1 - p \in Nat /\ n - (p + 2) + 1 = n - 1 - p
    BY <2>1, <2>3
  <2> QED BY <1>1, <2>2 DEF n, a
<1>5. \A i \in 1..Position(v) - p : After(v, p)[i] = v[p + 1 + i]
  <2>1. \A i \in 1..Position(v) - p : p + 2 + i - 1 = p + 1 + i
    BY <1>1
  <2> QED BY <1>3, <1>4, <2>1
<1>6. After(v, p) = [i \in 1..Len(After(v, p)) |-> After(v, p)[i]]
  BY <1>3
<1> QED BY <1>4, <1>5, <1>6

\* Of a trail's records after p, the first through q are a prefix of them all.
LEMMA SomeAfter ==
  ASSUME NEW v, IsValue(v), NEW p \in 0..Position(v), NEW q \in p..Position(v)
  PROVE  LET some == [i \in 1..q - p |-> v[p + 1 + i]] IN
         IsPrefix(some, After(v, p)) /\ (q = Position(v) => some = After(v, p))
<1> DEFINE some == [i \in 1..q - p |-> v[p + 1 + i]]
           all == [i \in 1..Position(v) - p |-> v[p + 1 + i]]
           m == q - p
           n == Position(v) - p
<1>1. m \in Nat /\ n \in Nat /\ m <= n /\ (q = Position(v) => m = n)
  BY ValueFacts
<1>2. After(v, p) = all
  BY AfterFacts
<1>3. Len(some) = m /\ Len(all) = n
  BY <1>1
<1>4. SubSeq(some, 1, m) = SubSeq(all, 1, m)
  <2>1. \A i \in 1..m : some[i] = all[i] /\ i \in 1..n
    BY <1>1
  <2> HIDE DEF some, all, m, n
  <2>2. DOMAIN some = 1..m /\ DOMAIN all = 1..n
    BY DEF some, all, m, n
  <2>3. SubSeq(some, 1, m) = [i \in 1..m |-> some[i]]
    BY <1>1, <1>3, <2>2
  <2>4. SubSeq(all, 1, m) = [i \in 1..m |-> all[i]]
    BY <1>1, <1>3, <2>2
  <2> QED BY <2>1, <2>3, <2>4
<1>5. IsPrefix(some, all)
  <2> HIDE DEF some, all, m, n
  <2> QED BY <1>1, <1>3, <1>4 DEF IsPrefix
<1> QED BY <1>1, <1>2, <1>5

-----------------------------------------------------------------------------
\* walk's given records: from the first after p through the last whose steps hold.
LEMMA WalkReads ==
  ASSUME NEW f, GenuineFile(f), NEW v \in DOMAIN f.rows, NEW p \in 0..Position(v), NEW expected
  PROVE  LET walk == Walk(f, v, p, expected) IN
         /\ IsPrefix(walk.given, After(v, p))
         /\ walk.whole => /\ walk.given = After(v, p)
                          /\ p < Position(v) /\ expected # Broken => Back(f, v)[p] = expected
                          /\ p < Position(v) => Back(f, v)[p] \in {SubSeq(v, 1, p + 1), Nobody}
                          /\ p = 0 /\ p < Position(v) => Back(f, v)[p] = Seed(Segment(v))
<1> DEFINE n == Position(v)
           value == Back(f, v)
           steps == (p + 1)..n
           bad == {q \in steps : ~ChainStep(f, value[q], q)}
           given == IF bad = {} THEN n ELSE CHOOSE q \in 0..n : q + 1 \in bad /\ \A x \in bad : q < x
           walk == Walk(f, v, p, expected)
<1>1. IsValue(v) /\ Len(v) >= 2 /\ n \in Nat /\ p \in Nat /\ p <= n /\ p \in 0..n
  BY ValueFacts DEF GenuineFile
<1>2. CASE p >= n
  <2>1. walk = Stream(<<>>, TRUE)
    BY <1>2 DEF Walk
  <2>2. walk.given = <<>> /\ p = n
    BY <1>1, <1>2, <2>1 DEF Stream
  <2>3. After(v, p) = <<>> /\ IsPrefix(<<>>, <<>>)
    <3>1. Len(After(v, p)) = 0 /\ After(v, p) = [i \in 1..0 |-> v[p + 1 + i]]
      BY <1>1, <2>2, AfterFacts
    <3>2. After(v, p) = <<>>
      BY <3>1
    <3> QED BY <3>2 DEF IsPrefix
  <2> QED BY <1>1, <2>2, <2>3
<1>3. CASE p < n /\ \/ \E q \in p..n : value[q] = Broken
                    \/ p = 0 /\ value[0] # Seed(Segment(v))
                    \/ expected # Broken /\ value[p] # expected
  <2>1. ~(p >= n)
    BY <1>1, <1>3
  <2>2. walk = Stream(<<>>, FALSE)
    BY <1>3, <2>1 DEF Walk
  <2>3. walk.given = <<>> /\ ~walk.whole
    BY <2>2 DEF Stream
  <2>4. IsPrefix(<<>>, After(v, p))
    <3>1. After(v, p) = [i \in 1..n - p |-> v[p + 1 + i]] /\ Len(After(v, p)) = n - p
      BY <1>1, AfterFacts
    <3>2. SubSeq(After(v, p), 1, 0) = <<>> /\ Len(<<>>) = 0 /\ SubSeq(<<>>, 1, 0) = <<>>
      BY <1>1, <3>1
    <3> QED BY <1>1, <3>1, <3>2 DEF IsPrefix
  <2> QED BY <2>3, <2>4
<1>4. CASE p < n /\ ~(\/ \E q \in p..n : value[q] = Broken
                      \/ p = 0 /\ value[0] # Seed(Segment(v))
                      \/ expected # Broken /\ value[p] # expected)
  <2>0. ~(p >= n)
    BY <1>1, <1>4
  <2>1. walk = Stream([i \in 1..(given - p) |-> f.rows[value[p + i]].bytes], bad = {})
    BY <1>4, <2>0 DEF Walk
  <2>2. /\ \A q \in p + 1..n : value[q] = SubSeq(v, 1, q + 1)
        /\ value[p] \in {SubSeq(v, 1, p + 1), Nobody}
    BY <1>1, <1>4, WalkedBack
  <2>3. given \in p..n /\ (bad = {} => given = n) /\ \A q \in p + 1..given : ChainStep(f, value[q], q)
    <3>1. CASE bad = {}
      BY <1>1, <3>1
    <3>2. CASE bad # {}
      <4>1. bad \subseteq Nat /\ \A q \in bad : q >= p + 1 /\ q <= n
        BY <1>1
      <4>2. PICK b \in bad : \A x \in bad : ~(<<x, b>> \in OpToRel(<, Nat))
        <5> HIDE DEF bad
        <5> QED BY <3>2, <4>1, WFMin, NatLessThanWellFounded
      <4>3. \A x \in bad : b <= x
        <5> HIDE DEF bad
        <5> SUFFICES ASSUME NEW x \in bad PROVE b <= x
          OBVIOUS
        <5>1. x \in Nat /\ b \in Nat /\ ~(x < b)
          BY <4>1, <4>2 DEF OpToRel
        <5> QED BY <5>1
      <4>4. b - 1 \in 0..n /\ (b - 1) + 1 = b /\ \A x \in bad : b - 1 < x
        <5> HIDE DEF bad
        <5> QED BY <1>1, <4>1, <4>3
      <4>5. given \in 0..n /\ given + 1 \in bad /\ \A x \in bad : given < x
        <5> HIDE DEF bad
        <5>1. \E q \in 0..n : q + 1 \in bad /\ \A x \in bad : q < x
          BY <4>4
        <5> QED BY <3>2, <5>1
      <4> HIDE DEF given
      <4>6. given \in p..n
        <5>1. given + 1 >= p + 1
          BY <4>1, <4>5
        <5> QED BY <1>1, <4>5, <5>1
      <4>7. ASSUME NEW q \in p + 1..given PROVE ChainStep(f, value[q], q)
        <5>1. q \in steps /\ ~(given < q)
          BY <1>1, <4>5
        <5>2. q \notin bad
          BY <4>5, <5>1
        <5> QED BY <5>1, <5>2
      <4> QED BY <3>2, <4>6, <4>7
    <3> QED BY <3>1, <3>2
  <2> DEFINE some == [i \in 1..given - p |-> v[p + 1 + i]]
  <2>4. [i \in 1..(given - p) |-> f.rows[value[p + i]].bytes] = some
    <3> SUFFICES ASSUME NEW i \in 1..given - p PROVE f.rows[value[p + i]].bytes = v[p + 1 + i]
      OBVIOUS
    <3> HIDE DEF given, value
    <3>1. p + i \in p + 1..given /\ p + i \in p + 1..n /\ p + i \in 0..n /\ (p + i) + 1 = p + 1 + i
      BY <1>1, <2>3
    <3>2. f.rows[value[p + i]].bytes = Last(value[p + i])
      BY <2>3, <3>1, StepHolds
    <3>3. value[p + i] = SubSeq(v, 1, (p + i) + 1)
      BY <2>2, <3>1
    <3>4. Last(SubSeq(v, 1, (p + i) + 1)) = v[(p + i) + 1]
      BY <1>1, <3>1, PrefixFacts
    <3> QED BY <3>1, <3>2, <3>3, <3>4
  <2>5. walk.given = some /\ (walk.whole <=> bad = {})
    <3> HIDE DEF some, bad, given, walk
    <3> QED BY <2>1, <2>4 DEF Stream
  <2>6. IsPrefix(some, After(v, p)) /\ (given = n => some = After(v, p))
    <3> HIDE DEF given
    <3> QED BY <1>1, <2>3, SomeAfter
  <2>7. IsPrefix(walk.given, After(v, p)) /\ (walk.whole => walk.given = After(v, p))
    <3> HIDE DEF some, given, bad, walk, value
    <3> QED BY <2>3, <2>5, <2>6
  <2>8. expected # Broken => value[p] = expected
    BY <1>4
  <2>9. p = 0 => value[p] = Seed(Segment(v))
    BY <1>4
  <2> HIDE DEF walk, value
  <2> QED BY <2>2, <2>7, <2>8, <2>9 DEF walk, value
<1>5. (p >= n) \/ p < n
  BY <1>1
<1> QED BY <1>2, <1>3, <1>4, <1>5

\* Values read by position from p to m, each kept over the last, of which the last is the trail's.
Chained(f, v, p, m, sole) ==
  /\ m > p => sole[m] = SubSeq(v, 1, m + 1)
  /\ \A q \in p + 1..m : ChainStep(f, sole[q], q) /\ f.rows[sole[q]].prev = sole[q - 1]
Recorded(f, v, p, m, sole) == \A i \in 1..m - p : f.rows[sole[p + i]].bytes = v[p + 1 + i]

\* Their records are the trail's own.
LEMMA ChainRecords ==
  ASSUME NEW f, GenuineFile(f), NEW v, IsValue(v), NEW p \in 0..Position(v), NEW m \in p..Position(v), NEW sole,
         Chained(f, v, p, m, sole)
  PROVE  Recorded(f, v, p, m, sole)
<1> DEFINE At1(q) == SubSeq(v, 1, q + 1)
           Qs == {q \in p + 1..m : sole[q] = At1(q)}
<1>0. m \in Nat /\ p \in Nat /\ p <= m /\ m <= Position(v) /\ Position(v) \in Nat
  BY ValueFacts
<1>c. /\ m > p => sole[m] = SubSeq(v, 1, m + 1)
      /\ \A q \in p + 1..m : ChainStep(f, sole[q], q) /\ f.rows[sole[q]].prev = sole[q - 1]
  BY DEF Chained
<1> SUFFICES ASSUME NEW i \in 1..m - p PROVE f.rows[sole[p + i]].bytes = v[p + 1 + i]
  BY DEF Recorded
<1>2. m > p
  BY <1>0
<1>3. f.rows[sole[p + i]].bytes = v[p + 1 + i]
  <2>1. m \in Qs
    BY <1>0, <1>2, <1>c
  <2>2. \A q \in (p + 1) + 1..m : q \in Qs => q - 1 \in Qs
    <3> SUFFICES ASSUME NEW q \in (p + 1) + 1..m, q \in Qs PROVE q - 1 \in Qs
      OBVIOUS
    <3>1. q \in p + 1..m /\ q - 1 \in p + 1..m /\ q \in 0..Position(v) /\ q > 0 /\ (q - 1) + 1 = q
      BY <1>0
    <3>2. f.rows[sole[q]].prev = Front(sole[q])
      BY <1>c, <3>1, StepHolds
    <3>3. Front(At1(q)) = At1(q - 1)
      BY <3>1, PrefixFacts
    <3> QED BY <1>c, <3>1, <3>2, <3>3
  <2>3. p + 1..m \subseteq Qs
    <3> HIDE DEF Qs
    <3>1. m \in Nat /\ p + 1 \in 0..m
      BY <1>0, <1>2
    <3> QED BY <2>1, <2>2, <3>1, CountsBack
  <2>4. p + i \in p + 1..m /\ p + i \in 0..Position(v) /\ (p + i) + 1 = p + 1 + i
    BY <1>0
  <2>5. f.rows[sole[p + i]].bytes = Last(sole[p + i]) /\ sole[p + i] = At1(p + i)
    BY <1>c, <2>3, <2>4, StepHolds
  <2>6. Last(At1(p + i)) = v[(p + i) + 1]
    BY <2>4, PrefixFacts
  <2> QED BY <2>4, <2>5, <2>6
<1> QED BY <1>3

\* A trail's records after p are those through m and those after it.
LEMMA AfterJoins ==
  ASSUME NEW v, IsValue(v), NEW p \in 0..Position(v), NEW m \in p..Position(v)
  PROVE  [i \in 1..m - p |-> v[p + 1 + i]] \o After(v, m) = After(v, p)
<1> DEFINE n == Position(v)
           one == [i \in 1..m - p |-> v[p + 1 + i]]
           two == [i \in 1..n - m |-> v[m + 1 + i]]
           all == [i \in 1..n - p |-> v[p + 1 + i]]
<1>0. n \in Nat /\ m \in Nat /\ p \in Nat /\ p <= m /\ m <= n /\ m - p \in Nat /\ n - m \in Nat /\ n - p \in Nat
      /\ m \in 0..n
  BY ValueFacts
<1>1. After(v, p) = all /\ After(v, m) = two
  BY <1>0, AfterFacts
<1>2. one \in Seq(ToSet(v)) /\ two \in Seq(ToSet(v))
  <2>1. DOMAIN v = 1..n + 1
    BY ValueFacts
  <2>2. \A i \in 1..m - p : v[p + 1 + i] \in ToSet(v)
    <3>1. \A i \in 1..m - p : p + 1 + i \in 1..n + 1
      BY <1>0
    <3> QED BY <2>1, <3>1 DEF ToSet
  <2>3. \A i \in 1..n - m : v[m + 1 + i] \in ToSet(v)
    <3>1. \A i \in 1..n - m : m + 1 + i \in 1..n + 1
      BY <1>0
    <3> QED BY <2>1, <3>1 DEF ToSet
  <2> QED BY <1>0, <2>2, <2>3
<1>3. Len(one) = m - p /\ Len(two) = n - m /\ Len(one \o two) = n - p /\ one \o two \in Seq(ToSet(v))
  BY <1>0, <1>2
<1>4. \A i \in 1..n - p : (one \o two)[i] = v[p + 1 + i]
  <2> SUFFICES ASSUME NEW i \in 1..n - p PROVE (one \o two)[i] = v[p + 1 + i]
    OBVIOUS
  <2>1. (one \o two)[i] = IF i <= Len(one) THEN one[i] ELSE two[i - Len(one)]
    <3> HIDE DEF one, two
    <3>1. i \in 1..Len(one) + Len(two)
      BY <1>0, <1>3
    <3> QED BY <1>2, <3>1
  <2>2. CASE i <= m - p
    <3>1. i \in 1..m - p
      BY <1>0, <2>2
    <3> QED BY <1>3, <2>1, <2>2, <3>1
  <2>3. CASE i > m - p
    <3>1. i - (m - p) \in 1..n - m /\ m + 1 + (i - (m - p)) = p + 1 + i /\ ~(i <= m - p)
      BY <1>0, <2>3
    <3> QED BY <1>3, <2>1, <3>1
  <2> QED BY <1>0, <2>2, <2>3
<1>5. one \o two = all
  <2> DEFINE both == one \o two
             k == n - p
  <2>1. both \in Seq(ToSet(v)) /\ Len(both) = k /\ \A i \in 1..k : both[i] = v[p + 1 + i]
    BY <1>3, <1>4
  <2> HIDE DEF both, k
  <2>2. both = [i \in 1..k |-> both[i]]
    BY <2>1
  <2>3. both = [i \in 1..k |-> v[p + 1 + i]]
    BY <2>1, <2>2
  <2> QED BY <2>3 DEF both, k
<1> QED BY <1>1, <1>5

-----------------------------------------------------------------------------
\* The first of a set of positions.
LEMMA FirstOf ==
  ASSUME NEW S, S \subseteq Nat, S # {}
  PROVE  \E x \in S : \A y \in S : x <= y
<1>1. PICK x \in S : \A y \in S : ~(<<y, x>> \in OpToRel(<, Nat))
  BY WFMin, NatLessThanWellFounded
<1>2. ASSUME NEW y \in S PROVE x <= y
  <2>1. x \in Nat /\ y \in Nat /\ ~(y < x)
    BY <1>1 DEF OpToRel
  <2> QED BY <2>1
<1> QED BY <1>2

\* forward: a stream that ends whole gave every record after its base, by position or from the walk back.
LEMMA ForwardReads ==
  ASSUME NEW f, GenuineFile(f), NEW v, IsValue(v), Position(v) > 0 => v \in DOMAIN f.rows, NEW p \in 0..Position(v),
         Forward(f, v, p).whole
  PROVE  Forward(f, v, p).given = After(v, p)
<1> DEFINE n == Position(v)
           at == [q \in p..n |-> IF q = 0 THEN {Seed(Segment(v))} ELSE At(f, Segment(v), q)]
           sole == [q \in DOMAIN at |-> IF Cardinality(at[q]) = 1 THEN CHOOSE x \in at[q] : TRUE ELSE Broken]
           steps(q) == sole[q] # Broken /\ ChainStep(f, sole[q], q) /\ f.rows[sole[q]].prev = sole[q - 1]
           stop == {q \in (p + 1)..n : ~steps(q)}
           read(q) == [i \in 1..(q - p) |-> f.rows[sole[p + i]].bytes]
           s == CHOOSE q \in stop : \A x \in stop : q <= x
           rest == Walk(f, v, s - 1, sole[s - 1])
           forward == Forward(f, v, p)
<1>1. forward =
        IF p >= n THEN Stream(<<>>, TRUE)
        ELSE IF sole[p] = Broken THEN Walk(f, v, p, Broken)
        ELSE IF stop = {} THEN Stream(read(n), sole[n] = v)
        ELSE IF Cardinality(at[s]) > 1 THEN Stream(read(s - 1) \o rest.given, rest.whole) ELSE Stream(read(s - 1), FALSE)
  BY DEF Forward
<1>2. n \in Nat /\ p \in Nat /\ p <= n
  BY ValueFacts
<1> HIDE DEF at, sole, steps, stop, read, s, rest, n, forward
<1>3. CASE p >= n
  <2>0. p = n
    BY <1>2, <1>3
  <2>1. forward.given = <<>> /\ p = n
    BY <1>1, <1>3, <2>0 DEF Stream
  <2>2. After(v, p) = [i \in 1..n - p |-> v[p + 1 + i]]
    BY AfterFacts DEF n
  <2>3. After(v, p) = <<>>
    BY <1>2, <2>1, <2>2
  <2> QED BY <2>1, <2>3 DEF forward
<1>4. CASE p < n /\ sole[p] = Broken
  <2>1. forward = Walk(f, v, p, Broken)
    <3>1. ~(p >= n)
      BY <1>2, <1>4
    <3> QED BY <1>1, <1>4, <3>1
  <2>2. v \in DOMAIN f.rows
    BY <1>2, <1>4 DEF n
  <2> QED BY <2>1, <2>2, WalkReads DEF forward
<1>5. CASE p < n /\ sole[p] # Broken /\ stop = {}
  <2>1. forward = Stream(read(n), sole[n] = v)
    <3>1. ~(p >= n)
      BY <1>2, <1>5
    <3> QED BY <1>1, <1>5, <3>1
  <2>2. forward.given = read(n) /\ sole[n] = v
    <3>1. forward.given = read(n)
      BY <2>1 DEF Stream
    <3>2. forward.whole = (sole[n] = v)
      BY <2>1 DEF Stream
    <3>3. forward.whole
      BY DEF forward
    <3> QED BY <3>1, <3>2, <3>3
  <2>3. SubSeq(v, 1, n + 1) = v
    BY ValueFacts DEF n
  <2>4. \A q \in p + 1..n : ChainStep(f, sole[q], q) /\ f.rows[sole[q]].prev = sole[q - 1]
    BY <1>5 DEF stop, steps
  <2>5. read(n) = [i \in 1..n - p |-> v[p + 1 + i]]
    <3>1. n \in p..Position(v) /\ p \in 0..Position(v) /\ sole[n] = SubSeq(v, 1, n + 1)
      BY <1>2, <2>2, <2>3 DEF n
    <3>2. Chained(f, v, p, n, sole)
      BY <2>4, <3>1 DEF Chained
    <3>3. Recorded(f, v, p, n, sole)
      BY <3>1, <3>2, ChainRecords
    <3> QED BY <3>3 DEF read, Recorded
  <2>6. After(v, p) = [i \in 1..n - p |-> v[p + 1 + i]]
    BY AfterFacts DEF n
  <2> QED BY <2>2, <2>5, <2>6 DEF forward
<1>6. CASE p < n /\ sole[p] # Broken /\ stop # {}
  <2>1. s \in stop /\ \A x \in stop : s <= x
    <3>1. stop \subseteq Nat
      BY <1>2 DEF stop
    <3>2. \E q \in stop : \A x \in stop : q <= x
      BY <1>6, <3>1, FirstOf
    <3> QED BY <3>2 DEF s
  <2>2. s \in p + 1..n /\ s - 1 \in p..n /\ s - 1 \in Nat /\ s - 1 < n
    <3>1. s \in p + 1..n
      BY <2>1 DEF stop
    <3> QED BY <1>2, <3>1
  <2>3. forward = IF Cardinality(at[s]) > 1 THEN Stream(read(s - 1) \o rest.given, rest.whole) ELSE Stream(read(s - 1), FALSE)
    <3>1. ~(p >= n)
      BY <1>2, <1>6
    <3> QED BY <1>1, <1>6, <3>1
  <2>4. ASSUME NEW q \in p + 1..s - 1 PROVE steps(q)
    <3>1. q \in p + 1..n /\ ~(s <= q)
      BY <1>2, <2>2
    <3> QED BY <2>1, <3>1 DEF stop
  <2>5. forward.given = read(s - 1) \o rest.given /\ rest.whole
    <3>1. forward.whole
      BY DEF forward
    <3>2. Cardinality(at[s]) > 1
      BY <2>3, <3>1 DEF Stream
    <3>3. forward = Stream(read(s - 1) \o rest.given, rest.whole)
      BY <2>3, <3>2
    <3> QED BY <3>1, <3>3 DEF Stream
  <2>6. v \in DOMAIN f.rows /\ s - 1 \in 0..Position(v) /\ s - 1 < Position(v)
    BY <1>2, <1>6, <2>2 DEF n
  <2>7. sole[s - 1] # Broken
    <3>1. s - 1 # p => s - 1 \in p + 1..s - 1
      BY <1>2, <2>2
    <3> QED BY <1>6, <2>4, <3>1 DEF steps
  <2>8. /\ rest.given = After(v, s - 1)
        /\ Back(f, v)[s - 1] = sole[s - 1]
        /\ Back(f, v)[s - 1] \in {SubSeq(v, 1, (s - 1) + 1), Nobody}
    BY <2>5, <2>6, <2>7, WalkReads DEF rest
  <2>9. s - 1 > p => sole[s - 1] = SubSeq(v, 1, (s - 1) + 1)
    <3> SUFFICES ASSUME s - 1 > p PROVE sole[s - 1] # Nobody
      BY <2>8
    <3>1. s - 1 \in p + 1..s - 1
      BY <1>2, <2>2
    <3>2. ChainStep(f, sole[s - 1], s - 1)
      BY <2>4, <3>1 DEF steps
    <3> QED BY <3>2, NobodyIsUnkept DEF ChainStep
  <2>10. read(s - 1) = [i \in 1..(s - 1) - p |-> v[p + 1 + i]]
    <3>1. \A q \in p + 1..s - 1 : ChainStep(f, sole[q], q) /\ f.rows[sole[q]].prev = sole[q - 1]
      BY <2>4 DEF steps
    <3>2. s - 1 \in p..Position(v)
      BY <2>2 DEF n
    <3> DEFINE m == s - 1
    <3>3. m \in p..Position(v) /\ (m > p => sole[m] = SubSeq(v, 1, m + 1))
          /\ \A q \in p + 1..m : ChainStep(f, sole[q], q) /\ f.rows[sole[q]].prev = sole[q - 1]
      BY <2>9, <3>1, <3>2
    <3> HIDE DEF m
    <3>4. Chained(f, v, p, m, sole)
      BY <3>3 DEF Chained
    <3>5. Recorded(f, v, p, m, sole)
      BY <3>3, <3>4, ChainRecords
    <3> QED BY <3>5 DEF m, read, Recorded
  <2>11. [i \in 1..(s - 1) - p |-> v[p + 1 + i]] \o After(v, s - 1) = After(v, p)
    <3>1. s - 1 \in p..Position(v)
      BY <2>2 DEF n
    <3> QED BY <3>1, AfterJoins
  <2> QED BY <2>5, <2>8, <2>10, <2>11 DEF forward
<1> QED BY <1>2, <1>3, <1>4, <1>5, <1>6

\* A property of subsets that the empty set has, and each nonempty one has where it has it without one of its
\* elements, is the whole set's.
LEMMA SubsetsOn ==
  ASSUME NEW S, IsFiniteSet(S), NEW T, {} \in T,
         \A s \in SUBSET S : s # {} => \E x \in s : s \ {x} \in T => s \in T
  PROVE  S \in T
<1> DEFINE N == Cardinality(S)
           Ks == {k \in 0..N : \A s \in SUBSET S : Cardinality(s) <= k => s \in T}
<1>1. N \in Nat
  BY FS_CardinalityType
<1>2. \A s \in SUBSET S : /\ IsFiniteSet(s) /\ Cardinality(s) \in Nat /\ (Cardinality(s) = 0 <=> s = {})
                          /\ \A x \in s : Cardinality(s \ {x}) = Cardinality(s) - 1
  BY FS_Subset, FS_CardinalityType, FS_EmptySet, FS_RemoveElement
<1>3. 0 \in Ks
  <2>1. \A s \in SUBSET S : Cardinality(s) <= 0 => s = {}
    BY <1>2
  <2> HIDE DEF N
  <2> QED BY <1>1, <2>1
<1>4. \A k \in 0..N - 1 : k \in Ks => k + 1 \in Ks
  <2> SUFFICES ASSUME NEW k \in 0..N - 1, k \in Ks, NEW s \in SUBSET S, Cardinality(s) <= k + 1 PROVE s \in T
    <3> HIDE DEF N
    <3> QED BY <1>1
  <2>1. CASE s = {}
    BY <2>1
  <2>2. CASE s # {}
    <3>1. PICK x \in s : s \ {x} \in T => s \in T
      BY <2>2
    <3>2. Cardinality(s \ {x}) <= k
      <4>1. Cardinality(s) \in Nat /\ Cardinality(s \ {x}) = Cardinality(s) - 1 /\ k \in Nat
        BY <1>1, <1>2
      <4> QED BY <4>1
    <3>3. s \ {x} \in T
      BY <3>2
    <3> QED BY <3>1, <3>3
  <2> QED BY <2>1, <2>2
<1>5. 0..N \subseteq Ks
  <2> HIDE DEF Ks, N
  <2> QED BY <1>1, <1>3, <1>4, CountsOn
<1>6. N \in 0..N /\ N <= N
  <2> HIDE DEF N
  <2> QED BY <1>1
<1> QED BY <1>5, <1>6

\* A fold over a finite set: each subset's result is had from the one without its picked element.
FoldsOver(S, base, pick, op, g) ==
  \A s \in SUBSET S : g[s] = IF s = {} THEN base ELSE op[pick[s]][g[s \ {pick[s]}]]

\* Such a fold exists and stays within what each step stays within.
LEMMA FoldExists ==
  ASSUME NEW S, IsFiniteSet(S), NEW D, NEW base \in D, NEW pick, \A s \in SUBSET S : s # {} => pick[s] \in s,
         NEW op \in [S -> [D -> D]]
  PROVE  \E g \in [SUBSET S -> D] : FoldsOver(S, base, pick, op, g)
<1> DEFINE n == Cardinality(S)
           Step(g, s) == IF s = {} THEN base ELSE op[pick[s]][g[s \ {pick[s]}]]
           Upto(k, g) == \A s \in SUBSET S : Cardinality(s) <= k => g[s] = Step(g, s)
           Good(k) == \E g \in [SUBSET S -> D] : Upto(k, g)
           Ks == {k \in 0..n : Good(k)}
<1>0. n \in Nat
  BY FS_CardinalityType
<1>a. \A s \in SUBSET S : /\ Cardinality(s) \in Nat /\ (Cardinality(s) = 0 <=> s = {}) /\ Cardinality(s) <= n
                          /\ \A x \in s : Cardinality(s \ {x}) = Cardinality(s) - 1
  BY FS_Subset, FS_CardinalityType, FS_EmptySet, FS_RemoveElement
<1>b. ASSUME NEW g \in [SUBSET S -> D], NEW s \in SUBSET S PROVE Step(g, s) \in D
  <2>1. CASE s = {}
    BY <2>1
  <2>2. CASE s # {}
    <3>1. pick[s] \in S /\ g[s \ {pick[s]}] \in D
      BY <2>2
    <3> QED BY <2>2, <3>1
  <2> QED BY <2>1, <2>2
<1>1. 0 \in Ks
  <2> DEFINE g == [s \in SUBSET S |-> base]
  <2>1. g \in [SUBSET S -> D]
    OBVIOUS
  <2>2. \A s \in SUBSET S : Cardinality(s) <= 0 => s = {}
    BY <1>a
  <2>3. Upto(0, g)
    BY <2>2
  <2> HIDE DEF g, Upto, n
  <2> QED BY <1>0, <2>1, <2>3
<1>2. \A k \in 0..n - 1 : k \in Ks => k + 1 \in Ks
  <2> SUFFICES ASSUME NEW k \in 0..n - 1, Good(k) PROVE Good(k + 1)
    <3> HIDE DEF Good, n
    <3> QED BY <1>0
  <2>1. PICK g \in [SUBSET S -> D] : Upto(k, g)
    OBVIOUS
  <2> DEFINE h == [s \in SUBSET S |-> Step(g, s)]
  <2>2. h \in [SUBSET S -> D]
    <3> HIDE DEF Step
    <3> QED BY <1>b
  <2>3. Upto(k + 1, h)
    <3> SUFFICES ASSUME NEW s \in SUBSET S, Cardinality(s) <= k + 1, s # {}
                 PROVE  h[s \ {pick[s]}] = g[s \ {pick[s]}]
      OBVIOUS
    <3> DEFINE r == s \ {pick[s]}
    <3>1. Cardinality(s) \in Nat /\ Cardinality(r) = Cardinality(s) - 1
      BY <1>a
    <3>2. r \in SUBSET S
      OBVIOUS
    <3>5. Cardinality(r) <= k
      <4> HIDE DEF n, r
      <4> QED BY <1>0, <3>1
    <3> HIDE DEF r, Step
    <3>3. g[r] = Step(g, r)
      BY <2>1, <3>2, <3>5
    <3>4. h[r] = g[r]
      BY <3>2, <3>3
    <3> QED BY <3>4 DEF r
  <2> HIDE DEF h, Upto
  <2> QED BY <2>2, <2>3
<1>3. 0..n \subseteq Ks
  <2> HIDE DEF Ks, n
  <2> QED BY <1>0, <1>1, <1>2, CountsOn
<1>4. Good(n)
  <2> HIDE DEF Good, n
  <2> QED BY <1>0, <1>3
<1>5. PICK g \in [SUBSET S -> D] : Upto(n, g)
  BY <1>4
<1> QED BY <1>a, <1>5 DEF FoldsOver

-----------------------------------------------------------------------------
\* Everything a checkpoint names: the tops of its trails, its objects, and the parts they are sent in.
EveryTop == UNION {TopsAt(n) : n \in 1..LastSequence}
EveryObject == UNION {ObjectsAt(n) : n \in 1..LastSequence}
Bases == EveryTop \cup {Seed(seg) : seg \in Segments}
TrailParts == {TrailPart(x[1], x[2], After(x[2], Position(x[1]))) :
                 x \in {y \in Bases \X EveryTop : Position(y[1]) <= Position(y[2])}}
Supplied == TrailParts \cup {ObjectPart(objects) : objects \in SUBSET EveryObject}
Trails == [parts : Seq(TrailParts), gone : SUBSET EveryTop, whole : BOOLEAN]

\* The tops are finitely many values of the segments.
LEMMA TopsAreValues ==
  /\ IsFiniteSet(EveryTop)
  /\ \A v \in EveryTop : IsValue(v) /\ Segment(v) \in Segments
<1>1. ASSUME NEW n \in 1..LastSequence PROVE IsFiniteSet(TopsAt(n))
  <2>1. IsFiniteSet({OwnTop[n]}) /\ IsFiniteSet(Taken[n])
    BY FS_Singleton, SupplyAssumption
  <2> QED BY <2>1, FS_Union DEF TopsAt
<1>2. IsFiniteSet({TopsAt(n) : n \in 1..LastSequence})
  <2> DEFINE I == 1..LastSequence
             F == {TopsAt(n) : n \in I}
             g == [n \in I |-> TopsAt(n)]
  <2>1. IsFiniteSet(I)
    BY FS_Interval, SupplyAssumption
  <2>2. g \in Surjection(I, F)
    BY DEF Surjection
  <2> HIDE DEF I, F, g
  <2>3. IsFiniteSet(F)
    BY <2>1, <2>2, FS_Surjection
  <2> QED BY <2>3 DEF F, I
<1>3. IsFiniteSet(EveryTop)
  BY <1>1, <1>2, FS_UNION DEF EveryTop
<1>4. ASSUME NEW v \in EveryTop PROVE IsValue(v) /\ Segment(v) \in Segments
  <2>1. PICK n \in 1..LastSequence : v \in TopsAt(n)
    BY DEF EveryTop
  <2>2. CASE v = OwnTop[n]
    BY <2>2, SupplyAssumption DEF Segments
  <2>3. CASE v \in Taken[n]
    BY <2>3, SupplyAssumption DEF Segments
  <2> QED BY <2>1, <2>2, <2>3 DEF TopsAt
<1> QED BY <1>3, <1>4

\* A base is a value too.
LEMMA BasesAreValues == \A b \in Bases : IsValue(b) /\ b # Broken
<1>1. \A seg : Seed(seg) \in Seq(ToSet(Seed(seg))) /\ Seed(seg) # <<>>
  <2> SUFFICES ASSUME NEW seg PROVE Seed(seg) \in Seq(ToSet(Seed(seg))) /\ Seed(seg) # <<>>
    OBVIOUS
  <2>1. <<seg>> \in Seq({seg}) /\ DOMAIN <<seg>> = 1..1 /\ <<seg>>[1] = seg
    OBVIOUS
  <2>2. ToSet(<<seg>>) = {seg}
    BY <2>1 DEF ToSet
  <2> QED BY <2>1, <2>2 DEF Seed
<1> QED BY <1>1, TopsAreValues DEF Bases, IsValue, Broken

\* trailPart: a part that ends whole carries every record after its base, be it the reader's own or the segment's seed.
LEMMA PartForOwn ==
  ASSUME NEW f, GenuineFile(f), NEW v \in EveryTop, HasTrail(f, v), NEW own \in EveryTop \cup {Broken}
  PROVE  /\ PartFor(f, v, own).part.top = v
         /\ PartFor(f, v, own).whole => PartFor(f, v, own).part \in TrailParts
<1> DEFINE after == IF own # Broken /\ Reaches(f, v, own) THEN own ELSE Seed(Segment(v))
           sent == PartFor(f, v, own)
           p == Position(after)
           stream == Forward(f, v, p)
<1>1. IsValue(v) /\ Segment(v) \in Segments /\ (Position(v) > 0 => v \in DOMAIN f.rows)
  BY TopsAreValues DEF HasTrail, Kept
<1>2. after \in Bases
  BY <1>1 DEF Bases
<1>3. p \in 0..Position(v) /\ Position(after) <= Position(v)
  <2>0. Position(v) \in Nat /\ Position(after) \in Nat
    BY <1>1, <1>2, BasesAreValues, ValueFacts
  <2>1. CASE own # Broken /\ Reaches(f, v, own)
    <3>1. Position(own) <= Position(v) /\ after = own
      BY <2>1 DEF Reaches
    <3> QED BY <2>0, <3>1
  <2>2. CASE ~(own # Broken /\ Reaches(f, v, own))
    <3>1. after = Seed(Segment(v)) /\ Len(<<Segment(v)>>) = 1
      BY <2>2
    <3>2. Position(after) = 0
      BY <3>1 DEF Seed, Position
    <3> QED BY <2>0, <3>2
  <2> QED BY <2>1, <2>2
<1>4. sent = [part |-> TrailPart(after, v, stream.given), whole |-> stream.whole]
  BY DEF PartFor, PartAfter, StreamPart
<1> HIDE DEF after, p
<1>5. sent.part = TrailPart(after, v, stream.given) /\ sent.whole = stream.whole
  <2> HIDE DEF sent, stream
  <2> QED BY <1>4
<1>6. sent.part.top = v
  BY <1>5 DEF TrailPart
<1>7. ASSUME sent.whole PROVE sent.part \in TrailParts
  <2>1. stream.whole
    <3> HIDE DEF sent, stream
    <3> QED BY <1>5, <1>7
  <2>2. stream.given = After(v, p)
    BY <1>1, <1>3, <2>1, ForwardReads
  <2>3. sent.part = TrailPart(after, v, After(v, Position(after)))
    <3> HIDE DEF sent, stream
    <3> QED BY <1>5, <2>2 DEF p
  <2>4. <<after, v>> \in {y \in Bases \X EveryTop : Position(y[1]) <= Position(y[2])}
    BY <1>2, <1>3
  <2> HIDE DEF sent
  <2> QED BY <2>3, <2>4 DEF TrailParts
<1> QED BY <1>6, <1>7

\* topTrails: each trail adds to the answer a part of its own records, or ends it.
LEMMA TopTrailWithin ==
  ASSUME NEW f, GenuineFile(f), NEW v \in EveryTop, NEW own \in EveryTop \cup {Broken}, NEW done \in Trails
  PROVE  TopTrail(f, done, v, own) \in Trails
<1> DEFINE sent == PartFor(f, v, own)
<1>1. done.parts \in Seq(TrailParts) /\ done.gone \in SUBSET EveryTop
      /\ done = [parts |-> done.parts, gone |-> done.gone, whole |-> done.whole] /\ done.whole \in BOOLEAN
  BY DEF Trails
<1>2. [done EXCEPT !.whole = FALSE] \in Trails
  BY DEF Trails
<1>3. ASSUME HasTrail(f, v) PROVE Adding(done, sent) \in Trails
  <2>1. sent.part.top = v /\ (sent.whole => sent.part \in TrailParts)
    BY <1>3, PartForOwn
  <2> HIDE DEF sent
  <2>2. CASE sent.whole
    <3>1. Append(done.parts, sent.part) \in Seq(TrailParts)
      BY <1>1, <2>1, <2>2
    <3>2. done.gone \cup {sent.part.top} \in SUBSET EveryTop
      BY <1>1, <2>1
    <3>3. Adding(done, sent) = [parts |-> Append(done.parts, sent.part), gone |-> done.gone \cup {sent.part.top}, whole |-> done.whole]
      BY <1>1, <2>2 DEF Adding
    <3> QED BY <1>1, <3>1, <3>2, <3>3 DEF Trails
  <2>3. CASE ~sent.whole
    BY <1>2, <2>3 DEF Adding
  <2> QED BY <2>2, <2>3
<1> QED BY <1>2, <1>3 DEF TopTrail

\* The last of some tops is one of them.
LEMMA NearestIsOne ==
  ASSUME NEW tops \in SUBSET EveryTop, tops # {}
  PROVE  Nearest(tops) \in tops
<1> DEFINE ps == {Position(v) : v \in tops}
<1>1. ps \subseteq Nat /\ ps # {}
  BY TopsAreValues, ValueFacts
<1>2. PICK p \in ps : \A q \in ps : p <= q
  <2> HIDE DEF ps
  <2> QED BY <1>1, FirstOf
<1>3. \E v \in tops : \A x \in tops : Position(v) <= Position(x)
  BY <1>2
<1> QED BY <1>3 DEF Nearest

\* The first of some tops is one of them: of finitely many positions one is the greatest.
LEMMA FurthestIsOne ==
  ASSUME NEW tops \in SUBSET EveryTop, tops # {}
  PROVE  Furthest(tops) \in tops
<1> DEFINE T == {s \in SUBSET tops : s # {} => \E v \in s : \A x \in s : Position(x) <= Position(v)}
<1>1. IsFiniteSet(tops) /\ \A v \in tops : Position(v) \in Nat
  BY TopsAreValues, FS_Subset, ValueFacts
<1>2. {} \in T
  OBVIOUS
<1>3. ASSUME NEW s \in SUBSET tops, s # {} PROVE \E x \in s : s \ {x} \in T => s \in T
  <2>1. PICK x \in s : TRUE
    BY <1>3
  <2>2. ASSUME s \ {x} \in T PROVE \E v \in s : \A y \in s : Position(y) <= Position(v)
    <3>1. CASE s \ {x} = {}
      <4>1. \A y \in s : y = x
        BY <3>1
      <4>2. \A y \in s : Position(y) <= Position(x)
        BY <1>1, <4>1
      <4> QED BY <4>2
    <3>2. CASE s \ {x} # {}
      <4>1. PICK w \in s \ {x} : \A y \in s \ {x} : Position(y) <= Position(w)
        BY <2>2, <3>2
      <4>2. Position(x) \in Nat /\ Position(w) \in Nat /\ \A y \in s : Position(y) \in Nat
        BY <1>1
      <4>3. CASE Position(x) <= Position(w)
        <5>1. \A y \in s : Position(y) <= Position(w)
          BY <4>1, <4>3
        <5> QED BY <5>1
      <4>4. CASE Position(w) <= Position(x)
        <5>1. \A y \in s : Position(y) <= Position(x)
          BY <4>1, <4>2, <4>4
        <5> QED BY <5>1
      <4> QED BY <4>2, <4>3, <4>4
    <3> QED BY <3>1, <3>2
  <2> QED BY <2>1, <2>2
<1>4. tops \in T
  <2> HIDE DEF T
  <2> QED BY <1>1, <1>2, <1>3, SubsetsOn
<1>5. \E v \in tops : \A x \in tops : Position(x) <= Position(v)
  BY <1>4
<1> QED BY <1>5 DEF Furthest

\* topTrails is a fold over its tops, the nearest of those left the last.
None == [parts |-> <<>>, gone |-> {}, whole |-> TRUE]
IsTrailFold(f, tops, base, g) ==
  g = [s \in SUBSET tops |-> IF s = {} THEN None
                             ELSE TopTrail(f, g[s \ {Nearest(s)}], Nearest(s), base[Segment(Nearest(s))])]

\* topTrails' answer is what such a fold comes to over all of its tops.
LEMMA TrailsFold ==
  ASSUME NEW f, NEW tops, NEW base
  PROVE  TopTrails(f, tops, base) = (CHOOSE g : IsTrailFold(f, tops, base, g))[tops]
BY DEF TopTrails, MapThenFoldSet, IsTrailFold, None

\* What holds of nothing sent for no tops, and of what a trail adds for the tops and the nearest of those left, holds
\* of topTrails' answer.
LEMMA TrailsInduct ==
  ASSUME NEW f, NEW tops \in SUBSET EveryTop, NEW base, NEW D, None \in D,
         \A v \in tops : \A done \in D : TopTrail(f, done, v, base[Segment(v)]) \in D,
         NEW T, <<{}, None>> \in T,
         \A s \in SUBSET tops : \A v \in s : \A done \in D :
             <<s \ {v}, done>> \in T => <<s, TopTrail(f, done, v, base[Segment(v)])>> \in T
  PROVE  TopTrails(f, tops, base) \in D /\ <<tops, TopTrails(f, tops, base)>> \in T
<1> DEFINE Step(v, done) == TopTrail(f, done, v, base[Segment(v)])
           pick == [s \in SUBSET tops |-> Nearest(s)]
           op == [v \in tops |-> [done \in D |-> Step(v, done)]]
<1>1. IsFiniteSet(tops)
  BY TopsAreValues, FS_Subset
<1>4. \A v \in tops : \A done \in D : Step(v, done) \in D
  OBVIOUS
<1>5. \A s \in SUBSET tops : s # {} => Nearest(s) \in s
  BY NearestIsOne
<1>6. PICK g \in [SUBSET tops -> D] : FoldsOver(tops, None, pick, op, g)
  <2>1. op \in [tops -> [D -> D]]
    <3> HIDE DEF Step
    <3> QED BY <1>4
  <2>2. \A s \in SUBSET tops : s # {} => pick[s] \in s
    BY <1>5
  <2> HIDE DEF op, pick
  <2> QED BY <1>1, <2>1, <2>2, FoldExists
<1>7. IsTrailFold(f, tops, base, g)
  <2> SUFFICES ASSUME NEW s \in SUBSET tops, s # {} PROVE g[s] = Step(Nearest(s), g[s \ {Nearest(s)}])
    <3>1. \A s \in SUBSET tops : s = {} => g[s] = None
      BY <1>6 DEF FoldsOver
    <3>2. g = [s \in SUBSET tops |-> g[s]]
      OBVIOUS
    <3> HIDE DEF op, pick
    <3> QED BY <3>1, <3>2 DEF IsTrailFold
  <2>1. g[s] = op[Nearest(s)][g[s \ {Nearest(s)}]]
    <3>1. pick[s] = Nearest(s)
      OBVIOUS
    <3> HIDE DEF op, pick
    <3> QED BY <1>6, <3>1 DEF FoldsOver
  <2>2. Nearest(s) \in tops /\ g[s \ {Nearest(s)}] \in D
    BY <1>5
  <2> HIDE DEF Step
  <2> QED BY <2>1, <2>2
<1>8. ASSUME NEW h, IsTrailFold(f, tops, base, h) PROVE h[tops] \in D /\ <<tops, h[tops]>> \in T
  <2> DEFINE H == {s \in SUBSET tops : h[s] \in D /\ <<s, h[s]>> \in T}
  <2>1. h[{}] = None
    BY <1>8 DEF IsTrailFold
  <2>2. ASSUME NEW s \in SUBSET tops, s # {} PROVE \E x \in s : s \ {x} \in H => s \in H
    <3>1. h[s] = Step(Nearest(s), h[s \ {Nearest(s)}])
      BY <1>8, <2>2 DEF IsTrailFold
    <3>2. Nearest(s) \in s /\ Nearest(s) \in tops
      BY <1>5, <2>2
    <3>3. ASSUME s \ {Nearest(s)} \in H PROVE h[s] \in D /\ <<s, h[s]>> \in T
      <4>1. <<s, Step(Nearest(s), h[s \ {Nearest(s)}])>> \in T
        BY <3>2, <3>3
      <4> HIDE DEF Step
      <4> QED BY <1>4, <3>1, <3>2, <3>3, <4>1
    <3> QED BY <3>2, <3>3
  <2>3. {} \in H
    BY <2>1
  <2>4. tops \in H
    <3> HIDE DEF H
    <3> QED BY <1>1, <2>2, <2>3, SubsetsOn
  <2> QED BY <2>4
<1>9. IsTrailFold(f, tops, base, CHOOSE h : IsTrailFold(f, tops, base, h))
  BY <1>7
<1> QED BY <1>8, <1>9, TrailsFold

\* An answer's trails carry their own records, whatever storage did to the file that answers.
LEMMA TrailsCarryTheirOwn ==
  ASSUME NEW f, GenuineFile(f), NEW tops \in SUBSET EveryTop, NEW base,
         \A seg \in Segments : base[seg] \in EveryTop \cup {Broken}
  PROVE  TopTrails(f, tops, base) \in Trails
<1> DEFINE T == (SUBSET tops) \X Trails
<1>1. None \in Trails
  <2>1. <<>> \in Seq(TrailParts)
    OBVIOUS
  <2> QED BY <2>1 DEF None, Trails
<1>2. \A v \in tops : \A done \in Trails : TopTrail(f, done, v, base[Segment(v)]) \in Trails
  <2> SUFFICES ASSUME NEW v \in tops, NEW done \in Trails PROVE TopTrail(f, done, v, base[Segment(v)]) \in Trails
    OBVIOUS
  <2>1. base[Segment(v)] \in EveryTop \cup {Broken} /\ v \in EveryTop
    BY TopsAreValues
  <2> QED BY <2>1, TopTrailWithin
<1>3. <<{}, None>> \in T
  BY <1>1
<1>4. \A s \in SUBSET tops : \A v \in s : \A done \in Trails :
          <<s \ {v}, done>> \in T => <<s, TopTrail(f, done, v, base[Segment(v)])>> \in T
  BY <1>2
<1> HIDE DEF T
<1> QED BY <1>1, <1>2, <1>3, <1>4, TrailsInduct

\* The last of some places of a sequence is one of them.
LEMMA LastIsOne ==
  ASSUME NEW n \in Nat, NEW s \in SUBSET (1..n), s # {}
  PROVE  Max(s) \in s
<1> DEFINE U == {n - x : x \in s}
<1>0. \A x \in s : x \in Nat /\ n - x \in Nat
  OBVIOUS
<1>1. U \subseteq Nat /\ U # {}
  BY <1>0
<1>2. PICK k \in U : \A y \in U : k <= y
  <2> HIDE DEF U
  <2> QED BY <1>1, FirstOf
<1>3. PICK x \in s : n - x = k
  OBVIOUS
<1>4. \A y \in s : x >= y
  <2> SUFFICES ASSUME NEW y \in s PROVE x >= y
    OBVIOUS
  <2>1. n - y \in U /\ x \in 1..n /\ y \in 1..n
    OBVIOUS
  <2>2. n - x <= n - y
    BY <1>2, <1>3, <2>1
  <2> QED BY <2>1, <2>2
<1>5. \E m \in s : \A y \in s : m >= y
  BY <1>4
<1> QED BY <1>5 DEF Max

\* What a source leaves out is a fold over the parts, the last of those left taken last.
SentOn(source, sent, part) == IF <<source, part.kind, part.top>> \in plan.without THEN sent ELSE Append(sent, part)
IsSentFold(source, parts, g) ==
  g = [s \in SUBSET (DOMAIN parts) |-> IF s = {} THEN <<>> ELSE SentOn(source, g[s \ {Max(s)}], parts[Max(s)])]

\* What is sent is what such a fold comes to over all of the parts.
LEMMA SentFold ==
  ASSUME NEW source, NEW parts
  PROVE  Sent(source, parts) = (CHOOSE g : IsSentFold(source, parts, g))[DOMAIN parts]
BY DEF Sent, FoldLeft, MapThenFoldSet, IsSentFold, SentOn

\* A source's answer is of the parts it would send, whatever it leaves out, and all of them where it leaves out none.
LEMMA SentAreParts ==
  ASSUME NEW P, NEW source, NEW parts \in Seq(P)
  PROVE  Sent(source, parts) \in Seq(P) /\ (~Withholds(source) => Sent(source, parts) = parts)
<1> DEFINE S == DOMAIN parts
           D == Seq(P)
           n == Len(parts)
           Step(i, sent) == SentOn(source, sent, parts[i])
           pick == [s \in SUBSET S |-> Max(s)]
           op == [i \in S |-> [sent \in D |-> Step(i, sent)]]
<1>0. n \in Nat /\ S = 1..n /\ \A i \in S : parts[i] \in P
  BY LenProperties, ElementOfSeq
<1>1. IsFiniteSet(S)
  BY <1>0, FS_Interval
<1>2. <<>> \in D
  OBVIOUS
<1>4. \A i \in S : \A sent \in D : Step(i, sent) \in D
  <2> SUFFICES ASSUME NEW i \in S, NEW sent \in D PROVE Step(i, sent) \in D
    OBVIOUS
  <2>1. parts[i] \in P
    BY <1>0
  <2>2. Append(sent, parts[i]) \in Seq(P)
    BY <2>1
  <2> QED BY <2>2 DEF SentOn
<1>5. \A s \in SUBSET S : s # {} => Max(s) \in s
  <2> HIDE DEF n, S
  <2> QED BY <1>0, LastIsOne
<1> HIDE DEF n, S, D
<1>6. PICK g \in [SUBSET S -> D] : FoldsOver(S, <<>>, pick, op, g)
  <2>1. op \in [S -> [D -> D]]
    <3> HIDE DEF Step
    <3> QED BY <1>4
  <2>2. \A s \in SUBSET S : s # {} => pick[s] \in s
    BY <1>5
  <2> HIDE DEF op, pick
  <2> QED BY <1>1, <1>2, <2>1, <2>2, FoldExists
<1>7. IsSentFold(source, parts, g)
  <2> SUFFICES ASSUME NEW s \in SUBSET S, s # {} PROVE g[s] = Step(Max(s), g[s \ {Max(s)}])
    <3>1. \A s \in SUBSET S : s = {} => g[s] = <<>>
      BY <1>6 DEF FoldsOver
    <3>2. g = [s \in SUBSET S |-> g[s]]
      OBVIOUS
    <3> HIDE DEF op, pick
    <3> QED BY <3>1, <3>2 DEF IsSentFold, S
  <2>1. g[s] = op[Max(s)][g[s \ {Max(s)}]]
    <3>1. pick[s] = Max(s)
      OBVIOUS
    <3> HIDE DEF op, pick
    <3> QED BY <1>6, <3>1 DEF FoldsOver
  <2>2. Max(s) \in S /\ g[s \ {Max(s)}] \in D
    BY <1>5
  <2> HIDE DEF Step
  <2> QED BY <2>1, <2>2
<1>8. ASSUME NEW h, IsSentFold(source, parts, h) PROVE h[S] \in D
  <2> DEFINE T == {s \in SUBSET S : h[s] \in D}
  <2>1. h[{}] = <<>>
    BY <1>8 DEF IsSentFold, S
  <2>2. ASSUME NEW s \in SUBSET S, s # {} PROVE \E x \in s : s \ {x} \in T => s \in T
    <3>1. h[s] = Step(Max(s), h[s \ {Max(s)}])
      BY <1>8, <2>2 DEF IsSentFold, S
    <3>2. Max(s) \in s /\ Max(s) \in S
      BY <1>5, <2>2
    <3>3. s \ {Max(s)} \in T => h[s] \in D
      <4> HIDE DEF Step
      <4> QED BY <1>4, <3>1, <3>2
    <3> QED BY <3>2, <3>3
  <2>3. {} \in T
    BY <1>2, <2>1
  <2>4. S \in T
    <3> HIDE DEF T
    <3> QED BY <1>1, <2>2, <2>3, SubsetsOn
  <2> QED BY <2>4
<1>9. ASSUME NEW h, IsSentFold(source, parts, h), ~Withholds(source) PROVE h[S] = parts
  <2> DEFINE K == {k \in 0..n : h[1..k] = SubSeq(parts, 1, k)}
  <2>1. 0 \in K
    <3>1. h[{}] = <<>> /\ 1..0 = {}
      BY <1>9 DEF IsSentFold, S
    <3>2. SubSeq(parts, 1, 0) = <<>>
      OBVIOUS
    <3>3. 0 \in 0..n
      BY <1>0
    <3> QED BY <3>1, <3>2, <3>3
  <2>2. ASSUME NEW k \in 0..n - 1, k \in K PROVE k + 1 \in K
    <3> DEFINE s == 1..k + 1
    <3>0. k \in Nat /\ k + 1 <= n /\ k + 1 \in 0..n
      BY <1>0
    <3>1. s \in SUBSET S /\ s # {} /\ k + 1 \in S /\ s \ {k + 1} = 1..k /\ k + 1 \in 0..n
      <4>1. s \in SUBSET S /\ k + 1 \in S
        BY <1>0, <3>0
      <4>2. k + 1 \in s /\ s \ {k + 1} = 1..k
        BY <3>0
      <4> QED BY <3>0, <4>1, <4>2
    <3>2. Max(s) = k + 1
      <4>1. k + 1 \in s /\ (\A y \in s : k + 1 >= y) /\ \A x \in s : (\A y \in s : x >= y) => x = k + 1
        BY <1>0, <2>2
      <4> HIDE DEF s
      <4> QED BY <4>1 DEF Max
    <3>3. h[s] = SentOn(source, h[s \ {Max(s)}], parts[Max(s)])
      <4> HIDE DEF s
      <4> QED BY <1>9, <3>1 DEF IsSentFold, S
    <3>4. <<source, parts[k + 1].kind, parts[k + 1].top>> \notin plan.without
      <4>1. \A left \in plan.without : left[1] # source
        BY <1>9 DEF Withholds
      <4> QED BY <4>1
    <3>5. h[s] = Append(SubSeq(parts, 1, k), parts[k + 1])
      <4> HIDE DEF s
      <4> QED BY <2>2, <3>1, <3>2, <3>3, <3>4 DEF SentOn
    <3>6. Append(SubSeq(parts, 1, k), parts[k + 1]) = SubSeq(parts, 1, k + 1)
      BY <1>0, <2>2
    <3> QED BY <3>1, <3>5, <3>6
  <2>3. 0..n \subseteq K
    <3> HIDE DEF K
    <3> QED BY <1>0, <2>1, <2>2, CountsOn
  <2>4. h[S] = SubSeq(parts, 1, n) /\ SubSeq(parts, 1, n) = parts
    <3>1. n \in K
      <4>1. n \in 0..n
        BY <1>0
      <4> HIDE DEF K
      <4> QED BY <2>3, <4>1
    <3>2. SubSeq(parts, 1, n) = parts
      BY DEF n
    <3> QED BY <1>0, <3>1, <3>2
  <2> QED BY <2>4
<1>10. IsSentFold(source, parts, CHOOSE h : IsSentFold(source, parts, h))
  BY <1>7
<1> QED BY <1>8, <1>9, <1>10, SentFold DEF S, D

-----------------------------------------------------------------------------
\* The journal's own rows are what it was given.
LEMMA JournalIsGenuine == GenuineFile(JournalFile)
<1> DEFINE values == UNION {{SubSeq(v, 1, p + 1) : p \in 1..Position(v)} : v \in EveryTop}
           f == JournalFile
<1>1. f.rows = [v \in values |-> RowOf(v)] /\ f = [rows |-> f.rows, objects |-> f.objects, heads |-> f.heads]
  BY DEF JournalFile, EveryTop
<1>2. ASSUME NEW x \in values PROVE IsValue(x) /\ Len(x) >= 2
  <2>1. PICK v \in EveryTop : \E p \in 1..Position(v) : x = SubSeq(v, 1, p + 1)
    OBVIOUS
  <2>4. PICK p \in 1..Position(v) : x = SubSeq(v, 1, p + 1)
    BY <2>1
  <2>2. IsValue(v) /\ Position(v) \in Nat
    BY TopsAreValues, ValueFacts
  <2>3. p \in 0..Position(v) /\ p \in Nat /\ p + 1 >= 2
    BY <2>2
  <2> QED BY <2>2, <2>3, <2>4, PrefixFacts
<1> HIDE DEF values, f
<1>3. ASSUME NEW x \in DOMAIN f.rows PROVE IsValue(x) /\ Len(x) >= 2 /\ GenuineRow(x, f.rows[x])
  <2>1. x \in values /\ f.rows[x] = RowOf(x)
    BY <1>1
  <2>2. GenuineRow(x, RowOf(x))
    BY DEF GenuineRow, RowOf
  <2> QED BY <1>2, <2>1, <2>2
<1>4. f.rows = [v \in DOMAIN f.rows |-> f.rows[v]]
  BY <1>1
<1> QED BY <1>1, <1>3, <1>4 DEF GenuineFile, f

\* An answer is the objects of its range and then its trails.
LEMMA WholeIsSupplied ==
  ASSUME NEW objects \in SUBSET EveryObject, NEW trails \in Trails
  PROVE  Whole(objects, trails).parts \in Seq(Supplied)
<1>1. trails.parts \in Seq(Supplied)
  <2>1. trails.parts \in Seq(TrailParts)
    BY DEF Trails
  <2>2. TrailParts \subseteq Supplied
    BY DEF Supplied
  <2> HIDE DEF Supplied
  <2> QED BY <2>1, <2>2, SeqMonotonic
<1>2. ObjectPart(objects) \in Supplied
  BY DEF Supplied
<1>3. (IF objects = {} THEN <<>> ELSE <<ObjectPart(objects)>>) \in Seq(Supplied)
  BY <1>2
<1> QED BY <1>1, <1>3 DEF Whole

\* serve: the journal's answer for any range is of the parts its checkpoints name.
LEMMA JournalSupplies ==
  ASSUME NEW through \in 1..LastSequence, NEW after \in Nat
  PROVE  JournalParts(through, after).parts \in Seq(Supplied)
<1> DEFINE from == IF after < through THEN after ELSE through
           range == (from + 1)..through
           base == [seg \in Segments |-> IF seg = Own /\ from > 0 THEN OwnTop[from] ELSE Broken]
           objects == UNION {ObjectsAt(n) : n \in range}
           tops == UNION {TopsAt(n) : n \in range}
           answer == Whole(objects, TopTrails(JournalFile, tops, base))
<1>0. LastSequence \in Nat /\ through \in Nat
  BY SupplyAssumption
<1>1. from \in 0..through
  BY <1>0
<1> HIDE DEF from
<1>2. JournalParts(through, after) = answer
  BY <1>1 DEF JournalParts, JournalAnswers, from
<1>3. range \subseteq 1..LastSequence
  BY <1>0, <1>1
<1>4. objects \in SUBSET EveryObject /\ tops \in SUBSET EveryTop
  BY <1>3 DEF EveryObject, EveryTop
<1>5. \A seg \in Segments : base[seg] \in EveryTop \cup {Broken}
  <2>1. from > 0 => OwnTop[from] \in EveryTop
    BY <1>0, <1>1 DEF EveryTop, TopsAt
  <2> QED BY <2>1
<1> HIDE DEF tops, objects, base
<1>6. TopTrails(JournalFile, tops, base) \in Trails
  BY <1>4, <1>5, JournalIsGenuine, TrailsCarryTheirOwn
<1> QED BY <1>2, <1>4, <1>6, WholeIsSupplied

\* What a replica's file may index: tops and objects that checkpoints name.
Indexable == EveryObject \cup {<<"top", v>> : v \in EveryTop}

\* EvidenceStore.served: so is a replica's, whatever its storage made of the rows it serves from.
LEMMA ReplicaSupplies ==
  ASSUME GenuineFile(file[Replica]), DOMAIN index \subseteq Indexable, NEW through, NEW after
  PROVE  ReplicaParts(through, after).parts \in Seq(Supplied)
<1> DEFINE from == ServedFrom(through, after)
           below(seg) == {v \in IndexedTops(0, from) : Segment(v) = seg}
           base == [seg \in Segments |-> IF from = 0 \/ below(seg) = {} THEN Broken ELSE Furthest(below(seg))]
           objects == IndexedObjects(from, through)
           tops == IndexedTops(from, through)
           trails == TopTrails(file[Replica], tops, base)
<1>1. ReplicaParts(through, after) = IF objects \subseteq file[Replica].objects THEN Whole(objects, trails)
                                     ELSE [parts |-> <<>>, whole |-> FALSE]
  BY DEF ReplicaParts
<1> HIDE DEF from
<1>2. \A x \in EveryObject : x[1] # "top"
  BY DEF EveryObject, ObjectsAt, OwnObject, TakenObject
<1>3. \A a, b : IndexedTops(a, b) \subseteq EveryTop
  BY <1>2 DEF IndexedTops, Indexed, Indexable
<1>4. objects \in SUBSET EveryObject
  BY DEF IndexedObjects, Indexed, Indexable
<1>5. \A seg \in Segments : base[seg] \in EveryTop \cup {Broken}
  <2> SUFFICES ASSUME NEW seg \in Segments, below(seg) # {} PROVE Furthest(below(seg)) \in EveryTop
    OBVIOUS
  <2>1. below(seg) \in SUBSET EveryTop
    BY <1>3
  <2> HIDE DEF below
  <2> QED BY <2>1, FurthestIsOne
<1>6. tops \in SUBSET EveryTop
  BY <1>3
<1> HIDE DEF base, tops, objects
<1>7. trails \in Trails
  BY <1>5, <1>6, TrailsCarryTheirOwn
<1> HIDE DEF trails
<1>8. Whole(objects, trails).parts \in Seq(Supplied)
  BY <1>4, <1>7, WholeIsSupplied
<1>9. [parts |-> <<>>, whole |-> FALSE].parts \in Seq(Supplied)
  OBVIOUS
<1> QED BY <1>1, <1>8, <1>9

\* Keeping a trail's part chains its records over its base: each row names the value before its own.
LEMMA KeepingIsGenuine ==
  ASSUME NEW f, GenuineFile(f), NEW part \in TrailParts
  PROVE  GenuineFile(KeepTrail(f, part.base, part.records))
<1> DEFINE base == part.base
           records == part.records
           value(i) == base \o SubSeq(records, 1, i)
           new == RowsOf(f, base, records)
           g == KeepTrail(f, base, records)
<1>1. PICK x \in {y \in Bases \X EveryTop : Position(y[1]) <= Position(y[2])} :
        part = TrailPart(x[1], x[2], After(x[2], Position(x[1])))
  BY DEF TrailParts
<1>2. base \in Bases /\ x[2] \in EveryTop /\ base = x[1] /\ records = After(x[2], Position(x[1]))
  BY <1>1 DEF TrailPart
<1>3. IsValue(base) /\ Len(base) \in Nat /\ Len(base) >= 1
  BY <1>2, BasesAreValues, ValueFacts
<1>4. \E S : base \in Seq(S) /\ records \in Seq(S) /\ Len(records) \in Nat
  <2> DEFINE v == x[2]
             p == Position(x[1])
             n == Position(v)
  <2>1. IsValue(v) /\ p \in Nat /\ n \in Nat /\ p <= n /\ DOMAIN v = 1..n + 1
    BY <1>1, <1>2, BasesAreValues, TopsAreValues, ValueFacts
  <2>2. records = [i \in 1..n - p |-> v[p + 1 + i]]
    <3>1. p \in 0..Position(v)
      BY <2>1
    <3> HIDE DEF v, p
    <3> QED BY <1>2, <2>1, <3>1, AfterFacts DEF v, p
  <2> HIDE DEF v, p, n
  <2>3. \A i \in 1..n - p : v[p + 1 + i] \in ToSet(v)
    <3>1. \A i \in 1..n - p : p + 1 + i \in 1..n + 1
      BY <2>1
    <3> QED BY <2>1, <3>1 DEF ToSet
  <2>4. records \in Seq(ToSet(v)) /\ Len(records) = n - p /\ n - p \in Nat
    BY <2>1, <2>2, <2>3
  <2>5. base \in Seq(ToSet(base))
    BY <1>3 DEF IsValue
  <2> DEFINE S == ToSet(v) \cup ToSet(base)
  <2>6. base \in Seq(S) /\ records \in Seq(S)
    BY <2>4, <2>5, SeqMonotonic
  <2> QED BY <2>4, <2>6
<1> HIDE DEF base, records
<1>5. PICK S : base \in Seq(S) /\ records \in Seq(S) /\ Len(records) \in Nat
  BY <1>4
<1>6. ASSUME NEW i \in DOMAIN records PROVE IsValue(value(i)) /\ Len(value(i)) >= 2
  <2>1. i \in 1..Len(records) /\ i \in Nat /\ i >= 1
    BY <1>5
  <2>2. SubSeq(records, 1, i) \in Seq(S) /\ Len(SubSeq(records, 1, i)) = i
    BY <1>5, <2>1
  <2> DEFINE q == SubSeq(records, 1, i)
             w == base \o q
  <2> HIDE DEF q
  <2>3. w \in Seq(S) /\ Len(w) = Len(base) + i
    BY <1>5, <2>2 DEF q
  <2> HIDE DEF w
  <2>4. Len(w) >= 2 /\ w # <<>> /\ DOMAIN w = 1..Len(w)
    BY <1>3, <2>1, <2>3
  <2>5. w \in Seq(ToSet(w))
    <3>1. \A k \in 1..Len(w) : w[k] \in ToSet(w)
      BY <2>4 DEF ToSet
    <3> QED BY <2>3, <3>1
  <2> QED BY <2>4, <2>5 DEF IsValue, q, w
<1>7. ASSUME NEW y \in DOMAIN new PROVE IsValue(y) /\ Len(y) >= 2 /\ GenuineRow(y, new[y])
  <2> DEFINE names == {value(i) : i \in DOMAIN records}
             under == IF Position(base) = 0 THEN 0 ELSE f.rows[base].size
             row(z) == [RowOf(z) EXCEPT !.size = under + Position(z) - Position(base)]
  <2>1. new = [z \in names |-> row(z)]
    BY DEF RowsOf
  <2> HIDE DEF under
  <2>2. \A z : GenuineRow(z, row(z))
    BY DEF GenuineRow, RowOf
  <2> HIDE DEF row
  <2>3. y \in names /\ new[y] = row(y)
    BY <2>1
  <2> QED BY <1>6, <2>2, <2>3
<1> HIDE DEF new
<1>8. /\ g = [rows |-> Over(new, f.rows), objects |-> f.objects, heads |-> f.heads \cup {Segment(base)}]
      /\ g.rows = [z \in DOMAIN new \cup DOMAIN f.rows |-> IF z \in DOMAIN new THEN new[z] ELSE f.rows[z]]
  <2>1. f = [rows |-> f.rows, objects |-> f.objects, heads |-> f.heads]
    BY DEF GenuineFile
  <2>2. g = [rows |-> Over(new, f.rows), objects |-> f.objects, heads |-> f.heads \cup {Segment(base)}]
    <3> DEFINE rows == Over(new, f.rows)
               heads == f.heads \cup {Segment(base)}
    <3>1. g = [f EXCEPT !.rows = rows, !.heads = heads]
      BY DEF KeepTrail, new
    <3> HIDE DEF rows, heads, g
    <3>2. g = [rows |-> rows, objects |-> f.objects, heads |-> heads]
      BY <2>1, <3>1
    <3> QED BY <3>2 DEF rows, heads
  <2> QED BY <2>2 DEF Over
<1> HIDE DEF g
<1>9. ASSUME NEW y \in DOMAIN g.rows PROVE IsValue(y) /\ Len(y) >= 2 /\ GenuineRow(y, g.rows[y])
  <2>1. y \in DOMAIN new \cup DOMAIN f.rows /\ g.rows[y] = IF y \in DOMAIN new THEN new[y] ELSE f.rows[y]
    BY <1>8
  <2> QED BY <1>7, <2>1 DEF GenuineFile
<1>10. g = [rows |-> g.rows, objects |-> g.objects, heads |-> g.heads]
  BY <1>8
<1>11. g.rows = [y \in DOMAIN g.rows |-> g.rows[y]]
  BY <1>8
<1> QED BY <1>9, <1>10, <1>11 DEF GenuineFile, g, base, records

\* An object kept is no row.
LEMMA ObjectsAreNoRows ==
  ASSUME NEW f, GenuineFile(f), NEW objects
  PROVE  GenuineFile(KeepObjects(f, objects))
<1>1. f = [rows |-> f.rows, objects |-> f.objects, heads |-> f.heads]
  BY DEF GenuineFile
<1>2. KeepObjects(f, objects) = [rows |-> f.rows, objects |-> f.objects \cup objects, heads |-> f.heads]
  BY <1>1 DEF KeepObjects
<1> QED BY <1>2 DEF GenuineFile

\* Storage may lose a row or alter one: the value before it is then the one it was kept over, or nobody's.
LEMMA DamagedIsGenuine ==
  ASSUME NEW f, GenuineFile(f), NEW g \in Damaged(f)
  PROVE  GenuineFile(g)
<1>1. f = [rows |-> f.rows, objects |-> f.objects, heads |-> f.heads] /\ f.rows = [v \in DOMAIN f.rows |-> f.rows[v]]
      /\ \A v \in DOMAIN f.rows : IsValue(v) /\ Len(v) >= 2 /\ GenuineRow(v, f.rows[v])
  BY DEF GenuineFile
<1>2. CASE \E v \in DOMAIN f.rows : g = Lost(f, v)
  <2>1. PICK v \in DOMAIN f.rows : g = Lost(f, v)
    BY <1>2
  <2> DEFINE rest == [x \in DOMAIN f.rows \ {v} |-> f.rows[x]]
  <2>2. g = [rows |-> rest, objects |-> f.objects, heads |-> f.heads]
    BY <1>1, <2>1 DEF Lost
  <2>3. rest = [x \in DOMAIN rest |-> rest[x]] /\ \A x \in DOMAIN rest : x \in DOMAIN f.rows /\ rest[x] = f.rows[x]
    OBVIOUS
  <2> HIDE DEF rest
  <2> QED BY <1>1, <2>2, <2>3 DEF GenuineFile
<1>3. CASE \E v \in DOMAIN f.rows : \E row \in Altered(f.rows[v]) : g = [f EXCEPT !.rows[v] = row]
  <2>1. PICK v \in DOMAIN f.rows : \E row \in Altered(f.rows[v]) : g = [f EXCEPT !.rows[v] = row]
    BY <1>3
  <2>2. PICK row \in Altered(f.rows[v]) : g = [f EXCEPT !.rows[v] = row]
    BY <2>1
  <2> DEFINE rows == [x \in DOMAIN f.rows |-> IF x = v THEN row ELSE f.rows[x]]
  <2>3. g = [rows |-> rows, objects |-> f.objects, heads |-> f.heads]
    BY <1>1, <2>2
  <2>4. GenuineRow(v, row)
    <3> DEFINE r == f.rows[v]
    <3>1. r = [prev |-> r.prev, position |-> r.position, size |-> r.size, bytes |-> r.bytes] /\ r.prev \in {Front(v), Nobody}
      BY <1>1 DEF GenuineRow
    <3> HIDE DEF r
    <3>2. row \in Altered(r)
      BY <2>2 DEF r
    <3>3. row = [prev |-> row.prev, position |-> row.position, size |-> row.size, bytes |-> row.bytes]
          /\ row.prev \in {r.prev, Nobody}
      BY <3>1, <3>2 DEF Altered, Nobody
    <3> QED BY <3>1, <3>3 DEF GenuineRow
  <2>5. rows = [x \in DOMAIN rows |-> rows[x]] /\ DOMAIN rows = DOMAIN f.rows
        /\ \A x \in DOMAIN rows : rows[x] = IF x = v THEN row ELSE f.rows[x]
    OBVIOUS
  <2> HIDE DEF rows
  <2> QED BY <1>1, <2>3, <2>4, <2>5 DEF GenuineFile
<1>4. CASE \E o \in f.objects : g = [f EXCEPT !.objects = @ \ {o}]
  <2>1. PICK o \in f.objects : g = [f EXCEPT !.objects = @ \ {o}]
    BY <1>4
  <2>2. g = [rows |-> f.rows, objects |-> f.objects \ {o}, heads |-> f.heads]
    BY <1>1, <2>1
  <2> QED BY <1>1, <2>2 DEF GenuineFile
<1>5. CASE \E h \in f.heads : g = [f EXCEPT !.heads = @ \ {h}]
  <2>1. PICK h \in f.heads : g = [f EXCEPT !.heads = @ \ {h}]
    BY <1>5
  <2>2. g = [rows |-> f.rows, objects |-> f.objects, heads |-> f.heads \ {h}]
    BY <1>1, <2>1
  <2> QED BY <1>1, <2>2 DEF GenuineFile
<1> QED BY <1>2, <1>3, <1>4, <1>5 DEF Damaged

-----------------------------------------------------------------------------
\* Over a file storage may have damaged, a walk gives only the trail's own records in order, a stream that ends whole
\* gave every record after its base, and a value read back is the trail's own.
ReadsGenuinely(f) ==
  \A v \in {x \in DOMAIN f.rows : HasTrail(f, x)} : \A p \in 0 .. Position(v) :
      LET rest == SubSeq(v, p + 2, Len(v))
          forward == Forward(f, v, p)
      IN /\ p > 0 => EvidenceAt(f, v, p) \in {Broken, SubSeq(v, 1, p + 1)}
         /\ IsPrefix(Walk(f, v, p, Broken).given, rest)
         /\ forward.whole => forward.given = rest

\* evidence, walk and forward read so over any file whose rows name the value before them, or nobody.
LEMMA GenuineReads == ASSUME NEW f, GenuineFile(f) PROVE ReadsGenuinely(f)
<1> SUFFICES ASSUME NEW v \in DOMAIN f.rows, NEW p \in 0..Position(v)
             PROVE  /\ p > 0 => EvidenceAt(f, v, p) \in {Broken, SubSeq(v, 1, p + 1)}
                    /\ IsPrefix(Walk(f, v, p, Broken).given, After(v, p))
                    /\ Forward(f, v, p).whole => Forward(f, v, p).given = After(v, p)
  BY DEF ReadsGenuinely, After
<1>1. IsValue(v) /\ Position(v) \in Nat
  BY ValueFacts DEF GenuineFile
<1>2. p > 0 => EvidenceAt(f, v, p) \in {Broken, SubSeq(v, 1, p + 1)}
  <2>1. p > 0 => p \in 1..Position(v)
    BY <1>1
  <2> QED BY <2>1, EvidenceIsOwn
<1>3. IsPrefix(Walk(f, v, p, Broken).given, After(v, p))
  BY WalkReads
<1>4. Forward(f, v, p).whole => Forward(f, v, p).given = After(v, p)
  BY <1>1, ForwardReads
<1> QED BY <1>2, <1>3, <1>4

Checkpoints == 0..LastSequence
AreMarks(m, party) == m \in [ToSet(Sources(party)) -> Nat]

\* A read at its source: parts to take that are of what checkpoints name, or a synced file in use.
AtSource(party, r, serving) ==
  /\ r.at \in DOMAIN Sources(party) /\ r.through \in Nat
  /\ Sources(party)[r.at] = Journal => serving > 0
ReadingSound(party, r, serving) ==
  \/ r = Idle
  \/ /\ r = [state |-> "receiving", at |-> r.at, after |-> r.after, full |-> r.full, repairing |-> r.repairing,
             through |-> r.through, whole |-> r.whole, taken |-> r.taken, charged |-> r.charged, left |-> r.left]
     /\ AtSource(party, r, serving) /\ r.after \in Nat /\ r.left \in Seq(Supplied)
  \/ /\ r = [state |-> "using", at |-> r.at, full |-> r.full, repairing |-> r.repairing, through |-> r.through]
     /\ AtSource(party, r, serving)

SupplyCounts == signed \in Checkpoints /\ held \in Checkpoints /\ selection \in Checkpoints /\ served \in Nat
FilesGenuine == DOMAIN file = Parties /\ \A party \in Parties : GenuineFile(file[party])
MarksCounted == DOMAIN mark = Parties /\ \A party \in Parties : AreMarks(mark[party], party)
ReadsSound == DOMAIN reading = Parties /\ \A party \in Parties : ReadingSound(party, reading[party], selection)
CopySound ==
  /\ GenuineFile(copy.file) /\ DOMAIN copy.index \subseteq Indexable
  /\ AreMarks(copy.mark, Replica) /\ copy.served \in Nat

SoundSupply ==
  /\ SupplyCounts /\ FilesGenuine /\ MarksCounted /\ ReadsSound /\ CopySound
  /\ DOMAIN index \subseteq Indexable

\* A party's sources are numbered from one, and each is the journal or the replica.
LEMMA SourceNumbers ==
  ASSUME NEW party \in Parties
  PROVE  /\ Len(Sources(party)) \in Nat /\ DOMAIN Sources(party) = 1..Len(Sources(party))
         /\ \A i \in DOMAIN Sources(party) : Sources(party)[i] \in ToSet(Sources(party))
         /\ \A i \in DOMAIN Sources(party) : Sources(party)[i] \in {Journal, Replica}
         /\ 1 \in DOMAIN Sources(party)
<1>1. CASE party = Replica
  <2>1. Sources(party) = <<Journal>>
    BY <1>1 DEF Sources
  <2> QED BY <2>1 DEF ToSet
<1>2. CASE party # Replica
  <2>1. Sources(party) = <<Journal, Replica>>
    BY <1>2 DEF Sources
  <2> QED BY <2>1 DEF ToSet
<1> QED BY <1>1, <1>2

\* A source's answer is of parts that checkpoints name.
LEMMA ReceivingSound ==
  ASSUME SoundSupply, NEW party \in Parties, NEW i \in DOMAIN Sources(party),
         Sources(party)[i] = Journal => selection > 0, NEW after \in Nat, NEW full, NEW repairing
  PROVE  ReadingSound(party, Receiving(party, i, after, full, repairing), selection)
<1> DEFINE source == Sources(party)[i]
           answer == Parts(source, after)
           r == Receiving(party, i, after, full, repairing)
<1>1. r = [state |-> "receiving", at |-> i, after |-> after, full |-> full, repairing |-> repairing,
           through |-> Through(source), whole |-> answer.whole, taken |-> TRUE, charged |-> 0,
           left |-> Sent(source, answer.parts)]
  BY DEF Receiving
<1>2. answer.parts \in Seq(Supplied)
  <2>1. CASE source = Journal
    <3>1. selection \in 1..LastSequence
      <4>1. selection \in 0..LastSequence /\ selection > 0
        BY <2>1 DEF SoundSupply, SupplyCounts, Checkpoints
      <4> QED BY <4>1, SupplyAssumption
    <3>2. answer = JournalParts(selection, after)
      BY <2>1 DEF Parts
    <3> QED BY <3>1, <3>2, JournalSupplies
  <2>2. CASE source # Journal
    <3>1. answer = ReplicaParts(served, after)
      BY <2>2 DEF Parts
    <3>2. GenuineFile(file[Replica]) /\ DOMAIN index \subseteq Indexable
      BY DEF SoundSupply, FilesGenuine, Parties
    <3> QED BY <3>1, <3>2, ReplicaSupplies
  <2> QED BY <2>1, <2>2
<1>3. Sent(source, answer.parts) \in Seq(Supplied)
  BY <1>2, SentAreParts
<1>4. Through(source) \in Nat
  <2>1. selection \in 0..LastSequence /\ served \in Nat
    BY DEF SoundSupply, SupplyCounts, Checkpoints
  <2>2. selection \in Nat
    BY <2>1, SupplyAssumption
  <2> QED BY <2>1, <2>2 DEF Through
<1> HIDE DEF answer, r
<1>5. r = [state |-> "receiving", at |-> r.at, after |-> r.after, full |-> r.full, repairing |-> r.repairing,
           through |-> r.through, whole |-> r.whole, taken |-> r.taken, charged |-> r.charged, left |-> r.left]
      /\ r.at = i /\ r.after = after /\ r.through = Through(source) /\ r.left = Sent(source, answer.parts)
  BY <1>1
<1> QED BY <1>3, <1>4, <1>5 DEF ReadingSound, AtSource, r

\* A read goes to the next source that serves, or ends.
LEMMA FromSound ==
  ASSUME SoundSupply, NEW party \in Parties, NEW i \in Nat \ {0}, NEW repairing
  PROVE  ReadingSound(party, From(party, i, repairing), selection)
<1> DEFINE answering == {j \in i .. Len(Sources(party)) : Through(Sources(party)[j]) > 0}
           j == Min(answering)
           source == Sources(party)[j]
           full == repairing /\ unresolved[party][source] = 0
           after == IF full THEN 0 ELSE mark[party][source]
<1>1. CASE answering = {}
  BY <1>1 DEF From, ReadingSound
<1>2. CASE answering # {}
  <2>1. answering \subseteq Nat /\ answering \subseteq DOMAIN Sources(party)
    BY SourceNumbers
  <2>2. j \in answering
    <3>1. \E x \in answering : \A y \in answering : x <= y
      <4> HIDE DEF answering
      <4> QED BY <1>2, <2>1, FirstOf
    <3> HIDE DEF answering
    <3> QED BY <3>1 DEF Min
  <2>3. From(party, i, repairing) = Receiving(party, j, after, full, repairing)
    BY <1>2 DEF From
  <2>4. j \in DOMAIN Sources(party) /\ Through(source) > 0
    <3> HIDE DEF j
    <3> QED BY <2>1, <2>2
  <2> HIDE DEF answering, j
  <2>5. after \in Nat
    <3>1. mark[party] \in [ToSet(Sources(party)) -> Nat] /\ source \in ToSet(Sources(party))
      BY <2>4, SourceNumbers DEF SoundSupply, MarksCounted, AreMarks
    <3> QED BY <3>1
  <2>6. source = Journal => selection > 0
    BY <2>4 DEF Through
  <2> HIDE DEF after, full
  <2> QED BY <2>3, <2>4, <2>5, <2>6, ReceivingSound
<1> QED BY <1>1, <1>2

\* Another read of one party, the selection still served where it was.
LEMMA ReadMoved ==
  ASSUME ReadsSound, selection > 0 => selection' > 0, NEW party \in Parties, NEW r, ReadingSound(party, r, selection'),
         reading' = [reading EXCEPT ![party] = r]
  PROVE  ReadsSound'
<1>1. DOMAIN reading' = Parties /\ reading'[party] = r /\ \A x \in Parties \ {party} : reading'[x] = reading[x]
  BY DEF ReadsSound
<1>2. \A x \in Parties \ {party} : ReadingSound(x, reading'[x], selection')
  BY <1>1 DEF ReadsSound, ReadingSound, AtSource
<1> QED BY <1>1, <1>2 DEF ReadsSound

\* The service's steps: a selection once made is never unmade.
LEMMA ServingStepSound ==
  ASSUME SoundSupply, Sign \/ Land \/ Lapse \/ PublishAgain
  PROVE  SoundSupply'
<1>1. UNCHANGED <<file, mark, index, served, reading, copy>>
  BY DEF Sign, Land, Lapse, PublishAgain
<1>2. LastSequence \in Nat /\ signed \in 0..LastSequence /\ held \in 0..LastSequence /\ selection \in 0..LastSequence
  BY SupplyAssumption DEF SoundSupply, SupplyCounts, Checkpoints
<1>3. /\ signed' \in 0..LastSequence /\ held' \in 0..LastSequence /\ selection' \in 0..LastSequence
      /\ selection > 0 => selection' > 0
  <2>1. CASE Sign
    BY <1>2, <2>1 DEF Sign
  <2>2. CASE Land
    BY <1>2, <2>2 DEF Land
  <2>3. CASE Lapse
    BY <1>2, <2>3 DEF Lapse
  <2>4. CASE PublishAgain
    BY <1>2, <2>4 DEF PublishAgain
  <2> QED BY <2>1, <2>2, <2>3, <2>4
<1>4. SupplyCounts'
  BY <1>1, <1>3 DEF SoundSupply, SupplyCounts, Checkpoints
<1>5. ReadsSound'
  <2>1. \A party \in Parties : ReadingSound(party, reading[party], selection')
    BY <1>3 DEF SoundSupply, ReadsSound, ReadingSound, AtSource
  <2> QED BY <1>1, <2>1 DEF SoundSupply, ReadsSound
<1> QED BY <1>1, <1>4, <1>5 DEF SoundSupply, FilesGenuine, MarksCounted, CopySound

\* Going on to the next source.
LEMMA PassesOver ==
  ASSUME SoundSupply, NEW party \in Parties, reading[party] # Idle, PassOver(party), selection' = selection
  PROVE  ReadsSound'
<1> DEFINE r == reading[party]
           next == From(party, r.at + 1, r.repairing)
<1>1. r.at \in DOMAIN Sources(party)
  BY DEF SoundSupply, ReadsSound, ReadingSound, AtSource
<1>2. r.at + 1 \in Nat \ {0}
  <2> HIDE DEF r
  <2> QED BY <1>1, SourceNumbers
<1>3. ReadingSound(party, next, selection)
  BY <1>2, FromSound
<1>4. reading' = [reading EXCEPT ![party] = next]
  BY DEF PassOver
<1> HIDE DEF next
<1> QED BY <1>3, <1>4, ReadMoved DEF SoundSupply

\* A read begins at the first source that serves.
LEMMA BeginSound ==
  ASSUME SoundSupply, NEW party \in Parties, Begin(party)
  PROVE  SoundSupply'
<1>1. UNCHANGED <<signed, held, selection, file, mark, index, served, copy>>
      /\ reading' = [reading EXCEPT ![party] = From(party, 1, FALSE)]
  BY DEF Begin
<1>2. ReadingSound(party, From(party, 1, FALSE), selection)
  <2>1. 1 \in Nat \ {0}
    OBVIOUS
  <2> QED BY <2>1, FromSound, Zenon
<1> DEFINE next == From(party, 1, FALSE)
<1> HIDE DEF next
<1>3. ReadsSound'
  <2>1. ReadingSound(party, next, selection') /\ reading' = [reading EXCEPT ![party] = next]
    BY <1>1, <1>2 DEF next
  <2> QED BY <1>1, <2>1, ReadMoved DEF SoundSupply
<1> QED BY <1>1, <1>3 DEF SoundSupply, SupplyCounts, FilesGenuine, MarksCounted, CopySound

\* take: what a part moves of its read.
LEMMA ReadTaken ==
  ASSUME NEW r, r = [state |-> "receiving", at |-> r.at, after |-> r.after, full |-> r.full, repairing |-> r.repairing,
             through |-> r.through, whole |-> r.whole, taken |-> r.taken, charged |-> r.charged, left |-> r.left],
         NEW left, NEW charged, NEW taken
  PROVE  [r EXCEPT !.left = left, !.charged = charged, !.taken = taken] =
         [state |-> "receiving", at |-> r.at, after |-> r.after, full |-> r.full, repairing |-> r.repairing,
             through |-> r.through, whole |-> r.whole, taken |-> taken, charged |-> charged, left |-> left]
<1> DEFINE a == [r EXCEPT !.left = left]
           b == [a EXCEPT !.charged = charged]
           c == [b EXCEPT !.taken = taken]
<1>1. a = [state |-> "receiving", at |-> r.at, after |-> r.after, full |-> r.full, repairing |-> r.repairing,
             through |-> r.through, whole |-> r.whole, taken |-> r.taken, charged |-> r.charged, left |-> left]
  OBVIOUS
<1> HIDE DEF a
<1>2. b = [state |-> "receiving", at |-> r.at, after |-> r.after, full |-> r.full, repairing |-> r.repairing,
             through |-> r.through, whole |-> r.whole, taken |-> r.taken, charged |-> charged, left |-> left]
  BY <1>1
<1> HIDE DEF b
<1>3. c = [state |-> "receiving", at |-> r.at, after |-> r.after, full |-> r.full, repairing |-> r.repairing,
             through |-> r.through, whole |-> r.whole, taken |-> taken, charged |-> charged, left |-> left]
  BY <1>2
<1>4. c = [r EXCEPT !.left = left, !.charged = charged, !.taken = taken]
  BY DEF a, b
<1> QED BY <1>3, <1>4

\* take: a part kept is chained over its base, and its names are indexed in the replica's file.
LEMMA TakeSound ==
  ASSUME SoundSupply, NEW party \in Parties, Take(party)
  PROVE  SoundSupply'
<1> DEFINE r == reading[party]
           part == Head(r.left)
           keeps == part.kind = "trail" => Base(file[party], part.base) /\ Framed(part.base, part.top, part.records)
<1>1. UNCHANGED <<signed, held, selection, mark, served, copy>> /\ r.state = "receiving" /\ r.left # <<>>
  BY DEF Take
<1>2. /\ r = [state |-> "receiving", at |-> r.at, after |-> r.after, full |-> r.full, repairing |-> r.repairing,
              through |-> r.through, whole |-> r.whole, taken |-> r.taken, charged |-> r.charged, left |-> r.left]
      /\ AtSource(party, r, selection) /\ r.after \in Nat /\ r.left \in Seq(Supplied)
  <2>1. ReadingSound(party, r, selection)
    BY DEF SoundSupply, ReadsSound
  <2>2. Idle.state = "idle"
    BY DEF Idle
  <2> HIDE DEF r
  <2> QED BY <1>1, <2>1, <2>2 DEF ReadingSound
<1>3. part \in Supplied /\ Tail(r.left) \in Seq(Supplied)
  <2> HIDE DEF r
  <2> QED BY <1>1, <1>2, HeadTailProperties
<1>4. CASE r.charged + Rows(part) > Quota
  <2>1. PassOver(party) /\ UNCHANGED <<file, index>>
    BY <1>4 DEF Take
  <2>2. reading[party] # Idle
    BY <1>1 DEF Idle
  <2>3. ReadsSound'
    BY <1>1, <2>1, <2>2, PassesOver
  <2> QED BY <1>1, <2>1, <2>3 DEF SoundSupply, SupplyCounts, FilesGenuine, MarksCounted, CopySound
<1>5. CASE ~(r.charged + Rows(part) > Quota)
  <2>1. reading' = [reading EXCEPT ![party].left = Tail(@), ![party].charged = @ + Rows(part), ![party].taken = @ /\ keeps]
    BY <1>5 DEF Take
  <2> DEFINE charged == r.charged + Rows(part)
             taken == r.taken /\ keeps
             left == Tail(r.left)
             next == [r EXCEPT !.left = left, !.charged = charged, !.taken = taken]
  <2>2. reading' = [reading EXCEPT ![party] = next]
    <3>1. DOMAIN reading = Parties
      BY DEF SoundSupply, ReadsSound
    <3> HIDE DEF part, keeps
    <3> QED BY <2>1, <3>1
  <2>3. ReadsSound'
    <3>0. next = [state |-> "receiving", at |-> r.at, after |-> r.after, full |-> r.full, repairing |-> r.repairing,
                  through |-> r.through, whole |-> r.whole, taken |-> taken, charged |-> charged, left |-> left]
      <4> HIDE DEF r, charged, taken, left, part
      <4>1. r = [state |-> "receiving", at |-> r.at, after |-> r.after, full |-> r.full, repairing |-> r.repairing,
              through |-> r.through, whole |-> r.whole, taken |-> r.taken, charged |-> r.charged, left |-> r.left]
        BY <1>2
      <4>2. next = [r EXCEPT !.left = left, !.charged = charged, !.taken = taken]
        OBVIOUS
      <4> HIDE DEF next
      <4> QED BY <4>1, <4>2, ReadTaken
    <3>2. left \in Seq(Supplied)
      BY <1>3
    <3> HIDE DEF r, charged, taken, next, part, left
    <3>1. ReadingSound(party, next, selection')
      BY <1>1, <1>2, <3>0, <3>2 DEF ReadingSound, AtSource
    <3> QED BY <1>1, <2>2, <3>1, ReadMoved DEF SoundSupply
  <2>4. GenuineFile(file[party]) /\ DOMAIN file = Parties
    BY DEF SoundSupply, FilesGenuine
  <2>5. FilesGenuine' /\ DOMAIN index' \subseteq Indexable
    <3>1. CASE part.kind = "package"
      <4>1. PICK objects \in SUBSET EveryObject : part = ObjectPart(objects)
        BY <1>3, <3>1 DEF Supplied, TrailParts, TrailPart
      <4>2. part.objects = objects
        BY <4>1 DEF ObjectPart
      <4>3. file' = [file EXCEPT ![party] = KeepObjects(@, part.objects)] /\ index' = IndexedToo(party, part.objects)
        BY <1>5, <3>1 DEF Take
      <4> HIDE DEF part
      <4>4. DOMAIN index' \subseteq DOMAIN index \cup objects
        BY <4>2, <4>3 DEF IndexedToo
      <4>5. GenuineFile(KeepObjects(file[party], objects))
        BY <2>4, ObjectsAreNoRows
      <4>6. FilesGenuine'
        BY <2>4, <4>2, <4>3, <4>5 DEF SoundSupply, FilesGenuine
      <4> QED BY <4>1, <4>4, <4>6 DEF SoundSupply, Indexable
    <3>2. CASE part.kind # "package" /\ keeps
      <4>1. part \in TrailParts
        BY <1>3, <3>2 DEF Supplied, ObjectPart
      <4>2. part.top \in EveryTop
        BY <4>1 DEF TrailParts, TrailPart
      <4>3. /\ file' = [file EXCEPT ![party] = KeepTrail(@, part.base, part.records)]
            /\ index' = IndexedToo(party, {<<"top", part.top>>})
        BY <1>5, <3>2 DEF Take
      <4> HIDE DEF part
      <4>4. DOMAIN index' \subseteq DOMAIN index \cup {<<"top", part.top>>}
        BY <4>3 DEF IndexedToo
      <4>5. GenuineFile(KeepTrail(file[party], part.base, part.records))
        BY <2>4, <4>1, KeepingIsGenuine
      <4>6. FilesGenuine'
        BY <2>4, <4>3, <4>5 DEF SoundSupply, FilesGenuine
      <4> QED BY <4>2, <4>4, <4>6 DEF SoundSupply, Indexable
    <3>3. CASE part.kind # "package" /\ ~keeps
      <4>1. UNCHANGED <<file, index>>
        BY <1>5, <3>3 DEF Take
      <4> QED BY <4>1 DEF SoundSupply, FilesGenuine
    <3> HIDE DEF part, keeps
    <3> QED BY <3>1, <3>2, <3>3
  <2> QED BY <1>1, <2>3, <2>5 DEF SoundSupply, SupplyCounts, MarksCounted, CopySound
<1> QED BY <1>4, <1>5

\* sync's end: the mark moves to what was served through, and the file is used.
LEMMA SyncedSound ==
  ASSUME SoundSupply, NEW party \in Parties, Synced(party)
  PROVE  SoundSupply'
<1> DEFINE r == reading[party]
           source == Sources(party)[r.at]
           assembled == r.taken /\ HoldsSelection(file[party], r.through)
           dropped == ~r.whole \/ (~assembled /\ r.after = 0)
<1>1. UNCHANGED <<signed, held, selection, file, index, served, copy>> /\ r.state = "receiving"
  BY DEF Synced
<1>2. AtSource(party, r, selection) /\ r.after \in Nat
  <2>1. ReadingSound(party, r, selection)
    BY DEF SoundSupply, ReadsSound
  <2>2. Idle.state = "idle"
    BY DEF Idle
  <2> HIDE DEF r
  <2>3. [state |-> "using", at |-> r.at, full |-> r.full, repairing |-> r.repairing, through |-> r.through].state = "using"
    OBVIOUS
  <2> QED BY <1>1, <2>1, <2>2, <2>3 DEF ReadingSound
<1>3. source \in ToSet(Sources(party)) /\ r.at \in DOMAIN Sources(party) /\ r.through \in Nat
  BY <1>2, SourceNumbers DEF AtSource
<1>4. CASE dropped
  <2>1. PassOver(party) /\ UNCHANGED mark
    BY <1>4 DEF Synced
  <2>2. reading[party] # Idle
    BY <1>1 DEF Idle
  <2>3. ReadsSound'
    BY <1>1, <2>1, <2>2, PassesOver
  <2> QED BY <1>1, <2>1, <2>3 DEF SoundSupply, SupplyCounts, FilesGenuine, MarksCounted, CopySound
<1>5. CASE ~dropped /\ ~assembled
  <2> DEFINE next == Receiving(party, r.at, 0, r.full, r.repairing)
  <2>1. reading' = [reading EXCEPT ![party] = next] /\ UNCHANGED mark
    BY <1>5 DEF Synced
  <2>2. ReadingSound(party, next, selection)
    BY <1>2, ReceivingSound DEF AtSource
  <2> HIDE DEF next
  <2>3. ReadsSound'
    BY <1>1, <2>1, <2>2, ReadMoved DEF SoundSupply
  <2> QED BY <1>1, <2>1, <2>3 DEF SoundSupply, SupplyCounts, FilesGenuine, MarksCounted, CopySound
<1>6. CASE ~dropped /\ assembled
  <2> DEFINE next == [state |-> "using", at |-> r.at, full |-> r.full, repairing |-> r.repairing, through |-> r.through]
             m == IF r.through > r.after THEN r.through ELSE r.after
  <2>1. reading' = [reading EXCEPT ![party] = next] /\ mark' = [mark EXCEPT ![party][source] = m]
    BY <1>6 DEF Synced
  <2>2. ReadingSound(party, next, selection)
    <3>1. next.at = r.at /\ next.through = r.through /\ next.full = r.full /\ next.repairing = r.repairing
      OBVIOUS
    <3>2. next = [state |-> "using", at |-> next.at, full |-> next.full, repairing |-> next.repairing, through |-> next.through]
      OBVIOUS
    <3> HIDE DEF next, r
    <3> QED BY <1>2, <3>1, <3>2 DEF ReadingSound, AtSource
  <2> HIDE DEF next
  <2>3. ReadsSound'
    BY <1>1, <2>1, <2>2, ReadMoved DEF SoundSupply
  <2>4. m \in Nat
    BY <1>2, <1>3
  <2> HIDE DEF m, source
  <2>5. MarksCounted'
    BY <1>3, <2>1, <2>4 DEF SoundSupply, MarksCounted, AreMarks
  <2> QED BY <1>1, <2>3, <2>5 DEF SoundSupply, SupplyCounts, FilesGenuine, CopySound
<1> QED BY <1>4, <1>5, <1>6

\* The read over a synced source: what is pending is indexed, or the source is asked again, or passed over.
LEMMA UseSound ==
  ASSUME SoundSupply, NEW party \in Parties, Use(party)
  PROVE  SoundSupply'
<1> DEFINE r == reading[party]
           source == Sources(party)[r.at]
           at == unresolved[party][source]
           moved == at = 0 \/ r.through > at
           enough == held = 0 \/ Resolves(file[party], held)
<1>1. UNCHANGED <<signed, held, selection, file, mark, copy>> /\ r.state = "using"
  BY DEF Use
<1>2. AtSource(party, r, selection)
  <2>1. ReadingSound(party, r, selection)
    BY DEF SoundSupply, ReadsSound
  <2>2. Idle.state = "idle"
    BY DEF Idle
  <2> HIDE DEF r
  <2> QED BY <1>1, <2>1, <2>2 DEF ReadingSound
<1>3. r.at + 1 \in Nat \ {0} /\ r.at \in DOMAIN Sources(party) /\ r.through \in Nat
  <2>1. r.at \in DOMAIN Sources(party) /\ r.through \in Nat
    BY <1>2 DEF AtSource
  <2>2. r.at \in Nat
    <3> HIDE DEF r
    <3> QED BY <2>1, SourceNumbers
  <2> HIDE DEF r
  <2> QED BY <2>1, <2>2
<1>4. served' \in Nat /\ DOMAIN index' \subseteq Indexable
  <2>1. KeepSelection(r.through) => served' \in {served, r.through} /\ DOMAIN index' = DOMAIN index
    BY DEF KeepSelection
  <2>2. KeepSelection(r.through) \/ UNCHANGED <<index, served>>
    BY DEF Use
  <2> QED BY <1>3, <2>1, <2>2 DEF SoundSupply, SupplyCounts
<1>5. \E next : ReadingSound(party, next, selection) /\ reading' = [reading EXCEPT ![party] = next]
  <2>1. CASE enough
    <3>1. reading' = [reading EXCEPT ![party] = Idle]
      BY <2>1 DEF Use
    <3>2. ReadingSound(party, Idle, selection)
      BY DEF ReadingSound
    <3> QED BY <3>1, <3>2
  <2>2. CASE ~enough /\ ~r.full /\ moved
    <3> DEFINE next == Receiving(party, r.at, 0, TRUE, TRUE)
    <3>1. reading' = [reading EXCEPT ![party] = next]
      BY <2>2 DEF Use
    <3>2. ReadingSound(party, next, selection)
      <4>1. 0 \in Nat
        OBVIOUS
      <4>2. Sources(party)[r.at] = Journal => selection > 0
        BY <1>2 DEF AtSource
      <4> HIDE DEF r
      <4> QED BY <1>3, <4>1, <4>2, ReceivingSound, Zenon
    <3> HIDE DEF next
    <3> QED BY <3>1, <3>2
  <2>3. CASE ~enough /\ ~(~r.full /\ moved)
    <3> DEFINE next == From(party, r.at + 1, TRUE)
    <3>1. reading' = [reading EXCEPT ![party] = next]
      BY <2>3 DEF Use
    <3>2. ReadingSound(party, next, selection)
      <4> DEFINE i == r.at + 1
      <4>1. i \in Nat \ {0}
        BY <1>3
      <4> HIDE DEF i
      <4>2. ReadingSound(party, From(party, i, TRUE), selection)
        BY <4>1, FromSound, Zenon
      <4> QED BY <4>2 DEF i
    <3> HIDE DEF next
    <3> QED BY <3>1, <3>2
  <2> QED BY <2>1, <2>2, <2>3
<1>6. ReadsSound'
  <2>1. PICK next : ReadingSound(party, next, selection) /\ reading' = [reading EXCEPT ![party] = next]
    BY <1>5
  <2> QED BY <1>1, <2>1, ReadMoved DEF SoundSupply
<1> QED BY <1>1, <1>4, <1>6 DEF SoundSupply, SupplyCounts, FilesGenuine, MarksCounted, CopySound

\* A broken connection, a stopped process, damage, and the replica's file copied and put back.
LEMMA FaultSound ==
  ASSUME SoundSupply, (\E party \in Parties : BreakOff(party) \/ Crash(party) \/ Damage(party)) \/ CopyFile \/ Restore
  PROVE  SoundSupply'
<1>1. ASSUME NEW party \in Parties, BreakOff(party) PROVE SoundSupply'
  <2>1. UNCHANGED <<signed, held, selection, file, mark, index, served, copy>> /\ PassOver(party) /\ reading[party].state = "receiving"
    BY <1>1 DEF BreakOff
  <2>2. reading[party] # Idle
    BY <2>1 DEF Idle
  <2>3. ReadsSound'
    BY <2>1, <2>2, PassesOver
  <2> QED BY <2>1, <2>3 DEF SoundSupply, SupplyCounts, FilesGenuine, MarksCounted, CopySound
<1>2. ASSUME NEW party \in Parties, Crash(party) PROVE SoundSupply'
  <2>1. UNCHANGED <<signed, held, selection, file, mark, index, served, copy>> /\ reading' = [reading EXCEPT ![party] = Idle]
    BY <1>2 DEF Crash
  <2>2. ReadingSound(party, Idle, selection)
    BY DEF ReadingSound
  <2>3. ReadsSound'
    BY <2>1, <2>2, ReadMoved DEF SoundSupply
  <2> QED BY <2>1, <2>3 DEF SoundSupply, SupplyCounts, FilesGenuine, MarksCounted, CopySound
<1>3. ASSUME NEW party \in Parties, Damage(party) PROVE SoundSupply'
  <2>1. UNCHANGED <<signed, held, selection, mark, index, served, reading, copy>>
    BY <1>3 DEF Damage
  <2>2. PICK f \in Damaged(file[party]) : file' = [file EXCEPT ![party] = f]
    BY <1>3 DEF Damage
  <2>3. GenuineFile(f)
    <3>1. GenuineFile(file[party])
      BY DEF SoundSupply, FilesGenuine
    <3> QED BY <3>1, DamagedIsGenuine
  <2>4. FilesGenuine'
    BY <2>2, <2>3 DEF SoundSupply, FilesGenuine
  <2> QED BY <2>1, <2>4 DEF SoundSupply, SupplyCounts, MarksCounted, ReadsSound, CopySound
<1>4. ASSUME CopyFile PROVE SoundSupply'
  <2>1. UNCHANGED <<signed, held, selection, file, mark, index, served, reading>>
        /\ copy' = [file |-> file[Replica], mark |-> mark[Replica], index |-> index, served |-> served]
    BY <1>4 DEF CopyFile, ReplicaFile
  <2>2. Replica \in Parties
    BY DEF Parties
  <2>3. CopySound'
    BY <2>1, <2>2 DEF SoundSupply, CopySound, FilesGenuine, MarksCounted, SupplyCounts
  <2> QED BY <2>1, <2>3 DEF SoundSupply, SupplyCounts, FilesGenuine, MarksCounted, ReadsSound
<1>5. ASSUME Restore PROVE SoundSupply'
  <2>1. /\ UNCHANGED <<signed, held, selection, reading, copy>>
        /\ file' = [file EXCEPT ![Replica] = copy.file] /\ mark' = [mark EXCEPT ![Replica] = copy.mark]
        /\ index' = copy.index /\ served' = copy.served
    BY <1>5 DEF Restore
  <2>2. Replica \in Parties
    BY DEF Parties
  <2>3. FilesGenuine' /\ MarksCounted'
    BY <2>1, <2>2 DEF SoundSupply, CopySound, FilesGenuine, MarksCounted
  <2> QED BY <2>1, <2>3 DEF SoundSupply, SupplyCounts, ReadsSound, CopySound
<1> QED BY <1>1, <1>2, <1>3, <1>4, <1>5

\* Nothing is kept, marked or indexed at first.
LEMMA NothingIsSound == Init => SoundSupply
<1> SUFFICES ASSUME Init PROVE SoundSupply
  OBVIOUS
<1>0. GenuineFile(EmptyFile)
  <2>1. DOMAIN NoRows = {} /\ NoRows = [v \in DOMAIN NoRows |-> NoRows[v]]
    BY DEF NoRows
  <2>2. EmptyFile = [rows |-> NoRows, objects |-> {}, heads |-> {}]
    BY DEF EmptyFile
  <2> HIDE DEF NoRows
  <2> QED BY <2>1, <2>2 DEF GenuineFile
<1>1. SupplyCounts
  BY SupplyAssumption DEF Init, SupplyCounts, Checkpoints
<1>2. FilesGenuine
  BY <1>0 DEF Init, FilesGenuine
<1>3. MarksCounted
  BY DEF Init, MarksCounted, AreMarks
<1>4. ReadsSound
  BY DEF Init, ReadsSound, ReadingSound
<1>5. DOMAIN index = {}
  BY DEF Init, NothingIndexed
<1>6. CopySound
  <2>1. copy = [file |-> file[Replica], mark |-> mark[Replica], index |-> index, served |-> served] /\ Replica \in Parties
    BY DEF Init, ReplicaFile, Parties
  <2> QED BY <1>1, <1>2, <1>3, <1>5, <2>1 DEF CopySound, FilesGenuine, MarksCounted, SupplyCounts
<1> QED BY <1>1, <1>2, <1>3, <1>4, <1>5, <1>6 DEF SoundSupply

\* The inductive invariant of supply: every file holds rows chained as they were kept, but for what storage made of
\* them, and every answer is of parts whose records are their trail's own.
THEOREM SupplySound == Spec => []SoundSupply
<1>1. SoundSupply /\ [Next]_vars => SoundSupply'
  <2> SUFFICES ASSUME SoundSupply, [Next]_vars PROVE SoundSupply'
    OBVIOUS
  <2>1. CASE Sign \/ Land \/ Lapse \/ PublishAgain
    BY <2>1, ServingStepSound
  <2>2. CASE \E party \in Parties : Read(party)
    BY <2>2, BeginSound, TakeSound, SyncedSound, UseSound DEF Read
  <2>3. CASE (\E party \in Parties : BreakOff(party) \/ Crash(party) \/ Damage(party)) \/ CopyFile \/ Restore
    BY <2>3, FaultSound
  <2>4. CASE UNCHANGED vars
    BY <2>4 DEF vars, SoundSupply, SupplyCounts, FilesGenuine, MarksCounted, ReadsSound, CopySound
  <2> QED BY <2>1, <2>2, <2>3, <2>4 DEF Next
<1> QED BY <1>1, NothingIsSound, PTL DEF Spec

\* "A damaged row is absent rather than a shorter trail", for any checkpoints, any sources that leave parts out, and
\* any number of damaged rows, broken streams, crashes and restored copies.
THEOREM EvidenceReadsGenuinely == Spec => []ReadsAreGenuine
<1>1. SoundSupply => ReadsAreGenuine
  <2> SUFFICES ASSUME SoundSupply, NEW party \in Parties PROVE ReadsGenuinely(file[party])
    BY DEF ReadsAreGenuine, ReadsGenuinely
  <2>1. GenuineFile(file[party])
    BY DEF SoundSupply, FilesGenuine
  <2> QED BY <2>1, GenuineReads
<1> QED BY <1>1, SupplySound, PTL

-----------------------------------------------------------------------------
\* The trail a value ends at, cut at a position.
Cut(v, p) == SubSeq(v, 1, p + 1)

\* A file whose rows are as they were kept: each over the one before it, of a segment whose head is kept.
CleanFile(f) ==
  /\ f = [rows |-> f.rows, objects |-> f.objects, heads |-> f.heads]
  /\ f.rows = [v \in DOMAIN f.rows |-> RowOf(v)] /\ IsFiniteSet(DOMAIN f.rows)
  /\ \A v \in DOMAIN f.rows : /\ IsValue(v) /\ Len(v) >= 2 /\ Segment(v) \in f.heads
                              /\ Position(v) > 1 => Front(v) \in DOMAIN f.rows

\* What a trail needs of such a file.
HoldsTrail(f, v) == Segment(v) \in f.heads /\ (Position(v) > 0 => v \in DOMAIN f.rows)

\* Its rows are genuine.
LEMMA CleanIsGenuine == ASSUME NEW f, CleanFile(f) PROVE GenuineFile(f)
<1>1. \A v \in DOMAIN f.rows : f.rows[v] = RowOf(v)
  BY DEF CleanFile
<1>2. \A v : GenuineRow(v, RowOf(v))
  BY DEF GenuineRow, RowOf
<1> QED BY <1>1, <1>2 DEF CleanFile, GenuineFile

\* A row says its own value's place and record.
LEMMA CleanRow ==
  ASSUME NEW f, CleanFile(f), NEW v \in DOMAIN f.rows
  PROVE  /\ f.rows[v].prev = Front(v) /\ f.rows[v].bytes = Last(v)
         /\ f.rows[v].position = Position(v) /\ f.rows[v].size = Position(v)
BY DEF CleanFile, RowOf

\* One value passes another where it is a cut of it; what passes it also passes every cut of that one.
LEMMA PassesFacts ==
  ASSUME NEW v, IsValue(v), NEW x, IsValue(x)
  PROVE  /\ Passes(v, x) <=> Position(x) <= Position(v) /\ x = Cut(v, Position(x))
         /\ Passes(v, x) => Segment(x) = Segment(v)
<1>1. Position(x) \in Nat /\ Position(v) \in Nat /\ Len(x) = Position(x) + 1 /\ Len(v) = Position(v) + 1
  BY ValueFacts
<1>2. SubSeq(x, 1, Len(x)) = x
  BY <1>1, ValueFacts
<1>3. Len(x) <= Len(v) <=> Position(x) <= Position(v)
  BY <1>1
<1>4. Passes(v, x) <=> Position(x) <= Position(v) /\ x = Cut(v, Position(x))
  BY <1>1, <1>2, <1>3 DEF Passes, IsPrefix, Cut
<1>5. Position(x) <= Position(v) => Segment(Cut(v, Position(x))) = Segment(v)
  <2> SUFFICES ASSUME Position(x) <= Position(v) PROVE Segment(Cut(v, Position(x))) = Segment(v)
    OBVIOUS
  <2>1. Position(x) \in 0..Position(v)
    BY <1>1
  <2> QED BY <2>1, PrefixFacts DEF Cut
<1> QED BY <1>4, <1>5

\* A cut of a cut is a cut.
LEMMA CutCut ==
  ASSUME NEW v, IsValue(v), NEW p \in 0..Position(v), NEW q \in 0..p
  PROVE  Cut(Cut(v, p), q) = Cut(v, q)
<1>1. Len(v) \in Nat /\ Position(v) = Len(v) - 1 /\ p \in Nat /\ q \in Nat /\ p + 1 <= Len(v) /\ q <= p /\ v \in Seq(ToSet(v))
  BY ValueFacts DEF IsValue
<1>2. SubSeq(SubSeq(v, 1, p + 1), 1, q + 1) = SubSeq(v, 1, q + 1)
  BY <1>1
<1> QED BY <1>2 DEF Cut

\* Passing is transitive, and every value passes itself.
LEMMA PassesOn ==
  ASSUME NEW v, IsValue(v), NEW x, IsValue(x), NEW y, IsValue(y)
  PROVE  Passes(v, v) /\ (Passes(v, x) /\ Passes(x, y) => Passes(v, y))
<1>1. Position(v) \in Nat /\ Position(x) \in Nat /\ Position(y) \in Nat /\ v = Cut(v, Position(v))
  BY ValueFacts DEF Cut
<1>2. Passes(v, v)
  BY <1>1, PassesFacts
<1>3. ASSUME Passes(v, x), Passes(x, y) PROVE Passes(v, y)
  <2>1. Position(x) <= Position(v) /\ x = Cut(v, Position(x)) /\ Position(y) <= Position(x) /\ y = Cut(x, Position(y))
    BY <1>3, PassesFacts
  <2>2. Position(x) \in 0..Position(v) /\ Position(y) \in 0..Position(x)
    BY <1>1, <2>1
  <2>3. y = Cut(v, Position(y))
    BY <2>1, <2>2, CutCut
  <2> QED BY <1>1, <2>1, <2>3, PassesFacts
<1> QED BY <1>2, <1>3

\* Every trail's seed is a value it passes.
LEMMA SeedFacts ==
  ASSUME NEW v, IsValue(v)
  PROVE  /\ IsValue(Seed(Segment(v))) /\ Position(Seed(Segment(v))) = 0 /\ Segment(Seed(Segment(v))) = Segment(v)
         /\ Cut(v, 0) = Seed(Segment(v)) /\ Passes(v, Seed(Segment(v)))
<1>1. Len(v) \in Nat /\ Len(v) >= 1 /\ v \in Seq(ToSet(v)) /\ 0 \in 0..Position(v)
  BY ValueFacts DEF IsValue
<1>2. Head(v) = v[1]
  BY <1>1, HeadTailProperties
<1>3. Cut(v, 0) = <<v[1]>>
  <2>1. Len(Cut(v, 0)) = 1 /\ Cut(v, 0)[1] = v[1] /\ Cut(v, 0) \in Seq(ToSet(v))
    BY <1>1 DEF Cut
  <2> QED BY <2>1
<1>4. Cut(v, 0) = Seed(Segment(v))
  BY <1>2, <1>3 DEF Seed, Segment
<1>5. IsValue(Cut(v, 0)) /\ Position(Cut(v, 0)) = 0 /\ Segment(Cut(v, 0)) = Segment(v)
  BY <1>1, PrefixFacts DEF Cut
<1>6. Position(v) \in Nat
  BY ValueFacts
<1> QED BY <1>4, <1>5, <1>6, PassesFacts

\* The records before a kept one are kept.
LEMMA CutsKept ==
  ASSUME NEW f, CleanFile(f), NEW v \in DOMAIN f.rows, NEW q \in 1..Position(v)
  PROVE  Cut(v, q) \in DOMAIN f.rows
<1> DEFINE n == Position(v)
           S == {k \in 1..n : Cut(v, k) \in DOMAIN f.rows}
<1>1. IsValue(v) /\ n \in Nat /\ 1 \in 0..n /\ n \in 1..n /\ Cut(v, n) = v
  BY ValueFacts DEF CleanFile, Cut
<1>2. n \in S
  BY <1>1
<1>3. \A k \in 1 + 1..n : k \in S => k - 1 \in S
  <2> SUFFICES ASSUME NEW k \in 1 + 1..n, Cut(v, k) \in DOMAIN f.rows PROVE k - 1 \in 1..n /\ Cut(v, k - 1) \in DOMAIN f.rows
    OBVIOUS
  <2>1. k \in 0..n /\ k > 1 /\ k - 1 \in 1..n /\ (k - 1) + 1 = k
    BY <1>1
  <2>2. Position(Cut(v, k)) = k /\ Front(Cut(v, k)) = Cut(v, k - 1)
    <3>1. k \in 0..Position(v) /\ k > 0
      BY <2>1
    <3> QED BY <1>1, <3>1, PrefixFacts DEF Cut
  <2> QED BY <2>1, <2>2 DEF CleanFile
<1>4. 1..n \subseteq S
  <2> HIDE DEF S, n
  <2> QED BY <1>1, <1>2, <1>3, CountsBack
<1> QED BY <1>4

\* A file that holds a trail holds every cut of it.
LEMMA CutsHeld ==
  ASSUME NEW f, CleanFile(f), NEW v, IsValue(v), HoldsTrail(f, v), NEW x, IsValue(x), Passes(v, x)
  PROVE  HoldsTrail(f, x)
<1>1. Segment(x) = Segment(v) /\ Position(x) <= Position(v) /\ x = Cut(v, Position(x)) /\ Position(x) \in Nat /\ Position(v) \in Nat
  BY PassesFacts, ValueFacts
<1>2. ASSUME Position(x) > 0 PROVE x \in DOMAIN f.rows
  <2>1. v \in DOMAIN f.rows /\ Position(x) \in 1..Position(v)
    BY <1>1, <1>2 DEF HoldsTrail
  <2> QED BY <1>1, <2>1, CutsKept
<1> QED BY <1>1, <1>2 DEF HoldsTrail

\* Every row's chain step holds.
LEMMA CleanStep ==
  ASSUME NEW f, CleanFile(f), NEW w \in DOMAIN f.rows
  PROVE  ChainStep(f, w, Position(w)) /\ Position(w) >= 1
<1> DEFINE n == Position(w)
<1>1. IsValue(w) /\ Len(w) >= 2 /\ n \in Nat /\ n >= 1 /\ w \in Seq(ToSet(w)) /\ Len(w) = n + 1
  BY ValueFacts DEF CleanFile, IsValue
<1>2. Append(Front(w), Last(w)) = w
  <2>1. Front(w) = SubSeq(w, 1, n) /\ Last(w) = w[n + 1]
    BY <1>1 DEF Front, Last
  <2>2. Append(SubSeq(w, 1, n), w[n + 1]) = w
    <3> HIDE DEF n
    <3>1. SubSeq(w, 1, n) \in Seq(ToSet(w)) /\ Len(SubSeq(w, 1, n)) = n /\ \A i \in 1..n : SubSeq(w, 1, n)[i] = w[i]
      BY <1>1
    <3>2. w[n + 1] \in ToSet(w)
      BY <1>1
    <3> DEFINE front == SubSeq(w, 1, n)
               u == Append(front, w[n + 1])
    <3> HIDE DEF front
    <3>3. u \in Seq(ToSet(w)) /\ Len(u) = n + 1 /\ u[n + 1] = w[n + 1] /\ \A i \in 1..n : u[i] = w[i]
      BY <1>1, <3>1, <3>2 DEF front
    <3> HIDE DEF u
    <3>4. \A i \in 1..n + 1 : u[i] = w[i]
      BY <1>1, <3>3
    <3> QED BY <1>1, <3>3, <3>4 DEF u, front
  <2> QED BY <2>1, <2>2
<1>3. f.rows[w].prev = Front(w) /\ f.rows[w].bytes = Last(w) /\ f.rows[w].position = n /\ f.rows[w].size = n
  BY CleanRow
<1>4. n # 1 => Front(w) \in DOMAIN f.rows /\ f.rows[Front(w)].size = n - 1
  <2> SUFFICES ASSUME n # 1 PROVE Front(w) \in DOMAIN f.rows /\ f.rows[Front(w)].size = n - 1
    OBVIOUS
  <2>1. n > 1
    BY <1>1
  <2>2. Front(w) \in DOMAIN f.rows
    BY <2>1 DEF CleanFile
  <2>3. Front(w) = SubSeq(w, 1, n)
    BY <1>1 DEF Front
  <2>4. Position(Front(w)) = n - 1
    <3> HIDE DEF n
    <3> QED BY <1>1, <2>1, <2>3 DEF Position
  <2> QED BY <2>2, <2>4, CleanRow
<1>5. n = 1 => f.rows[w].size = 1
  BY <1>3
<1>6. n # 1 => Kept(f, f.rows[w].prev) /\ f.rows[w].size = f.rows[f.rows[w].prev].size + 1
  <2> HIDE DEF n
  <2> QED BY <1>1, <1>3, <1>4 DEF Kept
<1> QED BY <1>1, <1>2, <1>3, <1>5, <1>6 DEF ChainStep, Kept

\* trail: a clean file finds every trail it holds.
LEMMA CleanHas ==
  ASSUME NEW f, CleanFile(f), NEW v, IsValue(v)
  PROVE  HasTrail(f, v) <=> HoldsTrail(f, v)
<1>1. Position(v) > 0 /\ v \in DOMAIN f.rows => ChainStep(f, v, f.rows[v].position)
  BY CleanStep, CleanRow
<1> QED BY <1>1 DEF HasTrail, HoldsTrail, Kept

\* The way back meets the trail's own value at every position.
LEMMA CleanBack ==
  ASSUME NEW f, CleanFile(f), NEW v, IsValue(v), HoldsTrail(f, v), NEW p \in 0..Position(v)
  PROVE  Back(f, v)[p] = Cut(v, p) /\ Cut(v, p) # Broken
<1> DEFINE n == Position(v)
           S == {q \in 0..n : Back(f, v)[q] = Cut(v, q)}
<1>1. n \in Nat /\ n \in 0..n /\ 0 \in 0..n /\ Cut(v, n) = v
  BY ValueFacts DEF Cut
<1>2. n \in S
  BY <1>1, BackSteps
<1>3. \A q \in 0 + 1..n : q \in S => q - 1 \in S
  <2> SUFFICES ASSUME NEW q \in 1..n, Back(f, v)[q] = Cut(v, q) PROVE Back(f, v)[q - 1] = Cut(v, q - 1)
    BY <1>1
  <2>1. q \in 0..n /\ q > 0 /\ n > 0 /\ q - 1 \in 0..n - 1 /\ (q - 1) + 1 = q
    BY <1>1
  <2>2. Cut(v, q) \in DOMAIN f.rows
    BY <2>1, CutsKept DEF HoldsTrail
  <2>3. IsValue(Cut(v, q)) /\ Position(Cut(v, q)) = q /\ Front(Cut(v, q)) = Cut(v, q - 1)
    BY <2>1, PrefixFacts DEF Cut
  <2>4. f.rows[Cut(v, q)].position = q /\ f.rows[Cut(v, q)].prev = Cut(v, q - 1)
    BY <2>2, <2>3, CleanRow
  <2>5. Back(f, v)[q - 1] = Before(f, Back(f, v)[q], q - 1)
    BY <2>1, BackSteps
  <2>6. Cut(v, q) # Broken
    BY <2>3 DEF IsValue, Broken
  <2> QED BY <2>1, <2>2, <2>4, <2>5, <2>6 DEF Before, Kept
<1>4. 0..n \subseteq S
  <2> HIDE DEF S, n
  <2> QED BY <1>1, <1>2, <1>3, CountsBack
<1>5. IsValue(Cut(v, p))
  BY PrefixFacts DEF Cut
<1> QED BY <1>4, <1>5 DEF IsValue, Broken

\* walk comes to the end of every trail a clean file holds.
LEMMA CleanWalk ==
  ASSUME NEW f, CleanFile(f), NEW v, IsValue(v), HoldsTrail(f, v), NEW p \in 0..Position(v),
         NEW expected \in {Broken, Cut(v, p)}
  PROVE  Walk(f, v, p, expected).whole
<1> DEFINE n == Position(v)
           value == Back(f, v)
           steps == (p + 1)..n
           bad == {q \in steps : ~ChainStep(f, value[q], q)}
           given == IF bad = {} THEN n ELSE CHOOSE q \in 0..n : q + 1 \in bad /\ \A x \in bad : q < x
           amiss == \/ \E q \in p..n : value[q] = Broken
                    \/ p = 0 /\ value[0] # Seed(Segment(v))
                    \/ expected # Broken /\ value[p] # expected
           read == [i \in 1..(given - p) |-> f.rows[value[p + i]].bytes]
<1>1. Walk(f, v, p, expected) = IF p >= n THEN Stream(<<>>, TRUE) ELSE IF amiss THEN Stream(<<>>, FALSE) ELSE Stream(read, bad = {})
  BY DEF Walk
<1>2. n \in Nat /\ p \in Nat
  BY ValueFacts
<1>3. \A q \in p..n : value[q] = Cut(v, q) /\ Cut(v, q) # Broken
  <2>1. \A q \in p..n : q \in 0..Position(v)
    BY <1>2
  <2> QED BY <2>1, CleanBack
<1>4. ~amiss
  <2>1. value[p] = Cut(v, p) /\ Cut(v, 0) = Seed(Segment(v))
    BY CleanBack, SeedFacts
  <2> HIDE DEF value
  <2> QED BY <1>3, <2>1
<1>5. bad = {}
  <2> SUFFICES ASSUME NEW q \in p + 1..n PROVE ChainStep(f, value[q], q)
    OBVIOUS
  <2>1. q \in p..n /\ q \in 1..n /\ n > 0 /\ q \in 0..Position(v)
    BY <1>2
  <2>2. Cut(v, q) \in DOMAIN f.rows
    BY <2>1, CutsKept DEF HoldsTrail
  <2>3. Position(Cut(v, q)) = q
    BY <2>1, PrefixFacts DEF Cut
  <2>4. value[q] = Cut(v, q)
    BY <1>3, <2>1
  <2> QED BY <2>2, <2>3, <2>4, CleanStep
<1> HIDE DEF amiss, bad, given, read
<1>6. Walk(f, v, p, expected) = IF p >= n THEN Stream(<<>>, TRUE) ELSE Stream(read, TRUE)
  BY <1>1, <1>4, <1>5
<1> QED BY <1>6 DEF Stream

\* The values kept of a trail's segment at its position: the trail's own and any fork's, finitely many.
LEMMA ForksAt ==
  ASSUME NEW f, CleanFile(f), NEW v, IsValue(v), HoldsTrail(f, v), NEW q \in 1..Position(v)
  PROVE  /\ Cut(v, q) \in At(f, Segment(v), q)
         /\ Cardinality(At(f, Segment(v), q)) = 1 => At(f, Segment(v), q) = {Cut(v, q)}
         /\ Cardinality(At(f, Segment(v), q)) # 1 => Cardinality(At(f, Segment(v), q)) > 1
<1> DEFINE at == At(f, Segment(v), q)
<1>1. q \in 0..Position(v) /\ Position(v) > 0
  BY ValueFacts
<1>2. Cut(v, q) \in DOMAIN f.rows /\ Position(Cut(v, q)) = q /\ Segment(Cut(v, q)) = Segment(v)
  BY <1>1, CutsKept, PrefixFacts DEF HoldsTrail, Cut
<1>3. Cut(v, q) \in at
  BY <1>2, CleanRow DEF At
<1>4. IsFiniteSet(at)
  <2>1. at \subseteq DOMAIN f.rows /\ IsFiniteSet(DOMAIN f.rows)
    BY DEF At, CleanFile
  <2> HIDE DEF at
  <2> QED BY <2>1, FS_Subset
<1> HIDE DEF at
<1>5. Cardinality(at) \in Nat /\ (Cardinality(at) = 1 <=> \E x : at = {x}) /\ (Cardinality(at) = 0 <=> at = {})
  BY <1>4, FS_Singleton, FS_CardinalityType, FS_EmptySet
<1>6. Cardinality(at) = 1 => at = {Cut(v, q)}
  BY <1>3, <1>5
<1>7. Cardinality(at) # 1 => Cardinality(at) > 1
  BY <1>3, <1>5
<1> QED BY <1>3, <1>6, <1>7 DEF at

\* forward comes to the end of every trail a clean file holds, by position or, beside a fork, by the walk back.
LEMMA CleanForward ==
  ASSUME NEW f, CleanFile(f), NEW v, IsValue(v), HoldsTrail(f, v), NEW p \in 0..Position(v)
  PROVE  Forward(f, v, p).whole
<1> DEFINE n == Position(v)
           at == [q \in p..n |-> IF q = 0 THEN {Seed(Segment(v))} ELSE At(f, Segment(v), q)]
           sole == [q \in DOMAIN at |-> IF Cardinality(at[q]) = 1 THEN CHOOSE x \in at[q] : TRUE ELSE Broken]
           steps(q) == sole[q] # Broken /\ ChainStep(f, sole[q], q) /\ f.rows[sole[q]].prev = sole[q - 1]
           stop == {q \in (p + 1)..n : ~steps(q)}
           read(q) == [i \in 1..(q - p) |-> f.rows[sole[p + i]].bytes]
           s == CHOOSE q \in stop : \A x \in stop : q <= x
           rest == Walk(f, v, s - 1, sole[s - 1])
           forward == Forward(f, v, p)
<1>1. forward =
        IF p >= n THEN Stream(<<>>, TRUE)
        ELSE IF sole[p] = Broken THEN Walk(f, v, p, Broken)
        ELSE IF stop = {} THEN Stream(read(n), sole[n] = v)
        ELSE IF Cardinality(at[s]) > 1 THEN Stream(read(s - 1) \o rest.given, rest.whole) ELSE Stream(read(s - 1), FALSE)
  BY DEF Forward
<1>2. n \in Nat /\ p \in Nat /\ p <= n
  BY ValueFacts
<1>3. ASSUME NEW q \in p..n
      PROVE  /\ sole[q] \in {Broken, Cut(v, q)}
             /\ Cardinality(at[q]) = 1 => sole[q] = Cut(v, q)
             /\ Cardinality(at[q]) # 1 => sole[q] = Broken /\ Cardinality(at[q]) > 1
  <2>1. at[q] = IF q = 0 THEN {Seed(Segment(v))} ELSE At(f, Segment(v), q)
    OBVIOUS
  <2>2. sole[q] = IF Cardinality(at[q]) = 1 THEN CHOOSE x \in at[q] : TRUE ELSE Broken
    OBVIOUS
  <2>3. Cut(v, q) \in at[q] /\ (Cardinality(at[q]) = 1 => at[q] = {Cut(v, q)}) /\ (Cardinality(at[q]) # 1 => Cardinality(at[q]) > 1)
    <3>1. CASE q = 0
      <4>1. Cut(v, 0) = Seed(Segment(v)) /\ Cardinality({Seed(Segment(v))}) = 1
        BY SeedFacts, FS_Singleton
      <4> HIDE DEF at
      <4> QED BY <2>1, <3>1, <4>1
    <3>2. CASE q # 0
      <4>1. q \in 1..Position(v)
        BY <1>2, <3>2
      <4> HIDE DEF at
      <4> QED BY <2>1, <3>2, <4>1, ForksAt
    <3> QED BY <3>1, <3>2
  <2> HIDE DEF at, sole
  <2> QED BY <2>2, <2>3
<1> HIDE DEF at, sole, stop, read, s, rest, n, forward
<1>4. CASE p >= n
  BY <1>1, <1>4 DEF Stream, forward
<1>5. CASE p < n /\ sole[p] = Broken
  <2>1. ~(p >= n) /\ p \in 0..Position(v)
    BY <1>2, <1>5
  <2>2. Walk(f, v, p, Broken).whole
    BY <2>1, CleanWalk
  <2> QED BY <1>1, <1>5, <2>1, <2>2 DEF forward
<1>6. CASE p < n /\ sole[p] # Broken /\ stop = {}
  <2>1. ~(p >= n) /\ n \in p + 1..n /\ n \in p..n
    BY <1>2, <1>6
  <2>2. sole[n] # Broken
    BY <1>6, <2>1 DEF stop
  <2>3. sole[n] = v
    <3>1. Cut(v, n) = v
      BY ValueFacts DEF Cut, n
    <3> QED BY <1>3, <2>1, <2>2, <3>1
  <2>4. forward = Stream(read(n), sole[n] = v)
    BY <1>1, <1>6, <2>1
  <2>5. forward = Stream(read(n), TRUE)
    BY <2>3, <2>4
  <2> QED BY <2>5 DEF Stream, forward
<1>7. CASE p < n /\ sole[p] # Broken /\ stop # {}
  <2>1. s \in stop /\ \A x \in stop : s <= x
    <3>1. stop \subseteq Nat
      BY <1>2 DEF stop
    <3>2. \E q \in stop : \A x \in stop : q <= x
      BY <1>7, <3>1, FirstOf
    <3> QED BY <3>2 DEF s
  <2>2. s \in p + 1..n /\ s \in p..n /\ s - 1 \in p..n /\ s \in 1..n /\ s - 1 \in 0..n
    <3>1. s \in p + 1..n
      BY <2>1 DEF stop
    <3> QED BY <1>2, <3>1
  <2>3. sole[s - 1] = Cut(v, s - 1)
    <3>1. CASE s - 1 = p
      BY <1>3, <1>7, <2>2, <3>1
    <3>2. CASE s - 1 # p
      <4>1. s - 1 \in p + 1..n /\ ~(s <= s - 1)
        BY <1>2, <2>2, <3>2
      <4>2. sole[s - 1] # Broken
        BY <2>1, <4>1 DEF stop
      <4> QED BY <1>3, <2>2, <4>2
    <3> QED BY <3>1, <3>2
  <2>4. Cardinality(at[s]) > 1
    <3> SUFFICES ASSUME Cardinality(at[s]) = 1 PROVE FALSE
      BY <1>3, <2>2
    <3>1. sole[s] = Cut(v, s)
      BY <1>3, <2>2
    <3>2. s \in 1..Position(v) /\ s \in 0..Position(v) /\ s > 0 /\ Position(v) > 0
      BY <1>2, <2>2 DEF n
    <3>3. Cut(v, s) \in DOMAIN f.rows
      BY <3>2, CutsKept DEF HoldsTrail
    <3>4. Position(Cut(v, s)) = s /\ IsValue(Cut(v, s)) /\ Front(Cut(v, s)) = Cut(v, s - 1)
      BY <3>2, PrefixFacts DEF Cut
    <3>5. steps(s)
      BY <2>3, <3>1, <3>3, <3>4, CleanStep, CleanRow DEF IsValue, Broken
    <3> QED BY <2>1, <3>5 DEF stop
  <2>5. rest.whole
    <3>1. s - 1 \in 0..Position(v)
      BY <2>2 DEF n
    <3> QED BY <2>3, <3>1, CleanWalk DEF rest
  <2>6. forward = Stream(read(s - 1) \o rest.given, rest.whole)
    <3>1. ~(p >= n)
      BY <1>2, <1>7
    <3> QED BY <1>1, <1>7, <2>4, <3>1
  <2> QED BY <2>5, <2>6 DEF Stream, forward
<1> QED BY <1>2, <1>4, <1>5, <1>6, <1>7

\* reaches: over a clean file, a value of the segment that a trail is said to pass through is a cut of it.
LEMMA CleanReaches ==
  ASSUME NEW f, CleanFile(f), NEW v, IsValue(v), HoldsTrail(f, v), NEW x, IsValue(x), Segment(x) = Segment(v),
         Reaches(f, v, x)
  PROVE  Passes(v, x)
<1> DEFINE p == Position(x)
<1>1. p \in Nat /\ Position(v) \in Nat
  BY ValueFacts
<1>2. p <= Position(v)
  BY DEF Reaches
<1>3. CASE p = 0
  <2>1. x = Seed(Segment(v))
    BY <1>3 DEF Reaches
  <2> QED BY <2>1, SeedFacts
<1>4. CASE p # 0
  <2>1. p \in 1..Position(v) /\ p \in 0..Position(v)
    BY <1>1, <1>2, <1>4
  <2>2. Kept(f, x) /\ f.rows[x].position = p /\ (Cardinality(At(f, Segment(v), p)) = 1 \/ Back(f, v)[p] = x)
    BY <1>4 DEF Reaches
  <2>3. x \in At(f, Segment(v), p)
    BY <2>2 DEF At, Kept
  <2>4. x = Cut(v, p)
    BY <2>1, <2>2, <2>3, ForksAt, CleanBack
  <2> QED BY <1>2, <2>4, PassesFacts
<1> QED BY <1>3, <1>4

-----------------------------------------------------------------------------
\* Parts whose trails pass their bases, as a clean file sends them, and answers of such trails.
PassingParts == {part \in TrailParts : Passes(part.top, part.base)}
Passing == PassingParts \cup {ObjectPart(objects) : objects \in SUBSET EveryObject}
PassingTrails == [parts : Seq(PassingParts), gone : SUBSET EveryTop, whole : BOOLEAN]

\* Bases kept by segment, each one's own or none.
BasesOwn(base) ==
  \A seg \in Segments : /\ base[seg] \in EveryTop \cup {Broken}
                        /\ base[seg] # Broken => Segment(base[seg]) = seg

\* trailPart over a clean file: the trail whole after a value it passes, the segment's seed where no base is given.
LEMMA CleanPart ==
  ASSUME NEW f, CleanFile(f), NEW v \in EveryTop, HoldsTrail(f, v), NEW own \in EveryTop \cup {Broken},
         own # Broken => Segment(own) = Segment(v)
  PROVE  LET sent == PartFor(f, v, own) IN
         /\ sent.whole /\ sent.part.top = v /\ sent.part \in PassingParts
         /\ own = Broken => Position(sent.part.base) = 0
<1> DEFINE after == IF own # Broken /\ Reaches(f, v, own) THEN own ELSE Seed(Segment(v))
           p == Position(after)
           stream == Forward(f, v, p)
           sent == PartFor(f, v, own)
<1>1. IsValue(v) /\ HasTrail(f, v) /\ GenuineFile(f)
  BY TopsAreValues, CleanHas, CleanIsGenuine
<1>2. IsValue(after) /\ Passes(v, after) /\ (own = Broken => Position(after) = 0)
  <2>1. CASE own # Broken /\ Reaches(f, v, own)
    <3>1. IsValue(own) /\ Segment(own) = Segment(v)
      BY <2>1, TopsAreValues
    <3> QED BY <1>1, <2>1, <3>1, CleanReaches
  <2>2. CASE ~(own # Broken /\ Reaches(f, v, own))
    BY <1>1, <2>2, SeedFacts
  <2> QED BY <2>1, <2>2
<1>3. p \in 0..Position(v)
  BY <1>1, <1>2, PassesFacts, ValueFacts
<1>4. sent = [part |-> TrailPart(after, v, stream.given), whole |-> stream.whole]
  BY DEF PartFor, PartAfter, StreamPart
<1>5. stream.whole
  BY <1>1, <1>3, CleanForward
<1> HIDE DEF after, p, stream
<1>6. sent.whole /\ sent.part.base = after
  <2> HIDE DEF sent
  <2>1. sent.whole = stream.whole /\ sent.part = TrailPart(after, v, stream.given)
    BY <1>4
  <2> QED BY <1>5, <2>1 DEF TrailPart
<1>7. sent.part.top = v /\ sent.part \in TrailParts
  BY <1>1, <1>6, PartForOwn
<1> HIDE DEF sent
<1> QED BY <1>2, <1>6, <1>7 DEF PassingParts, sent

\* What an answer of trails brings: each of its tops is held, and passed by a part's top or by the base of its segment.
PassedBy(parts, base, v) ==
  \/ base[Segment(v)] # Broken /\ Passes(base[Segment(v)], v)
  \/ \E i \in DOMAIN parts : Passes(parts[i].top, v)
Unbased(base) == \A seg \in Segments : base[seg] = Broken
Brings(f, tops, base, s, done) ==
  /\ \A y \in done.gone : \E i \in DOMAIN done.parts : done.parts[i].top = y
  /\ done.whole => \A v \in s : HoldsTrail(f, v) /\ PassedBy(done.parts, base, v)
  /\ (\A v \in tops : HoldsTrail(f, v)) => done.whole
  /\ Unbased(base) => \A i \in DOMAIN done.parts : Position(done.parts[i].base) = 0

\* topTrails' step over a clean file: the top is passed already or sent, or the answer ends for want of it.
LEMMA TopTrailBrings ==
  ASSUME NEW f, CleanFile(f), NEW tops \in SUBSET EveryTop, NEW base, BasesOwn(base),
         NEW done \in PassingTrails, NEW s \in SUBSET tops, NEW v \in s, Brings(f, tops, base, s \ {v}, done)
  PROVE  LET now == TopTrail(f, done, v, base[Segment(v)]) IN
         now \in PassingTrails /\ Brings(f, tops, base, s, now)
<1> DEFINE own == base[Segment(v)]
           now == TopTrail(f, done, v, own)
           sent == PartFor(f, v, own)
           passed == \E x \in (done.gone \cup {own}) \ {Broken} : Segment(x) = Segment(v) /\ HasTrail(f, x) /\ Reaches(f, x, v)
<1>1. /\ done = [parts |-> done.parts, gone |-> done.gone, whole |-> done.whole]
      /\ done.parts \in Seq(PassingParts) /\ done.gone \in SUBSET EveryTop /\ done.whole \in BOOLEAN
  BY DEF PassingTrails
<1>2. v \in EveryTop /\ IsValue(v) /\ Segment(v) \in Segments /\ (HasTrail(f, v) <=> HoldsTrail(f, v))
  BY TopsAreValues, CleanHas
<1>3. own \in EveryTop \cup {Broken} /\ (own # Broken => Segment(own) = Segment(v) /\ IsValue(own))
  BY <1>2, TopsAreValues DEF BasesOwn
<1>4. /\ \A y \in done.gone : \E i \in DOMAIN done.parts : done.parts[i].top = y
      /\ done.whole => \A x \in s \ {v} : HoldsTrail(f, x) /\ PassedBy(done.parts, base, x)
      /\ (\A x \in tops : HoldsTrail(f, x)) => done.whole
      /\ Unbased(base) => \A i \in DOMAIN done.parts : Position(done.parts[i].base) = 0
  BY DEF Brings
<1>5. CASE ~done.whole
  <2>1. now = done
    BY <1>5 DEF TopTrail
  <2> HIDE DEF now
  <2> QED BY <1>4, <1>5, <2>1 DEF Brings, now
<1>6. CASE done.whole /\ ~HasTrail(f, v)
  <2>1. now = [done EXCEPT !.whole = FALSE]
    BY <1>6 DEF TopTrail
  <2> HIDE DEF now
  <2>2. now = [parts |-> done.parts, gone |-> done.gone, whole |-> FALSE]
    BY <1>1, <2>1
  <2>3. now.parts = done.parts /\ now.gone = done.gone /\ now.whole = FALSE /\ now \in PassingTrails
    BY <1>1, <2>2 DEF PassingTrails
  <2>4. ~\A x \in tops : HoldsTrail(f, x)
    BY <1>2, <1>6
  <2> QED BY <1>4, <2>3, <2>4 DEF Brings, now
<1>7. CASE done.whole /\ HasTrail(f, v) /\ passed
  <2>1. now = done
    BY <1>7 DEF TopTrail
  <2>2. PassedBy(done.parts, base, v)
    <3>1. PICK x \in (done.gone \cup {own}) \ {Broken} : Segment(x) = Segment(v) /\ HasTrail(f, x) /\ Reaches(f, x, v)
      BY <1>7
    <3>2. IsValue(x)
      BY <1>1, <1>3, <3>1, TopsAreValues
    <3>3. Passes(x, v)
      <4>1. HoldsTrail(f, x)
        BY <3>1, <3>2, CleanHas
      <4> QED BY <1>2, <3>1, <3>2, <4>1, CleanReaches
    <3>4. CASE x \in done.gone
      <4>1. PICK i \in DOMAIN done.parts : done.parts[i].top = x
        BY <1>4, <3>4
      <4> QED BY <3>3, <4>1 DEF PassedBy
    <3>5. CASE x = own
      BY <3>1, <3>3, <3>5 DEF PassedBy
    <3> QED BY <3>1, <3>4, <3>5
  <2> HIDE DEF now
  <2> QED BY <1>2, <1>4, <1>7, <2>1, <2>2 DEF Brings, now
<1>8. CASE done.whole /\ HasTrail(f, v) /\ ~passed
  <2>1. now = Adding(done, sent)
    BY <1>8 DEF TopTrail
  <2>2. /\ sent.whole /\ sent.part.top = v /\ sent.part \in PassingParts
        /\ own = Broken => Position(sent.part.base) = 0
    BY <1>2, <1>3, <1>8, CleanPart
  <2> HIDE DEF now, sent
  <2>3. now = [done EXCEPT !.parts = Append(@, sent.part), !.gone = @ \cup {sent.part.top}]
    BY <2>1, <2>2 DEF Adding
  <2> DEFINE parts == Append(done.parts, sent.part)
             n == Len(done.parts)
  <2>4. now = [parts |-> parts, gone |-> done.gone \cup {v}, whole |-> TRUE]
    BY <1>1, <1>8, <2>2, <2>3
  <2>5. /\ parts \in Seq(PassingParts) /\ DOMAIN parts = 1..n + 1 /\ DOMAIN done.parts = 1..n /\ n \in Nat
        /\ parts[n + 1] = sent.part /\ \A i \in 1..n : parts[i] = done.parts[i]
    BY <1>1, <2>2
  <2> HIDE DEF parts, n
  <2>6. now.parts = parts /\ now.gone = done.gone \cup {v} /\ now.whole = TRUE /\ now \in PassingTrails
    BY <1>1, <1>2, <2>4, <2>5 DEF PassingTrails
  <2>7. n + 1 \in DOMAIN parts /\ \A i \in DOMAIN done.parts : i \in DOMAIN parts /\ parts[i] = done.parts[i]
    BY <2>5
  <2>8. \A y \in now.gone : \E i \in DOMAIN now.parts : now.parts[i].top = y
    BY <1>4, <2>2, <2>5, <2>6, <2>7
  <2>9. ASSUME NEW x \in s PROVE HoldsTrail(f, x) /\ PassedBy(now.parts, base, x)
    <3>1. CASE x = v
      <4>1. Passes(parts[n + 1].top, v)
        BY <1>2, <2>2, <2>5, PassesOn
      <4> QED BY <1>2, <1>8, <2>6, <2>7, <3>1, <4>1 DEF PassedBy
    <3>2. CASE x # v
      <4>1. HoldsTrail(f, x) /\ PassedBy(done.parts, base, x)
        BY <1>4, <1>8, <3>2
      <4> QED BY <2>6, <2>7, <4>1 DEF PassedBy
    <3> QED BY <3>1, <3>2
  <2>10. ASSUME Unbased(base), NEW i \in DOMAIN now.parts PROVE Position(now.parts[i].base) = 0
    <3>1. own = Broken
      BY <1>2, <2>10 DEF Unbased
    <3>2. CASE i = n + 1
      BY <2>2, <2>5, <2>6, <3>1, <3>2
    <3>3. CASE i # n + 1
      <4>1. i \in DOMAIN done.parts
        BY <2>5, <2>6, <3>3
      <4> QED BY <1>4, <2>6, <2>7, <2>10, <4>1
    <3> QED BY <3>2, <3>3
  <2> QED BY <2>6, <2>8, <2>9, <2>10 DEF Brings, now
<1> HIDE DEF passed
<1> QED BY <1>5, <1>6, <1>7, <1>8

\* topTrails over a clean file: an answer that ends whole holds each of its tops and brings it, or its base does; an
\* answer for tops the file holds ends whole.
LEMMA CleanTrails ==
  ASSUME NEW f, CleanFile(f), NEW tops \in SUBSET EveryTop, NEW base, BasesOwn(base)
  PROVE  TopTrails(f, tops, base) \in PassingTrails /\ Brings(f, tops, base, tops, TopTrails(f, tops, base))
<1> DEFINE T == {x \in (SUBSET tops) \X Trails : x[2] \in PassingTrails /\ Brings(f, tops, base, x[1], x[2])}
<1>0. PassingTrails \subseteq Trails
  <2>1. Seq(PassingParts) \subseteq Seq(TrailParts)
    <3>1. PassingParts \subseteq TrailParts
      BY DEF PassingParts
    <3> QED BY <3>1, SeqMonotonic
  <2> QED BY <2>1 DEF PassingTrails, Trails
<1>1. None \in PassingTrails /\ Brings(f, tops, base, {}, None)
  <2>1. <<>> \in Seq(PassingParts) /\ DOMAIN <<>> = {}
    OBVIOUS
  <2>2. None.parts = <<>> /\ None.gone = {} /\ None.whole = TRUE
    BY DEF None
  <2> QED BY <2>1, <2>2 DEF None, PassingTrails, Brings
<1>2. \A v \in tops : \A done \in Trails : TopTrail(f, done, v, base[Segment(v)]) \in Trails
  <2> SUFFICES ASSUME NEW v \in tops, NEW done \in Trails PROVE TopTrail(f, done, v, base[Segment(v)]) \in Trails
    OBVIOUS
  <2>1. base[Segment(v)] \in EveryTop \cup {Broken} /\ v \in EveryTop
    BY TopsAreValues DEF BasesOwn
  <2> QED BY <2>1, CleanIsGenuine, TopTrailWithin
<1>3. \A s \in SUBSET tops : \A v \in s : \A done \in Trails :
          <<s \ {v}, done>> \in T => <<s, TopTrail(f, done, v, base[Segment(v)])>> \in T
  <2> SUFFICES ASSUME NEW s \in SUBSET tops, NEW v \in s, NEW done \in Trails, <<s \ {v}, done>> \in T
               PROVE  <<s, TopTrail(f, done, v, base[Segment(v)])>> \in T
    OBVIOUS
  <2>1. done \in PassingTrails /\ Brings(f, tops, base, s \ {v}, done)
    OBVIOUS
  <2> DEFINE now == TopTrail(f, done, v, base[Segment(v)])
  <2>2. now \in PassingTrails /\ Brings(f, tops, base, s, now)
    BY <2>1, TopTrailBrings
  <2>3. now \in Trails
    BY <1>0, <2>2
  <2> HIDE DEF now
  <2>4. <<s, now>> \in T
    BY <2>2, <2>3
  <2> QED BY <2>4 DEF now
<1>4. <<{}, None>> \in T /\ None \in Trails
  BY <1>0, <1>1
<1>5. <<tops, TopTrails(f, tops, base)>> \in T
  <2> HIDE DEF T
  <2> QED BY <1>2, <1>3, <1>4, TrailsInduct
<1> QED BY <1>5

-----------------------------------------------------------------------------
\* A trail's cut at p and the first i of its records after it are its cut at p + i.
LEMMA CutJoins ==
  ASSUME NEW v, IsValue(v), NEW p \in 0..Position(v), NEW i \in 0..Position(v) - p
  PROVE  Cut(v, p) \o SubSeq(After(v, p), 1, i) = Cut(v, p + i)
<1> DEFINE V == ToSet(v)
           one == Cut(v, p)
           all == After(v, p)
           two == SubSeq(all, 1, i)
           both == one \o two
           whole == Cut(v, p + i)
           n == Position(v)
<1>1. n \in Nat /\ p \in Nat /\ i \in Nat /\ p + i <= n /\ v \in Seq(V) /\ Len(v) = n + 1 /\ p + i \in 0..n
  BY ValueFacts DEF IsValue
<1>2. all = [k \in 1..n - p |-> v[p + 1 + k]] /\ Len(all) = n - p
  BY AfterFacts
<1>3. one \in Seq(V) /\ Len(one) = p + 1 /\ \A k \in 1..p + 1 : one[k] = v[k]
  BY <1>1 DEF Cut
<1>4. whole \in Seq(V) /\ Len(whole) = p + i + 1 /\ \A k \in 1..p + i + 1 : whole[k] = v[k]
  BY <1>1 DEF Cut
<1>5. two \in Seq(V) /\ Len(two) = i /\ \A k \in 1..i : two[k] = v[p + 1 + k]
  <2>1. \A k \in 1..n - p : v[p + 1 + k] \in V /\ p + 1 + k \in 1..n + 1
    <3>1. \A k \in 1..n - p : p + 1 + k \in 1..n + 1
      BY <1>1
    <3> QED BY <1>1, <3>1
  <2>2. n - p \in Nat /\ i <= n - p
    BY <1>1
  <2> HIDE DEF V, n, all
  <2>3. all \in Seq(V)
    BY <1>2, <2>1, <2>2
  <2> QED BY <1>1, <1>2, <2>2, <2>3
<1> HIDE DEF V, n, one, all, two, whole
<1>6. both \in Seq(V) /\ Len(both) = p + 1 + i
  <2>1. one \o two \in Seq(V) /\ Len(one \o two) = Len(one) + Len(two)
    BY <1>3, <1>5, ConcatProperties
  <2> QED BY <1>3, <1>5, <2>1
<1>7. ASSUME NEW k \in 1..p + 1 + i PROVE both[k] = v[k]
  <2>1. both[k] = IF k <= Len(one) THEN one[k] ELSE two[k - Len(one)]
    <3>1. k \in 1..Len(one) + Len(two)
      BY <1>1, <1>3, <1>5
    <3> QED BY <1>3, <1>5, <3>1
  <2>2. CASE k <= p + 1
    <3>1. k \in 1..p + 1
      BY <1>1, <2>2
    <3> QED BY <1>3, <2>1, <2>2, <3>1
  <2>3. CASE k > p + 1
    <3>1. k - (p + 1) \in 1..i /\ ~(k <= p + 1) /\ p + 1 + (k - (p + 1)) = k
      BY <1>1, <2>3
    <3> QED BY <1>3, <1>5, <2>1, <3>1
  <2>4. k <= p + 1 \/ k > p + 1
    BY <1>1
  <2> QED BY <2>2, <2>3, <2>4
<1>8. both = whole
  <2> HIDE DEF both
  <2>1. p + 1 + i = p + i + 1
    BY <1>1
  <2>2. \A k \in 1..Len(both) : both[k] = whole[k]
    BY <1>4, <1>6, <1>7, <2>1
  <2>3. Len(both) = Len(whole)
    BY <1>4, <1>6, <2>1
  <2> QED BY <1>4, <1>6, <2>2, <2>3
<1> QED BY <1>8 DEF one, all, two, whole

\* A finite set's images are finitely many.
LEMMA ImagesFinite ==
  ASSUME NEW S, IsFiniteSet(S), NEW g, DOMAIN g = S
  PROVE  IsFiniteSet({g[x] : x \in S})
<1> DEFINE F == {g[x] : x \in S}
           h == [x \in S |-> g[x]]
<1>1. h \in Surjection(S, F)
  BY DEF Surjection
<1> HIDE DEF F, h
<1>2. IsFiniteSet(F)
  BY <1>1, FS_Surjection
<1> QED BY <1>2 DEF F

\* Keeping a part that passes its base, where the base is kept, adds the trail's records after it and its head.
LEMMA KeepingIsClean ==
  ASSUME NEW f, CleanFile(f), NEW part \in PassingParts, Base(f, part.base)
  PROVE  LET g == KeepTrail(f, part.base, part.records) IN
         /\ CleanFile(g) /\ g.objects = f.objects /\ g.heads = f.heads \cup {Segment(part.top)}
         /\ DOMAIN f.rows \subseteq DOMAIN g.rows
         /\ \A y \in DOMAIN g.rows : y \in DOMAIN f.rows \/ (IsValue(y) /\ Passes(part.top, y))
         /\ HoldsTrail(g, part.top)
<1> DEFINE base == part.base
           top == part.top
           records == part.records
           p == Position(base)
           n == Position(top)
           names == {base \o SubSeq(records, 1, i) : i \in DOMAIN records}
           cuts == {Cut(top, q) : q \in p + 1..n}
           new == RowsOf(f, base, records)
           g == KeepTrail(f, base, records)
<1>1. /\ base \in Bases /\ top \in EveryTop /\ records = After(top, p) /\ Passes(top, base)
  <2>1. PICK x \in {y \in Bases \X EveryTop : Position(y[1]) <= Position(y[2])} :
          part = TrailPart(x[1], x[2], After(x[2], Position(x[1])))
    BY DEF PassingParts, TrailParts
  <2>2. base = x[1] /\ top = x[2] /\ records = After(x[2], Position(x[1]))
    BY <2>1 DEF TrailPart
  <2> QED BY <2>2 DEF PassingParts
<1>2. IsValue(base) /\ IsValue(top)
  BY <1>1, BasesAreValues, TopsAreValues
<1>3. p \in Nat /\ n \in Nat /\ p <= n /\ base = Cut(top, p) /\ Segment(base) = Segment(top) /\ p \in 0..n
  <2>1. p \in Nat /\ n \in Nat /\ p <= n /\ base = Cut(top, p) /\ Segment(base) = Segment(top)
    BY <1>1, <1>2, PassesFacts, ValueFacts
  <2> HIDE DEF p, n, base, top
  <2> QED BY <2>1
<1>4. DOMAIN records = 1..n - p
  <2>1. records = [i \in 1..n - p |-> top[p + 1 + i]]
    BY <1>1, <1>2, <1>3, AfterFacts
  <2> HIDE DEF records, n, p
  <2> QED BY <2>1
<1>5. names = cuts
  <2>1. ASSUME NEW i \in 1..n - p PROVE base \o SubSeq(records, 1, i) = Cut(top, p + i) /\ p + i \in p + 1..n
    <3>1. i \in 0..n - p /\ p + i \in p + 1..n
      <4> HIDE DEF n, p
      <4> QED BY <1>3
    <3> QED BY <1>1, <1>2, <1>3, <3>1, CutJoins
  <2>2. ASSUME NEW q \in p + 1..n PROVE q - p \in 1..n - p /\ p + (q - p) = q
    <3> HIDE DEF n, p
    <3> QED BY <1>3
  <2>3. ASSUME NEW x \in names PROVE x \in cuts
    <3>1. PICK i \in 1..n - p : x = base \o SubSeq(records, 1, i)
      BY <1>4
    <3>2. x = Cut(top, p + i) /\ p + i \in p + 1..n
      BY <2>1, <3>1
    <3> HIDE DEF n, p, top
    <3> QED BY <3>2
  <2>4. ASSUME NEW x \in cuts PROVE x \in names
    <3>1. PICK q \in p + 1..n : x = Cut(top, q)
      OBVIOUS
    <3>2. q - p \in DOMAIN records /\ x = base \o SubSeq(records, 1, q - p)
      BY <1>4, <2>1, <2>2, <3>1
    <3> HIDE DEF base, records
    <3> QED BY <3>2
  <2> HIDE DEF names, cuts
  <2> QED BY <2>3, <2>4
<1>6. ASSUME NEW q \in p + 1..n
      PROVE  /\ IsValue(Cut(top, q)) /\ Len(Cut(top, q)) >= 2 /\ Segment(Cut(top, q)) = Segment(top)
             /\ Position(Cut(top, q)) = q /\ Front(Cut(top, q)) = Cut(top, q - 1) /\ Passes(top, Cut(top, q))
  <2>1. q \in 0..n /\ q > 0 /\ q + 1 >= 2 /\ q <= n /\ (q - 1) + 1 = q
    <3> HIDE DEF n, p
    <3> QED BY <1>3
  <2>2. /\ IsValue(Cut(top, q)) /\ Len(Cut(top, q)) = q + 1 /\ Segment(Cut(top, q)) = Segment(top)
        /\ Position(Cut(top, q)) = q /\ Front(Cut(top, q)) = Cut(top, q - 1)
    BY <1>2, <2>1, PrefixFacts DEF Cut
  <2>3. Passes(top, Cut(top, q))
    BY <1>2, <2>1, <2>2, PassesFacts
  <2> QED BY <2>1, <2>2, <2>3
<1>7. new = [x \in cuts |-> RowOf(x)]
  <2> DEFINE under == IF p = 0 THEN 0 ELSE f.rows[base].size
  <2>1. under = p
    <3>1. CASE p = 0
      BY <3>1
    <3>2. CASE p # 0
      <4>1. base \in DOMAIN f.rows
        BY <3>2 DEF Base, Kept
      <4> QED BY <3>2, <4>1, CleanRow
    <3> QED BY <3>1, <3>2
  <2>2. new = [x \in names |-> [RowOf(x) EXCEPT !.size = under + Position(x) - p]]
    BY DEF RowsOf
  <2>3. ASSUME NEW x \in cuts PROVE [RowOf(x) EXCEPT !.size = under + Position(x) - p] = RowOf(x)
    <3>1. Position(x) \in Nat
      <4>1. PICK q \in p + 1..n : x = Cut(top, q)
        OBVIOUS
      <4>2. Position(x) = q /\ q \in Nat
        BY <1>3, <1>6, <4>1
      <4> QED BY <4>2
    <3>2. under + Position(x) - p = Position(x)
      <4> DEFINE k == Position(x)
      <4> HIDE DEF under, p, k
      <4> QED BY <1>3, <2>1, <3>1 DEF k
    <3> HIDE DEF under, p
    <3>3. [RowOf(x) EXCEPT !.size = under + Position(x) - p] = [RowOf(x) EXCEPT !.size = Position(x)]
      BY <3>2
    <3> QED BY <3>3 DEF RowOf
  <2> HIDE DEF new, names, cuts, under, p
  <2> QED BY <1>5, <2>2, <2>3
<1>8. DOMAIN new = cuts /\ \A x \in cuts : new[x] = RowOf(x)
  <2> HIDE DEF new, cuts
  <2> QED BY <1>7
<1>9. /\ g = [rows |-> Over(new, f.rows), objects |-> f.objects, heads |-> f.heads \cup {Segment(top)}]
  <2>1. f = [rows |-> f.rows, objects |-> f.objects, heads |-> f.heads]
    BY DEF CleanFile
  <2> DEFINE rows == Over(new, f.rows)
             heads == f.heads \cup {Segment(top)}
  <2>2. g = [f EXCEPT !.rows = rows, !.heads = heads]
    BY <1>3 DEF KeepTrail
  <2> HIDE DEF rows, heads, g
  <2>3. g = [rows |-> rows, objects |-> f.objects, heads |-> heads]
    BY <2>1, <2>2
  <2> QED BY <2>3 DEF rows, heads
<1>10. g.rows = Over(new, f.rows) /\ g.objects = f.objects /\ g.heads = f.heads \cup {Segment(top)}
  <2> HIDE DEF g, new
  <2> QED BY <1>9
<1>11. /\ DOMAIN g.rows = cuts \cup DOMAIN f.rows
       /\ g.rows = [y \in DOMAIN g.rows |-> RowOf(y)]
  <2>1. f.rows = [y \in DOMAIN f.rows |-> RowOf(y)]
    BY DEF CleanFile
  <2> HIDE DEF g, new, cuts
  <2>2. g.rows = [y \in cuts \cup DOMAIN f.rows |-> IF y \in cuts THEN new[y] ELSE f.rows[y]]
    BY <1>8, <1>10 DEF Over
  <2>3. \A y \in cuts \cup DOMAIN f.rows : (IF y \in cuts THEN new[y] ELSE f.rows[y]) = RowOf(y)
    BY <1>8, <2>1
  <2> QED BY <2>2, <2>3
<1>12. IsFiniteSet(DOMAIN g.rows)
  <2>1. IsFiniteSet(cuts)
    <3> DEFINE I == p + 1..n
               h == [q \in I |-> Cut(top, q)]
    <3>1. IsFiniteSet(I)
      <4>1. p + 1 \in Int /\ n \in Int
        BY <1>3
      <4> QED BY <4>1, FS_Interval
    <3>2. cuts = {h[q] : q \in I}
      OBVIOUS
    <3> HIDE DEF cuts
    <3>3. DOMAIN h = I
      OBVIOUS
    <3> HIDE DEF I, h
    <3> QED BY <3>1, <3>2, <3>3, ImagesFinite
  <2>2. IsFiniteSet(DOMAIN f.rows)
    BY DEF CleanFile
  <2>3. IsFiniteSet(cuts \cup DOMAIN f.rows)
    <3> HIDE DEF cuts
    <3> QED BY <2>1, <2>2, FS_Union
  <2> HIDE DEF g, cuts
  <2> QED BY <1>11, <2>3
<1>13. ASSUME NEW y \in DOMAIN g.rows
       PROVE  /\ IsValue(y) /\ Len(y) >= 2 /\ Segment(y) \in g.heads
              /\ Position(y) > 1 => Front(y) \in DOMAIN g.rows
              /\ y \in DOMAIN f.rows \/ Passes(top, y)
  <2>1. CASE y \in DOMAIN f.rows
    <3>1. IsValue(y) /\ Len(y) >= 2 /\ Segment(y) \in f.heads /\ (Position(y) > 1 => Front(y) \in DOMAIN f.rows)
      BY <2>1 DEF CleanFile
    <3> HIDE DEF g
    <3> QED BY <1>10, <1>11, <2>1, <3>1
  <2>2. CASE y \in cuts
    <3>1. PICK q \in p + 1..n : y = Cut(top, q)
      BY <2>2
    <3>2. IsValue(y) /\ Len(y) >= 2 /\ Segment(y) = Segment(top) /\ Position(y) = q /\ Front(y) = Cut(top, q - 1) /\ Passes(top, y)
      BY <1>6, <3>1
    <3>3. ASSUME q > 1 PROVE Cut(top, q - 1) \in DOMAIN g.rows
      <4>1. CASE q - 1 = p
        <5>1. p # 0
          BY <1>3, <3>3, <4>1
        <5>2. base \in DOMAIN f.rows
          BY <5>1 DEF Base, Kept
        <5> HIDE DEF g
        <5> QED BY <1>3, <1>11, <4>1, <5>2
      <4>2. CASE q - 1 # p
        <5>1. q - 1 \in p + 1..n
          BY <1>3, <4>2
        <5> HIDE DEF g
        <5> QED BY <1>11, <5>1
      <4> QED BY <4>1, <4>2
    <3> HIDE DEF g
    <3> QED BY <1>10, <3>2, <3>3
  <2> HIDE DEF g, cuts
  <2> QED BY <1>11, <2>1, <2>2
<1>14. HoldsTrail(g, top)
  <2>1. ASSUME n > 0 PROVE top \in DOMAIN g.rows
    <3>1. Cut(top, n) = top
      BY <1>2, ValueFacts DEF Cut
    <3>2. CASE n = p
      <4>1. base = top /\ base \in DOMAIN f.rows
        BY <1>3, <2>1, <3>1, <3>2 DEF Base, Kept
      <4> HIDE DEF g
      <4> QED BY <1>11, <4>1
    <3>3. CASE n # p
      <4>1. n \in p + 1..n
        BY <1>3, <3>3
      <4>2. top \in cuts
        BY <3>1, <4>1
      <4> HIDE DEF g, cuts
      <4> QED BY <1>11, <4>2
    <3> QED BY <3>2, <3>3
  <2> HIDE DEF g
  <2> QED BY <1>10, <2>1 DEF HoldsTrail
<1>15. CleanFile(g)
  <2>1. g = [rows |-> g.rows, objects |-> g.objects, heads |-> g.heads]
    <3> HIDE DEF g
    <3> QED BY <1>9
  <2> HIDE DEF g
  <2> QED BY <1>11, <1>12, <1>13, <2>1 DEF CleanFile
<1>16. DOMAIN f.rows \subseteq DOMAIN g.rows
  <2> HIDE DEF g
  <2> QED BY <1>11
<1> HIDE DEF g
<1> QED BY <1>10, <1>13, <1>14, <1>15, <1>16 DEF g

\* An object kept leaves the rows as they were.
LEMMA ObjectsKeepClean ==
  ASSUME NEW f, CleanFile(f), NEW objects
  PROVE  LET g == KeepObjects(f, objects) IN
         /\ CleanFile(g) /\ g.objects = f.objects \cup objects /\ g.heads = f.heads /\ g.rows = f.rows
         /\ \A v : HoldsTrail(g, v) <=> HoldsTrail(f, v)
<1> DEFINE g == KeepObjects(f, objects)
<1>1. f = [rows |-> f.rows, objects |-> f.objects, heads |-> f.heads]
  BY DEF CleanFile
<1>2. g = [rows |-> f.rows, objects |-> f.objects \cup objects, heads |-> f.heads]
  BY <1>1 DEF KeepObjects
<1> HIDE DEF g
<1>3. g.rows = f.rows /\ g.objects = f.objects \cup objects /\ g.heads = f.heads
      /\ g = [rows |-> g.rows, objects |-> g.objects, heads |-> g.heads]
  BY <1>2
<1>4. CleanFile(g)
  BY <1>3 DEF CleanFile
<1> QED BY <1>3, <1>4 DEF HoldsTrail, g

\* What a file holds already or a stream's remaining parts bring it.
Comes(f, left, objects, tops) ==
  /\ \A o \in objects : o \in f.objects \/ \E i \in DOMAIN left : left[i].kind = "package" /\ o \in left[i].objects
  /\ \A v \in tops : HoldsTrail(f, v) \/ \E i \in DOMAIN left : left[i].kind = "trail" /\ Passes(left[i].top, v)

\* The file a part that fits it makes of it.
KeptPart(f, part) ==
  IF part.kind = "package" THEN KeepObjects(f, part.objects) ELSE KeepTrail(f, part.base, part.records)

\* A part is a package of objects or a trail, and says which.
LEMMA PartFacts ==
  ASSUME NEW part \in Passing
  PROVE  \/ /\ part.kind = "package" /\ \E objects \in SUBSET EveryObject : part = ObjectPart(objects) /\ part.objects = objects
         \/ /\ part.kind = "trail" /\ part \in PassingParts /\ part.top \in EveryTop /\ IsValue(part.top)
<1>1. CASE part \in PassingParts
  <2>1. part.kind = "trail" /\ part.top \in EveryTop
    BY <1>1 DEF PassingParts, TrailParts, TrailPart
  <2> QED BY <1>1, <2>1, TopsAreValues
<1>2. CASE part \notin PassingParts
  <2>1. PICK objects \in SUBSET EveryObject : part = ObjectPart(objects)
    BY <1>2 DEF Passing
  <2> QED BY <2>1 DEF ObjectPart
<1> QED BY <1>1, <1>2

\* take: keeping a part keeps the file clean and loses nothing it held.
LEMMA PartKept ==
  ASSUME NEW f, CleanFile(f), NEW part \in Passing, part.kind = "trail" => Base(f, part.base)
  PROVE  LET g == KeptPart(f, part) IN
         /\ CleanFile(g) /\ f.objects \subseteq g.objects
         /\ \A v : HoldsTrail(f, v) => HoldsTrail(g, v)
         /\ part.kind = "package" => part.objects \subseteq g.objects
         /\ part.kind = "trail" => HoldsTrail(g, part.top)
<1>1. CASE part.kind = "package"
  <2>1. KeptPart(f, part) = KeepObjects(f, part.objects) /\ part.kind # "trail"
    BY <1>1 DEF KeptPart
  <2> QED BY <1>1, <2>1, ObjectsKeepClean
<1>2. CASE part.kind # "package"
  <2>1. part.kind = "trail" /\ part \in PassingParts
    BY <1>2, PartFacts
  <2> DEFINE g == KeepTrail(f, part.base, part.records)
  <2>2. KeptPart(f, part) = g
    BY <1>2 DEF KeptPart
  <2>3. /\ CleanFile(g) /\ g.objects = f.objects /\ g.heads = f.heads \cup {Segment(part.top)}
        /\ DOMAIN f.rows \subseteq DOMAIN g.rows /\ HoldsTrail(g, part.top)
    BY <2>1, KeepingIsClean
  <2> HIDE DEF g
  <2>4. \A v : HoldsTrail(f, v) => HoldsTrail(g, v)
    BY <2>3 DEF HoldsTrail
  <2> QED BY <1>2, <2>2, <2>3, <2>4
<1> QED BY <1>1, <1>2

\* With the next part kept, the rest of what a stream brings is still to come.
LEMMA ComesOn ==
  ASSUME NEW f, CleanFile(f), NEW left \in Seq(Passing), left # <<>>, NEW objects, NEW tops, \A v \in tops : IsValue(v),
         Comes(f, left, objects, tops), Head(left).kind = "trail" => Base(f, Head(left).base)
  PROVE  Comes(KeptPart(f, Head(left)), Tail(left), objects, tops)
<1> DEFINE part == Head(left)
           rest == Tail(left)
           g == KeptPart(f, part)
           n == Len(left)
<1>1. /\ part \in Passing /\ part = left[1] /\ rest \in Seq(Passing) /\ n \in Nat /\ DOMAIN left = 1..n /\ DOMAIN rest = 1..n - 1
      /\ \A i \in 1..n - 1 : rest[i] = left[i + 1]
  BY HeadTailProperties
<1>2. /\ CleanFile(g) /\ f.objects \subseteq g.objects /\ \A v : HoldsTrail(f, v) => HoldsTrail(g, v)
      /\ part.kind = "package" => part.objects \subseteq g.objects
      /\ part.kind = "trail" => HoldsTrail(g, part.top)
  BY <1>1, PartKept
<1>3. ASSUME NEW i \in DOMAIN left PROVE left[i] = part \/ \E j \in DOMAIN rest : rest[j] = left[i]
  <2>1. i = 1 \/ (i - 1 \in 1..n - 1 /\ (i - 1) + 1 = i)
    BY <1>1
  <2> QED BY <1>1, <2>1
<1> HIDE DEF part, rest, g
<1>4. ASSUME NEW o \in objects
      PROVE  o \in g.objects \/ \E j \in DOMAIN rest : rest[j].kind = "package" /\ o \in rest[j].objects
  <2>1. CASE o \in f.objects
    BY <1>2, <2>1
  <2>2. CASE \E i \in DOMAIN left : left[i].kind = "package" /\ o \in left[i].objects
    BY <1>2, <1>3, <2>2
  <2> QED BY <2>1, <2>2 DEF Comes
<1>5. ASSUME NEW v \in tops
      PROVE  HoldsTrail(g, v) \/ \E j \in DOMAIN rest : rest[j].kind = "trail" /\ Passes(rest[j].top, v)
  <2>1. CASE HoldsTrail(f, v)
    BY <1>2, <2>1
  <2>2. CASE \E i \in DOMAIN left : left[i].kind = "trail" /\ Passes(left[i].top, v)
    <3>1. PICK i \in DOMAIN left : left[i].kind = "trail" /\ Passes(left[i].top, v)
      BY <2>2
    <3>2. CASE left[i] = part
      <4>1. HoldsTrail(g, part.top) /\ IsValue(part.top) /\ IsValue(v) /\ Passes(part.top, v)
        BY <1>1, <1>2, <3>1, <3>2, PartFacts
      <4> QED BY <1>2, <4>1, CutsHeld
    <3>3. CASE left[i] # part
      BY <1>3, <3>1, <3>3
    <3> QED BY <3>2, <3>3
  <2> QED BY <2>1, <2>2 DEF Comes
<1> QED BY <1>4, <1>5 DEF Comes, part, rest, g

-----------------------------------------------------------------------------
\* An answer's parts: the objects of its range, if any, and then its trails.
LEMMA WholeHas ==
  ASSUME NEW objects \in SUBSET EveryObject, NEW trails \in PassingTrails
  PROVE  LET parts == Whole(objects, trails).parts IN
         /\ parts \in Seq(Passing) /\ Whole(objects, trails).whole = trails.whole
         /\ objects # {} => \E i \in DOMAIN parts : parts[i] = ObjectPart(objects)
         /\ \A j \in DOMAIN trails.parts : \E i \in DOMAIN parts : parts[i] = trails.parts[j]
         /\ \A i \in DOMAIN parts : \/ parts[i] = ObjectPart(objects)
                                    \/ \E j \in DOMAIN trails.parts : parts[i] = trails.parts[j]
<1> DEFINE first == IF objects = {} THEN <<>> ELSE <<ObjectPart(objects)>>
           rest == trails.parts
           parts == first \o rest
           m == Len(rest)
<1>1. rest \in Seq(Passing)
  <2>1. rest \in Seq(PassingParts)
    BY DEF PassingTrails
  <2>2. PassingParts \subseteq Passing
    BY DEF Passing
  <2> HIDE DEF rest
  <2> QED BY <2>1, <2>2, SeqMonotonic
<1>2. Whole(objects, trails) = [parts |-> parts, whole |-> trails.whole]
  BY DEF Whole
<1>3. m \in Nat /\ DOMAIN rest = 1..m
  BY <1>1
<1>4. CASE objects = {}
  <2>1. parts = rest
    BY <1>1, <1>4
  <2> HIDE DEF parts, rest
  <2> QED BY <1>1, <1>2, <1>4, <2>1 DEF rest
<1>5. CASE objects # {}
  <2> DEFINE part == ObjectPart(objects)
  <2>1. part \in Passing
    BY DEF Passing
  <2> HIDE DEF part, rest, m
  <2>2. <<part>> \in Seq(Passing)
    BY <2>1
  <2>3. parts = <<part>> \o rest
    BY <1>5 DEF part
  <2>4. /\ parts \in Seq(Passing) /\ Len(parts) = 1 + m
        /\ \A i \in 1..1 + m : parts[i] = IF i <= 1 THEN <<part>>[i] ELSE rest[i - 1]
    <3>1. /\ <<part>> \o rest \in Seq(Passing) /\ Len(<<part>> \o rest) = Len(<<part>>) + Len(rest)
          /\ \A i \in 1..Len(<<part>>) + Len(rest) :
                 (<<part>> \o rest)[i] = IF i <= Len(<<part>>) THEN <<part>>[i] ELSE rest[i - Len(<<part>>)]
      BY <1>1, <2>2, ConcatProperties
    <3>2. Len(<<part>>) = 1
      OBVIOUS
    <3> QED BY <2>3, <3>1, <3>2 DEF m
  <2> HIDE DEF parts
  <2>5. DOMAIN parts = 1..1 + m /\ parts[1] = part
    <3>1. 1 \in 1..1 + m /\ <<part>>[1] = part
      BY <1>3 DEF m, rest
    <3> QED BY <2>4, <3>1
  <2>6. \A j \in DOMAIN rest : j + 1 \in DOMAIN parts /\ parts[j + 1] = rest[j]
    <3> SUFFICES ASSUME NEW j \in 1..m PROVE j + 1 \in 1..1 + m /\ parts[j + 1] = rest[j]
      BY <1>3, <2>5 DEF m, rest
    <3>1. j + 1 \in 1..1 + m /\ ~(j + 1 <= 1) /\ (j + 1) - 1 = j
      BY <1>3 DEF m, rest
    <3> QED BY <2>4, <3>1
  <2>7. \A i \in DOMAIN parts : parts[i] = part \/ \E j \in DOMAIN rest : parts[i] = rest[j]
    <3> SUFFICES ASSUME NEW i \in 1..1 + m, i # 1 PROVE i - 1 \in 1..m /\ parts[i] = rest[i - 1]
      BY <1>3, <2>5 DEF m, rest
    <3>1. i - 1 \in 1..m /\ ~(i <= 1)
      BY <1>3 DEF m, rest
    <3> QED BY <2>4, <3>1
  <2>8. 1 \in DOMAIN parts
    BY <1>3, <2>5 DEF m, rest
  <2>9. Whole(objects, trails).parts = parts /\ Whole(objects, trails).whole = trails.whole
    BY <1>2
  <2> QED BY <2>4, <2>5, <2>6, <2>7, <2>8, <2>9 DEF part, rest
<1> QED BY <1>4, <1>5

\* An answer over a clean file is of passing parts.
LEMMA AnswerPasses ==
  ASSUME NEW f, CleanFile(f), NEW tops \in SUBSET EveryTop, NEW base, BasesOwn(base), NEW objects \in SUBSET EveryObject
  PROVE  Whole(objects, TopTrails(f, tops, base)).parts \in Seq(Passing)
<1>1. TopTrails(f, tops, base) \in PassingTrails
  BY CleanTrails
<1> QED BY <1>1, WholeHas

\* An answer that ends whole brings the objects and the tops of its range to a file that holds its bases.
LEMMA AnswerComes ==
  ASSUME NEW f, CleanFile(f), NEW tops \in SUBSET EveryTop, NEW base, BasesOwn(base), NEW objects \in SUBSET EveryObject,
         NEW g, CleanFile(g), \A seg \in Segments : base[seg] # Broken => HoldsTrail(g, base[seg])
  PROVE  LET answer == Whole(objects, TopTrails(f, tops, base)) IN
         answer.whole => Comes(g, answer.parts, objects, tops)
<1> DEFINE trails == TopTrails(f, tops, base)
           answer == Whole(objects, trails)
           parts == answer.parts
<1>1. trails \in PassingTrails /\ Brings(f, tops, base, tops, trails)
  BY CleanTrails
<1> HIDE DEF trails
<1>2. /\ parts \in Seq(Passing) /\ answer.whole = trails.whole
      /\ objects # {} => \E i \in DOMAIN parts : parts[i] = ObjectPart(objects)
      /\ \A j \in DOMAIN trails.parts : \E i \in DOMAIN parts : parts[i] = trails.parts[j]
  BY <1>1, WholeHas
<1> HIDE DEF answer
<1>3. ASSUME NEW o \in objects PROVE \E i \in DOMAIN parts : parts[i].kind = "package" /\ o \in parts[i].objects
  <2>1. PICK i \in DOMAIN parts : parts[i] = ObjectPart(objects)
    BY <1>2
  <2> QED BY <2>1 DEF ObjectPart
<1>4. ASSUME answer.whole, NEW v \in tops
      PROVE  HoldsTrail(g, v) \/ \E i \in DOMAIN parts : parts[i].kind = "trail" /\ Passes(parts[i].top, v)
  <2>1. PassedBy(trails.parts, base, v)
    BY <1>1, <1>2, <1>4 DEF Brings
  <2>2. IsValue(v) /\ Segment(v) \in Segments
    BY TopsAreValues
  <2>3. CASE base[Segment(v)] # Broken /\ Passes(base[Segment(v)], v)
    <3>1. IsValue(base[Segment(v)]) /\ HoldsTrail(g, base[Segment(v)])
      BY <2>2, <2>3, TopsAreValues DEF BasesOwn
    <3> QED BY <2>2, <2>3, <3>1, CutsHeld
  <2>4. CASE \E j \in DOMAIN trails.parts : Passes(trails.parts[j].top, v)
    <3>1. PICK j \in DOMAIN trails.parts : Passes(trails.parts[j].top, v)
      BY <2>4
    <3>2. trails.parts[j].kind = "trail"
      <4>1. trails.parts \in Seq(PassingParts)
        BY <1>1 DEF PassingTrails
      <4>2. trails.parts[j] \in PassingParts
        BY <4>1, ElementOfSeq
      <4> QED BY <4>2 DEF PassingParts, TrailParts, TrailPart
    <3> QED BY <1>2, <3>1, <3>2
  <2> QED BY <2>1, <2>3, <2>4 DEF PassedBy
<1>5. answer.whole => Comes(g, parts, objects, tops)
  BY <1>3, <1>4 DEF Comes
<1> QED BY <1>5 DEF answer, trails

-----------------------------------------------------------------------------
\* The journal's own file is clean and holds every trail its checkpoints name.
LEMMA JournalIsClean == CleanFile(JournalFile) /\ \A v \in EveryTop : HoldsTrail(JournalFile, v)
<1> DEFINE cuts(v) == {Cut(v, p) : p \in 1..Position(v)}
           values == UNION {cuts(v) : v \in EveryTop}
           f == JournalFile
<1>1. f = [rows |-> [v \in values |-> RowOf(v)], objects |-> EveryObject, heads |-> Segments]
  BY DEF JournalFile, EveryTop, EveryObject, Cut
<1>2. ASSUME NEW v \in EveryTop PROVE IsFiniteSet(cuts(v))
  <2> DEFINE I == 1..Position(v)
             h == [p \in I |-> Cut(v, p)]
  <2>1. IsFiniteSet(I)
    BY TopsAreValues, ValueFacts, FS_Interval
  <2>2. cuts(v) = {h[p] : p \in I} /\ DOMAIN h = I
    OBVIOUS
  <2> HIDE DEF I, h, cuts
  <2> QED BY <2>1, <2>2, ImagesFinite
<1>3. IsFiniteSet(values)
  <2> DEFINE h == [v \in EveryTop |-> cuts(v)]
             F == {cuts(v) : v \in EveryTop}
  <2>1. F = {h[v] : v \in EveryTop} /\ DOMAIN h = EveryTop
    OBVIOUS
  <2> HIDE DEF h
  <2>2. IsFiniteSet(F)
    <3> HIDE DEF F
    <3> QED BY <2>1, TopsAreValues, ImagesFinite
  <2>3. \A c \in F : IsFiniteSet(c)
    BY <1>2
  <2> HIDE DEF F
  <2>4. IsFiniteSet(UNION F)
    BY <2>2, <2>3, FS_UNION
  <2> QED BY <2>4 DEF F
<1>4. ASSUME NEW v \in EveryTop, NEW p \in 1..Position(v)
      PROVE  /\ IsValue(Cut(v, p)) /\ Len(Cut(v, p)) >= 2 /\ Segment(Cut(v, p)) \in Segments /\ Position(Cut(v, p)) = p
             /\ Cut(v, p) \in values /\ (p > 1 => Front(Cut(v, p)) \in values)
  <2>1. IsValue(v) /\ Segment(v) \in Segments /\ Position(v) \in Nat
    BY TopsAreValues, ValueFacts
  <2>2. p \in 0..Position(v) /\ p > 0 /\ p + 1 >= 2 /\ (p - 1) + 1 = p /\ (p > 1 => p - 1 \in 1..Position(v))
    BY <2>1
  <2>3. /\ IsValue(Cut(v, p)) /\ Len(Cut(v, p)) = p + 1 /\ Segment(Cut(v, p)) = Segment(v) /\ Position(Cut(v, p)) = p
        /\ Front(Cut(v, p)) = Cut(v, p - 1)
    BY <2>1, <2>2, PrefixFacts DEF Cut
  <2>4. \A q \in 1..Position(v) : Cut(v, q) \in values
    OBVIOUS
  <2> HIDE DEF values
  <2> QED BY <2>1, <2>2, <2>3, <2>4
<1>5. ASSUME NEW x \in values
      PROVE  IsValue(x) /\ Len(x) >= 2 /\ Segment(x) \in Segments /\ (Position(x) > 1 => Front(x) \in values)
  <2>1. PICK v \in EveryTop : \E p \in 1..Position(v) : x = Cut(v, p)
    OBVIOUS
  <2>2. PICK p \in 1..Position(v) : x = Cut(v, p)
    BY <2>1
  <2> HIDE DEF values
  <2> QED BY <1>4, <2>2
<1>6. ASSUME NEW v \in EveryTop, Position(v) > 0 PROVE v \in values
  <2>1. Position(v) \in 1..Position(v) /\ v = Cut(v, Position(v))
    BY <1>6, TopsAreValues, ValueFacts DEF Cut
  <2> HIDE DEF values
  <2> QED BY <1>4, <2>1
<1> HIDE DEF values, f
<1>7. f.rows = [v \in values |-> RowOf(v)] /\ f.heads = Segments /\ f = [rows |-> f.rows, objects |-> f.objects, heads |-> f.heads]
  BY <1>1
<1>8. DOMAIN f.rows = values
  BY <1>7
<1>9. CleanFile(f)
  BY <1>3, <1>5, <1>7, <1>8 DEF CleanFile
<1>10. \A v \in EveryTop : HoldsTrail(f, v)
  BY <1>6, <1>7, <1>8, TopsAreValues DEF HoldsTrail
<1> QED BY <1>9, <1>10 DEF f

Greater(a, b) == IF a > b THEN a ELSE b
ObjectsThrough(m) == UNION {ObjectsAt(n) : n \in 1 .. m}
TopsThrough(m) == UNION {TopsAt(n) : n \in 1 .. m}

\* serve: what the journal sends after a checkpoint brings a reader that holds everything through it everything
\* through its selection.
LEMMA JournalComes ==
  ASSUME NEW through \in 1..LastSequence, NEW after \in Nat, NEW g
  PROVE  LET answer == JournalParts(through, after)
             m == Greater(through, after)
         IN /\ answer.parts \in Seq(Passing)
            /\ CleanFile(g) /\ Comes(g, <<>>, ObjectsThrough(after), TopsThrough(after)) /\ answer.whole
                 => Comes(g, answer.parts, ObjectsThrough(m), TopsThrough(m))
<1> DEFINE from == IF after < through THEN after ELSE through
           range == (from + 1)..through
           base == [seg \in Segments |-> IF seg = Own /\ from > 0 THEN OwnTop[from] ELSE Broken]
           objects == UNION {ObjectsAt(n) : n \in range}
           tops == UNION {TopsAt(n) : n \in range}
           answer == Whole(objects, TopTrails(JournalFile, tops, base))
           m == Greater(through, after)
<1>0. LastSequence \in Nat /\ through \in Nat /\ after \in Nat
  BY SupplyAssumption
<1>1. from \in 0..through /\ from <= after /\ (from > 0 => from \in 1..after /\ from \in 1..LastSequence)
  BY <1>0
<1>2. ASSUME NEW n \in 1..m, n \notin 1..after PROVE n \in range
  BY <1>0, <1>2 DEF Greater
<1> HIDE DEF from
<1>3. JournalParts(through, after) = answer
  BY <1>1 DEF JournalParts, JournalAnswers, from
<1>4. range \subseteq 1..LastSequence
  BY <1>0, <1>1
<1>5. objects \in SUBSET EveryObject /\ tops \in SUBSET EveryTop
  BY <1>4 DEF EveryObject, EveryTop
<1>6. BasesOwn(base)
  <2>1. from > 0 => OwnTop[from] \in EveryTop /\ Segment(OwnTop[from]) = Own
    BY <1>0, <1>1, SupplyAssumption DEF EveryTop, TopsAt
  <2> QED BY <2>1 DEF BasesOwn
<1>7. ASSUME Comes(g, <<>>, ObjectsThrough(after), TopsThrough(after)), NEW n \in 1..after
      PROVE  ObjectsAt(n) \subseteq g.objects /\ \A v \in TopsAt(n) : HoldsTrail(g, v)
  <2>1. DOMAIN <<>> = {}
    OBVIOUS
  <2> QED BY <1>7, <2>1 DEF Comes, ObjectsThrough, TopsThrough
<1>8. ASSUME Comes(g, <<>>, ObjectsThrough(after), TopsThrough(after)), NEW seg \in Segments, base[seg] # Broken
      PROVE  HoldsTrail(g, base[seg])
  <2>1. from > 0 /\ base[seg] = OwnTop[from]
    BY <1>8
  <2>2. from \in 1..after /\ OwnTop[from] \in TopsAt(from)
    BY <1>1, <2>1 DEF TopsAt
  <2> QED BY <1>7, <1>8, <2>1, <2>2
<1>9. CleanFile(JournalFile)
  BY JournalIsClean
<1> HIDE DEF base, tops, objects
<1>10. answer.parts \in Seq(Passing)
  BY <1>5, <1>6, <1>9, AnswerPasses
<1>11. ASSUME CleanFile(g), Comes(g, <<>>, ObjectsThrough(after), TopsThrough(after)), answer.whole
       PROVE  Comes(g, answer.parts, ObjectsThrough(m), TopsThrough(m))
  <2>1. Comes(g, answer.parts, objects, tops)
    BY <1>5, <1>6, <1>8, <1>9, <1>11, AnswerComes
  <2> DEFINE parts == answer.parts
  <2> HIDE DEF answer, m
  <2>2. ASSUME NEW n \in 1..m, NEW o \in ObjectsAt(n)
        PROVE  o \in g.objects \/ \E i \in DOMAIN parts : parts[i].kind = "package" /\ o \in parts[i].objects
    <3>1. CASE n \in 1..after
      BY <1>7, <1>11, <3>1
    <3>2. CASE n \notin 1..after
      <4>1. o \in objects
        BY <1>2, <3>2 DEF objects
      <4> QED BY <2>1, <4>1 DEF Comes
    <3> QED BY <3>1, <3>2
  <2>3. ASSUME NEW n \in 1..m, NEW v \in TopsAt(n)
        PROVE  HoldsTrail(g, v) \/ \E i \in DOMAIN parts : parts[i].kind = "trail" /\ Passes(parts[i].top, v)
    <3>1. CASE n \in 1..after
      BY <1>7, <1>11, <3>1
    <3>2. CASE n \notin 1..after
      <4>1. v \in tops
        BY <1>2, <3>2 DEF tops
      <4> QED BY <2>1, <4>1 DEF Comes
    <3> QED BY <3>1, <3>2
  <2> QED BY <2>2, <2>3 DEF Comes, ObjectsThrough, TopsThrough
<1> HIDE DEF answer
<1> QED BY <1>3, <1>10, <1>11

\* What a replica's file indexed at or below a selection.
Names(idx, through) == {x \in DOMAIN idx : idx[x] # Pending /\ 0 < idx[x] /\ idx[x] <= through}
NamedTops(idx, through) == {x[2] : x \in {y \in Names(idx, through) : y[1] = "top"}}
NamedObjects(idx, through) == {x \in Names(idx, through) : x[1] # "top"}

\* Those are tops and objects that checkpoints name.
LEMMA NamesFacts ==
  ASSUME DOMAIN index \subseteq Indexable
  PROVE  /\ \A a, b : IndexedTops(a, b) \subseteq EveryTop /\ IndexedObjects(a, b) \subseteq EveryObject
         /\ \A b : IndexedTops(0, b) = NamedTops(index, b) /\ IndexedObjects(0, b) = NamedObjects(index, b)
<1>1. \A x \in EveryObject : x[1] # "top"
  BY DEF EveryObject, ObjectsAt, OwnObject, TakenObject
<1>2. \A a, b : IndexedTops(a, b) \subseteq EveryTop
  BY <1>1 DEF IndexedTops, Indexed, Indexable
<1>3. \A a, b : IndexedObjects(a, b) \subseteq EveryObject
  BY DEF IndexedObjects, Indexed, Indexable
<1>4. \A b : Indexed(0, b) = Names(index, b)
  BY DEF Indexed, Names
<1>5. \A b : IndexedTops(0, b) = NamedTops(index, b) /\ IndexedObjects(0, b) = NamedObjects(index, b)
  BY <1>4 DEF IndexedTops, IndexedObjects, NamedTops, NamedObjects
<1> QED BY <1>2, <1>3, <1>5

\* A replica's base for a segment is a top it indexed at or below the mark it serves from.
ReplicaBase(from) ==
  LET below(seg) == {v \in IndexedTops(0, from) : Segment(v) = seg}
  IN [seg \in Segments |-> IF from = 0 \/ below(seg) = {} THEN Broken ELSE Furthest(below(seg))]

\* Each base is of its own segment, and there is none where it serves from nothing.
LEMMA ReplicaBaseOwn ==
  ASSUME DOMAIN index \subseteq Indexable, NEW from
  PROVE  /\ BasesOwn(ReplicaBase(from)) /\ (from = 0 => Unbased(ReplicaBase(from)))
         /\ \A seg \in Segments : ReplicaBase(from)[seg] # Broken => ReplicaBase(from)[seg] \in NamedTops(index, from)
<1> DEFINE below(seg) == {v \in IndexedTops(0, from) : Segment(v) = seg}
           base == [seg \in Segments |-> IF from = 0 \/ below(seg) = {} THEN Broken ELSE Furthest(below(seg))]
<1>1. ReplicaBase(from) = base
  BY DEF ReplicaBase
<1>2. ASSUME NEW seg \in Segments, below(seg) # {} PROVE Furthest(below(seg)) \in below(seg)
  <2>1. below(seg) \in SUBSET EveryTop
    BY NamesFacts
  <2> HIDE DEF below
  <2> QED BY <1>2, <2>1, FurthestIsOne
<1>3. ASSUME NEW seg \in Segments, base[seg] # Broken
      PROVE  base[seg] \in EveryTop /\ Segment(base[seg]) = seg /\ base[seg] \in NamedTops(index, from)
  <2>1. below(seg) # {} /\ base[seg] = Furthest(below(seg))
    <3> HIDE DEF below
    <3> QED BY <1>3
  <2>2. base[seg] \in below(seg)
    <3> HIDE DEF below, base
    <3> QED BY <1>2, <2>1
  <2>3. base[seg] \in IndexedTops(0, from) /\ Segment(base[seg]) = seg
    <3> HIDE DEF base
    <3> QED BY <2>2
  <2> HIDE DEF base
  <2> QED BY <2>3, NamesFacts
<1>4. from = 0 => \A seg \in Segments : base[seg] = Broken
  <2> HIDE DEF below
  <2> QED OBVIOUS
<1> HIDE DEF base
<1> QED BY <1>1, <1>3, <1>4 DEF BasesOwn, Unbased

\* served: the answer of a replica whose file is clean, as its trails over its bases.
LEMMA ReplicaAnswers ==
  ASSUME NEW through, NEW after
  PROVE  LET from == ServedFrom(through, after)
             objects == IndexedObjects(from, through)
         IN ReplicaParts(through, after) =
              IF objects \subseteq file[Replica].objects
              THEN Whole(objects, TopTrails(file[Replica], IndexedTops(from, through), ReplicaBase(from)))
              ELSE [parts |-> <<>>, whole |-> FALSE]
BY DEF ReplicaParts, ReplicaBase

\* What a replica sends after a mark brings a reader that holds what it indexed through the mark all it serves.
LEMMA ReplicaComes ==
  ASSUME CleanFile(file[Replica]), DOMAIN index \subseteq Indexable, served \in Nat, \A x \in DOMAIN index : index[x] \in Nat,
         NEW after \in Nat, NEW g
  PROVE  LET answer == ReplicaParts(served, after)
         IN /\ answer.parts \in Seq(Passing)
            /\ after <= served /\ CleanFile(g) /\ Comes(g, <<>>, NamedObjects(index, after), NamedTops(index, after)) /\ answer.whole
                 => Comes(g, answer.parts, NamedObjects(index, served), NamedTops(index, served))
<1> DEFINE from == ServedFrom(served, after)
           objects == IndexedObjects(from, served)
           tops == IndexedTops(from, served)
           base == ReplicaBase(from)
           answer == Whole(objects, TopTrails(file[Replica], tops, base))
           cut == [parts |-> <<>>, whole |-> FALSE]
           parts == ReplicaParts(served, after)
<1>1. parts = IF objects \subseteq file[Replica].objects THEN answer ELSE cut
  BY ReplicaAnswers
<1>2. tops \in SUBSET EveryTop /\ objects \in SUBSET EveryObject
  BY NamesFacts
<1>3. BasesOwn(base) /\ \A seg \in Segments : base[seg] # Broken => base[seg] \in NamedTops(index, from)
  BY ReplicaBaseOwn
<1>4. cut.parts \in Seq(Passing) /\ ~cut.whole
  OBVIOUS
<1>5. after <= served => from = after
  BY DEF ServedFrom
<1>6. ASSUME NEW x \in Names(index, served), ~(index[x] <= from), from = after
      PROVE  x \in Indexed(from, served)
  BY <1>6 DEF Names, Indexed
<1>7. ASSUME NEW x \in Names(index, served), index[x] <= from PROVE x \in Names(index, from)
  BY <1>7 DEF Names
<1> HIDE DEF from
<1>8. ASSUME from = after
      PROVE  /\ \A o \in NamedObjects(index, served) : o \in objects \/ o \in NamedObjects(index, from)
             /\ \A v \in NamedTops(index, served) : v \in tops \/ v \in NamedTops(index, from)
  BY <1>6, <1>7, <1>8 DEF NamedObjects, NamedTops, IndexedObjects, IndexedTops
<1> HIDE DEF tops, objects, base
<1>9. answer.parts \in Seq(Passing)
  BY <1>2, <1>3, AnswerPasses
<1>10. ASSUME after <= served, CleanFile(g), Comes(g, <<>>, NamedObjects(index, after), NamedTops(index, after)), parts.whole
       PROVE  Comes(g, parts.parts, NamedObjects(index, served), NamedTops(index, served))
  <2>0. \A i \in DOMAIN <<>> : FALSE
    OBVIOUS
  <2>1. NamedObjects(index, after) \subseteq g.objects /\ \A v \in NamedTops(index, after) : HoldsTrail(g, v)
    BY <1>10, <2>0 DEF Comes
  <2>2. parts = answer /\ answer.whole
    <3> HIDE DEF answer, cut, parts
    <3> QED BY <1>1, <1>4, <1>10
  <2>3. \A seg \in Segments : base[seg] # Broken => HoldsTrail(g, base[seg])
    BY <1>3, <1>5, <1>10, <2>1
  <2>4. Comes(g, answer.parts, objects, tops)
    BY <1>2, <1>3, <1>10, <2>2, <2>3, AnswerComes
  <2> HIDE DEF answer, parts
  <2> QED BY <1>5, <1>8, <1>10, <2>1, <2>2, <2>4 DEF Comes
<1> HIDE DEF answer, cut
<1>11. parts.parts \in Seq(Passing)
  BY <1>1, <1>4, <1>9
<1> QED BY <1>10, <1>11

\* A file filled with an answer's parts, one after another, from nothing.
IsFill(parts, g) == g = [i \in 0 .. Len(parts) |-> IF i = 0 THEN EmptyFile ELSE KeptPart(g[i - 1], parts[i])]

\* There is one: each part is kept over the file before it.
LEMMA FillExists == ASSUME NEW parts, Len(parts) \in Nat PROVE \E g : IsFill(parts, g)
<1> DEFINE n == Len(parts)
           Good(k) == \E g : g = [i \in 0..k |-> IF i = 0 THEN EmptyFile ELSE KeptPart(g[i - 1], parts[i])]
           S == {k \in 0..n : Good(k)}
<1>1. 0 \in S
  <2> DEFINE g == [i \in 0..0 |-> EmptyFile]
  <2>1. g = [i \in 0..0 |-> IF i = 0 THEN EmptyFile ELSE KeptPart(g[i - 1], parts[i])]
    <3>1. \A i \in 0..0 : i = 0
      OBVIOUS
    <3> QED BY <3>1
  <2> HIDE DEF g, n
  <2>2. 0 \in 0..n
    BY DEF n
  <2> QED BY <2>1, <2>2
<1>2. \A k \in 0..n - 1 : k \in S => k + 1 \in S
  <2> SUFFICES ASSUME NEW k \in 0..n - 1, Good(k) PROVE Good(k + 1)
    <3>1. \A k \in 0..n - 1 : k + 1 \in 0..n
      OBVIOUS
    <3> HIDE DEF Good, n
    <3> QED BY <3>1
  <2>1. PICK g : g = [i \in 0..k |-> IF i = 0 THEN EmptyFile ELSE KeptPart(g[i - 1], parts[i])]
    OBVIOUS
  <2> DEFINE h == [i \in 0..k + 1 |-> IF i = k + 1 THEN KeptPart(g[k], parts[k + 1]) ELSE g[i]]
  <2>2. k \in Nat /\ k + 1 # 0 /\ (k + 1) - 1 = k /\ k # k + 1
    OBVIOUS
  <2>3. ASSUME NEW i \in 0..k + 1 PROVE h[i] = IF i = 0 THEN EmptyFile ELSE KeptPart(h[i - 1], parts[i])
    <3>1. CASE i = k + 1
      <4>1. h[i] = KeptPart(g[k], parts[k + 1]) /\ h[k] = g[k]
        BY <2>2, <3>1
      <4> HIDE DEF h
      <4> QED BY <2>2, <3>1, <4>1
    <3>2. CASE i # k + 1
      <4>1. i \in 0..k /\ h[i] = g[i]
        BY <2>2, <3>2
      <4>2. g[i] = IF i = 0 THEN EmptyFile ELSE KeptPart(g[i - 1], parts[i])
        BY <2>1, <4>1
      <4>3. i # 0 => h[i - 1] = g[i - 1]
        BY <2>2, <4>1
      <4> HIDE DEF h
      <4> QED BY <4>1, <4>2, <4>3
    <3> QED BY <3>1, <3>2
  <2>4. h = [i \in 0..k + 1 |-> h[i]]
    OBVIOUS
  <2> HIDE DEF h
  <2>5. h = [i \in 0..k + 1 |-> IF i = 0 THEN EmptyFile ELSE KeptPart(h[i - 1], parts[i])]
    BY <2>3, <2>4
  <2> QED BY <2>5
<1>3. 0..n \subseteq S
  <2> HIDE DEF S
  <2> QED BY <1>1, <1>2, CountsOn
<1>4. Good(n)
  <2>1. n \in 0..n
    OBVIOUS
  <2> HIDE DEF Good, n
  <2> QED BY <1>3, <2>1
<1> QED BY <1>4 DEF IsFill

\* The filling ReplicaSuffices states.
Filled(parts) ==
  LET fill[i \in 0 .. Len(parts)] ==
        IF i = 0 THEN EmptyFile
        ELSE LET part == parts[i] IN
             IF part.kind = "package" THEN KeepObjects(fill[i - 1], part.objects)
             ELSE KeepTrail(fill[i - 1], part.base, part.records)
  IN fill

\* It is such a file's.
LEMMA FilledIsFill == ASSUME NEW parts, Len(parts) \in Nat PROVE IsFill(parts, Filled(parts))
<1>1. Filled(parts) = CHOOSE g : IsFill(parts, g)
  BY DEF Filled, IsFill, KeptPart
<1> QED BY <1>1, FillExists

\* A file that keeps nothing is clean.
LEMMA EmptyIsClean == CleanFile(EmptyFile)
<1>1. DOMAIN NoRows = {} /\ NoRows = [v \in DOMAIN NoRows |-> RowOf(v)] /\ IsFiniteSet(DOMAIN NoRows)
  <2>1. DOMAIN NoRows = {}
    BY DEF NoRows
  <2>2. NoRows = [v \in {} |-> RowOf(v)]
    BY DEF NoRows
  <2> QED BY <2>1, <2>2, FS_EmptySet
<1>2. EmptyFile = [rows |-> NoRows, objects |-> {}, heads |-> {}]
  BY DEF EmptyFile
<1> HIDE DEF NoRows
<1> QED BY <1>1, <1>2 DEF CleanFile

\* Filled from nothing with trails that start at their seeds, it is clean and holds every part.
LEMMA FillHolds ==
  ASSUME NEW parts \in Seq(Passing), \A i \in DOMAIN parts : parts[i].kind = "trail" => Position(parts[i].base) = 0,
         NEW g, IsFill(parts, g)
  PROVE  LET f == g[Len(parts)] IN
         /\ CleanFile(f)
         /\ \A i \in DOMAIN parts : /\ parts[i].kind = "package" => parts[i].objects \subseteq f.objects
                                    /\ parts[i].kind = "trail" => HoldsTrail(f, parts[i].top)
<1> DEFINE n == Len(parts)
           Has(f, i) == /\ parts[i].kind = "package" => parts[i].objects \subseteq f.objects
                        /\ parts[i].kind = "trail" => HoldsTrail(f, parts[i].top)
           S == {k \in 0..n : CleanFile(g[k]) /\ \A i \in 1..k : Has(g[k], i)}
<1>1. n \in Nat /\ DOMAIN parts = 1..n
  OBVIOUS
<1>2. \A k \in 0..n : g[k] = IF k = 0 THEN EmptyFile ELSE KeptPart(g[k - 1], parts[k])
  BY DEF IsFill
<1> HIDE DEF n
<1>3. 0 \in S
  <2>1. g[0] = EmptyFile /\ 0 \in 0..n /\ 1..0 = {}
    BY <1>1, <1>2
  <2> QED BY <2>1, EmptyIsClean
<1>4. \A k \in 0..n - 1 : k \in S => k + 1 \in S
  <2> SUFFICES ASSUME NEW k \in 0..n - 1, CleanFile(g[k]), \A i \in 1..k : Has(g[k], i)
               PROVE  k + 1 \in 0..n /\ CleanFile(g[k + 1]) /\ \A i \in 1..k + 1 : Has(g[k + 1], i)
    OBVIOUS
  <2> DEFINE part == parts[k + 1]
  <2>1. k + 1 \in 0..n /\ k + 1 \in DOMAIN parts /\ k + 1 # 0 /\ (k + 1) - 1 = k /\ k \in Nat
    BY <1>1
  <2>2. g[k + 1] = KeptPart(g[k], part)
    BY <1>2, <2>1
  <2>3. part \in Passing /\ (part.kind = "trail" => Base(g[k], part.base))
    <3>1. part \in Passing
      BY <2>1, ElementOfSeq, <1>1 DEF n
    <3> QED BY <2>1, <3>1 DEF Base
  <2> DEFINE f == KeptPart(g[k], part)
  <2>4. /\ CleanFile(f) /\ g[k].objects \subseteq f.objects
        /\ \A v : HoldsTrail(g[k], v) => HoldsTrail(f, v)
        /\ part.kind = "package" => part.objects \subseteq f.objects
        /\ part.kind = "trail" => HoldsTrail(f, part.top)
    BY <2>3, PartKept
  <2> HIDE DEF f
  <2>5. ASSUME NEW i \in 1..k + 1 PROVE Has(f, i)
    <3>1. CASE i = k + 1
      BY <2>4, <3>1
    <3>2. CASE i # k + 1
      <4>1. i \in 1..k
        BY <2>1, <3>2
      <4> QED BY <2>4, <4>1
    <3> QED BY <3>1, <3>2
  <2> QED BY <2>1, <2>2, <2>4, <2>5 DEF f
<1>5. 0..n \subseteq S
  <2> HIDE DEF S
  <2> QED BY <1>1, <1>3, <1>4, CountsOn
<1>6. n \in 0..n
  BY <1>1
<1> QED BY <1>1, <1>5, <1>6 DEF n

-----------------------------------------------------------------------------
\* A replica's file it may serve from: clean, with its index naming just what it keeps, and under the selection it
\* serves everything a read of that selection uses.
Servable(f, idx, n) ==
  /\ CleanFile(f) /\ n \in Checkpoints /\ DOMAIN idx \subseteq Indexable
  /\ \A x \in DOMAIN idx : idx[x] \in 0..n
  /\ f.objects = {x \in DOMAIN idx : x[1] # "top"}
  /\ \A x \in DOMAIN idx : x[1] = "top" => HoldsTrail(f, x[2])
  /\ \A v \in DOMAIN f.rows : \E x \in DOMAIN idx : x[1] = "top" /\ Passes(x[2], v)
  /\ \A h \in f.heads : \E x \in DOMAIN idx : x[1] = "top" /\ Segment(x[2]) = h
  /\ n > 0 => /\ NeededObjects(n) \subseteq NamedObjects(idx, n)
              /\ \A v \in NeededTops(n) : \E y \in NamedTops(idx, n) : Passes(y, v)

\* What a read of a selection uses is of checkpoints.
LEMMA NeededFacts ==
  ASSUME NEW n \in Checkpoints, n > 0
  PROVE  NeededTops(n) \subseteq EveryTop /\ NeededObjects(n) \subseteq EveryObject
<1>1. n \in 1..LastSequence /\ \A k \in 1..n : k \in 1..LastSequence
  BY SupplyAssumption DEF Checkpoints
<1>2. NeededTops(n) \subseteq EveryTop
  BY <1>1 DEF NeededTops, EveryTop, TopsAt
<1>3. NeededObjects(n) \subseteq EveryObject
  BY <1>1 DEF NeededObjects, EveryObject, ObjectsAt
<1> QED BY <1>2, <1>3

\* The objects of a clean file and the trails it holds are what a read resolves with.
LEMMA CleanResolves ==
  ASSUME NEW f, CleanFile(f), NEW n \in Checkpoints, n > 0
  PROVE  Resolves(f, n) <=> NeededObjects(n) \subseteq f.objects /\ \A v \in NeededTops(n) : HoldsTrail(f, v)
<1>1. ASSUME NEW v \in NeededTops(n) PROVE HasTrail(f, v) /\ Walk(f, v, 0, Broken).whole <=> HoldsTrail(f, v)
  <2>1. IsValue(v)
    BY NeededFacts, TopsAreValues
  <2>2. HasTrail(f, v) <=> HoldsTrail(f, v)
    BY <2>1, CleanHas
  <2>3. 0 \in 0..Position(v)
    BY <2>1, ValueFacts
  <2>4. HoldsTrail(f, v) => Walk(f, v, 0, Broken).whole
    BY <2>1, <2>3, CleanWalk
  <2> QED BY <2>2, <2>4
<1> QED BY <1>1 DEF Resolves

\* Such a file's whole answer from nothing fills an empty file with enough to read the selection served.
LEMMA ServableSuffices == Servable(file[Replica], index, served) => ReplicaSuffices
<1> SUFFICES ASSUME Servable(file[Replica], index, served), served > 0
             PROVE  LET answer == ReplicaParts(served, 0)
                    IN answer.whole /\ Resolves(Filled(answer.parts)[Len(answer.parts)], served)
  BY DEF ReplicaSuffices, Filled
<1> DEFINE f == file[Replica]
           objects == NamedObjects(index, served)
           tops == NamedTops(index, served)
           base == ReplicaBase(0)
           trails == TopTrails(f, tops, base)
           answer == Whole(objects, trails)
           parts == answer.parts
           g == Filled(parts)
           last == g[Len(parts)]
<1>1. /\ CleanFile(f) /\ served \in Checkpoints /\ DOMAIN index \subseteq Indexable
      /\ f.objects = {x \in DOMAIN index : x[1] # "top"}
      /\ \A x \in DOMAIN index : x[1] = "top" => HoldsTrail(f, x[2])
      /\ NeededObjects(served) \subseteq objects
      /\ \A v \in NeededTops(served) : \E y \in tops : Passes(y, v)
  BY DEF Servable
<1>2. /\ tops \in SUBSET EveryTop /\ objects \in SUBSET EveryObject
      /\ IndexedTops(0, served) = tops /\ IndexedObjects(0, served) = objects
  BY <1>1, NamesFacts
<1>3. objects \subseteq f.objects /\ \A v \in tops : HoldsTrail(f, v)
  BY <1>1 DEF NamedObjects, NamedTops, Names
<1>4. ServedFrom(served, 0) = 0
  BY SupplyAssumption, <1>1 DEF ServedFrom, Checkpoints
<1>5. ReplicaParts(served, 0) = answer
  BY <1>2, <1>3, <1>4, ReplicaAnswers
<1>6. BasesOwn(base) /\ Unbased(base)
  BY <1>1, ReplicaBaseOwn
<1> HIDE DEF base, objects, tops
<1>7. trails \in PassingTrails /\ Brings(f, tops, base, tops, trails)
  BY <1>1, <1>2, <1>6, CleanTrails
<1> HIDE DEF trails
<1>8. trails.whole /\ \A i \in DOMAIN trails.parts : Position(trails.parts[i].base) = 0
  BY <1>3, <1>6, <1>7 DEF Brings
<1>9. /\ parts \in Seq(Passing) /\ answer.whole = trails.whole
      /\ objects # {} => \E i \in DOMAIN parts : parts[i] = ObjectPart(objects)
      /\ \A j \in DOMAIN trails.parts : \E i \in DOMAIN parts : parts[i] = trails.parts[j]
      /\ \A i \in DOMAIN parts : \/ parts[i] = ObjectPart(objects)
                                 \/ \E j \in DOMAIN trails.parts : parts[i] = trails.parts[j]
  BY <1>2, <1>7, WholeHas
<1>10. \A i \in DOMAIN parts : parts[i].kind = "trail" => Position(parts[i].base) = 0
  <2> HIDE DEF answer
  <2> QED BY <1>8, <1>9 DEF ObjectPart
<1> HIDE DEF answer
<1>11. IsFill(parts, g)
  <2>1. Len(parts) \in Nat
    BY <1>9
  <2> QED BY <2>1, FilledIsFill
<1> HIDE DEF g
<1>12. /\ CleanFile(last)
       /\ \A i \in DOMAIN parts : /\ parts[i].kind = "package" => parts[i].objects \subseteq last.objects
                                  /\ parts[i].kind = "trail" => HoldsTrail(last, parts[i].top)
  BY <1>9, <1>10, <1>11, FillHolds
<1> HIDE DEF last
<1>13. objects \subseteq last.objects
  <2> SUFFICES ASSUME objects # {} PROVE objects \subseteq last.objects
    OBVIOUS
  <2>1. PICK i \in DOMAIN parts : parts[i] = ObjectPart(objects)
    BY <1>9
  <2> QED BY <1>12, <2>1 DEF ObjectPart
<1>14. ASSUME NEW v \in NeededTops(served) PROVE HoldsTrail(last, v)
  <2>1. PICK y \in tops : Passes(y, v)
    BY <1>1
  <2>2. IsValue(y) /\ IsValue(v) /\ Segment(y) \in Segments
    BY <1>1, <1>2, NeededFacts, TopsAreValues
  <2>3. PassedBy(trails.parts, base, y)
    BY <1>7, <1>8 DEF Brings
  <2>4. PICK j \in DOMAIN trails.parts : Passes(trails.parts[j].top, y)
    BY <1>6, <2>2, <2>3 DEF PassedBy, Unbased
  <2>5. PICK i \in DOMAIN parts : parts[i] = trails.parts[j]
    BY <1>9
  <2>6. trails.parts[j] \in PassingParts
    <3>1. trails.parts \in Seq(PassingParts)
      BY <1>7 DEF PassingTrails
    <3> QED BY <3>1, ElementOfSeq
  <2>7. parts[i].kind = "trail" /\ IsValue(parts[i].top)
    <3>1. parts[i].kind = "trail"
      BY <2>5, <2>6 DEF PassingParts, TrailParts, TrailPart
    <3>2. parts[i].top \in EveryTop
      BY <2>5, <2>6 DEF PassingParts, TrailParts, TrailPart
    <3> QED BY <3>1, <3>2, TopsAreValues
  <2>8. Passes(parts[i].top, v)
    BY <2>1, <2>2, <2>4, <2>5, <2>7, PassesOn
  <2> QED BY <1>12, <2>2, <2>7, <2>8, CutsHeld
<1>15. Resolves(last, served)
  BY <1>1, <1>12, <1>13, <1>14, CleanResolves
<1> QED BY <1>5, <1>8, <1>9, <1>15 DEF last, g

-----------------------------------------------------------------------------
\* What a source supplied through a sequence, and the sequences a party may have of it.
SuppliedObjects(source, idx, m) == IF source = Journal THEN ObjectsThrough(m) ELSE NamedObjects(idx, m)
SuppliedTops(source, idx, m) == IF source = Journal THEN TopsThrough(m) ELSE NamedTops(idx, m)
Within(source, srv, m) == IF source = Journal THEN m \in Checkpoints ELSE m \in 0..srv

\* A mark of a source that leaves nothing out: what it supplied through the mark is held.
MarkKept(source, f, idx, srv, m) ==
  /\ Within(source, srv, m)
  /\ ~Withholds(source) => Comes(f, <<>>, SuppliedObjects(source, idx, m), SuppliedTops(source, idx, m))

\* An answer being taken: what it would move the mark to is held or still to come, unless a part was not kept.
PartsPass(r) == r.state = "receiving" => r.left \in Seq(Passing)
ReadComing(party, r, f, idx, srv) ==
  r.state = "receiving" =>
    LET source == Sources(party)[r.at]
        m == Greater(r.through, r.after)
    IN /\ Within(source, srv, m)
       /\ ~Withholds(source) /\ r.whole /\ r.taken => Comes(f, r.left, SuppliedObjects(source, idx, m), SuppliedTops(source, idx, m))
ReadGood(party, r) ==
  /\ faults.damage = 0 => PartsPass(r)
  /\ Undamaged => ReadComing(party, r, file[party], index, served)

FaultsCounted ==
  /\ faults = [damage |-> faults.damage, breaks |-> faults.breaks, restores |-> faults.restores]
  /\ faults.damage \in Nat /\ faults.breaks \in Nat /\ faults.restores \in Nat
FilesClean ==
  faults.damage = 0 =>
    /\ \A party \in Parties : CleanFile(file[party])
    /\ Servable(file[Replica], index, served) /\ Servable(copy.file, copy.index, copy.served)
MarksKept ==
  Undamaged => \A party \in Parties : \A source \in ToSet(Sources(party)) :
                 MarkKept(source, file[party], index, served, mark[party][source])

KeptSupply == FaultsCounted /\ FilesClean /\ MarksKept /\ \A party \in Parties : ReadGood(party, reading[party])

\* What a source answers, after nothing or after the party's mark of it, brings all it serves.
LEMMA ReceivingGood ==
  ASSUME SoundSupply, KeptSupply, NEW party \in Parties, NEW i \in DOMAIN Sources(party),
         Sources(party)[i] = Journal => selection > 0,
         NEW after \in {0, mark[party][Sources(party)[i]]}, NEW full, NEW repairing
  PROVE  ReadGood(party, Receiving(party, i, after, full, repairing))
<1> DEFINE source == Sources(party)[i]
           answer == Parts(source, after)
           r == Receiving(party, i, after, full, repairing)
           m == Greater(Through(source), after)
<1>1. source \in ToSet(Sources(party)) /\ source \in {Journal, Replica}
  BY SourceNumbers
<1>2. /\ r.state = "receiving" /\ r.at = i /\ r.after = after /\ r.through = Through(source) /\ r.whole = answer.whole
      /\ r.left = Sent(source, answer.parts)
  BY DEF Receiving
<1>3. DOMAIN index \subseteq Indexable /\ selection \in Checkpoints
  BY DEF SoundSupply, SupplyCounts
<1>4. source = Journal => selection \in 1..LastSequence
  BY <1>3, SupplyAssumption DEF Checkpoints
<1>5. faults.damage = 0 => /\ CleanFile(file[Replica]) /\ served \in Nat /\ \A x \in DOMAIN index : index[x] \in Nat
  <2>1. Servable(file[Replica], index, served) => /\ CleanFile(file[Replica]) /\ served \in Nat /\ \A x \in DOMAIN index : index[x] \in 0..served
    BY SupplyAssumption DEF Servable, Checkpoints
  <2> QED BY <2>1 DEF KeptSupply, FilesClean
<1>6. after \in Nat
  BY <1>1 DEF SoundSupply, MarksCounted, AreMarks
<1>7. source # Journal => answer = ReplicaParts(served, after)
  BY DEF Parts
<1>8. source = Journal => answer = JournalParts(selection, after)
  BY DEF Parts
<1>9. Undamaged => Within(source, served, after) /\ served \in Nat
  <2> SUFFICES ASSUME Undamaged PROVE Within(source, served, after) /\ served \in Nat
    OBVIOUS
  <2>1. served \in Nat /\ 0 \in Checkpoints
    BY SupplyAssumption DEF SoundSupply, SupplyCounts, Checkpoints
  <2>2. Within(source, served, 0)
    BY <2>1 DEF Within
  <2>3. Within(source, served, mark[party][source])
    BY <1>1 DEF KeptSupply, MarksKept, MarkKept
  <2> QED BY <2>1, <2>2, <2>3
<1>10. Undamaged /\ ~Withholds(source) => Comes(file[party], <<>>, SuppliedObjects(source, index, after), SuppliedTops(source, index, after))
  <2> SUFFICES ASSUME Undamaged, ~Withholds(source)
               PROVE  Comes(file[party], <<>>, SuppliedObjects(source, index, after), SuppliedTops(source, index, after))
    OBVIOUS
  <2>1. SuppliedObjects(source, index, 0) = {} /\ SuppliedTops(source, index, 0) = {}
    <3>1. Names(index, 0) = {}
      <4> SUFFICES ASSUME NEW x \in DOMAIN index, 0 < index[x], index[x] <= 0 PROVE FALSE
        BY DEF Names
      <4>1. index[x] \in Nat
        BY <1>5 DEF Undamaged
      <4> QED BY <4>1
    <3>2. 1..0 = {}
      OBVIOUS
    <3>3. NamedObjects(index, 0) = {} /\ NamedTops(index, 0) = {}
      BY <3>1 DEF NamedObjects, NamedTops
    <3>4. ObjectsThrough(0) = {} /\ TopsThrough(0) = {}
      BY <3>2 DEF ObjectsThrough, TopsThrough
    <3> QED BY <3>3, <3>4 DEF SuppliedObjects, SuppliedTops
  <2>2. CASE after = 0
    BY <2>1, <2>2 DEF Comes
  <2>3. CASE after = mark[party][source]
    BY <1>1, <2>3 DEF KeptSupply, MarksKept, MarkKept
  <2> QED BY <2>2, <2>3
<1> HIDE DEF r, answer
<1>11. faults.damage = 0 => answer.parts \in Seq(Passing)
  <2>1. CASE source = Journal
    BY <1>4, <1>6, <1>8, <2>1, JournalComes
  <2>2. CASE source # Journal
    BY <1>3, <1>5, <1>6, <1>7, <2>2, ReplicaComes
  <2> QED BY <2>1, <2>2
<1>12. faults.damage = 0 => PartsPass(r)
  <2>1. faults.damage = 0 => Sent(source, answer.parts) \in Seq(Passing)
    BY <1>11, SentAreParts
  <2> QED BY <1>2, <2>1 DEF PartsPass
<1>13. Undamaged => ReadComing(party, r, file[party], index, served)
  <2> SUFFICES ASSUME Undamaged
               PROVE  /\ Within(source, served, m)
                      /\ ~Withholds(source) /\ r.whole => Comes(file[party], r.left, SuppliedObjects(source, index, m), SuppliedTops(source, index, m))
    BY <1>2 DEF ReadComing
  <2>1. CASE source = Journal
    <3>1. Through(source) = selection /\ after \in Checkpoints
      BY <1>9, <2>1 DEF Through, Within
    <3>2. m \in Checkpoints
      BY <1>3, <3>1 DEF Greater
    <3>3. CleanFile(file[party])
      BY DEF KeptSupply, FilesClean, Undamaged
    <3>4. ASSUME ~Withholds(source), r.whole PROVE Comes(file[party], r.left, ObjectsThrough(m), TopsThrough(m))
      <4>1. Comes(file[party], <<>>, ObjectsThrough(after), TopsThrough(after))
        BY <1>10, <2>1, <3>4 DEF SuppliedObjects, SuppliedTops
      <4>2. Comes(file[party], answer.parts, ObjectsThrough(m), TopsThrough(m))
        BY <1>2, <1>4, <1>6, <1>8, <2>1, <3>1, <3>3, <3>4, <4>1, JournalComes
      <4>3. r.left = answer.parts
        BY <1>2, <1>11, <3>4, SentAreParts DEF Undamaged
      <4> QED BY <4>2, <4>3
    <3> QED BY <2>1, <3>2, <3>4 DEF Within, SuppliedObjects, SuppliedTops
  <2>2. CASE source # Journal
    <3>1. Through(source) = served /\ served \in Nat /\ after \in 0..served
      BY <1>9, <2>2 DEF Through, Within
    <3>2. m = served /\ m \in 0..served /\ after <= served
      BY <3>1 DEF Greater
    <3>3. CleanFile(file[party])
      BY DEF KeptSupply, FilesClean, Undamaged
    <3>4. ASSUME ~Withholds(source), r.whole PROVE Comes(file[party], r.left, NamedObjects(index, m), NamedTops(index, m))
      <4>1. Comes(file[party], <<>>, NamedObjects(index, after), NamedTops(index, after))
        BY <1>10, <2>2, <3>4 DEF SuppliedObjects, SuppliedTops
      <4>2. Comes(file[party], answer.parts, NamedObjects(index, m), NamedTops(index, m))
        BY <1>2, <1>3, <1>5, <1>6, <1>7, <2>2, <3>2, <3>3, <3>4, <4>1, ReplicaComes DEF Undamaged
      <4>3. r.left = answer.parts
        BY <1>2, <1>11, <3>4, SentAreParts DEF Undamaged
      <4> QED BY <4>2, <4>3
    <3> QED BY <2>2, <3>2, <3>4 DEF Within, SuppliedObjects, SuppliedTops
  <2> QED BY <2>1, <2>2
<1> QED BY <1>12, <1>13 DEF ReadGood, r

\* So does what the next source that serves is asked, and a read that ends expects nothing.
LEMMA FromGood ==
  ASSUME SoundSupply, KeptSupply, NEW party \in Parties, NEW i \in Nat \ {0}, NEW repairing
  PROVE  ReadGood(party, From(party, i, repairing))
<1> DEFINE answering == {j \in i .. Len(Sources(party)) : Through(Sources(party)[j]) > 0}
           j == Min(answering)
           source == Sources(party)[j]
           full == repairing /\ unresolved[party][source] = 0
           after == IF full THEN 0 ELSE mark[party][source]
<1>1. CASE answering = {}
  <2>1. From(party, i, repairing) = Idle /\ Idle.state # "receiving"
    BY <1>1 DEF From, Idle
  <2> QED BY <2>1 DEF ReadGood, PartsPass, ReadComing
<1>2. CASE answering # {}
  <2>1. answering \subseteq Nat /\ answering \subseteq DOMAIN Sources(party)
    BY SourceNumbers
  <2>2. j \in answering
    <3>1. \E x \in answering : \A y \in answering : x <= y
      <4> HIDE DEF answering
      <4> QED BY <1>2, <2>1, FirstOf
    <3> HIDE DEF answering
    <3> QED BY <3>1 DEF Min
  <2>3. From(party, i, repairing) = Receiving(party, j, after, full, repairing)
    BY <1>2 DEF From
  <2>4. j \in DOMAIN Sources(party) /\ Through(source) > 0
    <3> HIDE DEF j
    <3> QED BY <2>1, <2>2
  <2> HIDE DEF answering, j
  <2>5. after \in {0, mark[party][source]}
    OBVIOUS
  <2>6. source = Journal => selection > 0
    BY <2>4 DEF Through
  <2> HIDE DEF after, full
  <2> QED BY <2>3, <2>4, <2>5, <2>6, ReceivingGood
<1> QED BY <1>1, <1>2

\* A step of one party's read alone.
LEMMA ReadStepKeeps ==
  ASSUME SoundSupply, KeptSupply, NEW party \in Parties, NEW r, ReadGood(party, r),
         reading' = [reading EXCEPT ![party] = r], UNCHANGED <<file, mark, index, served, copy, plan>>,
         FaultsCounted', faults'.damage = faults.damage, faults'.restores = faults.restores
  PROVE  KeptSupply'
<1>1. reading'[party] = r /\ \A x \in Parties \ {party} : reading'[x] = reading[x]
  BY DEF SoundSupply, ReadsSound
<1>2. Undamaged' = Undamaged /\ \A source : Withholds(source)' = Withholds(source)
  BY DEF Undamaged, Withholds
<1>3. \A x \in Parties : ReadGood(x, reading'[x])
  BY <1>1 DEF KeptSupply
<1>4. \A x \in Parties : ReadGood(x, reading[x])'
  BY <1>2, <1>3 DEF ReadGood, ReadComing
<1>5. FilesClean' /\ MarksKept'
  BY <1>2 DEF KeptSupply, FilesClean, MarksKept, MarkKept
<1> QED BY <1>4, <1>5 DEF KeptSupply

\* The service's steps touch no party's file, index, mark or read.
LEMMA ServingStepKeeps ==
  ASSUME KeptSupply, UNCHANGED <<file, mark, index, served, reading, copy, plan, faults>>
  PROVE  KeptSupply'
<1>1. Undamaged' = Undamaged /\ \A source : Withholds(source)' = Withholds(source)
  BY DEF Undamaged, Withholds
<1>2. \A x \in Parties : ReadGood(x, reading[x])'
  BY <1>1 DEF KeptSupply, ReadGood, ReadComing
<1>3. FilesClean' /\ MarksKept' /\ FaultsCounted'
  BY <1>1 DEF KeptSupply, FilesClean, MarksKept, MarkKept, FaultsCounted
<1> QED BY <1>2, <1>3 DEF KeptSupply

\* A read passed over goes on to the next source.
LEMMA PassOverKeeps ==
  ASSUME SoundSupply, KeptSupply, NEW party \in Parties, reading[party] # Idle, PassOver(party),
         UNCHANGED <<file, mark, index, served, copy, plan>>,
         FaultsCounted', faults'.damage = faults.damage, faults'.restores = faults.restores
  PROVE  KeptSupply'
<1> DEFINE r == reading[party]
           next == From(party, r.at + 1, r.repairing)
<1>1. r.at \in DOMAIN Sources(party)
  BY DEF SoundSupply, ReadsSound, ReadingSound, AtSource
<1>2. r.at + 1 \in Nat \ {0}
  <2> HIDE DEF r
  <2> QED BY <1>1, SourceNumbers
<1>3. ReadGood(party, next)
  BY <1>2, FromGood
<1>4. reading' = [reading EXCEPT ![party] = next]
  BY DEF PassOver
<1> HIDE DEF next
<1> QED BY <1>3, <1>4, ReadStepKeeps

\* A read begins at the first source that serves.
LEMMA BeginKeeps == ASSUME SoundSupply, KeptSupply, NEW party \in Parties, Begin(party) PROVE KeptSupply'
<1> DEFINE next == From(party, 1, FALSE)
<1>1. ReadGood(party, next)
  <2>1. 1 \in Nat \ {0}
    OBVIOUS
  <2> QED BY <2>1, FromGood, Zenon
<1>2. reading' = [reading EXCEPT ![party] = next] /\ UNCHANGED <<file, mark, index, served, copy, plan, faults>>
  BY DEF Begin
<1>3. FaultsCounted'
  BY <1>2 DEF KeptSupply, FaultsCounted
<1> HIDE DEF next
<1> QED BY <1>1, <1>2, <1>3, ReadStepKeeps

\* A broken connection and a stopped process are counted, and end or pass over one read.
LEMMA BreakKeeps ==
  ASSUME SoundSupply, KeptSupply, NEW party \in Parties, BreakOff(party) \/ Crash(party)
  PROVE  KeptSupply'
<1>1. faults' = [faults EXCEPT !.breaks = @ + 1] /\ UNCHANGED <<file, mark, index, served, copy, plan>> /\ reading[party] # Idle
  BY DEF BreakOff, Crash, Idle
<1>2. FaultsCounted' /\ faults'.damage = faults.damage /\ faults'.restores = faults.restores
  BY <1>1 DEF KeptSupply, FaultsCounted
<1>3. CASE BreakOff(party)
  <2>1. PassOver(party)
    BY <1>3 DEF BreakOff
  <2> QED BY <1>1, <1>2, <2>1, PassOverKeeps
<1>4. CASE Crash(party)
  <2>1. reading' = [reading EXCEPT ![party] = Idle]
    BY <1>4 DEF Crash
  <2>2. ReadGood(party, Idle)
    <3>1. Idle.state # "receiving"
      BY DEF Idle
    <3> QED BY <3>1 DEF ReadGood, PartsPass, ReadComing
  <2> QED BY <1>1, <1>2, <2>1, <2>2, ReadStepKeeps
<1> QED BY <1>3, <1>4

-----------------------------------------------------------------------------
\* Names indexed as pending beside what is indexed.
Beside(idx, names) == [x \in DOMAIN idx \cup names |-> IF x \in DOMAIN idx THEN idx[x] ELSE Pending]

\* What is pending is named under no selection.
LEMMA BesideNames ==
  ASSUME NEW idx, NEW names
  PROVE  /\ \A m : NamedObjects(Beside(idx, names), m) = NamedObjects(idx, m) /\ NamedTops(Beside(idx, names), m) = NamedTops(idx, m)
         /\ \A source, m : /\ SuppliedObjects(source, Beside(idx, names), m) = SuppliedObjects(source, idx, m)
                           /\ SuppliedTops(source, Beside(idx, names), m) = SuppliedTops(source, idx, m)
<1> DEFINE new == Beside(idx, names)
<1>1. DOMAIN new = DOMAIN idx \cup names /\ \A x \in DOMAIN new : new[x] = IF x \in DOMAIN idx THEN idx[x] ELSE Pending
  BY DEF Beside
<1> HIDE DEF new
<1>2. \A m : Names(new, m) = Names(idx, m)
  BY <1>1 DEF Names
<1>3. \A m : NamedObjects(new, m) = NamedObjects(idx, m) /\ NamedTops(new, m) = NamedTops(idx, m)
  BY <1>2 DEF NamedObjects, NamedTops
<1>4. \A source, m : /\ SuppliedObjects(source, new, m) = SuppliedObjects(source, idx, m)
                     /\ SuppliedTops(source, new, m) = SuppliedTops(source, idx, m)
  BY <1>3 DEF SuppliedObjects, SuppliedTops
<1> QED BY <1>3, <1>4 DEF new

\* A file that has lost nothing is still to be brought no more.
LEMMA ComesMore ==
  ASSUME NEW f, NEW g, f.objects \subseteq g.objects, \A v : HoldsTrail(f, v) => HoldsTrail(g, v),
         NEW left, NEW objects, NEW tops, Comes(f, left, objects, tops)
  PROVE  Comes(g, left, objects, tops)
BY DEF Comes

\* The names take indexes a part under.
PartNames(part) == IF part.kind = "package" THEN part.objects ELSE {<<"top", part.top>>}

\* take in the replica's file: what is kept is indexed, and nothing else.
LEMMA ServableTakes ==
  ASSUME NEW f, NEW idx, NEW n, Servable(f, idx, n), NEW part \in Passing, part.kind = "trail" => Base(f, part.base)
  PROVE  Servable(KeptPart(f, part), Beside(idx, PartNames(part)), n)
<1> DEFINE g == KeptPart(f, part)
           names == PartNames(part)
           new == Beside(idx, names)
<1>1. /\ CleanFile(f) /\ n \in Checkpoints /\ DOMAIN idx \subseteq Indexable
      /\ \A x \in DOMAIN idx : idx[x] \in 0..n
      /\ f.objects = {x \in DOMAIN idx : x[1] # "top"}
      /\ \A x \in DOMAIN idx : x[1] = "top" => HoldsTrail(f, x[2])
      /\ \A v \in DOMAIN f.rows : \E x \in DOMAIN idx : x[1] = "top" /\ Passes(x[2], v)
      /\ \A h \in f.heads : \E x \in DOMAIN idx : x[1] = "top" /\ Segment(x[2]) = h
      /\ n > 0 => /\ NeededObjects(n) \subseteq NamedObjects(idx, n)
                  /\ \A v \in NeededTops(n) : \E y \in NamedTops(idx, n) : Passes(y, v)
  BY DEF Servable
<1>2. DOMAIN new = DOMAIN idx \cup names /\ \A x \in DOMAIN new : new[x] = IF x \in DOMAIN idx THEN idx[x] ELSE Pending
  BY DEF Beside
<1>3. NamedObjects(new, n) = NamedObjects(idx, n) /\ NamedTops(new, n) = NamedTops(idx, n)
  BY BesideNames
<1>4. CleanFile(g) /\ \A v : HoldsTrail(f, v) => HoldsTrail(g, v)
  BY <1>1, PartKept
<1>5. \A x \in EveryObject : x[1] # "top"
  BY DEF EveryObject, ObjectsAt, OwnObject, TakenObject
<1>6. /\ names \subseteq Indexable
      /\ g.objects = f.objects \cup {x \in names : x[1] # "top"}
      /\ \A x \in names : x[1] = "top" => HoldsTrail(g, x[2])
      /\ \A v \in DOMAIN g.rows : v \in DOMAIN f.rows \/ \E x \in names : x[1] = "top" /\ Passes(x[2], v)
      /\ \A h \in g.heads : h \in f.heads \/ \E x \in names : x[1] = "top" /\ Segment(x[2]) = h
  <2>1. CASE part.kind = "package"
    <3>1. g = KeepObjects(f, part.objects) /\ names = part.objects /\ part.objects \in SUBSET EveryObject
      BY <2>1, PartFacts DEF KeptPart, PartNames
    <3>2. g.objects = f.objects \cup part.objects /\ g.heads = f.heads /\ g.rows = f.rows
      BY <1>1, <3>1, ObjectsKeepClean
    <3> HIDE DEF g, names
    <3> QED BY <1>5, <3>1, <3>2 DEF Indexable
  <2>2. CASE part.kind # "package"
    <3>1. part \in PassingParts /\ part.top \in EveryTop /\ part.kind = "trail"
      BY <2>2, PartFacts
    <3>2. g = KeepTrail(f, part.base, part.records) /\ names = {<<"top", part.top>>}
      BY <2>2 DEF KeptPart, PartNames
    <3>3. /\ g.objects = f.objects /\ g.heads = f.heads \cup {Segment(part.top)}
          /\ \A y \in DOMAIN g.rows : y \in DOMAIN f.rows \/ (IsValue(y) /\ Passes(part.top, y))
          /\ HoldsTrail(g, part.top)
      BY <1>1, <3>1, <3>2, KeepingIsClean
    <3>4. <<"top", part.top>>[1] = "top" /\ <<"top", part.top>>[2] = part.top
      OBVIOUS
    <3> HIDE DEF g, names
    <3> QED BY <3>1, <3>2, <3>3, <3>4 DEF Indexable
  <2> QED BY <2>1, <2>2
<1> HIDE DEF g, names, new
<1>7. \A x \in DOMAIN new : new[x] \in 0..n
  BY <1>1, <1>2, SupplyAssumption DEF Pending, Checkpoints
<1> QED BY <1>1, <1>2, <1>3, <1>4, <1>6, <1>7 DEF Servable, g, names, new

\* What a source supplied is of tops that checkpoints name.
LEMMA SuppliedAreValues ==
  ASSUME SoundSupply, NEW source, NEW m, Within(source, served, m)
  PROVE  \A v \in SuppliedTops(source, index, m) : IsValue(v)
<1>1. DOMAIN index \subseteq Indexable /\ served \in Nat
  BY DEF SoundSupply, SupplyCounts
<1>2. source = Journal => SuppliedTops(source, index, m) \subseteq EveryTop
  BY SupplyAssumption DEF SuppliedTops, TopsThrough, EveryTop, Within, Checkpoints
<1>3. source # Journal => SuppliedTops(source, index, m) \subseteq EveryTop
  BY <1>1, NamesFacts DEF SuppliedTops
<1> QED BY <1>2, <1>3, TopsAreValues

\* A part kept leaves less to come, and the file and its index sound; one not kept leaves its answer no promise.
LEMMA TakeKeeps == ASSUME SoundSupply, KeptSupply, NEW party \in Parties, Take(party) PROVE KeptSupply'
<1> DEFINE r == reading[party]
           f == file[party]
           part == Head(r.left)
           keeps == part.kind = "trail" => Base(f, part.base) /\ Framed(part.base, part.top, part.records)
<1>1. UNCHANGED <<mark, served, copy, plan, faults>> /\ r.state = "receiving" /\ r.left # <<>>
  BY DEF Take
<1>2. FaultsCounted' /\ Undamaged' = Undamaged /\ \A source : Withholds(source)' = Withholds(source)
  BY <1>1 DEF KeptSupply, FaultsCounted, Undamaged, Withholds
<1>3. CASE r.charged + Rows(part) > Quota
  <2>1. PassOver(party) /\ UNCHANGED <<file, index>> /\ r # Idle
    BY <1>1, <1>3 DEF Take, Idle
  <2> QED BY <1>1, <1>2, <2>1, PassOverKeeps
<1>4. CASE ~(r.charged + Rows(part) > Quota)
  <2> DEFINE charged == r.charged + Rows(part)
             taken == r.taken /\ keeps
             left == Tail(r.left)
             next == [state |-> "receiving", at |-> r.at, after |-> r.after, full |-> r.full, repairing |-> r.repairing,
                      through |-> r.through, whole |-> r.whole, taken |-> taken, charged |-> charged, left |-> left]
  <2>1. r = [state |-> "receiving", at |-> r.at, after |-> r.after, full |-> r.full, repairing |-> r.repairing,
             through |-> r.through, whole |-> r.whole, taken |-> r.taken, charged |-> r.charged, left |-> r.left]
    <3>1. ReadingSound(party, r, selection)
      BY DEF SoundSupply, ReadsSound
    <3>2. Idle.state = "idle"
      BY DEF Idle
    <3> HIDE DEF r
    <3> QED BY <1>1, <3>1, <3>2 DEF ReadingSound
  <2>2. reading' = [reading EXCEPT ![party] = next]
    <3>1. DOMAIN reading = Parties
      BY DEF SoundSupply, ReadsSound
    <3>2. reading' = [reading EXCEPT ![party].left = Tail(@), ![party].charged = @ + Rows(part), ![party].taken = @ /\ keeps]
      BY <1>4 DEF Take
    <3>3. reading' = [reading EXCEPT ![party] = [r EXCEPT !.left = left, !.charged = charged, !.taken = taken]]
      <4> HIDE DEF part, keeps
      <4> QED BY <3>1, <3>2
    <3>4. [r EXCEPT !.left = left, !.charged = charged, !.taken = taken] = next
      <4> DEFINE moved == [r EXCEPT !.left = left, !.charged = charged, !.taken = taken]
      <4> HIDE DEF r, charged, taken, left, next, part
      <4>0. moved = [r EXCEPT !.left = left, !.charged = charged, !.taken = taken]
        OBVIOUS
      <4> HIDE DEF moved
      <4>1. moved =
            [state |-> "receiving", at |-> r.at, after |-> r.after, full |-> r.full, repairing |-> r.repairing,
             through |-> r.through, whole |-> r.whole, taken |-> taken, charged |-> charged, left |-> left]
        BY <2>1, <4>0, ReadTaken
      <4> QED BY <4>0, <4>1 DEF next
    <3> HIDE DEF next, left, charged, taken
    <3> QED BY <3>3, <3>4
  <2>3. /\ next.state = "receiving" /\ next.at = r.at /\ next.after = r.after /\ next.through = r.through
        /\ next.whole = r.whole /\ (next.taken <=> taken) /\ next.left = left
    OBVIOUS
  <2> HIDE DEF next
  <2>4. reading'[party] = next /\ \A x \in Parties \ {party} : reading'[x] = reading[x]
    <3>1. DOMAIN reading = Parties
      BY DEF SoundSupply, ReadsSound
    <3> QED BY <2>2, <3>1
  <2>5. keeps /\ (faults.damage = 0 => part \in Passing)
        => /\ file' = [file EXCEPT ![party] = KeptPart(f, part)]
           /\ index' = IF party = Replica THEN Beside(index, PartNames(part)) ELSE index
    <3> SUFFICES ASSUME keeps PROVE /\ file' = [file EXCEPT ![party] = KeptPart(f, part)]
                                    /\ index' = IF party = Replica THEN Beside(index, PartNames(part)) ELSE index
      OBVIOUS
    <3>1. CASE part.kind = "package"
      <4>1. file' = [file EXCEPT ![party] = KeepObjects(f, part.objects)] /\ index' = IndexedToo(party, part.objects)
        BY <1>4, <3>1 DEF Take
      <4> HIDE DEF part, f
      <4> QED BY <3>1, <4>1 DEF KeptPart, PartNames, IndexedToo, Beside
    <3>2. CASE part.kind # "package"
      <4>1. /\ file' = [file EXCEPT ![party] = KeepTrail(f, part.base, part.records)]
            /\ index' = IndexedToo(party, {<<"top", part.top>>})
        BY <1>4, <3>2 DEF Take
      <4> HIDE DEF part, f
      <4> QED BY <3>2, <4>1 DEF KeptPart, PartNames, IndexedToo, Beside
    <3> QED BY <3>1, <3>2
  <2>6. ~keeps => UNCHANGED <<file, index>>
    BY <1>4 DEF Take
  <2>7. faults.damage = 0 => part \in Passing /\ left \in Seq(Passing) /\ r.left \in Seq(Passing)
    <3>1. faults.damage = 0 => r.left \in Seq(Passing)
      BY <1>1 DEF KeptSupply, ReadGood, PartsPass
    <3> HIDE DEF r
    <3> QED BY <1>1, <3>1, HeadTailProperties
  <2>8. keeps => (part.kind = "trail" => Base(f, part.base))
    OBVIOUS
  <2>9. DOMAIN file = Parties
    BY DEF SoundSupply, FilesGenuine
  <2> HIDE DEF part, left, keeps, r
  <2>10. faults.damage = 0 => \A x \in Parties : CleanFile(file'[x])
    <3> SUFFICES ASSUME faults.damage = 0, NEW x \in Parties PROVE CleanFile(file'[x])
      OBVIOUS
    <3>1. CleanFile(file[x]) /\ CleanFile(f)
      BY DEF KeptSupply, FilesClean
    <3>2. keeps => CleanFile(KeptPart(f, part))
      BY <2>7, <2>8, <3>1, PartKept
    <3> QED BY <2>5, <2>6, <2>7, <2>9, <3>1, <3>2
  <2>11. faults.damage = 0 => Servable(file'[Replica], index', served)
    <3> SUFFICES ASSUME faults.damage = 0 PROVE Servable(file'[Replica], index', served)
      OBVIOUS
    <3>1. Servable(file[Replica], index, served) /\ Replica \in Parties
      BY DEF KeptSupply, FilesClean, Parties
    <3>2. CASE keeps /\ party = Replica
      <4>1. file'[Replica] = KeptPart(f, part) /\ index' = Beside(index, PartNames(part))
        BY <2>5, <2>7, <2>9, <3>2
      <4> QED BY <2>7, <2>8, <3>1, <3>2, <4>1, ServableTakes
    <3>3. CASE keeps /\ party # Replica
      <4>1. file'[Replica] = file[Replica] /\ index' = index
        BY <2>5, <2>7, <2>9, <3>1, <3>3
      <4> QED BY <3>1, <4>1
    <3>4. CASE ~keeps
      BY <2>6, <3>1, <3>4
    <3> QED BY <3>2, <3>3, <3>4
  <2>12. FilesClean'
    BY <1>1, <2>10, <2>11 DEF KeptSupply, FilesClean
  <2>13. faults.damage = 0 => \A source, m : /\ SuppliedObjects(source, index', m) = SuppliedObjects(source, index, m)
                                             /\ SuppliedTops(source, index', m) = SuppliedTops(source, index, m)
    <3>1. CASE keeps
      BY <2>5, <2>7, <3>1, BesideNames
    <3>2. CASE ~keeps
      BY <2>6, <3>2
    <3> QED BY <3>1, <3>2
  <2>14. faults.damage = 0 => \A x \in Parties : /\ file[x].objects \subseteq file'[x].objects
                                                 /\ \A v : HoldsTrail(file[x], v) => HoldsTrail(file'[x], v)
    <3> SUFFICES ASSUME faults.damage = 0, NEW x \in Parties
                 PROVE  file[x].objects \subseteq file'[x].objects /\ \A v : HoldsTrail(file[x], v) => HoldsTrail(file'[x], v)
      OBVIOUS
    <3>1. CleanFile(f)
      BY DEF KeptSupply, FilesClean
    <3>2. keeps => /\ f.objects \subseteq KeptPart(f, part).objects
                   /\ \A v : HoldsTrail(f, v) => HoldsTrail(KeptPart(f, part), v)
      BY <2>7, <2>8, <3>1, PartKept
    <3>3. CASE keeps /\ x = party
      <4>1. file'[x] = KeptPart(f, part)
        BY <2>5, <2>7, <2>9, <3>3
      <4> QED BY <3>2, <3>3, <4>1
    <3>4. CASE ~(keeps /\ x = party)
      <4>1. file'[x] = file[x]
        BY <2>5, <2>6, <2>7, <2>9, <3>4
      <4> QED BY <4>1
    <3> QED BY <3>3, <3>4
  <2>15. MarksKept'
    <3> SUFFICES ASSUME Undamaged, NEW x \in Parties, NEW source \in ToSet(Sources(x))
                 PROVE  MarkKept(source, file[x], index, served, mark[x][source])'
      BY <1>1, <1>2 DEF MarksKept
    <3>1. MarkKept(source, file[x], index, served, mark[x][source])
      BY DEF KeptSupply, MarksKept
    <3>2. faults.damage = 0
      BY DEF Undamaged
    <3> DEFINE m == mark[x][source]
    <3>3. ~Withholds(source) => Comes(file'[x], <<>>, SuppliedObjects(source, index', m), SuppliedTops(source, index', m))
      BY <2>13, <2>14, <3>1, <3>2, ComesMore DEF MarkKept
    <3> QED BY <1>1, <1>2, <3>1, <3>3 DEF MarkKept
  <2>16. ASSUME NEW x \in Parties PROVE ReadGood(x, reading[x])'
    <3>1. ReadGood(x, reading[x])
      BY DEF KeptSupply
    <3>2. CASE x # party
      <4>1. reading'[x] = reading[x]
        BY <2>4, <3>2
      <4>2. faults.damage = 0 => PartsPass(reading'[x])
        BY <3>1, <4>1 DEF ReadGood
      <4>3. ASSUME Undamaged PROVE ReadComing(x, reading[x], file'[x], index', served)
        <5>1. faults.damage = 0
          BY <4>3 DEF Undamaged
        <5> QED BY <2>13, <2>14, <3>1, <4>3, <5>1, ComesMore DEF ReadGood, ReadComing
      <4> QED BY <1>1, <1>2, <4>1, <4>2, <4>3 DEF ReadGood, ReadComing
    <3>3. CASE x = party
      <4>1. faults.damage = 0 => PartsPass(next)
        BY <2>3, <2>7 DEF PartsPass
      <4>2. ASSUME Undamaged PROVE ReadComing(party, next, file'[party], index', served)
        <5> DEFINE source == Sources(party)[r.at]
                   m == Greater(r.through, r.after)
        <5>1. faults.damage = 0 /\ CleanFile(f)
          BY <4>2 DEF Undamaged, KeptSupply, FilesClean
        <5>2. /\ Within(source, served, m)
              /\ ~Withholds(source) /\ r.whole /\ r.taken => Comes(f, r.left, SuppliedObjects(source, index, m), SuppliedTops(source, index, m))
          BY <1>1, <3>1, <3>3, <4>2 DEF ReadGood, ReadComing, r
        <5> HIDE DEF source, m
        <5>3. \A v \in SuppliedTops(source, index, m) : IsValue(v)
          BY <5>2, SuppliedAreValues
        <5>4. ASSUME ~Withholds(source), next.whole, next.taken
              PROVE  Comes(file'[party], next.left, SuppliedObjects(source, index', m), SuppliedTops(source, index', m))
          <6>1. keeps /\ r.taken /\ r.whole
            BY <2>3, <5>4
          <6>2. file'[party] = KeptPart(f, part)
            BY <2>5, <2>7, <2>9, <5>1, <6>1
          <6>3. Comes(KeptPart(f, part), left, SuppliedObjects(source, index, m), SuppliedTops(source, index, m))
            BY <1>1, <2>7, <2>8, <5>1, <5>2, <5>3, <5>4, <6>1, ComesOn DEF part, left, f
          <6> QED BY <2>3, <2>13, <5>1, <6>2, <6>3
        <5> QED BY <2>3, <5>2, <5>4 DEF ReadComing, source, m
      <4> QED BY <1>1, <1>2, <2>4, <3>3, <4>1, <4>2 DEF ReadGood, ReadComing
    <3> QED BY <3>2, <3>3
  <2> QED BY <1>2, <2>12, <2>15, <2>16 DEF KeptSupply
<1> QED BY <1>3, <1>4

\* sync's end: the mark moves only to what is held.
LEMMA SyncedKeeps == ASSUME SoundSupply, KeptSupply, NEW party \in Parties, Synced(party) PROVE KeptSupply'
<1> DEFINE r == reading[party]
           source == Sources(party)[r.at]
           assembled == r.taken /\ HoldsSelection(file[party], r.through)
           dropped == ~r.whole \/ (~assembled /\ r.after = 0)
<1>1. UNCHANGED <<file, index, served, copy, plan, faults>> /\ r.state = "receiving" /\ r.left = <<>>
  BY DEF Synced
<1>2. FaultsCounted' /\ Undamaged' = Undamaged /\ \A s : Withholds(s)' = Withholds(s)
  BY <1>1 DEF KeptSupply, FaultsCounted, Undamaged, Withholds
<1>3. AtSource(party, r, selection) /\ r.at \in DOMAIN Sources(party)
  <2>1. ReadingSound(party, r, selection)
    BY DEF SoundSupply, ReadsSound
  <2>2. Idle.state = "idle"
    BY DEF Idle
  <2>3. [state |-> "using", at |-> r.at, full |-> r.full, repairing |-> r.repairing, through |-> r.through].state = "using"
    OBVIOUS
  <2> HIDE DEF r
  <2> QED BY <1>1, <2>1, <2>2 DEF ReadingSound, AtSource
<1>4. CASE dropped
  <2>1. PassOver(party) /\ UNCHANGED mark /\ r # Idle
    BY <1>1, <1>4 DEF Synced, Idle
  <2> QED BY <1>1, <1>2, <2>1, PassOverKeeps
<1>5. CASE ~dropped /\ ~assembled
  <2> DEFINE next == Receiving(party, r.at, 0, r.full, r.repairing)
  <2>1. reading' = [reading EXCEPT ![party] = next] /\ UNCHANGED mark
    BY <1>5 DEF Synced
  <2>2. ReadGood(party, next)
    <3>1. Sources(party)[r.at] = Journal => selection > 0
      BY <1>3 DEF AtSource
    <3> HIDE DEF r
    <3> QED BY <1>3, <3>1, ReceivingGood
  <2> HIDE DEF next
  <2> QED BY <1>1, <1>2, <2>1, <2>2, ReadStepKeeps
<1>6. CASE ~dropped /\ assembled
  <2> DEFINE next == [state |-> "using", at |-> r.at, full |-> r.full, repairing |-> r.repairing, through |-> r.through]
             m == IF r.through > r.after THEN r.through ELSE r.after
  <2>1. reading' = [reading EXCEPT ![party] = next] /\ mark' = [mark EXCEPT ![party][source] = m]
    BY <1>6 DEF Synced
  <2>2. next.state # "receiving"
    OBVIOUS
  <2> HIDE DEF next
  <2>3. Undamaged => MarkKept(source, file[party], index, served, m)
    <3> SUFFICES ASSUME Undamaged PROVE MarkKept(source, file[party], index, served, m)
      OBVIOUS
    <3>1. ReadComing(party, r, file[party], index, served)
      BY DEF KeptSupply, ReadGood
    <3>2. m = Greater(r.through, r.after)
      BY DEF Greater
    <3> HIDE DEF m
    <3>3. /\ Within(source, served, m)
          /\ ~Withholds(source) => Comes(file[party], r.left, SuppliedObjects(source, index, m), SuppliedTops(source, index, m))
      BY <1>1, <1>6, <3>1, <3>2 DEF ReadComing
    <3> HIDE DEF r, source
    <3> QED BY <1>1, <3>3 DEF MarkKept
  <2> HIDE DEF m
  <2>4. DOMAIN mark = Parties /\ DOMAIN reading = Parties /\ \A x \in Parties : DOMAIN mark[x] = ToSet(Sources(x))
    BY DEF SoundSupply, MarksCounted, AreMarks, ReadsSound
  <2>5. \A x \in Parties : \A s \in ToSet(Sources(x)) :
           mark'[x][s] = IF x = party /\ s = source THEN m ELSE mark[x][s]
    <3> HIDE DEF source
    <3> QED BY <2>1, <2>4
  <2>6. MarksKept'
    <3> SUFFICES ASSUME Undamaged, NEW x \in Parties, NEW s \in ToSet(Sources(x))
                 PROVE  MarkKept(s, file[x], index, served, mark'[x][s])
      BY <1>1, <1>2 DEF MarksKept, MarkKept
    <3>1. MarkKept(s, file[x], index, served, mark[x][s])
      BY DEF KeptSupply, MarksKept
    <3> HIDE DEF source
    <3> QED BY <2>3, <2>5, <3>1
  <2>7. ASSUME NEW x \in Parties PROVE ReadGood(x, reading[x])'
    <3>1. CASE x = party
      <4>1. reading'[x] = next
        BY <2>1, <2>4, <3>1
      <4> QED BY <2>2, <4>1 DEF ReadGood, PartsPass, ReadComing
    <3>2. CASE x # party
      <4>1. reading'[x] = reading[x] /\ ReadGood(x, reading[x])
        BY <2>1, <2>4, <3>2 DEF KeptSupply
      <4> QED BY <1>1, <1>2, <4>1 DEF ReadGood, ReadComing
    <3> QED BY <3>1, <3>2
  <2>8. FilesClean'
    BY <1>1 DEF KeptSupply, FilesClean
  <2> QED BY <1>2, <2>6, <2>7, <2>8 DEF KeptSupply
<1> QED BY <1>4, <1>5, <1>6

-----------------------------------------------------------------------------
\* What is pending indexed under a selection.
Under(idx, n) == [x \in DOMAIN idx |-> IF idx[x] = Pending THEN n ELSE idx[x]]

\* keepSelection: a selection above every one served, which the file resolves, is served with all it uses, and what
\* earlier selections named stays as it was.
LEMMA ServableIndexes ==
  ASSUME NEW f, NEW idx, NEW was, Servable(f, idx, was), NEW n \in Checkpoints, n > was, Resolves(f, n)
  PROVE  /\ Servable(f, Under(idx, n), n)
         /\ \A m \in 0..was : NamedObjects(Under(idx, n), m) = NamedObjects(idx, m) /\ NamedTops(Under(idx, n), m) = NamedTops(idx, m)
<1> DEFINE new == Under(idx, n)
<1>0. LastSequence \in Nat /\ n \in Nat /\ was \in Nat /\ n > 0
  BY SupplyAssumption DEF Servable, Checkpoints
<1>1. /\ CleanFile(f) /\ DOMAIN idx \subseteq Indexable
      /\ \A x \in DOMAIN idx : idx[x] \in 0..was
      /\ f.objects = {x \in DOMAIN idx : x[1] # "top"}
      /\ \A x \in DOMAIN idx : x[1] = "top" => HoldsTrail(f, x[2])
      /\ \A v \in DOMAIN f.rows : \E x \in DOMAIN idx : x[1] = "top" /\ Passes(x[2], v)
      /\ \A h \in f.heads : \E x \in DOMAIN idx : x[1] = "top" /\ Segment(x[2]) = h
  BY DEF Servable
<1>2. DOMAIN new = DOMAIN idx /\ \A x \in DOMAIN idx : new[x] = IF idx[x] = Pending THEN n ELSE idx[x]
  BY DEF Under
<1> HIDE DEF new
<1>3. \A x \in DOMAIN new : new[x] \in 1..n /\ new[x] \in 0..n /\ new[x] # Pending
  BY <1>0, <1>1, <1>2 DEF Pending
<1>4. Names(new, n) = DOMAIN idx
  BY <1>0, <1>2, <1>3 DEF Names
<1>5. NamedObjects(new, n) = f.objects /\ \A x \in DOMAIN idx : x[1] = "top" => x[2] \in NamedTops(new, n)
  BY <1>1, <1>4 DEF NamedObjects, NamedTops
<1>6. ASSUME NEW v \in NeededTops(n) PROVE \E y \in NamedTops(new, n) : Passes(y, v)
  <2>1. HoldsTrail(f, v) /\ IsValue(v)
    BY <1>0, <1>1, CleanResolves, NeededFacts, TopsAreValues
  <2>2. CASE Position(v) > 0
    <3>1. v \in DOMAIN f.rows
      BY <2>1, <2>2 DEF HoldsTrail
    <3> QED BY <1>1, <1>5, <3>1
  <2>3. CASE ~(Position(v) > 0)
    <3>1. PICK x \in DOMAIN idx : x[1] = "top" /\ Segment(x[2]) = Segment(v)
      BY <1>1, <2>1 DEF HoldsTrail
    <3>2. IsValue(x[2])
      <4>1. \A y \in EveryObject : y[1] # "top"
        BY DEF EveryObject, ObjectsAt, OwnObject, TakenObject
      <4>2. x[2] \in EveryTop
        BY <1>1, <3>1, <4>1 DEF Indexable
      <4> QED BY <4>2, TopsAreValues
    <3>3. Position(v) = 0
      BY <2>1, <2>3, ValueFacts
    <3>4. v = Seed(Segment(v))
      BY <2>1, <3>3, SeedFacts, ValueFacts DEF Cut
    <3>5. Passes(x[2], Seed(Segment(x[2])))
      BY <3>2, SeedFacts
    <3>6. Passes(x[2], v)
      BY <3>1, <3>4, <3>5
    <3> QED BY <1>5, <3>1, <3>6
  <2> QED BY <2>2, <2>3
<1>7. NeededObjects(n) \subseteq NamedObjects(new, n)
  BY <1>0, <1>1, <1>5, CleanResolves
<1>8. Servable(f, new, n)
  BY <1>1, <1>2, <1>3, <1>6, <1>7 DEF Servable
<1>9. ASSUME NEW m \in 0..was PROVE Names(new, m) = Names(idx, m)
  <2>1. \A x \in DOMAIN idx : idx[x] = Pending => new[x] = n /\ ~(n <= m)
    BY <1>0, <1>2
  <2> QED BY <1>2, <1>3, <2>1 DEF Names
<1>10. \A m \in 0..was : NamedObjects(new, m) = NamedObjects(idx, m) /\ NamedTops(new, m) = NamedTops(idx, m)
  BY <1>9 DEF NamedObjects, NamedTops
<1> QED BY <1>8, <1>10 DEF new

\* A read that resolved indexes in the replica's file what it kept, and one that did not asks again or goes on.
LEMMA UseKeeps == ASSUME SoundSupply, KeptSupply, NEW party \in Parties, Use(party) PROVE KeptSupply'
<1> DEFINE r == reading[party]
           source == Sources(party)[r.at]
           at == unresolved[party][source]
           moved == at = 0 \/ r.through > at
           enough == held = 0 \/ Resolves(file[party], held)
           n == r.through
           keeps == enough /\ party = Replica /\ n = held /\ n > served
<1>1. UNCHANGED <<file, mark, copy, plan, faults>> /\ r.state = "using"
  BY DEF Use
<1>2. FaultsCounted' /\ Undamaged' = Undamaged /\ \A s : Withholds(s)' = Withholds(s)
  BY <1>1 DEF KeptSupply, FaultsCounted, Undamaged, Withholds
<1>3. AtSource(party, r, selection)
  <2>1. ReadingSound(party, r, selection)
    BY DEF SoundSupply, ReadsSound
  <2>2. Idle.state = "idle"
    BY DEF Idle
  <2> HIDE DEF r
  <2> QED BY <1>1, <2>1, <2>2 DEF ReadingSound
<1>4. r.at + 1 \in Nat \ {0} /\ r.at \in DOMAIN Sources(party)
  <2>1. r.at \in DOMAIN Sources(party)
    BY <1>3 DEF AtSource
  <2> HIDE DEF r
  <2> QED BY <2>1, SourceNumbers
<1>5. \E next : ReadGood(party, next) /\ reading' = [reading EXCEPT ![party] = next] /\ (enough => next = Idle)
  <2>1. CASE enough
    <3>1. reading' = [reading EXCEPT ![party] = Idle]
      BY <2>1 DEF Use
    <3>2. ReadGood(party, Idle)
      <4>1. Idle.state # "receiving"
        BY DEF Idle
      <4> QED BY <4>1 DEF ReadGood, PartsPass, ReadComing
    <3> QED BY <3>1, <3>2
  <2>2. CASE ~enough /\ ~r.full /\ moved
    <3> DEFINE next == Receiving(party, r.at, 0, TRUE, TRUE)
    <3>1. reading' = [reading EXCEPT ![party] = next]
      BY <2>2 DEF Use
    <3>2. ReadGood(party, next)
      <4>1. Sources(party)[r.at] = Journal => selection > 0
        BY <1>3 DEF AtSource
      <4> HIDE DEF r
      <4>2. \A full, repairing : ReadGood(party, Receiving(party, r.at, 0, full, repairing))
        BY <1>4, <4>1, ReceivingGood
      <4> QED BY <4>2
    <3> HIDE DEF next
    <3> QED BY <2>2, <3>1, <3>2
  <2>3. CASE ~enough /\ ~(~r.full /\ moved)
    <3> DEFINE next == From(party, r.at + 1, TRUE)
    <3>1. reading' = [reading EXCEPT ![party] = next]
      BY <2>3 DEF Use
    <3>2. ReadGood(party, next)
      <4> DEFINE i == r.at + 1
      <4>1. i \in Nat \ {0}
        BY <1>4
      <4> HIDE DEF i
      <4>2. \A repairing : ReadGood(party, From(party, i, repairing))
        BY <4>1, FromGood
      <4> QED BY <4>2 DEF i
    <3> HIDE DEF next
    <3> QED BY <2>3, <3>1, <3>2
  <2> QED BY <2>1, <2>2, <2>3
<1>6. CASE ~keeps
  <2>1. UNCHANGED <<index, served>>
    <3>1. CASE enough /\ party = Replica /\ n = held
      <4>1. KeepSelection(n) /\ ~(n > served)
        BY <1>6, <3>1 DEF Use
      <4> QED BY <4>1 DEF KeepSelection
    <3>2. CASE ~(enough /\ party = Replica /\ n = held)
      BY <3>2 DEF Use
    <3> QED BY <3>1, <3>2
  <2>2. PICK next : ReadGood(party, next) /\ reading' = [reading EXCEPT ![party] = next]
    BY <1>5
  <2> QED BY <1>1, <1>2, <2>1, <2>2, ReadStepKeeps
<1>7. CASE keeps
  <2>1. index' = Under(index, n) /\ served' = n
    <3>1. KeepSelection(n)
      BY <1>7 DEF Use
    <3> QED BY <1>7, <3>1 DEF KeepSelection, Under
  <2>2. reading' = [reading EXCEPT ![party] = Idle] /\ Idle.state # "receiving"
    BY <1>5, <1>7 DEF Idle
  <2>3. party = Replica /\ n \in Checkpoints /\ n > served /\ served \in Nat /\ Resolves(file[Replica], n)
    <3>1. held \in Checkpoints /\ served \in Nat
      BY DEF SoundSupply, SupplyCounts
    <3>2. n = held /\ n > served /\ party = Replica /\ enough
      BY <1>7
    <3>3. held # 0
      <4> HIDE DEF n
      <4> QED BY <3>1, <3>2
    <3> QED BY <3>1, <3>2, <3>3
  <2> HIDE DEF n, keeps
  <2>4. faults.damage = 0 =>
          /\ Servable(file[Replica], index', n)
          /\ \A m \in 0..served : NamedObjects(index', m) = NamedObjects(index, m) /\ NamedTops(index', m) = NamedTops(index, m)
    <3> SUFFICES ASSUME faults.damage = 0
                 PROVE  /\ Servable(file[Replica], Under(index, n), n)
                        /\ \A m \in 0..served : /\ NamedObjects(Under(index, n), m) = NamedObjects(index, m)
                                                /\ NamedTops(Under(index, n), m) = NamedTops(index, m)
      BY <2>1
    <3>1. Servable(file[Replica], index, served)
      BY DEF KeptSupply, FilesClean
    <3> QED BY <2>3, <3>1, ServableIndexes
  <2>5. FilesClean'
    BY <1>1, <2>1, <2>4 DEF KeptSupply, FilesClean
  <2>6. ASSUME faults.damage = 0, NEW s, NEW m, Within(s, served, m)
        PROVE  /\ Within(s, served', m)
               /\ SuppliedObjects(s, index', m) = SuppliedObjects(s, index, m)
               /\ SuppliedTops(s, index', m) = SuppliedTops(s, index, m)
    <3>1. CASE s = Journal
      BY <2>6, <3>1 DEF Within, SuppliedObjects, SuppliedTops
    <3>2. CASE s # Journal
      <4>1. m \in 0..served /\ n \in Nat
        BY <2>3, <2>6, <3>2, SupplyAssumption DEF Within, Checkpoints
      <4>2. m \in 0..n
        BY <2>3, <4>1
      <4> QED BY <2>1, <2>4, <2>6, <3>2, <4>1, <4>2 DEF Within, SuppliedObjects, SuppliedTops
    <3> QED BY <3>1, <3>2
  <2>7. MarksKept'
    <3> SUFFICES ASSUME Undamaged, NEW x \in Parties, NEW s \in ToSet(Sources(x))
                 PROVE  MarkKept(s, file[x], index', served', mark[x][s])
      BY <1>1, <1>2 DEF MarksKept, MarkKept
    <3>1. MarkKept(s, file[x], index, served, mark[x][s]) /\ faults.damage = 0
      BY DEF KeptSupply, MarksKept, Undamaged
    <3> QED BY <2>6, <3>1 DEF MarkKept
  <2>8. ASSUME NEW x \in Parties PROVE ReadGood(x, reading[x])'
    <3>1. DOMAIN reading = Parties
      BY DEF SoundSupply, ReadsSound
    <3>2. CASE x = party
      <4>1. reading'[x] = Idle
        BY <2>2, <3>1, <3>2
      <4> QED BY <2>2, <4>1 DEF ReadGood, PartsPass, ReadComing
    <3>3. CASE x # party
      <4>1. reading'[x] = reading[x] /\ ReadGood(x, reading[x])
        BY <2>2, <3>1, <3>3 DEF KeptSupply
      <4>2. ASSUME Undamaged PROVE ReadComing(x, reading[x], file[x], index', served')
        <5>1. faults.damage = 0
          BY <4>2 DEF Undamaged
        <5>2. ReadComing(x, reading[x], file[x], index, served)
          BY <4>1, <4>2 DEF ReadGood
        <5> QED BY <2>6, <5>1, <5>2 DEF ReadComing
      <4> QED BY <1>1, <1>2, <4>1, <4>2 DEF ReadGood, ReadComing
    <3> QED BY <3>2, <3>3
  <2> QED BY <1>2, <2>5, <2>7, <2>8 DEF KeptSupply
<1> QED BY <1>6, <1>7

\* Storage that damages a file ends what is said of undamaged ones; a copy put back is a file that was sound.
LEMMA FaultKeeps ==
  ASSUME SoundSupply, KeptSupply, (\E party \in Parties : Damage(party)) \/ CopyFile \/ Restore
  PROVE  KeptSupply'
<1>1. CASE \E party \in Parties : Damage(party)
  <2>1. faults' = [faults EXCEPT !.damage = @ + 1]
    BY <1>1 DEF Damage
  <2>2. FaultsCounted' /\ faults'.damage # 0
    BY <2>1 DEF KeptSupply, FaultsCounted
  <2> QED BY <2>2 DEF KeptSupply, FilesClean, MarksKept, ReadGood, Undamaged
<1>2. CASE CopyFile
  <2>1. /\ UNCHANGED <<file, mark, index, served, reading, plan, faults>>
        /\ copy' = [file |-> file[Replica], mark |-> mark[Replica], index |-> index, served |-> served]
    BY <1>2 DEF CopyFile, ReplicaFile
  <2>2. Undamaged' = Undamaged /\ (\A s : Withholds(s)' = Withholds(s)) /\ FaultsCounted'
    BY <2>1 DEF KeptSupply, FaultsCounted, Undamaged, Withholds
  <2>3. FilesClean'
    BY <2>1 DEF KeptSupply, FilesClean
  <2>4. MarksKept' /\ \A x \in Parties : ReadGood(x, reading[x])'
    BY <2>1, <2>2 DEF KeptSupply, MarksKept, MarkKept, ReadGood, ReadComing
  <2> QED BY <2>2, <2>3, <2>4 DEF KeptSupply
<1>3. CASE Restore
  <2>1. /\ UNCHANGED <<reading, copy, plan>>
        /\ file' = [file EXCEPT ![Replica] = copy.file]
        /\ index' = copy.index /\ served' = copy.served
        /\ faults' = [faults EXCEPT !.restores = @ + 1]
    BY <1>3 DEF Restore
  <2>2. FaultsCounted' /\ faults'.damage = faults.damage /\ faults'.restores # 0
    BY <2>1 DEF KeptSupply, FaultsCounted
  <2>3. FilesClean'
    <3> SUFFICES ASSUME faults.damage = 0
                 PROVE  /\ \A party \in Parties : CleanFile(file'[party])
                        /\ Servable(file'[Replica], index', served') /\ Servable(copy'.file, copy'.index, copy'.served)
      BY <2>2 DEF FilesClean
    <3>1. Servable(copy.file, copy.index, copy.served) /\ \A party \in Parties : CleanFile(file[party])
      BY DEF KeptSupply, FilesClean
    <3>2. CleanFile(copy.file)
      BY <3>1 DEF Servable
    <3>3. DOMAIN file = Parties /\ Replica \in Parties
      BY DEF SoundSupply, FilesGenuine, Parties
    <3> QED BY <2>1, <3>1, <3>2, <3>3
  <2>4. ~Undamaged'
    BY <2>2 DEF Undamaged
  <2>5. \A x \in Parties : ReadGood(x, reading[x])'
    BY <2>1, <2>2, <2>4 DEF KeptSupply, ReadGood
  <2> QED BY <2>2, <2>3, <2>4, <2>5 DEF KeptSupply, MarksKept
<1> QED BY <1>1, <1>2, <1>3

\* Nothing is kept, promised or indexed at first.
LEMMA NothingIsKept == Init => KeptSupply
<1> SUFFICES ASSUME Init PROVE KeptSupply
  OBVIOUS
<1>1. FaultsCounted
  BY DEF Init, FaultsCounted
<1>2. /\ \A party \in Parties : file[party] = EmptyFile /\ reading[party] = Idle
      /\ \A party \in Parties : \A source \in ToSet(Sources(party)) : mark[party][source] = 0
      /\ index = NothingIndexed /\ served = 0 /\ Replica \in Parties
      /\ copy.file = EmptyFile /\ copy.index = NothingIndexed /\ copy.served = 0
  <2>1. copy = [file |-> file[Replica], mark |-> mark[Replica], index |-> index, served |-> served] /\ Replica \in Parties
    BY DEF Init, ReplicaFile, Parties
  <2> QED BY <2>1 DEF Init
<1>3. Servable(EmptyFile, NothingIndexed, 0)
  <2>1. DOMAIN NothingIndexed = {}
    BY DEF NothingIndexed
  <2>2. EmptyFile.objects = {} /\ EmptyFile.heads = {} /\ DOMAIN EmptyFile.rows = {}
    BY DEF EmptyFile, NoRows
  <2>3. 0 \in Checkpoints
    BY SupplyAssumption DEF Checkpoints
  <2> QED BY <2>1, <2>2, <2>3, EmptyIsClean DEF Servable
<1>4. FilesClean
  BY <1>2, <1>3, EmptyIsClean DEF FilesClean
<1>5. ASSUME NEW source PROVE MarkKept(source, EmptyFile, NothingIndexed, 0, 0)
  <2>1. SuppliedObjects(source, NothingIndexed, 0) = {} /\ SuppliedTops(source, NothingIndexed, 0) = {}
    <3>1. Names(NothingIndexed, 0) = {}
      BY DEF Names, NothingIndexed
    <3>2. 1..0 = {}
      OBVIOUS
    <3>3. NamedObjects(NothingIndexed, 0) = {} /\ NamedTops(NothingIndexed, 0) = {}
      BY <3>1 DEF NamedObjects, NamedTops
    <3>4. ObjectsThrough(0) = {} /\ TopsThrough(0) = {}
      BY <3>2 DEF ObjectsThrough, TopsThrough
    <3> QED BY <3>3, <3>4 DEF SuppliedObjects, SuppliedTops
  <2>2. Within(source, 0, 0)
    BY SupplyAssumption DEF Within, Checkpoints
  <2> QED BY <2>1, <2>2 DEF MarkKept, Comes
<1>6. MarksKept
  BY <1>2, <1>5 DEF MarksKept
<1>7. \A party \in Parties : ReadGood(party, reading[party])
  <2>1. Idle.state # "receiving"
    BY DEF Idle
  <2> QED BY <1>2, <2>1 DEF ReadGood, PartsPass, ReadComing
<1> QED BY <1>1, <1>4, <1>6, <1>7 DEF KeptSupply

\* The inductive invariant of what a mark promises and a replica serves: while no storage is damaged every file's rows
\* are clean and the replica's index names just what its file keeps; while no file is put back either, what a source
\* that leaves nothing out supplied through a party's mark is held, and what an answer would move it to is held or
\* still to come.
THEOREM SupplyKept == Spec => []KeptSupply
<1>1. SoundSupply /\ KeptSupply /\ [Next]_vars => KeptSupply'
  <2> SUFFICES ASSUME SoundSupply, KeptSupply, [Next]_vars PROVE KeptSupply'
    OBVIOUS
  <2>1. CASE Sign \/ Land \/ Lapse \/ PublishAgain
    <3>1. UNCHANGED <<file, mark, index, served, reading, copy, plan, faults>>
      BY <2>1 DEF Sign, Land, Lapse, PublishAgain
    <3> QED BY <3>1, ServingStepKeeps
  <2>2. CASE \E party \in Parties : Read(party)
    BY <2>2, BeginKeeps, TakeKeeps, SyncedKeeps, UseKeeps DEF Read
  <2>3. CASE \E party \in Parties : BreakOff(party) \/ Crash(party)
    BY <2>3, BreakKeeps
  <2>4. CASE (\E party \in Parties : Damage(party)) \/ CopyFile \/ Restore
    BY <2>4, FaultKeeps
  <2>5. CASE UNCHANGED vars
    BY <2>5, ServingStepKeeps DEF vars
  <2> QED BY <2>1, <2>2, <2>3, <2>4, <2>5 DEF Next
<1> QED BY <1>1, NothingIsKept, SupplySound, PTL DEF Spec

\* A file that a mark is kept in holds what it promises, as a read finds it.
LEMMA MarkHolds ==
  ASSUME NEW f, CleanFile(f), NEW objects, NEW tops, \A v \in tops : IsValue(v), Comes(f, <<>>, objects, tops)
  PROVE  Holds(f, objects, tops)
<1>1. DOMAIN <<>> = {}
  OBVIOUS
<1>2. objects \subseteq f.objects /\ \A v \in tops : HoldsTrail(f, v)
  BY <1>1 DEF Comes
<1>3. ASSUME NEW v \in tops PROVE HasTrail(f, v) /\ Walk(f, v, 0, Broken).whole
  <2>1. IsValue(v) /\ HoldsTrail(f, v) /\ 0 \in 0..Position(v)
    BY <1>2, ValueFacts
  <2> QED BY <2>1, CleanHas, CleanWalk
<1> QED BY <1>2, <1>3 DEF Holds

\* A mark is a promise about every later answer, for any checkpoints and trails, any quota, and any broken streams and
\* stopped parties: what a source that leaves nothing out supplied before a party's mark of it the party's file holds
\* and reads whole, through lapsed selections, retries, and whatever the replica kept between two selections.
THEOREM MarksAreKept == Spec => []MarksHold
<1>1. SoundSupply /\ KeptSupply => MarksHold
  <2> SUFFICES ASSUME SoundSupply, KeptSupply, Undamaged
               PROVE  /\ ~Withholds(Journal) => \A party \in Parties :
                           Holds(file[party], ObjectsThrough(mark[party][Journal]), TopsThrough(mark[party][Journal]))
                      /\ ~Withholds(Replica) =>
                           Holds(file[Reader], IndexedObjects(0, mark[Reader][Replica]), IndexedTops(0, mark[Reader][Replica]))
    BY DEF MarksHold, ObjectsThrough, TopsThrough
  <2>1. ASSUME NEW party \in Parties, NEW source \in ToSet(Sources(party)), ~Withholds(source)
        PROVE  LET m == mark[party][source]
               IN Holds(file[party], SuppliedObjects(source, index, m), SuppliedTops(source, index, m))
    <3>1. MarkKept(source, file[party], index, served, mark[party][source]) /\ CleanFile(file[party])
      BY DEF KeptSupply, MarksKept, FilesClean, Undamaged
    <3>2. \A v \in SuppliedTops(source, index, mark[party][source]) : IsValue(v)
      BY <3>1, SuppliedAreValues DEF MarkKept
    <3> QED BY <2>1, <3>1, <3>2, MarkHolds DEF MarkKept
  <2>2. /\ \A party \in Parties : Journal \in ToSet(Sources(party))
        /\ Reader \in Parties /\ Replica \in ToSet(Sources(Reader)) /\ Replica # Journal
    <3>1. ToSet(<<Journal>>) = {Journal} /\ ToSet(<<Journal, Replica>>) = {Journal, Replica}
      BY DEF ToSet
    <3>2. Reader # Replica /\ Replica # Journal /\ Reader \in Parties
      BY DEF Reader, Replica, Journal, Parties
    <3> QED BY <3>1, <3>2 DEF Sources
  <2>3. ASSUME ~Withholds(Journal), NEW party \in Parties
        PROVE  Holds(file[party], ObjectsThrough(mark[party][Journal]), TopsThrough(mark[party][Journal]))
    BY <2>1, <2>2, <2>3 DEF SuppliedObjects, SuppliedTops
  <2>4. ASSUME ~Withholds(Replica)
        PROVE  Holds(file[Reader], IndexedObjects(0, mark[Reader][Replica]), IndexedTops(0, mark[Reader][Replica]))
    <3> DEFINE m == mark[Reader][Replica]
    <3>1. Holds(file[Reader], NamedObjects(index, m), NamedTops(index, m))
      BY <2>1, <2>2, <2>4 DEF SuppliedObjects, SuppliedTops
    <3>2. IndexedObjects(0, m) = NamedObjects(index, m) /\ IndexedTops(0, m) = NamedTops(index, m)
      BY NamesFacts DEF SoundSupply
    <3> QED BY <3>1, <3>2
  <2> QED BY <2>3, <2>4
<1> QED BY <1>1, SupplyKept, SupplySound, PTL

\* A replica serves on only what is enough, for any checkpoints and trails, any sources that leave parts out, and any
\* restored copies: taking all it serves, a stranger who holds nothing can read the selection it serves.
THEOREM ReplicaServesEnough == Spec => []ReplicaSuffices
<1>1. KeptSupply => ReplicaSuffices
  <2>1. KeptSupply /\ faults.damage = 0 => Servable(file[Replica], index, served)
    BY DEF KeptSupply, FilesClean
  <2>2. faults.damage # 0 => ReplicaSuffices
    BY DEF ReplicaSuffices
  <2> QED BY <2>1, <2>2, ServableSuffices
<1> QED BY <1>1, SupplyKept, PTL
=============================================================================
