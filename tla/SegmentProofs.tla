--------------------------- MODULE SegmentProofs ----------------------------
(***************************************************************************)
(* First facts about the operators of SegmentRules: what a set of notes is *)
(* worth, however it is summed, and that a record whose proof holds,       *)
(* applied to a state, moves the worth of its unspent notes as it moves    *)
(* its totals.  Then proofs about SegmentState, for every set of notes,    *)
(* every lag and every set of indices: one lemma states what a judged      *)
(* record gives, one lemma per part of the invariant says a record keeps   *)
(* it, and the theorems combine them with Advance, which only ends         *)
(* demands' lives.                                                         *)
(***************************************************************************)
EXTENDS SegmentState, FiniteSetTheorems, WellFoundedInduction, TLAPS

\* A property of the counts 0 to n that 0 has and each passes to the next.
LEMMA Counting ==
  ASSUME NEW n \in Nat, NEW S, 0 \in S, \A k \in 0..n - 1 : k \in S => k + 1 \in S
  PROVE  0..n \subseteq S
<1> DEFINE Bad == {k \in 0..n : k \notin S}
<1>1. SUFFICES ASSUME Bad # {} PROVE FALSE
  OBVIOUS
<1>2. Bad \subseteq Nat
  OBVIOUS
<1>3. PICK x \in Bad : \A y \in Bad : ~(y < x)
  <2> HIDE DEF Bad
  <2>1. PICK x \in Bad : \A y \in Bad : ~(<<y, x>> \in OpToRel(<, Nat))
    BY <1>1, <1>2, WFMin, NatLessThanWellFounded
  <2> QED BY <1>2, <2>1 DEF OpToRel
<1>4. x \in 0..n /\ x \notin S
  OBVIOUS
<1>5. x - 1 \in 0..n - 1 /\ (x - 1) + 1 = x /\ x - 1 < x
  BY <1>4
<1>6. x - 1 \in S
  BY <1>3, <1>5
<1> QED BY <1>4, <1>5, <1>6

-----------------------------------------------------------------------------
\* The note a sum over a set takes first, and the sum that takes it.
First(s) == CHOOSE x \in s : TRUE

Summed(S, g) ==
  g = [s \in SUBSET S |-> IF s = {} THEN 0 ELSE Value[First(s)] + g[s \ {First(s)}]]

\* Worth's sum is such a sum (MapThenSumSet).
LEMMA WorthIsSummed ==
  ASSUME NEW S
  PROVE  Worth(S) = (CHOOSE g : Summed(S, g))[S]
BY DEF Worth, MapThenSumSet, MapThenFoldSet, Summed, First

\* A set of notes is finite, and one less without any of its members.
LEMMA NotesCounted ==
  ASSUME NEW S \in SUBSET Notes
  PROVE  /\ IsFiniteSet(S) /\ Cardinality(S) \in Nat
         /\ Cardinality(S) = 0 <=> S = {}
         /\ \A x \in S : Cardinality(S \ {x}) = Cardinality(S) - 1
<1>1. IsFiniteSet(S)
  BY NotesAssumption, FS_Subset
<1> QED BY <1>1, FS_CardinalityType, FS_EmptySet, FS_RemoveElement

\* A set that is not empty has a first note.
LEMMA FirstIn == ASSUME NEW s, s # {} PROVE First(s) \in s
BY DEF First

\* The sum over the subsets of a set of notes exists and is a number.
LEMMA SummedExists ==
  ASSUME NEW S \in SUBSET Notes
  PROVE  \E g \in [SUBSET S -> Nat] : Summed(S, g)
<1> DEFINE n == Cardinality(S)
           Upto(k, g) == \A s \in SUBSET S : Cardinality(s) <= k =>
                           g[s] = IF s = {} THEN 0 ELSE Value[First(s)] + g[s \ {First(s)}]
           Good(k) == \E g \in [SUBSET S -> Nat] : Upto(k, g)
           Ks == {k \in 0..n : Good(k)}
<1>0. n \in Nat
  BY NotesCounted
<1>1. 0 \in Ks
  <2> DEFINE g == [s \in SUBSET S |-> 0]
  <2>1. g \in [SUBSET S -> Nat]
    OBVIOUS
  <2>2. \A s \in SUBSET S : Cardinality(s) <= 0 => s = {}
    <3> SUFFICES ASSUME NEW s \in SUBSET S, Cardinality(s) <= 0 PROVE s = {}
      OBVIOUS
    <3> QED BY NotesCounted
  <2>3. Upto(0, g)
    BY <2>2
  <2> HIDE DEF g, Upto, n
  <2> QED BY <1>0, <2>1, <2>3
<1>2. \A k \in 0..n - 1 : k \in Ks => k + 1 \in Ks
  <2> SUFFICES ASSUME NEW k \in 0..n - 1, Good(k) PROVE Good(k + 1)
    <3> HIDE DEF Good, n
    <3> QED BY <1>0
  <2>1. PICK g \in [SUBSET S -> Nat] : Upto(k, g)
    OBVIOUS
  <2> DEFINE h == [s \in SUBSET S |-> IF s = {} THEN 0 ELSE Value[First(s)] + g[s \ {First(s)}]]
  <2>2. h \in [SUBSET S -> Nat]
    <3> SUFFICES ASSUME NEW s \in SUBSET S, s # {} PROVE Value[First(s)] + g[s \ {First(s)}] \in Nat
      OBVIOUS
    <3>1. First(s) \in s
      BY FirstIn
    <3> QED BY <3>1, NotesAssumption
  <2>3. Upto(k + 1, h)
    <3> SUFFICES ASSUME NEW s \in SUBSET S, Cardinality(s) <= k + 1, s # {}
                 PROVE  h[s \ {First(s)}] = g[s \ {First(s)}]
      OBVIOUS
    <3> DEFINE r == s \ {First(s)}
    <3>1. First(s) \in s
      BY FirstIn
    <3>2. Cardinality(s) \in Nat /\ Cardinality(r) = Cardinality(s) - 1
      BY <3>1, NotesCounted
    <3>3. r \in SUBSET S /\ Cardinality(r) <= k
      BY <1>0, <3>2
    <3> HIDE DEF r
    <3>4. g[r] = IF r = {} THEN 0 ELSE Value[First(r)] + g[r \ {First(r)}]
      BY <2>1, <3>3
    <3>5. h[r] = g[r]
      BY <3>3, <3>4
    <3> QED BY <3>5 DEF r
  <2> HIDE DEF h, Upto
  <2> QED BY <2>2, <2>3
<1>3. 0..n \subseteq Ks
  <2> HIDE DEF Ks, n
  <2> QED BY <1>0, <1>1, <1>2, Counting
<1>4. Good(n)
  <2> HIDE DEF Good, n
  <2> QED BY <1>0, <1>3
<1>5. PICK g \in [SUBSET S -> Nat] : Upto(n, g)
  BY <1>4
<1>6. \A s \in SUBSET S : Cardinality(s) <= n
  BY NotesAssumption, FS_Subset, NotesCounted
<1>7. Summed(S, g)
  BY <1>5, <1>6 DEF Summed
<1> QED BY <1>7

\* A sum over the subsets of a set is the same over those of a larger one.
LEMMA SummedOnce ==
  ASSUME NEW S \in SUBSET Notes, NEW T \in SUBSET S,
         NEW g, Summed(S, g), NEW h, Summed(T, h)
  PROVE  h[T] = g[T]
<1> DEFINE n == Cardinality(T)
           Ks == {k \in 0..n : \A s \in SUBSET T : Cardinality(s) <= k => h[s] = g[s]}
<1>0. n \in Nat /\ T \in SUBSET Notes
  BY NotesCounted
<1>1. 0 \in Ks
  <2> SUFFICES ASSUME NEW s \in SUBSET T, Cardinality(s) <= 0 PROVE h[s] = g[s]
    BY <1>0
  <2>1. s = {}
    BY NotesCounted
  <2> QED BY <2>1 DEF Summed
<1>2. \A k \in 0..n - 1 : k \in Ks => k + 1 \in Ks
  <2> SUFFICES ASSUME NEW k \in 0..n - 1,
                      \A s \in SUBSET T : Cardinality(s) <= k => h[s] = g[s],
                      NEW s \in SUBSET T, Cardinality(s) <= k + 1
               PROVE  h[s] = g[s]
    BY <1>0
  <2>1. CASE s = {}
    BY <2>1 DEF Summed
  <2>2. CASE s # {}
    <3>1. First(s) \in s
      BY <2>2, FirstIn
    <3>2. Cardinality(s) \in Nat /\ Cardinality(s \ {First(s)}) = Cardinality(s) - 1
      BY <3>1, NotesCounted
    <3>3. h[s \ {First(s)}] = g[s \ {First(s)}]
      BY <1>0, <3>2
    <3>4. /\ h[s] = Value[First(s)] + h[s \ {First(s)}]
          /\ g[s] = Value[First(s)] + g[s \ {First(s)}]
      BY <2>2 DEF Summed
    <3> QED BY <3>3, <3>4
  <2> QED BY <2>1, <2>2
<1>3. 0..n \subseteq Ks
  <2> HIDE DEF Ks, n
  <2> QED BY <1>0, <1>1, <1>2, Counting
<1>4. n \in Ks
  BY <1>0, <1>3
<1> QED BY <1>4

\* A worth is a number: nothing's is 0, and some notes' is their first one's
\* with that of the others.
LEMMA WorthStep ==
  ASSUME NEW S \in SUBSET Notes
  PROVE  /\ Worth(S) \in Nat
         /\ S = {} => Worth(S) = 0
         /\ S # {} => Worth(S) = Value[First(S)] + Worth(S \ {First(S)})
<1>1. PICK g \in [SUBSET S -> Nat] : Summed(S, g)
  BY SummedExists
<1>2. ASSUME NEW T \in SUBSET S PROVE Worth(T) = g[T]
  <2>1. T \in SUBSET Notes
    OBVIOUS
  <2>2. \E h : Summed(T, h)
    BY <2>1, SummedExists
  <2> DEFINE h == CHOOSE h : Summed(T, h)
  <2>3. Summed(T, h)
    BY <2>2
  <2>4. Worth(T) = h[T]
    BY WorthIsSummed
  <2> HIDE DEF h
  <2> QED BY <1>1, <2>3, <2>4, SummedOnce
<1>3. g[S] = IF S = {} THEN 0 ELSE Value[First(S)] + g[S \ {First(S)}]
  BY <1>1 DEF Summed
<1>4. S \in SUBSET S /\ S \ {First(S)} \in SUBSET S
  OBVIOUS
<1>5. Worth(S) = g[S] /\ Worth(S \ {First(S)}) = g[S \ {First(S)}]
  BY <1>2, <1>4
<1> QED BY <1>1, <1>3, <1>4, <1>5

\* Whichever note is taken first, the sum is the same.
LEMMA WorthWithout ==
  ASSUME NEW S \in SUBSET Notes, NEW x \in S
  PROVE  Worth(S) = Value[x] + Worth(S \ {x})
<1> DEFINE n == Cardinality(S)
           Fine(k) == \A T \in SUBSET Notes : Cardinality(T) <= k =>
                        \A y \in T : Worth(T) = Value[y] + Worth(T \ {y})
           Ks == {k \in 0..n : Fine(k)}
<1>0. n \in Nat
  BY NotesCounted
<1>1. 0 \in Ks
  <2>1. \A T \in SUBSET Notes : Cardinality(T) <= 0 => T = {}
    <3> SUFFICES ASSUME NEW T \in SUBSET Notes, Cardinality(T) <= 0 PROVE T = {}
      OBVIOUS
    <3> QED BY NotesCounted
  <2> QED BY <1>0, <2>1
<1>2. \A k \in 0..n - 1 : k \in Ks => k + 1 \in Ks
  <2> SUFFICES ASSUME NEW k \in 0..n - 1, Fine(k) PROVE Fine(k + 1)
    <3> HIDE DEF Fine, n
    <3> QED BY <1>0
  <2> SUFFICES ASSUME NEW T \in SUBSET Notes, Cardinality(T) <= k + 1, NEW y \in T
               PROVE  Worth(T) = Value[y] + Worth(T \ {y})
    OBVIOUS
  <2> DEFINE c == First(T)
  <2>1. c \in T /\ Worth(T) = Value[c] + Worth(T \ {c})
    BY FirstIn, WorthStep
  <2>2. CASE y = c
    BY <2>1, <2>2
  <2>3. CASE y # c
    <3>1. Cardinality(T) \in Nat /\ Cardinality(T \ {c}) = Cardinality(T) - 1
          /\ Cardinality(T \ {y}) = Cardinality(T) - 1
      BY <2>1, NotesCounted
    <3> HIDE DEF c
    <3>2. Cardinality(T \ {c}) <= k /\ Cardinality(T \ {y}) <= k
      BY <3>1
    <3>3. y \in T \ {c} /\ c \in T \ {y} /\ T \ {c} \in SUBSET Notes /\ T \ {y} \in SUBSET Notes
      BY <2>1, <2>3
    <3>4. /\ Worth(T \ {c}) = Value[y] + Worth((T \ {c}) \ {y})
          /\ Worth(T \ {y}) = Value[c] + Worth((T \ {y}) \ {c})
      BY <3>2, <3>3
    <3>5. (T \ {c}) \ {y} = (T \ {y}) \ {c} /\ (T \ {c}) \ {y} \in SUBSET Notes
      OBVIOUS
    <3>6. Value[y] \in Nat /\ Value[c] \in Nat /\ Worth((T \ {c}) \ {y}) \in Nat
      BY <2>1, <3>5, WorthStep, NotesAssumption
    <3> DEFINE a == Worth(T \ {c})
               b == Worth(T \ {y})
               r == Worth((T \ {c}) \ {y})
    <3>7. Worth(T) = Value[c] + a /\ a = Value[y] + r /\ b = Value[c] + r /\ r \in Nat
      BY <2>1, <3>4, <3>5, <3>6
    <3>8. b = Worth(T \ {y})
      OBVIOUS
    <3> HIDE DEF a, b, r
    <3>9. Worth(T) = Value[y] + b
      BY <3>6, <3>7
    <3> QED BY <3>8, <3>9, Zenon
  <2> QED BY <2>2, <2>3
<1>3. 0..n \subseteq Ks
  <2> HIDE DEF Ks, n
  <2> QED BY <1>0, <1>1, <1>2, Counting
<1>4. Fine(n)
  BY <1>0, <1>3
<1>5. Cardinality(S) <= n
  BY <1>0
<1> HIDE DEF n
<1> QED BY <1>4, <1>5

\* Notes of two sets that share none are worth what each set is.
LEMMA WorthOfBoth ==
  ASSUME NEW A \in SUBSET Notes, NEW B \in SUBSET Notes, A \cap B = {}
  PROVE  Worth(A \cup B) = Worth(A) + Worth(B)
<1> DEFINE n == Cardinality(B)
           Fine(k) == \A T \in SUBSET Notes : A \cap T = {} /\ Cardinality(T) <= k =>
                        Worth(A \cup T) = Worth(A) + Worth(T)
           Ks == {k \in 0..n : Fine(k)}
<1>0. n \in Nat
  BY NotesCounted
<1>1. 0 \in Ks
  <2> SUFFICES ASSUME NEW T \in SUBSET Notes, Cardinality(T) <= 0
               PROVE  Worth(A \cup T) = Worth(A) + Worth(T)
    BY <1>0
  <2>1. T = {}
    BY NotesCounted
  <2>2. A \cup T = A /\ Worth(T) = 0 /\ Worth(A) \in Nat
    BY <2>1, WorthStep
  <2>3. Worth(A \cup T) = Worth(A)
    BY <2>2
  <2> QED BY <2>2, <2>3
<1>2. \A k \in 0..n - 1 : k \in Ks => k + 1 \in Ks
  <2> SUFFICES ASSUME NEW k \in 0..n - 1, Fine(k) PROVE Fine(k + 1)
    <3> HIDE DEF Fine, n
    <3> QED BY <1>0
  <2> SUFFICES ASSUME NEW T \in SUBSET Notes, A \cap T = {}, Cardinality(T) <= k + 1
               PROVE  Worth(A \cup T) = Worth(A) + Worth(T)
    OBVIOUS
  <2>1. CASE T = {}
    <3>1. A \cup T = A /\ Worth(T) = 0 /\ Worth(A) \in Nat
      BY <2>1, WorthStep
    <3>2. Worth(A \cup T) = Worth(A)
      BY <3>1
    <3> QED BY <3>1, <3>2
  <2>2. CASE T # {}
    <3>1. PICK x \in T : TRUE
      BY <2>2
    <3> DEFINE R == T \ {x}
    <3>2. Cardinality(T) \in Nat /\ Cardinality(R) = Cardinality(T) - 1
      BY NotesCounted
    <3>3. R \in SUBSET Notes /\ A \cap R = {} /\ A \cup T \in SUBSET Notes
          /\ (A \cup T) \ {x} = A \cup R /\ x \in A \cup T
      OBVIOUS
    <3>4. Worth(A \cup T) = Value[x] + Worth((A \cup T) \ {x}) /\ Worth(T) = Value[x] + Worth(R)
      BY <3>3, WorthWithout
    <3> HIDE DEF R
    <3>5. Cardinality(R) <= k
      BY <3>2
    <3>6. Worth(A \cup R) = Worth(A) + Worth(R)
      BY <3>3, <3>5
    <3>7. Value[x] \in Nat /\ Worth(A) \in Nat /\ Worth(R) \in Nat
      BY <3>3, WorthStep, NotesAssumption
    <3>8. Worth((A \cup T) \ {x}) = Worth(A \cup R)
      BY <3>3
    <3> DEFINE both == Worth(A \cup T)
    <3>9. both = Value[x] + Worth(A \cup R)
      BY <3>4, <3>8
    <3> HIDE DEF both
    <3>10. both = Worth(A) + Worth(T)
      BY <3>4, <3>6, <3>7, <3>9
    <3> QED BY <3>10 DEF both
  <2> QED BY <2>1, <2>2
<1>3. 0..n \subseteq Ks
  <2> HIDE DEF Ks, n
  <2> QED BY <1>0, <1>1, <1>2, Counting
<1>4. Fine(n)
  BY <1>0, <1>3
<1>5. Cardinality(B) <= n
  BY <1>0
<1> HIDE DEF n
<1> QED BY <1>4, <1>5

-----------------------------------------------------------------------------
\* A state in which nothing was made or lost: what is unspent is worth what was
\* issued and not burned, and only notes that exist were spent.
Conserves(x) ==
  /\ x.spent \subseteq x.outputs
  /\ Worth(x.outputs \ x.spent) = x.issued - x.burned

\* A record's effects balance: its proof holds, what it spends exists and is
\* unspent, what it makes is new, and a demand or a withdrawal makes nothing.
Balances(s, x) ==
  /\ Proved(s) /\ s.ins \subseteq x.outputs /\ CheckUniqueEffects(s, x)
  /\ s.kind \in {Present, Withdraw} => s.outs = {}

\* Such a record, applied, makes and loses no value (applyJudged).
LEMMA ApplyConserves ==
  ASSUME NEW s, s.ins \in SUBSET Notes, s.outs \in SUBSET Notes, s.quantity \in Nat,
         s.kind \in Issue..Settle,
         NEW x, x.outputs \in SUBSET Notes, x.issued \in Int, x.burned \in Int,
         Conserves(x), Balances(s, x)
  PROVE  Conserves(Apply(s, x))
<1> DEFINE y == Apply(s, x)
           N == Nullifiers(s)
           u == x.outputs \ x.spent
           v == y.outputs \ y.spent
           q == s.quantity
<1>1. /\ y.outputs = x.outputs \cup s.outs /\ y.spent = x.spent \cup N
      /\ y.issued = x.issued + (IF s.kind = Issue THEN q ELSE 0)
      /\ y.burned = x.burned + (IF s.kind = Burn THEN q ELSE 0)
  BY DEF Apply
<1>2. N \subseteq s.ins /\ N \cap x.spent = {} /\ s.outs \cap x.outputs = {} /\ N \subseteq x.outputs
  BY DEF Balances, CheckUniqueEffects, Nullifiers
<1>3. /\ y.spent \subseteq y.outputs
      /\ N \subseteq u /\ v = (u \ N) \cup s.outs /\ (u \ N) \cap s.outs = {}
      /\ u = (u \ N) \cup N /\ (u \ N) \cap N = {}
  BY <1>1, <1>2 DEF Conserves
<1>4. u \in SUBSET Notes /\ u \ N \in SUBSET Notes /\ N \in SUBSET Notes
  BY <1>2
<1>5. Worth(u) = Worth(u \ N) + Worth(N) /\ Worth(v) = Worth(u \ N) + Worth(s.outs)
  <2> HIDE DEF u, v, N, y
  <2> QED BY <1>3, <1>4, WorthOfBoth
<1>6. Worth(u \ N) \in Nat /\ Worth(N) \in Nat /\ Worth(s.outs) \in Nat /\ Worth(s.ins) \in Nat
  <2> HIDE DEF u, N
  <2> QED BY <1>4, WorthStep
<1>7. Worth(u) = x.issued - x.burned
  BY DEF Conserves
<1>8. Worth(s.outs) + (IF s.kind = Burn THEN q ELSE 0)
        = Worth(N) + (IF s.kind = Issue THEN q ELSE 0)
  <2>0. Worth({}) = 0
    BY WorthStep
  <2>1. CASE s.kind \in {Spend, Burn, Settle}
    <3>1. N = s.ins
      BY <2>1 DEF Nullifiers
    <3> HIDE DEF N
    <3> QED BY <1>6, <2>1, <3>1 DEF Balances, Proved, Issue, Spend, Burn, Present, Withdraw, Settle
  <2>2. CASE s.kind \in {Issue, Present, Withdraw}
    <3>1. N = {}
      BY <2>2 DEF Nullifiers, Issue, Spend, Burn, Present, Withdraw, Settle
    <3> HIDE DEF N
    <3> QED BY <1>6, <2>0, <2>2, <3>1 DEF Balances, Proved, Issue, Spend, Burn, Present, Withdraw, Settle
  <2> QED BY <2>1, <2>2 DEF Issue, Spend, Burn, Present, Withdraw, Settle
<1>9. Worth(v) = y.issued - y.burned
  <2> HIDE DEF u, v, N, y
  <2> QED BY <1>1, <1>5, <1>6, <1>7, <1>8
<1> QED BY <1>3, <1>9 DEF Conserves

-----------------------------------------------------------------------------
\* The inductive invariant: exclusivity of locks needs the locked notes'
\* being unspent, which needs spent notes to have existed.
SafeState == TypeOK /\ LockExclusive /\ LockedUnspent /\ SpentExisted

\* A statement whose shape is the one its kind's constructor gives.
Formed(s) ==
  /\ s \in Statements
  /\ s.kind = Present => s \in StandingDemands
  /\ s.kind \notin {Withdraw, Settle} => s.ended = {}
  /\ s.kind = Settle => s.ended # {}
  /\ s.kind = Withdraw => s.outs = {}

-----------------------------------------------------------------------------
\* Whatever the action, the record it judges is a formed statement.
LEMMA RecordsFormed ==
  ASSUME TypeOK, SegmentNext
  PROVE  \/ Advance
         \/ \E s \in Statements : Formed(s) /\ Record(s)
<1>1. ASSUME RecordIssue PROVE \E s \in Statements : Formed(s) /\ Record(s)
  <2>1. PICK n \in Notes : Record(IssueOf(Segment, n))
    BY <1>1 DEF RecordIssue
  <2>2. Formed(IssueOf(Segment, n))
    BY NotesAssumption DEF Formed, Statements, IssueOf, Statement, Issue, Present,
       Withdraw, Settle
  <2> QED BY <2>1, <2>2 DEF Formed
<1>2. ASSUME RecordSpend PROVE \E s \in Statements : Formed(s) /\ Record(s)
  <2>1. PICK ins \in SUBSET Notes, outs \in SUBSET Notes :
          Record(SpendOf(Segment, ins, outs))
    BY <1>2 DEF RecordSpend
  <2>2. Formed(SpendOf(Segment, ins, outs))
    BY DEF Formed, Statements, SpendOf, Statement, Issue, Spend, Present,
       Withdraw, Settle
  <2> QED BY <2>1, <2>2 DEF Formed
<1>3. ASSUME RecordBurn PROVE \E s \in Statements : Formed(s) /\ Record(s)
  <2>1. PICK ins \in SUBSET Notes, outs \in SUBSET Notes, quantity \in Quantities :
          Record(BurnOf(Segment, ins, outs, quantity))
    BY <1>3 DEF RecordBurn
  <2>2. quantity \in Nat
    BY NotesAssumption DEF Quantities
  <2>3. Formed(BurnOf(Segment, ins, outs, quantity))
    BY <2>2 DEF Formed, Statements, BurnOf, Statement, Issue, Burn, Present,
       Withdraw, Settle
  <2> QED BY <2>1, <2>3 DEF Formed
<1>4. ASSUME RecordDemand PROVE \E s \in Statements : Formed(s) /\ Record(s)
  <2>1. PICK notes \in SUBSET Notes, quantity \in Quantities,
             instant \in Indices, deadline \in Indices :
          Record(DemandOf(Segment, notes, quantity, instant, deadline))
    BY <1>4 DEF RecordDemand
  <2>2. quantity \in Nat /\ instant \in Nat /\ deadline \in Nat
    BY NotesAssumption, SegmentAssumption DEF Quantities
  <2> DEFINE s == DemandOf(Segment, notes, quantity, instant, deadline)
  <2>3. s = [kind |-> Present, seg |-> Segment, ins |-> notes, outs |-> {},
             quantity |-> quantity, instant |-> instant,
             deadline |-> deadline, ended |-> {}]
    BY DEF DemandOf, Statement
  <2>4. Formed(s)
    BY <2>2, <2>3 DEF Formed, Statements, StandingDemands, Issue, Present,
       Withdraw, Settle
  <2> QED BY <2>1, <2>4 DEF Formed
<1>5. ASSUME RecordWithdrawal PROVE \E s \in Statements : Formed(s) /\ Record(s)
  <2>1. PICK d \in state.demands : Record(WithdrawalOf(Segment, d))
    BY <1>5 DEF RecordWithdrawal
  <2>2. d \in StandingDemands
    BY DEF TypeOK, States
  <2>3. Formed(WithdrawalOf(Segment, d))
    BY <2>2 DEF Formed, Statements, WithdrawalOf, Statement, Issue, Present,
       Withdraw, Settle
  <2> QED BY <2>1, <2>3 DEF Formed
<1>6. ASSUME RecordSettlement PROVE \E s \in Statements : Formed(s) /\ Record(s)
  <2>1. PICK d \in state.demands, out \in Notes, deadline \in Indices :
          Record(SettlementOf(Segment, d, out, deadline))
    BY <1>6 DEF RecordSettlement
  <2>2. d \in StandingDemands /\ d.ins \subseteq Notes /\ deadline \in Nat /\ Value[out] \in Nat
    BY NotesAssumption, SegmentAssumption DEF TypeOK, States, StandingDemands
  <2> DEFINE s == SettlementOf(Segment, d, out, deadline)
  <2>3. s = [kind |-> Settle, seg |-> Segment, ins |-> d.ins, outs |-> {out},
             quantity |-> Value[out], instant |-> 0,
             deadline |-> deadline, ended |-> {d}]
    BY DEF SettlementOf, Statement
  <2>4. Formed(s)
    BY <2>2, <2>3 DEF Formed, Statements, Issue, Present, Withdraw, Settle
  <2> QED BY <2>1, <2>4 DEF Formed
<1> QED BY <1>1, <1>2, <1>3, <1>4, <1>5, <1>6 DEF SegmentNext

\* What a judged record gives the invariant: its inputs exist, whatever it
\* spends is unspent and locked by no demand but those it ends, and a demand
\* it stands up names notes that are unspent and locked by no demand.
LEMMA JudgedFacts ==
  ASSUME TypeOK, NEW s, Formed(s),
         Judged(s, state, Segment, mode, at, revoked)
  PROVE  /\ s.ins \subseteq state.outputs
         /\ \A n \in Nullifiers(s) : \A e \in state.demands \ s.ended :
               n \in e.ins => ~(e.deadline >= at)
         /\ s.kind = Present =>
               /\ s \notin state.effective
               /\ \A n \in s.ins : n \notin state.spent
               /\ \A n \in s.ins : \A e \in state.demands :
                     n \in e.ins => ~(e.deadline >= at)
         /\ s.ended # {} => s.kind \in {Withdraw, Settle}
<1>1. mode # "adoption"
  BY DEF TypeOK
<1>2. /\ CheckInputs(s, state)
      /\ CheckRecovery(s, state, at, mode = "admission" /\ s.kind >= Present)
  BY <1>1 DEF Judged
<1>3. s.ins \subseteq state.outputs
  BY <1>2 DEF CheckInputs
<1>4. s.kind \in 1..6
  BY DEF Formed, Statements, Issue, Settle
<1>5. ASSUME s.kind \in {Spend, Burn}, NEW n \in s.ins, NEW e \in state.demands, n \in e.ins
      PROVE ~(e.deadline >= at)
  <2>1. ~Locked(state, n, at, {})
    BY <1>2, <1>5 DEF CheckRecovery
  <2> QED BY <2>1, <1>5 DEF Locked
<1>6. ASSUME s.kind = Settle, NEW n \in s.ins, NEW e \in state.demands \ s.ended, n \in e.ins
      PROVE ~(e.deadline >= at)
  <2>1. PICK d \in s.ended : TRUE
    BY <1>6 DEF Formed
  <2>2. ~Locked(state, n, at, {d})
    BY <1>2, <1>6, <2>1 DEF CheckRecovery, CheckSettlement
  <2> QED BY <2>1, <2>2, <1>6 DEF Locked
<1>7. \A n \in Nullifiers(s) : \A e \in state.demands \ s.ended :
        n \in e.ins => ~(e.deadline >= at)
  BY <1>5, <1>6 DEF Nullifiers
<1>8. ASSUME s.kind = Present
      PROVE /\ s \notin state.effective
            /\ \A n \in s.ins : n \notin state.spent
            /\ \A n \in s.ins : ~Locked(state, n, at, {})
  BY <1>2, <1>8 DEF CheckRecovery, CheckDemand, Present
<1>9. ASSUME s.kind = Present, NEW n \in s.ins, NEW e \in state.demands, n \in e.ins
      PROVE ~(e.deadline >= at)
  BY <1>8, <1>9 DEF Locked
<1>10. s.ended # {} => s.kind \in {Withdraw, Settle}
  BY DEF Formed
<1> QED BY <1>3, <1>7, <1>8, <1>9, <1>10

\* A record keeps the type of the state.
LEMMA RecordType ==
  ASSUME TypeOK, NEW s, Formed(s), Record(s)
  PROVE  TypeOK'
<1>1. state' = Apply(s, state) /\ UNCHANGED <<mode, revoked, at>>
  BY DEF Record
<1>2. /\ s \in Statements
      /\ s.kind = Present => s \in StandingDemands
      /\ s.outs \subseteq Notes /\ Nullifiers(s) \subseteq Notes /\ s.quantity \in Nat
  BY DEF Formed, Statements, Nullifiers
<1>3. /\ state.outputs \subseteq Notes /\ state.spent \subseteq Notes
      /\ state.issued \in Nat /\ state.burned \in Nat
      /\ state.demands \subseteq StandingDemands
      /\ state.effective \subseteq Statements /\ state.statements \subseteq Statements
  BY DEF TypeOK, States
<1>4. Apply(s, state) \in States
  <2>1. (state.demands \ s.ended) \cup (IF s.kind = Present THEN {s} ELSE {})
          \subseteq StandingDemands
    BY <1>2, <1>3
  <2>2. state.effective \cup (IF s.kind >= Present THEN {s} ELSE {}) \subseteq Statements
    BY <1>2, <1>3
  <2>3. /\ state.issued + (IF s.kind = Issue THEN s.quantity ELSE 0) \in Nat
        /\ state.burned + (IF s.kind = Burn THEN s.quantity ELSE 0) \in Nat
    BY <1>2, <1>3
  <2> QED BY <1>2, <1>3, <2>1, <2>2, <2>3 DEF Apply, States, EndedBy, StoodUpBy
<1> QED BY <1>1, <1>4 DEF TypeOK

\* A record keeps the locks exclusive, their notes unspent and every spent note
\* an output.
LEMMA RecordSafe ==
  ASSUME SafeState, NEW s, Formed(s), Record(s)
  PROVE  LockExclusive' /\ LockedUnspent' /\ SpentExisted'
<1>1. state' = Apply(s, state) /\ at' = at /\ Judged(s, state, Segment, mode, at, revoked)
  BY DEF Record
<1>2. TypeOK /\ LockExclusive /\ LockedUnspent /\ SpentExisted
  BY DEF SafeState
<1>3. /\ s.ins \subseteq state.outputs
      /\ \A n \in Nullifiers(s) : \A e \in state.demands \ s.ended :
            n \in e.ins => ~(e.deadline >= at)
      /\ s.kind = Present =>
            /\ \A n \in s.ins : n \notin state.spent
            /\ \A n \in s.ins : \A e \in state.demands :
                  n \in e.ins => ~(e.deadline >= at)
  BY <1>1, <1>2, JudgedFacts
<1>4. /\ state'.outputs = state.outputs \cup s.outs
      /\ state'.spent = state.spent \cup Nullifiers(s)
      /\ state'.demands = (state.demands \ s.ended)
                            \cup (IF s.kind = Present THEN {s} ELSE {})
  BY <1>1 DEF Apply, EndedBy, StoodUpBy
<1>5. Nullifiers(s) \subseteq s.ins /\ (s.kind = Present => Nullifiers(s) = {})
  BY DEF Nullifiers, Present, Spend, Burn, Settle
<1>6. SpentExisted'
  BY <1>2, <1>3, <1>4, <1>5 DEF SpentExisted
<1>7. LockedUnspent'
  <2> SUFFICES ASSUME NEW d \in state'.demands, d.deadline >= at
               PROVE  d.ins \subseteq state'.outputs \ state'.spent
    BY <1>1 DEF LockedUnspent, Live
  <2>1. CASE d \in state.demands \ s.ended
    <3>1. d.ins \subseteq state.outputs \ state.spent
      BY <1>2, <2>1 DEF LockedUnspent, Live
    <3>2. d.ins \cap Nullifiers(s) = {}
      BY <1>3, <2>1
    <3> QED BY <1>4, <3>1, <3>2
  <2>2. CASE s.kind = Present /\ d = s
    BY <1>3, <1>4, <1>5, <2>2
  <2> QED BY <1>4, <2>1, <2>2
<1>8. LockExclusive'
  <2> SUFFICES ASSUME NEW d \in state'.demands, NEW e \in state'.demands,
                      d # e, d.deadline >= at, e.deadline >= at
               PROVE  d.ins \cap e.ins = {}
    BY <1>1 DEF LockExclusive, Live
  <2>1. CASE d \in state.demands /\ e \in state.demands
    BY <1>2, <2>1 DEF LockExclusive, Live
  <2>2. CASE s.kind = Present /\ d = s /\ e \in state.demands
    BY <1>3, <2>2
  <2>3. CASE s.kind = Present /\ e = s /\ d \in state.demands
    BY <1>3, <2>3
  <2> QED BY <1>4, <2>1, <2>2, <2>3
<1> QED BY <1>6, <1>7, <1>8

-----------------------------------------------------------------------------
\* Advancing the judging index keeps the invariant: no demand comes to life.
LEMMA AdvanceSafe ==
  ASSUME SafeState, Advance
  PROVE  SafeState'
<1>1. at \in Nat /\ at' = at + 1 /\ UNCHANGED <<mode, revoked, state>>
  BY DEF SafeState, TypeOK, Advance
<1>2. TypeOK'
  BY <1>1 DEF SafeState, TypeOK
<1>3. \A d \in state.demands : d.deadline >= at' => d.deadline >= at
  BY <1>1 DEF SafeState, TypeOK, States, StandingDemands
<1> QED BY <1>1, <1>2, <1>3 DEF SafeState, LockExclusive, LockedUnspent, SpentExisted, Live

\* The segment's state always has its type, at most one live demand per note,
\* and the notes of a live demand exist and are unspent, for every set of notes,
\* every lag and every sequence of records admitted or replayed.
THEOREM SegmentSafe == SegmentSpec => []SafeState
<1>1. SegmentInit => SafeState
  <2> SUFFICES ASSUME SegmentInit PROVE SafeState
    OBVIOUS
  <2>1. state = GenesisState /\ at = 0
    BY DEF SegmentInit
  <2>2. /\ state.demands = {} /\ state.spent = {} /\ state \in States
    BY <2>1 DEF GenesisState, States
  <2>3. revoked \subseteq Nat /\ mode \in {"admission", "replay"}
    BY SegmentAssumption DEF SegmentInit
  <2> QED BY <2>1, <2>2, <2>3 DEF SafeState, TypeOK, LockExclusive, LockedUnspent, SpentExisted
<1>2. SafeState /\ [SegmentNext]_segmentVars => SafeState'
  <2> SUFFICES ASSUME SafeState, [SegmentNext]_segmentVars PROVE SafeState'
    OBVIOUS
  <2>1. CASE Advance
    BY <2>1, AdvanceSafe
  <2>2. ASSUME NEW s \in Statements, Formed(s), Record(s)
        PROVE  SafeState'
    BY <2>2, RecordType, RecordSafe DEF SafeState
  <2>3. CASE UNCHANGED segmentVars
    BY <2>3 DEF segmentVars, SafeState, TypeOK, LockExclusive, LockedUnspent, SpentExisted, Live
  <2>4. CASE SegmentNext
    BY <2>1, <2>2, <2>4, RecordsFormed DEF SafeState
  <2> QED BY <2>3, <2>4
<1> QED BY <1>1, <1>2, PTL DEF SegmentSpec

\* At most one live demand names a note (recovery.ts LOCKED), always.
THEOREM LocksExclusive == SegmentSpec => []LockExclusive
BY SegmentSafe, PTL DEF SafeState

\* The notes of a live demand exist and are unspent, always.
THEOREM LockedNotesUnspent == SegmentSpec => []LockedUnspent
BY SegmentSafe, PTL DEF SafeState

\* A step that spends a note of a live demand ends that demand.
THEOREM SettlementSpendsLocked == SegmentSpec => OnlySettlementSpendsLocked
<1> DEFINE Kept == \A d \in state.demands :
                     (Live(d) /\ d.ins \cap (state'.spent \ state.spent) # {})
                       => d \notin state'.demands
<1>1. SafeState /\ [SegmentNext]_segmentVars => [Kept]_segmentVars
  <2> SUFFICES ASSUME SafeState, SegmentNext PROVE Kept
    OBVIOUS
  <2>1. CASE Advance
    BY <2>1 DEF Advance
  <2>2. ASSUME NEW s \in Statements, Formed(s), Record(s)
        PROVE  Kept
    <3>1. /\ state'.spent = state.spent \cup Nullifiers(s)
          /\ state'.demands = (state.demands \ s.ended)
                                \cup (IF s.kind = Present THEN {s} ELSE {})
      BY <2>2 DEF Record, Apply, EndedBy, StoodUpBy
    <3>2. /\ \A n \in Nullifiers(s) : \A e \in state.demands \ s.ended :
               n \in e.ins => ~(e.deadline >= at)
      BY <2>2, JudgedFacts DEF Record, SafeState
    <3>3. s.kind = Present => Nullifiers(s) = {}
      BY DEF Nullifiers, Present, Spend, Burn, Settle
    <3> QED BY <3>1, <3>2, <3>3 DEF Live
  <2> QED BY <2>1, <2>2, RecordsFormed DEF SafeState
<1> QED BY <1>1, SegmentSafe, PTL DEF SegmentSpec, OnlySettlementSpendsLocked

-----------------------------------------------------------------------------
\* What standing demands and ended ones have in common: all are effective.
Recorded ==
  /\ state.demands \subseteq state.effective
  /\ \A s \in state.effective : s.ended \subseteq state.effective

\* A demand that was withdrawn or settled never stands again.
THEOREM EndedDemandsStayEnded == SegmentSpec => []EndedStaysEnded
<1> DEFINE Ended == Recorded /\ EndedStaysEnded
<1>1. SegmentInit => Ended
  BY DEF SegmentInit, GenesisState, Recorded, EndedStaysEnded
<1>2. SafeState /\ Ended /\ [SegmentNext]_segmentVars => Ended'
  <2> SUFFICES ASSUME SafeState, Recorded, EndedStaysEnded, [SegmentNext]_segmentVars
               PROVE  Recorded' /\ EndedStaysEnded'
    OBVIOUS
  <2>1. CASE state' = state
    BY <2>1 DEF Recorded, EndedStaysEnded
  <2>2. ASSUME NEW s \in Statements, Formed(s), Record(s)
        PROVE  Recorded' /\ EndedStaysEnded'
    <3>1. /\ state'.demands = (state.demands \ s.ended)
                                \cup (IF s.kind = Present THEN {s} ELSE {})
          /\ state'.effective = state.effective
                                \cup (IF s.kind >= Present THEN {s} ELSE {})
      BY <2>2 DEF Record, Apply, EndedBy, StoodUpBy
    <3>2. /\ s.kind = Present => s \notin state.effective
          /\ s.ended # {} => s.kind \in {Withdraw, Settle}
      BY <2>2, JudgedFacts DEF Record, SafeState
    <3>3. s.ended \subseteq state.demands
      <4>1. mode # "adoption"
        BY DEF SafeState, TypeOK
      <4> QED BY <2>2, <3>2, <4>1 DEF Record, Judged, CheckRecovery
    <3>4. s.kind = Present => s.ended = {}
      BY <3>2 DEF Present, Withdraw, Settle
    <3>5. Recorded'
      BY <3>1, <3>3, <2>2 DEF Recorded, Present
    <3>6. EndedStaysEnded'
      <4> SUFFICES ASSUME NEW r \in state'.effective, NEW d \in r.ended
                   PROVE  d \notin state'.demands
        BY DEF EndedStaysEnded
      <4>1. CASE r \in state.effective
        BY <3>1, <3>2, <4>1 DEF Recorded, EndedStaysEnded
      <4>2. CASE r = s
        BY <3>1, <3>4, <4>2
      <4> QED BY <3>1, <4>1, <4>2
    <3> QED BY <3>5, <3>6
  <2>3. CASE SegmentNext
    BY <2>1, <2>2, <2>3, RecordsFormed DEF SafeState, Advance
  <2> QED BY <2>1, <2>3 DEF segmentVars
<1> QED BY <1>1, <1>2, SegmentSafe, PTL DEF SegmentSpec

-----------------------------------------------------------------------------
\* No order of issues, spends, burns, demands, withdrawals and settlements makes
\* or loses value, for any notes of any worth (checkUniqueEffects, the proofs of
\* value and the issued total of src/pool/v3/state.ts).
THEOREM ValueIsConserved == SegmentSpec => []Conservation
<1>1. SegmentInit => Conserves(state)
  <2> SUFFICES ASSUME SegmentInit PROVE Conserves(state)
    OBVIOUS
  <2>1. /\ state.outputs = {} /\ state.spent = {} /\ state.issued = 0 /\ state.burned = 0
        /\ state.outputs \ state.spent = {}
    BY DEF SegmentInit, GenesisState
  <2>2. Worth({}) = 0
    BY WorthStep
  <2> QED BY <2>1, <2>2 DEF Conserves
<1>2. SafeState /\ Conserves(state) /\ [SegmentNext]_segmentVars => Conserves(state)'
  <2> SUFFICES ASSUME SafeState, Conserves(state), [SegmentNext]_segmentVars PROVE Conserves(state')
    OBVIOUS
  <2>1. CASE state' = state
    BY <2>1
  <2>2. ASSUME NEW s \in Statements, Formed(s), Record(s)
        PROVE  Conserves(state')
    <3>1. state' = Apply(s, state) /\ Judged(s, state, Segment, mode, at, revoked) /\ mode # "adoption"
      BY <2>2 DEF Record, SafeState, TypeOK
    <3>2. s.kind \in {Present, Withdraw} => s.outs = {}
      BY <2>2 DEF Formed, StandingDemands
    <3>3. Balances(s, state)
      BY <3>1, <3>2 DEF Judged, CheckInputs, Balances
    <3>4. /\ s.ins \in SUBSET Notes /\ s.outs \in SUBSET Notes /\ s.quantity \in Nat
          /\ s.kind \in Issue..Settle
          /\ state.outputs \in SUBSET Notes /\ state.issued \in Int /\ state.burned \in Int
      BY DEF Statements, SafeState, TypeOK, States
    <3> QED BY <3>1, <3>3, <3>4, ApplyConserves
  <2>3. CASE SegmentNext
    BY <2>1, <2>2, <2>3, RecordsFormed DEF SafeState, Advance
  <2> QED BY <2>1, <2>3 DEF segmentVars
<1>3. Conserves(state) => Conservation
  BY DEF Conserves, Conservation
<1> QED BY <1>1, <1>2, <1>3, SegmentSafe, PTL DEF SegmentSpec

\* Locks are sound in every history (checkRecovery, LOCKED): the two facts
\* above, together as the runs check them.
THEOREM LocksAreSound == SegmentSpec => []LocksSound
BY LocksExclusive, LockedNotesUnspent, PTL DEF LocksSound

\* A demand ends once, and its notes leave with it (endedBy, checkUniqueEffects).
THEOREM DemandsEndOnce == SegmentSpec => DemandsSettleOnce
BY SettlementSpendsLocked, EndedDemandsStayEnded, PTL DEF DemandsSettleOnce
=============================================================================
