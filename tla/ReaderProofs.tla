---------------------------- MODULE ReaderProofs ----------------------------
(* Proofs about the schedule an operator signs by and what a reader goes by. *)
(* The walk over a backing's replacement records, for any operators, lag,    *)
(* forces and number of records and entries: what was in force at an index   *)
(* is never rewritten by what is witnessed later, and the end of a term      *)
(* moves only as the operator's schedule assumes. The kept answers, for any  *)
(* sequences, roots, identities and length of the record: whatever windows   *)
(* the reads were cut into, and after any restore of the view, a kept answer *)
(* is what the record says. The scope clock, for every lag, set of backings  *)
(* and replacement schedule: a commitment signed on schedule is witnessed in *)
(* its term, and what was admitted is signed for in time.                    *)
EXTENDS ScopeClock, ReplacementChain, KeptAnswers, FiniteSetTheorems, SequenceTheorems,
        WellFoundedInduction, TLAPS

\* A property of the numbers 0 to n that 0 has and each passes to the next.
LEMMA Counting ==
  ASSUME NEW n \in Nat, NEW S, 0 \in S, \A k \in 0..n - 1 : k \in S => k + 1 \in S
  PROVE  0..n \subseteq S
<1> DEFINE Bad == {k \in 0..n : k \notin S}
<1>1. SUFFICES ASSUME Bad # {} PROVE FALSE
  OBVIOUS
<1>2. Bad \subseteq Nat
  OBVIOUS
<1>3. PICK x \in Bad : \A y \in Bad : ~(y < x)
  <2> HIDE DEF Bad
  <2>1. PICK x \in Bad : \A y \in Bad : ~(<<y, x>> \in OpToRel(<, Nat))
    BY <1>1, <1>2, WFMin, NatLessThanWellFounded
  <2> QED BY <1>2, <2>1 DEF OpToRel
<1>4. x \in 0..n /\ x \notin S
  OBVIOUS
<1>5. x - 1 \in 0..n - 1 /\ (x - 1) + 1 = x /\ x - 1 < x
  BY <1>4
<1>6. x - 1 \in S
  BY <1>3, <1>5
<1> QED BY <1>4, <1>5, <1>6

\* A non-empty set of numbers has a least.
LEMMA Least ==
  ASSUME NEW S, S \subseteq Nat, S # {}
  PROVE  Min(S) \in S /\ \A y \in S : Min(S) <= y
<1>1. PICK x \in S : \A y \in S : ~(<<y, x>> \in OpToRel(<, Nat))
  BY WFMin, NatLessThanWellFounded
<1>2. \A y \in S : ~(y < x)
  BY <1>1 DEF OpToRel
<1>3. \A y \in S : x <= y
  BY <1>2
<1> QED BY <1>3 DEF Min

-----------------------------------------------------------------------------
(* The candidate that stands (replacementChain's inner loop).                *)

IsStanding(f, incumbent, at) ==
  f = [i \in 0..at |-> IF i = 0 THEN None ELSE Stands(incumbent, at, i, f[i - 1])]

Standing(incumbent, at) == CHOOSE f : IsStanding(f, incumbent, at)

\* What the loop's variable holds after each index exists.
LEMMA StandingExists ==
  ASSUME NEW incumbent, NEW at \in Nat
  PROVE  IsStanding(Standing(incumbent, at), incumbent, at)
<1> DEFINE Upto(k, f) == f = [i \in 0..k |-> IF i = 0 THEN None ELSE Stands(incumbent, at, i, f[i - 1])]
           Good(k) == \E f : Upto(k, f)
           Ks == {k \in 0..at : Good(k)}
<1>1. 0 \in Ks
  <2>1. Upto(0, [i \in 0..0 |-> None])
    OBVIOUS
  <2> HIDE DEF Upto
  <2> QED BY <2>1
<1>2. \A k \in 0..at - 1 : k \in Ks => k + 1 \in Ks
  <2> SUFFICES ASSUME NEW k \in 0..at - 1, Good(k) PROVE Good(k + 1)
    <3> HIDE DEF Good
    <3> QED OBVIOUS
  <2>1. PICK f : Upto(k, f)
    OBVIOUS
  <2> DEFINE h == [i \in 0..(k + 1) |-> IF i = 0 THEN None ELSE Stands(incumbent, at, i, f[i - 1])]
  <2>2. \A i \in 0..k : h[i] = f[i]
    BY <2>1
  <2>3. \A i \in 0..(k + 1) : i # 0 => i - 1 \in 0..k
    OBVIOUS
  <2>4. \A i \in 0..(k + 1) : i # 0 => h[i - 1] = f[i - 1]
    BY <2>2, <2>3
  <2>5. Upto(k + 1, h)
    BY <2>4
  <2> HIDE DEF h, Upto
  <2> QED BY <2>5
<1>3. 0..at \subseteq Ks
  <2> HIDE DEF Ks
  <2> QED BY <1>1, <1>2, Counting
<1>4. \E f : IsStanding(f, incumbent, at)
  <2>1. Good(at)
    BY <1>3
  <2> QED BY <2>1 DEF IsStanding
<1> QED BY <1>4 DEF Standing

\* The candidate the walk goes on to is the one that stands last.
LEMMA ChosenStanding ==
  ASSUME NEW incumbent, NEW at
  PROVE  Chosen(incumbent, at) = Standing(incumbent, at)[at]
BY DEF Chosen, Standing, IsStanding

-----------------------------------------------------------------------------
(* What the record holds.                                                    *)

\* Entries are of past indices and of records signed, each of which names a
\* link before it.
WalkTypeOK ==
  /\ reached \in Nat
  /\ entries \subseteq [index : 1..reached, identity : DOMAIN signed]
  /\ DOMAIN signed \subseteq 1..MaxSigned
  /\ \A id \in DOMAIN signed : signed[id] \in Record(id)

\* What is known of a record that is signed.
LEMMA RecordFacts ==
  ASSUME WalkTypeOK, NEW id \in DOMAIN signed
  PROVE  /\ id \in 1..MaxSigned /\ id # None /\ id # Backing
         /\ signed[id].effective \in Forces /\ signed[id].effective \in Nat
         /\ signed[id].predecessor \in Nat /\ signed[id].predecessor < id
         /\ signed[id].successor \in Operators
<1>1. id \in 1..MaxSigned /\ MaxSigned \in Nat /\ signed[id] \in Record(id)
  BY ChainAssumption DEF WalkTypeOK
<1>2. id \in Nat /\ id # 0 /\ id \in Int
  BY <1>1
<1>3. id # None /\ id # Backing
  BY <1>2, NoneAssumption DEF Backing
<1>4. signed[id].predecessor \in 0..(id - 1) /\ signed[id].effective \in Forces
      /\ signed[id].successor \in Operators
  BY <1>1 DEF Record
<1>5. signed[id].effective \in Nat
  BY <1>4, ChainAssumption
<1> QED BY <1>1, <1>2, <1>3, <1>4, <1>5

\* A copy witnessed later moves nothing: a record read at an index and at a
\* later one is witnessed at its first entry in both.
LEMMA WitnessedOnce ==
  ASSUME WalkTypeOK, NEW at \in Nat, NEW b \in Nat, at <= b, NEW id
  PROVE  /\ Witnessings(id, at) # {} =>
              /\ Witnessed(id, at) \in 1..at /\ Witnessed(id, at) = Witnessed(id, b)
              /\ Witnessings(id, b) # {}
         /\ Witnessings(id, b) # {} /\ Witnessed(id, b) <= at => Witnessings(id, at) # {}
<1>1. /\ Witnessings(id, at) \subseteq 1..at /\ Witnessings(id, b) \subseteq 1..b
      /\ \A k \in Nat : k \in Witnessings(id, at) <=> k \in Witnessings(id, b) /\ k <= at
  BY DEF WalkTypeOK, Witnessings
<1>2. Witnessings(id, at) \subseteq Nat /\ Witnessings(id, b) \subseteq Nat
  BY <1>1
<1>3. ASSUME Witnessings(id, b) # {}
      PROVE  Witnessed(id, b) \in Witnessings(id, b) /\ \A y \in Witnessings(id, b) : Witnessed(id, b) <= y
  BY <1>2, <1>3, Least DEF Witnessed
<1>4. ASSUME Witnessings(id, at) # {}
      PROVE  Witnessed(id, at) \in Witnessings(id, at) /\ \A y \in Witnessings(id, at) : Witnessed(id, at) <= y
  BY <1>2, <1>4, Least DEF Witnessed
<1> QED BY <1>1, <1>2, <1>3, <1>4

\* The records an index puts forward are the same at every later reading.
LEMMA StandsAlike ==
  ASSUME WalkTypeOK, NEW at \in Nat, NEW b \in Nat, at <= b, NEW incumbent,
         NEW i \in 1..at, NEW old
  PROVE  Stands(incumbent, at, i, old) = Stands(incumbent, b, i, old)
<1> DEFINE Here(t) == {id \in CandidatesFor(incumbent, t) : Witnessed(id, t) = i}
<1>1. \A id : id \in Here(at) <=> id \in Here(b)
  <2> SUFFICES ASSUME NEW id PROVE id \in Here(at) <=> id \in Here(b)
    OBVIOUS
  <2>1. /\ Witnessings(id, at) # {} =>
              /\ Witnessed(id, at) = Witnessed(id, b) /\ Witnessings(id, b) # {}
        /\ Witnessings(id, b) # {} /\ Witnessed(id, b) <= at => Witnessings(id, at) # {}
    BY WitnessedOnce
  <2> QED BY <2>1 DEF CandidatesFor, Floored, Admitted
<1>2. Here(at) = Here(b)
  BY <1>1
<1>3. \A t : Stands(incumbent, t, i, old) =
        IF Here(t) = {} \/ (old # None /\ i >= signed[old].effective) THEN old
        ELSE IF Revokes(Min(Here(t)), incumbent) THEN None ELSE Min(Here(t))
  BY DEF Stands
<1> HIDE DEF Here
<1> QED BY <1>2, <1>3

\* So what stands after an index is the same at every later reading.
LEMMA StandingAlike ==
  ASSUME WalkTypeOK, NEW at \in Nat, NEW b \in Nat, at <= b, NEW incumbent, NEW j \in 0..at
  PROVE  Standing(incumbent, at)[j] = Standing(incumbent, b)[j]
<1> DEFINE f == Standing(incumbent, at)
           g == Standing(incumbent, b)
           Ks == {k \in 0..at : f[k] = g[k]}
<1>1. IsStanding(f, incumbent, at) /\ IsStanding(g, incumbent, b)
  BY StandingExists
<1> HIDE DEF f, g
<1>2. 0 \in Ks
  BY <1>1 DEF IsStanding
<1>3. \A k \in 0..at - 1 : k \in Ks => k + 1 \in Ks
  <2> SUFFICES ASSUME NEW k \in 0..at - 1, f[k] = g[k] PROVE f[k + 1] = g[k + 1]
    OBVIOUS
  <2>1. k + 1 \in 0..at /\ k + 1 \in 0..b /\ k + 1 # 0 /\ (k + 1) - 1 = k /\ k + 1 \in 1..at
    OBVIOUS
  <2>2. f[k + 1] = Stands(incumbent, at, k + 1, f[k]) /\ g[k + 1] = Stands(incumbent, b, k + 1, g[k])
    BY <1>1, <2>1 DEF IsStanding
  <2> QED BY <2>1, <2>2, StandsAlike
<1>4. 0..at \subseteq Ks
  <2> HIDE DEF Ks
  <2> QED BY <1>2, <1>3, Counting
<1> QED BY <1>4 DEF f, g

\* A candidate that stands leaves the lead floor, follows its incumbent and
\* appoints another.
Standable(id, incumbent, at) ==
  /\ id \in DOMAIN signed /\ ~Revokes(id, incumbent)
  /\ signed[id].predecessor = incumbent.link /\ signed[id].effective > incumbent.from
  /\ Witnessed(id, at) \in 1..at
  /\ signed[id].effective >= Witnessed(id, at) + 2 * VenueLag + 1

\* Open at an index: nothing stands, or what does is not in force there yet.
Pending(x, j) == x = None \/ signed[x].effective > j

\* What an index does to what stood: nothing, or it puts forward or withdraws
\* one that was not in force there.
LEMMA StandsStep ==
  ASSUME WalkTypeOK, NEW at \in Nat, NEW incumbent, NEW i \in 1..at, NEW old
  PROVE  LET new == Stands(incumbent, at, i, old) IN
         \/ new = old
         \/ /\ ~(old # None /\ i >= signed[old].effective)
            /\ new # None => Standable(new, incumbent, at) /\ Witnessed(new, at) = i
<1> DEFINE here == {id \in CandidatesFor(incumbent, at) : Witnessed(id, at) = i}
<1>1. CASE here = {} \/ (old # None /\ i >= signed[old].effective)
  BY <1>1 DEF Stands
<1>2. CASE ~(here = {} \/ (old # None /\ i >= signed[old].effective))
  <2>1. here \subseteq Nat /\ here # {}
    BY <1>2 DEF CandidatesFor, Floored, Admitted, WalkTypeOK
  <2>2. Min(here) \in here
    <3> HIDE DEF here
    <3> QED BY <2>1, Least
  <2>3. Stands(incumbent, at, i, old) = IF Revokes(Min(here), incumbent) THEN None ELSE Min(here)
    BY <1>2 DEF Stands
  <2> DEFINE new == Min(here)
  <2>4. new \in CandidatesFor(incumbent, at) /\ Witnessed(new, at) = i
    BY <2>2
  <2> HIDE DEF new, here
  <2>5. ~Revokes(new, incumbent) => Standable(new, incumbent, at)
    BY <2>4 DEF CandidatesFor, Floored, Admitted, Standable
  <2> QED BY <1>2, <2>3, <2>4, <2>5 DEF new, here
<1> QED BY <1>1, <1>2

\* Whatever stands was put forward by then.
LEMMA StandingKind ==
  ASSUME WalkTypeOK, NEW at \in Nat, NEW incumbent, NEW j \in 0..at
  PROVE  LET id == Standing(incumbent, at)[j] IN
         id = None \/ (Standable(id, incumbent, at) /\ Witnessed(id, at) <= j)
<1> DEFINE f == Standing(incumbent, at)
           Kind(x, k) == x = None \/ (Standable(x, incumbent, at) /\ Witnessed(x, at) <= k)
           Ks == {k \in 0..at : Kind(f[k], k)}
<1>1. IsStanding(f, incumbent, at)
  BY StandingExists
<1> HIDE DEF f
<1>2. 0 \in Ks
  BY <1>1 DEF IsStanding
<1>3. \A k \in 0..at - 1 : k \in Ks => k + 1 \in Ks
  <2> SUFFICES ASSUME NEW k \in 0..at - 1, Kind(f[k], k) PROVE Kind(f[k + 1], k + 1)
    <3> HIDE DEF Kind
    <3> QED OBVIOUS
  <2>1. k + 1 \in 0..at /\ k + 1 # 0 /\ (k + 1) - 1 = k /\ k + 1 \in 1..at
    OBVIOUS
  <2>2. f[k + 1] = Stands(incumbent, at, k + 1, f[k])
    BY <1>1, <2>1 DEF IsStanding
  <2>3. \/ f[k + 1] = f[k]
        \/ f[k + 1] # None => Standable(f[k + 1], incumbent, at) /\ Witnessed(f[k + 1], at) = k + 1
    BY <2>1, <2>2, StandsStep
  <2>4. f[k] # None => Witnessed(f[k], at) \in 1..at /\ Witnessed(f[k], at) <= k
    BY DEF Standable
  <2> QED BY <2>1, <2>3, <2>4
<1>4. 0..at \subseteq Ks
  <2> HIDE DEF Ks
  <2> QED BY <1>2, <1>3, Counting
<1> QED BY <1>4 DEF f

\* What stands in force stays, and where nothing is in force yet a later index
\* brings nothing into force: a record leaves its floor ahead of it.
LEMMA StandingKeeps ==
  ASSUME WalkTypeOK, NEW b \in Nat, NEW incumbent, NEW j \in 0..b
  PROVE  LET x == Standing(incumbent, b)[j]
             y == Standing(incumbent, b)[b]
         IN  y = x \/ (Pending(x, j) /\ Pending(y, j))
<1> DEFINE f == Standing(incumbent, b)
           Keeps(k) == f[k] = f[j] \/ (Pending(f[j], j) /\ Pending(f[k], j))
           Ks == {k \in 0..b : k >= j => Keeps(k)}
<1>1. IsStanding(f, incumbent, b)
  BY StandingExists
<1>0. \A k \in 0..b : f[k] = None \/ Standable(f[k], incumbent, b)
  BY StandingKind
<1> HIDE DEF f
<1>2. 0 \in Ks
  BY DEF Pending
<1>3. \A k \in 0..b - 1 : k \in Ks => k + 1 \in Ks
  <2> SUFFICES ASSUME NEW k \in 0..b - 1, k >= j => Keeps(k), k + 1 >= j PROVE Keeps(k + 1)
    <3> HIDE DEF Keeps
    <3> QED OBVIOUS
  <2>0. CASE k + 1 = j
    BY <2>0
  <2>1. CASE k >= j
    <3>1. k + 1 \in 0..b /\ k + 1 # 0 /\ (k + 1) - 1 = k /\ k + 1 \in 1..b
      OBVIOUS
    <3>2. f[k + 1] = Stands(incumbent, b, k + 1, f[k])
      BY <1>1, <3>1 DEF IsStanding
    <3>3. \/ f[k + 1] = f[k]
          \/ /\ ~(f[k] # None /\ k + 1 >= signed[f[k]].effective)
             /\ f[k + 1] # None => Standable(f[k + 1], incumbent, b) /\ Witnessed(f[k + 1], b) = k + 1
      BY <3>1, <3>2, StandsStep
    <3>4. CASE f[k + 1] = f[k]
      BY <2>1, <3>4
    <3>5. CASE /\ ~(f[k] # None /\ k + 1 >= signed[f[k]].effective)
               /\ f[k + 1] # None => Standable(f[k + 1], incumbent, b) /\ Witnessed(f[k + 1], b) = k + 1
      <4>1. f[k] # None => signed[f[k]].effective \in Nat
        BY <1>0, RecordFacts DEF Standable
      <4>2. Pending(f[k], j)
        BY <2>1, <3>5, <4>1 DEF Pending
      <4>3. Pending(f[j], j)
        BY <2>1, <4>2
      <4>4. Pending(f[k + 1], j)
        <5> SUFFICES ASSUME f[k + 1] # None PROVE signed[f[k + 1]].effective > j
          BY DEF Pending
        <5>1. signed[f[k + 1]].effective >= k + 1 + 2 * VenueLag + 1 /\ signed[f[k + 1]].effective \in Nat
          BY <3>5, RecordFacts DEF Standable
        <5> QED BY <5>1, <2>1, ChainAssumption
      <4> QED BY <4>3, <4>4
    <3> QED BY <3>3, <3>4, <3>5
  <2> QED BY <2>0, <2>1
<1>4. 0..b \subseteq Ks
  <2> HIDE DEF Ks
  <2> QED BY <1>2, <1>3, Counting
<1>5. b \in 0..b /\ b >= j
  OBVIOUS
<1>6. Keeps(b)
  <2> HIDE DEF Keeps
  <2> QED BY <1>4, <1>5
<1> QED BY <1>6 DEF f

\* The walk's choice at an index and at a later one: the same, or neither is in
\* force at the earlier.
LEMMA ChosenKeeps ==
  ASSUME WalkTypeOK, NEW at \in Nat, NEW b \in Nat, at <= b, NEW incumbent
  PROVE  /\ \/ Chosen(incumbent, b) = Chosen(incumbent, at)
            \/ Pending(Chosen(incumbent, at), at) /\ Pending(Chosen(incumbent, b), at)
         /\ Chosen(incumbent, at) # None => Standable(Chosen(incumbent, at), incumbent, at)
<1>1. at \in 0..at /\ at \in 0..b
  OBVIOUS
<1>2. Standing(incumbent, at)[at] = Standing(incumbent, b)[at]
  BY <1>1, StandingAlike
<1>3. LET x == Standing(incumbent, b)[at]
          y == Standing(incumbent, b)[b]
      IN  y = x \/ (Pending(x, at) /\ Pending(y, at))
  BY <1>1, StandingKeeps
<1>4. Chosen(incumbent, at) # None => Standable(Chosen(incumbent, at), incumbent, at)
  BY <1>1, StandingKind, ChosenStanding
<1> QED BY <1>2, <1>3, <1>4, ChosenStanding

-----------------------------------------------------------------------------
(* The chain (replacementChain's outer loop).                                *)

Links == {Backing} \cup DOMAIN signed

\* The links from one on, where g has those of the links after it.
Onward(link, at, g) ==
  LET id == Chosen(LinkOf(link), at)
  IN  <<LinkOf(link)>> \o
        IF id = None THEN <<>>
        ELSE IF signed[id].effective > at THEN <<>> ELSE g[id]

IsChain(g, at) == g = [link \in {Backing} \cup DOMAIN signed |-> Onward(link, at, g)]

After(at) == CHOOSE g : IsChain(g, at)

LEMMA ChainFrom == ASSUME NEW at PROVE Chain(at) = After(at)[Backing]
BY DEF Chain, After, IsChain, Onward

\* A link is a number of its own, and the next one's is greater.
LEMMA LinkFacts ==
  ASSUME WalkTypeOK, NEW at \in Nat, NEW link \in Links
  PROVE  /\ link \in 0..MaxSigned /\ MaxSigned \in Nat
         /\ LinkOf(link).link = link /\ LinkOf(link).from \in Nat
         /\ LET id == Chosen(LinkOf(link), at) IN
            id # None => /\ id \in Links /\ id > link /\ id \in DOMAIN signed
                         /\ LinkOf(id).from = signed[id].effective
                         /\ signed[id].effective > LinkOf(link).from
<1>1. MaxSigned \in Nat /\ link \in 0..MaxSigned
  BY RecordFacts, ChainAssumption DEF Links, Backing
<1>2. LinkOf(link).link = link /\ LinkOf(link).from \in Nat
  <2>1. CASE link = Backing
    BY <2>1 DEF LinkOf, Genesis
  <2>2. CASE link # Backing
    <3>1. link \in DOMAIN signed
      BY <2>2 DEF Links
    <3>2. signed[link].effective \in Nat
      BY <3>1, RecordFacts
    <3> QED BY <2>2, <3>2 DEF LinkOf
  <2> QED BY <2>1, <2>2
<1> DEFINE id == Chosen(LinkOf(link), at)
<1>3. ASSUME id # None
      PROVE  /\ id \in Links /\ id > link /\ id \in DOMAIN signed
             /\ LinkOf(id).from = signed[id].effective
             /\ signed[id].effective > LinkOf(link).from
  <2>1. Standable(id, LinkOf(link), at)
    BY <1>3, ChosenKeeps
  <2> HIDE DEF id
  <2>2. id \in DOMAIN signed /\ signed[id].predecessor = link /\ signed[id].effective > LinkOf(link).from
    BY <1>2, <2>1 DEF Standable
  <2>3. id # Backing /\ signed[id].predecessor < id /\ id \in 1..MaxSigned
    BY <2>2, RecordFacts
  <2>4. LinkOf(id).from = signed[id].effective
    BY <2>3 DEF LinkOf
  <2> QED BY <1>1, <2>2, <2>3, <2>4 DEF Links
<1> QED BY <1>1, <1>2, <1>3

\* The walk from every link ends: each next link is a later record's.
LEMMA ChainExists ==
  ASSUME WalkTypeOK, NEW at \in Nat
  PROVE  IsChain(After(at), at)
<1> DEFINE n == MaxSigned + 1
           Upto(k, g) == \A l \in Links : l > MaxSigned - k => g[l] = Onward(l, at, g)
           Good(k) == \E g : g = [l \in Links |-> g[l]] /\ Upto(k, g)
           Ks == {k \in 0..n : Good(k)}
<1>0. MaxSigned \in Nat /\ n \in Nat /\ \A l \in Links : l \in 0..MaxSigned
  BY ChainAssumption, LinkFacts
<1>1. 0 \in Ks
  <2> DEFINE g == [l \in Links |-> l]
  <2>1. Upto(0, g)
    BY <1>0
  <2>2. g = [l \in Links |-> g[l]]
    OBVIOUS
  <2> HIDE DEF g, Upto
  <2> QED BY <1>0, <2>1, <2>2
<1>2. \A k \in 0..n - 1 : k \in Ks => k + 1 \in Ks
  <2> SUFFICES ASSUME NEW k \in 0..n - 1, Good(k) PROVE Good(k + 1)
    <3> HIDE DEF Good, n
    <3> QED BY <1>0
  <2>1. PICK g : Upto(k, g)
    OBVIOUS
  <2> DEFINE h == [l \in Links |-> Onward(l, at, g)]
  <2>2. Upto(k + 1, h)
    <3> SUFFICES ASSUME NEW l \in Links, l > MaxSigned - (k + 1) PROVE h[l] = Onward(l, at, h)
      OBVIOUS
    <3> DEFINE id == Chosen(LinkOf(l), at)
    <3>1. id # None => id \in Links /\ id > l
      BY LinkFacts
    <3>2. id # None => h[id] = g[id]
      <4> SUFFICES ASSUME id # None PROVE h[id] = g[id]
        OBVIOUS
      <4> HIDE DEF id
      <4>1. id \in Links /\ id > MaxSigned - k
        BY <1>0, <3>1
      <4>2. g[id] = Onward(id, at, g)
        BY <2>1, <4>1
      <4> QED BY <4>1, <4>2
    <3>3. Onward(l, at, g) = Onward(l, at, h)
      <4> HIDE DEF h
      <4> QED BY <3>2 DEF Onward
    <3> QED BY <3>3
  <2>3. h = [l \in Links |-> h[l]]
    OBVIOUS
  <2> HIDE DEF h, Upto
  <2> QED BY <2>2, <2>3
<1>3. 0..n \subseteq Ks
  <2> HIDE DEF Ks, n
  <2> QED BY <1>0, <1>1, <1>2, Counting
<1>4. Good(n)
  <2> HIDE DEF Good
  <2> QED BY <1>0, <1>3
<1>5. PICK g : g = [l \in Links |-> g[l]] /\ Upto(n, g)
  BY <1>4
<1>6. \A l \in Links : g[l] = Onward(l, at, g)
  BY <1>0, <1>5
<1>7. IsChain(g, at)
  <2> HIDE DEF Upto, Good, Ks
  <2> QED BY <1>5, <1>6 DEF IsChain, Links
<1> QED BY <1>7 DEF After

\* What a link has once the later ones have it, every link has.
LEMMA LaterFirst ==
  ASSUME WalkTypeOK, NEW S, \A l \in Links : (\A m \in Links : m > l => m \in S) => l \in S
  PROVE  Links \subseteq S
<1> DEFINE n == MaxSigned + 1
           Ks == {k \in 0..n : \A l \in Links : l > MaxSigned - k => l \in S}
<1>0. MaxSigned \in Nat /\ n \in Nat /\ \A l \in Links : l \in 0..MaxSigned
  <2>1. 0 \in Nat
    OBVIOUS
  <2> QED BY <2>1, ChainAssumption, LinkFacts
<1>1. 0 \in Ks
  BY <1>0
<1>2. \A k \in 0..n - 1 : k \in Ks => k + 1 \in Ks
  <2> SUFFICES ASSUME NEW k \in 0..n - 1, \A l \in Links : l > MaxSigned - k => l \in S,
                      NEW l \in Links, l > MaxSigned - (k + 1)
               PROVE  l \in S
    BY <1>0
  <2>1. \A m \in Links : m > l => m > MaxSigned - k
    BY <1>0
  <2> QED BY <2>1
<1>3. 0..n \subseteq Ks
  <2> HIDE DEF Ks, n
  <2> QED BY <1>0, <1>1, <1>2, Counting
<1>4. n \in Ks
  BY <1>0, <1>3
<1> QED BY <1>0, <1>4

Cells == {LinkOf(l) : l \in Links}

LEMMA Prepended ==
  ASSUME NEW S, NEW x \in S, NEW D \in Seq(S)
  PROVE  LET C == <<x>> \o D IN
         /\ C \in Seq(S) /\ Len(C) = Len(D) + 1 /\ C[1] = x
         /\ \A k \in 1..Len(D) : C[k + 1] = D[k]
<1>1. <<x>> \in Seq(S) /\ Len(<<x>>) = 1 /\ Len(D) \in Nat
  BY LenProperties
<1> QED BY <1>1, ConcatProperties

\* What follows a link in a chain: itself, and what follows its next.
LEMMA ChainStep ==
  ASSUME WalkTypeOK, NEW at \in Nat, NEW l \in Links
  PROVE  LET id == Chosen(LinkOf(l), at) IN
         /\ Pending(id, at) => After(at)[l] = <<LinkOf(l)>>
         /\ ~Pending(id, at) => id \in Links /\ After(at)[l] = <<LinkOf(l)>> \o After(at)[id]
<1> DEFINE id == Chosen(LinkOf(l), at)
<1>1. After(at)[l] = Onward(l, at, After(at))
  BY ChainExists DEF IsChain, Links
<1>2. id # None => id \in Links
  BY LinkFacts
<1>3. <<LinkOf(l)>> \o <<>> = <<LinkOf(l)>>
  OBVIOUS
<1>4. Pending(id, at) => After(at)[l] = <<LinkOf(l)>>
  BY <1>1, <1>3 DEF Onward, Pending
<1>5. ~Pending(id, at) => After(at)[l] = <<LinkOf(l)>> \o After(at)[id]
  BY <1>1 DEF Onward, Pending
<1> QED BY <1>2, <1>4, <1>5 DEF Pending

\* A chain's links come into force one after another.
Rises(C, from) ==
  /\ C \in Seq(Cells) /\ Len(C) >= 1 /\ C[1].from = from
  /\ \A k \in 1..Len(C) : C[k].from \in Nat /\ C[k].from >= from

LEMMA ChainRises ==
  ASSUME WalkTypeOK, NEW at \in Nat
  PROVE  \A l \in Links : Rises(After(at)[l], LinkOf(l).from)
<1> DEFINE S == {l \in Links : Rises(After(at)[l], LinkOf(l).from)}
<1>1. ASSUME NEW l \in Links, \A m \in Links : m > l => m \in S
      PROVE  l \in S
  <2> DEFINE id == Chosen(LinkOf(l), at)
  <2>1. LinkOf(l).from \in Nat /\ LinkOf(l) \in Cells
    BY LinkFacts DEF Cells
  <2>2. id # None => id \in Links /\ id > l /\ LinkOf(id).from \in Nat /\ LinkOf(id).from > LinkOf(l).from
    <3>1. id # None => /\ id \in Links /\ id > l
                       /\ LinkOf(id).from = signed[id].effective
                       /\ signed[id].effective > LinkOf(l).from
      BY LinkFacts
    <3> HIDE DEF id
    <3>2. id # None => LinkOf(id).from \in Nat
      BY <3>1, LinkFacts
    <3> QED BY <3>1, <3>2
  <2>3. /\ Pending(id, at) => After(at)[l] = <<LinkOf(l)>>
        /\ ~Pending(id, at) => id \in Links /\ After(at)[l] = <<LinkOf(l)>> \o After(at)[id]
    BY ChainStep
  <2> HIDE DEF id
  <2>4. CASE Pending(id, at)
    <3>1. After(at)[l] = <<LinkOf(l)>>
      BY <2>3, <2>4
    <3> DEFINE C == <<LinkOf(l)>>
    <3>2. C \in Seq(Cells) /\ Len(C) = 1 /\ C[1] = LinkOf(l)
      BY <2>1
    <3>3. Rises(C, LinkOf(l).from)
      <4> HIDE DEF C
      <4> QED BY <2>1, <3>2 DEF Rises
    <3> QED BY <3>1, <3>3
  <2>5. CASE ~Pending(id, at)
    <3> DEFINE D == After(at)[id]
               C == <<LinkOf(l)>> \o D
    <3>1. id # None /\ After(at)[l] = C
      BY <2>3, <2>5 DEF Pending
    <3>2. Rises(D, LinkOf(id).from)
      BY <1>1, <2>2, <3>1
    <3>3. D \in Seq(Cells) /\ Len(D) \in Nat /\ \A k \in 1..Len(D) : D[k].from \in Nat /\ D[k].from >= LinkOf(id).from
      BY <3>2, LenProperties DEF Rises
    <3>4. C \in Seq(Cells) /\ Len(C) = Len(D) + 1 /\ C[1] = LinkOf(l) /\ \A k \in 1..Len(D) : C[k + 1] = D[k]
      <4> HIDE DEF D
      <4> QED BY <2>1, <3>3, Prepended
    <3> HIDE DEF C, D
    <3>5. ASSUME NEW k \in 1..Len(C) PROVE C[k].from \in Nat /\ C[k].from >= LinkOf(l).from
      <4>1. CASE k = 1
        BY <2>1, <3>4, <4>1
      <4>2. CASE k # 1
        <5>1. k - 1 \in 1..Len(D) /\ (k - 1) + 1 = k
          BY <3>3, <3>4, <4>2
        <5>2. C[k] = D[k - 1]
          BY <3>4, <5>1
        <5>3. D[k - 1].from \in Nat /\ D[k - 1].from >= LinkOf(id).from
          BY <3>3, <5>1
        <5>4. LinkOf(id).from \in Nat /\ LinkOf(id).from > LinkOf(l).from
          BY <2>2, <3>1
        <5> QED BY <2>1, <5>2, <5>3, <5>4
      <4> QED BY <4>1, <4>2
    <3>6. Len(C) >= 1
      BY <3>3, <3>4
    <3> QED BY <3>1, <3>4, <3>5, <3>6 DEF Rises
  <2> QED BY <2>4, <2>5
<1>2. Links \subseteq S
  <2> HIDE DEF S
  <2> QED BY <1>1, LaterFirst
<1> QED BY <1>2

\* A chain goes on from another read at an earlier index: it begins with it, and
\* what it adds was not in force there.
GoesOn(A, B, at) ==
  /\ A \in Seq(Cells) /\ B \in Seq(Cells) /\ 1 <= Len(A) /\ Len(A) <= Len(B)
  /\ \A k \in 1..Len(A) : B[k] = A[k] /\ A[k].from <= at
  /\ \A k \in 1..Len(B) : k > Len(A) => B[k].from > at

LEMMA ChainGoesOn ==
  ASSUME WalkTypeOK, NEW at \in Nat, NEW b \in Nat, at <= b
  PROVE  \A l \in Links : LinkOf(l).from <= at => GoesOn(After(at)[l], After(b)[l], at)
<1> DEFINE S == {l \in Links : LinkOf(l).from <= at => GoesOn(After(at)[l], After(b)[l], at)}
<1>1. ASSUME NEW l \in Links, \A m \in Links : m > l => m \in S, LinkOf(l).from <= at
      PROVE  GoesOn(After(at)[l], After(b)[l], at)
  <2> DEFINE x == Chosen(LinkOf(l), at)
             y == Chosen(LinkOf(l), b)
             one == <<LinkOf(l)>>
  <2>1. LinkOf(l).from \in Nat /\ LinkOf(l) \in Cells
    BY LinkFacts DEF Cells
  <2>2. /\ x # None => x \in Links /\ x > l /\ LinkOf(x).from = signed[x].effective
        /\ y # None => y \in Links /\ y > l /\ LinkOf(y).from = signed[y].effective
    BY LinkFacts
  <2>3. /\ Pending(x, at) => After(at)[l] = one
        /\ ~Pending(x, at) => After(at)[l] = one \o After(at)[x]
        /\ Pending(y, b) => After(b)[l] = one
        /\ ~Pending(y, b) => After(b)[l] = one \o After(b)[y]
    BY ChainStep
  <2>4. y = x \/ (Pending(x, at) /\ Pending(y, at))
    BY ChosenKeeps
  <2>5. one \in Seq(Cells) /\ Len(one) = 1 /\ one[1] = LinkOf(l)
    BY <2>1
  <2>6. \A m \in Links : Rises(After(b)[m], LinkOf(m).from) /\ LinkOf(m).from \in Nat
    BY ChainRises, LinkFacts
  <2> HIDE DEF x, y, one
  <2>7. CASE Pending(x, at) /\ Pending(y, b)
    <3>1. GoesOn(one, one, at)
      BY <1>1, <2>1, <2>5 DEF GoesOn
    <3> QED BY <2>3, <2>7, <3>1
  <2>8. CASE Pending(x, at) /\ ~Pending(y, b)
    <3> DEFINE D == After(b)[y]
               C == one \o D
    <3>1. y # None /\ y \in Links /\ After(b)[l] = C /\ After(at)[l] = one
      BY <2>2, <2>3, <2>8 DEF Pending
    <3>2. Pending(y, at)
      BY <2>4, <2>8
    <3>3. LinkOf(y).from > at
      BY <2>2, <3>1, <3>2 DEF Pending
    <3>4. Rises(D, LinkOf(y).from) /\ LinkOf(y).from \in Nat
      BY <2>6, <3>1
    <3>5. D \in Seq(Cells) /\ Len(D) \in Nat /\ \A k \in 1..Len(D) : D[k].from \in Nat /\ D[k].from >= LinkOf(y).from
      BY <3>4, LenProperties DEF Rises
    <3>6. C \in Seq(Cells) /\ Len(C) = Len(D) + 1 /\ C[1] = LinkOf(l) /\ \A k \in 1..Len(D) : C[k + 1] = D[k]
      <4> HIDE DEF D
      <4> QED BY <2>1, <3>5, Prepended DEF one
    <3> HIDE DEF C, D
    <3>7. ASSUME NEW k \in 1..Len(C), k > 1 PROVE C[k].from > at
      <4>1. k - 1 \in 1..Len(D) /\ (k - 1) + 1 = k
        BY <3>5, <3>6, <3>7
      <4>2. C[k] = D[k - 1]
        BY <3>6, <4>1
      <4> QED BY <3>3, <3>4, <3>5, <4>1, <4>2
    <3>8. GoesOn(one, C, at)
      BY <1>1, <2>1, <2>5, <3>5, <3>6, <3>7 DEF GoesOn
    <3> QED BY <3>1, <3>8
  <2>9. CASE ~Pending(x, at)
    <3> DEFINE D == After(at)[x]
               E == After(b)[x]
    <3>1. y = x /\ x # None /\ x \in Links /\ x > l /\ LinkOf(x).from <= at /\ signed[x].effective \in Nat
      <4>1. y = x /\ x # None /\ ~(signed[x].effective > at)
        BY <2>4, <2>9 DEF Pending
      <4>2. x \in Links /\ x > l /\ LinkOf(x).from = signed[x].effective /\ LinkOf(x).from \in Nat
        BY <2>2, <2>6, <4>1
      <4> QED BY <4>1, <4>2
    <3>2. ~Pending(y, b)
      <4>1. signed[x].effective <= at
        BY <2>2, <3>1
      <4> QED BY <3>1, <4>1 DEF Pending
    <3>3. After(at)[l] = one \o D /\ After(b)[l] = one \o E
      BY <2>3, <2>9, <3>1, <3>2
    <3>4. GoesOn(D, E, at)
      BY <1>1, <3>1
    <3> HIDE DEF D, E
    <3>5. D \in Seq(Cells) /\ E \in Seq(Cells) /\ Len(D) \in Nat /\ Len(E) \in Nat
      BY <3>4, LenProperties DEF GoesOn
    <3> DEFINE A == one \o D
               B == one \o E
    <3>6. A \in Seq(Cells) /\ Len(A) = Len(D) + 1 /\ A[1] = LinkOf(l) /\ \A k \in 1..Len(D) : A[k + 1] = D[k]
      BY <2>1, <3>5, Prepended DEF one
    <3>7. B \in Seq(Cells) /\ Len(B) = Len(E) + 1 /\ B[1] = LinkOf(l) /\ \A k \in 1..Len(E) : B[k + 1] = E[k]
      BY <2>1, <3>5, Prepended DEF one
    <3> HIDE DEF A, B
    <3>8. 1 <= Len(A) /\ Len(A) <= Len(B)
      BY <3>4, <3>5, <3>6, <3>7 DEF GoesOn
    <3>9. ASSUME NEW k \in 1..Len(A) PROVE B[k] = A[k] /\ A[k].from <= at
      <4>1. CASE k = 1
        BY <1>1, <3>6, <3>7, <4>1
      <4>2. CASE k # 1
        <5>1. k - 1 \in 1..Len(D) /\ k - 1 \in 1..Len(E) /\ (k - 1) + 1 = k
          BY <3>5, <3>6, <3>7, <3>8, <4>2
        <5>2. A[k] = D[k - 1] /\ B[k] = E[k - 1]
          BY <3>6, <3>7, <5>1
        <5> QED BY <3>4, <5>1, <5>2 DEF GoesOn
      <4> QED BY <4>1, <4>2
    <3>10. ASSUME NEW k \in 1..Len(B), k > Len(A) PROVE B[k].from > at
      <4>1. k - 1 \in 1..Len(E) /\ k - 1 > Len(D) /\ (k - 1) + 1 = k
        BY <3>5, <3>6, <3>7, <3>10
      <4>2. B[k] = E[k - 1]
        BY <3>7, <4>1
      <4> QED BY <3>4, <4>1, <4>2 DEF GoesOn
    <3>11. GoesOn(A, B, at)
      BY <3>6, <3>7, <3>8, <3>9, <3>10 DEF GoesOn
    <3> QED BY <3>3, <3>11 DEF A, B
  <2> QED BY <2>7, <2>8, <2>9
<1>2. Links \subseteq S
  <2> HIDE DEF S
  <2>1. ASSUME NEW l \in Links, \A m \in Links : m > l => m \in S PROVE l \in S
    BY <1>1, <2>1 DEF S
  <2> QED BY <2>1, LaterFirst
<1> QED BY <1>2

\* Of the links in force by an index the last is.
LEMMA LastInForce ==
  ASSUME NEW n \in Nat, n >= 1, NEW C, NEW at, 1..n \subseteq DOMAIN C,
         \A k \in DOMAIN C : C[k].from <= at <=> k \in 1..n
  PROVE  LinkInForce(C, at) = C[n]
<1> DEFINE S == {k \in DOMAIN C : C[k].from <= at}
<1>1. S = 1..n
  OBVIOUS
<1>2. Max(1..n) \in 1..n /\ \A y \in 1..n : Max(1..n) >= y
  <2>1. n \in 1..n /\ \A y \in 1..n : n >= y
    OBVIOUS
  <2> QED BY <2>1 DEF Max
<1>3. Max(1..n) = n
  BY <1>2
<1> HIDE DEF S
<1> QED BY <1>1, <1>3 DEF LinkInForce, S

\* What was seen in force at an index is seen in force there at every later one.
LEMMA ForceStands ==
  ASSUME WalkTypeOK
  PROVE  InForceStands
<1> SUFFICES ASSUME NEW i \in 0..reached
             PROVE  LinkInForce(Chain(reached), i) = LinkInForce(Chain(i), i)
  BY DEF InForceStands
<1>1. reached \in Nat /\ i \in Nat /\ i <= reached
  BY DEF WalkTypeOK
<1> DEFINE A == After(i)[Backing]
           B == After(reached)[Backing]
<1>2. Chain(i) = A /\ Chain(reached) = B
  BY ChainFrom
<1>3. Backing \in Links /\ LinkOf(Backing).from <= i
  BY <1>1 DEF Links, LinkOf, Genesis
<1>4. GoesOn(A, B, i)
  BY <1>1, <1>3, ChainGoesOn
<1>5. \A l \in Links : LinkOf(l).from \in Nat
  BY <1>1, LinkFacts
<1> HIDE DEF A, B
<1>6. /\ Len(A) \in Nat /\ Len(A) >= 1 /\ DOMAIN A = 1..Len(A)
      /\ Len(B) \in Nat /\ DOMAIN B = 1..Len(B) /\ 1..Len(A) \subseteq 1..Len(B)
  BY <1>4, LenProperties DEF GoesOn
<1>7. \A k \in 1..Len(B) : B[k].from \in Nat
  <2> SUFFICES ASSUME NEW k \in 1..Len(B) PROVE B[k].from \in Nat
    OBVIOUS
  <2>1. B[k] \in Cells
    BY <1>4, ElementOfSeq DEF GoesOn
  <2> QED BY <1>5, <2>1 DEF Cells
<1>8. \A k \in 1..Len(A) : B[k] = A[k] /\ A[k].from <= i
  BY <1>4 DEF GoesOn
<1>9. \A k \in 1..Len(B) : k > Len(A) => B[k].from > i
  BY <1>4 DEF GoesOn
<1>10. LinkInForce(A, i) = A[Len(A)]
  BY <1>6, <1>8, LastInForce
<1>11. LinkInForce(B, i) = B[Len(A)]
  <2>1. \A k \in DOMAIN B : B[k].from <= i <=> k \in 1..Len(A)
    BY <1>1, <1>6, <1>7, <1>8, <1>9
  <2> QED BY <1>6, <2>1, LastInForce
<1> QED BY <1>2, <1>6, <1>8, <1>10, <1>11

-----------------------------------------------------------------------------
(* Steps.                                                                    *)

\* What the venue witnessed by an index it goes on to have witnessed by then,
\* and a record says what it said.
Keeps ==
  /\ \A id \in DOMAIN signed : id \in DOMAIN signed' /\ signed'[id] = signed[id]
  /\ \A e : e \in entries <=> e \in entries' /\ e.index <= reached
  /\ reached' \in Nat /\ reached <= reached'

LEMMA FinalizeKeeps ==
  ASSUME WalkTypeOK, Finalize
  PROVE  WalkTypeOK' /\ Keeps /\ reached' = reached + 1
<1>1. PICK ids \in SUBSET (1..MaxSigned) :
        /\ entries' = entries \cup {[index |-> reached', identity |-> id] : id \in ids}
        /\ \E record \in [ids \ DOMAIN signed -> UNION {Record(id) : id \in ids}] :
             /\ \A id \in DOMAIN record : record[id] \in Record(id)
             /\ signed' = [id \in DOMAIN signed \cup ids |->
                             IF id \in DOMAIN signed THEN signed[id] ELSE record[id]]
  BY DEF Finalize
<1>2. PICK record \in [ids \ DOMAIN signed -> UNION {Record(id) : id \in ids}] :
        /\ \A id \in DOMAIN record : record[id] \in Record(id)
        /\ signed' = [id \in DOMAIN signed \cup ids |->
                             IF id \in DOMAIN signed THEN signed[id] ELSE record[id]]
  BY <1>1
<1>3. reached \in Nat /\ reached' = reached + 1 /\ reached' \in Nat /\ reached < reached'
  BY DEF WalkTypeOK, Finalize
<1>4. /\ DOMAIN signed' = DOMAIN signed \cup ids
      /\ \A id \in DOMAIN signed : signed'[id] = signed[id]
      /\ \A id \in ids \ DOMAIN signed : signed'[id] = record[id]
  BY <1>2
<1>5. \A id \in DOMAIN signed' : signed'[id] \in Record(id)
  BY <1>2, <1>4 DEF WalkTypeOK
<1>6. entries \subseteq [index : 1..reached, identity : DOMAIN signed]
  BY DEF WalkTypeOK
<1>7. entries' \subseteq [index : 1..reached', identity : DOMAIN signed']
  BY <1>1, <1>3, <1>4, <1>6
<1>8. \A e : e \in entries <=> e \in entries' /\ e.index <= reached
  BY <1>1, <1>3, <1>6
<1>9. DOMAIN signed' \subseteq 1..MaxSigned
  BY <1>4 DEF WalkTypeOK
<1> QED BY <1>3, <1>4, <1>5, <1>7, <1>8, <1>9 DEF WalkTypeOK, Keeps

\* The inductive invariant of the record: entries are of past indices and of
\* records signed, each of which names a link before it.
THEOREM RecordSound == WalkSpec => []WalkTypeOK
<1>1. WalkInit => WalkTypeOK
  BY DEF WalkInit, WalkTypeOK
<1>2. WalkTypeOK /\ [Finalize]_walk => WalkTypeOK'
  <2> SUFFICES ASSUME WalkTypeOK, [Finalize]_walk PROVE WalkTypeOK'
    OBVIOUS
  <2>1. CASE Finalize
    BY <2>1, FinalizeKeeps
  <2>2. CASE UNCHANGED walk
    BY <2>2 DEF walk, WalkTypeOK
  <2> QED BY <2>1, <2>2
<1> QED BY <1>1, <1>2, PTL DEF WalkSpec

\* What a reader saw in force at an index it sees in force there ever after
\* (replacementChain, linkInForce): no record, copy or withdrawal witnessed
\* later rewrites who signed for a backing then.
THEOREM ForceIsNeverRewritten == WalkSpec => []InForceStands
BY RecordSound, ForceStands, PTL

\* What the walk computes in every state.
WalkFacts ==
  /\ \A incumbent : \A at \in Nat : /\ IsStanding(Standing(incumbent, at), incumbent, at)
                                   /\ Chosen(incumbent, at) = Standing(incumbent, at)[at]
  /\ WalkTypeOK => \A at \in Nat : IsChain(After(at), at) /\ Chain(at) = After(at)[Backing]
  /\ WalkTypeOK => \A at \in Nat : \A incumbent, old : \A i \in 1..at :
                     LET new == Stands(incumbent, at, i, old) IN
                     \/ new = old
                     \/ /\ ~(old # None /\ i >= signed[old].effective)
                        /\ new # None => Standable(new, incumbent, at) /\ Witnessed(new, at) = i
  /\ WalkTypeOK => \A at \in Nat, b \in Nat : \A incumbent : \A j \in 0..at :
                     at <= b => Standing(incumbent, at)[j] = Standing(incumbent, b)[j]

\* It does so in the next one.
LEMMA NextWalkFacts == WalkFacts'
<1>1. WalkFacts
  <2>1. ASSUME NEW incumbent, NEW at \in Nat
        PROVE  /\ IsStanding(Standing(incumbent, at), incumbent, at)
               /\ Chosen(incumbent, at) = Standing(incumbent, at)[at]
    BY StandingExists, ChosenStanding
  <2>2. ASSUME WalkTypeOK, NEW at \in Nat
        PROVE  IsChain(After(at), at) /\ Chain(at) = After(at)[Backing]
    BY <2>2, ChainExists, ChainFrom
  <2>3. ASSUME WalkTypeOK, NEW at \in Nat, NEW incumbent, NEW i \in 1..at, NEW old
        PROVE  LET new == Stands(incumbent, at, i, old) IN
               \/ new = old
               \/ /\ ~(old # None /\ i >= signed[old].effective)
                  /\ new # None => Standable(new, incumbent, at) /\ Witnessed(new, at) = i
    BY <2>3, StandsStep
  <2>4. ASSUME WalkTypeOK, NEW at \in Nat, NEW b \in Nat, NEW incumbent, NEW j \in 0..at, at <= b
        PROVE  Standing(incumbent, at)[j] = Standing(incumbent, b)[j]
    BY <2>4, StandingAlike
  <2> QED BY <2>1, <2>2, <2>3, <2>4 DEF WalkFacts
<1> QED BY <1>1, PTL

\* A reading of the past is the same in the next state.
LEMMA PastReading ==
  ASSUME WalkTypeOK, WalkTypeOK', Keeps, NEW at \in 0..reached
  PROVE  /\ \A id : Witnessings(id, at)' = Witnessings(id, at) /\ Witnessed(id, at)' = Witnessed(id, at)
         /\ \A incumbent : CandidatesFor(incumbent, at)' = CandidatesFor(incumbent, at)
<1>0. at \in Nat /\ at <= reached /\ reached \in Nat
  BY DEF WalkTypeOK
<1>1. ASSUME NEW id
      PROVE  {e.index : e \in {f \in entries' : f.identity = id /\ f.index <= at}} =
             {e.index : e \in {f \in entries : f.identity = id /\ f.index <= at}}
  <2>1. \A f \in entries : f.index \in Nat
    BY DEF WalkTypeOK
  <2>2. \A f \in entries' : f.index \in Nat
    BY DEF WalkTypeOK
  <2>3. {f \in entries' : f.identity = id /\ f.index <= at} = {f \in entries : f.identity = id /\ f.index <= at}
    BY <1>0, <2>1, <2>2 DEF Keeps
  <2> QED BY <2>3
<1>2. ASSUME NEW id PROVE Witnessings(id, at)' = Witnessings(id, at)
  BY <1>1 DEF Witnessings
<1>3. ASSUME NEW id PROVE Witnessed(id, at)' = Witnessed(id, at)
  BY <1>2 DEF Witnessed
<1>4. ASSUME NEW id \in DOMAIN signed', Witnessings(id, at) # {} PROVE id \in DOMAIN signed
  BY <1>4 DEF WalkTypeOK, Witnessings
<1>5. ASSUME NEW incumbent PROVE CandidatesFor(incumbent, at)' = CandidatesFor(incumbent, at)
  <2>1. ASSUME NEW id PROVE id \in CandidatesFor(incumbent, at)' <=> id \in CandidatesFor(incumbent, at)
    BY <1>2, <1>3, <1>4 DEF CandidatesFor, Floored, Admitted, Revokes, Keeps
  <2> QED BY <2>1
<1> QED BY <1>2, <1>3, <1>5

\* So is what an index puts forward over a record signed.
LEMMA PastStands ==
  ASSUME WalkTypeOK, WalkTypeOK', Keeps, NEW at \in 0..reached, NEW incumbent, NEW i \in 1..at,
         NEW old, old = None \/ old \in DOMAIN signed
  PROVE  Stands(incumbent, at, i, old)' = Stands(incumbent, at, i, old)
<1> DEFINE here == {id \in CandidatesFor(incumbent, at) : Witnessed(id, at) = i}
<1>1. {id \in CandidatesFor(incumbent, at)' : Witnessed(id, at)' = i} = here
  BY PastReading
<1>2. here # {} => Min(here) \in DOMAIN signed
  <2>1. here \subseteq Nat /\ here \subseteq DOMAIN signed
    BY DEF CandidatesFor, Floored, Admitted, WalkTypeOK
  <2> HIDE DEF here
  <2> QED BY <2>1, Least
<1>3. Stands(incumbent, at, i, old) =
        IF here = {} \/ (old # None /\ i >= signed[old].effective) THEN old
        ELSE IF Revokes(Min(here), incumbent) THEN None ELSE Min(here)
  BY DEF Stands
<1>4. Stands(incumbent, at, i, old)' =
        IF here = {} \/ (old # None /\ i >= signed'[old].effective) THEN old
        ELSE IF signed'[Min(here)].successor = incumbent.operator THEN None ELSE Min(here)
  BY <1>1 DEF Stands, Revokes
<1>5. Revokes(Min(here), incumbent) <=> signed[Min(here)].successor = incumbent.operator
  BY DEF Revokes
<1> HIDE DEF here
<1> QED BY <1>2, <1>3, <1>4, <1>5 DEF Keeps

\* And so is the walk's choice.
LEMMA PastChosen ==
  ASSUME WalkTypeOK, WalkTypeOK', Keeps, NEW at \in 0..reached, NEW incumbent
  PROVE  Chosen(incumbent, at)' = Chosen(incumbent, at)
<1>0. at \in Nat
  BY DEF WalkTypeOK
<1>1. PICK f : f = Standing(incumbent, at)
  OBVIOUS
<1>2. PICK g : g = Standing(incumbent, at)'
  OBVIOUS
<1>3. IsStanding(f, incumbent, at) /\ Chosen(incumbent, at) = f[at]
  BY <1>0, <1>1, StandingExists, ChosenStanding
<1>4. IsStanding(g, incumbent, at)' /\ Chosen(incumbent, at)' = g[at]
  BY <1>0, <1>2, NextWalkFacts DEF WalkFacts
<1>5. \A k \in 0..at : f[k] = None \/ f[k] \in DOMAIN signed
  BY <1>0, <1>1, StandingKind DEF Standable
<1> DEFINE Ks == {k \in 0..at : f[k] = g[k]}
<1>6. 0 \in Ks
  BY <1>0, <1>3, <1>4 DEF IsStanding
<1>7. \A k \in 0..at - 1 : k \in Ks => k + 1 \in Ks
  <2> SUFFICES ASSUME NEW k \in 0..at - 1, f[k] = g[k] PROVE f[k + 1] = g[k + 1]
    BY <1>0
  <2>1. k \in 0..at /\ k + 1 \in 0..at /\ k + 1 # 0 /\ (k + 1) - 1 = k /\ k + 1 \in 1..at
    BY <1>0
  <2>2. f[k + 1] = Stands(incumbent, at, k + 1, f[k])
    BY <1>3, <2>1 DEF IsStanding
  <2>3. g[k + 1] = Stands(incumbent, at, k + 1, g[k])'
    BY <1>4, <2>1 DEF IsStanding
  <2>4. f[k] = None \/ f[k] \in DOMAIN signed
    BY <1>5, <2>1
  <2>5. Stands(incumbent, at, k + 1, f[k])' = Stands(incumbent, at, k + 1, f[k])
    BY <2>1, <2>4, PastStands
  <2> QED BY <2>2, <2>3, <2>5
<1>8. 0..at \subseteq Ks
  <2> HIDE DEF Ks
  <2> QED BY <1>0, <1>6, <1>7, Counting
<1>9. at \in Ks
  BY <1>0, <1>8
<1> QED BY <1>3, <1>4, <1>9

\* And so is the chain.
LEMMA PastChain ==
  ASSUME WalkTypeOK, WalkTypeOK', Keeps, NEW at \in 0..reached
  PROVE  Chain(at)' = Chain(at)
<1>0. at \in Nat
  BY DEF WalkTypeOK
<1>1. PICK f : f = After(at)
  OBVIOUS
<1>2. PICK g : g = After(at)'
  OBVIOUS
<1>3. IsChain(f, at) /\ Chain(at) = f[Backing]
  BY <1>0, <1>1, ChainExists, ChainFrom
<1>4. IsChain(g, at)' /\ Chain(at)' = g[Backing]
  BY <1>0, <1>2, NextWalkFacts DEF WalkFacts, Backing
<1>5. Links \subseteq Links'
  BY DEF Links, Keeps
<1> DEFINE S == {l \in Links : f[l] = g[l]}
<1>6. ASSUME NEW l \in Links, \A m \in Links : m > l => m \in S PROVE f[l] = g[l]
  <2>1. f[l] = Onward(l, at, f)
    BY <1>3 DEF IsChain, Links
  <2>2. g[l] = Onward(l, at, g)'
    BY <1>4, <1>5 DEF IsChain, Links
  <2>3. PICK c : c = LinkOf(l)
    OBVIOUS
  <2>4. LinkOf(l)' = c
    BY <2>3 DEF LinkOf, Links, Keeps
  <2>5. PICK id : id = Chosen(c, at)
    OBVIOUS
  <2>6. Chosen(c, at)' = id
    BY <2>5, PastChosen
  <2>7. id # None => id \in Links /\ id > l /\ id \in DOMAIN signed
    BY <1>0, <2>3, <2>5, LinkFacts
  <2>8. f[l] = <<c>> \o IF id = None THEN <<>> ELSE IF signed[id].effective > at THEN <<>> ELSE f[id]
    BY <2>1, <2>3, <2>5 DEF Onward
  <2>9. g[l] = <<c>> \o IF id = None THEN <<>> ELSE IF signed'[id].effective > at THEN <<>> ELSE g[id]
    BY <2>2, <2>4, <2>6 DEF Onward
  <2>10. id # None => signed'[id] = signed[id] /\ f[id] = g[id]
    BY <1>6, <2>7 DEF Keeps
  <2> QED BY <2>8, <2>9, <2>10
<1>7. Links \subseteq S
  <2>1. ASSUME NEW l \in Links, \A m \in Links : m > l => m \in S PROVE l \in S
    BY <1>6, <2>1
  <2> HIDE DEF S
  <2> QED BY <2>1, LaterFirst
<1>8. Backing \in S
  BY <1>7 DEF Links
<1> QED BY <1>3, <1>4, <1>8

\* A chain read at an index is the chain read there in every later state: with
\* InForceStands, what was in force at an index is settled once it is reached.
THEOREM ChainsAreSettled == WalkSpec => [][\A at \in 0..reached : Chain(at)' = Chain(at)]_walk
<1>1. WalkTypeOK /\ [Finalize]_walk => [\A at \in 0..reached : Chain(at)' = Chain(at)]_walk
  <2> SUFFICES ASSUME WalkTypeOK, Finalize, NEW at \in 0..reached PROVE Chain(at)' = Chain(at)
    BY DEF walk
  <2> QED BY FinalizeKeeps, PastChain
<1> QED BY <1>1, RecordSound, PTL DEF WalkSpec

-----------------------------------------------------------------------------
(* The end of the genesis term, as the schedule's clock has it.              *)

\* The forces a record may name have a last.
LEMMA LastForce == Max(Forces) \in Forces /\ \A y \in Forces : y <= Max(Forces)
<1> DEFINE n == Cardinality(Forces)
           Has(S) == \E m \in S : \A y \in S : y <= m
           Ks == {k \in 0..n : \A S \in SUBSET Forces : Cardinality(S) = k /\ S # {} => Has(S)}
<1>0. /\ n \in Nat /\ Forces \subseteq Nat /\ Forces # {}
      /\ \A S \in SUBSET Forces : IsFiniteSet(S)
  BY ChainAssumption, FS_CardinalityType, FS_Subset
<1>1. 0 \in Ks
  BY <1>0, FS_EmptySet
<1>2. \A k \in 0..n - 1 : k \in Ks => k + 1 \in Ks
  <2> SUFFICES ASSUME NEW k \in 0..n - 1,
                      \A S \in SUBSET Forces : Cardinality(S) = k /\ S # {} => Has(S),
                      NEW S \in SUBSET Forces, Cardinality(S) = k + 1, S # {}
               PROVE  Has(S)
    <3> HIDE DEF Has, n
    <3> QED BY <1>0
  <2>1. PICK x \in S : TRUE
    OBVIOUS
  <2>2. Cardinality(S \ {x}) = k
    <3> HIDE DEF n
    <3>1. Cardinality(S \ {x}) = Cardinality(S) - 1
      BY <1>0, <2>1, FS_RemoveElement
    <3> QED BY <1>0, <3>1
  <2>3. CASE S \ {x} = {}
    BY <1>0, <2>1, <2>3
  <2>4. CASE S \ {x} # {}
    <3>1. PICK m \in S \ {x} : \A y \in S \ {x} : y <= m
      BY <2>2, <2>4
    <3>2. CASE x <= m
      BY <3>1, <3>2
    <3>3. CASE ~(x <= m)
      <4>1. \A y \in S : y <= x
        BY <1>0, <3>1, <3>3
      <4> QED BY <2>1, <4>1
    <3> QED BY <3>2, <3>3
  <2> QED BY <2>3, <2>4
<1>3. 0..n \subseteq Ks
  <2> HIDE DEF Ks, n
  <2> QED BY <1>0, <1>1, <1>2, Counting
<1>4. Has(Forces)
  <2> HIDE DEF Has
  <2> QED BY <1>0, <1>3
<1>5. PICK m \in Forces : \A y \in Forces : y <= m
  BY <1>4
<1>6. \A y \in Forces : m >= y
  BY <1>0, <1>5
<1>7. Max(Forces) \in Forces /\ \A y \in Forces : Max(Forces) >= y
  BY <1>6 DEF Max
<1> QED BY <1>0, <1>7

\* The end of the genesis term is none or a force a record names.
LEMMA EndKind ==
  ASSUME WalkTypeOK
  PROVE  /\ GenesisEnd = IF Chosen(Genesis, reached) = None THEN None
                         ELSE signed[Chosen(Genesis, reached)].effective
         /\ Chosen(Genesis, reached) # None => Chosen(Genesis, reached) \in DOMAIN signed
         /\ GenesisEnd \in 0..Max(Forces) \cup {None}
<1>1. Chosen(Genesis, reached) # None => Chosen(Genesis, reached) \in DOMAIN signed
  BY ChosenKeeps DEF Standable, WalkTypeOK
<1>2. Chosen(Genesis, reached) # None => signed[Chosen(Genesis, reached)].effective \in 0..Max(Forces)
  BY <1>1, RecordFacts, LastForce, ChainAssumption
<1> QED BY <1>1, <1>2 DEF GenesisEnd

EndIsKind ==
  WalkTypeOK =>
    /\ GenesisEnd = IF Chosen(Genesis, reached) = None THEN None
                    ELSE signed[Chosen(Genesis, reached)].effective
    /\ GenesisEnd \in 0..Max(Forces) \cup {None}

LEMMA NextEndKind == EndIsKind'
<1>1. EndIsKind
  BY EndKind DEF EndIsKind
<1> QED BY <1>1, PTL

\* The venue's next index moves the end only as the clock lets it: one that has
\* come stands, and a new one lies beyond the lead floor.
LEMMA EndMoves ==
  ASSUME WalkTypeOK, Finalize
  PROVE  Term!Replaced(reached + 1, GenesisEnd, GenesisEnd')
<1>1. WalkTypeOK' /\ Keeps /\ reached' = reached + 1 /\ reached \in Nat /\ reached + 1 \in Nat
  BY FinalizeKeeps DEF WalkTypeOK
<1>2. PICK old : old = Chosen(Genesis, reached)
  OBVIOUS
<1>3. PICK next : next = reached + 1
  OBVIOUS
<1>4. PICK new : new = Chosen(Genesis, next)'
  OBVIOUS
<1>5. PICK g : g = Standing(Genesis, next)'
  OBVIOUS
<1>7. reached \in 0..reached /\ next \in Nat /\ next \in 1..next /\ next \in 0..next
      /\ next # 0 /\ next - 1 = reached /\ reached <= next
  BY <1>1, <1>3
<1>8. PICK here : here = reached
  OBVIOUS
<1>9. Chosen(Genesis, here)' = old
  BY <1>1, <1>2, <1>7, <1>8, PastChosen
<1>10. g[here] = old
  <2>1. PICK f : f = Standing(Genesis, here)'
    OBVIOUS
  <2>2. f[here] = old
    BY <1>7, <1>8, <1>9, <2>1, NextWalkFacts DEF WalkFacts, WalkTypeOK
  <2>3. f[here] = g[here]
    BY <1>1, <1>5, <1>7, <1>8, <2>1, NextWalkFacts DEF WalkFacts
  <2> QED BY <2>2, <2>3
<1>11. IsStanding(g, Genesis, next)' /\ new = g[next]
  BY <1>4, <1>5, <1>7, NextWalkFacts DEF WalkFacts
<1>12. new = Stands(Genesis, next, next, old)'
  BY <1>7, <1>8, <1>10, <1>11 DEF IsStanding
<1>13. \/ new = old
       \/ /\ ~(old # None /\ next >= signed'[old].effective)
          /\ new # None => Standable(new, Genesis, next)' /\ Witnessed(new, next)' = next
  BY <1>1, <1>7, <1>12, NextWalkFacts DEF WalkFacts
<1>14. old # None => old \in DOMAIN signed
  BY <1>2, EndKind
<1>15. old # None => signed'[old].effective = signed[old].effective
  BY <1>1, <1>14 DEF Keeps
<1>16. GenesisEnd = IF old = None THEN None ELSE signed[old].effective
  BY <1>2, EndKind
<1>17. GenesisEnd' = IF new = None THEN None ELSE signed'[new].effective
  BY <1>1, <1>3, <1>4, NextEndKind DEF EndIsKind
<1>18. old # None => signed[old].effective \in Nat
  BY <1>14, RecordFacts
<1>19. CASE new = old
  BY <1>15, <1>16, <1>17, <1>19 DEF Term!Replaced
<1>20. CASE /\ ~(old # None /\ next >= signed'[old].effective)
            /\ new # None => Standable(new, Genesis, next)' /\ Witnessed(new, next)' = next
  <2>1. GenesisEnd # None => reached + 1 < GenesisEnd
    BY <1>1, <1>3, <1>15, <1>16, <1>18, <1>20
  <2>2. new # None => signed'[new].effective >= next + 2 * VenueLag + 1
    BY <1>20 DEF Standable
  <2>3. GenesisEnd' # None => GenesisEnd' >= reached + 1 + 2 * VenueLag + 1
    BY <1>3, <1>17, <2>2
  <2> QED BY <2>1, <2>3 DEF Term!Replaced
<1> QED BY <1>13, <1>19, <1>20

\* The walk implements the ends the schedule is proved against: as records are
\* witnessed, the end of a term appears, moves or is withdrawn only as the
\* operator's clock lets it (replacementChain under Replaced).
THEOREM WalkImplementsEnds == WalkSpec => EndsAsScheduled
<1>1. WalkInit => Term!Init
  <2> SUFFICES ASSUME WalkInit PROVE Term!Init
    OBVIOUS
  <2>1. WalkTypeOK /\ reached = 0
    BY DEF WalkInit, WalkTypeOK
  <2>2. Chosen(Genesis, 0) = None
    BY StandingExists, ChosenStanding DEF IsStanding
  <2>3. GenesisEnd = None
    BY <2>1, <2>2, EndKind
  <2> QED BY <2>1, <2>3 DEF Term!Init
<1>2. WalkTypeOK /\ [Finalize]_walk => [Term!Next]_(Term!vars)
  <2> SUFFICES ASSUME WalkTypeOK, [Finalize]_walk PROVE [Term!Next]_(Term!vars)
    OBVIOUS
  <2>1. CASE Finalize
    <3>1. Term!Tick(FALSE)
      <4>1. /\ WalkTypeOK' /\ reached' = reached + 1 /\ reached < LastIndex
        BY <2>1, FinalizeKeeps DEF Finalize
      <4>2. Term!Replaced(reached + 1, GenesisEnd, GenesisEnd')
        BY <2>1, EndMoves
      <4>3. GenesisEnd' \in 0..Max(Forces) \cup {None}
        BY <4>1, NextEndKind, LastForce DEF EndIsKind
      <4> QED BY <4>1, <4>2, <4>3 DEF Term!Tick
    <3>2. Term!Prompt
      BY DEF Term!Prompt
    <3> QED BY <3>1, <3>2 DEF Term!Next, Term!Advance
  <2>2. CASE UNCHANGED walk
    <3>1. GenesisEnd' = GenesisEnd
      <4>1. WalkTypeOK' /\ Keeps
        BY <2>2 DEF walk, WalkTypeOK, Keeps
      <4>2. PICK here : here = reached
        OBVIOUS
      <4>3. here \in 0..reached /\ reached' = here /\ signed' = signed
        BY <2>2, <4>2 DEF walk, WalkTypeOK
      <4>4. Chosen(Genesis, here)' = Chosen(Genesis, here)
        BY <4>1, <4>3, PastChosen
      <4>5. GenesisEnd' = IF Chosen(Genesis, here)' = None THEN None ELSE signed'[Chosen(Genesis, here)'].effective
        BY <4>1, <4>3, NextEndKind DEF EndIsKind
      <4> QED BY <4>2, <4>3, <4>4, <4>5, EndKind
    <3> QED BY <2>2, <3>1 DEF walk, Term!vars
  <2> QED BY <2>1, <2>2
<1> QED BY <1>1, <1>2, RecordSound, PTL DEF WalkSpec, EndsAsScheduled, Term!Spec

-----------------------------------------------------------------------------

\* A non-empty set of numbers not under a bound has a least.
LEMMA LeastFrom ==
  ASSUME NEW b \in Int, NEW S, S \subseteq Int, S # {}, \A y \in S : b <= y
  PROVE  \E x \in S : \A y \in S : x <= y
<1> DEFINE T == {y - b : y \in S}
<1>1. T \subseteq Nat /\ T # {}
  <2>1. \A y \in S : y \in Int /\ b <= y
    OBVIOUS
  <2>2. \A y \in S : y - b \in Nat
    BY <2>1
  <2> QED BY <2>2
<1>2. PICK x \in T : \A y \in T : ~(<<y, x>> \in OpToRel(<, Nat))
  <2> HIDE DEF T
  <2> QED BY <1>1, WFMin, NatLessThanWellFounded
<1>3. PICK z \in S : x = z - b
  OBVIOUS
<1>4. ASSUME NEW y \in S PROVE z <= y
  <2>1. y - b \in T /\ y - b \in Nat /\ x \in Nat
    BY <1>1
  <2>2. ~(y - b < x)
    BY <1>2, <2>1 DEF OpToRel
  <2> QED BY <1>3, <2>1, <2>2
<1> QED BY <1>4

\* The one element nothing is below is Min.
LEMMA MinIs ==
  ASSUME NEW S, S \subseteq Int, NEW m \in S, \A y \in S : m <= y
  PROVE  Min(S) = m
<1>1. Min(S) \in S /\ \A y \in S : Min(S) <= y
  <2>1. \A y \in S : y \in Int
    OBVIOUS
  <2> QED BY <2>1 DEF Min
<1>2. m \in Int /\ Min(S) \in Int /\ m <= Min(S) /\ Min(S) <= m
  BY <1>1
<1> QED BY <1>2

\* The one element nothing is above is Max.
LEMMA MaxIs ==
  ASSUME NEW S, S \subseteq Int, NEW m \in S, \A y \in S : y <= m
  PROVE  Max(S) = m
<1>1. Max(S) \in S /\ \A y \in S : Max(S) >= y
  <2>1. \A y \in S : y \in Int
    OBVIOUS
  <2> QED BY <2>1 DEF Max
<1>2. m \in Int /\ Max(S) \in Int /\ m >= Max(S) /\ Max(S) >= m
  BY <1>1
<1> QED BY <1>2

\* A non-empty finite set of numbers has a greatest.
LEMMA Greatest ==
  ASSUME NEW S, S \subseteq Int, IsFiniteSet(S), S # {}
  PROVE  Max(S) \in S /\ \A y \in S : y <= Max(S)
<1> DEFINE Above(x) == {y \in S : y > x}
           Sizes == {Cardinality(Above(x)) : x \in S}
<1>1. \A x \in S : IsFiniteSet(Above(x)) /\ Cardinality(Above(x)) \in Nat
  BY FS_Subset, FS_CardinalityType
<1>2. Sizes \subseteq Int /\ Sizes # {} /\ \A n \in Sizes : 0 <= n
  <2>1. \A x \in S : Cardinality(Above(x)) \in Int /\ 0 <= Cardinality(Above(x))
    BY <1>1
  <2> HIDE DEF Above
  <2> QED BY <2>1
<1>3. PICK n \in Sizes : \A k \in Sizes : n <= k
  <2> HIDE DEF Sizes
  <2>1. 0 \in Int
    OBVIOUS
  <2> QED BY <1>2, <2>1, LeastFrom
<1>4. PICK x \in S : n = Cardinality(Above(x))
  OBVIOUS
<1>5. ASSUME NEW y \in S, y > x PROVE FALSE
  <2>1. Above(y) \subseteq Above(x) /\ y \in Above(x) /\ y \notin Above(y)
    <3>1. \A z \in S : z \in Int
      OBVIOUS
    <3>2. \A z \in S : z > y => z > x
      BY <1>5, <3>1
    <3>3. ~(y > y)
      BY <3>1
    <3> QED BY <1>5, <3>2, <3>3
  <2>2. Above(y) # Above(x)
    BY <2>1
  <2>3. Cardinality(Above(y)) < Cardinality(Above(x))
    <3> HIDE DEF Above
    <3> QED BY <1>1, <2>1, <2>2, FS_Subset
  <2>4. Cardinality(Above(y)) \in Sizes
    OBVIOUS
  <2>5. n <= Cardinality(Above(y))
    BY <1>3, <2>4
  <2> HIDE DEF Above, Sizes
  <2> QED BY <1>1, <1>4, <2>3, <2>5
<1>6. \A y \in S : y <= x
  BY <1>5
<1> QED BY <1>6, MaxIs

-----------------------------------------------------------------------------
(* What the record says.                                                     *)

\* The commitments of a view are rows of the record.
Typed == commitments \subseteq HeldRow

\* The sequences the record holds through an index, and the highest of them.
SequencesUpto(i) == {0} \cup {c.sequence : c \in {d \in commitments : d.index <= i}}

Highest(i) == Max(SequencesUpto(i))

\* The rows of an answer read from an index through another.
HeldFrom(from, i) == {c \in HeldBy(i) : c.index >= from}

\* A row's index, sequence and root are numbers, its sequence from one.
LEMMA RowFacts ==
  ASSUME NEW c \in HeldRow
  PROVE  /\ c.index \in Nat /\ c.index \in Int /\ 0 <= c.index /\ c.index <= MaxClock
         /\ c.sequence \in Nat /\ c.sequence \in Int /\ c.sequence > 0 /\ c.sequence \in Sequences
         /\ c.root \in Nat /\ c.root \in Int /\ 0 <= c.root
<1>1. c.index \in 0..MaxClock /\ c.sequence \in Sequences /\ c.root \in Roots
  BY DEF HeldRow
<1>2. MaxClock \in Nat /\ c.sequence \in Nat \ {0} /\ c.root \in Nat
  BY <1>1, KeptAssumption
<1> QED BY <1>1, <1>2

\* The highest sequence through an index is held there, or none is.
LEMMA HighestIs ==
  ASSUME Typed, NEW i
  PROVE  /\ Highest(i) \in Nat /\ Highest(i) \in Sequences \cup {0}
         /\ Highest(i) \in SequencesUpto(i) /\ \A s \in SequencesUpto(i) : s <= Highest(i)
<1>1. SequencesUpto(i) \subseteq Sequences \cup {0} /\ SequencesUpto(i) # {}
  BY RowFacts DEF Typed, SequencesUpto
<1>2. IsFiniteSet(Sequences \cup {0}) /\ Sequences \cup {0} \subseteq Nat
  <2>1. IsFiniteSet(Sequences) /\ Sequences \subseteq Nat
    BY KeptAssumption
  <2>2. IsFiniteSet(Sequences \cup {0})
    BY <2>1, FS_AddElement
  <2> QED BY <2>1, <2>2
<1>3. IsFiniteSet(SequencesUpto(i)) /\ SequencesUpto(i) \subseteq Int
  BY <1>1, <1>2, FS_Subset
<1>4. Highest(i) \in SequencesUpto(i) /\ \A s \in SequencesUpto(i) : s <= Highest(i)
  BY <1>1, <1>3, Greatest DEF Highest
<1> QED BY <1>1, <1>2, <1>4

\* The highest sequence through an index, element by element.
LEMMA HighestMeans ==
  ASSUME Typed, NEW i
  PROVE  LET high == Highest(i) IN
         /\ high \in Int /\ high >= 0 /\ \A c \in commitments : c.index <= i => c.sequence <= high
         /\ high = 0 \/ \E c \in commitments : c.index <= i /\ c.sequence = high
<1> DEFINE high == Highest(i)
<1>1. high \in Nat /\ high \in SequencesUpto(i) /\ \A s \in SequencesUpto(i) : s <= high
  BY HighestIs
<1>2. \A c \in commitments : c.index <= i => c.sequence \in SequencesUpto(i)
  BY DEF SequencesUpto
<1>3. high = 0 \/ \E c \in commitments : c.index <= i /\ c.sequence = high
  BY <1>1 DEF SequencesUpto
<1> HIDE DEF high
<1>4. high \in Int /\ high >= 0
  BY <1>1
<1>5. \A c \in commitments : c.index <= i => c.sequence <= high
  BY <1>1, <1>2
<1> QED BY <1>3, <1>4, <1>5 DEF high

\* Of the commitments of one index and sequence one has the least bytes.
LEMMA LeastTwin ==
  ASSUME Typed, NEW c \in commitments
  PROVE  \E d \in commitments :
           /\ d.index = c.index /\ d.sequence = c.sequence
           /\ \A twin \in commitments :
                twin.index = c.index /\ twin.sequence = c.sequence => d.root <= twin.root
<1> DEFINE Twins == {d \in commitments : d.index = c.index /\ d.sequence = c.sequence}
           Bytes == {d.root : d \in Twins}
<1>1. Bytes \subseteq Int /\ Bytes # {} /\ \A y \in Bytes : 0 <= y
  BY RowFacts DEF Typed
<1>2. PICK x \in Bytes : \A y \in Bytes : x <= y
  <2> HIDE DEF Bytes
  <2>1. 0 \in Int
    OBVIOUS
  <2> QED BY <1>1, <2>1, LeastFrom
<1>3. PICK d \in Twins : d.root = x
  OBVIOUS
<1> QED BY <1>2, <1>3

\* What an index adds above the highest sequence before it is what the record
\* holds at it, and the highest of those is the highest through it.
LEMMA HeldAtIndex ==
  ASSUME Typed, NEW i \in Int
  PROVE  LET here == HeldAt(i, Highest(i - 1)) IN
         /\ here = {c \in HeldBy(i) : c.index = i}
         /\ Max({Highest(i - 1)} \cup {c.sequence : c \in here}) = Highest(i)
<1> DEFINE here == HeldAt(i, Highest(i - 1))
           low == Highest(i - 1)
           high == Highest(i)
<1>0. \A c \in commitments :
        /\ c.index \in Int /\ c.sequence \in Int /\ c.sequence > 0 /\ c.root \in Int
  BY RowFacts DEF Typed
<1>1. /\ low \in Int /\ low >= 0 /\ \A c \in commitments : c.index < i => c.sequence <= low
      /\ low = 0 \/ \E c \in commitments : c.index < i /\ c.sequence = low
  <2>1. \A c \in commitments : c.index <= i - 1 <=> c.index < i
    BY <1>0
  <2>2. i - 1 \in Int
    OBVIOUS
  <2> HIDE DEF high
  <2> QED BY <2>1, <2>2, HighestMeans
<1>2. /\ high \in Int /\ high >= 0 /\ \A c \in commitments : c.index <= i => c.sequence <= high
      /\ high = 0 \/ \E c \in commitments : c.index <= i /\ c.sequence = high
  BY HighestMeans
<1>3. \A c \in commitments : c.index = i =>
        (c.sequence > low <=> \A d \in commitments : d.index < c.index => d.sequence < c.sequence)
  <2> HIDE DEF low
  <2> QED BY <1>0, <1>1
<1>4. here = {c \in HeldBy(i) : c.index = i}
  <2> HIDE DEF low
  <2>1. \A c \in commitments : c \in here <=> c \in HeldBy(i) /\ c.index = i
    <3> SUFFICES ASSUME NEW c \in commitments, c.index = i
                 PROVE  c \in here <=> c \in HeldBy(i)
      BY DEF HeldAt
    <3>1. c.sequence > low <=> \A d \in commitments : d.index < c.index => d.sequence < c.sequence
      BY <1>3
    <3>2. c.index <= i
      OBVIOUS
    <3> QED BY <3>1, <3>2 DEF HeldAt, HeldBy, low
  <2>2. here \subseteq commitments /\ HeldBy(i) \subseteq commitments
    BY DEF HeldAt, HeldBy
  <2> HIDE DEF here
  <2> QED BY <2>1, <2>2
<1>5. Max({low} \cup {c.sequence : c \in here}) = high
  <2> DEFINE S == {low} \cup {c.sequence : c \in here}
  <2>1. \A c \in here : c \in commitments /\ c.index = i
    BY DEF HeldAt
  <2> HIDE DEF here, low, high
  <2>2. S \subseteq Int
    BY <1>0, <1>1, <2>1
  <2>3. \A y \in S : y <= high
    <3>1. \A c \in here : c.sequence <= high
      BY <1>0, <1>2, <2>1
    <3>2. low <= high
      <4>1. CASE low = 0
        BY <1>2, <4>1
      <4>2. CASE low # 0
        <5>1. PICK c \in commitments : c.index < i /\ c.sequence = low
          BY <1>1, <4>2
        <5> QED BY <1>0, <1>2, <5>1
      <4> QED BY <4>1, <4>2
    <3> QED BY <3>1, <3>2
  <2>4. high \in S
    <3>1. CASE high = 0
      BY <1>1, <1>2, <2>3, <3>1
    <3>2. CASE high # 0
      <4>1. PICK c \in commitments : c.index <= i /\ c.sequence = high
        BY <1>2, <3>2
      <4>2. CASE c.index < i
        <5>1. high <= low
          BY <1>1, <4>1, <4>2
        <5>2. low <= high
          BY <2>3
        <5> QED BY <1>1, <1>2, <5>1, <5>2
      <4>3. CASE ~(c.index < i)
        <5>1. c.index = i
          BY <1>0, <4>1, <4>3
        <5>2. PICK d \in commitments :
                /\ d.index = i /\ d.sequence = high
                /\ \A twin \in commitments : twin.index = i /\ twin.sequence = high => d.root <= twin.root
          BY <4>1, <5>1, LeastTwin
        <5>3. CASE high > low
          <6>1. d \in here
            BY <5>2, <5>3 DEF here, HeldAt, low
          <6> QED BY <5>2, <6>1
        <5>4. CASE ~(high > low)
          <6>1. low <= high
            BY <2>3
          <6> QED BY <1>1, <1>2, <5>4, <6>1
        <5> QED BY <5>3, <5>4
      <4> QED BY <4>2, <4>3
    <3> QED BY <3>1, <3>2
  <2> HIDE DEF S
  <2> QED BY <2>2, <2>3, <2>4, MaxIs DEF S
<1> QED BY <1>4, <1>5

-----------------------------------------------------------------------------
(* One answer (heldCommitments), and the windows of one read.                *)

IsThrough(f, from, to, prior) ==
  f = [i \in (from - 1)..to |->
         IF i < from THEN [rows |-> {}, highest |-> prior] ELSE
         LET before == f[i - 1]
             here   == HeldAt(i, before.highest)
         IN  [rows    |-> before.rows \cup here,
              highest |-> Max({before.highest} \cup {c.sequence : c \in here})]]

\* What the record gives an answer read from an index through another.
Answer(from, i) == [rows |-> HeldFrom(from, i), highest |-> Highest(i)]

\* An answer read through an index is the one read through the index before it
\* and what the index adds.
LEMMA AnswerStep ==
  ASSUME Typed, NEW from \in Int, NEW i \in Int, from <= i
  PROVE  LET here == HeldAt(i, Highest(i - 1)) IN
         Answer(from, i) = [rows    |-> HeldFrom(from, i - 1) \cup here,
                            highest |-> Max({Highest(i - 1)} \cup {c.sequence : c \in here})]
<1> DEFINE here == HeldAt(i, Highest(i - 1))
<1>1. here = {c \in HeldBy(i) : c.index = i} /\ Max({Highest(i - 1)} \cup {c.sequence : c \in here}) = Highest(i)
  BY HeldAtIndex
<1>2. \A c \in commitments : c.index \in Int
  BY RowFacts DEF Typed
<1>3. HeldFrom(from, i) = HeldFrom(from, i - 1) \cup {c \in HeldBy(i) : c.index = i}
  <2>1. \A c \in commitments : c.index >= from /\ c.index <= i <=>
          (c.index >= from /\ c.index <= i - 1) \/ c.index = i
    BY <1>2
  <2>2. \A c \in commitments : c.index = i => c.index <= i
    BY <1>2
  <2> QED BY <2>1, <2>2 DEF HeldFrom, HeldBy
<1> HIDE DEF here
<1> QED BY <1>1, <1>3 DEF Answer, here

\* Before its first index an answer has nothing.
LEMMA AnswerStarts ==
  ASSUME Typed, NEW from \in Int
  PROVE  Answer(from, from - 1) = [rows |-> {}, highest |-> Highest(from - 1)]
<1>1. \A c \in commitments : ~(c.index >= from /\ c.index <= from - 1)
  BY RowFacts DEF Typed
<1>2. HeldFrom(from, from - 1) = {}
  BY <1>1 DEF HeldFrom, HeldBy
<1> QED BY <1>2 DEF Answer

\* Whatever function the loop is, it holds the record's answer at every index.
LEMMA ThroughIs ==
  ASSUME Typed, NEW from \in Int, NEW to \in Int, from <= to + 1,
         NEW f, IsThrough(f, from, to, Highest(from - 1)), NEW i \in (from - 1)..to
  PROVE  f[i] = Answer(from, i)
<1> DEFINE Bad == {k \in (from - 1)..to : f[k] # Answer(from, k)}
<1>1. SUFFICES ASSUME Bad # {} PROVE FALSE
  OBVIOUS
<1>2. PICK k \in Bad : \A j \in Bad : k <= j
  <2>1. Bad \subseteq Int /\ from - 1 \in Int /\ \A y \in Bad : from - 1 <= y
    OBVIOUS
  <2> HIDE DEF Bad
  <2> QED BY <1>1, <2>1, LeastFrom
<1>3. k \in (from - 1)..to /\ f[k] # Answer(from, k)
  OBVIOUS
<1>4. CASE k < from
  <2>1. k = from - 1
    BY <1>3, <1>4
  <2>2. f[k] = [rows |-> {}, highest |-> Highest(from - 1)]
    BY <1>3, <1>4 DEF IsThrough
  <2> QED BY <1>3, <2>1, <2>2, AnswerStarts
<1>5. CASE ~(k < from)
  <2>1. k \in Int /\ from <= k /\ k - 1 \in (from - 1)..to /\ k - 1 < k
    BY <1>3, <1>5
  <2>2. f[k - 1] = Answer(from, k - 1)
    <3>1. k - 1 \notin Bad
      <4> HIDE DEF Bad
      <4>1. ~(k <= k - 1)
        BY <2>1
      <4> QED BY <1>2, <4>1
    <3> QED BY <2>1, <3>1
  <2>3. f[k] = LET before == f[k - 1]
                   here   == HeldAt(k, before.highest)
               IN  [rows    |-> before.rows \cup here,
                    highest |-> Max({before.highest} \cup {c.sequence : c \in here})]
    BY <1>3, <1>5 DEF IsThrough
  <2>4. f[k - 1].rows = HeldFrom(from, k - 1) /\ f[k - 1].highest = Highest(k - 1)
    BY <2>2 DEF Answer
  <2>5. f[k] = Answer(from, k)
    BY <2>1, <2>3, <2>4, AnswerStep
  <2> QED BY <1>3, <2>5
<1> QED BY <1>4, <1>5

\* One answer is what the record gives its range, where the sequence it is
\* given is the highest before it.
LEMMA OneAnswer ==
  ASSUME Typed, NEW from \in Int, NEW to \in Int, from <= to + 1
  PROVE  HeldCommitments(from, to, Highest(from - 1)) = Answer(from, to)
<1> DEFINE g == [i \in (from - 1)..to |-> Answer(from, i)]
           prior == Highest(from - 1)
<1>1. IsThrough(g, from, to, prior)
  <2>1. \A i \in (from - 1)..to : i < from => g[i] = [rows |-> {}, highest |-> prior]
    <3> SUFFICES ASSUME NEW i \in (from - 1)..to, i < from
                 PROVE  Answer(from, i) = [rows |-> {}, highest |-> prior]
      OBVIOUS
    <3>1. i = from - 1
      OBVIOUS
    <3> QED BY <3>1, AnswerStarts
  <2>2. \A i \in (from - 1)..to : ~(i < from) =>
          g[i] = LET before == g[i - 1]
                     here   == HeldAt(i, before.highest)
                 IN  [rows    |-> before.rows \cup here,
                      highest |-> Max({before.highest} \cup {c.sequence : c \in here})]
    <3> SUFFICES ASSUME NEW i \in (from - 1)..to, ~(i < from)
                 PROVE  g[i] = LET before == g[i - 1]
                                   here   == HeldAt(i, before.highest)
                               IN  [rows    |-> before.rows \cup here,
                                    highest |-> Max({before.highest} \cup {c.sequence : c \in here})]
      OBVIOUS
    <3>1. i \in Int /\ from <= i /\ i - 1 \in (from - 1)..to
      OBVIOUS
    <3>2. g[i - 1].rows = HeldFrom(from, i - 1) /\ g[i - 1].highest = Highest(i - 1)
      BY <3>1 DEF Answer
    <3>3. g[i] = Answer(from, i)
      OBVIOUS
    <3> HIDE DEF g
    <3> QED BY <3>1, <3>2, <3>3, AnswerStep
  <2>3. g = [i \in (from - 1)..to |-> g[i]]
    OBVIOUS
  <2> HIDE DEF g, prior
  <2> QED BY <2>1, <2>2, <2>3 DEF IsThrough
<1> DEFINE f == CHOOSE f : IsThrough(f, from, to, prior)
<1>2. IsThrough(f, from, to, prior)
  <2> HIDE DEF g
  <2> QED BY <1>1
<1>3. HeldCommitments(from, to, prior) = f[to]
  BY DEF HeldCommitments, IsThrough
<1>4. to \in (from - 1)..to
  OBVIOUS
<1> HIDE DEF f, g
<1>5. f[to] = Answer(from, to)
  BY <1>2, <1>4, ThroughIs
<1> QED BY <1>3, <1>5

Stops(from, cuts) == {from - 1} \cup cuts

\* The window before one that ends at an index.
LastStop(from, cuts, e) == Max({g \in Stops(from, cuts) : g < e})

IsWindows(f, from, cuts, prior) ==
  f = [e \in Stops(from, cuts) |->
         IF e < from THEN [rows |-> {}, highest |-> prior] ELSE
         LET last == LastStop(from, cuts, e)
             read == HeldCommitments(last + 1, e, f[last].highest)
         IN  [rows |-> f[last].rows \cup read.rows, highest |-> read.highest]]

\* Where the windows stop: at numbers, the first just before the read.
LEMMA StopFacts ==
  ASSUME NEW from \in Int, NEW t \in Int, from <= t, NEW cuts, cuts \subseteq from..t, t \in cuts
  PROVE  /\ Stops(from, cuts) \subseteq (from - 1)..t
         /\ \A e \in Stops(from, cuts) : e < from => e = from - 1
         /\ \A e \in Stops(from, cuts) : ~(e < from) =>
              LET last == LastStop(from, cuts, e) IN
              last \in Stops(from, cuts) /\ last < e
         /\ Max(cuts) = t
<1>1. Stops(from, cuts) \subseteq (from - 1)..t
  BY DEF Stops
<1>2. ASSUME NEW e \in Stops(from, cuts), e < from PROVE e = from - 1
  BY <1>1, <1>2
<1>3. ASSUME NEW e \in Stops(from, cuts), ~(e < from)
      PROVE  LastStop(from, cuts, e) \in Stops(from, cuts) /\ LastStop(from, cuts, e) < e
  <2> DEFINE S == {g \in Stops(from, cuts) : g < e}
  <2>1. S \subseteq (from - 1)..t /\ from - 1 \in S
    <3>1. e \in Int /\ from - 1 < e
      BY <1>1, <1>3
    <3> QED BY <1>1, <3>1 DEF Stops
  <2>2. IsFiniteSet((from - 1)..t)
    BY FS_Interval
  <2>3. IsFiniteSet(S)
    <3> HIDE DEF S
    <3> QED BY <2>1, <2>2, FS_Subset
  <2>4. S \subseteq Int /\ S # {}
    <3> HIDE DEF S
    <3> QED BY <2>1
  <2>5. Max(S) \in S
    <3> HIDE DEF S
    <3> QED BY <2>3, <2>4, Greatest
  <2> QED BY <2>5 DEF LastStop
<1>4. Max(cuts) = t
  <2>1. cuts \subseteq Int /\ \A y \in cuts : y <= t
    OBVIOUS
  <2> QED BY <2>1, MaxIs
<1> QED BY <1>1, <1>2, <1>3, <1>4

\* A window read with the sequence the one before it ended at adds what the
\* record holds in it.
LEMMA WindowStep ==
  ASSUME Typed, NEW from \in Int, NEW last \in Int, NEW e \in Int, from - 1 <= last, last < e
  PROVE  LET read == HeldCommitments(last + 1, e, Highest(last)) IN
         Answer(from, e) = [rows |-> HeldFrom(from, last) \cup read.rows, highest |-> read.highest]
<1> DEFINE read == HeldCommitments(last + 1, e, Highest(last))
<1>1. read = Answer(last + 1, e)
  <2>1. last + 1 \in Int /\ last + 1 <= e + 1 /\ (last + 1) - 1 = last
    OBVIOUS
  <2> QED BY <2>1, OneAnswer
<1>2. \A c \in commitments : c.index \in Int
  BY RowFacts DEF Typed
<1>3. HeldFrom(from, e) = HeldFrom(from, last) \cup HeldFrom(last + 1, e)
  <2>1. \A c \in commitments : c.index >= from /\ c.index <= e <=>
          (c.index >= from /\ c.index <= last) \/ (c.index >= last + 1 /\ c.index <= e)
    BY <1>2
  <2> QED BY <2>1 DEF HeldFrom, HeldBy
<1>4. read.rows = HeldFrom(last + 1, e) /\ read.highest = Highest(e)
  <2> HIDE DEF read
  <2> QED BY <1>1 DEF Answer
<1>5. Answer(from, e) = [rows |-> HeldFrom(from, last) \cup read.rows, highest |-> read.highest]
  <2> HIDE DEF read
  <2> QED BY <1>3, <1>4 DEF Answer
<1> QED BY <1>5

\* The last indices of the windows of a read from an index to another.
Cut(from, t, cuts) ==
  from \in Int /\ t \in Int /\ from <= t /\ cuts \subseteq from..t /\ t \in cuts

\* Whatever function the windows are, each ends at the record's answer.
LEMMA WindowIs ==
  ASSUME Typed, NEW from, NEW t, NEW cuts, Cut(from, t, cuts),
         NEW f, IsWindows(f, from, cuts, Highest(from - 1))
  PROVE  \A e \in Stops(from, cuts) : f[e] = Answer(from, e)
<1>a. from \in Int /\ t \in Int /\ from <= t /\ cuts \subseteq from..t /\ t \in cuts
  BY DEF Cut
<1>b. SUFFICES ASSUME NEW e \in Stops(from, cuts) PROVE f[e] = Answer(from, e)
  OBVIOUS
<1> DEFINE Bad == {k \in Stops(from, cuts) : f[k] # Answer(from, k)}
<1>1. SUFFICES ASSUME Bad # {} PROVE FALSE
  OBVIOUS
<1>0. Stops(from, cuts) \subseteq (from - 1)..t
  BY <1>a, StopFacts
<1>2. PICK k \in Bad : \A j \in Bad : k <= j
  <2>1. Bad \subseteq Int /\ from - 1 \in Int /\ \A y \in Bad : from - 1 <= y
    BY <1>0, <1>a
  <2> HIDE DEF Bad
  <2> QED BY <1>1, <2>1, LeastFrom
<1>3. k \in Stops(from, cuts) /\ f[k] # Answer(from, k) /\ k \in Int
  BY <1>0, <1>a
<1>4. CASE k < from
  <2>1. k = from - 1
    BY <1>a, <1>3, <1>4, StopFacts
  <2>2. f[k] = [rows |-> {}, highest |-> Highest(from - 1)]
    BY <1>3, <1>4 DEF IsWindows
  <2> QED BY <1>a, <1>3, <2>1, <2>2, AnswerStarts
<1>5. CASE ~(k < from)
  <2> DEFINE last == LastStop(from, cuts, k)
  <2>1. last \in Stops(from, cuts) /\ last < k
    BY <1>a, <1>3, <1>5, StopFacts
  <2>2. f[k] = LET read == HeldCommitments(last + 1, k, f[last].highest)
               IN  [rows |-> f[last].rows \cup read.rows, highest |-> read.highest]
    BY <1>3, <1>5 DEF IsWindows
  <2> HIDE DEF last
  <2>3. last \in Int /\ from - 1 <= last
    BY <1>a, <1>0, <2>1
  <2>4. f[last] = Answer(from, last)
    <3>1. last \notin Bad
      <4> HIDE DEF Bad
      <4>1. ~(k <= last)
        BY <1>3, <2>1, <2>3
      <4> QED BY <1>2, <4>1
    <3> QED BY <2>1, <3>1
  <2>5. f[last].rows = HeldFrom(from, last) /\ f[last].highest = Highest(last)
    BY <2>4 DEF Answer
  <2>6. f[k] = Answer(from, k)
    BY <1>a, <1>3, <2>1, <2>2, <2>3, <2>5, WindowStep
  <2> QED BY <1>3, <2>6
<1> QED BY <1>4, <1>5

\* A read gives what the record holds in its range, however it was cut.
LEMMA AnyWindows ==
  ASSUME Typed, NEW from \in Int, NEW t \in Int, from <= t, NEW cuts, cuts \subseteq from..t, t \in cuts
  PROVE  HeldWindows(from, cuts, Highest(from - 1)) = Answer(from, t)
<1> DEFINE g == [e \in Stops(from, cuts) |-> Answer(from, e)]
           prior == Highest(from - 1)
           Next1(h, e) == LET last == LastStop(from, cuts, e)
                              read == HeldCommitments(last + 1, e, h[last].highest)
                          IN  [rows |-> h[last].rows \cup read.rows, highest |-> read.highest]
<1>0. Stops(from, cuts) \subseteq (from - 1)..t
  BY StopFacts
<1>1. IsWindows(g, from, cuts, prior)
  <2>1. ASSUME NEW e \in Stops(from, cuts), e < from
        PROVE  g[e] = [rows |-> {}, highest |-> prior]
    <3>1. e = from - 1
      BY <2>1, StopFacts
    <3> QED BY <3>1, AnswerStarts
  <2>2. ASSUME NEW e \in Stops(from, cuts), ~(e < from)
        PROVE  g[e] = Next1(g, e)
    <3> DEFINE last == LastStop(from, cuts, e)
    <3>1. last \in Stops(from, cuts) /\ last < e
      BY <2>2, StopFacts
    <3> HIDE DEF last
    <3>2. last \in Int /\ e \in Int /\ from - 1 <= last
      BY <1>0, <3>1
    <3>3. g[last].rows = HeldFrom(from, last) /\ g[last].highest = Highest(last)
      BY <3>1 DEF Answer
    <3>4. g[e] = Answer(from, e)
      OBVIOUS
    <3> HIDE DEF g
    <3> QED BY <3>1, <3>2, <3>3, <3>4, WindowStep DEF last
  <2>3. g = [e \in Stops(from, cuts) |-> g[e]]
    OBVIOUS
  <2> HIDE DEF g, prior
  <2> QED BY <2>1, <2>2, <2>3 DEF IsWindows
<1> DEFINE f == CHOOSE f : IsWindows(f, from, cuts, prior)
<1>2. IsWindows(f, from, cuts, prior)
  <2> HIDE DEF g
  <2> QED BY <1>1
<1>3. HeldWindows(from, cuts, prior) = f[Max(cuts)]
  BY DEF HeldWindows, IsWindows, Stops, LastStop
<1>4. Max(cuts) = t /\ t \in Stops(from, cuts)
  BY StopFacts DEF Stops
<1> HIDE DEF f, g
<1>5. f[t] = Answer(from, t)
  <2>1. Cut(from, t, cuts)
    BY DEF Cut
  <2>2. IsWindows(f, from, cuts, Highest(from - 1))
    BY <1>2
  <2> HIDE DEF prior, Next1
  <2> QED BY <1>4, <2>1, <2>2, WindowIs
<1> QED BY <1>3, <1>4, <1>5

-----------------------------------------------------------------------------
(* The one-row queries.                                                      *)

\* Sequences rise with the indices of held rows, and no two rows share one.
LEMMA HeldRises ==
  ASSUME Typed, NEW i, NEW r \in HeldBy(i), NEW s \in HeldBy(i)
  PROVE  /\ r.sequence = s.sequence => r = s
         /\ r.index < s.index => r.sequence < s.sequence
         /\ r.sequence < s.sequence => r.index <= s.index
         /\ r # s => (Earlier(r, s) <=> r.sequence < s.sequence)
         /\ ~Earlier(r, r)
<1>1. /\ r \in commitments /\ s \in commitments /\ r \in HeldRow /\ s \in HeldRow
      /\ \A d \in commitments : d.index < r.index => d.sequence < r.sequence
      /\ \A d \in commitments : d.index < s.index => d.sequence < s.sequence
      /\ \A d \in commitments : d.index = r.index /\ d.sequence = r.sequence => r.root <= d.root
      /\ \A d \in commitments : d.index = s.index /\ d.sequence = s.sequence => s.root <= d.root
  BY DEF HeldBy, Typed
<1>2. /\ r.index \in Int /\ s.index \in Int /\ r.sequence \in Int /\ s.sequence \in Int
      /\ r.root \in Int /\ s.root \in Int
  BY <1>1, RowFacts
<1>3. /\ r.index < s.index => r.sequence < s.sequence
      /\ s.index < r.index => s.sequence < r.sequence
  BY <1>1
<1>4. r.sequence < s.sequence => r.index <= s.index
  BY <1>2, <1>3
<1>5. ASSUME r.sequence = s.sequence PROVE r = s
  <2>1. r.index = s.index
    BY <1>2, <1>3, <1>5
  <2>2. r.root <= s.root /\ s.root <= r.root
    BY <1>1, <1>5, <2>1
  <2>3. r.root = s.root
    BY <1>2, <2>2
  <2> QED BY <1>1, <1>5, <2>1, <2>3 DEF HeldRow
<1>6. r # s => (Earlier(r, s) <=> r.sequence < s.sequence)
  BY <1>2, <1>3, <1>5 DEF Earlier
<1>7. ~Earlier(r, r)
  BY <1>2 DEF Earlier
<1> QED BY <1>3, <1>4, <1>5, <1>6, <1>7

\* The first of some held rows has the least sequence among them.
LEMMA FirstIs ==
  ASSUME Typed, NEW i, NEW S, S \subseteq HeldBy(i), S # {}
  PROVE  /\ FirstRow(S) \in S /\ \A s \in S : FirstRow(S).sequence <= s.sequence
         /\ FirstRow(S) = CHOOSE r \in S : \A s \in S : r.sequence <= s.sequence
<1> DEFINE Seqs == {r.sequence : r \in S}
<1>0. \A r \in S : r.sequence \in Int /\ 0 <= r.sequence
  BY RowFacts DEF Typed, HeldBy
<1>1. PICK x \in Seqs : \A y \in Seqs : x <= y
  <2>1. Seqs \subseteq Int /\ Seqs # {} /\ 0 \in Int /\ \A y \in Seqs : 0 <= y
    BY <1>0
  <2> HIDE DEF Seqs
  <2> QED BY <2>1, LeastFrom
<1>2. PICK r \in S : \A s \in S : r.sequence <= s.sequence
  BY <1>1
<1>3. \A s \in S : r = s \/ Earlier(r, s)
  BY <1>0, <1>2, HeldRises
<1>4. FirstRow(S) \in S /\ \A s \in S : FirstRow(S) = s \/ Earlier(FirstRow(S), s)
  BY <1>3 DEF FirstRow
<1>5. \A s \in S : FirstRow(S).sequence <= s.sequence
  BY <1>0, <1>4, HeldRises
<1> DEFINE low == CHOOSE q \in S : \A s \in S : q.sequence <= s.sequence
<1>6. low \in S /\ \A s \in S : low.sequence <= s.sequence
  BY <1>2
<1>7. low.sequence = FirstRow(S).sequence
  <2> HIDE DEF low
  <2> QED BY <1>0, <1>4, <1>5, <1>6
<1>8. low = FirstRow(S)
  <2> HIDE DEF low
  <2> QED BY <1>4, <1>6, <1>7, HeldRises
<1> QED BY <1>4, <1>5, <1>8

\* The last of some held rows has the greatest sequence among them.
LEMMA LastIs ==
  ASSUME Typed, NEW i, NEW S, S \subseteq HeldBy(i), S # {}
  PROVE  LastRow(S) = CHOOSE r \in S : \A s \in S : s.sequence <= r.sequence
<1> DEFINE Seqs == {r.sequence : r \in S}
<1>0. \A r \in S : r.sequence \in Int /\ r.sequence \in Sequences
  BY RowFacts DEF Typed, HeldBy
<1>1. PICK r \in S : \A s \in S : s.sequence <= r.sequence
  <2>1. Seqs \subseteq Int /\ Seqs \subseteq Sequences /\ Seqs # {}
    BY <1>0
  <2>2. IsFiniteSet(Sequences)
    BY KeptAssumption
  <2>3. Max(Seqs) \in Seqs /\ \A y \in Seqs : y <= Max(Seqs)
    <3> HIDE DEF Seqs
    <3> QED BY <2>1, <2>2, FS_Subset, Greatest
  <2>4. PICK r \in S : r.sequence = Max(Seqs)
    BY <2>3
  <2>5. \A s \in S : s.sequence \in Seqs
    OBVIOUS
  <2> HIDE DEF Seqs
  <2> QED BY <2>3, <2>4, <2>5
<1>3. \A s \in S : r = s \/ Earlier(s, r)
  BY <1>0, <1>1, HeldRises
<1>4. LastRow(S) \in S /\ \A s \in S : LastRow(S) = s \/ Earlier(s, LastRow(S))
  BY <1>3 DEF LastRow
<1>5. \A s \in S : s.sequence <= LastRow(S).sequence
  BY <1>0, <1>4, HeldRises
<1> DEFINE high == CHOOSE q \in S : \A s \in S : s.sequence <= q.sequence
<1>6. high \in S /\ \A s \in S : s.sequence <= high.sequence
  BY <1>1
<1>7. high.sequence = LastRow(S).sequence
  <2> HIDE DEF high
  <2> QED BY <1>0, <1>4, <1>5, <1>6
<1>8. high = LastRow(S)
  <2> HIDE DEF high
  <2> QED BY <1>4, <1>6, <1>7, HeldRises
<1> QED BY <1>8

\* The row after one, asked by sequence or by index, is the record's next.
LEMMA NextInOrder ==
  ASSUME Typed, NEW t, Rows(t) = HeldBy(t), NEW i \in Int, NEW s \in Sequences
  PROVE  NextHeld(i, s, t) = FirstRow({r \in Rows(t) : r.index >= i /\ r.sequence > s})
<1> DEFINE rows == {r \in Rows(t) : r.sequence > s}
           past == {r \in Rows(t) : r.index >= i}
           both == {r \in Rows(t) : r.index >= i /\ r.sequence > s}
           next == CHOOSE r \in rows : \A q \in rows : r.sequence <= q.sequence
<1>0. s # Absent /\ s \in Int
  BY KeptAssumption
<1>1. NextHeld(i, s, t) = IF rows = {} THEN Absent
                          ELSE IF next.index >= i THEN next ELSE FirstRow(past)
  BY <1>0 DEF NextHeld
<1>2. \A r \in Rows(t) : r.index \in Int /\ r.sequence \in Int
  BY RowFacts DEF Typed, HeldBy
<1>3. CASE rows = {}
  <2>1. both = {}
    BY <1>3
  <2>2. FirstRow({}) = Absent
    BY DEF FirstRow
  <2> HIDE DEF rows, both
  <2> QED BY <1>1, <1>3, <2>1, <2>2 DEF both
<1>4. CASE rows # {}
  <2>1. rows \subseteq HeldBy(t)
    OBVIOUS
  <2>2. /\ FirstRow(rows) \in rows /\ \A q \in rows : FirstRow(rows).sequence <= q.sequence
        /\ FirstRow(rows) = next
    <3> HIDE DEF rows
    <3> QED BY <1>4, <2>1, FirstIs DEF rows
  <2>3. next \in Rows(t) /\ next.sequence > s /\ \A q \in rows : next.sequence <= q.sequence
    <3> HIDE DEF next
    <3> QED BY <2>2
  <2>4. CASE next.index >= i
    <3>1. \A q \in rows : q.index >= i
      <4> SUFFICES ASSUME NEW q \in rows PROVE q.index >= i
        OBVIOUS
      <4>1. q \in Rows(t) /\ next.sequence <= q.sequence
        BY <2>3
      <4> HIDE DEF next, rows
      <4>2. next.sequence = q.sequence => next = q
        BY <2>3, <4>1, HeldRises
      <4>3. next.sequence < q.sequence => next.index <= q.index
        BY <2>3, <4>1, HeldRises
      <4> QED BY <1>2, <2>3, <2>4, <4>1, <4>2, <4>3
    <3>2. rows = both
      <4> HIDE DEF next
      <4> QED BY <3>1
    <3> HIDE DEF next, rows, both
    <3> QED BY <1>1, <1>4, <2>2, <2>4, <3>2 DEF both
  <2>5. CASE ~(next.index >= i)
    <3>1. \A q \in past : q.sequence > s
      <4> SUFFICES ASSUME NEW q \in past PROVE q.sequence > s
        OBVIOUS
      <4>1. q \in Rows(t) /\ q.index >= i
        OBVIOUS
      <4> HIDE DEF next, past
      <4>2. next.index < q.index
        BY <1>2, <2>3, <2>5, <4>1
      <4>3. next.sequence < q.sequence
        BY <2>3, <4>1, <4>2, HeldRises
      <4> QED BY <1>0, <1>2, <2>3, <4>1, <4>3
    <3>2. past = both
      <4> HIDE DEF next
      <4> QED BY <3>1
    <3> HIDE DEF next, rows, both, past
    <3> QED BY <1>1, <1>4, <2>5, <3>2 DEF both
  <2> QED BY <2>4, <2>5
<1> QED BY <1>3, <1>4

\* The row before one is the record's previous.
LEMMA PreviousInOrder ==
  ASSUME Typed, held.rows \subseteq HeldRow, NEW t \in Int, Rows(t) = HeldBy(t), NEW i \in Int, NEW s \in Sequences
  PROVE  PreviousHeld(i, s, t) = LastRow({r \in Rows(t) : r.index <= i /\ r.sequence < s})
<1> DEFINE bound == IF i < t THEN i ELSE t
           rows == {r \in Rows(bound) : r.sequence < s}
           both == {r \in Rows(t) : r.index <= i /\ r.sequence < s}
<1>0. s # Absent
  BY KeptAssumption
<1>1. PreviousHeld(i, s, t) = IF rows = {} THEN Absent
                              ELSE CHOOSE r \in rows : \A q \in rows : q.sequence <= r.sequence
  BY <1>0 DEF PreviousHeld
<1>2. rows = both
  <2>1. \A r \in held.rows : r.index \in Int
    BY RowFacts
  <2>2. \A r \in held.rows : r.index <= bound <=> r.index <= t /\ r.index <= i
    BY <2>1
  <2> HIDE DEF bound
  <2> QED BY <2>2 DEF Rows
<1>3. both # {} => LastRow(both) = CHOOSE r \in both : \A q \in both : q.sequence <= r.sequence
  <2>1. both \subseteq HeldBy(t)
    OBVIOUS
  <2> HIDE DEF both
  <2> QED BY <2>1, LastIs
<1>4. both = {} => LastRow(both) = Absent
  BY DEF LastRow
<1>5. PreviousHeld(i, s, t) = LastRow(both)
  <2> HIDE DEF rows, both
  <2> QED BY <1>1, <1>2, <1>3, <1>4
<1> QED BY <1>5

-----------------------------------------------------------------------------
(* The invariant: what is kept is what the record says, unless the view has  *)
(* fallen behind it, when the next read discards it.                         *)

FirstSeen(through) ==
  {[index |-> FirstWitnessing(id, 0, through), identity |-> id] : id \in WitnessedIn(0, through)}

HeldSound ==
  \A t \in Int : held.through = t => held.rows = HeldBy(t) /\ held.highest = Highest(t)

AdmittedSound == \A t \in Int : admitted.through = t => admitted.rows = FirstSeen(t)

RevokedSound ==
  revoked.through # Absent =>
    IF revoked.value = Absent THEN \A v \in revocations : v > revoked.through
    ELSE /\ revoked.value \in revocations /\ revoked.value <= revoked.through
         /\ \A v \in revocations : revoked.value <= v

\* An answer not read yet holds nothing, and a read judges within the view.
Unread ==
  /\ held.through = Absent => held.rows = {} /\ held.highest = 0
  /\ admitted.through = Absent => admitted.rows = {}
  /\ revoked.through = Absent => revoked.value = Absent
  /\ session # Absent => session <= clock

AllSound == HeldSound /\ AdmittedSound /\ RevokedSound

KeptSound == KeptTypeOK /\ Unread /\ (~Behind => AllSound)

\* The view is behind what is kept exactly when an answer was read past it.
LEMMA BehindMeans ==
  Behind <=> \/ held.through # Absent /\ clock < held.through
             \/ admitted.through # Absent /\ clock < admitted.through
             \/ revoked.through # Absent /\ clock < revoked.through
BY DEF Behind, AnswersThrough

\* The index and the clock are numbers where they are not absent.
LEMMA KeptTypes ==
  ASSUME KeptTypeOK
  PROVE  /\ clock \in Int /\ clock >= 0 /\ clock <= MaxClock /\ Absent \notin Int
         /\ held.through # Absent => held.through \in Int /\ held.through >= 0 /\ held.through <= MaxClock
         /\ admitted.through # Absent =>
              admitted.through \in Int /\ admitted.through >= 0 /\ admitted.through <= MaxClock
         /\ revoked.through # Absent =>
              revoked.through \in Int /\ revoked.through >= 0 /\ revoked.through <= MaxClock
         /\ revoked.value # Absent => revoked.value \in Int /\ revoked.value >= 0
         /\ session # Absent => session \in Int /\ session >= 0 /\ session <= MaxClock
         /\ Typed /\ held.rows \subseteq HeldRow
<1>1. /\ clock \in 0..MaxClock /\ held.through \in 0..MaxClock \cup {Absent}
      /\ admitted.through \in 0..MaxClock \cup {Absent} /\ revoked.through \in 0..MaxClock \cup {Absent}
      /\ revoked.value \in 0..MaxClock \cup {Absent} /\ session \in 0..MaxClock \cup {Absent}
      /\ commitments \subseteq HeldRow /\ held.rows \subseteq HeldRow
  BY DEF KeptTypeOK
<1>2. MaxClock \in Int /\ Absent \notin Int
  BY KeptAssumption
<1> QED BY <1>1, <1>2 DEF Typed

\* What is kept soundly answers every query as the record does.
LEMMA SoundDerives == ASSUME KeptSound PROVE KeptIsDerived
<1>1. /\ clock \in Int /\ clock >= 0 /\ Absent \notin Int
      /\ held.through # Absent => held.through \in Int /\ held.through >= 0
      /\ admitted.through # Absent => admitted.through \in Int
      /\ revoked.through # Absent => revoked.through \in Int /\ revoked.through >= 0
      /\ revoked.value # Absent => revoked.value \in Int
      /\ Typed /\ held.rows \subseteq HeldRow
  BY KeptTypes DEF KeptSound
<1>2. SUFFICES ASSUME session # Absent PROVE KeptIsDerived
  BY DEF KeptIsDerived, AnswersDerived, QueriesInOrder
<1>3. AllSound
  BY <1>2 DEF KeptSound, KeptTypeOK
<1>4. ASSUME held.through # Absent, NEW t \in 0..held.through PROVE Rows(t) = HeldBy(t)
  <2>1. held.rows = HeldBy(held.through)
    BY <1>1, <1>3, <1>4 DEF AllSound, HeldSound
  <2>2. \A c \in commitments : c.index <= t => c.index <= held.through
    <3>1. \A c \in commitments : c.index \in Int
      BY <1>1, RowFacts DEF Typed
    <3> QED BY <1>1, <1>4, <3>1
  <2> QED BY <2>1, <2>2 DEF Rows, HeldBy
<1>5. ASSUME revoked.through # Absent,
             NEW t \in 0..(IF revoked.value = Absent THEN revoked.through ELSE clock)
      PROVE  RevocationAt(t) = IF revocations \cap 0..t = {} THEN Absent
                               ELSE Min(revocations \cap 0..t)
  <2>1. revocations \subseteq 0..clock
    BY DEF KeptSound, KeptTypeOK
  <2>2. CASE revoked.value = Absent
    <3>1. \A v \in revocations : v > revoked.through
      BY <1>3, <1>5, <2>2 DEF AllSound, RevokedSound
    <3>2. t \in 0..revoked.through
      BY <1>5, <2>2
    <3>3. revocations \cap 0..t = {}
      BY <1>1, <1>5, <2>1, <3>1, <3>2
    <3> QED BY <2>2, <3>3 DEF RevocationAt
  <2>3. CASE revoked.value # Absent
    <3>1. revoked.value \in revocations /\ \A v \in revocations : revoked.value <= v
      BY <1>3, <1>5, <2>3 DEF AllSound, RevokedSound
    <3>2. t \in Int
      BY <1>1, <1>5, <2>3
    <3>5. \A v \in revocations : v \in Int /\ v >= 0
      BY <1>1, <2>1
    <3>6. revoked.value \in Int /\ revoked.value >= 0
      BY <3>1, <3>5
    <3>3. CASE revoked.value <= t
      <4>0. revoked.value \in 0..t
        BY <3>2, <3>3, <3>6
      <4>1. revoked.value \in revocations \cap 0..t
        BY <3>1, <4>0
      <4>2. revocations \cap 0..t \subseteq Int
        OBVIOUS
      <4>3. Min(revocations \cap 0..t) = revoked.value
        BY <3>1, <4>1, <4>2, MinIs
      <4> QED BY <2>3, <3>3, <4>1, <4>3 DEF RevocationAt
    <3>4. CASE ~(revoked.value <= t)
      <4>0. \A v \in revocations : ~(v <= t)
        BY <3>1, <3>2, <3>4, <3>5, <3>6
      <4>1. revocations \cap 0..t = {}
        BY <3>2, <4>0
      <4> QED BY <3>4, <4>1 DEF RevocationAt
    <3> QED BY <3>3, <3>4
  <2> QED BY <2>2, <2>3
<1>6. AnswersDerived
  <2>1. admitted.through # Absent =>
          admitted.rows = {[index |-> FirstWitnessing(id, 0, admitted.through), identity |-> id] :
                             id \in WitnessedIn(0, admitted.through)}
    BY <1>1, <1>3 DEF AllSound, AdmittedSound, FirstSeen
  <2> QED BY <1>4, <1>5, <2>1 DEF AnswersDerived
<1>7. QueriesInOrder
  <2> SUFFICES ASSUME held.through # Absent,
                      NEW t \in 0..held.through, NEW i \in 0..held.through, NEW s \in Sequences
               PROVE  /\ NextHeld(i, s, t) = FirstRow({r \in Rows(t) : r.index >= i /\ r.sequence > s})
                      /\ PreviousHeld(i, s, t) = LastRow({r \in Rows(t) : r.index <= i /\ r.sequence < s})
    BY DEF QueriesInOrder
  <2>1. t \in Int /\ i \in Int
    BY <1>1
  <2>2. Rows(t) = HeldBy(t)
    BY <1>4
  <2> QED BY <1>1, <2>1, <2>2, NextInOrder, PreviousInOrder
<1> QED BY <1>6, <1>7 DEF KeptIsDerived

-----------------------------------------------------------------------------
(* The steps.                                                                *)

\* What the record says through an index is unmoved where its records through
\* it are.
LEMMA HeldAlike ==
  ASSUME Typed, Typed', NEW CONSTANT t \in Int,
         \A c : c \in commitments' /\ c.index <= t <=> c \in commitments /\ c.index <= t
  PROVE  HeldBy(t)' = HeldBy(t) /\ Highest(t)' = Highest(t)
<1>1. \A c \in commitments : c.index \in Int
  BY RowFacts DEF Typed
<1>2. \A c \in commitments' : c.index \in Int
  BY RowFacts DEF Typed
<1>3. ASSUME NEW c, c \in commitments, c \in commitments', c.index <= t
      PROVE  c \in HeldBy(t)' <=> c \in HeldBy(t)
  <2>1. \A d : d \in commitments' /\ d.index < c.index <=> d \in commitments /\ d.index < c.index
    BY <1>1, <1>2, <1>3
  <2>2. \A d : d \in commitments' /\ d.index = c.index <=> d \in commitments /\ d.index = c.index
    BY <1>3
  <2> QED BY <1>3, <2>1, <2>2 DEF HeldBy
<1>4. HeldBy(t)' = HeldBy(t)
  <2>1. \A c \in HeldBy(t) : c \in commitments /\ c.index <= t
    BY DEF HeldBy
  <2>2. \A c \in HeldBy(t)' : c \in commitments' /\ c.index <= t
    BY DEF HeldBy
  <2> QED BY <1>3, <2>1, <2>2
<1>5. {d \in commitments' : d.index <= t} = {d \in commitments : d.index <= t}
  OBVIOUS
<1>6. SequencesUpto(t)' = SequencesUpto(t)
  BY <1>5 DEF SequencesUpto
<1>7. Highest(t)' = Highest(t)
  BY <1>6 DEF Highest
<1> QED BY <1>4, <1>7

\* So is what it says was witnessed first.
LEMMA SeenAlike ==
  ASSUME NEW CONSTANT t \in Int, replacements \subseteq Admission, replacements' \subseteq Admission,
         \A r : r \in replacements' /\ r.index <= t <=> r \in replacements /\ r.index <= t
  PROVE  FirstSeen(t)' = FirstSeen(t)
<1>1. \A r \in replacements : r.index \in Int /\ r.index >= 0
  BY KeptAssumption DEF Admission
<1>2. \A r \in replacements' : r.index \in Int /\ r.index >= 0
  BY KeptAssumption DEF Admission
<1>3. {q \in replacements' : q.index \in 0..t} = {q \in replacements : q.index \in 0..t}
  BY <1>1, <1>2
<1>4. \A id : {q \in replacements' : q.identity = id /\ q.index \in 0..t}
                = {q \in replacements : q.identity = id /\ q.index \in 0..t}
  BY <1>3
<1>5. \A id : FirstWitnessing(id, 0, t)' = FirstWitnessing(id, 0, t)
  BY <1>4 DEF FirstWitnessing
<1>6. WitnessedIn(0, t)' = WitnessedIn(0, t)
  BY <1>3 DEF WitnessedIn
<1> QED BY <1>5, <1>6 DEF FirstSeen

\* Before the first index the record holds nothing.
LEMMA NothingBefore ==
  ASSUME Typed, replacements \subseteq Admission
  PROVE  HeldBy(-1) = {} /\ Highest(-1) = 0 /\ FirstSeen(-1) = {}
<1>1. \A c \in commitments : ~(c.index <= -1)
  BY RowFacts DEF Typed
<1>2. HeldBy(-1) = {}
  BY <1>1 DEF HeldBy
<1>3. Highest(-1) = 0
  <2>1. -1 \in Int
    OBVIOUS
  <2> QED BY <1>1, <2>1, HighestMeans
<1>4. 0..(-1) = {}
  OBVIOUS
<1>5. WitnessedIn(0, -1) = {}
  BY <1>4 DEF WitnessedIn
<1> QED BY <1>2, <1>3, <1>5 DEF FirstSeen

\* Where neither the view nor the kept file changes, neither does what is known.
LEMMA SoundStays ==
  ASSUME UNCHANGED <<view, store>> PROVE AllSound' <=> AllSound
BY DEF AllSound, HeldSound, AdmittedSound, RevokedSound, store, view,
  HeldBy, Highest, SequencesUpto, FirstSeen, FirstWitnessing, WitnessedIn

\* Opening a file ahead of its view discards it, and keeps it otherwise.
LEMMA OpenKeeps == ASSUME KeptSound, Open PROVE KeptSound'
<1>1. UNCHANGED view /\ session' \in 0..clock /\ session = Absent /\ clock' = clock
  BY DEF Open, view
<1>2. clock \in Int /\ clock <= MaxClock /\ MaxClock \in Int /\ Absent \notin Int
  BY KeptTypes, KeptAssumption DEF KeptSound
<1>3. session' \in 0..MaxClock /\ session' <= clock
  BY <1>1, <1>2
<1>4. CASE Behind
  <2>1. held' = NothingHeld /\ admitted' = NothingAdmitted /\ revoked' = NothingRevoked
    BY <1>4 DEF Open, DiscardKeptAfter
  <2>2. /\ held'.through = Absent /\ held'.rows = {} /\ held'.highest = 0
        /\ admitted'.through = Absent /\ admitted'.rows = {}
        /\ revoked'.through = Absent /\ revoked'.value = Absent
    BY <2>1 DEF NothingHeld, NothingAdmitted, NothingRevoked
  <2>3. ~Behind'
    BY <2>2 DEF Behind, AnswersThrough
  <2>4. AllSound'
    BY <1>2, <2>2 DEF AllSound, HeldSound, AdmittedSound, RevokedSound
  <2>5. Unread'
    BY <1>1, <1>3, <2>2 DEF Unread
  <2>6. KeptTypeOK'
    BY <1>1, <1>3, <2>1, <2>3 DEF KeptSound, KeptTypeOK, view, NothingHeld, NothingAdmitted, NothingRevoked
  <2> QED BY <2>4, <2>5, <2>6 DEF KeptSound
<1>5. CASE ~Behind
  <2>1. UNCHANGED store
    BY <1>5 DEF Open, DiscardKeptAfter
  <2>2. ~Behind'
    BY <1>1, <1>5, <2>1 DEF Behind, AnswersThrough, store
  <2>3. AllSound
    BY <1>5 DEF KeptSound
  <2>4. AllSound'
    BY <1>1, <2>1, <2>3, SoundStays
  <2>5. Unread'
    BY <1>1, <1>3, <2>1 DEF KeptSound, Unread, store
  <2>6. KeptTypeOK'
    BY <1>1, <1>3, <2>1, <2>2 DEF KeptSound, KeptTypeOK, store, view
  <2> QED BY <2>4, <2>5, <2>6 DEF KeptSound
<1> QED BY <1>4, <1>5

\* A read that ends and a step that changes nothing keep everything.
LEMMA CloseKeeps ==
  ASSUME KeptSound, UNCHANGED <<view, store>>, session' = session \/ session' = Absent
  PROVE  KeptSound'
<1>1. Behind' <=> Behind
  BY DEF Behind, AnswersThrough, store, view
<1>2. AllSound' <=> AllSound
  BY SoundStays
<1>3. Unread'
  BY DEF KeptSound, Unread, store, view
<1>4. KeptTypeOK'
  BY <1>1 DEF KeptSound, KeptTypeOK, store, view
<1> QED BY <1>1, <1>2, <1>3, <1>4 DEF KeptSound

\* A read of held commitments extends what is kept to the judging index.
LEMMA ReadHeldKeeps == ASSUME KeptSound, ReadHeld PROVE KeptSound'
<1> DEFINE from == From(held.through)
<1>1. /\ UNCHANGED view /\ UNCHANGED <<admitted, revoked, session>> /\ session # Absent
      /\ clock' = clock /\ commitments' = commitments
  BY DEF ReadHeld, view
<1>2. PICK cuts \in Windows(from) :
        LET read == HeldWindows(from, cuts, held.highest)
        IN  held' = [through |-> session, highest |-> read.highest, rows |-> held.rows \cup read.rows]
  BY DEF ReadHeld
<1>3. /\ clock \in Int /\ Absent \notin Int /\ session \in Int /\ session >= 0 /\ session <= clock
      /\ held.through # Absent => held.through \in Int /\ held.through >= 0
      /\ Typed /\ held.rows \subseteq HeldRow
  BY <1>1, KeptTypes DEF KeptSound, Unread
<1>4. ~Behind /\ AllSound
  BY <1>1 DEF KeptSound, KeptTypeOK
<1>5. from \in Int /\ held.rows = HeldBy(from - 1) /\ held.highest = Highest(from - 1)
  <2>1. CASE held.through = Absent
    <3>1. from = 0 /\ from - 1 = -1
      BY <2>1 DEF From
    <3>2. held.rows = {} /\ held.highest = 0
      BY <2>1 DEF KeptSound, Unread
    <3>3. HeldBy(-1) = {} /\ Highest(-1) = 0
      BY <1>3, NothingBefore DEF KeptSound, KeptTypeOK
    <3> HIDE DEF from
    <3> QED BY <3>1, <3>2, <3>3
  <2>2. CASE held.through # Absent
    <3>1. from = held.through + 1 /\ held.through \in Int
      BY <1>3, <2>2 DEF From
    <3>2. from \in Int /\ from - 1 = held.through
      <4> HIDE DEF from
      <4> QED BY <3>1
    <3>3. held.rows = HeldBy(held.through) /\ held.highest = Highest(held.through)
      BY <1>3, <1>4, <2>2 DEF AllSound, HeldSound
    <3> HIDE DEF from
    <3> QED BY <3>2, <3>3
  <2> QED BY <2>1, <2>2
<1> HIDE DEF from
<1>6. cuts \subseteq from..session /\ session \in cuts /\ from <= session
  <2>1. cuts \subseteq from..session /\ session \in cuts
    BY DEF Windows
  <2> QED BY <1>3, <1>5, <2>1
<1>7. HeldWindows(from, cuts, held.highest) = Answer(from, session)
  <2>1. HeldWindows(from, cuts, Highest(from - 1)) = Answer(from, session)
    BY <1>3, <1>5, <1>6, AnyWindows
  <2> QED BY <1>5, <2>1
<1>8. HeldBy(from - 1) \cup HeldFrom(from, session) = HeldBy(session)
  <2>1. \A c \in commitments : c.index <= session <=> c.index <= from - 1 \/ (c.index >= from /\ c.index <= session)
    <3>1. \A c \in commitments : c.index \in Int
      BY <1>3, RowFacts DEF Typed
    <3> QED BY <1>3, <1>5, <1>6, <3>1
  <2> QED BY <2>1 DEF HeldFrom, HeldBy
<1>9. held' = [through |-> session, highest |-> Highest(session), rows |-> HeldBy(session)]
  <2>1. HeldWindows(from, cuts, held.highest).rows = HeldFrom(from, session)
        /\ HeldWindows(from, cuts, held.highest).highest = Highest(session)
    BY <1>7 DEF Answer
  <2> QED BY <1>2, <1>5, <1>8, <2>1
<1>10. ~Behind'
  <2>1. held'.through = session
    BY <1>9
  <2> QED BY <1>1, <1>3, <1>4, <2>1 DEF Behind, AnswersThrough
<1>11. AllSound'
  <2>1. HeldSound'
    BY <1>1, <1>9 DEF HeldSound, HeldBy, Highest, SequencesUpto
  <2>2. AdmittedSound' /\ RevokedSound'
    BY <1>1, <1>4 DEF AllSound, AdmittedSound, RevokedSound, view, FirstSeen, FirstWitnessing, WitnessedIn
  <2> QED BY <2>1, <2>2 DEF AllSound
<1>12. Unread'
  BY <1>1, <1>9 DEF KeptSound, Unread
<1>13. KeptTypeOK'
  <2>1. held' \in [through : 0..MaxClock \cup {Absent}, highest : Sequences \cup {0}, rows : SUBSET HeldRow]
    <3>1. session \in 0..MaxClock \cup {Absent} /\ HeldBy(session) \subseteq HeldRow
      BY <1>3 DEF KeptSound, KeptTypeOK, HeldBy, Typed
    <3>2. Highest(session) \in Sequences \cup {0}
      BY <1>3, HighestIs
    <3> QED BY <1>9, <3>1, <3>2
  <2> QED BY <1>1, <1>10, <2>1 DEF KeptSound, KeptTypeOK, view
<1> QED BY <1>11, <1>12, <1>13 DEF KeptSound

\* Rows read past an index are added only for the identities not kept yet, at
\* their first entry: together they are what the record witnessed first.
LEMMA PutIs ==
  ASSUME replacements \subseteq Admission, NEW from \in Int, NEW t \in Int, 0 <= from, from <= t + 1,
         admitted.rows = FirstSeen(from - 1)
  PROVE  PutReplacements(from, t) = FirstSeen(t) /\ FirstSeen(t) \subseteq Admission
<1> DEFINE At(id, a, b) == {r.index : r \in {q \in replacements : q.identity = id /\ q.index \in a..b}}
<1>0. \A r \in replacements : r.index \in Int /\ 0 <= r.index /\ r.index <= MaxClock /\ r.identity \in Identities
  BY KeptAssumption DEF Admission
<1>1. \A id, a, b : FirstWitnessing(id, a, b) = Min(At(id, a, b))
  BY DEF FirstWitnessing
<1>2. ASSUME NEW id, NEW a \in Int, NEW b \in Int, At(id, a, b) # {}
      PROVE  \E m \in At(id, a, b) : \A y \in At(id, a, b) : m <= y
  <2>1. At(id, a, b) \subseteq Int /\ 0 \in Int /\ \A y \in At(id, a, b) : 0 <= y
    BY <1>0
  <2> HIDE DEF At
  <2> QED BY <1>2, <2>1, LeastFrom
<1>3. {r.identity : r \in admitted.rows} = WitnessedIn(0, from - 1)
  <2> DEFINE ids == WitnessedIn(0, from - 1)
             Row(id) == [index |-> FirstWitnessing(id, 0, from - 1), identity |-> id]
  <2>1. admitted.rows = {Row(id) : id \in ids}
    BY DEF FirstSeen
  <2>2. \A id : Row(id).identity = id
    OBVIOUS
  <2> HIDE DEF ids, Row
  <2>3. {r.identity : r \in admitted.rows} = ids
    BY <2>1, <2>2
  <2> QED BY <2>3 DEF ids
<1>4. ASSUME NEW id \in WitnessedIn(0, from - 1)
      PROVE  FirstWitnessing(id, 0, from - 1) = FirstWitnessing(id, 0, t)
  <2>1. At(id, 0, from - 1) # {}
    BY DEF WitnessedIn
  <2>2. PICK m \in At(id, 0, from - 1) : \A y \in At(id, 0, from - 1) : m <= y
    <3> HIDE DEF At
    <3> QED BY <1>2, <2>1
  <2>3. m \in Int /\ m <= from - 1
    BY <1>0
  <2>4. m \in At(id, 0, t)
    <3>1. \A q \in replacements : q.index \in 0..(from - 1) => q.index \in 0..t
      BY <1>0
    <3> QED BY <3>1
  <2>5. ASSUME NEW y \in At(id, 0, t) PROVE m <= y
    <3>1. PICK q \in replacements : q.identity = id /\ q.index \in 0..t /\ y = q.index
      BY <2>5
    <3>2. CASE y <= from - 1
      <4>1. y \in At(id, 0, from - 1)
        BY <1>0, <3>1, <3>2
      <4> QED BY <2>2, <4>1
    <3>3. CASE ~(y <= from - 1)
      BY <1>0, <2>3, <3>1, <3>3
    <3> QED BY <3>2, <3>3
  <2>6. At(id, 0, t) \subseteq Int /\ At(id, 0, from - 1) \subseteq Int
    BY <1>0
  <2> HIDE DEF At
  <2>7. Min(At(id, 0, t)) = m
    BY <2>4, <2>5, <2>6, MinIs
  <2>8. Min(At(id, 0, from - 1)) = m
    BY <2>2, <2>6, MinIs
  <2> QED BY <1>1, <2>7, <2>8
<1>5. ASSUME NEW id, id \notin WitnessedIn(0, from - 1)
      PROVE  FirstWitnessing(id, from, t) = FirstWitnessing(id, 0, t)
  <2>1. \A q \in replacements : q.identity = id => ~(q.index \in 0..(from - 1))
    BY <1>5 DEF WitnessedIn
  <2>2. \A q \in replacements : q.identity = id => (q.index \in from..t <=> q.index \in 0..t)
    BY <1>0, <2>1
  <2>3. {q \in replacements : q.identity = id /\ q.index \in from..t}
          = {q \in replacements : q.identity = id /\ q.index \in 0..t}
    BY <2>2
  <2> QED BY <2>3 DEF FirstWitnessing
<1>6. WitnessedIn(0, t) = WitnessedIn(0, from - 1) \cup (WitnessedIn(from, t) \ WitnessedIn(0, from - 1))
  <2>1. \A q \in replacements : q.index \in 0..t <=> q.index \in 0..(from - 1) \/ q.index \in from..t
    BY <1>0
  <2> QED BY <2>1 DEF WitnessedIn
<1>7. PutReplacements(from, t) = FirstSeen(t)
  <2> DEFINE new == WitnessedIn(from, t) \ WitnessedIn(0, from - 1)
  <2>1. PutReplacements(from, t) =
          FirstSeen(from - 1) \cup {[index |-> FirstWitnessing(id, from, t), identity |-> id] : id \in new}
    BY <1>3 DEF PutReplacements
  <2>2. {[index |-> FirstWitnessing(id, from, t), identity |-> id] : id \in new}
          = {[index |-> FirstWitnessing(id, 0, t), identity |-> id] : id \in new}
    BY <1>5
  <2>3. FirstSeen(from - 1) = {[index |-> FirstWitnessing(id, 0, t), identity |-> id] : id \in WitnessedIn(0, from - 1)}
    BY <1>4 DEF FirstSeen
  <2>4. WitnessedIn(0, t) = WitnessedIn(0, from - 1) \cup new
    BY <1>6
  <2> HIDE DEF new
  <2> QED BY <2>1, <2>2, <2>3, <2>4 DEF FirstSeen
<1>8. FirstSeen(t) \subseteq Admission
  <2> SUFFICES ASSUME NEW id \in WitnessedIn(0, t)
               PROVE  FirstWitnessing(id, 0, t) \in 0..MaxClock /\ id \in Identities
    BY DEF FirstSeen, Admission
  <2>1. At(id, 0, t) # {} /\ id \in Identities
    BY <1>0 DEF WitnessedIn
  <2>2. PICK m \in At(id, 0, t) : \A y \in At(id, 0, t) : m <= y
    <3> HIDE DEF At
    <3>1. 0 \in Int
      OBVIOUS
    <3> QED BY <1>2, <2>1, <3>1
  <2>3. At(id, 0, t) \subseteq Int /\ m \in 0..MaxClock
    BY <1>0, KeptAssumption
  <2>4. FirstWitnessing(id, 0, t) = m
    <3> HIDE DEF At
    <3> QED BY <1>1, <2>2, <2>3, MinIs
  <2> QED BY <2>1, <2>3, <2>4
<1> QED BY <1>7, <1>8

\* A read of replacements keeps each at its first entry.
LEMMA ReadReplacementsKeeps == ASSUME KeptSound, ReadReplacements PROVE KeptSound'
<1> DEFINE from == From(admitted.through)
<1>1. /\ UNCHANGED view /\ UNCHANGED <<held, revoked, session>> /\ session # Absent
      /\ clock' = clock /\ replacements' = replacements
      /\ admitted' = [through |-> session, rows |-> PutReplacements(from, session)]
      /\ Extends(admitted.through)
  BY DEF ReadReplacements, view
<1>3. /\ clock \in Int /\ Absent \notin Int /\ session \in Int /\ session >= 0 /\ session <= clock
      /\ session <= MaxClock
      /\ admitted.through # Absent => admitted.through \in Int /\ admitted.through >= 0
      /\ Typed /\ replacements \subseteq Admission
  BY <1>1, KeptTypes DEF KeptSound, Unread, KeptTypeOK
<1>4. ~Behind /\ AllSound
  BY <1>1 DEF KeptSound, KeptTypeOK
<1>5. from \in Int /\ 0 <= from /\ from <= session + 1 /\ admitted.rows = FirstSeen(from - 1)
  <2>1. CASE admitted.through = Absent
    <3>1. from = 0 /\ from - 1 = -1
      BY <2>1 DEF From
    <3>2. admitted.rows = {}
      BY <2>1 DEF KeptSound, Unread
    <3>3. FirstSeen(-1) = {}
      BY <1>3, NothingBefore
    <3> HIDE DEF from
    <3> QED BY <1>3, <3>1, <3>2, <3>3
  <2>2. CASE admitted.through # Absent
    <3>1. from = admitted.through + 1 /\ admitted.through \in Int /\ admitted.through >= 0
      BY <1>3, <2>2 DEF From
    <3>2. admitted.through < session
      BY <1>1, <2>2 DEF Extends
    <3>3. from \in Int /\ from - 1 = admitted.through /\ 0 <= from /\ from <= session + 1
      <4> HIDE DEF from
      <4> QED BY <1>3, <3>1, <3>2
    <3>4. admitted.rows = FirstSeen(admitted.through)
      BY <1>3, <1>4, <2>2 DEF AllSound, AdmittedSound
    <3> HIDE DEF from
    <3> QED BY <3>3, <3>4
  <2> QED BY <2>1, <2>2
<1> HIDE DEF from
<1>6. PutReplacements(from, session) = FirstSeen(session) /\ FirstSeen(session) \subseteq Admission
  BY <1>3, <1>5, PutIs
<1>7. admitted' = [through |-> session, rows |-> FirstSeen(session)]
  BY <1>1, <1>6
<1>8. ~Behind'
  <2>1. admitted'.through = session
    BY <1>7
  <2> QED BY <1>1, <1>3, <1>4, <2>1 DEF Behind, AnswersThrough
<1>9. AllSound'
  <2>1. AdmittedSound'
    <3> SUFFICES ASSUME NEW CONSTANT t \in Int, admitted'.through = t
                 PROVE  admitted'.rows = FirstSeen(t)'
      BY DEF AdmittedSound
    <3>1. t = session /\ admitted'.rows = FirstSeen(t)
      BY <1>7
    <3>2. FirstSeen(t)' = FirstSeen(t)
      BY <1>1, <1>3, SeenAlike
    <3> QED BY <3>1, <3>2
  <2>2. HeldSound' /\ RevokedSound'
    BY <1>1, <1>4 DEF AllSound, HeldSound, RevokedSound, view, HeldBy, Highest, SequencesUpto
  <2> QED BY <2>1, <2>2 DEF AllSound
<1>10. Unread'
  BY <1>1, <1>7 DEF KeptSound, Unread
<1>11. KeptTypeOK'
  <2>1. admitted' \in [through : 0..MaxClock \cup {Absent}, rows : SUBSET Admission]
    BY <1>3, <1>6, <1>7, KeptAssumption
  <2> QED BY <1>1, <1>8, <2>1 DEF KeptSound, KeptTypeOK, view
<1> QED BY <1>9, <1>10, <1>11 DEF KeptSound

\* A read of revocations finds the first past what was read, and none is before.
LEMMA ReadRevocationKeeps == ASSUME KeptSound, ReadRevocation PROVE KeptSound'
<1> DEFINE from == From(revoked.through)
           found == revocations \cap from..session
<1>1. /\ UNCHANGED view /\ UNCHANGED <<held, admitted, session>> /\ session # Absent
      /\ clock' = clock /\ revocations' = revocations /\ revoked.value = Absent
      /\ revoked' = [through |-> session, value |-> IF found = {} THEN Absent ELSE Min(found)]
  BY DEF ReadRevocation, view
<1>3. /\ clock \in Int /\ Absent \notin Int /\ session \in Int /\ session >= 0 /\ session <= clock
      /\ clock <= MaxClock /\ MaxClock \in Int
      /\ revoked.through # Absent => revoked.through \in Int /\ revoked.through >= 0
  BY <1>1, KeptTypes, KeptAssumption DEF KeptSound, Unread
<1>4. ~Behind /\ AllSound
  BY <1>1 DEF KeptSound, KeptTypeOK
<1>0. \A v \in revocations : v \in Int /\ v >= 0 /\ v <= clock
  BY <1>3 DEF KeptSound, KeptTypeOK
<1>5. from \in Int /\ \A v \in revocations : v >= from
  <2>1. CASE revoked.through = Absent
    <3>1. from = 0
      BY <2>1 DEF From
    <3> HIDE DEF from
    <3> QED BY <1>0, <3>1
  <2>2. CASE revoked.through # Absent
    <3>1. from = revoked.through + 1 /\ revoked.through \in Int
      BY <1>3, <2>2 DEF From
    <3>2. \A v \in revocations : v > revoked.through
      BY <1>1, <1>4, <2>2 DEF AllSound, RevokedSound
    <3> HIDE DEF from
    <3> QED BY <1>0, <3>1, <3>2
  <2> QED BY <2>1, <2>2
<1>6. \/ revoked'.value = Absent /\ \A v \in revocations : v > session
      \/ /\ revoked'.value \in revocations /\ revoked'.value <= session
         /\ \A v \in revocations : revoked'.value <= v
  <2> HIDE DEF from
  <2>1. CASE found = {}
    <3>1. revoked'.value = Absent
      BY <1>1, <2>1
    <3>2. \A v \in revocations : v > session
      BY <1>0, <1>3, <1>5, <2>1
    <3> QED BY <3>1, <3>2
  <2>2. CASE found # {}
    <3>1. found \subseteq Int /\ 0 \in Int /\ \A v \in found : 0 <= v
      BY <1>0
    <3>2. PICK m \in found : \A v \in found : m <= v
      <4> HIDE DEF found
      <4> QED BY <2>2, <3>1, LeastFrom
    <3>3. revoked'.value = Min(found)
      BY <1>1, <2>2
    <3>4. Min(found) = m
      <4> HIDE DEF found
      <4> QED BY <3>1, <3>2, MinIs
    <3>5. m \in revocations /\ m \in Int /\ m <= session
      BY <1>3, <1>5, <3>2
    <3>6. ASSUME NEW v \in revocations PROVE m <= v
      <4>1. CASE v \in found
        BY <3>2, <4>1
      <4>2. CASE v \notin found
        <5>1. v > session
          BY <1>0, <1>3, <1>5, <4>2
        <5> QED BY <1>0, <1>3, <3>5, <5>1
      <4> QED BY <4>1, <4>2
    <3> QED BY <3>3, <3>4, <3>5, <3>6
  <2> QED BY <2>1, <2>2
<1>7. revoked'.through = session
  BY <1>1
<1>8. ~Behind'
  BY <1>1, <1>3, <1>4, <1>7 DEF Behind, AnswersThrough
<1>9. AllSound'
  <2>1. RevokedSound'
    <3>1. Absent \notin revocations
      BY <1>0, <1>3
    <3> QED BY <1>1, <1>6, <1>7, <3>1 DEF RevokedSound
  <2>2. HeldSound' /\ AdmittedSound'
    BY <1>1, <1>4 DEF AllSound, HeldSound, AdmittedSound, view, HeldBy, Highest, SequencesUpto,
      FirstSeen, FirstWitnessing, WitnessedIn
  <2> QED BY <2>1, <2>2 DEF AllSound
<1>10. Unread'
  BY <1>1, <1>7 DEF KeptSound, Unread
<1>11. KeptTypeOK'
  <2>1. revoked'.value \in 0..MaxClock \cup {Absent} /\ session \in 0..MaxClock
    BY <1>0, <1>3, <1>6
  <2>2. revoked' \in [through : 0..MaxClock \cup {Absent}, value : 0..MaxClock \cup {Absent}]
    <3>1. revoked' = [through |-> session, value |-> revoked'.value]
      BY <1>1
    <3> QED BY <2>1, <3>1
  <2> QED BY <1>1, <1>8, <2>2 DEF KeptSound, KeptTypeOK, view
<1> QED BY <1>9, <1>10, <1>11 DEF KeptSound

\* The view changes only past every index read through, or leaves what is kept
\* ahead of it.
LEMMA ViewKeeps ==
  ASSUME KeptSound, UNCHANGED <<store, session>>, clock' \in Int,
         commitments' \subseteq HeldRow, replacements' \subseteq Admission, revocations' \subseteq Int,
         NEW CONSTANT k \in Int, k >= 0, k <= clock, k <= clock',
         \A c : c \in commitments' /\ c.index <= k <=> c \in commitments /\ c.index <= k,
         \A r : r \in replacements' /\ r.index <= k <=> r \in replacements /\ r.index <= k,
         \A v : v \in revocations' /\ v <= k <=> v \in revocations /\ v <= k,
         held.through \in Int => held.through <= k,
         admitted.through \in Int => admitted.through <= k,
         revoked.through \in Int => revoked.through <= k
  PROVE  AllSound'
<1>1. /\ held' = held /\ admitted' = admitted /\ revoked' = revoked
  BY DEF store
<1>2. /\ held.through \in Int => held.through <= k /\ held.through <= clock
      /\ admitted.through \in Int => admitted.through <= k /\ admitted.through <= clock
      /\ revoked.through \in Int => revoked.through <= k /\ revoked.through <= clock
      /\ clock \in Int /\ Absent \notin Int /\ Typed
      /\ revoked.through # Absent => revoked.through \in Int
  BY KeptTypes DEF KeptSound
<1>3. AllSound
  <2>1. ~Behind
    BY <1>2, KeptTypes, BehindMeans DEF KeptSound
  <2> QED BY <2>1 DEF KeptSound
<1>4. HeldSound'
  <2> SUFFICES ASSUME NEW CONSTANT t \in Int, held'.through = t
               PROVE  held'.rows = HeldBy(t)' /\ held'.highest = Highest(t)'
    BY DEF HeldSound
  <2>1. t <= k /\ held.rows = HeldBy(t) /\ held.highest = Highest(t)
    BY <1>1, <1>2, <1>3 DEF AllSound, HeldSound
  <2>2. Typed'
    BY DEF Typed
  <2>3. \A c \in commitments \cup commitments' : c.index \in Int
    BY <1>2, RowFacts DEF Typed
  <2>4. \A c : c \in commitments' /\ c.index <= t <=> c \in commitments /\ c.index <= t
    BY <2>1, <2>3
  <2>5. HeldBy(t)' = HeldBy(t) /\ Highest(t)' = Highest(t)
    BY <1>2, <2>2, <2>4, HeldAlike
  <2> QED BY <1>1, <2>1, <2>5
<1>5. AdmittedSound'
  <2> SUFFICES ASSUME NEW CONSTANT t \in Int, admitted'.through = t
               PROVE  admitted'.rows = FirstSeen(t)'
    BY DEF AdmittedSound
  <2>1. t <= k /\ admitted.rows = FirstSeen(t)
    BY <1>1, <1>2, <1>3 DEF AllSound, AdmittedSound
  <2>2. replacements \subseteq Admission
    BY DEF KeptSound, KeptTypeOK
  <2>3. \A r \in replacements \cup replacements' : r.index \in Int
    BY <2>2, KeptAssumption DEF Admission
  <2>4. \A r : r \in replacements' /\ r.index <= t <=> r \in replacements /\ r.index <= t
    BY <2>1, <2>3
  <2>5. FirstSeen(t)' = FirstSeen(t)
    BY <2>2, <2>4, SeenAlike
  <2> QED BY <1>1, <2>1, <2>5
<1>6. RevokedSound'
  <2> SUFFICES ASSUME revoked.through # Absent
               PROVE  IF revoked.value = Absent THEN \A v \in revocations' : v > revoked.through
                      ELSE /\ revoked.value \in revocations' /\ revoked.value <= revoked.through
                           /\ \A v \in revocations' : revoked.value <= v
    BY <1>1 DEF RevokedSound
  <2>1. revoked.through \in Int /\ revoked.through <= k
    BY <1>2
  <2>2. IF revoked.value = Absent THEN \A v \in revocations : v > revoked.through
        ELSE /\ revoked.value \in revocations /\ revoked.value <= revoked.through
             /\ \A v \in revocations : revoked.value <= v
    BY <1>3 DEF AllSound, RevokedSound
  <2>3. revocations \subseteq Int
    BY DEF KeptSound, KeptTypeOK
  <2>4. \A v \in revocations' : v \in revocations \/ v > k
    BY <2>3
  <2>5. CASE revoked.value = Absent
    BY <2>1, <2>2, <2>3, <2>4, <2>5
  <2>6. CASE revoked.value # Absent
    <3>1. revoked.value \in revocations /\ revoked.value <= revoked.through /\ revoked.value \in Int
          /\ \A v \in revocations : revoked.value <= v
      BY <2>2, <2>3, <2>6
    <3>2. revoked.value <= k
      BY <2>1, <3>1
    <3>3. revoked.value \in revocations'
      BY <3>1, <3>2
    <3>4. \A v \in revocations' : revoked.value <= v
      BY <2>4, <3>1, <3>2
    <3> QED BY <2>6, <3>1, <3>3, <3>4
  <2> QED BY <2>5, <2>6
<1> QED BY <1>4, <1>5, <1>6 DEF AllSound

\* A view that grows stays behind what is kept if it was, and otherwise grows
\* past it.
LEMMA ViewGrowsKeeps == ASSUME KeptSound, ViewGrows PROVE KeptSound'
<1>1. PICK cs \in SUBSET [index : {clock + 1}, sequence : Sequences, root : Roots],
           rs \in SUBSET [index : {clock + 1}, identity : Identities], vs \in SUBSET {clock + 1} :
        /\ commitments' = commitments \cup cs
        /\ replacements' = replacements \cup rs
        /\ revocations' = revocations \cup vs
  BY DEF ViewGrows
<1>2. /\ clock < MaxClock /\ clock' = clock + 1 /\ UNCHANGED <<store, session>>
      /\ Behind => clock + 1 < Max(AnswersThrough)
  BY DEF ViewGrows
<1>3. /\ clock \in Int /\ clock >= 0 /\ MaxClock \in Int /\ Absent \notin Int
      /\ held.through # Absent => held.through \in Int
      /\ admitted.through # Absent => admitted.through \in Int
      /\ revoked.through # Absent => revoked.through \in Int
      /\ session # Absent => session \in Int
  BY KeptTypes, KeptAssumption DEF KeptSound
<1>0. held' = held /\ admitted' = admitted /\ revoked' = revoked /\ session' = session
  BY <1>2 DEF store
<1>4. /\ commitments \subseteq HeldRow /\ replacements \subseteq Admission /\ revocations \subseteq 0..clock
      /\ \A r \in commitments \cup replacements : r.index <= clock
  BY DEF KeptSound, KeptTypeOK
<1>5. clock + 1 \in 0..MaxClock
  BY <1>2, <1>3
<1>6. /\ \A c \in cs : c \in HeldRow /\ c.index = clock + 1
      /\ \A r \in rs : r \in Admission /\ r.index = clock + 1
  BY <1>5 DEF HeldRow, Admission
<1>7. commitments' \subseteq HeldRow /\ replacements' \subseteq Admission /\ revocations' \subseteq 0..clock'
  <2>1. revocations' \subseteq 0..(clock + 1)
    BY <1>1, <1>3, <1>4
  <2> QED BY <1>1, <1>2, <1>4, <1>6, <2>1
<1>8. \A r \in commitments' \cup replacements' : r.index <= clock'
  <2>1. \A r \in commitments \cup replacements : r.index \in Int
    BY <1>4, RowFacts, KeptAssumption DEF Admission
  <2>2. \A r \in commitments \cup replacements : r.index <= clock + 1
    BY <1>3, <1>4, <2>1
  <2>3. \A r \in cs \cup rs : r.index <= clock + 1
    BY <1>3, <1>6
  <2>4. \A r \in commitments' \cup replacements' : r \in commitments \cup replacements \/ r \in cs \cup rs
    BY <1>1
  <2> QED BY <1>2, <2>2, <2>3, <2>4
<1>9. Behind => Behind'
  <2> SUFFICES ASSUME Behind PROVE Behind'
    OBVIOUS
  <2>1. AnswersThrough \subseteq Int /\ AnswersThrough # {}
    BY <1>3 DEF AnswersThrough, Behind
  <2>2. IsFiniteSet(AnswersThrough)
    <3>1. IsFiniteSet({held.through}) /\ IsFiniteSet({admitted.through}) /\ IsFiniteSet({revoked.through})
      BY FS_Singleton
    <3>2. IsFiniteSet({held.through} \cup {admitted.through})
      BY <3>1, FS_Union
    <3>3. IsFiniteSet(({held.through} \cup {admitted.through}) \cup {revoked.through})
      BY <3>1, <3>2, FS_Union
    <3>4. AnswersThrough \subseteq ({held.through} \cup {admitted.through}) \cup {revoked.through}
      BY DEF AnswersThrough
    <3> QED BY <3>3, <3>4, FS_Subset
  <2>3. Max(AnswersThrough) \in AnswersThrough
    BY <2>1, <2>2, Greatest
  <2>4. AnswersThrough' = AnswersThrough
    BY <1>0 DEF AnswersThrough
  <2>5. clock' < Max(AnswersThrough)
    BY <1>2
  <2> QED BY <2>3, <2>4, <2>5 DEF Behind
<1>10. ~Behind => ~Behind'
  BY <1>0, <1>2, <1>3, BehindMeans DEF Behind, AnswersThrough
<1>11. ~Behind' => AllSound'
  <2> SUFFICES ASSUME ~Behind PROVE AllSound'
    BY <1>9
  <2>1. PICK k : k = clock
    OBVIOUS
  <2>2. /\ \A c : c \in commitments' /\ c.index <= k <=> c \in commitments /\ c.index <= k
        /\ \A r : r \in replacements' /\ r.index <= k <=> r \in replacements /\ r.index <= k
        /\ \A v : v \in revocations' /\ v <= k <=> v \in revocations /\ v <= k
    <3>1. ~(clock + 1 <= k)
      BY <1>3, <2>1
    <3> QED BY <1>1, <1>6, <3>1
  <2>3. /\ held.through \in Int => held.through <= k
        /\ admitted.through \in Int => admitted.through <= k
        /\ revoked.through \in Int => revoked.through <= k
    BY <1>3, <2>1, BehindMeans
  <2>4. clock' \in Int /\ k \in Int /\ k >= 0 /\ k <= clock /\ k <= clock' /\ revocations' \subseteq Int
    BY <1>2, <1>3, <1>7, <2>1
  <2> QED BY <1>2, <1>7, <2>2, <2>3, <2>4, ViewKeeps
<1>12. Unread'
  <2>1. session # Absent => session <= clock + 1
    BY <1>3 DEF KeptSound, Unread
  <2> QED BY <1>0, <1>2, <2>1 DEF KeptSound, Unread
<1>13. KeptTypeOK'
  <2>1. clock' \in 0..MaxClock
    BY <1>2, <1>5
  <2> QED BY <1>0, <1>7, <1>8, <1>10, <2>1 DEF KeptSound, KeptTypeOK
<1> QED BY <1>11, <1>12, <1>13 DEF KeptSound

\* An older copy of the view holds what the record said through its clock.
LEMMA RestoreKeeps == ASSUME KeptSound, Restore PROVE KeptSound'
<1>1. PICK k \in 0..(clock - 1) :
        /\ clock' = k
        /\ commitments' = {r \in commitments : r.index <= k}
        /\ replacements' = {r \in replacements : r.index <= k}
        /\ revocations' = revocations \cap 0..k
  BY DEF Restore
<1>2. session = Absent /\ UNCHANGED <<store, session>>
  BY DEF Restore
<1>0. held' = held /\ admitted' = admitted /\ revoked' = revoked /\ session' = session
  BY <1>2 DEF store
<1>3. /\ clock \in Int /\ clock >= 0 /\ clock <= MaxClock /\ MaxClock \in Int /\ Absent \notin Int
      /\ held.through # Absent => held.through \in Int
      /\ admitted.through # Absent => admitted.through \in Int
      /\ revoked.through # Absent => revoked.through \in Int
  BY KeptTypes, KeptAssumption DEF KeptSound
<1>4. /\ commitments \subseteq HeldRow /\ replacements \subseteq Admission /\ revocations \subseteq 0..clock
  BY DEF KeptSound, KeptTypeOK
<1>5. k \in Int /\ k >= 0 /\ k <= clock /\ k \in 0..MaxClock
  BY <1>3
<1>6. /\ commitments' \subseteq HeldRow /\ replacements' \subseteq Admission /\ revocations' \subseteq 0..clock'
      /\ \A r \in commitments' \cup replacements' : r.index <= clock'
  BY <1>1, <1>4
<1>7. ~Behind' => AllSound'
  <2> SUFFICES ASSUME ~Behind' PROVE AllSound'
    OBVIOUS
  <2>1. /\ held.through \in Int => held.through <= k
        /\ admitted.through \in Int => admitted.through <= k
        /\ revoked.through \in Int => revoked.through <= k
    <3>1. \A seen \in {held.through, admitted.through, revoked.through} \ {Absent} : ~(clock' < seen)
      BY <1>0 DEF Behind, AnswersThrough
    <3>2. \A seen \in Int : seen \in {held.through, admitted.through, revoked.through} => seen <= k
      BY <1>1, <1>3, <1>5, <3>1
    <3> QED BY <3>2
  <2>2. /\ \A c : c \in commitments' /\ c.index <= k <=> c \in commitments /\ c.index <= k
        /\ \A r : r \in replacements' /\ r.index <= k <=> r \in replacements /\ r.index <= k
        /\ \A v : v \in revocations' /\ v <= k <=> v \in revocations /\ v <= k
    <3>1. \A c : c \in commitments' /\ c.index <= k <=> c \in commitments /\ c.index <= k
      BY <1>1
    <3>2. \A r : r \in replacements' /\ r.index <= k <=> r \in replacements /\ r.index <= k
      BY <1>1
    <3>3. \A v : v \in revocations' /\ v <= k <=> v \in revocations /\ v <= k
      <4>1. \A v \in revocations : v \in Int /\ v >= 0
        BY <1>3, <1>4
      <4>2. \A v \in revocations : v \in 0..k <=> v <= k
        BY <1>5, <4>1
      <4> QED BY <1>1, <4>2
    <3> QED BY <3>1, <3>2, <3>3
  <2>3. clock' \in Int /\ k <= clock' /\ revocations' \subseteq Int
    BY <1>1, <1>5, <1>6
  <2> QED BY <1>2, <1>5, <1>6, <2>1, <2>2, <2>3, ViewKeeps
<1>8. Unread'
  BY <1>0, <1>2 DEF KeptSound, Unread
<1>9. KeptTypeOK'
  BY <1>0, <1>1, <1>2, <1>5, <1>6 DEF KeptSound, KeptTypeOK
<1> QED BY <1>7, <1>8, <1>9 DEF KeptSound

\* The kept file holds what the record says of every index it was read through,
\* except while the view is behind it, and no read is open then (keptAnswers).
THEOREM AnswersSound == KeptSpec => []KeptSound
<1>1. KeptInit => KeptSound
  <2> SUFFICES ASSUME KeptInit PROVE KeptSound
    OBVIOUS
  <2>1. /\ held.through = Absent /\ admitted.through = Absent /\ revoked.through = Absent
        /\ held.rows = {} /\ held.highest = 0 /\ admitted.rows = {} /\ revoked.value = Absent
    BY DEF KeptInit, NothingHeld, NothingAdmitted, NothingRevoked
  <2>2. AllSound
    BY <2>1, KeptAssumption DEF AllSound, HeldSound, AdmittedSound, RevokedSound
  <2>3. Unread
    BY <2>1 DEF Unread, KeptInit
  <2>4. KeptTypeOK
    BY KeptAssumption DEF KeptTypeOK, KeptInit, NothingHeld, NothingAdmitted, NothingRevoked
  <2> QED BY <2>2, <2>3, <2>4 DEF KeptSound
<1>2. KeptSound /\ [KeptNext]_kept => KeptSound'
  <2> SUFFICES ASSUME KeptSound, [KeptNext]_kept PROVE KeptSound'
    OBVIOUS
  <2>1. CASE Open
    BY <2>1, OpenKeeps
  <2>2. CASE Close
    BY <2>2, CloseKeeps DEF Close
  <2>3. CASE ReadHeld
    BY <2>3, ReadHeldKeeps
  <2>4. CASE ReadReplacements
    BY <2>4, ReadReplacementsKeeps
  <2>5. CASE ReadRevocation
    BY <2>5, ReadRevocationKeeps
  <2>6. CASE ViewGrows
    BY <2>6, ViewGrowsKeeps
  <2>7. CASE Restore
    BY <2>7, RestoreKeeps
  <2>8. CASE UNCHANGED kept
    <3>1. UNCHANGED <<view, store>> /\ session' = session
      BY <2>8 DEF kept
    <3> QED BY <3>1, CloseKeeps
  <2> QED BY <2>1, <2>2, <2>3, <2>4, <2>5, <2>6, <2>7, <2>8 DEF KeptNext
<1> QED BY <1>1, <1>2, PTL DEF KeptSpec

\* What a later read is told from kept rows is what the record says, whichever
\* way it asks and however earlier reads were cut, stopped or restored under
\* (nextHeld, previousHeld and keptAnswers over the replay store).
THEOREM KeptAnswersHold == KeptSpec => []KeptIsDerived
<1>1. KeptSound => KeptIsDerived
  BY SoundDerives
<1> QED BY <1>1, AnswersSound, PTL

(***************************************************************************)
(* The scope clock.                                                        *)
(***************************************************************************)
\* A non-empty set of indices has its earliest.
LEMMA EarliestExists ==
  ASSUME NEW S, S \subseteq Nat, S # {}
  PROVE  Min(S) \in S /\ \A y \in S : Min(S) <= y
<1>1. PICK x \in S : \A y \in S : ~(<<y, x>> \in OpToRel(<, Nat))
  <2> QED BY WFMin, NatLessThanWellFounded
<1>2. \A y \in S : ~(y < x)
  BY <1>1 DEF OpToRel
<1>3. \A y \in S : x <= y
  BY <1>2
<1> QED BY <1>3 DEF Min

-----------------------------------------------------------------------------
\* What happened is not in the future.
Past ==
  /\ unwitnessed # None => unwitnessed <= now
  /\ resumed # None => resumed <= now
  /\ \A w \in witnessed : w <= now

\* A commitment in flight, witnessed within the lag, is in every term.
InFlightInTerm ==
  unwitnessed # None =>
    \A b \in Backings : ends[b] # None => unwitnessed + Lag < ends[b]

\* An uninterrupted tail was admitted once the restart's wait had passed.
TailAfterWait ==
  tail = "open" /\ resumed # None => resumed + Lag <= now

\* Under an uninterrupted tail the commitment in flight is within its lag.
TailCurrent == tail = "open" => Current

\* The inductive invariant.
SafeClock ==
  /\ TypeOK /\ Past /\ InFlightInTerm /\ TailAfterWait /\ TailCurrent
  /\ WitnessedInTerm /\ TailKeepsSlot /\ TailCommitted

-----------------------------------------------------------------------------
\* The schedule's boundary is the earliest end of a term of the scope.
LEMMA BoundaryEarliest ==
  ASSUME TypeOK, NEW b \in Backings, ends[b] # None
  PROVE  /\ ~Unbounded(Clock)
         /\ Boundary(Clock) \in Nat
         /\ Boundary(Clock) <= ends[b]
         /\ \E e \in Backings : ends[e] # None /\ Boundary(Clock) = ends[e]
<1>1. Clock.boundaries = Boundaries
  BY DEF Clock
<1>2. Boundaries \subseteq Nat /\ ends[b] \in Boundaries
  BY DEF TypeOK, Boundaries
<1>3. Min(Boundaries) \in Boundaries /\ \A y \in Boundaries : Min(Boundaries) <= y
  BY <1>2, EarliestExists
<1>4. \E e \in Backings : ends[e] # None /\ Min(Boundaries) = ends[e]
  BY <1>3 DEF Boundaries
<1> QED BY <1>1, <1>2, <1>3, <1>4 DEF Boundary, Unbounded

\* The next signing clock is now, or later by an unfinished wait.
LEMMA NextSigning ==
  ASSUME TypeOK
  PROVE  /\ NextSigningIndex(Clock) \in Nat
         /\ NextSigningIndex(Clock) >= now
         /\ unwitnessed # None => NextSigningIndex(Clock) >= unwitnessed + Lag
         /\ resumed # None => NextSigningIndex(Clock) >= resumed + Lag
         /\ \/ NextSigningIndex(Clock) = now
            \/ unwitnessed # None /\ NextSigningIndex(Clock) = unwitnessed + Lag
            \/ resumed # None /\ NextSigningIndex(Clock) = resumed + Lag
<1>1. /\ Clock.now = now /\ Clock.lag = Lag
      /\ Clock.unwitnessedSignedAt = unwitnessed /\ Clock.resumedAt = resumed
  BY DEF Clock
<1>2. /\ now \in Nat /\ Lag \in Nat
      /\ unwitnessed # None => unwitnessed \in Nat
      /\ resumed # None => resumed \in Nat
  BY ScopeAssumption DEF TypeOK
<1> DEFINE first == Waited(now, unwitnessed, Lag)
<1>3. /\ first \in Nat /\ first >= now
      /\ unwitnessed # None => first >= unwitnessed + Lag
      /\ first = now \/ (unwitnessed # None /\ first = unwitnessed + Lag)
  BY <1>2 DEF Waited
<1>4. NextSigningIndex(Clock) = Waited(first, resumed, Lag)
  BY <1>1 DEF NextSigningIndex
<1> HIDE DEF first
<1>5. /\ Waited(first, resumed, Lag) \in Nat /\ Waited(first, resumed, Lag) >= first
      /\ resumed # None => Waited(first, resumed, Lag) >= resumed + Lag
      /\ \/ Waited(first, resumed, Lag) = first
         \/ resumed # None /\ Waited(first, resumed, Lag) = resumed + Lag
  BY <1>2, <1>3 DEF Waited
<1> QED BY <1>2, <1>3, <1>4, <1>5

\* While a safe slot remains, the next signing clock leaves every term its lag.
LEMMA SlotInTerm ==
  ASSUME TypeOK, SlotRemains(Clock), NEW b \in Backings, ends[b] # None
  PROVE  NextSigningIndex(Clock) <= LastFor(b)
<1>1. NextSigningIndex(Clock) <= LastSigningIndex(Clock)
  BY BoundaryEarliest DEF SlotRemains
<1>2. /\ LastSigningIndex(Clock) = Boundary(Clock) - Lag - 1
      /\ LastFor(b) = ends[b] - Lag - 1
  BY DEF LastSigningIndex, Clock, LastFor
<1>3. Boundary(Clock) \in Nat /\ Boundary(Clock) <= ends[b] /\ ends[b] \in Nat /\ Lag \in Nat
  BY BoundaryEarliest, ScopeAssumption DEF TypeOK
<1>4. NextSigningIndex(Clock) \in Nat
  BY NextSigning
<1> QED BY <1>1, <1>2, <1>3, <1>4

\* An end a tick leaves on record is the old one or clear of everything signed.
LEMMA TickEnds ==
  ASSUME TypeOK, NEW lands \in BOOLEAN, Tick(lands), NEW b \in Backings, ends'[b] # None
  PROVE  \/ ends'[b] = ends[b]
         \/ ends'[b] \in Nat /\ ends'[b] >= now + 1 + 2 * Lag + 1
<1>1. Replaced(now + 1, ends[b], ends'[b])
  BY DEF Tick
<1>2. ends'[b] \in Nat
  BY ScopeAssumption DEF Tick
<1> QED BY <1>1, <1>2 DEF Replaced

-----------------------------------------------------------------------------
\* The venue's next index keeps the invariant: Prompt leaves an open tail its
\* last slot only while that slot is still ahead.
LEMMA TickSafe ==
  ASSUME SafeClock, Prompt, NEW lands \in BOOLEAN, Tick(lands)
  PROVE  SafeClock'
<1>1. /\ TypeOK /\ Past /\ InFlightInTerm /\ TailAfterWait /\ TailCurrent
      /\ WitnessedInTerm /\ TailKeepsSlot /\ TailCommitted
  BY DEF SafeClock
<1>2. /\ now \in Nat /\ Lag \in Nat /\ Lag >= 1
      /\ unwitnessed # None => unwitnessed \in Nat
      /\ resumed # None => resumed \in Nat
      /\ witnessed \subseteq Nat
      /\ \A b \in Backings : ends[b] # None => ends[b] \in Nat
  BY <1>1, ScopeAssumption DEF TypeOK
<1>3. /\ now' = now + 1 /\ UNCHANGED resumed
      /\ tail' = IF tail = "open" /\ unwitnessed' # None /\ now' >= unwitnessed' + Lag
                 THEN "interrupted" ELSE tail
      /\ lands => unwitnessed # None
      /\ unwitnessed' = IF lands THEN None ELSE unwitnessed
      /\ witnessed' = IF lands /\ now + 1 <= unwitnessed + Lag
                      THEN witnessed \cup {now + 1} ELSE witnessed
      /\ ends' \in [Backings -> 0..MaxEnd \cup {None}]
  BY DEF Tick
<1>4. \A b \in Backings : ends'[b] # None =>
        \/ ends'[b] = ends[b]
        \/ ends'[b] \in Nat /\ ends'[b] >= now + 1 + 2 * Lag + 1
  BY <1>1, TickEnds
<1>5. TypeOK'
  <2>1. ends' \in [Backings -> Nat \cup {None}]
    BY <1>3, ScopeAssumption
  <2>2. witnessed' \subseteq Nat /\ now' \in Nat
    BY <1>2, <1>3
  <2> QED BY <1>1, <1>3, <2>1, <2>2 DEF TypeOK
<1>6. Past'
  BY <1>1, <1>2, <1>3 DEF Past
<1>7. InFlightInTerm'
  BY <1>1, <1>2, <1>3, <1>4 DEF InFlightInTerm, Past
<1>8. TailAfterWait'
  BY <1>1, <1>2, <1>3 DEF TailAfterWait
<1>8a. TailCurrent'
  BY <1>2, <1>3 DEF TailCurrent, Current
<1>9. WitnessedInTerm'
  <2> SUFFICES ASSUME NEW b \in Backings, ends'[b] # None, NEW w \in witnessed'
               PROVE  w < ends'[b]
    BY DEF WitnessedInTerm
  <2>1. w \in witnessed \/ (w = now + 1 /\ unwitnessed # None /\ now + 1 <= unwitnessed + Lag)
    BY <1>3
  <2>2. CASE ends'[b] = ends[b]
    <3>1. ends[b] # None /\ ends[b] \in Nat
      BY <1>2, <2>2
    <3>2. CASE w \in witnessed
      BY <1>1, <2>2, <3>1, <3>2 DEF WitnessedInTerm
    <3>3. CASE w = now + 1 /\ unwitnessed # None /\ now + 1 <= unwitnessed + Lag
      <4>1. unwitnessed + Lag < ends[b] /\ unwitnessed \in Nat
        BY <1>1, <1>2, <3>1, <3>3 DEF InFlightInTerm
      <4> QED BY <1>2, <2>2, <3>1, <3>3, <4>1
    <3> QED BY <2>1, <3>2, <3>3
  <2>3. CASE ends'[b] \in Nat /\ ends'[b] >= now + 1 + 2 * Lag + 1
    <3>1. w \in Nat /\ w <= now + 1
      <4>1. CASE w \in witnessed
        <5>1. w \in Nat /\ w <= now
          BY <1>1, <1>2, <4>1 DEF Past
        <5> QED BY <1>2, <5>1
      <4>2. CASE w = now + 1
        BY <1>2, <4>2
      <4> QED BY <2>1, <4>1, <4>2
    <3> QED BY <1>2, <2>3, <3>1
  <2> QED BY <1>4, <2>2, <2>3
<1>10. TailKeepsSlot'
  <2> SUFFICES ASSUME tail # "empty", NEW b \in Backings, ends'[b] # None, unwitnessed' # None
               PROVE  now' > LastFor(b)' \/ unwitnessed' + Lag <= LastFor(b)'
    BY <1>3 DEF TailKeepsSlot
  <2>1. unwitnessed' = unwitnessed /\ unwitnessed \in Nat /\ unwitnessed <= now
    BY <1>1, <1>2, <1>3 DEF Past
  <2>2. LastFor(b)' = ends'[b] - Lag - 1
    BY DEF LastFor
  <2>3. CASE ends'[b] = ends[b]
    <3>1. now > ends[b] - Lag - 1 \/ unwitnessed + Lag <= ends[b] - Lag - 1
      BY <1>1, <2>1, <2>3 DEF TailKeepsSlot, LastFor
    <3> QED BY <1>2, <1>3, <2>1, <2>2, <2>3, <3>1
  <2>4. CASE ends'[b] \in Nat /\ ends'[b] >= now + 1 + 2 * Lag + 1
    BY <1>2, <2>1, <2>2, <2>4
  <2> QED BY <1>4, <2>3, <2>4
<1>11. TailCommitted'
  <2> SUFFICES ASSUME tail = "open", NEW b \in Backings, ends'[b] # None
               PROVE  now + 1 <= ends'[b] - Lag - 1
    BY <1>3 DEF TailCommitted, LastFor
  <2>1. CASE ends'[b] = ends[b]
    <3>1. PICK e \in Backings : ends[e] # None /\ Boundary(Clock) = ends[e]
      BY <1>1, <2>1, BoundaryEarliest
    <3>2. Boundary(Clock) \in Nat /\ Boundary(Clock) <= ends[b] /\ ~Unbounded(Clock)
      BY <1>1, <2>1, BoundaryEarliest
    <3>3. LastSigningIndex(Clock) = ends[e] - Lag - 1
      BY <3>1 DEF LastSigningIndex, Clock
    <3>4. now <= ends[e] - Lag - 1
      BY <1>1, <3>1 DEF TailCommitted, LastFor
    <3>5. now # ends[e] - Lag - 1
      <4> SUFFICES ASSUME now = ends[e] - Lag - 1 PROVE FALSE
        OBVIOUS
      <4>1. unwitnessed = None
        BY <1>1, <1>2, <3>1 DEF TailKeepsSlot, LastFor, TailCurrent, Current
      <4>2. resumed # None => resumed + Lag <= now
        BY <1>1 DEF TailAfterWait
      <4>3. NextSigningIndex(Clock) = now
        BY <1>1, <1>2, <4>1, <4>2, NextSigning
      <4>4. SlotRemains(Clock) /\ ~ReserveLast(Clock)
        BY <1>2, <3>3, <4>3 DEF SlotRemains, ReserveLast, Clock
      <4>5. CommitNow(Clock)
        BY <4>3, <4>4 DEF CommitNow, Clock
      <4>6. Boundaries # {}
        BY <3>2 DEF Unbounded, Clock
      <4> QED BY <3>3, <4>1, <4>5, <4>6 DEF Prompt, Current
    <3> QED BY <1>2, <2>1, <3>1, <3>2, <3>4, <3>5
  <2>2. CASE ends'[b] \in Nat /\ ends'[b] >= now + 1 + 2 * Lag + 1
    BY <1>2, <2>2
  <2> QED BY <1>4, <2>1, <2>2
<1> QED BY <1>5, <1>6, <1>7, <1>8, <1>8a, <1>9, <1>10, <1>11 DEF SafeClock

\* Admission keeps the invariant: it needs a slot past every wait.
LEMMA AdmitSafe ==
  ASSUME SafeClock, Admit
  PROVE  SafeClock'
<1>1. /\ TypeOK /\ Past /\ InFlightInTerm /\ TailAfterWait /\ TailCurrent
      /\ WitnessedInTerm /\ TailKeepsSlot /\ TailCommitted
  BY DEF SafeClock
<1>2. /\ now' = now /\ ends' = ends /\ unwitnessed' = unwitnessed
      /\ resumed' = resumed /\ witnessed' = witnessed
      /\ tail' = IF tail = "interrupted" THEN tail ELSE "open"
      /\ SlotRemains(Clock) /\ Recovered(Clock)
  BY DEF Admit, AdmissionOpen
<1>3. TypeOK' /\ Past' /\ InFlightInTerm' /\ WitnessedInTerm'
  BY <1>1, <1>2 DEF TypeOK, Past, InFlightInTerm, WitnessedInTerm
<1>4. TailAfterWait'
  <2>1. resumed # None => now >= resumed + Lag
    BY <1>2 DEF Recovered, Clock
  <2>2. now \in Nat /\ Lag \in Nat /\ (resumed # None => resumed \in Nat)
    BY <1>1, ScopeAssumption DEF TypeOK
  <2> QED BY <1>2, <2>1, <2>2 DEF TailAfterWait
<1>4a. TailCurrent'
  BY <1>2 DEF TailCurrent, Current, Admit
<1>5. ASSUME NEW b \in Backings, ends[b] # None
      PROVE  now <= LastFor(b) /\ (unwitnessed # None => unwitnessed + Lag <= LastFor(b))
  <2>1. NextSigningIndex(Clock) <= LastFor(b)
    BY <1>1, <1>2, <1>5, SlotInTerm
  <2>2. /\ now \in Nat /\ Lag \in Nat /\ (unwitnessed # None => unwitnessed \in Nat)
        /\ LastFor(b) \in Int
    BY <1>1, <1>5, ScopeAssumption DEF TypeOK, LastFor
  <2> QED BY <1>1, <2>1, <2>2, NextSigning
<1>6. TailKeepsSlot' /\ TailCommitted'
  BY <1>2, <1>5 DEF TailKeepsSlot, TailCommitted, LastFor
<1> QED BY <1>3, <1>4, <1>4a, <1>6 DEF SafeClock

\* Signing keeps the invariant: the clock it signs at leaves every term its lag.
LEMMA CommitSafe ==
  ASSUME SafeClock, Commit
  PROVE  SafeClock'
<1>1. /\ TypeOK /\ Past /\ InFlightInTerm /\ TailAfterWait /\ WitnessedInTerm
  BY DEF SafeClock
<1>2. /\ now' = now /\ ends' = ends /\ unwitnessed' = now
      /\ resumed' = resumed /\ witnessed' = witnessed /\ tail' = "empty"
      /\ NextSigningIndex(Clock) = now /\ SlotRemains(Clock)
  BY DEF Commit, CommitNow, Clock
<1>3. TypeOK' /\ Past' /\ WitnessedInTerm'
  BY <1>1, <1>2 DEF TypeOK, Past, WitnessedInTerm
<1>4. InFlightInTerm'
  <2> SUFFICES ASSUME NEW b \in Backings, ends[b] # None
               PROVE  now + Lag < ends[b]
    BY <1>2 DEF InFlightInTerm
  <2>1. now <= ends[b] - Lag - 1
    BY <1>1, <1>2, SlotInTerm DEF LastFor
  <2>2. now \in Nat /\ Lag \in Nat /\ ends[b] \in Nat
    BY <1>1, ScopeAssumption DEF TypeOK
  <2> QED BY <2>1, <2>2
<1>5. TailAfterWait' /\ TailCurrent' /\ TailKeepsSlot' /\ TailCommitted'
  BY <1>2 DEF TailAfterWait, TailCurrent, TailKeepsSlot, TailCommitted
<1> QED BY <1>3, <1>4, <1>5 DEF SafeClock

\* A restart keeps the invariant: a tail it finds is no longer promised a slot.
LEMMA RestartSafe ==
  ASSUME SafeClock, Restart
  PROVE  SafeClock'
<1>1. /\ now' = now /\ ends' = ends /\ unwitnessed' = unwitnessed /\ resumed' = now
      /\ witnessed' = witnessed
      /\ tail' = IF tail = "empty" THEN tail ELSE "interrupted"
  BY DEF Restart
<1>2. tail \in {"empty", "open", "interrupted"} /\ tail' # "open"
  BY <1>1 DEF SafeClock, TypeOK
<1>3. TypeOK'
  BY <1>1, <1>2 DEF SafeClock, TypeOK
<1>4. now <= now
  BY DEF SafeClock, TypeOK
<1> QED BY <1>1, <1>2, <1>3, <1>4 DEF SafeClock, Past, InFlightInTerm, TailAfterWait, TailCurrent,
      WitnessedInTerm, TailKeepsSlot, TailCommitted, LastFor

\* For every lag, every number of backings and every schedule of replacements:
\* the operator's clock keeps its invariant.
THEOREM ClockSafe == Spec => []SafeClock
<1>1. Init => SafeClock
  BY DEF Init, SafeClock, TypeOK, Past, InFlightInTerm, TailAfterWait, TailCurrent, WitnessedInTerm,
     TailKeepsSlot, TailCommitted
<1>2. SafeClock /\ [Next]_vars => SafeClock'
  <2> SUFFICES ASSUME SafeClock, [Next]_vars PROVE SafeClock'
    OBVIOUS
  <2>1. CASE Advance
    BY <2>1, TickSafe DEF Advance
  <2>2. CASE Admit
    BY <2>2, AdmitSafe
  <2>3. CASE Commit
    BY <2>3, CommitSafe
  <2>4. CASE Restart
    BY <2>4, RestartSafe
  <2>5. CASE UNCHANGED vars
    BY <2>5 DEF vars, SafeClock, TypeOK, Past, InFlightInTerm, TailAfterWait, TailCurrent, Current,
       WitnessedInTerm, TailKeepsSlot, TailCommitted, LastFor
  <2> QED BY <2>1, <2>2, <2>3, <2>4, <2>5 DEF Next
<1> QED BY <1>1, <1>2, PTL DEF Spec

\* A commitment witnessed within the lag is witnessed inside every term of its
\* scope, also one ended by a replacement the operator had not seen when it
\* signed (schedule.ts commitNow with C2.5.3's lead of twice the lag).
THEOREM CommitmentsInTerm == Spec => []WitnessedInTerm
BY ClockSafe, PTL DEF SafeClock

\* No commitment in flight takes the last safe slot of an admitted tail.
THEOREM TailsKeepTheirSlot == Spec => []TailKeepsSlot
BY ClockSafe, PTL DEF SafeClock

\* An operator that signs at its last safe clock has signed for everything it
\* admitted before that clock passes, whatever ends appear meanwhile.
THEOREM TailsAreCommitted == Spec => []TailCommitted
BY ClockSafe, PTL DEF SafeClock
-----------------------------------------------------------------------------
(* The schedule's arithmetic against the calendar that enumerates clocks.    *)

\* A non-empty bounded set of indices has its latest.
LEMMA LatestExists ==
  ASSUME NEW S, S \subseteq Nat, S # {}, NEW n \in Nat, \A y \in S : y <= n
  PROVE  Max(S) \in S /\ \A y \in S : y <= Max(S)
<1> DEFINE R == {n - y : y \in S}
<1>1. R \subseteq Nat /\ R # {}
  <2>1. \A y \in S : n - y \in Nat
    OBVIOUS
  <2> QED BY <2>1
<1>2. Min(R) \in R /\ \A r \in R : Min(R) <= r
  BY <1>1, EarliestExists
<1>3. PICK x \in S : Min(R) = n - x
  BY <1>2
<1>4. \A y \in S : n - y \in R /\ n - x <= n - y
  BY <1>2, <1>3
<1>5. \A y \in S : x >= y
  BY <1>4
<1>6. Max(S) \in S /\ \A y \in S : Max(S) >= y
  BY <1>5 DEF Max
<1> QED BY <1>6

\* The latest of a set is the one member no other exceeds.
LEMMA LatestIs ==
  ASSUME NEW S, S \subseteq Nat, NEW m \in S, \A y \in S : y <= m
  PROVE  Max(S) = m
<1>1. m \in Nat
  OBVIOUS
<1>2. Max(S) \in S /\ \A y \in S : y <= Max(S)
  BY <1>1, LatestExists
<1>3. m <= Max(S) /\ Max(S) <= m /\ Max(S) \in Nat
  BY <1>2
<1> QED BY <1>1, <1>3

\* A replacement record names an end no later than the venue's last index.
EndsInRange == Boundaries \subseteq 0..MaxEnd

\* Where a term's end is on record, the calendar's candidates are the clocks
\* from the schedule's next signing index to its last.
LEMMA BoundedCandidates ==
  ASSUME TypeOK, Past, EndsInRange, ~Unbounded(Clock)
  PROVE  /\ LastSigningIndex(Clock) \in Int
         /\ \A s : s \in Candidates(Clock) <=>
              s \in NextSigningIndex(Clock) .. LastSigningIndex(Clock)
<1> DEFINE first == NextSigningIndex(Clock)
           last == LastSigningIndex(Clock)
<1>1. /\ Clock.now = now /\ Clock.lag = Lag /\ Clock.boundaries = Boundaries
      /\ Clock.unwitnessedSignedAt = unwitnessed /\ Clock.resumedAt = resumed
  BY DEF Clock
<1>2. /\ now \in Nat /\ Lag \in Nat /\ MaxEnd \in Nat
      /\ unwitnessed # None => unwitnessed \in Nat
      /\ resumed # None => resumed \in Nat
      /\ Boundaries \subseteq Nat /\ Boundaries # {}
  BY <1>1, ScopeAssumption DEF TypeOK, EndsInRange, Unbounded
<1>3. /\ Min(Boundaries) \in Boundaries /\ \A y \in Boundaries : Min(Boundaries) <= y
      /\ Min(Boundaries) \in Int
  <2>1. Boundaries \subseteq Int
    BY <1>2
  <2>2. Min(Boundaries) \in Boundaries /\ \A y \in Boundaries : Min(Boundaries) <= y
    BY <1>2, EarliestExists
  <2> QED BY <2>1, <2>2, Zenon
<1>4. Max(Boundaries) \in Int /\ Min(Boundaries) <= Max(Boundaries)
  <2>1. \A y \in Boundaries : y <= MaxEnd
    BY DEF EndsInRange
  <2>2. Max(Boundaries) \in Boundaries
    BY <1>2, <2>1, LatestExists
  <2>3. Boundaries \subseteq Int
    BY <1>2
  <2>4. Max(Boundaries) \in Int /\ Min(Boundaries) <= Max(Boundaries)
    BY <1>3, <2>2, <2>3, Zenon
  <2> QED BY <2>4
<1>5. last = Min(Boundaries) - Lag - 1 /\ last \in Int
  BY <1>1, <1>2, <1>3 DEF LastSigningIndex, Boundary
<1>6. /\ first \in Nat /\ first >= now
      /\ unwitnessed # None => first >= unwitnessed + Lag
      /\ resumed # None => first >= resumed + Lag
      /\ \/ first = now
         \/ unwitnessed # None /\ first = unwitnessed + Lag
         \/ resumed # None /\ first = resumed + Lag
  BY NextSigning
<1> HIDE DEF first, last
<1>7. Candidates(Clock) =
        {s \in now .. Max(Boundaries) :
           /\ \A at \in {unwitnessed, resumed} \ {None} : s >= at + Lag
           /\ \A end \in Boundaries : s + Lag < end}
  BY <1>1 DEF Candidates, CalendarHorizon, Unbounded
<1>8. ASSUME NEW s, s \in Candidates(Clock) PROVE s \in first .. last
  <2>1. s \in Int /\ s >= now
    BY <1>2, <1>4, <1>7, <1>8
  <2>2. /\ unwitnessed # None => s >= unwitnessed + Lag
        /\ resumed # None => s >= resumed + Lag
        /\ s + Lag < Min(Boundaries)
    BY <1>3, <1>7, <1>8
  <2>3. s >= first
    BY <1>6, <2>1, <2>2
  <2>4. s <= last
    BY <1>2, <1>3, <1>5, <2>1, <2>2
  <2> QED BY <1>5, <1>6, <2>1, <2>3, <2>4
<1>9. ASSUME NEW s, s \in first .. last PROVE s \in Candidates(Clock)
  <2>1. s \in Int /\ s >= first /\ s <= last
    BY <1>5, <1>6, <1>9
  <2>2. s + Lag < Min(Boundaries) /\ \A end \in Boundaries : s + Lag < end
    <3>1. s + Lag < Min(Boundaries)
      BY <1>2, <1>3, <1>5, <2>1
    <3>2. ASSUME NEW end \in Boundaries PROVE s + Lag < end
      <4>1. end \in Int /\ Min(Boundaries) <= end
        BY <1>2, <1>3
      <4> QED BY <1>2, <1>3, <2>1, <3>1, <4>1
    <3> QED BY <3>1, <3>2
  <2>3. s \in now .. Max(Boundaries)
    <3>1. s >= now
      BY <1>2, <1>6, <2>1
    <3>2. s <= Max(Boundaries)
      BY <1>2, <1>3, <1>4, <2>1, <2>2
    <3> QED BY <1>2, <1>4, <2>1, <3>1, <3>2
  <2>4. /\ unwitnessed # None => s >= unwitnessed + Lag
        /\ resumed # None => s >= resumed + Lag
    BY <1>2, <1>6, <2>1
  <2> QED BY <1>7, <2>2, <2>3, <2>4
<1> QED BY <1>5, <1>8, <1>9 DEF first, last

\* Without an end, a clock is a candidate once both waits have passed, and one
\* within the calendar's horizon is.
LEMMA UnboundedCandidates ==
  ASSUME TypeOK, Past, Unbounded(Clock)
  PROVE  /\ NextSigningIndex(Clock) \in Candidates(Clock)
         /\ now \in Candidates(Clock) <=> NextSigningIndex(Clock) = now
<1> DEFINE first == NextSigningIndex(Clock)
           clocks == {now} \cup ({unwitnessed, resumed} \ {None})
<1>1. /\ Clock.now = now /\ Clock.lag = Lag /\ Clock.boundaries = Boundaries
      /\ Clock.unwitnessedSignedAt = unwitnessed /\ Clock.resumedAt = resumed
  BY DEF Clock
<1>2. /\ now \in Nat /\ Lag \in Nat
      /\ unwitnessed # None => unwitnessed \in Nat /\ unwitnessed <= now
      /\ resumed # None => resumed \in Nat /\ resumed <= now
  BY ScopeAssumption DEF TypeOK, Past
<1>3. Max(clocks) = now
  <2>1. clocks \subseteq Nat /\ now \in clocks /\ \A y \in clocks : y <= now
    BY <1>2
  <2> QED BY <2>1, LatestIs
<1>4. /\ first \in Nat /\ first >= now
      /\ unwitnessed # None => first >= unwitnessed + Lag
      /\ resumed # None => first >= resumed + Lag
      /\ \/ first = now
         \/ unwitnessed # None /\ first = unwitnessed + Lag
         \/ resumed # None /\ first = resumed + Lag
  BY NextSigning
<1>5. CalendarHorizon(Clock) = now + 2 * Lag + 1
  BY <1>1, <1>3 DEF CalendarHorizon
<1> HIDE DEF first
<1>6. Candidates(Clock) =
        {s \in now .. now + 2 * Lag + 1 :
           \A at \in {unwitnessed, resumed} \ {None} : s >= at + Lag}
  BY <1>1, <1>5 DEF Candidates, Unbounded
<1>7. first \in now .. now + 2 * Lag + 1
  BY <1>2, <1>4
<1>8. first \in Candidates(Clock)
  BY <1>4, <1>6, <1>7
<1>9. now \in Candidates(Clock) <=>
        /\ unwitnessed # None => now >= unwitnessed + Lag
        /\ resumed # None => now >= resumed + Lag
  BY <1>2, <1>6
<1>10. now \in Candidates(Clock) <=> first = now
  BY <1>2, <1>4, <1>9
<1> QED BY <1>8, <1>10 DEF first

\* The three decisions agree in every state of the clock.
LEMMA DecisionsAgree ==
  ASSUME TypeOK, Past, EndsInRange
  PROVE  MatchesCalendar
<1> DEFINE first == NextSigningIndex(Clock)
           last == LastSigningIndex(Clock)
<1>1. /\ Clock.now = now /\ Clock.lag = Lag /\ Clock.boundaries = Boundaries
      /\ Clock.resumedAt = resumed
  BY DEF Clock
<1>2. now \in Nat /\ Lag \in Nat /\ first \in Nat /\ first >= now
  BY ScopeAssumption, NextSigning DEF TypeOK
<1>3. CASE Unbounded(Clock)
  <2>1. SlotRemains(Clock) /\ ~ReserveLast(Clock)
    BY <1>3 DEF SlotRemains, ReserveLast
  <2>2. Candidates(Clock) # {} /\ (now \in Candidates(Clock) <=> first = now)
    BY <1>3, UnboundedCandidates
  <2>3. AdmissionOpen(Clock) <=> CalendarAdmissionOpen(Clock)
    BY <1>1, <2>1, <2>2 DEF AdmissionOpen, CalendarAdmissionOpen, Recovered
  <2>4. CommitNow(Clock) <=> CalendarCommitNow(Clock)
    BY <1>1, <1>3, <2>1, <2>2 DEF CommitNow, CalendarCommitNow
  <2>5. ~Lapsed(Clock) /\ ~CalendarLapsed(Clock)
    BY <1>3 DEF Lapsed, CalendarLapsed, Unbounded
  <2> QED BY <2>3, <2>4, <2>5 DEF MatchesCalendar, AdmissionOpen, CalendarAdmissionOpen,
             CommitNow, CalendarCommitNow, Lapsed, CalendarLapsed
<1>4. CASE ~Unbounded(Clock)
  <2>1. last \in Int /\ \A s : s \in Candidates(Clock) <=> s \in first .. last
    BY <1>4, BoundedCandidates
  <2>2. SlotRemains(Clock) <=> first <= last
    BY <1>4 DEF SlotRemains
  <2>3. first <= last => Candidates(Clock) # {} /\ Max(Candidates(Clock)) = last
    <3> SUFFICES ASSUME first <= last
                 PROVE  Candidates(Clock) # {} /\ Max(Candidates(Clock)) = last
      OBVIOUS
    <3>1. last \in Candidates(Clock) /\ Candidates(Clock) \subseteq Nat
      BY <1>2, <2>1
    <3>2. \A s \in Candidates(Clock) : s <= last
      BY <1>2, <2>1
    <3> QED BY <3>1, <3>2, LatestIs
  <2>4. ~(first <= last) => Candidates(Clock) = {}
    BY <1>2, <2>1
  <2>5. AdmissionOpen(Clock) <=> CalendarAdmissionOpen(Clock)
    BY <1>1, <2>2, <2>3, <2>4 DEF AdmissionOpen, CalendarAdmissionOpen, Recovered
  <2>6. CommitNow(Clock) <=> CalendarCommitNow(Clock)
    <3>1. now \in Candidates(Clock) <=> first = now /\ first <= last
      BY <1>2, <2>1
    <3>2. ReserveLast(Clock) <=> now < last /\ now + Lag > last
      BY <1>1, <1>4 DEF ReserveLast
    <3>3. CommitNow(Clock) <=> /\ first = now /\ first <= last
                               /\ ~(now < last /\ now + Lag > last)
      BY <1>1, <2>2, <3>2 DEF CommitNow
    <3>4. CalendarCommitNow(Clock) <=> /\ first = now /\ first <= last
                                       /\ now = last \/ now + Lag <= last
      BY <1>1, <1>4, <2>3, <3>1 DEF CalendarCommitNow
    <3> HIDE DEF first, last
    <3> QED BY <1>2, <2>1, <3>3, <3>4
  <2>7. Lapsed(Clock) <=> CalendarLapsed(Clock)
    <3>1. Boundaries \subseteq Nat /\ Boundaries # {}
      BY <1>1, <1>4, ScopeAssumption DEF EndsInRange, Unbounded
    <3>2. Min(Boundaries) \in Boundaries /\ \A y \in Boundaries : Min(Boundaries) <= y
      BY <3>1, EarliestExists
    <3>3. Lapsed(Clock) <=> now >= Min(Boundaries)
      BY <1>1, <1>4 DEF Lapsed, Boundary
    <3>4. CalendarLapsed(Clock) <=> \E end \in Boundaries : now >= end
      BY <1>1 DEF CalendarLapsed
    <3>5. Min(Boundaries) \in Nat /\ \A y \in Boundaries : y \in Nat
      BY <3>1, <3>2
    <3> QED BY <1>2, <3>2, <3>3, <3>4, <3>5
  <2> QED BY <2>5, <2>6, <2>7 DEF MatchesCalendar, AdmissionOpen, CalendarAdmissionOpen,
             CommitNow, CalendarCommitNow, Lapsed, CalendarLapsed
<1> QED BY <1>3, <1>4

\* For every lag, every set of backings and every schedule of replacements, the
\* deadline arithmetic of schedule.ts opens admission, calls for a commitment
\* and lapses exactly when model/pool-schedule.ts, which enumerates the clocks a
\* commitment could be signed at, does.
THEOREM ScheduleIsCalendar == Spec => []MatchesCalendar
<1>1. Init => EndsInRange
  BY DEF Init, EndsInRange, Boundaries
<1>2. EndsInRange /\ [Next]_vars => EndsInRange'
  <2> SUFFICES ASSUME EndsInRange, [Next]_vars PROVE EndsInRange'
    OBVIOUS
  <2>1. CASE ends' \in [Backings -> 0..MaxEnd \cup {None}]
    BY <2>1 DEF EndsInRange, Boundaries
  <2>2. CASE UNCHANGED ends
    BY <2>2 DEF EndsInRange, Boundaries
  <2>3. ends' \in [Backings -> 0..MaxEnd \cup {None}] \/ UNCHANGED ends
    BY DEF Next, Advance, Tick, Admit, Commit, Restart, vars
  <2> QED BY <2>1, <2>2, <2>3
<1>3. SafeClock /\ EndsInRange => MatchesCalendar
  BY DecisionsAgree DEF SafeClock
<1> QED BY <1>1, <1>2, <1>3, ClockSafe, PTL DEF Spec
=============================================================================
