------------------------- MODULE PoolServiceProofs -------------------------
(* Proofs about PoolService for every set of notes, every lag, duration and  *)
(* bound: what an operator signs within its clock is never lapsed, a block   *)
(* in force is always adopted, force and finality stand, and a reader's view *)
(* claims no note twice and makes or loses no value.  First what records     *)
(* applied in turn give, then the parts of the invariant one operation at a  *)
(* time, then the theorems.                                                  *)
EXTENDS PoolService, SegmentProofs, SequenceTheorems

\* The types of what the rules judge and apply.

Demands ==
  [kind : {Present}, seg : Nat, ins : SUBSET Notes, outs : {{}}, quantity : Nat,
   instant : Int, deadline : Int, ended : {{}}]

PoolStatements ==
  {s \in [kind : Issue..Settle, seg : Nat, ins : SUBSET Notes, outs : SUBSET Notes,
          quantity : Nat, instant : Int, deadline : Int, ended : SUBSET Demands] :
     /\ s.kind = Present => s \in Demands
     /\ s.kind = Settle => \E d \in Demands : s.ended = {d}
     /\ s.kind = Withdraw => s.outs = {}}

PoolStates ==
  [outputs : SUBSET Notes, spent : SUBSET Notes, issued : Int, burned : Int,
   demands : SUBSET Demands, effective : SUBSET PoolStatements,
   statements : SUBSET PoolStatements]

Events == [s : PoolStatements, index : Nat]

-----------------------------------------------------------------------------
\* applyJudged keeps a state of its type.
LEMMA ApplyTyped ==
  ASSUME NEW s \in PoolStatements, NEW st \in PoolStates
  PROVE  Apply(s, st) \in PoolStates
BY DEF Apply, PoolStates, PoolStatements, Nullifiers, EndedBy, StoodUpBy

\* Records applied in turn: the states they pass through exist and are of their type.
LEMMA RunExists ==
  ASSUME NEW st \in PoolStates, NEW events \in Seq(Events)
  PROVE  \E f \in [0..Len(events) -> PoolStates] :
            f[0] = st /\ \A i \in 1..Len(events) : f[i] = Apply(events[i].s, f[i - 1])
<1> DEFINE n == Len(events)
<1> DEFINE Good(k) == \E f \in [0..k -> PoolStates] : f[0] = st /\ \A i \in 1..k : f[i] = Apply(events[i].s, f[i - 1])
<1> DEFINE S == {k \in 0..n : Good(k)}
<1>0. n \in Nat
  OBVIOUS
<1>1. 0 \in S
  <2> DEFINE f == [i \in 0..0 |-> st]
  <2>1. f \in [0..0 -> PoolStates] /\ f[0] = st /\ \A i \in 1..0 : f[i] = Apply(events[i].s, f[i - 1])
    OBVIOUS
  <2>2. Good(0)
    BY <2>1
  <2> QED BY <1>0, <2>2
<1>2. \A k \in 0..n - 1 : k \in S => k + 1 \in S
  <2> SUFFICES ASSUME NEW k \in 0..n - 1, k \in S PROVE Good(k + 1)
    BY <1>0
  <2>1. PICK f \in [0..k -> PoolStates] : f[0] = st /\ \A i \in 1..k : f[i] = Apply(events[i].s, f[i - 1])
    OBVIOUS
  <2> DEFINE last == Apply(events[k + 1].s, f[k])
  <2>2. last \in PoolStates
    <3>0. k + 1 \in 1..Len(events)
      OBVIOUS
    <3>1. events[k + 1] \in Events
      BY <3>0
    <3>2. events[k + 1].s \in PoolStatements
      BY <3>1 DEF Events
    <3> QED BY <3>2, ApplyTyped
  <2>3. last = Apply(events[k + 1].s, f[k])
    OBVIOUS
  <2> HIDE DEF last
  <2> DEFINE g == [i \in 0..k + 1 |-> IF i = k + 1 THEN last ELSE f[i]]
  <2>4. g \in [0..k + 1 -> PoolStates]
    BY <2>2
  <2>5. g[0] = st
    BY <2>1
  <2>6. \A i \in 1..k + 1 : g[i] = Apply(events[i].s, g[i - 1])
    <3> TAKE i \in 1..k + 1
    <3>1. CASE i = k + 1
      <4>1. g[i] = last /\ g[i - 1] = f[k]
        BY <3>1
      <4> QED BY <4>1, <3>1, <2>3
    <3>2. CASE i # k + 1
      <4>1. i \in 1..k /\ g[i] = f[i] /\ g[i - 1] = f[i - 1]
        BY <3>2
      <4> QED BY <4>1, <2>1
    <3> QED BY <3>1, <3>2
  <2> HIDE DEF g
  <2> QED BY <2>4, <2>5, <2>6
<1>3. 0..n \subseteq S
  <2> HIDE DEF S, n
  <2> QED BY <1>0, <1>1, <1>2, Counting
<1>4. Good(n)
  <2>1. n \in S
    <3> HIDE DEF S, n
    <3> QED BY <1>0, <1>3
  <2> QED BY <2>1
<1> QED BY <1>4

\* The states f that the first n of events pass through, in turn.
Steps(events, n, f) == \A i \in 1..n : f[i] = Apply(events[i].s, f[i - 1])

\* What records applied in turn pass through is fixed by the first state.
LEMMA RunUnique ==
  ASSUME NEW events, NEW n \in Nat, NEW f, NEW g, f[0] = g[0],
         Steps(events, n, f), Steps(events, n, g)
  PROVE  f[n] = g[n]
<1> DEFINE S == {k \in 0..n : f[k] = g[k]}
<1>1. 0 \in S
  OBVIOUS
<1>2. \A k \in 0..n - 1 : k \in S => k + 1 \in S
  <2> SUFFICES ASSUME NEW k \in 0..n - 1, k \in S PROVE f[k + 1] = g[k + 1]
    OBVIOUS
  <2>1. k + 1 \in 1..n /\ (k + 1) - 1 = k
    OBVIOUS
  <2>2. f[k + 1] = Apply(events[k + 1].s, f[k]) /\ g[k + 1] = Apply(events[k + 1].s, g[k])
    BY <2>1 DEF Steps
  <2> QED BY <2>2
<1>3. 0..n \subseteq S
  <2> HIDE DEF S
  <2> QED BY <1>1, <1>2, Counting
<1> QED BY <1>3

\* Applying all gives the last of the states records pass through.
LEMMA AppliedRun ==
  ASSUME NEW st \in PoolStates, NEW events \in Seq(Events)
  PROVE  \E f \in [0..Len(events) -> PoolStates] :
            /\ f[0] = st /\ \A i \in 1..Len(events) : f[i] = Apply(events[i].s, f[i - 1])
            /\ ApplyAll(st, events) = f[Len(events)]
<1> DEFINE Is(f) == f = [i \in 0..Len(events) |-> IF i = 0 THEN st ELSE Apply(events[i].s, f[i - 1])]
<1>1. PICK f \in [0..Len(events) -> PoolStates] : f[0] = st /\ \A i \in 1..Len(events) : f[i] = Apply(events[i].s, f[i - 1])
  BY RunExists
<1>2. Is(f)
  BY <1>1
<1> DEFINE g == CHOOSE h : Is(h)
<1>3. Is(g)
  <2> HIDE DEF Is
  <2> QED BY <1>2
<1>4. ApplyAll(st, events) = g[Len(events)]
  BY DEF ApplyAll
<1> HIDE DEF g
<1>5. g[0] = st /\ \A i \in 1..Len(events) : g[i] = Apply(events[i].s, g[i - 1])
  <2>1. Len(events) \in Nat
    OBVIOUS
  <2> QED BY <1>3, <2>1
<1>6. f[Len(events)] = g[Len(events)]
  <2>1. Steps(events, Len(events), f) /\ Steps(events, Len(events), g)
    BY <1>1, <1>5 DEF Steps
  <2> QED BY <1>1, <1>5, <2>1, RunUnique
<1> QED BY <1>1, <1>4, <1>6

\* A replay gives a state of its type, of the same kind and in the same records.
LEMMA AppliedTyped ==
  ASSUME NEW st \in PoolStates, NEW events \in Seq(Events)
  PROVE  ApplyAll(st, events) \in PoolStates
<1>1. Len(events) \in 0..Len(events)
  OBVIOUS
<1> QED BY <1>1, AppliedRun

\* Only a record's statement matters to its effects.
LEMMA AppliedSame ==
  ASSUME NEW st \in PoolStates, NEW e \in Seq(Events), NEW f \in Seq(Events), Len(e) = Len(f),
         \A i \in 1..Len(e) : e[i].s = f[i].s
  PROVE  ApplyAll(st, e) = ApplyAll(st, f)
<1>1. PICK g \in [0..Len(e) -> PoolStates] :
        /\ g[0] = st /\ \A i \in 1..Len(e) : g[i] = Apply(e[i].s, g[i - 1])
        /\ ApplyAll(st, e) = g[Len(e)]
  BY AppliedRun
<1>2. PICK h \in [0..Len(f) -> PoolStates] :
        /\ h[0] = st /\ \A i \in 1..Len(f) : h[i] = Apply(f[i].s, h[i - 1])
        /\ ApplyAll(st, f) = h[Len(f)]
  BY AppliedRun
<1>3. Steps(e, Len(e), h)
  BY <1>2, Zenon DEF Steps
<1>4. g[Len(e)] = h[Len(e)]
  <2>1. Len(e) \in Nat /\ g[0] = h[0]
    BY <1>1, <1>2
  <2>2. Steps(e, Len(e), g)
    BY <1>1 DEF Steps
  <2> QED BY <1>3, <2>1, <2>2, RunUnique
<1> QED BY <1>1, <1>2, <1>4

\* No record changes nothing, and each applies to what those before it give.
LEMMA AppliedStep ==
  ASSUME NEW st \in PoolStates, NEW events \in Seq(Events)
  PROVE  /\ ApplyAll(st, <<>>) = st
         /\ \A k \in 1..Len(events) :
               ApplyAll(st, SubSeq(events, 1, k)) =
                 Apply(events[k].s, ApplyAll(st, SubSeq(events, 1, k - 1)))
<1> DEFINE n == Len(events)
<1>1. PICK f \in [0..n -> PoolStates] :
        f[0] = st /\ \A i \in 1..n : f[i] = Apply(events[i].s, f[i - 1])
  BY RunExists
<1>2. \A k \in 0..n : ApplyAll(st, SubSeq(events, 1, k)) = f[k]
  <2> TAKE k \in 0..n
  <2> DEFINE e == SubSeq(events, 1, k)
  <2>1. e \in Seq(Events) /\ Len(e) = k /\ \A i \in 1..k : e[i] = events[i]
    OBVIOUS
  <2> HIDE DEF e
  <2>2. PICK g \in [0..Len(e) -> PoolStates] :
          /\ g[0] = st /\ \A i \in 1..Len(e) : g[i] = Apply(e[i].s, g[i - 1])
          /\ ApplyAll(st, e) = g[Len(e)]
    BY <2>1, AppliedRun
  <2>3. Steps(events, k, f) /\ Steps(events, k, g)
    <3>1. \A i \in 1..k : i \in 1..n
      OBVIOUS
    <3> QED BY <2>1, <2>2, <1>1, <3>1, Zenon DEF Steps
  <2>4. k \in Nat /\ f[0] = g[0]
    BY <1>1, <2>2
  <2>5. f[k] = g[k]
    BY <2>3, <2>4, RunUnique
  <2> QED BY <2>1, <2>2, <2>5 DEF e
<1>3. ApplyAll(st, <<>>) = st
  <2>1. SubSeq(events, 1, 0) = <<>> /\ 0 \in 0..n
    OBVIOUS
  <2> QED BY <1>1, <1>2, <2>1
<1>4. \A k \in 1..n : k \in 0..n /\ k - 1 \in 0..n
  OBVIOUS
<1> QED BY <1>1, <1>2, <1>3, <1>4

\* Records applied in two parts give what they give at once.
LEMMA AppliedSplit ==
  ASSUME NEW st \in PoolStates, NEW events \in Seq(Events), NEW m \in 0..Len(events)
  PROVE  /\ SubSeq(events, 1, m) \in Seq(Events)
         /\ SubSeq(events, m + 1, Len(events)) \in Seq(Events)
         /\ ApplyAll(st, events) =
              ApplyAll(ApplyAll(st, SubSeq(events, 1, m)), SubSeq(events, m + 1, Len(events)))
<1> DEFINE n == Len(events)
           rest == SubSeq(events, m + 1, n)
           first == SubSeq(events, 1, m)
<1>0. n \in Nat /\ m \in Nat /\ m <= n
  OBVIOUS
<1>1. rest \in Seq(Events) /\ Len(rest) = n - m /\ \A i \in 1..n - m : rest[i] = events[m + i]
  <2>1. \A i \in m + 1..n : events[i] \in Events
    OBVIOUS
  <2>2. /\ rest \in Seq(Events)
        /\ Len(rest) = IF m + 1 <= n THEN n - (m + 1) + 1 ELSE 0
        /\ \A i \in 1..n - (m + 1) + 1 : rest[i] = events[(m + 1) + i - 1]
    BY <1>0, <2>1, SubSeqProperties
  <2>3. \A i \in 1..n - m : (m + 1) + i - 1 = m + i
    BY <1>0
  <2> HIDE DEF rest
  <2> QED BY <1>0, <2>2, <2>3
<1>2. first \in Seq(Events) /\ Len(first) = m /\ \A i \in 1..m : first[i] = events[i]
  OBVIOUS
<1> HIDE DEF rest, first
<1>3. PICK f \in [0..n -> PoolStates] :
        /\ f[0] = st /\ \A i \in 1..n : f[i] = Apply(events[i].s, f[i - 1])
        /\ ApplyAll(st, events) = f[n]
  BY AppliedRun
<1>4. PICK g \in [0..m -> PoolStates] :
        /\ g[0] = st /\ \A i \in 1..m : g[i] = Apply(first[i].s, g[i - 1])
        /\ ApplyAll(st, first) = g[m]
  BY <1>2, AppliedRun
<1>5. f[m] = ApplyAll(st, first)
  <2>1. Steps(events, m, f)
    BY <1>0, <1>3 DEF Steps
  <2>2. Steps(events, m, g)
    BY <1>2, <1>4 DEF Steps
  <2> QED BY <1>0, <1>3, <1>4, <2>1, <2>2, RunUnique
<1>6. f[m] \in PoolStates
  BY <1>0
<1>7. PICK h \in [0..n - m -> PoolStates] :
        /\ h[0] = f[m] /\ \A i \in 1..n - m : h[i] = Apply(rest[i].s, h[i - 1])
        /\ ApplyAll(f[m], rest) = h[n - m]
  <2>1. \E h \in [0..Len(rest) -> PoolStates] :
          /\ h[0] = f[m] /\ \A i \in 1..Len(rest) : h[i] = Apply(rest[i].s, h[i - 1])
          /\ ApplyAll(f[m], rest) = h[Len(rest)]
    BY <1>1, <1>6, AppliedRun
  <2>2. Len(rest) = n - m
    BY <1>1
  <2> HIDE DEF n
  <2> QED BY <2>1, <2>2, Zenon
<1> DEFINE k == [i \in 0..n - m |-> f[m + i]]
<1>8. k[0] = f[m] /\ k[n - m] = f[n]
  BY <1>0
<1>9. Steps(rest, n - m, k)
  <2> SUFFICES ASSUME NEW i \in 1..n - m PROVE k[i] = Apply(rest[i].s, k[i - 1])
    BY DEF Steps
  <2>1. m + i \in 1..n /\ (m + i) - 1 = m + (i - 1) /\ i \in 0..n - m /\ i - 1 \in 0..n - m
    BY <1>0
  <2>2. f[m + i] = Apply(events[m + i].s, f[(m + i) - 1])
    BY <1>3, <2>1
  <2> QED BY <1>1, <2>1, <2>2
<1>10. Steps(rest, n - m, h)
  BY <1>7 DEF Steps
<1> HIDE DEF k
<1>11. k[n - m] = h[n - m]
  BY <1>0, <1>7, <1>8, <1>9, <1>10, RunUnique
<1>12. ApplyAll(st, events) = ApplyAll(ApplyAll(st, first), rest)
  BY <1>3, <1>5, <1>7, <1>8, <1>11
<1> QED BY <1>1, <1>2, <1>12 DEF first, rest

\* The effects records leave: what was created, spent and effective stays.
Grows(x, y) ==
  x.outputs \subseteq y.outputs /\ x.spent \subseteq y.spent /\ x.effective \subseteq y.effective

\* Every demand that stands was made effective by its presentation.
StoodUp(x) == x.demands \subseteq x.effective

\* Equal but for the statements of the segment's own records.
Alike(x, y) ==
  /\ x.outputs = y.outputs /\ x.spent = y.spent
  /\ x.demands = y.demands /\ x.effective = y.effective

\* One record's effects keep all of these.
LEMMA ApplyKeeps ==
  ASSUME NEW s \in PoolStatements, NEW x \in PoolStates
  PROVE  /\ Grows(x, Apply(s, x))
         /\ StoodUp(x) => StoodUp(Apply(s, x))
         /\ s.kind >= Present => s \in Apply(s, x).effective
         /\ Apply(s, x).statements = x.statements \cup {s}
         /\ \A y \in PoolStates : Alike(x, y) => Alike(Apply(s, x), Apply(s, y))
<1>1. s.kind = Present => s.kind >= Present
  BY DEF Present
<1> QED BY <1>1 DEF Grows, StoodUp, Alike, Apply, PoolStates, StoodUpBy

\* Records applied in turn keep them too, and each leaves its statement.
LEMMA AppliedKeeps ==
  ASSUME NEW x \in PoolStates, NEW events \in Seq(Events)
  PROVE  /\ Grows(x, ApplyAll(x, events))
         /\ StoodUp(x) => StoodUp(ApplyAll(x, events))
         /\ \A i \in 1..Len(events) : events[i].s.kind >= Present => events[i].s \in ApplyAll(x, events).effective
         /\ (\A i \in 1..Len(events) : events[i].s.kind >= Present)
              => ApplyAll(x, events).statements \subseteq x.statements \cup ApplyAll(x, events).effective
<1> DEFINE n == Len(events)
<1>0. n \in Nat
  OBVIOUS
<1>1. PICK f \in [0..n -> PoolStates] :
        /\ f[0] = x /\ \A i \in 1..n : f[i] = Apply(events[i].s, f[i - 1])
        /\ ApplyAll(x, events) = f[n]
  BY AppliedRun
<1> DEFINE Kept(k) ==
      /\ Grows(x, f[k])
      /\ StoodUp(x) => StoodUp(f[k])
      /\ \A i \in 1..k : events[i].s.kind >= Present => events[i].s \in f[k].effective
      /\ (\A i \in 1..n : events[i].s.kind >= Present) => f[k].statements \subseteq x.statements \cup f[k].effective
<1> DEFINE S == {k \in 0..n : Kept(k)}
<1>2. 0 \in S
  <2>1. Kept(0)
    BY <1>1 DEF Grows
  <2> HIDE DEF Kept
  <2> QED BY <1>0, <2>1
<1>3. \A k \in 0..n - 1 : k \in S => k + 1 \in S
  <2> SUFFICES ASSUME NEW k \in 0..n - 1, Kept(k) PROVE Kept(k + 1)
    BY <1>0
  <2> DEFINE s == events[k + 1].s
  <2>1. k + 1 \in 1..n /\ k \in 0..n /\ k + 1 \in 0..n /\ (k + 1) - 1 = k
    BY <1>0
  <2>2. s \in PoolStatements
    <3>1. events[k + 1] \in Events
      BY <2>1
    <3> QED BY <3>1 DEF Events
  <2>3. f[k + 1] = Apply(s, f[k])
    BY <1>1, <2>1
  <2> HIDE DEF s
  <2>4. f[k] \in PoolStates
    BY <2>1
  <2>5. /\ Grows(f[k], f[k + 1])
        /\ StoodUp(f[k]) => StoodUp(f[k + 1])
        /\ s.kind >= Present => s \in f[k + 1].effective
        /\ f[k + 1].statements = f[k].statements \cup {s}
    BY <2>2, <2>3, <2>4, ApplyKeeps
  <2>6. \A i \in 1..k + 1 : i \in 1..k \/ i = k + 1
    OBVIOUS
  <2>7. Grows(x, f[k + 1]) /\ (StoodUp(x) => StoodUp(f[k + 1]))
    BY <2>5 DEF Grows
  <2>8. \A i \in 1..k + 1 : events[i].s.kind >= Present => events[i].s \in f[k + 1].effective
    <3> SUFFICES ASSUME NEW i \in 1..k + 1, events[i].s.kind >= Present PROVE events[i].s \in f[k + 1].effective
      OBVIOUS
    <3>1. CASE i = k + 1
      BY <3>1, <2>5 DEF s
    <3>2. CASE i \in 1..k
      BY <3>2, <2>5 DEF Grows
    <3> QED BY <2>6, <3>1, <3>2
  <2>9. (\A i \in 1..n : events[i].s.kind >= Present)
          => f[k + 1].statements \subseteq x.statements \cup f[k + 1].effective
    <3> SUFFICES ASSUME \A i \in 1..n : events[i].s.kind >= Present
                 PROVE  f[k + 1].statements \subseteq x.statements \cup f[k + 1].effective
      OBVIOUS
    <3>1. s.kind >= Present
      BY <2>1 DEF s
    <3>2. f[k].statements \subseteq x.statements \cup f[k].effective
      OBVIOUS
    <3> QED BY <3>1, <3>2, <2>5 DEF Grows
  <2> QED BY <2>7, <2>8, <2>9
<1>4. 0..n \subseteq S
  <2> HIDE DEF S, n
  <2> QED BY <1>0, <1>2, <1>3, Counting
<1>5. Kept(n)
  <2>1. n \in S
    <3> HIDE DEF S, n
    <3> QED BY <1>0, <1>4
  <2> QED BY <2>1
<1> QED BY <1>1, <1>5

\* What a segment's own statements are does not matter to what records leave.
LEMMA AppliedAlike ==
  ASSUME NEW x \in PoolStates, NEW y \in PoolStates, Alike(x, y), NEW events \in Seq(Events)
  PROVE  Alike(ApplyAll(x, events), ApplyAll(y, events))
<1> DEFINE n == Len(events)
<1>0. n \in Nat
  OBVIOUS
<1>1. PICK f \in [0..n -> PoolStates] :
        /\ f[0] = x /\ \A i \in 1..n : f[i] = Apply(events[i].s, f[i - 1])
        /\ ApplyAll(x, events) = f[n]
  BY AppliedRun
<1>2. PICK g \in [0..n -> PoolStates] :
        /\ g[0] = y /\ \A i \in 1..n : g[i] = Apply(events[i].s, g[i - 1])
        /\ ApplyAll(y, events) = g[n]
  BY AppliedRun
<1> DEFINE S == {k \in 0..n : Alike(f[k], g[k])}
<1>3. 0 \in S
  BY <1>0, <1>1, <1>2
<1>4. \A k \in 0..n - 1 : k \in S => k + 1 \in S
  <2> SUFFICES ASSUME NEW k \in 0..n - 1, Alike(f[k], g[k]) PROVE Alike(f[k + 1], g[k + 1])
    BY <1>0
  <2>1. k + 1 \in 1..n /\ k \in 0..n /\ (k + 1) - 1 = k
    BY <1>0
  <2>2. events[k + 1].s \in PoolStatements
    <3>1. events[k + 1] \in Events
      BY <2>1
    <3> QED BY <3>1 DEF Events
  <2>3. f[k + 1] = Apply(events[k + 1].s, f[k]) /\ g[k + 1] = Apply(events[k + 1].s, g[k])
    BY <1>1, <1>2, <2>1
  <2>4. f[k] \in PoolStates /\ g[k] \in PoolStates
    BY <2>1
  <2> QED BY <2>2, <2>3, <2>4, ApplyKeeps
<1>5. 0..n \subseteq S
  <2> HIDE DEF S, n
  <2> QED BY <1>0, <1>3, <1>4, Counting
<1>6. Alike(f[n], g[n])
  <2>1. n \in S
    <3> HIDE DEF S, n
    <3> QED BY <1>0, <1>5
  <2> QED BY <2>1
<1> QED BY <1>1, <1>2, <1>6

-----------------------------------------------------------------------------
\* A part of a trail: its length and its records.
LEMMA PartOf ==
  ASSUME NEW S, NEW ev \in Seq(S), NEW a \in 0..Len(ev), NEW c \in a..Len(ev)
  PROVE  /\ SubSeq(ev, a + 1, c) \in Seq(S)
         /\ Len(SubSeq(ev, a + 1, c)) = c - a
         /\ \A i \in 1..c - a : SubSeq(ev, a + 1, c)[i] = ev[a + i]
<1>0. a \in Nat /\ c \in Nat /\ a <= c /\ c <= Len(ev) /\ Len(ev) \in Nat
  OBVIOUS
<1>1. \A i \in a + 1..c : ev[i] \in S
  BY <1>0
<1>2. /\ SubSeq(ev, a + 1, c) \in Seq(S)
      /\ Len(SubSeq(ev, a + 1, c)) = IF a + 1 <= c THEN c - (a + 1) + 1 ELSE 0
      /\ \A i \in 1..c - (a + 1) + 1 : SubSeq(ev, a + 1, c)[i] = ev[(a + 1) + i - 1]
  BY <1>0, <1>1, SubSeqProperties
<1>3. \A i \in 1..c - a : (a + 1) + i - 1 = a + i
  BY <1>0
<1>4. c - (a + 1) + 1 = c - a /\ (IF a + 1 <= c THEN c - (a + 1) + 1 ELSE 0) = c - a
  BY <1>0
<1> QED BY <1>2, <1>3, <1>4, Zenon

\* Parts of parts: a checkpoint's records after the canonical ones (replayTrail).
LEMMA PartOfPart ==
  ASSUME NEW S, NEW ev \in Seq(S), NEW a \in 0..Len(ev), NEW c \in a..Len(ev),
         NEW m \in 0..c - a, NEW n \in m..c - a
  PROVE  SubSeq(SubSeq(ev, a + 1, c), m + 1, n) = SubSeq(ev, a + m + 1, a + n)
<1> DEFINE e == SubSeq(ev, a + 1, c)
           x == SubSeq(e, m + 1, n)
           y == SubSeq(ev, (a + m) + 1, a + n)
<1>0. /\ Len(ev) \in Nat /\ a \in Nat /\ c \in Nat /\ m \in Nat /\ n \in Nat
      /\ a <= c /\ c <= Len(ev) /\ m <= n /\ n <= c - a
  OBVIOUS
<1>1. e \in Seq(S) /\ Len(e) = c - a /\ \A i \in 1..c - a : e[i] = ev[a + i]
  BY PartOf
<1> HIDE DEF e
<1>2. x \in Seq(S) /\ Len(x) = n - m /\ \A i \in 1..n - m : x[i] = e[m + i]
  <2>1. m \in 0..Len(e) /\ n \in m..Len(e)
    BY <1>0, <1>1
  <2> QED BY <1>1, <2>1, PartOf
<1>3. y \in Seq(S) /\ Len(y) = (a + n) - (a + m) /\ \A i \in 1..(a + n) - (a + m) : y[i] = ev[(a + m) + i]
  <2>1. a + m \in 0..Len(ev) /\ a + n \in a + m..Len(ev)
    BY <1>0
  <2> HIDE DEF y
  <2>2. y = SubSeq(ev, (a + m) + 1, a + n)
    BY DEF y
  <2> QED BY <2>1, <2>2, PartOf
<1> HIDE DEF x, y
<1>4. Len(x) = Len(y)
  BY <1>0, <1>2, <1>3
<1>5. \A i \in 1..Len(x) : x[i] = y[i]
  <2> TAKE i \in 1..Len(x)
  <2>1. i \in 1..n - m /\ i \in 1..(a + n) - (a + m) /\ m + i \in 1..c - a /\ a + (m + i) = (a + m) + i
    BY <1>0, <1>2
  <2> QED BY <1>1, <1>2, <1>3, <2>1
<1>6. x = y
  BY <1>2, <1>3, <1>4, <1>5, SeqEqual
<1> QED BY <1>6 DEF x, y, e

\* A trail, or the force, that only grew has the same parts (submit, Tick).
LEMMA PartOfAppend ==
  ASSUME NEW S, NEW ev \in Seq(S), NEW e \in S, NEW a \in 0..Len(ev), NEW c \in a..Len(ev)
  PROVE  SubSeq(Append(ev, e), a + 1, c) = SubSeq(ev, a + 1, c)
<1> DEFINE w == Append(ev, e)
           x == SubSeq(ev, a + 1, c)
           y == SubSeq(w, a + 1, c)
<1>0. Len(ev) \in Nat /\ a \in Nat /\ c \in Nat /\ a <= c /\ c <= Len(ev)
  OBVIOUS
<1>1. w \in Seq(S) /\ Len(w) = Len(ev) + 1 /\ \A i \in 1..Len(ev) : w[i] = ev[i]
  OBVIOUS
<1>2. x \in Seq(S) /\ Len(x) = c - a /\ \A i \in 1..c - a : x[i] = ev[a + i]
  BY PartOf
<1> HIDE DEF w
<1>3. y \in Seq(S) /\ Len(y) = c - a /\ \A i \in 1..c - a : y[i] = w[a + i]
  <2>1. a \in 0..Len(w) /\ c \in a..Len(w)
    BY <1>0, <1>1
  <2> QED BY <1>1, <2>1, PartOf
<1> HIDE DEF x, y
<1>4. \A i \in 1..c - a : a + i \in 1..Len(ev)
  BY <1>0
<1>5. \A i \in 1..Len(x) : x[i] = y[i]
  BY <1>1, <1>2, <1>3, <1>4
<1>6. Len(x) = Len(y)
  BY <1>2, <1>3
<1>7. x = y
  BY <1>2, <1>3, <1>5, <1>6, SeqEqual
<1> QED BY <1>7 DEF x, y, w

\* Records applied in turn, over a part of a sequence.
LEMMA AppliedPart ==
  ASSUME NEW st \in PoolStates, NEW ev \in Seq(Events), NEW a \in 0..Len(ev), NEW c \in a..Len(ev)
  PROVE  /\ ApplyAll(st, SubSeq(ev, a + 1, c)) \in PoolStates
         /\ c = a => ApplyAll(st, SubSeq(ev, a + 1, c)) = st
         /\ c > a => ApplyAll(st, SubSeq(ev, a + 1, c)) = Apply(ev[c].s, ApplyAll(st, SubSeq(ev, a + 1, c - 1)))
<1> DEFINE e == SubSeq(ev, a + 1, c)
<1>0. Len(ev) \in Nat /\ a \in Nat /\ c \in Nat /\ a <= c /\ c <= Len(ev)
  OBVIOUS
<1>1. e \in Seq(Events) /\ Len(e) = c - a /\ \A i \in 1..c - a : e[i] = ev[a + i]
  BY PartOf
<1>2. ApplyAll(st, e) \in PoolStates
  BY <1>1, AppliedTyped
<1>3. c = a => ApplyAll(st, e) = st
  <2> SUFFICES ASSUME c = a PROVE ApplyAll(st, e) = st
    OBVIOUS
  <2>1. e = <<>>
    BY <1>0, <1>1
  <2> QED BY <2>1, AppliedStep
<1>4. ASSUME c > a PROVE ApplyAll(st, e) = Apply(ev[c].s, ApplyAll(st, SubSeq(ev, a + 1, c - 1)))
  <2>1. c - a \in 1..Len(e) /\ (c - a) - 1 \in 0..c - a /\ a + (c - a) = c
        /\ 0 \in 0..c - a /\ (c - a) - 1 \in 0..(c - a) /\ a + 0 + 1 = a + 1 /\ a + ((c - a) - 1) = c - 1
    BY <1>0, <1>1, <1>4
  <2>2. SubSeq(e, 0 + 1, (c - a) - 1) = SubSeq(ev, a + 0 + 1, a + ((c - a) - 1))
    BY <2>1, PartOfPart
  <2>3. SubSeq(e, 1, (c - a) - 1) = SubSeq(ev, a + 1, c - 1)
    BY <2>1, <2>2
  <2> HIDE DEF e
  <2>4. SubSeq(e, 1, c - a) = e
    BY <1>1
  <2>5. ApplyAll(st, SubSeq(e, 1, c - a)) = Apply(e[c - a].s, ApplyAll(st, SubSeq(e, 1, (c - a) - 1)))
    BY <1>1, <2>1, AppliedStep
  <2>6. e[c - a] = ev[c]
    BY <1>1, <2>1
  <2> QED BY <2>3, <2>4, <2>5, <2>6
<1> QED BY <1>2, <1>3, <1>4

\* Records applied up to one place and on from it (replayTrail over a last valid prefix).
LEMMA AppliedParts ==
  ASSUME NEW st \in PoolStates, NEW ev \in Seq(Events),
         NEW a \in 0..Len(ev), NEW b \in a..Len(ev), NEW c \in b..Len(ev)
  PROVE  ApplyAll(st, SubSeq(ev, a + 1, c)) =
           ApplyAll(ApplyAll(st, SubSeq(ev, a + 1, b)), SubSeq(ev, b + 1, c))
<1> DEFINE e == SubSeq(ev, a + 1, c)
<1>0. Len(ev) \in Nat /\ a \in Nat /\ b \in Nat /\ c \in Nat /\ a <= b /\ b <= c /\ c <= Len(ev)
  OBVIOUS
<1>1. c \in a..Len(ev)
  BY <1>0
<1>2. e \in Seq(Events) /\ Len(e) = c - a
  BY <1>1, PartOf
<1>3. b - a \in 0..c - a /\ b - a \in (b - a)..(c - a) /\ c - a \in (b - a)..(c - a) /\ 0 \in 0..c - a /\ b - a \in 0..(c - a)
      /\ a + 0 + 1 = a + 1 /\ a + (b - a) = b /\ a + (b - a) + 1 = b + 1 /\ a + (c - a) = c
  BY <1>0
<1>4. SubSeq(e, 1, b - a) = SubSeq(ev, a + 1, b)
  <2>1. SubSeq(e, 0 + 1, b - a) = SubSeq(ev, a + 0 + 1, a + (b - a))
    BY <1>1, <1>3, PartOfPart
  <2> QED BY <1>3, <2>1
<1>5. SubSeq(e, (b - a) + 1, c - a) = SubSeq(ev, b + 1, c)
  <2>1. SubSeq(e, (b - a) + 1, c - a) = SubSeq(ev, a + (b - a) + 1, a + (c - a))
    BY <1>1, <1>3, PartOfPart
  <2> QED BY <1>3, <2>1
<1> HIDE DEF e
<1>6. b - a \in 0..Len(e)
  BY <1>2, <1>3
<1>7. ApplyAll(st, e) = ApplyAll(ApplyAll(st, SubSeq(e, 1, b - a)), SubSeq(e, (b - a) + 1, Len(e)))
  BY <1>2, <1>6, AppliedSplit
<1> QED BY <1>2, <1>4, <1>5, <1>7 DEF e

-----------------------------------------------------------------------------
Checkpoints ==
  [seq : Nat, seg : Nat, trail : Seq(Events), parent : Nat, at : Nat, observed : Nat,
   published : BOOLEAN]

ServiceTypes ==
  /\ now \in Nat /\ latest \in Nat /\ retired \subseteq Nat
  /\ flight \subseteq Checkpoints
  /\ forced \in Seq(Events)
  /\ canon \in [seq : Nat, seg : Nat, trail : Seq(Events), index : Nat, opened : Nat,
                adoption : Nat, state : PoolStates]
  /\ journal \in [seg : Nat, pending : BOOLEAN, trail : Seq(Events), state : PoolStates,
                  last : Checkpoints]

\* What a publication in force was judged by, over the state before it.
CanForce(e, x) ==
  /\ e.s.kind \in {Present, Withdraw, Settle} /\ Proved(e.s)
  /\ e.s.ins \subseteq x.outputs
  /\ CheckRecovery(e.s, x, e.index, TRUE)
  /\ CheckUniqueEffects(e.s, x)

\* The state the i-th publication in force was judged over.
ForcedOver(i) == ApplyAll(canon.state, SubSeq(forced, Through(canon.adoption) + 1, i - 1))

\* The reader's clock: a segment is silent exactly where it has its boundary.
ClockOK ==
  /\ canon.adoption <= canon.opened /\ canon.opened <= canon.index /\ canon.index <= now
  /\ 1 <= canon.seq /\ canon.seq <= latest
  /\ GapOpen(now) <=> canon.seg \in retired
  /\ \A g \in retired : g <= canon.seg

\* What was forced: in venue order, only over a silent segment, each over those
\* before it; what was adopted is in the canonical state.
ForceOK ==
  /\ \A i, j \in 1..Len(forced) : i < j => forced[i].index <= forced[j].index
  /\ \A i \in 1..Len(forced) :
       /\ forced[i].index <= now /\ forced[i].s.kind >= Present
       /\ forced[i].index > canon.opened => canon.seg \in retired
       /\ forced[i].index <= canon.adoption => forced[i].s \in canon.state.effective
       /\ forced[i].index > canon.adoption => CanForce(forced[i], ForcedOver(i))

CanonOK ==
  /\ StoodUp(canon.state)
  /\ canon.trail = <<>> => canon.state.statements = {}
  /\ canon.trail # <<>> => canon.adoption = canon.opened

\* The operator's file: a return pending stands on the canonical checkpoint, and
\* any other segment of the journal is the canonical one.
JournalOK ==
  /\ latest <= journal.last.seq /\ journal.last.seg = journal.seg
  /\ ~journal.last.published => latest < journal.last.seq
  /\ latest < journal.last.seq /\ journal.last.parent # 0 => journal.pending
  /\ journal.pending =>
       /\ journal.last.parent # 0 /\ journal.trail = <<>>
       /\ latest < journal.last.seq =>
            /\ journal.last.parent = canon.seq /\ journal.seg = canon.seg + 1
            /\ journal.state = OpenSegmentState(canon.state) /\ canon.seg \in retired
       /\ latest = journal.last.seq =>
            canon.seg = journal.seg /\ canon.trail = <<>> /\ canon.state = journal.state
  /\ ~journal.pending => canon.seg = journal.seg

\* The block a continuation still has to adopt.
Adopted == IF canon.trail = <<>> THEN Block ELSE <<>>

Awaited == flight \cup (IF journal.last.published THEN {} ELSE {journal.last})

Continuations == {c \in Awaited : c.parent = 0}

\* A commitment on its way continues the journal's segment or lapses.
InActive(c) == c.seg = journal.seg /\ ~journal.pending

FlightOK ==
  /\ \A c \in flight :
       /\ latest < c.seq /\ c.seq <= journal.last.seq /\ c.published
       /\ c.seq = journal.last.seq => c = journal.last
       /\ c.parent # 0 => journal.pending /\ c = journal.last
  /\ \A c \in Continuations :
       /\ c.seg <= journal.seg /\ (c.seg \in retired \/ InActive(c))
       /\ c.at <= now /\ \A i \in 1..Len(c.trail) : c.trail[i].index <= c.at + Lag
       /\ c.at + Lag - canon.index <= Duration
       /\ c.seg \in retired => now > c.at + Lag
       /\ InActive(c) =>
            /\ Len(canon.trail) + Len(Adopted) <= Len(c.trail)
            /\ Len(c.trail) <= Len(journal.trail)
            /\ c.trail = SubSeq(journal.trail, 1, Len(c.trail))
  /\ \A c, d \in Continuations :
       c.seg = d.seg /\ c.seq < d.seq => Len(c.trail) <= Len(d.trail)

\* The state the i-th record of the journal was judged over.
AdmittedOver(i) == ApplyAll(canon.state, SubSeq(journal.trail, Len(canon.trail) + 1, i - 1))

\* The journal's records continue the canonical ones: the block, then records
\* each admitted over those before it.
TrailOK ==
  ~journal.pending =>
    /\ Len(canon.trail) + Len(Adopted) <= Len(journal.trail)
    /\ canon.trail = SubSeq(journal.trail, 1, Len(canon.trail))
    /\ \A i \in 1..Len(Adopted) : journal.trail[i] = Adopted[i]
    /\ journal.state = AdmittedOver(Len(journal.trail) + 1)
    /\ \A i \in 1..Len(journal.trail) : journal.trail[i].index <= now + Lag
    /\ \A i \in Len(canon.trail) + Len(Adopted) + 1..Len(journal.trail) :
         Judged(journal.trail[i].s, AdmittedOver(i), journal.seg, "admission",
                journal.trail[i].index, {})

ServiceSafe ==
  ServiceTypes /\ ClockOK /\ ForceOK /\ CanonOK /\ JournalOK /\ FlightOK /\ TrailOK
-----------------------------------------------------------------------------
\* A bounded set of places has a last one.
LEMMA Greatest ==
  ASSUME NEW n \in Nat, NEW P, P \subseteq 0..n, P # {}
  PROVE  Max(P) \in P /\ \A y \in P : y <= Max(P)
<1> DEFINE Found(k) == (\A y \in P : y > k) \/ \E m \in P : m <= k /\ \A y \in P : y <= k => y <= m
           S == {k \in 0..n : Found(k)}
<1>1. 0 \in S
  <2>1. Found(0)
    <3>1. CASE 0 \in P
      BY <3>1
    <3>2. CASE 0 \notin P
      <4>1. \A y \in P : y > 0
        BY <3>2
      <4> QED BY <4>1
    <3> QED BY <3>1, <3>2
  <2> QED BY <2>1
<1>2. \A k \in 0..n - 1 : k \in S => k + 1 \in S
  <2> SUFFICES ASSUME NEW k \in 0..n - 1, Found(k) PROVE Found(k + 1)
    OBVIOUS
  <2>0. \A y \in P : y \in Nat /\ (y <= k + 1 => y <= k \/ y = k + 1)
    OBVIOUS
  <2>1. CASE k + 1 \in P
    BY <2>1, <2>0
  <2>2. CASE k + 1 \notin P
    <3>1. CASE \A y \in P : y > k
      <4>1. \A y \in P : y > k + 1
        BY <3>1, <2>0, <2>2
      <4> QED BY <4>1
    <3>2. CASE \E m \in P : m <= k /\ \A y \in P : y <= k => y <= m
      <4>1. PICK m \in P : m <= k /\ \A y \in P : y <= k => y <= m
        BY <3>2
      <4>2. m <= k + 1 /\ \A y \in P : y <= k + 1 => y <= m
        BY <4>1, <2>0, <2>2
      <4> QED BY <4>2
    <3> QED BY <3>1, <3>2
  <2> QED BY <2>1, <2>2
<1>3. 0..n \subseteq S
  <2> HIDE DEF S
  <2> QED BY <1>1, <1>2, Counting
<1>4. PICK m \in P : m <= n /\ \A y \in P : y <= n => y <= m
  <2>1. n \in S
    <3> HIDE DEF S
    <3> QED BY <1>3
  <2>2. Found(n)
    BY <2>1
  <2>3. PICK p \in P : TRUE
    OBVIOUS
  <2>4. ~(p > n)
    OBVIOUS
  <2> QED BY <2>2, <2>4
<1>5. \A y \in P : m >= y
  BY <1>4
<1>6. Max(P) \in P /\ \A y \in P : Max(P) >= y
  BY <1>5 DEF Max
<1>7. Max(P) \in Nat
  <2>1. P \subseteq Nat
    OBVIOUS
  <2> QED BY <1>6, <2>1, Zenon
<1> QED BY <1>6, <1>7

\* The publications of a list in venue order, through an index.
CountedThrough(list, x) == Max({0} \cup {i \in DOMAIN list : list[i].index <= x})

Ordered(list) == \A i, j \in 1..Len(list) : i < j => list[i].index <= list[j].index

\* They are its first ones (unadopted's range of the force).
LEMMA ThroughCounts ==
  ASSUME NEW list \in Seq(Events), NEW x \in Nat, Ordered(list)
  PROVE  /\ CountedThrough(list, x) \in 0..Len(list)
         /\ \A i \in 1..Len(list) : list[i].index <= x <=> i <= CountedThrough(list, x)
<1> DEFINE P == {0} \cup {i \in DOMAIN list : list[i].index <= x}
           m == CountedThrough(list, x)
<1>0. Len(list) \in Nat /\ DOMAIN list = 1..Len(list)
  OBVIOUS
<1>1. P \subseteq 0..Len(list) /\ P # {}
  BY <1>0
<1>2. m = Max(P)
  BY DEF CountedThrough
<1> HIDE DEF P, m
<1>3. m \in P /\ \A y \in P : y <= m
  BY <1>0, <1>1, <1>2, Greatest
<1>4. m \in 0..Len(list)
  BY <1>1, <1>3
<1>5. ASSUME NEW i \in 1..Len(list), list[i].index <= x PROVE i <= m
  <2>1. i \in P
    BY <1>0, <1>5 DEF P
  <2> QED BY <1>3, <2>1
<1>6. ASSUME NEW i \in 1..Len(list), i <= m PROVE list[i].index <= x
  <2>1. m \in 1..Len(list) /\ list[m].index <= x
    BY <1>0, <1>3, <1>4, <1>6 DEF P
  <2>2. list[i] \in Events /\ list[m] \in Events
    BY <2>1
  <2>3. list[i].index \in Nat /\ list[m].index \in Nat
    BY <2>2 DEF Events
  <2>4. i = m \/ list[i].index <= list[m].index
    BY <1>6, <2>1 DEF Ordered
  <2> QED BY <2>1, <2>3, <2>4
<1>7. \A i \in 1..Len(list) : list[i].index <= x <=> i <= m
  BY <1>5, <1>6
<1> QED BY <1>4, <1>7 DEF m

\* A number of first ones with the indices for it is theirs.
LEMMA ThroughIs ==
  ASSUME NEW list \in Seq(Events), NEW x \in Nat, Ordered(list), NEW m \in 0..Len(list),
         \A i \in 1..Len(list) : list[i].index <= x <=> i <= m
  PROVE  CountedThrough(list, x) = m
<1> DEFINE n == CountedThrough(list, x)
<1>1. n \in 0..Len(list) /\ \A i \in 1..Len(list) : list[i].index <= x <=> i <= n
  BY ThroughCounts
<1> HIDE DEF n
<1>2. Len(list) \in Nat
  OBVIOUS
<1>3. n <= m
  <2>1. CASE n = 0
    BY <2>1
  <2>2. CASE n # 0
    <3>1. n \in 1..Len(list) /\ n <= n
      BY <1>1, <1>2, <2>2
    <3> QED BY <1>1, <3>1
  <2> QED BY <2>1, <2>2
<1>4. m <= n
  <2>1. CASE m = 0
    BY <2>1, <1>1
  <2>2. CASE m # 0
    <3>1. m \in 1..Len(list) /\ m <= m
      BY <1>2, <2>2
    <3> QED BY <1>1, <3>1
  <2> QED BY <2>1, <2>2
<1> QED BY <1>1, <1>3, <1>4 DEF n

\* A later publication in force leaves the earlier ones those of their indices.
LEMMA ThroughAppend ==
  ASSUME NEW list \in Seq(Events), NEW e \in Events, NEW x \in Nat, Ordered(list), Ordered(Append(list, e)),
         e.index > x
  PROVE  CountedThrough(Append(list, e), x) = CountedThrough(list, x)
<1> DEFINE w == Append(list, e)
           m == CountedThrough(list, x)
<1>0. Len(list) \in Nat /\ e.index \in Nat
  BY DEF Events
<1>1. m \in 0..Len(list) /\ \A i \in 1..Len(list) : list[i].index <= x <=> i <= m
  BY ThroughCounts
<1>2. w \in Seq(Events) /\ Len(w) = Len(list) + 1 /\ w[Len(list) + 1] = e /\ \A i \in 1..Len(list) : w[i] = list[i]
  OBVIOUS
<1>3. Ordered(w)
  OBVIOUS
<1> HIDE DEF w, m
<1>4. m \in 0..Len(w)
  BY <1>0, <1>1, <1>2
<1>5. \A i \in 1..Len(w) : w[i].index <= x <=> i <= m
  <2> TAKE i \in 1..Len(w)
  <2>1. CASE i = Len(list) + 1
    <3>1. ~(i <= m) /\ ~(w[i].index <= x)
      BY <1>0, <1>1, <1>2, <2>1
    <3> QED BY <3>1
  <2>2. CASE i # Len(list) + 1
    <3>1. i \in 1..Len(list)
      BY <1>0, <1>2, <2>2
    <3> QED BY <1>1, <1>2, <3>1
  <2> QED BY <2>1, <2>2
<1>6. CountedThrough(w, x) = m
  BY <1>2, <1>3, <1>4, <1>5, ThroughIs
<1> QED BY <1>6 DEF w, m

-----------------------------------------------------------------------------
\* The force since the adoption index, and the block an opening fixes, are parts
\* of what was forced (unadopted's range over the walk's force).
LEMMA Blocks ==
  ASSUME ServiceTypes, ClockOK, ForceOK
  PROVE  /\ Ordered(forced)
         /\ Through(canon.adoption) \in 0..Len(forced)
         /\ Through(canon.opened) \in Through(canon.adoption)..Len(forced)
         /\ Through(now) = Len(forced)
         /\ Block \in Seq(Events) /\ Len(Block) = Through(canon.opened) - Through(canon.adoption)
         /\ \A i \in 1..Len(Block) : Block[i] = forced[Through(canon.adoption) + i]
         /\ Adopted \in Seq(Events) /\ Len(Adopted) \in Nat
         /\ View = ApplyAll(canon.state, SubSeq(forced, Through(canon.adoption) + 1, Len(forced)))
         /\ View \in PoolStates
<1> DEFINE A == Through(canon.adoption)
           O == Through(canon.opened)
           n == Len(forced)
<1>0. /\ forced \in Seq(Events) /\ n \in Nat /\ now \in Nat /\ canon.adoption \in Nat /\ canon.opened \in Nat
      /\ canon.adoption <= canon.opened /\ canon.opened <= now /\ canon.state \in PoolStates
  BY DEF ServiceTypes, ClockOK
<1>1. Ordered(forced)
  BY DEF ForceOK, Ordered
<1>2. A \in 0..n /\ \A i \in 1..n : forced[i].index <= canon.adoption <=> i <= A
  <2>1. A = CountedThrough(forced, canon.adoption)
    BY DEF Through, CountedThrough
  <2> HIDE DEF A
  <2> QED BY <1>0, <1>1, <2>1, ThroughCounts
<1>3. O \in 0..n /\ \A i \in 1..n : forced[i].index <= canon.opened <=> i <= O
  <2>1. O = CountedThrough(forced, canon.opened)
    BY DEF Through, CountedThrough
  <2> HIDE DEF O
  <2> QED BY <1>0, <1>1, <2>1, ThroughCounts
<1>4. Through(now) = n
  <2>1. \A i \in 1..n : forced[i].index <= now <=> i <= n
    BY DEF ForceOK
  <2>2. n \in 0..n
    BY <1>0
  <2>3. Through(now) = CountedThrough(forced, now)
    BY DEF Through, CountedThrough
  <2> QED BY <1>0, <1>1, <2>1, <2>2, <2>3, ThroughIs
<1>5. Block = SubSeq(forced, A + 1, O) /\ View = ApplyAll(canon.state, SubSeq(forced, A + 1, Through(now)))
  BY DEF Block, View, ForcedIn
<1>6. Adopted = Block \/ Adopted = <<>>
  BY DEF Adopted
<1>7. A <= O
  <2> HIDE DEF A, O
  <2>1. CASE A = 0
    BY <2>1, <1>3
  <2>2. CASE A # 0
    <3>1. A \in 1..n
      BY <2>2, <1>2, <1>0
    <3>2. forced[A].index <= canon.adoption
      BY <3>1, <1>2
    <3>3. forced[A].index \in Nat
      <4>1. forced[A] \in Events
        BY <3>1, <1>0
      <4> QED BY <4>1 DEF Events
    <3>4. forced[A].index <= canon.opened
      BY <3>2, <3>3, <1>0
    <3> QED BY <3>1, <3>4, <1>3
  <2> QED BY <2>1, <2>2
<1> HIDE DEF A, O
<1>8. O \in A..n /\ n \in A..n
  BY <1>0, <1>2, <1>3, <1>7
<1>9. Block \in Seq(Events) /\ Len(Block) = O - A /\ \A i \in 1..O - A : Block[i] = forced[A + i]
  BY <1>0, <1>2, <1>5, <1>8, PartOf
<1>10. View \in PoolStates
  BY <1>0, <1>2, <1>4, <1>5, <1>8, AppliedPart
<1>11. Adopted \in Seq(Events) /\ Len(Adopted) \in Nat
  <2>1. Len(Block) \in Nat
    BY <1>9
  <2>2. <<>> \in Seq(Events) /\ Len(<<>>) = 0
    OBVIOUS
  <2> QED BY <1>6, <1>9, <2>1, <2>2
<1> QED BY <1>1, <1>2, <1>4, <1>5, <1>8, <1>9, <1>10, <1>11 DEF A, O

\* What clients submit and publish are statements of the rules' types.
LEMMA FormedByClients ==
  ASSUME NEW st \in PoolStates, NEW seg \in Nat,
         NEW s \in Transfers(seg, st) \cup Recoveries(seg, st)
  PROVE  /\ s \in PoolStatements
         /\ s \in Recoveries(seg, st) => s.kind \in {Present, Withdraw, Settle}
<1>0. ValueBound \in Nat /\ Value \in [Notes -> Nat] /\ Instants \subseteq Int /\ Deadlines \subseteq Int
      /\ Quantities \subseteq Nat
  BY NotesAssumption, ServiceAssumption DEF Quantities
<1>1. st.outputs \subseteq Notes /\ st.demands \subseteq Demands
  BY DEF PoolStates
<1> DEFINE Typed == [kind : Issue..Settle, seg : Nat, ins : SUBSET Notes, outs : SUBSET Notes,
                     quantity : Nat, instant : Int, deadline : Int, ended : SUBSET Demands]
<1>2. CASE s \in Transfers(seg, st)
  <2>1. s.kind # Present /\ s.kind # Settle /\ s.kind # Withdraw /\ s \in Typed
    BY <1>0, <1>1, <1>2 DEF Transfers, IssueOf, SpendOf, BurnOf, Statement, Issue, Spend, Burn, Present, Withdraw, Settle
  <2>2. s \in PoolStatements
    BY <2>1 DEF PoolStatements
  <2>3. s \in Recoveries(seg, st) => s.kind \in {Present, Withdraw, Settle}
    BY DEF Recoveries, DemandOf, WithdrawalOf, SettlementOf, Statement
  <2> QED BY <2>2, <2>3
<1>3. CASE s \in Recoveries(seg, st)
  <2>1. CASE \E notes \in SUBSET st.outputs, quantity \in Quantities, instant \in Instants, deadline \in Deadlines :
                s = DemandOf(seg, notes, quantity, instant, deadline)
    <3>1. s \in Demands /\ s \in Typed /\ s.kind = Present /\ s.kind # Settle /\ s.kind # Withdraw
      BY <1>0, <1>1, <2>1 DEF DemandOf, Statement, Demands, Issue, Present, Withdraw, Settle
    <3> QED BY <3>1 DEF PoolStatements
  <2>2. CASE \E d \in st.demands : s = WithdrawalOf(seg, d)
    <3>1. s \in Typed /\ s.kind = Withdraw /\ s.kind # Present /\ s.kind # Settle /\ s.outs = {}
      BY <1>0, <1>1, <2>2 DEF WithdrawalOf, Statement, Issue, Present, Withdraw, Settle
    <3> QED BY <3>1 DEF PoolStatements
  <2>3. CASE \E d \in st.demands, out \in Notes \ st.outputs, deadline \in Deadlines :
                s = SettlementOf(seg, d, out, deadline)
    <3>1. \A d \in Demands : d.ins \subseteq Notes
      BY DEF Demands
    <3>2. s \in Typed /\ s.kind = Settle /\ s.kind # Present /\ s.kind # Withdraw /\ \E d \in Demands : s.ended = {d}
      BY <1>0, <1>1, <2>3, <3>1 DEF SettlementOf, Statement, Issue, Present, Withdraw, Settle
    <3> QED BY <3>2 DEF PoolStatements
  <2> QED BY <1>3, <2>1, <2>2, <2>3 DEF Recoveries
<1> QED BY <1>2, <1>3

\* A record admitted follows those admitted before it (submit).
LEMMA SubmitKeeps ==
  ASSUME ServiceSafe, NEW s \in PoolStatements, Submit(s)
  PROVE  ServiceSafe'
<1> DEFINE e == Event(s, now + Lag)
           k == Len(canon.trail)
           m == Len(Adopted)
           jt == journal.trail
           n == Len(jt)
<1>0. Lag \in Nat /\ now \in Nat /\ ~journal.pending
  BY NotesAssumption DEF Submit, ServiceSafe, ServiceTypes
<1>1. e \in Events /\ e.s = s /\ e.index = now + Lag
  BY <1>0 DEF Events, Event
<1>2. jt \in Seq(Events) /\ canon.trail \in Seq(Events) /\ n \in Nat /\ k \in Nat
  BY DEF ServiceSafe, ServiceTypes
<1>3. canon.state \in PoolStates /\ journal.state \in PoolStates
  BY DEF ServiceSafe, ServiceTypes
<1>4. /\ journal' = [journal EXCEPT !.trail = Append(jt, e), !.state = Apply(s, journal.state)]
      /\ UNCHANGED <<now, flight, latest, canon, forced, retired>>
      /\ Judged(s, journal.state, journal.seg, "admission", now + Lag, {})
  BY DEF Submit
<1>5. /\ journal'.trail = Append(jt, e) /\ journal'.state = Apply(s, journal.state)
      /\ journal'.seg = journal.seg /\ journal'.pending = journal.pending /\ journal'.last = journal.last
  BY <1>4 DEF ServiceSafe, ServiceTypes
<1>6. Append(jt, e) \in Seq(Events) /\ Len(Append(jt, e)) = n + 1 /\ Append(jt, e)[n + 1] = e
      /\ \A i \in 1..n : Append(jt, e)[i] = jt[i]
  BY <1>1, <1>2
<1>7. Apply(s, journal.state) \in PoolStates
  BY <1>3, ApplyTyped
<1>8. ServiceTypes'
  BY <1>4, <1>6, <1>7 DEF ServiceSafe, ServiceTypes
<1>9. ClockOK' /\ CanonOK'
  BY <1>4 DEF ServiceSafe, ClockOK, CanonOK, GapOpen
<1>10. ForceOK'
  BY <1>4 DEF ServiceSafe, ForceOK, ForcedOver, Through
<1>11. JournalOK'
  BY <1>4, <1>5, <1>0 DEF ServiceSafe, JournalOK
<1>12. Block' = Block /\ Adopted' = Adopted
  BY <1>4 DEF Block, Adopted, ForcedIn, Through
<1>13. Awaited' = Awaited /\ Continuations' = Continuations
  BY <1>4, <1>5 DEF Awaited, Continuations
<1>14. \A c \in Continuations : (InActive(c))' = InActive(c) /\ c.trail \in Seq(Events)
  <2>1. \A c \in Continuations : c \in Checkpoints
    BY DEF Continuations, Awaited, ServiceSafe, ServiceTypes
  <2> QED BY <1>5, <2>1 DEF InActive, Checkpoints
<1>15. FlightOK'
  <2>1. \A c \in Continuations : InActive(c) =>
          /\ k + m <= Len(c.trail)
          /\ Len(c.trail) <= n + 1
          /\ c.trail = SubSeq(Append(jt, e), 1, Len(c.trail))
    <3> SUFFICES ASSUME NEW c \in Continuations, InActive(c)
                 PROVE  /\ k + m <= Len(c.trail)
                        /\ Len(c.trail) <= n + 1
                        /\ c.trail = SubSeq(Append(jt, e), 1, Len(c.trail))
      OBVIOUS
    <3>1. k + m <= Len(c.trail) /\ Len(c.trail) <= n /\ c.trail = SubSeq(jt, 1, Len(c.trail))
      BY DEF ServiceSafe, FlightOK
    <3>2. Len(c.trail) \in Nat
      BY <1>14
    <3>3. 0 \in 0..n /\ Len(c.trail) \in 0..n /\ 0 + 1 = 1
      BY <1>2, <3>1, <3>2
    <3>4. SubSeq(Append(jt, e), 1, Len(c.trail)) = SubSeq(jt, 1, Len(c.trail))
      BY <1>1, <1>2, <3>3, PartOfAppend
    <3> QED BY <1>2, <3>1, <3>2, <3>4
  <2>2. \A c \in flight : /\ latest < c.seq /\ c.seq <= journal.last.seq /\ c.published
                          /\ c.seq = journal.last.seq => c = journal.last
                          /\ c.parent # 0 => journal.pending /\ c = journal.last
    BY DEF ServiceSafe, FlightOK
  <2>3. \A c \in Continuations :
       /\ c.seg <= journal.seg /\ (c.seg \in retired \/ InActive(c))
       /\ c.at <= now /\ \A i \in 1..Len(c.trail) : c.trail[i].index <= c.at + Lag
       /\ c.at + Lag - canon.index <= Duration
       /\ c.seg \in retired => now > c.at + Lag
    BY DEF ServiceSafe, FlightOK
  <2>4. \A c, d \in Continuations : c.seg = d.seg /\ c.seq < d.seq => Len(c.trail) <= Len(d.trail)
    BY DEF ServiceSafe, FlightOK
  <2> QED BY <1>4, <1>5, <1>6, <1>12, <1>13, <1>14, <2>1, <2>2, <2>3, <2>4 DEF FlightOK
<1>16. TrailOK'
  <2>1. /\ k + m <= n /\ canon.trail = SubSeq(jt, 1, k)
        /\ \A i \in 1..m : jt[i] = Adopted[i]
        /\ journal.state = AdmittedOver(n + 1)
        /\ \A i \in 1..n : jt[i].index <= now + Lag
        /\ \A i \in k + m + 1..n :
              Judged(jt[i].s, AdmittedOver(i), journal.seg, "admission", jt[i].index, {})
    BY <1>0 DEF ServiceSafe, TrailOK
  <2>2. m \in Nat
    BY Blocks DEF ServiceSafe
  <2>3. k + m \in k..n /\ k \in 0..n
    BY <1>2, <2>1, <2>2
  <2> DEFINE w == Append(jt, e)
  <2>4. \A i \in k + 1..n + 1 : SubSeq(w, k + 1, i - 1) = SubSeq(jt, k + 1, i - 1)
    <3> TAKE i \in k + 1..n + 1
    <3>1. k \in 0..n /\ i - 1 \in k..n
      BY <1>2, <2>3
    <3> QED BY <1>1, <1>2, <3>1, PartOfAppend
  <2>5. SubSeq(w, 1, k) = SubSeq(jt, 1, k)
    <3>1. 0 \in 0..n /\ k \in 0..n /\ 0 + 1 = 1
      BY <1>2, <2>3
    <3> QED BY <1>1, <1>2, <3>1, PartOfAppend
  <2>6. \A i \in k + 1..n + 1 : AdmittedOver(i) = ApplyAll(canon.state, SubSeq(w, k + 1, i - 1))
    BY <2>4 DEF AdmittedOver
  <2>7. \A i : (AdmittedOver(i))' = ApplyAll(canon.state, SubSeq(w, k + 1, i - 1))
    BY <1>4, <1>5 DEF AdmittedOver
  <2>8. w \in Seq(Events) /\ Len(w) = n + 1 /\ w[n + 1] = e /\ \A i \in 1..n : w[i] = jt[i]
    BY <1>6
  <2> HIDE DEF w
  <2>9. ApplyAll(canon.state, SubSeq(w, k + 1, n + 1)) = Apply(s, journal.state)
    <3>1. k \in 0..Len(w) /\ n + 1 \in k..Len(w) /\ n + 1 > k /\ (n + 1) - 1 = n /\ n + 1 \in k + 1..n + 1
      BY <1>2, <2>3, <2>8
    <3>2. ApplyAll(canon.state, SubSeq(w, k + 1, n + 1)) =
            Apply(w[n + 1].s, ApplyAll(canon.state, SubSeq(w, k + 1, (n + 1) - 1)))
      BY <1>3, <2>8, <3>1, AppliedPart
    <3>3. journal.state = ApplyAll(canon.state, SubSeq(w, k + 1, (n + 1) - 1))
      BY <2>1, <2>6, <3>1
    <3> QED BY <1>1, <2>8, <3>2, <3>3
  <2>10. \A i \in k + m + 1..n + 1 :
           Judged(w[i].s, ApplyAll(canon.state, SubSeq(w, k + 1, i - 1)), journal.seg, "admission", w[i].index, {})
    <3> TAKE i \in k + m + 1..n + 1
    <3>1. i \in k + 1..n + 1
      BY <1>2, <2>2
    <3>2. CASE i = n + 1
      <4>1. journal.state = ApplyAll(canon.state, SubSeq(w, k + 1, i - 1))
        BY <2>1, <2>6, <3>1, <3>2
      <4> QED BY <1>1, <1>4, <2>8, <3>2, <4>1
    <3>3. CASE i # n + 1
      <4>1. i \in k + m + 1..n /\ i \in 1..n
        BY <1>2, <2>2, <3>3
      <4> QED BY <2>1, <2>6, <2>8, <3>1, <4>1
    <3> QED BY <3>2, <3>3
  <2>11. \A i \in 1..n + 1 : w[i].index <= now + Lag
    <3> TAKE i \in 1..n + 1
    <3>1. CASE i = n + 1
      BY <1>0, <1>1, <2>8, <3>1
    <3>2. CASE i # n + 1
      <4>1. i \in 1..n
        BY <1>2, <3>2
      <4> QED BY <2>1, <2>8, <4>1
    <3> QED BY <3>1, <3>2
  <2>12. \A i \in 1..m : w[i] = Adopted[i]
    <3> TAKE i \in 1..m
    <3>1. i \in 1..n
      BY <1>2, <2>1, <2>2
    <3> QED BY <2>1, <2>8, <3>1
  <2>13. k + m <= n + 1 /\ (n + 1) + 1 - 1 = n + 1 /\ canon.trail = SubSeq(w, 1, k)
    BY <1>2, <2>1, <2>2, <2>5 DEF w
  <2>14. journal'.trail = w
    BY <1>5 DEF w
  <2>16. ~journal'.pending /\ journal'.seg = journal.seg /\ now' = now /\ canon' = canon
    BY <1>0, <1>4, <1>5
  <2> HIDE DEF m, k, n
  <2>17. Len(canon'.trail) = k /\ (Len(Adopted))' = m /\ Len(journal'.trail) = n + 1
    BY <1>12, <2>8, <2>14, <2>16 DEF k, m
  <2>18. k + m <= Len(journal'.trail) /\ canon'.trail = SubSeq(journal'.trail, 1, k)
    BY <2>13, <2>14, <2>16, <2>17
  <2>19. \A i \in 1..m : journal'.trail[i] = (Adopted)'[i]
    BY <1>12, <2>12, <2>14
  <2>20. journal'.state = (AdmittedOver(Len(journal.trail) + 1))'
    <3>1. (AdmittedOver(Len(journal.trail) + 1))' =
            ApplyAll(canon.state, SubSeq(w, k + 1, Len(journal'.trail) + 1 - 1))
      BY <1>4, <1>5 DEF AdmittedOver, w, k
    <3>2. Len(journal'.trail) + 1 - 1 = n + 1
      BY <2>13, <2>17
    <3> QED BY <1>5, <2>9, <3>1, <3>2
  <2>21. \A i \in 1..Len(journal'.trail) : journal'.trail[i].index <= now' + Lag
    BY <2>11, <2>14, <2>16, <2>17
  <2>22. \A i \in k + m + 1..Len(journal'.trail) :
           Judged(journal'.trail[i].s, (AdmittedOver(i))', journal'.seg, "admission", journal'.trail[i].index, {})
    BY <2>7, <2>10, <2>14, <2>16, <2>17
  <2> QED BY <2>16, <2>17, <2>18, <2>19, <2>20, <2>21, <2>22 DEF TrailOK
<1> QED BY <1>8, <1>9, <1>10, <1>11, <1>15, <1>16 DEF ServiceSafe

\* Signing takes what the journal holds, unless silence is due (commit).
LEMMA CommitKeeps ==
  ASSUME ServiceSafe, Commit
  PROVE  ServiceSafe'
<1> DEFINE jt == journal.trail
           n == Len(jt)
<1> PICK new : new = Signed(journal.last.seq + 1, journal.seg, journal.trail, 0)
  OBVIOUS
<1>0. /\ Lag \in Nat /\ now \in Nat /\ latest \in Nat /\ Duration \in Nat /\ canon.index \in Nat
      /\ journal.seg \in Nat /\ jt \in Seq(Events) /\ n \in Nat /\ journal.last.seq \in Nat
      /\ journal.last \in Checkpoints
  <2>1. /\ now \in Nat /\ latest \in Nat /\ canon.index \in Nat
        /\ journal.seg \in Nat /\ jt \in Seq(Events) /\ journal.last \in Checkpoints
    BY DEF ServiceSafe, ServiceTypes
  <2>2. n \in Nat /\ journal.last.seq \in Nat
    BY <2>1 DEF Checkpoints
  <2> QED BY <2>1, <2>2, NotesAssumption, ServiceAssumption
<1>1. /\ ~journal.pending /\ now + Lag - canon.index <= Duration
      /\ Current /\ journal' = [journal EXCEPT !.last = new]
      /\ UNCHANGED <<now, flight, latest, canon, forced, retired>>
  BY DEF Commit, ServiceClock
<1>2. /\ new \in Checkpoints /\ new.seq = journal.last.seq + 1 /\ new.seg = journal.seg /\ new.trail = jt
      /\ new.parent = 0 /\ new.at = now /\ ~new.published
  BY <1>0 DEF Signed, Checkpoints
<1>3. /\ journal'.trail = jt /\ journal'.state = journal.state
      /\ journal'.seg = journal.seg /\ journal'.pending = journal.pending /\ journal'.last = new
  BY <1>1 DEF ServiceSafe, ServiceTypes
<1>4. ServiceTypes'
  BY <1>1, <1>2 DEF ServiceSafe, ServiceTypes
<1>5. ClockOK' /\ CanonOK'
  BY <1>1 DEF ServiceSafe, ClockOK, CanonOK, GapOpen
<1>6. ForceOK'
  BY <1>1 DEF ServiceSafe, ForceOK, ForcedOver, Through
<1>7. JournalOK'
  BY <1>0, <1>1, <1>2, <1>3 DEF ServiceSafe, JournalOK
<1>8. Block' = Block /\ Adopted' = Adopted
  BY <1>1 DEF Block, Adopted, ForcedIn, Through
<1>9. TrailOK'
  BY <1>1, <1>3, <1>8 DEF ServiceSafe, TrailOK, AdmittedOver
<1>10. Continuations' \subseteq {c \in flight : c.parent = 0} \cup {new}
  BY <1>1, <1>3 DEF Continuations, Awaited
<1>11. {c \in flight : c.parent = 0} \subseteq Continuations
  BY DEF Continuations, Awaited
<1>12. new.seg \notin retired
  BY <1>0, <1>1, <1>2 DEF ServiceSafe, JournalOK, ClockOK, GapOpen
<1>13. /\ \A c \in flight :
            /\ latest < c.seq /\ c.seq <= journal.last.seq /\ c.published /\ c.parent = 0
            /\ c.seq \in Nat /\ Len(c.trail) \in Nat /\ c.seq < new.seq
  <2> SUFFICES ASSUME NEW c \in flight
               PROVE  /\ latest < c.seq /\ c.seq <= journal.last.seq /\ c.published /\ c.parent = 0
                      /\ c.seq \in Nat /\ Len(c.trail) \in Nat /\ c.seq < new.seq
    OBVIOUS
  <2>1. c \in Checkpoints
    BY DEF ServiceSafe, ServiceTypes
  <2>2. c.seq \in Nat /\ c.trail \in Seq(Events)
    BY <2>1 DEF Checkpoints
  <2>3. latest < c.seq /\ c.seq <= journal.last.seq /\ c.published /\ c.parent = 0
    BY <1>1 DEF ServiceSafe, FlightOK
  <2> QED BY <1>0, <1>2, <2>2, <2>3
<1>14. \A c \in Continuations : (InActive(c))' = InActive(c)
  BY <1>3 DEF InActive
<1>15. \A c \in Continuations :
       /\ c.seg <= journal.seg /\ (c.seg \in retired \/ InActive(c))
       /\ c.at <= now /\ \A i \in 1..Len(c.trail) : c.trail[i].index <= c.at + Lag
       /\ c.at + Lag - canon.index <= Duration
       /\ c.seg \in retired => now > c.at + Lag
       /\ InActive(c) =>
            /\ Len(canon.trail) + Len(Adopted) <= Len(c.trail)
            /\ Len(c.trail) <= n
            /\ c.trail = SubSeq(jt, 1, Len(c.trail))
  BY DEF ServiceSafe, FlightOK
<1>16. /\ new.seg <= journal.seg /\ (InActive(new))'
       /\ new.at <= now /\ \A i \in 1..Len(new.trail) : new.trail[i].index <= new.at + Lag
       /\ new.at + Lag - canon.index <= Duration
       /\ Len(canon.trail) + Len(Adopted) <= Len(new.trail)
       /\ Len(new.trail) <= n
       /\ new.trail = SubSeq(jt, 1, Len(new.trail))
  <2>1. jt = SubSeq(jt, 1, n)
    BY <1>0
  <2>2. \A i \in 1..n : jt[i].index <= now + Lag
    BY <1>1 DEF ServiceSafe, TrailOK
  <2>3. Len(canon.trail) + Len(Adopted) <= n
    BY <1>1 DEF ServiceSafe, TrailOK
  <2>4. new.seg <= journal.seg /\ (InActive(new))'
    BY <1>0, <1>1, <1>2, <1>3 DEF InActive
  <2>5. new.at <= now /\ new.at + Lag - canon.index <= Duration
    BY <1>0, <1>1, <1>2
  <2>6. n <= n
    BY <1>0
  <2> HIDE DEF n
  <2>7. Len(new.trail) = n
    BY <1>2 DEF n
  <2> HIDE DEF jt
  <2> QED BY <1>2, <2>1, <2>2, <2>3, <2>4, <2>5, <2>6, <2>7
<1>17. \A c, d \in Continuations : c.seg = d.seg /\ c.seq < d.seq => Len(c.trail) <= Len(d.trail)
  BY DEF ServiceSafe, FlightOK
<1>18. \A c, d \in Continuations' : c.seg = d.seg /\ c.seq < d.seq => Len(c.trail) <= Len(d.trail)
  <2> SUFFICES ASSUME NEW c \in Continuations', NEW d \in Continuations', c.seg = d.seg, c.seq < d.seq
               PROVE  Len(c.trail) <= Len(d.trail)
    OBVIOUS
  <2>1. CASE c # new /\ d # new
    BY <1>10, <1>11, <1>17, <2>1
  <2>2. CASE d = new /\ c # new
    <3>1. c \in Continuations
      BY <1>10, <1>11, <2>2
    <3>2. InActive(c)
      BY <1>2, <1>12, <1>15, <2>2, <3>1
    <3> QED BY <1>2, <1>15, <2>2, <3>1, <3>2
  <2>3. CASE c = new
    <3>1. d = new \/ d.seq < new.seq
      BY <1>10, <1>13
    <3>2. d.seq \in Nat /\ new.seq \in Nat
      BY <1>0, <1>2, <1>10, <1>13
    <3> QED BY <2>3, <3>1, <3>2
  <2> QED BY <2>1, <2>2, <2>3
<1>19. FlightOK'
  <2>1. \A c \in flight : /\ latest < c.seq /\ c.seq <= new.seq /\ c.published
                          /\ c.seq = new.seq => c = new
                          /\ c.parent # 0 => journal.pending /\ c = new
    BY <1>0, <1>2, <1>13
  <2>2. \A c \in Continuations' :
       /\ c.seg <= journal.seg /\ (c.seg \in retired \/ (InActive(c))')
       /\ c.at <= now /\ \A i \in 1..Len(c.trail) : c.trail[i].index <= c.at + Lag
       /\ c.at + Lag - canon.index <= Duration
       /\ c.seg \in retired => now > c.at + Lag
       /\ (InActive(c))' =>
            /\ Len(canon.trail) + Len(Adopted) <= Len(c.trail)
            /\ Len(c.trail) <= n
            /\ c.trail = SubSeq(jt, 1, Len(c.trail))
    <3> TAKE c \in Continuations'
    <3>1. CASE c = new
      BY <1>12, <1>16, <3>1
    <3>2. CASE c # new
      <4>1. c \in Continuations
        BY <1>10, <1>11, <3>2
      <4> QED BY <1>14, <1>15, <4>1
    <3> QED BY <3>1, <3>2
  <2> QED BY <1>1, <1>3, <1>8, <1>18, <2>1, <2>2 DEF FlightOK
<1> QED BY <1>4, <1>5, <1>6, <1>7, <1>9, <1>19 DEF ServiceSafe

\* Publishing sends out what was signed (publish).
LEMMA PublishKeeps ==
  ASSUME ServiceSafe, Publish
  PROVE  ServiceSafe'
<1> DEFINE old == journal.last
           new == [old EXCEPT !.published = TRUE]
<1>0. /\ old \in Checkpoints /\ latest \in Nat /\ old.seq \in Nat /\ journal.seg \in Nat
  BY DEF ServiceSafe, ServiceTypes, Checkpoints
<1>1. /\ latest <= old.seq /\ latest # old.seq /\ ~old.published
      /\ flight' = flight \cup {new} /\ journal' = [journal EXCEPT !.last.published = TRUE]
      /\ UNCHANGED <<now, latest, canon, forced, retired>>
  BY DEF Publish, Held
<1>2. /\ new \in Checkpoints /\ new.seq = old.seq /\ new.seg = old.seg /\ new.trail = old.trail
      /\ new.parent = old.parent /\ new.at = old.at /\ new.published = TRUE
  BY <1>0 DEF Checkpoints
<1>3. /\ journal'.trail = journal.trail /\ journal'.state = journal.state
      /\ journal'.seg = journal.seg /\ journal'.pending = journal.pending /\ journal'.last = new
  BY <1>0, <1>1 DEF ServiceSafe, ServiceTypes
<1> HIDE DEF new
<1>4. ServiceTypes'
  <2>1. journal' \in [seg : Nat, pending : BOOLEAN, trail : Seq(Events), state : PoolStates, last : Checkpoints]
    <3>1. journal' = [journal EXCEPT !.last = new]
      BY <1>1 DEF ServiceSafe, ServiceTypes, new
    <3> QED BY <1>2, <3>1 DEF ServiceSafe, ServiceTypes
  <2> QED BY <1>1, <1>2, <2>1 DEF ServiceSafe, ServiceTypes
<1>5. ClockOK' /\ CanonOK'
  BY <1>1 DEF ServiceSafe, ClockOK, CanonOK, GapOpen
<1>6. ForceOK'
  BY <1>1 DEF ServiceSafe, ForceOK, ForcedOver, Through
<1>7. JournalOK'
  BY <1>0, <1>1, <1>2, <1>3 DEF ServiceSafe, JournalOK
<1>8. Block' = Block /\ Adopted' = Adopted
  BY <1>1 DEF Block, Adopted, ForcedIn, Through
<1>9. TrailOK'
  BY <1>1, <1>3, <1>8 DEF ServiceSafe, TrailOK, AdmittedOver
<1>10. old \in Awaited /\ flight \subseteq Awaited
  BY <1>1 DEF Awaited
<1>11. Continuations' = {c \in flight : c.parent = 0} \cup {c \in {new} : c.parent = 0}
  BY <1>1, <1>2, <1>3 DEF Continuations, Awaited
<1>12. \A c \in Continuations' : \E d \in Continuations :
         d.seq = c.seq /\ d.seg = c.seg /\ d.trail = c.trail /\ d.at = c.at
  <2> TAKE c \in Continuations'
  <2>1. CASE c = new
    BY <1>2, <1>10, <1>11, <2>1 DEF Continuations
  <2>2. CASE c # new
    BY <1>10, <1>11, <2>2 DEF Continuations
  <2> QED BY <2>1, <2>2
<1>13. \A c : (InActive(c))' <=> c.seg = journal.seg /\ ~journal.pending
  BY <1>3 DEF InActive
<1>14. FlightOK'
  <2>1. \A c \in flight : /\ latest < c.seq /\ c.seq <= new.seq /\ c.published
                          /\ c.seq = new.seq => c = new
                          /\ c.parent # 0 => journal.pending /\ c = new
    BY <1>1, <1>2 DEF ServiceSafe, FlightOK
  <2>2. /\ latest < new.seq /\ new.seq <= new.seq /\ new.published
        /\ new.parent # 0 => journal.pending
    BY <1>0, <1>1, <1>2 DEF ServiceSafe, JournalOK
  <2>3. \A c \in Continuations :
       /\ c.seg <= journal.seg /\ (c.seg \in retired \/ InActive(c))
       /\ c.at <= now /\ \A i \in 1..Len(c.trail) : c.trail[i].index <= c.at + Lag
       /\ c.at + Lag - canon.index <= Duration
       /\ c.seg \in retired => now > c.at + Lag
       /\ InActive(c) =>
            /\ Len(canon.trail) + Len(Adopted) <= Len(c.trail)
            /\ Len(c.trail) <= Len(journal.trail)
            /\ c.trail = SubSeq(journal.trail, 1, Len(c.trail))
    BY DEF ServiceSafe, FlightOK
  <2>4. \A c \in Continuations' :
       /\ c.seg <= journal.seg /\ (c.seg \in retired \/ (InActive(c))')
       /\ c.at <= now /\ \A i \in 1..Len(c.trail) : c.trail[i].index <= c.at + Lag
       /\ c.at + Lag - canon.index <= Duration
       /\ c.seg \in retired => now > c.at + Lag
       /\ (InActive(c))' =>
            /\ Len(canon.trail) + Len(Adopted) <= Len(c.trail)
            /\ Len(c.trail) <= Len(journal.trail)
            /\ c.trail = SubSeq(journal.trail, 1, Len(c.trail))
    <3> TAKE c \in Continuations'
    <3>1. PICK d \in Continuations : d.seq = c.seq /\ d.seg = c.seg /\ d.trail = c.trail /\ d.at = c.at
      BY <1>12
    <3>2. InActive(d) <=> (InActive(c))'
      BY <1>13, <3>1 DEF InActive
    <3> QED BY <2>3, <3>1, <3>2
  <2>5. \A c, d \in Continuations : c.seg = d.seg /\ c.seq < d.seq => Len(c.trail) <= Len(d.trail)
    BY DEF ServiceSafe, FlightOK
  <2>6. \A c, d \in Continuations' : c.seg = d.seg /\ c.seq < d.seq => Len(c.trail) <= Len(d.trail)
    BY <1>12, <2>5
  <2> QED BY <1>1, <1>3, <1>8, <2>1, <2>2, <2>4, <2>6 DEF FlightOK
<1> QED BY <1>4, <1>5, <1>6, <1>7, <1>9, <1>14 DEF ServiceSafe

\* A return opens only where silence is on the record, and nothing signed
\* before it can be valid again (return).
LEMMA ReturnKeeps ==
  ASSUME ServiceSafe, Return
  PROVE  ServiceSafe'
<1> DEFINE new == Signed(journal.last.seq + 1, journal.seg + 1, <<>>, canon.seq)
<1>0. /\ now \in Nat /\ latest \in Nat /\ journal.seg \in Nat /\ journal.last \in Checkpoints
      /\ journal.last.seq \in Nat /\ canon.seq \in Nat /\ canon.seq >= 1 /\ canon.seg \in Nat
      /\ canon.state \in PoolStates /\ <<>> \in Seq(Events)
  BY DEF ServiceSafe, ServiceTypes, Checkpoints, ClockOK
<1>1. /\ journal.pending => latest = journal.last.seq
      /\ GapOpen(now) /\ canon.seg = journal.seg
      /\ journal' = [seg |-> journal.seg + 1, pending |-> TRUE, trail |-> <<>>,
                     state |-> OpenSegmentState(canon.state), last |-> new]
      /\ UNCHANGED <<now, flight, latest, canon, forced, retired>>
  BY DEF Return, Held
<1>2. /\ new \in Checkpoints /\ new.seq = journal.last.seq + 1 /\ new.seg = journal.seg + 1
      /\ new.parent = canon.seq /\ ~new.published
  BY <1>0 DEF Signed, Checkpoints
<1> HIDE DEF new
<1>3. OpenSegmentState(canon.state) \in PoolStates
  BY <1>0 DEF OpenSegmentState, PoolStates
<1>4. ServiceTypes'
  BY <1>0, <1>1, <1>2, <1>3 DEF ServiceSafe, ServiceTypes
<1>5. ClockOK' /\ CanonOK'
  BY <1>1 DEF ServiceSafe, ClockOK, CanonOK, GapOpen
<1>6. ForceOK'
  BY <1>1 DEF ServiceSafe, ForceOK, ForcedOver, Through
<1>7. canon.seg \in retired
  BY <1>1 DEF ServiceSafe, ClockOK
<1>8. JournalOK'
  <2>1. latest <= new.seq /\ latest < new.seq /\ new.parent # 0
    BY <1>0, <1>2 DEF ServiceSafe, JournalOK
  <2> QED BY <1>0, <1>1, <1>2, <1>7, <2>1 DEF JournalOK
<1>9. TrailOK'
  BY <1>1 DEF TrailOK
<1>10. \A c \in flight : /\ latest < c.seq /\ c.seq <= journal.last.seq /\ c.published
                         /\ c.parent = 0 /\ c.seq < new.seq
  <2> TAKE c \in flight
  <2>1. c.seq \in Nat
    BY DEF ServiceSafe, ServiceTypes, Checkpoints
  <2>2. latest < c.seq /\ c.seq <= journal.last.seq /\ c.published
        /\ (c.parent # 0 => journal.pending /\ c = journal.last)
    BY DEF ServiceSafe, FlightOK
  <2> QED BY <1>0, <1>1, <1>2, <2>1, <2>2
<1>11. Continuations' \subseteq Continuations
  <2>1. Continuations' = {c \in flight \cup {new} : c.parent = 0}
    BY <1>1, <1>2 DEF Continuations, Awaited
  <2> QED BY <1>0, <1>2, <2>1 DEF Continuations, Awaited
<1>12. \A c : ~(InActive(c))'
  BY <1>1 DEF InActive
<1>13. \A c \in Continuations :
       /\ c.seg <= journal.seg /\ c.seg \in retired
       /\ c.at <= now /\ \A i \in 1..Len(c.trail) : c.trail[i].index <= c.at + Lag
       /\ c.at + Lag - canon.index <= Duration
       /\ now > c.at + Lag
  BY <1>1, <1>7 DEF ServiceSafe, FlightOK, InActive
<1>14. \A c \in Continuations : c.seg <= journal.seg + 1
  <2> TAKE c \in Continuations
  <2>1. c.seg \in Nat
    <3>1. c \in Checkpoints
      BY <1>0 DEF Continuations, Awaited, ServiceSafe, ServiceTypes
    <3> QED BY <3>1 DEF Checkpoints
  <2> QED BY <1>0, <1>13, <2>1
<1>15. \A c, d \in Continuations : c.seg = d.seg /\ c.seq < d.seq => Len(c.trail) <= Len(d.trail)
  BY DEF ServiceSafe, FlightOK
<1>16. FlightOK'
  <2>1. \A c \in flight : /\ latest < c.seq /\ c.seq <= new.seq /\ c.published
                          /\ c.seq # new.seq /\ c.parent = 0
    <3> TAKE c \in flight
    <3>1. c.seq \in Nat
      BY DEF ServiceSafe, ServiceTypes, Checkpoints
    <3> QED BY <1>0, <1>2, <1>10, <3>1
  <2>2. /\ journal'.last = new /\ journal'.seg = journal.seg + 1 /\ flight' = flight /\ latest' = latest
        /\ retired' = retired /\ now' = now /\ canon' = canon
    BY <1>1
  <2> QED BY <1>11, <1>12, <1>13, <1>14, <1>15, <2>1, <2>2 DEF FlightOK
<1> QED BY <1>4, <1>5, <1>6, <1>8, <1>9, <1>16 DEF ServiceSafe

\* A witnessed opening's block starts its segment's trail (adopt).
LEMMA AdoptKeeps ==
  ASSUME ServiceSafe, Adopt
  PROVE  ServiceSafe'
<1> DEFINE st == Replayed(journal.state, journal.seg, Block, "adoption").state
<1>0. /\ Lag \in Nat /\ now \in Nat /\ latest \in Nat /\ journal.last \in Checkpoints
      /\ journal.state \in PoolStates /\ canon.trail \in Seq(Events)
  BY NotesAssumption DEF ServiceSafe, ServiceTypes
<1>1. /\ journal.pending /\ latest = journal.last.seq
      /\ journal' = [journal EXCEPT !.pending = FALSE, !.trail = Block, !.state = st]
      /\ UNCHANGED <<now, flight, latest, canon, forced, retired>>
  BY DEF Adopt, Adoptable, Adoption, Held
<1>2. st = ApplyAll(journal.state, Block)
  BY DEF Replayed
<1> HIDE DEF st
<1>3. Block \in Seq(Events) /\ Len(Block) \in Nat
  BY Blocks DEF ServiceSafe
<1>4. st \in PoolStates
  BY <1>0, <1>2, <1>3, AppliedTyped
<1>5. /\ journal'.trail = Block /\ journal'.state = st /\ journal'.seg = journal.seg
      /\ ~journal'.pending /\ journal'.last = journal.last
  BY <1>1 DEF ServiceSafe, ServiceTypes
<1>6. ServiceTypes'
  BY <1>1, <1>3, <1>4 DEF ServiceSafe, ServiceTypes
<1>7. ClockOK' /\ CanonOK'
  BY <1>1 DEF ServiceSafe, ClockOK, CanonOK, GapOpen
<1>8. ForceOK'
  BY <1>1 DEF ServiceSafe, ForceOK, ForcedOver, Through
<1>9. canon.seg = journal.seg /\ canon.trail = <<>> /\ canon.state = journal.state /\ journal.last.published
  BY <1>0, <1>1 DEF ServiceSafe, JournalOK
<1>10. JournalOK'
  BY <1>0, <1>1, <1>5, <1>9 DEF ServiceSafe, JournalOK
<1>11. flight = {}
  <2> SUFFICES ASSUME NEW c \in flight PROVE FALSE
    OBVIOUS
  <2>1. c.seq \in Nat /\ latest < c.seq /\ c.seq <= latest
    BY <1>1 DEF ServiceSafe, FlightOK, ServiceTypes, Checkpoints
  <2> QED BY <1>0, <2>1
<1>12. Continuations' = {}
  BY <1>1, <1>5, <1>9, <1>11 DEF Continuations, Awaited
<1>13. FlightOK'
  BY <1>1, <1>11, <1>12 DEF FlightOK
<1>14. Block' = Block /\ Adopted' = Adopted /\ Adopted = Block
  BY <1>1, <1>9 DEF Block, Adopted, ForcedIn, Through
<1>15. TrailOK'
  <2>1. \A i \in 1..Len(Block) : Block[i].index <= now + Lag
    <3> TAKE i \in 1..Len(Block)
    <3>1. Block[i] = forced[Through(canon.adoption) + i] /\ Through(canon.adoption) + i \in 1..Len(forced)
      <4>1. /\ Through(canon.adoption) \in 0..Len(forced)
            /\ Through(canon.opened) \in Through(canon.adoption)..Len(forced)
            /\ Len(Block) = Through(canon.opened) - Through(canon.adoption)
            /\ \A j \in 1..Len(Block) : Block[j] = forced[Through(canon.adoption) + j]
        BY Blocks DEF ServiceSafe
      <4> HIDE DEF Block, Through
      <4> QED BY <4>1
    <3>2. Block[i].index <= now
      BY <3>1 DEF ServiceSafe, ForceOK
    <3>3. Block[i].index \in Nat
      <4>1. Block[i] \in Events
        BY <1>3
      <4> QED BY <4>1 DEF Events
    <3> QED BY <1>0, <3>2, <3>3
  <2>2. SubSeq(Block, 1, 0) = <<>>
    BY <1>3
  <2>3. SubSeq(Block, 1, Len(Block)) = Block
    BY <1>3
  <2>4. Len(canon.trail) = 0
    BY <1>9
  <2>5. st = ApplyAll(canon.state, SubSeq(Block, 0 + 1, (Len(Block) + 1) - 1))
    <3>1. 0 + 1 = 1 /\ (Len(Block) + 1) - 1 = Len(Block)
      BY <1>3
    <3> HIDE DEF Block
    <3> QED BY <1>2, <1>9, <2>3, <3>1
  <2>6. (AdmittedOver(Len(journal.trail) + 1))' = ApplyAll(canon.state, SubSeq(Block, 0 + 1, (Len(Block) + 1) - 1))
    BY <1>1, <1>5, <2>4 DEF AdmittedOver
  <2>7. 0 + Len(Block) <= Len(Block) /\ 0 + Len(Block) + 1..Len(Block) = {}
    BY <1>3
  <2> HIDE DEF Block, Adopted
  <2> QED BY <1>1, <1>5, <1>9, <1>14, <2>1, <2>2, <2>4, <2>5, <2>6, <2>7 DEF TrailOK
<1> QED BY <1>6, <1>7, <1>8, <1>10, <1>13, <1>15 DEF ServiceSafe

-----------------------------------------------------------------------------
\* The record's force through the next index, over the canonical state so far.
RecordedForce(list) ==
  /\ list \in Seq(Events) /\ Ordered(list)
  /\ CountedThrough(list, canon.adoption) = Through(canon.adoption)
  /\ CountedThrough(list, canon.opened) = Through(canon.opened)
  /\ SubSeq(list, Through(canon.adoption) + 1, Through(canon.opened)) = Block
  /\ \A i \in 1..Len(list) :
       /\ list[i].index <= now + 1 /\ list[i].s.kind >= Present
       /\ list[i].index > canon.opened => canon.seg \in retired \/ GapOpen(now + 1)
       /\ list[i].index <= canon.adoption => list[i].s \in canon.state.effective
       /\ list[i].index > canon.adoption =>
            CanForce(list[i], ApplyAll(canon.state, SubSeq(list, Through(canon.adoption) + 1, i - 1)))
  /\ \A i \in 1..Len(list) : i > Through(canon.adoption) <=> list[i].index > canon.adoption

\* What was in force is in force at the next index.
LEMMA ForceHeld ==
  ASSUME ServiceSafe
  PROVE  RecordedForce(forced)
<1>0. now \in Nat /\ forced \in Seq(Events) /\ canon.adoption \in Nat /\ canon.opened \in Nat
  BY DEF ServiceSafe, ServiceTypes
<1>1. Ordered(forced)
  BY Blocks DEF ServiceSafe
<1>2. CountedThrough(forced, canon.adoption) = Through(canon.adoption)
      /\ CountedThrough(forced, canon.opened) = Through(canon.opened)
  BY DEF CountedThrough, Through
<1>3. SubSeq(forced, Through(canon.adoption) + 1, Through(canon.opened)) = Block
  BY DEF Block, ForcedIn
<1>4. \A i \in 1..Len(forced) : forced[i].index \in Nat
  <2> TAKE i \in 1..Len(forced)
  <2>1. forced[i] \in Events
    BY <1>0
  <2> QED BY <2>1 DEF Events
<1>5. \A i \in 1..Len(forced) :
       /\ forced[i].index <= now /\ forced[i].s.kind >= Present
       /\ forced[i].index > canon.opened => canon.seg \in retired
       /\ forced[i].index <= canon.adoption => forced[i].s \in canon.state.effective
       /\ forced[i].index > canon.adoption =>
            CanForce(forced[i], ApplyAll(canon.state, SubSeq(forced, Through(canon.adoption) + 1, i - 1)))
  BY DEF ServiceSafe, ForceOK, ForcedOver
<1>6. \A i \in 1..Len(forced) : forced[i].index <= now + 1
  BY <1>0, <1>4, <1>5
<1>7. \A i \in 1..Len(forced) : i > Through(canon.adoption) <=> forced[i].index > canon.adoption
  <2>1. /\ Through(canon.adoption) \in 0..Len(forced)
        /\ \A i \in 1..Len(forced) : forced[i].index <= canon.adoption <=> i <= Through(canon.adoption)
    BY <1>0, <1>1, <1>2, ThroughCounts
  <2> QED BY <1>0, <1>4, <2>1
<1> QED BY <1>0, <1>1, <1>2, <1>3, <1>5, <1>6, <1>7 DEF RecordedForce

\* A publication given force at the next index takes its place after the others
\* (resolvePublicationForce over the walk's force).
LEMMA ForceAdded ==
  ASSUME ServiceSafe, NEW s \in PoolStatements, Forces(s, now + 1)
  PROVE  RecordedForce(Append(forced, Event(s, now + 1)))
<1> DEFINE e == Event(s, now + 1)
           w == Append(forced, e)
           n == Len(forced)
           A == Through(canon.adoption)
           O == Through(canon.opened)
<1>0. /\ now \in Nat /\ forced \in Seq(Events) /\ canon.adoption \in Nat /\ canon.opened \in Nat
      /\ canon.state \in PoolStates /\ n \in Nat
      /\ canon.adoption <= canon.opened /\ canon.opened <= now
  BY DEF ServiceSafe, ServiceTypes, ClockOK
<1>1. e \in Events /\ e.s = s /\ e.index = now + 1
  BY <1>0 DEF Event, Events
<1>2. RecordedForce(forced)
  BY ForceHeld
<1>3. /\ Ordered(forced) /\ A \in 0..n /\ O \in A..n /\ View \in PoolStates
      /\ View = ApplyAll(canon.state, SubSeq(forced, A + 1, n))
  BY Blocks DEF ServiceSafe
<1>4. w \in Seq(Events) /\ Len(w) = n + 1 /\ w[n + 1] = e /\ \A i \in 1..n : w[i] = forced[i]
  BY <1>0, <1>1
<1>5. \A i \in 1..n : forced[i].index \in Nat /\ forced[i].index <= now
  <2> TAKE i \in 1..n
  <2>1. forced[i] \in Events
    BY <1>0
  <2> QED BY <2>1 DEF Events, ServiceSafe, ForceOK
<1>6. Ordered(w)
  <2> SUFFICES ASSUME NEW i \in 1..n + 1, NEW j \in 1..n + 1, i < j PROVE w[i].index <= w[j].index
    BY <1>4 DEF Ordered
  <2>1. i \in 1..n
    BY <1>0
  <2>2. CASE j = n + 1
    BY <1>0, <1>1, <1>4, <1>5, <2>1, <2>2
  <2>3. CASE j # n + 1
    <3>1. j \in 1..n
      BY <1>0, <2>3
    <3> QED BY <1>3, <1>4, <2>1, <3>1 DEF Ordered
  <2> QED BY <2>2, <2>3
<1>7. CountedThrough(w, canon.adoption) = A /\ CountedThrough(w, canon.opened) = O
  <2>1. e.index > canon.adoption /\ e.index > canon.opened
    BY <1>0, <1>1
  <2>2. CountedThrough(forced, canon.adoption) = A /\ CountedThrough(forced, canon.opened) = O
    BY DEF CountedThrough, Through
  <2>3. CountedThrough(w, canon.adoption) = CountedThrough(forced, canon.adoption)
    BY <1>0, <1>1, <1>3, <1>6, <2>1, ThroughAppend
  <2>4. CountedThrough(w, canon.opened) = CountedThrough(forced, canon.opened)
    BY <1>0, <1>1, <1>3, <1>6, <2>1, ThroughAppend
  <2> QED BY <2>2, <2>3, <2>4
<1> HIDE DEF A, O
<1>8. SubSeq(w, A + 1, O) = Block
  <2>1. SubSeq(w, A + 1, O) = SubSeq(forced, A + 1, O)
    BY <1>0, <1>1, <1>3, PartOfAppend
  <2> QED BY <1>2, <2>1 DEF RecordedForce, A, O
<1>9. \A i \in A + 1..n + 1 : SubSeq(w, A + 1, i - 1) = SubSeq(forced, A + 1, i - 1)
  <2> TAKE i \in A + 1..n + 1
  <2>1. i - 1 \in A..n
    BY <1>0, <1>3
  <2> QED BY <1>0, <1>1, <1>3, <2>1, PartOfAppend
<1>10. /\ s.kind \in {Present, Withdraw, Settle} /\ Proved(s) /\ s.ins \subseteq canon.state.outputs
       /\ CheckRecovery(s, View, now + 1, TRUE) /\ CheckUniqueEffects(s, View)
       /\ GapOpen(now + 1)
  BY DEF Forces, JudgedForce, CheckInputs
<1>11. canon.state.outputs \subseteq View.outputs
  <2>1. SubSeq(forced, A + 1, n) \in Seq(Events)
    <3>1. n \in A..n
      BY <1>0, <1>3
    <3> QED BY <1>0, <1>3, <3>1, PartOf
  <2>2. Grows(canon.state, View)
    BY <1>0, <1>3, <2>1, AppliedKeeps
  <2> QED BY <2>2 DEF Grows
<1>12. CanForce(e, View)
  BY <1>1, <1>10, <1>11 DEF CanForce
<1> HIDE DEF w
<1>13. \A i \in 1..Len(w) : i > A <=> w[i].index > canon.adoption
  <2> TAKE i \in 1..Len(w)
  <2>1. CASE i = n + 1
    BY <1>0, <1>1, <1>3, <1>4, <2>1
  <2>2. CASE i # n + 1
    <3>1. i \in 1..n
      BY <1>0, <1>4, <2>2
    <3> QED BY <1>2, <1>4, <3>1 DEF RecordedForce, A
  <2> QED BY <2>1, <2>2
<1>14. \A i \in 1..Len(w) :
       /\ w[i].index <= now + 1 /\ w[i].s.kind >= Present
       /\ w[i].index > canon.opened => canon.seg \in retired \/ GapOpen(now + 1)
       /\ w[i].index <= canon.adoption => w[i].s \in canon.state.effective
       /\ w[i].index > canon.adoption =>
            CanForce(w[i], ApplyAll(canon.state, SubSeq(w, A + 1, i - 1)))
  <2> SUFFICES ASSUME NEW i \in 1..Len(w)
               PROVE  /\ w[i].index <= now + 1 /\ w[i].s.kind >= Present
                      /\ w[i].index > canon.opened => canon.seg \in retired \/ GapOpen(now + 1)
                      /\ w[i].index <= canon.adoption => w[i].s \in canon.state.effective
                      /\ w[i].index > canon.adoption =>
                           CanForce(w[i], ApplyAll(canon.state, SubSeq(w, A + 1, i - 1)))
    OBVIOUS
  <2>1. CASE i = n + 1
    <3>1. w[i].s.kind >= Present
      BY <1>1, <1>4, <1>10, <2>1 DEF Present, Withdraw, Settle
    <3>2. n + 1 \in A + 1..n + 1 /\ (n + 1) - 1 = n
      BY <1>0, <1>3
    <3>3. SubSeq(w, A + 1, (n + 1) - 1) = SubSeq(forced, A + 1, n)
      BY <1>9, <3>2
    <3>4. CanForce(w[i], ApplyAll(canon.state, SubSeq(w, A + 1, i - 1)))
      BY <1>3, <1>4, <1>12, <2>1, <3>3
    <3> QED BY <1>0, <1>1, <1>4, <1>10, <2>1, <3>1, <3>4
  <2>2. CASE i # n + 1
    <3>1. i \in 1..n
      BY <1>0, <1>4, <2>2
    <3>2. ASSUME w[i].index > canon.adoption
          PROVE  CanForce(w[i], ApplyAll(canon.state, SubSeq(w, A + 1, i - 1)))
      <4>1. i > A
        BY <1>13, <3>2
      <4>2. i \in A + 1..n + 1
        BY <1>0, <1>3, <3>1, <4>1
      <4>3. CanForce(forced[i], ApplyAll(canon.state, SubSeq(forced, A + 1, i - 1)))
        BY <1>2, <1>4, <3>1, <3>2 DEF RecordedForce, A
      <4> QED BY <1>4, <1>9, <3>1, <4>2, <4>3
    <3> QED BY <1>2, <1>4, <3>1, <3>2 DEF RecordedForce, A
  <2> QED BY <2>1, <2>2
<1>15. w \in Seq(Events)
  BY <1>4
<1> QED BY <1>6, <1>7, <1>8, <1>13, <1>14, <1>15 DEF RecordedForce, A, O, w

\* The records of a continuation after the block: what replayTrail judges.
After(c) == SubSeq(c.trail, Len(canon.trail) + Len(Adopted) + 1, Len(c.trail))

\* A continuation of the journal's segment replays over the states its records
\* were admitted over: replayTrail and submit walk the same records.
LEMMA Replays ==
  ASSUME ServiceSafe, NEW c \in Continuations, InActive(c), NEW t \in Nat
  PROVE  /\ Len(canon.trail) \in Nat /\ Len(Adopted) \in Nat
         /\ Len(canon.trail) + Len(Adopted) <= Len(c.trail) /\ Len(c.trail) <= Len(journal.trail)
         /\ c.trail \in Seq(Events) /\ Len(c.trail) \in Nat
         /\ IsPrefix(canon.trail, c.trail)
         /\ IsPrefix(Adopted, SubSeq(c.trail, Len(canon.trail) + 1, Len(c.trail)))
         /\ Len(After(c)) = Len(c.trail) - (Len(canon.trail) + Len(Adopted)) /\ After(c) \in Seq(Events)
         /\ \A i \in 1..Len(c.trail) - (Len(canon.trail) + Len(Adopted)) :
              After(c)[i] = journal.trail[(Len(canon.trail) + Len(Adopted)) + i]
         /\ \A i \in 1..Len(c.trail) - (Len(canon.trail) + Len(Adopted)) :
              StateAt(ApplyAll(canon.state, Adopted), JudgedAt(After(c), t), i) =
                AdmittedOver((Len(canon.trail) + Len(Adopted)) + i)
         /\ ReplayTrail(c, t).state =
              ApplyAll(canon.state, SubSeq(journal.trail, Len(canon.trail) + 1, Len(c.trail)))
<1> DEFINE jt == journal.trail
           k == Len(canon.trail)
           m == Len(Adopted)
           n == Len(jt)
           l == Len(c.trail)
           suffix == After(c)
           judged == JudgedAt(suffix, t)
<1>0. /\ jt \in Seq(Events) /\ n \in Nat /\ canon.trail \in Seq(Events) /\ k \in Nat /\ m \in Nat
      /\ canon.state \in PoolStates /\ Adopted \in Seq(Events) /\ Block \in Seq(Events)
  <2>1. jt \in Seq(Events) /\ canon.trail \in Seq(Events) /\ canon.state \in PoolStates
    BY DEF ServiceSafe, ServiceTypes
  <2>2. m \in Nat /\ Adopted \in Seq(Events) /\ Block \in Seq(Events)
    BY Blocks DEF ServiceSafe
  <2> QED BY <2>1, <2>2
<1>1. c.trail \in Seq(Events) /\ l \in Nat
  <2>1. c \in Checkpoints
    BY DEF Continuations, Awaited, ServiceSafe, ServiceTypes
  <2> QED BY <2>1 DEF Checkpoints
<1>2. k + m <= l /\ l <= n /\ c.trail = SubSeq(jt, 1, l)
  BY DEF ServiceSafe, FlightOK
<1>3. canon.trail = SubSeq(jt, 1, k) /\ \A i \in 1..m : jt[i] = Adopted[i]
  BY DEF ServiceSafe, TrailOK, InActive
<1>4. k # 0 => m = 0
  <2>1. k # 0 => canon.trail # <<>>
    BY <1>0
  <2> QED BY <2>1 DEF Adopted
<1>5. Adopted = <<>> \/ Adopted = Block
  BY DEF Adopted
<1> HIDE DEF k, m, n, l, jt
<1>6. k \in 0..l /\ k \in 0..n /\ k + m \in k..n /\ k + m \in k..l /\ k + m \in 0..l /\ k + m \in 0..n /\ l \in k + m..l
      /\ l \in k..n /\ 0 \in 0..n /\ l \in 0..n /\ l \in 0..l /\ l \in k..l /\ l \in k + m..n
  BY <1>0, <1>1, <1>2
<1>7. \A a \in 0..l : \A b \in a..l : SubSeq(c.trail, a + 1, b) = SubSeq(jt, a + 1, b)
  <2> SUFFICES ASSUME NEW a \in 0..l, NEW b \in a..l PROVE SubSeq(c.trail, a + 1, b) = SubSeq(jt, a + 1, b)
    OBVIOUS
  <2>1. 0 \in 0..Len(jt) /\ l \in 0..Len(jt) /\ a \in 0..l - 0 /\ b \in a..l - 0 /\ 0 + 1 = 1 /\ 0 + a + 1 = a + 1 /\ 0 + b = b
    BY <1>1, <1>6 DEF n
  <2>2. SubSeq(SubSeq(jt, 0 + 1, l), a + 1, b) = SubSeq(jt, 0 + a + 1, 0 + b)
    BY <1>0, <2>1, PartOfPart
  <2> QED BY <1>2, <2>1, <2>2
<1>8. IsPrefix(canon.trail, c.trail)
  <2>1. SubSeq(canon.trail, 1, k) = canon.trail
    BY <1>0 DEF k
  <2>2. SubSeq(c.trail, 1, k) = SubSeq(jt, 1, k)
    <3>1. 0 \in 0..l /\ k \in 0..l /\ 0 + 1 = 1
      BY <1>6
    <3> QED BY <1>7, <3>1
  <2> QED BY <1>3, <1>6, <1>0, <1>1, <2>1, <2>2 DEF IsPrefix, k, l
<1>9. SubSeq(jt, k + 1, k + m) = Adopted
  <2>1. SubSeq(jt, k + 1, k + m) \in Seq(Events) /\ Len(SubSeq(jt, k + 1, k + m)) = (k + m) - k
        /\ \A i \in 1..(k + m) - k : SubSeq(jt, k + 1, k + m)[i] = jt[k + i]
    <3>1. k \in 0..Len(jt) /\ k + m \in k..Len(jt)
      BY <1>6 DEF n
    <3> QED BY <1>0, <3>1, PartOf
  <2>2. (k + m) - k = m
    BY <1>0
  <2>3. \A i \in 1..m : jt[k + i] = Adopted[i]
    <3> SUFFICES ASSUME NEW i \in 1..m PROVE jt[k + i] = Adopted[i]
      OBVIOUS
    <3>1. k = 0 /\ k + i = i
      BY <1>0, <1>4
    <3> QED BY <1>3, <3>1
  <2> DEFINE q == SubSeq(jt, k + 1, k + m)
  <2>4. q \in Seq(Events) /\ Len(q) = m /\ \A i \in 1..m : q[i] = Adopted[i]
    BY <2>1, <2>2, <2>3
  <2> HIDE DEF q
  <2>5. Len(q) = Len(Adopted) /\ \A i \in 1..Len(q) : q[i] = Adopted[i]
    BY <2>4 DEF m
  <2>6. q = Adopted
    BY <1>0, <2>4, <2>5, SeqEqual
  <2> QED BY <2>6 DEF q
<1>10. IsPrefix(Adopted, SubSeq(c.trail, k + 1, l))
  <2> DEFINE rest == SubSeq(c.trail, k + 1, l)
  <2>1. rest \in Seq(Events) /\ Len(rest) = l - k
    BY <1>1, <1>6, PartOf DEF l
  <2>2. SubSeq(rest, 1, m) = SubSeq(jt, k + 1, k + m)
    <3>1. k \in 0..Len(c.trail) /\ l \in k..Len(c.trail) /\ 0 \in 0..l - k /\ m \in 0..l - k
          /\ k + 0 + 1 = k + 1 /\ 0 + 1 = 1
      BY <1>0, <1>1, <1>2, <1>6 DEF l
    <3>2. SubSeq(rest, 0 + 1, m) = SubSeq(c.trail, k + 0 + 1, k + m)
      BY <1>1, <3>1, PartOfPart
    <3>3. SubSeq(c.trail, k + 1, k + m) = SubSeq(jt, k + 1, k + m)
      BY <1>6, <1>7
    <3> QED BY <3>1, <3>2, <3>3
  <2>3. SubSeq(Adopted, 1, m) = Adopted
    BY <1>0 DEF m
  <2>4. m <= Len(rest)
    BY <1>0, <1>1, <1>2, <2>1
  <2> HIDE DEF rest
  <2>5. SubSeq(Adopted, 1, m) = SubSeq(rest, 1, m)
    BY <1>9, <2>2, <2>3
  <2>6. IsPrefix(Adopted, rest)
    BY <2>4, <2>5 DEF IsPrefix, m
  <2> QED BY <2>6 DEF rest
<1>11. suffix = SubSeq(jt, k + m + 1, l) /\ suffix = SubSeq(c.trail, k + m + 1, l)
  <2>1. suffix = SubSeq(c.trail, k + m + 1, l)
    BY DEF After, k, m, l
  <2> QED BY <1>6, <1>7, <2>1
<1> HIDE DEF suffix
<1>12. suffix \in Seq(Events) /\ Len(suffix) = l - (k + m) /\ \A i \in 1..l - (k + m) : suffix[i] = jt[(k + m) + i]
  <2>1. k + m \in 0..Len(jt) /\ l \in k + m..Len(jt) /\ jt \in Seq(Events)
    BY <1>0, <1>6 DEF n
  <2> HIDE DEF k, m, l, jt
  <2> QED BY <1>11, <2>1, PartOf
<1>13. judged \in Seq(Events) /\ Len(judged) = l - (k + m) /\ \A i \in 1..l - (k + m) : judged[i].s = jt[(k + m) + i].s
  <2>1. DOMAIN suffix = 1..l - (k + m)
    BY <1>12
  <2>2. \A i \in 1..l - (k + m) : suffix[i].s \in PoolStatements
    <3> TAKE i \in 1..l - (k + m)
    <3>1. suffix[i] \in Events
      BY <1>12
    <3> QED BY <3>1 DEF Events
  <2>3. judged = [i \in 1..l - (k + m) |-> [s |-> suffix[i].s, index |-> t]]
    BY <2>1 DEF JudgedAt, Event
  <2>4. l - (k + m) \in Nat
    BY <1>0, <1>1, <1>2
  <2> HIDE DEF judged
  <2>5. judged \in Seq(Events)
    <3>1. judged \in [1..l - (k + m) -> Events]
      BY <2>2, <2>3 DEF Events
    <3> QED BY <2>4, <3>1, SeqDef
  <2> QED BY <1>12, <2>3, <2>4, <2>5
<1> HIDE DEF judged
<1>14. ASSUME NEW i \in 1..l - (k + m) + 1
       PROVE  ApplyAll(ApplyAll(canon.state, Adopted), SubSeq(judged, 1, i - 1)) =
                ApplyAll(canon.state, SubSeq(jt, k + 1, (k + m) + i - 1))
  <2> DEFINE b == (k + m) + i - 1
             x == SubSeq(judged, 1, i - 1)
             y == SubSeq(jt, k + m + 1, b)
  <2>1. b \in k + m..n /\ b \in Nat /\ i - 1 \in 0..l - (k + m) /\ b - (k + m) = i - 1 /\ 0 \in 0..l - (k + m) /\ 0 + 1 = 1 /\ (i - 1) - 0 = i - 1
    BY <1>0, <1>1, <1>2
  <2> HIDE DEF b
  <2>2. x \in Seq(Events) /\ Len(x) = i - 1 /\ \A j \in 1..i - 1 : x[j] = judged[0 + j]
    <3>1. 0 \in 0..Len(judged) /\ i - 1 \in 0..Len(judged)
      BY <1>13, <2>1
    <3>2. SubSeq(judged, 0 + 1, i - 1) \in Seq(Events) /\ Len(SubSeq(judged, 0 + 1, i - 1)) = (i - 1) - 0
          /\ \A j \in 1..(i - 1) - 0 : SubSeq(judged, 0 + 1, i - 1)[j] = judged[0 + j]
      BY <1>13, <3>1, PartOf
    <3> QED BY <2>1, <3>2
  <2>3. y \in Seq(Events) /\ Len(y) = i - 1 /\ \A j \in 1..i - 1 : y[j] = jt[(k + m) + j]
    <3>1. k + m \in 0..Len(jt) /\ b \in k + m..Len(jt)
      BY <1>6, <2>1 DEF n
    <3>2. y \in Seq(Events) /\ Len(y) = b - (k + m) /\ \A j \in 1..b - (k + m) : y[j] = jt[(k + m) + j]
      BY <1>0, <3>1, PartOf
    <3> QED BY <2>1, <3>2
  <2> HIDE DEF x, y
  <2>4. \A j \in 1..i - 1 : x[j].s = y[j].s
    <3> TAKE j \in 1..i - 1
    <3>1. j \in 1..l - (k + m) /\ 0 + j = j
      BY <1>0, <1>1, <1>2, <2>1
    <3> QED BY <1>13, <2>2, <2>3, <3>1
  <2>5. ApplyAll(canon.state, Adopted) \in PoolStates
    BY <1>0, AppliedTyped
  <2>6. ApplyAll(ApplyAll(canon.state, Adopted), x) = ApplyAll(ApplyAll(canon.state, Adopted), y)
    <3>1. Len(x) = Len(y) /\ \A j \in 1..Len(x) : x[j].s = y[j].s
      BY <2>2, <2>3, <2>4
    <3> QED BY <2>2, <2>3, <2>5, <3>1, AppliedSame
  <2>7. ApplyAll(canon.state, SubSeq(jt, k + 1, b)) =
          ApplyAll(ApplyAll(canon.state, SubSeq(jt, k + 1, k + m)), SubSeq(jt, k + m + 1, b))
    <3>1. k \in 0..Len(jt) /\ k + m \in k..Len(jt) /\ b \in k + m..Len(jt)
      BY <1>6, <2>1 DEF n
    <3> QED BY <1>0, <3>1, AppliedParts
  <2> QED BY <1>9, <2>6, <2>7 DEF b, x, y
<1>15. \A i \in 1..l - (k + m) : StateAt(ApplyAll(canon.state, Adopted), judged, i) = AdmittedOver((k + m) + i)
  <2> TAKE i \in 1..l - (k + m)
  <2>1. i \in 1..l - (k + m) + 1
    BY <1>0, <1>1, <1>2
  <2>2. ApplyAll(ApplyAll(canon.state, Adopted), SubSeq(judged, 1, i - 1)) =
          ApplyAll(canon.state, SubSeq(jt, k + 1, (k + m) + i - 1))
    BY <1>14, <2>1
  <2>3. \A z : AdmittedOver(z) = ApplyAll(canon.state, SubSeq(jt, k + 1, z - 1))
    BY DEF AdmittedOver, k, jt
  <2>4. AdmittedOver((k + m) + i) = ApplyAll(canon.state, SubSeq(jt, k + 1, (k + m) + i - 1))
    <3>1. ((k + m) + i) - 1 = (k + m) + i - 1
      BY <1>0
    <3> QED BY <2>3, <3>1
  <2> QED BY <2>2, <2>4 DEF StateAt
<1>16. ReplayTrail(c, t).state = ApplyAll(canon.state, SubSeq(jt, k + 1, l))
  <2>1. ReplayTrail(c, t).state = ApplyAll(ApplyAll(canon.state, Adopted), judged)
    BY DEF ReplayTrail, Replayed, Adopted, After, judged, suffix
  <2> DEFINE i == l - (k + m) + 1
  <2>2. i \in 1..l - (k + m) + 1 /\ i - 1 = Len(judged) /\ (k + m) + i - 1 = l
    BY <1>0, <1>1, <1>2, <1>13
  <2> HIDE DEF i
  <2>3. SubSeq(judged, 1, Len(judged)) = judged
    BY <1>13
  <2> QED BY <1>14, <2>1, <2>2, <2>3
<1>17. \A i \in 1..l - (k + m) : suffix[i] = jt[(k + m) + i]
  BY <1>12
<1>18. Len(suffix) = l - (k + m) /\ suffix \in Seq(Events)
  BY <1>12
<1> USE DEF k, m, l, jt, suffix, judged
<1>19. k \in Nat /\ m \in Nat
  BY <1>0
<1>20. k + m <= l /\ l <= Len(jt)
  BY <1>2 DEF n
<1>21. c.trail \in Seq(Events) /\ l \in Nat
  BY <1>1
<1>22. IsPrefix(canon.trail, c.trail) /\ IsPrefix(Adopted, SubSeq(c.trail, k + 1, l))
  BY <1>8, <1>10
<1> QED BY <1>19, <1>20, <1>21, <1>22, <1>15, <1>16, <1>17, <1>18, Zenon

\* What a valid continuation finalizes: all that was final, and all the force
\* its opening's block fixed.
LEMMA Finalizes ==
  ASSUME ServiceSafe, NEW c \in Continuations, InActive(c), NEW t \in Nat
  PROVE  /\ ReplayTrail(c, t).state \in PoolStates
         /\ Grows(canon.state, ReplayTrail(c, t).state) /\ StoodUp(ReplayTrail(c, t).state)
         /\ c.trail = <<>> => ReplayTrail(c, t).state.statements = {}
         /\ \A i \in 1..Len(forced) :
              forced[i].index <= canon.opened => forced[i].s \in ReplayTrail(c, t).state.effective
<1> DEFINE jt == journal.trail
           k == Len(canon.trail)
           m == Len(Adopted)
           l == Len(c.trail)
           e == SubSeq(jt, k + 1, l)
           st == ReplayTrail(c, t).state
           A == Through(canon.adoption)
           O == Through(canon.opened)
<1>1. /\ k \in Nat /\ m \in Nat /\ l \in Nat /\ k + m <= l /\ l <= Len(jt) /\ c.trail \in Seq(Events)
      /\ st = ApplyAll(canon.state, e)
  BY Replays
<1>2. jt \in Seq(Events) /\ canon.trail \in Seq(Events) /\ canon.state \in PoolStates /\ Len(jt) \in Nat
      /\ forced \in Seq(Events) /\ canon.adoption \in Nat /\ canon.opened \in Nat
  BY DEF ServiceSafe, ServiceTypes
<1>3. /\ Ordered(forced) /\ A \in 0..Len(forced) /\ O \in A..Len(forced)
      /\ Len(Block) = O - A /\ \A i \in 1..Len(Block) : Block[i] = forced[A + i]
  BY Blocks DEF ServiceSafe
<1>4. \A i \in 1..m : jt[i] = Adopted[i]
  BY DEF ServiceSafe, TrailOK, InActive
<1> HIDE DEF l, st
<1>5. e \in Seq(Events) /\ Len(e) = l - k /\ \A i \in 1..l - k : e[i] = jt[k + i]
  <2>1. k \in 0..Len(jt) /\ l \in k..Len(jt)
    BY <1>1, <1>2
  <2> HIDE DEF k
  <2> QED BY <1>2, <2>1, PartOf
<1> HIDE DEF e
<1>6. /\ st \in PoolStates /\ Grows(canon.state, st)
      /\ StoodUp(canon.state) => StoodUp(st)
      /\ \A i \in 1..Len(e) : e[i].s.kind >= Present => e[i].s \in st.effective
  BY <1>1, <1>2, <1>5, AppliedKeeps, AppliedTyped
<1>7. StoodUp(st)
  BY <1>6 DEF ServiceSafe, CanonOK
<1>8. ASSUME c.trail = <<>> PROVE st.statements = {}
  <2>1. l = 0
    BY <1>8 DEF l
  <2>2. k = 0 /\ e = <<>>
    <3>1. k = 0
      BY <1>1, <2>1
    <3> HIDE DEF k
    <3> QED BY <1>5, <2>1, <3>1
  <2>3. st = canon.state
    BY <1>1, <1>2, <2>2, AppliedStep
  <2>4. canon.trail = <<>>
    BY <1>2, <2>2
  <2> QED BY <2>3, <2>4 DEF ServiceSafe, CanonOK
<1>9. ASSUME NEW i \in 1..Len(forced), forced[i].index <= canon.opened
      PROVE  forced[i].s \in st.effective
  <2>0. forced[i].index \in Nat /\ forced[i].s.kind >= Present
    <3>1. forced[i] \in Events
      BY <1>2
    <3> QED BY <3>1 DEF Events, ServiceSafe, ForceOK
  <2>1. CASE forced[i].index <= canon.adoption
    <3>1. forced[i].s \in canon.state.effective
      BY <2>1 DEF ServiceSafe, ForceOK
    <3> QED BY <1>6, <3>1 DEF Grows
  <2>2. CASE ~(forced[i].index <= canon.adoption)
    <3>1. i <= O /\ ~(i <= A)
      <4>1. CountedThrough(forced, canon.adoption) = A /\ CountedThrough(forced, canon.opened) = O
        BY DEF CountedThrough, Through
      <4> HIDE DEF A, O
      <4>2. \A j \in 1..Len(forced) : forced[j].index <= canon.adoption <=> j <= A
        BY <1>2, <1>3, <4>1, ThroughCounts
      <4>3. \A j \in 1..Len(forced) : forced[j].index <= canon.opened <=> j <= O
        BY <1>2, <1>3, <4>1, ThroughCounts
      <4> QED BY <1>9, <2>2, <4>2, <4>3
    <3>2. canon.trail = <<>>
      BY <1>2, <1>9, <2>0, <2>2 DEF ServiceSafe, CanonOK
    <3>3. k = 0 /\ Adopted = Block
      BY <3>2 DEF Adopted
    <3> HIDE DEF A, O
    <3>4. i - A \in 1..Len(Block) /\ A + (i - A) = i /\ m = Len(Block)
      BY <1>3, <3>1, <3>3
    <3>5. forced[i] = Block[i - A] /\ Block[i - A] = jt[i - A]
      BY <1>3, <1>4, <3>3, <3>4
    <3>6. i - A \in 1..Len(e) /\ e[i - A] = jt[i - A]
      <4>1. Len(e) = l /\ i - A \in 1..l - k /\ k + (i - A) = i - A
        <5> HIDE DEF k, m
        <5> QED BY <1>1, <1>3, <1>5, <3>3, <3>4
      <4> HIDE DEF k
      <4>2. i - A \in 1..Len(e)
        BY <1>5, <4>1
      <4> QED BY <1>5, <4>1, <4>2
    <3> QED BY <1>6, <2>0, <3>5, <3>6
  <2> QED BY <2>1, <2>2
<1> QED BY <1>6, <1>7, <1>8, <1>9 DEF st

-----------------------------------------------------------------------------
\* What the venue's next index does to the reader: nothing, or the witnessed
\* opening is canonical, or a continuation of the canonical segment is.
Quiet ==
  /\ canon' = canon /\ latest' \in Nat /\ latest <= latest' /\ latest' <= journal.last.seq
  /\ latest < journal.last.seq /\ latest' = journal.last.seq => journal.last.published /\ ~journal.pending

Opening ==
  /\ journal.pending /\ latest < journal.last.seq /\ latest' = journal.last.seq /\ journal.last.published
  /\ canon' = OpenedBy(journal.last, now + 1, OpenSegmentState(canon.state))

Continuing(c) ==
  /\ c \in flight /\ c \in Continuations /\ InActive(c) /\ c.seg = canon.seg /\ c.seg \notin retired
  /\ ReplayTrail(c, now + 1).ok
  /\ ~GapOpen(now + 1) /\ latest' = c.seq /\ canon' = ContinuedBy(c, now + 1)

\* classifyCommitment over what the operator signed.
LEMMA TickCases ==
  ASSUME ServiceSafe, NEW published, NEW landed \in {{}} \cup {{c} : c \in flight}, Tick(published, landed)
  PROVE  Quiet \/ Opening \/ \E c \in flight : Continuing(c)
<1>0. now \in Nat /\ latest \in Nat /\ journal.last \in Checkpoints /\ journal.last.seq \in Nat
  BY DEF ServiceSafe, ServiceTypes, Checkpoints
<1>1. CASE landed = {}
  <2>1. canon' = canon /\ latest' = latest
    BY <1>1 DEF Tick
  <2>2. latest <= journal.last.seq
    BY DEF ServiceSafe, JournalOK
  <2> QED BY <1>0, <2>1, <2>2 DEF Quiet
<1>2. CASE landed # {}
  <2>1. PICK c \in flight : landed = {c}
    BY <1>2
  <2>2. canon' = CanonAfter(c, now + 1) /\ latest' = c.seq
    BY <2>1 DEF Tick
  <2>3. c.seq \in Nat
    BY DEF ServiceSafe, ServiceTypes, Checkpoints
  <2>4. /\ latest < c.seq /\ c.seq <= journal.last.seq /\ c.published
        /\ c.seq = journal.last.seq => c = journal.last
        /\ c.parent # 0 => journal.pending /\ c = journal.last
    BY DEF ServiceSafe, FlightOK
  <2>5. CASE c.parent # 0
    <3>1. journal.pending /\ c = journal.last /\ latest < journal.last.seq /\ journal.last.published
      BY <2>4, <2>5
    <3>2. c.parent = canon.seq
      BY <3>1 DEF ServiceSafe, JournalOK
    <3>3. Class(c, now + 1) = "valid" /\ Opens(c)
      BY <2>5, <3>2 DEF Class, Opens, Lapses
    <3> QED BY <2>2, <3>1, <3>3 DEF CanonAfter, Opening
  <2>6. CASE c.parent = 0
    <3>1. c \in Continuations
      BY <2>6 DEF Continuations, Awaited
    <3>2. ~Opens(c)
      BY <2>6 DEF Opens
    <3>3. CASE Class(c, now + 1) = "valid"
      <4>1. ~Lapses(c, now + 1) /\ c.seg = canon.seg /\ ReplayTrail(c, now + 1).ok
        BY <3>2, <3>3 DEF Class
      <4>2. ~GapOpen(now + 1) /\ c.seg \notin retired
        BY <3>2, <4>1 DEF Lapses
      <4>3. InActive(c)
        BY <3>1, <4>2 DEF ServiceSafe, FlightOK
      <4>4. canon' = ContinuedBy(c, now + 1)
        BY <2>2, <3>2, <3>3 DEF CanonAfter
      <4> QED BY <2>2, <3>1, <4>1, <4>2, <4>3, <4>4 DEF Continuing
    <3>4. CASE Class(c, now + 1) # "valid"
      <4>1. canon' = canon
        BY <2>2, <3>4 DEF CanonAfter
      <4>2. journal.pending => journal.last.parent # 0
        BY DEF ServiceSafe, JournalOK
      <4>3. c.seq = journal.last.seq => journal.last.published /\ ~journal.pending
        BY <2>4, <2>6, <4>2
      <4> QED BY <1>0, <2>2, <2>3, <2>4, <4>1, <4>3 DEF Quiet
    <3> QED BY <3>3, <3>4
  <2> QED BY <2>5, <2>6
<1> QED BY <1>1, <1>2

\* The force of the next index, whoever published.
LEMMA TickForce ==
  ASSUME ServiceSafe, NEW published \in {{}} \cup {{s} : s \in Recoveries(canon.seg, View)},
         NEW landed, Tick(published, landed)
  PROVE  RecordedForce(forced') /\ (~GapOpen(now + 1) => forced' = forced)
<1>1. CASE published = {}
  <2>1. forced' = forced
    BY <1>1 DEF Tick
  <2> QED BY <2>1, ForceHeld
<1>2. CASE published # {}
  <2>1. PICK s \in Recoveries(canon.seg, View) : published = {s}
    BY <1>2
  <2>2. View \in PoolStates /\ canon.seg \in Nat
    BY Blocks DEF ServiceSafe, ServiceTypes
  <2>3. s \in PoolStatements
    BY <2>2, FormedByClients
  <2>4. Forces(s, now + 1) /\ forced' = Append(forced, Event(s, now + 1))
    BY <2>1 DEF Tick
  <2>5. GapOpen(now + 1)
    BY <2>4 DEF Forces
  <2> QED BY <2>3, <2>4, <2>5, ForceAdded
<1> QED BY <1>1, <1>2

\* What a publication in force is judged by does not read the segment's own statements.
LEMMA ForcedAlike ==
  ASSUME NEW e \in Events, NEW x \in PoolStates, NEW y \in PoolStates, Alike(x, y), CanForce(e, x)
  PROVE  CanForce(e, y)
BY DEF Alike, CanForce, CheckRecovery, CheckDemand, CheckSettlement, Locked, CheckUniqueEffects

\* The reader's clock, the force and the canonical state, at the venue's next index.
LEMMA ReaderKeeps ==
  ASSUME ServiceSafe, RecordedForce(forced'), ~GapOpen(now + 1) => forced' = forced,
         now' = now + 1, latest' \in Nat,
         retired' = IF GapOpen(now + 1) THEN retired \cup {canon.seg} ELSE retired,
         Quiet \/ Opening \/ \E c \in flight : Continuing(c)
  PROVE  /\ canon' \in [seq : Nat, seg : Nat, trail : Seq(Events), index : Nat, opened : Nat,
                        adoption : Nat, state : PoolStates]
         /\ ClockOK' /\ ForceOK' /\ CanonOK'
<1>0. /\ now \in Nat /\ latest \in Nat /\ retired \subseteq Nat /\ forced \in Seq(Events) /\ Duration \in Nat
      /\ canon \in [seq : Nat, seg : Nat, trail : Seq(Events), index : Nat, opened : Nat,
                    adoption : Nat, state : PoolStates]
      /\ journal.last \in Checkpoints /\ journal.seg \in Nat
  BY ServiceAssumption DEF ServiceSafe, ServiceTypes
<1>1. /\ canon.seq \in Nat /\ canon.seg \in Nat /\ canon.trail \in Seq(Events) /\ canon.index \in Nat
      /\ canon.opened \in Nat /\ canon.adoption \in Nat /\ canon.state \in PoolStates
  BY <1>0
<1>2. /\ canon.adoption <= canon.opened /\ canon.opened <= canon.index /\ canon.index <= now
      /\ 1 <= canon.seq /\ canon.seq <= latest
      /\ GapOpen(now) <=> canon.seg \in retired
      /\ \A g \in retired : g <= canon.seg
  BY DEF ServiceSafe, ClockOK
<1>3. GapOpen(now + 1) <=> (now + 1) - canon.index > Duration
  BY DEF GapOpen
<1>4. GapOpen(now) => GapOpen(now + 1)
  BY <1>0, <1>1 DEF GapOpen
<1>5. canon.seg \in retired' <=> GapOpen(now + 1)
  BY <1>2, <1>4
<1>6. \A g \in retired' : g \in Nat /\ g <= canon.seg
  BY <1>0, <1>1, <1>2
<1>7. (GapOpen(now))' <=> now' - canon'.index > Duration
  BY DEF GapOpen
<1> DEFINE f == forced'
<1>8. /\ f \in Seq(Events) /\ Ordered(f)
      /\ CountedThrough(f, canon.adoption) = Through(canon.adoption)
      /\ \A i \in 1..Len(f) :
           /\ f[i].index <= now + 1 /\ f[i].s.kind >= Present
           /\ f[i].index > canon.opened => canon.seg \in retired \/ GapOpen(now + 1)
           /\ f[i].index <= canon.adoption => f[i].s \in canon.state.effective
           /\ f[i].index > canon.adoption =>
                CanForce(f[i], ApplyAll(canon.state, SubSeq(f, Through(canon.adoption) + 1, i - 1)))
      /\ \A i \in 1..Len(f) : i > Through(canon.adoption) <=> f[i].index > canon.adoption
  BY DEF RecordedForce
<1>9. \A i \in 1..Len(f) : f[i] \in Events /\ f[i].index \in Nat
  <2> TAKE i \in 1..Len(f)
  <2>1. f[i] \in Events
    BY <1>8
  <2> QED BY <2>1 DEF Events
<1>10. \A i : (ForcedOver(i))' = ApplyAll(canon'.state, SubSeq(f, CountedThrough(f, canon'.adoption) + 1, i - 1))
  BY DEF ForcedOver, Through, CountedThrough
<1>11. SUFFICES ASSUME TRUE
                PROVE  /\ canon' \in [seq : Nat, seg : Nat, trail : Seq(Events), index : Nat, opened : Nat,
                                      adoption : Nat, state : PoolStates]
                       /\ canon'.adoption <= canon'.opened /\ canon'.opened <= canon'.index /\ canon'.index <= now'
                       /\ 1 <= canon'.seq /\ canon'.seq <= latest'
                       /\ now' - canon'.index > Duration <=> canon'.seg \in retired'
                       /\ \A g \in retired' : g <= canon'.seg
                       /\ \A i \in 1..Len(f) :
                            /\ f[i].index > canon'.opened => canon'.seg \in retired'
                            /\ f[i].index <= canon'.adoption => f[i].s \in canon'.state.effective
                            /\ f[i].index > canon'.adoption =>
                                 CanForce(f[i], ApplyAll(canon'.state, SubSeq(f, CountedThrough(f, canon'.adoption) + 1, i - 1)))
                       /\ StoodUp(canon'.state)
                       /\ canon'.trail = <<>> => canon'.state.statements = {}
                       /\ canon'.trail # <<>> => canon'.adoption = canon'.opened
  <2>1. \A i, j \in 1..Len(f) : i < j => f[i].index <= f[j].index
    BY <1>8 DEF Ordered
  <2>2. \A i \in 1..Len(f) : f[i].index <= now' /\ f[i].s.kind >= Present
    BY <1>8
  <2>3. ClockOK'
    BY <1>7, <1>11 DEF ClockOK
  <2>4. CanonOK'
    BY <1>11 DEF CanonOK, StoodUp
  <2>5. \A i \in 1..Len(f) : f[i].index > canon'.adoption => CanForce(f[i], (ForcedOver(i))')
    BY <1>10, <1>11
  <2>6. ForceOK'
    BY <1>11, <2>1, <2>2, <2>5 DEF ForceOK, CanForce, CheckRecovery, CheckUniqueEffects
  <2> QED BY <1>11, <2>3, <2>4, <2>6
<1>12. CASE Quiet
  <2>1. canon' = canon /\ latest <= latest'
    BY <1>12 DEF Quiet
  <2>2. \A i \in 1..Len(f) :
          /\ f[i].index > canon.opened => canon.seg \in retired'
          /\ f[i].index <= canon.adoption => f[i].s \in canon.state.effective
          /\ f[i].index > canon.adoption =>
               CanForce(f[i], ApplyAll(canon.state, SubSeq(f, CountedThrough(f, canon.adoption) + 1, i - 1)))
    BY <1>5, <1>8, <1>2, <1>4
  <2>3. StoodUp(canon.state) /\ (canon.trail = <<>> => canon.state.statements = {})
        /\ (canon.trail # <<>> => canon.adoption = canon.opened)
    BY DEF ServiceSafe, CanonOK
  <2>4. canon.index <= now' /\ canon.seq <= latest'
    BY <1>0, <1>1, <1>2, <2>1
  <2>5. now' - canon.index > Duration <=> canon.seg \in retired'
    BY <1>3, <1>5
  <2> HIDE DEF f
  <2> QED BY <1>0, <1>2, <1>6, <2>1, <2>2, <2>3, <2>4, <2>5
<1>13. CASE Opening
  <2> DEFINE st == OpenSegmentState(canon.state)
             c == journal.last
  <2>1. /\ journal.pending /\ latest < c.seq /\ latest' = c.seq
        /\ canon' = OpenedBy(c, now + 1, st)
    BY <1>13 DEF Opening
  <2>2. c.seg = canon.seg + 1 /\ c.seg \in Nat /\ c.seq \in Nat
    BY <1>0, <2>1 DEF ServiceSafe, JournalOK, Checkpoints
  <2>3. st \in PoolStates /\ Alike(canon.state, st) /\ st.statements = {}
    BY <1>1 DEF OpenSegmentState, PoolStates, Alike
  <2>4. StoodUp(st)
    BY <2>3 DEF StoodUp, Alike, ServiceSafe, CanonOK
  <2>5. /\ canon'.seq = c.seq /\ canon'.seg = c.seg /\ canon'.trail = <<>> /\ canon'.index = now + 1
        /\ canon'.opened = now + 1 /\ canon'.adoption = canon.adoption /\ canon'.state = st
        /\ canon' \in [seq : Nat, seg : Nat, trail : Seq(Events), index : Nat, opened : Nat,
                       adoption : Nat, state : PoolStates]
    <3>1. <<>> \in Seq(Events)
      OBVIOUS
    <3>2. /\ now + 1 \in Nat /\ canon.adoption \in Nat /\ c.seq \in Nat /\ c.seg \in Nat /\ st \in PoolStates
      BY <1>0, <1>1, <2>2, <2>3
    <3>3. canon' = [seq |-> c.seq, seg |-> c.seg, trail |-> <<>>, index |-> now + 1,
                    opened |-> now + 1, adoption |-> canon.adoption, state |-> st]
      BY <2>1 DEF OpenedBy
    <3> HIDE DEF st, c
    <3> QED BY <3>1, <3>2, <3>3
  <2> HIDE DEF st, c
  <2>6. canon.adoption <= now + 1 /\ 1 <= c.seq /\ ~((now + 1) - (now + 1) > Duration)
        /\ c.seg \notin retired' /\ \A g \in retired' : g <= c.seg
    <3>1. canon.adoption <= now + 1 /\ 1 <= c.seq /\ ~((now + 1) - (now + 1) > Duration)
      <4>1. /\ canon.adoption \in Nat /\ canon.opened \in Nat /\ canon.index \in Nat /\ now \in Nat
            /\ Duration \in Nat /\ latest \in Nat /\ canon.seq \in Nat /\ c.seq \in Nat
        BY <1>0, <1>1, <2>2
      <4>2. /\ canon.adoption <= canon.opened /\ canon.opened <= canon.index /\ canon.index <= now
            /\ 1 <= canon.seq /\ canon.seq <= latest /\ latest < c.seq
        BY <1>2, <2>1
      <4> QED BY <4>1, <4>2
    <3>2. c.seg \notin retired'
      BY <1>1, <1>6, <2>2
    <3>3. \A g \in retired' : g <= c.seg
      <4> SUFFICES ASSUME NEW g \in retired' PROVE g <= c.seg
        OBVIOUS
      <4>1. g \in Nat /\ g <= canon.seg /\ canon.seg \in Nat /\ c.seg = canon.seg + 1
        BY <1>1, <1>6, <2>2
      <4> HIDE DEF c
      <4> QED BY <4>1
    <3> QED BY <3>1, <3>2, <3>3
  <2>7. ASSUME NEW i \in 1..Len(f)
        PROVE  /\ ~(f[i].index > now + 1)
               /\ f[i].index <= canon.adoption => f[i].s \in st.effective
               /\ f[i].index > canon.adoption =>
                    CanForce(f[i], ApplyAll(st, SubSeq(f, CountedThrough(f, canon.adoption) + 1, i - 1)))
    <3>1. ~(f[i].index > now + 1)
      <4>1. f[i].index <= now + 1 /\ f[i].index \in Nat /\ now \in Nat
        BY <1>0, <1>8, <1>9
      <4> HIDE DEF f
      <4> QED BY <4>1
    <3>2. f[i].index <= canon.adoption => f[i].s \in st.effective
      BY <1>8, <2>3 DEF Alike
    <3>3. ASSUME f[i].index > canon.adoption
          PROVE  CanForce(f[i], ApplyAll(st, SubSeq(f, CountedThrough(f, canon.adoption) + 1, i - 1)))
      <4> DEFINE A == CountedThrough(f, canon.adoption)
                 e == SubSeq(f, A + 1, i - 1)
      <4>1. A \in 0..Len(f) /\ i > A
        <5>1. A \in 0..Len(f)
          BY <1>1, <1>8, ThroughCounts
        <5> QED BY <1>8, <3>3, <5>1
      <4>2. CanForce(f[i], ApplyAll(canon.state, e))
        BY <1>8, <3>3
      <4> HIDE DEF A, f
      <4>3. e \in Seq(Events)
        <5>1. i - 1 \in A..Len(f)
          BY <4>1
        <5> QED BY <1>8, <4>1, <5>1, PartOf
      <4> HIDE DEF e
      <4>4. Alike(ApplyAll(canon.state, e), ApplyAll(st, e)) /\ ApplyAll(canon.state, e) \in PoolStates /\ ApplyAll(st, e) \in PoolStates
        BY <1>1, <2>3, <4>3, AppliedAlike, AppliedTyped
      <4>5. CanForce(f[i], ApplyAll(st, e))
        BY <1>9, <4>2, <4>4, ForcedAlike
      <4> QED BY <4>5 DEF e, A
    <3> QED BY <3>1, <3>2, <3>3
  <2> HIDE DEF f
  <2>9. now' = now + 1
    OBVIOUS
  <2>10. /\ canon'.adoption <= canon'.opened /\ canon'.opened <= canon'.index /\ canon'.index <= now'
         /\ 1 <= canon'.seq /\ canon'.seq <= latest'
    <3>1. /\ canon.adoption <= now + 1 /\ now + 1 <= now + 1
          /\ 1 <= c.seq /\ c.seq <= c.seq /\ c.seq = latest'
      BY <1>0, <2>1, <2>2, <2>6
    <3>2. canon'.adoption = canon.adoption /\ canon'.opened = now + 1 /\ canon'.index = now + 1 /\ canon'.seq = c.seq
      BY <2>5
    <3> QED BY <2>9, <3>1, <3>2, Zenon
  <2>11. now' - canon'.index > Duration <=> canon'.seg \in retired'
    BY <2>5, <2>6, <2>9
  <2>12. \A g \in retired' : g <= canon'.seg
    BY <2>5, <2>6
  <2>13. \A i \in 1..Len(f) :
           /\ f[i].index > canon'.opened => canon'.seg \in retired'
           /\ f[i].index <= canon'.adoption => f[i].s \in canon'.state.effective
           /\ f[i].index > canon'.adoption =>
                CanForce(f[i], ApplyAll(canon'.state, SubSeq(f, CountedThrough(f, canon'.adoption) + 1, i - 1)))
    BY <2>1, <2>3, <2>4, <2>5, <2>6, <2>7
  <2>14. StoodUp(canon'.state) /\ (canon'.trail = <<>> => canon'.state.statements = {})
         /\ (canon'.trail # <<>> => canon'.adoption = canon'.opened)
    BY <2>1, <2>3, <2>4, <2>5, <2>6, <2>7
  <2> QED BY <2>5, <2>10, <2>11, <2>12, <2>13, <2>14
<1>14. CASE \E c \in flight : Continuing(c)
  <2>1. PICK c \in flight : Continuing(c)
    BY <1>14
  <2> DEFINE st == ReplayTrail(c, now + 1).state
  <2>2. /\ c \in Continuations /\ InActive(c) /\ c.seg = canon.seg /\ c.seg \notin retired
        /\ ~GapOpen(now + 1) /\ latest' = c.seq /\ canon' = ContinuedBy(c, now + 1)
    BY <2>1 DEF Continuing
  <2>3. c.seq \in Nat /\ c.trail \in Seq(Events) /\ latest < c.seq
    BY DEF ServiceSafe, ServiceTypes, Checkpoints, FlightOK
  <2>4. /\ st \in PoolStates /\ StoodUp(st) /\ (c.trail = <<>> => st.statements = {})
        /\ \A i \in 1..Len(forced) : forced[i].index <= canon.opened => forced[i].s \in st.effective
    <3>1. now + 1 \in Nat
      BY <1>0
    <3> QED BY <2>2, <3>1, Finalizes
  <2>5. /\ canon'.seq = c.seq /\ canon'.seg = canon.seg /\ canon'.trail = c.trail /\ canon'.index = now + 1
        /\ canon'.opened = canon.opened /\ canon'.adoption = canon.opened /\ canon'.state = st
        /\ canon' \in [seq : Nat, seg : Nat, trail : Seq(Events), index : Nat, opened : Nat,
                       adoption : Nat, state : PoolStates]
    <3> HIDE DEF st
    <3>1. canon' = [seq |-> c.seq, seg |-> canon.seg, trail |-> c.trail, index |-> now + 1,
                    opened |-> canon.opened, adoption |-> canon.opened, state |-> st]
      BY <2>2 DEF ContinuedBy, st
    <3>2. now + 1 \in Nat /\ canon.opened \in Nat /\ canon.seg \in Nat /\ c.seq \in Nat
          /\ c.trail \in Seq(Events) /\ st \in PoolStates
      BY <1>0, <1>1, <2>3, <2>4
    <3> QED BY <3>1, <3>2
  <2> HIDE DEF st
  <2>6. canon.opened <= now + 1 /\ 1 <= c.seq /\ ~((now + 1) - (now + 1) > Duration)
        /\ canon.opened <= canon.opened
    <3>1. /\ canon.opened \in Nat /\ canon.index \in Nat /\ now \in Nat /\ Duration \in Nat
          /\ latest \in Nat /\ canon.seq \in Nat /\ c.seq \in Nat
      BY <1>0, <1>1, <2>3
    <3>2. canon.opened <= canon.index /\ canon.index <= now /\ 1 <= canon.seq /\ canon.seq <= latest /\ latest < c.seq
      BY <1>2, <2>3
    <3> QED BY <3>1, <3>2
  <2>7. canon.seg \notin retired' /\ canon.seg \notin retired
    BY <1>5, <2>2
  <2>8. \A i \in 1..Len(f) : f[i].index <= canon.opened /\ ~(f[i].index > canon.opened) /\ f[i].s \in st.effective
    <3> TAKE i \in 1..Len(f)
    <3>1. f[i].index <= canon.opened /\ ~(f[i].index > canon.opened)
      BY <1>1, <1>8, <1>9, <2>2, <2>7
    <3>2. f = forced
      BY <2>2
    <3> QED BY <2>4, <3>1, <3>2
  <2> HIDE DEF f
  <2>9. now' = now + 1
    OBVIOUS
  <2>10. /\ canon'.adoption <= canon'.opened /\ canon'.opened <= canon'.index /\ canon'.index <= now'
         /\ 1 <= canon'.seq /\ canon'.seq <= latest'
    <3>1. /\ canon.opened <= canon.opened /\ canon.opened <= now + 1 /\ now + 1 <= now + 1
          /\ 1 <= c.seq /\ c.seq <= c.seq /\ c.seq = latest'
      BY <1>0, <2>2, <2>3, <2>6
    <3>2. canon'.adoption = canon.opened /\ canon'.opened = canon.opened /\ canon'.index = now + 1 /\ canon'.seq = c.seq
      BY <2>5
    <3> QED BY <2>9, <3>1, <3>2, Zenon
  <2>11. now' - canon'.index > Duration <=> canon'.seg \in retired'
    BY <2>5, <2>6, <2>7, <2>9
  <2>12. \A g \in retired' : g <= canon'.seg
    BY <1>6, <2>5
  <2>13. \A i \in 1..Len(f) :
           /\ f[i].index > canon'.opened => canon'.seg \in retired'
           /\ f[i].index <= canon'.adoption => f[i].s \in canon'.state.effective
           /\ f[i].index > canon'.adoption =>
                CanForce(f[i], ApplyAll(canon'.state, SubSeq(f, CountedThrough(f, canon'.adoption) + 1, i - 1)))
    BY <2>2, <2>3, <2>4, <2>5, <2>6, <2>7, <2>8
  <2>14. StoodUp(canon'.state) /\ (canon'.trail = <<>> => canon'.state.statements = {})
         /\ (canon'.trail # <<>> => canon'.adoption = canon'.opened)
    BY <2>2, <2>3, <2>4, <2>5, <2>6, <2>7, <2>8
  <2> QED BY <2>5, <2>10, <2>11, <2>12, <2>13, <2>14
<1> QED BY <1>12, <1>13, <1>14

\* The next index keeps the whole of it: classifyCommitment and the walk against
\* the operator's own file.
LEMMA TickKeeps ==
  ASSUME ServiceSafe,
         NEW published \in {{}} \cup {{s} : s \in Recoveries(canon.seg, View)},
         NEW landed \in {{}} \cup {{c} : c \in flight}, Tick(published, landed)
  PROVE  ServiceSafe'
<1>0. /\ now \in Nat /\ latest \in Nat /\ retired \subseteq Nat /\ flight \subseteq Checkpoints
      /\ journal.last \in Checkpoints /\ journal.last.seq \in Nat /\ journal.seg \in Nat
      /\ journal.trail \in Seq(Events) /\ Len(journal.trail) \in Nat /\ Lag \in Nat /\ Duration \in Nat
      /\ canon.index \in Nat /\ canon.seg \in Nat /\ canon.state \in PoolStates /\ canon.opened \in Nat
      /\ canon.adoption \in Nat /\ canon.trail \in Seq(Events)
  <2>1. /\ now \in Nat /\ latest \in Nat /\ retired \subseteq Nat /\ flight \subseteq Checkpoints
        /\ journal.last \in Checkpoints /\ journal.seg \in Nat /\ journal.trail \in Seq(Events)
        /\ canon.index \in Nat /\ canon.seg \in Nat /\ canon.state \in PoolStates /\ canon.opened \in Nat
        /\ canon.adoption \in Nat /\ canon.trail \in Seq(Events)
    <3>1. /\ canon \in [seq : Nat, seg : Nat, trail : Seq(Events), index : Nat, opened : Nat,
                         adoption : Nat, state : PoolStates]
          /\ journal \in [seg : Nat, pending : BOOLEAN, trail : Seq(Events), state : PoolStates,
                           last : Checkpoints]
          /\ now \in Nat /\ latest \in Nat /\ retired \subseteq Nat /\ flight \subseteq Checkpoints
      BY DEF ServiceSafe, ServiceTypes
    <3> QED BY <3>1
  <2>2. journal.last.seq \in Nat
    <3>1. journal.last \in Checkpoints
      BY <2>1
    <3> QED BY <3>1 DEF Checkpoints
  <2>3. Len(journal.trail) \in Nat
    BY <2>1
  <2> QED BY <2>1, <2>2, <2>3, NotesAssumption, ServiceAssumption
<1>1. /\ now' = now + 1 /\ journal' = journal /\ flight' = {c \in flight : c.seq > latest'}
      /\ retired' = IF GapOpen(now + 1) THEN retired \cup {canon.seg} ELSE retired
  BY DEF Tick, Pending
<1>2. RecordedForce(forced') /\ (~GapOpen(now + 1) => forced' = forced)
  BY TickForce
<1>3. Quiet \/ Opening \/ \E c \in flight : Continuing(c)
  BY TickCases
<1>4. latest' \in Nat /\ latest <= latest' /\ latest' <= journal.last.seq
  <2>1. \A c \in flight : c.seq \in Nat /\ latest < c.seq /\ c.seq <= journal.last.seq
    BY <1>0 DEF ServiceSafe, FlightOK, Checkpoints
  <2> QED BY <1>0, <1>3, <2>1 DEF Quiet, Opening, Continuing
<1>5. /\ canon' \in [seq : Nat, seg : Nat, trail : Seq(Events), index : Nat, opened : Nat,
                     adoption : Nat, state : PoolStates]
      /\ ClockOK' /\ ForceOK' /\ CanonOK'
  BY <1>1, <1>2, <1>3, <1>4, ReaderKeeps
<1>6. ServiceTypes'
  <2>1. forced' \in Seq(Events)
    BY <1>2 DEF RecordedForce
  <2>2. now' \in Nat /\ retired' \subseteq Nat /\ flight' \subseteq Checkpoints
    <3>1. retired' \subseteq Nat
      BY <1>0, <1>1
    <3>2. flight' \subseteq flight
      BY <1>1
    <3> QED BY <1>0, <1>1, <3>1, <3>2
  <2> QED BY <1>1, <1>4, <1>5, <2>1, <2>2 DEF ServiceSafe, ServiceTypes
<1>7. canon.seg \in retired => GapOpen(now + 1)
  BY <1>0 DEF ServiceSafe, ClockOK, GapOpen
<1>8. canon.index <= canon'.index
  <2>1. canon.index <= now + 1
    BY <1>0 DEF ServiceSafe, ClockOK
  <2> QED BY <1>0, <1>3, <2>1 DEF Quiet, Opening, Continuing, OpenedBy, ContinuedBy
<1>9. Awaited' \subseteq Awaited /\ Continuations' \subseteq Continuations
  BY <1>1 DEF Awaited, Continuations
<1>10. \A c : (InActive(c))' <=> InActive(c)
  BY <1>1 DEF InActive
<1>11. \A c \in flight : /\ latest < c.seq /\ c.seq <= journal.last.seq /\ c.published /\ c.seq \in Nat
                         /\ c.seq = journal.last.seq => c = journal.last
                         /\ c.parent # 0 => journal.pending /\ c = journal.last
  BY <1>0 DEF ServiceSafe, FlightOK, Checkpoints
<1>12. JournalOK'
  <2>1. /\ latest <= journal.last.seq /\ journal.last.seg = journal.seg
        /\ ~journal.last.published => latest < journal.last.seq
        /\ latest < journal.last.seq /\ journal.last.parent # 0 => journal.pending
        /\ journal.pending =>
             /\ journal.last.parent # 0 /\ journal.trail = <<>>
             /\ latest < journal.last.seq =>
                  /\ journal.last.parent = canon.seq /\ journal.seg = canon.seg + 1
                  /\ journal.state = OpenSegmentState(canon.state) /\ canon.seg \in retired
             /\ latest = journal.last.seq =>
                  canon.seg = journal.seg /\ canon.trail = <<>> /\ canon.state = journal.state
        /\ ~journal.pending => canon.seg = journal.seg
    BY DEF ServiceSafe, JournalOK
  <2>2. CASE Quiet
    <3>1. canon' = canon /\ (latest < journal.last.seq /\ latest' = journal.last.seq => journal.last.published /\ ~journal.pending)
      BY <2>2 DEF Quiet
    <3> QED BY <1>0, <1>1, <1>4, <2>1, <3>1 DEF JournalOK
  <2>3. CASE Opening
    <3>1. /\ journal.pending /\ latest' = journal.last.seq /\ journal.last.published /\ latest < journal.last.seq
          /\ canon'.seg = journal.last.seg /\ canon'.trail = <<>> /\ canon'.state = OpenSegmentState(canon.state)
      BY <2>3 DEF Opening, OpenedBy
    <3> QED BY <1>0, <1>1, <2>1, <3>1 DEF JournalOK
  <2>4. CASE \E c \in flight : Continuing(c)
    <3>1. PICK c \in flight : Continuing(c)
      BY <2>4
    <3>2. ~journal.pending /\ latest' = c.seq /\ canon'.seg = canon.seg
      BY <3>1 DEF Continuing, InActive, ContinuedBy
    <3>3. ~journal.last.published => latest' < journal.last.seq
      <4>1. ASSUME latest' = journal.last.seq PROVE journal.last.published
        BY <1>11, <3>2, <4>1
      <4> QED BY <1>0, <1>4, <4>1
    <3> QED BY <1>0, <1>1, <1>4, <2>1, <3>2, <3>3 DEF JournalOK
  <2> QED BY <1>3, <2>2, <2>3, <2>4
<1>13. \A c \in Continuations :
       /\ c.seg <= journal.seg /\ (c.seg \in retired \/ InActive(c))
       /\ c.at <= now /\ \A i \in 1..Len(c.trail) : c.trail[i].index <= c.at + Lag
       /\ c.at + Lag - canon.index <= Duration
       /\ c.seg \in retired => now > c.at + Lag
       /\ InActive(c) =>
            /\ Len(canon.trail) + Len(Adopted) <= Len(c.trail)
            /\ Len(c.trail) <= Len(journal.trail)
            /\ c.trail = SubSeq(journal.trail, 1, Len(c.trail))
  BY DEF ServiceSafe, FlightOK
<1>14. \A c \in Continuations : c \in Checkpoints /\ c.at \in Nat /\ c.seq \in Nat /\ Len(c.trail) \in Nat
  <2> TAKE c \in Continuations
  <2>1. c \in Checkpoints
    BY <1>0 DEF Continuations, Awaited
  <2> QED BY <2>1 DEF Checkpoints
<1>15. \A c, d \in Continuations : c.seg = d.seg /\ c.seq < d.seq => Len(c.trail) <= Len(d.trail)
  BY DEF ServiceSafe, FlightOK
\* The block a later continuation awaits: the same, or none once adopted.
<1>16. Quiet => canon' = canon /\ (Adopted)' = Adopted
  <2> SUFFICES ASSUME Quiet PROVE canon' = canon /\ (Adopted)' = Adopted
    OBVIOUS
  <2>1. canon' = canon
    BY DEF Quiet
  <2>2. (Block)' = SubSeq(forced', CountedThrough(forced', canon'.adoption) + 1, CountedThrough(forced', canon'.opened))
    BY DEF Block, ForcedIn, Through, CountedThrough
  <2>3. (Block)' = Block
    BY <1>2, <2>1, <2>2 DEF RecordedForce
  <2> QED BY <2>1, <2>3 DEF Adopted
<1>17. ASSUME NEW c \in flight, Continuing(c)
       PROVE  (Adopted)' = <<>> /\ canon'.trail = c.trail
  <2>1. canon'.adoption = canon'.opened /\ canon'.trail = c.trail
    BY <1>17 DEF Continuing, ContinuedBy
  <2>2. (Block)' = SubSeq(forced', CountedThrough(forced', canon'.adoption) + 1, CountedThrough(forced', canon'.opened))
    BY DEF Block, ForcedIn, Through, CountedThrough
  <2> DEFINE a == CountedThrough(forced', canon'.adoption)
  <2>3. a \in 0..Len(forced') /\ forced' \in Seq(Events)
    <3>1. forced' \in Seq(Events) /\ Ordered(forced')
      BY <1>2 DEF RecordedForce
    <3>2. canon'.adoption \in Nat
      BY <1>5
    <3> QED BY <3>1, <3>2, ThroughCounts
  <2>4. (Block)' = SubSeq(forced', a + 1, a)
    BY <2>1, <2>2
  <2> HIDE DEF a
  <2>5. SubSeq(forced', a + 1, a) = <<>>
    BY <2>3
  <2> QED BY <2>1, <2>4, <2>5 DEF Adopted
<1>18. FlightOK'
  <2>1. \A c \in flight' :
       /\ latest' < c.seq /\ c.seq <= journal.last.seq /\ c.published
       /\ c.seq = journal.last.seq => c = journal.last
       /\ c.parent # 0 => journal.pending /\ c = journal.last
    BY <1>1, <1>4, <1>11
  <2>2. ASSUME NEW c \in Continuations'
        PROVE  /\ c.seg <= journal.seg /\ (c.seg \in retired' \/ InActive(c))
               /\ c.at <= now + 1 /\ \A i \in 1..Len(c.trail) : c.trail[i].index <= c.at + Lag
               /\ c.at + Lag - canon'.index <= Duration
               /\ c.seg \in retired' => now + 1 > c.at + Lag
    <3>1. c \in Continuations
      BY <1>9
    <3>2. c.seg <= journal.seg /\ (c.seg \in retired' \/ InActive(c)) /\ c.at <= now + 1
          /\ \A i \in 1..Len(c.trail) : c.trail[i].index <= c.at + Lag
      <4>1. c.seg <= journal.seg /\ (c.seg \in retired \/ InActive(c)) /\ c.at <= now
            /\ \A i \in 1..Len(c.trail) : c.trail[i].index <= c.at + Lag
        BY <1>13, <3>1
      <4>2. retired \subseteq retired'
        BY <1>1
      <4>3. c.at <= now + 1
        BY <1>0, <1>14, <3>1, <4>1
      <4> QED BY <4>1, <4>2, <4>3
    <3>3. c.at + Lag - canon'.index <= Duration
      <4>1. c.at + Lag - canon.index <= Duration /\ c.at \in Nat /\ canon'.index \in Nat
        BY <1>5, <1>13, <1>14, <3>1
      <4>2. canon.index \in Nat /\ Lag \in Nat /\ Duration \in Nat
        BY <1>0
      <4> QED BY <1>8, <4>1, <4>2
    <3>4. ASSUME c.seg \in retired' PROVE now + 1 > c.at + Lag
      <4>1. CASE c.seg \in retired
        <5>1. now > c.at + Lag /\ c.at \in Nat /\ now \in Nat /\ Lag \in Nat
          BY <1>0, <1>13, <1>14, <3>1, <4>1
        <5> QED BY <5>1
      <4>2. CASE c.seg \notin retired
        <5>1. GapOpen(now + 1)
          BY <1>1, <3>4, <4>2
        <5>2. (now + 1) - canon.index > Duration /\ c.at + Lag - canon.index <= Duration /\ c.at \in Nat
          BY <1>13, <1>14, <3>1, <5>1 DEF GapOpen
        <5> QED BY <1>0, <5>2
      <4> QED BY <4>1, <4>2
    <3> QED BY <3>2, <3>3, <3>4
  <2>3. ASSUME NEW c \in Continuations', InActive(c)
        PROVE  /\ Len(canon'.trail) + Len((Adopted)') <= Len(c.trail)
               /\ Len(c.trail) <= Len(journal.trail)
               /\ c.trail = SubSeq(journal.trail, 1, Len(c.trail))
    <3>1. c \in Continuations
      BY <1>9
    <3>2. Len(c.trail) <= Len(journal.trail) /\ c.trail = SubSeq(journal.trail, 1, Len(c.trail))
          /\ Len(canon.trail) + Len(Adopted) <= Len(c.trail)
      BY <1>13, <2>3, <3>1
    <3>3. CASE Quiet
      BY <1>16, <3>2, <3>3
    <3>4. CASE Opening
      BY <2>3, <3>4 DEF Opening, InActive
    <3>5. CASE \E d \in flight : Continuing(d)
      <4>1. PICK d \in flight : Continuing(d)
        BY <3>5
      <4>2. (Adopted)' = <<>> /\ canon'.trail = d.trail
        BY <1>17, <4>1
      <4>3. d \in Continuations /\ d.seg = c.seg /\ latest' = d.seq
        BY <2>3, <4>1 DEF Continuing, InActive
      <4>4. d.seq < c.seq
        <5>1. CASE c \in flight'
          BY <2>1, <4>3, <5>1
        <5>2. CASE c \notin flight'
          <6>1. c = journal.last /\ ~journal.last.published
            BY <1>1, <5>2 DEF Continuations, Awaited
          <6>2. latest' < journal.last.seq
            BY <1>1, <1>12, <6>1 DEF JournalOK
          <6> QED BY <4>3, <6>1, <6>2
        <5> QED BY <5>1, <5>2
      <4>5. Len(d.trail) <= Len(c.trail) /\ Len(d.trail) \in Nat
        BY <1>14, <1>15, <3>1, <4>3, <4>4
      <4>6. Len((Adopted)') = 0
        BY <4>2
      <4> QED BY <3>2, <4>2, <4>5, <4>6
    <3> QED BY <1>3, <3>3, <3>4, <3>5
  <2>4. \A c, d \in Continuations' : c.seg = d.seg /\ c.seq < d.seq => Len(c.trail) <= Len(d.trail)
    BY <1>9, <1>15
  <2> QED BY <1>1, <1>10, <2>1, <2>2, <2>3, <2>4 DEF FlightOK
<1>19. TrailOK'
  <2> SUFFICES ASSUME ~journal.pending PROVE TrailOK'
    BY <1>1 DEF TrailOK
  <2> DEFINE jt == journal.trail
             k == Len(canon.trail)
             m == Len(Adopted)
             n == Len(jt)
  <2>1. /\ k + m <= n
        /\ canon.trail = SubSeq(jt, 1, k)
        /\ \A i \in 1..m : jt[i] = Adopted[i]
        /\ journal.state = AdmittedOver(n + 1)
        /\ \A i \in 1..n : jt[i].index <= now + Lag
        /\ \A i \in k + m + 1..n :
             Judged(jt[i].s, AdmittedOver(i), journal.seg, "admission", jt[i].index, {})
    BY DEF ServiceSafe, TrailOK
  <2>2. \A i \in 1..n : jt[i].index <= (now + 1) + Lag
    <3> TAKE i \in 1..n
    <3>1. jt[i] \in Events
      BY <1>0
    <3>2. jt[i].index \in Nat /\ jt[i].index <= now + Lag
      BY <2>1, <3>1 DEF Events
    <3>3. now \in Nat /\ Lag \in Nat
      BY <1>0
    <3> QED BY <3>2, <3>3
  <2>3. CASE Quiet
    <3>1. canon' = canon /\ (Adopted)' = Adopted
      BY <1>16, <2>3
    <3>2. \A i : (AdmittedOver(i))' = AdmittedOver(i)
      BY <1>1, <3>1 DEF AdmittedOver
    <3>3. (AdmittedOver(Len(journal.trail) + 1))' = AdmittedOver(n + 1)
      BY <1>1, <3>1 DEF AdmittedOver
    <3> QED BY <1>1, <2>1, <2>2, <3>1, <3>2, <3>3 DEF TrailOK
  <2>4. CASE Opening
    BY <2>4 DEF Opening
  <2>5. CASE \E c \in flight : Continuing(c)
    <3>1. PICK c \in flight : Continuing(c)
      BY <2>5
    <3> DEFINE l == Len(c.trail)
               st == ReplayTrail(c, now + 1).state
    <3>2. /\ c \in Continuations /\ InActive(c) /\ canon'.trail = c.trail /\ canon'.state = st
          /\ (Adopted)' = <<>>
      BY <1>17, <3>1 DEF Continuing, ContinuedBy
    <3>3. /\ k \in Nat /\ m \in Nat /\ k + m <= l /\ l <= n /\ l \in Nat
          /\ st = ApplyAll(canon.state, SubSeq(jt, k + 1, l))
      <4>1. now + 1 \in Nat
        BY <1>0
      <4> QED BY <3>2, <4>1, Replays
    <3>4. c.trail = SubSeq(jt, 1, l)
      BY <1>13, <3>2
    <3> HIDE DEF st, l, k, m
    <3>5. \A b \in l..n : ApplyAll(st, SubSeq(jt, l + 1, b)) = ApplyAll(canon.state, SubSeq(jt, k + 1, b))
      <4> TAKE b \in l..n
      <4>1. k \in 0..Len(jt) /\ l \in k..Len(jt) /\ b \in l..Len(jt)
        BY <1>0, <3>3
      <4> QED BY <1>0, <3>3, <4>1, AppliedParts
    <3>6. \A i : AdmittedOver(i) = ApplyAll(canon.state, SubSeq(jt, k + 1, i - 1))
      BY DEF AdmittedOver, k
    <3>7. \A i : (AdmittedOver(i))' = ApplyAll(st, SubSeq(jt, l + 1, i - 1))
      BY <1>1, <3>2 DEF AdmittedOver, l
    <3>8. (AdmittedOver(Len(journal.trail) + 1))' = ApplyAll(st, SubSeq(jt, l + 1, (n + 1) - 1))
      BY <1>1, <3>2 DEF AdmittedOver, l
    <3>9. journal.state = (AdmittedOver(Len(journal.trail) + 1))'
      <4>1. (n + 1) - 1 = n /\ n \in l..n
        BY <1>0, <3>3
      <4> HIDE DEF n
      <4> QED BY <2>1, <3>5, <3>6, <3>8, <4>1
    <3>10. \A i \in l + 1..n :
             Judged(jt[i].s, (AdmittedOver(i))', journal.seg, "admission", jt[i].index, {})
      <4> TAKE i \in l + 1..n
      <4>1. i \in k + m + 1..n /\ i - 1 \in l..n
        BY <1>0, <3>3
      <4>2. (AdmittedOver(i))' = AdmittedOver(i)
        BY <3>5, <3>6, <3>7, <4>1
      <4> QED BY <2>1, <4>1, <4>2 DEF k, m
    <3>11. Len(canon'.trail) = l /\ Len((Adopted)') = 0 /\ l + 0 = l
      BY <3>2, <3>3 DEF l
    <3> HIDE DEF n, jt
    <3>12. journal'.trail = jt /\ Len(jt) = n /\ journal'.state = journal.state /\ now' = now + 1
           /\ journal'.seg = journal.seg
      BY <1>1 DEF jt, n
    <3> HIDE DEF AdmittedOver, Adopted
    <3>13. /\ Len(canon'.trail) + Len((Adopted)') <= Len(journal'.trail)
           /\ canon'.trail = SubSeq(journal'.trail, 1, Len(canon'.trail))
      BY <3>2, <3>3, <3>4, <3>11, <3>12
    <3>14. \A i \in 1..Len((Adopted)') : journal'.trail[i] = (Adopted)'[i]
      BY <3>11
    <3>15. \A i \in Len(canon'.trail) + Len((Adopted)') + 1..Len(journal'.trail) :
             Judged(journal'.trail[i].s, (AdmittedOver(i))', journal'.seg, "admission", journal'.trail[i].index, {})
      BY <3>10, <3>11, <3>12
    <3>16. \A i \in 1..Len(journal'.trail) : journal'.trail[i].index <= now' + Lag
      BY <2>2, <3>12 DEF jt, n
    <3> QED BY <3>9, <3>12, <3>13, <3>14, <3>15, <3>16 DEF TrailOK
  <2> QED BY <1>3, <2>3, <2>4, <2>5
<1> QED BY <1>5, <1>6, <1>12, <1>18, <1>19 DEF ServiceSafe

-----------------------------------------------------------------------------
\* The genesis opening, signed and witnessed, with nothing forced over it.
LEMMA ServiceInit == Init => ServiceSafe
<1> SUFFICES ASSUME Init PROVE ServiceSafe
  OBVIOUS
<1>0. Duration \in Nat /\ Lag \in Nat /\ <<>> \in Seq(Events) /\ Len(<<>>) = 0
  BY NotesAssumption, ServiceAssumption
<1>1. GenesisState \in PoolStates /\ GenesisState.statements = {} /\ GenesisState.demands = {}
  BY DEF GenesisState, PoolStates
<1>2. /\ now = 0 /\ flight = {} /\ latest = 1 /\ forced = <<>> /\ retired = {}
      /\ canon = [seq |-> 1, seg |-> 1, trail |-> <<>>, index |-> 0, opened |-> 0,
                  adoption |-> 0, state |-> GenesisState]
      /\ journal = [seg |-> 1, pending |-> FALSE, trail |-> <<>>, state |-> GenesisState,
                    last |-> [seq |-> 1, seg |-> 1, trail |-> <<>>, parent |-> 0,
                              at |-> 0, observed |-> 0, published |-> TRUE]]
  BY DEF Init
<1>3. /\ canon.seq = 1 /\ canon.seg = 1 /\ canon.trail = <<>> /\ canon.index = 0 /\ canon.opened = 0
      /\ canon.adoption = 0 /\ canon.state = GenesisState
      /\ journal.seg = 1 /\ ~journal.pending /\ journal.trail = <<>> /\ journal.state = GenesisState
      /\ journal.last.seq = 1 /\ journal.last.seg = 1 /\ journal.last.published
  BY <1>2
<1>4. ServiceTypes
  <2>1. journal.last \in Checkpoints
    BY <1>0, <1>2 DEF Checkpoints
  <2>2. canon \in [seq : Nat, seg : Nat, trail : Seq(Events), index : Nat, opened : Nat,
                   adoption : Nat, state : PoolStates]
    BY <1>0, <1>1, <1>2
  <2>3. journal \in [seg : Nat, pending : BOOLEAN, trail : Seq(Events), state : PoolStates, last : Checkpoints]
    BY <1>0, <1>1, <1>2, <2>1
  <2> QED BY <1>0, <1>2, <2>2, <2>3 DEF ServiceTypes
<1>5. ClockOK
  BY <1>0, <1>2, <1>3 DEF ClockOK, GapOpen
<1>6. ForceOK
  BY <1>0, <1>2 DEF ForceOK
<1>7. CanonOK
  BY <1>1, <1>3 DEF CanonOK, StoodUp
<1>8. JournalOK
  BY <1>2, <1>3 DEF JournalOK
<1>9. FlightOK
  <2>1. Continuations = {}
    BY <1>2, <1>3 DEF Continuations, Awaited
  <2> QED BY <1>2, <2>1 DEF FlightOK
<1>10. TrailOK
  <2>1. Adopted = <<>>
    <3>1. Through(canon.adoption) = 0 /\ Through(canon.opened) = 0
      <4>1. CountedThrough(<<>>, 0) = 0
        <5>1. Ordered(<<>>) /\ 0 \in Nat
          BY <1>0 DEF Ordered
        <5>2. CountedThrough(<<>>, 0) \in 0..Len(<<>>)
          BY <1>0, <5>1, ThroughCounts
        <5> QED BY <1>0, <5>2
      <4> QED BY <1>2, <1>3, <4>1 DEF Through, CountedThrough
    <3>2. Block = <<>>
      BY <1>2, <3>1 DEF Block, ForcedIn
    <3> QED BY <3>2 DEF Adopted
  <2>2. SubSeq(<<>>, 1, 0) = <<>> /\ SubSeq(<<>>, 0 + 1, (0 + 1) - 1) = <<>>
    OBVIOUS
  <2>3. AdmittedOver(Len(journal.trail) + 1) = GenesisState
    <3>1. AdmittedOver(Len(journal.trail) + 1) = ApplyAll(GenesisState, <<>>)
      BY <1>0, <1>3, <2>2 DEF AdmittedOver
    <3> QED BY <1>0, <1>1, <3>1, AppliedStep
  <2> QED BY <1>0, <1>3, <2>1, <2>2, <2>3 DEF TrailOK
<1> QED BY <1>4, <1>5, <1>6, <1>7, <1>8, <1>9, <1>10 DEF ServiceSafe

\* The operator's file and the reader's walk agree, whatever is witnessed, in
\* what order and how late: src/pool/v3/store.ts against scope-reader.ts.
THEOREM ServiceSound == Spec => []ServiceSafe
<1>1. Init => ServiceSafe
  BY ServiceInit
<1>2. ServiceSafe /\ [Next]_vars => ServiceSafe'
  <2> SUFFICES ASSUME ServiceSafe, [Next]_vars PROVE ServiceSafe'
    OBVIOUS
  <2>1. CASE VenueAdvances
    BY <2>1, TickKeeps DEF VenueAdvances
  <2>2. CASE Submits
    <3>1. journal.state \in PoolStates /\ journal.seg \in Nat
      BY DEF ServiceSafe, ServiceTypes
    <3>2. PICK s \in Transfers(journal.seg, journal.state) \cup Recoveries(journal.seg, journal.state) : Submit(s)
      BY <2>2 DEF Submits
    <3>3. s \in PoolStatements
      BY <3>1, FormedByClients
    <3> QED BY <3>2, <3>3, SubmitKeeps
  <2>3. CASE Commit
    BY <2>3, CommitKeeps
  <2>4. CASE Publish
    BY <2>4, PublishKeeps
  <2>5. CASE Return
    BY <2>5, ReturnKeeps
  <2>6. CASE Adopt
    BY <2>6, AdoptKeeps
  <2>7. CASE UNCHANGED vars
    <3>1. /\ now' = now /\ flight' = flight /\ latest' = latest /\ canon' = canon
          /\ forced' = forced /\ retired' = retired /\ journal' = journal
      BY <2>7 DEF vars
    <3>2. ServiceTypes'
      BY <3>1 DEF ServiceSafe, ServiceTypes
    <3>3. ClockOK' /\ CanonOK' /\ JournalOK'
      BY <3>1 DEF ServiceSafe, ClockOK, CanonOK, JournalOK, GapOpen
    <3>4. ForceOK'
      BY <3>1 DEF ServiceSafe, ForceOK, ForcedOver, Through
    <3>5. Block' = Block /\ Adopted' = Adopted /\ Continuations' = Continuations
      BY <3>1 DEF Block, Adopted, ForcedIn, Through, Continuations, Awaited
    <3>6. FlightOK'
      BY <3>1, <3>5 DEF ServiceSafe, FlightOK, InActive
    <3>7. TrailOK'
      BY <3>1, <3>5 DEF ServiceSafe, TrailOK, AdmittedOver
    <3> QED BY <3>2, <3>3, <3>4, <3>6, <3>7 DEF ServiceSafe
  <2> QED BY <2>1, <2>2, <2>3, <2>4, <2>5, <2>6, <2>7 DEF Next
<1> QED BY <1>1, <1>2, PTL DEF Spec

-----------------------------------------------------------------------------
\* The block of a snapshot with no records of its own yet applies whole: what
\* each publication was given force over is what it is adopted over.
LEMMA BlockAdopts ==
  ASSUME ServiceSafe, canon.trail = <<>>, NEW seg
  PROVE  Replayed(canon.state, seg, Block, "adoption").ok
<1> DEFINE A == Through(canon.adoption)
           O == Through(canon.opened)
           n == Len(forced)
<1>0. canon.state \in PoolStates /\ forced \in Seq(Events) /\ n \in Nat
  BY DEF ServiceSafe, ServiceTypes
<1>1. /\ Ordered(forced) /\ A \in 0..n /\ O \in A..n
      /\ Block \in Seq(Events) /\ Len(Block) = O - A /\ \A i \in 1..Len(Block) : Block[i] = forced[A + i]
  BY Blocks DEF ServiceSafe
<1>2. \A i \in 1..n : i > A => CanForce(forced[i], ForcedOver(i)) /\ forced[i].s.kind >= Present
  BY ForceHeld DEF RecordedForce, ForcedOver
<1>3. Block = SubSeq(forced, A + 1, O)
  BY DEF Block, ForcedIn
<1> HIDE DEF A, O, n
<1>4. SUFFICES ASSUME NEW i \in 1..O - A
               PROVE  Judged(Block[i].s, StateAt(canon.state, Block, i), seg, "adoption", Block[i].index, {})
  <2>1. DOMAIN Block = 1..O - A
    BY <1>1
  <2> QED BY <1>4, <2>1 DEF Replayed
<1>5. A + i \in 1..n /\ A + i > A /\ i \in 1..Len(Block) /\ (A + i) - 1 = A + (i - 1) /\ A + i \in Nat
      /\ i - 1 \in 0..O - A /\ 0 \in 0..O - A /\ i - 1 \in 0..(O - A) /\ A + 0 + 1 = A + 1 /\ 0 + 1 = 1
  BY <1>0, <1>1
<1> DEFINE x == StateAt(canon.state, Block, i)
           e == SubSeq(Block, 1, i - 1)
<1>6. e = SubSeq(forced, A + 1, (A + i) - 1)
  <2>1. SubSeq(Block, 0 + 1, i - 1) = SubSeq(forced, A + 0 + 1, A + (i - 1))
    <3>1. A \in 0..Len(forced) /\ O \in A..Len(forced)
      BY <1>1 DEF n
    <3>2. 0 \in 0..(O - A) /\ i - 1 \in 0..(O - A)
      BY <1>5
    <3> QED BY <1>0, <1>3, <3>1, <3>2, PartOfPart
  <2> QED BY <1>5, <2>1
<1>7. x = ApplyAll(canon.state, e) /\ x = ForcedOver(A + i)
  BY <1>6 DEF StateAt, ForcedOver, A
<1>8. CanForce(Block[i], x)
  BY <1>1, <1>2, <1>5, <1>7
<1>9. e \in Seq(Events) /\ \A j \in 1..Len(e) : e[j].s.kind >= Present
  <2>1. 0 \in 0..Len(Block) /\ i - 1 \in 0..Len(Block)
    BY <1>1, <1>5
  <2>2. SubSeq(Block, 0 + 1, i - 1) \in Seq(Events) /\ Len(SubSeq(Block, 0 + 1, i - 1)) = (i - 1) - 0
        /\ \A j \in 1..(i - 1) - 0 : SubSeq(Block, 0 + 1, i - 1)[j] = Block[0 + j]
    BY <1>1, <2>1, PartOf
  <2>3. e \in Seq(Events) /\ Len(e) = i - 1 /\ \A j \in 1..i - 1 : e[j] = Block[j]
    BY <1>5, <2>2
  <2>4. \A j \in 1..i - 1 : Block[j].s.kind >= Present
    <3> TAKE j \in 1..i - 1
    <3>1. j \in 1..Len(Block) /\ A + j \in 1..n /\ A + j > A
      BY <1>0, <1>1
    <3> QED BY <1>1, <1>2, <3>1
  <2> HIDE DEF e
  <2> QED BY <2>3, <2>4
<1> HIDE DEF e
<1>10. x.statements \subseteq canon.state.statements \cup x.effective
  BY <1>0, <1>7, <1>9, AppliedKeeps
<1>11. canon.state.statements = {}
  BY DEF ServiceSafe, CanonOK
<1> HIDE DEF x
<1>12. Block[i].s \notin x.statements
  <2>1. Block[i].s \notin x.effective
    BY <1>8 DEF CanForce, CheckRecovery, Present, Withdraw, Settle
  <2> QED BY <1>10, <1>11, <2>1
<1>13. Judged(Block[i].s, x, seg, "adoption", Block[i].index, {})
  BY <1>8, <1>12 DEF Judged, CanForce, CheckRecovery, Issue, Burn, Present, Withdraw, Settle
<1> QED BY <1>13 DEF x

\* The reader's clock over what was signed under the service clock: a checkpoint
\* on its way continues the active segment or its time is past.
LEMMA NotLapsedOnTime == ServiceSafe => OnTimeNeverLapsed
<1> SUFFICES ASSUME ServiceSafe, NEW c \in flight, OnTime(c, now + 1) PROVE Class(c, now + 1) # "lapsed"
  BY DEF OnTimeNeverLapsed
<1>0. now \in Nat /\ c \in Checkpoints /\ canon.index \in Nat /\ Lag \in Nat /\ Duration \in Nat /\ c.at \in Nat
  <2>1. now \in Nat /\ c \in Checkpoints /\ canon.index \in Nat
    BY DEF ServiceSafe, ServiceTypes
  <2> QED BY <2>1, NotesAssumption, ServiceAssumption DEF Checkpoints
<1>1. CASE Opens(c)
  BY <1>1 DEF Class, Lapses
<1>2. CASE ~Opens(c)
  <2>1. c \in Continuations
    BY <1>2 DEF Opens, Continuations, Awaited
  <2>2. c.at + Lag - canon.index <= Duration /\ (c.seg \in retired => now > c.at + Lag)
    BY <2>1 DEF ServiceSafe, FlightOK
  <2>3. now + 1 <= c.at + Lag
    BY DEF OnTime
  <2>4. ~GapOpen(now + 1) /\ c.seg \notin retired
    BY <1>0, <2>2, <2>3 DEF GapOpen
  <2> QED BY <1>2, <2>4 DEF Class, Lapses
<1> QED BY <1>1, <1>2

\* Every record a checkpoint carries was admitted over the state it replays
\* over: only a lock that ended in between tells the two judgements apart.
LEMMA ExcludedByLock == ServiceSafe => ExcludedOnlyByLock
<1> SUFFICES ASSUME ServiceSafe, NEW c \in flight, Class(c, now + 1) = "excluded"
             PROVE  LockEndsInLag(c, now + 1)
  BY DEF ExcludedOnlyByLock
<1> DEFINE t == now + 1
           jt == journal.trail
           p == Len(canon.trail) + Len(Adopted)
           n == Len(jt)
<1>0. t \in Nat /\ jt \in Seq(Events) /\ canon.state \in PoolStates /\ canon.trail \in Seq(Events) /\ n \in Nat
  BY DEF ServiceSafe, ServiceTypes
<1>1. ~Opens(c)
  <2> SUFFICES ASSUME Opens(c) PROVE FALSE
    OBVIOUS
  <2>1. journal.pending /\ c = journal.last /\ latest < journal.last.seq
    BY DEF Opens, ServiceSafe, FlightOK
  <2>2. c.parent = canon.seq
    BY <2>1 DEF ServiceSafe, JournalOK
  <2> QED BY <2>2 DEF Class, Lapses
<1>2. c \in Continuations
  BY <1>1 DEF Opens, Continuations, Awaited
<1>3. ~Lapses(c, t) /\ ~(c.seg = canon.seg /\ ReplayTrail(c, t).ok)
  BY <1>1 DEF Class
<1>4. InActive(c)
  BY <1>1, <1>2, <1>3 DEF Lapses, ServiceSafe, FlightOK
<1>5. c.seg = canon.seg /\ c.seg = journal.seg /\ ~journal.pending
  BY <1>4 DEF InActive, ServiceSafe, JournalOK
<1>6. /\ p \in Nat /\ p <= Len(c.trail) /\ Len(c.trail) <= n /\ Len(c.trail) \in Nat /\ c.trail \in Seq(Events)
      /\ IsPrefix(canon.trail, c.trail)
      /\ IsPrefix(Adopted, SubSeq(c.trail, Len(canon.trail) + 1, Len(c.trail)))
      /\ Len(After(c)) = Len(c.trail) - p /\ After(c) \in Seq(Events)
      /\ \A i \in 1..Len(c.trail) - p : After(c)[i] = jt[p + i]
      /\ \A i \in 1..Len(c.trail) - p :
           StateAt(ApplyAll(canon.state, Adopted), JudgedAt(After(c), t), i) = AdmittedOver(p + i)
  <2>1. Len(canon.trail) \in Nat /\ Len(Adopted) \in Nat
    BY <1>0, <1>2, <1>4, Replays
  <2>2. p \in Nat
    BY <2>1
  <2>3. /\ IsPrefix(canon.trail, c.trail)
        /\ IsPrefix(Adopted, SubSeq(c.trail, Len(canon.trail) + 1, Len(c.trail)))
    BY <1>0, <1>2, <1>4, Replays
  <2>4. p <= Len(c.trail) /\ Len(c.trail) <= n /\ Len(c.trail) \in Nat /\ c.trail \in Seq(Events)
    BY <1>0, <1>2, <1>4, Replays
  <2>5. Len(After(c)) = Len(c.trail) - p /\ After(c) \in Seq(Events)
    BY <1>0, <1>2, <1>4, Replays
  <2>6. \A i \in 1..Len(c.trail) - p : After(c)[i] = jt[p + i]
    BY <1>0, <1>2, <1>4, Replays
  <2>7. \A i \in 1..Len(c.trail) - p :
           StateAt(ApplyAll(canon.state, Adopted), JudgedAt(After(c), t), i) = AdmittedOver(p + i)
    BY <1>0, <1>2, <1>4, Replays
  <2> HIDE DEF p, n, jt, t
  <2> QED BY <2>2, <2>3, <2>4, <2>5, <2>6, <2>7
<1>7. Replayed(canon.state, c.seg, Adopted, "adoption").ok
  <2>1. CASE canon.trail = <<>>
    BY <2>1, BlockAdopts DEF Adopted
  <2>2. CASE canon.trail # <<>>
    <3>1. Adopted = <<>>
      BY <2>2 DEF Adopted
    <3> QED BY <3>1 DEF Replayed
  <2> QED BY <2>1, <2>2
<1>8. ~Replayed(ApplyAll(canon.state, Adopted), c.seg, JudgedAt(After(c), t), "replay").ok
  <2>1. ReplayTrail(c, t).ok =
          /\ IsPrefix(canon.trail, c.trail)
          /\ IsPrefix(Adopted, SubSeq(c.trail, Len(canon.trail) + 1, Len(c.trail)))
          /\ Replayed(canon.state, c.seg, Adopted, "adoption").ok
          /\ Replayed(Replayed(canon.state, c.seg, Adopted, "adoption").state, c.seg,
                      JudgedAt(After(c), t), "replay").ok
    BY DEF ReplayTrail, After, Adopted
  <2>2. Replayed(canon.state, c.seg, Adopted, "adoption").state = ApplyAll(canon.state, Adopted)
    BY DEF Replayed
  <2> QED BY <1>3, <1>5, <1>6, <1>7, <2>1, <2>2
<1> DEFINE judged == JudgedAt(After(c), t)
           over == ApplyAll(canon.state, Adopted)
<1>9. DOMAIN judged = 1..Len(c.trail) - p /\ \A i \in 1..Len(c.trail) - p : judged[i].s = jt[p + i].s /\ judged[i].index = t
  <2>1. DOMAIN After(c) = 1..Len(c.trail) - p
    <3> HIDE DEF p
    <3> QED BY <1>6
  <2> QED BY <1>6, <2>1 DEF JudgedAt, Event
<1>10. PICK i \in DOMAIN judged : ~Judged(judged[i].s, StateAt(over, judged, i), c.seg, "replay", judged[i].index, {})
  BY <1>8 DEF Replayed
<1> DEFINE j == p + i
           s == jt[j].s
           x == AdmittedOver(j)
           judgedAt == jt[j].index
<1>11. i \in 1..Len(c.trail) - p /\ StateAt(over, judged, i) = x /\ judged[i].s = s /\ judged[i].index = t
  BY <1>6, <1>9
<1>12. ~Judged(s, x, c.seg, "replay", t, {})
  <2> HIDE DEF s, x, judged, over, t, p
  <2> QED BY <1>10, <1>11, Zenon
<1> HIDE DEF judged, over, p, t
<1>13. j \in p + 1..n /\ j \in 1..n /\ j \in 1..Len(c.trail)
  <2>1. p \in Nat /\ p <= Len(c.trail) /\ Len(c.trail) <= n /\ Len(c.trail) \in Nat /\ n \in Nat
    BY <1>0, <1>6
  <2>2. i \in 1..Len(c.trail) - p
    BY <1>11
  <2> QED BY <2>1, <2>2
<1>14. Judged(s, x, journal.seg, "admission", judgedAt, {})
  BY <1>5, <1>13 DEF ServiceSafe, TrailOK, p
<1>15. jt[j] \in Events
  BY <1>0, <1>13
<1>16. s \in PoolStatements /\ judgedAt \in Nat
  BY <1>15 DEF Events
<1>17. /\ x \in PoolStates /\ StoodUp(x) /\ x.effective \subseteq journal.state.effective
  <2> DEFINE k == Len(canon.trail)
  <2>1. k \in 0..n /\ j - 1 \in k..n /\ n \in j - 1..n /\ n \in k..n
    <3>1. p = k + Len(Adopted) /\ k \in Nat /\ Len(Adopted) \in Nat
      BY <1>0, <1>2, <1>4, Replays DEF p
    <3> HIDE DEF k, j
    <3> QED BY <1>0, <1>13, <3>1
  <2>2. x = ApplyAll(canon.state, SubSeq(jt, k + 1, j - 1))
    BY DEF AdmittedOver
  <2>3. journal.state = ApplyAll(canon.state, SubSeq(jt, k + 1, n))
    <3>1. journal.state = ApplyAll(canon.state, SubSeq(jt, k + 1, (n + 1) - 1))
      BY <1>5 DEF ServiceSafe, TrailOK, AdmittedOver
    <3>2. (n + 1) - 1 = n
      BY <1>0
    <3> HIDE DEF n, k, jt
    <3> QED BY <3>1, <3>2
  <2> HIDE DEF k, j
  <2>4. SubSeq(jt, k + 1, j - 1) \in Seq(Events) /\ SubSeq(jt, (j - 1) + 1, n) \in Seq(Events)
    <3>1. k \in 0..Len(jt) /\ j - 1 \in k..Len(jt) /\ j - 1 \in 0..Len(jt) /\ n \in j - 1..Len(jt)
      BY <1>0, <2>1
    <3> HIDE DEF n
    <3> QED BY <1>0, <3>1, PartOf
  <2>5. ApplyAll(canon.state, SubSeq(jt, k + 1, n)) =
          ApplyAll(ApplyAll(canon.state, SubSeq(jt, k + 1, j - 1)), SubSeq(jt, (j - 1) + 1, n))
    <3>1. k \in 0..Len(jt) /\ j - 1 \in k..Len(jt) /\ n \in j - 1..Len(jt)
      BY <1>0, <2>1
    <3> HIDE DEF n
    <3> QED BY <1>0, <3>1, AppliedParts
  <2>6. StoodUp(canon.state)
    BY DEF ServiceSafe, CanonOK
  <2>7. x \in PoolStates /\ StoodUp(x)
    BY <1>0, <2>2, <2>4, <2>6, AppliedKeeps, AppliedTyped
  <2> HIDE DEF x, n
  <2>8. Grows(x, journal.state)
    BY <2>2, <2>3, <2>4, <2>5, <2>7, AppliedKeeps
  <2> QED BY <2>7, <2>8 DEF Grows
<1>18. c.trail[j].s = s /\ c.trail[j].index = judgedAt
  <2>1. c.trail = SubSeq(jt, 1, Len(c.trail))
    BY <1>2, <1>4 DEF ServiceSafe, FlightOK
  <2>2. 0 \in 0..Len(jt) /\ Len(c.trail) \in 0..Len(jt) /\ 0 + 1 = 1 /\ Len(c.trail) - 0 = Len(c.trail) /\ 0 + j = j
    BY <1>0, <1>6, <1>13
  <2>3. \A q \in 1..Len(c.trail) - 0 : SubSeq(jt, 0 + 1, Len(c.trail))[q] = jt[0 + q]
    BY <1>0, <2>2, PartOf
  <2>4. SubSeq(jt, 0 + 1, Len(c.trail))[j] = jt[0 + j]
    BY <1>13, <2>2, <2>3
  <2> QED BY <2>1, <2>2, <2>4
<1> HIDE DEF j, s, x, judgedAt, jt, n
<1>19. PICK d \in x.demands : d.deadline >= t /\ ~(d.deadline >= judgedAt) /\ s.ins \cap d.ins # {}
  <2>1. /\ ~CheckRecovery(s, x, t, "replay" = "admission" /\ s.kind >= Present)
        /\ CheckRecovery(s, x, judgedAt, "admission" = "admission" /\ s.kind >= Present)
    <3>1. CheckIssuance(s, x, judgedAt, {}) => CheckIssuance(s, x, t, {})
      BY DEF CheckIssuance
    <3>2. "replay" # "adoption" /\ "admission" # "adoption"
      OBVIOUS
    <3> QED BY <1>5, <1>12, <1>14, <3>1, <3>2, Zenon DEF Judged
  <2>2. CASE s.kind = Present
    BY <2>1, <2>2 DEF CheckRecovery, CheckDemand, Locked, Present, Withdraw, Settle, Spend, Burn
  <2>3. CASE s.kind = Settle
    BY <2>1, <2>3 DEF CheckRecovery, CheckSettlement, Locked, Present, Withdraw, Settle, Spend, Burn
  <2>4. CASE s.kind # Present /\ s.kind # Settle
    BY <2>1, <2>4 DEF CheckRecovery, Locked, Present, Withdraw, Settle, Spend, Burn
  <2> QED BY <2>2, <2>3, <2>4
<1>20. d \in journal.state.effective /\ d.kind = Present /\ d.deadline \in t..judgedAt - 1
  <2>1. d \in Demands
    BY <1>17 DEF PoolStates
  <2>2. d.deadline \in Int /\ d.kind = Present
    BY <2>1 DEF Demands
  <2>3. d \in journal.state.effective
    BY <1>17 DEF StoodUp
  <2> QED BY <1>0, <1>16, <1>19, <2>2, <2>3
<1>21. j \in DOMAIN c.trail
  BY <1>6, <1>13
<1> QED BY <1>18, <1>19, <1>20, <1>21 DEF LockEndsInLag, t

\* What has force is in the view, adopted or not.
LEMMA ForceStands == ServiceSafe => ForcedStands
<1> SUFFICES ASSUME ServiceSafe, NEW i \in DOMAIN forced PROVE forced[i].s \in View.effective
  BY DEF ForcedStands
<1> DEFINE A == Through(canon.adoption)
           n == Len(forced)
           e == SubSeq(forced, A + 1, n)
<1>0. canon.state \in PoolStates /\ forced \in Seq(Events) /\ n \in Nat /\ i \in 1..n
  BY DEF ServiceSafe, ServiceTypes
<1>1. A \in 0..n /\ View = ApplyAll(canon.state, e)
  BY Blocks DEF ServiceSafe
<1>2. forced[i].index <= canon.adoption \/ i > A
  <2>1. forced[i].index \in Nat /\ canon.adoption \in Nat
    <3>1. forced[i] \in Events
      BY <1>0
    <3> QED BY <3>1 DEF Events, ServiceSafe, ServiceTypes
  <2>2. i > A <=> forced[i].index > canon.adoption
    BY <1>0, ForceHeld DEF RecordedForce
  <2> QED BY <2>1, <2>2
<1>3. forced[i].s.kind >= Present /\ (forced[i].index <= canon.adoption => forced[i].s \in canon.state.effective)
  BY <1>0 DEF ServiceSafe, ForceOK
<1> HIDE DEF A
<1>4. e \in Seq(Events) /\ Len(e) = n - A /\ \A j \in 1..n - A : e[j] = forced[A + j]
  <2>1. n \in A..n
    BY <1>0, <1>1
  <2> QED BY <1>0, <1>1, <2>1, PartOf
<1> HIDE DEF e, n
<1>5. Grows(canon.state, View) /\ \A j \in 1..Len(e) : e[j].s.kind >= Present => e[j].s \in View.effective
  BY <1>0, <1>1, <1>4, AppliedKeeps
<1>6. CASE forced[i].index <= canon.adoption
  BY <1>3, <1>5, <1>6 DEF Grows
<1>7. CASE i > A
  <2>1. i - A \in 1..n - A /\ A + (i - A) = i
    BY <1>0, <1>1, <1>7
  <2> QED BY <1>3, <1>4, <1>5, <2>1
<1> QED BY <1>2, <1>6, <1>7

\* A checkpoint the venue witnesses within its lag is never lapsed by silence
\* (serviceClock of store.ts against the walk's silence boundary).
THEOREM OnTimeCounts == Spec => []OnTimeNeverLapsed
<1>1. ServiceSafe => OnTimeNeverLapsed
  BY NotLapsedOnTime
<1> QED BY <1>1, ServiceSound, PTL

\* The block a return's opening fixes is never refused by adopt().
THEOREM AdoptionSucceeds == Spec => []AdoptionNeverRefused
<1>1. ServiceSafe => AdoptionNeverRefused
  <2> SUFFICES ASSUME ServiceSafe, Adoptable PROVE Adoption.ok
    BY DEF AdoptionNeverRefused
  <2>1. canon.trail = <<>> /\ canon.state = journal.state
    BY DEF Adoptable, Held, ServiceSafe, JournalOK
  <2> QED BY <2>1, BlockAdopts DEF Adoption
<1> QED BY <1>1, ServiceSound, PTL

\* What was forced stays in effect across returns, late checkpoints and adoptions.
THEOREM ForceIsFinal == Spec => []ForcedStands
<1>1. ServiceSafe => ForcedStands
  BY ForceStands
<1> QED BY <1>1, ServiceSound, PTL

\* Of what the operator signs, the reader excludes nothing but for a lock that
\* ended between a witnessing and the horizon a record was admitted at.
THEOREM ExclusionNeedsALock == Spec => []ExcludedOnlyByLock
<1>1. ServiceSafe => ExcludedOnlyByLock
  BY ExcludedByLock
<1> QED BY <1>1, ServiceSound, PTL

\* At a lag of one index no lock can end in between: an honest history stays
\* replayable (docs/PROTOCOL_RULES.md), whatever the other constants are.
THEOREM ReplayableAtLagOne ==
  ASSUME Lag = 1
  PROVE  Spec => []HonestHistoryReplayable
<1>1. ServiceSafe => HonestHistoryReplayable
  <2> SUFFICES ASSUME ServiceSafe, NEW c \in flight, Class(c, now + 1) = "excluded" PROVE FALSE
    BY DEF HonestHistoryReplayable
  <2>0. now \in Nat /\ c \in Checkpoints
    BY DEF ServiceSafe, ServiceTypes
  <2>1. LockEndsInLag(c, now + 1)
    BY ExcludedByLock DEF ExcludedOnlyByLock
  <2>2. PICK i \in DOMAIN c.trail : \E d \in journal.state.effective : d.deadline \in now + 1 .. c.trail[i].index - 1
    BY <2>1 DEF LockEndsInLag
  <2>3. c.trail \in Seq(Events) /\ c.at \in Nat
    BY <2>0 DEF Checkpoints
  <2>4. i \in 1..Len(c.trail) /\ c.trail[i] \in Events
    BY <2>2, <2>3
  <2>5. c.trail[i].index \in Nat
    BY <2>4 DEF Events
  <2>6. c \in Continuations
    <3>1. ~Opens(c)
      <4> SUFFICES ASSUME Opens(c) PROVE FALSE
        OBVIOUS
      <4>1. journal.pending /\ c = journal.last /\ latest < journal.last.seq
        BY DEF Opens, ServiceSafe, FlightOK
      <4>2. c.parent = canon.seq
        BY <4>1 DEF ServiceSafe, JournalOK
      <4> QED BY <4>2 DEF Class, Lapses
    <3> QED BY <3>1 DEF Opens, Continuations, Awaited
  <2>7. c.trail[i].index <= c.at + 1 /\ c.at <= now
    BY <2>4, <2>6 DEF ServiceSafe, FlightOK
  <2> QED BY <2>0, <2>2, <2>3, <2>5, <2>7
<1> QED BY <1>1, ServiceSound, PTL

\* What is final is what the operator holds: its trail continues the canonical
\* one and its state follows from the reader's own by the records after it, or
\* its return stands on the last valid checkpoint until it is witnessed.
THEOREM FinalStaysHeld == Spec => []FinalIsHeld
<1>1. ASSUME ServiceSafe, canon.seg # journal.seg
      PROVE  /\ journal.pending /\ journal.last.parent = canon.seq
             /\ journal.seg = canon.seg + 1 /\ journal.state = OpenSegmentState(canon.state)
  <2>1. journal.pending /\ latest < journal.last.seq
    BY <1>1 DEF ServiceSafe, ServiceTypes, JournalOK, Checkpoints
  <2> QED BY <1>1, <2>1 DEF ServiceSafe, JournalOK
<1>2. ASSUME ServiceSafe, canon.seg = journal.seg
      PROVE  /\ IsPrefix(canon.trail, journal.trail)
             /\ journal.state = ApplyAll(canon.state,
                  SubSeq(journal.trail, Len(canon.trail) + 1, Len(journal.trail)))
  <2>0. canon.trail \in Seq(Events) /\ journal.trail \in Seq(Events) /\ canon.state \in PoolStates
    BY <1>2 DEF ServiceSafe, ServiceTypes
  <2>1. CASE journal.pending
    <3>1. journal.trail = <<>> /\ canon.trail = <<>> /\ canon.state = journal.state
      <4>1. canon.seg \in Nat /\ latest \in Nat /\ journal.last.seq \in Nat
        BY <1>2 DEF ServiceSafe, ServiceTypes, Checkpoints
      <4> QED BY <1>2, <2>1, <4>1 DEF ServiceSafe, JournalOK
    <3>2. IsPrefix(canon.trail, journal.trail)
      BY <3>1 DEF IsPrefix
    <3>3. SubSeq(journal.trail, Len(canon.trail) + 1, Len(journal.trail)) = <<>>
      BY <3>1
    <3> QED BY <2>0, <3>1, <3>2, <3>3, AppliedStep
  <2>2. CASE ~journal.pending
    <3> DEFINE n == Len(canon.trail)
               m == Len(journal.trail)
    <3>1. /\ n + Len(Adopted) <= m /\ canon.trail = SubSeq(journal.trail, 1, n)
          /\ journal.state = ApplyAll(canon.state, SubSeq(journal.trail, n + 1, (m + 1) - 1))
      BY <1>2, <2>2 DEF ServiceSafe, TrailOK, AdmittedOver
    <3>2. n \in Nat /\ m \in Nat /\ n <= m /\ (m + 1) - 1 = m
      BY <2>0, <3>1
    <3>3. IsPrefix(canon.trail, journal.trail)
      BY <2>0, <3>1, <3>2 DEF IsPrefix
    <3> QED BY <3>1, <3>2, <3>3
  <2> QED BY <2>1, <2>2
<1>3. ServiceSafe => FinalIsHeld
  BY <1>1, <1>2 DEF FinalIsHeld
<1> QED BY <1>3, ServiceSound, PTL

-----------------------------------------------------------------------------
\* The locks of a state that run through an index: their notes exist, unspent,
\* and no note is locked twice.
Locks(x, judgedAt) ==
  \A d, e \in x.demands :
     /\ d.deadline >= judgedAt => d.ins \subseteq x.outputs \ x.spent
     /\ d # e /\ d.deadline >= judgedAt /\ e.deadline >= judgedAt => d.ins \cap e.ins = {}

\* What a record's judgement says of the locks that run through an index.
Lawful(s, x, judgedAt) ==
  /\ s.ins \subseteq x.outputs
  /\ s.kind = Present => \A n \in s.ins : n \notin x.spent /\ ~Locked(x, n, judgedAt, {})
  /\ s.kind = Settle => \A d \in s.ended : \A n \in s.ins : ~Locked(x, n, judgedAt, {d})
  /\ s.kind \in {Spend, Burn} => \A n \in s.ins : ~Locked(x, n, judgedAt, {})

\* CheckRecovery at an index speaks of every later one.
LEMMA JudgedLawful ==
  ASSUME NEW s \in PoolStatements, NEW x \in PoolStates, NEW f \in Int, NEW judgedAt \in Int, f <= judgedAt,
         s.ins \subseteq x.outputs, NEW door, CheckRecovery(s, x, f, door)
  PROVE  Lawful(s, x, judgedAt)
<1>1. \A d \in x.demands : d.deadline \in Int
  BY DEF PoolStates, Demands
<1>2. \A n, except : Locked(x, n, judgedAt, except) => Locked(x, n, f, except)
  BY <1>1 DEF Locked
<1> QED BY <1>2 DEF Lawful, CheckRecovery, CheckDemand, CheckSettlement

\* One record, judged, keeps the locks exclusive (applyJudged).
LEMMA ApplyLocks ==
  ASSUME NEW s \in PoolStatements, NEW x \in PoolStates, NEW judgedAt \in Int, Locks(x, judgedAt), Lawful(s, x, judgedAt)
  PROVE  Locks(Apply(s, x), judgedAt)
<1> DEFINE y == Apply(s, x)
<1>1. /\ y.demands = (x.demands \ s.ended) \cup StoodUpBy(s)
      /\ y.outputs = x.outputs \cup s.outs /\ y.spent = x.spent \cup Nullifiers(s)
  BY DEF Apply, EndedBy
<1> HIDE DEF y
<1>2. CASE s.kind = Present
  <2>1. y.demands = (x.demands \ s.ended) \cup {s} /\ y.spent = x.spent
    BY <1>1, <1>2 DEF StoodUpBy, Nullifiers, Present, Spend, Burn, Settle
  <2>2. \A d \in x.demands : d.deadline >= judgedAt => d.ins \cap s.ins = {}
    BY <1>2 DEF Lawful, Locked
  <2>3. s.ins \subseteq x.outputs \ x.spent
    BY <1>2 DEF Lawful
  <2>4. SUFFICES ASSUME NEW d \in y.demands, NEW e \in y.demands
                 PROVE  /\ d.deadline >= judgedAt => d.ins \subseteq y.outputs \ y.spent
                        /\ d # e /\ d.deadline >= judgedAt /\ e.deadline >= judgedAt => d.ins \cap e.ins = {}
    BY DEF Locks, y
  <2>5. d.deadline >= judgedAt => d.ins \subseteq y.outputs \ y.spent
    <3>1. CASE d = s
      BY <1>1, <2>1, <2>3, <3>1
    <3>2. CASE d # s
      BY <1>1, <2>1, <3>2 DEF Locks
    <3> QED BY <3>1, <3>2
  <2>6. d # e /\ d.deadline >= judgedAt /\ e.deadline >= judgedAt => d.ins \cap e.ins = {}
    <3>1. CASE d = s
      BY <2>1, <2>2, <3>1
    <3>2. CASE e = s
      BY <2>1, <2>2, <3>2
    <3>3. CASE d # s /\ e # s
      BY <2>1, <3>3 DEF Locks
    <3> QED BY <3>1, <3>2, <3>3
  <2> QED BY <2>5, <2>6
<1>3. CASE s.kind # Present
  <2>1. y.demands = x.demands \ s.ended
    BY <1>1, <1>3 DEF StoodUpBy
  <2>2. \A d \in x.demands \ s.ended : d.deadline >= judgedAt => d.ins \cap Nullifiers(s) = {}
    <3> SUFFICES ASSUME NEW d \in x.demands \ s.ended, d.deadline >= judgedAt, NEW n \in Nullifiers(s), n \in d.ins
                 PROVE  FALSE
      OBVIOUS
    <3>1. s.kind \in {Spend, Burn, Settle} /\ n \in s.ins
      BY DEF Nullifiers
    <3>2. CASE s.kind \in {Spend, Burn}
      <4>1. ~Locked(x, n, judgedAt, {})
        BY <3>1, <3>2 DEF Lawful
      <4> QED BY <4>1 DEF Locked
    <3>3. CASE s.kind = Settle
      <4>1. PICK g \in Demands : s.ended = {g}
        BY <3>3 DEF PoolStatements
      <4>2. ~Locked(x, n, judgedAt, {g})
        BY <3>1, <3>3, <4>1 DEF Lawful
      <4> QED BY <4>1, <4>2 DEF Locked
    <3> QED BY <3>1, <3>2, <3>3
  <2> QED BY <1>1, <2>1, <2>2 DEF Locks, y
<1> QED BY <1>2, <1>3

\* A state whose locks hold through an index and in which no value was made or
\* lost, and a record that keeps both.
Sound(x, judgedAt) == Locks(x, judgedAt) /\ Conserves(x)

Fair(s, x, judgedAt) == Lawful(s, x, judgedAt) /\ Balances(s, x)

\* What a judged record's kind leaves empty, and what its checks say of value.
LEMMA JudgedBalances ==
  ASSUME NEW s \in PoolStatements, NEW x \in PoolStates,
         s.ins \subseteq x.outputs, Proved(s), CheckUniqueEffects(s, x)
  PROVE  Balances(s, x)
<1>1. s.kind \in {Present, Withdraw} => s.outs = {}
  BY DEF PoolStatements, Demands
<1> QED BY <1>1 DEF Balances

\* One record keeps both (applyJudged).
LEMMA ApplySound ==
  ASSUME NEW s \in PoolStatements, NEW x \in PoolStates, NEW judgedAt \in Int, Sound(x, judgedAt), Fair(s, x, judgedAt)
  PROVE  Sound(Apply(s, x), judgedAt)
<1>1. Locks(Apply(s, x), judgedAt)
  BY ApplyLocks DEF Sound, Fair
<1>2. /\ s.ins \in SUBSET Notes /\ s.outs \in SUBSET Notes /\ s.quantity \in Nat
      /\ s.kind \in Issue..Settle
      /\ x.outputs \in SUBSET Notes /\ x.issued \in Int /\ x.burned \in Int
  BY DEF PoolStatements, PoolStates
<1>3. Conserves(Apply(s, x))
  BY <1>2, ApplyConserves DEF Sound, Fair
<1> QED BY <1>1, <1>3 DEF Sound

\* Records applied in turn, each fair over the state before it.
LEMMA RunSound ==
  ASSUME NEW st \in PoolStates, NEW events \in Seq(Events), NEW judgedAt \in Int, Sound(st, judgedAt),
         \A i \in 1..Len(events) : Fair(events[i].s, StateAt(st, events, i), judgedAt)
  PROVE  Sound(ApplyAll(st, events), judgedAt)
<1> DEFINE n == Len(events)
           X(k) == ApplyAll(st, SubSeq(events, 1, k))
           S == {k \in 0..n : Sound(X(k), judgedAt)}
<1>0. n \in Nat
  OBVIOUS
<1>1. 0 \in S
  <2>1. SubSeq(events, 1, 0) = <<>> /\ ApplyAll(st, <<>>) = st
    BY AppliedStep
  <2>2. Sound(X(0), judgedAt)
    BY <2>1
  <2> HIDE DEF X, n
  <2> QED BY <1>0, <2>2
<1>2. \A k \in 0..n - 1 : k \in S => k + 1 \in S
  <2> SUFFICES ASSUME NEW k \in 0..n - 1, Sound(X(k), judgedAt) PROVE Sound(X(k + 1), judgedAt)
    BY <1>0
  <2>1. k + 1 \in 1..Len(events) /\ (k + 1) - 1 = k
    BY <1>0
  <2>2. X(k + 1) = Apply(events[k + 1].s, ApplyAll(st, SubSeq(events, 1, (k + 1) - 1)))
    BY <2>1, AppliedStep
  <2>3. X(k + 1) = Apply(events[k + 1].s, X(k))
    BY <2>1, <2>2
  <2>4. Fair(events[k + 1].s, X(k), judgedAt)
    BY <2>1 DEF StateAt
  <2>5. events[k + 1].s \in PoolStatements
    <3>1. events[k + 1] \in Events
      BY <2>1
    <3> QED BY <3>1 DEF Events
  <2>6. X(k) \in PoolStates
    <3>1. SubSeq(events, 1, k) \in Seq(Events)
      BY <2>1
    <3> QED BY <3>1, AppliedTyped
  <2> HIDE DEF X
  <2> QED BY <2>3, <2>4, <2>5, <2>6, ApplySound
<1>3. 0..n \subseteq S
  <2> HIDE DEF S, n
  <2> QED BY <1>0, <1>1, <1>2, Counting
<1>4. Sound(X(n), judgedAt)
  <2>1. n \in S
    <3> HIDE DEF S, n
    <3> QED BY <1>0, <1>3
  <2> QED BY <2>1
<1>5. SubSeq(events, 1, n) = events
  OBVIOUS
<1> QED BY <1>4, <1>5

\* The force over a snapshot keeps it sound, through any of it.
LEMMA ForceSound ==
  ASSUME ServiceSafe, Sound(canon.state, now), NEW m \in Through(canon.adoption)..Len(forced)
  PROVE  Sound(ApplyAll(canon.state, SubSeq(forced, Through(canon.adoption) + 1, m)), now)
<1> DEFINE A == Through(canon.adoption)
           n == Len(forced)
           e == SubSeq(forced, A + 1, m)
<1>0. canon.state \in PoolStates /\ forced \in Seq(Events) /\ n \in Nat /\ now \in Nat
  BY DEF ServiceSafe, ServiceTypes
<1>1. A \in 0..n
  BY Blocks DEF ServiceSafe
<1>2. \A i \in 1..n : i > A => CanForce(forced[i], ForcedOver(i)) /\ forced[i].index <= now
  BY ForceHeld DEF RecordedForce, ForcedOver, ServiceSafe, ForceOK
<1> HIDE DEF A
<1>3. e \in Seq(Events) /\ Len(e) = m - A /\ \A i \in 1..m - A : e[i] = forced[A + i]
  <2>1. A \in 0..Len(forced) /\ m \in A..Len(forced)
    BY <1>1 DEF A
  <2> QED BY <1>0, <2>1, PartOf
<1>4. ASSUME NEW i \in 1..m - A PROVE Fair(e[i].s, StateAt(canon.state, e, i), now)
  <2>1. /\ A + i \in 1..n /\ A + i > A /\ i - 1 \in 0..m - A /\ 0 \in 0..m - A /\ i - 1 \in 0..(m - A)
        /\ A + 0 + 1 = A + 1 /\ 0 + 1 = 1 /\ (A + i) - 1 = A + (i - 1)
        /\ A \in 0..Len(forced) /\ m \in A..Len(forced) /\ (A + i) - 1 \in A..Len(forced)
    BY <1>0, <1>1 DEF A
  <2>2. SubSeq(e, 0 + 1, i - 1) = SubSeq(forced, A + 0 + 1, A + (i - 1))
    BY <1>0, <2>1, PartOfPart
  <2> DEFINE x == StateAt(canon.state, e, i)
  <2>3. x = ApplyAll(canon.state, SubSeq(e, 1, i - 1))
    BY DEF StateAt
  <2>4. ForcedOver(A + i) = ApplyAll(canon.state, SubSeq(forced, A + 1, (A + i) - 1))
    BY DEF ForcedOver, A
  <2> HIDE DEF e, x
  <2>5. x = ForcedOver(A + i)
    BY <2>1, <2>2, <2>3, <2>4
  <2>6. CanForce(e[i], x) /\ e[i].index <= now
    BY <1>2, <1>3, <2>1, <2>5
  <2>7. x \in PoolStates
    <3>1. ApplyAll(canon.state, SubSeq(forced, A + 1, (A + i) - 1)) \in PoolStates
      BY <1>0, <2>1, AppliedPart
    <3> QED BY <2>4, <2>5, <3>1
  <2>8. e[i].s \in PoolStatements /\ e[i].index \in Nat
    <3>1. e[i] \in Events
      BY <1>3
    <3> QED BY <3>1 DEF Events
  <2>9. e[i].s.ins \subseteq x.outputs /\ CheckRecovery(e[i].s, x, e[i].index, TRUE)
        /\ Proved(e[i].s) /\ CheckUniqueEffects(e[i].s, x)
    BY <2>6 DEF CanForce
  <2> DEFINE s == e[i].s
             f == e[i].index
  <2>10. s \in PoolStatements /\ f \in Int /\ now \in Int /\ f <= now
    BY <1>0, <2>6, <2>8
  <2>11. s.ins \subseteq x.outputs /\ CheckRecovery(s, x, f, TRUE)
         /\ Proved(s) /\ CheckUniqueEffects(s, x)
    BY <2>9, Zenon
  <2> HIDE DEF s, f
  <2>12. Lawful(s, x, now)
    BY <2>7, <2>10, <2>11, JudgedLawful
  <2>13. Balances(s, x)
    BY <2>7, <2>10, <2>11, JudgedBalances
  <2> QED BY <2>12, <2>13 DEF Fair, x, s
<1> HIDE DEF e
<1>5. \A i \in 1..Len(e) : Fair(e[i].s, StateAt(canon.state, e, i), now)
  BY <1>3, <1>4
<1>6. Sound(ApplyAll(canon.state, e), now)
  BY <1>0, <1>3, <1>5, RunSound
<1> QED BY <1>6 DEF e, A

\* A snapshot is sound at every index the reader may read it at.
LEMMA SnapshotSound ==
  ASSUME ServiceSafe, Sound(canon.state, now),
         NEW published \in {{}} \cup {{s} : s \in Recoveries(canon.seg, View)},
         NEW landed \in {{}} \cup {{c} : c \in flight}, Tick(published, landed)
  PROVE  Sound(canon'.state, now + 1)
<1> DEFINE t == now + 1
<1>0. now \in Nat /\ t \in Nat /\ canon.state \in PoolStates /\ canon.trail \in Seq(Events)
  BY DEF ServiceSafe, ServiceTypes
<1>1. \A x \in PoolStates : Sound(x, now) => Sound(x, t)
  <2> SUFFICES ASSUME NEW x \in PoolStates, Sound(x, now) PROVE Sound(x, t)
    OBVIOUS
  <2>1. \A d \in x.demands : d.deadline \in Int
    BY DEF PoolStates, Demands
  <2>2. \A d \in x.demands : d.deadline >= t => d.deadline >= now
    BY <1>0, <2>1
  <2> HIDE DEF t
  <2> QED BY <2>2 DEF Sound, Locks
<1>2. CASE Quiet
  BY <1>0, <1>1, <1>2 DEF Quiet
<1>3. CASE Opening
  <2>1. canon'.state = OpenSegmentState(canon.state)
    BY <1>3 DEF Opening, OpenedBy
  <2>2. /\ canon'.state.demands = canon.state.demands /\ canon'.state.outputs = canon.state.outputs
        /\ canon'.state.spent = canon.state.spent
        /\ canon'.state.issued = canon.state.issued /\ canon'.state.burned = canon.state.burned
    BY <1>0, <2>1 DEF OpenSegmentState, PoolStates
  <2> HIDE DEF t
  <2>3. Conserves(canon'.state)
    BY <2>2 DEF Sound, Conserves
  <2>4. Locks(canon'.state, t)
    BY <1>0, <1>1, <2>2 DEF Sound, Locks
  <2> QED BY <2>3, <2>4 DEF Sound, t
<1>4. CASE \E c \in flight : Continuing(c)
  <2>1. PICK c \in flight : Continuing(c)
    BY <1>4
  <2>2. /\ c \in Continuations /\ InActive(c) /\ ReplayTrail(c, t).ok
        /\ canon'.state = ReplayTrail(c, t).state
    BY <2>1 DEF Continuing, ContinuedBy
  <2> DEFINE over == ApplyAll(canon.state, Adopted)
             judged == JudgedAt(After(c), t)
  <2>3. /\ Replayed(over, c.seg, judged, "replay").ok
        /\ ReplayTrail(c, t).state = ApplyAll(over, judged)
    BY <2>2 DEF ReplayTrail, Replayed, After, Adopted
  <2>4. over \in PoolStates /\ Sound(over, now)
    <3>1. CASE canon.trail = <<>>
      <4>1. /\ over = ApplyAll(canon.state, SubSeq(forced, Through(canon.adoption) + 1, Through(canon.opened)))
            /\ Adopted \in Seq(Events)
        BY <3>1, Blocks DEF Adopted, Block, ForcedIn, ServiceSafe
      <4>2. Through(canon.opened) \in Through(canon.adoption)..Len(forced)
        BY Blocks DEF ServiceSafe
      <4> QED BY <1>0, <4>1, <4>2, ForceSound, AppliedTyped
    <3>2. CASE canon.trail # <<>>
      <4>1. over = ApplyAll(canon.state, <<>>) /\ <<>> \in Seq(Events)
        BY <3>2 DEF Adopted
      <4>2. over = canon.state
        BY <1>0, <4>1, AppliedStep
      <4> QED BY <1>0, <4>2
    <3> QED BY <3>1, <3>2
  <2> HIDE DEF over
  <2>5. judged \in Seq(Events) /\ \A i \in 1..Len(judged) : judged[i].index = t
    <3>1. After(c) \in Seq(Events)
      BY <1>0, <2>2, Replays
    <3>2. Len(After(c)) \in Nat /\ DOMAIN After(c) = 1..Len(After(c))
      BY <3>1
    <3>3. \A i \in 1..Len(After(c)) : After(c)[i].s \in PoolStatements
      <4> TAKE i \in 1..Len(After(c))
      <4>1. After(c)[i] \in Events
        BY <3>1
      <4> QED BY <4>1 DEF Events
    <3>4. judged = [i \in 1..Len(After(c)) |-> [s |-> After(c)[i].s, index |-> t]]
      BY <3>2 DEF JudgedAt, Event
    <3> HIDE DEF judged, t
    <3>5. judged \in [1..Len(After(c)) -> Events]
      BY <1>0, <3>3, <3>4 DEF Events
    <3>6. judged \in Seq(Events)
      BY <3>2, <3>5, SeqDef
    <3> QED BY <3>4, <3>5, <3>6
  <2> HIDE DEF judged
  <2>6. ASSUME NEW i \in 1..Len(judged) PROVE Fair(judged[i].s, StateAt(over, judged, i), t)
    <3> DEFINE x == StateAt(over, judged, i)
    <3>1. x \in PoolStates
      <4>1. SubSeq(judged, 1, i - 1) \in Seq(Events)
        BY <2>5
      <4> QED BY <2>4, <4>1, AppliedTyped DEF StateAt
    <3>2. judged[i].s \in PoolStatements
      <4>1. judged[i] \in Events
        BY <2>5
      <4> QED BY <4>1 DEF Events
    <3>3. Judged(judged[i].s, x, c.seg, "replay", t, {})
      BY <2>3, <2>5 DEF Replayed
    <3> HIDE DEF x, t
    <3>4. judged[i].s.ins \subseteq x.outputs /\ Proved(judged[i].s) /\ CheckUniqueEffects(judged[i].s, x)
          /\ CheckRecovery(judged[i].s, x, t, "replay" = "admission" /\ judged[i].s.kind >= Present)
      <4>1. "replay" # "adoption"
        OBVIOUS
      <4> QED BY <3>3, <4>1, Zenon DEF Judged, CheckInputs
    <3>5. t \in Int /\ t <= t
      BY <1>0
    <3>6. Lawful(judged[i].s, x, t)
      BY <3>1, <3>2, <3>4, <3>5, JudgedLawful
    <3>7. Balances(judged[i].s, x)
      BY <3>1, <3>2, <3>4, JudgedBalances
    <3> QED BY <3>6, <3>7 DEF Fair, x
  <2>7. Sound(over, t) /\ t \in Int
    BY <1>0, <1>1, <2>4
  <2> HIDE DEF t
  <2>8. Sound(ApplyAll(over, judged), t)
    BY <2>4, <2>5, <2>6, <2>7, RunSound
  <2> QED BY <2>2, <2>3, <2>8 DEF t
<1> QED BY <1>2, <1>3, <1>4, TickCases

\* A reader's view is sound: no note is claimed twice and no value is made or
\* lost, the force over its snapshot included (classifyCommitment's replays and
\* resolvePublicationForce together).
THEOREM ViewsStand == Spec => [](ViewConserves /\ ViewLocksExclusive)
<1>1. Init => Sound(canon.state, now)
  <2> SUFFICES ASSUME Init PROVE Sound(canon.state, now)
    OBVIOUS
  <2>1. canon.state = GenesisState
    BY DEF Init
  <2>2. Worth({}) = 0
    BY WorthStep
  <2>3. GenesisState.outputs \ GenesisState.spent = {}
    BY DEF GenesisState
  <2> QED BY <2>1, <2>2, <2>3 DEF GenesisState, Sound, Locks, Conserves
<1>2. ServiceSafe /\ Sound(canon.state, now) /\ [Next]_vars => (Sound(canon.state, now))'
  <2> SUFFICES ASSUME ServiceSafe, Sound(canon.state, now), [Next]_vars PROVE (Sound(canon.state, now))'
    OBVIOUS
  <2>1. CASE VenueAdvances
    <3>1. PICK published \in {{}} \cup {{s} : s \in Recoveries(canon.seg, View)},
               landed \in {{}} \cup {{c} : c \in flight} : Tick(published, landed)
      BY <2>1 DEF VenueAdvances
    <3>2. Sound(canon'.state, now + 1) /\ now' = now + 1
      BY <3>1, SnapshotSound DEF Tick
    <3> QED BY <3>2 DEF Sound, Locks, Conserves
  <2>2. CASE UNCHANGED <<now, canon>>
    BY <2>2 DEF Sound, Locks, Conserves
  <2> QED BY <2>1, <2>2 DEF Next, vars, Submits, Submit, Commit, Publish, Return, Adopt
<1>3. ServiceSafe /\ Sound(canon.state, now) => ViewConserves /\ ViewLocksExclusive
  <2> SUFFICES ASSUME ServiceSafe, Sound(canon.state, now) PROVE ViewConserves /\ ViewLocksExclusive
    OBVIOUS
  <2>1. Through(canon.adoption) \in 0..Len(forced) /\ Len(forced) \in Nat
        /\ View = ApplyAll(canon.state, SubSeq(forced, Through(canon.adoption) + 1, Len(forced)))
    BY Blocks DEF ServiceSafe, ServiceTypes
  <2>2. Len(forced) \in Through(canon.adoption)..Len(forced)
    BY <2>1
  <2>3. Sound(View, now)
    BY <2>1, <2>2, ForceSound
  <2> HIDE DEF View
  <2> QED BY <2>3 DEF Sound, Locks, Conserves, ViewConserves, ViewLocksExclusive
<1>4. Spec => []ServiceSafe
  BY ServiceSound
<1> QED BY <1>1, <1>2, <1>3, <1>4, PTL DEF Spec
=============================================================================
