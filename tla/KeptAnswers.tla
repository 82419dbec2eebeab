----------------------------- MODULE KeptAnswers -----------------------------
(* A reader's kept answers (keptAnswers in src/pool/v3/reader.ts, the answer *)
(* tables of src/pool/v3/replay-store.ts): each kind of record of a subject  *)
(* is read from the venue once, window by window, kept through the index it  *)
(* was read to and extended past it by a later read. The records are those   *)
(* that decode, name the subject and verify; one subject of each kind.       *)
(* Publications are kept as they are read and left out. A read that fails is *)
(* rolled back to the answer kept before it.                                 *)
EXTENDS Integers, FiniteSets, FiniteSetsExt

CONSTANTS
  Absent,      \* no kept answer, no revocation, no session, no bound: no number
  MaxClock,    \* bound on the venue's clock
  Sequences,   \* the sequences a commitment may carry, from 1
  Roots,       \* commitments of one sequence, numbered by the order of their bytes
  Identities,  \* the replacement records
  MaxRecords   \* bound on the records of one view

ASSUME KeptAssumption ==
  /\ Absent \notin Int /\ MaxClock \in Nat
  /\ IsFiniteSet(Sequences) /\ Sequences \subseteq Nat \ {0} /\ Roots \subseteq Nat

VARIABLES
  clock,        \* the view's witnessed index
  commitments,  \* the view's records by index, kind 1
  replacements, \* kind 2
  revocations,  \* kind 3: the indices of the obligor's revocations
  held,         \* kept held commitments: through, highest sequence and rows
  admitted,     \* kept replacements: through and rows at first witnessing
  revoked,      \* kept revocation: through and the index found
  session       \* the judging index of the open read, or Absent

view  == <<clock, commitments, replacements, revocations>>
store == <<held, admitted, revoked>>
kept  == <<view, store, session>>

NothingHeld     == [through |-> Absent, highest |-> 0, rows |-> {}]
NothingAdmitted == [through |-> Absent, rows |-> {}]
NothingRevoked  == [through |-> Absent, value |-> Absent]

HeldRow   == [index : 0..MaxClock, sequence : Sequences, root : Roots]
Admission == [index : 0..MaxClock, identity : Identities]

\* The indices kept answers were read through.
AnswersThrough == {held.through, admitted.through, revoked.through} \ {Absent}

Behind == \E seen \in AnswersThrough : clock < seen

\* Views hold records at final indices; answers are rows and the index read
\* to, none ahead of the view of an open read.
KeptTypeOK ==
  /\ clock \in 0..MaxClock
  /\ commitments \subseteq HeldRow /\ replacements \subseteq Admission
  /\ revocations \subseteq 0..clock
  /\ \A r \in commitments \cup replacements : r.index <= clock
  /\ held \in [through : 0..MaxClock \cup {Absent}, highest : Sequences \cup {0}, rows : SUBSET HeldRow]
  /\ admitted \in [through : 0..MaxClock \cup {Absent}, rows : SUBSET Admission]
  /\ revoked \in [through : 0..MaxClock \cup {Absent}, value : 0..MaxClock \cup {Absent}]
  /\ session \in 0..MaxClock \cup {Absent}
  /\ session # Absent => ~Behind

KeptInit ==
  /\ clock = 0 /\ commitments = {} /\ replacements = {} /\ revocations = {}
  /\ held = NothingHeld /\ admitted = NothingAdmitted /\ revoked = NothingRevoked
  /\ session = Absent

-----------------------------------------------------------------------------
\* The held commitments of one index above a sequence, one row a sequence.
HeldAt(i, highest) ==
  {c \in commitments :
     /\ c.index = i /\ c.sequence > highest
     /\ \A twin \in commitments :
          twin.index = i /\ twin.sequence = c.sequence => c.root <= twin.root}

\* heldCommitments over one answer [from, to], given the highest sequence held
\* before it: the rows found, and the next answer's prior.
HeldCommitments(from, to, prior) ==
  LET through[i \in (from - 1)..to] ==
        IF i < from THEN [rows |-> {}, highest |-> prior] ELSE
        LET before == through[i - 1]
            here   == HeldAt(i, before.highest)
        IN  [rows    |-> before.rows \cup here,
             highest |-> Max({before.highest} \cup {c.sequence : c \in here})]
  IN  through[to]

\* Mutation: every window starts again from the kept answer's highest.
HeldWindowsFromKept(from, ends, prior) ==
  LET window[e \in {from - 1} \cup ends] ==
        IF e < from THEN [rows |-> {}, highest |-> prior] ELSE
        LET last == Max({f \in {from - 1} \cup ends : f < e})
            read == HeldCommitments(last + 1, e, prior)
        IN  [rows |-> window[last].rows \cup read.rows, highest |-> read.highest]
  IN  window[Max(ends)]

\* The windows of one read, each by its last index, the prior carried from one
\* to the next.
HeldWindows(from, ends, prior) ==
  LET window[e \in {from - 1} \cup ends] ==
        IF e < from THEN [rows |-> {}, highest |-> prior] ELSE
        LET last == Max({f \in {from - 1} \cup ends : f < e})
            read == HeldCommitments(last + 1, e, window[last].highest)
        IN  [rows |-> window[last].rows \cup read.rows, highest |-> read.highest]
  IN  window[Max(ends)]

\* The first index a read of an answer asks for.
From(through) == IF through = Absent THEN 0 ELSE through + 1

Extends(through) == through # Absent => through < session

\* readWindows halves a window over the reader's budget and doubles it after
\* one that fits: any partition of [from, t] may be read.
Windows(from) == {ends \in SUBSET (from..session) : session \in ends}

ReadHeld ==
  /\ session # Absent /\ Extends(held.through)
  /\ \E ends \in Windows(From(held.through)) :
       LET read == HeldWindows(From(held.through), ends, held.highest)
       IN  held' = [through |-> session, highest |-> read.highest,
                    rows    |-> held.rows \cup read.rows]
  /\ UNCHANGED <<view, admitted, revoked, session>>

FirstWitnessing(id, from, to) ==
  Min({r.index : r \in {q \in replacements : q.identity = id /\ q.index \in from..to}})

WitnessedIn(from, to) == {r.identity : r \in {q \in replacements : q.index \in from..to}}

\* putReplacement keeps a row at its first witnessing only.
PutReplacements(from, to) ==
  admitted.rows \cup
  {[index |-> FirstWitnessing(id, from, to), identity |-> id] :
     id \in WitnessedIn(from, to) \ {r.identity : r \in admitted.rows}}

ReadReplacements ==
  /\ session # Absent /\ Extends(admitted.through)
  /\ admitted' = [through |-> session,
                  rows    |-> PutReplacements(From(admitted.through), session)]
  /\ UNCHANGED <<view, held, revoked, session>>

\* The first revocation decides every later index: it is not read past.
ReadRevocation ==
  /\ session # Absent /\ Extends(revoked.through) /\ revoked.value = Absent
  /\ LET found == revocations \cap From(revoked.through)..session
     IN  revoked' = [through |-> session,
                     value   |-> IF found = {} THEN Absent ELSE Min(found)]
  /\ UNCHANGED <<view, held, admitted, session>>

\* The revocation a read at its judging index is given.
RevocationAt(t) ==
  IF revoked.value # Absent /\ revoked.value <= t THEN revoked.value ELSE Absent

\* Rows in the order the record holds them, by index and then by sequence.
Earlier(r, s) == r.index < s.index \/ (r.index = s.index /\ r.sequence < s.sequence)

FirstRow(rows) == IF rows = {} THEN Absent ELSE CHOOSE r \in rows : \A s \in rows : r = s \/ Earlier(r, s)

LastRow(rows) == IF rows = {} THEN Absent ELSE CHOOSE r \in rows : \A s \in rows : r = s \/ Earlier(s, r)

Rows(t) == {r \in held.rows : r.index <= t}

\* The next kept row at or past an index and above a sequence: asked by the
\* sequence, and by the index alone where that row lies before it.
NextHeld(fromIndex, after, t) ==
  LET byIndex == FirstRow({r \in Rows(t) : r.index >= fromIndex})
      rows    == {r \in Rows(t) : r.sequence > after}
      next    == CHOOSE r \in rows : \A s \in rows : r.sequence <= s.sequence
  IN  IF after = Absent THEN byIndex
      ELSE IF rows = {} THEN Absent
      ELSE IF next.index >= fromIndex THEN next ELSE byIndex

PreviousHeld(toIndex, before, t) ==
  LET bound == IF toIndex < t THEN toIndex ELSE t
      rows  == {r \in Rows(bound) : r.sequence < before}
  IN  IF before = Absent THEN LastRow(Rows(bound))
      ELSE IF rows = {} THEN Absent
      ELSE CHOOSE r \in rows : \A s \in rows : s.sequence <= r.sequence

-----------------------------------------------------------------------------
\* A view whose clock is behind what was kept is not the view it was read from.
DiscardKeptAfter ==
  IF Behind
  THEN held' = NothingHeld /\ admitted' = NothingAdmitted /\ revoked' = NothingRevoked
  ELSE UNCHANGED store

\* A read opens the kept file against the view's clock and judges there or below.
Open ==
  /\ session = Absent
  /\ DiscardKeptAfter
  /\ session' \in 0..clock
  /\ UNCHANGED view

Close == session # Absent /\ session' = Absent /\ UNCHANGED <<view, store>>

\* The venue finalizes its next index with some records, a read open or not. A
\* view restored behind what was kept is read before it reaches that index: one
\* that was not is believed, as the comment on discardKeptAfter says.
ViewGrows ==
  /\ clock < MaxClock
  /\ Behind => clock + 1 < Max(AnswersThrough)
  /\ clock' = clock + 1
  /\ \E cs \in SUBSET [index : {clock + 1}, sequence : Sequences, root : Roots],
        rs \in SUBSET [index : {clock + 1}, identity : Identities], vs \in SUBSET {clock + 1} :
       /\ commitments' = commitments \cup cs
       /\ replacements' = replacements \cup rs
       /\ revocations' = revocations \cup vs
       /\ Cardinality(commitments') + Cardinality(replacements') + Cardinality(revocations')
            <= MaxRecords
  /\ UNCHANGED <<store, session>>

\* The view's file is restored from an older copy between reads: what follows
\* the copy may differ from what was read before.
Restore ==
  /\ session = Absent
  /\ \E k \in 0..(clock - 1) :
       /\ clock' = k
       /\ commitments' = {r \in commitments : r.index <= k}
       /\ replacements' = {r \in replacements : r.index <= k}
       /\ revocations' = revocations \cap 0..k
  /\ UNCHANGED <<store, session>>

KeptNext ==
  \/ Open \/ Close \/ ReadHeld \/ ReadReplacements \/ ReadRevocation
  \/ ViewGrows \/ Restore

KeptSpec == KeptInit /\ [][KeptNext]_kept

-----------------------------------------------------------------------------
\* C2.3.3 in one line: a commitment is held when its sequence exceeds every one
\* witnessed at an earlier index and no lesser bytes carry it at its own.
HeldBy(t) ==
  {c \in commitments :
     /\ c.index <= t
     /\ \A d \in commitments : d.index < c.index => d.sequence < c.sequence
     /\ \A d \in commitments : d.index = c.index /\ d.sequence = c.sequence => c.root <= d.root}

\* Every answer served from kept rows, at the index they were kept through or at
\* any below it, is the one the whole range of the current view gives, however
\* earlier reads cut it into windows and wherever they stopped, and also after
\* the view was restored from an older copy and read again while behind
\* (keptAnswers, discardKeptAfter). A revocation found answers past the index
\* it was kept through too.
AnswersDerived ==
  session # Absent =>
    /\ held.through # Absent => \A t \in 0..held.through : Rows(t) = HeldBy(t)
    /\ admitted.through # Absent =>
         admitted.rows = {[index |-> FirstWitnessing(id, 0, admitted.through), identity |-> id] :
                            id \in WitnessedIn(0, admitted.through)}
    /\ revoked.through # Absent =>
         \A t \in 0..(IF revoked.value = Absent THEN revoked.through ELSE clock) :
           RevocationAt(t) = IF revocations \cap 0..t = {} THEN Absent
                             ELSE Min(revocations \cap 0..t)

\* The one-row queries walk the kept rows in the record's order, although they
\* search by sequence or by index alone (nextHeld and previousHeld in
\* replay-store.ts, whose comment says index and sequence rise together).
QueriesInOrder ==
  session # Absent /\ held.through # Absent =>
    \A t, i \in 0..held.through, s \in Sequences :
      /\ NextHeld(i, s, t) = FirstRow({r \in Rows(t) : r.index >= i /\ r.sequence > s})
      /\ PreviousHeld(i, s, t) = LastRow({r \in Rows(t) : r.index <= i /\ r.sequence < s})

\* What a later read is told from kept rows is what the record says, whichever
\* way it asks: by range, at an index, or one row at a time.
KeptIsDerived == AnswersDerived /\ QueriesInOrder
=============================================================================
