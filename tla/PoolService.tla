---------------------------- MODULE PoolService ----------------------------
(* One backing served by one operator, read by anyone from the venue's       *)
(* record: the operator's journal (src/pool/v3/store.ts) admits records and  *)
(* signs checkpoints, the venue witnesses commitments late, out of order or  *)
(* never, and the reader (scope-reader.ts, reader.ts) classifies every       *)
(* witnessed checkpoint and gives force to publications once the operator    *)
(* has been silent too long (C2b).  The operator then returns: a new segment *)
(* opens from the last valid checkpoint and adopts what was forced.          *)
(*                                                                           *)
(* The reader's walk is its fold: `canon`, `forced` and `retired` are what a *)
(* read through `now` derives.  The term is not replaced and K not revoked.  *)
EXTENDS SegmentRules, ScopeSchedule, Sequences, SequencesExt

CONSTANTS
  Duration,    \* the terms' no-commitment duration
  Instants,    \* the instants a demand may name
  Deadlines,   \* the deadlines a demand or an acceptance may name
  MaxIndex,    \* bound on the venue's index
  MaxRecords,  \* bound on the records of a segment
  MaxForced,   \* bound on the publications that force
  MaxSigned    \* bound on the commitments the operator signs

ASSUME ServiceAssumption ==
  /\ Duration \in Nat /\ Instants \cup Deadlines \subseteq Int
  /\ {MaxIndex, MaxRecords, MaxForced, MaxSigned} \subseteq Nat

VARIABLES
  now,      \* the venue's witnessed index
  flight,   \* commitments published and not yet witnessed
  latest,   \* the sequence of the latest commitment the venue holds
  canon,    \* the latest valid checkpoint and the state it finalizes
  forced,   \* the publications with force, in venue order
  retired,  \* the segments with a silence boundary on the record
  journal   \* the operator's journal

vars == <<now, flight, latest, canon, forced, retired, journal>>

\* A record at the index it was judged at, in a trail or a block.
Event(s, index) == [s |-> s, index |-> index]

ApplyAll(state, events) ==
  LET after[i \in 0..Len(events)] ==
        IF i = 0 THEN state ELSE Apply(events[i].s, after[i - 1])
  IN after[Len(events)]

Signed(seq, seg, trail, parent) ==
  [seq |-> seq, seg |-> seg, trail |-> trail, parent |-> parent, at |-> now,
   observed |-> latest, published |-> FALSE]

\* The genesis opening is signed and witnessed: open() and publish() are past.
Init ==
  /\ now = 0
  /\ flight = {}
  /\ latest = 1
  /\ canon = [seq |-> 1, seg |-> 1, trail |-> <<>>, index |-> 0, opened |-> 0,
              adoption |-> 0, state |-> GenesisState]
  /\ forced = <<>>
  /\ retired = {}
  /\ journal = [seg |-> 1, pending |-> FALSE, trail |-> <<>>, state |-> GenesisState,
                last |-> [seq |-> 1, seg |-> 1, trail |-> <<>>, parent |-> 0,
                          at |-> 0, observed |-> 0, published |-> TRUE]]

-----------------------------------------------------------------------------
(* The reader. *)

\* C2b.6.1: the gap at index t over the last valid checkpoint before it.
GapOpen(t) == t - canon.index > Duration

\* How many publications have force through index `to`.
Through(to) == Max({0} \cup {i \in DOMAIN forced : forced[i].index <= to})

\* The forced publications after index `from` through `to`, in venue order.
ForcedIn(from, to) == SubSeq(forced, Through(from) + 1, Through(to))

\* The snapshot's state with every forced publication since its adoption index.
View == ApplyAll(canon.state, ForcedIn(canon.adoption, now))

\* Mutation: a publication is judged without the force of the earlier ones.
ForcesAlone(s, t) ==
  GapOpen(t) /\ JudgedForce(s, canon.state, canon.state, canon.seg, t)

Forces(s, t) == GapOpen(t) /\ JudgedForce(s, canon.state, View, canon.seg, t)

\* The block a return's opening fixes: its segment adopts exactly this (C2b.4.1).
Block == ForcedIn(canon.adoption, canon.opened)

\* The opening of a segment carries no record and is judged by its import alone.
Opens(c) == c.parent # 0

\* Mutation: a checkpoint lapses by the silence at its signing, not at its witnessing.
LapsesBySigning(c, t) == ~Opens(c) /\ GapOpen(c.at)

Lapses(c, t) == ~Opens(c) /\ (GapOpen(t) \/ c.seg \in retired)

\* The same records, to be judged at t.
JudgedAt(events, t) == [i \in DOMAIN events |-> Event(events[i].s, t)]

\* The state before the i-th of events applied in turn.
StateAt(state, events, i) == ApplyAll(state, SubSeq(events, 1, i - 1))

\* Replaying events in a mode: each is judged over the state those before it
\* give; the state is that of a replay that nothing refused.
Replayed(state, seg, events, mode) ==
  [ok |-> \A i \in DOMAIN events :
            Judged(events[i].s, StateAt(state, events, i), seg, mode, events[i].index, {}),
   state |-> ApplyAll(state, events)]

\* replayTrail of a continuation of the canonical segment witnessed at t: the
\* last valid prefix stands, the block is adopted, the rest is judged at t.
ReplayTrail(c, t) ==
  LET adopting == canon.trail = <<>>
      adopted == IF adopting THEN Block ELSE <<>>
      block == Replayed(canon.state, c.seg, adopted, "adoption")
      suffix == SubSeq(c.trail, Len(canon.trail) + Len(adopted) + 1, Len(c.trail))
      rest == Replayed(block.state, c.seg, JudgedAt(suffix, t), "replay")
  IN [ok |-> /\ IsPrefix(canon.trail, c.trail)
             /\ IsPrefix(adopted, SubSeq(c.trail, Len(canon.trail) + 1, Len(c.trail)))
             /\ block.ok /\ rest.ok,
      state |-> rest.state]

Class(c, t) ==
  CASE Opens(c) -> IF c.parent = canon.seq THEN "valid" ELSE "excluded"
    [] Lapses(c, t) -> "lapsed"
    [] OTHER -> IF c.seg = canon.seg /\ ReplayTrail(c, t).ok THEN "valid" ELSE "excluded"

\* The import an opening stands on, and a continuation's replayed records.
OpenedBy(c, t, imported) ==
  [seq |-> c.seq, seg |-> c.seg, trail |-> <<>>, index |-> t, opened |-> t,
   adoption |-> canon.adoption, state |-> imported]

ContinuedBy(c, t) ==
  [seq |-> c.seq, seg |-> canon.seg, trail |-> c.trail, index |-> t,
   opened |-> canon.opened, adoption |-> canon.opened, state |-> ReplayTrail(c, t).state]

\* Mutation: an opening counts as its block's adoption.
CanonAdoptsAtOpening(c, t) ==
  IF Class(c, t) # "valid" THEN canon
  ELSE IF Opens(c)
  THEN [OpenedBy(c, t, OpenSegmentState(canon.state)) EXCEPT !.adoption = t]
  ELSE ContinuedBy(c, t)

\* The canonical state after the venue witnessed c at t.
CanonAfter(c, t) ==
  IF Class(c, t) # "valid" THEN canon
  ELSE IF Opens(c) THEN OpenedBy(c, t, OpenSegmentState(canon.state))
  ELSE ContinuedBy(c, t)

-----------------------------------------------------------------------------
(* What clients may submit or publish in a segment over a state. *)

Transfers(seg, state) ==
  {IssueOf(seg, n) : n \in Notes \ state.outputs}
  \cup {SpendOf(seg, ins, outs) : ins \in SUBSET state.outputs,
                                  outs \in SUBSET (Notes \ state.outputs)}
  \cup {BurnOf(seg, ins, {}, quantity) : ins \in SUBSET state.outputs,
                                         quantity \in Quantities}

Recoveries(seg, state) ==
  {DemandOf(seg, notes, quantity, instant, deadline) :
     notes \in SUBSET state.outputs, quantity \in Quantities,
     instant \in Instants, deadline \in Deadlines}
  \cup {WithdrawalOf(seg, d) : d \in state.demands}
  \cup {SettlementOf(seg, d, out, deadline) :
          d \in state.demands, out \in Notes \ state.outputs, deadline \in Deadlines}

-----------------------------------------------------------------------------
(* The venue.  An index may witness one publication and one commitment; a    *)
(* commitment older than the latest held is never held (C2.3.3).             *)

\* Which commitments can still be held, after the latest held is `seq`.
Pending(seq) == {c \in flight : c.seq > seq}

Tick(published, landed) ==
  LET t == now + 1
  IN /\ now < MaxIndex
     /\ now' = t
     /\ \A s \in published : Len(forced) < MaxForced /\ Forces(s, t)
     /\ forced' = IF published = {} THEN forced
                  ELSE Append(forced, Event(CHOOSE s \in published : TRUE, t))
     /\ retired' = IF GapOpen(t) THEN retired \cup {canon.seg} ELSE retired
     /\ canon' = IF landed = {} THEN canon ELSE CanonAfter(CHOOSE c \in landed : TRUE, t)
     /\ latest' = IF landed = {} THEN latest ELSE (CHOOSE c \in landed : TRUE).seq
     /\ flight' = Pending(latest')
     /\ UNCHANGED journal

VenueAdvances ==
  \E published \in {{}} \cup {{s} : s \in Recoveries(canon.seg, View)},
     landed \in {{}} \cup {{c} : c \in flight} : Tick(published, landed)

-----------------------------------------------------------------------------
(* The operator. *)

Held(signed) == signed.seq = latest

\* ready(): no return pending, the signed state current, the schedule, and the
\* witnessing horizon within the silence duration.
Current ==
  \/ Held(journal.last)
  \/ /\ journal.last.published
     /\ now < journal.last.at + Lag
     /\ latest = journal.last.observed

Clock == [now |-> now, lag |-> Lag, boundaries |-> {}, resumedAt |-> None,
          unwitnessedSignedAt |-> IF Held(journal.last) THEN None ELSE journal.last.at]

\* Mutation: service runs up to the silence boundary itself.
ServiceToBoundary == now - canon.index <= Duration

ServiceClock == now + Lag - canon.index <= Duration

Submit(s) ==
  /\ Len(journal.trail) < MaxRecords
  /\ ~journal.pending /\ Current /\ AdmissionOpen(Clock) /\ ServiceClock
  /\ Judged(s, journal.state, journal.seg, "admission", now + Lag, {})
  /\ journal' = [journal EXCEPT !.trail = Append(@, Event(s, now + Lag)),
                                !.state = Apply(s, @)]
  /\ UNCHANGED <<now, flight, latest, canon, forced, retired>>

Submits ==
  \E s \in Transfers(journal.seg, journal.state) \cup Recoveries(journal.seg, journal.state) :
     Submit(s)

Commit ==
  /\ journal.last.seq < MaxSigned
  /\ ~journal.pending /\ Current /\ CommitNow(Clock) /\ ServiceClock
  /\ journal' = [journal EXCEPT
                   !.last = Signed(journal.last.seq + 1, journal.seg, journal.trail, 0)]
  /\ UNCHANGED <<now, flight, latest, canon, forced, retired>>

Publish ==
  /\ latest <= journal.last.seq
  /\ ~Held(journal.last) /\ ~journal.last.published
  /\ flight' = flight \cup {[journal.last EXCEPT !.published = TRUE]}
  /\ journal' = [journal EXCEPT !.last.published = TRUE]
  /\ UNCHANGED <<now, latest, canon, forced, retired>>

\* return(): a witnessed silence boundary of the active segment, from whose
\* last valid checkpoint a new segment opens; the uncommitted tail goes.
Return ==
  /\ journal.last.seq < MaxSigned
  /\ journal.pending => Held(journal.last)
  /\ GapOpen(now) /\ canon.seg = journal.seg
  /\ LET seg == journal.seg + 1
     IN journal' = [seg |-> seg, pending |-> TRUE, trail |-> <<>>,
                    state |-> OpenSegmentState(canon.state),
                    last |-> Signed(journal.last.seq + 1, seg, <<>>, canon.seq)]
  /\ UNCHANGED <<now, flight, latest, canon, forced, retired>>

\* adopt(): the opening is witnessed and canonical; its block is admitted whole.
Adoption == Replayed(journal.state, journal.seg, Block, "adoption")

Adoptable == journal.pending /\ Held(journal.last) /\ canon.seq = journal.last.seq

\* Mutation: the block is adopted into the state and left out of the trail.
AdoptOffTrail ==
  /\ Adoptable /\ ServiceClock /\ Adoption.ok
  /\ journal' = [journal EXCEPT !.pending = FALSE, !.state = Adoption.state]
  /\ UNCHANGED <<now, flight, latest, canon, forced, retired>>

Adopt ==
  /\ Adoptable /\ ServiceClock /\ Adoption.ok
  /\ journal' = [journal EXCEPT !.pending = FALSE, !.trail = Block,
                                !.state = Adoption.state]
  /\ UNCHANGED <<now, flight, latest, canon, forced, retired>>

Next == VenueAdvances \/ Submits \/ Commit \/ Publish \/ Return \/ Adopt

Spec == Init /\ [][Next]_vars

-----------------------------------------------------------------------------
OnTime(c, t) == t <= c.at + Lag

\* A checkpoint the venue witnesses within its lag is never lapsed by silence,
\* whatever else was in flight when it was signed (serviceClock's horizon
\* against the reader's clock).
OnTimeNeverLapsed ==
  \A c \in flight : OnTime(c, now + 1) => Class(c, now + 1) # "lapsed"

\* The block of a witnessed return opening always applies to the opening's
\* state: adopt() is never refused and the segment is never stuck pending.
AdoptionNeverRefused == Adoptable => Adoption.ok

\* What was forced stays in effect: in the canonical state, or in the force
\* over it, across any number of returns, late checkpoints and adoptions.
ForcedStands == \A i \in DOMAIN forced : forced[i].s \in View.effective

\* What the record makes final is what the operator serves from and signs on,
\* whatever lands late or never: its trail continues the canonical one and its
\* state is the reader's own with the records after it applied; or its return is
\* on the way and stands on the last valid checkpoint, which nothing moves now.
FinalIsHeld ==
  IF canon.seg = journal.seg
  THEN /\ IsPrefix(canon.trail, journal.trail)
       /\ journal.state = ApplyAll(canon.state,
            SubSeq(journal.trail, Len(canon.trail) + 1, Len(journal.trail)))
  ELSE /\ journal.pending /\ journal.last.parent = canon.seq
       /\ journal.seg = canon.seg + 1 /\ journal.state = OpenSegmentState(canon.state)

\* A reader never sees value made or lost, the force over the snapshot included.
ViewConserves ==
  Worth(View.outputs \ View.spent) = View.issued - View.burned

\* No note is claimed twice in a reader's view: its live demands are disjoint
\* and their notes unspent, force included.
ViewLocksExclusive ==
  \A d, e \in View.demands :
     /\ d.deadline >= now => d.ins \subseteq View.outputs \ View.spent
     /\ d # e /\ d.deadline >= now /\ e.deadline >= now => d.ins \cap e.ins = {}

\* The locks that end between a witnessing at t and the horizon a record of the
\* trail was admitted at.
LockEndsInLag(c, t) ==
  \E i \in DOMAIN c.trail : \E d \in journal.state.effective :
     /\ d.kind = Present /\ d.deadline \in t .. c.trail[i].index - 1
     /\ c.trail[i].s.ins \cap d.ins # {}

\* Of the checkpoints an operator signs, the reader excludes at most one whose
\* lock ended within the lag: any other, late or not, is valid or lapsed.
ExcludedOnlyByLock ==
  \A c \in flight :
     Class(c, now + 1) = "excluded" => LockEndsInLag(c, now + 1)

\* docs/PROTOCOL_RULES.md: every time rule is a refusal, so an honest history
\* stays replayable: no reader excludes a checkpoint witnessed within the lag.
HonestHistoryReplayable ==
  \A c \in flight : OnTime(c, now + 1) => Class(c, now + 1) # "excluded"
=============================================================================
