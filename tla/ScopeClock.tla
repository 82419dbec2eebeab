----------------------------- MODULE ScopeClock -----------------------------
(* One operator serving one scope against a venue's witnessed index: records *)
(* are admitted and commitments signed when src/pool/schedule.ts says so     *)
(* (called from ready() in src/pool/v3/store.ts), the venue witnesses a      *)
(* commitment within its lag, late or never, replacement records end the     *)
(* scope's terms, and the operator may restart at any moment.                *)
EXTENDS ScopeSchedule, FiniteSets

CONSTANTS
  Backings,   \* the backings of the scope, each with a term of its own
  Lag,        \* the venue's lag
  MaxIndex,   \* bound on the venue's clock
  MaxEnd      \* bound on the effective indices a replacement may name

ASSUME ScopeAssumption ==
  /\ Lag \in Nat \ {0} /\ MaxIndex \in Nat /\ MaxEnd \in Nat
  /\ IsFiniteSet(Backings)

VARIABLES
  now,         \* the venue's witnessed index
  ends,        \* backing -> the effective end of its term on record, or None
  unwitnessed, \* when the latest commitment was signed, None once witnessed
  resumed,     \* when this process resumed a journal with history, or None
  tail,        \* the records admitted past the latest signed commitment: none,
               \* "open", or "interrupted" since one was admitted, by a restart
               \* or by a commitment the venue did not witness within the lag
  witnessed    \* indices at which the venue witnessed a commitment on time

vars == <<now, ends, unwitnessed, resumed, tail, witnessed>>

Boundaries == {ends[b] : b \in Backings} \ {None}

Clock == [now |-> now, lag |-> Lag, boundaries |-> Boundaries,
          unwitnessedSignedAt |-> unwitnessed, resumedAt |-> resumed]

\* Indices, term ends and the two waits are clocks of the venue or absent.
TypeOK ==
  /\ now \in Nat
  /\ ends \in [Backings -> Nat \cup {None}]
  /\ unwitnessed \in Nat \cup {None}
  /\ resumed \in Nat \cup {None}
  /\ tail \in {"empty", "open", "interrupted"}
  /\ witnessed \subseteq Nat

Init ==
  /\ now = 0
  /\ ends = [b \in Backings |-> None]
  /\ unwitnessed = None
  /\ resumed = None
  /\ tail = "empty"
  /\ witnessed = {}

-----------------------------------------------------------------------------
\* C2.5's walk over the next index: a record witnessed there ends a term, or
\* supersedes or withdraws an end still ahead, and never an end less than twice
\* the lag and one past its own witnessing.
Replaced(at, old, new) ==
  \/ new = old
  \/ /\ old # None => at < old
     /\ new # None => new >= at + 2 * Lag + 1

\* The venue finalizes its next index, with whatever it holds.
Tick(lands) ==
  /\ now < MaxIndex
  /\ now' = now + 1
  /\ ends' \in {after \in [Backings -> 0..MaxEnd \cup {None}] :
                 \A b \in Backings : Replaced(now + 1, ends[b], after[b])}
  /\ lands => unwitnessed # None
  /\ unwitnessed' = IF lands THEN None ELSE unwitnessed
  /\ witnessed' = IF lands /\ now' <= unwitnessed + Lag
                  THEN witnessed \cup {now'} ELSE witnessed
  /\ tail' = IF tail = "open" /\ unwitnessed' # None /\ now' >= unwitnessed' + Lag
             THEN "interrupted" ELSE tail
  /\ UNCHANGED resumed

\* The signed state is current: witnessed, or in flight within the lag.
Current == unwitnessed # None => now < unwitnessed + Lag

\* An operator that signs when its schedule first reserves and then reaches
\* the last safe clock lets no such clock pass with a tail unsigned.
Prompt ==
  ~ /\ tail # "empty"
    /\ Boundaries # {}
    /\ now = LastSigningIndex(Clock)
    /\ Current /\ CommitNow(Clock)

Advance == Prompt /\ \E lands \in BOOLEAN : Tick(lands)

Admit ==
  /\ Current /\ ~Lapsed(Clock)
  /\ AdmissionOpen(Clock)
  /\ tail' = IF tail = "interrupted" THEN tail ELSE "open"
  /\ UNCHANGED <<now, ends, unwitnessed, resumed, witnessed>>

Commit ==
  /\ Current /\ ~Lapsed(Clock)
  /\ CommitNow(Clock)
  /\ unwitnessed' = now
  /\ tail' = "empty"
  /\ UNCHANGED <<now, ends, resumed, witnessed>>

\* The constructor reopens a journal with history: C2.8.2's wait starts again.
Restart ==
  /\ resumed' = now
  /\ tail' = IF tail = "empty" THEN tail ELSE "interrupted"
  /\ UNCHANGED <<now, ends, unwitnessed, witnessed>>

Next == Advance \/ Admit \/ Commit \/ Restart

Spec == Init /\ [][Next]_vars

-----------------------------------------------------------------------------
\* The last clock at which a commitment signed for a term is sure to be
\* witnessed before the term's end.
LastFor(b) == ends[b] - Lag - 1

\* A commitment the venue witnesses within its lag is witnessed before every
\* term of its scope ends, also a term whose replacement was witnessed after the
\* signature: nothing the operator signs on schedule is void by its term
\* (scopeSchedule's commitNow against C2.5.3's lead floor).
WitnessedInTerm ==
  \A b \in Backings : ends[b] # None => \A w \in witnessed : w < ends[b]

\* While an admitted record is uncommitted, the last safe signing clock is not
\* taken by an earlier commitment still in flight (reserveLast, and
\* admissionOpen's nextSigningIndex).
TailKeepsSlot ==
  tail # "empty" => \A b \in Backings : ends[b] # None =>
    \/ now > LastFor(b)
    \/ unwitnessed = None \/ unwitnessed + Lag <= LastFor(b)

\* Records admitted since the last restart, under a venue that has kept its lag
\* since, are signed for no later than the last safe clock of every term on
\* record, also when an end appears, moves or is withdrawn after their receipts
\* were given.
TailCommitted ==
  tail = "open" => \A b \in Backings : ends[b] # None => now <= LastFor(b)

\* The deadline arithmetic of scopeSchedule decides exactly as the calendar
\* model of model/pool-schedule.ts, which enumerates signing clocks.
MatchesCalendar ==
  /\ AdmissionOpen(Clock) = CalendarAdmissionOpen(Clock)
  /\ CommitNow(Clock) = CalendarCommitNow(Clock)
  /\ Lapsed(Clock) = CalendarLapsed(Clock)
=============================================================================
