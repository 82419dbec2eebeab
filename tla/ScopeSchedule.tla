--------------------------- MODULE ScopeSchedule ---------------------------
(* The time constraints of one scope, src/pool/schedule.ts: when an operator *)
(* may sign its next commitment, while it may still admit records, and when *)
(* its term has lapsed.  A clock is the record the function takes: the       *)
(* witnessed venue index, the venue's lag, the effective ends of the scope's *)
(* terms, and the two waits, each an index or None.                          *)
EXTENDS Integers, FiniteSetsExt

CONSTANT None

ASSUME NoneAssumption == None \notin Int

\* What a clock may hold: nothing it names as already past is in the future.
IsClock(clock) ==
  /\ clock.now \in Nat /\ clock.lag \in Nat
  /\ clock.boundaries \subseteq Nat
  /\ \A at \in {clock.unwitnessedSignedAt, clock.resumedAt} :
        at = None \/ at \in 0..clock.now

\* The earliest end of a term of the scope; the caller knows there is one.
Boundary(clock) == Min(clock.boundaries)

\* The wait a signed but unwitnessed commitment, or a restart, imposes.
Waited(next, at, lag) ==
  IF at # None /\ at + lag > next THEN at + lag ELSE next

NextSigningIndex(clock) ==
  Waited(Waited(clock.now, clock.unwitnessedSignedAt, clock.lag),
         clock.resumedAt, clock.lag)

\* Mutation: one clock late.
LastSigningOffByOne(clock) == Boundary(clock) - clock.lag

LastSigningIndex(clock) == Boundary(clock) - clock.lag - 1

Unbounded(clock) == clock.boundaries = {}

SlotRemains(clock) ==
  ~Unbounded(clock) => NextSigningIndex(clock) <= LastSigningIndex(clock)

Recovered(clock) ==
  clock.resumedAt # None => clock.now >= clock.resumedAt + clock.lag

\* Mutation: the last slot is not reserved.
ReserveNothing(clock) == clock.now < 0

\* A signature now would still be unwitnessed at the last safe clock.
ReserveLast(clock) ==
  /\ ~Unbounded(clock)
  /\ clock.now < LastSigningIndex(clock)
  /\ clock.now + clock.lag > LastSigningIndex(clock)

AdmissionOpen(clock) == SlotRemains(clock) /\ Recovered(clock)

CommitNow(clock) ==
  /\ NextSigningIndex(clock) = clock.now
  /\ SlotRemains(clock)
  /\ ~ReserveLast(clock)

Lapsed(clock) == ~Unbounded(clock) /\ clock.now >= Boundary(clock)

-----------------------------------------------------------------------------
(* The repository's own oracle for the same decisions, model/pool-schedule.ts: *)
(* it enumerates every clock a commitment could be signed at.                *)

CalendarHorizon(clock) ==
  IF Unbounded(clock)
  THEN Max({clock.now} \cup ({clock.unwitnessedSignedAt, clock.resumedAt} \ {None}))
         + 2 * clock.lag + 1
  ELSE Max(clock.boundaries)

Candidates(clock) ==
  {sign \in clock.now .. CalendarHorizon(clock) :
     /\ \A at \in {clock.unwitnessedSignedAt, clock.resumedAt} \ {None} :
           sign >= at + clock.lag
     /\ \A end \in clock.boundaries : sign + clock.lag < end}

CalendarAdmissionOpen(clock) ==
  /\ Candidates(clock) # {}
  /\ clock.resumedAt # None => clock.now >= clock.resumedAt + clock.lag

CalendarCommitNow(clock) ==
  /\ clock.now \in Candidates(clock)
  /\ \/ Unbounded(clock)
     \/ clock.now = Max(Candidates(clock))
     \/ clock.now + clock.lag <= Max(Candidates(clock))

CalendarLapsed(clock) == \E end \in clock.boundaries : clock.now >= end
=============================================================================
