--------------------------- MODULE MCSegmentState ---------------------------
(* The segment's records over three notes of two denominations, and the      *)
(* service of a backing over two of them: with a lag of one, long enough for *)
(* silence, force, returns and adoptions, and with a lag of two, where an    *)
(* admission's horizon and the witnessing index may differ. A behaviour runs *)
(* one part and leaves the others at their start.                            *)
EXTENDS SegmentState, PoolService, TLC

CONSTANTS a, b, c

VARIABLES part, slowNow, slowFlight, slowLatest, slowCanon, slowForced, slowRetired, slowJournal

slowVars == <<slowNow, slowFlight, slowLatest, slowCanon, slowForced, slowRetired, slowJournal>>

MCValue == (a :> 1) @@ (b :> 1) @@ (c :> 2)

Slow == INSTANCE PoolService WITH
  Notes <- {a, b}, Value <- MCValue, ValueBound <- 3, Lag <- 2, Duration <- 3,
  Instants <- {1, 4}, Deadlines <- {4, 8}, MaxIndex <- 6,
  MaxRecords <- 3, MaxForced <- 1, MaxSigned <- 4,
  now <- slowNow, flight <- slowFlight, latest <- slowLatest, canon <- slowCanon,
  forced <- slowForced, retired <- slowRetired, journal <- slowJournal

MCInit ==
  /\ part \in {"segment", "service", "slow"}
  /\ SegmentInit /\ Init /\ Slow!Init
  /\ part # "segment" => mode = "replay" /\ revoked = {}

\* Bound: the note c is in the segment's part alone.
TwoNotes == \A s \in journal'.state.statements \cup {forced'[i].s : i \in DOMAIN forced'} : c \notin s.outs

MCNext ==
  /\ UNCHANGED part
  /\ \/ part = "segment" /\ SegmentNext /\ UNCHANGED <<vars, slowVars>>
     \/ part = "service" /\ Next /\ TwoNotes /\ UNCHANGED <<segmentVars, slowVars>>
     \/ part = "slow" /\ Slow!Next /\ UNCHANGED <<segmentVars, vars>>

MCSpec == MCInit /\ [][MCNext]_<<part, segmentVars, vars, slowVars>>

\* Value and locks in a reader's view, force included, at either lag, and what
\* PoolService says of a service at the longer lag (judge and forces of
\* scope-reader.ts, serviceClock of store.ts).
ViewsSound ==
  /\ ViewConserves /\ ViewLocksExclusive
  /\ Slow!ViewConserves /\ Slow!ViewLocksExclusive
  /\ Slow!OnTimeNeverLapsed /\ Slow!ForcedStands /\ Slow!ExcludedOnlyByLock

Interchangeable == Permutations({a, b})
=============================================================================
