-------------------------- MODULE ReplacementChain --------------------------
(* C2.5's walk of src/record-range.ts over the replacement records a venue   *)
(* witnesses for one backing. The rule key and a successor sign a record at  *)
(* any time; the venue witnesses it later, more than once, out of order or   *)
(* never. A record's identity is a hash that the record succeeding it names: *)
(* here a number greater than that of the link it names, since a record is   *)
(* signed after the one it succeeds, in the order of the hashes between two  *)
(* that name one link. Records that do not decode, name another backing or   *)
(* do not verify are left out.                                               *)
EXTENDS ScopeSchedule, Sequences, FiniteSets

CONSTANTS
  Operators,    \* the keys a record may appoint
  Original,     \* the operator the backing's terms name
  VenueLag,     \* the venue's lag
  LastIndex,    \* bound on the venue's clock
  Forces,       \* the effective indices a record may name
  MaxSigned,    \* bound on the records signed, identities 1..MaxSigned
  MaxEntries    \* bound on the entries the venue witnesses, copies included

ASSUME ChainAssumption ==
  /\ VenueLag \in Nat /\ {LastIndex, MaxSigned} \subseteq Nat
  /\ IsFiniteSet(Forces) /\ Forces \subseteq Nat /\ Forces # {}

VARIABLES
  reached,  \* the venue's witnessed index
  signed,   \* the records witnessed: identity -> link named, key appointed,
            \* index of its force
  entries   \* the replacement range of the backing: identities by index

walk == <<reached, signed, entries>>

Backing == 0     \* the genesis link

Record(id) == [predecessor : 0..(id - 1), successor : Operators, effective : Forces]

WalkInit == reached = 0 /\ signed = <<>> /\ entries = {}

-----------------------------------------------------------------------------
Witnessings(id, at) ==
  {e.index : e \in {f \in entries : f.identity = id /\ f.index <= at}}

\* Mutation: a record counts at its latest witnessing.
WitnessedLatest(id, at) == Max(Witnessings(id, at))

\* One identity counts once, at its first entry.
Witnessed(id, at) == Min(Witnessings(id, at))

\* The records the walk at an index reads, and those among them that leave the
\* lead floor of twice the lag and one.
Admitted(at) == {id \in DOMAIN signed : Witnessings(id, at) # {}}

Floored(at) ==
  {id \in Admitted(at) : signed[id].effective >= Witnessed(id, at) + 2 * VenueLag + 1}

Genesis == [operator |-> Original, from |-> 0, link |-> Backing]

LinkOf(id) ==
  IF id = Backing THEN Genesis
  ELSE [operator |-> signed[id].successor, from |-> signed[id].effective, link |-> id]

Revokes(id, incumbent) == signed[id].successor = incumbent.operator

CandidatesFor(incumbent, at) ==
  {id \in Floored(at) :
     /\ signed[id].predecessor = incumbent.link
     /\ signed[id].effective > incumbent.from \/ Revokes(id, incumbent)}

\* Mutation: a candidate witnessed at the standing one's effective index
\* supersedes it.
StandsAtForce(incumbent, at, i, old) ==
  LET here == {id \in CandidatesFor(incumbent, at) : Witnessed(id, at) = i}
  IN  IF here = {} \/ (old # None /\ i > signed[old].effective) THEN old
      ELSE IF Revokes(Min(here), incumbent) THEN None ELSE Min(here)

\* The candidate that stands after the records witnessed at an index, where
\* `old' stood: the index puts one forward, the lesser identity, which
\* supersedes or withdraws the old one unless that is already in force there.
Stands(incumbent, at, i, old) ==
  LET here == {id \in CandidatesFor(incumbent, at) : Witnessed(id, at) = i}
  IN  IF here = {} \/ (old # None /\ i >= signed[old].effective) THEN old
      ELSE IF Revokes(Min(here), incumbent) THEN None ELSE Min(here)

\* The candidate that stands after the records witnessed through an index.
Chosen(incumbent, at) ==
  LET standing[i \in 0..at] ==
        IF i = 0 THEN None ELSE Stands(incumbent, at, i, standing[i - 1])
  IN  standing[at]

\* The links in force by an index: the walk stops where no candidate stands or
\* where the one that does is still pending.
Chain(at) ==
  LET after[link \in {Backing} \cup DOMAIN signed] ==
        LET id == Chosen(LinkOf(link), at)
        IN  <<LinkOf(link)>> \o
              IF id = None THEN <<>>
              ELSE IF signed[id].effective > at THEN <<>> ELSE after[id]
  IN  after[Backing]

\* The link in force at an index: the last whose effective index has arrived.
LinkInForce(chain, index) ==
  chain[Max({k \in DOMAIN chain : chain[k].from <= index})]

-----------------------------------------------------------------------------
\* The venue finalizes its next index with records the rule key and their
\* successors have signed by then, copies of earlier ones among them. What a
\* record says matters from its first witnessing, so it is chosen there.
Finalize ==
  /\ reached < LastIndex
  /\ reached' = reached + 1
  /\ \E ids \in SUBSET (1..MaxSigned) :
       /\ Cardinality(entries) + Cardinality(ids) <= MaxEntries
       /\ entries' = entries \cup {[index |-> reached', identity |-> id] : id \in ids}
       /\ \E record \in [ids \ DOMAIN signed -> UNION {Record(id) : id \in ids}] :
            /\ \A id \in DOMAIN record : record[id] \in Record(id)
            /\ signed' = [id \in DOMAIN signed \cup ids |->
                            IF id \in DOMAIN signed THEN signed[id] ELSE record[id]]

WalkSpec == WalkInit /\ [][Finalize]_walk

-----------------------------------------------------------------------------
\* What a reader saw in force at an index it still sees in force there at every
\* later index, whatever records, copies or withdrawals were witnessed since:
\* checkpoints are judged at the index that witnessed them (linkInForce in
\* src/pool/v3/scope-reader.ts) by readers that come much later.
InForceStands ==
  LET chain == Chain(reached)
  IN  \A i \in 0..reached : LinkInForce(chain, i) = LinkInForce(Chain(i), i)

\* The genesis term's end as the operator's clock reads it: the next link's
\* force, in the chain or pending.
GenesisEnd ==
  LET id == Chosen(Genesis, reached) IN IF id = None THEN None ELSE signed[id].effective

Term == INSTANCE ScopeClock WITH
  Backings <- {Backing}, Lag <- VenueLag, MaxIndex <- LastIndex, MaxEnd <- Max(Forces),
  now <- reached,
  ends <- [b \in {Backing} |-> GenesisEnd],
  unwitnessed <- None, resumed <- None, tail <- "empty", witnessed <- {}

\* The walk implements the environment the operator's schedule is proved
\* against: as records are witnessed, a term's end appears, moves or is
\* withdrawn only as ScopeClock lets it (replacementChain under Replaced).
EndsAsScheduled == Term!Spec
=============================================================================
