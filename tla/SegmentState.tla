---------------------------- MODULE SegmentState ----------------------------
(* One segment's state moved by its records, by an operator's admission or   *)
(* by a reader's replay (judgeRecord and applyJudged of src/pool/v3/state.ts *)
(* over the StateHandle).  The index records are judged at never falls: a    *)
(* later admission has a later horizon, a later checkpoint a later index.    *)
EXTENDS SegmentRules

CONSTANTS
  Indices,     \* the indices a demand or an acceptance may name
  LastIndex,    \* bound on the judging index
  MaxApplied   \* bound on the records of the segment

ASSUME SegmentAssumption ==
  Indices \subseteq Nat /\ LastIndex \in Nat /\ MaxApplied \in Nat

VARIABLES
  mode,     \* who moves the state: "admission" or "replay"
  revoked,  \* K's revocation index, a set of at most one
  at,       \* the index records are judged at
  state

segmentVars == <<mode, revoked, at, state>>

Segment == "segment"

SegmentInit ==
  /\ mode \in {"admission", "replay"}
  /\ revoked \in {{}} \cup {{i} : i \in 0..LastIndex}
  /\ at = 0
  /\ state = GenesisState

Advance ==
  /\ at < LastIndex
  /\ at' = at + 1
  /\ UNCHANGED <<mode, revoked, state>>

\* applyRecord: judge at the state's position, then write the effects.
Record(s) ==
  /\ Cardinality(state.statements) < MaxApplied
  /\ Judged(s, state, Segment, mode, at, revoked)
  /\ state' = Apply(s, state)
  /\ UNCHANGED <<mode, revoked, at>>

RecordIssue == \E n \in Notes : Record(IssueOf(Segment, n))

RecordSpend ==
  \E ins \in SUBSET Notes, outs \in SUBSET Notes :
     Record(SpendOf(Segment, ins, outs))

RecordBurn ==
  \E ins \in SUBSET Notes, outs \in SUBSET Notes, quantity \in Quantities :
     Record(BurnOf(Segment, ins, outs, quantity))

RecordDemand ==
  \E notes \in SUBSET Notes, quantity \in Quantities,
     instant \in Indices, deadline \in Indices :
        Record(DemandOf(Segment, notes, quantity, instant, deadline))

RecordWithdrawal ==
  \E d \in state.demands : Record(WithdrawalOf(Segment, d))

RecordSettlement ==
  \E d \in state.demands, out \in Notes, deadline \in Indices :
     Record(SettlementOf(Segment, d, out, deadline))

SegmentNext ==
  \/ Advance
  \/ RecordIssue
  \/ RecordSpend
  \/ RecordBurn
  \/ RecordDemand
  \/ RecordWithdrawal
  \/ RecordSettlement

SegmentSpec == SegmentInit /\ [][SegmentNext]_segmentVars

-----------------------------------------------------------------------------
StandingDemands ==
  [kind : {Present}, seg : {Segment}, ins : SUBSET Notes, outs : {{}},
   quantity : Nat, instant : Nat, deadline : Nat, ended : {{}}]

Statements ==
  [kind : Issue..Settle, seg : {Segment}, ins : SUBSET Notes,
   outs : SUBSET Notes, quantity : Nat, instant : Nat, deadline : Nat,
   ended : SUBSET StandingDemands]

States ==
  [outputs : SUBSET Notes, spent : SUBSET Notes, issued : Nat, burned : Nat,
   demands : SUBSET StandingDemands, effective : SUBSET Statements,
   statements : SUBSET Statements]

\* The replayed state is of its type: only demands stand, and each was stood up
\* by a presentation of this segment (StateHandle's rows).
TypeOK ==
  /\ mode \in {"admission", "replay"}
  /\ revoked \subseteq Nat
  /\ at \in Nat
  /\ state \in States

Live(d) == d.deadline >= at

\* No note is ever claimed by two demands at once: of the demands naming a note
\* at most one is live at the index records are judged at (checkRecovery's
\* LOCKED), so the obligor never owes one note twice.
LockExclusive ==
  \A d, e \in state.demands :
     d # e /\ Live(d) /\ Live(e) => d.ins \cap e.ins = {}

\* The notes of a live demand are there to be settled: each is an output of the
\* history that nothing has spent, whatever was admitted after the demand.
LockedUnspent ==
  \A d \in state.demands : Live(d) => d.ins \subseteq state.outputs \ state.spent

\* A demand's lock is exclusive while it lives, and its notes are there for the
\* obligor to pay (LOCKED in checkRecovery): the two, whatever order demands,
\* withdrawals, settlements, spends and burns of shared notes arrive in.
LocksSound == LockExclusive /\ LockedUnspent

\* A nullifier is only ever of a note the history created.
SpentExisted == state.spent \subseteq state.outputs

\* The value of the unspent notes is what was issued and not burned: no
\* sequence of spends, burns and settlements mints or loses value.
Conservation ==
  Worth(state.outputs \ state.spent) = state.issued - state.burned

\* A live demand's notes leave only with the demand: a step that spends one of
\* them is the settlement that ends it.
OnlySettlementSpendsLocked ==
  [][\A d \in state.demands :
       (Live(d) /\ d.ins \cap (state'.spent \ state.spent) # {})
         => d \notin state'.demands]_segmentVars

\* A demand that was withdrawn or settled never stands again: its statement
\* stays effective and known to the segment (isEffective, hasStatement).
EndedStaysEnded ==
  \A s \in state.effective : s.ended \cap state.demands = {}

\* Across any history a demand ends once and its notes leave with it: the step
\* that spends a live demand's note ends the demand, and no later record, the
\* presentation repeated included, makes it stand again.
DemandsSettleOnce == OnlySettlementSpendsLocked /\ []EndedStaysEnded
=============================================================================
