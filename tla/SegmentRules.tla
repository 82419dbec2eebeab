---------------------------- MODULE SegmentRules ----------------------------
(* One record judged against, and applied to, a segment's replayed state:    *)
(* src/pool/v3/state.ts with the recovery guards of src/pool/v3/recovery.ts. *)
(*                                                                           *)
(* A note stands for its commitment, its nullifier and its tag, which the    *)
(* circuits bind one to one.  A statement's identity is the statement; its   *)
(* proof is a proof of value conservation over real notes, and signatures    *)
(* are those of the parties the record names: a record without them is       *)
(* refused before any state is read, so it is no input of these operators.   *)
(* Of one backing: its scope, domain and terms are the reader's own.         *)
EXTENDS Integers, FiniteSets, FiniteSetsExt

CONSTANTS
  Notes,       \* the notes that may come to exist
  Value,       \* what each note is worth
  ValueBound,  \* the exclusive bound on the issued total
  Lag          \* the venue's lag

ASSUME NotesAssumption ==
  /\ IsFiniteSet(Notes) /\ Value \in [Notes -> Nat]
  /\ ValueBound \in Nat /\ Lag \in Nat \ {0}

\* The kinds of a record.
Issue == 1
Spend == 2
Burn == 3
Present == 4
Withdraw == 5
Settle == 6

\* The quantities a record can name.
Quantities == 0..ValueBound - 1

Worth(notes) == MapThenSumSet(LAMBDA n : Value[n], notes)

-----------------------------------------------------------------------------
(* Statements.  `ins` are the notes a spend, burn or settlement consumes, or *)
(* a demand presents; `ended` holds the demand a withdrawal or settlement    *)
(* ends; `deadline` is a demand's, or a settlement's acceptance's.           *)

Statement(kind, seg, ins, outs, quantity, instant, deadline, ended) ==
  [kind |-> kind, seg |-> seg, ins |-> ins, outs |-> outs, quantity |-> quantity,
   instant |-> instant, deadline |-> deadline, ended |-> ended]

IssueOf(seg, n) == Statement(Issue, seg, {}, {n}, Value[n], 0, 0, {})

SpendOf(seg, ins, outs) == Statement(Spend, seg, ins, outs, 0, 0, 0, {})

BurnOf(seg, ins, outs, quantity) ==
  Statement(Burn, seg, ins, outs, quantity, 0, 0, {})

DemandOf(seg, notes, quantity, instant, deadline) ==
  Statement(Present, seg, notes, {}, quantity, instant, deadline, {})

WithdrawalOf(seg, d) == Statement(Withdraw, seg, {}, {}, 0, 0, 0, {d})

SettlementOf(seg, d, out, deadline) ==
  Statement(Settle, seg, d.ins, {out}, Value[out], 0, deadline, {d})

\* The nullifiers a record reveals.
Nullifiers(s) == IF s.kind \in {Spend, Burn, Settle} THEN s.ins ELSE {}

\* What the circuit of the record's kind proves (external).
Proved(s) ==
  \/ s.kind = Issue /\ Worth(s.outs) = s.quantity
  \/ s.kind = Spend /\ s.ins # {} /\ Worth(s.ins) = Worth(s.outs)
  \/ s.kind = Burn /\ s.ins # {} /\ Worth(s.ins) = Worth(s.outs) + s.quantity
  \/ s.kind = Present /\ s.quantity > 0 /\ Worth(s.ins) = s.quantity
  \/ s.kind = Withdraw
  \/ s.kind = Settle /\ Worth(s.ins) = s.quantity /\ Worth(s.outs) = s.quantity

-----------------------------------------------------------------------------
(* A state: the outputs and nullifiers of the visible history, the totals,   *)
(* the demands that stand, the recovery statements already effective, and    *)
(* the statements of the segment's own records.                              *)

GenesisState ==
  [outputs |-> {}, spent |-> {}, issued |-> 0, burned |-> 0,
   demands |-> {}, effective |-> {}, statements |-> {}]

\* A successor segment reads its import, and starts records of its own.
OpenSegmentState(imported) == [imported EXCEPT !.statements = {}]

\* Mutation: a lock ends one index early.
LockedOffByOne(state, n, at, except) ==
  \E d \in state.demands \ except : n \in d.ins /\ d.deadline > at

\* A standing demand other than `except` locks the note at index `at`.
Locked(state, n, at, except) ==
  \E d \in state.demands \ except : n \in d.ins /\ d.deadline >= at

CheckInputs(s, state) == s.ins \subseteq state.outputs

\* Mutation: a nullifier may be revealed again.
CheckUniqueOutputs(s, state) == s.outs \cap state.outputs = {}

CheckUniqueEffects(s, state) ==
  /\ Nullifiers(s) \cap state.spent = {}
  /\ s.outs \cap state.outputs = {}

\* C3.8's door: a demand is dated within two lags, a settlement not expired.
DemandDoor(s, at) ==
  s.instant \in at - 2 * Lag .. at - Lag /\ s.deadline > at

CheckDemand(s, state, at, door) ==
  /\ s.ins # {}
  /\ \A n \in s.ins : n \notin state.spent /\ ~Locked(state, n, at, {})
  /\ door => DemandDoor(s, at)

\* Mutation: a settlement passes over other demands' locks.
CheckSettlementTerms(s, d, state, at, door) ==
  /\ s.quantity = d.quantity
  /\ s.deadline <= d.deadline
  /\ door => s.deadline >= at
  /\ s.ins = d.ins

CheckSettlement(s, d, state, at, door) ==
  /\ s.quantity = d.quantity
  /\ s.deadline <= d.deadline
  /\ door => s.deadline >= at
  /\ s.ins = d.ins
  /\ \A n \in s.ins : ~Locked(state, n, at, {d})

CheckRecovery(s, state, at, door) ==
  /\ s.kind >= Present => s \notin state.effective
  /\ s.kind = Present => CheckDemand(s, state, at, door)
  /\ s.kind \in {Withdraw, Settle} => s.ended \subseteq state.demands
  /\ s.kind = Settle =>
       \A d \in s.ended : CheckSettlement(s, d, state, at, door)
  /\ s.kind \in {Spend, Burn} => \A n \in s.ins : ~Locked(state, n, at, {})

\* K's revocation voids issuance witnessed at or after it.
CheckIssuance(s, state, at, revoked) ==
  /\ \A cutoff \in revoked : cutoff > at
  /\ state.issued + s.quantity < ValueBound

\* The record at the state's position, judged in a mode at an index; in
\* adoption its bytes are the block's, verified when they were forced.
Judged(s, state, seg, mode, at, revoked) ==
  /\ mode # "adoption" => s.seg = seg /\ Proved(s)
  /\ s.kind = Withdraw => s.ended \subseteq state.demands
  /\ s \notin state.statements
  /\ s.kind = Issue => CheckIssuance(s, state, at, revoked)
  /\ s.kind = Burn => s.quantity <= state.issued - state.burned
  /\ mode # "adoption" =>
       /\ CheckInputs(s, state)
       /\ CheckRecovery(s, state, at, mode = "admission" /\ s.kind >= Present)
  /\ CheckUniqueEffects(s, state)

\* A publication judged over `base`, the snapshot it forces against, with the
\* earlier force since its adoption index overlaid in `state`.
JudgedForce(s, base, state, seg, at) ==
  /\ s.kind \in {Present, Withdraw, Settle}
  /\ s.seg = seg
  /\ Proved(s)
  /\ CheckInputs(s, base)
  /\ CheckRecovery(s, state, at, TRUE)
  /\ CheckUniqueEffects(s, state)

\* The demand a record stands up, and the one it ends.
StoodUpBy(s) == IF s.kind = Present THEN {s} ELSE {}

EndedBy(s) == s.ended

\* The effects of a judged record; force and replay share them.
Apply(s, state) ==
  [outputs |-> state.outputs \cup s.outs,
   spent |-> state.spent \cup Nullifiers(s),
   issued |-> state.issued + (IF s.kind = Issue THEN s.quantity ELSE 0),
   burned |-> state.burned + (IF s.kind = Burn THEN s.quantity ELSE 0),
   demands |-> (state.demands \ EndedBy(s)) \cup StoodUpBy(s),
   effective |-> state.effective \cup (IF s.kind >= Present THEN {s} ELSE {}),
   statements |-> state.statements \cup {s}]
=============================================================================
