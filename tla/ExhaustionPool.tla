--------------------------- MODULE ExhaustionPool ---------------------------
(***************************************************************************)
(* Proving one period of the venue's exhaustion (ergo-exhaustion-pool.ts,  *)
(* "fold"): the period's leaves (ergo-exhaustion-prover.ts, "leavesOf") in *)
(* order, each leaf's witness computed while the leaf before it proves;    *)
(* then nodes joining them pairwise, then the fold.  Every proof is kept   *)
(* on disk under its inputs, which name its place and hold the proofs it   *)
(* is over, so a period proved again after a failure, or after the process *)
(* stopped, verifies what was kept and proves the rest; but proofs are     *)
(* randomized, and one made again is another input to what is above it.    *)
(*                                                                         *)
(* A leaf is its kind and what it advances; the circuits and the state     *)
(* hashes are left out, and so is the proof of the fold before, the same   *)
(* whenever the period is handed over.  A proof is its inputs and how      *)
(* manieth was made of them.  Proofs are made by a backend whose calls     *)
(* each settle, with a proof or a failure, and which a failed call of fold *)
(* leaves running.                                                         *)
(***************************************************************************)
EXTENDS Naturals, Sequences, FiniteSets, SequencesExt

CONSTANTS
    SizeT, SizeM, SizeU,  \* the leaves' sizes, at least one: transaction slots, tree operations, map updates
    Periods,              \* the periods: [slots |-> the entries each transaction slot emits, ops |-> tree operations]
    MaxProofFaults,            \* how often a witness, a proof or its check fails, or a kept file is damaged
    MaxStops              \* how often the process stops

\* A leaf has room for one step at least; a period has a block, and a block a transaction.
ASSUME PoolAssumption ==
    /\ SizeT \in Nat \ {0} /\ SizeM \in Nat \ {0} /\ SizeU \in Nat \ {0}
    /\ \A p \in Periods : /\ p.slots \in Seq(Nat) /\ p.slots # <<>>
                         /\ p.ops \in Nat

Emitted(slots, from, to) == FoldLeft(LAMBDA sum, n : sum + n, 0, SubSeq(slots, from + 1, to))
Least(a, b) == IF a < b THEN a ELSE b

Start == [t |-> 0, m |-> 0, emitted |-> 0, applied |-> 0]
End(p) == LET all == Emitted(p.slots, 0, Len(p.slots)) IN [t |-> Len(p.slots), m |-> p.ops, emitted |-> all, applied |-> all]

(***************************************************************************)
(* leavesOf: transaction and tree leaves by progress, a map-update leaf    *)
(* whenever a leaf's worth of entries waits and at the end.  A leaf names  *)
(* where its stream stood before it and stands after it.                   *)
(***************************************************************************)
NextLeafUncounted(p, at) ==  \* Mutation: a whole map leaf is taken where fewer entries wait.
    LET T == Len(p.slots)
        t == Least(SizeT, T - at.t)
        m == Least(SizeM, p.ops - at.m)
    IN IF at.emitted > at.applied
       THEN [kind |-> "u", before |-> at, after |-> [at EXCEPT !.applied = Least(@ + SizeU, End(p).emitted)]]
       ELSE IF at.t < T /\ (at.m >= p.ops \/ at.t * p.ops <= at.m * T)
       THEN [kind |-> "t", before |-> at, after |-> [at EXCEPT !.t = @ + t, !.emitted = @ + Emitted(p.slots, at.t, at.t + t)]]
       ELSE [kind |-> "m", before |-> at, after |-> [at EXCEPT !.m = @ + m]]
NextLeaf(p, at) ==
    LET T == Len(p.slots)
        waiting == at.emitted - at.applied
        t == Least(SizeT, T - at.t)
        m == Least(SizeM, p.ops - at.m)
        u == Least(waiting, SizeU)
    IN IF waiting >= SizeU \/ (at.t >= T /\ waiting > 0)
       THEN [kind |-> "u", before |-> at, after |-> [at EXCEPT !.applied = @ + u]]
       ELSE IF at.t < T /\ (at.m >= p.ops \/ at.t * p.ops <= at.m * T)
       THEN [kind |-> "t", before |-> at, after |-> [at EXCEPT !.t = @ + t, !.emitted = @ + Emitted(p.slots, at.t, at.t + t)]]
       ELSE [kind |-> "m", before |-> at, after |-> [at EXCEPT !.m = @ + m]]

\* At most this many leaves: each takes a whole leaf's worth or ends its stream, but one map leaf at the end.
Longest(p) == Len(p.slots) + p.ops + End(p).emitted
LeavesOf(p) ==
    LET after[n \in 0 .. Longest(p)] ==
          IF n = 0 THEN <<>>
          ELSE LET done == after[n - 1]
                   at == IF done = <<>> THEN Start ELSE Last(done).after
               IN IF at.t < Len(p.slots) \/ at.m < p.ops \/ at.applied < at.emitted THEN Append(done, NextLeaf(p, at)) ELSE done
    IN after[Longest(p)]

(***************************************************************************)
(* The tree: nodes over neighbouring spans of a level, the last of an odd  *)
(* level going up alone.  A node is the span of leaves it joins.           *)
(***************************************************************************)
Up(level) == [i \in 1 .. (Len(level) + 1) \div 2 |->
    IF 2 * i <= Len(level) THEN <<level[2 * i - 1][1], level[2 * i][2]>> ELSE level[2 * i - 1]]
Joined(level) == [i \in 1 .. Len(level) \div 2 |-> <<level[2 * i - 1][1], level[2 * i][2]>>]

VARIABLES
    period,     \* the period handed over, and handed again until its fold is made
    leaves,     \* its leaves
    calls,      \* the calls of fold since the process started: the last may be live, one before it may leave a task behind
    proofFiles, \* the proofs kept: label -> whether the file is whole
    made,       \* label -> how often it was proved
    damaged,    \* label -> how often its kept file was damaged
    proofFaults,
    stops

poolVars == <<period, leaves, calls, proofFiles, made, damaged, proofFaults, stops>>

Leaf(k) == <<"leaf", k>>
Node(span) == <<"node", span>>
Fold == <<"fold">>
Leaves == 1 .. Len(leaves)

PoolInit ==
    /\ period \in Periods
    /\ leaves = LeavesOf(period)
    /\ calls = <<>>
    /\ proofFiles = [x \in {} |-> TRUE]
    /\ made = [x \in {} |-> 0] /\ damaged = [x \in {} |-> 0]
    /\ proofFaults = 0 /\ stops = 0

Live == calls # <<>> /\ Last(calls).stage \notin {"failed", "sealed"}
Folded == calls # <<>> /\ Last(calls).stage = "sealed"

(***************************************************************************)
(* A proof is kept under its label: its place, then the proofs it is over. *)
(***************************************************************************)
Stored(label) == label \in DOMAIN proofFiles /\ proofFiles[label]
LeafLabel(k) == <<Leaf(k)>>
Count(label, counts) == IF label \in DOMAIN counts THEN counts[label] ELSE 0
CountedAgain(label, counts) == [x \in DOMAIN counts \cup {label} |-> IF x = label THEN Count(x, counts) + 1 ELSE counts[x]]
\* The proof last made under a label, which is the one kept.
Proof(label, proved) == <<label, Count(label, proved)>>
\* A proof that carries its place's inputs and verifies is kept.
Keep(label) ==
    /\ made' = CountedAgain(label, made)
    /\ proofFiles' = [x \in DOMAIN proofFiles \cup {label} |-> IF x = label THEN TRUE ELSE proofFiles[x]]

NewCall == [stage |-> "leaves", task |-> [k \in Leaves |-> "unstarted"], level |-> <<>>,
            proofs |-> [k \in Leaves |-> <<>>], done |-> <<>>]

\* The server proves a pending period again; no call of it runs beside another.
StartFoldOnce ==  \* Mutation: a period that failed is not proved again by the same process.
    /\ calls = <<>>
    /\ calls' = <<NewCall>>
    /\ UNCHANGED <<period, leaves, proofFiles, made, damaged, proofFaults, stops>>
StartFold ==
    /\ ~Live /\ ~Folded
    /\ calls' = Append(calls, NewCall)
    /\ UNCHANGED <<period, leaves, proofFiles, made, damaged, proofFaults, stops>>

(***************************************************************************)
(* A leaf's task, of the live call or of one that failed: verify the kept  *)
(* proof, else compute the witness, wait for the leaf before, prove.       *)
(***************************************************************************)
Task(c, k) == calls[c].task[k]
\* A task that is done has the proof kept of its leaf, or the one it made.
InHand(c, k, state) == IF state = "done" THEN Proof(LeafLabel(k), made') ELSE calls[c].proofs[k]
Becomes(c, k, state) ==
    calls' = [calls EXCEPT ![c] = [@ EXCEPT !.task[k] = state, !.proofs[k] = InHand(c, k, state)]]
Settled(c, k) == Task(c, k) \in {"done", "failed"}

\* The loop starts leaf k once the leaf two before it, which it awaited, is done.
StartLeaf(k) ==
    LET c == Len(calls) IN
    /\ Live /\ calls[c].stage = "leaves" /\ Task(c, k) = "unstarted"
    /\ k > 1 => Task(c, k - 1) # "unstarted"
    /\ k > 2 => Task(c, k - 2) = "done"
    /\ UNCHANGED <<period, leaves, proofFiles, made, damaged, proofFaults, stops>>
    /\ Becomes(c, k, IF Stored(LeafLabel(k)) THEN "done" ELSE "witness")

Witnessed(c, k) ==
    /\ Task(c, k) = "witness"
    /\ Becomes(c, k, "waiting")
    /\ UNCHANGED <<period, leaves, proofFiles, made, damaged, proofFaults, stops>>

\* "await after": the leaf before it settles; its failure is this leaf's.
AfterNone(c, k) ==  \* Mutation: a leaf proves as soon as its witness is there
    /\ Task(c, k) = "waiting" /\ Becomes(c, k, "proving")
    /\ UNCHANGED <<period, leaves, proofFiles, made, damaged, proofFaults, stops>>
After(c, k) ==
    /\ Task(c, k) = "waiting"
    /\ k > 1 => Settled(c, k - 1)
    /\ Becomes(c, k, IF k > 1 /\ Task(c, k - 1) = "failed" THEN "failed" ELSE "proving")
    /\ UNCHANGED <<period, leaves, proofFiles, made, damaged, proofFaults, stops>>
LeafProved(c, k) ==
    /\ Task(c, k) = "proving"
    /\ Keep(LeafLabel(k)) /\ Becomes(c, k, "done")
    /\ UNCHANGED <<period, leaves, damaged, proofFaults, stops>>

TaskFails(c, k) ==
    /\ Task(c, k) \in {"witness", "proving"} /\ proofFaults < MaxProofFaults
    /\ Becomes(c, k, "failed") /\ proofFaults' = proofFaults + 1
    /\ UNCHANGED <<period, leaves, proofFiles, made, damaged, stops>>

\* The loop awaits the leaf before the last it started, and at the end each in order.
LeafFailed ==
    LET c == Len(calls) IN
    /\ Live /\ calls[c].stage = "leaves"
    /\ \E k \in Leaves : Task(c, k) = "failed" /\ (k < Len(leaves) => Task(c, k + 1) # "unstarted")
                         /\ \A j \in 1 .. (k - 1) : Task(c, j) = "done"
    /\ calls' = [calls EXCEPT ![c].stage = "failed"]
    /\ UNCHANGED <<period, leaves, proofFiles, made, damaged, proofFaults, stops>>

(***************************************************************************)
(* Nodes level by level, then the fold, one after another.                 *)
(***************************************************************************)
\* The proofs of the level above: those made, and the last of an odd level.
UpProofs(call) == call.done \o SubSeq(call.proofs, 2 * Len(call.done) + 1, Len(call.proofs))
Climbed(call) ==
    LET joined == Joined(call.level) IN
    IF Len(call.level) = 1 THEN [call EXCEPT !.stage = "fold"]
    ELSE IF Len(call.done) < Len(joined) THEN call
    ELSE [call EXCEPT !.level = Up(@), !.proofs = UpProofs(call), !.done = <<>>,
                      !.stage = IF Len(Up(call.level)) = 1 THEN "fold" ELSE "nodes"]

LeavesDone ==
    LET c == Len(calls) IN
    /\ Live /\ calls[c].stage = "leaves" /\ \A k \in Leaves : Task(c, k) = "done"
    /\ calls' = [calls EXCEPT ![c] = Climbed([@ EXCEPT !.stage = "nodes", !.level = [k \in Leaves |-> <<k, k>>]])]
    /\ UNCHANGED <<period, leaves, proofFiles, made, damaged, proofFaults, stops>>

\* The inputs of the join in hand: a node's over the next two proofs of its level, the fold's over the root's.
LabelInCall(call) ==  \* Mutation: a node's inputs hold what differs from call to call.
    LET d == Len(call.done) IN
    IF call.stage = "fold" THEN <<Fold, call.proofs[1]>>
    ELSE <<Node(Joined(call.level)[d + 1]), call.proofs[2 * d + 1], call.proofs[2 * d + 2], <<Len(calls), stops>>>>
Label(call) ==
    LET d == Len(call.done) IN
    IF call.stage = "fold" THEN <<Fold, call.proofs[1]>>
    ELSE <<Node(Joined(call.level)[d + 1]), call.proofs[2 * d + 1], call.proofs[2 * d + 2]>>

Join ==
    LET c == Len(calls)
        call == calls[c]
        label == Label(call)
    IN
    /\ Live /\ call.stage \in {"nodes", "fold"}
    /\ IF Stored(label) THEN UNCHANGED <<proofFiles, made>> ELSE Keep(label)
    /\ calls' = [calls EXCEPT ![c] = IF call.stage = "fold" THEN [call EXCEPT !.stage = "sealed"]
                                     ELSE Climbed([call EXCEPT !.done = Append(@, Proof(label, made'))])]
    /\ UNCHANGED <<period, leaves, damaged, proofFaults, stops>>

JoinFails ==
    LET c == Len(calls) IN
    /\ Live /\ calls[c].stage \in {"nodes", "fold"} /\ ~Stored(Label(calls[c])) /\ proofFaults < MaxProofFaults
    /\ calls' = [calls EXCEPT ![c].stage = "failed"] /\ proofFaults' = proofFaults + 1
    /\ UNCHANGED <<period, leaves, proofFiles, made, damaged, stops>>

\* The process stops: its tasks end with it and a file is kept whole or not at all.
Stop ==
    /\ calls # <<>> /\ ~Folded /\ stops < MaxStops
    /\ calls' = <<>> /\ stops' = stops + 1
    /\ UNCHANGED <<period, leaves, proofFiles, made, damaged, proofFaults>>

\* A kept file that no longer reads as a proof of its inputs is passed over.
Damage(label) ==
    /\ Stored(label) /\ ~Folded /\ proofFaults < MaxProofFaults
    /\ proofFiles' = [proofFiles EXCEPT ![label] = FALSE] /\ damaged' = CountedAgain(label, damaged)
    /\ proofFaults' = proofFaults + 1
    /\ UNCHANGED <<period, leaves, calls, made, stops>>

Tasks == (DOMAIN calls) \X Leaves
Works ==
    \/ StartFold \/ LeafFailed \/ LeavesDone \/ Join
    \/ \E k \in Leaves : StartLeaf(k)
    \/ \E x \in Tasks : Witnessed(x[1], x[2]) \/ After(x[1], x[2]) \/ LeafProved(x[1], x[2])
Fails == JoinFails \/ Stop \/ (\E x \in Tasks : TaskFails(x[1], x[2])) \/ (\E label \in DOMAIN proofFiles : Damage(label))

PoolNext == Works \/ Fails

(* A round comes again after every failure, and a backend's call settles. *)
PoolFairness == WF_poolVars(Works)
PoolSpec == PoolInit /\ [][PoolNext]_poolVars /\ PoolFairness

(***************************************************************************)
(* Properties.                                                             *)
(***************************************************************************)
\* The prover's memory and cores are sized for one proof: whatever failed and was called again, two leaves never prove
\* at once, and no more than one witness waits for the prover in a call.
OneProofAtATime ==
    /\ Cardinality({x \in Tasks : Task(x[1], x[2]) = "proving"}) <= 1
    /\ \A c \in DOMAIN calls : Cardinality({k \in Leaves : Task(c, k) \in {"witness", "waiting"}}) <= 2

\* "a prover that stops resumes where it stood": a proof is made again of the same inputs only where its kept file was
\* damaged, through every failure, stop and repeated call, and tasks that a failed call left behind.
ProvedOnce == \A label \in DOMAIN made : made[label] <= Count(label, damaged) + 1

\* A place at or under another: a node spans its leaves and smaller nodes, and the fold is over all.
Spanned(x) == IF x[1] = "leaf" THEN <<x[2], x[2]>> ELSE IF x = Fold THEN <<1, Len(leaves)>> ELSE x[2]
Beneath(y, x) == y = x \/ (y # Fold /\ Spanned(x)[1] <= Spanned(y)[1] /\ Spanned(y)[2] <= Spanned(x)[2])
CountOf(counts, labels) == Cardinality(UNION {{label} \X (1 .. counts[label]) : label \in labels})

\* And of what is above a proof made again no more is made again: a place is proved at most once more than kept files
\* at and under it were damaged, whichever proofs of its two parts met.
ProvedForDamage ==
    \A x \in {label[1] : label \in DOMAIN made} :
        CountOf(made, {label \in DOMAIN made : label[1] = x})
          <= 1 + CountOf(damaged, {label \in DOMAIN damaged : Beneath(label[1], x)})

\* fold's proofs are made one at a time, again only where kept ones were lost, and no more above than was lost beneath.
ProvingSound == OneProofAtATime /\ ProvedOnce /\ ProvedForDamage

\* The leaves join from the period's start to its end, every map update was emitted by a leaf before it, and each level
\* of the tree spans them in order; so the fold is over the whole period.
LeavesSpan ==
    /\ \A k \in Leaves : leaves[k].before = IF k = 1 THEN Start ELSE leaves[k - 1].after
    /\ \A k \in Leaves : leaves[k].after.applied <= leaves[k].before.emitted \/ leaves[k].kind # "u"
    /\ Last(leaves).after = End(period)
    /\ \A k \in Leaves : leaves[k].after # leaves[k].before
    /\ \A c \in DOMAIN calls : LET level == calls[c].level IN
           level # <<>> => level[1][1] = 1 /\ Last(level)[2] = Len(leaves)
                           /\ \A i \in 2 .. Len(level) : level[i][1] = level[i - 1][2] + 1

\* A period whose proof fails is proved again: under finitely many failures and stops its fold is made.
FoldMade == <>Folded
=============================================================================
