# A verification of the pool-v3 reference implementation

The repository implements a medium of exchange over a *venue* (a public record
with a witnessed index, Ergo in production, a fixture in tests). A *backer*'s
terms name an *operator*, who admits records (issue, spend, burn, demand,
withdrawal, settlement) into a *segment*, co-signs a receipt for each, and
publishes *commitments* to checkpoints of the segment. Anyone replays what the
record holds. If no valid checkpoint is witnessed for long enough, publications
of holders themselves gain *force*, and the operator must *return* with a new
segment that adopts what was forced.

Paths below are relative to the repository's root; `v3/` is `src/pool/v3/`.

## Inventory

| Component | State | Operations | Interacts with | What is hard |
|---|---|---|---|---|
| Scope schedule, `src/pool/schedule.ts` | none (a pure decision over a clock) | `admissionOpen`, `commitNow`, `lapsed` | journal's `ready`, `signingSchedule` | deadlines at the edge, a restart's wait, several term ends |
| Segment state, `v3/state.ts`, `recovery.ts`, `spent-set.ts`, `pool/note-tree.ts` | outputs, nullifiers, totals, demands, effective statements | judge and apply a record in admission, replay, force or adoption | journal (admission), reader (replay, force) | order of records around deadlines; admission and replay must agree |
| Operator journal, `v3/store.ts` | SQLite rows: segment, trail, signed commitments, receipts, owner, restoration, skips | `open`, `submit`, `commit`, `publish`, `return`, `adopt`, `rescope`, `takeover`, `status`, serving | venue, reader, state, schedule | awaits between judging and writing; crash, replacement and restoration of the file; late or lost publications |
| Reader, `v3/reader.ts`, `scope-reader.ts`, `package-reader.ts` | kept classes (a cache) | classify a checkpoint (valid, lapsed, excluded), silence clock, force, block, import | venue's ranges, evidence, state | mutual recursion of clock, class and force; out-of-order witnesses |
| Record ranges, `src/record-range.ts`, `record-venue.ts`, `venue-records.ts` | the record | held commitments, replacement chain, revocation | reader, journal | replacements that supersede and withdraw one another |
| Receipts, `v3/receipt-state.ts` | none | verdict of a receipt | reader | a receipt outlived by its segment |
| Non-service and dishonour, `v3/non-service.ts`, `dishonour.ts`, `redemption.ts` | counts | attempts, publications | record, wallet | counting across terms |
| Fault evidence, `v3/fault-*.ts` | kept faults | authenticate, exclude | reader | a fault standing in for a trail |
| Replay store, `v3/replay-store.ts` | namespaced rows, kept answers and classes | keep, extend, discard, query | reader | an answer kept from a view that ran ahead |
| Evidence store, `v3/evidence-store.ts`, `replica.ts`, `trail.ts`, `package.ts` | rows of trails, objects, an index of selections, marks | take a part, serve parts, walk, keep a selection | journal, service, wallet, reader | broken streams, lost rows, restored files, withholding sources |
| Wallet, `v3/wallet-store.ts`, `holdings.ts`, `wallet-backup.ts` | saved records and their reservations, requests, credits, owner keys, held notes, a fork mark | plan, prove, save, submit, reprove, publish, fulfil; copy, export, restore | service, reader | calls that await; lost answers; stale views; several copies of a seed |
| Service, `v3/service-*.ts` | connections | submit, serve parts | journal, wallet | retries of what was done |
| Ergo venue, `src/ergo.ts`, `ergo-headers.ts`, `ergo-store.ts` | headers, side charges, protected paths, rows, pin | sync, rollback, restore | journal, reader | reorganisations, budgets, two commits |
| Ergo publisher, `src/ergo-publisher.ts` | durable outbox | publish, rebuild, settle | venue | dropped transactions, lost answers |
| Exhaustion proofs, `src/ergo-exhaustion*.ts` | kept proofs, a kept fold | prove a period, adopt, serve | venue, peers | failure half-way, a fold the view denies |
| Succinct reads, lit construction, command line, browser | | | | |
| Cryptography, codecs, circuits | none | | everything | outside TLC |

What makes it correct: value is conserved and no note is claimed or spent twice;
what the record makes final is what the operator serves from and signs on; what was forced stands; an
operator that follows the rules is never lapsed or excluded, and never signs two
things at one place, whichever of its processes and copies run; a wallet backs no
two live records with one note and reports no outcome a later view undoes; what a
party keeps or serves is the record's; a view comes to the heaviest chain.

## Modules

| Module | Models | State and actions |
|---|---|---|
| `ScopeSchedule` | `src/pool/schedule.ts`, and `model/pool-schedule.ts` as its reference | operators over a clock record; no state |
| `ScopeClock` | an operator that uses the schedule (`ready`, `commit`, the constructor's `resumedAt`) against the venue's clock and the replacement chain's effect on term ends | `Advance` (with late, on-time or lost witnesses and ends that appear, move or go), `Admit`, `Commit`, `Restart` |
| `ReplacementChain` | `record-range.ts`: `admittedReplacements`, `replacementChain`, `linkInForce` over the records a venue witnesses for a backing | `Finalize` witnesses any records, copies included; the chain is read at any index |
| `KeptAnswers` | `keptAnswers`, `readWindows` (`v3/reader.ts`), `heldCommitments`, `revocationIndex`, the answer tables of `v3/replay-store.ts` | `ReadHeld`, `ReadReplacements`, `ReadRevocation` by windows; `Open` with its discard, `Close`; `ViewGrows`, `Restore` of the view |
| `SegmentRules` | `v3/state.ts`, `recovery.ts`: every check of a record and its effects, in all four modes | operators over a state record; no state |
| `SegmentState` | `applyRecord` over one segment, by admission or replay | one action per kind, `Advance` of the judging index |
| `PoolService` | journal, venue and reader together: `submit`, `commit`, `publish`, `return`, `adopt`; `judge`, `forces`, `clock`, `replayTrail` | `canon`, `forced`, `retired` are a read through `now`; `journal` the operator's |
| `OperatorJournal` | `v3/store.ts` as a file: owner fence, `stable`, restoration, skips, `foreign`, the publication's mark | commands in two steps (`Submit` ... then `Finish`; `Publish`, `Hand`, `Finish`), `Open`, `Copy`, `Restore`, `Tick` |
| `Wallet` | `v3/wallet-store.ts` over saved records: plans read, prove and save in turns; `submit`, `reprove`, `publish`, resolution, supersession, the fork fence | the venue and an honest operator (`Checkpoint`, `Pass`, `Succeed`, `Admit`); one action per call that reads (`Prepare`, `Freshen`, `BurnNotes`, `IssueTo`, `Demand`, `SettleDemand`, `Reprove`) and its `Save`; `Submit`, `KeepReceipt`, `Publish`, `WithdrawDemand`, `Sync`, `Abandon` |
| `WalletKeys` | owner keys across the copies of a seed: `found`, `allocate`, `keyedFulfill`, `recordRestoration` (`v3/wallet-store.ts`), the windows of `src/lit/holdings.ts` | `Sync`, `Request`, `PayWithChange`, `MoveWindow`, `Fulfil`; `Copy`, `ExportBackup`, `RestoreBackup`, `RestoreSeed`, `RecordRestoration` |
| `EvidenceRows` | a party's evidence file: `keepTrail`, `trail`, `walk`, `forward`, `reaches`, `evidence` (`v3/evidence-store.ts`) over storage that may be damaged | operators over a file; no state |
| `EvidenceSupply` | how parts reach a party: `serve`, `take`, `keepSelection`, `sync`, `readSources` | `Sign`, `Land`, `Lapse`; `Begin`, `Take`, `Synced`, `Use` per party; `BreakOff`, `Crash`, `Damage`, `Restore` |
| `ErgoHeaders` | the header store of `src/ergo-headers.ts` | operators over a store |
| `ErgoView` | `ErgoVenue.sync` (`src/ergo.ts`) and its journal (`src/ergo-store.ts`) | `Pass` and `PassFails` of one supplier, `Finish` or `Fail` of the sync, `Crash`; the network's `Mine` |
| `ErgoPublisher` | `src/ergo-publisher.ts`: `publish`, `settle`, the durable outbox; `publish`, `holds` and the settle of a sync in `src/ergo.ts` | a publication's turn step by step (`Begin`, `Ask`, `SubmitParent`, `Submit`, `Earlier`, `Inspect`, `Build`), `Settle`, `Sync`, `PublishRecord`, `Crash`; the network's `Mine`, `Drop`, `Reorganise` (external) |
| `ExhaustionPool` | `fold` of `src/ergo-exhaustion-pool.ts` with `leavesOf` of `ergo-exhaustion-prover.ts` | `StartFold`, a leaf's task (`StartLeaf`, `Witnessed`, `After`, `LeafProved`), `LeavesDone`, `Join`; `TaskFails`, `JoinFails`, `Stop`, `Damage` |
| `ExhaustionFolds` | `exhaustionOver` of `src/cli/venue.ts` over the map server of `ergo-exhaustion-server.ts` | a turn's steps (`ReadKept`, `AdoptKept`, `AskPeers`, `Take`, `RowsFail`, `Prove` ...), `Proved`, `Rested`, `Grow`, `Restart` |
| `*Proofs` | theorems over the module each is named after; `SegmentProofs` both `SegmentRules`, whose sums and lock lemmas `PoolServiceProofs` shares, and `SegmentState`, `VenueProofs` `ErgoView`, `ExhaustionPool` and `ExhaustionFolds`, `ReaderProofs` `ScopeClock`, `ReplacementChain` and `KeptAnswers`, `EvidenceProofs` `EvidenceSupply` and `EvidenceRows`, `DurableProofs` `OperatorJournal` and `ErgoPublisher` | |
| `MC*` | constants, symmetry and the parts of a run | |

`PoolService` and `Wallet` compose `SegmentRules` with an operator and a venue;
`OperatorJournal` composes the schedule with the journal's durability and leaves
record content out. `ReplacementChain` is shown to implement `ScopeClock`, as the
part of it that moves a term's end (`Term!Spec` with nothing admitted, signed or
restarted), by TLC and by `WalkImplementsEnds`: the ends that the theorems about the
schedule range over are the ends the walk gives. A definition named after a method has that method's guards and
effects. Definitions headed *Mutation* or *A plausible bug* are not part of the
model: each is a plausible defect of the definition below it, kept to show that a
property can fail.

### Abstractions

- A note stands for its commitment, nullifier and tag, bound one to one by the
  circuits. `Proved` (external) is what a verified proof says of values. A
  record that does not decode, or whose signatures do not verify, is refused
  before any state is read and is no input here.
- One backing. Anchors and input commitments are both "the note was created".
- The venue's index may witness one commitment and one publication, or none; a
  commitment in flight may be witnessed at once, late, in any order or never.
- In `PoolService` the term is not replaced and K not revoked; `ScopeClock` has
  term ends and `SegmentState` revocation.
- In `OperatorJournal` a segment's identity is its opening, statements are
  opaque, no publication forces (so a block is empty), and the spacings that
  restorations draw at random from 2^31 are distinct. A conflict found is kept
  by the code; the model finds it again from the record, which only grows.
- In `ReplacementChain` an identity is a number above that of the link it names:
  a hash is known only once its record is, and two records are compared only
  where they name one link. The walk's guard against a cycle of hashes can then
  not apply. What a record says is chosen when it is first witnessed.
- In `KeptAnswers` any partition of a range may be read, which contains what
  halving and doubling under a budget give. A view restored from an older copy
  is read before it reaches the kept index again; one that was not is believed,
  as the comment on `discardKeptAfter` says. A fixture venue's owner filing a
  record at an index already read is such a replacement too and is left out.
  Publications are kept as read; a failed read is rolled back and no step.
- In `Wallet` the operator is honest, though its tail may lapse; a read may be of
  the view before the newest. A selection is any set of notes of the exact worth;
  an alias's fresh output of no worth stands for the padding that makes each
  payment a statement of its own. One instance of the seed acts.
- In `WalletKeys` values, locks and payees' outputs are left to `Wallet`. The
  holder does what the guide asks: one instance at a time, a restoration recorded
  once the others are gone, marked requests confirmed truthfully, a backup
  restored once, and a window moved only from a view caught up with the lost
  instance's.
- In `EvidenceRows` a chain value is the sequence it fixes; a row is found by the
  value it was kept under and may be lost or have one field changed; an object or
  head that is changed is absent, being found by its hash. In `EvidenceSupply` a
  part is authenticated when a read uses it and never forged; bytes of framing and
  quotas are rows. Faults are chosen per behaviour (`Plans`), one kind at a time.
- In `ErgoView` every header meets the network's rules; a header is its place and
  its difficulty, a section its header. The honest supplier serves the network's
  best chain when it answers. The view believes the heaviest chain that it read:
  no chain that nobody served or mined outweighs it. The network settles at the
  view's depth (`NetworkAssumption`): a chain as heavy as one of its tips leaves
  it within the depth. `WitnessesHeaviest` speaks of the clock's block and not of
  the view's failure, which a lighter chain can still cause: heavier than the
  part of the heaviest chain that budgets let the view read so far, and parted
  from it below the clock, it becomes the best chain for a while, and such a fork
  "bounds nothing" (`src/ergo.ts:545`): the view refuses from then on, the block
  it witnessed still the network's.
- In `ErgoPublisher` suppliers answer truly of one network or not at all, so
  several are one whose answers may be missing; a supplier that lies is outside
  what the code promises to withstand without a second fee. A chain leaves no
  witnessed block, and a transaction that left every mempool and the chain is
  back only if it is sent again. Boxes count one each towards what a record
  needs, change is always left, and boxes of a kind are ordered by themselves
  (the code: by value). The view starts after its first sync.
- In `ExhaustionPool` and `ExhaustionFolds` what a proof says is its verifier's
  answer; circuits, state hashes and the bytes of files are left out. A proof is
  its inputs, the proofs below it included, and how manieth was made of them: two
  proofs of the same inputs differ, as randomized ones do. A wait is what it keeps
  from happening, without its length.
- A command that its process refuses has written nothing and is not begun. One
  that a tick of the venue or a new owner dooms is dropped with that step.

## Runs

A run that names several components runs one of them per behaviour (`part`) and
leaves the others at their start: what each does is that component's own state
space, not their product. Components are put together where they belong to one
question.

| Run | Question | Bounds |
|---|---|---|
| `calendar` | Does the schedule keep commitments in their terms and a slot for every admitted record, and equal its calendar model? Does the walk over replacements ever rewrite who was in force, or end a term without notice? Are kept, windowed, extended answers those of the whole range? | clock: two backings, lag 2, indices to 7, ends to 10 (an end can appear, move and be withdrawn around two commitments and a restart). Walk: lag 1, forces 4, 5, 7, three records, three entries, clock to 5 (supersession, withdrawal and reappointment, a record before the link it names, a copy). Kept: sequences 1-3 with twins, three records a view, clock to 2 (three windows, two extensions), restorations |
| `segment_and_service` | Do locks, value and ended demands survive any order of records? Do a reader's view and an operator's service agree; does what is final stay what the operator holds, through force, returns and late checkpoints? | segment: three notes (1, 1, 2), five records, indices to 3 (issue, demand, expiry, re-demand, settlement). Service: lag 1, duration 2, index to 8, two records a segment, two forced publications, five commitments (two silences, a return from a return). Slow: lag 2, duration 3, index to 6, three records, one forced, four commitments |
| `pool_honest` | Is an honest checkpoint always replayable? **No**, see below | lag 2, index to 7 |
| `durable` | Does a journal survive crashes, replaced processes and restored copies? Does one transaction of a record land, and does the outbox keep what it must? | one file: three owners, index to 5, three commitments. Copies: two files, two restorations (in place or of a copy), three commitments a file, skip 4, index to 3 (silence, both restorations returning, a late landing of the lost instance, adoption and service). Publisher: two records, one of which needs two boxes, two funding boxes, two transactions a record, depth 1, height to 3, one call waiting |
| `publisher_lost` | Does a lost answer never yield a second, non-conflicting transaction? **No** | as `durable`, three transactions a record and a block more |
| `publisher_reopen` | Does every saved outbox open again? **No** | three records, one funding box, three transactions a record |
| `wallet` | Do interleaved calls, lagging views and lost answers ever make the wallet back two records with a note, misreport an outcome, spend what a demand of its own presented, or accuse itself? | two aliases, two calls under way, one held note, one request, one renewal, index to 2, two segments: a payment reproved while another call reads, a lapse between submission and resolution, a demand over the notes of a payment that failed before it |
| `wallet_keys` | Does any instance of a seed name a key twice, credit a request twice or miss an output? | look-ahead and window of 2, keys to 3, three outputs, one restoration, one payment to itself: a window that grows, a copy that names what its original named |
| `wallet_keys_interrupted` | The same where other calls come between the passes of a read? **No** | as `wallet_keys` |
| `evidence` | Does a mark ever pass what a file holds? Does a reader with one honest source come to resolve? | two checkpoints, the second of which took a fork of what the first took; quota 8, just what the largest answer takes, so that no answer is refused for it (the theorems hold for any quota); one fault a behaviour: a break, a restoration, a damaged row, or a source that leaves one part out |
| `evidence_damage` | Does damage always end a served stream short? **No** | as `evidence`, one damaged row |
| `venue` | Does the view reach the heaviest chain under budgets and quotas? Is a period proved one proof at a time, and again only for damage at or below a place? Does a replica serve only what its view bears out? | view: a chain of four that becomes the heaviest against one of two, budget 1, depth 1, two missing answers, one crash. Pool: periods of one to three leaves a kind, two faults, one stop. Folds: two peers, heights to 3, two tries, two faults |

`CHECK_DEADLOCK FALSE` is set where the bounds end every behaviour; the system
itself never stops. Every property has a mutant that TLC refutes; the one of
`SignsOnce` (a restoration that signs the next sequence) is a defect the
repository once had (`decisions/2026-10.md`, M13d).

Symmetry is used only over notes of equal worth, backings, statements without a
first use and aliases with their outputs, and in no run with a liveness property.

### Liveness and fairness

Four properties say that something must happen.

- `ReadsResolve` (`evidence`): a reader with one honest source comes to hold what
  its read needs. Its premise, `ReaderGoesOn`, is that the reader's commands go
  on; breaks and crashes are finitely many by the plan.
- `FoldMadeInPart` (`venue`): under weak fairness of the pool's work. A round
  comes again after each failure (`cli/venue.ts`) and a backend's call settles.
- `ViewReachesHeaviest` (`venue`): under weak fairness of the sync loop, and of
  the network's mining up to its last header. That the honest supplier fails
  finitely often is a bound (`MaxFailures`).
- `FoldReachesTopInPart` (`venue`): under weak fairness of the replica's turn, of
  a proof under way and of a rest that ends, and strong fairness of the view's
  growth, which a turn's steps may disable again and again.

Nothing of the operator's service is assumed fair: what it promises is stated as
safety (a tail is committed by its slot; a return's adoption is not refused).

### What `pool_honest` shows

`submit` judges a record at the horizon `now + lag` (`v3/store.ts`, `replayOf`
with `horizon`); a reader judges it at the index the checkpoint was witnessed
(`v3/scope-reader.ts`, `index: held.index`), which may be earlier. A note whose
demand has its deadline between the two is free at admission and locked at
replay (`recovery.ts`, `demand.deadline >= at`): the checkpoint is excluded
though every rule was followed and it was witnessed within the lag.
`docs/PROTOCOL_RULES.md:119` says "an honest history stays replayable". It needs
a lag of two; with the lag of one of the repository's tests the claim holds
(theorem `ReplayableAtLagOne`). `ExcludedOnlyByLock`, checked by
`segment_and_service` and proved for every lag, says that this is the only way
an operator's checkpoint is excluded.

### What the publisher's runs show

`publisher_lost`. `#publish` sends a remembered transaction again to a supplier
that lacks it. The submission arrives, its answer does not, and a block takes
the transaction; `#publish` does not ask again whether it is held, `#inspect`
finds its inputs spent and calls them gone, and a second transaction on other
boxes lands too. `docs/ERGO_VENUE_PROFILE.md:413` says "So a lost answer, an
outage or a drop never yields a second, non-conflicting transaction". Readers
take the record once, so the cost is a fee. `OneTransactionLands` (`durable`) excepts such a
record (`exposed`) and holds. It excepts one more case, past the bounds of the
run: `settle` asks the view in its turn and `publish` before it queues
(`src/ergo.ts:600`, `:1051`), so a settle, a publication of a remembered record
and a second sync's settle waiting at once let the first settle forget a record
that the publication then builds anew. The command line runs syncs and
publications in one queue and does not meet it.

`publisher_reopen`. Three publications are chained and none is sent yet. The
second is sent while the first is lacking: its input is gone, and it is rebuilt
on the change of the third. Then the first is sent, the second again: now that
change is gone and the first's is offered, and the rebuild is the record's
first transaction once more, whose change the third spends. It is saved as
unspent and reserved at once, and `#restore` refuses the saved state
(`src/ergo-publisher.ts:676`). `src/ergo-publisher.ts:43` says that the outbox
is stored "so reopening retries the exact signed transaction". `OutboxSound`,
checked by `durable` and proved, says that the reservations themselves stay disjoint.

### What `wallet_keys_interrupted` shows

A read whose window grew saves the `found` and `reached` of the pass but not the
exposure it raised (`v3/wallet-store.ts:898`), and goes on after further awaits.
A request made in between, or after a second pass that failed, is allocated
under the larger window with the old exposure and names an index the lost
instance had named. `wallet-store.ts:1260` says that a restored wallet "never
names a key the lost instance gave another request". Where no call comes between
the passes of a read, `wallet_keys` shows this to hold.

### What `evidence_damage` shows

`reach` takes the only value kept at a position as the cut's own without walking
to it (`v3/evidence-store.ts:962`). Where storage lost the base trail's row there
and kept a fork's, the base is believed to reach the fork's top, the fork's trail
is left out, and the stream still ends whole: the reader marks a selection it
does not hold. `evidence-store.ts:419` says "Storage damage ends the stream short
of its end mark". Under one honest source the reader still resolves (`evidence`).

## Proofs

TLAPS proves the following for every value of the constants that the named
assumptions of the modules admit (`NotesAssumption`, `ServiceAssumption` ...; TLC
evaluates each on every run). They say what the code's own parameters are: a lag
of at least one, finitely many notes with natural values, indices and bounds that
are natural numbers, a mark of absence that is none of the values it stands
beside. The bounds a run gives small values (`MaxSigned`, `MaxHeight` ...) are
arbitrary here. A theorem with a further hypothesis states it.

Each safety theorem follows one pattern: an invariant `Safe...` or `Sound...`
that the initial states satisfy and every step preserves, with one lemma per
action, and the run's property as its consequence. Where an invariant was not
inductive, what it lacked is a named conjunct; these are the arguments. A loop of
the code is a recursive function in the model (`through`, `window`, `standing`,
`after`, `back`): the proofs take it as the function that satisfies its equation, show by
a least counterexample that one exists and that it has its closed form, and go on
with that.

| Module | Theorems | Inductive invariant and argument |
|---|---|---|
| `ReaderProofs` (scope clock) | `ClockSafe`; `CommitmentsInTerm`, `TailsKeepTheirSlot`, `TailsAreCommitted`, `ScheduleIsCalendar` | `SafeClock`: no index is ahead of the clock; a commitment in flight lies a lag below every end that can still be put on record (the lead is twice the lag and one); a tail is younger than a restart's wait and current. `ScheduleIsCalendar` needs only that ends lie in their range: the least boundary at or after an index is the calendar's answer, in each case of `commitNow`, `admissionOpen` and `lapsed`. |
| `SegmentProofs` (rules) | lemmas | The sum over a set of notes (`Counting`, a function over subsets) adds over disjoint sets; a judged statement balances (`CarriesValue`), and its effects keep the value balance (`EffectsConserve`). The induction over cardinality is a least counterexample, by the well-foundedness of `<` on naturals. |
| `SegmentProofs` (state) | `SegmentSafe`; `LocksAreSound`, `DemandsEndOnce`, `ValueIsConserved` | `SafeState`: the type, the lock invariants and `SpentExisted` need one another (a demand is over notes that exist, a spend of unlocked ones). That an ended demand stays ended also needs that a standing demand's statement is effective (`Recorded`). `JudgedFacts` says once what a judged record guarantees, so that the four modes share an argument. |
| `PoolServiceProofs` | `ServiceSound`; `OnTimeCounts`, `AdoptionSucceeds`, `ForceIsFinal`, `ExclusionNeedsALock`, `ReplayableAtLagOne`, `FinalStaysHeld`, `ViewsStand` | `ServiceSafe`: recorded force was lawful when recorded (`ForceOK`); what is canonical is a prefix of the journal's own history or of what it retired, closed by the silence boundaries passed (`CanonOK`, `JournalOK`); every commitment in flight extends the canonical one or is caught by a boundary (`FlightOK`); and every record was judged at its admission over the state before it (`TrailOK`). The hard lemma is that a trail admitted at the horizon replays at an earlier index unless a lock stands between (`ExclusionNeedsALock`). With `Lag = 1` no index lies between the two, hence `ReplayableAtLagOne`, the claim `pool_honest` refutes at a lag of two. `FinalStaysHeld` reads off `CanonOK` and `JournalOK` that a return stands on the last valid checkpoint, which no checkpoint still in flight can move. `ViewsStand` adds `Sound(canon.state, now)`, locks and value balance, which replay, force and adoption keep by the lemmas on sums. |
| `DurableProofs` (journal) | `JournalSound`; `RowsAreKept`, `MarksFollowTheVenue`, `OnePathSignsOnce`, `SigningHoldsTheRecord` | `SoundJournal`: rows of a file follow one another and bear their marks (`FilesSound`), what is witnessed or in flight has its row where it was signed (`RecordSound`), and an operation under way, from its read to its write, holds what its file holds while its process owns the fence (`OpsSound`). `OnePathSignsOnce` assumes `Files = {Original}`: processes that crash and replace one another and rows restored in place. |
| `ReaderProofs` (walk) | `RecordSound`; `ForceIsNeverRewritten`, `ChainsAreSettled`, `WalkImplementsEnds` | `WalkTypeOK` is inductive by itself: the argument is over one record read at two indices. A record's first entry is the same in both (`WitnessedOnce`), so an index puts forward the same candidate (`StandsAlike`); one witnessed later leaves its lead floor ahead of it, so what stands at the end of the loop either stood before or was in force at neither index (`StandingKeeps`), and the later chain agrees with the earlier up to the earlier index (`ChainGoesOn`). `ChainsAreSettled` says the same of a step. `WalkImplementsEnds` is the refinement, step by step: an end appears, moves or goes only a lead after the clock. |
| `ReaderProofs` (kept answers) | `AnswersSound`; `KeptAnswersHold` | `KeptSound`: unless the view is behind what is kept, the rows kept through an index are what the record holds through it and `highest` is its highest sequence; a first entry and a revocation likewise; while it is behind, no read is open, and it stays behind until one opens and discards. A window's closed form (`AnyWindows`) does not mention how the range was cut. The one-row queries follow since sequence rises with index over held rows (`HeldRises`). |
| `WalletProofs` | `WalletSound`; `OutcomesAreTrue`, `NotesReservedOnce`, `ReceiptsStay`, `NeverTakesItselfForAnother`, `NeverLinksItsSpends` | `SoundWallet`: every view extends the older ones and the operator's tail extends the newest, locks and force judged (`ChainSound`); whatever of the wallet's notes any view or tail spends, a saved record or a call's record spends (`Provenance`); a waiting call's read is of some view passed (`CallsKnown`); a superseded record's notes are its successor's, and a failed record can never apply again (`SupersededOver`, `FailedDead`). `NeverLinksItsSpends` adds `Unlinked`: a payment or burn over notes that a saved demand presents has failed, whichever was saved first; with what keeps failed and replaced statements out it is in no history. |
| `WalletKeysProofs` | `KeysStaySound`; `KeysNamedOnce`, `RequestsCreditedOnce`, `FundsAreFound` | `KeysSound`: an instance, a copy or a backup has reached no further than the longest view read and its window covers what it judged (`Known`); the history's keys open no gap wider than the look-ahead (`History`), since a key is named within it of what was reached; and a wallet that knows its exposure has every key named so far within it, or its whole window exposed until it moves on from a view that reaches them all (`Covers`). The window's doublings are a recursive function with the least power above its argument (`WindowsAbove`). Each pass of a read raises what was reached or is the last, so the passes the model allows suffice (`ReadAll`), and over a dense history the last marks every output in the view (`AllMarked`). |
| `DurableProofs` (publisher) | `PublisherSound`; `OutboxIsSound` | `SoundOutbox`: chain and mempool are well formed, a turn past its build has a remembered transaction, and a build's inputs are its own change or offered boxes, which no unsettled publication spends. Hypothesis `NothingIsNoEntry`: the mark of absence is no outbox entry. |
| `VenueProofs` (view) | `ViewSound`; `RowsAreReproduced`, `HeaviestIsWitnessed` | A parent relation that descends from no header to itself (`HeadersAssumption`) admits a function by steps from each header's parent (`TreeFoldExists`), so `Paths` and `Scores` have their equations, paths are chains, and two paths agree up to where they meet (`Meeting`). `SoundView`: every store, in memory and committed, holds whole paths and a tip that nothing in it outscores, through `AddPath` and `Prune`; the rows lie on one path of the committed store, below a kept header by the depth unless the view failed (`RowsOn`). `OnHeaviest`, for the second: while the honest supplier answers, the clock's block is on the network's chain, and its pass ended at that chain's tip or at the budget past the clock's block. A pass to the tip leaves the best chain at least as heavy, which parts from the network's within the depth (`NetworkAssumption`), so the bound by the depth stays below; a pass its budget stopped bounds the clock where it meets the best chain. Hypothesis `[]QuotaLeft`: the honest supplier's side quota is not spent, since past it the code takes a supplier to be withholding and bounds the clock by nothing of it. |
| `VenueProofs` (exhaustion) | `PoolSound`; `LeavesProveInTurn`, `ProvesAgainForDamage`, `LeavesSpanThePeriod`, `ReplicaSound`, `FoldsAreSound` | `SoundPool`: in each call leaves start in order, two at most, and only the last call is not failed; no leaf is under way where a whole file of it is kept; of the same inputs, child proofs included, a proof was made at most once more than its file was damaged, and no more often while the file is not whole (`MadeForKept`). `LeavesKept`: the leaves emitted so far are the differences of the period's prefix sums, each turn of the loop adds at most one full leaf, and a level of the tree joins what it takes in without gap or overlap, whatever the period's blocks. `SoundReplica`: a proof runs beside rounds only and over its pending period, what is served is the latest fold, which the view bears out, and a disagreement stops all. |
| `EvidenceProofs` (damage) | `SupplySound`; `EvidenceReadsGenuinely` | `SoundSupply`: a row kept under a value names the value it was kept over or, damaged, nobody's (`GenuineRow`), and no file keeps a row under nobody's value; a source's index and every part on its way name only what checkpoints name, and a part that ends whole carries the records after its base (`After`). So a walk back from a verified value either stops short or meets each of its prefixes, and a row taken as the only one at its position is chained down from a verified one (`ChainRecords`). Files restored from any copy satisfy the same. The loops (`Back`, `topTrails`, `Sent`) are shown to exist and stay within what is supplied. |
| `EvidenceProofs` (marks) | `SupplyKept`; `MarksAreKept`, `ReplicaServesEnough` | A file no storage damaged is clean (`CleanFile`): each row lies over the one before it and its segment's head is kept, so a trail is found exactly where it is held, a walk or a stream of it comes to its end, beside forks too (`CleanWalk`, `CleanForward`), and what is said to be passed is a prefix (`CleanReaches`). `KeptSupply`: what an answer would move a mark to is held or among the parts still to come, until a part is not kept (`Comes`, which `PartKept` carries through a stream and `AnswerComes` starts); so a mark moved at the end is kept, and a replica's own index changes nothing below it, as what is pending goes only under a selection above every one served. `Servable`: the index names just what the replica's file keeps and, under what it serves, all that a read of it uses; filling an empty file with the whole answer then resolves (`FillHolds`). `Servable` holds of the copy too, hence of a restored file; the marks are promised only while no file is put back, as a restored replica's index may be behind a reader's mark. |

What stays with TLC, and why:

- Liveness (`ReadsResolve`, `FoldMadeInPart`, `ViewReachesHeaviest`,
  `FoldReachesTopInPart`): fairness and `ENABLED` are out of the prover's reach.
- `ProvedForDamage`, the last part of `ProvingSound`: a leaf made again gives what is above it new inputs, so the
  whole tree is bounded by summing the damage under each place, level by level;
  `LeavesProveInTurn` and `ProvesAgainForDamage` prove the other two parts, one
  proof at a time and the bound for each set of inputs.
- `SignsOnce` with restored copies. It rests on the spacings that restorations
  draw being distinct, which the code makes likely and not certain.
- `OneTransactionLands`, which excepts what a lost answer exposed and relates the
  chain, every mempool and the turn's history; its inductive form is not known.

The theorems cover what the modules say, under their abstractions: nothing is
proved of byte encodings, signatures or circuits, and `Proved` is assumed of a
verified proof.

## Plan

Modelled next:

1. Terms in `PoolService`: a reader's `linkInForce` and a successor's takeover,
   from `ReplacementChain`; `rescope`, `takeover` and imports of several parents.
2. `Receipts`: verdicts of receipts over the classes a reader gives.
3. `ErgoVenue`: `ErgoView` shown to implement the venue of `PoolService`.
4. An abstract ledger (notes, locks, finality) that `PoolService` implements.

Proved next:

1. If an inductive form is found, `OneTransactionLands`.

Not to be modelled: hashing, signatures, circuits and their aggregation, byte
encodings and framing, browser shims, argument parsing and printing. They are
pure computation or I/O that TLC cannot reach and no property here depends on
beyond what `Proved` states.
