-------------------------- MODULE OperatorJournal --------------------------
(* The operator's journal as a file (src/pool/v3/store.ts): commands judged  *)
(* over an await and written in one transaction under the owner fence,       *)
(* processes that crash, restart or are replaced, backups copied at any      *)
(* moment, and copies that are restored beside the instance they were taken  *)
(* from, which may be lost or still running.  All of them hold one key.      *)
(*                                                                           *)
(* Statements are opaque: SegmentRules has their rules.  No publication      *)
(* forces, so a return's block is empty: PoolService has blocks.             *)
EXTENDS ScopeSchedule, SequencesExt

CONSTANTS
  Files,        \* the paths a journal may be at
  Original,     \* the one of them it was made at
  Statements,   \* the statements clients submit
  Spacings,     \* the spacings restorations draw: no two draw one
  LostInFlight, \* LOST_IN_FLIGHT
  Skip,         \* RESTORED_SKIP, which is more
  Lag,          \* the venue's lag, at least one
  Duration,     \* the terms' no-commitment duration
  MaxIndex,     \* bound on the venue's index
  MaxOwner,     \* bound on the owner a plain opening reaches
  MaxSigned,    \* bound on the commitments in one file
  MaxTrail      \* bound on the records of a segment

VARIABLES
  now,     \* the venue's witnessed index
  flight,  \* commitments the venue took and has not witnessed
  record,  \* the commitments it witnessed, each held or not
  latest,  \* the latest held commitment
  canon,   \* the latest valid checkpoint, and its index
  files,   \* path -> the journal's rows, or None where there is no file
  ops,     \* the commands in progress, each with its process's memory
  drawn    \* the spacings drawn so far

journal == <<now, flight, record, latest, canon, files, ops, drawn>>

\* The shapes of a segment, a commitment and a journal's rows.
Segment == [seq : Nat, parent : Nat]

Checkpoint == [seq : Nat, seg : Segment, trail : Seq(Statements)]

Rows ==
  [owner : Nat, made : BOOLEAN, resumed : Nat \cup {None},
   seg : Segment, trail : Seq(Statements), pending : BOOLEAN,
   receipts : SUBSET [seg : Segment, position : Nat, statement : Statements],
   signed : SUBSET Checkpoint,
   last : [c : Checkpoint, at : Nat, observed : Checkpoint \cup {None}, published : BOOLEAN],
   fence : [spacing : Nat, opening : Nat \cup {None}] \cup {None},
   skipped : SUBSET [sequence : Nat, below : Nat]]

\* The spacings and the skip are numbers, and no journal's rows are the mark of
\* a path without a file.
ASSUME JournalAssumption ==
  /\ Original \in Files
  /\ Spacings \subseteq Nat /\ Skip \in Nat \ {0}
  /\ None \notin Rows

\* A segment's identity is its opening; a commitment is over a segment's trail.
Commitment(seq, seg, trail) == [seq |-> seq, seg |-> seg, trail |-> trail]

OpeningOf(seq, parent) == Commitment(seq, [seq |-> seq, parent |-> parent], <<>>)

Signed(c, at, observed) == [c |-> c, at |-> at, observed |-> observed, published |-> FALSE]

Genesis == OpeningOf(1, 0)

\* The genesis opening is published and witnessed.
JournalInit ==
  /\ now = 0
  /\ flight = {}
  /\ record = {[c |-> Genesis, held |-> TRUE]}
  /\ latest = Genesis
  /\ canon = [c |-> Genesis, index |-> 0]
  /\ files = [f \in Files |-> IF f # Original THEN None ELSE
       [owner |-> 1, made |-> TRUE, resumed |-> None,
        seg |-> Genesis.seg, trail |-> <<>>, pending |-> FALSE, receipts |-> {},
        signed |-> {Genesis},
        last |-> [Signed(Genesis, 0, None) EXCEPT !.published = TRUE],
        fence |-> None, skipped |-> {}]]
  /\ ops = {}
  /\ drawn = {}

-----------------------------------------------------------------------------
(* The venue and what every reader makes of its record. *)

Held(c) == \E e \in record : e.held /\ e.c = c

GapOpen(t) == t - canon.index > Duration

IsOpening(c) == c.seq = c.seg.seq

\* Whether c, held at t, is valid: an opening from the last valid checkpoint,
\* or a continuation of its segment that no silence lapsed.
Valid(c, t) ==
  \/ IsOpening(c) /\ c.seg.parent = canon.c.seq
  \/ /\ ~IsOpening(c) /\ ~GapOpen(t)
     /\ c.seg = canon.c.seg /\ IsPrefix(canon.c.trail, c.trail)

Witness(c) ==
  LET held == c.seq > latest.seq
  IN /\ record' = record \cup {[c |-> c, held |-> held]}
     /\ flight' = flight \ {c}
     /\ latest' = IF held THEN c ELSE latest
     /\ canon' = IF held /\ Valid(c, now + 1) THEN [c |-> c, index |-> now + 1] ELSE canon

-----------------------------------------------------------------------------
(* The commands in progress that can still end otherwise than in a refusal.  *)
(* The others are dropped with the step that dooms them, having written      *)
(* nothing; so is one its process refuses for its own reasons, not begun.    *)

\* Mutation: a replaced process may still write.
OwnsAlways(op) == op.owner <= files[op.file].owner

Owns(op) == op.owner = files[op.file].owner

Signing == {"submit", "commit", "return", "adopt"}

\* Mutation: the venue may have moved during the await.
StableAlways(op) == op.at <= now

\* A signing transaction is over the view the command was judged by.
Stable(op) == op.kind \in Signing => op.at = now

\* A venue call begun under the fence is made, whoever owns the file by then.
Surviving(op) == (Owns(op) \/ op.kind = "publish") /\ Stable(op)

Tick ==
  /\ now < MaxIndex
  /\ now' = now + 1
  /\ \/ UNCHANGED <<flight, record, latest, canon>>
     \/ \E c \in flight : Witness(c)
  /\ UNCHANGED <<files, drawn>>
  /\ ops' = {op \in ops : Surviving(op)'}

-----------------------------------------------------------------------------
(* Processes, backups and restorations. *)

Exists(f) == files[f] # None

\* A process opens the file it was made in, and fences every earlier one.
Open(f) ==
  /\ Exists(f) /\ files[f].made /\ files[f].owner < MaxOwner
  /\ files' = [files EXCEPT ![f].owner = @ + 1, ![f].resumed = now]
  /\ UNCHANGED <<now, flight, record, latest, canon, drawn>>
  /\ ops' = {op \in ops : Surviving(op)'}

\* A backup of the rows is put at another path.
Copy(f, g) ==
  /\ Exists(f) /\ ~Exists(g)
  /\ files' = [files EXCEPT ![g] = [files[f] EXCEPT !.made = FALSE]]
  /\ UNCHANGED <<now, flight, record, latest, canon, ops, drawn>>

\* A recording drops a fence whose return is signed, and draws a fresh spacing.
FenceAfter(file, spacing) == [spacing |-> spacing, opening |-> None]

Restore(f, spacing) ==
  /\ Exists(f) /\ spacing \notin drawn
  /\ LET file == [files[f] EXCEPT !.owner = @ + 1, !.resumed = now, !.made = TRUE,
                                  !.fence = FenceAfter(files[f], spacing)]
     IN files' = [files EXCEPT ![f] = file]
  /\ drawn' = drawn \cup {spacing}
  /\ UNCHANGED <<now, flight, record, latest, canon>>
  /\ ops' = {op \in ops : Surviving(op)'}

-----------------------------------------------------------------------------
(* A command's view of the venue, and the guards it passes before its await. *)

\* A commitment of the lost instance, landing late below a recorded skip.
LostInstance(file, seq) ==
  \E k \in file.skipped :
     k.below < seq /\ seq <= k.below + LostInFlight /\ seq < k.sequence

\* The record shows a commitment of this key the rows do not.  Each window of
\* it is judged once and a conflict found is kept; a journal that found one
\* signs nothing more, so judging the whole record again finds it again.
Foreign(file) ==
  \E e \in record : e.c \notin file.signed /\ ~LostInstance(file, e.c.seq)

\* The evidence of every held commitment is the journal's own.
Readable(file) == \A e \in record : e.held => e.c \in file.signed

Current(file) ==
  \/ latest = file.last.c
  \/ file.last.published /\ now < file.last.at + Lag /\ latest = file.last.observed

Clock(file, unwitnessed) ==
  [now |-> now, lag |-> Lag, boundaries |-> {}, resumedAt |-> file.resumed,
   unwitnessedSignedAt |-> unwitnessed]

ServiceClock(file) == Readable(file) /\ now + Lag - canon.index <= Duration

ReadyClock(file) == Clock(file, IF Held(file.last.c) THEN None ELSE file.last.at)

InService(file) ==
  /\ ~Foreign(file) /\ file.fence = None /\ ~file.pending
  /\ Current(file) /\ ServiceClock(file)

MaySubmit(file, s) ==
  /\ Len(file.trail) < MaxTrail /\ s \notin {x.statement : x \in file.receipts}
  /\ InService(file) /\ AdmissionOpen(ReadyClock(file))

MayCommit(file) ==
  /\ Cardinality(file.signed) < MaxSigned
  /\ InService(file) /\ CommitNow(ReadyClock(file))

MayReturn(file) ==
  /\ Cardinality(file.signed) < MaxSigned
  /\ ~Foreign(file)
  /\ file.pending => Held(file.last.c)
  /\ file.fence # None => file.fence.opening = None
  /\ CommitNow(Clock(file, None))
  /\ Readable(file) /\ GapOpen(now) /\ canon.c.seg = file.seg

MayAdopt(file) ==
  /\ file.pending /\ ~Foreign(file) /\ AdmissionOpen(Clock(file, None))
  /\ Held(file.last.c) /\ ServiceClock(file) /\ canon.c = file.last.c

MayPublish(file) == latest.seq <= file.last.c.seq

-----------------------------------------------------------------------------
(* What each command writes, from the memory it was judged with. *)

Receipt(file, s) == [seg |-> file.seg, position |-> Len(file.trail) + 1, statement |-> s]

Admitted(file, s) ==
  [file EXCEPT !.trail = Append(@, s), !.receipts = @ \cup {Receipt(file, s)}]

SignedNext(file, c) ==
  [file EXCEPT !.signed = @ \cup {c}, !.last = Signed(c, now, latest)]

NextSequence(file) == file.last.c.seq + 1

\* Mutation: a restored journal's return takes the next sequence.
RestoredNext(file) == NextSequence(file)

RestoredSequence(file) ==
  Max({file.last.c.seq, latest.seq}) + Skip * (1 + file.fence.spacing)

\* The return's empty segment; a restored one's skip is recorded with it.
Returned(file) ==
  LET restored == file.fence # None
      seq == IF restored THEN RestoredSequence(file) ELSE NextSequence(file)
      c == OpeningOf(seq, canon.c.seq)
  IN [SignedNext(file, c) EXCEPT
        !.seg = c.seg, !.trail = <<>>, !.pending = TRUE,
        !.fence = IF restored THEN [@ EXCEPT !.opening = seq] ELSE @,
        !.skipped = IF restored
                    THEN @ \cup {[sequence |-> seq, below |-> file.last.c.seq]} ELSE @]

\* Only the restoration's own return lifts its fence.
Adopted(file) ==
  [file EXCEPT !.pending = FALSE,
               !.fence = IF @ # None /\ @.opening = file.seg.seq THEN None ELSE @]

Written(op) ==
  CASE op.kind = "submit" -> Admitted(op.memory, op.statement)
    [] op.kind = "commit" -> SignedNext(op.memory,
         Commitment(NextSequence(op.memory), op.memory.seg, op.memory.trail))
    [] op.kind = "return" -> Returned(op.memory)
    [] op.kind = "adopt" -> Adopted(op.memory)
    [] op.kind = "marking" -> [op.memory EXCEPT !.last.published = TRUE]

-----------------------------------------------------------------------------
(* A command: its view is kept, it is judged, it awaits, its transaction is  *)
(* written under the fence.  One command at a time in a process.             *)

Free(f) == Exists(f) /\ files[f].made /\
           ~\E op \in ops : op.file = f /\ op.owner = files[f].owner

Judge(f, kind, s) ==
  /\ ops' = ops \cup {[file |-> f, owner |-> files[f].owner, kind |-> kind,
                       statement |-> s, at |-> IF kind \in Signing THEN now ELSE 0,
                       memory |-> files[f]]}
  /\ UNCHANGED <<now, flight, record, latest, canon, files, drawn>>

SubmitStatement(f) == \E s \in Statements :
  Free(f) /\ MaySubmit(files[f], s) /\ Judge(f, "submit", s)

Commit(f) == Free(f) /\ MayCommit(files[f]) /\ Judge(f, "commit", None)

Return(f) == Free(f) /\ MayReturn(files[f]) /\ Judge(f, "return", None)

Adopt(f) == Free(f) /\ MayAdopt(files[f]) /\ Judge(f, "adopt", None)

\* Publishing again what the venue has taken or holds changes nothing.

\* Mutation: the mark is written before the venue call.
PublishMarksFirst(f) ==
  /\ Free(f) /\ ~files[f].last.published /\ MayPublish(files[f])
  /\ Judge(f, "marking", None)

Publish(f) ==
  /\ Free(f) /\ ~files[f].last.published /\ MayPublish(files[f])
  /\ Judge(f, IF Held(files[f].last.c) THEN "marking" ELSE "publish", None)

Finish(op) ==
  /\ op.kind # "publish" /\ Surviving(op)
  /\ files' = [files EXCEPT ![op.file] =
                 [Written(op) EXCEPT !.owner = files[op.file].owner]]
  /\ ops' = ops \ {op}
  /\ UNCHANGED <<now, flight, record, latest, canon, drawn>>

\* The venue takes the commitment; that it did is marked afterwards.
Hand(op) ==
  /\ op.kind = "publish"
  /\ flight' = IF \E e \in record : e.c = op.memory.last.c THEN flight
               ELSE flight \cup {op.memory.last.c}
  /\ ops' = (ops \ {op}) \cup {m \in {[op EXCEPT !.kind = "marking"]} : Owns(m)}
  /\ UNCHANGED <<now, record, latest, canon, files, drawn>>

JournalNext ==
  \/ Tick
  \/ \E f \in Files : Open(f)
  \/ \E f, g \in Files : Copy(f, g)
  \/ \E f \in Files, spacing \in Spacings : Restore(f, spacing)
  \/ \E f \in Files :
       SubmitStatement(f) \/ Commit(f) \/ Return(f) \/ Adopt(f) \/ Publish(f)
  \/ \E op \in ops : Finish(op) \/ Hand(op)

JournalSpec == JournalInit /\ [][JournalNext]_journal

-----------------------------------------------------------------------------
Instances == {f \in Files : Exists(f)}

Signatures == UNION {files[f].signed : f \in Instances}

Receipts == UNION {files[f].receipts : f \in Instances}

\* Every commitment at the venue has its row in some journal (a crash or an
\* obsolete writer loses none), each journal's segment and trail are those of
\* its latest row, and no command is from a later process than the file's.
RowsKept ==
  /\ {e.c : e \in record} \cup flight \subseteq Signatures
  /\ \A f \in Instances :
       /\ files[f].last.c \in files[f].signed
       /\ files[f].seg = files[f].last.c.seg
       /\ IsPrefix(files[f].last.c.trail, files[f].trail)
  /\ \A op \in ops : op.owner <= files[op.file].owner /\ op.at <= now

\* C2.4.1: the key never signs two commitments at one sequence, whichever of
\* its instances sign: replaced processes, lost originals, restored copies and
\* copies of those.
NoEquivocation ==
  \A c, d \in Signatures : c.seq = d.seq => c = d

\* No two instances co-sign different statements at one position of a segment,
\* so no holder of a receipt finds another's history in its place.
NoReceiptFork ==
  \A r, q \in Receipts :
     r.seg = q.seg /\ r.position = q.position => r = q

\* The key signs once, a sequence or a position of a segment, whichever of its
\* instances sign.
SignsOnce == NoEquivocation /\ NoReceiptFork

\* A commitment marked published was taken by the venue, whatever crashed
\* between the call and the mark: current service rests on the mark.
PublishedWasTaken ==
  \A f \in Instances : files[f].last.published =>
     files[f].last.c \in flight \cup {e.c : e \in record}

\* Every instance that signs holds the record's latest commitment.
SignsHolding ==
  \A f \in Instances :
     /\ files'[f].signed # files[f].signed => latest \in files[f].signed
     /\ files'[f].receipts # files[f].receipts => latest \in files[f].signed

\* An obsolete instance signs nothing once the record's latest commitment of
\* the key is one it did not sign, also when it landed during a command's await.
SignsOverOwnRecord == [][SignsHolding]_journal
=============================================================================
