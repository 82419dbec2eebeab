---------------------------- MODULE DurableProofs ----------------------------
(* Proofs about what survives a crash. The operator's journal, for every     *)
(* number of files, every venue lag and duration and journals of any length: *)
(* no crash, restart or restoration loses a row the venue has seen, a mark   *)
(* is never ahead of the venue, an instance signs over its own record only,  *)
(* and the instances that follow one another at one path never sign one      *)
(* sequence twice. The publisher's outbox, for any records, boxes and chain: *)
(* it tells what is on the network of every record, and its publications     *)
(* spend no box twice and none above their height.                           *)
EXTENDS OperatorJournal, ErgoPublisher, FiniteSetTheorems, SequenceTheorems,
        WellFoundedInduction, TLAPS

Kinds == Signing \cup {"publish", "marking"}

Commands ==
  [file : Files, owner : Nat, kind : Kinds, statement : Statements \cup {None},
   at : Nat, memory : Rows]

-----------------------------------------------------------------------------
\* Indices, commitments, files and commands have their shapes.
JournalTypeOK ==
  /\ now \in Nat
  /\ flight \subseteq Checkpoint
  /\ record \subseteq [c : Checkpoint, held : BOOLEAN]
  /\ latest \in Checkpoint
  /\ canon \in [c : Checkpoint, index : Nat]
  /\ files \in [Files -> Rows \cup {None}]
  /\ ops \subseteq Commands

AtVenue == {e.c : e \in record} \cup flight

\* A journal's latest row is its segment and begins its trail.
LatestRow(file) ==
  /\ file.last.c \in file.signed
  /\ file.seg = file.last.c.seg
  /\ IsPrefix(file.last.c.trail, file.trail)

\* The rows of one path: its latest commitment has the highest sequence, no
\* sequence is signed twice, and no position of a segment is receipted twice.
SignedOnce(file) ==
  /\ \A c \in file.signed : c.seq <= file.last.c.seq
  /\ \A c, d \in file.signed : c.seq = d.seq => c = d
  /\ file.seg.seq <= file.last.c.seq
  /\ \A r \in file.receipts :
       /\ r.seg.seq <= file.last.c.seq
       /\ r.seg = file.seg => r.position <= Len(file.trail)
  /\ \A r, q \in file.receipts :
       r.seg = q.seg /\ r.position = q.position => r = q

FilesSound ==
  \A f \in Instances :
     /\ LatestRow(files[f]) /\ SignedOnce(files[f])
     /\ files[f].last.published => files[f].last.c \in AtVenue

RecordSound ==
  /\ AtVenue \subseteq Signatures
  /\ \E e \in record : e.held /\ e.c = latest

\* A command of the file's owner holds the file's rows: nothing wrote them since
\* it was judged.  One that signs was judged over the present record, and one
\* that marks follows the venue call.
OpsSound ==
  /\ \A op \in ops :
       /\ op.file \in Instances
       /\ op.owner <= files[op.file].owner /\ op.at <= now
       /\ op.memory.last.c \in files[op.file].signed
       /\ Owns(op) => op.memory = files[op.file]
       /\ op.kind # "publish" => Owns(op)
       /\ op.kind \in Signing \ {"adopt"} => op.at = now /\ latest \in op.memory.signed
       /\ op.kind = "adopt" => op.at = now
       /\ op.kind = "marking" => op.memory.last.c \in AtVenue
       /\ op.kind = "submit" => op.statement \in Statements
  /\ \A op, other \in ops :
       op.file = other.file /\ Owns(op) /\ Owns(other) => op = other

\* The inductive invariant.
SoundJournal == JournalTypeOK /\ FilesSound /\ RecordSound /\ OpsSound

-----------------------------------------------------------------------------
(* What each command writes.                                                 *)

\* A trail is a prefix of itself, and of itself with one more record.
LEMMA PrefixLonger ==
  ASSUME NEW S, NEW s \in Seq(S), NEW t \in Seq(S), NEW e \in S, IsPrefix(s, t)
  PROVE  IsPrefix(t, t) /\ IsPrefix(s, Append(t, e))
<1>1. Len(s) \in Nat /\ Len(t) \in Nat /\ Len(s) <= Len(t)
  BY LenProperties DEF IsPrefix
<1>2. /\ Append(t, e) \in Seq(S) /\ Len(Append(t, e)) = Len(t) + 1
      /\ \A i \in 1..Len(t) : Append(t, e)[i] = t[i]
  BY AppendProperties
<1>3. \A i \in 1..Len(s) : t[i] \in S /\ Append(t, e)[i] \in S
  BY <1>1, <1>2, ElementOfSeq
<1> DEFINE a == SubSeq(t, 1, Len(s))
           b == SubSeq(Append(t, e), 1, Len(s))
<1>4. /\ a \in Seq(S) /\ Len(a) = (IF 1 <= Len(s) THEN Len(s) - 1 + 1 ELSE 0)
      /\ \A i \in 1..Len(s) - 1 + 1 : a[i] = t[1 + i - 1]
  BY <1>1, <1>3, SubSeqProperties
<1>5. /\ b \in Seq(S) /\ Len(b) = (IF 1 <= Len(s) THEN Len(s) - 1 + 1 ELSE 0)
      /\ \A i \in 1..Len(s) - 1 + 1 : b[i] = Append(t, e)[1 + i - 1]
  BY <1>1, <1>3, SubSeqProperties
<1>6. Len(a) = Len(s) /\ Len(b) = Len(s)
  BY <1>1, <1>4, <1>5
<1>7. \A i \in 1..Len(s) : a[i] = t[i] /\ b[i] = Append(t, e)[i]
  BY <1>1, <1>4, <1>5
<1>8. a = b
  BY <1>1, <1>2, <1>4, <1>5, <1>6, <1>7, SeqEqual
<1> QED BY <1>1, <1>2, <1>8 DEF IsPrefix

\* A co-signed record takes a position past every receipt of the segment.
LEMMA AdmittedSound ==
  ASSUME NEW file \in Rows, LatestRow(file), SignedOnce(file), NEW s \in Statements
  PROVE  LET w == Admitted(file, s)
         IN /\ w \in Rows /\ LatestRow(w) /\ SignedOnce(w)
            /\ w.signed = file.signed /\ w.last = file.last /\ w.owner = file.owner
<1> DEFINE w == Admitted(file, s)
           r == Receipt(file, s)
<1>1. /\ file.trail \in Seq(Statements) /\ file.seg \in Segment /\ file.last.c \in Checkpoint
      /\ file.receipts \subseteq [seg : Segment, position : Nat, statement : Statements]
  BY DEF Rows
<1>2. /\ Append(file.trail, s) \in Seq(Statements)
      /\ Len(file.trail) \in Nat /\ Len(Append(file.trail, s)) = Len(file.trail) + 1
      /\ file.last.c.trail \in Seq(Statements)
  BY <1>1, AppendProperties, LenProperties DEF Checkpoint
<1>3. r \in [seg : Segment, position : Nat, statement : Statements]
      /\ r.seg = file.seg /\ r.position = Len(file.trail) + 1
  BY <1>1, <1>2 DEF Receipt
<1>4. /\ w \in Rows
      /\ w.trail = Append(file.trail, s) /\ w.receipts = file.receipts \cup {r}
      /\ w.signed = file.signed /\ w.last = file.last /\ w.seg = file.seg /\ w.owner = file.owner
  BY <1>1, <1>2, <1>3 DEF Admitted, Rows
<1> HIDE DEF w, r
<1>5. LatestRow(w)
  BY <1>1, <1>2, <1>4, PrefixLonger DEF LatestRow
<1>6. \A q \in file.receipts : q.position \in Nat /\ (q.seg = file.seg => q.position <= Len(file.trail))
  BY <1>1 DEF SignedOnce
<1>7. ASSUME NEW p \in w.receipts, NEW q \in w.receipts, p.seg = q.seg, p.position = q.position
      PROVE  p = q
  <2>1. \A x \in file.receipts : x.seg = r.seg => x.position # r.position
    BY <1>2, <1>3, <1>6
  <2>2. CASE p \in file.receipts /\ q \in file.receipts
    BY <1>7, <2>2 DEF SignedOnce
  <2> QED BY <1>4, <1>7, <2>1, <2>2
<1>8. \A p \in w.receipts :
        /\ p.seg.seq <= file.last.c.seq
        /\ p.seg = file.seg => p.position <= Len(file.trail) + 1
  BY <1>2, <1>3, <1>4, <1>6 DEF SignedOnce
<1>9. SignedOnce(w)
  BY <1>2, <1>4, <1>7, <1>8 DEF SignedOnce
<1> QED BY <1>4, <1>5, <1>9 DEF w

\* A commitment over the segment signs the next sequence.
LEMMA CommittedSound ==
  ASSUME NEW file \in Rows, LatestRow(file), SignedOnce(file),
         now \in Nat, latest \in Checkpoint
  PROVE  LET c == Commitment(NextSequence(file), file.seg, file.trail)
             w == SignedNext(file, c)
         IN /\ w \in Rows /\ LatestRow(w) /\ SignedOnce(w)
            /\ w.signed = file.signed \cup {c} /\ ~w.last.published
            /\ w.receipts = file.receipts /\ w.owner = file.owner
<1> DEFINE c == Commitment(NextSequence(file), file.seg, file.trail)
           w == SignedNext(file, c)
           l == Signed(c, now, latest)
<1>1. /\ file.trail \in Seq(Statements) /\ file.seg \in Segment /\ file.last.c \in Checkpoint
      /\ file.signed \subseteq Checkpoint /\ file.last.c.seq \in Nat
      /\ \A d \in file.signed : d.seq \in Nat
      /\ \A r \in file.receipts : r.seg.seq \in Nat
      /\ file.seg.seq \in Nat
  BY DEF Rows, Checkpoint, Segment
<1>2. /\ c \in Checkpoint /\ c.seq = file.last.c.seq + 1
      /\ c.seg = file.seg /\ c.trail = file.trail
  BY <1>1 DEF Checkpoint, Commitment, NextSequence
<1>3. /\ l \in [c : Checkpoint, at : Nat, observed : Checkpoint \cup {None}, published : BOOLEAN]
      /\ l.c = c /\ ~l.published
  BY <1>2 DEF Signed
<1>4. /\ w \in Rows
      /\ w.signed = file.signed \cup {c} /\ w.last = l
      /\ w.trail = file.trail /\ w.seg = file.seg
      /\ w.receipts = file.receipts /\ w.owner = file.owner
  BY <1>1, <1>2, <1>3 DEF SignedNext, Rows
<1> HIDE DEF w, c, l
<1>5. LatestRow(w)
  <2>1. IsPrefix(file.trail, file.trail)
    BY <1>1 DEF IsPrefix
  <2> QED BY <1>2, <1>3, <1>4, <2>1 DEF LatestRow
<1>6. /\ \A d \in file.signed : d.seq < c.seq
      /\ file.seg.seq <= c.seq
      /\ \A r \in file.receipts : r.seg.seq <= c.seq
  BY <1>1, <1>2 DEF SignedOnce
<1>7. \A d, e \in w.signed : d.seq = e.seq => d = e
  BY <1>1, <1>2, <1>4, <1>6 DEF SignedOnce
<1>8. \A d \in w.signed : d.seq <= c.seq
  BY <1>1, <1>2, <1>4, <1>6
<1>9. SignedOnce(w)
  BY <1>3, <1>4, <1>6, <1>7, <1>8 DEF SignedOnce
<1> QED BY <1>3, <1>4, <1>5, <1>9 DEF w, c

\* A return's sequence is past every one the rows hold, restored or not.
LEMMA ReturnSequence ==
  ASSUME NEW file \in Rows, latest \in Checkpoint, file.fence # None
  PROVE  RestoredSequence(file) \in Nat /\ RestoredSequence(file) > file.last.c.seq
<1>1. /\ file.last.c.seq \in Nat /\ latest.seq \in Nat
      /\ file.fence.spacing \in Nat /\ Skip \in Nat /\ Skip >= 1
  BY JournalAssumption DEF Rows, Checkpoint
<1> DEFINE highest == Max({file.last.c.seq, latest.seq})
           skip == Skip * (1 + file.fence.spacing)
<1>2. highest \in Nat /\ highest >= file.last.c.seq
  <2>1. \E x \in {file.last.c.seq, latest.seq} :
          \A y \in {file.last.c.seq, latest.seq} : x >= y
    BY <1>1
  <2> QED BY <1>1, <2>1 DEF Max
<1>3. skip \in Nat /\ skip >= 1
  <2>1. \A a \in Nat, b \in Nat : a >= 1 => a * (1 + b) \in Nat /\ a * (1 + b) >= 1
    OBVIOUS
  <2> QED BY <1>1, <2>1
<1> HIDE DEF highest, skip
<1>4. RestoredSequence(file) = highest + skip
  BY DEF RestoredSequence, highest, skip
<1> QED BY <1>1, <1>2, <1>3, <1>4

\* A return opens an empty segment no receipt is of.
LEMMA ReturnedSound ==
  ASSUME NEW file \in Rows, LatestRow(file), SignedOnce(file),
         now \in Nat, latest \in Checkpoint, canon \in [c : Checkpoint, index : Nat]
  PROVE  LET w == Returned(file)
         IN /\ w \in Rows /\ LatestRow(w) /\ SignedOnce(w)
            /\ file.signed \subseteq w.signed /\ ~w.last.published
            /\ w.receipts = file.receipts /\ w.owner = file.owner
<1> DEFINE seq == IF file.fence # None THEN RestoredSequence(file) ELSE NextSequence(file)
           c == OpeningOf(seq, canon.c.seq)
           l == Signed(c, now, latest)
           w == Returned(file)
<1>1. /\ file.last.c \in Checkpoint
      /\ file.signed \subseteq Checkpoint /\ file.last.c.seq \in Nat
      /\ \A d \in file.signed : d.seq \in Nat
      /\ \A r \in file.receipts : r.seg.seq \in Nat
      /\ file.seg.seq \in Nat /\ canon.c.seq \in Nat
  BY DEF Rows, Checkpoint, Segment
<1>2. seq \in Nat /\ seq > file.last.c.seq
  <2>1. CASE file.fence # None
    BY <2>1, ReturnSequence
  <2>2. CASE file.fence = None
    BY <1>1, <2>2 DEF NextSequence
  <2> QED BY <2>1, <2>2
<1>3. w = [file EXCEPT !.signed = @ \cup {c}, !.last = l,
             !.seg = c.seg, !.trail = <<>>, !.pending = TRUE,
             !.fence = IF file.fence # None THEN [@ EXCEPT !.opening = seq] ELSE @,
             !.skipped = IF file.fence # None
                         THEN @ \cup {[sequence |-> seq, below |-> file.last.c.seq]} ELSE @]
  BY DEF Returned, SignedNext, Rows
<1> HIDE DEF seq, w
<1>4. /\ c \in Checkpoint /\ c.seq = seq /\ c.trail = <<>>
      /\ c.seg \in Segment /\ c.seg.seq = seq
  BY <1>1, <1>2 DEF Checkpoint, Commitment, OpeningOf, Segment
<1> HIDE DEF c
<1>5. /\ l \in [c : Checkpoint, at : Nat, observed : Checkpoint \cup {None}, published : BOOLEAN]
      /\ l.c = c /\ ~l.published
  BY <1>4 DEF Signed
<1> HIDE DEF l
<1>6. /\ w \in Rows
      /\ w.signed = file.signed \cup {c} /\ w.last = l
      /\ w.trail = <<>> /\ w.seg = c.seg
      /\ w.receipts = file.receipts /\ w.owner = file.owner
  <2> DEFINE fence == IF file.fence # None THEN [file.fence EXCEPT !.opening = seq] ELSE file.fence
             skip == [sequence |-> seq, below |-> file.last.c.seq]
             skipped == IF file.fence # None THEN file.skipped \cup {skip} ELSE file.skipped
  <2>1. fence \in [spacing : Nat, opening : Nat \cup {None}] \cup {None}
    BY <1>2 DEF Rows
  <2>2. skipped \subseteq [sequence : Nat, below : Nat]
    <3>1. skip \in [sequence : Nat, below : Nat]
      BY <1>1, <1>2
    <3>2. file.skipped \subseteq [sequence : Nat, below : Nat]
      BY DEF Rows
    <3> QED BY <3>1, <3>2
  <2>3. w = [file EXCEPT !.signed = file.signed \cup {c}, !.last = l, !.seg = c.seg,
               !.trail = <<>>, !.pending = TRUE, !.fence = fence, !.skipped = skipped]
    BY <1>3 DEF Rows
  <2> HIDE DEF fence, skipped
  <2>4. <<>> \in Seq(Statements) /\ file.signed \cup {c} \subseteq Checkpoint
    BY <1>1, <1>4
  <2> QED BY <1>4, <1>5, <2>1, <2>2, <2>3, <2>4 DEF Rows
<1>7. LatestRow(w)
  BY <1>4, <1>5, <1>6 DEF LatestRow, IsPrefix
<1>8. /\ \A d \in file.signed : d.seq < seq
      /\ \A r \in file.receipts : r.seg.seq < seq
  BY <1>1, <1>2 DEF SignedOnce
<1>9. \A d, e \in w.signed : d.seq = e.seq => d = e
  BY <1>1, <1>2, <1>4, <1>6, <1>8 DEF SignedOnce
<1>10. \A d \in w.signed : d.seq <= seq
  BY <1>1, <1>2, <1>4, <1>6, <1>8
<1>11. \A r \in w.receipts : r.seg.seq <= seq /\ r.seg # w.seg
  BY <1>1, <1>2, <1>4, <1>6, <1>8
<1>12. SignedOnce(w)
  BY <1>2, <1>4, <1>5, <1>6, <1>9, <1>10, <1>11 DEF SignedOnce
<1> QED BY <1>5, <1>6, <1>7, <1>12 DEF w

\* Adopting a return and marking a publication leave the rows' signatures alone.
LEMMA UnsignedSound ==
  ASSUME NEW file \in Rows, LatestRow(file), SignedOnce(file),
         NEW w \in {Adopted(file), [file EXCEPT !.last.published = TRUE]}
  PROVE  /\ w \in Rows /\ LatestRow(w) /\ SignedOnce(w)
         /\ w.signed = file.signed /\ w.receipts = file.receipts /\ w.owner = file.owner
         /\ w.last.c = file.last.c
<1>1. /\ w \in Rows /\ w.last.c = file.last.c /\ w.signed = file.signed
      /\ w.seg = file.seg /\ w.trail = file.trail /\ w.receipts = file.receipts
      /\ w.owner = file.owner
  <2>1. CASE w = Adopted(file)
    BY <2>1 DEF Adopted, Rows
  <2>2. CASE w = [file EXCEPT !.last.published = TRUE]
    BY <2>2 DEF Rows
  <2> QED BY <2>1, <2>2
<1> QED BY <1>1 DEF LatestRow, SignedOnce

\* What a command of the owner writes is sound, marks what the venue took, and
\* signs nothing unless the rows hold the record's latest commitment.
LEMMA WrittenSound ==
  ASSUME SoundJournal, NEW op \in ops, op.kind # "publish"
  PROVE  LET file == files[op.file]
             w == Written(op)
         IN /\ w \in Rows /\ LatestRow(w) /\ SignedOnce(w)
            /\ w.owner = file.owner /\ file.signed \subseteq w.signed
            /\ w.last.published => w.last.c \in AtVenue
            /\ w.signed # file.signed \/ w.receipts # file.receipts => latest \in file.signed
<1> DEFINE file == files[op.file]
           w == Written(op)
<1>1. /\ op.file \in Instances /\ op.memory = file
      /\ op.kind \in Signing \ {"adopt"} => latest \in file.signed
      /\ op.kind = "marking" => file.last.c \in AtVenue
      /\ op.kind = "submit" => op.statement \in Statements
  BY DEF SoundJournal, OpsSound
<1>2. op.file \in Files /\ file \in Rows /\ op.kind \in Kinds
  BY <1>1 DEF SoundJournal, JournalTypeOK, Instances, Exists, Commands
<1>3. /\ LatestRow(file) /\ SignedOnce(file)
      /\ file.last.published => file.last.c \in AtVenue
  BY <1>1 DEF SoundJournal, FilesSound
<1>4. now \in Nat /\ latest \in Checkpoint /\ canon \in [c : Checkpoint, index : Nat]
  BY DEF SoundJournal, JournalTypeOK
<1> HIDE DEF file, w
<1>5. CASE op.kind = "submit"
  <2>1. w = Admitted(file, op.statement)
    BY <1>1, <1>5 DEF Written, w
  <2> QED BY <1>1, <1>2, <1>3, <1>5, <2>1, AdmittedSound DEF file, w, Signing
<1>6. CASE op.kind = "commit"
  <2>1. w = SignedNext(file, Commitment(NextSequence(file), file.seg, file.trail))
    BY <1>1, <1>6 DEF Written, w
  <2> QED BY <1>1, <1>2, <1>3, <1>4, <1>6, <2>1, CommittedSound DEF file, w, Signing
<1>7. CASE op.kind = "return"
  <2>1. w = Returned(file)
    BY <1>1, <1>7 DEF Written, w
  <2> QED BY <1>1, <1>2, <1>3, <1>4, <1>7, <2>1, ReturnedSound DEF file, w, Signing
<1>8. CASE op.kind = "adopt"
  <2>1. w = Adopted(file)
    BY <1>1, <1>8 DEF Written, w
  <2>2. w.last = file.last
    BY <1>2, <2>1 DEF Adopted, Rows
  <2> QED BY <1>2, <1>3, <2>1, <2>2, UnsignedSound DEF file, w
<1>9. CASE op.kind = "marking"
  <2>1. w = [file EXCEPT !.last.published = TRUE]
    BY <1>1, <1>9 DEF Written, w
  <2> QED BY <1>1, <1>2, <1>3, <1>9, <2>1, UnsignedSound DEF file, w
<1> QED BY <1>2, <1>5, <1>6, <1>7, <1>8, <1>9 DEF Kinds, Signing

-----------------------------------------------------------------------------
(* One step of each action.                                                  *)

\* An instance is a path of the model with rows.
LEMMA InstanceRows ==
  ASSUME JournalTypeOK
  PROVE  /\ Instances = {f \in Files : files[f] # None}
         /\ \A f \in Instances : f \in Files /\ files[f] \in Rows
BY DEF JournalTypeOK, Instances, Exists

\* The venue's next index moves a commitment from its flight to its record, and
\* ends every command that would sign over an older view.
LEMMA TickSound ==
  ASSUME SoundJournal, Tick
  PROVE  SoundJournal'
<1>1. JournalTypeOK /\ FilesSound /\ RecordSound /\ OpsSound
  BY DEF SoundJournal
<1>2. /\ now' = now + 1 /\ now \in Nat /\ files' = files
      /\ ops' = {op \in ops : Surviving(op)'}
      /\ UNCHANGED <<flight, record, latest, canon>> \/ \E c \in flight : Witness(c)
  BY <1>1 DEF Tick, JournalTypeOK
<1>3. /\ AtVenue' = AtVenue /\ JournalTypeOK' /\ \E e \in record' : e.held /\ e.c = latest'
  <2>1. ops' \subseteq Commands /\ now' \in Nat
    BY <1>1, <1>2 DEF JournalTypeOK
  <2>2. CASE UNCHANGED <<flight, record, latest, canon>>
    BY <1>1, <1>2, <2>1, <2>2 DEF JournalTypeOK, AtVenue, RecordSound
  <2>3. CASE \E c \in flight : Witness(c)
    <3>1. PICK c \in flight : Witness(c)
      BY <2>3
    <3> DEFINE held == c.seq > latest.seq
               entry == [c |-> c, held |-> held]
    <3>2. c \in Checkpoint
      BY <1>1 DEF JournalTypeOK
    <3>2a. held \in BOOLEAN
      OBVIOUS
    <3>3. /\ record' = record \cup {entry}
          /\ flight' = flight \ {c}
          /\ latest' = IF held THEN c ELSE latest
          /\ canon' = IF held /\ Valid(c, now + 1) THEN [c |-> c, index |-> now + 1] ELSE canon
      BY <3>1 DEF Witness
    <3> HIDE DEF held
    <3>3a. entry \in [c : Checkpoint, held : BOOLEAN] /\ entry.c = c /\ entry.held = held
      BY <3>2, <3>2a
    <3> HIDE DEF entry
    <3>4. AtVenue' = AtVenue
      BY <3>3, <3>3a DEF AtVenue
    <3>5. JournalTypeOK'
      <4>1. record' \subseteq [c : Checkpoint, held : BOOLEAN]
        BY <1>1, <3>3, <3>3a DEF JournalTypeOK
      <4>2. latest' \in Checkpoint /\ flight' \subseteq Checkpoint
        BY <1>1, <3>2, <3>3 DEF JournalTypeOK
      <4>3. canon' \in [c : Checkpoint, index : Nat]
        BY <1>1, <1>2, <3>2, <3>3 DEF JournalTypeOK
      <4> QED BY <1>1, <1>2, <2>1, <4>1, <4>2, <4>3 DEF JournalTypeOK
    <3>6. \E e \in record' : e.held /\ e.c = latest'
      <4>1. CASE held
        BY <3>3, <3>3a, <4>1
      <4>2. CASE ~held
        BY <1>1, <3>3, <4>2 DEF RecordSound
      <4> QED BY <4>1, <4>2
    <3> QED BY <3>4, <3>5, <3>6
  <2> QED BY <1>2, <2>2, <2>3
<1>4. Instances' = Instances /\ Signatures' = Signatures
  BY <1>2 DEF Instances, Exists, Signatures
<1>5. FilesSound' /\ RecordSound'
  BY <1>1, <1>2, <1>3, <1>4 DEF FilesSound, RecordSound
<1>6. OpsSound'
  <2>1. ASSUME NEW op \in ops' PROVE op \in ops /\ op.kind \notin Signing /\ op.at <= now'
    <3>1. op \in ops /\ Stable(op)'
      BY <1>2 DEF Surviving
    <3>2. op.at \in Nat /\ op.at <= now
      BY <1>1, <3>1 DEF JournalTypeOK, Commands, OpsSound
    <3>3. op.kind \in Signing => op.at = now + 1
      BY <1>2, <3>1 DEF Stable
    <3> QED BY <1>2, <3>1, <3>2, <3>3
  <2> QED BY <1>1, <1>2, <1>3, <1>4, <2>1 DEF OpsSound, Owns, Signing
<1> QED BY <1>3, <1>5, <1>6 DEF SoundJournal

\* A process that takes a path over ends its predecessor's commands, but for a
\* venue call under way.
LEMMA TakenOverSound ==
  ASSUME SoundJournal, NEW f \in Files, Exists(f),
         NEW w \in Rows, w.owner = files[f].owner + 1,
         w.signed = files[f].signed, w.last = files[f].last, w.seg = files[f].seg,
         w.trail = files[f].trail, w.receipts = files[f].receipts,
         files' = [files EXCEPT ![f] = w], ops' = {op \in ops : Surviving(op)'},
         UNCHANGED <<now, flight, record, latest, canon>>
  PROVE  SoundJournal'
<1>1. JournalTypeOK /\ FilesSound /\ RecordSound /\ OpsSound
  BY DEF SoundJournal
<1>2. /\ files \in [Files -> Rows \cup {None}] /\ w # None /\ files[f] \in Rows
      /\ f \in Instances
  BY <1>1, JournalAssumption DEF JournalTypeOK, Exists, Instances
<1>3. JournalTypeOK'
  BY <1>1, <1>2 DEF JournalTypeOK
<1>4. /\ AtVenue' = AtVenue
      /\ Instances' = Instances
      /\ \A g \in Files : files'[g] = IF g = f THEN w ELSE files[g]
  BY <1>2 DEF AtVenue, Instances, Exists
<1>5. /\ \A g \in Instances : files'[g].signed = files[g].signed
      /\ Signatures' = Signatures
  <2>1. \A g \in Instances : files'[g].signed = files[g].signed
    BY <1>2, <1>4 DEF Instances
  <2> QED BY <1>4, <2>1 DEF Signatures
<1>6. FilesSound'
  <2> SUFFICES ASSUME NEW g \in Instances
               PROVE  /\ LatestRow(files'[g]) /\ SignedOnce(files'[g])
                      /\ files'[g].last.published => files'[g].last.c \in AtVenue
    BY <1>4 DEF FilesSound
  <2>1. /\ LatestRow(files[g]) /\ SignedOnce(files[g])
        /\ files[g].last.published => files[g].last.c \in AtVenue
    BY <1>1 DEF FilesSound
  <2>2. CASE g = f
    BY <1>2, <1>4, <2>1, <2>2 DEF LatestRow, SignedOnce
  <2>3. CASE g # f
    BY <1>4, <2>1, <2>3 DEF Instances
  <2> QED BY <2>2, <2>3
<1>7. RecordSound'
  BY <1>1, <1>4, <1>5 DEF RecordSound
<1>8. OpsSound'
  <2>1. ASSUME NEW op \in ops'
        PROVE  /\ op \in ops /\ op.file \in Instances
               /\ (Owns(op)' \/ op.kind = "publish")
               /\ op.owner \in Nat
    BY <1>1 DEF Surviving, OpsSound, JournalTypeOK, Commands
  <2>2. ASSUME NEW op \in ops', op.file = f
        PROVE  op.kind = "publish" /\ ~Owns(op)' /\ op.owner <= files'[f].owner
    <3>1. op.owner \in Nat /\ op.owner <= files[f].owner /\ files[f].owner \in Nat
      BY <1>1, <1>2, <2>1, <2>2 DEF OpsSound, Rows
    <3>2. files'[f].owner = files[f].owner + 1
      BY <1>4
    <3>3. ~Owns(op)'
      BY <2>2, <3>1, <3>2 DEF Owns
    <3> QED BY <2>1, <2>2, <3>1, <3>2, <3>3
  <2>3. ASSUME NEW op \in ops', op.file # f
        PROVE  files'[op.file] = files[op.file] /\ (Owns(op)' <=> Owns(op))
    BY <1>4, <2>1, <2>3 DEF Instances, Owns
  <2>4. ASSUME NEW op \in ops'
        PROVE  /\ op.file \in Instances'
               /\ op.owner <= files'[op.file].owner /\ op.at <= now'
               /\ op.memory.last.c \in files'[op.file].signed
               /\ Owns(op)' => op.memory = files'[op.file]
               /\ op.kind # "publish" => Owns(op)'
               /\ op.kind \in Signing \ {"adopt"} => op.at = now' /\ latest' \in op.memory.signed
               /\ op.kind = "adopt" => op.at = now'
               /\ op.kind = "marking" => op.memory.last.c \in AtVenue'
               /\ op.kind = "submit" => op.statement \in Statements
    <3>1. CASE op.file = f
      BY <1>1, <1>4, <1>5, <2>1, <2>2, <3>1 DEF OpsSound, Signing
    <3>2. CASE op.file # f
      BY <1>1, <1>4, <1>5, <2>1, <2>3, <3>2 DEF OpsSound
    <3> QED BY <3>1, <3>2
  <2>5. ASSUME NEW op \in ops', NEW other \in ops', op.file = other.file, Owns(op)', Owns(other)'
        PROVE  op = other
    BY <1>1, <2>1, <2>2, <2>3, <2>5 DEF OpsSound
  <2> QED BY <2>4, <2>5 DEF OpsSound
<1> QED BY <1>3, <1>6, <1>7, <1>8 DEF SoundJournal

\* A process opens its file.
LEMMA OpenSound ==
  ASSUME SoundJournal, NEW f \in Files, Open(f)
  PROVE  SoundJournal'
<1> DEFINE file == files[f]
           owner == file.owner + 1
           w == [file EXCEPT !.owner = owner, !.resumed = now]
<1>1. file \in Rows /\ now \in Nat
  BY DEF Open, Exists, SoundJournal, JournalTypeOK
<1>2. owner \in Nat
  BY <1>1 DEF Rows
<1>3. files' = [files EXCEPT ![f] = w]
  BY DEF Open
<1> HIDE DEF file, owner
<1>4. /\ w \in Rows /\ w.owner = owner
      /\ w.signed = file.signed /\ w.last = file.last /\ w.seg = file.seg
      /\ w.trail = file.trail /\ w.receipts = file.receipts
  BY <1>1, <1>2 DEF Rows
<1> HIDE DEF w
<1> QED BY <1>3, <1>4, TakenOverSound DEF Open, file, owner

\* A restored copy opens with a fence of its own.
LEMMA RestoreSound ==
  ASSUME SoundJournal, NEW f \in Files, NEW spacing \in Spacings,
         Restore(f, spacing)
  PROVE  SoundJournal'
<1> DEFINE file == files[f]
           owner == file.owner + 1
           fence == FenceAfter(files[f], spacing)
           w == [file EXCEPT !.owner = owner, !.resumed = now, !.made = TRUE, !.fence = fence]
<1>1. file \in Rows /\ now \in Nat
  BY DEF Restore, Exists, SoundJournal, JournalTypeOK
<1>2. owner \in Nat
  BY <1>1 DEF Rows
<1>3. fence \in [spacing : Nat, opening : Nat \cup {None}] \cup {None}
  BY JournalAssumption DEF FenceAfter
<1>4. files' = [files EXCEPT ![f] = w]
  BY DEF Restore
<1> HIDE DEF file, owner, fence
<1>5. /\ w \in Rows /\ w.owner = owner
      /\ w.signed = file.signed /\ w.last = file.last /\ w.seg = file.seg
      /\ w.trail = file.trail /\ w.receipts = file.receipts
  BY <1>1, <1>2, <1>3 DEF Rows
<1> HIDE DEF w
<1> QED BY <1>4, <1>5, TakenOverSound DEF Restore, file, owner

\* A backup put at a free path is an instance of the same rows.
LEMMA CopySound ==
  ASSUME SoundJournal, NEW f \in Files, NEW g \in Files, Copy(f, g)
  PROVE  SoundJournal'
<1> DEFINE w == [files[f] EXCEPT !.made = FALSE]
<1>1. JournalTypeOK /\ FilesSound /\ RecordSound /\ OpsSound
  BY DEF SoundJournal
<1>2. /\ files[f] \in Rows /\ files[g] = None /\ files \in [Files -> Rows \cup {None}]
      /\ f \in Instances /\ g \notin Instances /\ files' = [files EXCEPT ![g] = w]
      /\ UNCHANGED <<now, flight, record, latest, canon, ops>>
  BY <1>1 DEF Copy, Exists, JournalTypeOK, Instances
<1>3. /\ w \in Rows /\ w.signed = files[f].signed /\ w.last = files[f].last
      /\ w.seg = files[f].seg /\ w.trail = files[f].trail /\ w.receipts = files[f].receipts
  BY <1>2 DEF Rows
<1> HIDE DEF w
<1>4. w # None
  BY <1>3, JournalAssumption
<1>5. /\ JournalTypeOK' /\ AtVenue' = AtVenue
      /\ files'[g] = w /\ \A h \in Instances : files'[h] = files[h]
      /\ Instances' = Instances \cup {g}
  <2>1. files' \in [Files -> Rows \cup {None}]
    BY <1>2, <1>3
  <2>2. files'[g] = w /\ \A h \in Instances : files'[h] = files[h]
    BY <1>2 DEF Instances
  <2>3. Instances' = Instances \cup {g}
    BY <1>2, <1>4 DEF Instances, Exists
  <2> QED BY <1>1, <1>2, <2>1, <2>2, <2>3 DEF JournalTypeOK, AtVenue
<1>6. FilesSound'
  <2> SUFFICES ASSUME NEW h \in Instances \cup {g}
               PROVE  /\ LatestRow(files'[h]) /\ SignedOnce(files'[h])
                      /\ files'[h].last.published => files'[h].last.c \in AtVenue
    BY <1>5 DEF FilesSound
  <2>1. \A x \in Instances : /\ LatestRow(files[x]) /\ SignedOnce(files[x])
                             /\ files[x].last.published => files[x].last.c \in AtVenue
    BY <1>1 DEF FilesSound
  <2>2. CASE h = g
    <3>1. LatestRow(w) /\ SignedOnce(w)
      BY <1>2, <1>3, <2>1 DEF LatestRow, SignedOnce
    <3> QED BY <1>2, <1>3, <1>5, <2>1, <2>2, <3>1
  <2>3. CASE h \in Instances
    BY <1>5, <2>1, <2>3
  <2> QED BY <2>2, <2>3
<1>7. RecordSound'
  <2>1. Signatures \subseteq Signatures'
    BY <1>5 DEF Signatures
  <2> QED BY <1>1, <1>2, <1>5, <2>1 DEF RecordSound
<1>8. OpsSound'
  <2>1. \A op \in ops : op.file \in Instances
    BY <1>1 DEF OpsSound
  <2>2. \A op \in ops : files'[op.file] = files[op.file] /\ (Owns(op)' <=> Owns(op))
    BY <1>5, <2>1 DEF Owns
  <2> QED BY <1>1, <1>2, <1>5, <2>1, <2>2 DEF OpsSound
<1> QED BY <1>5, <1>6, <1>7, <1>8 DEF SoundJournal

\* A command keeps the rows and the view it was judged by.
LEMMA BeginSound ==
  ASSUME SoundJournal, NEW f \in Files, NEW kind \in Kinds,
         NEW s \in Statements \cup {None}, Free(f), Judge(f, kind, s),
         kind = "submit" => s \in Statements,
         kind \in Signing \ {"adopt"} => latest \in files[f].signed,
         kind = "marking" => files[f].last.c \in AtVenue
  PROVE  SoundJournal'
<1> DEFINE new == [file |-> f, owner |-> files[f].owner, kind |-> kind, statement |-> s,
                   at |-> IF kind \in Signing THEN now ELSE 0, memory |-> files[f]]
<1>1. JournalTypeOK /\ FilesSound /\ RecordSound /\ OpsSound
  BY DEF SoundJournal
<1>2. /\ ops' = ops \cup {new}
      /\ UNCHANGED <<now, flight, record, latest, canon, files>>
  BY DEF Judge
<1>3. /\ files[f] \in Rows /\ f \in Instances /\ now \in Nat /\ files[f].owner \in Nat
      /\ \A op \in ops : ~(op.file = f /\ op.owner = files[f].owner)
  BY <1>1 DEF Free, Exists, Instances, JournalTypeOK, Rows
<1>4. /\ new.file = f /\ new.owner = files[f].owner /\ new.kind = kind /\ new.statement = s
      /\ new.memory = files[f] /\ new.at \in Nat /\ new.at <= now
      /\ kind \in Signing => new.at = now
      /\ new \in Commands
  BY <1>3 DEF Commands
<1> HIDE DEF new
<1>5. JournalTypeOK'
  BY <1>1, <1>2, <1>4 DEF JournalTypeOK
<1>6. AtVenue' = AtVenue /\ Instances' = Instances /\ Signatures' = Signatures
  BY <1>2 DEF AtVenue, Instances, Exists, Signatures
<1>7. FilesSound' /\ RecordSound'
  BY <1>1, <1>2, <1>6 DEF FilesSound, RecordSound
<1>8. OpsSound'
  <2>1. \A op : Owns(op)' <=> Owns(op)
    BY <1>2 DEF Owns
  <2>2. files[f].last.c \in files[f].signed
    BY <1>1, <1>3 DEF FilesSound, LatestRow
  <2>3. ASSUME NEW op \in ops'
        PROVE  /\ op.file \in Instances
               /\ op.owner <= files[op.file].owner /\ op.at <= now
               /\ op.memory.last.c \in files[op.file].signed
               /\ Owns(op) => op.memory = files[op.file]
               /\ op.kind # "publish" => Owns(op)
               /\ op.kind \in Signing \ {"adopt"} => op.at = now /\ latest \in op.memory.signed
               /\ op.kind = "adopt" => op.at = now
               /\ op.kind = "marking" => op.memory.last.c \in AtVenue
               /\ op.kind = "submit" => op.statement \in Statements
    <3>1. CASE op \in ops
      BY <1>1, <3>1 DEF OpsSound
    <3>2. CASE op = new
      BY <1>3, <1>4, <2>2, <3>2 DEF Owns, Signing
    <3> QED BY <1>2, <3>1, <3>2
  <2>4. ASSUME NEW op \in ops', NEW other \in ops', op.file = other.file, Owns(op), Owns(other)
        PROVE  op = other
    BY <1>1, <1>2, <1>3, <1>4, <2>4 DEF OpsSound, Owns
  <2> QED BY <1>2, <1>6, <2>1, <2>3, <2>4 DEF OpsSound
<1> QED BY <1>5, <1>7, <1>8 DEF SoundJournal

\* A command's transaction is over the rows it was judged with.
LEMMA FinishSound ==
  ASSUME SoundJournal, NEW op \in ops, Finish(op)
  PROVE  SoundJournal'
<1> DEFINE f == op.file
           w == Written(op)
<1>1. JournalTypeOK /\ FilesSound /\ RecordSound /\ OpsSound
  BY DEF SoundJournal
<1>2. /\ op.kind # "publish" /\ ops' = ops \ {op}
      /\ files' = [files EXCEPT ![f] = [w EXCEPT !.owner = files[f].owner]]
      /\ UNCHANGED <<now, flight, record, latest, canon>>
  BY DEF Finish
<1>3. /\ w \in Rows /\ LatestRow(w) /\ SignedOnce(w)
      /\ w.owner = files[f].owner /\ files[f].signed \subseteq w.signed
      /\ w.last.published => w.last.c \in AtVenue
  BY <1>2, WrittenSound
<1>4. f \in Files /\ f \in Instances /\ Owns(op) /\ files \in [Files -> Rows \cup {None}]
  BY <1>1, <1>2 DEF JournalTypeOK, OpsSound, Instances
<1> HIDE DEF w
<1>5. files' = [files EXCEPT ![f] = w] /\ w # None
  <2>1. [w EXCEPT !.owner = files[f].owner] = w
    BY <1>3 DEF Rows
  <2> QED BY <1>2, <1>3, <2>1, JournalAssumption
<1>6. /\ JournalTypeOK' /\ AtVenue' = AtVenue /\ Instances' = Instances
      /\ files'[f] = w /\ \A g \in Instances : g # f => files'[g] = files[g]
  <2>1. files' \in [Files -> Rows \cup {None}]
    BY <1>3, <1>4, <1>5
  <2>2. files'[f] = w /\ \A g \in Instances : g # f => files'[g] = files[g]
    BY <1>4, <1>5 DEF Instances
  <2>3. Instances' = Instances
    BY <1>4, <1>5 DEF Instances, Exists
  <2> QED BY <1>1, <1>2, <2>1, <2>2, <2>3 DEF JournalTypeOK, AtVenue
<1> HIDE DEF f
<1>7. FilesSound'
  BY <1>1, <1>3, <1>6 DEF FilesSound
<1>8. RecordSound'
  <2>1. Signatures \subseteq Signatures'
    BY <1>3, <1>6 DEF Signatures
  <2> QED BY <1>1, <1>2, <1>6, <2>1 DEF RecordSound
<1>9. OpsSound'
  <2>1. ASSUME NEW o \in ops'
        PROVE  /\ o \in ops /\ o # op /\ o.file \in Instances
               /\ files'[o.file].owner = files[o.file].owner
               /\ files[o.file].signed \subseteq files'[o.file].signed
               /\ (Owns(o)' <=> Owns(o))
    <3>1. o \in ops /\ o # op /\ o.file \in Instances
      BY <1>1, <1>2 DEF OpsSound
    <3>2. /\ files'[o.file].owner = files[o.file].owner
          /\ files[o.file].signed \subseteq files'[o.file].signed
      BY <1>3, <1>6, <3>1
    <3> QED BY <3>1, <3>2 DEF Owns
  <2>2. \A o \in ops' : o.file = f => ~Owns(o)
    BY <1>1, <1>4, <2>1 DEF OpsSound, f
  <2>3. \A o \in ops' : Owns(o) => files'[o.file] = files[o.file]
    BY <1>6, <2>1, <2>2
  <2> QED BY <1>1, <1>2, <1>6, <2>1, <2>3 DEF OpsSound
<1> QED BY <1>6, <1>7, <1>8, <1>9 DEF SoundJournal

\* The venue takes a commitment its journal holds.
LEMMA HandSound ==
  ASSUME SoundJournal, NEW op \in ops, Hand(op)
  PROVE  SoundJournal'
<1> DEFINE c == op.memory.last.c
           m == [op EXCEPT !.kind = "marking"]
<1>1. JournalTypeOK /\ FilesSound /\ RecordSound /\ OpsSound
  BY DEF SoundJournal
<1>2. /\ op \in Commands /\ op.kind = "publish" /\ c \in Checkpoint
      /\ op.file \in Instances /\ c \in files[op.file].signed
  BY <1>1 DEF JournalTypeOK, OpsSound, Hand, Commands, Rows
<1>3. /\ flight' \in {flight, flight \cup {c}} /\ c \in AtVenue'
      /\ UNCHANGED <<now, record, latest, canon, files>>
      /\ AtVenue' \subseteq AtVenue \cup {c} /\ AtVenue \subseteq AtVenue'
  BY DEF Hand, AtVenue
<1>4. /\ m \in Commands /\ m.kind = "marking" /\ m.file = op.file /\ m.owner = op.owner
      /\ m.at = op.at /\ m.memory = op.memory /\ m.statement = op.statement
  BY <1>2 DEF Commands, Kinds
<1>5. ops' = (ops \ {op}) \cup {x \in {m} : Owns(x)}
  BY DEF Hand
<1> HIDE DEF m, c
<1>6. JournalTypeOK'
  BY <1>1, <1>2, <1>3, <1>4, <1>5 DEF JournalTypeOK
<1>7. Instances' = Instances /\ Signatures' = Signatures
  BY <1>3 DEF Instances, Exists, Signatures
<1>8. FilesSound'
  BY <1>1, <1>3, <1>7 DEF FilesSound
<1>9. RecordSound'
  <2>1. c \in Signatures
    BY <1>2 DEF Signatures
  <2> QED BY <1>1, <1>3, <1>7, <2>1 DEF RecordSound
<1>10. OpsSound'
  <2>1. /\ \A x : Owns(x)' <=> Owns(x)
        /\ Owns(m) <=> Owns(op)
    BY <1>3, <1>4 DEF Owns
  <2>2. ASSUME NEW x \in ops'
        PROVE  /\ x.file \in Instances
               /\ x.owner <= files[x.file].owner /\ x.at <= now
               /\ x.memory.last.c \in files[x.file].signed
               /\ Owns(x) => x.memory = files[x.file]
               /\ x.kind # "publish" => Owns(x)
               /\ x.kind \in Signing \ {"adopt"} => x.at = now /\ latest \in x.memory.signed
               /\ x.kind = "adopt" => x.at = now
               /\ x.kind = "marking" => x.memory.last.c \in AtVenue'
               /\ x.kind = "submit" => x.statement \in Statements
    <3>1. CASE x \in ops
      BY <1>1, <1>3, <3>1 DEF OpsSound
    <3>2. CASE x = m /\ Owns(m)
      BY <1>1, <1>2, <1>3, <1>4, <2>1, <3>2 DEF OpsSound, Signing, c
    <3> QED BY <1>5, <3>1, <3>2
  <2>3. ASSUME NEW x \in ops', NEW y \in ops', x.file = y.file, Owns(x), Owns(y)
        PROVE  x = y
    <3>1. \A z \in ops : z.file = op.file /\ Owns(z) /\ Owns(op) => z = op
      BY <1>1 DEF OpsSound
    <3>2. \A y1, z \in ops : z.file = y1.file /\ Owns(z) /\ Owns(y1) => z = y1
      BY <1>1 DEF OpsSound
    <3>3. \A z \in ops' : z = m \/ (z \in ops /\ z # op)
      BY <1>5
    <3> QED BY <1>4, <1>5, <2>1, <2>3, <3>1, <3>2, <3>3
  <2> QED BY <1>3, <1>7, <2>1, <2>2, <2>3 DEF OpsSound
<1> QED BY <1>6, <1>8, <1>9, <1>10 DEF SoundJournal

-----------------------------------------------------------------------------
(* The invariant of the specification.                                       *)

LEMMA InitSound ==
  ASSUME JournalInit
  PROVE  SoundJournal
<1> DEFINE last == [Signed(Genesis, 0, None) EXCEPT !.published = TRUE]
           first == [owner |-> 1, made |-> TRUE, resumed |-> None,
                     seg |-> Genesis.seg, trail |-> <<>>, pending |-> FALSE, receipts |-> {},
                     signed |-> {Genesis}, last |-> last, fence |-> None, skipped |-> {}]
           entry == [c |-> Genesis, held |-> TRUE]
<1>1. /\ Genesis \in Checkpoint /\ Genesis.seq = 1 /\ Genesis.trail = <<>>
      /\ Genesis.seg \in Segment /\ Genesis.seg.seq = 1
  BY DEF Genesis, OpeningOf, Commitment, Checkpoint, Segment
<1> HIDE DEF Genesis
<1>2. /\ last \in [c : Checkpoint, at : Nat, observed : Checkpoint \cup {None}, published : BOOLEAN]
      /\ last.c = Genesis
  BY <1>1 DEF Signed
<1>3. files = [f \in Files |-> IF f # Original THEN None ELSE first]
  BY DEF JournalInit
<1> HIDE DEF last
<1>4. /\ first \in Rows /\ first.seg = Genesis.seg /\ first.trail = <<>>
      /\ first.signed = {Genesis} /\ first.last = last /\ first.receipts = {}
  BY <1>1, <1>2 DEF Rows
<1> HIDE DEF first
<1>5. entry \in [c : Checkpoint, held : BOOLEAN] /\ entry.held /\ entry.c = Genesis
  BY <1>1
<1> HIDE DEF entry
<1>6. record = {entry} /\ flight = {} /\ now = 0 /\ latest = Genesis /\ ops = {}
      /\ canon = [c |-> Genesis, index |-> 0]
  BY DEF JournalInit, entry
<1>7. JournalTypeOK
  BY <1>1, <1>3, <1>4, <1>5, <1>6 DEF JournalTypeOK
<1>8. Instances = {Original} /\ files[Original] = first
  BY <1>3, <1>4, JournalAssumption DEF Instances, Exists
<1>9. AtVenue = {Genesis} /\ Signatures = {Genesis}
  BY <1>4, <1>5, <1>6, <1>8 DEF AtVenue, Signatures
<1>10. FilesSound
  <2>1. LatestRow(first)
    BY <1>1, <1>2, <1>4 DEF LatestRow, IsPrefix
  <2>2. SignedOnce(first)
    BY <1>1, <1>2, <1>4 DEF SignedOnce
  <2>3. first.last.c \in AtVenue
    BY <1>2, <1>4, <1>9
  <2> QED BY <1>8, <2>1, <2>2, <2>3 DEF FilesSound
<1>11. RecordSound /\ OpsSound
  BY <1>5, <1>6, <1>9 DEF RecordSound, OpsSound
<1> QED BY <1>7, <1>10, <1>11 DEF SoundJournal

\* A readable record's latest commitment is the journal's own.
LEMMA ReadableHoldsLatest ==
  ASSUME RecordSound, NEW file, Readable(file)
  PROVE  latest \in file.signed
BY DEF RecordSound, Readable

\* Every command is begun over rows that hold what its writing needs.
LEMMA CommandSound ==
  ASSUME SoundJournal, NEW f \in Files,
         SubmitStatement(f) \/ Commit(f) \/ Return(f) \/ Adopt(f) \/ Publish(f)
  PROVE  SoundJournal'
<1>1. RecordSound
  BY DEF SoundJournal
<1>2. CASE SubmitStatement(f)
  <2>1. PICK s \in Statements : Free(f) /\ MaySubmit(files[f], s) /\ Judge(f, "submit", s)
    BY <1>2 DEF SubmitStatement
  <2>2. latest \in files[f].signed
    BY <1>1, <2>1, ReadableHoldsLatest DEF MaySubmit, InService, ServiceClock
  <2>3. "submit" \in Kinds
    BY DEF Kinds, Signing
  <2> QED BY <2>1, <2>2, <2>3, BeginSound
<1>3. CASE Commit(f)
  <2>1. latest \in files[f].signed
    BY <1>1, <1>3, ReadableHoldsLatest DEF Commit, MayCommit, InService, ServiceClock
  <2>2. "commit" \in Kinds
    BY DEF Kinds, Signing
  <2> QED BY <1>3, <2>1, <2>2, BeginSound DEF Commit
<1>4. CASE Return(f)
  <2>1. latest \in files[f].signed
    BY <1>1, <1>4, ReadableHoldsLatest DEF Return, MayReturn
  <2>2. "return" \in Kinds
    BY DEF Kinds, Signing
  <2> QED BY <1>4, <2>1, <2>2, BeginSound DEF Return
<1>5. CASE Adopt(f)
  <2>1. "adopt" \in Kinds
    BY DEF Kinds, Signing
  <2> QED BY <1>5, <2>1, BeginSound DEF Adopt
<1>6. CASE Publish(f)
  <2>1. CASE Held(files[f].last.c)
    <3>1. files[f].last.c \in AtVenue
      BY <2>1 DEF Held, AtVenue
    <3>2. "marking" \in Kinds /\ "marking" \notin Signing
      BY DEF Kinds, Signing
    <3> QED BY <1>6, <2>1, <3>1, <3>2, BeginSound DEF Publish
  <2>2. CASE ~Held(files[f].last.c)
    <3>1. "publish" \in Kinds /\ "publish" \notin Signing
      BY DEF Kinds, Signing
    <3> QED BY <1>6, <2>2, <3>1, BeginSound DEF Publish
  <2> QED BY <2>1, <2>2
<1> QED BY <1>2, <1>3, <1>4, <1>5, <1>6

\* For every number of files, every lag and duration and any number of
\* processes, restarts and restorations, the journal keeps its invariant.
THEOREM JournalSound == JournalSpec => []SoundJournal
<1>1. JournalInit => SoundJournal
  BY InitSound
<1>2. SoundJournal /\ [JournalNext]_journal => SoundJournal'
  <2> SUFFICES ASSUME SoundJournal, [JournalNext]_journal PROVE SoundJournal'
    OBVIOUS
  <2>1. CASE Tick
    BY <2>1, TickSound
  <2>2. CASE \E f \in Files : Open(f)
    BY <2>2, OpenSound
  <2>3. CASE \E f, g \in Files : Copy(f, g)
    BY <2>3, CopySound
  <2>4. CASE \E f \in Files, spacing \in Spacings : Restore(f, spacing)
    BY <2>4, RestoreSound
  <2>5. CASE \E f \in Files : SubmitStatement(f) \/ Commit(f) \/ Return(f) \/ Adopt(f) \/ Publish(f)
    BY <2>5, CommandSound
  <2>6. CASE \E op \in ops : Finish(op) \/ Hand(op)
    BY <2>6, FinishSound, HandSound
  <2>7. CASE UNCHANGED journal
    BY <2>7 DEF journal, SoundJournal, JournalTypeOK, FilesSound, RecordSound, OpsSound, AtVenue,
       Instances, Exists, Signatures, Owns
  <2> QED BY <2>1, <2>2, <2>3, <2>4, <2>5, <2>6, <2>7 DEF JournalNext
<1> QED BY <1>1, <1>2, PTL DEF JournalSpec

\* Whatever crashes, restarts or is restored between a command's await and its
\* write, every commitment at the venue keeps its row, each journal's segment
\* and trail are those of its latest row, and no command is from a later process
\* than its file's (the owner fence of store.ts).
THEOREM RowsAreKept == JournalSpec => []RowsKept
<1>1. SoundJournal => RowsKept
  <2> SUFFICES ASSUME SoundJournal PROVE RowsKept
    OBVIOUS
  <2>1. {e.c : e \in record} \cup flight \subseteq Signatures
    BY DEF SoundJournal, RecordSound, AtVenue
  <2>2. \A f \in Instances : LatestRow(files[f])
    BY DEF SoundJournal, FilesSound
  <2>3. \A op \in ops : op.owner <= files[op.file].owner /\ op.at <= now
    BY DEF SoundJournal, OpsSound
  <2> QED BY <2>1, <2>2, <2>3 DEF RowsKept, LatestRow
<1> QED BY <1>1, JournalSound, PTL

\* The mark follows the venue call in every interleaving of processes, crashes
\* and restorations, so a marked commitment is one the venue took.
THEOREM MarksFollowTheVenue == JournalSpec => []PublishedWasTaken
<1>1. SoundJournal => PublishedWasTaken
  BY DEF SoundJournal, FilesSound, PublishedWasTaken, AtVenue
<1> QED BY <1>1, JournalSound, PTL

\* However often one path's process is replaced, or its rows are restored in
\* place, the key signs no sequence and no position of a segment twice there.
THEOREM OnePathSignsOnce ==
  ASSUME Files = {Original}
  PROVE  JournalSpec => []SignsOnce
<1>1. SoundJournal => SignsOnce
  <2> SUFFICES ASSUME SoundJournal PROVE SignsOnce
    OBVIOUS
  <2>1. \A f \in Instances : f = Original /\ SignedOnce(files[f])
    BY DEF SoundJournal, FilesSound, Instances
  <2>2. NoEquivocation
    BY <2>1 DEF NoEquivocation, Signatures, SignedOnce
  <2>3. NoReceiptFork
    BY <2>1 DEF NoReceiptFork, Receipts, SignedOnce
  <2> QED BY <2>2, <2>3 DEF SignsOnce
<1> QED BY <1>1, JournalSound, PTL

\* No command signs once the record's latest commitment is one its journal did
\* not sign, also when it landed during the command's await: the transaction is
\* refused over a moved view (store.ts #stable), and #foreign stops the next one.
THEOREM SigningHoldsTheRecord == JournalSpec => SignsOverOwnRecord
<1>1. SoundJournal /\ [JournalNext]_journal => [SignsHolding]_journal
  <2> SUFFICES ASSUME SoundJournal, JournalNext PROVE SignsHolding
    BY DEF journal
  <2>1. ASSUME NEW f \in Instances,
               files'[f].signed # files[f].signed \/ files'[f].receipts # files[f].receipts
        PROVE  latest \in files[f].signed
    <3>1. f \in Files /\ files[f] \in Rows /\ files \in [Files -> Rows \cup {None}]
      BY InstanceRows DEF SoundJournal, JournalTypeOK
    <3>2. CASE \E g \in Files : Open(g)
      BY <2>1, <3>1, <3>2 DEF Open, Rows
    <3>3. CASE \E g, h \in Files : Copy(g, h)
      BY <2>1, <3>1, <3>3 DEF Copy, Exists, Instances
    <3>4. CASE \E g \in Files, spacing \in Spacings : Restore(g, spacing)
      BY <2>1, <3>1, <3>4 DEF Restore, Rows
    <3>5. CASE \E op \in ops : Finish(op)
      <4>1. PICK op \in ops : Finish(op)
        BY <3>5
      <4> DEFINE w == Written(op)
      <4>2. /\ op.kind # "publish"
            /\ files' = [files EXCEPT ![op.file] = [w EXCEPT !.owner = files[op.file].owner]]
        BY <4>1 DEF Finish
      <4>3. /\ w \in Rows
            /\ w.signed # files[op.file].signed \/ w.receipts # files[op.file].receipts
                 => latest \in files[op.file].signed
        BY <4>2, WrittenSound
      <4> HIDE DEF w
      <4>4. f = op.file
        BY <2>1, <3>1, <4>2
      <4>5. files'[f].signed = w.signed /\ files'[f].receipts = w.receipts
        BY <3>1, <4>2, <4>3, <4>4 DEF Rows
      <4> QED BY <2>1, <4>3, <4>4, <4>5
    <3>6. CASE UNCHANGED files
      BY <2>1, <3>6
    <3>7. \/ UNCHANGED files
          \/ \E g \in Files : Open(g)
          \/ \E g, h \in Files : Copy(g, h)
          \/ \E g \in Files, spacing \in Spacings : Restore(g, spacing)
          \/ \E op \in ops : Finish(op)
      BY DEF JournalNext, Tick, SubmitStatement, Commit, Return, Adopt, Publish, Judge, Hand
    <3> QED BY <3>2, <3>3, <3>4, <3>5, <3>6, <3>7
  <2> QED BY <2>1 DEF SignsHolding
<1> QED BY <1>1, JournalSound, PTL DEF JournalSpec, SignsOverOwnRecord

-----------------------------------------------------------------------------

\* No outbox entry is the mark of its absence.
NothingIsNoEntry == \A t, s : Nothing # [tx |-> t, replaced |-> s]

Heights == 0..MaxHeight

\* A transaction spends a sequence of boxes created at heights of the chain.
IsTx(tx) ==
  /\ tx.record \in Records /\ tx.height \in Heights
  /\ \E S : tx.inputs \in Seq(S)
  /\ \A box \in Inputs(tx) : CreationHeight(box) \in Heights

\* The network's types.
NetworkOK ==
  /\ tip \in Heights /\ viewTip \in Heights /\ seen \in Nat
  /\ mined \in [OnChain -> Int]
  /\ IsFiniteSet(OnChain) /\ IsFiniteSet(pool) /\ OnChain \cap pool = {}
  /\ \A tx \in OnChain \cup pool : IsTx(tx)

\* The outbox's.
OutboxOK ==
  /\ pending = [r \in Records |-> pending[r]]
  /\ \A r \in Unsettled :
       /\ pending[r] = [tx |-> pending[r].tx, replaced |-> pending[r].replaced]
       /\ IsTx(Transaction(r)) /\ Transaction(r).record = r
       /\ \E S : pending[r].replaced \in Seq(S)
  /\ IsFiniteSet(created) /\ \A box \in created : CreationHeight(box) \in Heights

IsCall(call) == ~call.settle => call.record \in Records /\ call.height \in Heights

\* A turn's record has a transaction but for the step that builds its first.
IsTurn(t) ==
  /\ t = [record |-> t.record, height |-> t.height, step |-> t.step, again |-> t.again,
          shown |-> t.shown, live |-> t.live, gone |-> t.gone]
  /\ t.record \in Records /\ t.height \in Heights
  /\ t.again \in BOOLEAN
  /\ t.step \in {"ask", "submit", "earlier", "inspect", "build"}

CallsOK ==
  /\ \E S : queue \in Seq(S) /\ \A call \in S : IsCall(call)
  /\ turn # Nothing => IsTurn(turn)

TurnRemembered ==
  turn # Nothing =>
    /\ turn.step = "build" => (turn.again <=> pending[turn.record] # Nothing)
    /\ turn.step \in {"earlier", "inspect"} => turn.again
    /\ turn.step # "build" => pending[turn.record] # Nothing

\* The inductive invariant.
SoundOutbox ==
  /\ NetworkOK /\ OutboxOK /\ CallsOK /\ TurnRemembered
  /\ RememberedBeforeSent /\ ReservedOnce

-----------------------------------------------------------------------------
\* A non-empty set of numbers has a least, and a bounded one a greatest.
LEMMA LeastNumber ==
  ASSUME NEW S, S \subseteq Nat, S # {}
  PROVE  \E x \in S : \A y \in S : x <= y
<1>1. PICK x \in S : \A y \in S : ~(<<y, x>> \in OpToRel(<, Nat))
  BY WFMin, NatLessThanWellFounded
<1>2. \A y \in S : ~(y < x)
  BY <1>1 DEF OpToRel
<1> QED BY <1>2

\* The chain's height bounds what #build compares.
LEMMA GreatestNumber ==
  ASSUME NEW n \in Nat, NEW S, S \subseteq 0..n, S # {}
  PROVE  Max(S) \in S /\ \A y \in S : y <= Max(S)
<1> DEFINE R == {n - y : y \in S}
<1>1. R \subseteq Nat /\ R # {}
  <2>1. \A y \in S : n - y \in Nat
    BY SMT
  <2> QED BY <2>1
<1> HIDE DEF R
<1>2. PICK r \in R : \A q \in R : r <= q
  BY <1>1, LeastNumber
<1>3. PICK x \in S : r = n - x
  BY DEF R
<1>4. \A y \in S : n - y \in R
  BY DEF R
<1>5. \A y \in S : x >= y
  <2> TAKE y \in S
  <2>1. n - x <= n - y
    BY <1>2, <1>3, <1>4
  <2> QED BY <2>1
<1>6. Max(S) \in S /\ \A y \in S : Max(S) >= y
  BY <1>5 DEF Max
<1>7. Max(S) \in Int
  <2>1. S \subseteq Int
    OBVIOUS
  <2> QED BY <1>6, <2>1, Zenon
<1> QED BY <1>6, <1>7

\* #build's height is that of the caller or of the highest box it spends.
LEMMA HighestBounds ==
  ASSUME NEW boxes, NEW h \in Heights,
         \A box \in boxes : CreationHeight(box) \in Heights
  PROVE  /\ Highest(boxes, h) \in Heights
         /\ \A box \in boxes : CreationHeight(box) <= Highest(boxes, h)
<1> DEFINE S == {h} \cup {CreationHeight(box) : box \in boxes}
<1>1. S \subseteq 0..MaxHeight /\ S # {} /\ MaxHeight \in Nat
  BY PublisherAssumption DEF Heights
<1>2. \A box \in boxes : CreationHeight(box) \in S
  OBVIOUS
<1>3. Highest(boxes, h) = Max(S)
  BY DEF Highest
<1> HIDE DEF S
<1>4. Max(S) \in S /\ \A y \in S : y <= Max(S)
  BY <1>1, GreatestNumber
<1> QED BY <1>1, <1>2, <1>3, <1>4 DEF Heights

\* The boxes of a set in an order are boxes of the set.
LEMMA OrderOfSet ==
  ASSUME NEW S, IsFiniteSet(S)
  PROVE  SetToSeq(S) \in Seq(S)
<1>1. Cardinality(S) \in Nat /\ ExistsBijection(1..Cardinality(S), S)
  BY FS_CardinalityType
<1>2. \E f \in [1..Cardinality(S) -> S] : IsInjective(f)
  BY <1>1 DEF ExistsBijection, Bijection, Injection
<1>3. SetToSeq(S) \in [1..Cardinality(S) -> S]
  BY <1>2 DEF SetToSeq
<1> QED BY <1>1, <1>3, SeqDef

\* The inputs a rebuild keeps are inputs of what it replaces.
LEMMA AmongIsSeq ==
  ASSUME NEW S, NEW boxes \in Seq(S), NEW some
  PROVE  Among(boxes, some) \in Seq(S)
<1> DEFINE N == Len(boxes)
           Step(f, n) == IF n = 0 THEN <<>>
                         ELSE IF boxes[n] \in some THEN Append(f[n - 1], boxes[n]) ELSE f[n - 1]
           Good(f, n) == f = [i \in 0..n |-> Step(f, i)]
           kept == CHOOSE f : Good(f, N)
<1>1. N \in Nat /\ \A n \in 1..N : boxes[n] \in S
  BY LenProperties, ElementOfSeq
<1>2. Among(boxes, some) = kept[N]
  BY DEF Among
<1> HIDE DEF N
<1>3. \A n \in 0..N : \E f : Good(f, n)
  <2> DEFINE Bad == {n \in 0..N : ~\E f : Good(f, n)}
  <2> SUFFICES ASSUME Bad # {} PROVE FALSE
    OBVIOUS
  <2>1. Bad \subseteq Nat
    OBVIOUS
  <2> HIDE DEF Bad
  <2>2. PICK m \in Bad : \A n \in Bad : m <= n
    BY <2>1, LeastNumber
  <2> USE DEF Bad
  <2>3. CASE m = 0
    <3> DEFINE f == [i \in 0..0 |-> <<>>]
    <3>1. Good(f, 0)
      OBVIOUS
    <3> HIDE DEF Good
    <3> QED BY <2>3, <3>1
  <2>4. CASE m # 0
    <3>1. m \in 1..N /\ m - 1 \in 0..N /\ m - 1 \notin Bad
      <4>1. m \in 0..N
        OBVIOUS
      <4> HIDE DEF Bad
      <4> QED BY <1>1, <2>2, <2>4, <4>1
    <3>2. PICK g : Good(g, m - 1)
      BY <3>1
    <3> DEFINE f == [i \in 0..m |-> IF i < m THEN g[i] ELSE Step(g, m)]
    <3>3. ASSUME NEW i \in 0..m PROVE f[i] = Step(f, i)
      <4>1. CASE i < m
        <5>1. m \in Nat /\ i \in 0..(m - 1) /\ (i # 0 => i - 1 \in 0..m /\ i - 1 < m)
          BY <1>1, <3>1, <4>1
        <5>2. f[i] = g[i] /\ (i # 0 => f[i - 1] = g[i - 1])
          BY <4>1, <5>1
        <5>3. g[i] = Step(g, i)
          BY <3>2, <5>1
        <5> HIDE DEF f
        <5> QED BY <5>2, <5>3
      <4>2. CASE i = m
        <5>1. f[i] = Step(g, m) /\ f[m - 1] = g[m - 1] /\ m # 0
          BY <3>1, <4>2
        <5> HIDE DEF f
        <5> QED BY <4>2, <5>1
      <4> QED BY <3>1, <4>1, <4>2
    <3>4. f = [i \in 0..m |-> f[i]]
      OBVIOUS
    <3> HIDE DEF f
    <3>5. Good(f, m)
      BY <3>3, <3>4
    <3> HIDE DEF Good
    <3> QED BY <3>5
  <2> QED BY <2>3, <2>4
<1>4. Good(kept, N)
  <2>1. N \in 0..N
    BY <1>1
  <2> HIDE DEF Good
  <2>2. \E f : Good(f, N)
    BY <1>3, <2>1
  <2> QED BY <2>2
<1> HIDE DEF kept
<1>5. \A n \in 0..N : kept[n] \in Seq(S)
  <2> DEFINE Bad == {n \in 0..N : kept[n] \notin Seq(S)}
  <2> SUFFICES ASSUME Bad # {} PROVE FALSE
    OBVIOUS
  <2>1. Bad \subseteq Nat
    OBVIOUS
  <2> HIDE DEF Bad
  <2>2. PICK m \in Bad : \A n \in Bad : m <= n
    BY <2>1, LeastNumber
  <2>3. m \in 0..N /\ kept[m] \notin Seq(S) /\ kept[m] = Step(kept, m)
    BY <1>4 DEF Bad
  <2>4. m # 0
    BY <2>3
  <2>5. kept[m - 1] \in Seq(S) /\ boxes[m] \in S
    <3>1. m \in 1..N /\ m - 1 \in 0..N /\ m - 1 \notin Bad
      BY <1>1, <2>2, <2>3, <2>4
    <3> QED BY <1>1, <2>3, <2>4, <3>1 DEF Bad
  <2>6. Append(kept[m - 1], boxes[m]) \in Seq(S)
    BY <2>5, AppendProperties
  <2> QED BY <2>3, <2>4, <2>5, <2>6
<1> QED BY <1>1, <1>2, <1>5

\* #select takes the required boxes, its own change and what is offered.
LEMMA SelectionsSound ==
  ASSUME NEW B, NEW required \in Seq(B), NEW own, NEW offered, IsFiniteSet(own), IsFiniteSet(offered),
         NEW need, NEW inputs \in Selections(required, own, offered, need)
  PROVE  (\E S : inputs \in Seq(S)) /\ Range(inputs) \subseteq Range(required) \cup own \cup offered
<1> DEFINE pick(boxes, n) == {SetToSeq(some) : some \in kSubset(Min({Max({n, 0}), Cardinality(boxes)}), boxes)}
<1> DEFINE A == Range(required)
           T == A \cup own \cup offered
<1>1. ASSUME NEW boxes, IsFiniteSet(boxes), boxes \subseteq T, NEW n, NEW s \in pick(boxes, n)
      PROVE  s \in Seq(T)
  <2>1. PICK some \in SUBSET boxes : s = SetToSeq(some)
    BY <1>1 DEF kSubset
  <2>2. IsFiniteSet(some)
    BY <1>1, FS_Subset
  <2> QED BY <1>1, <2>1, <2>2, OrderOfSet, SeqMonotonic
<1>2. PICK mine \in pick(own, need - Len(required)) :
        \E more \in pick(offered, need - Len(required \o mine)) : inputs = (required \o mine) \o more
  BY DEF Selections
<1>3. PICK more \in pick(offered, need - Len(required \o mine)) : inputs = (required \o mine) \o more
  BY <1>2
<1>4. required \in Seq(T) /\ mine \in Seq(T) /\ more \in Seq(T)
  <2>1. required \in Seq(A) /\ A \subseteq T
    BY SeqOfRange
  <2>2. mine \in Seq(T)
    BY <1>1
  <2>3. more \in Seq(T)
    BY <1>1
  <2> QED BY <2>1, <2>2, <2>3, SeqMonotonic
<1> HIDE DEF T, pick
<1>5. inputs \in Seq(T)
  BY <1>3, <1>4, ConcatProperties
<1>6. Range(inputs) \subseteq T
  BY <1>5, RangeOfSeq
<1> QED BY <1>5, <1>6 DEF T, A

\* The change of finitely many transactions is finite.
LEMMA CreatedFinite ==
  ASSUME NEW txs, IsFiniteSet(txs)
  PROVE  IsFiniteSet(Created(txs))
<1> DEFINE f == [tx \in txs |-> Change(tx)]
<1>1. f \in Surjection(txs, Created(txs))
  BY DEF Surjection, Created
<1> HIDE DEF f
<1> QED BY <1>1, FS_Surjection

\* So are the boxes the network shows unspent, each of a height of the chain.
LEMMA UnspentSound ==
  ASSUME NetworkOK
  PROVE  IsFiniteSet(UnspentBoxes) /\ \A box \in UnspentBoxes : CreationHeight(box) \in Heights
<1>1. IsFiniteSet(Funding) /\ IsFiniteSet(Created(OnChain)) /\ IsFiniteSet(Created(pool))
  BY CreatedFinite, PublisherAssumption DEF NetworkOK
<1>2. IsFiniteSet((Funding \cup Created(OnChain)) \cup Created(pool))
  BY <1>1, FS_Union
<1>3. UnspentBoxes \subseteq (Funding \cup Created(OnChain)) \cup Created(pool)
  BY DEF UnspentBoxes
<1>4. IsFiniteSet(UnspentBoxes)
  BY <1>2, <1>3, FS_Subset
<1>5. ASSUME NEW box \in UnspentBoxes PROVE CreationHeight(box) \in Heights
  <2>1. CASE box \in Funding
    BY <2>1, PublisherAssumption DEF CreationHeight, Heights
  <2>2. CASE box \notin Funding
    <3>1. PICK tx \in OnChain \cup pool : box = [of |-> tx]
      BY <1>3, <2>2 DEF Created, Change
    <3>2. tx.height \in Heights
      BY DEF NetworkOK, IsTx
    <3> QED BY <2>2, <3>1, <3>2 DEF CreationHeight
  <2> QED BY <2>1, <2>2
<1> QED BY <1>4, <1>5

\* What a step that leaves the outbox and the turn alone keeps.
LEMMA OutboxKept ==
  ASSUME SoundOutbox, UNCHANGED outbox
  PROVE  /\ OutboxOK' /\ ReservedOnce' /\ Unsettled' = Unsettled
         /\ \A r : Transaction(r)' = Transaction(r)
<1>1. Unsettled' = Unsettled /\ \A r : Transaction(r)' = Transaction(r)
  BY DEF outbox, Unsettled, Transaction
<1>2. OutboxOK'
  BY <1>1 DEF SoundOutbox, OutboxOK, outbox, IsTx, Inputs, CreationHeight, Heights
<1>3. ReservedOnce'
  BY <1>1 DEF SoundOutbox, ReservedOnce, Inputs, CreationHeight
<1> QED BY <1>1, <1>2, <1>3

\* The network mines, drops and reorganises: what it has it had, and what the
\* view holds stays.
LEMMA NetworkStepSound ==
  ASSUME SoundOutbox, Mine \/ Drop \/ Reorganise
  PROVE  SoundOutbox'
<1>1. /\ UNCHANGED <<viewTip, seen, pending, created, queue, turn>>
      /\ NetworkOK /\ CallsOK /\ TurnRemembered /\ RememberedBeforeSent
  BY DEF Mine, Drop, Reorganise, outbox, SoundOutbox
<1>2. OutboxOK' /\ ReservedOnce'
  BY <1>1, OutboxKept DEF outbox
<1>3. CallsOK' /\ TurnRemembered'
  BY <1>1 DEF CallsOK, IsCall, IsTurn, Heights, TurnRemembered
<1>4. /\ mined \in [OnChain -> Int] /\ IsFiniteSet(OnChain) /\ IsFiniteSet(pool)
      /\ OnChain \cap pool = {} /\ \A tx \in OnChain \cup pool : IsTx(tx)
      /\ tip \in Heights /\ viewTip \in Heights /\ seen \in Nat /\ MaxHeight \in Nat
  BY <1>1, PublisherAssumption DEF NetworkOK
<1>5. /\ tip' \in Heights /\ mined' \in [OnChain' -> Int] /\ IsFiniteSet(OnChain') /\ IsFiniteSet(pool')
      /\ OnChain' \cap pool' = {} /\ OnChain' \cup pool' \subseteq OnChain \cup pool
      /\ \A tx \in OnChain : mined[tx] <= seen => tx \in OnChain' /\ mined'[tx] = mined[tx]
  <2>1. CASE Mine
    <3>1. PICK block \in SUBSET pool :
            /\ mined' = [tx \in OnChain \cup block |-> IF tx \in block THEN tip + 1 ELSE mined[tx]]
            /\ pool' = pool \ block
      BY <2>1 DEF Mine
    <3>2. OnChain' = OnChain \cup block
      BY <3>1 DEF OnChain
    <3>3. IsFiniteSet(block) /\ IsFiniteSet(pool')
      BY <1>4, <3>1, FS_Subset
    <3>4. IsFiniteSet(OnChain')
      BY <1>4, <3>2, <3>3, FS_Union
    <3>5. tip' = tip + 1 /\ tip < MaxHeight
      BY <2>1 DEF Mine
    <3>6. tip' \in Heights /\ tip + 1 \in Int
      BY <1>4, <3>5 DEF Heights
    <3>7. mined' \in [OnChain' -> Int]
      BY <1>4, <3>1, <3>2, <3>6
    <3> QED BY <1>4, <3>1, <3>2, <3>3, <3>4, <3>6, <3>7
  <2>2. CASE Drop
    <3>1. pool' \in SUBSET pool /\ UNCHANGED <<tip, mined>> /\ OnChain' = OnChain
      BY <2>2 DEF Drop, OnChain
    <3>2. IsFiniteSet(pool')
      BY <1>4, <3>1, FS_Subset
    <3> QED BY <1>4, <3>1, <3>2
  <2>3. CASE Reorganise
    <3>1. PICK height \in seen..(tip - 1) :
            LET left == {tx \in OnChain : mined[tx] <= height}
            IN  /\ tip' = height
                /\ mined' = [tx \in left |-> mined[tx]]
                /\ pool' = pool \cup (OnChain \ left)
      BY <2>3 DEF Reorganise
    <3> DEFINE left == {tx \in OnChain : mined[tx] <= height}
    <3>2. OnChain' = left /\ left \in SUBSET OnChain /\ OnChain \ left \in SUBSET OnChain
      BY <3>1 DEF OnChain
    <3>3. IsFiniteSet(left) /\ IsFiniteSet(OnChain \ left)
      BY <1>4, <3>2, FS_Subset
    <3>4. IsFiniteSet(pool')
      BY <1>4, <3>1, <3>3, FS_Union
    <3>5. tip' \in Heights /\ height \in Int /\ seen <= height
      BY <1>4, <3>1 DEF Heights
    <3>6. mined' \in [left -> Int] /\ \A tx \in left : mined'[tx] = mined[tx]
      BY <1>4, <3>1, <3>2
    <3>7. \A tx \in OnChain : mined[tx] <= seen => tx \in left
      <4>1. \A tx \in OnChain : mined[tx] \in Int
        BY <1>4
      <4> QED BY <1>4, <3>5, <4>1
    <3> QED BY <1>4, <3>1, <3>2, <3>3, <3>4, <3>5, <3>6, <3>7
  <2> QED BY <2>1, <2>2, <2>3
<1>6. NetworkOK'
  BY <1>1, <1>4, <1>5 DEF NetworkOK, IsTx, Inputs, CreationHeight, Heights
<1>7. \A r : Holds(r) => Holds(r)'
  BY <1>1, <1>5 DEF Holds
<1>8. RememberedBeforeSent'
  <2> SUFFICES ASSUME NEW tx \in OnChain' \cup pool'
               PROVE  LET entry == pending[tx.record]
                      IN  IF entry = Nothing THEN \E held \in OnChain' : held.record = tx.record /\ mined'[held] <= seen
                          ELSE tx = entry.tx \/ tx \in Range(entry.replaced) \/ Holds(tx.record)'
    BY <1>1 DEF RememberedBeforeSent
  <2>1. tx \in OnChain \cup pool
    BY <1>5
  <2>2. CASE pending[tx.record] = Nothing
    BY <1>1, <1>5, <2>1, <2>2 DEF RememberedBeforeSent
  <2>3. CASE pending[tx.record] # Nothing
    BY <1>1, <1>7, <2>1, <2>3 DEF RememberedBeforeSent
  <2> QED BY <2>2, <2>3
<1> QED BY <1>2, <1>3, <1>6, <1>8 DEF SoundOutbox

\* A call joins those that wait.
LEMMA QueueGrows ==
  ASSUME CallsOK, NEW call, IsCall(call)
  PROVE  \E S : Append(queue, call) \in Seq(S) /\ \A c \in S : IsCall(c)
<1>1. PICK S : queue \in Seq(S) /\ \A c \in S : IsCall(c)
  BY DEF CallsOK
<1> DEFINE T == S \cup {call}
<1>2. queue \in Seq(T) /\ call \in T /\ \A c \in T : IsCall(c)
  BY <1>1, SeqMonotonic
<1> HIDE DEF T
<1>3. Append(queue, call) \in Seq(T)
  BY <1>2, AppendProperties
<1> QED BY <1>2, <1>3

\* The first of those that wait has its turn.
LEMMA QueueTurns ==
  ASSUME CallsOK, queue # <<>>
  PROVE  IsCall(Head(queue)) /\ \E S : Tail(queue) \in Seq(S) /\ \A c \in S : IsCall(c)
<1>1. PICK S : queue \in Seq(S) /\ \A c \in S : IsCall(c)
  BY DEF CallsOK
<1>2. Head(queue) \in S /\ Tail(queue) \in Seq(S)
  BY <1>1, HeadTailProperties
<1> QED BY <1>1, <1>2

\* The view syncs, a publication queues, or the process ends: the outbox and the
\* network stay.
LEMMA CallStepSound ==
  ASSUME SoundOutbox, Sync \/ (\E r \in Records : PublishRecord(r)) \/ Crash
  PROVE  SoundOutbox'
<1>1. /\ UNCHANGED <<tip, mined, pool, pending, created>> /\ OnChain' = OnChain
      /\ turn' = turn \/ turn' = Nothing
      /\ NetworkOK /\ CallsOK /\ TurnRemembered /\ RememberedBeforeSent
  BY DEF Sync, PublishRecord, Crash, network, outbox, SoundOutbox, OnChain
<1>2. OutboxOK' /\ ReservedOnce'
  BY <1>1, OutboxKept DEF outbox
<1>3. viewTip' \in Heights /\ seen' \in Nat /\ seen <= seen'
  <2>1. CASE Sync
    <3> DEFINE m == Max({seen, tip - Depth})
    <3>1. seen \in Nat /\ tip \in Heights /\ viewTip' = tip /\ seen' \in seen..m
      BY <1>1, <2>1 DEF Sync, NetworkOK
    <3> HIDE DEF m
    <3> QED BY <3>1
  <2>2. CASE (\E r \in Records : PublishRecord(r)) \/ Crash
    <3>1. UNCHANGED <<viewTip, seen>>
      BY <2>2 DEF PublishRecord, Crash
    <3>2. viewTip \in Heights /\ seen \in Nat
      BY <1>1 DEF NetworkOK
    <3> QED BY <3>1, <3>2
  <2> QED BY <2>1, <2>2
<1>4. NetworkOK'
  BY <1>1, <1>3 DEF NetworkOK, IsTx, Inputs, CreationHeight, Heights
<1>5. \E S : queue' \in Seq(S) /\ \A call \in S : IsCall(call)
  <2>1. CASE Sync
    <3>1. queue' = Append(queue, [settle |-> TRUE]) /\ IsCall([settle |-> TRUE])
      BY <2>1 DEF Sync, IsCall
    <3> QED BY <1>1, <3>1, QueueGrows
  <2>2. CASE \E r \in Records : PublishRecord(r)
    <3>1. PICK r \in Records : queue' = Append(queue, [settle |-> FALSE, record |-> r, height |-> viewTip])
      BY <2>2 DEF PublishRecord
    <3>2. IsCall([settle |-> FALSE, record |-> r, height |-> viewTip])
      BY <1>1 DEF IsCall, NetworkOK
    <3> QED BY <1>1, <3>1, <3>2, QueueGrows
  <2>3. CASE Crash
    <3>1. queue' = <<>> /\ <<>> \in Seq({})
      BY <2>3 DEF Crash
    <3> QED BY <3>1
  <2> QED BY <2>1, <2>2, <2>3
<1>6. CallsOK' /\ TurnRemembered'
  BY <1>1, <1>5 DEF CallsOK, IsCall, IsTurn, Heights, TurnRemembered
<1>7. \A tx \in OnChain : mined[tx] <= seen => mined[tx] <= seen'
  BY <1>1, <1>3 DEF NetworkOK
<1>8. \A r : Holds(r) => Holds(r)'
  BY <1>1, <1>7 DEF Holds
<1>9. RememberedBeforeSent'
  <2> SUFFICES ASSUME NEW tx \in OnChain \cup pool
               PROVE  LET entry == pending[tx.record]
                      IN  IF entry = Nothing THEN \E held \in OnChain : held.record = tx.record /\ mined[held] <= seen'
                          ELSE tx = entry.tx \/ tx \in Range(entry.replaced) \/ Holds(tx.record)'
    BY <1>1 DEF RememberedBeforeSent
  <2>1. CASE pending[tx.record] = Nothing
    BY <1>1, <1>7, <2>1 DEF RememberedBeforeSent
  <2>2. CASE pending[tx.record] # Nothing
    BY <1>1, <1>8, <2>2 DEF RememberedBeforeSent
  <2> QED BY <2>1, <2>2
<1> QED BY <1>2, <1>4, <1>6, <1>9 DEF SoundOutbox

\* What the view holds is forgotten, and held it is.
LEMMA SettleSound == ASSUME SoundOutbox, Settle PROVE SoundOutbox'
<1>1. /\ UNCHANGED <<tip, mined, pool, viewTip, seen, created, turn>> /\ OnChain' = OnChain
      /\ turn = Nothing /\ queue # <<>> /\ queue' = Tail(queue)
      /\ NetworkOK /\ OutboxOK /\ CallsOK /\ RememberedBeforeSent /\ ReservedOnce
  BY DEF Settle, Idle, network, SoundOutbox, OnChain
<1> DEFINE settled == {r \in Unsettled : Holds(r)}
<1>2. pending' = [r \in Records |-> IF r \in settled THEN Nothing ELSE pending[r]]
  BY DEF Settle
<1> HIDE DEF settled
<1>3. /\ pending' = [r \in Records |-> pending'[r]]
      /\ \A r \in Unsettled' : r \in Unsettled /\ pending'[r] = pending[r]
  BY <1>2 DEF Unsettled
<1>4. \A r \in Unsettled' : Transaction(r)' = Transaction(r)
  BY <1>3 DEF Transaction
<1>5. OutboxOK'
  <2>1. ASSUME NEW r \in Unsettled'
        PROVE  /\ pending'[r] = [tx |-> pending'[r].tx, replaced |-> pending'[r].replaced]
               /\ IsTx(Transaction(r)) /\ Transaction(r).record = r
               /\ \E S : pending'[r].replaced \in Seq(S)
    BY <1>1, <1>3 DEF OutboxOK
  <2>2. ASSUME NEW r \in Unsettled' PROVE IsTx(Transaction(r))' /\ (Transaction(r).record)' = r
    BY <1>4, <2>1 DEF IsTx, Inputs, CreationHeight, Heights
  <2> QED BY <1>1, <1>3, <2>1, <2>2 DEF OutboxOK, CreationHeight, Heights
<1>6. ReservedOnce'
  BY <1>1, <1>3, <1>4 DEF ReservedOnce, Inputs, CreationHeight
<1>7. NetworkOK'
  BY <1>1 DEF NetworkOK, IsTx, Inputs, CreationHeight, Heights
<1>8. CallsOK' /\ TurnRemembered'
  BY <1>1, QueueTurns DEF CallsOK, IsCall, TurnRemembered, Heights
<1>9. RememberedBeforeSent'
  <2> SUFFICES ASSUME NEW tx \in OnChain \cup pool
               PROVE  LET entry == pending'[tx.record]
                      IN  IF entry = Nothing THEN \E held \in OnChain : held.record = tx.record /\ mined[held] <= seen
                          ELSE tx = entry.tx \/ tx \in Range(entry.replaced) \/ Holds(tx.record)
    BY <1>1 DEF RememberedBeforeSent, Holds
  <2>1. tx.record \in Records
    BY <1>1 DEF NetworkOK, IsTx
  <2>2. CASE tx.record \in settled
    BY <1>2, <2>1, <2>2 DEF settled, Holds
  <2>3. CASE tx.record \notin settled
    BY <1>1, <1>2, <2>1, <2>3 DEF RememberedBeforeSent
  <2> QED BY <2>2, <2>3
<1> QED BY <1>5, <1>6, <1>7, <1>8, <1>9 DEF SoundOutbox

\* A turn's steps before a build: nothing is sent and nothing remembered.
LEMMA NothingSent ==
  ASSUME SoundOutbox, UNCHANGED <<network, viewTip, seen, outbox>>, CallsOK', TurnRemembered'
  PROVE  SoundOutbox'
<1>1. OutboxOK' /\ ReservedOnce'
  BY OutboxKept
<1>2. UNCHANGED <<tip, mined, pool, viewTip, seen, pending>> /\ OnChain' = OnChain
      /\ NetworkOK /\ RememberedBeforeSent
  BY DEF network, outbox, OnChain, SoundOutbox
<1>3. NetworkOK' /\ RememberedBeforeSent'
  BY <1>2 DEF NetworkOK, IsTx, Inputs, CreationHeight, Heights, RememberedBeforeSent, Holds
<1> QED BY <1>1, <1>3 DEF SoundOutbox

\* A turn goes to another step, with what it was shown or found.
StepsTo(t, u, step) ==
  \E shown, live, gone :
    \/ u = [t EXCEPT !.step = step]
    \/ u = [t EXCEPT !.step = step, !.shown = shown]
    \/ u = [t EXCEPT !.step = step, !.live = live, !.gone = gone]

\* Its record, and whether it sends again, stay.
LEMMA StepOfTurn ==
  ASSUME NEW t, IsTurn(t), NEW step \in {"ask", "submit", "earlier", "inspect", "build"},
         NEW u, StepsTo(t, u, step)
  PROVE  IsTurn(u) /\ u.step = step /\ u.record = t.record /\ u.again = t.again
<1>1. t = [record |-> t.record, height |-> t.height, step |-> t.step, again |-> t.again,
           shown |-> t.shown, live |-> t.live, gone |-> t.gone]
  BY DEF IsTurn
<1> PICK shown, live, gone :
      \/ u = [t EXCEPT !.step = step]
      \/ u = [t EXCEPT !.step = step, !.shown = shown]
      \/ u = [t EXCEPT !.step = step, !.live = live, !.gone = gone]
  BY DEF StepsTo
<1> DEFINE goes == [t EXCEPT !.step = step]
           asked == [goes EXCEPT !.shown = shown]
           lives == [goes EXCEPT !.live = live]
           seeks == [lives EXCEPT !.gone = gone]
<1>2. goes = [record |-> t.record, height |-> t.height, step |-> step, again |-> t.again,
              shown |-> t.shown, live |-> t.live, gone |-> t.gone]
  BY <1>1
<1>3. [t EXCEPT !.step = step, !.shown = shown] = asked
  BY <1>1
<1>4. [t EXCEPT !.step = step, !.live = live, !.gone = gone] = seeks
  BY <1>1
<1>5. u = goes \/ u = asked \/ u = seeks
  BY <1>3, <1>4
<1> HIDE DEF goes
<1>6. asked = [record |-> t.record, height |-> t.height, step |-> step, again |-> t.again,
               shown |-> shown, live |-> t.live, gone |-> t.gone]
  BY <1>2
<1>7. lives = [record |-> t.record, height |-> t.height, step |-> step, again |-> t.again,
               shown |-> t.shown, live |-> live, gone |-> t.gone]
  BY <1>2
<1> HIDE DEF lives, asked
<1>8. seeks = [record |-> t.record, height |-> t.height, step |-> step, again |-> t.again,
               shown |-> t.shown, live |-> live, gone |-> gone]
  BY <1>7
<1> HIDE DEF seeks
<1>9. /\ u = [record |-> u.record, height |-> u.height, step |-> u.step, again |-> u.again,
              shown |-> u.shown, live |-> u.live, gone |-> u.gone]
      /\ u.record = t.record /\ u.height = t.height /\ u.step = step /\ u.again = t.again
  <2>1. CASE u = goes
    BY <1>2, <2>1
  <2>2. CASE u = asked
    BY <1>6, <2>2
  <2>3. CASE u = seeks
    BY <1>8, <2>3
  <2> QED BY <1>5, <2>1, <2>2, <2>3
<1> QED BY <1>9 DEF IsTurn

\* A turn whose transaction was built asks for it, and sends it once.
AsksFirst(t, u, again) ==
  u = [t EXCEPT !.step = "ask", !.again = again, !.shown = "unanswered", !.height = 0, !.live = {}, !.gone = {}]

\* It is a turn of the same record.
LEMMA FirstAsked ==
  ASSUME NEW t, IsTurn(t), NEW u, NEW again \in BOOLEAN, AsksFirst(t, u, again), 0 \in Heights
  PROVE  IsTurn(u) /\ u.step = "ask" /\ u.record = t.record
<1> DEFINE a == [t EXCEPT !.step = "ask"]
           b == [a EXCEPT !.again = again]
           c == [b EXCEPT !.shown = "unanswered"]
           d == [c EXCEPT !.height = 0]
           e == [d EXCEPT !.live = {}]
<1>1. u = [e EXCEPT !.gone = {}] /\ t.record \in Records
  BY DEF AsksFirst, IsTurn
<1>2. a = [record |-> t.record, height |-> t.height, step |-> "ask", again |-> t.again,
           shown |-> t.shown, live |-> t.live, gone |-> t.gone]
  BY DEF IsTurn
<1> HIDE DEF a
<1>3. b = [record |-> t.record, height |-> t.height, step |-> "ask", again |-> again,
           shown |-> t.shown, live |-> t.live, gone |-> t.gone]
  BY <1>2
<1> HIDE DEF b
<1>4. c = [record |-> t.record, height |-> t.height, step |-> "ask", again |-> again,
           shown |-> "unanswered", live |-> t.live, gone |-> t.gone]
  BY <1>3
<1> HIDE DEF c
<1>5. d = [record |-> t.record, height |-> 0, step |-> "ask", again |-> again,
           shown |-> "unanswered", live |-> t.live, gone |-> t.gone]
  BY <1>4
<1> HIDE DEF d
<1>6. e = [record |-> t.record, height |-> 0, step |-> "ask", again |-> again,
           shown |-> "unanswered", live |-> {}, gone |-> t.gone]
  BY <1>5
<1> HIDE DEF e
<1>7. u = [record |-> t.record, height |-> 0, step |-> "ask", again |-> again,
           shown |-> "unanswered", live |-> {}, gone |-> {}]
  BY <1>1, <1>6
<1>8. /\ u = [record |-> u.record, height |-> u.height, step |-> u.step, again |-> u.again,
              shown |-> u.shown, live |-> u.live, gone |-> u.gone]
      /\ u.record = t.record /\ u.height = 0 /\ u.step = "ask" /\ u.again = again
  BY <1>7
<1>9. u.again \in BOOLEAN
  BY <1>8
<1> QED BY <1>1, <1>8, <1>9 DEF IsTurn

\* A publication has its turn, asks, and looks at what it replaces.
LEMMA TurnStepSound ==
  ASSUME SoundOutbox, Begin \/ Ask \/ Earlier \/ Inspect
  PROVE  SoundOutbox'
<1>1. /\ UNCHANGED <<network, viewTip, seen, outbox>> /\ UNCHANGED pending
      /\ OutboxOK /\ CallsOK /\ TurnRemembered
  BY DEF Begin, Ask, Earlier, Inspect, SoundOutbox, outbox
<1>2. CallsOK' /\ TurnRemembered'
  <2>1. CASE Begin
    <3> DEFINE call == Head(queue)
               known == pending[call.record] # Nothing
               began == [record |-> call.record, height |-> call.height,
                         step |-> IF known THEN "ask" ELSE "build", again |-> known,
                         shown |-> "unanswered", live |-> {}, gone |-> {}]
    <3>1. queue # <<>> /\ queue' = Tail(queue) /\ ~call.settle /\ turn' \in {began, Nothing}
      BY <2>1 DEF Begin
    <3>2. IsCall(call) /\ \E S : queue' \in Seq(S) /\ \A c \in S : IsCall(c)
      BY <1>1, <3>1, QueueTurns
    <3>3. call.record \in Records /\ call.height \in Heights
      BY <3>1, <3>2 DEF IsCall
    <3>4. known \in BOOLEAN
      OBVIOUS
    <3> DEFINE k == known
               s == IF k THEN "ask" ELSE "build"
    <3>5. (k <=> pending[call.record] # Nothing) /\ k \in BOOLEAN
      BY <3>4
    <3>6. began = [record |-> call.record, height |-> call.height, step |-> s, again |-> k,
                   shown |-> "unanswered", live |-> {}, gone |-> {}]
      OBVIOUS
    <3>7. (k => s = "ask") /\ (~k => s = "build") /\ s \in {"ask", "build"}
      OBVIOUS
    <3> HIDE DEF call, known, began, k, s
    <3>8. IsTurn(began) /\ began.record = call.record /\ began.step = s /\ began.again = k
      BY <3>3, <3>5, <3>6, <3>7 DEF IsTurn
    <3>9. /\ began.step = "build" => (began.again <=> pending[began.record] # Nothing)
          /\ began.step \in {"earlier", "inspect"} => began.again
          /\ began.step # "build" => pending[began.record] # Nothing
      BY <3>5, <3>7, <3>8
    <3>10. CallsOK'
      BY <3>1, <3>2, <3>8 DEF CallsOK, IsCall, IsTurn, Heights
    <3>11. TurnRemembered'
      BY <1>1, <3>1, <3>9 DEF TurnRemembered
    <3> QED BY <3>10, <3>11
  <2>2. ASSUME NEW t, turn' = t \/ turn' = Nothing, IsTurn(t), queue' = queue, turn # Nothing,
               t.record = turn.record, t.again = turn.again, t.step \in {"submit", "earlier", "inspect", "build"},
               pending[turn.record] # Nothing, t.step \in {"earlier", "inspect", "build"} => turn.again
        PROVE  CallsOK' /\ TurnRemembered'
    BY <1>1, <2>2 DEF CallsOK, IsCall, IsTurn, Heights, TurnRemembered
  <2>3. turn # Nothing => IsTurn(turn)
    BY <1>1 DEF CallsOK
  <2>4. CASE Ask
    <3> DEFINE asked == [turn EXCEPT !.step = "submit", !.shown = "lacked"]
               goes == [turn EXCEPT !.step = "submit"]
    <3>1. turn # Nothing /\ turn.step = "ask" /\ turn' \in {asked, goes, Nothing} /\ queue' = queue
      BY <2>4 DEF Ask, At, Idle, Goto, End
    <3>2. /\ IsTurn(goes) /\ goes.step = "submit" /\ goes.record = turn.record /\ goes.again = turn.again
          /\ IsTurn(asked) /\ asked.step = "submit" /\ asked.record = turn.record /\ asked.again = turn.again
      <4>1. StepsTo(turn, asked, "submit") /\ StepsTo(turn, goes, "submit")
        BY DEF StepsTo
      <4> HIDE DEF asked, goes
      <4> QED BY <2>3, <3>1, <4>1, StepOfTurn
    <3>3. pending[turn.record] # Nothing
      BY <1>1, <3>1 DEF TurnRemembered
    <3> HIDE DEF asked, goes
    <3>4. CASE turn' = asked
      BY <2>2, <3>1, <3>2, <3>3, <3>4
    <3>5. CASE turn' \in {goes, Nothing}
      BY <2>2, <3>1, <3>2, <3>3, <3>5
    <3> QED BY <3>1, <3>4, <3>5
  <2>5. CASE Earlier
    <3> DEFINE goes == [turn EXCEPT !.step = "inspect"]
    <3>1. turn # Nothing /\ turn.step = "earlier" /\ turn' \in {goes, Nothing} /\ queue' = queue
      BY <2>5 DEF Earlier, At, Idle, Goto, End
    <3>2. IsTurn(goes) /\ goes.step = "inspect" /\ goes.record = turn.record /\ goes.again = turn.again
      <4>1. StepsTo(turn, goes, "inspect")
        BY DEF StepsTo
      <4> HIDE DEF goes
      <4> QED BY <2>3, <3>1, <4>1, StepOfTurn
    <3>3. pending[turn.record] # Nothing /\ turn.again
      BY <1>1, <3>1 DEF TurnRemembered
    <3> HIDE DEF goes
    <3> QED BY <2>2, <3>1, <3>2, <3>3
  <2>6. CASE Inspect
    <3>1. PICK known \in SUBSET Inputs(Transaction(turn.record)) :
            LET live == {box \in known : HasBox(box)}
            IN  turn' = [turn EXCEPT !.step = "build", !.live = IF known = live THEN {} ELSE live,
                                                       !.gone = known \ live]
      BY <2>6 DEF Inspect
    <3> DEFINE live == {box \in known : HasBox(box)}
               lives == IF known = live THEN {} ELSE live
               gone == known \ live
               seeks == [turn EXCEPT !.step = "build", !.live = lives, !.gone = gone]
    <3>2. turn # Nothing /\ turn.step = "inspect" /\ turn' = seeks /\ queue' = queue
      BY <2>6, <3>1 DEF Inspect, At, Idle
    <3> HIDE DEF lives, gone
    <3>3. IsTurn(seeks) /\ seeks.step = "build" /\ seeks.record = turn.record /\ seeks.again = turn.again
      <4>1. StepsTo(turn, seeks, "build")
        BY DEF StepsTo
      <4> HIDE DEF seeks
      <4> QED BY <2>3, <3>2, <4>1, StepOfTurn
    <3>4. pending[turn.record] # Nothing /\ turn.again
      BY <1>1, <3>2 DEF TurnRemembered
    <3> HIDE DEF seeks
    <3> QED BY <2>2, <3>2, <3>3, <3>4
  <2> QED BY <2>1, <2>4, <2>5, <2>6
<1> QED BY <1>1, <1>2, NothingSent

\* A transaction is sent: it is one the outbox remembers.
LEMMA SentSound ==
  ASSUME SoundOutbox, UNCHANGED <<tip, mined, viewTip, seen, outbox>>,
         NEW r \in Unsettled, pool' = pool \/ (pool' = pool \cup {Transaction(r)} /\ Transaction(r) \notin OnChain),
         CallsOK', TurnRemembered'
  PROVE  SoundOutbox'
<1>1. OutboxOK' /\ ReservedOnce'
  BY OutboxKept
<1>2. UNCHANGED <<tip, mined, viewTip, seen, pending>> /\ OnChain' = OnChain
      /\ NetworkOK /\ OutboxOK /\ RememberedBeforeSent
  BY DEF outbox, OnChain, SoundOutbox
<1>3. IsTx(Transaction(r)) /\ Transaction(r).record = r /\ pending[r] # Nothing
  BY <1>2 DEF OutboxOK, Unsettled
<1>4. /\ IsFiniteSet(pool') /\ OnChain \cap pool' = {} /\ \A tx \in OnChain \cup pool' : IsTx(tx)
      /\ \A tx \in pool' : tx \in pool \/ tx = Transaction(r)
  <2>1. CASE pool' = pool
    BY <1>2, <2>1 DEF NetworkOK
  <2>2. CASE pool' = pool \cup {Transaction(r)} /\ Transaction(r) \notin OnChain
    <3>1. IsFiniteSet(pool \cup {Transaction(r)})
      BY <1>2, FS_AddElement DEF NetworkOK
    <3> QED BY <1>2, <1>3, <2>2, <3>1 DEF NetworkOK
  <2> QED BY <2>1, <2>2
<1>5. NetworkOK'
  BY <1>2, <1>4 DEF NetworkOK, IsTx, Inputs, CreationHeight, Heights
<1>6. RememberedBeforeSent'
  <2> SUFFICES ASSUME NEW tx \in OnChain \cup pool'
               PROVE  LET entry == pending[tx.record]
                      IN  IF entry = Nothing THEN \E held \in OnChain : held.record = tx.record /\ mined[held] <= seen
                          ELSE tx = entry.tx \/ tx \in Range(entry.replaced) \/ Holds(tx.record)
    BY <1>2 DEF RememberedBeforeSent, Holds
  <2>1. CASE tx = Transaction(r)
    <3>1. tx.record = r /\ pending[tx.record] # Nothing /\ tx = pending[tx.record].tx
      BY <1>3, <2>1 DEF Transaction
    <3> QED BY <3>1
  <2>2. CASE tx # Transaction(r)
    BY <1>2, <1>4, <2>2 DEF RememberedBeforeSent
  <2> QED BY <2>1, <2>2
<1> QED BY <1>1, <1>5, <1>6 DEF SoundOutbox

\* #submit sends the turn's transaction, after ancestors a supplier lacks.
LEMMA SubmitStepSound ==
  ASSUME SoundOutbox, SubmitParent \/ Submit
  PROVE  SoundOutbox'
<1>1. /\ UNCHANGED <<tip, mined, viewTip, seen, outbox, queue>> /\ pending' = pending
      /\ turn # Nothing /\ turn.step = "submit" /\ CallsOK /\ TurnRemembered
  BY DEF SubmitParent, Submit, SoundOutbox, At, Idle, outbox
<1>2. IsTurn(turn) /\ turn.record \in Unsettled
  BY <1>1 DEF CallsOK, TurnRemembered, IsTurn, Unsettled
<1>3. CASE SubmitParent
  <2>1. PICK r \in Unsettled : LET tx == Transaction(r) IN Takes(pool, tx) /\ pool' = pool \cup {tx}
    BY <1>3 DEF SubmitParent
  <2>2. UNCHANGED <<turn, queue>> /\ Transaction(r) \notin OnChain
    BY <1>3, <2>1 DEF SubmitParent, Takes
  <2>3. CallsOK' /\ TurnRemembered'
    BY <1>1, <2>2 DEF CallsOK, IsCall, IsTurn, Heights, TurnRemembered
  <2> QED BY <1>1, <2>1, <2>2, <2>3, SentSound
<1>4. CASE Submit
  <2> DEFINE goes == [turn EXCEPT !.step = "earlier"]
             tx == Transaction(turn.record)
  <2>1. /\ turn' = Nothing \/ (turn.again /\ turn' = goes)
        /\ pool' = pool \/ (pool' = pool \cup {tx} /\ tx \notin OnChain)
    BY <1>4 DEF Submit, NotTaken, End, Goto, Takes
  <2>2. StepsTo(turn, goes, "earlier")
    BY DEF StepsTo
  <2> HIDE DEF goes
  <2>3. IsTurn(goes) /\ goes.step = "earlier" /\ goes.record = turn.record /\ goes.again = turn.again
    BY <1>2, <2>2, StepOfTurn
  <2>4. CallsOK' /\ TurnRemembered'
    <3>1. CASE turn' = Nothing
      BY <1>1, <3>1 DEF CallsOK, IsCall, TurnRemembered, Heights
    <3>2. CASE turn.again /\ turn' = goes
      <4>1. pending[turn.record] # Nothing
        BY <1>2 DEF Unsettled
      <4>2. CallsOK'
        BY <1>1, <2>3, <3>2 DEF CallsOK, IsCall, IsTurn, Heights
      <4>3. TurnRemembered'
        BY <1>1, <2>3, <3>2, <4>1 DEF TurnRemembered
      <4> QED BY <4>2, <4>3
    <3> QED BY <2>1, <3>1, <3>2
  <2> QED BY <1>1, <1>2, <2>1, <2>4, SentSound
<1> QED BY <1>3, <1>4

\* A build remembers its transaction and those it replaces, spends what no other
\* unsettled publication spends and nothing above its height.
LEMMA BuildSound ==
  ASSUME NothingIsNoEntry, SoundOutbox, Build
  PROVE  SoundOutbox'
<1> DEFINE r        == turn.record
           old      == IF turn.again THEN {Transaction(r)} ELSE {}
           replaced == IF turn.again THEN Append(pending[r].replaced, Transaction(r)) ELSE <<>>
           required == IF ~turn.again THEN <<>>
                       ELSE IF turn.gone = {} THEN Transaction(r).inputs
                       ELSE Among(Transaction(r).inputs, turn.live)
           height   == Highest(Range(required), turn.height)
           kept     == (created \ Created(old)) \ turn.gone
           reserved == Spent({Transaction(q) : q \in Unsettled \ {r}}) \cup Range(required)
           usable(boxes) == {box \in boxes \ (reserved \cup Avoided(replaced, turn.gone)) :
                               CreationHeight(box) <= height}
           own      == usable(kept)
           offered  == usable(UnspentBoxes \ kept)
<1>1. /\ UNCHANGED <<tip, mined, pool, viewTip, seen, queue>> /\ OnChain' = OnChain
      /\ turn # Nothing /\ turn.step = "build"
      /\ NetworkOK /\ OutboxOK /\ CallsOK /\ TurnRemembered /\ RememberedBeforeSent /\ ReservedOnce
  BY DEF Build, network, At, Idle, SoundOutbox, OnChain
<1>2. /\ IsTurn(turn) /\ r \in Records /\ turn.height \in Heights
      /\ turn.again <=> pending[r] # Nothing
      /\ turn.again => r \in Unsettled
  BY <1>1 DEF CallsOK, TurnRemembered, IsTurn, Unsettled
<1>3. CASE UNCHANGED outbox /\ turn' = Nothing
  <2>1. CallsOK' /\ TurnRemembered'
    BY <1>1, <1>3 DEF CallsOK, IsCall, TurnRemembered, Heights
  <2> QED BY <1>1, <1>3, <2>1, NothingSent DEF network
<1>4. ASSUME NEW inputs \in Selections(required, own, offered, Needs[r]),
             LET tx == [record |-> r, inputs |-> inputs, height |-> height]
             IN  /\ pending' = [pending EXCEPT ![r] = [tx |-> tx, replaced |-> replaced]]
                 /\ created' = (kept \ Inputs(tx)) \cup {Change(tx)}
                 /\ turn' = [turn EXCEPT !.step = "ask", !.again = FALSE, !.shown = "unanswered",
                                         !.height = 0, !.live = {}, !.gone = {}]
      PROVE  SoundOutbox'
  <2> DEFINE tx == [record |-> r, inputs |-> inputs, height |-> height]
             entry == [tx |-> tx, replaced |-> replaced]
  <2>1. IsTx(Transaction(r)) \/ ~turn.again
    BY <1>1, <1>2 DEF OutboxOK
  <2>2. /\ \E S : required \in Seq(S)
        /\ \A box \in Range(required) : turn.again /\ box \in Inputs(Transaction(r))
    <3>1. CASE ~turn.again
      <4>1. required = <<>> /\ <<>> \in Seq({}) /\ Range(<<>>) = {}
        BY <3>1 DEF Range
      <4> QED BY <4>1
    <3>2. CASE turn.again
      <4> DEFINE s == Transaction(r).inputs
                 A == Range(s)
                 among == Among(s, turn.live)
      <4>1. PICK S : s \in Seq(S)
        BY <2>1, <3>2 DEF IsTx
      <4>2. A = Inputs(Transaction(r)) /\ required \in {s, among}
        BY <3>2 DEF Inputs
      <4> HIDE DEF s
      <4>3. s \in Seq(A)
        BY <4>1, SeqOfRange
      <4> HIDE DEF A
      <4>4. among \in Seq(A)
        BY <4>3, AmongIsSeq
      <4> HIDE DEF among, required
      <4>5. required \in Seq(A)
        BY <4>2, <4>3, <4>4
      <4>6. Range(required) \subseteq A
        BY <4>5, RangeOfSeq
      <4> QED BY <3>2, <4>2, <4>5, <4>6
    <3> QED BY <3>1, <3>2
  <2>3. \A box \in Range(required) : CreationHeight(box) \in Heights
    BY <2>1, <2>2 DEF IsTx
  <2>4. height \in Heights /\ \A box \in Range(required) : CreationHeight(box) <= height
    BY <1>2, <2>3, HighestBounds
  <2>5. kept \in SUBSET created /\ IsFiniteSet(created) /\ \A box \in created : CreationHeight(box) \in Heights
    BY <1>1 DEF OutboxOK
  <2>6. IsFiniteSet(UnspentBoxes) /\ \A box \in UnspentBoxes : CreationHeight(box) \in Heights
    BY <1>1, UnspentSound
  <2>7. /\ own \in SUBSET created /\ offered \in SUBSET UnspentBoxes
        /\ \A box \in own \cup offered : box \notin reserved /\ CreationHeight(box) <= height
    BY <2>5
  <2> HIDE DEF required, height, kept, reserved, own, offered
  <2>8. IsFiniteSet(own) /\ IsFiniteSet(offered)
    BY <2>5, <2>6, <2>7, FS_Subset
  <2>9. (\E S : inputs \in Seq(S)) /\ Range(inputs) \subseteq Range(required) \cup own \cup offered
    BY <2>2, <2>8, SelectionsSound
  <2>10. ASSUME NEW box \in Range(inputs)
         PROVE  CreationHeight(box) \in Heights /\ CreationHeight(box) <= height
    BY <2>3, <2>4, <2>5, <2>6, <2>7, <2>9
  <2>11. ASSUME NEW box \in Range(inputs), NEW q \in Unsettled \ {r}
         PROVE  box \notin Inputs(Transaction(q))
    <3>1. CASE box \in Range(required)
      <4>1. r \in Unsettled /\ box \in Inputs(Transaction(r))
        BY <1>2, <2>2, <3>1
      <4>2. q \in Unsettled /\ r \in Unsettled \ {q}
        BY <4>1
      <4> QED BY <1>1, <4>1, <4>2 DEF ReservedOnce
    <3>2. CASE box \in own \cup offered
      BY <2>7, <3>2 DEF reserved, Spent
    <3> QED BY <2>9, <3>1, <3>2
  <2> HIDE DEF r
  <2>12. tx.record = r /\ tx.inputs = inputs /\ tx.height = height
    OBVIOUS
  <2>13. pending' = [pending EXCEPT ![r] = entry] /\ created' = (kept \ Inputs(tx)) \cup {Change(tx)}
    BY <1>4
  <2>14. entry # Nothing /\ entry.tx = tx /\ entry.replaced = replaced
         /\ entry = [tx |-> entry.tx, replaced |-> entry.replaced]
    BY DEF NothingIsNoEntry
  <2>15. \E S : replaced \in Seq(S)
    <3>1. CASE ~turn.again
      <4>1. replaced = <<>> /\ <<>> \in Seq({})
        BY <3>1
      <4> QED BY <4>1
    <3>2. CASE turn.again
      <4>1. PICK S : pending[r].replaced \in Seq(S)
        BY <1>1, <1>2, <3>2 DEF OutboxOK, r
      <4> DEFINE T == S \cup {Transaction(r)}
      <4>2. pending[r].replaced \in Seq(T) /\ Transaction(r) \in T
        BY <4>1, SeqMonotonic
      <4> HIDE DEF T
      <4>3. replaced \in Seq(T)
        BY <3>2, <4>2, AppendProperties
      <4> QED BY <4>3
    <3> QED BY <3>1, <3>2
  <2>16. \A x \in Range(pending[r].replaced) \cup {Transaction(r)} : turn.again => x \in Range(replaced)
    <3> SUFFICES ASSUME turn.again, NEW x \in Range(pending[r].replaced) \cup {Transaction(r)}
                 PROVE  x \in Range(replaced)
      OBVIOUS
    <3> DEFINE s == pending[r].replaced
               n == Len(s)
    <3>1. PICK S : s \in Seq(S)
      BY <1>1, <1>2 DEF OutboxOK, r
    <3> DEFINE T == S \cup {Transaction(r)}
    <3>2. s \in Seq(T) /\ Transaction(r) \in T /\ replaced = Append(s, Transaction(r))
      BY <3>1, SeqMonotonic
    <3> HIDE DEF T, s, replaced
    <3>3. /\ replaced \in Seq(T) /\ Len(replaced) = n + 1 /\ replaced[n + 1] = Transaction(r)
          /\ \A i \in 1..n : replaced[i] = s[i]
      BY <3>2, AppendProperties
    <3>4. n \in Nat /\ DOMAIN s = 1..n /\ DOMAIN replaced = 1..(n + 1)
      BY <3>2, <3>3, LenProperties
    <3>5. CASE x \in Range(s)
      BY <3>3, <3>4, <3>5 DEF Range
    <3>6. CASE x = Transaction(r)
      BY <3>3, <3>4, <3>6 DEF Range
    <3> QED BY <3>5, <3>6 DEF s
  <2>17. /\ IsTx(tx)
         /\ IsFiniteSet(created') /\ \A box \in created' : CreationHeight(box) \in Heights
    <3>1. IsTx(tx)
      BY <1>2, <2>4, <2>9, <2>10, <2>12 DEF IsTx, Inputs, r
    <3>2. IsFiniteSet(kept \ Inputs(tx))
      BY <2>5, FS_Subset
    <3>3. IsFiniteSet((kept \ Inputs(tx)) \cup {Change(tx)})
      BY <3>2, FS_AddElement
    <3>4. CreationHeight(Change(tx)) \in Heights
      <4>1. Change(tx).of.height = height /\ 0 \in Heights
        BY <2>12, PublisherAssumption DEF Change, Heights
      <4> QED BY <2>4, <4>1 DEF CreationHeight
    <3> HIDE DEF tx
    <3>5. \A box \in created' : CreationHeight(box) \in Heights
      BY <2>5, <2>13, <3>4
    <3>6. IsFiniteSet(created')
      BY <2>13, <3>3
    <3> QED BY <3>1, <3>5, <3>6
  <2> HIDE DEF tx, entry, replaced
  <2>18. /\ pending' = [q \in Records |-> pending'[q]]
         /\ pending'[r] = entry /\ \A q \in Records \ {r} : pending'[q] = pending[q]
         /\ r \in Records /\ r \in Unsettled' /\ \A q \in Unsettled' \ {r} : q \in Unsettled \ {r}
    BY <1>1, <1>2, <2>13, <2>14 DEF OutboxOK, Unsettled, r
  <2>19. ASSUME NEW q \in Unsettled'
         PROVE  \/ q = r /\ pending'[q] = entry /\ Transaction(q)' = tx
                \/ /\ q \in Unsettled \ {r} /\ q \in Records
                   /\ pending'[q] = pending[q] /\ Transaction(q)' = Transaction(q)
    <3>1. CASE q = r
      <4>1. pending'[q].tx = tx
        BY <2>14, <2>18, <3>1
      <4> QED BY <2>18, <3>1, <4>1 DEF Transaction
    <3>2. CASE q # r
      <4>1. q \in Unsettled \ {r} /\ q \in Records \ {r}
        BY <2>18, <3>2 DEF Unsettled
      <4>2. pending'[q] = pending[q]
        BY <2>18, <4>1
      <4> QED BY <4>1, <4>2 DEF Transaction
    <3> QED BY <3>1, <3>2
  <2>20. ASSUME NEW q \in Unsettled'
         PROVE  /\ pending'[q] = [tx |-> pending'[q].tx, replaced |-> pending'[q].replaced]
                /\ IsTx(Transaction(q)') /\ Transaction(q)'.record = q
                /\ \E S : pending'[q].replaced \in Seq(S)
    <3>1. CASE q = r
      BY <2>12, <2>14, <2>15, <2>17, <2>18, <2>19, <3>1
    <3>2. CASE q # r
      <4>1. q \in Unsettled /\ pending'[q] = pending[q] /\ Transaction(q)' = Transaction(q)
        BY <2>19, <3>2
      <4>2. /\ pending[q] = [tx |-> pending[q].tx, replaced |-> pending[q].replaced]
            /\ IsTx(Transaction(q)) /\ Transaction(q).record = q
            /\ \E S : pending[q].replaced \in Seq(S)
        BY <1>1, <4>1 DEF OutboxOK
      <4> QED BY <4>1, <4>2
    <3> QED BY <3>1, <3>2
  <2>21. OutboxOK'
    BY <2>17, <2>18, <2>20 DEF OutboxOK, IsTx, Inputs, CreationHeight, Heights, Transaction
  <2>22. ReservedOnce'
    <3>1. ASSUME NEW q \in Unsettled', NEW box \in Inputs(Transaction(q)')
          PROVE  CreationHeight(box) <= Transaction(q)'.height
      <4>1. CASE q = r
        BY <2>10, <2>12, <2>19, <3>1, <4>1 DEF Inputs
      <4>2. CASE q # r
        BY <1>1, <2>18, <2>19, <3>1, <4>2 DEF ReservedOnce
      <4> QED BY <4>1, <4>2
    <3>2. ASSUME NEW q \in Unsettled', NEW s \in Unsettled' \ {q}
          PROVE  Inputs(Transaction(s)') \cap Inputs(Transaction(q)') = {}
      <4>1. CASE q = r
        <5>1. s \in Unsettled \ {r} /\ Transaction(s)' = Transaction(s) /\ Transaction(q)' = tx
          BY <2>18, <2>19, <4>1
        <5> QED BY <2>11, <2>12, <5>1 DEF Inputs
      <4>2. CASE s = r
        <5>1. q \in Unsettled \ {r} /\ Transaction(q)' = Transaction(q) /\ Transaction(s)' = tx
          BY <2>18, <2>19, <4>2
        <5> QED BY <2>11, <2>12, <5>1 DEF Inputs
      <4>3. CASE q # r /\ s # r
        <5>1. q \in Unsettled /\ s \in Unsettled \ {q} /\ Transaction(q)' = Transaction(q) /\ Transaction(s)' = Transaction(s)
          BY <2>18, <2>19, <4>3
        <5> QED BY <1>1, <5>1 DEF ReservedOnce
      <4> QED BY <4>1, <4>2, <4>3
    <3>3. \A q \in Unsettled' : \A box \in Inputs(Transaction(q)') : CreationHeight(box) <= Transaction(q)'.height
      BY <3>1
    <3>4. \A q \in Unsettled' : \A s \in Unsettled' \ {q} : Inputs(Transaction(s)') \cap Inputs(Transaction(q)') = {}
      BY <3>2
    <3> QED BY <3>3, <3>4 DEF ReservedOnce, Inputs, CreationHeight
  <2>23. NetworkOK'
    BY <1>1 DEF NetworkOK, IsTx, Inputs, CreationHeight, Heights
  <2>24. RememberedBeforeSent'
    <3> SUFFICES ASSUME NEW sent \in OnChain \cup pool
                 PROVE  LET e == pending'[sent.record]
                        IN  IF e = Nothing THEN \E held \in OnChain : held.record = sent.record /\ mined[held] <= seen
                            ELSE sent = e.tx \/ sent \in Range(e.replaced) \/ Holds(sent.record)
      BY <1>1 DEF RememberedBeforeSent, Holds
    <3>1. sent.record \in Records
      BY <1>1 DEF NetworkOK, IsTx
    <3>2. CASE sent.record # r
      BY <1>1, <2>18, <3>1, <3>2 DEF RememberedBeforeSent
    <3>3. CASE sent.record = r
      <4>1. pending'[sent.record] = entry
        BY <2>18, <3>3
      <4>2. CASE turn.again
        <5>1. pending[r] # Nothing /\ (sent = pending[r].tx \/ sent \in Range(pending[r].replaced) \/ Holds(sent.record))
          BY <1>1, <1>2, <3>3, <4>2 DEF RememberedBeforeSent, r
        <5>2. pending[r].tx = Transaction(r)
          BY DEF Transaction
        <5>3. sent \in Range(replaced) \/ Holds(sent.record)
          BY <2>16, <4>2, <5>1, <5>2
        <5> QED BY <2>14, <4>1, <5>3
      <4>3. CASE ~turn.again
        <5>1. pending[sent.record] = Nothing
          BY <1>2, <3>3, <4>3 DEF r
        <5>2. Holds(sent.record)
          BY <1>1, <5>1 DEF RememberedBeforeSent, Holds
        <5> QED BY <2>14, <4>1, <5>2
      <4> QED BY <4>2, <4>3
    <3> QED BY <3>2, <3>3
  <2>25. CallsOK' /\ TurnRemembered'
    <3> DEFINE asks == [turn EXCEPT !.step = "ask", !.again = FALSE, !.shown = "unanswered",
                                    !.height = 0, !.live = {}, !.gone = {}]
    <3>1. turn' = asks
      BY <1>4
    <3>2. AsksFirst(turn, asks, FALSE)
      BY DEF AsksFirst
    <3> HIDE DEF asks
    <3>3. 0 \in Heights
      BY PublisherAssumption DEF Heights
    <3>4. IsTurn(asks) /\ asks.step = "ask" /\ asks.record = r
      BY <1>2, <3>2, <3>3, FirstAsked DEF r
    <3>5. CallsOK'
      BY <1>1, <3>1, <3>4 DEF CallsOK, IsCall, IsTurn, Heights
    <3>6. TurnRemembered'
      BY <2>14, <2>18, <3>1, <3>4 DEF TurnRemembered
    <3> QED BY <3>5, <3>6
  <2> QED BY <2>21, <2>22, <2>23, <2>24, <2>25 DEF SoundOutbox
<1>5. (UNCHANGED outbox /\ turn' = Nothing)
      \/ \E inputs \in Selections(required, own, offered, Needs[r]) :
           LET tx == [record |-> r, inputs |-> inputs, height |-> height]
           IN  /\ pending' = [pending EXCEPT ![r] = [tx |-> tx, replaced |-> replaced]]
               /\ created' = (kept \ Inputs(tx)) \cup {Change(tx)}
               /\ turn' = [turn EXCEPT !.step = "ask", !.again = FALSE, !.shown = "unanswered",
                                       !.height = 0, !.live = {}, !.gone = {}]
  BY DEF Build, End
<1> QED BY <1>3, <1>4, <1>5

\* An empty outbox says nothing of an empty network.
LEMMA EmptyOutboxSound ==
  ASSUME Init
  PROVE  SoundOutbox
<1>1. OnChain = {} /\ pool = {} /\ mined \in [OnChain -> Int]
  BY DEF Init, OnChain
<1>2. tip \in Heights /\ viewTip \in Heights /\ seen \in Nat
  BY PublisherAssumption DEF Init, Heights
<1>3. NetworkOK
  BY <1>1, <1>2, FS_EmptySet DEF NetworkOK
<1>4. pending = [r \in Records |-> pending[r]] /\ Unsettled = {} /\ created = {}
  BY DEF Init, Unsettled
<1>5. OutboxOK /\ ReservedOnce
  BY <1>4, FS_EmptySet DEF OutboxOK, ReservedOnce
<1>6. queue = <<>> /\ <<>> \in Seq({}) /\ turn = Nothing
  BY DEF Init
<1>7. CallsOK /\ TurnRemembered
  <2>1. queue \in Seq({}) /\ \A call \in {} : IsCall(call)
    BY <1>6
  <2>2. \E S : queue \in Seq(S) /\ \A call \in S : IsCall(call)
    BY <2>1
  <2>3. CallsOK
    BY <1>6, <2>2 DEF CallsOK
  <2>4. TurnRemembered
    BY <1>6 DEF TurnRemembered
  <2> QED BY <2>3, <2>4
<1>8. RememberedBeforeSent
  BY <1>1 DEF RememberedBeforeSent
<1> QED BY <1>3, <1>5, <1>7, <1>8 DEF SoundOutbox

\* The inductive invariant of the publisher: its types, that a turn past its
\* build has a remembered transaction, and what the outbox says.
THEOREM PublisherSound == ASSUME NothingIsNoEntry PROVE Spec => []SoundOutbox
<1>1. SoundOutbox /\ [Next]_vars => SoundOutbox'
  <2> SUFFICES ASSUME SoundOutbox, [Next]_vars PROVE SoundOutbox'
    OBVIOUS
  <2>1. CASE Mine \/ Drop \/ Reorganise
    BY <2>1, NetworkStepSound
  <2>2. CASE Sync \/ (\E r \in Records : PublishRecord(r)) \/ Crash
    BY <2>2, CallStepSound
  <2>3. CASE Settle
    BY <2>3, SettleSound
  <2>4. CASE Begin \/ Ask \/ Earlier \/ Inspect
    BY <2>4, TurnStepSound
  <2>5. CASE SubmitParent \/ Submit
    BY <2>5, SubmitStepSound
  <2>6. CASE Build
    BY <2>6, BuildSound
  <2>7. CASE UNCHANGED vars
    <3>1. CallsOK' /\ TurnRemembered'
      BY <2>7 DEF SoundOutbox, vars, outbox, CallsOK, IsCall, IsTurn, Heights, TurnRemembered
    <3> QED BY <2>7, <3>1, NothingSent DEF vars
  <2> QED BY <2>1, <2>2, <2>3, <2>4, <2>5, <2>6, <2>7 DEF Next
<1> QED BY EmptyOutboxSound, <1>1, PTL DEF Spec

\* Whatever of a record is on the network was remembered before it was sent, and
\* no box is spent by two unsettled publications or above a publication's height,
\* whatever the network drops or reorganises and wherever the process ends.
THEOREM OutboxIsSound == ASSUME NothingIsNoEntry PROVE Spec => []OutboxSound
<1>1. SoundOutbox => OutboxSound
  BY DEF SoundOutbox, OutboxSound
<1> QED BY <1>1, PublisherSound, PTL
=============================================================================
