--------------------------- MODULE EvidenceSupply ---------------------------
(***************************************************************************)
(* How evidence reaches a reader: an operator's journal serves its         *)
(* checkpoints by parts (pool/v3/store.ts, "serve"), a replica keeps them, *)
(* indexes what it kept under the selection its own read found final and   *)
(* serves it on (replica.ts, evidence-store.ts), and a reader brings its   *)
(* file up to a source's selection (service-client.ts, "sync") and reads   *)
(* over it, repairing a source that withheld (cli/read.ts, "readSources"). *)
(*                                                                         *)
(* A connection may break between two parts, a party may stop between any  *)
(* two transactions of its file, storage may damage what a file keeps, a   *)
(* source may leave parts out, and a replica's file may be restored from   *)
(* an older copy.  What a part carries is authenticated when a read uses   *)
(* it and is not forged here.                                              *)
(***************************************************************************)
EXTENDS EvidenceRows, FiniteSetsExt

CONSTANTS
    LastSequence,    \* the checkpoints the operator signs
    Own,             \* its segment
    OwnTop,          \* sequence -> the value its own snapshot names
    Taken,           \* sequence -> the values what its opening took names
    Quota,           \* a party's quota on one supply, in rows
    Plans            \* the faults of a run: what which source always leaves out, and how often storage damages a
                     \* file, a connection breaks or a party stops, and the replica's file is restored

\* Values are chains of records, and what an opening took names finitely many.
IsValue(v) == v \in Seq(ToSet(v)) /\ v # <<>>
ASSUME SupplyAssumption ==
    /\ LastSequence \in Nat
    /\ \A n \in 1 .. LastSequence : /\ IsValue(OwnTop[n]) /\ Segment(OwnTop[n]) = Own
                                   /\ IsFiniteSet(Taken[n]) /\ \A v \in Taken[n] : IsValue(v)

Journal == "journal"
Replica == "replica"
Reader == "reader"
Parties == {Replica, Reader}
Sources(party) == IF party = Replica THEN <<Journal>> ELSE <<Journal, Replica>>
Segments == {Own} \cup {Segment(v) : v \in UNION {Taken[n] : n \in 1 .. LastSequence}}

VARIABLES
    signed,     \* the checkpoints signed, all published
    held,       \* the latest the venue holds
    selection,  \* the selection the journal serves: held, or in flight
    file,       \* party -> its evidence file's rows
    mark,       \* party -> source -> the sequence it is supplied through
    index,      \* the replica's file: what is indexed, under which sequence (Pending: none yet)
    served,     \* the replica's file: the highest selection served, 0 for none
    reading,    \* party -> what its read is doing
    unresolved, \* party -> source -> the selection whose whole answer stayed unresolved, 0 for none
    copy,       \* a copy of the replica's file
    plan,       \* the faults of this run
    faults      \* those met so far

vars == <<signed, held, selection, file, mark, index, served, reading, unresolved, copy, plan, faults>>

Pending == 0
Idle == [state |-> "idle"]
NothingIndexed == [x \in {} |-> Pending]

(* What a checkpoint's directory and snapshots are, and what its opening took. *)
OwnObject(n) == <<"own", n>>
TakenObject(n) == <<"taken", n>>
ObjectsAt(n) == {OwnObject(n)} \cup (IF Taken[n] = {} THEN {} ELSE {TakenObject(n)})
TopsAt(n) == {OwnTop[n]} \cup Taken[n]

(***************************************************************************)
(* What a read of a selection uses: its directory and snapshot, their      *)
(* trail, and what every opening through it took.                          *)
(***************************************************************************)
NeededObjects(n) == {OwnObject(n)} \cup {TakenObject(k) : k \in {i \in 1 .. n : Taken[i] # {}}}
NeededTops(n) == {OwnTop[n]} \cup UNION {Taken[k] : k \in 1 .. n}
Resolves(f, n) ==
    /\ NeededObjects(n) \subseteq f.objects
    /\ \A v \in NeededTops(n) : HasTrail(f, v) /\ Walk(f, v, 0, Broken).whole

(* holdsSelection *)
HoldsSelection(f, n) == OwnObject(n) \in f.objects /\ HasTrail(f, OwnTop[n])

(***************************************************************************)
(* Parts, each kept whole or not at all.                                   *)
(***************************************************************************)
ObjectPart(objects) == [kind |-> "package", top |-> Broken, objects |-> objects]
TrailPart(base, v, records) == [kind |-> "trail", base |-> base, top |-> v, records |-> records]
Rows(part) == IF part.kind = "package" THEN Cardinality(part.objects) ELSE Len(part.records)

(* trailPart: after the base where the trail passes through it, else whole. *)
StreamPart(after, v, stream) == [part |-> TrailPart(after, v, stream.given), whole |-> stream.whole]
PartAfter(f, v, after) == StreamPart(after, v, Forward(f, v, Position(after)))
PartFor(f, v, base) == PartAfter(f, v, IF base # Broken /\ Reaches(f, v, base) THEN base ELSE Seed(Segment(v)))

(***************************************************************************)
(* topTrails: the tops of each segment, furthest first; one a trail served *)
(* already or the reader's base reaches is left out, and damage ends the   *)
(* stream.  Gives the parts up to the end or the damage, and which it was. *)
(***************************************************************************)
Furthest(tops) == CHOOSE v \in tops : \A x \in tops : Position(x) <= Position(v)
Nearest(tops) == CHOOSE v \in tops : \A x \in tops : Position(v) <= Position(x)

Adding(done, sent) ==
    IF sent.whole THEN [done EXCEPT !.parts = Append(@, sent.part), !.gone = @ \cup {sent.part.top}]
    ELSE [done EXCEPT !.whole = FALSE]
TopTrail(f, done, v, own) ==
    IF ~done.whole THEN done
    ELSE IF ~HasTrail(f, v) THEN [done EXCEPT !.whole = FALSE]
    ELSE IF \E x \in (done.gone \cup {own}) \ {Broken} : Segment(x) = Segment(v) /\ HasTrail(f, x) /\ Reaches(f, x, v)
    THEN done
    ELSE Adding(done, PartFor(f, v, own))

TopTrails(f, tops, base) ==  \* the nearest comes last
    MapThenFoldSet(LAMBDA v, done : TopTrail(f, done, v, base[Segment(v)]), [parts |-> <<>>, gone |-> {}, whole |-> TRUE],
                   LAMBDA v : v, Nearest, tops)

Whole(objects, trails) ==
    [parts |-> (IF objects = {} THEN <<>> ELSE <<ObjectPart(objects)>>) \o trails.parts, whole |-> trails.whole]

(***************************************************************************)
(* The journal's parts for its selection after a sequence: what its rows   *)
(* above it through the selection name.  Its base is its own segment's     *)
(* last top through the sequence, and none of a segment it took.           *)
(***************************************************************************)
JournalFile ==
    LET values == UNION {{SubSeq(v, 1, p + 1) : p \in 1 .. Position(v)} : v \in UNION {TopsAt(n) : n \in 1 .. LastSequence}}
    IN [rows |-> [v \in values |-> RowOf(v)], objects |-> UNION {ObjectsAt(n) : n \in 1 .. LastSequence},
        heads |-> Segments]

JournalAnswers == [through \in 1 .. LastSequence |-> [from \in 0 .. through |->
    LET range == (from + 1) .. through
        base == [seg \in Segments |-> IF seg = Own /\ from > 0 THEN OwnTop[from] ELSE Broken]
    IN Whole(UNION {ObjectsAt(n) : n \in range}, TopTrails(JournalFile, UNION {TopsAt(n) : n \in range}, base))]]
JournalParts(through, after) == JournalAnswers[through][IF after < through THEN after ELSE through]

(***************************************************************************)
(* EvidenceStore.served: what the replica's file indexed above a mark it   *)
(* gave a reader, through its selection; a mark above every selection this *)
(* file served is another file's, served from nothing.                     *)
(***************************************************************************)
ServedFrom(through, after) == IF after <= through THEN after ELSE IF after <= served THEN through ELSE 0
Indexed(from, through) == {x \in DOMAIN index : index[x] # Pending /\ from < index[x] /\ index[x] <= through}
IndexedTops(from, through) == {x[2] : x \in {y \in Indexed(from, through) : y[1] = "top"}}
IndexedObjects(from, through) == {x \in Indexed(from, through) : x[1] # "top"}

ReplicaParts(through, after) ==
    LET from == ServedFrom(through, after)
        below(seg) == {v \in IndexedTops(0, from) : Segment(v) = seg}
        base == [seg \in Segments |-> IF from = 0 \/ below(seg) = {} THEN Broken ELSE Furthest(below(seg))]
        objects == IndexedObjects(from, through)
    IN IF objects \subseteq file[Replica].objects
       THEN Whole(objects, TopTrails(file[Replica], IndexedTops(from, through), base))
       ELSE [parts |-> <<>>, whole |-> FALSE]

Parts(source, after) == IF source = Journal THEN JournalParts(selection, after) ELSE ReplicaParts(served, after)
Through(source) == IF source = Journal THEN selection ELSE served

(***************************************************************************)
(* The service.  A commitment is signed and published at once; one still   *)
(* in flight when its lag passes is served no longer, and later again once *)
(* it is published again or held.                                          *)
(***************************************************************************)
Sign ==
    /\ signed < LastSequence
    /\ signed' = signed + 1 /\ selection' = signed + 1
    /\ UNCHANGED <<held, file, mark, index, served, reading, unresolved, copy, plan, faults>>

Land ==
    /\ held < selection
    /\ held' = selection
    /\ UNCHANGED <<signed, selection, file, mark, index, served, reading, unresolved, copy, plan, faults>>

Lapse ==
    /\ held < selection /\ held > 0
    /\ selection' = held
    /\ UNCHANGED <<signed, held, file, mark, index, served, reading, unresolved, copy, plan, faults>>

PublishAgain ==
    /\ selection < signed
    /\ selection' = signed
    /\ UNCHANGED <<signed, held, file, mark, index, served, reading, unresolved, copy, plan, faults>>

(***************************************************************************)
(* A party's read over its sources, one after another.                     *)
(***************************************************************************)
Sent(source, parts) ==  \* what the source does not leave out
    FoldLeft(LAMBDA sent, part : IF <<source, part.kind, part.top>> \in plan.without THEN sent ELSE Append(sent, part), <<>>, parts)

Receiving(party, i, after, full, repairing) ==
    LET source == Sources(party)[i]
        answered(answer) ==
          [state |-> "receiving", at |-> i, after |-> after, full |-> full, repairing |-> repairing,
           through |-> Through(source), whole |-> answer.whole, taken |-> TRUE, charged |-> 0,
           left |-> Sent(source, answer.parts)]
    IN answered(Parts(source, after))

(* sync, after the party's mark of the source or, "full", from nothing; a *)
(* source that serves nothing yet refuses and is passed over.             *)
From(party, i, repairing) ==
    LET answering == {j \in i .. Len(Sources(party)) : Through(Sources(party)[j]) > 0} IN
    IF answering = {} THEN Idle
    ELSE LET j == Min(answering)
             source == Sources(party)[j]
             full == repairing /\ unresolved[party][source] = 0
         IN Receiving(party, j, IF full THEN 0 ELSE mark[party][source], full, repairing)

PassOver(party) ==
    LET r == reading[party] IN reading' = [reading EXCEPT ![party] = From(party, r.at + 1, r.repairing)]

Begin(party) ==
    /\ reading[party] = Idle
    /\ selection > 0 \/ (party = Reader /\ served > 0)
    /\ reading' = [reading EXCEPT ![party] = From(party, 1, FALSE)]
    /\ UNCHANGED <<signed, held, selection, file, mark, index, served, unresolved, copy, plan, faults>>

(***************************************************************************)
(* take: the next part, in one transaction of the party's file.  A part    *)
(* that does not fit what the quota leaves is refused; a trail whose base  *)
(* is not kept at its position, or that does not frame, is not kept and    *)
(* the other parts stay.  The replica indexes what it kept as pending.     *)
(***************************************************************************)
IndexedTooAnew(party, names) ==  \* a re-sent object's row is written over
    IF party = Replica THEN [x \in DOMAIN index \cup names |-> IF x \in names THEN Pending ELSE index[x]] ELSE index
IndexedToo(party, names) ==
    IF party = Replica THEN [x \in DOMAIN index \cup names |-> IF x \in DOMAIN index THEN index[x] ELSE Pending] ELSE index

Take(party) ==
    LET r == reading[party]
        part == Head(r.left)
        keeps == part.kind = "trail" => Base(file[party], part.base) /\ Framed(part.base, part.top, part.records)
    IN
    /\ r.state = "receiving" /\ r.left # <<>>
    /\ IF r.charged + Rows(part) > Quota
       THEN PassOver(party) /\ UNCHANGED <<file, index>>
       ELSE /\ reading' = [reading EXCEPT ![party].left = Tail(@), ![party].charged = @ + Rows(part), ![party].taken = @ /\ keeps]
            /\ IF part.kind = "package"
               THEN /\ file' = [file EXCEPT ![party] = KeepObjects(@, part.objects)]
                    /\ index' = IndexedToo(party, part.objects)
               ELSE IF keeps
               THEN /\ file' = [file EXCEPT ![party] = KeepTrail(@, part.base, part.records)]
                    /\ index' = IndexedToo(party, {<<"top", part.top>>})
               ELSE UNCHANGED <<file, index>>
    /\ UNCHANGED <<signed, held, selection, mark, served, unresolved, copy, plan, faults>>

(* The connection, or the source's own file, ends the stream short. *)
BreakOff(party) ==
    /\ reading[party].state = "receiving" /\ faults.breaks < plan.breaks
    /\ PassOver(party)
    /\ faults' = [faults EXCEPT !.breaks = @ + 1]
    /\ UNCHANGED <<signed, held, selection, file, mark, index, served, unresolved, copy, plan>>

(***************************************************************************)
(* sync's end: an answer that does not assemble over what is kept, or does *)
(* not hold its selection, is asked for once more from nothing; one that   *)
(* holds it moves the source's mark.                                       *)
(***************************************************************************)
Synced(party) ==
    LET r == reading[party]
        source == Sources(party)[r.at]
        assembled == r.taken /\ HoldsSelection(file[party], r.through)
    IN
    /\ r.state = "receiving" /\ r.left = <<>>
    /\ IF ~r.whole \/ (~assembled /\ r.after = 0)
       THEN PassOver(party) /\ UNCHANGED mark
       ELSE IF ~assembled
       THEN /\ reading' = [reading EXCEPT ![party] = Receiving(party, r.at, 0, r.full, r.repairing)]
            /\ UNCHANGED mark
       ELSE /\ mark' = [mark EXCEPT ![party][source] = IF r.through > r.after THEN r.through ELSE r.after]
            /\ reading' = [reading EXCEPT ![party] = [state |-> "using", at |-> r.at, full |-> r.full,
                                                      repairing |-> r.repairing, through |-> r.through]]
    /\ UNCHANGED <<signed, held, selection, file, index, served, unresolved, copy, plan, faults>>

(***************************************************************************)
(* keepSelection: a selection above every one served indexes what is       *)
(* pending under it; the highest again leaves it pending; a lower one      *)
(* keeps nothing.                                                          *)
(***************************************************************************)
KeepSelectionAgain(n) ==  \* the highest selection again indexes what is pending
    IF n >= served
    THEN /\ index' = [x \in DOMAIN index |-> IF index[x] = Pending THEN n ELSE index[x]]
         /\ served' = n
    ELSE UNCHANGED <<index, served>>
KeepSelection(n) ==
    IF n > served
    THEN /\ index' = [x \in DOMAIN index |-> IF index[x] = Pending THEN n ELSE index[x]]
         /\ served' = n
    ELSE UNCHANGED <<index, served>>

(***************************************************************************)
(* The read over a synced source: of the checkpoint the party's own view   *)
(* holds, whatever the source selected.  A resolved one ends it, and a     *)
(* replica whose read found the source's selection the canonical one       *)
(* serves it on.  An unresolved one syncs the source from nothing once per *)
(* selection it serves, then passes it over.                               *)
(***************************************************************************)
UseUnrepaired(party) ==  \* an unresolved source is passed over
    LET r == reading[party] IN
    /\ r.state = "using"
    /\ reading' = [reading EXCEPT ![party] = IF held = 0 \/ Resolves(file[party], held) THEN Idle ELSE From(party, r.at + 1, FALSE)]
    /\ IF party = Replica /\ r.through = held /\ Resolves(file[party], held) THEN KeepSelection(r.through) ELSE UNCHANGED <<index, served>>
    /\ UNCHANGED <<signed, held, selection, file, mark, unresolved, copy, plan, faults>>

Use(party) ==
    LET r == reading[party]
        source == Sources(party)[r.at]
        at == unresolved[party][source]
        moved == at = 0 \/ r.through > at
    IN
    /\ r.state = "using"
    /\ IF held = 0 \/ Resolves(file[party], held)
       THEN /\ reading' = [reading EXCEPT ![party] = Idle]
            /\ unresolved' = [unresolved EXCEPT ![party][source] = 0]
            /\ IF party = Replica /\ r.through = held THEN KeepSelection(r.through) ELSE UNCHANGED <<index, served>>
       ELSE /\ UNCHANGED <<index, served>>
            /\ IF ~r.full /\ moved
               THEN /\ unresolved' = [unresolved EXCEPT ![party][source] = 0]
                    /\ reading' = [reading EXCEPT ![party] = Receiving(party, r.at, 0, TRUE, TRUE)]
               ELSE /\ unresolved' = [unresolved EXCEPT ![party][source] = IF r.full /\ moved THEN r.through ELSE @]
                    /\ reading' = [reading EXCEPT ![party] = From(party, r.at + 1, TRUE)]
    /\ UNCHANGED <<signed, held, selection, file, mark, copy, plan, faults>>

(* A party's process stops; its file keeps what was committed. *)
Crash(party) ==
    /\ reading[party] # Idle /\ faults.breaks < plan.breaks
    /\ reading' = [reading EXCEPT ![party] = Idle]
    /\ faults' = [faults EXCEPT !.breaks = @ + 1]
    /\ UNCHANGED <<signed, held, selection, file, mark, index, served, unresolved, copy, plan>>

(* Bounded to storage that fails once the last checkpoint is held, while  *)
(* the other party rests and this one is not between two parts.           *)
Damage(party) ==
    /\ faults.damage < plan.damage /\ held = LastSequence
    /\ reading[party].state # "receiving" /\ \A other \in Parties \ {party} : reading[other] = Idle
    /\ \E f \in Damaged(file[party]) : file' = [file EXCEPT ![party] = f]
    /\ faults' = [faults EXCEPT !.damage = @ + 1]
    /\ UNCHANGED <<signed, held, selection, mark, index, served, reading, unresolved, copy, plan>>

(* The replica's file is copied, and the copy put back: its rows, index, *)
(* served selection and its own mark together.                           *)
ReplicaFile == [file |-> file[Replica], mark |-> mark[Replica], index |-> index, served |-> served]
CopyFile ==
    /\ reading[Replica] = Idle /\ faults.restores < plan.restores /\ copy # ReplicaFile
    /\ copy' = ReplicaFile
    /\ UNCHANGED <<signed, held, selection, file, mark, index, served, reading, unresolved, plan, faults>>
Restore ==
    /\ reading[Replica] = Idle /\ faults.restores < plan.restores /\ copy # ReplicaFile
    /\ file' = [file EXCEPT ![Replica] = copy.file] /\ mark' = [mark EXCEPT ![Replica] = copy.mark]
    /\ index' = copy.index /\ served' = copy.served
    /\ faults' = [faults EXCEPT !.restores = @ + 1]
    /\ UNCHANGED <<signed, held, selection, reading, unresolved, copy, plan>>

Init ==
    /\ signed = 0 /\ held = 0 /\ selection = 0
    /\ file = [party \in Parties |-> EmptyFile]
    /\ mark = [party \in Parties |-> [source \in ToSet(Sources(party)) |-> 0]]
    /\ index = NothingIndexed /\ served = 0
    /\ reading = [party \in Parties |-> Idle]
    /\ unresolved = [party \in Parties |-> [source \in ToSet(Sources(party)) |-> 0]]
    /\ copy = ReplicaFile
    /\ plan \in Plans
    /\ faults = [damage |-> 0, breaks |-> 0, restores |-> 0]

Read(party) == Begin(party) \/ Take(party) \/ Synced(party) \/ Use(party)

Next ==
    \/ Sign \/ Land \/ Lapse \/ PublishAgain
    \/ \E party \in Parties : Read(party) \/ BreakOff(party) \/ Crash(party) \/ Damage(party)
    \/ CopyFile \/ Restore

Spec == Init /\ [][Next]_vars

(***************************************************************************)
(* A reader whose commands go on: its read takes another step again and    *)
(* again.  Connections and processes fail finitely often (plan.breaks).    *)
(***************************************************************************)
ReaderGoesOn == []<><<reading[Reader]' # reading[Reader]>>_reading

(***************************************************************************)
(* Properties.                                                             *)
(***************************************************************************)
Withholds(source) == \E left \in plan.without : left[1] = source
Undamaged == faults.damage = 0 /\ faults.restores = 0
Holds(f, objects, tops) == objects \subseteq f.objects /\ \A v \in tops : HasTrail(f, v) /\ Walk(f, v, 0, Broken).whole

\* A mark is a promise about every later answer: what a source supplied before it is never sent again unless asked
\* from nothing.  Through lapsed selections, broken streams and retries, a party's mark of a journal that leaves
\* nothing out never passes a checkpoint whose directory, taken objects or trails its file does not hold; and "a reader
\* served through an earlier selection of this replica is served all of them after it" (evidence-store.ts,
\* keepSelection): what the replica's index holds at or below a reader's mark of it the reader's file holds, whatever
\* the replica kept between two selections and however its own reads broke off.
MarksHold ==
    Undamaged =>
        /\ ~Withholds(Journal) => \A party \in Parties : LET m == mark[party][Journal] IN
               Holds(file[party], UNION {ObjectsAt(n) : n \in 1 .. m}, UNION {TopsAt(n) : n \in 1 .. m})
        /\ ~Withholds(Replica) => LET m == mark[Reader][Replica] IN
               Holds(file[Reader], IndexedObjects(0, m), IndexedTops(0, m))

\* A replica serves on only what is enough: a stranger who holds nothing and takes all its undamaged file serves can
\* read the selection it serves, even where its own sources withheld and its file was restored.
ReplicaSuffices ==
    faults.damage = 0 /\ served > 0 =>
        LET answer == ReplicaParts(served, 0)
            fill[i \in 0 .. Len(answer.parts)] ==
              IF i = 0 THEN EmptyFile
              ELSE LET part == answer.parts[i] IN
                   IF part.kind = "package" THEN KeepObjects(fill[i - 1], part.objects)
                   ELSE KeepTrail(fill[i - 1], part.base, part.records)
        IN answer.whole /\ Resolves(fill[Len(answer.parts)], served)

\* "A damaged row is absent rather than a shorter trail": whatever storage did to a file, a walk of a trail gives
\* only its own records in order, a stream that ends whole gave every record after its base, and a value read back at
\* a position is the trail's own.
ReadsAreGenuine ==
    faults.damage > 0 =>
        \A party \in Parties : LET f == file[party] IN
            \A v \in {x \in DOMAIN f.rows : HasTrail(f, x)} : \A p \in 0 .. Position(v) :
                LET rest == SubSeq(v, p + 2, Len(v))
                    forward == Forward(f, v, p)
                IN /\ p > 0 => EvidenceAt(f, v, p) \in {Broken, SubSeq(v, 1, p + 1)}
                   /\ IsPrefix(Walk(f, v, p, Broken).given, rest)
                   /\ forward.whole => forward.given = rest

\* A reader with one honest source resolves: whatever its other source left out, its storage lost or its connections
\* dropped, it comes to hold what the read of the last held checkpoint needs, or its repair record says that even the
\* source's whole answer did not do, the case its refusal names a remedy for.
ReadsResolve ==
    ReaderGoesOn /\ ~Withholds(Journal) =>
        (held > 0 ~> Resolves(file[Reader], held) \/ unresolved[Reader][Journal] >= held)

\* "Storage damage ends the stream short of its end mark, so the reader keeps its mark and reads elsewhere"
\* (evidence-store.ts, served): an answer of the replica's that ends whole brings, with what its base tops already
\* gave the reader, every top indexed in its range.
DamageEndsTheStream ==
    \A after \in 0 .. served :
        LET answer == ReplicaParts(served, after)
            brought == {answer.parts[i].top : i \in {j \in DOMAIN answer.parts : answer.parts[j].kind = "trail"}}
        IN answer.whole => \A v \in IndexedTops(ServedFrom(served, after), served) :
               \E x \in brought \cup IndexedTops(0, ServedFrom(served, after)) : Passes(x, v)
=============================================================================
