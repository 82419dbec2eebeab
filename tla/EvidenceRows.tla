---------------------------- MODULE EvidenceRows ----------------------------
(***************************************************************************)
(* The rows a party's evidence file keeps (pool/v3/evidence-store.ts) and  *)
(* what a read of them gives, over a file whose storage may be damaged.    *)
(*                                                                         *)
(* A chain value is a hash of the value before it, a record and a          *)
(* position, and is here the sequence it fixes: the segment, then its      *)
(* records.  A kept row is found by the value it was kept under and holds  *)
(* the value before it, its position, the frame bytes through it (a record *)
(* counts one) and the record; storage may lose a row or change a field    *)
(* of one.  An object (a directory with its snapshots, or what an opening  *)
(* took) is found by its hash, so a changed one is absent; so is a segment *)
(* head.                                                                   *)
(***************************************************************************)
EXTENDS Naturals, Sequences, FiniteSets, SequencesExt, TLC

Segment(v) == Head(v)
Position(v) == Len(v) - 1
Seed(seg) == <<seg>>
Passes(v, base) == IsPrefix(base, v)

(***************************************************************************)
(* A file: the rows kept, the objects and the segment heads that read back *)
(* under the hash their users look them up by.                             *)
(***************************************************************************)
NoRows == [v \in {} |-> [prev |-> <<>>, position |-> 0, size |-> 0, bytes |-> 0]]
EmptyFile == [rows |-> NoRows, objects |-> {}, heads |-> {}]

RowOf(v) == [prev |-> Front(v), position |-> Position(v), size |-> Position(v), bytes |-> Last(v)]

Kept(file, v) == v \in DOMAIN file.rows

(* The row a value was kept under, where its chain step and its size hold. *)
ChainStepOfRow(file, v, p) ==  \* the value is not hashed anew
    /\ Kept(file, v) /\ file.rows[v].position = p
    /\ p > 1 => Kept(file, file.rows[v].prev)
ChainStep(file, v, p) ==
    /\ Kept(file, v)
    /\ LET row == file.rows[v] IN
       /\ row.position = p /\ p = Position(v)
       /\ Append(row.prev, row.bytes) = v
       /\ IF p = 1 THEN row.size = 1
          ELSE Kept(file, row.prev) /\ row.size = file.rows[row.prev].size + 1

(* The values kept of a segment at a position, as the rows state it. *)
At(file, seg, p) == {v \in DOMAIN file.rows : Segment(v) = seg /\ file.rows[v].position = p}

(***************************************************************************)
(* trail: the records kept through a value, found where the segment's head *)
(* and the value's own row read back; a damaged row is absent rather than  *)
(* a shorter trail.                                                        *)
(***************************************************************************)
HasTrail(file, v) ==
    /\ Segment(v) \in file.heads
    /\ Position(v) > 0 => Kept(file, v) /\ ChainStep(file, v, file.rows[v].position)

(* The value met at each position walking back unchecked from v, or Broken. *)
Broken == <<>>
Back(file, v) ==
    LET value[p \in 0 .. Position(v)] ==
          IF p = Position(v) THEN v
          ELSE LET next == value[p + 1] IN
               IF next # Broken /\ Kept(file, next) /\ file.rows[next].position = p + 1
               THEN file.rows[next].prev ELSE Broken
    IN value

(***************************************************************************)
(* What a stream gives: the records it gave, in order, and whether it came *)
(* to the trail's end.                                                     *)
(***************************************************************************)
Stream(given, whole) == [given |-> given, whole |-> whole]

(* walk: back once from the top, then forward, each record checked before  *)
(* it is given; "expected" is the value its caller read at "after".        *)
Walk(file, v, after, expected) ==
    LET value == Back(file, v)
        steps == (after + 1) .. Position(v)
        bad == {p \in steps : ~ChainStep(file, value[p], p)}
        given == IF bad = {} THEN Position(v) ELSE CHOOSE p \in 0 .. Position(v) : p + 1 \in bad /\ \A q \in bad : p < q
    IN IF after >= Position(v) THEN Stream(<<>>, TRUE)
       ELSE IF \/ \E p \in after .. Position(v) : value[p] = Broken
               \/ after = 0 /\ value[0] # Seed(Segment(v))
               \/ expected # Broken /\ value[after] # expected
            THEN Stream(<<>>, FALSE)
       ELSE Stream([i \in 1 .. (given - after) |-> file.rows[value[after + i]].bytes], bad = {})

(* forward: by position where one value is kept there; two, a fork kept    *)
(* beside the trail, leave the rest to the walk back.                      *)
Forward(file, v, after) ==
    LET at == [p \in after .. Position(v) |-> IF p = 0 THEN {Seed(Segment(v))} ELSE At(file, Segment(v), p)]
        sole == [p \in DOMAIN at |-> IF Cardinality(at[p]) = 1 THEN CHOOSE x \in at[p] : TRUE ELSE Broken]
        steps(p) == sole[p] # Broken /\ ChainStep(file, sole[p], p) /\ file.rows[sole[p]].prev = sole[p - 1]
        stop == {p \in (after + 1) .. Position(v) : ~steps(p)}
        read(p) == [i \in 1 .. (p - after) |-> file.rows[sole[after + i]].bytes]
    IN IF after >= Position(v) THEN Stream(<<>>, TRUE)
       ELSE IF sole[after] = Broken THEN Walk(file, v, after, Broken)
       ELSE IF stop = {} THEN Stream(read(Position(v)), sole[Position(v)] = v)
       ELSE LET p == CHOOSE q \in stop : \A x \in stop : q <= x
                rest == Walk(file, v, p - 1, sole[p - 1])
            IN IF Cardinality(at[p]) > 1 THEN Stream(read(p - 1) \o rest.given, rest.whole) ELSE Stream(read(p - 1), FALSE)

(* reaches: whether the trail through v passes through the value x.  Where *)
(* x is the only value kept at its position no walk is made.               *)
Reaches(file, v, x) ==
    LET p == Position(x) IN
    /\ p <= Position(v)
    /\ IF p = 0 THEN x = Seed(Segment(v))
       ELSE /\ Kept(file, x) /\ file.rows[x].position = p /\ ChainStep(file, x, p)
            /\ (Cardinality(At(file, Segment(v), p)) = 1 \/ Back(file, v)[p] = x)

(* evidence: the value at a position, every step down to it checked. *)
EvidenceAt(file, v, p) ==
    IF p = 0 THEN Seed(Segment(v))
    ELSE LET value == Back(file, v) IN
         IF \A q \in p .. Position(v) : value[q] # Broken /\ ChainStep(file, value[q], q) THEN value[p] ELSE Broken

(***************************************************************************)
(* Keeping.  A trail sent after a base continues the base's kept value; a  *)
(* record supplied again replaces a row kept under its value, and a head   *)
(* or an object a damaged one.                                             *)
(***************************************************************************)
Base(file, base) == Position(base) = 0 \/ (Kept(file, base) /\ file.rows[base].position = Position(base))

(* A trail's records chained over its base, each row sized over the size   *)
(* the base's own row states.                                              *)
RowsOf(file, base, records) ==
    LET held == IF Position(base) = 0 THEN 0 ELSE file.rows[base].size
        value(i) == base \o SubSeq(records, 1, i)
    IN [x \in {value(i) : i \in DOMAIN records} |-> [RowOf(x) EXCEPT !.size = held + Position(x) - Position(base)]]
Framed(base, top, records) == Position(base) + Len(records) = Position(top)

Over(rows, kept) == [v \in DOMAIN rows \cup DOMAIN kept |-> IF v \in DOMAIN rows THEN rows[v] ELSE kept[v]]
KeepTrail(file, base, records) ==
    [file EXCEPT !.rows = Over(RowsOf(file, base, records), @), !.heads = @ \cup {Segment(base)}]
KeepObjects(file, objects) == [file EXCEPT !.objects = @ \cup objects]

(***************************************************************************)
(* Storage damage: a row lost, or one of its fields changed; an object or  *)
(* a head that no longer hashes to its name.                               *)
(***************************************************************************)
Altered(row) == {[row EXCEPT !.prev = <<"damaged">>], [row EXCEPT !.position = @ + 1],
                 [row EXCEPT !.size = @ + 1], [row EXCEPT !.bytes = "damaged"]}
Lost(file, v) == [file EXCEPT !.rows = [x \in DOMAIN @ \ {v} |-> @[x]]]
Damaged(file) ==
    {Lost(file, v) : v \in DOMAIN file.rows}
    \cup (UNION {{[file EXCEPT !.rows[v] = row] : row \in Altered(file.rows[v])} : v \in DOMAIN file.rows})
    \cup {[file EXCEPT !.objects = @ \ {o}] : o \in file.objects}
    \cup {[file EXCEPT !.heads = @ \ {h}] : h \in file.heads}
=============================================================================
