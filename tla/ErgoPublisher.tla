---------------------------- MODULE ErgoPublisher ----------------------------
(* The publisher of src/ergo-publisher.ts: one funding key, one transaction  *)
(* per record, remembered before it is sent, replaced when a supplier        *)
(* answers that it lacks it, and forgotten once the operator's view          *)
(* (src/ergo.ts) holds the record. Around it an Ergo network that mines,     *)
(* drops and reorganises, suppliers that answer truly or not at all, and     *)
(* crashes. Since they answer truly of one network, several suppliers are    *)
(* one whose every answer may be missing.                                    *)
EXTENDS Integers, Sequences, FiniteSetsExt, SequencesExt

CONSTANTS
  Nothing,        \* no pending publication, no running call
  Records,        \* the records to publish
  Needs,          \* record -> how many boxes cover its outputs and fee, at least one
  Funding,        \* the key's boxes on the chain at the start
  Depth,          \* blocks over one that the view takes as witnessed
  MaxHeight,      \* bound on the chain, past the depth
  MaxAttempts,    \* MAX_ATTEMPTS: the transactions one record may have
  PendingLimit,   \* PENDING_LIMIT: the publications one outbox may hold
  MaxQueue        \* bound on the calls waiting for the publisher's turn

ASSUME PublisherAssumption ==
  /\ IsFiniteSet(Funding)
  /\ Depth \in Nat /\ MaxHeight \in Nat /\ Depth < MaxHeight

VARIABLES
  tip,      \* the network's chain
  mined,    \* the key's transactions in it, each with its block's height
  pool,     \* the key's transactions in the mempool
  viewTip,  \* the best chain the view has synced
  seen,     \* the view's witnessed height
  pending,  \* the outbox: record -> its transaction and those it replaced
  created,  \* the outbox: change it created and has not spent
  queue,    \* the calls waiting: records to publish with a height, or settles
  turn,     \* the running publication, or Nothing
  exposed   \* history: the records whose outbox entry is not all that was sent

network == <<tip, mined, pool>>
outbox  == <<pending, created>>
vars    == <<network, viewTip, seen, outbox, queue, turn, exposed>>

-----------------------------------------------------------------------------
\* A transaction's identity is its record, its inputs in order and its height,
\* and a change box's is its transaction. Amounts are left out: each box counts
\* one towards what a record needs, and change is always left over.
Inputs(tx) == Range(tx.inputs)

Change(tx) == [of |-> tx]

CreationHeight(box) == IF box \in Funding THEN 0 ELSE box.of.height

Created(txs) == {Change(tx) : tx \in txs}

Spent(txs) == UNION {Inputs(tx) : tx \in txs}

OnChain == DOMAIN mined

\* The network's answers: a box unspent on the chain or created in the mempool;
\* a transaction in either; the key's boxes that neither spends.
HasBox(box) ==
  \/ box \in (Funding \cup Created(OnChain)) \ Spent(OnChain)
  \/ box \in Created(pool)

HasTransaction(tx) == tx \in OnChain \cup pool

UnspentBoxes ==
  (Funding \cup Created(OnChain) \cup Created(pool)) \ (Spent(OnChain) \cup Spent(pool))

\* The mempool takes a transaction whose inputs it has unspent and whose
\* height the chain has reached.
Takes(txs, tx) ==
  /\ tx.height <= tip /\ tx \notin OnChain
  /\ Inputs(tx) \subseteq Funding \cup Created(OnChain \cup txs)
  /\ Inputs(tx) \cap Spent((OnChain \cup txs) \ {tx}) = {}

\* Transactions whose inputs are on the chain or created among them.
Rooted(txs, chain) == \A tx \in txs : Inputs(tx) \subseteq Funding \cup Created(chain \cup txs)

Holds(record) == \E tx \in OnChain : tx.record = record /\ mined[tx] <= seen

Unsettled == {r \in Records : pending[r] # Nothing}

Transaction(r) == pending[r].tx

Idle == turn = Nothing

TypeOK ==
  /\ tip \in 1..MaxHeight /\ viewTip \in 1..MaxHeight /\ seen \in 1..tip
  /\ \A tx \in OnChain : mined[tx] \in 1..tip
  /\ OnChain \cap pool = {} /\ Rooted(pool, OnChain)
  /\ \A r \in Unsettled : Transaction(r).record = r /\ Len(pending[r].replaced) < MaxAttempts
  /\ Len(queue) <= MaxQueue /\ (turn # Nothing => turn.record \in Records)

\* A view that has synced once: its first block is at its depth.
Init ==
  /\ tip = Depth + 1 /\ mined = <<>> /\ pool = {}
  /\ viewTip = tip /\ seen = 1
  /\ pending = [r \in Records |-> Nothing] /\ created = {}
  /\ queue = <<>> /\ turn = Nothing /\ exposed = {}

-----------------------------------------------------------------------------
\* The network mines a block of the mempool's transactions, drops some, or
\* leaves blocks the view has not witnessed, whose transactions wait again.
Mine ==
  /\ tip < MaxHeight
  /\ \E block \in SUBSET pool :
       /\ Rooted(block, OnChain)
       /\ mined' = [tx \in OnChain \cup block |-> IF tx \in block THEN tip + 1 ELSE mined[tx]]
       /\ pool' = pool \ block
  /\ tip' = tip + 1
  /\ UNCHANGED <<viewTip, seen, outbox, queue, turn, exposed>>

Drop ==
  /\ \E kept \in SUBSET pool : kept # pool /\ Rooted(kept, OnChain) /\ pool' = kept
  /\ UNCHANGED <<tip, mined, viewTip, seen, outbox, queue, turn, exposed>>

Reorganise ==
  /\ \E height \in seen..(tip - 1) :
       LET left == {tx \in OnChain : mined[tx] <= height}
       IN  /\ tip' = height
           /\ mined' = [tx \in left |-> mined[tx]]
           /\ pool' = pool \cup (OnChain \ left)
  /\ UNCHANGED <<viewTip, seen, outbox, queue, turn, exposed>>

\* A sync moves the view, as far as the blocks' contents were supplied, and
\* queues a settle, which asks the view in its turn.
Sync ==
  /\ Len(queue) < MaxQueue
  /\ viewTip' = tip
  /\ seen' \in seen..Max({seen, tip - Depth})
  /\ queue' = Append(queue, [settle |-> TRUE])
  /\ UNCHANGED <<network, outbox, turn, exposed>>

Ready == viewTip >= seen + Depth

\* publish of the view: a record it holds is not sent, and nothing is while its
\* chain is shorter than its clock's depth.
PublishRecord(r) ==
  /\ Len(queue) < MaxQueue
  /\ ~Holds(r) /\ Ready
  /\ queue' = Append(queue, [settle |-> FALSE, record |-> r, height |-> viewTip])
  /\ UNCHANGED <<network, viewTip, seen, outbox, turn, exposed>>


-----------------------------------------------------------------------------
\* settle: what the view holds by the time the call has its turn is forgotten.
\* Its inputs are released; its change stays the publisher's own. A publication
\* of it that already waits will know nothing of it.
Settle ==
  /\ Idle /\ queue # <<>> /\ Head(queue).settle
  /\ queue' = Tail(queue)
  /\ LET settled == {r \in Unsettled : Holds(r)}
         waiting == {call.record : call \in {c \in Range(queue) : ~c.settle}}
     IN  /\ pending' = [r \in Records |-> IF r \in settled THEN Nothing ELSE pending[r]]
         /\ exposed' = exposed \cup (settled \cap waiting)
  /\ UNCHANGED <<network, viewTip, seen, created, turn>>

\* A queued publication has its turn: a remembered transaction is sent again,
\* otherwise a first one is built.
Begin ==
  /\ Idle /\ queue # <<>> /\ ~Head(queue).settle
  /\ queue' = Tail(queue)
  /\ LET call  == Head(queue)
         known == pending[call.record] # Nothing
     IN  turn' = IF Ready /\ (known \/ Cardinality(Unsettled) < PendingLimit)
                 THEN [record |-> call.record, height |-> call.height,
                       step |-> IF known THEN "ask" ELSE "build", again |-> known,
                       shown |-> "unanswered", live |-> {}, gone |-> {}]
                 ELSE Nothing
  /\ UNCHANGED <<network, viewTip, seen, outbox, exposed>>

At(step) == ~Idle /\ turn.step = step

Goto(step) == turn' = [turn EXCEPT !.step = step]

End == turn' = Nothing

\* Mutation: a transaction is replaced although nobody answered.
NotTakenUnasked == IF turn.again THEN Goto("earlier") ELSE End

\* Where a resend came to nothing, the turn goes on only if a supplier answered
\* that it lacks the transaction.
NotTaken == IF turn.again /\ turn.shown = "lacked" THEN Goto("earlier") ELSE End

\* #shown: a supplier shows the transaction, lacks it, or does not answer.
Ask ==
  /\ At("ask")
  /\ \/ HasTransaction(Transaction(turn.record)) /\ End
     \/ ~HasTransaction(Transaction(turn.record))
        /\ turn' = [turn EXCEPT !.step = "submit", !.shown = "lacked"]
     \/ Goto("submit")
  /\ UNCHANGED <<network, viewTip, seen, outbox, queue, exposed>>

\* The unsettled publications whose change a transaction spends, and theirs.
Parents(tx) == {r \in Unsettled : Change(Transaction(r)) \in Inputs(tx)}

Ancestry[depth \in 0..Cardinality(Records)] ==
  IF depth = 0 THEN Parents(Transaction(turn.record))
  ELSE Ancestry[depth - 1] \cup UNION {Parents(Transaction(r)) : r \in Ancestry[depth - 1]}

\* The walk to a supplier that lacks the transaction: an ancestor it lacks too
\* is sent first. It may end early, at a deadline or an ancestor not taken.
SubmitParent ==
  /\ At("submit") /\ turn.shown = "lacked" /\ Ready
  /\ \E r \in Unsettled \ {turn.record} :
       LET tx == Transaction(r)
       IN  r \in Ancestry[Cardinality(Records)] /\ ~HasTransaction(tx) /\ Takes(pool, tx) /\ pool' = pool \cup {tx}
  /\ UNCHANGED <<tip, mined, viewTip, seen, outbox, queue, turn, exposed>>

\* The submission itself, refused by the view's readiness, taken and answered,
\* taken with its answer lost, or not taken.
Submit ==
  /\ At("submit")
  /\ LET tx == Transaction(turn.record)
     IN  \/ ~Ready /\ End /\ UNCHANGED <<pool, exposed>>
         \/ /\ Ready /\ Takes(pool, tx)
            /\ pool' = pool \cup {tx}
            /\ \/ End /\ UNCHANGED exposed
               \/ NotTaken /\ turn' # Nothing /\ exposed' = exposed \cup {turn.record}
         \/ Ready /\ NotTaken /\ UNCHANGED <<pool, exposed>>
  /\ UNCHANGED <<tip, mined, viewTip, seen, outbox, queue>>

\* #replacedHeld: the turn goes on only where every transaction the record had
\* before is lacked, and where it may have another.
Earlier ==
  /\ At("earlier")
  /\ LET replaced == pending[turn.record].replaced
         last     == Len(replaced) + 1 >= MaxAttempts
     IN  \/ (last \/ replaced # <<>>) /\ End
         \/ ~last /\ (\A tx \in Range(replaced) : ~HasTransaction(tx)) /\ Goto("inspect")
  /\ UNCHANGED <<network, viewTip, seen, outbox, queue, exposed>>

\* #inspect: each input is live, gone or, where nobody answers, unknown. Which
\* are live matters only where one is gone.
Inspect ==
  /\ At("inspect")
  /\ \E known \in SUBSET Inputs(Transaction(turn.record)) :
       LET live == {box \in known : HasBox(box)}
       IN  turn' = [turn EXCEPT !.step = "build", !.live = IF known = live THEN {} ELSE live,
                                               !.gone = known \ live]
  /\ UNCHANGED <<network, viewTip, seen, outbox, queue, exposed>>

-----------------------------------------------------------------------------
\* Mutation: a rebuild keeps the caller's height below its inputs'.
HighestAsked(boxes, height) == height

Highest(boxes, height) == Max({height} \cup {CreationHeight(box) : box \in boxes})

\* The change of a replaced transaction is never spent, nor a box found gone.
Avoided(replaced, gone) == Created(Range(replaced)) \cup gone

\* The boxes of a transaction that are among some, in its order.
Among(boxes, some) ==
  LET kept[n \in 0..Len(boxes)] ==
        IF n = 0 THEN <<>>
        ELSE IF boxes[n] \in some THEN Append(kept[n - 1], boxes[n]) ELSE kept[n - 1]
  IN  kept[Len(boxes)]

\* #select: the required boxes, then its own change, then what suppliers offer,
\* as far as needed, each kind in an order that depends on the boxes alone.
Selections(required, own, offered, need) ==
  LET pick(boxes, n) == {SetToSeq(some) : some \in kSubset(Min({Max({n, 0}), Cardinality(boxes)}), boxes)}
      with(boxes)    == {boxes \o more : more \in pick(offered, need - Len(boxes))}
  IN  UNION {with(required \o mine) : mine \in pick(own, need - Len(required))}

\* #build, with #forget before it where it replaces a transaction: remembered
\* and saved in one step, before anything is sent. A build that fails leaves
\* the outbox as it was.
Build ==
  /\ At("build")
  /\ LET r        == turn.record
         old      == IF turn.again THEN {Transaction(r)} ELSE {}
         replaced == IF turn.again THEN Append(pending[r].replaced, Transaction(r)) ELSE <<>>
         required == IF ~turn.again THEN <<>>
                     ELSE IF turn.gone = {} THEN Transaction(r).inputs
                     ELSE Among(Transaction(r).inputs, turn.live)
         height   == Highest(Range(required), turn.height)
         same     == turn.again /\ turn.gone = {} /\ height = Transaction(r).height
         kept     == (created \ Created(old)) \ turn.gone
         reserved == Spent({Transaction(q) : q \in Unsettled \ {r}}) \cup Range(required)
         usable(boxes) == {box \in boxes \ (reserved \cup Avoided(replaced, turn.gone)) :
                             CreationHeight(box) <= height}
         own      == usable(kept)
     IN  \/ (same \/ Len(required) + Cardinality(own) < Needs[r])
            /\ End /\ UNCHANGED outbox
         \/ /\ ~same
            /\ \E inputs \in Selections(required, own, usable(UnspentBoxes \ kept), Needs[r]) :
                 LET tx == [record |-> r, inputs |-> inputs, height |-> height]
                 IN  /\ Len(inputs) >= Needs[r]
                     /\ pending' = [pending EXCEPT ![r] = [tx |-> tx, replaced |-> replaced]]
                     /\ created' = (kept \ Inputs(tx)) \cup {Change(tx)}
                     /\ turn' = [turn EXCEPT !.step = "ask", !.again = FALSE, !.shown = "unanswered",
                                             !.height = 0, !.live = {}, !.gone = {}]
  /\ UNCHANGED <<network, viewTip, seen, queue, exposed>>

\* The outbox and the view are durable; the queue and the running call are not.
Crash ==
  /\ ~Idle \/ queue # <<>>
  /\ turn' = Nothing /\ queue' = <<>>
  /\ UNCHANGED <<network, viewTip, seen, outbox, exposed>>

Next ==
  \/ Mine \/ Drop \/ Reorganise \/ Sync
  \/ \E r \in Records : PublishRecord(r)
  \/ Settle \/ Begin \/ Ask \/ SubmitParent \/ Submit \/ Earlier \/ Inspect \/ Build
  \/ Crash

Spec == Init /\ [][Next]_vars

-----------------------------------------------------------------------------
\* However the network drops, mines and reorganises and however often a record
\* is published, at most one transaction of it lands: ergo-publisher.ts replaces
\* one only by one it conflicts with, or when it can no longer land. Excepted is
\* a record whose resend was taken with its answer lost, or that was settled
\* while another publication of it waited.
OneTransactionLands ==
  \A a, b \in OnChain : a.record = b.record => a = b \/ a.record \in exposed

\* The same without exception, as docs/ERGO_VENUE_PROFILE.md says of ergo-
\* publisher.ts: a lost answer, an outage or a drop never yields a second,
\* non-conflicting transaction.
NoSecondTransaction ==
  \A a, b \in OnChain : a.record = b.record => a = b

\* Whatever is on the network was remembered before it was sent: it is its
\* record's transaction or one that record had before, unless the record has
\* been held and forgotten. So a restart never builds a second one blindly.
RememberedBeforeSent ==
  \A tx \in OnChain \cup pool :
    LET entry == pending[tx.record]
    IN  IF entry = Nothing THEN \E held \in OnChain : held.record = tx.record /\ mined[held] <= seen
        ELSE tx = entry.tx \/ tx \in Range(entry.replaced) \/ Holds(tx.record)

\* Publications are serialised, so no two unsettled ones spend one box, whatever
\* was replaced, forgotten and released in between; and none spends a box above
\* its own height, which the network would refuse for ever.
ReservedOnce ==
  \A r \in Unsettled :
    /\ \A box \in Inputs(Transaction(r)) : CreationHeight(box) <= Transaction(r).height
    /\ \A q \in Unsettled \ {r} : Inputs(Transaction(q)) \cap Inputs(Transaction(r)) = {}

\* What the outbox says of the network and of its own boxes: a restart never
\* builds a second transaction blindly, and never reserves a box twice.
OutboxSound == RememberedBeforeSent /\ ReservedOnce

\* Every outbox the publisher saves is one its next start accepts: #restore
\* refuses a change box both kept and reserved.
Restorable ==
  ReservedOnce /\ created \cap Spent({Transaction(r) : r \in Unsettled}) = {}
=============================================================================
