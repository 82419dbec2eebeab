------------------------------- MODULE Wallet -------------------------------
(* The pool wallet's saved records (src/pool/v3/wallet-store.ts): a payment  *)
(* or an act is planned over a read, proved, saved with its reservations,    *)
(* submitted any number of times, and decided by later reads.  Calls await   *)
(* between their read and their save, so they interleave; the wallet may     *)
(* crash or be reopened there, and answers may be lost.                      *)
(*                                                                           *)
(* The operator's door and the venue's force are those of SegmentRules; the  *)
(* operator here is honest, its tail may lapse with its segment, and a read  *)
(* may be of the venue's previous view.  A selection is any set of notes of  *)
(* the exact worth: a change output is one more fresh output, left out with  *)
(* its value.  An alias's fresh output stands for the zero padding that      *)
(* makes every payment and burn a statement of its own.                      *)
EXTENDS SegmentRules

CONSTANTS
  Aliases,    \* the local names records are saved under
  Held,       \* the notes the wallet holds at first
  Requests,   \* outputs payees ask for
  Fresh,      \* each alias's own output of no worth
  Renewals,   \* outputs a freshen may make
  Payouts,    \* outputs a settlement may make
  Deadlines,  \* the deadlines a demand or an acceptance may name
  Duration,   \* the silence duration the backing declares
  None,
  MaxIndex,   \* bound on the venue index
  MaxSegment, \* bound on the segments
  MaxCalls    \* bound on the calls between their read and their save

VARIABLES
  venue,       \* the witnessed view
  older,       \* the view before it
  live,        \* the operator's state: the witnessed one with its tail
  journal,     \* every statement an operator admitted and receipted
  sent,        \* statements a service was given
  published,   \* statements published at the venue
  saved,       \* saved_records, by alias
  superseded,  \* saved_superseded
  seen,        \* the newest index the wallet decided from
  held,        \* held_notes and held_read
  forked,      \* wallet_fork
  calls        \* calls that have read and not yet saved

chain == <<venue, older, live, journal>>
rows == <<saved, superseded, seen>>
fence == <<held, forked>>
vars == <<chain, sent, published, rows, fence, calls>>

Own == Held \cup Renewals

-----------------------------------------------------------------------------
(* Shapes.                                                                   *)

Amounts == {Worth(notes) : notes \in SUBSET Notes} \cup {Value[n] : n \in Notes} \cup {0}

\* Statements that end no demand, and those of every kind.
Plain ==
  [kind : 1..6, seg : Nat, ins : SUBSET Notes, outs : SUBSET Notes,
   quantity : Amounts, instant : Nat, deadline : Nat, ended : {{}}]

Statements ==
  [kind : 1..6, seg : Nat, ins : SUBSET Notes, outs : SUBSET Notes,
   quantity : Amounts, instant : Nat, deadline : Nat, ended : SUBSET Plain]

Statuses == {"prepared", "final", "failed"}

Ways == {"pay", "freshen", "burn", "issue", "demand", "settle", "withdraw"}

SavedRecord ==
  [stmt : Statements, status : Statuses, receipt : Statements \cup {None},
   judged : Nat, way : Ways]

\* Outputs are commitments: one made for an alias is no other's, and nothing's
\* mark of absence is a record or an index.
ASSUME WalletAssumption ==
  /\ Held \cup Requests \cup Renewals \cup Payouts \subseteq Notes
  /\ Fresh \in [Aliases -> Notes \ (Held \cup Requests \cup Renewals \cup Payouts)]
  /\ \A a, b \in Aliases : Fresh[a] = Fresh[b] => a = b
  /\ Deadlines \subseteq Nat /\ Duration \in Nat
  /\ None \notin SavedRecord /\ None \notin Nat

-----------------------------------------------------------------------------

\* The backing's history at first: the wallet's notes, issued.
Opening ==
  [GenesisState EXCEPT !.outputs = Held, !.issued = Worth(Held)]

View(at, since, seg, state, force, events) ==
  [at |-> at, since |-> since, seg |-> seg, state |-> state,
   force |-> force, events |-> events]

Init ==
  /\ venue = View(0, 0, 1, Opening, Opening, {})
  /\ older = venue
  /\ live = Opening /\ journal = {}
  /\ sent = {} /\ published = {}
  /\ saved = [a \in Aliases |-> None]
  /\ superseded = {}
  /\ seen = 0
  /\ held = [at |-> None, notes |-> {}]
  /\ forked = FALSE
  /\ calls = {}

-----------------------------------------------------------------------------
(* The venue and the operator (external to the wallet).                      *)

Silent(v, at) == at - v.since > Duration

Witnessed(v) == venue' = v /\ older' = venue

\* A checkpoint of the operator's tail, before silence bars it.
Checkpoint ==
  /\ venue.at < MaxIndex
  /\ ~Silent(venue, venue.at + 1)
  /\ Witnessed(View(venue.at + 1, venue.at + 1, venue.seg, live, live,
                    venue.events \cup live.statements))
  /\ UNCHANGED <<live, journal, sent, published, rows, fence, calls>>

\* An index passes, with at most one publication, which has force in a gap.
Pass ==
  /\ venue.at < MaxIndex
  /\ \E p \in {{}} \cup {{s} : s \in published} :
        LET at == venue.at + 1
            forced == {s \in p : Silent(venue, at) /\
                         JudgedForce(s, venue.state, venue.force, venue.seg, at)}
            force == IF forced = {} THEN venue.force
                     ELSE Apply(CHOOSE s \in forced : TRUE, venue.force)
        IN  /\ p # {} => forced # {}
            /\ Witnessed([venue EXCEPT !.at = at, !.force = force])
  /\ UNCHANGED <<live, journal, sent, published, rows, fence, calls>>

\* A successor segment imports the view, forced effects included; the old
\* operator's tail lapses.
Succeed ==
  /\ venue.at < MaxIndex /\ venue.seg < MaxSegment
  /\ LET state == OpenSegmentState(venue.force)
     IN  /\ Witnessed(View(venue.at + 1, venue.at + 1, venue.seg + 1, state,
                           state, venue.events))
         /\ live' = state
  /\ UNCHANGED <<journal, sent, published, rows, fence, calls>>

\* The operator admits a statement it was given, at its horizon.
Admit ==
  /\ ~Silent(venue, venue.at + Lag)
  /\ \E s \in sent :
        /\ Judged(s, live, venue.seg, "admission", venue.at + Lag, {})
        /\ live' = Apply(s, live)
        /\ journal' = journal \cup {s}
  /\ UNCHANGED <<venue, older, sent, published, rows, fence, calls>>

-----------------------------------------------------------------------------
(* What the wallet reads from its rows and a view.                           *)

Records == {a \in Aliases : saved[a] # None}

SavedStatement(s) ==
  \/ \E a \in Records : saved[a].stmt = s
  \/ \E old \in superseded : old.stmt = s

IsLive(r) == r.status # "failed"

\* A note a saved record reserves while it can still take effect.
Reserved(n) ==
  \E a \in Records :
     LET r == saved[a]
     IN  /\ n \in r.stmt.ins
         /\ \/ r.status = "prepared"
            \/ r.status = "final" /\ r.stmt.kind # Present

\* Demands of this wallet that present a note, saved here or in the view.
SavedPresenters(n) ==
  {s \in {saved[a].stmt : a \in Records} : s.kind = Present /\ n \in s.ins}

PresentedBy(v, n) ==
  SavedPresenters(n) \cup {s \in v.force.effective : s.kind = Present /\ n \in s.ins}

\* Demands saved here.
Presented == {s \in {saved[a].stmt : a \in Records} : s.kind = Present}

OwnNotes(v) == {n \in Own \cap v.state.outputs : n \notin v.force.spent}

\* Holdings a new record may take.
Available(v) ==
  {n \in OwnNotes(v) : ~Reserved(n) /\ ~Locked(v.force, n, v.at, {})}

Unpresented(v) == {n \in Available(v) : PresentedBy(v, n) = {}}

\* Not older than any view the wallet decided or built from.
Current(v) ==
  /\ v.at >= seen
  /\ \A a \in Records : v.at >= saved[a].judged

GapOpen(v) == Silent(v, v.at + Lag)

\* Service could still admit a statement, or the venue's gap takes an act.
Admissible(v) == ~GapOpen(v)

Payments == {Spend}

\* An output some saved payment that has not failed names.
LiveOutput(out) ==
  \E a \in Records : /\ saved[a].stmt.kind \in Payments
                     /\ IsLive(saved[a]) /\ out \in saved[a].stmt.outs

-----------------------------------------------------------------------------
(* A read: the held set is compared before anything else uses the view.      *)

\* The statement that spent the note is one this wallet saved.
SpentByOwn(v, n) ==
  IF n \in v.state.spent
  THEN \E s \in v.events \cup v.force.effective :
          n \in Nullifiers(s) /\ SavedStatement(s)
  ELSE \E a \in Records : /\ saved[a].stmt.kind = Settle
                          /\ n \in saved[a].stmt.ins
                          /\ saved[a].stmt \in v.force.effective

Accuses(v) ==
  \E n \in held.notes : n \in v.force.spent /\ ~SpentByOwn(v, n)

Watch(v) ==
  IF held.at # None /\ v.at < held.at THEN UNCHANGED fence
  ELSE /\ held' = [at |-> v.at, notes |-> OwnNotes(v)]
       /\ forked' = (forked \/ Accuses(v))

Reading(v) == v \in {venue, older} /\ Watch(v)

\* Acting operations refuse where another instance was seen.
Acting(v) == Reading(v) /\ ~forked'

\* A call that has read: `basis` holds the demands a demand repeats, or the
\* statement a reproof replaces.
Call(kind, a, stmt, at, basis) ==
  [kind |-> kind, alias |-> a, stmt |-> stmt, at |-> at, basis |-> basis]

\* What a call decided from its read, before it awaits its prover.
Planned(c) ==
  /\ Cardinality(calls) < MaxCalls
  /\ calls' = calls \cup {c}
  /\ UNCHANGED <<chain, sent, published, rows>>

\* prepare: an order's requests, none of them paid or in a live payment.
Prepare(a) ==
  \E v \in {venue, older}, outs \in SUBSET Requests, ins \in SUBSET Own :
     /\ saved[a] = None
     /\ outs # {} /\ \A out \in outs : ~LiveOutput(out)
     /\ Acting(v) /\ Current(v) /\ Admissible(v)
     /\ outs \cap v.state.outputs = {}
     /\ ins \subseteq Unpresented(v) /\ Worth(ins) = Worth(outs)
     /\ Planned(Call("pay", a, SpendOf(v.seg, ins, outs \cup {Fresh[a]}), v.at, {}))

\* freshen: an earlier demand's notes into one fresh note of their sum.
Freshen(a) ==
  \E v \in {venue, older}, out \in Renewals, d \in Presented :
     LET ins == {n \in Available(v) : d \in PresentedBy(v, n)}
     IN  /\ saved[a] = None
         /\ Acting(v) /\ Current(v) /\ Admissible(v)
         /\ ins # {} /\ Worth(ins) = Value[out] /\ ~LiveOutput(out)
         /\ Planned(Call("freshen", a, SpendOf(v.seg, ins, {out, Fresh[a]}), v.at, {}))

\* burn: available notes, never a presented one.
BurnNotes(a) ==
  \E v \in {venue, older}, ins \in SUBSET Own :
     /\ saved[a] = None
     /\ Acting(v) /\ Current(v) /\ Admissible(v)
     /\ ins # {} /\ ins \subseteq Unpresented(v)
     /\ Planned(Call("burn", a, BurnOf(v.seg, ins, {Fresh[a]}, Worth(ins)), v.at, {}))

\* issue: the backer's statement of a request's output.
IssueTo(a) ==
  \E v \in {venue, older}, out \in Requests :
     /\ saved[a] = None
     /\ Acting(v) /\ Current(v) /\ Admissible(v)
     /\ out \notin v.state.outputs
     /\ Planned(Call("issue", a, IssueOf(v.seg, out), v.at, {}))

\* Whole notes a demand may take: unpresented, or all of one earlier demand's.
Demandable(v) ==
  {ins \in SUBSET Available(v) :
     /\ ins # {}
     /\ \/ ins \subseteq Unpresented(v)
        \/ \E d \in Presented : \A n \in ins : d \in PresentedBy(v, n)}

\* demand: in a gap its deadline is past every index its publication may be
\* witnessed at.
Demand(a) ==
  \E v \in {venue, older} : \E ins \in Demandable(v), deadline \in Deadlines :
     /\ saved[a] = None
     /\ Acting(v) /\ Current(v)
     /\ deadline > v.at + (IF GapOpen(v) THEN 2 ELSE 1) * Lag
     /\ Planned(Call("demand", a,
          DemandOf(v.seg, ins, Worth(ins), v.at, deadline), v.at,
          UNION {PresentedBy(v, n) : n \in ins}))

\* settle: a standing demand that an acceptance answers.
SettleDemand(a) ==
  \E v \in {venue, older}, out \in Payouts, deadline \in Deadlines :
  \E d \in v.force.demands :
     /\ saved[a] = None
     /\ Acting(v) /\ Current(v)
     /\ deadline <= d.deadline /\ deadline >= v.at + Lag
     /\ d.ins \subseteq OwnNotes(v)
     /\ Value[out] = d.quantity /\ out \notin v.force.outputs
     /\ Planned(Call("settle", a, SettlementOf(v.seg, d, out, deadline), v.at, {}))

-----------------------------------------------------------------------------
(* Saving.  The transaction checks again what may have changed since the     *)
(* read; a refused call saves nothing.                                       *)

Row(stmt, at, way) ==
  [stmt |-> stmt, status |-> "prepared", receipt |-> None, judged |-> at,
   way |-> way]

\* Mutation: the notes other calls reserved meanwhile are not read again.
SavableUnreserved(c) ==
  /\ saved[c.alias] = None
  /\ c.kind \in {"pay", "freshen"} => \A out \in c.stmt.outs : ~LiveOutput(out)

\* Mutation: a demand saved meanwhile is not read again.
SavableUnpresented(c) ==
  /\ saved[c.alias] = None
  /\ c.kind # "settle" => \A n \in c.stmt.ins : ~Reserved(n)

Savable(c) ==
  /\ saved[c.alias] = None
  /\ c.kind # "settle" => \A n \in c.stmt.ins : ~Reserved(n)
  /\ c.kind \in {"pay", "burn", "demand"} =>
       \A n \in c.stmt.ins : SavedPresenters(n) \subseteq c.basis
  /\ IF c.kind \in {"pay", "freshen"}
     THEN \A out \in c.stmt.outs : ~LiveOutput(out)
     ELSE \A a \in Records : saved[a].stmt # c.stmt

\* savePayment, saveAct.
Save(c) ==
  /\ c \in calls /\ c.kind \notin {"submit", "reprove"}
  /\ ~forked /\ Savable(c)
  /\ saved' = [saved EXCEPT ![c.alias] = Row(c.stmt, c.at, c.kind)]
  /\ calls' = calls \ {c}
  /\ UNCHANGED <<chain, sent, published, superseded, seen, fence>>

\* withdraw: signed and saved in the read's own turn.
WithdrawDemand(a) ==
  \E v \in {venue, older} : \E d \in v.force.demands :
     LET c == Call("withdraw", a, WithdrawalOf(v.seg, d), v.at, {})
     IN  /\ Acting(v) /\ Current(v) /\ Savable(c)
         /\ saved' = [saved EXCEPT ![a] = Row(c.stmt, c.at, c.kind)]
         /\ UNCHANGED <<chain, sent, published, superseded, seen, calls>>

-----------------------------------------------------------------------------
(* Deciding.                                                                 *)

SpentOf(r, v) == r.stmt.ins \cap v.force.spent # {}

\* A payment's fate: all its outputs in history, or one input or output taken.
Paid(r, v) ==
  IF r.stmt.outs \subseteq v.state.outputs THEN "final"
  ELSE IF r.stmt.outs \cap v.force.outputs # {} \/ SpentOf(r, v) THEN "failed"
  ELSE r.status

Admitted(r, v) ==
  r.stmt \in v.events \/ (r.stmt.kind >= Present /\ r.stmt \in v.force.effective)

\* The operator's receipt still holds the record's place in the tail.
Pending(r, v) == r.receipt # None /\ ~Silent(v, v.at)

\* An act that can no longer take effect as saved; demands come after.
ActFails(r, v, ended) ==
  LET s == r.stmt
  IN  \/ s.seg # v.seg
      \/ s.kind = Issue /\ s.outs \cap v.state.outputs # {}
      \/ s.kind \in {Burn, Settle, Present} /\ SpentOf(r, v)
      \/ s.kind = Withdraw /\ (~(s.ended \subseteq v.force.demands) \/ ended)
      \/ s.kind = Settle /\ (\/ ~(s.ended \subseteq v.force.demands)
                             \/ s.outs \cap v.force.outputs # {}
                             \/ ~Pending(r, v) /\ v.at > s.deadline)
      \/ s.kind = Present /\ ~Pending(r, v) /\ v.at > s.instant + 2 * Lag

\* A view older than the one a record was built from.
Stale(r, v) == v.at < r.judged

\* Mutation: a view older than the record's decides its failure.
ActedStale(r, v, ended) ==
  IF Admitted(r, v) THEN "final"
  ELSE IF r.status = "failed" THEN r.status
  ELSE IF r.stmt.kind = Present /\ ended THEN "final"
  ELSE IF ActFails(r, v, ended) THEN "failed"
  ELSE r.status

\* An act's fate: it took effect, or never can as saved.
Acted(r, v, ended) ==
  IF Admitted(r, v) THEN "final"
  ELSE IF r.status = "failed" \/ Stale(r, v) THEN r.status
  ELSE IF r.stmt.kind = Present /\ ended THEN "final"
  ELSE IF ActFails(r, v, ended) THEN "failed"
  ELSE r.status

\* A record's status in a view; `ended` says that an act ended the demand.
Resolution(r, v, ended) ==
  IF r.status = "final" THEN r.status
  ELSE IF r.stmt.kind \notin Payments THEN Acted(r, v, ended)
  ELSE IF Stale(r, v) /\ Paid(r, v) = "failed" THEN r.status
  ELSE Paid(r, v)

EndedFinal(d, kinds, v) ==
  \E a \in Records : LET r == saved[a]
                     IN  /\ r.stmt.kind \in kinds /\ d \in r.stmt.ended
                         /\ Resolution(r, v, FALSE) = "final"

Ended(r, v) ==
  CASE r.stmt.kind = Present -> EndedFinal(r.stmt, {Withdraw, Settle}, v)
    [] r.stmt.kind = Withdraw -> \E d \in r.stmt.ended : EndedFinal(d, {Settle}, v)
    [] OTHER -> FALSE

Decide(a, v) ==
  IF saved[a] = None THEN None
  ELSE [saved[a] EXCEPT !.status = Resolution(saved[a], v, Ended(saved[a], v))]

\* sync: every record the view decides; it runs where a fork was seen too.
Sync ==
  \E v \in {venue, older} :
     /\ Reading(v)
     /\ saved' = [a \in Aliases |-> Decide(a, v)]
     /\ seen' = IF v.at > seen THEN v.at ELSE seen
     /\ UNCHANGED <<chain, sent, published, superseded, calls>>

\* reprove: a payment decided by the view is resolved; one whose segment is
\* dead is proved again in the canonical segment.
Reprove(a) ==
  \E v \in {venue, older} :
     LET r == saved[a]
     IN  /\ r # None /\ r.stmt.kind \in Payments /\ r.status = "prepared"
         /\ Acting(v) /\ v.at >= r.judged
         /\ IF Paid(r, v) # r.status
            THEN /\ saved' = [saved EXCEPT ![a].status = Paid(r, v)]
                 /\ seen' = IF v.at > seen THEN v.at ELSE seen
                 /\ UNCHANGED <<chain, sent, published, superseded, calls>>
            ELSE /\ Admissible(v) /\ r.stmt.seg # v.seg
                 /\ \A n \in r.stmt.ins :
                       n \in OwnNotes(v) /\ ~Locked(v.force, n, v.at, {})
                 /\ Planned(Call("reprove", a, [r.stmt EXCEPT !.seg = v.seg], v.at,
                                 {r.stmt}))

\* The reproof replaces the record it was made from, if it still stands.
SaveReproof(c) ==
  LET r == saved[c.alias]
  IN  /\ c \in calls /\ c.kind = "reprove" /\ ~forked
      /\ r.stmt \in c.basis /\ r.status = "prepared"
      /\ superseded' = superseded \cup
           {[alias |-> c.alias, stmt |-> r.stmt, receipt |-> r.receipt]}
      /\ saved' = [saved EXCEPT ![c.alias] = Row(c.stmt, c.at, r.way)]
      /\ calls' = calls \ {c}
      /\ UNCHANGED <<chain, sent, published, seen, fence>>

-----------------------------------------------------------------------------
(* Submitting and publishing exact saved bytes.                              *)

\* Mutation: a record is sent as it is proved, before it is saved.
SubmitUnsaved(a) ==
  \E c \in calls :
     /\ c.alias = a /\ c.kind \notin {"submit", "reprove"}
     /\ sent' = sent \cup {c.stmt}
     /\ UNCHANGED <<chain, published, rows, fence, calls>>

Submit(a) ==
  LET r == saved[a]
  IN  /\ r # None /\ r.receipt = None
      /\ Cardinality(calls) < MaxCalls
      /\ sent' = sent \cup {r.stmt}
      /\ calls' = calls \cup {Call("submit", a, r.stmt, 0, {})}
      /\ UNCHANGED <<chain, published, rows, fence>>

\* Mutation: the receipt goes to whatever record the alias names now.
KeptOnAlias(c) ==
  [saved EXCEPT ![c.alias].receipt = IF @ = None THEN c.stmt ELSE @]

\* The first receipt of the exact statement, kept with its own record.
KeptReceipt(c) ==
  IF saved[c.alias].stmt = c.stmt
  THEN [saved EXCEPT ![c.alias].receipt = IF @ = None THEN c.stmt ELSE @]
  ELSE saved

\* submit's answer: the operator that admitted the statement signs its receipt,
\* again for an exact repeat and after its segment ended too.
KeepReceipt(c) ==
  /\ c \in calls /\ c.kind = "submit" /\ c.stmt \in journal
  /\ saved' = KeptReceipt(c)
  /\ superseded' = {IF old.stmt = c.stmt /\ old.receipt = None
                     THEN [old EXCEPT !.receipt = c.stmt] ELSE old :
                    old \in superseded}
  /\ calls' = calls \ {c}
  /\ UNCHANGED <<chain, sent, published, seen, fence>>

\* A call ends with nothing: refused, its answer lost, or its handle gone.
Abandon(c) ==
  /\ c \in calls
  /\ calls' = calls \ {c}
  /\ UNCHANGED <<chain, sent, published, rows, fence>>

\* publish: a demand, withdrawal or release that has not failed.  Bound: where
\* no gap could take it, a publication has no force and is made again later.
Publish(a) ==
  LET r == saved[a]
  IN  /\ r # None /\ r.stmt.kind \in {Present, Withdraw, Settle}
      /\ r.status # "failed"
      /\ GapOpen(venue)
      /\ published' = published \cup {r.stmt}
      /\ UNCHANGED <<chain, sent, rows, fence, calls>>

Next ==
  \/ Checkpoint \/ Pass \/ Succeed \/ Admit \/ Sync
  \/ \E a \in Aliases :
        \/ Prepare(a) \/ Freshen(a) \/ BurnNotes(a) \/ IssueTo(a) \/ Demand(a)
        \/ SettleDemand(a) \/ WithdrawDemand(a) \/ Reprove(a) \/ Submit(a)
        \/ Publish(a)
  \/ \E c \in calls : Save(c) \/ SaveReproof(c) \/ KeepReceipt(c) \/ Abandon(c)

Spec == Init /\ [][Next]_vars

-----------------------------------------------------------------------------
(* Properties.                                                               *)

\* No note is in two records that can still take effect, settlements apart:
\* two calls that read the note free before either saved cannot both save
\* (reserved, wallet-store.ts).
ReservedOnce ==
  \A a, b \in Records :
     (a # b /\ saved[a].stmt.ins \cap saved[b].stmt.ins # {}) =>
        \E r \in {saved[a], saved[b]} :
           \/ r.status = "failed" \/ r.stmt.kind = Settle
           \/ r.status = "final" /\ r.stmt.kind = Present

\* A failed payment, burn, issue or withdrawal is out of history for good, so
\* that its notes and its request may be used again (resolutions, paid): no
\* operator holds it but in a tail that silence bars, which no reader sees.
FailedStaysOut ==
  \A a \in Records :
     (saved[a].status = "failed" /\ saved[a].stmt.kind \notin {Present, Settle}) =>
        /\ saved[a].stmt \notin venue.events
        /\ saved[a].stmt \in live.statements => Silent(venue, venue.at)

\* A final record took effect: a payment's outputs are all in history, an
\* act's statement is, or the demand it stood up was ended by a final act.
FinalTookEffect ==
  \A a \in Records : saved[a].status = "final" =>
     IF saved[a].stmt.kind \in Payments
     THEN saved[a].stmt.outs \subseteq venue.state.outputs
     ELSE Admitted(saved[a], venue)

\* What a record is resolved to is what became of its statement, for good.
OutcomesTrue == FailedStaysOut /\ FinalTookEffect

\* Receipts stay with the statement they sign, whatever a reproof replaced
\* while the submission was under way (submit, C2.10.9).
ReceiptsSignTheirRecord ==
  /\ \A a \in Records : saved[a].receipt \in {None, saved[a].stmt}
  /\ \A old \in superseded : old.receipt \in {None, old.stmt}

\* One instance of a seed never takes its own spends for another's (watch,
\* M13f): every statement is saved before it is sent, superseded ones kept.
NeverAccusesItself == ~forked

\* Every statement saved for a record, the ones a reproof replaced included.
StatementsOf(a) ==
  {saved[a].stmt} \cup {old.stmt : old \in {o \in superseded : o.alias = a}}

\* A note that one of the wallet's demands presented is never spent in history
\* by a payment or a burn of the wallet: the demand's tag would link the spend
\* (C3.1, requireUnpresented).  Whichever of the two was planned, proved, saved
\* or failed first, and though a payment was proved again since, a payment or
\* burn over a presented note has failed and no statement of it counts.
NeverLinks ==
  \A a, b \in Records :
     (/\ saved[a].way \in {"pay", "burn"} /\ saved[b].stmt.kind = Present
      /\ saved[a].stmt.ins \cap saved[b].stmt.ins # {}) =>
        /\ saved[a].status = "failed"
        /\ StatementsOf(a) \cap venue.events = {}
=============================================================================
