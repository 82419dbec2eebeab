---------------------------- MODULE WalletProofs ----------------------------
(* Proofs about Wallet for every set of notes, requests and aliases, every   *)
(* lag and duration, and any number of calls, segments and indices: what a   *)
(* record is resolved to is what becomes of its statement, no note backs two *)
(* records that can take effect, receipts stay with their statement, the     *)
(* wallet never takes its own spends for another instance's, and no payment  *)
(* that counts spends what one of its demands presented.                     *)
(*                                                                           *)
(* First the chain: how states grow, and that what a view holds was applied  *)
(* to it once.  Then the records over it, one part of the invariant at a     *)
(* time, under the calls that save, decide, replace and submit them.         *)
EXTENDS Wallet, TLAPS

\* A segment's state is a record of sets of notes and statements.
IsState(x) ==
  /\ x = [outputs |-> x.outputs, spent |-> x.spent, issued |-> x.issued,
          burned |-> x.burned, demands |-> x.demands, effective |-> x.effective,
          statements |-> x.statements]
  /\ x.outputs \subseteq Notes /\ x.spent \subseteq Notes
  /\ x.demands \subseteq Plain /\ x.effective \subseteq Statements
  /\ x.statements \subseteq Statements

IsView(v) ==
  /\ v = [at |-> v.at, since |-> v.since, seg |-> v.seg, state |-> v.state,
          force |-> v.force, events |-> v.events]
  /\ v.at \in Nat /\ v.since \in Nat /\ v.seg \in Nat
  /\ IsState(v.state) /\ IsState(v.force) /\ v.events \subseteq Statements

CallRecords ==
  [kind : Ways \cup {"submit", "reprove"}, alias : Aliases, stmt : Statements,
   at : Nat, basis : SUBSET Statements]

TypeOK ==
  /\ IsView(venue) /\ IsView(older) /\ IsState(live)
  /\ journal \subseteq Statements
  /\ sent \subseteq Statements /\ published \subseteq Statements
  /\ saved \in [Aliases -> SavedRecord \cup {None}]
  /\ superseded \subseteq [alias : Aliases, stmt : Statements, receipt : Statements \cup {None}]
  /\ seen \in Nat
  /\ held.notes \subseteq Notes /\ forked \in BOOLEAN
  /\ calls \subseteq CallRecords

-----------------------------------------------------------------------------
(* The chain.                                                                *)

\* Demands that stood and ended, and the acts that are no demands.
Gone(x) == x.effective \ x.demands

\* Later states hold what earlier ones hold, and what ended stays ended.
Grows(x, y) ==
  /\ x.outputs \subseteq y.outputs /\ x.spent \subseteq y.spent
  /\ x.effective \subseteq y.effective /\ Gone(x) \subseteq Gone(y)

\* A statement that a state does not refuse for its effects.
Fits(s, x) ==
  /\ Nullifiers(s) \cap x.spent = {} /\ s.outs \cap x.outputs = {}
  /\ s.ended \cap Gone(x) = {}

\* A statement whose effects a state holds.
InEffect(s, x) ==
  /\ Nullifiers(s) \subseteq x.spent /\ s.outs \subseteq x.outputs
  /\ s.ended \subseteq Gone(x)
  /\ s.kind >= Present => s \in x.effective

\* What a state holds was stood up and applied.
StateSound(x) ==
  /\ x.demands \subseteq x.effective
  /\ \A s \in x.effective : s.kind >= Present /\ InEffect(s, x)

\* Two statements end one demand in no history.
EndsOnce(some) == \A s, t \in some : s.ended \cap t.ended # {} => s = t

\* Spent notes, and outputs made for an alias, come from the statements given.
ComesFrom(x, some) ==
  /\ \A n \in x.spent : \E s \in some \cup x.effective : n \in Nullifiers(s)
  /\ \A a \in Aliases : Fresh[a] \in x.outputs => \E s \in some : Fresh[a] \in s.outs

\* A view: its force extends its state only once silence bars the operator's
\* tail, by acts alone, and its events are in its state.
ViewSound(v) ==
  /\ StateSound(v.state) /\ StateSound(v.force)
  /\ Grows(v.state, v.force)
  /\ v.force # v.state => Silent(v, v.at)
  /\ \A s \in v.events : InEffect(s, v.state)
  /\ EndsOnce(v.events \cup v.force.effective)
  /\ ComesFrom(v.state, v.events) /\ ComesFrom(v.force, v.events)
  /\ \A n \in v.force.spent \ v.state.spent :
        \E s \in v.force.effective : n \in Nullifiers(s)

\* The operator's state extends the witnessed one by its tail.
TailSound ==
  /\ StateSound(live) /\ Grows(venue.state, live)
  /\ \A s \in live.statements : InEffect(s, live) /\ s.seg = venue.seg
  /\ \A s \in live.statements \ venue.events : Fits(s, venue.state)
  /\ EndsOnce(venue.events \cup live.statements \cup live.effective)
  /\ ComesFrom(live, venue.events \cup live.statements)

\* The view before the witnessed one.
OlderSound ==
  /\ Grows(older.state, venue.state) /\ Grows(older.force, venue.force)
  /\ older.events \subseteq venue.events
  /\ older = venue \/ older.at < venue.at
  /\ older.seg <= venue.seg
  /\ \A s \in venue.events \ older.events : s.seg = older.seg /\ Fits(s, older.force)

ChainSound == ViewSound(venue) /\ ViewSound(older) /\ TailSound /\ OlderSound

-----------------------------------------------------------------------------
(* The wallet's rows.                                                        *)

\* The statements the wallet saved, replaced ones included.
SavedSet == {saved[a].stmt : a \in Records} \cup {old.stmt : old \in superseded}

\* Whatever took effect anywhere was given to a service or published, and
\* whatever was, was saved; an act is never replaced.
Provenance ==
  /\ venue.events \cup live.statements \cup live.effective \cup venue.state.effective
       \cup venue.force.effective \cup older.state.effective \cup older.force.effective
       \cup sent \cup published \cup journal \subseteq SavedSet
  /\ \A old \in superseded : old.stmt.kind = Spend

\* A statement of an alias: its kind's shape, and which fresh outputs it names.
Shaped(a, s) ==
  /\ s.kind \notin {Withdraw, Settle} => s.ended = {}
  /\ s.kind \in {Withdraw, Settle} => s.ended # {}
  /\ s.kind = Withdraw => s.outs = {}
  /\ s.kind = Present => s.outs = {}
  /\ s.kind \in {Issue, Withdraw} => s.ins = {}
  /\ \A b \in Aliases : Fresh[b] \in s.outs <=> b = a /\ s.kind \in {Spend, Burn}

\* Its segment was open, and the demand it ends had stood, in every view from
\* the one it was judged in on.
Known(s, at) ==
  /\ at <= venue.at
  /\ \A v \in {venue, older} :
       at <= v.at => s.seg <= v.seg /\ s.ended \subseteq v.force.effective

RowsKnown ==
  \A a \in Records : Shaped(a, saved[a].stmt) /\ Known(saved[a].stmt, saved[a].judged)

\* A statement no view will hold.
Over(s) == s.seg < venue.seg /\ s \notin venue.events

SupersededOver ==
  \A old \in superseded : Shaped(old.alias, old.stmt) /\ Over(old.stmt)

\* A call that awaits: what it will save; what a reproof replaces cannot land.
SoundCall(c) ==
  /\ c.kind # "submit" => Shaped(c.alias, c.stmt) /\ Known(c.stmt, c.at)
  /\ c.kind \in {"submit", "reprove"} => c.alias \in Records
  /\ c.kind \in {"pay", "burn"} => c.basis = {}
  /\ c.kind = "settle" <=> c.kind # "submit" /\ c.stmt.kind = Settle
  /\ c.kind = "reprove" =>
       /\ c.stmt.kind = Spend
       /\ \A s \in c.basis : /\ Shaped(c.alias, s) /\ Over(s)
                             /\ s.kind = Spend /\ s.ins = c.stmt.ins

CallsKnown == \A c \in calls : SoundCall(c)

\* What keeps a failed statement out for good.
Dead(s) == s.seg # venue.seg \/ ~Fits(s, venue.force)

FailedDead ==
  \A a \in Records :
     (saved[a].status = "failed" /\ saved[a].stmt.kind \notin {Present, Settle}) =>
        Dead(saved[a].stmt)

SoundWallet ==
  /\ TypeOK
  /\ ChainSound /\ Provenance /\ RowsKnown /\ SupersededOver /\ CallsKnown
  /\ FailedDead /\ OutcomesTrue /\ ReservedOnce
  /\ ReceiptsSignTheirRecord /\ NeverAccusesItself

-----------------------------------------------------------------------------
(* States.                                                                   *)

\* A statement whose kind alone ends demands, and whose demand ends none.
EndsByKind(s) == s.kind \notin {Withdraw, Settle} => s.ended = {}

\* A statement that may be applied: it fits, and ends demands that stand.
Appliable(s, x) ==
  /\ Fits(s, x) /\ s.ended \subseteq x.demands
  /\ s.kind >= Present => s \notin x.effective

\* The door of admission and of force lets only appliable statements pass.
LEMMA JudgedAppliable ==
  ASSUME NEW s \in Statements, EndsByKind(s), NEW x, NEW seg, NEW at,
         \/ Judged(s, x, seg, "admission", at, {})
         \/ \E base : JudgedForce(s, base, x, seg, at)
  PROVE  Appliable(s, x) /\ s.seg = seg
<1>1. s.seg = seg /\ CheckUniqueEffects(s, x) /\ \E door : CheckRecovery(s, x, at, door)
  BY DEF Judged, JudgedForce
<1>2. s.kind >= Present => s \notin x.effective
  BY <1>1 DEF CheckRecovery
<1>3. s.ended \subseteq x.demands
  BY <1>1 DEF CheckRecovery, EndsByKind
<1>4. Fits(s, x)
  BY <1>1, <1>3 DEF Fits, Gone, CheckUniqueEffects
<1> QED BY <1>1, <1>2, <1>3, <1>4 DEF Appliable

\* Applying an appliable statement keeps a state sound, grows it and gives it
\* the statement's effects (state.ts, applyRecord).
LEMMA ApplySound ==
  ASSUME NEW x, IsState(x), StateSound(x),
         NEW s \in Statements, EndsByKind(s), Appliable(s, x)
  PROVE  /\ IsState(Apply(s, x)) /\ StateSound(Apply(s, x))
         /\ Grows(x, Apply(s, x)) /\ InEffect(s, Apply(s, x))
<1> DEFINE y == Apply(s, x)
<1>1. /\ y.outputs = x.outputs \cup s.outs /\ y.spent = x.spent \cup Nullifiers(s)
      /\ y.demands = (x.demands \ s.ended) \cup (IF s.kind = Present THEN {s} ELSE {})
      /\ y.effective = x.effective \cup (IF s.kind >= Present THEN {s} ELSE {})
      /\ y.statements = x.statements \cup {s}
  BY DEF Apply, EndedBy, StoodUpBy
<1>2. y = [outputs |-> y.outputs, spent |-> y.spent, issued |-> y.issued,
           burned |-> y.burned, demands |-> y.demands, effective |-> y.effective,
           statements |-> y.statements]
  BY DEF Apply
<1> HIDE DEF y
<1>3. /\ s.outs \subseteq Notes /\ Nullifiers(s) \subseteq Notes /\ s.kind \in 1..6
      /\ s.kind = Present => s \in Plain
  BY DEF Statements, Plain, Nullifiers, EndsByKind, Present, Withdraw, Settle
<1>4. IsState(y)
  BY <1>1, <1>2, <1>3 DEF IsState
<1>5. s.kind = Present => s.ended = {}
  BY DEF EndsByKind, Present, Withdraw, Settle
<1>6. Gone(x) \subseteq Gone(y)
  BY <1>1 DEF Gone, Appliable, Present
<1>7. Grows(x, y)
  BY <1>1, <1>6 DEF Grows
<1>8. y.demands \subseteq y.effective
  BY <1>1 DEF StateSound, Present
<1>9. s.ended \subseteq Gone(y)
  BY <1>1, <1>5 DEF StateSound, Appliable, Gone
<1>10. InEffect(s, y)
  BY <1>1, <1>9 DEF InEffect
<1>11. ASSUME NEW t \in y.effective PROVE t.kind >= Present /\ InEffect(t, y)
  BY <1>1, <1>7, <1>10, <1>11 DEF StateSound, InEffect, Grows
<1> QED BY <1>4, <1>7, <1>8, <1>10, <1>11 DEF StateSound, y

\* What a state holds later ones hold, and what a later one takes an earlier
\* one would have.
LEMMA GrowsFacts ==
  ASSUME NEW x, NEW y, Grows(x, y)
  PROVE  /\ \A s : InEffect(s, x) => InEffect(s, y)
         /\ \A s : Fits(s, y) => Fits(s, x)
         /\ \A z : Grows(y, z) => Grows(x, z)
BY DEF Grows, InEffect, Fits

\* A successor's import keeps what the view held.
LEMMA OpenSound ==
  ASSUME NEW x, IsState(x)
  PROVE  LET y == OpenSegmentState(x)
         IN  /\ IsState(y) /\ y.statements = {}
             /\ y.outputs = x.outputs /\ y.spent = x.spent
             /\ y.demands = x.demands /\ y.effective = x.effective
<1> DEFINE y == OpenSegmentState(x)
<1>1. /\ y.statements = {} /\ y.outputs = x.outputs /\ y.spent = x.spent
      /\ y.demands = x.demands /\ y.effective = x.effective
      /\ y.issued = x.issued /\ y.burned = x.burned
      /\ y = [outputs |-> x.outputs, spent |-> x.spent, issued |-> x.issued,
              burned |-> x.burned, demands |-> x.demands, effective |-> x.effective,
              statements |-> {}]
  BY DEF IsState, OpenSegmentState
<1>2. IsState(y)
  BY <1>1 DEF IsState
<1> QED BY <1>1, <1>2

\* A statement that ends demands that stand ends none that another ended.
LEMMA EndsOnceMore ==
  ASSUME NEW some, NEW x, EndsOnce(some), \A t \in some : t.ended \subseteq Gone(x),
         NEW s, Appliable(s, x)
  PROVE  EndsOnce(some \cup {s})
BY DEF EndsOnce, Appliable, Gone

-----------------------------------------------------------------------------
(* The chain's steps.                                                        *)

\* What an index adds to the witnessed view.
Advances ==
  /\ venue'.at = venue.at + 1 /\ venue.seg <= venue'.seg /\ venue'.seg \in Nat
  /\ Grows(venue.state, venue'.state) /\ Grows(venue.force, venue'.force)
  /\ venue.events \subseteq venue'.events
  /\ venue'.events \ venue.events \subseteq live.statements

\* What took effect in a step was saved before it.
Supplied ==
  venue'.events \cup venue'.state.effective \cup venue'.force.effective \cup
    live'.statements \cup live'.effective \cup journal' \subseteq SavedSet

\* A saved statement has its kind's shape, and an act is not replaced.
LEMMA SavedFacts ==
  ASSUME TypeOK, Provenance, RowsKnown, SupersededOver, NEW s \in SavedSet
  PROVE  /\ s \in Statements /\ EndsByKind(s)
         /\ s.kind # Spend => \E a \in Records : saved[a].stmt = s
         /\ \A b \in Aliases : Fresh[b] \in s.outs =>
               /\ s.kind \in {Spend, Burn}
               /\ \/ b \in Records /\ saved[b].stmt = s
                  \/ \E old \in superseded : old.stmt = s
<1>1. CASE \E a \in Records : saved[a].stmt = s
  <2>1. PICK a \in Records : saved[a].stmt = s
    BY <1>1
  <2>2. saved[a] \in SavedRecord /\ Shaped(a, s) /\ a \in Aliases
    BY <2>1 DEF TypeOK, Records, RowsKnown
  <2> QED BY <2>1, <2>2 DEF SavedRecord, Shaped, EndsByKind
<1>2. CASE \E old \in superseded : old.stmt = s
  <2>1. PICK old \in superseded : old.stmt = s
    BY <1>2
  <2>2. Shaped(old.alias, s) /\ s \in Statements /\ s.kind = Spend /\ old.alias \in Aliases
    BY <2>1 DEF TypeOK, SupersededOver, Provenance
  <2> QED BY <2>1, <2>2 DEF Shaped, EndsByKind
<1> QED BY <1>1, <1>2 DEF SavedSet

\* The operator admits over its own state, which the witnessed one is part of.
LEMMA AdmitChain ==
  ASSUME SoundWallet, Admit
  PROVE  /\ ChainSound' /\ IsState(live)' /\ Supplied
         /\ \E s : /\ live'.statements = live.statements \cup {s}
                 /\ s.seg = venue.seg /\ Fits(s, venue.state)
<1>1. PICK s \in sent : Judged(s, live, venue.seg, "admission", venue.at + Lag, {})
                       /\ live' = Apply(s, live) /\ journal' = journal \cup {s}
  BY DEF Admit
<1>2. UNCHANGED <<venue, older>>
  BY DEF Admit
<1>3. s \in SavedSet
  BY DEF SoundWallet, Provenance
<1>4. s \in Statements /\ EndsByKind(s) /\ \A b \in Aliases : Fresh[b] \in s.outs => TRUE
  BY <1>3, SavedFacts DEF SoundWallet
<1>5. Appliable(s, live) /\ s.seg = venue.seg
  BY <1>1, <1>4, JudgedAppliable
<1>6. ViewSound(venue) /\ ViewSound(older) /\ TailSound /\ OlderSound /\ IsState(live)
  BY DEF SoundWallet, ChainSound, TypeOK
<1>7. /\ IsState(live') /\ StateSound(live') /\ Grows(live, live')
      /\ InEffect(s, live') /\ live'.statements = live.statements \cup {s}
      /\ live'.spent = live.spent \cup Nullifiers(s) /\ live'.outputs = live.outputs \cup s.outs
      /\ live'.effective \subseteq live.effective \cup {s}
      /\ live.effective \subseteq live'.effective
  <2>1. live' = Apply(s, live)
    BY <1>1
  <2>2. /\ IsState(live') /\ StateSound(live') /\ Grows(live, live')
        /\ InEffect(s, live')
    BY <2>1, <1>4, <1>5, <1>6, ApplySound DEF TailSound
  <2> QED BY <2>1, <2>2 DEF Apply
<1>8. Grows(venue.state, live')
  BY <1>6, <1>7, GrowsFacts DEF TailSound
<1>9. \A t \in live'.statements : InEffect(t, live') /\ t.seg = venue.seg
  BY <1>5, <1>6, <1>7, GrowsFacts DEF TailSound
<1>10. Fits(s, venue.state)
  BY <1>5, <1>6, GrowsFacts DEF Appliable, TailSound
<1> DEFINE some == venue.events \cup live.statements \cup live.effective
<1>11. \A t \in some : t.ended \subseteq Gone(live)
  <2>1. \A t \in venue.events : InEffect(t, live)
    BY <1>6, GrowsFacts DEF TailSound, ViewSound
  <2> QED BY <1>6, <2>1 DEF TailSound, StateSound, InEffect
<1>12. EndsOnce(some \cup {s})
  BY <1>5, <1>6, <1>11, EndsOnceMore DEF TailSound
<1>13. EndsOnce(venue.events \cup live'.statements \cup live'.effective)
  BY <1>7, <1>12 DEF EndsOnce
<1>14. ComesFrom(live', venue.events \cup live'.statements)
  BY <1>6, <1>7 DEF TailSound, ComesFrom
<1>15. TailSound'
  BY <1>2, <1>6, <1>7, <1>8, <1>9, <1>10, <1>13, <1>14 DEF TailSound
<1>16. Supplied
  BY <1>1, <1>2, <1>3, <1>7 DEF Supplied, SoundWallet, Provenance
<1> QED BY <1>2, <1>5, <1>6, <1>7, <1>10, <1>15, <1>16
        DEF ChainSound, ViewSound, OlderSound, Silent

\* A checkpoint holds the tail over the witnessed state: no force was between.
LEMMA CheckpointChain ==
  ASSUME SoundWallet, Checkpoint
  PROVE  ChainSound' /\ IsView(venue)' /\ Advances /\ Supplied
<1>1. /\ venue.at \in Nat /\ venue.since \in Nat /\ venue.seg \in Nat
      /\ IsState(live) /\ venue.events \subseteq Statements
      /\ ViewSound(venue) /\ TailSound
  BY DEF SoundWallet, ChainSound, TypeOK, IsView
<1>2. /\ venue' = View(venue.at + 1, venue.at + 1, venue.seg, live, live,
                       venue.events \cup live.statements)
      /\ older' = venue /\ live' = live /\ ~Silent(venue, venue.at + 1)
  BY DEF Checkpoint, Witnessed
<1>3. /\ venue'.at = venue.at + 1 /\ venue'.seg = venue.seg
      /\ venue'.since = venue.at + 1
      /\ venue'.state = live /\ venue'.force = live
      /\ venue'.events = venue.events \cup live.statements
  BY <1>2 DEF View
<1>4. IsView(venue')
  BY <1>1, <1>2, <1>3 DEF IsView, View, IsState
<1>5. venue.force = venue.state
  <2>1. ~Silent(venue, venue.at)
    BY <1>1, <1>2, WalletAssumption DEF Silent
  <2> QED BY <1>1, <2>1 DEF ViewSound
<1>6. Grows(venue.state, live) /\ Grows(venue.force, live)
  BY <1>1, <1>5 DEF TailSound
<1>7. \A s \in venue'.events : InEffect(s, live)
  BY <1>1, <1>3, <1>6, GrowsFacts DEF ViewSound, TailSound
<1>8. ViewSound(venue')
  BY <1>1, <1>3, <1>7 DEF ViewSound, TailSound, Grows
<1>9. \A s \in venue'.events \ venue.events : s.seg = venue.seg /\ Fits(s, venue.force)
  BY <1>1, <1>3, <1>5 DEF TailSound
<1>10. OlderSound'
  <2> DEFINE now == venue'
  <2>1. /\ Grows(venue.state, now.state) /\ Grows(venue.force, now.force)
        /\ venue.events \subseteq now.events /\ venue.at < now.at /\ venue.seg <= now.seg
        /\ \A s \in now.events \ venue.events : s.seg = venue.seg /\ Fits(s, venue.force)
    BY <1>1, <1>3, <1>6, <1>9
  <2> HIDE DEF now
  <2> SUFFICES older' = venue /\ venue' = now
    BY <2>1 DEF OlderSound
  <2> QED BY <1>2 DEF now
<1>11. TailSound'
  BY <1>1, <1>2, <1>3 DEF TailSound, Grows
<1>12. Advances
  BY <1>1, <1>3, <1>6 DEF Advances
<1>13. Supplied
  BY <1>2, <1>3 DEF Supplied, SoundWallet, Provenance, Checkpoint
<1> QED BY <1>1, <1>2, <1>4, <1>8, <1>10, <1>11, <1>12, <1>13 DEF ChainSound, ViewSound, Silent

\* An index with at most one publication: an act that is judged in a gap has
\* force, and no earlier end of its demand or spend of its notes is there.
LEMMA PassChain ==
  ASSUME SoundWallet, Pass
  PROVE  /\ ChainSound' /\ IsView(venue)' /\ Advances /\ Supplied
         /\ venue'.events = venue.events /\ venue'.since = venue.since
<1>1. /\ venue.at \in Nat /\ venue.since \in Nat /\ venue.seg \in Nat
      /\ IsState(venue.state) /\ IsState(venue.force) /\ venue.events \subseteq Statements
      /\ ViewSound(venue) /\ TailSound
  BY DEF SoundWallet, ChainSound, TypeOK, IsView
<1> DEFINE f == venue'.force
<1>2. /\ venue' = [venue EXCEPT !.at = venue.at + 1, !.force = f]
      /\ older' = venue /\ live' = live
      /\ \/ f = venue.force
         \/ \E s \in published : /\ Silent(venue, venue.at + 1)
                                 /\ JudgedForce(s, venue.state, venue.force, venue.seg, venue.at + 1)
                                 /\ f = Apply(s, venue.force)
  <2>1. /\ older' = venue /\ live' = live
        /\ \E p \in {{}} \cup {{s} : s \in published} :
             LET at == venue.at + 1
                 forced == {s \in p : Silent(venue, at) /\
                              JudgedForce(s, venue.state, venue.force, venue.seg, at)}
                 force == IF forced = {} THEN venue.force
                          ELSE Apply(CHOOSE s \in forced : TRUE, venue.force)
             IN  venue' = [venue EXCEPT !.at = at, !.force = force]
    BY DEF Pass, Witnessed
  <2>2. PICK p \in {{}} \cup {{s} : s \in published} :
             LET at == venue.at + 1
                 forced == {s \in p : Silent(venue, at) /\
                              JudgedForce(s, venue.state, venue.force, venue.seg, at)}
                 force == IF forced = {} THEN venue.force
                          ELSE Apply(CHOOSE s \in forced : TRUE, venue.force)
             IN  venue' = [venue EXCEPT !.at = at, !.force = force]
    BY <2>1
  <2> DEFINE forced == {s \in p : Silent(venue, venue.at + 1) /\
                          JudgedForce(s, venue.state, venue.force, venue.seg, venue.at + 1)}
             g == IF forced = {} THEN venue.force
                  ELSE Apply(CHOOSE s \in forced : TRUE, venue.force)
  <2>3. venue' = [venue EXCEPT !.at = venue.at + 1, !.force = g]
    BY <2>2
  <2>4. CASE forced = {}
    <3>1. g = venue.force
      BY <2>4
    <3> HIDE DEF g
    <3>2. venue'.force = g
      BY <1>1, <2>3 DEF SoundWallet, TypeOK, IsView
    <3> QED BY <2>1, <2>3, <3>1, <3>2
  <2>5. CASE forced # {}
    <3>1. PICK s : s = (CHOOSE t \in forced : TRUE)
      OBVIOUS
    <3>2. s \in forced
      BY <2>5, <3>1
    <3>3. s \in published
      BY <3>2
    <3>4. Silent(venue, venue.at + 1) /\ JudgedForce(s, venue.state, venue.force, venue.seg, venue.at + 1)
      BY <3>2
    <3>5. g = Apply(s, venue.force)
      BY <2>5, <3>1
    <3> HIDE DEF g, forced
    <3>6. venue'.force = g
      BY <1>1, <2>3 DEF SoundWallet, TypeOK, IsView
    <3> QED BY <2>1, <2>3, <3>3, <3>4, <3>5, <3>6
  <2> QED BY <2>4, <2>5
<1>3. /\ venue'.at = venue.at + 1 /\ venue'.seg = venue.seg /\ venue'.since = venue.since
      /\ venue'.state = venue.state /\ venue'.events = venue.events
      /\ venue' = [at |-> venue'.at, since |-> venue'.since, seg |-> venue'.seg,
                   state |-> venue'.state, force |-> venue'.force, events |-> venue'.events]
  BY <1>2 DEF SoundWallet, TypeOK, IsView
<1>4. \A t \in venue.events : InEffect(t, venue.force)
  BY <1>1, GrowsFacts DEF ViewSound
<1>5. /\ IsState(f) /\ StateSound(f) /\ Grows(venue.force, f)
      /\ f # venue.state => Silent(venue, venue.at + 1)
      /\ EndsOnce(venue.events \cup f.effective)
      /\ ComesFrom(f, venue.events)
      /\ \A n \in f.spent \ venue.state.spent : \E s \in f.effective : n \in Nullifiers(s)
  <2>1. CASE f = venue.force
    <3>1. Grows(venue.force, f)
      BY <2>1 DEF Grows
    <3>2. f # venue.state => Silent(venue, venue.at + 1)
      BY <1>1, <2>1, WalletAssumption DEF ViewSound, Silent
    <3> QED BY <1>1, <2>1, <3>1, <3>2 DEF ViewSound
  <2>2. CASE f # venue.force
    <3>1. PICK s \in published :
             /\ Silent(venue, venue.at + 1)
             /\ JudgedForce(s, venue.state, venue.force, venue.seg, venue.at + 1)
             /\ f = Apply(s, venue.force)
      BY <1>2, <2>2
    <3>2. s \in SavedSet
      BY DEF SoundWallet, Provenance
    <3>3. /\ s \in Statements /\ EndsByKind(s)
          /\ \A b \in Aliases : Fresh[b] \in s.outs => s.kind \in {Spend, Burn}
      BY <3>2, SavedFacts DEF SoundWallet
    <3>4. s.kind \in {Present, Withdraw, Settle} /\ Appliable(s, venue.force)
      <4>1. \E base : JudgedForce(s, base, venue.force, venue.seg, venue.at + 1)
        BY <3>1
      <4>2. Appliable(s, venue.force)
        BY <3>3, <4>1, JudgedAppliable
      <4> QED BY <3>1, <4>2 DEF JudgedForce
    <3>5. /\ IsState(f) /\ StateSound(f) /\ Grows(venue.force, f)
      BY <1>1, <3>1, <3>3, <3>4, ApplySound DEF ViewSound
    <3>6. /\ f.effective = venue.force.effective \cup {s}
          /\ f.spent = venue.force.spent \cup Nullifiers(s)
          /\ f.outputs = venue.force.outputs \cup s.outs
      BY <3>1, <3>4 DEF Apply, Present, Withdraw, Settle
    <3>7. \A t \in venue.events \cup venue.force.effective : t.ended \subseteq Gone(venue.force)
      BY <1>1, <1>4 DEF ViewSound, StateSound, InEffect
    <3>8. EndsOnce((venue.events \cup venue.force.effective) \cup {s})
      BY <1>1, <3>4, <3>7, EndsOnceMore DEF ViewSound
    <3>9. EndsOnce(venue.events \cup f.effective)
      BY <3>6, <3>8 DEF EndsOnce
    <3>10. \A b \in Aliases : Fresh[b] \notin s.outs
      BY <3>3, <3>4 DEF Present, Withdraw, Settle, Spend, Burn
    <3>11. ComesFrom(f, venue.events)
      BY <1>1, <3>6, <3>10 DEF ViewSound, ComesFrom
    <3>12. \A n \in f.spent \ venue.state.spent : \E t \in f.effective : n \in Nullifiers(t)
      BY <1>1, <3>6 DEF ViewSound
    <3> QED BY <3>1, <3>5, <3>9, <3>11, <3>12
  <2> QED BY <2>1, <2>2
<1>6. Grows(venue.state, f)
  BY <1>1, <1>5, GrowsFacts DEF ViewSound
<1> HIDE DEF f
<1>7. venue'.force = f
  BY DEF f
<1>8. IsView(venue')
  BY <1>1, <1>3, <1>5, <1>7 DEF IsView
<1>9. Silent(venue, venue.at + 1) => Silent(venue', venue'.at)
  BY <1>3 DEF Silent
<1>10. ViewSound(venue')
  BY <1>1, <1>3, <1>5, <1>6, <1>7, <1>9 DEF ViewSound
<1>11. Grows(venue.state, venue'.state)
  BY <1>3 DEF Grows
<1>12. Advances
  BY <1>1, <1>3, <1>5, <1>7, <1>11 DEF Advances
<1>13. OlderSound'
  <2> DEFINE now == venue'
  <2>1. /\ Grows(venue.state, now.state) /\ Grows(venue.force, now.force)
        /\ venue.events \subseteq now.events /\ venue.at < now.at /\ venue.seg <= now.seg
        /\ \A s \in now.events \ venue.events : FALSE
    BY <1>1, <1>3, <1>5, <1>7, <1>11
  <2> HIDE DEF now
  <2> SUFFICES older' = venue /\ venue' = now
    BY <2>1 DEF OlderSound
  <2> QED BY <1>2 DEF now
<1>14. TailSound'
  BY <1>1, <1>2, <1>3 DEF TailSound
<1>15. Supplied
  <2>1. venue'.force.effective \subseteq venue.force.effective \cup published
    BY <1>2, <1>7 DEF Apply
  <2>2. journal' = journal
    BY DEF Pass
  <2> QED BY <1>2, <1>3, <2>1, <2>2 DEF Supplied, SoundWallet, Provenance
<1> QED BY <1>1, <1>2, <1>3, <1>8, <1>10, <1>12, <1>13, <1>14, <1>15 DEF ChainSound, ViewSound, Silent

\* A successor imports the view's force, and the old tail lapses: nothing of
\* it is in the history any more.
LEMMA SucceedChain ==
  ASSUME SoundWallet, Succeed
  PROVE  /\ ChainSound' /\ IsView(venue)' /\ IsState(live)' /\ Advances /\ Supplied
         /\ venue'.events = venue.events /\ live'.statements = {}
<1>1. /\ venue.at \in Nat /\ venue.since \in Nat /\ venue.seg \in Nat
      /\ IsState(venue.state) /\ IsState(venue.force) /\ venue.events \subseteq Statements
      /\ ViewSound(venue) /\ TailSound
  BY DEF SoundWallet, ChainSound, TypeOK, IsView
<1> DEFINE y == OpenSegmentState(venue.force)
<1>2. /\ venue' = View(venue.at + 1, venue.at + 1, venue.seg + 1, y, y, venue.events)
      /\ older' = venue /\ live' = y
  BY DEF Succeed, Witnessed
<1>3. /\ IsState(y) /\ y.statements = {}
      /\ y.outputs = venue.force.outputs /\ y.spent = venue.force.spent
      /\ y.demands = venue.force.demands /\ y.effective = venue.force.effective
  BY <1>1, OpenSound
<1> HIDE DEF y
<1>4. /\ venue'.at = venue.at + 1 /\ venue'.seg = venue.seg + 1
      /\ venue'.since = venue.at + 1 /\ venue'.state = y /\ venue'.force = y
      /\ venue'.events = venue.events
      /\ venue' = [at |-> venue'.at, since |-> venue'.since, seg |-> venue'.seg,
                   state |-> venue'.state, force |-> venue'.force, events |-> venue'.events]
  BY <1>2 DEF View
<1>5. IsView(venue')
  BY <1>1, <1>3, <1>4 DEF IsView
<1>6. StateSound(y) /\ Grows(venue.force, y) /\ Grows(y, y)
  BY <1>1, <1>3 DEF ViewSound, StateSound, Grows, Gone, InEffect
<1>7. Grows(venue.state, y)
  BY <1>1, <1>6, GrowsFacts DEF ViewSound
<1>8. \A s \in venue.events : InEffect(s, y)
  BY <1>1, <1>7, GrowsFacts DEF ViewSound
<1>9. EndsOnce(venue.events \cup y.effective) /\ ComesFrom(y, venue.events)
  BY <1>1, <1>3 DEF ViewSound, ComesFrom
<1>10. ViewSound(venue')
  BY <1>4, <1>6, <1>8, <1>9 DEF ViewSound
<1>11. Advances
  BY <1>1, <1>4, <1>6, <1>7 DEF Advances
<1>12. OlderSound'
  <2> DEFINE now == venue'
  <2>1. /\ Grows(venue.state, now.state) /\ Grows(venue.force, now.force)
        /\ venue.events \subseteq now.events /\ venue.at < now.at /\ venue.seg <= now.seg
        /\ \A s \in now.events \ venue.events : FALSE
    BY <1>1, <1>4, <1>6, <1>7
  <2> HIDE DEF now
  <2> SUFFICES older' = venue /\ venue' = now
    BY <2>1 DEF OlderSound
  <2> QED BY <1>2 DEF now
<1>13. TailSound'
  <2>1. EndsOnce(venue.events \cup {} \cup y.effective) /\ ComesFrom(y, venue.events \cup {})
    BY <1>9 DEF EndsOnce, ComesFrom
  <2> QED BY <1>2, <1>3, <1>4, <1>6, <2>1 DEF TailSound
<1>14. Supplied
  BY <1>2, <1>3, <1>4 DEF Supplied, SoundWallet, Provenance, Succeed
<1> QED BY <1>1, <1>2, <1>3, <1>4, <1>5, <1>10, <1>11, <1>12, <1>13, <1>14
        DEF ChainSound, ViewSound, Silent

\* The records over a later view: what was known stays known, what was over or
\* dead stays so, and what took effect stays in effect.
LEMMA AdvanceRows ==
  ASSUME SoundWallet, Advances, older' = venue, UNCHANGED <<saved, superseded, calls>>,
         Silent(venue, venue.at) => venue'.events = venue.events,
         \/ live' = live /\ (Silent(venue, venue.at) => Silent(venue', venue'.at))
         \/ live'.statements = {}
  PROVE  /\ RowsKnown' /\ SupersededOver' /\ CallsKnown' /\ FailedDead'
         /\ OutcomesTrue' /\ ReservedOnce' /\ ReceiptsSignTheirRecord'
<1>1. /\ venue.at \in Nat /\ venue.seg \in Nat /\ older.at \in Nat
      /\ saved \in [Aliases -> SavedRecord \cup {None}]
      /\ TailSound /\ RowsKnown /\ SupersededOver /\ CallsKnown /\ FailedDead
      /\ OutcomesTrue /\ ReservedOnce /\ ReceiptsSignTheirRecord
  BY DEF SoundWallet, ChainSound, TypeOK, IsView
<1>2. ASSUME NEW s \in Statements, NEW at \in Nat, Known(s, at) PROVE Known(s, at)'
  <2> DEFINE now == venue'
  <2>1. /\ now.at = venue.at + 1 /\ venue.seg <= now.seg /\ now.seg \in Int
        /\ venue.force.effective \subseteq now.force.effective
    BY DEF Advances, Grows
  <2>2. at <= venue.at /\ s.seg <= venue.seg /\ s.ended \subseteq venue.force.effective
    BY <1>1, <1>2 DEF Known
  <2> HIDE DEF now
  <2> SUFFICES /\ at <= now.at
               /\ \A v \in {now, venue} :
                     at <= v.at => s.seg <= v.seg /\ s.ended \subseteq v.force.effective
    BY DEF Known, now
  <2>3. s.seg \in Nat /\ s.seg <= now.seg
    BY <1>1, <2>1, <2>2 DEF Statements
  <2>4. s.ended \subseteq now.force.effective
    BY <2>1, <2>2
  <2> QED BY <1>1, <2>1, <2>2, <2>3, <2>4
<1>3. ASSUME NEW s \in Statements, Over(s) PROVE Over(s)'
  <2>1. s.seg \in Nat /\ s.seg < venue.seg /\ s \notin venue.events
    BY <1>3 DEF Over, Statements
  <2>2. s \notin live.statements
    BY <1>1, <2>1 DEF TailSound
  <2> QED BY <1>1, <2>1, <2>2 DEF Over, Advances
<1>4. RowsKnown'
  <2> SUFFICES ASSUME NEW a \in Records
               PROVE  Shaped(a, saved[a].stmt) /\ Known(saved[a].stmt, saved[a].judged)'
    BY DEF RowsKnown, Records, Shaped
  <2>1. saved[a].stmt \in Statements /\ saved[a].judged \in Nat
    BY <1>1 DEF Records, SavedRecord
  <2> QED BY <1>1, <1>2, <2>1 DEF RowsKnown
<1>5. SupersededOver'
  <2> SUFFICES ASSUME NEW old \in superseded
               PROVE  Shaped(old.alias, old.stmt) /\ Over(old.stmt)'
    BY DEF SupersededOver, Shaped
  <2>1. old.stmt \in Statements
    BY DEF SoundWallet, TypeOK
  <2> QED BY <1>1, <1>3, <2>1 DEF SupersededOver
<1>6. CallsKnown'
  <2> SUFFICES ASSUME NEW c \in calls
               PROVE  /\ c.kind # "submit" => Shaped(c.alias, c.stmt) /\ Known(c.stmt, c.at)'
                      /\ c.kind \in {"submit", "reprove"} => c.alias \in Records
                      /\ c.kind \in {"pay", "burn"} => c.basis = {}
                      /\ c.kind = "settle" <=> c.kind # "submit" /\ c.stmt.kind = Settle
                      /\ c.kind = "reprove" =>
                           /\ c.stmt.kind = Spend
                           /\ \A s \in c.basis : /\ Shaped(c.alias, s) /\ Over(s)'
                                                  /\ s.kind = Spend /\ s.ins = c.stmt.ins
    BY DEF CallsKnown, SoundCall, Shaped, Records
  <2>1. c.stmt \in Statements /\ c.at \in Nat /\ c.basis \subseteq Statements
    BY DEF SoundWallet, TypeOK, CallRecords
  <2> QED BY <1>1, <1>2, <1>3, <2>1 DEF CallsKnown, SoundCall
<1>7. ASSUME NEW a \in Records, Dead(saved[a].stmt)
      PROVE  Dead(saved[a].stmt)'
  <2>1. Known(saved[a].stmt, saved[a].judged)
    BY <1>1 DEF RowsKnown
  <2>2. saved[a].stmt.seg <= venue.seg /\ saved[a] \in SavedRecord
    BY <1>1, <2>1 DEF Known, Records
  <2>3. saved[a].stmt.seg \in Nat
    BY <2>2 DEF SavedRecord, Statements
  <2>4. venue'.seg \in Int /\ venue.seg <= venue'.seg
    BY DEF Advances
  <2>5. CASE saved[a].stmt.seg # venue.seg
    BY <1>1, <2>2, <2>3, <2>4, <2>5 DEF Dead
  <2>6. CASE ~Fits(saved[a].stmt, venue.force)
    BY <2>6, GrowsFacts DEF Dead, Advances
  <2> QED BY <1>7, <2>5, <2>6 DEF Dead
<1>8. FailedDead'
  BY <1>1, <1>7 DEF FailedDead, Records
<1>9. FailedStaysOut'
  <2> SUFFICES ASSUME NEW a \in Records, saved[a].status = "failed",
                      saved[a].stmt.kind \notin {Present, Settle}
               PROVE  /\ saved[a].stmt \notin venue'.events
                      /\ saved[a].stmt \in live'.statements => Silent(venue', venue'.at)
    BY DEF FailedStaysOut, Records, Silent
  <2>1. /\ saved[a].stmt \notin venue.events
        /\ saved[a].stmt \in live.statements => Silent(venue, venue.at)
    BY <1>1 DEF OutcomesTrue, FailedStaysOut
  <2> QED BY <2>1 DEF Advances
<1>10. FinalTookEffect'
  <2> SUFFICES ASSUME NEW a \in Records, saved[a].status = "final"
               PROVE  IF saved[a].stmt.kind \in Payments
                      THEN saved[a].stmt.outs \subseteq venue'.state.outputs
                      ELSE Admitted(saved[a], venue')
    BY DEF FinalTookEffect, Records, Admitted
  <2> QED BY <1>1 DEF OutcomesTrue, FinalTookEffect, Admitted, Advances, Grows
<1> QED BY <1>1, <1>4, <1>5, <1>6, <1>8, <1>9, <1>10
        DEF OutcomesTrue, ReservedOnce, ReceiptsSignTheirRecord, Records

\* The venue's and the operator's steps keep the whole invariant.
LEMMA ChainKeeps ==
  ASSUME SoundWallet, Checkpoint \/ Pass \/ Succeed \/ Admit
  PROVE  SoundWallet'
<1>1. /\ UNCHANGED <<sent, published, saved, superseded, seen, held, forked, calls>>
      /\ SavedSet' = SavedSet
  BY DEF Checkpoint, Pass, Succeed, Admit, rows, fence, SavedSet, Records
<1>2. /\ TypeOK /\ Provenance /\ RowsKnown /\ SupersededOver /\ CallsKnown /\ FailedDead
      /\ OutcomesTrue /\ ReservedOnce /\ ReceiptsSignTheirRecord /\ NeverAccusesItself
      /\ SavedSet \subseteq Statements
  <2>1. SavedSet \subseteq Statements
    BY SavedFacts DEF SoundWallet
  <2> QED BY <2>1 DEF SoundWallet
<1>3. CASE Checkpoint \/ Pass \/ Succeed
  <2>1. /\ ChainSound' /\ IsView(venue)' /\ Advances /\ Supplied /\ IsState(live)'
        /\ Silent(venue, venue.at) => venue'.events = venue.events
        /\ \/ live' = live /\ (Silent(venue, venue.at) => Silent(venue', venue'.at))
           \/ live'.statements = {}
        /\ older' = venue
    <3>1. venue.at \in Nat /\ venue.since \in Nat /\ IsState(live)
      BY <1>2 DEF TypeOK, IsView
    <3>2. CASE Checkpoint
      <4>1. ChainSound' /\ IsView(venue)' /\ Advances /\ Supplied
        BY <3>2, CheckpointChain
      <4>2. ~Silent(venue, venue.at) /\ live' = live /\ older' = venue
        BY <3>1, <3>2, WalletAssumption DEF Checkpoint, Witnessed, Silent
      <4> QED BY <3>1, <4>1, <4>2 DEF IsState
    <3>3. CASE Pass
      <4>1. /\ ChainSound' /\ IsView(venue)' /\ Advances /\ Supplied
            /\ venue'.events = venue.events /\ venue'.since = venue.since
        BY <3>3, PassChain
      <4>2. live' = live /\ older' = venue
        BY <3>3 DEF Pass, Witnessed
      <4>3. Silent(venue, venue.at) => Silent(venue', venue'.at)
        BY <3>1, <4>1, WalletAssumption DEF Silent, Advances
      <4> QED BY <3>1, <4>1, <4>2, <4>3 DEF IsState
    <3>4. CASE Succeed
      <4>1. older' = venue
        BY <3>4 DEF Succeed, Witnessed
      <4> QED BY <3>4, <4>1, SucceedChain
    <3> QED BY <1>3, <3>2, <3>3, <3>4
  <2>2. /\ RowsKnown' /\ SupersededOver' /\ CallsKnown' /\ FailedDead'
        /\ OutcomesTrue' /\ ReservedOnce' /\ ReceiptsSignTheirRecord'
    BY <1>1, <2>1, AdvanceRows
  <2>3. TypeOK'
    <3>1. IsView(older)'
      BY <1>2, <2>1 DEF TypeOK, IsView, IsState
    <3>2. journal' \subseteq Statements
      BY <1>2, <2>1 DEF Supplied
    <3> QED BY <1>1, <1>2, <2>1, <3>1, <3>2 DEF TypeOK
  <2>4. Provenance'
    BY <1>1, <1>2, <2>1 DEF Provenance, Supplied
  <2> QED BY <1>1, <1>2, <2>1, <2>2, <2>3, <2>4 DEF SoundWallet, NeverAccusesItself
<1>4. CASE Admit
  <2>1. /\ ChainSound' /\ IsState(live)' /\ Supplied
        /\ \E s : /\ live'.statements = live.statements \cup {s}
                  /\ s.seg = venue.seg /\ Fits(s, venue.state)
    BY <1>4, AdmitChain
  <2>2. UNCHANGED <<venue, older>>
    BY <1>4 DEF Admit
  <2>3. TypeOK'
    <3>1. journal' \subseteq Statements
      BY <1>2, <2>1 DEF Supplied
    <3> QED BY <1>1, <1>2, <2>1, <2>2, <3>1 DEF TypeOK, IsView, IsState
  <2>4. Provenance'
    BY <1>1, <1>2, <2>1, <2>2 DEF Provenance, Supplied
  <2>5. RowsKnown' /\ SupersededOver' /\ CallsKnown' /\ FailedDead'
    BY <1>1, <1>2, <2>2 DEF RowsKnown, SupersededOver, CallsKnown, SoundCall, FailedDead, Records, Shaped,
                            Known, Over, Dead, Fits, Gone
  <2>6. venue.force = venue.state
    <3>1. venue.at \in Nat /\ venue.since \in Nat /\ ViewSound(venue)
      BY <1>2 DEF SoundWallet, ChainSound, TypeOK, IsView
    <3>2. ~Silent(venue, venue.at)
      BY <1>4, <3>1, WalletAssumption, NotesAssumption DEF Admit, Silent
    <3> QED BY <3>1, <3>2 DEF ViewSound
  <2>7. FailedStaysOut'
    BY <1>1, <1>2, <2>1, <2>2, <2>6
    DEF OutcomesTrue, FailedStaysOut, FailedDead, Dead, Records, Silent
  <2>8. FinalTookEffect'
    BY <1>1, <1>2, <2>2 DEF OutcomesTrue, FinalTookEffect, Records, Admitted
  <2> QED BY <1>1, <1>2, <2>1, <2>3, <2>4, <2>5, <2>7, <2>8
          DEF SoundWallet, OutcomesTrue, ReservedOnce, ReceiptsSignTheirRecord,
              NeverAccusesItself, Records
<1> QED BY <1>3, <1>4

-----------------------------------------------------------------------------
(* Reads and plans.                                                          *)

\* Facts about the two views a read may be of.
LEMMA ViewFacts ==
  ASSUME SoundWallet, NEW v, v \in {venue, older}
  PROVE  /\ IsView(v) /\ ViewSound(v) /\ v.at <= venue.at /\ v.seg <= venue.seg
         /\ Grows(v.state, venue.state) /\ Grows(v.force, venue.force)
         /\ v.events \subseteq venue.events
         /\ \A s \in venue.events \ v.events : s.seg = v.seg /\ Fits(s, v.force)
         /\ v.events \cup v.force.effective \cup v.state.effective \subseteq SavedSet
<1>1. /\ IsView(venue) /\ IsView(older) /\ ViewSound(venue) /\ ViewSound(older)
      /\ OlderSound /\ Provenance
  BY DEF SoundWallet, ChainSound, TypeOK
<1>2. CASE v = venue
  BY <1>1, <1>2 DEF IsView, Grows, Provenance
<1>3. CASE v = older
  BY <1>1, <1>3 DEF IsView, OlderSound, Provenance
<1> QED BY <1>2, <1>3

\* No read of the wallet's own history shows another instance (watch, M13f):
\* whatever spent a note is a statement the wallet saved.
LEMMA NeverAccuses ==
  ASSUME SoundWallet, NEW v, v \in {venue, older}
  PROVE  ~Accuses(v)
<1>1. /\ ViewSound(v)
      /\ v.events \cup v.force.effective \cup v.state.effective \subseteq SavedSet
  BY ViewFacts
<1>2. ASSUME NEW s \in SavedSet PROVE SavedStatement(s)
  BY DEF SavedSet, SavedStatement
<1> SUFFICES ASSUME NEW n, n \in v.force.spent
             PROVE  SpentByOwn(v, n)
  BY DEF Accuses
<1>3. CASE n \in v.state.spent
  <2>1. PICK s \in v.events \cup v.state.effective : n \in Nullifiers(s)
    BY <1>1, <1>3 DEF ViewSound, ComesFrom
  <2>2. s \in v.events \cup v.force.effective /\ SavedStatement(s)
    BY <1>1, <1>2 DEF ViewSound, Grows
  <2> QED BY <1>3, <2>1, <2>2 DEF SpentByOwn
<1>4. CASE n \notin v.state.spent
  <2>1. PICK s \in v.force.effective : n \in Nullifiers(s)
    BY <1>1, <1>4 DEF ViewSound
  <2>2. s.kind = Settle /\ n \in s.ins
    <3>1. s.kind >= Present
      BY <1>1 DEF ViewSound, StateSound
    <3> QED BY <2>1, <3>1 DEF Nullifiers, Present, Spend, Burn, Settle
  <2>3. PICK a \in Records : saved[a].stmt = s
    <3>1. s \in SavedSet /\ s.kind # Spend
      BY <1>1, <2>2 DEF Settle, Spend
    <3> QED BY <3>1, SavedFacts DEF SoundWallet
  <2> QED BY <1>4, <2>2, <2>3 DEF SpentByOwn
<1> QED BY <1>3, <1>4

\* A read leaves the rows alone, and the wallet in its own good standing.
LEMMA ReadKeeps ==
  ASSUME SoundWallet, NEW v, Reading(v)
  PROVE  held'.notes \subseteq Notes /\ forked' = FALSE
<1>1. v \in {venue, older} /\ Watch(v) /\ held.notes \subseteq Notes /\ forked = FALSE
  BY DEF Reading, SoundWallet, TypeOK, NeverAccusesItself
<1>2. ~Accuses(v)
  BY <1>1, NeverAccuses
<1>3. OwnNotes(v) \subseteq Notes
  BY <1>1, ViewFacts DEF OwnNotes, IsView, IsState
<1>4. CASE held.at # None /\ v.at < held.at
  <2>1. held' = held /\ forked' = forked
    BY <1>1, <1>4 DEF Watch, fence
  <2> QED BY <1>1, <2>1
<1>5. CASE ~(held.at # None /\ v.at < held.at)
  <2>1. held' = [at |-> v.at, notes |-> OwnNotes(v)]
    BY <1>1, <1>5 DEF Watch
  <2>2. forked' = (forked \/ Accuses(v))
    BY <1>1, <1>5 DEF Watch
  <2>3. forked' = FALSE
    BY <1>1, <1>2, <2>2, Zenon
  <2> QED BY <1>3, <2>1, <2>3
<1> QED BY <1>4, <1>5

\* A statement of a view's segment, ending demands the view knows.
LEMMA ReadKnown ==
  ASSUME SoundWallet, NEW v, v \in {venue, older},
         NEW s, s.seg = v.seg, s.ended \subseteq v.force.effective
  PROVE  Known(s, v.at)
<1>1. /\ v.at \in Nat /\ v.seg \in Nat /\ venue.at \in Nat /\ older.at \in Nat
      /\ OlderSound /\ v.at <= venue.at /\ v.seg <= venue.seg
      /\ Grows(v.force, venue.force)
  BY ViewFacts DEF IsView, SoundWallet, ChainSound, TypeOK
<1>2. v.seg <= venue.seg /\ s.ended \subseteq venue.force.effective
  BY <1>1 DEF Grows
<1>3. v.at <= older.at => v = older \/ older = venue
  BY <1>1 DEF OlderSound
<1> QED BY <1>1, <1>2, <1>3 DEF Known

\* A call that has read, and has nothing to save that is not sound.
LEMMA PlanKeeps ==
  ASSUME SoundWallet, NEW v, Reading(v), NEW c \in CallRecords, SoundCall(c), Planned(c)
  PROVE  SoundWallet'
<1>1. /\ UNCHANGED <<venue, older, live, journal, sent, published, saved, superseded, seen>>
      /\ calls' = calls \cup {c}
  BY DEF Planned, chain, rows
<1>2. held'.notes \subseteq Notes /\ forked' = FALSE
  BY ReadKeeps
<1>3. TypeOK'
  BY <1>1, <1>2 DEF SoundWallet, TypeOK, IsView, IsState
<1>4. CallsKnown'
  BY <1>1 DEF SoundWallet, CallsKnown, SoundCall, Shaped, Known, Over, Records
<1>5. ChainSound' /\ Provenance'
  BY <1>1 DEF SoundWallet, ChainSound, ViewSound, TailSound, OlderSound, Silent,
              Provenance, SavedSet, Records
<1>6. RowsKnown' /\ SupersededOver' /\ FailedDead'
  BY <1>1 DEF SoundWallet, RowsKnown, SupersededOver, FailedDead, Shaped, Known, Over, Dead,
              Records
<1>7. OutcomesTrue' /\ ReservedOnce' /\ ReceiptsSignTheirRecord'
  BY <1>1 DEF SoundWallet, OutcomesTrue, FailedStaysOut, FinalTookEffect, Admitted, Silent,
              ReservedOnce, ReceiptsSignTheirRecord, Records
<1> QED BY <1>2, <1>3, <1>4, <1>5, <1>6, <1>7 DEF SoundWallet, NeverAccusesItself

\* A call for a statement over a view, of its alias's shape.
LEMMA CallSound ==
  ASSUME SoundWallet, NEW v, v \in {venue, older}, NEW a \in Aliases, NEW kind \in Ways,
         NEW s \in Statements, s.seg = v.seg, s.ended \subseteq v.force.effective,
         Shaped(a, s), NEW basis, basis \subseteq Statements,
         kind \in {"pay", "burn"} => basis = {}, kind = "settle" <=> s.kind = Settle
  PROVE  Call(kind, a, s, v.at, basis) \in CallRecords /\ SoundCall(Call(kind, a, s, v.at, basis))
<1> DEFINE c == Call(kind, a, s, v.at, basis)
<1>1. /\ c.kind = kind /\ c.alias = a /\ c.stmt = s /\ c.at = v.at /\ c.basis = basis
      /\ c = [kind |-> kind, alias |-> a, stmt |-> s, at |-> v.at, basis |-> basis]
  BY DEF Call
<1> HIDE DEF c
<1>2. v.at \in Nat
  BY ViewFacts DEF IsView
<1>3. Known(s, v.at)
  BY ReadKnown
<1>4. kind \notin {"submit", "reprove"}
  BY DEF Ways
<1>5. c \in CallRecords
  BY <1>1, <1>2 DEF CallRecords
<1>6. SoundCall(c)
  BY <1>1, <1>3, <1>4 DEF SoundCall
<1> QED BY <1>5, <1>6 DEF c

\* The statements a plan makes.
LEMMA MadeStatements ==
  ASSUME NEW seg \in Nat, NEW ins \in SUBSET Notes, NEW outs \in SUBSET Notes,
         NEW quantity \in Amounts, NEW instant \in Nat, NEW deadline \in Nat
  PROVE  /\ SpendOf(seg, ins, outs) \in Statements
         /\ BurnOf(seg, ins, outs, quantity) \in Statements
         /\ DemandOf(seg, ins, quantity, instant, deadline) \in Statements
         /\ \A n \in Notes : IssueOf(seg, n) \in Statements
         /\ \A d \in Plain : WithdrawalOf(seg, d) \in Statements
         /\ \A d \in Plain, n \in Notes : SettlementOf(seg, d, n, deadline) \in Statements
<1>1. 0 \in Amounts /\ \A n \in Notes : Value[n] \in Amounts
  BY DEF Amounts
<1>2. \A d \in Plain : d.ins \subseteq Notes
  BY DEF Plain
<1>3. SpendOf(seg, ins, outs) \in Statements
  BY <1>1 DEF SpendOf, Statement, Statements, Spend
<1>4. BurnOf(seg, ins, outs, quantity) \in Statements
  BY <1>1 DEF BurnOf, Statement, Statements, Burn
<1>5. DemandOf(seg, ins, quantity, instant, deadline) \in Statements
  BY <1>1 DEF DemandOf, Statement, Statements, Present
<1>6. ASSUME NEW n \in Notes PROVE IssueOf(seg, n) \in Statements
  BY <1>1 DEF IssueOf, Statement, Statements, Issue
<1>7. ASSUME NEW d \in Plain PROVE WithdrawalOf(seg, d) \in Statements
  BY <1>1 DEF WithdrawalOf, Statement, Statements, Withdraw
<1>8. ASSUME NEW d \in Plain, NEW n \in Notes
      PROVE  SettlementOf(seg, d, n, deadline) \in Statements
  BY <1>1, <1>2 DEF SettlementOf, Statement, Statements, Settle
<1> QED BY <1>3, <1>4, <1>5, <1>6, <1>7, <1>8

\* A payment takes notes of the read's segment into the payees' outputs and
\* the alias's own.
LEMMA PrepareKeeps ==
  ASSUME SoundWallet, NEW a \in Aliases, Prepare(a)
  PROVE  SoundWallet'
<1>1. PICK v \in {venue, older}, outs \in SUBSET Requests, ins \in SUBSET Own :
        /\ Acting(v)
        /\ Planned(Call("pay", a, SpendOf(v.seg, ins, outs \cup {Fresh[a]}), v.at, {}))
  BY DEF Prepare
<1> DEFINE s == SpendOf(v.seg, ins, outs \cup {Fresh[a]})
<1>2. /\ ins \in SUBSET Notes /\ outs \cup {Fresh[a]} \in SUBSET Notes /\ v.seg \in Nat
      /\ \A b \in Aliases : Fresh[b] \notin outs /\ (Fresh[b] = Fresh[a] => b = a)
  BY WalletAssumption, ViewFacts DEF Own, IsView
<1>3. s \in Statements
  BY <1>2, MadeStatements DEF Amounts
<1>4. s.seg = v.seg /\ s.ended = {} /\ s.kind = Spend /\ s.outs = outs \cup {Fresh[a]}
  BY DEF SpendOf, Statement
<1> HIDE DEF s
<1>5. Shaped(a, s)
  BY <1>2, <1>4 DEF Shaped, Spend, Burn, Issue, Present, Withdraw, Settle
<1>6. Call("pay", a, s, v.at, {}) \in CallRecords /\ SoundCall(Call("pay", a, s, v.at, {}))
  <2>1. "pay" \in Ways /\ (s.kind # Settle /\ "pay" # "settle")
    BY <1>4, <1>5 DEF Ways, Spend, Settle
  <2>2. s.ended \subseteq v.force.effective
    BY <1>4, <1>5
  <2> QED BY <1>3, <1>4, <1>5, <2>1, <2>2, CallSound
<1>7. Reading(v) /\ Planned(Call("pay", a, s, v.at, {}))
  BY <1>1 DEF Acting, s
<1> QED BY <1>6, <1>7, PlanKeeps

\* A freshen takes one demand's notes into one note of their sum.
LEMMA FreshenKeeps ==
  ASSUME SoundWallet, NEW a \in Aliases, Freshen(a)
  PROVE  SoundWallet'
<1>1. PICK v \in {venue, older}, out \in Renewals, ins \in SUBSET Own :
        /\ Acting(v)
        /\ Planned(Call("freshen", a, SpendOf(v.seg, ins, {out, Fresh[a]}), v.at, {}))
  <2>1. \A v, d : {n \in Available(v) : d \in PresentedBy(v, n)} \subseteq Own
    BY DEF Available, OwnNotes
  <2> QED BY <2>1 DEF Freshen
<1> DEFINE s == SpendOf(v.seg, ins, {out, Fresh[a]})
<1>2. /\ ins \in SUBSET Notes /\ {out, Fresh[a]} \in SUBSET Notes /\ v.seg \in Nat
      /\ \A b \in Aliases : Fresh[b] # out /\ (Fresh[b] = Fresh[a] => b = a)
  BY WalletAssumption, ViewFacts DEF Own, IsView
<1>3. s \in Statements
  BY <1>2, MadeStatements DEF Amounts
<1>4. s.seg = v.seg /\ s.ended = {} /\ s.kind = Spend /\ s.outs = {out, Fresh[a]}
  BY DEF SpendOf, Statement
<1> HIDE DEF s
<1>5. Shaped(a, s)
  BY <1>2, <1>4 DEF Shaped, Spend, Burn, Issue, Present, Withdraw, Settle
<1>6. /\ Call("freshen", a, s, v.at, {}) \in CallRecords
      /\ SoundCall(Call("freshen", a, s, v.at, {}))
  <2>1. "freshen" \in Ways /\ (s.kind # Settle /\ "freshen" # "settle")
    BY <1>4, <1>5 DEF Ways, Spend, Settle
  <2>2. s.ended \subseteq v.force.effective
    BY <1>4, <1>5
  <2> QED BY <1>3, <1>4, <1>5, <2>1, <2>2, CallSound
<1>7. Reading(v) /\ Planned(Call("freshen", a, s, v.at, {}))
  BY <1>1 DEF Acting, s
<1> QED BY <1>6, <1>7, PlanKeeps

\* A burn takes available notes.
LEMMA BurnKeeps ==
  ASSUME SoundWallet, NEW a \in Aliases, BurnNotes(a)
  PROVE  SoundWallet'
<1>1. PICK v \in {venue, older}, ins \in SUBSET Own :
        /\ Acting(v)
        /\ Planned(Call("burn", a, BurnOf(v.seg, ins, {Fresh[a]}, Worth(ins)), v.at, {}))
  BY DEF BurnNotes
<1> DEFINE s == BurnOf(v.seg, ins, {Fresh[a]}, Worth(ins))
<1>2. /\ ins \in SUBSET Notes /\ {Fresh[a]} \in SUBSET Notes /\ v.seg \in Nat
      /\ \A b \in Aliases : Fresh[b] = Fresh[a] => b = a
  BY WalletAssumption, ViewFacts DEF Own, IsView
<1>3. s \in Statements
  <2>1. Worth(ins) \in Amounts
    BY <1>2 DEF Amounts
  <2> QED BY <1>2, <2>1, MadeStatements
<1>4. s.seg = v.seg /\ s.ended = {} /\ s.kind = Burn /\ s.outs = {Fresh[a]}
  BY DEF BurnOf, Statement
<1> HIDE DEF s
<1>5. Shaped(a, s)
  BY <1>2, <1>4 DEF Shaped, Spend, Burn, Issue, Present, Withdraw, Settle
<1>6. Call("burn", a, s, v.at, {}) \in CallRecords /\ SoundCall(Call("burn", a, s, v.at, {}))
  <2>1. "burn" \in Ways /\ (s.kind # Settle /\ "burn" # "settle")
    BY <1>4, <1>5 DEF Ways, Burn, Settle
  <2>2. s.ended \subseteq v.force.effective
    BY <1>4, <1>5
  <2> QED BY <1>3, <1>4, <1>5, <2>1, <2>2, CallSound
<1>7. Reading(v) /\ Planned(Call("burn", a, s, v.at, {}))
  BY <1>1 DEF Acting, s
<1> QED BY <1>6, <1>7, PlanKeeps

\* An issue makes a requested output.
LEMMA IssueKeeps ==
  ASSUME SoundWallet, NEW a \in Aliases, IssueTo(a)
  PROVE  SoundWallet'
<1>1. PICK v \in {venue, older}, out \in Requests :
        Acting(v) /\ Planned(Call("issue", a, IssueOf(v.seg, out), v.at, {}))
  BY DEF IssueTo
<1> DEFINE s == IssueOf(v.seg, out)
<1>2. out \in Notes /\ v.seg \in Nat /\ \A b \in Aliases : Fresh[b] # out
  BY WalletAssumption, ViewFacts DEF IsView
<1>3. s \in Statements
  BY <1>2 DEF IssueOf, Statement, Statements, Issue, Amounts
<1>4. s.seg = v.seg /\ s.ended = {} /\ s.ins = {} /\ s.kind = Issue /\ s.outs = {out}
  BY DEF IssueOf, Statement
<1> HIDE DEF s
<1>5. Shaped(a, s)
  BY <1>2, <1>4 DEF Shaped, Spend, Burn, Issue, Present, Withdraw, Settle
<1>6. Call("issue", a, s, v.at, {}) \in CallRecords /\ SoundCall(Call("issue", a, s, v.at, {}))
  <2>1. "issue" \in Ways /\ (s.kind # Settle /\ "issue" # "settle")
    BY <1>4, <1>5 DEF Ways, Issue, Settle
  <2>2. s.ended \subseteq v.force.effective
    BY <1>4, <1>5
  <2> QED BY <1>3, <1>4, <1>5, <2>1, <2>2, CallSound
<1>7. Reading(v) /\ Planned(Call("issue", a, s, v.at, {}))
  BY <1>1 DEF Acting, s
<1> QED BY <1>6, <1>7, PlanKeeps

\* A demand presents notes the read holds.
LEMMA DemandKeeps ==
  ASSUME SoundWallet, NEW a \in Aliases, Demand(a)
  PROVE  SoundWallet'
<1>1. PICK v \in {venue, older} : \E ins \in Demandable(v), deadline \in Deadlines :
        /\ Acting(v)
        /\ Planned(Call("demand", a, DemandOf(v.seg, ins, Worth(ins), v.at, deadline), v.at,
                        UNION {PresentedBy(v, n) : n \in ins}))
  BY DEF Demand
<1>2. PICK ins \in Demandable(v), deadline \in Deadlines :
        /\ Acting(v)
        /\ Planned(Call("demand", a, DemandOf(v.seg, ins, Worth(ins), v.at, deadline), v.at,
                        UNION {PresentedBy(v, n) : n \in ins}))
  BY <1>1
<1> DEFINE s == DemandOf(v.seg, ins, Worth(ins), v.at, deadline)
           basis == UNION {PresentedBy(v, n) : n \in ins}
<1>3. /\ ins \in SUBSET Notes /\ v.seg \in Nat /\ v.at \in Nat /\ deadline \in Nat
      /\ v.force.effective \subseteq Statements
  BY WalletAssumption, ViewFacts DEF Own, OwnNotes, Available, Demandable, IsView, IsState
<1>4. s \in Statements
  <2>1. Worth(ins) \in Amounts
    BY <1>3 DEF Amounts
  <2> QED BY <1>3, <2>1, MadeStatements
<1>5. s.seg = v.seg /\ s.ended = {} /\ s.kind = Present /\ s.outs = {}
  BY DEF DemandOf, Statement
<1>6. basis \subseteq Statements
  <2>1. {saved[b].stmt : b \in Records} \subseteq Statements
    BY DEF SoundWallet, TypeOK, Records, SavedRecord
  <2> QED BY <1>3, <2>1 DEF PresentedBy, SavedPresenters
<1> HIDE DEF s, basis
<1>7. Shaped(a, s)
  BY <1>5 DEF Shaped, Spend, Burn, Issue, Present, Withdraw, Settle
<1>8. /\ Call("demand", a, s, v.at, basis) \in CallRecords
      /\ SoundCall(Call("demand", a, s, v.at, basis))
  <2>1. "demand" \in Ways /\ (s.kind # Settle /\ "demand" # "settle")
    BY <1>4, <1>5 DEF Ways, Present, Settle
  <2>2. s.ended \subseteq v.force.effective
    BY <1>4, <1>5
  <2> QED BY <1>4, <1>5, <1>6, <1>7, <2>1, <2>2, CallSound
<1>9. Reading(v) /\ Planned(Call("demand", a, s, v.at, basis))
  BY <1>2 DEF Acting, s, basis
<1> QED BY <1>8, <1>9, PlanKeeps

\* A settlement ends a demand that stands in the read.
LEMMA SettleKeeps ==
  ASSUME SoundWallet, NEW a \in Aliases, SettleDemand(a)
  PROVE  SoundWallet'
<1>1. PICK v \in {venue, older}, out \in Payouts, deadline \in Deadlines :
        \E d \in v.force.demands :
          Acting(v) /\ Planned(Call("settle", a, SettlementOf(v.seg, d, out, deadline), v.at, {}))
  BY DEF SettleDemand
<1>2. PICK d \in v.force.demands :
        Acting(v) /\ Planned(Call("settle", a, SettlementOf(v.seg, d, out, deadline), v.at, {}))
  BY <1>1
<1> DEFINE s == SettlementOf(v.seg, d, out, deadline)
<1>3. /\ v.seg \in Nat /\ deadline \in Nat /\ out \in Notes /\ d \in Plain
      /\ d \in v.force.effective /\ \A b \in Aliases : Fresh[b] # out
  <2>1. IsView(v) /\ ViewSound(v)
    BY ViewFacts
  <2>2. v.seg \in Nat /\ v.force.demands \subseteq Plain /\ v.force.demands \subseteq v.force.effective
    BY <2>1 DEF IsView, IsState, ViewSound, StateSound
  <2>3. deadline \in Nat /\ out \in Notes /\ \A b \in Aliases : Fresh[b] # out
    BY WalletAssumption
  <2> QED BY <2>2, <2>3
<1>4. s \in Statements
  BY <1>3, MadeStatements DEF Amounts
<1>5. s.seg = v.seg /\ s.ended = {d} /\ s.kind = Settle /\ s.outs = {out}
  BY DEF SettlementOf, Statement
<1> HIDE DEF s
<1>6. Shaped(a, s)
  BY <1>3, <1>5 DEF Shaped, Spend, Burn, Issue, Present, Withdraw, Settle
<1>7. Call("settle", a, s, v.at, {}) \in CallRecords /\ SoundCall(Call("settle", a, s, v.at, {}))
  <2>1. "settle" \in Ways /\ s.kind = Settle
    BY <1>5 DEF Ways
  <2>2. s.ended \subseteq v.force.effective
    BY <1>3, <1>5
  <2> QED BY <1>4, <1>5, <1>6, <2>1, <2>2, CallSound
<1>8. Reading(v) /\ Planned(Call("settle", a, s, v.at, {}))
  BY <1>2 DEF Acting, s
<1> QED BY <1>7, <1>8, PlanKeeps

-----------------------------------------------------------------------------
(* Saving.                                                                   *)

\* A prepared row over notes no other row reserves, in place of none or of one
\* that is kept with the replaced ones.
LEMMA NewRowKeeps ==
  ASSUME SoundWallet, NEW a \in Aliases, NEW row \in SavedRecord,
         row.status = "prepared", row.receipt = None,
         Shaped(a, row.stmt), Known(row.stmt, row.judged),
         saved' = [saved EXCEPT ![a] = row],
         UNCHANGED <<venue, older, live, journal, sent, published, seen>>,
         superseded \subseteq superseded',
         superseded' \subseteq
           [alias : Aliases, stmt : Statements, receipt : Statements \cup {None}],
         \A old \in superseded' : /\ old.receipt \in {None, old.stmt} /\ old.stmt.kind = Spend
                                  /\ Shaped(old.alias, old.stmt) /\ Over(old.stmt),
         a \in Records => \E old \in superseded' : old.stmt = saved[a].stmt,
         \A b \in Records \ {a} :
            saved[b].stmt.ins \cap row.stmt.ins # {} =>
              \/ saved[b].status = "failed" \/ saved[b].stmt.kind = Settle
              \/ saved[b].status = "final" /\ saved[b].stmt.kind = Present
              \/ row.stmt.kind = Settle,
         calls' \subseteq calls, held'.notes \subseteq Notes, forked' = FALSE
  PROVE  SoundWallet'
<1>1. /\ saved \in [Aliases -> SavedRecord \cup {None}] /\ None \notin SavedRecord
      /\ TypeOK /\ RowsKnown /\ CallsKnown /\ FailedDead /\ OutcomesTrue /\ ReservedOnce
      /\ ReceiptsSignTheirRecord /\ Provenance
  BY WalletAssumption DEF SoundWallet, TypeOK
<1>2. /\ saved' \in [Aliases -> SavedRecord \cup {None}]
      /\ saved'[a] = row /\ \A b \in Aliases \ {a} : saved'[b] = saved[b]
  BY <1>1
<1>3. Records' = Records \cup {a} /\ Records \subseteq Aliases
  BY <1>1, <1>2 DEF Records
<1>4. \A b \in Records' \ {a} : b \in Records /\ saved'[b] = saved[b]
  BY <1>2, <1>3
<1>5. TypeOK'
  BY <1>1, <1>2 DEF TypeOK, IsView, IsState
<1>6. SavedSet \subseteq SavedSet'
  <2> SUFFICES ASSUME NEW s \in SavedSet PROVE s \in SavedSet'
    OBVIOUS
  <2>1. CASE \E b \in Records : saved[b].stmt = s
    <3>1. PICK b \in Records : saved[b].stmt = s
      BY <2>1
    <3>2. CASE b = a
      BY <3>1, <3>2 DEF SavedSet
    <3>3. CASE b # a
      <4>1. b \in Records' /\ saved'[b].stmt = s
        BY <1>2, <1>3, <3>1, <3>3
      <4> QED BY <4>1 DEF SavedSet
    <3> QED BY <3>2, <3>3
  <2>2. CASE \E old \in superseded : old.stmt = s
    BY <2>2 DEF SavedSet
  <2> QED BY <2>1, <2>2 DEF SavedSet
<1>7. Provenance'
  BY <1>1, <1>6 DEF Provenance
<1>8. ChainSound'
  BY DEF SoundWallet, ChainSound, ViewSound, TailSound, OlderSound, Silent
<1>9. RowsKnown'
  <2> SUFFICES ASSUME NEW b \in Records'
               PROVE  Shaped(b, saved'[b].stmt) /\ Known(saved'[b].stmt, saved'[b].judged)
    BY DEF RowsKnown, Shaped, Known
  <2> QED BY <1>1, <1>2, <1>4 DEF RowsKnown
<1>10. SupersededOver'
  BY DEF SupersededOver, Over, Shaped
<1>11. CallsKnown'
  <2> SUFFICES ASSUME NEW c \in calls PROVE SoundCall(c)'
    BY DEF CallsKnown
  <2>1. SoundCall(c) /\ Records \subseteq Records'
    BY <1>1, <1>3 DEF CallsKnown
  <2> QED BY <2>1 DEF SoundCall, Shaped, Known, Over
<1>12. FailedDead'
  <2> SUFFICES ASSUME NEW b \in Records', saved'[b].status = "failed",
                      saved'[b].stmt.kind \notin {Present, Settle}
               PROVE  Dead(saved'[b].stmt)
    BY DEF FailedDead, Dead
  <2>1. b # a
    BY <1>2
  <2> QED BY <1>1, <1>4, <2>1 DEF FailedDead
<1>13. FailedStaysOut'
  <2> SUFFICES ASSUME NEW b \in Records', saved'[b].status = "failed",
                      saved'[b].stmt.kind \notin {Present, Settle}
               PROVE  /\ saved'[b].stmt \notin venue.events
                      /\ saved'[b].stmt \in live.statements => Silent(venue, venue.at)
    BY DEF FailedStaysOut, Silent
  <2>1. b # a
    BY <1>2
  <2> QED BY <1>1, <1>4, <2>1 DEF OutcomesTrue, FailedStaysOut
<1>14. FinalTookEffect'
  <2> SUFFICES ASSUME NEW b \in Records', saved'[b].status = "final"
               PROVE  IF saved'[b].stmt.kind \in Payments
                      THEN saved'[b].stmt.outs \subseteq venue.state.outputs
                      ELSE Admitted(saved'[b], venue)
    BY DEF FinalTookEffect, Admitted
  <2>1. b # a
    BY <1>2
  <2> QED BY <1>1, <1>4, <2>1 DEF OutcomesTrue, FinalTookEffect
<1>15. ReservedOnce'
  <2> SUFFICES ASSUME NEW b \in Records', NEW d \in Records', b # d,
                      saved'[b].stmt.ins \cap saved'[d].stmt.ins # {}
               PROVE  \E r \in {saved'[b], saved'[d]} :
                         \/ r.status = "failed" \/ r.stmt.kind = Settle
                         \/ r.status = "final" /\ r.stmt.kind = Present
    BY DEF ReservedOnce
  <2>1. CASE b = a
    BY <1>2, <1>4, <2>1
  <2>2. CASE d = a
    BY <1>2, <1>4, <2>2
  <2>3. CASE b # a /\ d # a
    BY <1>1, <1>4, <2>3 DEF ReservedOnce
  <2> QED BY <2>1, <2>2, <2>3
<1>16. ReceiptsSignTheirRecord'
  <2> SUFFICES ASSUME NEW b \in Records' PROVE saved'[b].receipt \in {None, saved'[b].stmt}
    BY DEF ReceiptsSignTheirRecord
  <2> QED BY <1>1, <1>2, <1>4 DEF ReceiptsSignTheirRecord
<1> QED BY <1>5, <1>7, <1>8, <1>9, <1>10, <1>11, <1>12, <1>13, <1>14, <1>15, <1>16
        DEF SoundWallet, OutcomesTrue, NeverAccusesItself

\* What the saving transaction reads again keeps a call's row apart from every
\* other that may still take its notes (savePayment, saveAct).
LEMMA SavableKeeps ==
  ASSUME SoundWallet, NEW c \in CallRecords, SoundCall(c),
         c.kind \notin {"submit", "reprove"}, Savable(c),
         saved' = [saved EXCEPT ![c.alias] = Row(c.stmt, c.at, c.kind)],
         UNCHANGED <<venue, older, live, journal, sent, published, superseded, seen>>,
         calls' \subseteq calls, held'.notes \subseteq Notes, forked' = FALSE
  PROVE  SoundWallet'
<1> DEFINE row == Row(c.stmt, c.at, c.kind)
<1>1. /\ row.status = "prepared" /\ row.receipt = None /\ row.stmt = c.stmt
      /\ row.judged = c.at /\ row \in SavedRecord
  BY DEF Row, SavedRecord, CallRecords, Statuses
<1> HIDE DEF row
<1>2. /\ c.alias \in Aliases /\ c.alias \notin Records
      /\ Shaped(c.alias, row.stmt) /\ Known(row.stmt, row.judged)
  BY <1>1 DEF Savable, CallRecords, SoundCall, Records
<1>3. \A b \in Records \ {c.alias} :
         saved[b].stmt.ins \cap row.stmt.ins # {} =>
           \/ saved[b].status = "failed" \/ saved[b].stmt.kind = Settle
           \/ saved[b].status = "final" /\ saved[b].stmt.kind = Present
           \/ row.stmt.kind = Settle
  <2> SUFFICES ASSUME NEW b \in Records, NEW n \in saved[b].stmt.ins, n \in c.stmt.ins,
                      c.stmt.kind # Settle
               PROVE  \/ saved[b].status = "failed"
                      \/ saved[b].status = "final" /\ saved[b].stmt.kind = Present
    BY <1>1
  <2>1. c.kind # "settle"
    BY DEF SoundCall
  <2>2. ~Reserved(n)
    BY <2>1 DEF Savable
  <2>3. saved[b] \in SavedRecord
    BY DEF SoundWallet, TypeOK, Records
  <2> QED BY <2>2, <2>3 DEF Reserved, SavedRecord, Statuses
<1>4. /\ superseded' \subseteq
           [alias : Aliases, stmt : Statements, receipt : Statements \cup {None}]
      /\ \A old \in superseded' : /\ old.receipt \in {None, old.stmt} /\ old.stmt.kind = Spend
                                  /\ Shaped(old.alias, old.stmt) /\ Over(old.stmt)
  BY DEF SoundWallet, TypeOK, ReceiptsSignTheirRecord, Provenance, SupersededOver
<1>5. saved' = [saved EXCEPT ![c.alias] = row]
  BY DEF row
<1> QED BY <1>1, <1>2, <1>3, <1>4, <1>5, NewRowKeeps

\* A call that read earlier saves what it decided.
LEMMA SaveKeeps ==
  ASSUME SoundWallet, NEW c \in calls, Save(c)
  PROVE  SoundWallet'
<1>1. c \in CallRecords /\ SoundCall(c)
  BY DEF SoundWallet, TypeOK, CallsKnown
<1>2. /\ c.kind \notin {"submit", "reprove"} /\ Savable(c)
      /\ saved' = [saved EXCEPT ![c.alias] = Row(c.stmt, c.at, c.kind)]
      /\ UNCHANGED <<venue, older, live, journal, sent, published, superseded, seen>>
      /\ calls' \subseteq calls
  BY DEF Save, chain
<1>3. held'.notes \subseteq Notes /\ forked' = FALSE
  BY DEF Save, fence, SoundWallet, TypeOK, NeverAccusesItself
<1> QED BY <1>1, <1>2, <1>3, SavableKeeps

\* A withdrawal is signed and saved in the read's own turn.
LEMMA WithdrawKeeps ==
  ASSUME SoundWallet, NEW a \in Aliases, WithdrawDemand(a)
  PROVE  SoundWallet'
<1>1. PICK v \in {venue, older} : \E d \in v.force.demands :
        LET c == Call("withdraw", a, WithdrawalOf(v.seg, d), v.at, {})
        IN  /\ Acting(v) /\ Savable(c)
            /\ saved' = [saved EXCEPT ![a] = Row(c.stmt, c.at, c.kind)]
            /\ UNCHANGED <<chain, sent, published, superseded, seen, calls>>
  BY DEF WithdrawDemand
<1>2. PICK d \in v.force.demands :
        LET c == Call("withdraw", a, WithdrawalOf(v.seg, d), v.at, {})
        IN  /\ Acting(v) /\ Savable(c)
            /\ saved' = [saved EXCEPT ![a] = Row(c.stmt, c.at, c.kind)]
            /\ UNCHANGED <<chain, sent, published, superseded, seen, calls>>
  BY <1>1
<1> DEFINE s == WithdrawalOf(v.seg, d)
<1>3. v.seg \in Nat /\ d \in Plain /\ d \in v.force.effective
  <2>1. IsView(v) /\ ViewSound(v)
    BY ViewFacts
  <2> QED BY <2>1 DEF IsView, IsState, ViewSound, StateSound
<1>4. s \in Statements
  <2>1. {} \in SUBSET Notes /\ 0 \in Amounts /\ 0 \in Nat
    BY DEF Amounts
  <2> QED BY <1>3, <2>1, MadeStatements
<1>5. s.seg = v.seg /\ s.ended = {d} /\ s.ins = {} /\ s.kind = Withdraw /\ s.outs = {}
  BY DEF WithdrawalOf, Statement
<1> HIDE DEF s
<1>6. Shaped(a, s)
  BY <1>5 DEF Shaped, Spend, Burn, Issue, Present, Withdraw, Settle
<1> DEFINE c == Call("withdraw", a, s, v.at, {})
<1>7. c \in CallRecords /\ SoundCall(c)
  <2>1. "withdraw" \in Ways /\ (s.kind # Settle /\ "withdraw" # "settle")
    BY <1>5 DEF Ways, Withdraw, Settle
  <2>2. s.ended \subseteq v.force.effective
    BY <1>3, <1>5
  <2> QED BY <1>4, <1>5, <1>6, <2>1, <2>2, CallSound
<1>8. c.kind = "withdraw" /\ c.alias = a
  BY DEF Call
<1>9. /\ Reading(v) /\ Savable(c)
      /\ saved' = [saved EXCEPT ![a] = Row(c.stmt, c.at, c.kind)]
      /\ UNCHANGED <<venue, older, live, journal, sent, published, superseded, seen, calls>>
  BY <1>2 DEF Acting, s, chain
<1> HIDE DEF c
<1>10. saved' = [saved EXCEPT ![c.alias] = Row(c.stmt, c.at, c.kind)] /\ calls' \subseteq calls
  BY <1>8, <1>9
<1>11. held'.notes \subseteq Notes /\ forked' = FALSE
  BY <1>9, ReadKeeps
<1>12. c.kind \notin {"submit", "reprove"}
  BY <1>8
<1> QED BY <1>7, <1>9, <1>10, <1>11, <1>12, SavableKeeps

\* A reproof replaces the row it was made from, which is kept: its segment is
\* dead, so that no history will hold it.
LEMMA SaveReproofKeeps ==
  ASSUME SoundWallet, NEW c \in calls, SaveReproof(c)
  PROVE  SoundWallet'
<1> DEFINE r == saved[c.alias]
           row == Row(c.stmt, c.at, r.way)
           gone == [alias |-> c.alias, stmt |-> r.stmt, receipt |-> r.receipt]
<1>1. /\ c.kind = "reprove" /\ r.stmt \in c.basis /\ r.status = "prepared"
      /\ superseded' = superseded \cup {gone}
      /\ saved' = [saved EXCEPT ![c.alias] = row] /\ calls' \subseteq calls
      /\ UNCHANGED <<venue, older, live, journal, sent, published, seen>>
      /\ held' = held /\ forked' = forked
  BY DEF SaveReproof, chain, fence
<1>2. c \in CallRecords /\ SoundCall(c)
  BY DEF SoundWallet, TypeOK, CallsKnown
<1>3. /\ c.alias \in Records /\ c.alias \in Aliases /\ r \in SavedRecord
      /\ c.stmt \in Statements /\ c.at \in Nat
  BY <1>1, <1>2 DEF SoundCall, SoundWallet, TypeOK, Records, CallRecords
<1>4. /\ c.stmt.kind = Spend /\ Shaped(c.alias, c.stmt) /\ Known(c.stmt, c.at)
      /\ Shaped(c.alias, r.stmt) /\ Over(r.stmt) /\ r.stmt.kind = Spend
      /\ r.stmt.ins = c.stmt.ins
  BY <1>1, <1>2 DEF SoundCall
<1>5. /\ row.status = "prepared" /\ row.receipt = None /\ row.stmt = c.stmt
      /\ row.judged = c.at /\ row \in SavedRecord
  BY <1>3 DEF Row, SavedRecord, Statuses
<1>6. /\ gone.alias = c.alias /\ gone.stmt = r.stmt /\ gone.receipt = r.receipt
      /\ gone \in [alias : Aliases, stmt : Statements, receipt : Statements \cup {None}]
      /\ r.receipt \in {None, r.stmt}
  BY <1>3 DEF SavedRecord, SoundWallet, ReceiptsSignTheirRecord
<1>7. held'.notes \subseteq Notes /\ forked' = FALSE
  BY <1>1 DEF SoundWallet, TypeOK, NeverAccusesItself
<1> HIDE DEF row, gone
<1>8. /\ superseded \subseteq superseded'
      /\ superseded' \subseteq
           [alias : Aliases, stmt : Statements, receipt : Statements \cup {None}]
      /\ \A old \in superseded' : /\ old.receipt \in {None, old.stmt} /\ old.stmt.kind = Spend
                                  /\ Shaped(old.alias, old.stmt) /\ Over(old.stmt)
      /\ \E old \in superseded' : old.stmt = saved[c.alias].stmt
  BY <1>1, <1>4, <1>6
  DEF SoundWallet, TypeOK, ReceiptsSignTheirRecord, Provenance, SupersededOver
<1>9. \A b \in Records \ {c.alias} :
         saved[b].stmt.ins \cap row.stmt.ins # {} =>
           \/ saved[b].status = "failed" \/ saved[b].stmt.kind = Settle
           \/ saved[b].status = "final" /\ saved[b].stmt.kind = Present
           \/ row.stmt.kind = Settle
  BY <1>1, <1>3, <1>4, <1>5 DEF SoundWallet, ReservedOnce, Spend, Settle
<1> QED BY <1>1, <1>3, <1>4, <1>5, <1>7, <1>8, <1>9, NewRowKeeps

-----------------------------------------------------------------------------
(* Deciding, submitting and publishing revise rows and replace none.         *)

\* A statement no view will hold, but in a tail that silence bars.
StaysOut(s) ==
  /\ Dead(s) /\ s \notin venue.events
  /\ s \in live.statements => Silent(venue, venue.at)

TookEffect(r) ==
  IF r.stmt.kind \in Payments THEN r.stmt.outs \subseteq venue.state.outputs
  ELSE Admitted(r, venue)

\* A status that is true of a record, and takes nothing back that others rely on.
SoundStatus(r, status) ==
  /\ status = "failed" /\ r.stmt.kind \notin {Present, Settle} => StaysOut(r.stmt)
  /\ status = "final" => TookEffect(r)
  /\ r.status = "final" => status = "final"
  /\ r.status = "failed" =>
       \/ status = "failed"
       \/ status = "final" /\ r.stmt.kind \notin {Spend, Burn}

\* A record's own status is one.
LEMMA OwnStatus ==
  ASSUME SoundWallet, NEW a \in Records
  PROVE  SoundStatus(saved[a], saved[a].status)
BY DEF SoundWallet, FailedDead, OutcomesTrue, FailedStaysOut, FinalTookEffect, SoundStatus,
       StaysOut, TookEffect

\* Rows revised in their status and receipt alone.
LEMMA RevisedKeeps ==
  ASSUME SoundWallet,
         saved' \in [Aliases -> SavedRecord \cup {None}], Records' = Records,
         \A a \in Records :
            /\ saved'[a].stmt = saved[a].stmt /\ saved'[a].judged = saved[a].judged
            /\ saved'[a].receipt \in {None, saved[a].stmt}
            /\ SoundStatus(saved[a], saved'[a].status),
         superseded' \subseteq
           [alias : Aliases, stmt : Statements, receipt : Statements \cup {None}],
         \A old \in superseded' :
            /\ old.receipt \in {None, old.stmt}
            /\ \E was \in superseded : was.alias = old.alias /\ was.stmt = old.stmt,
         \A was \in superseded : \E old \in superseded' : old.stmt = was.stmt,
         UNCHANGED <<venue, older, live, journal>>,
         sent' \subseteq SavedSet, published' \subseteq SavedSet, seen' \in Nat,
         calls' \subseteq CallRecords, \A c \in calls' : SoundCall(c),
         held'.notes \subseteq Notes, forked' = FALSE
  PROVE  SoundWallet'
<1>1. /\ TypeOK /\ RowsKnown /\ ReservedOnce /\ Provenance /\ SupersededOver
      /\ SavedSet \subseteq Statements
  BY SavedFacts DEF SoundWallet
<1>2. TypeOK'
  BY <1>1 DEF TypeOK, IsView, IsState
<1>3. ChainSound'
  BY DEF SoundWallet, ChainSound, ViewSound, TailSound, OlderSound, Silent
<1>4. SavedSet \subseteq SavedSet'
  <2> SUFFICES ASSUME NEW s \in SavedSet PROVE s \in SavedSet'
    OBVIOUS
  <2>1. CASE \E a \in Records : saved[a].stmt = s
    BY <2>1 DEF SavedSet
  <2>2. CASE \E was \in superseded : was.stmt = s
    BY <2>2 DEF SavedSet
  <2> QED BY <2>1, <2>2 DEF SavedSet
<1>5. Provenance'
  BY <1>1, <1>4 DEF Provenance
<1>6. RowsKnown'
  <2> SUFFICES ASSUME NEW a \in Records
               PROVE  Shaped(a, saved'[a].stmt) /\ Known(saved'[a].stmt, saved'[a].judged)
    BY DEF RowsKnown, Shaped, Known
  <2> QED BY <1>1 DEF RowsKnown
<1>7. SupersededOver'
  BY <1>1 DEF SupersededOver, Over, Shaped
<1>8. CallsKnown'
  BY DEF CallsKnown, SoundCall, Shaped, Known, Over
<1>9. FailedDead' /\ FailedStaysOut'
  <2> SUFFICES ASSUME NEW a \in Records, saved'[a].status = "failed",
                      saved'[a].stmt.kind \notin {Present, Settle}
               PROVE  StaysOut(saved'[a].stmt)
    BY DEF FailedDead, FailedStaysOut, StaysOut, Dead, Silent
  <2> QED BY DEF SoundStatus
<1>10. FinalTookEffect'
  <2> SUFFICES ASSUME NEW a \in Records, saved'[a].status = "final"
               PROVE  TookEffect(saved'[a])
    BY DEF FinalTookEffect, TookEffect, Admitted
  <2> QED BY DEF SoundStatus, TookEffect, Admitted
<1>11. ReservedOnce'
  <2> SUFFICES ASSUME NEW a \in Records, NEW b \in Records, a # b,
                      saved[a].stmt.ins \cap saved[b].stmt.ins # {}
               PROVE  \E d \in {a, b} : \/ saved'[d].status = "failed"
                                        \/ saved[d].stmt.kind = Settle
                                        \/ /\ saved'[d].status = "final"
                                           /\ saved[d].stmt.kind = Present
    BY DEF ReservedOnce
  <2>1. PICK d \in {a, b} : \/ saved[d].status = "failed" \/ saved[d].stmt.kind = Settle
                            \/ saved[d].status = "final" /\ saved[d].stmt.kind = Present
    BY <1>1 DEF ReservedOnce
  <2>2. /\ SoundStatus(saved[d], saved'[d].status) /\ Shaped(d, saved[d].stmt)
        /\ saved[d].stmt.ins # {} /\ saved[d].stmt.kind \in 1..6
    <3>1. saved[d] \in SavedRecord
      BY <1>1 DEF TypeOK, Records
    <3> QED BY <1>1, <3>1 DEF RowsKnown, SavedRecord, Statements
  <2>3. saved[d].stmt.kind \in {Spend, Burn, Present, Settle}
    BY <2>2 DEF Shaped, Issue, Spend, Burn, Present, Withdraw, Settle
  <2> QED BY <2>1, <2>2, <2>3 DEF SoundStatus
<1>12. ReceiptsSignTheirRecord'
  BY DEF ReceiptsSignTheirRecord
<1> QED BY <1>2, <1>3, <1>5, <1>6, <1>7, <1>8, <1>9, <1>10, <1>11, <1>12
        DEF SoundWallet, OutcomesTrue, NeverAccusesItself

\* The rows as they are, where a step leaves them alone.
LEMMA RowsAsTheyAre ==
  ASSUME SoundWallet
  PROVE  /\ saved \in [Aliases -> SavedRecord \cup {None}]
         /\ \A a \in Records : /\ saved[a].receipt \in {None, saved[a].stmt}
                               /\ SoundStatus(saved[a], saved[a].status)
         /\ superseded \subseteq
              [alias : Aliases, stmt : Statements, receipt : Statements \cup {None}]
         /\ \A old \in superseded : old.receipt \in {None, old.stmt}
         /\ sent \subseteq SavedSet /\ published \subseteq SavedSet /\ seen \in Nat
         /\ calls \subseteq CallRecords /\ \A c \in calls : SoundCall(c)
         /\ held.notes \subseteq Notes /\ forked = FALSE
BY OwnStatus
DEF SoundWallet, TypeOK, ReceiptsSignTheirRecord, Provenance, CallsKnown, NeverAccusesItself

\* What is submitted is a saved statement, exact.
LEMMA SubmitKeeps ==
  ASSUME SoundWallet, NEW a \in Aliases, Submit(a)
  PROVE  SoundWallet'
<1> DEFINE c == Call("submit", a, saved[a].stmt, 0, {})
<1>1. /\ a \in Records /\ sent' = sent \cup {saved[a].stmt} /\ calls' = calls \cup {c}
      /\ UNCHANGED <<venue, older, live, journal, published, saved, superseded, seen,
                     held, forked>>
  BY DEF Submit, Records, chain, rows, fence
<1>2. saved[a].stmt \in Statements /\ saved[a].stmt \in SavedSet
  BY <1>1, RowsAsTheyAre DEF Records, SavedRecord, SavedSet
<1>3. c \in CallRecords /\ SoundCall(c)
  <2>1. /\ c.kind = "submit" /\ c.alias = a
        /\ c = [kind |-> "submit", alias |-> a, stmt |-> saved[a].stmt, at |-> 0, basis |-> {}]
    BY DEF Call
  <2> HIDE DEF c
  <2> QED BY <1>1, <1>2, <2>1 DEF CallRecords, SoundCall
<1> HIDE DEF c
<1>4. Records' = Records
  BY <1>1 DEF Records
<1> QED BY <1>1, <1>2, <1>3, <1>4, RowsAsTheyAre, RevisedKeeps

\* A call that ends with nothing.
LEMMA AbandonKeeps ==
  ASSUME SoundWallet, NEW c \in calls, Abandon(c)
  PROVE  SoundWallet'
<1>1. /\ calls' \subseteq calls
      /\ UNCHANGED <<venue, older, live, journal, sent, published, saved, superseded, seen,
                     held, forked>>
  BY DEF Abandon, chain, rows, fence
<1>2. Records' = Records
  BY <1>1 DEF Records
<1> QED BY <1>1, <1>2, RowsAsTheyAre, RevisedKeeps

\* What is published is a saved act, exact.
LEMMA PublishKeeps ==
  ASSUME SoundWallet, NEW a \in Aliases, Publish(a)
  PROVE  SoundWallet'
<1>1. /\ a \in Records /\ published' = published \cup {saved[a].stmt}
      /\ UNCHANGED <<venue, older, live, journal, sent, saved, superseded, seen,
                     held, forked, calls>>
  BY DEF Publish, Records, chain, rows, fence
<1>2. saved[a].stmt \in SavedSet
  BY <1>1 DEF SavedSet
<1>3. Records' = Records
  BY <1>1 DEF Records
<1> QED BY <1>1, <1>2, <1>3, RowsAsTheyAre, RevisedKeeps

\* An answer's receipt goes to the rows of the statement it signs, whatever
\* the alias names by now.
LEMMA KeepReceiptKeeps ==
  ASSUME SoundWallet, NEW c \in calls, KeepReceipt(c)
  PROVE  SoundWallet'
<1>1. /\ c.kind = "submit" /\ saved' = KeptReceipt(c) /\ calls' \subseteq calls
      /\ superseded' = {IF old.stmt = c.stmt /\ old.receipt = None
                         THEN [old EXCEPT !.receipt = c.stmt] ELSE old : old \in superseded}
      /\ UNCHANGED <<venue, older, live, journal, sent, published, seen, held, forked>>
  BY DEF KeepReceipt, chain, fence
<1>2. /\ c.alias \in Records /\ c.alias \in Aliases /\ c.stmt \in Statements
  BY <1>1, RowsAsTheyAre DEF SoundCall, CallRecords
<1>3. saved[c.alias] \in SavedRecord
  BY <1>2, RowsAsTheyAre DEF Records
<1> DEFINE row == [saved[c.alias] EXCEPT !.receipt = IF @ = None THEN c.stmt ELSE @]
<1>4. /\ row \in SavedRecord /\ row.stmt = saved[c.alias].stmt
      /\ row.judged = saved[c.alias].judged /\ row.status = saved[c.alias].status
      /\ row.receipt \in {saved[c.alias].receipt, c.stmt}
  BY <1>2, <1>3 DEF SavedRecord
<1>5. saved' = saved \/ (saved[c.alias].stmt = c.stmt /\ saved' = [saved EXCEPT ![c.alias] = row])
  BY <1>1 DEF KeptReceipt
<1> HIDE DEF row
<1>6. /\ saved' \in [Aliases -> SavedRecord \cup {None}] /\ Records' = Records
      /\ \A a \in Records :
            /\ saved'[a].stmt = saved[a].stmt /\ saved'[a].judged = saved[a].judged
            /\ saved'[a].receipt \in {None, saved[a].stmt}
            /\ saved'[a].status = saved[a].status
  <2>1. CASE saved' = saved
    BY <2>1, RowsAsTheyAre DEF Records
  <2>2. CASE saved[c.alias].stmt = c.stmt /\ saved' = [saved EXCEPT ![c.alias] = row]
    <3>1. saved' \in [Aliases -> SavedRecord \cup {None}]
      BY <1>4, <2>2, RowsAsTheyAre
    <3>2. saved'[c.alias] = row /\ \A a \in Aliases \ {c.alias} : saved'[a] = saved[a]
      BY <1>2, <2>2, RowsAsTheyAre
    <3>3. row # None
      BY <1>4, WalletAssumption
    <3>4. Records' = Records
      BY <1>2, <3>2, <3>3 DEF Records
    <3>5. row.receipt \in {None, saved[c.alias].stmt}
      BY <1>2, <1>4, <2>2, RowsAsTheyAre
    <3>6. Records \subseteq Aliases
      BY DEF Records
    <3> QED BY <1>4, <3>1, <3>2, <3>4, <3>5, <3>6, RowsAsTheyAre
  <2> QED BY <1>5, <2>1, <2>2
<1>7. \A a \in Records : SoundStatus(saved[a], saved'[a].status)
  BY <1>6, RowsAsTheyAre
<1> DEFINE kept(old) == IF old.stmt = c.stmt /\ old.receipt = None
                        THEN [old EXCEPT !.receipt = c.stmt] ELSE old
<1>8. ASSUME NEW old \in superseded
      PROVE  /\ kept(old) \in [alias : Aliases, stmt : Statements, receipt : Statements \cup {None}]
             /\ kept(old).alias = old.alias /\ kept(old).stmt = old.stmt
             /\ kept(old).receipt \in {None, old.stmt}
  BY <1>2, RowsAsTheyAre
<1>9. superseded' = {kept(old) : old \in superseded}
  BY <1>1
<1> HIDE DEF kept
<1>10. /\ superseded' \subseteq
           [alias : Aliases, stmt : Statements, receipt : Statements \cup {None}]
       /\ \A old \in superseded' :
            /\ old.receipt \in {None, old.stmt}
            /\ \E was \in superseded : was.alias = old.alias /\ was.stmt = old.stmt
       /\ \A was \in superseded : \E old \in superseded' : old.stmt = was.stmt
  BY <1>8, <1>9
<1> QED BY <1>1, <1>6, <1>7, <1>10, RowsAsTheyAre, RevisedKeeps

\* What a view of the record's age or later refuses for its segment or its
\* effects, no later view takes: only a tail that silence bars may hold it.
LEMMA RefusedForGood ==
  ASSUME SoundWallet, NEW v, v \in {venue, older}, NEW s \in Statements, NEW at \in Nat,
         Known(s, at), at <= v.at, s \notin v.events,
         s.seg # v.seg \/ ~Fits(s, v.force)
  PROVE  StaysOut(s)
<1>1. /\ IsView(v) /\ v.seg <= venue.seg /\ Grows(v.force, venue.force) /\ venue.seg \in Nat
      /\ \A t \in venue.events \ v.events : t.seg = v.seg /\ Fits(t, v.force)
      /\ ViewSound(venue) /\ TailSound
  BY ViewFacts DEF SoundWallet, ChainSound, TypeOK, IsView
<1>2. s.seg <= v.seg /\ s.seg \in Nat /\ v.seg \in Nat
  BY <1>1 DEF Known, Statements, IsView
<1>3. s \notin venue.events
  BY <1>1
<1>4. Dead(s)
  <2>1. CASE s.seg # v.seg
    BY <1>1, <1>2, <2>1 DEF Dead
  <2>2. CASE ~Fits(s, v.force)
    BY <1>1, <2>2, GrowsFacts DEF Dead
  <2> QED BY <2>1, <2>2
<1>5. ASSUME s \in live.statements PROVE Silent(venue, venue.at)
  <2>1. s.seg = venue.seg /\ Fits(s, venue.state)
    BY <1>1, <1>3, <1>5 DEF TailSound
  <2>2. ~Fits(s, venue.force)
    BY <1>4, <2>1 DEF Dead
  <2> QED BY <1>1, <2>1, <2>2 DEF ViewSound
<1> QED BY <1>3, <1>4, <1>5 DEF StaysOut

\* A record that a view admits took effect in the witnessed one.
LEMMA AdmittedStays ==
  ASSUME SoundWallet, NEW v, v \in {venue, older}, NEW r, Admitted(r, v)
  PROVE  Admitted(r, venue)
BY ViewFacts DEF Admitted, Grows

\* A demand that a final act ended stood and stands no more, and no other act
\* on it can take effect.
LEMMA EndedForGood ==
  ASSUME SoundWallet, NEW v, v \in {venue, older}, NEW d, NEW kinds,
         kinds \subseteq {Withdraw, Settle}, EndedFinal(d, kinds, v)
  PROVE  \E b \in Records : /\ saved[b].stmt.kind \in kinds /\ d \in saved[b].stmt.ended
                            /\ Admitted(saved[b], venue) /\ d \in Gone(venue.force)
<1>1. PICK b \in Records : /\ saved[b].stmt.kind \in kinds /\ d \in saved[b].stmt.ended
                           /\ Resolution(saved[b], v, FALSE) = "final"
  BY DEF EndedFinal
<1>2. saved[b].stmt.kind \notin Payments
  BY <1>1 DEF Payments, Spend, Withdraw, Settle
<1>3. Admitted(saved[b], venue)
  <2>1. CASE saved[b].status = "final"
    BY <1>2, <2>1 DEF SoundWallet, OutcomesTrue, FinalTookEffect
  <2>2. CASE saved[b].status # "final"
    <3>1. Admitted(saved[b], v)
      BY <1>1, <1>2, <2>2 DEF Resolution, Acted
    <3> QED BY <3>1, AdmittedStays
  <2> QED BY <2>1, <2>2
<1>4. d \in Gone(venue.force)
  <2>1. ViewSound(venue)
    BY DEF SoundWallet, ChainSound
  <2> QED BY <1>1, <1>3, <2>1, GrowsFacts DEF Admitted, ViewSound, StateSound, InEffect
<1> QED BY <1>1, <1>3, <1>4

\* A withdrawal of a demand that a final settlement ended stays out.
LEMMA WithdrawnTooLate ==
  ASSUME SoundWallet, NEW a \in Records, NEW b \in Records, NEW d,
         saved[a].stmt.kind = Withdraw, saved[b].stmt.kind = Settle,
         d \in saved[a].stmt.ended, d \in saved[b].stmt.ended,
         Admitted(saved[b], venue), d \in Gone(venue.force)
  PROVE  StaysOut(saved[a].stmt)
<1> DEFINE s == saved[a].stmt
           t == saved[b].stmt
<1>1. ViewSound(venue) /\ TailSound /\ s # t
  BY DEF SoundWallet, ChainSound, Withdraw, Settle
<1>2. t \in venue.events \/ t \in venue.force.effective
  BY DEF Admitted
<1>3. Dead(s)
  BY DEF Dead, Fits
<1>4. s \notin venue.events
  BY <1>1, <1>2 DEF ViewSound, EndsOnce
<1>5. ASSUME s \in live.statements, ~Silent(venue, venue.at) PROVE FALSE
  <2>1. t \in venue.events \/ t \in live.effective
    BY <1>1, <1>2, <1>5 DEF ViewSound, TailSound, Grows
  <2> QED BY <1>1, <1>5, <2>1 DEF TailSound, EndsOnce
<1> QED BY <1>3, <1>4, <1>5 DEF StaysOut

\* What a saved record says of itself.
LEMMA RowFacts ==
  ASSUME SoundWallet, NEW a \in Records
  PROVE  /\ saved[a] \in SavedRecord /\ saved[a].stmt \in Statements
         /\ saved[a].status \in Statuses /\ saved[a].judged \in Nat /\ a \in Aliases
         /\ Shaped(a, saved[a].stmt) /\ Known(saved[a].stmt, saved[a].judged)
         /\ SoundStatus(saved[a], saved[a].status)
BY OwnStatus DEF SoundWallet, TypeOK, RowsKnown, Records, SavedRecord

\* A payment is failed only where one of its notes or outputs is taken by
\* another statement, and a failed one never lands (paid): its alias's own
\* output comes with no other statement that can.
LEMMA PaidSound ==
  ASSUME SoundWallet, NEW v, v \in {venue, older}, NEW a \in Records,
         saved[a].stmt.kind = Spend, saved[a].judged <= v.at \/ Paid(saved[a], v) # "failed",
         saved[a].status # "final"
  PROVE  SoundStatus(saved[a], Paid(saved[a], v)) /\ Paid(saved[a], v) \in Statuses
<1> DEFINE s == saved[a].stmt
<1>1. /\ s \in Statements /\ saved[a].status \in Statuses /\ saved[a].judged \in Nat
      /\ Shaped(a, s) /\ Known(s, saved[a].judged) /\ a \in Aliases
      /\ SoundStatus(saved[a], saved[a].status)
  BY RowFacts
<1>2. /\ ViewSound(v) /\ Grows(v.state, venue.state) /\ v.events \subseteq venue.events
      /\ v.events \subseteq SavedSet
  BY ViewFacts
<1>3. CASE s.outs \subseteq v.state.outputs
  <2>1. Paid(saved[a], v) = "final"
    BY <1>3 DEF Paid
  <2>2. TookEffect(saved[a])
    BY <1>2, <1>3 DEF TookEffect, Payments, Grows
  <2>3. saved[a].status # "failed"
    <3> SUFFICES ASSUME saved[a].status = "failed" PROVE FALSE
      OBVIOUS
    <3>1. s \notin venue.events
      BY <1>1 DEF SoundStatus, StaysOut, Spend, Present, Settle
    <3>2. Fresh[a] \in v.state.outputs
      BY <1>1, <1>3 DEF Shaped
    <3>3. PICK t \in v.events : Fresh[a] \in t.outs
      BY <1>1, <1>2, <3>2 DEF ViewSound, ComesFrom
    <3>4. saved[a].stmt = t \/ \E old \in superseded : old.stmt = t
      BY <1>1, <1>2, <3>3, SavedFacts DEF SoundWallet
    <3> QED BY <1>2, <3>1, <3>3, <3>4 DEF SoundWallet, SupersededOver, Over
  <2> QED BY <2>1, <2>2, <2>3 DEF SoundStatus, Statuses
<1>4. CASE ~(s.outs \subseteq v.state.outputs) /\
           (s.outs \cap v.force.outputs # {} \/ SpentOf(saved[a], v))
  <2>1. Paid(saved[a], v) = "failed"
    BY <1>4 DEF Paid
  <2>2. s \notin v.events
    BY <1>2, <1>4 DEF ViewSound, InEffect
  <2>3. ~Fits(s, v.force)
    BY <1>4 DEF Fits, SpentOf, Nullifiers
  <2>4. StaysOut(s)
    BY <1>1, <2>1, <2>2, <2>3, RefusedForGood
  <2> QED BY <2>1, <2>4 DEF SoundStatus, Statuses
<1>5. CASE ~(s.outs \subseteq v.state.outputs) /\
           ~(s.outs \cap v.force.outputs # {} \/ SpentOf(saved[a], v))
  BY <1>1, <1>5 DEF Paid
<1> QED BY <1>3, <1>4, <1>5

\* An act is failed only where its segment, its demand, its notes or its
\* output are gone for good (resolutions).
LEMMA ActedSound ==
  ASSUME SoundWallet, NEW v, v \in {venue, older}, NEW a \in Records,
         saved[a].stmt.kind \notin Payments, saved[a].status # "final"
  PROVE  LET status == Acted(saved[a], v, Ended(saved[a], v))
         IN  SoundStatus(saved[a], status) /\ status \in Statuses
<1> DEFINE r == saved[a]
           s == saved[a].stmt
           ended == Ended(saved[a], v)
           status == Acted(saved[a], v, Ended(saved[a], v))
<1>1. /\ s \in Statements /\ r.status \in Statuses /\ r.judged \in Nat
      /\ Shaped(a, s) /\ Known(s, r.judged) /\ a \in Aliases
      /\ SoundStatus(r, r.status)
  BY RowFacts
<1>2. IsView(v) /\ ViewSound(v) /\ v.at \in Nat /\ v.events \subseteq venue.events
  BY ViewFacts DEF IsView
<1>3. CASE Admitted(r, v)
  <2>1. status = "final"
    BY <1>3 DEF Acted
  <2>2. TookEffect(r)
    BY <1>3, AdmittedStays DEF TookEffect
  <2>3. r.status = "failed" => s.kind \notin {Spend, Burn}
    <3> SUFFICES ASSUME r.status = "failed", s.kind = Burn PROVE FALSE
      BY DEF Payments
    <3>1. s \notin venue.events
      BY <1>1 DEF SoundStatus, StaysOut, Burn, Present, Settle
    <3>2. s \in v.events
      BY <1>3 DEF Admitted, Burn, Present
    <3> QED BY <1>2, <3>1, <3>2
  <2> QED BY <2>1, <2>2, <2>3 DEF SoundStatus, Statuses
<1>4. CASE ~Admitted(r, v) /\ (r.status = "failed" \/ Stale(r, v))
  BY <1>1, <1>4 DEF Acted
<1>5. CASE ~Admitted(r, v) /\ ~(r.status = "failed" \/ Stale(r, v)) /\ s.kind = Present /\ ended
  <2>1. status = "final"
    BY <1>5 DEF Acted
  <2>2. EndedFinal(s, {Withdraw, Settle}, v)
    BY <1>5 DEF Ended, Present, Withdraw
  <2>3. s \in Gone(venue.force)
    <3>1. {Withdraw, Settle} \subseteq {Withdraw, Settle}
      OBVIOUS
    <3> QED BY <2>2, <3>1, EndedForGood
  <2>4. TookEffect(r)
    BY <1>5, <2>3 DEF TookEffect, Admitted, Gone, Payments, Present, Spend
  <2> QED BY <1>5, <2>1, <2>4 DEF SoundStatus, Statuses
<1>6. CASE /\ ~Admitted(r, v) /\ ~(r.status = "failed" \/ Stale(r, v))
           /\ ~(s.kind = Present /\ ended) /\ ActFails(r, v, ended)
  <2>1. status = "failed"
    BY <1>6 DEF Acted
  <2>2. s \notin v.events /\ r.judged <= v.at
    BY <1>1, <1>2, <1>6 DEF Admitted, Stale
  <2> SUFFICES ASSUME s.kind \notin {Present, Settle} PROVE StaysOut(s)
    BY <1>6, <2>1 DEF SoundStatus, Statuses
  <2>3. CASE s.seg # v.seg \/ ~Fits(s, v.force)
    BY <1>1, <2>2, <2>3, RefusedForGood
  <2>4. CASE s.kind = Issue /\ s.outs \cap v.state.outputs # {}
    <3>1. ~Fits(s, v.force)
      BY <1>2, <2>4 DEF Fits, ViewSound, Grows
    <3> QED BY <2>3, <3>1
  <2>5. CASE s.kind = Burn /\ SpentOf(r, v)
    <3>1. ~Fits(s, v.force)
      BY <2>5 DEF Fits, SpentOf, Nullifiers
    <3> QED BY <2>3, <3>1
  <2>6. CASE s.kind = Withdraw /\ ~(s.ended \subseteq v.force.demands)
    <3>1. s.ended \subseteq v.force.effective
      BY <1>1, <2>2 DEF Known
    <3>2. ~Fits(s, v.force)
      BY <2>6, <3>1 DEF Fits, Gone
    <3> QED BY <2>3, <3>2
  <2>7. CASE s.kind = Withdraw /\ ended
    <3>1. PICK d \in s.ended : EndedFinal(d, {Settle}, v)
      BY <2>7 DEF Ended, Present, Withdraw
    <3>2. PICK b \in Records : /\ saved[b].stmt.kind = Settle /\ d \in saved[b].stmt.ended
                               /\ Admitted(saved[b], venue) /\ d \in Gone(venue.force)
      <4>1. {Settle} \subseteq {Withdraw, Settle}
        OBVIOUS
      <4>2. \E b \in Records : /\ saved[b].stmt.kind \in {Settle} /\ d \in saved[b].stmt.ended
                               /\ Admitted(saved[b], venue) /\ d \in Gone(venue.force)
        BY <3>1, <4>1, EndedForGood
      <4> QED BY <4>2
    <3> QED BY <2>7, <3>2, WithdrawnTooLate
  <2> QED BY <1>6, <2>3, <2>4, <2>5, <2>6, <2>7 DEF ActFails
<1>7. CASE /\ ~Admitted(r, v) /\ ~(r.status = "failed" \/ Stale(r, v))
           /\ ~(s.kind = Present /\ ended) /\ ~ActFails(r, v, ended)
  BY <1>1, <1>7 DEF Acted
<1> QED BY <1>3, <1>4, <1>5, <1>6, <1>7

\* Every status a read gives is true of its record (resolutions).
LEMMA ResolutionSound ==
  ASSUME SoundWallet, NEW v, v \in {venue, older}, NEW a \in Records
  PROVE  LET status == Resolution(saved[a], v, Ended(saved[a], v))
         IN  SoundStatus(saved[a], status) /\ status \in Statuses
<1>1. /\ saved[a].status \in Statuses /\ SoundStatus(saved[a], saved[a].status)
      /\ saved[a].judged \in Nat /\ v.at \in Nat
  BY RowFacts, ViewFacts DEF IsView
<1>2. CASE saved[a].status = "final"
  BY <1>1, <1>2 DEF Resolution
<1>3. CASE saved[a].status # "final" /\ saved[a].stmt.kind \notin Payments
  BY <1>3, ActedSound DEF Resolution
<1>4. CASE /\ saved[a].status # "final" /\ saved[a].stmt.kind \in Payments
           /\ Stale(saved[a], v) /\ Paid(saved[a], v) = "failed"
  BY <1>1, <1>4 DEF Resolution
<1>5. CASE /\ saved[a].status # "final" /\ saved[a].stmt.kind \in Payments
           /\ ~(Stale(saved[a], v) /\ Paid(saved[a], v) = "failed")
  <2>1. /\ saved[a].stmt.kind = Spend
        /\ saved[a].judged <= v.at \/ Paid(saved[a], v) # "failed"
    BY <1>1, <1>5 DEF Payments, Stale
  <2>2. SoundStatus(saved[a], Paid(saved[a], v)) /\ Paid(saved[a], v) \in Statuses
    BY <1>5, <2>1, PaidSound
  <2> QED BY <1>5, <2>2 DEF Resolution
<1> QED BY <1>2, <1>3, <1>4, <1>5

\* A sync gives every row its status at once.
LEMMA SyncKeeps ==
  ASSUME SoundWallet, Sync
  PROVE  SoundWallet'
<1>1. PICK v \in {venue, older} :
        /\ Reading(v) /\ saved' = [a \in Aliases |-> Decide(a, v)]
        /\ seen' = (IF v.at > seen THEN v.at ELSE seen)
        /\ UNCHANGED <<venue, older, live, journal, sent, published, superseded, calls>>
  BY DEF Sync, chain
<1>2. held'.notes \subseteq Notes /\ forked' = FALSE
  BY <1>1, ReadKeeps
<1>3. seen' \in Nat
  BY <1>1, RowsAsTheyAre, ViewFacts DEF IsView
<1> DEFINE new(a) == Resolution(saved[a], v, Ended(saved[a], v))
<1>4. ASSUME NEW a \in Records
      PROVE  /\ a \in Aliases /\ saved'[a] = [saved[a] EXCEPT !.status = new(a)]
             /\ new(a) \in Statuses /\ SoundStatus(saved[a], new(a))
  <2>1. saved'[a] = Decide(a, v) /\ a \in Aliases
    BY <1>1 DEF Records
  <2>2. Decide(a, v) = [saved[a] EXCEPT !.status = new(a)]
    BY DEF Decide, Records
  <2> QED BY <2>1, <2>2, ResolutionSound
<1>5. \A a \in Aliases \ Records : saved'[a] = None
  BY <1>1 DEF Decide, Records
<1> HIDE DEF new
<1>6. ASSUME NEW a \in Records
      PROVE  /\ saved'[a] \in SavedRecord /\ saved'[a] # None
             /\ saved'[a].stmt = saved[a].stmt /\ saved'[a].judged = saved[a].judged
             /\ saved'[a].receipt \in {None, saved[a].stmt}
             /\ SoundStatus(saved[a], saved'[a].status)
  <2>1. saved[a] \in SavedRecord /\ saved[a].receipt \in {None, saved[a].stmt}
    BY RowFacts, RowsAsTheyAre
  <2>2. saved'[a] \in SavedRecord
    BY <1>4, <2>1 DEF SavedRecord
  <2>3. saved'[a] # None
    BY <2>2, WalletAssumption
  <2> QED BY <1>4, <2>1, <2>2, <2>3 DEF SavedRecord
<1>7. Records' = Records
  BY <1>5, <1>6 DEF Records
<1>8. saved' \in [Aliases -> SavedRecord \cup {None}]
  <2>1. \A a \in Aliases : saved'[a] \in SavedRecord \cup {None}
    BY <1>5, <1>6
  <2> QED BY <1>1, <2>1
<1> QED BY <1>1, <1>2, <1>3, <1>6, <1>7, <1>8, RowsAsTheyAre, RevisedKeeps

\* A payment that a read decides is resolved; one whose segment is dead is
\* proved again over the same notes, and the replaced one can land nowhere.
LEMMA ReproveKeeps ==
  ASSUME SoundWallet, NEW a \in Aliases, Reprove(a)
  PROVE  SoundWallet'
<1> DEFINE r == saved[a]
<1>1. PICK v \in {venue, older} :
        /\ r # None /\ r.stmt.kind \in Payments /\ r.status = "prepared"
        /\ Acting(v) /\ v.at >= r.judged
        /\ IF Paid(r, v) # r.status
           THEN /\ saved' = [saved EXCEPT ![a].status = Paid(r, v)]
                /\ seen' = IF v.at > seen THEN v.at ELSE seen
                /\ UNCHANGED <<chain, sent, published, superseded, calls>>
           ELSE /\ r.stmt.seg # v.seg
                /\ Planned(Call("reprove", a, [r.stmt EXCEPT !.seg = v.seg], v.at, {r.stmt}))
  BY DEF Reprove
<1>2. /\ a \in Records /\ Reading(v) /\ r.stmt.kind = Spend
  BY <1>1 DEF Records, Acting, Payments
<1>3. /\ r \in SavedRecord /\ r.stmt \in Statements /\ r.judged \in Nat
      /\ Shaped(a, r.stmt) /\ Known(r.stmt, r.judged)
  BY <1>2, RowFacts
<1>4. /\ IsView(v) /\ ViewSound(v) /\ v.at \in Nat /\ v.seg \in Nat /\ v.seg <= venue.seg
      /\ \A t \in venue.events \ v.events : t.seg = v.seg
  BY ViewFacts DEF IsView
<1>5. CASE Paid(r, v) # r.status
  <2>1. SoundStatus(r, Paid(r, v)) /\ Paid(r, v) \in Statuses
    BY <1>1, <1>2, <1>3, <1>4, PaidSound
  <2> DEFINE row == [r EXCEPT !.status = Paid(r, v)]
  <2>2. /\ saved' = [saved EXCEPT ![a] = row]
        /\ seen' = (IF v.at > seen THEN v.at ELSE seen)
        /\ UNCHANGED <<venue, older, live, journal, sent, published, superseded, calls>>
    BY <1>1, <1>5 DEF chain
  <2>3. /\ row \in SavedRecord /\ row.stmt = r.stmt /\ row.judged = r.judged
        /\ row.receipt = r.receipt /\ row.status = Paid(r, v)
    BY <1>3, <2>1 DEF SavedRecord
  <2> HIDE DEF row
  <2>4. row # None
    BY <2>3, WalletAssumption
  <2>5. /\ saved' \in [Aliases -> SavedRecord \cup {None}]
        /\ saved'[a] = row /\ \A b \in Aliases \ {a} : saved'[b] = saved[b]
    BY <2>2, <2>3, RowsAsTheyAre
  <2>6. Records' = Records /\ Records \subseteq Aliases
    BY <1>2, <2>4, <2>5 DEF Records
  <2>7. \A b \in Records :
            /\ saved'[b].stmt = saved[b].stmt /\ saved'[b].judged = saved[b].judged
            /\ saved'[b].receipt \in {None, saved[b].stmt}
            /\ SoundStatus(saved[b], saved'[b].status)
    BY <2>1, <2>3, <2>5, <2>6, RowsAsTheyAre
  <2>8. seen' \in Nat
    BY <1>4, <2>2, RowsAsTheyAre
  <2>9. held'.notes \subseteq Notes /\ forked' = FALSE
    BY <1>2, ReadKeeps
  <2> QED BY <2>2, <2>5, <2>6, <2>7, <2>8, <2>9, RowsAsTheyAre, RevisedKeeps
<1>6. CASE Paid(r, v) = r.status
  <2> DEFINE s == [r.stmt EXCEPT !.seg = v.seg]
             c == Call("reprove", a, s, v.at, {r.stmt})
  <2>1. r.stmt.seg # v.seg /\ Planned(c)
    BY <1>1, <1>6
  <2>2. /\ s \in Statements /\ s.kind = Spend /\ s.seg = v.seg /\ s.ended = r.stmt.ended
        /\ s.ins = r.stmt.ins /\ s.outs = r.stmt.outs
    BY <1>2, <1>3, <1>4 DEF Statements
  <2>3. /\ c.kind = "reprove" /\ c.alias = a /\ c.stmt = s /\ c.at = v.at /\ c.basis = {r.stmt}
        /\ c = [kind |-> "reprove", alias |-> a, stmt |-> s, at |-> v.at, basis |-> {r.stmt}]
    BY DEF Call
  <2> HIDE DEF s, c
  <2>4. s.ended = {}
    BY <1>2, <1>3, <2>2 DEF Shaped, Spend, Withdraw, Settle
  <2>5. Shaped(a, s)
    BY <1>2, <1>3, <2>2 DEF Shaped
  <2>6. Known(s, v.at)
    BY <2>2, <2>4, ReadKnown
  <2>7. Over(r.stmt)
    <3>1. r.stmt \notin v.events
      <4>1. ~(r.stmt.outs \subseteq v.state.outputs)
        BY <1>1, <1>6 DEF Paid
      <4> QED BY <1>4, <4>1 DEF ViewSound, InEffect
    <3>2. r.stmt.seg <= v.seg /\ r.stmt.seg \in Nat
      BY <1>1, <1>3, <1>4 DEF Known, Statements
    <3>3. venue.seg \in Nat
      BY DEF SoundWallet, TypeOK, IsView
    <3> QED BY <1>4, <2>1, <3>1, <3>2, <3>3 DEF Over
  <2>8. c \in CallRecords
    BY <1>3, <1>4, <2>2, <2>3 DEF CallRecords
  <2>9. SoundCall(c)
    BY <1>2, <1>3, <2>2, <2>3, <2>5, <2>6, <2>7 DEF SoundCall, Spend, Settle
  <2> QED BY <1>2, <2>1, <2>8, <2>9, PlanKeeps
<1> QED BY <1>5, <1>6

-----------------------------------------------------------------------------
(* The theorems.                                                             *)

\* A wallet with no record, over its issued notes.
LEMMA InitSound ==
  ASSUME Init
  PROVE  SoundWallet
<1>1. /\ venue = View(0, 0, 1, Opening, Opening, {}) /\ older = venue
      /\ live = Opening /\ journal = {} /\ sent = {} /\ published = {}
      /\ saved = [a \in Aliases |-> None] /\ superseded = {} /\ seen = 0
      /\ held.notes = {} /\ forked = FALSE /\ calls = {}
  BY DEF Init
<1> DEFINE o == Opening
<1>2. /\ o.outputs = Held /\ o.spent = {} /\ o.demands = {} /\ o.effective = {}
      /\ o.statements = {} /\ IsState(o)
  <2>1. o = [outputs |-> Held, spent |-> {}, issued |-> Worth(Held), burned |-> 0,
             demands |-> {}, effective |-> {}, statements |-> {}]
    <3>1. PICK worth : worth = Worth(Held)
      OBVIOUS
    <3>2. o = [GenesisState EXCEPT !.outputs = Held, !.issued = worth]
      BY <3>1 DEF Opening
    <3> HIDE DEF o
    <3>3. o = [outputs |-> Held, spent |-> {}, issued |-> worth, burned |-> 0,
               demands |-> {}, effective |-> {}, statements |-> {}]
      BY <3>2 DEF GenesisState
    <3> QED BY <3>1, <3>3
  <2> HIDE DEF o
  <2>2. Held \subseteq Notes
    BY WalletAssumption
  <2> QED BY <2>1, <2>2 DEF IsState
<1> HIDE DEF o
<1>3. /\ venue.at = 0 /\ venue.since = 0 /\ venue.seg = 1 /\ venue.state = o
      /\ venue.force = o /\ venue.events = {} /\ IsView(venue) /\ live = o
  BY <1>1, <1>2 DEF View, IsView, o
<1>4. Records = {} /\ SavedSet = {}
  BY <1>1 DEF Records, SavedSet
<1>5. TypeOK
  BY <1>1, <1>2, <1>3 DEF TypeOK
<1>6. /\ StateSound(o) /\ Grows(o, o) /\ EndsOnce({}) /\ ComesFrom(o, {})
  BY <1>2, WalletAssumption DEF StateSound, Grows, EndsOnce, ComesFrom
<1>7. ViewSound(venue)
  BY <1>2, <1>3, <1>6 DEF ViewSound
<1>8. TailSound
  BY <1>2, <1>3, <1>6 DEF TailSound
<1>9. OlderSound
  BY <1>1, <1>3, <1>6 DEF OlderSound
<1>10. ChainSound
  BY <1>1, <1>7, <1>8, <1>9 DEF ChainSound, ViewSound
<1>11. Provenance
  BY <1>1, <1>2, <1>3 DEF Provenance
<1>12. RowsKnown /\ SupersededOver /\ CallsKnown /\ FailedDead
  BY <1>1, <1>4 DEF RowsKnown, SupersededOver, CallsKnown, FailedDead
<1>13. OutcomesTrue /\ ReservedOnce /\ ReceiptsSignTheirRecord /\ NeverAccusesItself
  BY <1>1, <1>4 DEF OutcomesTrue, FailedStaysOut, FinalTookEffect, ReservedOnce,
                    ReceiptsSignTheirRecord, NeverAccusesItself
<1> QED BY <1>5, <1>10, <1>11, <1>12, <1>13 DEF SoundWallet

\* The invariant is inductive: every handler of the wallet, the operator's and
\* the venue's steps, in any order.
THEOREM WalletSound == Spec => []SoundWallet
<1>1. Init => SoundWallet
  BY InitSound
<1>2. SoundWallet /\ [Next]_vars => SoundWallet'
  <2> SUFFICES ASSUME SoundWallet, [Next]_vars PROVE SoundWallet'
    OBVIOUS
  <2>1. CASE Checkpoint \/ Pass \/ Succeed \/ Admit
    BY <2>1, ChainKeeps
  <2>2. CASE Sync
    BY <2>2, SyncKeeps
  <2>3. ASSUME NEW a \in Aliases,
               \/ Prepare(a) \/ Freshen(a) \/ BurnNotes(a) \/ IssueTo(a) \/ Demand(a)
               \/ SettleDemand(a) \/ WithdrawDemand(a) \/ Reprove(a) \/ Submit(a)
               \/ Publish(a)
        PROVE  SoundWallet'
    BY <2>3, PrepareKeeps, FreshenKeeps, BurnKeeps, IssueKeeps, DemandKeeps, SettleKeeps,
       WithdrawKeeps, ReproveKeeps, SubmitKeeps, PublishKeeps
  <2>4. ASSUME NEW c \in calls, Save(c) \/ SaveReproof(c) \/ KeepReceipt(c) \/ Abandon(c)
        PROVE  SoundWallet'
    BY <2>4, SaveKeeps, SaveReproofKeeps, KeepReceiptKeeps, AbandonKeeps
  <2>5. CASE UNCHANGED vars
    <3>1. /\ UNCHANGED <<venue, older, live, journal, sent, published, saved, superseded,
                         seen, held, forked, calls>>
          /\ Records' = Records
      BY <2>5 DEF vars, chain, rows, fence, Records
    <3> QED BY <3>1, RowsAsTheyAre, RevisedKeeps
  <2> QED BY <2>1, <2>2, <2>3, <2>4, <2>5 DEF Next
<1> QED BY <1>1, <1>2, PTL DEF Spec

\* What a record is resolved to is what becomes of its statement, for good
\* (resolutions, paid): a failed one may be acted on again.
THEOREM OutcomesAreTrue == Spec => []OutcomesTrue
<1>1. SoundWallet => OutcomesTrue
  BY DEF SoundWallet
<1> QED BY <1>1, WalletSound, PTL

\* No note backs two records that can still take effect, however the calls
\* that read it free interleave (reserved, savePayment, saveAct).
THEOREM NotesReservedOnce == Spec => []ReservedOnce
<1>1. SoundWallet => ReservedOnce
  BY DEF SoundWallet
<1> QED BY <1>1, WalletSound, PTL

\* A receipt stays with the statement it signs, whatever a reproof replaced
\* while its submission was under way (submit).
THEOREM ReceiptsStay == Spec => []ReceiptsSignTheirRecord
<1>1. SoundWallet => ReceiptsSignTheirRecord
  BY DEF SoundWallet
<1> QED BY <1>1, WalletSound, PTL

\* The wallet never takes its own spends for another instance's (watch, M13f).
THEOREM NeverTakesItselfForAnother == Spec => []NeverAccusesItself
<1>1. SoundWallet => NeverAccusesItself
  BY DEF SoundWallet
<1> QED BY <1>1, WalletSound, PTL

-----------------------------------------------------------------------------
(* Linked spends.                                                            *)

Paying == {"pay", "burn"}

\* A payment or burn is a statement of its kind; over presented notes it has failed.
PayingKinds ==
  /\ \A c \in calls : c.kind \in Paying => c.stmt.kind \in {Spend, Burn}
  /\ \A a \in Records : saved[a].way \in Paying => saved[a].stmt.kind \in {Spend, Burn}

PresentedFail ==
  \A a, b \in Records :
     (/\ saved[a].way \in Paying /\ saved[b].stmt.kind = Present
      /\ saved[a].stmt.ins \cap saved[b].stmt.ins # {}) => saved[a].status = "failed"

Unlinked == PayingKinds /\ PresentedFail

\* Rows that are revised keep their statement and their failure.
LEMMA RevisedUnlinked ==
  ASSUME SoundWallet, Unlinked, Records' = Records,
         \A a \in Records :
            /\ saved'[a].stmt = saved[a].stmt /\ saved'[a].way = saved[a].way
            /\ SoundStatus(saved[a], saved'[a].status),
         \A c \in calls' : c \in calls \/ (c.kind \in Paying => c.stmt.kind \in {Spend, Burn})
  PROVE  Unlinked'
<1>1. PayingKinds'
  BY DEF Unlinked, PayingKinds
<1>2. PresentedFail'
  <2> SUFFICES ASSUME NEW a \in Records, NEW b \in Records,
                      saved[a].way \in Paying, saved[b].stmt.kind = Present,
                      saved[a].stmt.ins \cap saved[b].stmt.ins # {}
               PROVE  saved'[a].status = "failed"
    BY DEF PresentedFail
  <2> QED BY DEF Unlinked, PayingKinds, PresentedFail, SoundStatus
<1> QED BY <1>1, <1>2 DEF Unlinked

\* Steps that leave every row as it is.
LEMMA UnlinkedAsTheyAre ==
  ASSUME SoundWallet, Unlinked, saved' = saved,
         \A c \in calls' : c \in calls \/ (c.kind \in Paying => c.stmt.kind \in {Spend, Burn})
  PROVE  Unlinked'
<1>1. Records' = Records
  BY DEF Records
<1>2. \A a \in Records : SoundStatus(saved[a], saved'[a].status)
  BY OwnStatus
<1> QED BY <1>1, <1>2, RevisedUnlinked

\* A row that is saved stands apart: a payment from every demand saved before
\* it, a demand from every payment but one that failed (requireUnpresented,
\* reserved).
LEMMA SavedUnlinked ==
  ASSUME SoundWallet, Unlinked, NEW c \in CallRecords, SoundCall(c), Savable(c),
         c.kind # "submit", c.kind \in Paying => c.stmt.kind \in {Spend, Burn},
         saved' = [saved EXCEPT ![c.alias] = Row(c.stmt, c.at, c.kind)],
         calls' \subseteq calls
  PROVE  Unlinked'
<1> DEFINE row == Row(c.stmt, c.at, c.kind)
           a == c.alias
<1>1. row.stmt = c.stmt /\ row.way = c.kind /\ row.status = "prepared"
  BY DEF Row
<1>2. /\ saved \in [Aliases -> SavedRecord \cup {None}]
      /\ a \in Aliases /\ a \notin Records
  BY DEF SoundWallet, TypeOK, CallRecords, Savable, Records
<1>3. saved'[a] = row /\ \A b \in Records : saved'[b] = saved[b]
  BY <1>2 DEF Records
<1> HIDE DEF row
<1>4. Records' \subseteq Records \cup {a}
  BY <1>2 DEF Records
<1>5. PayingKinds'
  BY <1>1, <1>3, <1>4 DEF Unlinked, PayingKinds
<1>6. PresentedFail'
  <2> SUFFICES ASSUME NEW p \in Records', NEW d \in Records',
                      saved'[p].way \in Paying, saved'[d].stmt.kind = Present,
                      saved'[p].stmt.ins \cap saved'[d].stmt.ins # {}
               PROVE  saved'[p].status = "failed"
    BY DEF PresentedFail
  <2>1. CASE p \in Records /\ d \in Records
    BY <1>3, <2>1 DEF Unlinked, PresentedFail
  <2>2. CASE p = a /\ d \in Records
    <3>1. PICK n \in c.stmt.ins : n \in saved[d].stmt.ins
      BY <1>1, <1>3, <2>2
    <3>2. saved[d].stmt \in SavedPresenters(n)
      BY <1>3, <2>2, <3>1 DEF SavedPresenters
    <3>3. c.kind \in {"pay", "burn"}
      BY <1>1, <1>3, <2>2 DEF Paying
    <3> QED BY <3>1, <3>2, <3>3 DEF Savable, SoundCall
  <2>3. CASE p \in Records /\ d = a
    <3>1. PICK n \in c.stmt.ins : n \in saved[p].stmt.ins
      BY <1>1, <1>3, <2>3
    <3>2. c.kind # "settle"
      BY <1>1, <1>3, <2>3 DEF SoundCall, Present, Settle
    <3>3. ~Reserved(n)
      BY <3>1, <3>2 DEF Savable
    <3>4. saved[p].stmt.kind # Present
      BY <1>3, <2>3 DEF Unlinked, PayingKinds, Present, Spend, Burn
    <3>5. saved[p].status \in Statuses
      BY <1>2, <2>3 DEF Records, SavedRecord
    <3> QED BY <1>3, <2>3, <3>1, <3>3, <3>4, <3>5 DEF Reserved, Statuses
  <2>4. CASE p = a /\ d = a
    BY <1>1, <1>3, <1>5, <2>4 DEF PayingKinds, Present, Spend, Burn
  <2> QED BY <1>4, <2>1, <2>2, <2>3, <2>4
<1> QED BY <1>5, <1>6 DEF Unlinked

\* A payment proved again keeps its notes and its way.
LEMMA ReprovedUnlinked ==
  ASSUME SoundWallet, Unlinked, NEW c \in calls, SaveReproof(c)
  PROVE  Unlinked'
<1> DEFINE r == saved[c.alias]
           row == Row(c.stmt, c.at, r.way)
<1>1. /\ c.kind = "reprove" /\ r.stmt \in c.basis /\ r.status = "prepared"
      /\ saved' = [saved EXCEPT ![c.alias] = row] /\ calls' \subseteq calls
  BY DEF SaveReproof
<1>2. /\ c.alias \in Records /\ c.alias \in Aliases
      /\ r.stmt.ins = c.stmt.ins /\ r.stmt.kind = Spend /\ c.stmt.kind = Spend
  BY <1>1 DEF SoundWallet, CallsKnown, SoundCall, Records
<1>3. row.stmt = c.stmt /\ row.way = r.way
  BY DEF Row
<1>4. saved'[c.alias] = row /\ \A b \in Aliases \ {c.alias} : saved'[b] = saved[b]
  BY <1>1, <1>2 DEF SoundWallet, TypeOK
<1> HIDE DEF row
<1>5. Records' \subseteq Records /\ Records \subseteq Aliases
  BY <1>2, <1>4 DEF Records
<1>6. PayingKinds'
  BY <1>1, <1>2, <1>3, <1>4, <1>5 DEF Unlinked, PayingKinds
<1>7. PresentedFail'
  <2> SUFFICES ASSUME NEW p \in Records', NEW d \in Records',
                      saved'[p].way \in Paying, saved'[d].stmt.kind = Present,
                      saved'[p].stmt.ins \cap saved'[d].stmt.ins # {}
               PROVE  saved'[p].status = "failed"
    BY DEF PresentedFail
  <2>1. d # c.alias
    BY <1>2, <1>3, <1>4 DEF Present, Spend
  <2>2. saved'[d] = saved[d] /\ d \in Records /\ p \in Records
    BY <1>4, <1>5, <2>1
  <2>3. saved[p].way \in Paying /\ saved[p].stmt.ins \cap saved[d].stmt.ins # {}
    BY <1>2, <1>3, <1>4, <1>5, <2>2
  <2>4. saved[p].status = "failed"
    BY <2>2, <2>3 DEF Unlinked, PresentedFail
  <2>5. p # c.alias
    BY <1>1, <2>4
  <2> QED BY <1>4, <1>5, <2>2, <2>4, <2>5
<1> QED BY <1>6, <1>7 DEF Unlinked

\* A read that decides records, and an answer that is kept, revise rows.
LEMMA SyncUnlinked ==
  ASSUME SoundWallet, Unlinked, Sync
  PROVE  Unlinked'
<1>1. PICK v \in {venue, older} :
        saved' = [a \in Aliases |-> Decide(a, v)] /\ calls' = calls
  BY DEF Sync
<1> DEFINE new(a) == Resolution(saved[a], v, Ended(saved[a], v))
<1>2. ASSUME NEW a \in Records
      PROVE  /\ saved'[a] = [saved[a] EXCEPT !.status = new(a)] /\ saved[a] \in SavedRecord
             /\ new(a) \in Statuses /\ SoundStatus(saved[a], new(a))
  <2>1. saved'[a] = Decide(a, v)
    BY <1>1 DEF Records
  <2>2. Decide(a, v) = [saved[a] EXCEPT !.status = new(a)]
    BY DEF Decide, Records
  <2> QED BY <2>1, <2>2, RowFacts, ResolutionSound
<1> HIDE DEF new
<1>3. \A a \in Records :
         /\ saved'[a] \in SavedRecord
         /\ saved'[a].stmt = saved[a].stmt /\ saved'[a].way = saved[a].way
         /\ saved'[a].status = new(a)
  BY <1>2 DEF SavedRecord
<1>4. Records' = Records
  BY <1>1, <1>3, WalletAssumption DEF Records, Decide
<1> QED BY <1>1, <1>2, <1>3, <1>4, RevisedUnlinked

LEMMA ReceiptUnlinked ==
  ASSUME SoundWallet, Unlinked, NEW c \in calls, KeepReceipt(c)
  PROVE  Unlinked'
<1>1. c.kind = "submit" /\ saved' = KeptReceipt(c) /\ calls' \subseteq calls
  BY DEF KeepReceipt
<1>2. c.alias \in Records /\ c.alias \in Aliases /\ c.stmt \in Statements
  BY <1>1 DEF SoundWallet, TypeOK, CallRecords, CallsKnown, SoundCall, Records
<1> DEFINE row == [saved[c.alias] EXCEPT !.receipt = IF @ = None THEN c.stmt ELSE @]
<1>3. saved[c.alias] \in SavedRecord
  BY <1>2, RowFacts
<1>4. /\ row \in SavedRecord /\ row.stmt = saved[c.alias].stmt
      /\ row.way = saved[c.alias].way /\ row.status = saved[c.alias].status
  BY <1>2, <1>3 DEF SavedRecord
<1>5. saved' = saved \/ saved' = [saved EXCEPT ![c.alias] = row]
  BY <1>1 DEF KeptReceipt
<1> HIDE DEF row
<1>6. CASE saved' = saved
  BY <1>1, <1>6, UnlinkedAsTheyAre
<1>7. CASE saved' = [saved EXCEPT ![c.alias] = row]
  <2>1. saved'[c.alias] = row /\ \A b \in Aliases \ {c.alias} : saved'[b] = saved[b]
    BY <1>2, <1>7 DEF SoundWallet, TypeOK
  <2>2. Records' = Records
    BY <1>2, <1>4, <2>1, WalletAssumption DEF Records
  <2>3. \A a \in Records :
           /\ saved'[a].stmt = saved[a].stmt /\ saved'[a].way = saved[a].way
           /\ saved'[a].status = saved[a].status
    BY <1>4, <2>1 DEF Records
  <2> QED BY <1>1, <2>2, <2>3, OwnStatus, RevisedUnlinked
<1> QED BY <1>5, <1>6, <1>7

\* A reproof decides its payment, or is planned.
LEMMA ReproveUnlinked ==
  ASSUME SoundWallet, Unlinked, NEW a \in Aliases, Reprove(a)
  PROVE  Unlinked'
<1> DEFINE r == saved[a]
<1>1. PICK v \in {venue, older} :
        /\ r # None /\ r.stmt.kind \in Payments /\ r.status = "prepared" /\ v.at >= r.judged
        /\ IF Paid(r, v) # r.status
           THEN saved' = [saved EXCEPT ![a].status = Paid(r, v)] /\ calls' = calls
           ELSE Planned(Call("reprove", a, [r.stmt EXCEPT !.seg = v.seg], v.at, {r.stmt}))
  BY DEF Reprove
<1>2. /\ a \in Records /\ r \in SavedRecord /\ r.stmt.kind = Spend
      /\ r.judged \in Nat /\ v.at \in Nat
  BY <1>1, RowFacts, ViewFacts DEF Records, Payments, IsView
<1>3. CASE Paid(r, v) # r.status
  <2> DEFINE row == [r EXCEPT !.status = Paid(r, v)]
  <2>1. SoundStatus(r, Paid(r, v)) /\ Paid(r, v) \in Statuses
    BY <1>1, <1>2, PaidSound
  <2>2. /\ row \in SavedRecord /\ row.stmt = r.stmt /\ row.way = r.way
        /\ row.status = Paid(r, v)
    BY <1>2, <2>1 DEF SavedRecord
  <2>3. saved' = [saved EXCEPT ![a] = row] /\ calls' = calls
    BY <1>1, <1>3
  <2> HIDE DEF row
  <2>4. saved'[a] = row /\ \A b \in Aliases \ {a} : saved'[b] = saved[b]
    BY <2>3 DEF SoundWallet, TypeOK
  <2>5. Records' = Records
    BY <1>2, <2>2, <2>4, WalletAssumption DEF Records
  <2>6. \A b \in Records :
           /\ saved'[b].stmt = saved[b].stmt /\ saved'[b].way = saved[b].way
           /\ SoundStatus(saved[b], saved'[b].status)
    BY <2>1, <2>2, <2>4, OwnStatus DEF Records
  <2> QED BY <2>3, <2>5, <2>6, RevisedUnlinked
<1>4. CASE Paid(r, v) = r.status
  <2>1. Planned(Call("reprove", a, [r.stmt EXCEPT !.seg = v.seg], v.at, {r.stmt}))
    BY <1>1, <1>4
  <2>2. saved' = saved /\ \A c \in calls' : c \in calls \/ c.kind = "reprove"
    BY <2>1 DEF Planned, rows, Call
  <2> QED BY <2>2, UnlinkedAsTheyAre DEF Paying
<1> QED BY <1>3, <1>4

\* Calls that plan: a payment spends, a burn burns, and no other is either.
LEMMA PlannedUnlinked ==
  ASSUME SoundWallet, Unlinked, NEW a \in Aliases,
         \/ Prepare(a) \/ Freshen(a) \/ BurnNotes(a) \/ IssueTo(a) \/ Demand(a)
         \/ SettleDemand(a) \/ Submit(a) \/ Publish(a)
  PROVE  Unlinked'
<1>1. CASE Prepare(a)
  <2>1. PICK stmt, at : stmt.kind = Spend /\ Planned(Call("pay", a, stmt, at, {}))
    BY <1>1 DEF Prepare, SpendOf, Statement
  <2> QED BY <2>1, UnlinkedAsTheyAre DEF Planned, rows, Call
<1>2. CASE BurnNotes(a)
  <2>1. PICK stmt, at : stmt.kind = Burn /\ Planned(Call("burn", a, stmt, at, {}))
    BY <1>2 DEF BurnNotes, BurnOf, Statement
  <2> QED BY <2>1, UnlinkedAsTheyAre DEF Planned, rows, Call
<1>3. ASSUME NEW kind \in {"freshen", "issue", "demand", "settle", "submit"},
             NEW stmt, NEW at, NEW basis, saved' = saved,
             calls' = calls \cup {Call(kind, a, stmt, at, basis)}
      PROVE  Unlinked'
  BY <1>3, UnlinkedAsTheyAre DEF Call, Paying
<1>4. CASE Freshen(a)
  BY <1>3, <1>4 DEF Freshen, Planned, rows
<1>5. CASE IssueTo(a)
  BY <1>3, <1>5 DEF IssueTo, Planned, rows
<1>6. CASE Demand(a)
  BY <1>3, <1>6 DEF Demand, Planned, rows
<1>7. CASE SettleDemand(a)
  BY <1>3, <1>7 DEF SettleDemand, Planned, rows
<1>8. CASE Submit(a)
  BY <1>3, <1>8 DEF Submit, rows
<1>9. CASE Publish(a)
  <2>1. saved' = saved /\ calls' = calls
    BY <1>9 DEF Publish, rows
  <2> QED BY <2>1, UnlinkedAsTheyAre
<1> QED BY <1>1, <1>2, <1>4, <1>5, <1>6, <1>7, <1>8, <1>9

\* Every step keeps payments and demands apart.
LEMMA StepUnlinked ==
  ASSUME SoundWallet, Unlinked, [Next]_vars
  PROVE  Unlinked'
<1>1. CASE Checkpoint \/ Pass \/ Succeed \/ Admit \/ UNCHANGED vars
  <2>1. saved' = saved /\ calls' = calls
    BY <1>1 DEF Checkpoint, Pass, Succeed, Admit, vars, rows
  <2> QED BY <2>1, UnlinkedAsTheyAre
<1>2. CASE Sync
  BY <1>2, SyncUnlinked
<1>3. ASSUME NEW a \in Aliases, WithdrawDemand(a) PROVE Unlinked'
  <2>0. PICK v \in {venue, older} : \E d \in v.force.demands :
          LET c == Call("withdraw", a, WithdrawalOf(v.seg, d), v.at, {})
          IN  /\ Savable(c)
              /\ saved' = [saved EXCEPT ![a] = Row(c.stmt, c.at, c.kind)] /\ calls' = calls
    BY <1>3 DEF WithdrawDemand
  <2>1. PICK s, at :
          /\ Savable(Call("withdraw", a, s, at, {})) /\ s.kind = Withdraw /\ s.ins = {}
          /\ saved' = [saved EXCEPT ![a] = Row(s, at, "withdraw")] /\ calls' = calls
    <3>1. PICK d \in v.force.demands :
            /\ Savable(Call("withdraw", a, WithdrawalOf(v.seg, d), v.at, {}))
            /\ saved' = [saved EXCEPT ![a] = Row(WithdrawalOf(v.seg, d), v.at, "withdraw")]
            /\ calls' = calls
      BY <2>0 DEF Call
    <3>2. WithdrawalOf(v.seg, d).kind = Withdraw /\ WithdrawalOf(v.seg, d).ins = {}
      BY DEF WithdrawalOf, Statement
    <3> QED BY <3>1, <3>2
  <2> DEFINE row == Row(s, at, "withdraw")
  <2>2. row.stmt = s /\ row.way = "withdraw" /\ a \notin Records
    BY <2>1 DEF Row, Savable, Call, Records
  <2>3. saved'[a] = row /\ \A b \in Records : saved'[b] = saved[b]
    BY <2>1, <2>2 DEF SoundWallet, TypeOK, Records
  <2> HIDE DEF row
  <2>4. Records' \subseteq Records \cup {a}
    BY <2>1 DEF SoundWallet, TypeOK, Records
  <2>5. PayingKinds'
    BY <2>1, <2>2, <2>3, <2>4 DEF Unlinked, PayingKinds, Paying
  <2>6. PresentedFail'
    <3> SUFFICES ASSUME NEW p \in Records', NEW d \in Records',
                        saved'[p].way \in Paying, saved'[d].stmt.kind = Present,
                        saved'[p].stmt.ins \cap saved'[d].stmt.ins # {}
                 PROVE  saved'[p].status = "failed"
      BY DEF PresentedFail
    <3>1. p # a /\ d # a
      BY <2>1, <2>2, <2>3 DEF Paying
    <3> QED BY <2>3, <2>4, <3>1 DEF Unlinked, PresentedFail
  <2> QED BY <2>5, <2>6 DEF Unlinked
<1>4. ASSUME NEW c \in calls, Save(c) PROVE Unlinked'
  <2>1. /\ Savable(c) /\ c.kind # "submit" /\ calls' \subseteq calls
        /\ saved' = [saved EXCEPT ![c.alias] = Row(c.stmt, c.at, c.kind)]
    BY <1>4 DEF Save
  <2>2. /\ c \in CallRecords /\ SoundCall(c)
        /\ c.kind \in Paying => c.stmt.kind \in {Spend, Burn}
    BY DEF SoundWallet, TypeOK, CallsKnown, Unlinked, PayingKinds
  <2> QED BY <2>1, <2>2, SavedUnlinked
<1>5. ASSUME NEW c \in calls, Abandon(c) PROVE Unlinked'
  <2>1. saved' = saved /\ calls' \subseteq calls
    BY <1>5 DEF Abandon, rows
  <2> QED BY <2>1, UnlinkedAsTheyAre
<1>6. CASE \E a \in Aliases :
             \/ Prepare(a) \/ Freshen(a) \/ BurnNotes(a) \/ IssueTo(a) \/ Demand(a)
             \/ SettleDemand(a) \/ Submit(a) \/ Publish(a)
  BY <1>6, PlannedUnlinked
<1>7. CASE \E a \in Aliases : Reprove(a)
  BY <1>7, ReproveUnlinked
<1>8. CASE \E c \in calls : SaveReproof(c) \/ KeepReceipt(c)
  BY <1>8, ReprovedUnlinked, ReceiptUnlinked
<1> QED BY <1>1, <1>2, <1>3, <1>4, <1>5, <1>6, <1>7, <1>8 DEF Next

\* A payment or burn of the wallet never spends, in history, a note that one
\* of its demands presented (requireUnpresented): it has failed, a failed one
\* stays out, and what a reproof replaced lapsed with its segment.
THEOREM NeverLinksItsSpends == Spec => []NeverLinks
<1>1. Init => Unlinked
  BY DEF Init, Unlinked, PayingKinds, PresentedFail, Records
<1>2. SoundWallet /\ Unlinked /\ [Next]_vars => Unlinked'
  BY StepUnlinked
<1>3. SoundWallet /\ Unlinked => NeverLinks
  <2> SUFFICES ASSUME SoundWallet, Unlinked, NEW a \in Records, NEW b \in Records,
                      saved[a].way \in {"pay", "burn"}, saved[b].stmt.kind = Present,
                      saved[a].stmt.ins \cap saved[b].stmt.ins # {}
               PROVE  /\ saved[a].status = "failed"
                      /\ StatementsOf(a) \cap venue.events = {}
    BY DEF NeverLinks
  <2>1. saved[a].status = "failed" /\ saved[a].stmt.kind \in {Spend, Burn}
    BY DEF Unlinked, PayingKinds, PresentedFail, Paying
  <2>2. saved[a].stmt \notin venue.events
    BY <2>1 DEF SoundWallet, OutcomesTrue, FailedStaysOut, Spend, Burn, Present, Settle
  <2>3. \A old \in superseded : old.stmt \notin venue.events
    BY DEF SoundWallet, SupersededOver, Over
  <2> QED BY <2>1, <2>2, <2>3 DEF StatementsOf
<1> QED BY <1>1, <1>2, <1>3, WalletSound, PTL DEF Spec
=============================================================================
