------------------------------ MODULE ErgoView ------------------------------
(***************************************************************************)
(* The view of ergo.ts over its file (ergo-store.ts): a sync asks every    *)
(* supplier for headers, charges and protects what each added, checks that *)
(* the best chain keeps the clock's block, reads sections up to where the  *)
(* clock may go and commits all of it at once; a process that ends in      *)
(* between starts from its last commit.                                    *)
(*                                                                         *)
(* Heights count from the anchor; the index of pool-v3 is one less.  A     *)
(* section is its header.  A pass is the header a supplier's chain led to, *)
(* wherever its answers ended; requests, their sizes and the budget on     *)
(* headers served again are left out.                                      *)
(***************************************************************************)
EXTENDS ErgoHeaders

CONSTANTS
    Suppliers,     \* in the caller's order
    Honest,        \* the supplier that serves the network's best chain
    Chain,         \* the tips the network's best chain comes to
    Depth,
    Budget,        \* headersPerSupplier
    SideQuota,     \* sideHeadersPerSupplier
    SideHeights,   \* SIDE_HEADER_HEIGHTS
    MaxProtected,  \* PROTECTED_PER_SUPPLIER
    MaxFailures,   \* how often the honest supplier does not answer
    MaxCrashes

Names == {Suppliers[i] : i \in DOMAIN Suppliers}

ASSUME ViewAssumption ==
    /\ Suppliers \in Seq(Names) /\ Honest \in Names /\ Chain \in Seq(Headers) /\ Chain # <<>>
    /\ Depth \in Nat /\ Budget \in Nat \ {0} /\ SideHeights \in Nat \ {0} /\ MaxProtected \in Nat \ {0}

\* The depth is what the network settles at: its chain goes on from its tips, and one as heavy leaves it, if at all,
\* within the depth of its own tip.
ASSUME NetworkAssumption ==
    /\ \A i, j \in DOMAIN Chain : i <= j => Chain[i] \in Paths[Chain[j]]
    /\ \A i \in DOMAIN Chain, h \in Headers :
         Scores[h] >= Scores[Chain[i]] => Cardinality(Paths[h] \cap Paths[Chain[i]]) + Depth >= Height(h)

VARIABLES
    mined,     \* how many of the chain's tips there are
    store,     \* the headers in memory
    side,      \* supplier -> its side-branch charge and the height it is credited to
    protected, \* supplier -> the paths kept for it, oldest first
    passes,    \* the running sync's passes
    failed,    \* whether this view refuses every read
    disk,      \* the last commit
    failures, crashes

memory == <<store, side, protected, passes, failed>>
vars == <<mined, memory, disk, failures, crashes>>

NoCharge == [charge |-> 0, height |-> 0]
NoSides == [s \in Names |-> NoCharge]
NoPaths == [s \in Names |-> <<>>]

Init ==
    /\ mined = 1
    /\ store = NewStore /\ side = NoSides /\ protected = NoPaths
    /\ passes = <<>> /\ failed = FALSE
    /\ disk = [store |-> NewStore, side |-> NoSides, protected |-> NoPaths, rows |-> <<>>, buried |-> Anchor, failed |-> FALSE]
    /\ failures = 0 /\ crashes = 0

Clock == Len(disk.rows)
Pin == IF Clock = 0 THEN Anchor ELSE disk.rows[Clock]

(***************************************************************************)
(* A supplier's pass.                                                      *)
(***************************************************************************)
SideQuotaSpent(charges, s) == charges[s].charge >= SideQuota * SideHeights

New(reached) == Paths[reached] \ store.accepted

\* Past its quota a supplier is read for headers that extend the best tip alone.
Readable(s, reached) ==
    SideQuotaSpent(side, s) => New(reached) = {} \/ store.tip \in {Parent[h] : h \in New(reached)}

\* The pass ends at its tip, at the budget, or where the supplier stops answering or serves what is refused.
Ends(s, tip, reached) ==
    \/ reached = tip
    \/ Cardinality(New(reached)) = Budget
    \/ s # Honest
    \/ \E h \in Paths[tip] \ Paths[reached] : Parent[h] = reached /\ ~Readable(s, h)

Stopped(tip, reached) == reached # tip /\ Cardinality(New(reached)) = Budget

Asks(s, tip, reached) ==
    /\ reached \in Paths[tip] \cup {Anchor}
    /\ Cardinality(New(reached)) <= Budget /\ Readable(s, reached)
    /\ passes' = Append(passes, [name |-> s, last |-> reached, added |-> New(reached), stopped |-> Stopped(tip, reached)])
    /\ store' = AddPath(store, reached)

Next1 == Suppliers[Len(passes) + 1]

Pass ==
    /\ ~failed /\ Len(passes) < Len(Suppliers)
    /\ \E tip \in (IF Next1 = Honest THEN {Chain[mined]} ELSE Headers), reached \in Headers \cup {Anchor} :
         Asks(Next1, tip, reached) /\ Ends(Next1, tip, reached)
    /\ UNCHANGED <<mined, side, protected, failed, disk, failures, crashes>>

\* The honest supplier stops answering somewhere on its chain.
PassFails ==
    /\ ~failed /\ Len(passes) < Len(Suppliers) /\ Next1 = Honest /\ failures < MaxFailures
    /\ \E reached \in Paths[Chain[mined]] \cup {Anchor} :
         /\ reached \in Paths[Chain[mined]] \cup {Anchor} /\ Cardinality(New(reached)) < Budget /\ Readable(Honest, reached)
         /\ passes' = Append(passes, [name |-> Honest, last |-> reached, added |-> New(reached), stopped |-> FALSE])
         /\ store' = AddPath(store, reached)
    /\ failures' = failures + 1
    /\ UNCHANGED <<mined, side, protected, failed, disk, crashes>>

(***************************************************************************)
(* Protection: each supplier keeps the last headers its passes reached off *)
(* the best chain, a header in place of those it extends.                  *)
(***************************************************************************)
Without(paths, hs) ==
    LET left[n \in 0 .. Len(paths)] ==
            IF n = 0 THEN <<>> ELSE IF paths[n] \in hs THEN left[n - 1] ELSE Append(left[n - 1], paths[n])
    IN left[Len(paths)]
Newest(paths) == IF Len(paths) > MaxProtected THEN SubSeq(paths, Len(paths) - MaxProtected + 1, Len(paths)) ELSE paths
Protected == [s \in Names |->
    LET pass == passes[CHOOSE i \in DOMAIN passes : passes[i].name = s] IN
    IF pass.last = Anchor \/ IsBest(store, pass.last) THEN protected[s]
    ELSE Newest(Append(Without(protected[s], OffBest(store, pass.last)), pass.last))]

(***************************************************************************)
(* Charges: the headers a supplier added off the best chain, less what the *)
(* best chain advanced since.                                              *)
(***************************************************************************)
Less(a, b) == IF a > b THEN a - b ELSE 0
Charged == [s \in Names |->
    LET off == SideHeights * Cardinality({h \in UNION {passes[i].added : i \in {j \in DOMAIN passes : passes[j].name = s}} : ~IsBest(store, h)})
        advance == Less(Height(store.tip), side[s].height)
        charge == Less(side[s].charge, advance) + off
    IN IF side[s] = NoCharge THEN (IF off > 0 THEN [charge |-> off, height |-> Height(store.tip)] ELSE NoCharge)
       ELSE IF charge = 0 THEN NoCharge ELSE [charge |-> charge, height |-> side[s].height + advance]]

(***************************************************************************)
(* The clock's bound: the depth below the tip, and where the last header   *)
(* of a pass its budget stopped meets the best chain, above the clock.     *)
(***************************************************************************)
Meetings(charges) ==
    {f \in {ForkHeight(store, passes[i].last) : i \in {j \in DOMAIN passes : passes[j].stopped /\ ~SideQuotaSpent(charges, passes[j].name)}} : f >= Clock}
BoundByDepth(charges) == Less(Height(store.tip), Depth)  \* Mutation: a stopped pass bounds nothing.
Bound(charges) == Min({Less(Height(store.tip), Depth)} \cup Meetings(charges))

KeepsPinAlways == TRUE  \* Mutation: the clock's block is not looked for.
KeepsPin == Clock = 0 \/ IsBest(store, Pin)

\* A commit that publishes no new clock.
Unmoved(fails) ==
    [store |-> store, side |-> Charged, protected |-> Protected, rows |-> disk.rows, buried |-> disk.buried, failed |-> fails]
Commit(next) == disk' = next /\ store' = next.store /\ side' = next.side /\ protected' = next.protected

\* A chain that left the clock's block is the venue's failure: committed, and never read past.
Fail ==
    /\ Len(passes) = Len(Suppliers) /\ ~failed /\ ~KeepsPin
    /\ Commit(Unmoved(TRUE))
    /\ failed' = TRUE /\ passes' = <<>>
    /\ UNCHANGED <<mined, failures, crashes>>

\* Sections from the first not yet read, as far as suppliers and budgets give them.
Finish ==
    /\ Len(passes) = Len(Suppliers) /\ ~failed /\ KeepsPin
    /\ \E witnessed \in Clock .. Bound(Charged) \cup {Clock} :
         /\ Bound(Charged) > Clock => witnessed > Clock  \* the honest supplier serves one
         /\ LET rows == disk.rows \o [k \in 1 .. witnessed - Clock |-> BestAt(store, Clock + k)]
                pin == rows[witnessed]
                paths == [s \in Names |-> Without(Protected[s], Best(store))]
                kept == UNION {{paths[s][i] : i \in DOMAIN paths[s]} : s \in Names}
                buried == IF witnessed > 0 /\ Height(store.tip) >= witnessed + Depth THEN store.tip ELSE disk.buried
            IN IF witnessed = 0 THEN Commit(Unmoved(FALSE))
               ELSE Commit([store |-> Prune(store, pin, kept), side |-> Charged, protected |-> paths, rows |-> rows, buried |-> buried, failed |-> FALSE])
    /\ passes' = <<>>
    /\ UNCHANGED <<mined, failed, failures, crashes>>

(***************************************************************************)
(* The process ends, perhaps in a sync, and the view is opened again from  *)
(* its rows.                                                               *)
(***************************************************************************)
Crash ==
    /\ crashes < MaxCrashes /\ crashes' = crashes + 1
    /\ store' = disk.store /\ side' = disk.side /\ protected' = disk.protected /\ failed' = disk.failed
    /\ passes' = <<>>
    /\ UNCHANGED <<mined, disk, failures>>

Mine ==
    /\ mined < Len(Chain) /\ mined' = mined + 1
    /\ UNCHANGED <<memory, disk, failures, crashes>>

Syncs == Pass \/ Fail \/ Finish
Next == Syncs \/ PassFails \/ Crash \/ Mine

(* The view's owner goes on syncing. *)
Fairness == WF_vars(Syncs) /\ WF_vars(Mine)
Spec == Init /\ [][Next]_vars /\ Fairness

(***************************************************************************)
(* Properties.                                                             *)
(***************************************************************************)
\* What a view answers is one chain's: after any syncs, drops and reorganisations its rows are the best chain's headers
\* up to its clock, which some kept header buries, or it refuses; and what it committed opens again: its headers link,
\* its protected headers, its clock's block and the burying header are among them.
RowsReproduce ==
    /\ \A k \in 1 .. Clock : disk.rows[k] \in disk.store.accepted /\ Height(disk.rows[k]) = k
    /\ \A k \in 2 .. Clock : Parent[disk.rows[k]] = disk.rows[k - 1]
    /\ Audited(disk.store)
    /\ \A s \in Names : \A i \in DOMAIN disk.protected[s] : Known(disk.store, disk.protected[s][i])
    /\ ~disk.failed /\ Clock > 0 =>
         /\ BestAt(disk.store, Clock) = Pin
         /\ Known(disk.store, disk.buried) /\ Height(disk.buried) >= Clock + Depth /\ ForkHeight(disk.store, disk.buried) >= Clock

\* "the reader's own budget cannot make it witness a block it would later have to unwitness": while the supplier of the
\* heaviest chain answers, however few headers a sync reads of it and whatever lighter chains others show, the clock's
\* block is on that chain.
WitnessesHeaviest == failures = 0 => Pin \in Paths[Chain[mined]] \cup {Anchor}

\* A chain longer than one sync's budget accumulates: in the end the view stands on the heaviest chain at its depth, or,
\* where that chain left a block it witnessed, refuses.
ReachesHeaviest == <>[](failed \/ (disk.store.tip = Chain[Len(Chain)] /\ Clock = Height(Chain[Len(Chain)]) - Depth))
=============================================================================
