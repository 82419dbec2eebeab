-------------------------- MODULE ExhaustionFolds --------------------------
(***************************************************************************)
(* A replica's exhaustion (cli/venue.ts, "exhaustionOver") over its map    *)
(* server (ergo-exhaustion-server.ts): the fold kept from before a         *)
(* restart, the folds its peers offer, and the periods it proves itself,   *)
(* a turn at a time, while rounds go on and bring the view further.        *)
(*                                                                         *)
(* Heights count from the set's start.  A fold is its end and what its     *)
(* proof and the map over the view's own blocks make of it.  A turn's      *)
(* steps are its awaits; what a server answers is read between any two.    *)
(* Waits are what they keep from happening, without their lengths.         *)
(***************************************************************************)
EXTENDS Naturals, FiniteSets, FiniteSetsExt

CONSTANTS
    Peers,      \* the replicas asked for folds
    MaxHeight,  \* the view's last height
    Period,     \* PERIOD_BLOCKS
    KeptTries,  \* KEPT_TRIES
    MaxFaults   \* rows that cannot be read, files that cannot be written, proofs and verifications that fail to run, restarts

ASSUME FoldsAssumption == MaxHeight \in Nat /\ Period \in Nat \ {0}

\* "sound": verifies, and the map has its root; "unsound": verifies, and it has another; "refused": everything else,
\* a proof, a start, a key or an end header that is not the set's or the view's.
Folds == [end : 1 .. MaxHeight, is : {"sound", "unsound", "refused"}]
NoFold == [end |-> 0, is |-> "none"]
Unread == [end |-> 0, is |-> "unread"]  \* the kept file, before it is read
Failed == [end |-> 0, is |-> "failed"]  \* no answer, or bytes that are no fold

VARIABLES
    prover,      \* whether this replica proves
    top,         \* the view's height
    file,        \* exhaustion-fold.bin
    evidence,    \* whether a disagreement's file is in the directory
    server,      \* the map's end, the period pending, the latest fold and where the served map stands
    kept,        \* the kept fold not yet taken
    unverified,  \* how often the kept fold's verification could not run
    stopped, turn, offers, proving,
    resting,     \* whether a failed proof's wait runs
    silent,      \* the peers not asked now
    tries,       \* peer -> how often its fold's verification could not run
    faults

process == <<server, kept, unverified, stopped, turn, offers, proving, resting, silent, tries>>
replicaVars == <<prover, top, file, evidence, process, faults>>

Fresh == [ahead |-> 0, pending |-> 0, fold |-> NoFold, served |-> 0]

Started ==
    /\ server' = Fresh /\ kept' = Unread /\ unverified' = 0
    /\ stopped' = evidence
    /\ turn' = "rest" /\ offers' = {} /\ proving' = FALSE /\ resting' = FALSE
    /\ silent' = {} /\ tries' = [p \in Peers |-> 0]

\* A directory may hold a fold that an earlier set or release took.
ReplicaInit ==
    /\ prover \in BOOLEAN /\ top = 0
    /\ file \in {NoFold, [end |-> 1, is |-> "unsound"], [end |-> 2, is |-> "sound"], [end |-> 1, is |-> "refused"]}
    /\ evidence = FALSE
    /\ server = Fresh /\ kept = Unread /\ unverified = 0
    /\ stopped = FALSE
    /\ turn = "rest" /\ offers = {} /\ proving = FALSE /\ resting = FALSE
    /\ silent = {} /\ tries = [p \in Peers |-> 0]
    /\ faults = 0

Fault == faults < MaxFaults /\ faults' = faults + 1

(***************************************************************************)
(* The server: a fold adopted over the map's rows, and a period sealed.    *)
(***************************************************************************)
TakenAhead(s, fold) == [s EXCEPT !.ahead = fold.end, !.fold = fold]  \* Mutation: the served map stays where it was.
Taken(s, fold) == [ahead |-> fold.end, pending |-> 0, fold |-> fold, served |-> fold.end]
Appended(s, end) == [s EXCEPT !.ahead = end, !.pending = end]
Sealed(s) == Taken(s, [end |-> s.pending, is |-> "sound"])
PartAppended(s) == [s EXCEPT !.ahead = top]  \* Mutation: a map part-appended is not replaced.
Replaced(s) == Fresh

Kept(fold) ==
    \/ file' = fold /\ UNCHANGED faults
    \/ UNCHANGED file /\ Fault  \* served all the same; proved or asked for again after a restart

\* The fold is put aside as the evidence.  A file that cannot be moved or written is met again after a restart.
Disagrees(left) ==
    /\ stopped' = TRUE /\ turn' = "rest" /\ offers' = {}
    /\ \/ evidence' = TRUE /\ file' = left /\ UNCHANGED faults
       \/ UNCHANGED <<evidence, file>> /\ Fault
    /\ UNCHANGED <<prover, top, kept, unverified, proving, resting, silent, tries>>

(***************************************************************************)
(* A turn: the kept fold, then the peers', then a period.                  *)
(***************************************************************************)
Begin ==
    /\ turn = "rest" /\ ~proving /\ ~stopped
    /\ turn' = "kept"
    /\ UNCHANGED <<prover, top, file, evidence, server, kept, unverified, stopped, offers, proving, resting, silent, tries, faults>>

ReadKept ==
    /\ turn = "kept" /\ kept = Unread
    /\ \/ kept' = (IF file.is = "refused" THEN NoFold ELSE file) /\ UNCHANGED <<unverified, turn, faults>>
       \/ /\ file # NoFold /\ Fault  \* its verification could not run
          /\ unverified' = unverified + 1
          /\ IF unverified' < KeptTries THEN turn' = "rest" /\ UNCHANGED kept ELSE kept' = NoFold /\ UNCHANGED turn
    /\ UNCHANGED <<prover, top, file, evidence, server, stopped, offers, proving, resting, silent, tries>>

KeptWaits ==
    /\ turn = "kept" /\ kept # Unread
    /\ kept = NoFold \/ kept.end > top
    /\ turn' = (IF kept = NoFold THEN "peers" ELSE "rest")
    /\ UNCHANGED <<prover, top, file, evidence, server, kept, unverified, stopped, offers, proving, resting, silent, tries, faults>>

AdoptKept ==
    /\ turn = "kept" /\ kept \notin {Unread, NoFold} /\ kept.end <= top
    /\ kept' = NoFold /\ turn' = "peers"
    /\ \/ kept.is = "sound" /\ server' = Taken(server, kept) /\ UNCHANGED faults
       \/ Fault /\ server' = Replaced(server)  \* its rows could not be read, or its verification run
    /\ UNCHANGED <<prover, top, file, evidence, unverified, stopped, offers, proving, resting, silent, tries>>

KeptDisagrees ==
    /\ turn = "kept" /\ kept \notin {Unread, NoFold} /\ kept.end <= top /\ kept.is = "unsound"
    /\ Disagrees(NoFold) /\ UNCHANGED server

\* Above the map, or above the served fold where a period is pending.
Floor == IF server.pending = 0 THEN server.ahead ELSE server.fold.end

AskPeers ==
    /\ turn = "peers" /\ Floor < top
    /\ \E answers \in [Peers \ silent -> Folds \cup {NoFold, Failed}] :
         /\ silent' = silent \cup {p \in Peers \ silent : answers[p] = Failed}
         /\ offers' = {[peer |-> p, fold |-> answers[p]] : p \in {q \in Peers \ silent' : answers[q].end \in Floor + 1 .. top}}
    /\ turn' = "offers"
    /\ UNCHANGED <<prover, top, file, evidence, server, kept, unverified, stopped, proving, resting, tries, faults>>

PeersDone ==
    /\ \/ turn = "peers" /\ Floor >= top
       \/ turn = "offers" /\ offers = {}
    /\ turn' = "prove"
    /\ UNCHANGED <<prover, top, file, evidence, server, kept, unverified, stopped, offers, proving, resting, silent, tries, faults>>

Highest(offer) == turn = "offers" /\ offer \in offers /\ \A o \in offers : o.fold.end <= offer.fold.end

\* Over a pending period a fresh map takes the fold, in place of the pending one.
Take(offer) ==
    /\ Highest(offer) /\ offer.fold.is = "sound"
    /\ server' = Taken(server, offer.fold)
    /\ Kept(offer.fold)
    /\ turn' = "rest" /\ offers' = {} /\ resting' = FALSE /\ tries' = [tries EXCEPT ![offer.peer] = 0]
    /\ UNCHANGED <<prover, top, evidence, kept, unverified, stopped, proving, silent>>

OfferDisagrees(offer) ==
    /\ Highest(offer) /\ offer.fold.is = "unsound"
    /\ Disagrees(file) /\ UNCHANGED server

\* The map over the pending period stands; one part-appended is replaced and takes the kept fold again.
RowsFail(offer) ==
    /\ Highest(offer) /\ offer.fold.is # "refused" /\ Fault
    /\ IF server.pending = 0 THEN server' = Replaced(server) /\ kept' = Unread /\ unverified' = 0
                             ELSE UNCHANGED <<server, kept, unverified>>
    /\ turn' = "rest" /\ offers' = {}
    /\ UNCHANGED <<prover, top, file, evidence, stopped, proving, resting, silent, tries>>

Refuse(offer) ==
    /\ Highest(offer) /\ offer.fold.is = "refused"
    /\ silent' = silent \cup {offer.peer} /\ offers' = offers \ {offer}
    /\ UNCHANGED <<prover, top, file, evidence, server, kept, unverified, stopped, turn, proving, resting, tries, faults>>

Unverifiable(offer) ==
    /\ Highest(offer) /\ Fault
    /\ LET n == tries[offer.peer] + 1 IN
         /\ tries' = [tries EXCEPT ![offer.peer] = IF n >= KeptTries THEN 0 ELSE n]
         /\ silent' = IF n >= KeptTries THEN silent \cup {offer.peer} ELSE silent
    /\ offers' = offers \ {offer}
    /\ UNCHANGED <<prover, top, file, evidence, server, kept, unverified, stopped, turn, proving, resting>>

\* A pending period is proved alone; else the next, of at most Period blocks.
Prove ==
    /\ turn = "prove" /\ prover /\ ~resting
    /\ server.pending # 0 \/ server.ahead < top
    /\ server' = (IF server.pending # 0 THEN server ELSE Appended(server, Min({top, server.ahead + Period})))
    /\ proving' = TRUE /\ turn' = "rest"
    /\ UNCHANGED <<prover, top, file, evidence, kept, unverified, stopped, offers, resting, silent, tries, faults>>

NothingToProve ==
    /\ turn = "prove" /\ turn' = "rest"
    /\ \/ (~prover \/ resting \/ (server.pending = 0 /\ server.ahead >= top)) /\ UNCHANGED faults
       \/ server.pending = 0 /\ Fault  \* a block is not at hand
    /\ UNCHANGED <<prover, top, file, evidence, server, kept, unverified, stopped, offers, proving, resting, silent, tries>>

Turn ==
    \/ Begin \/ ReadKept \/ KeptWaits \/ AdoptKept \/ KeptDisagrees \/ AskPeers \/ PeersDone \/ Prove \/ NothingToProve
    \/ \E offer \in offers : Take(offer) \/ OfferDisagrees(offer) \/ RowsFail(offer) \/ Refuse(offer) \/ Unverifiable(offer)

(***************************************************************************)
(* Beside the turns.                                                       *)
(***************************************************************************)
Proved ==
    /\ proving /\ proving' = FALSE
    /\ server' = Sealed(server) /\ Kept(server'.fold)
    /\ UNCHANGED <<prover, top, evidence, kept, unverified, stopped, turn, offers, resting, silent, tries>>

ProveFails ==
    /\ proving /\ proving' = FALSE /\ Fault
    /\ resting' = TRUE
    /\ UNCHANGED <<prover, top, file, evidence, server, kept, unverified, stopped, turn, offers, silent, tries>>

Rested ==
    /\ resting /\ resting' = FALSE
    /\ UNCHANGED <<prover, top, file, evidence, server, kept, unverified, stopped, turn, offers, proving, silent, tries, faults>>

AskedAgain(p) ==
    /\ p \in silent /\ turn = "rest" /\ silent' = silent \ {p}
    /\ UNCHANGED <<prover, top, file, evidence, server, kept, unverified, stopped, turn, offers, proving, resting, tries, faults>>

\* A round's sync, between two turns.
Grow ==
    /\ turn = "rest" /\ top < MaxHeight /\ top' = top + 1
    /\ UNCHANGED <<prover, file, evidence, process, faults>>

\* The replica starts anew, perhaps over a view synced again from an earlier height.
Restart ==
    /\ Fault /\ Started
    /\ top' \in {0, top}
    /\ UNCHANGED <<prover, file, evidence>>

ReplicaNext == Turn \/ Proved \/ ProveFails \/ Rested \/ Grow \/ Restart \/ (\E p \in Peers : AskedAgain(p))

(* Turns and rounds alternate, and a round brings the view on; a proof, and a wait, ends. *)
ReplicaFairness == WF_replicaVars(Turn) /\ WF_replicaVars(Proved) /\ WF_replicaVars(Rested) /\ SF_replicaVars(Grow)
ReplicaSpec == ReplicaInit /\ [][ReplicaNext]_replicaVars /\ ReplicaFairness

(***************************************************************************)
(* Properties.                                                             *)
(***************************************************************************)
\* "it answers keys at its latest fold only": whatever fails in between, the served map stands at the latest fold, which
\* the map over the view's own blocks bears out, and a period is cut from there.
ServedAtLatestFold ==
    /\ server.served = server.fold.end
    /\ server.fold.is \in {"none", "sound"}
    /\ server.ahead = (IF server.pending = 0 THEN server.fold.end ELSE server.pending)
    /\ server.pending # 0 => server.pending > server.fold.end

\* "served no more, also after a restart": from a disagreement on the set is neither served nor proved, through every
\* restart that finds the evidence.
StopsForGood == (evidence => stopped) /\ (stopped => turn = "rest" /\ ~proving)

\* What is served is the latest fold the view bears out, and nothing once one was disagreed with.
FoldsSound == ServedAtLatestFold /\ StopsForGood

\* With a prover the fold comes to the view's height for good, whatever peers offer, unless a disagreement stops the set:
\* no row, file, proof or verification that fails a few times leaves the map where it cannot go on.
FoldReachesTop == prover => <>[](stopped \/ server.fold.end = MaxHeight)
=============================================================================
