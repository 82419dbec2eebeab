----------------------------- MODULE WalletKeys -----------------------------
(***************************************************************************)
(* The owner keys of a lit wallet across the files one seed lives in: the  *)
(* copies, backups and restorations of pool/v3/wallet-store.ts and the     *)
(* scan of lit/holdings.ts, for one backing.  A request or a change output *)
(* names the backing's next owner key; a restored instance must never name *)
(* a key its lost instance gave somebody else, must credit no request      *)
(* twice, and must find every output of the seed.                          *)
(*                                                                         *)
(* `ledger' is the canonical history's outputs to this seed's keys in the  *)
(* order they appear: a payer's (note 0) or the wallet's own, which spends *)
(* the note at position `note'.  A venue view is a prefix of it, and its   *)
(* length stands for the witnessed index.  Values, proofs, locks and the   *)
(* payees' outputs are left to module Wallet.                              *)
(*                                                                         *)
(* The holder is assumed to do what the wallet's guide asks: one instance  *)
(* is active at a time, a restoration is recorded once the others are gone,*)
(* a marked request is confirmed uncredited truthfully, a backup is        *)
(* restored once, and a restored wallet moves its window from a view       *)
(* caught up with the lost instance's.                                     *)
(***************************************************************************)
EXTENDS Integers, Sequences, FiniteSets, FiniteSetsExt

CONSTANTS
  LookAhead,   \* OWNER_LOOK_AHEAD: 256 in the code.
  MinWindow,   \* MIN_WINDOW: 512 in the code.
  MaxLives,    \* Bound: the instances lost and restored, one after another.
  MaxPayments, \* Bound: the payments to itself the seed signs.
  MaxKey,      \* Bound: the highest owner index named.
  MaxLedger    \* Bound: the outputs the history holds.

ASSUME KeysAssumption == LookAhead \in Nat \ {0} /\ MinWindow \in Nat \ {0} /\ MaxKey \in Nat

VARIABLES
  ledger,    \* The outputs to this seed's keys, in canonical order.
  wallet,    \* The instance in its own file: it acts unless it was exported.
  copy,      \* The bytes of a copy of it: COPIED refuses everything there until a restoration is recorded.
  lives,     \* The restorations made.
  backup,    \* The sealed handoff not yet restored.
  sent,      \* Every payment to itself the seed ever signed: the operator may still admit it.
  seenEver,  \* The longest prefix any instance read.
  asked,     \* The keys given to payers in requests.
  named,     \* How often each index was allocated, over all instances.
  credits    \* How often each request was credited, over all instances.

vars == <<ledger, wallet, copy, lives, backup, sent, seenEver, asked, named, credits>>

None == [instance |-> "none"]
Unknown == -2   \* owner_keys.exposed IS NULL
Unmarked == -1  \* the backing has no owner_restored row

Indices == 0..MaxKey
Larger(a, b) == IF a > b THEN a ELSE b

\* A new wallet (seeded: from its seed alone, so its exposure is unknown).
NewWallet(seeded) ==
  [frozen |-> FALSE, forked |-> FALSE,
   exposed |-> IF seeded THEN Unknown ELSE -1, high |-> -1, found |-> -1,
   since |-> Unmarked, after |-> {}, saved |-> {},
   requests |-> {}, credited |-> {}, doubtful |-> {}, seen |-> 0]

Init ==
  /\ ledger = <<>>
  /\ wallet = NewWallet(FALSE)
  /\ copy = None
  /\ backup = None
  /\ lives = 0
  /\ sent = {}
  /\ seenEver = 0
  /\ asked = {}
  /\ named = [k \in Indices |-> 0]
  /\ credits = [k \in Indices |-> 0]

-----------------------------------------------------------------------------
(* Who may act. *)

\* Nothing acts on an exported wallet, nor where another instance was seen acting.
Mutable == ~wallet.frozen
Unforked == Mutable /\ ~wallet.forked

-----------------------------------------------------------------------------
(* The scan: windows and reached indices. *)

\* The minimal window, doubled again and again: as often as any index that is named can need.
Doubled[i \in 0..MaxKey + LookAhead] == IF i = 0 THEN MinWindow ELSE 2 * Doubled[i - 1]
WindowsAbove(n) == {w \in {Doubled[i] : i \in 0..MaxKey + LookAhead} : w > n}

\* A plausible bug: the window covers the highest index reached and nothing ahead of it.
WindowBehind(h) == Min(WindowsAbove(h))

\* The smallest doubling of the minimal window above h + LookAhead.
WindowFor(h) == Min(WindowsAbove(h + LookAhead))
Windows == [h \in -1..MaxKey |-> WindowFor(h)]
Window(h) == Windows[h]

\* The highest index the restoration rule reaches: no gap below it spans LookAhead indices.
ReachedIn(S) ==
  Max({-1} \cup {k \in S : \A i \in S \cup {-1} : i < k => \E s \in S : i < s /\ s <= i + LookAhead})
ReachedOf == [S \in SUBSET Indices |-> ReachedIn(S)]
Reached(S) == ReachedOf[S]

\* The outputs of prefix n that a scan under w's window marks.
Marks(w, n) == {p \in 1..n : ledger[p].key < Window(w.high)}
KeysAt(ps) == {ledger[p].key : p \in ps}

Grew(w, v) == Window(v.high) > Window(w.high)

\* A plausible bug: the exposure of the first read since a restoration is never raised.
FoundUnraised(w, n) ==
  LET marks == Marks(w, n)
      high == Larger(w.high, Reached(KeysAt(marks)))
      top == Larger(w.found, Max({-1} \cup KeysAt(marks)))
      grew == Window(high) > Window(w.high)
      first == ~grew /\ w.exposed = Unknown
  IN [w EXCEPT !.high = high, !.found = top,
               !.forked = @ \/ (w.exposed # Unknown /\ top > w.found /\ top > w.exposed),
               !.exposed = IF first THEN high + LookAhead ELSE @,
               !.since = IF first THEN n ELSE @]

\* What one pass of a read at prefix n records, in one transaction.  A pass whose
\* window grew records no exposure, and the read runs again under the larger one.
Found(w, n) ==
  LET marks == Marks(w, n)
      kept == {p \in marks : w.since = Unmarked \/ ledger[p] \notin w.after}
      high == Larger(w.high, Reached(KeysAt(marks)))
      top == Larger(w.found, Max({-1} \cup KeysAt(marks)))
      exposed == IF w.since # Unmarked /\ w.exposed # Unknown /\ marks # {}
                   THEN Larger(w.exposed, Reached(KeysAt(kept)) + LookAhead) ELSE w.exposed
      grew == Window(high) > Window(w.high)
      first == ~grew /\ w.exposed = Unknown
  IN [w EXCEPT !.high = high, !.found = top,
               !.forked = @ \/ (exposed # Unknown /\ top > w.found /\ top > exposed),
               !.exposed = IF grew THEN @ ELSE IF first THEN high + LookAhead ELSE exposed,
               !.since = IF first THEN n ELSE @]

Sizes == Cardinality({Windows[h] : h \in -1..MaxKey})

\* The passes of one read, until a window no longer grows.
ReadAll(w, n) ==
  LET pass[i \in 0..Sizes] == IF i = 0 THEN w ELSE Found(pass[i - 1], n)
  IN pass[Sizes]

\* A sync's resolution records the index it decided at.
Saw(w, n) == [w EXCEPT !.seen = Larger(@, n)]

Sync(n) ==
  /\ Mutable
  /\ wallet' = Saw(ReadAll(wallet, n), n)
  /\ seenEver' = Larger(seenEver, n)
  /\ UNCHANGED <<ledger, copy, lives, backup, sent, asked, named, credits>>

\* A read that ends, or yields to another call, after a pass that grew its window:
\* InterruptedSpec only.
ReadPass(n) ==
  /\ Mutable
  /\ Grew(wallet, Found(wallet, n))
  /\ wallet' = Found(wallet, n)
  /\ seenEver' = Larger(seenEver, n)
  /\ UNCHANGED <<ledger, copy, lives, backup, sent, asked, named, credits>>

-----------------------------------------------------------------------------
(* Naming keys. *)

NextIndex(w) == Larger(w.exposed, w.found) + 1

CanAllocate(w) ==
  /\ w.exposed # Unknown
  /\ NextIndex(w) <= w.high + LookAhead
  /\ NextIndex(w) <= MaxKey

\* A key named past the window a restoration's reads fixed ends their raising.
Allocated(w, k) == [w EXCEPT !.exposed = k, !.since = Unmarked, !.after = {}]

Request ==
  /\ Unforked
  /\ CanAllocate(wallet)
  /\ LET k == NextIndex(wallet) IN
     /\ wallet' = [Allocated(wallet, k) EXCEPT !.requests = @ \cup {k}]
     /\ asked' = asked \cup {k}
     /\ named' = [named EXCEPT ![k] = @ + 1]
  /\ UNCHANGED <<ledger, copy, lives, backup, sent, seenEver, credits>>

Spent(p, n) == \E q \in 1..n : ledger[q].note = p

\* The notes a wallet holding w may spend at prefix n.
Spendable(w, n) == {p \in Marks(w, n) : ~Spent(p, n) /\ \A s \in w.saved : s.note # p}

\* What a payment decides from: its own read, of a view no older than one judged at.
Prepares(n) ==
  /\ Cardinality(sent) < MaxPayments
  /\ Unforked
  /\ n >= wallet.seen
  /\ ~ReadAll(wallet, n).forked
  /\ seenEver' = Larger(seenEver, n)

\* A payment of one note whose change goes to the next index, saved with the allocation.
PayWithChange(n) ==
  /\ Prepares(n)
  /\ LET w == ReadAll(wallet, n) IN
     /\ CanAllocate(w)
     /\ \E p \in Spendable(w, n) :
          LET s == [key |-> NextIndex(w), note |-> p] IN
          /\ wallet' = [Allocated(w, s.key) EXCEPT !.saved = @ \cup {s}]
          /\ sent' = sent \cup {s}
          /\ named' = [named EXCEPT ![s.key] = @ + 1]
  /\ UNCHANGED <<ledger, copy, lives, backup, asked, credits>>

\* A saved payment whose note something else spent in the view has failed.
Failed(s, n) == \E q \in 1..n : ledger[q].note = s.note /\ ledger[q] # s

\* The holder's part: a restored wallet's view holds all that any instance read.
CaughtUp(w, n) == w.since # Unmarked => n >= seenEver

\* A payment prepared from a checkpoint after the first read since a restoration.
SavedSinceRestoration(w, s, n) ==
  IF w.since # Unmarked /\ n > w.since THEN w.after \cup {s} ELSE w.after

\* A full window moves: a whole note to the highest exposed key, naming no new one.
MoveWindow(n) ==
  /\ Prepares(n)
  /\ LET w == ReadAll(wallet, n)
         target == Larger(w.exposed, w.found)
     IN /\ w.exposed # Unknown
        /\ CaughtUp(w, n)
        /\ target = w.high + LookAhead
        /\ target <= MaxKey
        /\ \A t \in w.saved : t.key = target => Failed(t, n)
        /\ \E p \in Spendable(w, n) :
             LET s == [key |-> target, note |-> p] IN
             /\ wallet' = [w EXCEPT !.saved = @ \cup {s}, !.after = SavedSinceRestoration(w, s, n)]
             /\ sent' = sent \cup {s}
  /\ UNCHANGED <<ledger, copy, lives, backup, asked, named, credits>>

-----------------------------------------------------------------------------
(* The history. *)

\* A payer pays a key a request gave it, once.
PayRequest(k) ==
  /\ Len(ledger) < MaxLedger
  /\ k \in asked
  /\ \A q \in 1..Len(ledger) : ledger[q] # [key |-> k, note |-> 0]
  /\ ledger' = Append(ledger, [key |-> k, note |-> 0])
  /\ UNCHANGED <<wallet, copy, lives, backup, sent, seenEver, asked, named, credits>>

\* A payment the seed signed, by a lost instance too, is admitted while its note is unspent.
Land(s) ==
  /\ Len(ledger) < MaxLedger
  /\ ~Spent(s.note, Len(ledger))
  /\ ledger' = Append(ledger, s)
  /\ UNCHANGED <<wallet, copy, lives, backup, sent, seenEver, asked, named, credits>>

\* An unspent output of another's funds to the request's key is credited to it, once.
Fulfil(k, n) ==
  /\ Unforked
  /\ k \in wallet.requests
  /\ \A c \in wallet.credited : c.key # k
  /\ k \in wallet.doubtful => credits[k] = 0
  /\ \E p \in 1..n :
       /\ ledger[p] = [key |-> k, note |-> 0]
       /\ ~Spent(p, n)
       /\ \A c \in wallet.credited : c.at # p
       /\ LET w == ReadAll(wallet, n) IN
          /\ ~w.forked
          /\ p \in Marks(w, n)
          /\ wallet' = Saw([w EXCEPT !.credited = @ \cup {[key |-> k, at |-> p]}, !.doubtful = @ \ {k}], n)
  /\ credits' = [credits EXCEPT ![k] = @ + 1]
  /\ seenEver' = Larger(seenEver, n)
  /\ UNCHANGED <<ledger, copy, lives, backup, sent, asked, named>>

-----------------------------------------------------------------------------
(* Custody. *)

\* The file is copied: a snapshot, a disk image, another machine.
Copy ==
  /\ lives < MaxLives
  /\ copy = None
  /\ copy' = wallet
  /\ UNCHANGED <<ledger, wallet, lives, backup, sent, seenEver, asked, named, credits>>

\* Export and freeze commit together.
ExportBackup ==
  /\ lives < MaxLives
  /\ Unforked
  /\ wallet' = [wallet EXCEPT !.frozen = TRUE]
  /\ backup' = wallet
  /\ UNCHANGED <<ledger, copy, lives, sent, seenEver, asked, named, credits>>

\* The instance is lost, or frozen, and another made of what is left.
Restore(w) ==
  /\ lives < MaxLives
  /\ wallet' = w
  /\ backup' = None
  /\ lives' = lives + 1
  /\ UNCHANGED <<ledger, copy, sent, seenEver, asked, named, credits>>

RestoreBackup == backup # None /\ Restore(backup)

RestoreSeed == Restore(NewWallet(TRUE))

\* A plausible bug: a restoration leaves the requests unmarked.
OpenNone(w) == {}

\* The requests a restoration cannot know to be uncredited.
Open(w) == {k \in w.requests : \A c \in w.credited : c.key # k}

\* The copy becomes the wallet: exposure unknown, unfulfilled requests marked.
RecordRestoration ==
  /\ copy # None
  /\ ~copy.frozen
  /\ Restore([copy EXCEPT !.exposed = Unknown, !.since = Unmarked, !.after = {},
                           !.doubtful = @ \cup Open(copy), !.forked = FALSE])

Next ==
  \/ \E n \in 0..Len(ledger) : \/ Sync(n) \/ PayWithChange(n) \/ MoveWindow(n)
                              \/ \E k \in Indices : Fulfil(k, n)
  \/ Request
  \/ Copy \/ ExportBackup
  \/ RestoreBackup \/ RestoreSeed \/ RecordRestoration
  \/ \E k \in Indices : PayRequest(k)
  \/ \E s \in sent : Land(s)

\* Each read runs its passes in one turn.
Spec == Init /\ [][Next]_vars

\* As the code is: other calls, a crash or a failed pass may come between them.
InterruptedSpec == Init /\ [][Next \/ \E n \in 0..Len(ledger) : ReadPass(n)]_vars

-----------------------------------------------------------------------------

\* No owner key is ever named twice: whatever an instance was lost with, the
\* restored one's requests and change never take a key already given out
\* (allocate, found and recordRestoration of wallet-store.ts).
KeyNamedOnce == \A k \in Indices : named[k] <= 1

\* A request is credited once over all the instances of the seed, though the
\* lost one's credits are in no evidence a restored one reads (keyedFulfill).
CreditedOnce == \A k \in Indices : credits[k] <= 1

\* A completed read marks every output to the seed's keys its view holds: the
\* windows a restored wallet reads under miss none of its funds (C4.6).
FundsFound ==
  Mutable => Marks(wallet, wallet.seen) = 1..wallet.seen
=============================================================================
