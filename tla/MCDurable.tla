------------------------------ MODULE MCDurable ------------------------------
(* What survives a crash. The publisher's outbox: two records over two       *)
(* boxes, one of which needs both. The operator's journal: copies restored   *)
(* beside the file they were taken from, and one file whose processes crash, *)
(* restart and replace one another on longer bounds. A behaviour runs one    *)
(* part and leaves the others at their start.                                *)
EXTENDS ErgoPublisher, OperatorJournal

CONSTANTS Large, First

VARIABLE part

MCNeeds == [r \in Records |-> IF r = Large THEN 2 ELSE 1]

MCSpacings == {0, 1}

\* One file, of which no backup is taken: longer bounds.
OneFile == INSTANCE OperatorJournal WITH
  Spacings <- {}, Duration <- 2, MaxIndex <- 5, MaxOwner <- 3

\* Statements are interchangeable: where none is in use, First comes first.
Used == {op.statement : op \in ops} \cup {r.statement : r \in Receipts}

FirstStatement == Statements \cap Used = {} => Statements \cap Used' \subseteq {First}

MCInit == part \in {"copies", "processes", "publisher"} /\ Init /\ JournalInit

MCNext ==
  /\ UNCHANGED part
  /\ \/ part = "publisher" /\ Next /\ UNCHANGED journal
     \/ part = "copies" /\ JournalNext /\ UNCHANGED vars /\ FirstStatement
     \/ /\ part = "processes" /\ OneFile!JournalNext /\ UNCHANGED vars /\ FirstStatement
        /\ \A f \in Files \ {Original} : files'[f] = files[f]

MCSpec == MCInit /\ [][MCNext]_<<part, vars, journal>>
=============================================================================
