------------------------------- MODULE Stock -------------------------------
(***************************************************************************)
(* The stock ledger and the services that write it under its position      *)
(* locks: POS checkout, manual adjustments and stock transfers.            *)
(*                                                                         *)
(* A position is a variant at a location; its on-hand is the sum of its    *)
(* StockLedgerEntry rows.  A guarded movement is one READ COMMITTED        *)
(* transaction: it takes the advisory lock of every position it moves, in  *)
(* the order of the lock keys, reads each on-hand, refuses to go below     *)
(* zero and commits all its rows.  Other services write ledger rows with   *)
(* no lock and no check; they appear here as single commits.               *)
(*                                                                         *)
(* Position is 1 .. N: the numbers are the order lockInventoryPositionsTx  *)
(* sorts the keys into.                                                    *)
(***************************************************************************)
EXTENDS Integers, FiniteSetsExt

CONSTANTS
  N,           \* the number of positions
  Txn,         \* database transactions (overlapping requests)
  Transfer,    \* stock transfers
  Route,       \* what a transfer moves: minus at its source, plus at its target
  Baskets,     \* the quantities a checkout sells, per position
  Amounts,     \* the quantities of an adjustment
  Opening,     \* opening stock per position
  MaxStock,    \* bound on the stock of a position that is added to
  MaxDrawn,    \* bound on the unchecked draws from a position
  NoTransfer

Position == 1 .. N
Movement == [Position -> Int]

ASSUME PositionsAssumption == N \in Nat
ASSUME OpeningAssumption == Opening \in [Position -> Nat]
ASSUME MovementsAssumption ==
  /\ Route \in [Transfer -> Movement]
  /\ Baskets \subseteq [Position -> Nat]
  /\ Amounts \subseteq Int \ {0}
ASSUME NoneAssumption == NoTransfer \notin Transfer

VARIABLES
  onHand,      \* the committed sum of each position's ledger rows
  drawn,       \* what was taken from each position past the check (history)
  status,      \* StockTransfer.status, "NONE" before it is created
  moved,       \* how often a transfer's movements were committed (history)
  job,         \* what each transaction runs, "idle" when none
  delta,       \* the ledger rows it is going to write
  override,    \* allowNegativeStock
  row,         \* the transfer whose row it holds FOR UPDATE
  held,        \* the advisory locks it holds
  checked      \* the positions whose on-hand it has read and accepted

stock == <<onHand, drawn>>
transfers == <<status, moved>>
session == <<job, delta, override, row>>
vars == <<onHand, drawn, status, moved, job, delta, override, row, held, checked>>

TransferStatuses == {"NONE", "DRAFT", "SENT", "RECEIVED", "CANCELLED"}
Closed == {"RECEIVED", "CANCELLED"}
Nothing == [p \in Position |-> 0]

Init ==
  /\ onHand = Opening /\ drawn = Nothing
  /\ status = [x \in Transfer |-> "NONE"] /\ moved = [x \in Transfer |-> 0]
  /\ job = [t \in Txn |-> "idle"]
  /\ delta = [t \in Txn |-> Nothing]
  /\ override = [t \in Txn |-> FALSE]
  /\ row = [t \in Txn |-> NoTransfer]
  /\ held = [t \in Txn |-> {}]
  /\ checked = [t \in Txn |-> {}]

-----------------------------------------------------------------------------
(***************************************************************************)
(* Guarded movements.                                                      *)
(***************************************************************************)
Begin(t, j, d, o, x) ==
  /\ job[t] = "idle"
  /\ job' = [job EXCEPT ![t] = j]
  /\ delta' = [delta EXCEPT ![t] = d]
  /\ override' = [override EXCEPT ![t] = o]
  /\ row' = [row EXCEPT ![t] = x]
  /\ UNCHANGED <<stock, transfers, held, checked>>

RowIsFree(x) == \A t \in Txn : row[t] # x

\* The stock half of checkoutBasketToSale; a basket sells at one location.
Checkout(t, basket) ==
  Begin(t, "checkout", [p \in Position |-> 0 - basket[p]], FALSE, NoTransfer)

\* createStockAdjustment, recordAdjustment and recordMovement.
Adjust(t, p, q, o) ==
  /\ IF q > 0 THEN onHand[p] < MaxStock ELSE o => drawn[p] < MaxDrawn
  /\ Begin(t, "adjust", [Nothing EXCEPT ![p] = q], o, NoTransfer)

\* mutant: a replay of a received transfer runs again
ReceiveAgain(t, x) ==
  /\ RowIsFree(x)
  /\ status[x] \in {"SENT", "RECEIVED"}
  /\ Begin(t, "receive", Route[x], FALSE, x)

\* receiveStockTransfer up to its position locks.  A RECEIVED transfer is
\* returned as it is and any other status but SENT refused: nothing changes.
ReceiveTransfer(t, x) ==
  /\ RowIsFree(x)
  /\ status[x] = "SENT"
  /\ Begin(t, "receive", Route[x], FALSE, x)

Needs(t) == {p \in Position : delta[t][p] # 0}
Wanted(t) == Needs(t) \ held[t]
\* mutant: the caller's order: a source location before its target
SourceFirst(t) == CHOOSE p \in Wanted(t) : \A r \in Wanted(t) : delta[t][p] <= delta[t][r]
NextLock(t) == Min(Wanted(t))

\* One pg_advisory_xact_lock of lockInventoryPositionsTx.
LockNext(t) ==
  /\ job[t] # "idle"
  /\ Wanted(t) # {}
  /\ \A u \in Txn : NextLock(t) \notin held[u]
  /\ held' = [held EXCEPT ![t] = @ \cup {NextLock(t)}]
  /\ UNCHANGED <<stock, transfers, session, checked>>

\* assertNonNegativeProjectedStockTx, and the availability test of a receive.
Allowed(t, p) == override[t] \/ delta[t][p] >= 0 \/ onHand[p] + delta[t][p] >= 0

\* mutant: the on-hand is read before the locks are held
CheckBeforeLocking(t, p) ==
  /\ p \in Needs(t) \ checked[t]
  /\ Allowed(t, p)
  /\ checked' = [checked EXCEPT ![t] = @ \cup {p}]
  /\ UNCHANGED <<stock, transfers, session, held>>

Check(t, p) ==
  /\ job[t] # "idle"
  /\ Wanted(t) = {}
  /\ p \in Needs(t) \ checked[t]
  /\ Allowed(t, p)
  /\ checked' = [checked EXCEPT ![t] = @ \cup {p}]
  /\ UNCHANGED <<stock, transfers, session, held>>

\* The end of a transaction drops its locks.
Release(t) ==
  /\ job' = [job EXCEPT ![t] = "idle"]
  /\ delta' = [delta EXCEPT ![t] = Nothing]
  /\ override' = [override EXCEPT ![t] = FALSE]
  /\ row' = [row EXCEPT ![t] = NoTransfer]
  /\ held' = [held EXCEPT ![t] = {}]
  /\ checked' = [checked EXCEPT ![t] = {}]

\* What a movement takes that no check has covered.
Past(t, p) == IF override[t] /\ delta[t][p] < 0 THEN 0 - delta[t][p] ELSE 0

Commit(t) ==
  /\ job[t] # "idle"
  /\ checked[t] = Needs(t)
  /\ onHand' = [p \in Position |-> onHand[p] + delta[t][p]]
  /\ drawn' = [p \in Position |-> drawn[p] + Past(t, p)]
  /\ status' = [x \in Transfer |-> IF row[t] = x THEN "RECEIVED" ELSE status[x]]
  /\ moved' = [x \in Transfer |-> IF row[t] = x THEN moved[x] + 1 ELSE moved[x]]
  /\ Release(t)

\* A refusal (SALE_STOCK_INSUFFICIENT, NEGATIVE_STOCK_NOT_ALLOWED,
\* STOCK_TRANSFER_INSUFFICIENT_STOCK), a database error or the interactive
\* transaction's timeout: nothing is written.
Rollback(t) ==
  /\ job[t] # "idle"
  /\ Release(t)
  /\ UNCHANGED <<stock, transfers>>

-----------------------------------------------------------------------------
(***************************************************************************)
(* Transfers between their other statuses; each is one transaction under   *)
(* the row lock, and no stock moves.                                       *)
(***************************************************************************)
SetStatus(x, s) ==
  /\ status' = [status EXCEPT ![x] = s]
  /\ UNCHANGED <<stock, moved, session, held, checked>>

CreateTransfer(x) == status[x] = "NONE" /\ SetStatus(x, "DRAFT")

SendTransfer(x) ==
  /\ RowIsFree(x)
  /\ status[x] = "DRAFT"
  /\ SetStatus(x, "SENT")

\* mutant: a plain SELECT in cancelStockTransfer
CancelUnlocked(x) ==
  /\ status[x] \notin Closed \cup {"NONE"}
  /\ SetStatus(x, "CANCELLED")

CancelTransfer(x) ==
  /\ RowIsFree(x)
  /\ status[x] \notin Closed \cup {"NONE"}
  /\ SetStatus(x, "CANCELLED")

-----------------------------------------------------------------------------
(***************************************************************************)
(* Ledger writers that take no position lock.                              *)
(***************************************************************************)
\* Exchange sales, workshop parts and workshop finalization.
DrawUnlocked(p) ==
  /\ drawn[p] < MaxDrawn
  /\ onHand' = [onHand EXCEPT ![p] = @ - 1]
  /\ drawn' = [drawn EXCEPT ![p] = @ + 1]
  /\ UNCHANGED <<transfers, session, held, checked>>

\* Goods in, returns, refunds, layaway releases, a sale returned to its basket.
PutUnlocked(p) ==
  /\ onHand[p] < MaxStock
  /\ onHand' = [onHand EXCEPT ![p] = @ + 1]
  /\ UNCHANGED <<drawn, transfers, session, held, checked>>

-----------------------------------------------------------------------------
Guarded(t) ==
  \/ \E basket \in Baskets : Checkout(t, basket)
  \/ \E p \in Position, q \in Amounts, o \in BOOLEAN : Adjust(t, p, q, o)
  \/ \E x \in Transfer : ReceiveTransfer(t, x)
  \/ LockNext(t)
  \/ \E p \in Position : Check(t, p)
  \/ Commit(t)
  \/ Rollback(t)

Desk(x) == CreateTransfer(x) \/ SendTransfer(x) \/ CancelTransfer(x)
Unlocked(p) == DrawUnlocked(p) \/ PutUnlocked(p)

Next ==
  \/ \E t \in Txn : Guarded(t)
  \/ \E x \in Transfer : Desk(x)
  \/ \E p \in Position : Unlocked(p)

Spec == Init /\ [][Next]_vars

-----------------------------------------------------------------------------
\* Every variable has its type, and a transaction that ended holds no lock.
StockTypeOK ==
  /\ onHand \in Movement /\ drawn \in [Position -> Nat]
  /\ status \in [Transfer -> TransferStatuses] /\ moved \in [Transfer -> Nat]
  /\ job \in [Txn -> {"idle", "checkout", "adjust", "receive"}]
  /\ delta \in [Txn -> Movement] /\ override \in [Txn -> BOOLEAN]
  /\ row \in [Txn -> Transfer \cup {NoTransfer}]
  /\ held \in [Txn -> SUBSET Position] /\ checked \in [Txn -> SUBSET Position]
  /\ \A t \in Txn : job[t] = "idle" => held[t] = {} /\ row[t] = NoTransfer

\* A position is short only by what an override or an unlocked service took
\* from it: no interleaving of checkouts, adjustments and transfers oversells.
StockIsCovered == \A p \in Position : onHand[p] + drawn[p] >= 0

\* The stock of a transfer has moved once if it is RECEIVED, and else not:
\* two receives, or a receive and a cancel, cannot both act on it.
TransferMovesOnce ==
  \A x \in Transfer : moved[x] = IF status[x] = "RECEIVED" THEN 1 ELSE 0

\* t waits for a position lock that u holds.
WaitsFor(t, u) == job[t] # "idle" /\ Wanted(t) # {} /\ NextLock(t) \in held[u]

\* Movements never wait for each other in a circle.
NoWaitCycle ==
  \A S \in SUBSET Txn : S # {} => \E t \in S : \A u \in S : ~ WaitsFor(t, u)

\* A transfer that was received or cancelled keeps that status.
ClosedTransferStays ==
  [][\A x \in Transfer : status[x] \in Closed => status'[x] = status[x]]_vars

=============================================================================
