-------------------------- MODULE StocktakesProofs --------------------------
(***************************************************************************)
(* Proofs about Stock and about Stocktakes, which builds on it, for any    *)
(* number of positions, transactions, transfers and stocktakes, any        *)
(* routes, baskets, adjustments and bounds.                                *)
(*                                                                         *)
(* Stock: that a movement keeps its positions covered rests on the locks:  *)
(* no two transactions hold the same one (LocksExclude), so what a check   *)
(* accepted (CheckedIsCovered) is undone by no other guarded movement      *)
(* before the commit; an unlocked draw may undo it, and is on record in    *)
(* drawn.                                                                  *)
(*                                                                         *)
(* Stocktakes: a posting holds its stocktake's row alone, and the row      *)
(* stays OPEN as long (PostingHoldsRow); what it is going to add to a      *)
(* position is the difference of the count to the stock unless something   *)
(* moved under it (DeltaFitsCount); and whoever serves no posting takes    *)
(* its position locks in ascending order (LocksAscendElsewhere).           *)
(***************************************************************************)
EXTENDS Stocktakes, WellFoundedInduction, TLAPS

-----------------------------------------------------------------------------
LocksExclude == \A t, u \in Txn : t # u => held[t] \cap held[u] = {}

ChecksFollowLocks ==
  \A t \in Txn : checked[t] \subseteq held[t] /\ held[t] \subseteq Needs(t)

CheckedIsCovered ==
  \A t \in Txn : \A p \in checked[t] :
    ~ override[t] => onHand[p] + drawn[p] + delta[t][p] >= 0

\* The locks a transaction holds come before those it still wants.
LocksAscend == \A t \in Txn : \A p \in held[t], r \in Wanted(t) : p < r

RowsExclude ==
  /\ \A t, u \in Txn : row[t] = row[u] /\ row[t] # NoTransfer => t = u
  /\ \A t \in Txn : row[t] # NoTransfer => status[row[t]] = "SENT"

IInv ==
  /\ StockTypeOK
  /\ LocksExclude
  /\ ChecksFollowLocks
  /\ CheckedIsCovered
  /\ LocksAscend
  /\ RowsExclude
  /\ StockIsCovered
  /\ TransferMovesOnce

-----------------------------------------------------------------------------
(* Order of the lock keys.                                                  *)

LEMMA MinOfNats ==
  ASSUME NEW S, S \subseteq Nat, S # {}
  PROVE  Min(S) \in S /\ \A r \in S : Min(S) <= r
<1>1. PICK x \in S : \A y \in S : <<y, x>> \notin OpToRel(<, Nat)
  BY NatLessThanWellFounded, WFMin, Zenon
<1>2. x \in Nat /\ \A y \in S : ~ (y < x)
  BY <1>1, Zenon DEF OpToRel
<1>3. \A y \in S : x <= y
  BY <1>2
<1> QED
  BY <1>3 DEF Min

LEMMA NextLockIsLeast ==
  ASSUME NEW t \in Txn, Wanted(t) # {}
  PROVE  /\ NextLock(t) \in Wanted(t)
         /\ \A r \in Wanted(t) : NextLock(t) <= r
BY MinOfNats, PositionsAssumption DEF NextLock, Wanted, Needs, Position

LEMMA NothingIsAMovement == Nothing \in Movement
BY DEF Nothing, Movement

LEMMA NothingNeedsNothing ==
  ASSUME NEW t \in Txn, StockTypeOK, delta[t] = Nothing
  PROVE  Needs(t) = {} /\ Wanted(t) = {}
BY DEF Needs, Wanted, Nothing

LEMMA IdleNeedsNothing ==
  ASSUME NEW t \in Txn, IInv, job[t] = "idle"
  PROVE  held[t] = {} /\ checked[t] = {} /\ row[t] = NoTransfer
BY DEF IInv, StockTypeOK, ChecksFollowLocks

-----------------------------------------------------------------------------
(* The initial states.                                                      *)

LEMMA InitEstablishes == Init => IInv
<1> SUFFICES ASSUME Init PROVE IInv
  OBVIOUS
<1>1. StockTypeOK
  BY NothingIsAMovement, OpeningAssumption
  DEF Init, StockTypeOK, Movement, Nothing, TransferStatuses
<1>2. LocksExclude /\ ChecksFollowLocks /\ CheckedIsCovered /\ LocksAscend
  BY DEF Init, LocksExclude, ChecksFollowLocks, CheckedIsCovered, LocksAscend
<1>3. RowsExclude /\ TransferMovesOnce
  BY DEF Init, RowsExclude, TransferMovesOnce
<1>4. StockIsCovered
  BY OpeningAssumption DEF Init, StockIsCovered, Nothing
<1> QED
  BY <1>1, <1>2, <1>3, <1>4 DEF IInv

-----------------------------------------------------------------------------
(* Guarded movements.                                                       *)

(* Checkout, Adjust and ReceiveTransfer: an idle transaction holds no lock  *)
(* and has checked nothing, so any rows may become its delta.               *)
LEMMA BeginPreserves ==
  ASSUME NEW t \in Txn, NEW j \in {"checkout", "adjust", "receive"},
         NEW d \in Movement, NEW o \in BOOLEAN,
         NEW x \in Transfer \cup {NoTransfer},
         x # NoTransfer => RowIsFree(x) /\ status[x] = "SENT",
         IInv, Begin(t, j, d, o, x)
  PROVE  IInv'
<1> USE DEF Begin, session, stock, transfers
<1>1. held[t] = {} /\ checked[t] = {}
  BY IdleNeedsNothing
<1>2. StockTypeOK'
  BY DEF IInv, StockTypeOK
<1>3. LocksExclude'
  BY DEF IInv, LocksExclude
<1>4. ChecksFollowLocks'
  BY <1>1 DEF IInv, StockTypeOK, ChecksFollowLocks, Needs
<1>5. CheckedIsCovered'
  BY <1>1 DEF IInv, StockTypeOK, CheckedIsCovered
<1>6. LocksAscend'
  BY <1>1 DEF IInv, StockTypeOK, LocksAscend, Wanted, Needs
<1>7. RowsExclude'
  BY DEF IInv, StockTypeOK, RowsExclude, RowIsFree
<1>8. StockIsCovered' /\ TransferMovesOnce'
  BY DEF IInv, StockIsCovered, TransferMovesOnce
<1> QED
  BY <1>2, <1>3, <1>4, <1>5, <1>6, <1>7, <1>8 DEF IInv

LEMMA LockPreserves ==
  ASSUME NEW t \in Txn, IInv, LockNext(t)
  PROVE  IInv'
<1> USE DEF LockNext, session, stock, transfers
<1> DEFINE p == NextLock(t)
<1>1. /\ p \in Wanted(t)
      /\ \A r \in Wanted(t) : p <= r
  BY NextLockIsLeast
<1>2. p \in Position /\ p \in Needs(t) /\ p \notin held[t]
  BY <1>1 DEF Wanted, Needs
<1>3. held' = [held EXCEPT ![t] = @ \cup {p}] /\ \A u \in Txn : p \notin held[u]
  OBVIOUS
<1> HIDE DEF p
<1>4. StockTypeOK'
  BY <1>2, <1>3 DEF IInv, StockTypeOK
<1>5. LocksExclude'
  BY <1>3 DEF IInv, StockTypeOK, LocksExclude
<1>6. ChecksFollowLocks'
  BY <1>2, <1>3 DEF IInv, StockTypeOK, ChecksFollowLocks, Needs
<1>7. CheckedIsCovered'
  BY DEF IInv, CheckedIsCovered
<1>8. LocksAscend'
  <2> SUFFICES ASSUME NEW u \in Txn, NEW q \in held'[u], NEW r \in Wanted(u)'
               PROVE  q < r
    BY DEF LocksAscend
  <2>1. r \in Wanted(u)
    BY <1>3 DEF Wanted, Needs, IInv, StockTypeOK
  <2>2. CASE q \in held[u]
    BY <2>1, <2>2 DEF IInv, LocksAscend
  <2>3. CASE q \notin held[u]
    <3>1. u = t /\ q = p
      BY <1>3, <2>3 DEF IInv, StockTypeOK
    <3>2. p <= r /\ r # p
      BY <1>1, <1>3, <2>1, <3>1 DEF Wanted, IInv, StockTypeOK
    <3>3. p \in Nat /\ r \in Nat
      BY <1>2, <2>1, PositionsAssumption DEF Wanted, Needs, Position
    <3> QED
      BY <3>1, <3>2, <3>3
  <2> QED
    BY <2>2, <2>3
<1>9. RowsExclude' /\ StockIsCovered' /\ TransferMovesOnce'
  BY DEF IInv, RowsExclude, StockIsCovered, TransferMovesOnce
<1> QED
  BY <1>4, <1>5, <1>6, <1>7, <1>8, <1>9 DEF IInv

LEMMA CheckPreserves ==
  ASSUME NEW t \in Txn, NEW p \in Position, IInv, Check(t, p)
  PROVE  IInv'
<1> USE DEF Check, session, stock, transfers
<1>1. p \in held[t]
  BY DEF Wanted
<1>2. StockTypeOK'
  BY DEF IInv, StockTypeOK
<1>3. ChecksFollowLocks'
  BY <1>1 DEF IInv, StockTypeOK, ChecksFollowLocks, Needs
<1>4. CheckedIsCovered'
  <2> SUFFICES ASSUME NEW u \in Txn, NEW q \in checked'[u], ~ override[u]
               PROVE  onHand[q] + drawn[q] + delta[u][q] >= 0
    BY DEF CheckedIsCovered
  <2>1. CASE q \in checked[u]
    BY <2>1 DEF IInv, CheckedIsCovered
  <2>2. CASE q \notin checked[u]
    <3>1. u = t /\ q = p
      BY <2>2 DEF IInv, StockTypeOK
    <3>2. delta[t][p] >= 0 \/ onHand[p] + delta[t][p] >= 0
      BY <3>1 DEF Allowed
    <3>3. /\ onHand[p] \in Int /\ drawn[p] \in Nat /\ delta[t][p] \in Int
          /\ onHand[p] + drawn[p] >= 0
      BY DEF IInv, StockTypeOK, StockIsCovered, Movement
    <3> QED
      BY <3>1, <3>2, <3>3
  <2> QED
    BY <2>1, <2>2
<1>5. LocksExclude' /\ LocksAscend' /\ RowsExclude'
  BY DEF IInv, LocksExclude, LocksAscend, RowsExclude, Wanted, Needs
<1>6. StockIsCovered' /\ TransferMovesOnce'
  BY DEF IInv, StockIsCovered, TransferMovesOnce
<1> QED
  BY <1>2, <1>3, <1>4, <1>5, <1>6 DEF IInv

(* The end of a transaction, as far as the locks go: whoever is left holds   *)
(* and has checked what it did before.                                       *)
LEMMA ReleaseKeepsLocks ==
  ASSUME NEW t \in Txn, IInv, Release(t)
  PROVE  /\ LocksExclude' /\ ChecksFollowLocks' /\ LocksAscend'
         /\ job' \in [Txn -> {"idle", "checkout", "adjust", "receive"}]
         /\ delta' \in [Txn -> Movement] /\ override' \in [Txn -> BOOLEAN]
         /\ row' \in [Txn -> Transfer \cup {NoTransfer}]
         /\ held' \in [Txn -> SUBSET Position]
         /\ checked' \in [Txn -> SUBSET Position]
         /\ \A u \in Txn : job'[u] = "idle" => held'[u] = {} /\ row'[u] = NoTransfer
         /\ checked'[t] = {} /\ row'[t] = NoTransfer
         /\ \A u \in Txn \ {t} : /\ checked'[u] = checked[u]
                                /\ delta'[u] = delta[u]
                                /\ override'[u] = override[u]
                                /\ row'[u] = row[u]
<1> USE DEF Release
<1>1. /\ job' \in [Txn -> {"idle", "checkout", "adjust", "receive"}]
      /\ delta' \in [Txn -> Movement] /\ override' \in [Txn -> BOOLEAN]
      /\ row' \in [Txn -> Transfer \cup {NoTransfer}]
      /\ held' \in [Txn -> SUBSET Position]
      /\ checked' \in [Txn -> SUBSET Position]
  BY NothingIsAMovement DEF IInv, StockTypeOK
<1>2. \A u \in Txn : job'[u] = "idle" => held'[u] = {} /\ row'[u] = NoTransfer
  BY DEF IInv, StockTypeOK
<1>3. /\ held'[t] = {} /\ checked'[t] = {} /\ row'[t] = NoTransfer
      /\ \A u \in Txn \ {t} : /\ held'[u] = held[u] /\ checked'[u] = checked[u]
                             /\ delta'[u] = delta[u]
                             /\ override'[u] = override[u]
                             /\ row'[u] = row[u]
  BY DEF IInv, StockTypeOK
<1>4. LocksExclude'
  BY <1>3 DEF IInv, LocksExclude
<1>5. ChecksFollowLocks'
  BY <1>3 DEF IInv, ChecksFollowLocks, Needs
<1>6. LocksAscend'
  BY <1>3 DEF IInv, LocksAscend, Wanted, Needs
<1> QED
  BY <1>1, <1>2, <1>3, <1>4, <1>5, <1>6

LEMMA RollbackPreserves ==
  ASSUME NEW t \in Txn, IInv, Rollback(t)
  PROVE  IInv'
<1> USE DEF Rollback, stock, transfers
<1>1. Release(t)
  OBVIOUS
<1>2. StockTypeOK'
  BY <1>1, ReleaseKeepsLocks DEF IInv, StockTypeOK
<1>3. CheckedIsCovered'
  BY <1>1, ReleaseKeepsLocks DEF IInv, CheckedIsCovered
<1>4. RowsExclude'
  BY <1>1, ReleaseKeepsLocks DEF IInv, RowsExclude
<1>5. StockIsCovered' /\ TransferMovesOnce'
  BY DEF IInv, StockIsCovered, TransferMovesOnce
<1> QED
  BY <1>1, <1>2, <1>3, <1>4, <1>5, ReleaseKeepsLocks DEF IInv

(* What a committing transaction moves it holds the lock of, so no other     *)
(* transaction has checked it: the others' checks stand.                     *)
LEMMA CommitPreserves ==
  ASSUME NEW t \in Txn, IInv, Commit(t)
  PROVE  IInv'
<1> USE DEF Commit
<1>1. Release(t)
  OBVIOUS
<1>2. \A p \in Position : /\ onHand[p] \in Int /\ drawn[p] \in Nat
                         /\ delta[t][p] \in Int /\ Past(t, p) \in Nat
                         /\ onHand[p] + drawn[p] >= 0
                         /\ onHand'[p] = onHand[p] + delta[t][p]
                         /\ drawn'[p] = drawn[p] + Past(t, p)
  BY DEF IInv, StockTypeOK, StockIsCovered, Movement, Past
<1>3. onHand' \in Movement /\ drawn' \in [Position -> Nat]
  BY <1>2 DEF Movement
<1>4. status' \in [Transfer -> TransferStatuses] /\ moved' \in [Transfer -> Nat]
  BY DEF IInv, StockTypeOK, TransferStatuses
<1>5. StockTypeOK'
  BY <1>1, <1>3, <1>4, ReleaseKeepsLocks DEF StockTypeOK
<1>6. StockIsCovered'
  <2> SUFFICES ASSUME NEW p \in Position PROVE onHand'[p] + drawn'[p] >= 0
    BY DEF StockIsCovered
  <2>1. CASE p \notin Needs(t)
    BY <1>2, <2>1 DEF Needs
  <2>2. CASE p \in Needs(t) /\ override[t]
    BY <1>2, <2>2 DEF Past
  <2>3. CASE p \in Needs(t) /\ ~ override[t]
    <3>1. onHand[p] + drawn[p] + delta[t][p] >= 0
      BY <2>3 DEF IInv, CheckedIsCovered
    <3> QED
      BY <1>2, <3>1
  <2> QED
    BY <2>1, <2>2, <2>3
<1>7. CheckedIsCovered'
  <2> SUFFICES ASSUME NEW u \in Txn, NEW p \in checked'[u], ~ override'[u]
               PROVE  onHand'[p] + drawn'[p] + delta'[u][p] >= 0
    BY DEF CheckedIsCovered
  <2>1. /\ u # t /\ p \in checked[u] /\ ~ override[u]
        /\ delta'[u] = delta[u]
    BY <1>1, ReleaseKeepsLocks
  <2>2. p \in Position /\ p \notin held[t]
    BY <2>1 DEF IInv, StockTypeOK, LocksExclude, ChecksFollowLocks
  <2>3. delta[t][p] = 0
    BY <2>2 DEF IInv, ChecksFollowLocks, Needs
  <2>4. onHand'[p] = onHand[p] /\ drawn'[p] = drawn[p]
    BY <1>2, <2>2, <2>3 DEF Past
  <2> QED
    BY <2>1, <2>4 DEF IInv, CheckedIsCovered
<1>8. RowsExclude'
  <2>1. \A u \in Txn \ {t} : row[u] # NoTransfer => row[u] \in Transfer /\ row[u] # row[t]
    BY DEF IInv, StockTypeOK, RowsExclude
  <2>2. \A u \in Txn \ {t} : row[u] # NoTransfer => status'[row[u]] = "SENT"
    BY <2>1 DEF IInv, RowsExclude
  <2> QED
    BY <1>1, <2>2, ReleaseKeepsLocks DEF IInv, RowsExclude
<1>9. TransferMovesOnce'
  <2> SUFFICES ASSUME NEW x \in Transfer
               PROVE  moved'[x] = IF status'[x] = "RECEIVED" THEN 1 ELSE 0
    BY DEF TransferMovesOnce
  <2>1. CASE row[t] = x
    <3>1. status[x] = "SENT" /\ moved[x] = 0
      BY <2>1, NoneAssumption DEF IInv, RowsExclude, TransferMovesOnce
    <3> QED
      BY <2>1, <3>1
  <2>2. CASE row[t] # x
    BY <2>2 DEF IInv, TransferMovesOnce
  <2> QED
    BY <2>1, <2>2
<1> QED
  BY <1>1, <1>5, <1>6, <1>7, <1>8, <1>9, ReleaseKeepsLocks DEF IInv

-----------------------------------------------------------------------------
(* Transfers and unlocked writers.                                          *)

LEMMA DeskPreserves ==
  ASSUME NEW x \in Transfer, IInv, Desk(x)
  PROVE  IInv'
<1>1. PICK s \in {"DRAFT", "SENT", "CANCELLED"} : SetStatus(x, s)
  BY DEF Desk, CreateTransfer, SendTransfer, CancelTransfer
<1> USE DEF SetStatus, stock, session
<1>2. status[x] # "RECEIVED" /\ \A t \in Txn : row[t] # x
  BY NoneAssumption
  DEF Desk, CreateTransfer, SendTransfer, CancelTransfer, RowIsFree, Closed,
      IInv, RowsExclude
<1>3. StockTypeOK'
  BY <1>1 DEF IInv, StockTypeOK, TransferStatuses
<1>4. LocksExclude' /\ ChecksFollowLocks' /\ CheckedIsCovered' /\ LocksAscend'
  BY <1>1 DEF IInv, LocksExclude, ChecksFollowLocks, CheckedIsCovered, LocksAscend,
              Wanted, Needs
<1>5. RowsExclude'
  BY <1>1, <1>2 DEF IInv, StockTypeOK, RowsExclude
<1>6. StockIsCovered' /\ TransferMovesOnce'
  BY <1>1, <1>2 DEF IInv, StockTypeOK, StockIsCovered, TransferMovesOnce
<1> QED
  BY <1>3, <1>4, <1>5, <1>6 DEF IInv

(* A draw past the check is on record in drawn; an addition only helps.      *)
LEMMA UnlockedPreserves ==
  ASSUME NEW p \in Position, IInv, Unlocked(p)
  PROVE  IInv'
<1>1. /\ onHand' \in Movement /\ drawn' \in [Position -> Nat]
      /\ \A q \in Position : onHand'[q] + drawn'[q] >= onHand[q] + drawn[q]
      /\ UNCHANGED <<transfers, session, held, checked>>
  <2> USE DEF IInv, StockTypeOK, Movement
  <2>1. CASE DrawUnlocked(p)
    BY <2>1 DEF DrawUnlocked
  <2>2. CASE PutUnlocked(p)
    BY <2>2 DEF PutUnlocked, stock
  <2> QED
    BY <2>1, <2>2 DEF Unlocked
<1> USE DEF session, transfers
<1>2. StockTypeOK'
  BY <1>1 DEF IInv, StockTypeOK
<1>3. LocksExclude' /\ ChecksFollowLocks' /\ LocksAscend' /\ RowsExclude'
  BY <1>1 DEF IInv, LocksExclude, ChecksFollowLocks, LocksAscend, RowsExclude,
              Wanted, Needs
<1>4. \A q \in Position : onHand[q] + drawn[q] \in Int /\ onHand'[q] + drawn'[q] \in Int
  BY <1>1 DEF IInv, StockTypeOK, Movement
<1>5. StockIsCovered'
  BY <1>1, <1>4 DEF IInv, StockIsCovered
<1>6. CheckedIsCovered'
  <2> SUFFICES ASSUME NEW u \in Txn, NEW q \in checked[u], ~ override[u]
               PROVE  onHand'[q] + drawn'[q] + delta[u][q] >= 0
    BY <1>1 DEF CheckedIsCovered
  <2>1. q \in Position /\ delta[u][q] \in Int
    BY DEF IInv, StockTypeOK, Movement
  <2>2. onHand[q] + drawn[q] + delta[u][q] >= 0
    BY DEF IInv, CheckedIsCovered
  <2> QED
    BY <1>1, <1>4, <2>1, <2>2
<1>7. TransferMovesOnce'
  BY <1>1 DEF IInv, TransferMovesOnce
<1> QED
  BY <1>2, <1>3, <1>5, <1>6, <1>7 DEF IInv

-----------------------------------------------------------------------------
LEMMA NextPreserves == IInv /\ [Next]_vars => IInv'
<1> SUFFICES ASSUME IInv, [Next]_vars PROVE IInv'
  OBVIOUS
<1>1. ASSUME NEW t \in Txn, NEW basket \in Baskets, Checkout(t, basket) PROVE IInv'
  <2> DEFINE d == [p \in Position |-> 0 - basket[p]]
  <2>1. d \in Movement
    BY MovementsAssumption DEF Movement
  <2>2. Begin(t, "checkout", d, FALSE, NoTransfer)
    BY <1>1 DEF Checkout
  <2> QED
    BY <2>1, <2>2, BeginPreserves
<1>2. ASSUME NEW t \in Txn, NEW p \in Position, NEW q \in Amounts, NEW o \in BOOLEAN,
             Adjust(t, p, q, o)
      PROVE  IInv'
  <2> DEFINE d == [Nothing EXCEPT ![p] = q]
  <2>1. d \in Movement
    BY MovementsAssumption DEF Movement, Nothing
  <2>2. Begin(t, "adjust", d, o, NoTransfer)
    BY <1>2 DEF Adjust
  <2> QED
    BY <2>1, <2>2, BeginPreserves
<1>3. ASSUME NEW t \in Txn, NEW x \in Transfer, ReceiveTransfer(t, x) PROVE IInv'
  <2>1. Route[x] \in Movement
    BY MovementsAssumption
  <2>2. RowIsFree(x) /\ status[x] = "SENT" /\ Begin(t, "receive", Route[x], FALSE, x)
    BY <1>3 DEF ReceiveTransfer
  <2> QED
    BY <2>1, <2>2, BeginPreserves
<1>4. ASSUME NEW t \in Txn, Guarded(t) PROVE IInv'
  BY <1>1, <1>2, <1>3, <1>4, LockPreserves, CheckPreserves, CommitPreserves,
     RollbackPreserves
  DEF Guarded
<1>5. CASE UNCHANGED vars
  BY <1>5
  DEF vars, IInv, StockTypeOK, LocksExclude, ChecksFollowLocks, CheckedIsCovered,
      LocksAscend, RowsExclude, StockIsCovered, TransferMovesOnce, Wanted, Needs
<1> QED
  BY <1>4, <1>5, DeskPreserves, UnlockedPreserves DEF Next

\* The inductive invariant: locks exclude each other and are taken in
\* ascending order, and what was checked stays covered until it is written.
THEOREM StockInvariance == Spec => []IInv
BY InitEstablishes, NextPreserves, PTL DEF Spec

\* Every variable has its type; a transaction that ended holds no lock.
THEOREM StockTypeCorrect == Spec => []StockTypeOK
BY StockInvariance, PTL DEF IInv

\* No interleaving of checkouts, adjustments and transfers takes a position
\* below zero further than overrides and unlocked services did.
THEOREM StockCovered == Spec => []StockIsCovered
BY StockInvariance, PTL DEF IInv

\* The stock of a transfer has moved once if it is RECEIVED, and else never.
THEOREM TransferMoved == Spec => []TransferMovesOnce
BY StockInvariance, PTL DEF IInv

(* In a circle everyone would wait for a lock above all it holds, held by    *)
(* someone who waits in turn for a lock above that: the one who waits for    *)
(* the highest lock waits for nobody in the circle.                          *)
LEMMA SortedLocksMakeNoCycle == IInv => NoWaitCycle
<1> SUFFICES ASSUME IInv, NEW S \in SUBSET Txn, S # {},
                    \A t \in S : \E u \in S : WaitsFor(t, u)
             PROVE  FALSE
  BY DEF NoWaitCycle
<1>1. \A t \in S : Wanted(t) # {} /\ NextLock(t) \in Wanted(t)
  BY NextLockIsLeast DEF WaitsFor
<1>2. \A t \in S : NextLock(t) \in 1 .. N
  BY <1>1 DEF Wanted, Needs, Position
<1> DEFINE Below == {N - NextLock(t) : t \in S}
<1>3. Below \subseteq Nat /\ Below # {}
  BY <1>2, PositionsAssumption
<1>4. PICK t \in S : \A r \in Below : N - NextLock(t) <= r
  <2> HIDE DEF Below
  <2>1. Min(Below) \in Below /\ \A r \in Below : Min(Below) <= r
    BY <1>3, MinOfNats
  <2> QED
    BY <2>1, Zenon DEF Below
<1>5. PICK u \in S : NextLock(t) \in held[u]
  BY DEF WaitsFor
<1>6. NextLock(t) < NextLock(u)
  BY <1>1, <1>5 DEF IInv, LocksAscend
<1>7. N - NextLock(t) <= N - NextLock(u)
  BY <1>4
<1> QED
  BY <1>2, <1>6, <1>7, PositionsAssumption

\* Guarded movements never wait for each other in a circle.
THEOREM MovementsDoNotDeadlock == Spec => []NoWaitCycle
BY StockInvariance, SortedLocksMakeNoCycle, PTL

\* A transfer that was received or cancelled keeps that status.
THEOREM ClosedTransfersStay == Spec => ClosedTransferStays
<1>1. IInv /\ [Next]_vars =>
        [\A x \in Transfer : status[x] \in Closed => status'[x] = status[x]]_vars
  <2> SUFFICES ASSUME IInv, Next, NEW x \in Transfer, status[x] \in Closed
               PROVE  status'[x] = status[x]
    OBVIOUS
  <2>1. ASSUME NEW t \in Txn, Commit(t) PROVE status'[x] = status[x]
    BY <2>1, NoneAssumption DEF Commit, IInv, RowsExclude, Closed
  <2>2. ASSUME NEW t \in Txn, Guarded(t) PROVE status'[x] = status[x]
    BY <2>1, <2>2
    DEF Guarded, Checkout, Adjust, ReceiveTransfer, Begin, LockNext, Check, Rollback,
        transfers
  <2>3. ASSUME NEW y \in Transfer, Desk(y) PROVE status'[x] = status[x]
    BY <2>3
    DEF Desk, CreateTransfer, SendTransfer, CancelTransfer, SetStatus, Closed, IInv,
        StockTypeOK
  <2>4. ASSUME NEW p \in Position, Unlocked(p) PROVE status'[x] = status[x]
    BY <2>4 DEF Unlocked, DrawUnlocked, PutUnlocked, transfers
  <2> QED
    BY <2>2, <2>3, <2>4 DEF Next
<1> QED
  BY <1>1, StockInvariance, PTL DEF Spec, ClosedTransferStays

-----------------------------------------------------------------------------
(* Stocktakes. *)

TakesTypeOK ==
  /\ onHand \in Movement
  /\ job \in [Txn -> {"idle", "checkout", "adjust", "receive", "post"}]
  /\ delta \in [Txn -> Movement]
  /\ held \in [Txn -> SUBSET Position]
  /\ take \in [Stocktake -> TakeRow]
  /\ line \in [Stocktake -> [Position -> Line]]
  /\ request \in [Txn -> Request]
  /\ posting \in [Txn -> Stocktake \cup {NoStocktake}]
  /\ posts \in [Stocktake -> Nat]
  /\ disturbed \in [Txn -> BOOLEAN]

(* A transaction posts or serves a request or neither.                      *)
OneTask ==
  \A t \in Txn : /\ job[t] = "post" <=> posting[t] # NoStocktake
                 /\ request[t].at # "idle" => job[t] = "idle" /\ request[t].stocktake \in Stocktake

PostingHoldsRow ==
  \A t \in Txn : posting[t] # NoStocktake =>
    /\ take[posting[t]].status = "OPEN"
    /\ \A u \in Txn : posting[u] = posting[t] => u = t

UnpostedUntilPosted ==
  \A k \in Stocktake : take[k].status \in {"NONE", "OPEN"} => posts[k] = 0

DeltaFitsCount ==
  \A t \in Txn : posting[t] # NoStocktake /\ ~disturbed[t] =>
    \A p \in Lines(posting[t]) : delta[t][p] = line[posting[t]][p].qty - onHand[p]

LocksAscendElsewhere ==
  \A t \in Txn : /\ job[t] = "idle" => held[t] = {}
                 /\ job[t] # "post" => \A p \in held[t], r \in Wanted(t) : p < r

TakesInv ==
  /\ TakesTypeOK
  /\ OneTask
  /\ PostingHoldsRow
  /\ UnpostedUntilPosted
  /\ StocktakePostsOnce
  /\ DeltaFitsCount
  /\ LocksAscendElsewhere

-----------------------------------------------------------------------------
LEMMA TakesInitEstablishes == TakesInit => TakesInv
<1> SUFFICES ASSUME TakesInit PROVE TakesInv
  OBVIOUS
<1>1. NoLine \in Line /\ NoRequest \in Request /\ NoRequest.at = "idle"
  BY CountAssumption DEF NoLine, Line, NoRequest, Request
<1>2. TakesTypeOK
  BY <1>1, NothingIsAMovement, OpeningAssumption
  DEF TakesInit, Init, TakesTypeOK, Movement, TakeRow, TakeStatuses
<1>3. OneTask /\ PostingHoldsRow /\ DeltaFitsCount
  BY <1>1 DEF TakesInit, Init, OneTask, PostingHoldsRow, DeltaFitsCount
<1>4. UnpostedUntilPosted /\ StocktakePostsOnce
  BY DEF TakesInit, UnpostedUntilPosted, StocktakePostsOnce
<1>5. LocksAscendElsewhere
  BY DEF TakesInit, Init, LocksAscendElsewhere
<1> QED
  BY <1>2, <1>3, <1>4, <1>5 DEF TakesInv

-----------------------------------------------------------------------------
(* A movement that serves no stocktake changes nothing of the others' locks, *)
(* jobs and rows, and takes its own locks in ascending order.                *)
LEMMA MovementFrame ==
  ASSUME TakesInv, NEW t \in Txn, job[t] # "post", Guarded(t)
  PROVE  /\ onHand' \in Movement
         /\ job' \in [Txn -> {"idle", "checkout", "adjust", "receive", "post"}]
         /\ delta' \in [Txn -> Movement]
         /\ held' \in [Txn -> SUBSET Position]
         /\ \A u \in Txn \ {t} : job'[u] = job[u] /\ delta'[u] = delta[u] /\ held'[u] = held[u]
         /\ job'[t] # "post"
         /\ job'[t] = "idle" => held'[t] = {}
         /\ \A p \in held'[t], r \in Wanted(t)' : p < r
<1> DEFINE Jobs == {"idle", "checkout", "adjust", "receive", "post"}
           Frame == /\ onHand' \in Movement
                    /\ job' \in [Txn -> Jobs]
                    /\ delta' \in [Txn -> Movement]
                    /\ held' \in [Txn -> SUBSET Position]
                    /\ \A u \in Txn \ {t} : job'[u] = job[u] /\ delta'[u] = delta[u] /\ held'[u] = held[u]
                    /\ job'[t] # "post"
                    /\ job'[t] = "idle" => held'[t] = {}
                    /\ \A p \in held'[t], r \in Wanted(t)' : p < r
<1>1. /\ TakesTypeOK
      /\ job[t] = "idle" => held[t] = {}
      /\ \A p \in held[t], r \in Wanted(t) : p < r
  BY DEF TakesInv, LocksAscendElsewhere
<1>2. ASSUME NEW j \in {"checkout", "adjust", "receive"}, NEW d \in Movement, NEW o, NEW x,
             Begin(t, j, d, o, x)
      PROVE  Frame
  <2>1. /\ job' = [job EXCEPT ![t] = j] /\ delta' = [delta EXCEPT ![t] = d]
        /\ held' = held /\ onHand' = onHand /\ held[t] = {}
    BY <1>1, <1>2 DEF Begin, stock
  <2> QED
    BY <1>1, <2>1 DEF TakesTypeOK
<1>3. ASSUME NEW basket \in Baskets, Checkout(t, basket) PROVE Frame
  <2>1. [p \in Position |-> 0 - basket[p]] \in Movement
    BY MovementsAssumption DEF Movement
  <2> HIDE DEF Frame
  <2> QED
    BY <1>2, <1>3, <2>1 DEF Checkout
<1>4. ASSUME NEW p \in Position, NEW q \in Amounts, NEW o \in BOOLEAN, Adjust(t, p, q, o) PROVE Frame
  <2>1. [Nothing EXCEPT ![p] = q] \in Movement
    BY MovementsAssumption DEF Movement, Nothing
  <2> HIDE DEF Frame
  <2> QED
    BY <1>2, <1>4, <2>1 DEF Adjust
<1>5. ASSUME NEW x \in Transfer, ReceiveTransfer(t, x) PROVE Frame
  <2>1. Route[x] \in Movement
    BY MovementsAssumption
  <2> HIDE DEF Frame
  <2> QED
    BY <1>2, <1>5, <2>1 DEF ReceiveTransfer
<1>6. ASSUME LockNext(t) PROVE Frame
  <2> DEFINE l == NextLock(t)
  <2>1. l \in Wanted(t) /\ \A r \in Wanted(t) : l <= r
    BY <1>6, NextLockIsLeast DEF LockNext
  <2>2. l \in Position
    BY <2>1 DEF Wanted, Needs
  <2>3. /\ held' = [held EXCEPT ![t] = @ \cup {l}]
        /\ job[t] # "idle"
        /\ job' = job /\ delta' = delta /\ onHand' = onHand
    BY <1>6 DEF LockNext, session, stock
  <2> HIDE DEF l
  <2>4. held' \in [Txn -> SUBSET Position] /\ held'[t] = held[t] \cup {l}
        /\ \A u \in Txn \ {t} : held'[u] = held[u]
    BY <1>1, <2>2, <2>3 DEF TakesTypeOK
  <2>5. Wanted(t)' = Wanted(t) \ {l}
    BY <2>3, <2>4 DEF Wanted, Needs
  <2>6. \A p \in held'[t], r \in Wanted(t)' : p < r
    <3> SUFFICES ASSUME NEW p \in held'[t], NEW r \in Wanted(t)' PROVE p < r
      OBVIOUS
    <3>1. r \in Wanted(t) /\ r # l /\ r \in Nat /\ l \in Nat
      BY <2>2, <2>5 DEF Wanted, Needs, Position
    <3>2. CASE p = l
      BY <2>1, <3>1, <3>2
    <3>3. CASE p # l
      BY <1>1, <2>4, <3>1, <3>3
    <3> QED
      BY <3>2, <3>3
  <2> QED
    BY <1>1, <2>3, <2>4, <2>6 DEF TakesTypeOK
<1>7. ASSUME NEW p \in Position, Check(t, p) PROVE Frame
  <2>1. job' = job /\ delta' = delta /\ onHand' = onHand /\ held' = held
    BY <1>7 DEF Check, session, stock
  <2>2. Wanted(t)' = Wanted(t)
    BY <2>1 DEF Wanted, Needs
  <2> QED
    BY <1>1, <2>1, <2>2 DEF TakesTypeOK
<1>8. ASSUME Release(t), onHand' \in Movement PROVE Frame
  <2>1. /\ job' = [job EXCEPT ![t] = "idle"] /\ delta' = [delta EXCEPT ![t] = Nothing]
        /\ held' = [held EXCEPT ![t] = {}]
    BY <1>8 DEF Release
  <2> QED
    BY <1>1, <1>8, <2>1, NothingIsAMovement DEF TakesTypeOK
<1>9. ASSUME Commit(t) PROVE Frame
  <2>1. onHand' \in Movement
    BY <1>1, <1>9 DEF Commit, TakesTypeOK, Movement
  <2> HIDE DEF Frame
  <2> QED
    BY <1>8, <1>9, <2>1 DEF Commit
<1>10. ASSUME Rollback(t) PROVE Frame
  <2>1. onHand' \in Movement
    BY <1>1, <1>10 DEF Rollback, TakesTypeOK, stock
  <2> HIDE DEF Frame
  <2> QED
    BY <1>8, <1>10, <2>1 DEF Rollback
<1>11. Frame
  <2> HIDE DEF Frame
  <2> QED
    BY <1>3, <1>4, <1>5, <1>6, <1>7, <1>9, <1>10 DEF Guarded
<1> QED
  BY <1>11

(* Only what changes the lines or the stock matters to the other postings.   *)
LEMMA DisturbKeepsDelta ==
  ASSUME TakesInv, NEW t \in Txn, posting[t] = NoStocktake, Disturb(t), posting' = posting
  PROVE  DeltaFitsCount' /\ disturbed' \in [Txn -> BOOLEAN]
<1>1. \A u \in Txn : posting'[u] # NoStocktake => disturbed'[u]
  BY DEF Disturb
<1> QED
  BY <1>1 DEF DeltaFitsCount, Disturb, TakesInv, TakesTypeOK

LEMMA MovementKeepsTakes ==
  ASSUME TakesInv, NEW t \in Txn, MovementStep(t)
  PROVE  TakesInv'
<1>1. /\ request[t].at = "idle" /\ job[t] # "post" /\ Guarded(t)
      /\ IF onHand' = onHand THEN UNCHANGED disturbed ELSE Disturb(t)
      /\ take' = take /\ line' = line /\ posts' = posts /\ request' = request
      /\ posting' = posting /\ turn' = turn
  BY DEF MovementStep, takes
<1>2. posting[t] = NoStocktake
  BY <1>1 DEF TakesInv, OneTask
<1>3. /\ onHand' \in Movement
      /\ job' \in [Txn -> {"idle", "checkout", "adjust", "receive", "post"}]
      /\ delta' \in [Txn -> Movement]
      /\ held' \in [Txn -> SUBSET Position]
      /\ \A u \in Txn \ {t} : job'[u] = job[u] /\ delta'[u] = delta[u] /\ held'[u] = held[u]
      /\ job'[t] # "post"
      /\ job'[t] = "idle" => held'[t] = {}
      /\ \A p \in held'[t], r \in Wanted(t)' : p < r
  BY <1>1, MovementFrame
<1>4. DeltaFitsCount' /\ disturbed' \in [Txn -> BOOLEAN]
  <2>1. CASE Disturb(t)
    BY <1>1, <1>2, <2>1, DisturbKeepsDelta
  <2>2. CASE onHand' = onHand /\ UNCHANGED disturbed
    BY <1>1, <1>2, <1>3, <2>2 DEF TakesInv, TakesTypeOK, DeltaFitsCount, Lines
  <2> QED
    BY <1>1, <2>1, <2>2
<1>5. TakesTypeOK'
  BY <1>1, <1>3, <1>4 DEF TakesInv, TakesTypeOK
<1>6. OneTask'
  BY <1>1, <1>2, <1>3 DEF TakesInv, OneTask
<1>7. PostingHoldsRow' /\ UnpostedUntilPosted' /\ StocktakePostsOnce'
  BY <1>1 DEF TakesInv, PostingHoldsRow, UnpostedUntilPosted, StocktakePostsOnce
<1>8. \A u \in Txn \ {t} : Wanted(u)' = Wanted(u)
  BY <1>3 DEF Wanted, Needs
<1>9. LocksAscendElsewhere'
  BY <1>3, <1>8 DEF TakesInv, LocksAscendElsewhere
<1> QED
  BY <1>4, <1>5, <1>6, <1>7, <1>9 DEF TakesInv

LEMMA UnlockedKeepsTakes ==
  ASSUME TakesInv, NEW p \in Position, UnlockedStep(p)
  PROVE  TakesInv'
<1>1. /\ take' = take /\ line' = line /\ posts' = posts /\ request' = request
      /\ posting' = posting /\ job' = job /\ delta' = delta /\ held' = held
      /\ onHand' \in Movement
      /\ disturbed' = [t \in Txn |-> disturbed[t] \/ posting[t] # NoStocktake]
  BY DEF UnlockedStep, Unlocked, DrawUnlocked, PutUnlocked, takes, session, TakesInv, TakesTypeOK,
         Movement
<1>2. TakesTypeOK'
  BY <1>1 DEF TakesInv, TakesTypeOK
<1>3. OneTask' /\ PostingHoldsRow' /\ UnpostedUntilPosted' /\ StocktakePostsOnce'
  BY <1>1 DEF TakesInv, OneTask, PostingHoldsRow, UnpostedUntilPosted, StocktakePostsOnce
<1>4. DeltaFitsCount'
  BY <1>1 DEF DeltaFitsCount
<1>5. LocksAscendElsewhere'
  BY <1>1 DEF TakesInv, LocksAscendElsewhere, Wanted, Needs
<1> QED
  BY <1>2, <1>3, <1>4, <1>5 DEF TakesInv

(* What a request of t reads, and what it writes.                           *)
LEMMA BeginRequestKeepsTakes ==
  ASSUME TakesInv, NEW t \in Txn, NEW k \in Stocktake, NEW at \in {"lines", "review", "cancel"},
         NEW on \in SUBSET Position, NEW rows \in [Position -> Line],
         BeginRequest(t, k, at, on, rows)
  PROVE  TakesInv'
<1> DEFINE r == [at |-> at, stocktake |-> k, on |-> on, rows |-> rows, review |-> take[k].review]
<1>1. /\ request' = [request EXCEPT ![t] = r] /\ job[t] = "idle"
      /\ take' = take /\ line' = line /\ posts' = posts /\ disturbed' = disturbed
      /\ posting' = posting /\ job' = job /\ delta' = delta /\ held' = held /\ onHand' = onHand
  BY DEF BeginRequest, takes, vars, Free
<1>2. r \in Request
  BY DEF Request, TakesInv, TakesTypeOK, TakeRow
<1>3. TakesTypeOK'
  BY <1>1, <1>2 DEF TakesInv, TakesTypeOK
<1>4. OneTask'
  BY <1>1 DEF TakesInv, TakesTypeOK, OneTask
<1>5. PostingHoldsRow' /\ UnpostedUntilPosted' /\ StocktakePostsOnce'
  BY <1>1 DEF TakesInv, PostingHoldsRow, UnpostedUntilPosted, StocktakePostsOnce
<1>6. DeltaFitsCount'
  BY <1>1 DEF TakesInv, DeltaFitsCount, Lines
<1>7. LocksAscendElsewhere'
  BY <1>1 DEF TakesInv, LocksAscendElsewhere, Wanted, Needs
<1> QED
  BY <1>3, <1>4, <1>5, <1>6, <1>7 DEF TakesInv

LEMMA CountingKeepsTakes ==
  ASSUME TakesInv, NEW t \in Txn, NEW k \in Stocktake, Counting(t, k)
  PROVE  TakesInv'
<1>1. NoRows \in [Position -> Line] /\ {} \in SUBSET Position
  BY CountAssumption DEF NoRows, NoLine, Line
<1>2. ASSUME NEW p \in Position, NEW q \in 0 .. MaxCount PROVE Counted(k, p, q) \in Line
  BY DEF Counted, Line, TakesInv, TakesTypeOK, Movement
<1>3. ASSUME NEW p \in Position, NEW q \in 0 .. MaxCount, BeginUpsert(t, k, p, q)
      PROVE  TakesInv'
  <2>1. [NoRows EXCEPT ![p] = Counted(k, p, q)] \in [Position -> Line]
    BY <1>1, <1>2
  <2> QED
    BY <1>3, <2>1, BeginRequestKeepsTakes DEF BeginUpsert
<1>4. ASSUME NEW p \in Position, BeginScan(t, k, p) PROVE TakesInv'
  <2> DEFINE q == (IF line[k][p].counted THEN line[k][p].qty ELSE 0) + 1
  <2>1. q \in 0 .. MaxCount
    BY <1>4, CountAssumption DEF BeginScan, TakesInv, TakesTypeOK, Line
  <2>2. BeginUpsert(t, k, p, q)
    BY <1>4 DEF BeginScan
  <2> HIDE DEF q
  <2> QED
    BY <1>3, <2>1, <2>2
<1>5. ASSUME NEW p \in Position, BeginDelete(t, k, p) PROVE TakesInv'
  BY <1>1, <1>5, BeginRequestKeepsTakes DEF BeginDelete
<1>6. ASSUME NEW q \in 0 .. MaxCount, BeginBulk(t, k, q) PROVE TakesInv'
  <2>1. [p \in Position |-> Counted(k, p, q)] \in [Position -> Line]
    BY <1>2
  <2> QED
    BY <1>6, <2>1, BeginRequestKeepsTakes DEF BeginBulk
<1>7. CASE BeginReview(t, k) \/ BeginCancel(t, k)
  BY <1>1, <1>7, BeginRequestKeepsTakes DEF BeginReview, BeginCancel
<1> QED
  BY <1>3, <1>4, <1>5, <1>6, <1>7 DEF Counting

LEMMA CreateKeepsTakes ==
  ASSUME TakesInv, NEW k \in Stocktake, CreateStocktake(k)
  PROVE  TakesInv'
<1>1. /\ take[k].status = "NONE" /\ take' = [take EXCEPT ![k].status = "OPEN"]
      /\ line' = line /\ posts' = posts /\ request' = request /\ disturbed' = disturbed
      /\ posting' = posting /\ job' = job /\ delta' = delta /\ held' = held /\ onHand' = onHand
  BY DEF CreateStocktake, vars
<1>2. take' \in [Stocktake -> TakeRow] /\ take'[k].status = "OPEN"
      /\ \A l \in Stocktake \ {k} : take'[l] = take[l]
  BY <1>1 DEF TakesInv, TakesTypeOK, TakeRow, TakeStatuses
<1>3. TakesTypeOK'
  BY <1>1, <1>2 DEF TakesInv, TakesTypeOK
<1>4. OneTask' /\ StocktakePostsOnce'
  BY <1>1 DEF TakesInv, OneTask, StocktakePostsOnce
<1>5. PostingHoldsRow'
  BY <1>1, <1>2 DEF TakesInv, TakesTypeOK, PostingHoldsRow
<1>6. UnpostedUntilPosted'
  BY <1>1, <1>2 DEF TakesInv, UnpostedUntilPosted
<1>7. DeltaFitsCount'
  BY <1>1 DEF TakesInv, DeltaFitsCount, Lines
<1>8. LocksAscendElsewhere'
  BY <1>1 DEF TakesInv, LocksAscendElsewhere, Wanted, Needs
<1> QED
  BY <1>3, <1>4, <1>5, <1>6, <1>7, <1>8 DEF TakesInv

(* The commit of a request: the rows it writes are those of its stocktake,   *)
(* and a posting that holds the row keeps the status out of its reach.       *)
LEMMA CommitRequestKeepsTakes ==
  ASSUME TakesInv, NEW t \in Txn,
         CommitLines(t) \/ CommitReview(t) \/ CommitCancel(t) \/ RequestFails(t)
  PROVE  TakesInv'
<1>1. /\ EndRequest(t) /\ request[t].at # "idle"
      /\ posts' = posts /\ posting' = posting /\ job' = job /\ delta' = delta /\ held' = held
      /\ onHand' = onHand
  BY DEF CommitLines, CommitReview, CommitCancel, RequestFails, vars, takes
<1>2. NoRequest \in Request /\ NoRequest.at = "idle"
  BY CountAssumption DEF NoLine, Line, NoRequest, Request
<1>3. request' \in [Txn -> Request] /\ request'[t].at = "idle"
      /\ \A u \in Txn \ {t} : request'[u] = request[u]
  BY <1>1, <1>2 DEF EndRequest, TakesInv, TakesTypeOK
<1>4. PICK k \in Stocktake : k = request[t].stocktake
  BY <1>1 DEF TakesInv, OneTask
<1>5. posting[t] = NoStocktake
  BY <1>1 DEF TakesInv, OneTask
<1>6. /\ take' \in [Stocktake -> TakeRow]
      /\ \A l \in Stocktake : \/ take'[l].status = take[l].status
                              \/ l = k /\ take'[l].status = "CANCELLED" /\ TakeIsFree(k)
  <2>1. CASE CommitLines(t) \/ CommitReview(t)
    <3>1. PICK b \in BOOLEAN : take' = [take EXCEPT ![k].review = b]
      BY <1>4, <2>1 DEF CommitLines, CommitReview, TakesInv, TakesTypeOK, TakeRow
    <3> QED
      BY <1>4, <3>1 DEF TakesInv, TakesTypeOK, TakeRow
  <2>2. CASE CommitCancel(t)
    <3>1. take' = [take EXCEPT ![k].status = "CANCELLED"] /\ TakeIsFree(k)
      BY <1>4, <2>2 DEF CommitCancel
    <3> QED
      BY <3>1 DEF TakesInv, TakesTypeOK, TakeRow, TakeStatuses
  <2>3. CASE RequestFails(t)
    BY <2>3 DEF RequestFails, takes, TakesInv, TakesTypeOK
  <2> QED
    BY <2>1, <2>2, <2>3
<1>7. line' \in [Stocktake -> [Position -> Line]]
  <2>1. CASE CommitLines(t)
    <3>1. request[t].rows \in [Position -> Line]
      BY DEF TakesInv, TakesTypeOK, Request
    <3>2. line' = [line EXCEPT ![k] = [p \in Position |->
                     IF p \in request[t].on THEN request[t].rows[p] ELSE @[p]]]
      BY <1>4, <2>1 DEF CommitLines
    <3>3. line[k] \in [Position -> Line]
      BY DEF TakesInv, TakesTypeOK
    <3>4. [p \in Position |-> IF p \in request[t].on THEN request[t].rows[p] ELSE line[k][p]]
            \in [Position -> Line]
      BY <3>1, <3>3
    <3> QED
      BY <3>2, <3>4 DEF TakesInv, TakesTypeOK
  <2>2. CASE ~CommitLines(t)
    <3>1. line' = line
      BY <2>2 DEF CommitReview, CommitCancel, RequestFails, takes
    <3> QED
      BY <3>1 DEF TakesInv, TakesTypeOK
  <2> QED
    BY <2>1, <2>2
<1>8. DeltaFitsCount' /\ disturbed' \in [Txn -> BOOLEAN]
  <2>1. CASE CommitLines(t)
    <3>1. Disturb(t)
      BY <2>1 DEF CommitLines
    <3> QED
      BY <1>1, <1>5, <3>1, DisturbKeepsDelta
  <2>2. CASE ~CommitLines(t)
    <3>1. line' = line /\ disturbed' = disturbed
      BY <2>2 DEF CommitReview, CommitCancel, RequestFails, takes
    <3> QED
      BY <1>1, <3>1 DEF TakesInv, TakesTypeOK, DeltaFitsCount, Lines
  <2> QED
    BY <2>1, <2>2
<1>9. TakesTypeOK'
  BY <1>1, <1>3, <1>6, <1>7, <1>8 DEF TakesInv, TakesTypeOK
<1>10. OneTask'
  BY <1>1, <1>3 DEF TakesInv, OneTask
<1>11. PostingHoldsRow'
  BY <1>1, <1>6 DEF TakesInv, TakesTypeOK, PostingHoldsRow, TakeIsFree
<1>12. UnpostedUntilPosted' /\ StocktakePostsOnce'
  BY <1>1, <1>6 DEF TakesInv, UnpostedUntilPosted, StocktakePostsOnce
<1>13. LocksAscendElsewhere'
  BY <1>1 DEF TakesInv, LocksAscendElsewhere, Wanted, Needs
<1> QED
  BY <1>8, <1>9, <1>10, <1>11, <1>12, <1>13 DEF TakesInv

-----------------------------------------------------------------------------
LEMMA BeginPostingKeepsTakes ==
  ASSUME TakesInv, NEW t \in Txn, NEW k \in Stocktake, BeginPosting(t, k)
  PROVE  TakesInv'
<1> DEFINE d == [p \in Position |-> IF p \in Lines(k) THEN DeltaNeeded(k, p) ELSE 0]
<1>1. /\ Free(t) /\ TakeIsFree(k) /\ take[k].status = "OPEN"
      /\ posting' = [posting EXCEPT ![t] = k]
      /\ job' = [job EXCEPT ![t] = "post"]
      /\ delta' = [delta EXCEPT ![t] = d]
      /\ onHand' = onHand /\ held' = held /\ take' = take /\ line' = line /\ posts' = posts
      /\ request' = request /\ disturbed' = disturbed
  BY DEF BeginPosting, stock, takes
<1>2. d \in Movement
  BY DEF DeltaNeeded, Movement, TakesInv, TakesTypeOK, Line
<1>3. /\ job' \in [Txn -> {"idle", "checkout", "adjust", "receive", "post"}]
      /\ job'[t] = "post" /\ posting'[t] = k /\ delta'[t] = d
      /\ \A u \in Txn \ {t} : job'[u] = job[u] /\ posting'[u] = posting[u] /\ delta'[u] = delta[u]
      /\ delta' \in [Txn -> Movement] /\ posting' \in [Txn -> Stocktake \cup {NoStocktake}]
  BY <1>1, <1>2 DEF TakesInv, TakesTypeOK
<1>4. TakesTypeOK'
  BY <1>1, <1>3 DEF TakesInv, TakesTypeOK
<1>5. OneTask'
  BY <1>1, <1>3, NoStocktakeAssumption DEF TakesInv, OneTask, Free
<1>6. PostingHoldsRow'
  BY <1>1, <1>3 DEF TakesInv, PostingHoldsRow, TakeIsFree
<1>7. UnpostedUntilPosted' /\ StocktakePostsOnce'
  BY <1>1 DEF TakesInv, UnpostedUntilPosted, StocktakePostsOnce
<1>8. DeltaFitsCount'
  <2>1. \A p \in Lines(k) : d[p] = line[k][p].qty - onHand[p]
    BY DEF DeltaNeeded, Lines
  <2> HIDE DEF d
  <2> QED
    BY <1>1, <1>3, <2>1 DEF TakesInv, DeltaFitsCount, Lines
<1>9. LocksAscendElsewhere'
  BY <1>1, <1>3 DEF TakesInv, LocksAscendElsewhere, Wanted, Needs
<1> QED
  BY <1>4, <1>5, <1>6, <1>7, <1>8, <1>9 DEF TakesInv

LEMMA PostingLocksKeepTakes ==
  ASSUME TakesInv, NEW t \in Txn,
         (\E p \in Position : TurnToLine(t, p)) \/ LockLine(t) \/ CheckLine(t)
  PROVE  TakesInv'
<1>1. /\ job[t] = "post" /\ job' = job /\ delta' = delta /\ onHand' = onHand
      /\ take' = take /\ line' = line /\ posts' = posts /\ posting' = posting
      /\ request' = request /\ disturbed' = disturbed
  BY DEF TurnToLine, LockLine, CheckLine, vars, stock, session, takes
<1>2. held' \in [Txn -> SUBSET Position] /\ \A u \in Txn \ {t} : held'[u] = held[u]
  <2>1. CASE LockLine(t)
    BY <2>1 DEF LockLine, Wanted, Needs, TakesInv, TakesTypeOK
  <2>2. CASE held' = held
    BY <2>2 DEF TakesInv, TakesTypeOK
  <2> QED
    BY <2>1, <2>2 DEF TurnToLine, CheckLine, vars
<1>3. TakesTypeOK'
  BY <1>1, <1>2 DEF TakesInv, TakesTypeOK
<1>4. OneTask' /\ PostingHoldsRow' /\ UnpostedUntilPosted' /\ StocktakePostsOnce'
  BY <1>1 DEF TakesInv, OneTask, PostingHoldsRow, UnpostedUntilPosted, StocktakePostsOnce
<1>5. DeltaFitsCount'
  BY <1>1 DEF TakesInv, DeltaFitsCount, Lines
<1>6. LocksAscendElsewhere'
  BY <1>1, <1>2 DEF TakesInv, LocksAscendElsewhere, Wanted, Needs
<1> QED
  BY <1>3, <1>4, <1>5, <1>6 DEF TakesInv

(* A posting that ends: t gives up its row and its locks.                    *)
LEMMA EndPostingKeepsTakes ==
  ASSUME TakesInv, NEW t \in Txn, CommitPosting(t) \/ RollbackPosting(t)
  PROVE  TakesInv'
<1>1. /\ job[t] = "post" /\ Release(t) /\ EndPosting(t)
      /\ line' = line /\ request' = request
  BY DEF CommitPosting, RollbackPosting, Commit, Rollback, takes
<1>2. PICK k \in Stocktake : k = posting[t]
  BY <1>1 DEF TakesInv, TakesTypeOK, OneTask
<1>3. take[k].status = "OPEN" /\ posts[k] = 0 /\ \A u \in Txn \ {t} : posting[u] # k
  BY <1>2, NoStocktakeAssumption DEF TakesInv, PostingHoldsRow, UnpostedUntilPosted
<1>4. /\ job' \in [Txn -> {"idle", "checkout", "adjust", "receive", "post"}]
      /\ delta' \in [Txn -> Movement] /\ held' \in [Txn -> SUBSET Position]
      /\ posting' \in [Txn -> Stocktake \cup {NoStocktake}]
      /\ job'[t] = "idle" /\ held'[t] = {} /\ posting'[t] = NoStocktake
      /\ \A u \in Txn \ {t} : /\ job'[u] = job[u] /\ delta'[u] = delta[u]
                              /\ held'[u] = held[u] /\ posting'[u] = posting[u]
  BY <1>1, NothingIsAMovement DEF Release, EndPosting, TakesInv, TakesTypeOK
<1>5. onHand' \in Movement
  BY DEF CommitPosting, RollbackPosting, Commit, Rollback, stock, TakesInv, TakesTypeOK, Movement
<1>6. /\ take' \in [Stocktake -> TakeRow] /\ posts' \in [Stocktake -> Nat]
      /\ \A l \in Stocktake \ {k} : take'[l] = take[l] /\ posts'[l] = posts[l]
      /\ posts'[k] <= 1 /\ (take'[k].status = "OPEN" => posts'[k] = 0)
      /\ take'[k].status \in {"OPEN", "POSTED"}
  <2>1. CASE CommitPosting(t)
    <3>1. take' = [take EXCEPT ![k].status = "POSTED"] /\ posts' = [posts EXCEPT ![k] = @ + 1]
      BY <1>2, <2>1 DEF CommitPosting
    <3> QED
      BY <1>3, <3>1 DEF TakesInv, TakesTypeOK, TakeRow, TakeStatuses
  <2>2. CASE RollbackPosting(t)
    BY <1>3, <2>2 DEF RollbackPosting, takes, TakesInv, TakesTypeOK
  <2> QED
    BY <2>1, <2>2
<1>7. disturbed' \in [Txn -> BOOLEAN]
  BY DEF CommitPosting, RollbackPosting, TakesInv, TakesTypeOK
<1>8. TakesTypeOK'
  BY <1>1, <1>4, <1>5, <1>6, <1>7 DEF TakesInv, TakesTypeOK
<1>9. OneTask'
  BY <1>1, <1>4 DEF TakesInv, OneTask
<1>10. PostingHoldsRow'
  BY <1>3, <1>4, <1>6 DEF TakesInv, TakesTypeOK, PostingHoldsRow
<1>11. UnpostedUntilPosted' /\ StocktakePostsOnce'
  BY <1>6 DEF TakesInv, UnpostedUntilPosted, StocktakePostsOnce
<1>12. DeltaFitsCount'
  <2>1. CASE CommitPosting(t)
    <3>1. \A u \in Txn : posting'[u] # NoStocktake => disturbed'[u]
      BY <1>4, <2>1 DEF CommitPosting
    <3> QED
      BY <3>1 DEF DeltaFitsCount
  <2>2. CASE RollbackPosting(t)
    <3>1. onHand' = onHand /\ \A u \in Txn \ {t} : disturbed'[u] = disturbed[u]
      BY <2>2 DEF RollbackPosting, Rollback, stock, TakesInv, TakesTypeOK
    <3> QED
      BY <1>1, <1>4, <3>1 DEF TakesInv, DeltaFitsCount, Lines
  <2> QED
    BY <2>1, <2>2
<1>13. \A u \in Txn \ {t} : Wanted(u)' = Wanted(u)
  BY <1>4 DEF Wanted, Needs
<1>14. LocksAscendElsewhere'
  BY <1>4, <1>13 DEF TakesInv, LocksAscendElsewhere
<1> QED
  BY <1>8, <1>9, <1>10, <1>11, <1>12, <1>14 DEF TakesInv

LEMMA TakesNextKeepsInv == TakesInv /\ [TakesNext]_allVars => TakesInv'
<1> SUFFICES ASSUME TakesInv, [TakesNext]_allVars PROVE TakesInv'
  OBVIOUS
<1>1. ASSUME NEW t \in Txn, StocktakeRequest(t) PROVE TakesInv'
  BY <1>1, CountingKeepsTakes, BeginPostingKeepsTakes, CommitRequestKeepsTakes,
     PostingLocksKeepTakes, EndPostingKeepsTakes DEF StocktakeRequest
<1>2. CASE UNCHANGED allVars
  <2>1. /\ UNCHANGED <<onHand, job, delta, held>>
        /\ UNCHANGED <<take, line, posts, request, posting, disturbed>>
    BY <1>2 DEF allVars, vars
  <2>2. TakesTypeOK'
    BY <2>1 DEF TakesInv, TakesTypeOK
  <2>3. OneTask' /\ PostingHoldsRow' /\ UnpostedUntilPosted' /\ StocktakePostsOnce'
    BY <2>1 DEF TakesInv, OneTask, PostingHoldsRow, UnpostedUntilPosted, StocktakePostsOnce
  <2>4. DeltaFitsCount'
    BY <2>1 DEF TakesInv, DeltaFitsCount, Lines
  <2>5. LocksAscendElsewhere'
    BY <2>1 DEF TakesInv, LocksAscendElsewhere, Wanted, Needs
  <2> QED
    BY <2>2, <2>3, <2>4, <2>5 DEF TakesInv
<1> QED
  BY <1>1, <1>2, MovementKeepsTakes, CreateKeepsTakes, UnlockedKeepsTakes DEF TakesNext

-----------------------------------------------------------------------------
(* Stocktakes, requests, postings and locks fit together in every behaviour.  *)
THEOREM TakesInvariance == TakesSpec => []TakesInv
<1>1. TakesInit => TakesInv
  BY TakesInitEstablishes
<1>2. TakesInv /\ [TakesNext]_allVars => TakesInv'
  BY TakesNextKeepsInv
<1> QED
  BY <1>1, <1>2, PTL DEF TakesSpec

(* postStocktake commits the adjustments of a stocktake at most once.         *)
THEOREM PostsOnce == TakesSpec => []StocktakePostsOnce
<1>1. TakesInv => StocktakePostsOnce
  BY DEF TakesInv
<1> QED
  BY <1>1, TakesInvariance, PTL

(* A circle of waits without a posting: everyone in it would wait for a lock  *)
(* above all it holds, held by someone who waits for a higher one still.     *)
LEMMA OnlyPostingsMakeCycles == TakesInv => WaitCycleHasPosting
<1> SUFFICES ASSUME TakesInv, NEW S \in SUBSET Txn, S # {},
                    \A t \in S : \E u \in S : Waits(t, u),
                    \A t \in S : job[t] # "post"
             PROVE  FALSE
  BY DEF WaitCycleHasPosting
<1>1. \A t \in S : \E u \in S : WaitsFor(t, u)
  BY DEF Waits
<1>2. \A t \in S : Wanted(t) # {} /\ NextLock(t) \in Wanted(t)
  BY <1>1, NextLockIsLeast DEF WaitsFor
<1>3. \A t \in S : NextLock(t) \in 1 .. N
  BY <1>2 DEF Wanted, Needs, Position
<1> DEFINE Below == {N - NextLock(t) : t \in S}
<1>4. Below \subseteq Nat /\ Below # {}
  BY <1>3, PositionsAssumption
<1>5. PICK t \in S : \A r \in Below : N - NextLock(t) <= r
  <2> HIDE DEF Below
  <2>1. Min(Below) \in Below /\ \A r \in Below : Min(Below) <= r
    BY <1>4, MinOfNats
  <2> QED
    BY <2>1, Zenon DEF Below
<1>6. PICK u \in S : NextLock(t) \in held[u]
  BY <1>1 DEF WaitsFor
<1>7. NextLock(t) < NextLock(u)
  BY <1>2, <1>6 DEF TakesInv, LocksAscendElsewhere
<1>8. N - NextLock(t) <= N - NextLock(u)
  BY <1>5
<1> QED
  BY <1>3, <1>7, <1>8, PositionsAssumption

(* Checkouts, adjustments and transfers never lock each other out, also       *)
(* beside stocktakes: whoever waits in a circle waits with a posting.         *)
THEOREM CyclesNeedPostings == TakesSpec => []WaitCycleHasPosting
BY TakesInvariance, OnlyPostingsMakeCycles, PTL

(* A posting under which neither a line nor the stock changed leaves every    *)
(* counted position with its count.                                          *)
THEOREM PostingSets == TakesSpec => PostingSetsTheCount
<1>1. TakesInv /\ [TakesNext]_allVars =>
        [\A t \in Txn : posting[t] # NoStocktake /\ posts' # posts /\ job'[t] = "idle"
            /\ ~disturbed[t]
           => \A p \in Lines(posting[t]) : onHand'[p] = line[posting[t]][p].qty]_allVars
  <2> SUFFICES ASSUME TakesInv, TakesNext, NEW t \in Txn, posting[t] # NoStocktake,
                      posts' # posts, job'[t] = "idle", ~disturbed[t],
                      NEW p \in Lines(posting[t])
               PROVE  onHand'[p] = line[posting[t]][p].qty
    OBVIOUS
  <2>1. PICK u \in Txn : CommitPosting(u)
    <3>1. ASSUME NEW u \in Txn, NEW k \in Stocktake, Counting(u, k) PROVE posts' = posts
      BY <3>1 DEF Counting, BeginUpsert, BeginScan, BeginDelete, BeginBulk, BeginReview,
                  BeginCancel, BeginRequest, takes
    <3>2. ASSUME NEW u \in Txn, StocktakeRequest(u), ~CommitPosting(u) PROVE posts' = posts
      <4>1. ASSUME NEW k \in Stocktake, BeginPosting(u, k) PROVE posts' = posts
        BY <4>1 DEF BeginPosting, takes
      <4>2. ASSUME NEW q \in Position, TurnToLine(u, q) PROVE posts' = posts
        BY <4>2 DEF TurnToLine, takes
      <4>3. CommitLines(u) \/ CommitReview(u) \/ CommitCancel(u) \/ RequestFails(u)
              => posts' = posts
        BY DEF CommitLines, CommitReview, CommitCancel, RequestFails, takes
      <4>4. LockLine(u) \/ CheckLine(u) \/ RollbackPosting(u) => posts' = posts
        BY DEF LockLine, CheckLine, RollbackPosting, takes
      <4> QED
        BY <3>1, <3>2, <4>1, <4>2, <4>3, <4>4 DEF StocktakeRequest
    <3>3. ASSUME NEW u \in Txn, MovementStep(u) PROVE posts' = posts
      BY <3>3 DEF MovementStep, takes
    <3>4. ASSUME NEW k \in Stocktake, CreateStocktake(k) PROVE posts' = posts
      BY <3>4 DEF CreateStocktake
    <3>5. ASSUME NEW q \in Position, UnlockedStep(q) PROVE posts' = posts
      BY <3>5 DEF UnlockedStep, takes
    <3> QED
      BY <3>2, <3>3, <3>4, <3>5 DEF TakesNext
  <2>2. u = t
    <3>1. job[t] = "post"
      BY DEF TakesInv, OneTask
    <3>2. job' = [job EXCEPT ![u] = "idle"]
      BY <2>1 DEF CommitPosting, Commit, Release
    <3> QED
      BY <3>1, <3>2 DEF TakesInv, TakesTypeOK
  <2>3. p \in Position /\ posting[t] \in Stocktake
    BY DEF Lines, TakesInv, TakesTypeOK
  <2>4. onHand'[p] = onHand[p] + delta[t][p]
    BY <2>1, <2>2, <2>3 DEF CommitPosting, Commit
  <2>5. delta[t][p] = line[posting[t]][p].qty - onHand[p]
    BY DEF TakesInv, DeltaFitsCount
  <2>6. onHand[p] \in Int /\ line[posting[t]][p].qty \in Int
    BY <2>3, CountAssumption DEF TakesInv, TakesTypeOK, Movement, Line
  <2> QED
    BY <2>4, <2>5, <2>6
<1> QED
  BY <1>1, TakesInvariance, PTL DEF TakesSpec, PostingSetsTheCount
=============================================================================
