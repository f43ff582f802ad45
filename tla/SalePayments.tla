---------------------------- MODULE SalePayments ----------------------------
(***************************************************************************)
(* Tenders, payment intents and completion of sales.                       *)
(*                                                                         *)
(* Every handler is one READ COMMITTED transaction run by a member of Txn. *)
(* A handler that starts with SELECT ... FOR UPDATE on the Sale takes the  *)
(* row lock and reads (Begin...), then commits everything it writes        *)
(* (Commit...): no other transaction can see it half done, and inserting a *)
(* child row, updating or deleting the Sale row waits for the lock.  What  *)
(* the lock does not cover - the Layaway row, and everything read by the   *)
(* handlers that take no lock - is as old as the read.                     *)
(*                                                                         *)
(* A request that the code refuses changes nothing: its commit action is   *)
(* disabled and Rollback ends it.  Rollback also stands for a crash or a   *)
(* lost connection, which may hit a transaction at any point.              *)
(***************************************************************************)
EXTENDS SaleRows, FiniteSets, Functions

CONSTANTS
  Sale,       \* sales
  Intent,     \* payment intents that can be created
  Txn,        \* requests served concurrently
  Total,      \* Total[s]: totalPence of sale s
  Amounts,    \* amounts clients send
  MaxTender,  \* bound: tender rows of a sale add up to at most this much
  None

ASSUME TotalAssumption == Total \in [Sale -> Nat]
ASSUME AmountsAssumption == Amounts \subseteq Nat \ {0}
ASSUME NoneAssumption == None \notin Sale \cup Intent \cup Txn

VARIABLES
  row,      \* row[s]: the sale and its money rows
  intent,   \* intent[i]: the PaymentIntent row
  layaway,  \* layaway[s]: the Layaway row of the sale
  till,     \* is a cash session open?
  lock,     \* lock[s]: the transaction holding the Sale row lock
  ilock,    \* ilock[i]: the transaction holding the PaymentIntent row lock
  op,       \* op[t]: what request t is doing
  arg,      \* arg[t]: its parameters
  seen,     \* seen[t]: the sale rows it has read
  seenLay,  \* seenLay[t]: the layaway row it has read
  emitted   \* emitted[s]: sale.completed events published for s

vars == <<row, intent, layaway, till, lock, ilock, op, arg, seen, seenLay, emitted>>

(* NONE: not created yet;  DELETED: gone with its sale, its id is not used  *)
(* again                                                                   *)
IntentStatus == {"NONE", "REQUIRES_ACTION", "CAPTURED", "FAILED", "CANCELED", "DELETED"}
IntentRow == [status : IntentStatus, sale : Sale \cup {None},
              method : Method, amount : Nat]
NoIntent == [status |-> "NONE", sale |-> None, method |-> "CARD", amount |-> 0]
DeletedIntent == [NoIntent EXCEPT !.status = "DELETED"]

LayawayStatus == {"NONE", "ACTIVE", "PART_PAID", "COMPLETED", "CANCELLED", "EXPIRED"}
LayawayRow == [status : LayawayStatus, deposit : Nat, released : BOOLEAN,
               completed : BOOLEAN, cancelled : BOOLEAN]
NoLayaway == [status |-> "NONE", deposit |-> 0, released |-> FALSE,
              completed |-> FALSE, cancelled |-> FALSE]

(* Handlers that hold the Sale row lock from their first read to commit.   *)
Locking == {"addTender", "deleteTender", "complete", "createIntent", "capture"}
Op == Locking \cup {"idle", "captureWaits", "list", "listInsert", "reopen", "emit"}

Arg == [sale : Sale \cup {None}, intent : Intent \cup {None},
        method : Method, amount : Nat, credit : BOOLEAN]
NoArg == [sale |-> None, intent |-> None, method |-> "CARD", amount |-> 0,
          credit |-> FALSE]

TypeOK ==
  /\ row \in [Sale -> SaleRow]
  /\ intent \in [Intent -> IntentRow]
  /\ layaway \in [Sale -> LayawayRow]
  /\ till \in BOOLEAN
  /\ lock \in [Sale -> Txn \cup {None}]
  /\ ilock \in [Intent -> Txn \cup {None}]
  /\ op \in [Txn -> Op]
  /\ arg \in [Txn -> Arg]
  /\ seen \in [Txn -> SaleRow]
  /\ seenLay \in [Txn -> LayawayRow]
  /\ emitted \in [Sale -> Nat]

-----------------------------------------------------------------------------
(* What checkoutBasketToSale and createLayawayFromBasket leave behind: an   *)
(* unpaid sale, a sale with one payment of the whole total and no tender,  *)
(* or an unpaid sale held by a layaway.                                    *)
CheckedOut(s) ==
  \/ row[s] = OpenRow /\ layaway[s] = NoLayaway
  \/ /\ Total[s] > 0
     /\ \E m \in Method : row[s] = WithPayment(OpenRow, m, Total[s])
     /\ layaway[s] = NoLayaway
  \/ row[s] = OpenRow /\ layaway[s] = [NoLayaway EXCEPT !.status = "ACTIVE"]

Init ==
  /\ row \in [Sale -> {OpenRow} \cup
                      {WithPayment(OpenRow, m, Total[s]) : m \in Method, s \in Sale}]
  /\ layaway \in [Sale -> {NoLayaway, [NoLayaway EXCEPT !.status = "ACTIVE"]}]
  /\ \A s \in Sale : CheckedOut(s)
  /\ intent = [i \in Intent |-> NoIntent]
  /\ till \in BOOLEAN
  /\ lock = [s \in Sale |-> None]
  /\ ilock = [i \in Intent |-> None]
  /\ op = [t \in Txn |-> "idle"]
  /\ arg = [t \in Txn |-> NoArg]
  /\ seen = [t \in Txn |-> OpenRow]
  /\ seenLay = [t \in Txn |-> NoLayaway]
  /\ emitted = [s \in Sale |-> 0]

-----------------------------------------------------------------------------
(* Pieces of a transaction.                                                *)

Enter(t, name, a) ==
  /\ op[t] = "idle"
  /\ op' = [op EXCEPT ![t] = name]
  /\ arg' = [arg EXCEPT ![t] = a]

ReadSale(t, s) ==
  /\ seen' = [seen EXCEPT ![t] = row[s]]
  /\ seenLay' = [seenLay EXCEPT ![t] = layaway[s]]

\* mutant: a plain SELECT
LockSaleWithoutWaiting(t, s) ==
  /\ row[s].status # "deleted"
  /\ lock' = [lock EXCEPT ![s] = t]

(* SELECT ... FOR UPDATE: waits for the holder, fails on a deleted row.    *)
LockSale(t, s) ==
  /\ row[s].status # "deleted"
  /\ lock[s] = None
  /\ lock' = [lock EXCEPT ![s] = t]

(* Commit or rollback: every lock of t is released.                        *)
EndTransaction(t) ==
  /\ lock' = [s \in Sale |-> IF lock[s] = t THEN None ELSE lock[s]]
  /\ ilock' = [i \in Intent |-> IF ilock[i] = t THEN None ELSE ilock[i]]
  /\ seen' = [seen EXCEPT ![t] = OpenRow]
  /\ seenLay' = [seenLay EXCEPT ![t] = NoLayaway]

Leave(t) ==
  /\ EndTransaction(t)
  /\ op' = [op EXCEPT ![t] = "idle"]
  /\ arg' = [arg EXCEPT ![t] = NoArg]

(* The sale.completed event goes out after the commit.                     *)
LeaveToEmit(t) ==
  /\ EndTransaction(t)
  /\ op' = [op EXCEPT ![t] = "emit"]
  /\ UNCHANGED arg

WriteSale(t, r) == row' = [row EXCEPT ![arg[t].sale] = r]

LayawayOpen(l) ==
  /\ l.status \in {"ACTIVE", "PART_PAID"}
  /\ ~l.completed /\ ~l.cancelled /\ ~l.released

\* mutant: the deposit is not written
SyncLayawayStatus(t, tendered) ==
  layaway' = IF LayawayOpen(seenLay[t])
             THEN [layaway EXCEPT ![arg[t].sale].status =
                     IF tendered > 0 THEN "PART_PAID" ELSE "ACTIVE"]
             ELSE layaway

(* syncLayawayTenderStateTx: decided on the layaway as read, written over  *)
(* whatever the row is by then.                                            *)
SyncLayaway(t, tendered) ==
  LET status == IF tendered > 0 THEN "PART_PAID" ELSE "ACTIVE"
      stale == /\ LayawayOpen(seenLay[t])
               /\ <<seenLay[t].deposit, seenLay[t].status>> # <<tendered, status>>
  IN  layaway' = IF stale
                 THEN [layaway EXCEPT ![arg[t].sale].deposit = tendered,
                                      ![arg[t].sale].status = status]
                 ELSE layaway

\* mutant: captures leave completion to a later request
NeverAutoComplete(t) == FALSE

(* Intents complete their sale by themselves unless a layaway is open.     *)
ShouldAutoComplete(t) ==
  \/ seenLay[t].status \in {"NONE", "COMPLETED"}
  \/ seenLay[t].completed

\* mutant: an expired layaway can still be sold
LayawayCancelled(l) == l.status = "CANCELLED"

LayawayReleased(l) == l.released \/ l.status \in {"CANCELLED", "EXPIRED"}

(* completeSaleIfEligibleTx on the rows r, which the caller may already    *)
(* have added its payment to.                                              *)
CompleteSale(t, r, credit) ==
  LET s == arg[t].sale
      h == Hydrated(r)
  IN  /\ ~LayawayReleased(seenLay[t])
      /\ TenderRulesHold(h, Total[s], credit)
      /\ WriteSale(t, Completed(h, Total[s], credit, till))
      /\ layaway' = IF seenLay[t].status \notin {"NONE", "COMPLETED"}
                    THEN [layaway EXCEPT ![s].status = "COMPLETED",
                                         ![s].completed = TRUE]
                    ELSE layaway
      /\ LeaveToEmit(t)

\* mutant: the replay reports a completion of its own
AlreadyCompletedReemits(t) ==
  /\ seen[t].status = "completed"
  /\ LeaveToEmit(t)
  /\ UNCHANGED <<row, layaway>>

(* A replay finds completedAt set and returns without completing again.    *)
AlreadyCompleted(t) ==
  /\ seen[t].status = "completed"
  /\ Leave(t)
  /\ UNCHANGED <<row, layaway>>
-----------------------------------------------------------------------------
(* addSaleTender *)
BeginAddTender(t, s, m, a) ==
  /\ Enter(t, "addTender", [NoArg EXCEPT !.sale = s, !.method = m, !.amount = a])
  /\ LockSale(t, s)
  /\ ReadSale(t, s)
  /\ UNCHANGED <<row, intent, layaway, till, ilock, emitted>>

CommitAddTender(t) ==
  LET r == WithTender(seen[t], arg[t].method, arg[t].amount)
  IN  /\ op[t] = "addTender"
      /\ seen[t].status = "open"
      /\ Amount(r.tender) <= MaxTender
      /\ WriteSale(t, r)
      /\ SyncLayaway(t, Amount(r.tender))
      /\ Leave(t)
      /\ UNCHANGED <<intent, till, emitted>>

(* deleteSaleTender: which rows make up the sum is not kept, so a tender of *)
(* any amount up to the sum of its method may be the one deleted.           *)
BeginDeleteTender(t, s, m, a) ==
  /\ Enter(t, "deleteTender", [NoArg EXCEPT !.sale = s, !.method = m, !.amount = a])
  /\ LockSale(t, s)
  /\ ReadSale(t, s)
  /\ UNCHANGED <<row, intent, layaway, till, ilock, emitted>>

\* mutant: completedAt is not looked at
DeleteTenderOfAnySale(t) ==
  LET r == [seen[t] EXCEPT !.tender[arg[t].method] = @ - arg[t].amount]
  IN  /\ op[t] = "deleteTender"
      /\ seen[t].tender[arg[t].method] >= arg[t].amount
      /\ WriteSale(t, r)
      /\ SyncLayaway(t, Amount(r.tender))
      /\ Leave(t)
      /\ UNCHANGED <<intent, till, emitted>>

CommitDeleteTender(t) ==
  LET r == [seen[t] EXCEPT !.tender[arg[t].method] = @ - arg[t].amount]
  IN  /\ op[t] = "deleteTender"
      /\ seen[t].status = "open"
      /\ seen[t].tender[arg[t].method] >= arg[t].amount
      /\ WriteSale(t, r)
      /\ SyncLayaway(t, Amount(r.tender))
      /\ Leave(t)
      /\ UNCHANGED <<intent, till, emitted>>

(* completeSaleIfEligible *)
BeginComplete(t, s, credit) ==
  /\ Enter(t, "complete", [NoArg EXCEPT !.sale = s, !.credit = credit])
  /\ LockSale(t, s)
  /\ ReadSale(t, s)
  /\ UNCHANGED <<row, intent, layaway, till, ilock, emitted>>

CommitComplete(t) ==
  /\ op[t] = "complete"
  /\ \/ AlreadyCompleted(t)
     \/ seen[t].status = "open" /\ CompleteSale(t, seen[t], arg[t].credit)
  /\ UNCHANGED <<intent, till, emitted>>

(* createPaymentIntent: a CASH intent is captured, paid and completed in    *)
(* the transaction that creates it, a CARD intent waits for its capture.    *)
BeginCreateIntent(t, s, m, a) ==
  /\ Enter(t, "createIntent", [NoArg EXCEPT !.sale = s, !.method = m, !.amount = a])
  /\ LockSale(t, s)
  /\ ReadSale(t, s)
  /\ UNCHANGED <<row, intent, layaway, till, ilock, emitted>>

CommitCreateIntent(t) ==
  LET a == arg[t]
      r == WithCapture(seen[t], "CASH", a.amount)
      Create(i, status) ==
        intent' = [intent EXCEPT ![i] = [status |-> status, sale |-> a.sale,
                                         method |-> a.method, amount |-> a.amount]]
  IN  /\ op[t] = "createIntent"
      /\ seen[t].status = "open"
      /\ a.amount <= Outstanding(seen[t], Total[a.sale])
      /\ \E i \in Intent :
           /\ intent[i].status = "NONE"
           /\ \/ /\ a.method = "CARD"
                 /\ Create(i, "REQUIRES_ACTION")
                 /\ Leave(t)
                 /\ UNCHANGED <<row, layaway>>
              \/ /\ a.method = "CASH"
                 /\ till
                 /\ Create(i, "CAPTURED")
                 /\ \/ ShouldAutoComplete(t) /\ CompleteSale(t, r, FALSE)
                    \/ /\ ~ShouldAutoComplete(t)
                       /\ WriteSale(t, r)
                       /\ Leave(t)
                       /\ UNCHANGED layaway
      /\ UNCHANGED <<till, emitted>>

(* capturePaymentIntentById: the intent row is locked first, its sale next. *)
BeginCapture(t, i) ==
  /\ Enter(t, "captureWaits", [NoArg EXCEPT !.sale = intent[i].sale, !.intent = i])
  /\ intent[i].status \in {"REQUIRES_ACTION", "CAPTURED"}
  /\ ilock[i] = None
  /\ ilock' = [ilock EXCEPT ![i] = t]
  /\ UNCHANGED <<row, intent, layaway, till, lock, seen, seenLay, emitted>>

CaptureLocksSale(t) ==
  /\ op[t] = "captureWaits"
  /\ LockSale(t, arg[t].sale)
  /\ ReadSale(t, arg[t].sale)
  /\ op' = [op EXCEPT ![t] = "capture"]
  /\ UNCHANGED <<row, intent, layaway, till, ilock, arg, emitted>>

\* mutant: the replay creates the payment again
ReplayPaysAgain(t) ==
  LET i == arg[t].intent
  IN  /\ intent[i].status = "CAPTURED"
      /\ WriteSale(t, WithCapture(seen[t], intent[i].method, intent[i].amount))
      /\ Leave(t)
      /\ UNCHANGED <<intent, layaway>>

(* The intent was captured before: its payment is found, not created again, *)
(* and completion is tried once more.                                       *)
ReplayCapture(t) ==
  /\ intent[arg[t].intent].status = "CAPTURED"
  /\ \/ ShouldAutoComplete(t) /\ AlreadyCompleted(t)
     \/ /\ ShouldAutoComplete(t)
        /\ seen[t].status = "open"
        /\ CompleteSale(t, seen[t], FALSE)
     \/ /\ ~ShouldAutoComplete(t)
        /\ Leave(t)
        /\ UNCHANGED <<row, layaway>>
  /\ UNCHANGED intent

FirstCapture(t) ==
  LET i == arg[t].intent
      r == WithCapture(seen[t], intent[i].method, intent[i].amount)
  IN  /\ intent[i].status = "REQUIRES_ACTION"
      /\ seen[t].status = "open"
      /\ intent[i].amount <= Outstanding(seen[t], Total[arg[t].sale])
      /\ intent[i].method = "CASH" => till
      /\ intent' = [intent EXCEPT ![i].status = "CAPTURED"]
      /\ \/ ShouldAutoComplete(t) /\ CompleteSale(t, r, FALSE)
         \/ /\ ~ShouldAutoComplete(t)
            /\ WriteSale(t, r)
            /\ Leave(t)
            /\ UNCHANGED layaway

CommitCapture(t) ==
  /\ op[t] = "capture"
  /\ ReplayCapture(t) \/ FirstCapture(t)
  /\ UNCHANGED <<till, emitted>>

(* cancelPaymentIntentById holds one lock and reads nothing else.           *)
CancelIntent(i) ==
  /\ intent[i].status \in {"REQUIRES_ACTION", "FAILED"}
  /\ ilock[i] = None
  /\ intent' = [intent EXCEPT ![i].status = "CANCELED"]
  /\ UNCHANGED <<row, layaway, till, lock, ilock, op, arg, seen, seenLay, emitted>>

(* listSaleTenders, a read endpoint, hydrates too, without the sale lock:   *)
(* it counts the tenders, reads where they should come from, and inserts.   *)
BeginListTenders(t, s) ==
  /\ Enter(t, "list", [NoArg EXCEPT !.sale = s])
  /\ row[s].status # "deleted"
  /\ row[s].tender = NoMoney
  /\ ReadSale(t, s)
  /\ UNCHANGED <<row, intent, layaway, till, lock, ilock, emitted>>

ListReadsSources(t) ==
  /\ op[t] = "list"
  /\ seen' = [seen EXCEPT ![t] = [row[arg[t].sale] EXCEPT !.tender = NoMoney]]
  /\ op' = [op EXCEPT ![t] = "listInsert"]
  /\ UNCHANGED <<row, intent, layaway, till, lock, ilock, arg, seenLay, emitted>>

CommitListTenders(t) ==
  LET s == arg[t].sale
      h == Plus(row[s].tender, HydrationOf(seen[t]))
  IN  /\ op[t] = "listInsert"
      /\ lock[s] = None
      /\ row[s].status # "deleted"
      /\ Amount(h) <= MaxTender
      /\ row' = [row EXCEPT ![s].tender = h]
      /\ Leave(t)
      /\ UNCHANGED <<intent, layaway, till, emitted>>

(* reopenBasketFromUnpaidSale looks for payment activity without a lock,    *)
(* then deletes the sale and, by cascade, its tenders, intents and layaway. *)
BeginReopen(t, s) ==
  /\ Enter(t, "reopen", [NoArg EXCEPT !.sale = s])
  /\ row[s].status = "open"
  /\ row[s].tender = NoMoney /\ Payments(row[s]) = NoMoney
  /\ \A i \in Intent : intent[i].sale # s
  /\ ReadSale(t, s)
  /\ UNCHANGED <<row, intent, layaway, till, lock, ilock, emitted>>

CommitReopen(t) ==
  LET s == arg[t].sale
  IN  /\ op[t] = "reopen"
      /\ row[s].status # "deleted"
      /\ lock[s] = None
      /\ \A i \in Intent : intent[i].sale = s => ilock[i] = None
      /\ row' = [row EXCEPT ![s] = DeletedRow]
      /\ intent' = [i \in Intent |-> IF intent[i].sale = s THEN DeletedIntent ELSE intent[i]]
      /\ layaway' = [layaway EXCEPT ![s] = NoLayaway]
      /\ Leave(t)
      /\ UNCHANGED <<till, emitted>>

EmitCompleted(t) ==
  /\ op[t] = "emit"
  /\ emitted' = [emitted EXCEPT ![arg[t].sale] = @ + 1]
  /\ Leave(t)
  /\ UNCHANGED <<row, intent, layaway, till>>

Rollback(t) ==
  /\ op[t] # "idle"
  /\ Leave(t)
  /\ UNCHANGED <<row, intent, layaway, till, emitted>>

(* Staff open and close cash sessions; only whether one is open matters here. *)
ToggleTill ==
  /\ till' = ~till
  /\ UNCHANGED <<row, intent, layaway, lock, ilock, op, arg, seen, seenLay, emitted>>

-----------------------------------------------------------------------------
Begin(t) ==
  \/ \E s \in Sale, m \in Method, a \in Amounts :
       BeginAddTender(t, s, m, a) \/ BeginDeleteTender(t, s, m, a)
         \/ BeginCreateIntent(t, s, m, a)
  \/ \E s \in Sale, credit \in BOOLEAN : BeginComplete(t, s, credit)
  \/ \E s \in Sale : BeginListTenders(t, s) \/ BeginReopen(t, s)
  \/ \E i \in Intent : BeginCapture(t, i)

Commit(t) ==
  \/ CommitAddTender(t) \/ CommitDeleteTender(t) \/ CommitComplete(t)
  \/ CommitCreateIntent(t) \/ CommitCapture(t)
  \/ CommitListTenders(t) \/ CommitReopen(t)

Next ==
  \/ \E t \in Txn : Begin(t) \/ CaptureLocksSale(t) \/ ListReadsSources(t)
                      \/ Commit(t) \/ EmitCompleted(t) \/ Rollback(t)
  \/ \E i \in Intent : CancelIntent(i)
  \/ ToggleTill

Spec == Init /\ [][Next]_vars
-----------------------------------------------------------------------------
(* Properties *)

(* The point of lockSaleForUpdateTx: between its lock and its commit a       *)
(* handler's picture of the sale's rows is the database's, so what it        *)
(* checked still holds when it writes.                                       *)
LockedReadsAreCurrent ==
  \A t \in Txn : op[t] \in Locking =>
    lock[arg[t].sale] = t /\ seen[t] = row[arg[t].sale]

(* completeSaleIfEligibleTx against every tender handler: what a completed   *)
(* sale took, less what it gave back as change or credit, covers the total,  *)
(* and change was only given out of cash.                                    *)
CompletedSaleIsCovered ==
  \A s \in Sale : row[s].status = "completed" =>
    /\ Amount(row[s].tender) - row[s].change - Amount(row[s].credited) >= Total[s]
    /\ row[s].change <= row[s].tender["CASH"]

(* createPaymentIntent and capturePaymentIntentById: several intents may be  *)
(* pending for more than the sale is worth, but what is captured, by however *)
(* many requests at once, never exceeds the total.                           *)
CapturedWithinTotal ==
  \A s \in Sale : Amount(row[s].captured) <= Total[s]

(* Capture, payment and completion are one transaction: without a layaway    *)
(* holding it back, a sale with captured money is a completed sale.          *)
CapturedSaleIsCompleted ==
  \A s \in Sale :
    row[s].captured # NoMoney /\ layaway[s].status = "NONE"
      => row[s].status = "completed"

(* upsertSalePaymentForIntentTx: replayed captures find the payment that is  *)
(* there. Every captured intent is counted once in the sale's payments.      *)
OnePaymentPerCapturedIntent ==
  \A s \in Sale, m \in Method :
    LET captured == {i \in Intent : /\ intent[i].status = "CAPTURED"
                                    /\ intent[i].sale = s /\ intent[i].method = m}
    IN  /\ SumFunctionOnSet([i \in Intent |-> intent[i].amount], captured)
             = row[s].captured[m]
        /\ row[s].paid[m] >= row[s].captured[m]

(* recordCashSaleMovementForPaymentTx books cash when it is paid,            *)
(* recordCashSaleMovementForSaleTx what is left of the tenders at completion, *)
(* if a session is open.  A completed sale has put in the drawer the cash    *)
(* tendered less the change, or what was paid in cash when that is more; one *)
(* whose completion found the till shut only what was paid in cash.  A       *)
(* payment taken after the completion is booked beside that.                *)
DrawerHoldsNetCash ==
  \A s \in Sale :
    LET net == row[s].cash - row[s].change
        paid == row[s].cashPaid
        later == row[s].paid["CASH"] - paid
    IN  row[s].status # "deleted" =>
          row[s].drawer - later = IF ~row[s].tillShut /\ net > paid THEN net ELSE paid

(* emitSaleCompletedEvent runs after the commit that set completedAt: no     *)
(* replay of a completion, a capture or both publishes a second event.       *)
AnnouncedAtMostOnce ==
  \A s \in Sale :
    /\ emitted[s] + Cardinality({t \in Txn : op[t] = "emit" /\ arg[t].sale = s}) <= 1
    /\ emitted[s] = 1 => row[s].status # "open"

(* Nothing but the deletion of the sale undoes a completion or changes what  *)
(* it settled; no request takes a tender off a completed sale.               *)
CompletionIsFinal ==
  [][\A s \in Sale : row[s].status = "completed" /\ row'[s].status # "deleted" =>
       /\ row'[s].status = "completed"
       /\ \A f \in {"change", "credited", "paid", "captured", "drawer"} :
            row'[s][f] = row[s][f]
       /\ \A m \in Method : row'[s].tender[m] >= row[s].tender[m]]_row

=============================================================================
