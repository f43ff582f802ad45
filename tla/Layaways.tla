------------------------------ MODULE Layaways ------------------------------
(***************************************************************************)
(* Layaways on top of the sale transactions: a basket's sale is turned     *)
(* into a layaway that holds its stock; listing layaways expires unpaid    *)
(* ones, cancelling and expiring release the stock, completing one         *)
(* completes its sale.                                                     *)
(*                                                                         *)
(* None of these handlers takes a row lock: each reads the layaway and     *)
(* acts on what it has read in a later step.  completeLayaway is three     *)
(* transactions, the middle one being completeSaleIfEligible.              *)
(*                                                                         *)
(* raced is a history variable: TRUE once two requests have been in        *)
(* progress together.  What holds of requests served one after another,    *)
(* each of which may die between its transactions, is stated with it.      *)
(* unsynced is another: the sales with tenders that were not written to    *)
(* the deposit of their layaway, because they were there before it or      *)
(* because listing the tenders made them, as long as raced is FALSE.       *)
(***************************************************************************)
EXTENDS SalePayments

VARIABLES
  overdue,   \* overdue[s]: expiresAt of the layaway of s has passed
  releases,  \* releases[s]: times the stock of s was put back by a release
  desk,      \* desk[t]: the layaway request t is serving
  raced,     \* two requests have overlapped
  unsynced   \* sales with tenders their layaway was not told of

deskVars == <<overdue, releases, desk>>
allVars == <<vars, deskVars, raced, unsynced>>

DeskStep == {"idle", "create", "expire", "cancel", "complete", "completeSale", "update"}
Desk == [at : DeskStep, sale : Sale \cup {None}, seen : LayawayRow,
         stale : SUBSET Sale, method : Method, deposit : Nat]
NoDesk == [at |-> "idle", sale |-> None, seen |-> NoLayaway, stale |-> {},
           method |-> "CARD", deposit |-> 0]

LayawaysInit ==
  /\ Init
  /\ layaway = [s \in Sale |-> NoLayaway]
  /\ overdue = [s \in Sale |-> FALSE]
  /\ releases = [s \in Sale |-> 0]
  /\ desk = [t \in Txn |-> NoDesk]
  /\ raced = FALSE
  /\ unsynced = {}

-----------------------------------------------------------------------------
Free(t) == desk[t].at = "idle" /\ op[t] = "idle"
At(t, step) == desk[t].at = step /\ op[t] = "idle"
Sit(t, d) == desk' = [desk EXCEPT ![t] = d]

HasLayaway(s) == layaway[s].status # "NONE"

Released(l) == [l EXCEPT !.released = TRUE]
Closed(l, status) == [l EXCEPT !.status = status, !.cancelled = TRUE]

Begin1(t, step, s) ==
  /\ Free(t)
  /\ Sit(t, [NoDesk EXCEPT !.at = step, !.sale = s, !.seen = layaway[s]])
  /\ UNCHANGED <<vars, overdue, releases>>

(* createLayawayFromBasket: the second transaction, after the checkout. A   *)
(* deposit of 0 is no deposit.                                             *)
BeginCreateLayaway(t, s, m, a) ==
  /\ Free(t)
  /\ ~HasLayaway(s)
  /\ row[s].status = "open"
  /\ Sit(t, [NoDesk EXCEPT !.at = "create", !.sale = s, !.method = m, !.deposit = a])
  /\ UNCHANGED <<vars, overdue, releases>>

(* saleId is unique in Layaway; the child rows wait for the lock of the     *)
(* sale; a cash deposit needs an open till.                                *)
CommitCreateLayaway(t) ==
  LET s == desk[t].sale
      m == desk[t].method
      a == desk[t].deposit
      r == WithTender(WithPayment(row[s], m, a), m, a)
  IN  /\ At(t, "create")
      /\ lock[s] = None
      /\ row[s].status # "deleted" /\ ~HasLayaway(s)
      /\ a > 0 /\ m = "CASH" => till
      /\ Amount(r.tender) <= MaxTender
      /\ row' = [row EXCEPT ![s] = r]
      /\ layaway' = [layaway EXCEPT ![s] =
           [NoLayaway EXCEPT !.status = IF a > 0 THEN "PART_PAID" ELSE "ACTIVE",
                             !.deposit = a]]
      /\ overdue' = [overdue EXCEPT ![s] = FALSE]
      /\ Sit(t, NoDesk)
      /\ UNCHANGED <<intent, till, lock, ilock, op, arg, seen, seenLay, emitted, releases>>

PassExpiry(s) ==
  /\ HasLayaway(s) /\ ~overdue[s]
  /\ overdue' = [overdue EXCEPT ![s] = TRUE]
  /\ UNCHANGED <<vars, releases, desk>>

(* expireUnpaidLayawaysTx, run by every listLayaways and getLayaway.        *)
Unpaid(s) == layaway[s].status = "ACTIVE" /\ layaway[s].deposit = 0

Stale(s) == Unpaid(s) /\ overdue[s] /\ ~layaway[s].released

BeginExpire(t) ==
  LET stale == {s \in Sale : Stale(s)}
  IN  /\ Free(t)
      /\ stale # {}
      /\ Sit(t, [NoDesk EXCEPT !.at = "expire", !.stale = stale])
      /\ UNCHANGED <<vars, overdue, releases>>

CommitExpire(t) ==
  LET stale == desk[t].stale
  IN  /\ At(t, "expire")
      /\ \A s \in stale : HasLayaway(s)
      /\ layaway' = [s \in Sale |-> IF s \in stale THEN Closed(Released(layaway[s]), "EXPIRED")
                                    ELSE layaway[s]]
      /\ releases' = [s \in Sale |-> releases[s] + (IF s \in stale THEN 1 ELSE 0)]
      /\ Sit(t, NoDesk)
      /\ UNCHANGED <<row, intent, till, lock, ilock, op, arg, seen, seenLay, emitted, overdue>>

(* cancelLayaway *)
BeginCancel(t, s) ==
  /\ HasLayaway(s)
  /\ ~layaway[s].completed /\ layaway[s].status # "COMPLETED"
  /\ layaway[s].deposit = 0
  /\ Begin1(t, "cancel", s)

\* mutant: stockReleasedAt is not looked at
CommitCancelReleasing(t) ==
  LET s == desk[t].sale
  IN  /\ At(t, "cancel")
      /\ HasLayaway(s)
      /\ layaway' = [layaway EXCEPT ![s] = Closed(Released(@), "CANCELLED")]
      /\ releases' = [releases EXCEPT ![s] = @ + 1]
      /\ Sit(t, NoDesk)
      /\ UNCHANGED <<row, intent, till, lock, ilock, op, arg, seen, seenLay, emitted, overdue>>

CommitCancel(t) ==
  LET s == desk[t].sale
      release == ~desk[t].seen.released
  IN  /\ At(t, "cancel")
      /\ HasLayaway(s)
      /\ layaway' = [layaway EXCEPT ![s] =
                       Closed(IF release THEN Released(@) ELSE @, "CANCELLED")]
      /\ releases' = [releases EXCEPT ![s] = @ + (IF release THEN 1 ELSE 0)]
      /\ Sit(t, NoDesk)
      /\ UNCHANGED <<row, intent, till, lock, ilock, op, arg, seen, seenLay, emitted, overdue>>

(* completeLayaway *)
BeginCompleteLayaway(t, s) ==
  /\ HasLayaway(s)
  /\ ~LayawayReleased(layaway[s])
  /\ layaway[s].status # "COMPLETED" /\ ~layaway[s].completed
  /\ Begin1(t, "complete", s)

CompleteLayawayLocksSale(t) ==
  /\ At(t, "complete")
  /\ BeginComplete(t, desk[t].sale, FALSE)
  /\ Sit(t, [desk[t] EXCEPT !.at = "completeSale"])
  /\ UNCHANGED <<overdue, releases>>

CompleteLayawaySale(t) ==
  /\ desk[t].at = "completeSale"
  /\ CommitComplete(t)
  /\ Sit(t, [desk[t] EXCEPT !.at = "update"])
  /\ UNCHANGED <<overdue, releases>>

\* mutant: the layaway is completed whether or not the sale was
UpdateBeforeSale(t) ==
  LET s == desk[t].sale
  IN  /\ At(t, "complete") \/ At(t, "update")
      /\ HasLayaway(s)
      /\ layaway' = [layaway EXCEPT ![s].status = "COMPLETED", ![s].completed = TRUE,
                                    ![s].deposit = Amount(Payments(row[s]))]
      /\ Sit(t, NoDesk)
      /\ UNCHANGED <<row, intent, till, lock, ilock, op, arg, seen, seenLay, emitted,
                     overdue, releases>>

UpdateCompletedLayaway(t) ==
  LET s == desk[t].sale
  IN  /\ At(t, "update")
      /\ HasLayaway(s)
      /\ layaway' = [layaway EXCEPT ![s].status = "COMPLETED", ![s].completed = TRUE,
                                    ![s].deposit = Amount(Payments(row[s]))]
      /\ Sit(t, NoDesk)
      /\ UNCHANGED <<row, intent, till, lock, ilock, op, arg, seen, seenLay, emitted,
                     overdue, releases>>

(* The request fails, or its process dies, between or in its transactions.  *)
Abort(t) ==
  /\ desk[t].at # "idle"
  /\ Sit(t, NoDesk)
  /\ IF op[t] = "idle" THEN UNCHANGED vars ELSE Rollback(t)
  /\ UNCHANGED <<overdue, releases>>

-----------------------------------------------------------------------------
(* The sale handlers, run by requests that serve no layaway.                *)
SaleRequest(t) ==
  /\ \/ /\ desk[t].at = "idle"
        /\ \/ Begin(t) \/ CaptureLocksSale(t) \/ ListReadsSources(t)
           \/ Commit(t) \/ Rollback(t)
     \/ EmitCompleted(t)
  /\ UNCHANGED deskVars

LayawayRequest(t) ==
  \/ \E s \in Sale, m \in Method, a \in Amounts \cup {0} : BeginCreateLayaway(t, s, m, a)
  \/ \E s \in Sale : BeginCancel(t, s) \/ BeginCompleteLayaway(t, s)
  \/ BeginExpire(t)
  \/ CommitCreateLayaway(t) \/ CommitExpire(t) \/ CommitCancel(t)
  \/ CompleteLayawayLocksSale(t) \/ CompleteLayawaySale(t) \/ UpdateCompletedLayaway(t)
  \/ Abort(t)

Overlap == \E t, u \in Txn : t # u /\ ~Free(t) /\ ~Free(u)

BypassesDeposit(s) ==
  \/ ~HasLayaway(s) /\ HasLayaway(s)' /\ row[s].tender # NoMoney
  \/ \E t \in Txn : /\ op[t] = "listInsert" /\ arg[t].sale = s
                    /\ row'[s].tender # row[s].tender

LayawaysNext ==
  /\ \/ \E t \in Txn : SaleRequest(t) \/ LayawayRequest(t)
     \/ \E s \in Sale : PassExpiry(s)
     \/ (ToggleTill \/ \E i \in Intent : CancelIntent(i)) /\ UNCHANGED deskVars
  /\ raced' = (raced \/ Overlap')
  /\ unsynced' = IF raced' THEN {}
                  ELSE unsynced \cup {s \in Sale : BypassesDeposit(s)}

LayawaysSpec == LayawaysInit /\ [][LayawaysNext]_allVars
-----------------------------------------------------------------------------
(* Properties *)

(* completeSaleIfEligibleTx and the last transaction of completeLayaway,      *)
(* which looks at nothing: however requests overlap and wherever they stop,   *)
(* a layaway that is marked completed has a completed sale.                  *)
CompletedLayawayIsSold ==
  \A s \in Sale : layaway[s].completed => row[s].status = "completed"

(* "Part-paid layaways need a refund or store-credit decision before stock    *)
(* is released": the expiry and the cancellation look at depositPaidPence,    *)
(* which addSaleTender and deleteSaleTender keep in their own transactions    *)
(* (syncLayawayTenderStateTx).  As long as a sale has a tender, taken as the  *)
(* deposit or since, no request puts the stock of its layaway back, if no     *)
(* two requests overlapped.                                                  *)
DepositHoldsStock ==
  [][\A s \in Sale : /\ ~raced /\ s \notin unsynced
                    /\ Amount(row[s].tender) > 0 /\ ~layaway[s].released
       => ~layaway'[s].released]_allVars

(* "Layaway stock has been released": what is sold is still on the shelf, as  *)
(* long as no two requests overlapped.                                       *)
SoldStockIsHeld ==
  raced \/ \A s \in Sale : row[s].status = "completed" => ~layaway[s].released

(* README.md: "Part-paid overdue layaways stay held and are flagged for staff *)
(* review rather than being auto-released." A captured intent of a layaway    *)
(* does not reach its depositPaidPence.                                      *)
PartPaidLayawayIsNotExpired ==
  [][\A s \in Sale : row[s].captured # NoMoney /\ row'[s] = row[s]
       => ~(layaway'[s].status = "EXPIRED" /\ layaway[s].status # "EXPIRED")]_allVars

(* releaseLayawayStockTx: the stock of a layaway is put back at most once,    *)
(* however often it is expired and cancelled one after another.              *)
StockReleasedOnce == raced \/ \A s \in Sale : releases[s] <= 1
=============================================================================
