---------------------------- MODULE WorkshopJobs ----------------------------
(***************************************************************************)
(* A workshop job on its way to a sale: its parts, finalization into a     *)
(* basket, the checkout of that basket at the till, the checkout of the    *)
(* job itself with its persisted outcome and its retries, closing,         *)
(* cancellation and the status requests.                                   *)
(*                                                                         *)
(* checkoutWorkshopJobToSale locks the WorkshopJob row; inserting a sale   *)
(* that refers to the job, and any update of the job, wait for it.  A      *)
(* checkout of a basket locks the Basket row only, and reads the job       *)
(* without a lock, as all other requests do.  cancelWorkshopJob runs       *)
(* SERIALIZABLE: if the job changes after its snapshot it is rolled back   *)
(* and retried, so it is one step here.                                    *)
(*                                                                         *)
(* The seven statuses of a job in work are ACTIVE but for                  *)
(* READY_FOR_COLLECTION, which is READY.  The lines of a job are the       *)
(* quantity of its parts.                                                  *)
(***************************************************************************)
EXTENDS Integers, FiniteSets

CONSTANTS
  Job,         \* workshop jobs
  Basket,      \* baskets finalizations may create
  Req,         \* overlapping requests
  MaxQty,      \* bound on the parts of a job
  Retries,     \* WORKSHOP_CHECKOUT_TRANSACTION_RETRIES
  None

ASSUME BoundsAssumption == MaxQty \in Nat \ {0} /\ Retries \in Nat \ {0}
ASSUME NoneAssumption == None \notin Job \cup Basket

VARIABLES
  job,         \* job[j]: the WorkshopJob row
  parts,       \* parts[j]: the quantity of its PART lines
  basket,      \* basket[b]: the Basket row and its items
  sales,       \* the Sale rows that come from a job or a basket
  outcome,     \* the jobs with a WorkshopCheckoutOutcome
  cancelled,   \* the jobs with a WorkshopCancellation
  used,        \* used[j]: units the WORKSHOP ledger rows of j have drawn
  sold,        \* sold[b]: units the SALE ledger rows of b have drawn
  req,         \* req[r]: what a request has read and is going to do
  raced,       \* j was finalized although it had its basket already (history)
  undone       \* a request other than a checkout or a cancellation of the job
               \*   replaced a final status of j (history)

rows == <<job, parts, basket, sales, outcome, cancelled, used, sold>>
vars == <<job, parts, basket, sales, outcome, cancelled, used, sold, req, raced, undone>>

JobStatuses == {"ACTIVE", "READY", "COMPLETED", "CANCELLED"}
Final == {"COMPLETED", "CANCELLED"}
JobRow == [status : JobStatuses, closed : BOOLEAN, basket : Basket \cup {None}]
BasketRow == [status : {"NONE", "OPEN", "CHECKED_OUT"}, job : Job \cup {None}, qty : Nat]
SaleRow == [job : Job \cup {None}, basket : Basket \cup {None}]

(* at: the request and how far it is; seen: the job as read; qty: its parts   *)
(* as read; next: the row to write; tries: transactions begun.               *)
Idle == [at |-> "idle", job |-> None, basket |-> None, seen |-> "ACTIVE",
         next |-> "ACTIVE", qty |-> 0, tries |-> 0]

Init ==
  /\ job = [j \in Job |-> [status |-> "ACTIVE", closed |-> FALSE, basket |-> None]]
  /\ parts = [j \in Job |-> 0]
  /\ basket = [b \in Basket |-> [status |-> "NONE", job |-> None, qty |-> 0]]
  /\ sales = {} /\ outcome = {} /\ cancelled = {}
  /\ used = [j \in Job |-> 0]
  /\ sold = [b \in Basket |-> 0]
  /\ req = [r \in Req |-> Idle]
  /\ raced = {} /\ undone = {}

-----------------------------------------------------------------------------
SaleOfJob(j) == {s \in sales : s.job = j}
SaleOfBasket(b) == {s \in sales : s.basket = b}
JobOf(b) == {j \in Job : job[j].basket = b}

\* mutant: the job is read without FOR UPDATE
JobNeverLocked(j) == TRUE

\* The row locks held between two steps of a request.
JobIsFree(j) == \A r \in Req : ~(req[r].at = "checkout" /\ req[r].job = j)
BasketIsFree(b) == \A r \in Req : ~(req[r].at \in {"sell", "resell"} /\ req[r].basket = b)

Begin(r, new) ==
  /\ req[r].at = "idle"
  /\ req' = [req EXCEPT ![r] = new]
  /\ UNCHANGED <<rows, raced, undone>>

End(r) == req' = [req EXCEPT ![r] = Idle]

\* Writing status s, by a request that is not the job's checkout or cancellation.
Restate(j, s) ==
  undone' = IF job[j].status \in Final /\ s # job[j].status THEN undone \cup {j} ELSE undone

\* addWorkshopJobLine, updateWorkshopJobLine and deleteWorkshopJobLine.
EditLines(j, q) ==
  /\ ~job[j].closed
  /\ parts' = [parts EXCEPT ![j] = q]
  /\ UNCHANGED <<job, basket, sales, outcome, cancelled, used, sold, req, raced, undone>>

-----------------------------------------------------------------------------
(* finalizeWorkshopJob.  A job that has its basket gets it back unchanged     *)
(* (nothing in src/src deletes a Basket row, so it is still there); a status *)
(* that waits for parts or approval, or is on hold, is kept.                 *)
BeginFinalize(r, j) ==
  /\ ~job[j].closed /\ job[j].basket = None
  /\ Begin(r, [Idle EXCEPT !.at = "finalize", !.job = j, !.seen = job[j].status,
                           !.qty = parts[j]])

CommitFinalize(r, b) ==
  LET j == req[r].job
  IN  /\ req[r].at = "finalize"
      /\ JobIsFree(j)
      /\ basket[b].status = "NONE"
      /\ basket' = [basket EXCEPT ![b] = [status |-> "OPEN", job |-> j, qty |-> req[r].qty]]
      /\ used' = [used EXCEPT ![j] = @ + req[r].qty]
      /\ \E s \in {job[j].status} \cup (IF req[r].seen = "ACTIVE" THEN {"READY"} ELSE {}) :
           job' = [job EXCEPT ![j].basket = b, ![j].status = s] /\ Restate(j, s)
      /\ raced' = IF job[j].basket # None THEN raced \cup {j} ELSE raced
      /\ End(r)
      /\ UNCHANGED <<parts, sales, outcome, cancelled, sold>>

-----------------------------------------------------------------------------
(* checkoutBasketToSale: the Basket row is locked, the job of the basket is   *)
(* read, and the sale there may be already.                                  *)
BeginSell(r, b) ==
  /\ BasketIsFree(b)
  /\ basket[b].status # "NONE"
  /\ \E j \in Job \cup {None} :
       /\ IF JobOf(b) = {} THEN j = None ELSE j \in JobOf(b)
       /\ LET seen == IF j = None THEN "ACTIVE" ELSE job[j].status
              there == SaleOfBasket(b) # {} \/ (j # None /\ SaleOfJob(j) # {})
          IN  /\ there \/ basket[b].status = "OPEN"
              /\ Begin(r, [Idle EXCEPT !.at = IF there THEN "resell" ELSE "sell",
                                       !.job = j, !.basket = b, !.seen = seen])

\* completeWorkshopJobForBasketCheckoutTx goes by the status that was read.
CompleteSeen(r) ==
  LET j == req[r].job
  IN  IF j = None \/ req[r].seen \in Final THEN UNCHANGED <<job, undone>>
      ELSE job' = [job EXCEPT ![j].status = "COMPLETED"] /\ Restate(j, "COMPLETED")

\* mutant: stock moves for the basket of a job too
DrawsEverything(r) == TRUE

DrawsStock(r) == req[r].job = None

(* A new sale.  The insert waits for the lock of the job it refers to, and    *)
(* fails if that job has its sale by now.                                    *)
CommitSell(r) ==
  LET j == req[r].job
      b == req[r].basket
  IN  /\ req[r].at = "sell"
      /\ j # None => JobIsFree(j) /\ SaleOfJob(j) = {}
      /\ sales' = sales \cup {[job |-> j, basket |-> b]}
      /\ sold' = [sold EXCEPT ![b] = IF DrawsStock(r) THEN @ + basket[b].qty ELSE @]
      /\ basket' = [basket EXCEPT ![b].status = "CHECKED_OUT"]
      /\ CompleteSeen(r)
      /\ End(r)
      /\ UNCHANGED <<parts, outcome, cancelled, used, raced>>

\* The sale of the basket, or of the job, is returned; the job is completed.
CommitResell(r) ==
  LET j == req[r].job
  IN  /\ req[r].at = "resell"
      /\ j # None => JobIsFree(j)
      /\ basket' = [basket EXCEPT ![req[r].basket].status = "CHECKED_OUT"]
      /\ CompleteSeen(r)
      /\ End(r)
      /\ UNCHANGED <<parts, sales, outcome, cancelled, used, sold, raced>>

\* mutant: without WORKSHOP_SALE_REOPEN_NOT_SUPPORTED
MayReopenAny(s) == s.basket # None

\* Completed sales, and sales with payment activity, are refused too.
MayReopen(s) == s.basket # None /\ s.job = None

\* reopenBasketFromUnpaidSale; SalePayments has its races with payments.
ReopenSale(s) ==
  /\ MayReopen(s)
  /\ BasketIsFree(s.basket)
  /\ sales' = sales \ {s}
  /\ sold' = [sold EXCEPT ![s.basket] = 0]
  /\ basket' = [basket EXCEPT ![s.basket].status = "OPEN"]
  /\ UNCHANGED <<job, parts, outcome, cancelled, used, req, raced, undone>>

-----------------------------------------------------------------------------
(* checkoutWorkshopJobToSale: up to Retries transactions, each followed by a  *)
(* recovery transaction if it ended with anything but an answer.             *)
Answer(r, a) == req' = [req EXCEPT ![r] = [Idle EXCEPT !.at = a, !.job = req[r].job]]

BeginCheckout(r, j) ==
  Begin(r, [Idle EXCEPT !.at = "attempt", !.job = j, !.tries = 1])

(* The lock, and what is found under it: the outcome of an earlier checkout,  *)
(* a sale without one, a cancelled job, or a job to check out.               *)
Attempt(r) ==
  LET j == req[r].job
  IN  /\ req[r].at = "attempt"
      /\ JobIsFree(j)
      /\ \/ j \in outcome /\ Answer(r, "answered")
         \/ j \notin outcome /\ SaleOfJob(j) # {} /\ req' = [req EXCEPT ![r].at = "hard"]
         \/ /\ j \notin outcome /\ SaleOfJob(j) = {}
            /\ IF job[j].status = "CANCELLED" THEN Answer(r, "failed")
               ELSE req' = [req EXCEPT ![r].at = "checkout"]
      /\ UNCHANGED <<rows, raced, undone>>

(* Sale, final payment, COMPLETED and the outcome are committed together;     *)
(* whether the server learns of it is another matter (P2028, P2024).         *)
CommitCheckout(r) ==
  LET j == req[r].job
  IN  /\ req[r].at = "checkout"
      /\ SaleOfJob(j) = {}
      /\ sales' = sales \cup {[job |-> j, basket |-> None]}
      /\ job' = [job EXCEPT ![j].status = "COMPLETED"]
      /\ outcome' = outcome \cup {j}
      /\ \/ Answer(r, "answered")
         \/ \E a \in {"race", "hard"} : req' = [req EXCEPT ![r].at = a]
      /\ UNCHANGED <<parts, basket, cancelled, used, sold, raced, undone>>

(* The transaction is rolled back: a recoverable race, another error, or an   *)
(* HttpError (a deposit that is required, a payment that does not match).    *)
CheckoutFails(r) ==
  /\ req[r].at \in {"attempt", "checkout"}
  /\ \/ \E a \in {"race", "hard"} : req' = [req EXCEPT ![r].at = a]
     \/ req[r].at = "checkout" /\ Answer(r, "failed")
  /\ UNCHANGED <<rows, raced, undone>>

\* isRecoverableWorkshopCheckoutRace, and the bound of the loop.
NextTry(r) ==
  IF req[r].at = "race" /\ req[r].tries < Retries
  THEN req' = [req EXCEPT ![r].at = "attempt", ![r].tries = @ + 1]
  ELSE Answer(r, "failed")

\* mutant: the last error is thrown without a look at the outcome
RecoverUnlessLast(r) ==
  LET j == req[r].job
  IN  /\ req[r].at \in {"race", "hard"}
      /\ JobIsFree(j)
      /\ IF j \in outcome /\ req[r].tries < Retries THEN Answer(r, "answered") ELSE NextTry(r)
      /\ UNCHANGED <<rows, raced, undone>>

\* recoverWorkshopCheckoutFromAuthoritativeOutcome
Recover(r) ==
  LET j == req[r].job
  IN  /\ req[r].at \in {"race", "hard"}
      /\ JobIsFree(j)
      /\ IF j \in outcome THEN Answer(r, "answered") ELSE NextTry(r)
      /\ UNCHANGED <<rows, raced, undone>>

(* The recovery transaction fails itself: a recoverable error counts as       *)
(* nothing found, any other is thrown while tries remain, too.               *)
RecoveryFails(r) ==
  /\ req[r].at \in {"race", "hard"}
  /\ \/ /\ req[r].at = "race" /\ req[r].tries < Retries
        /\ req' = [req EXCEPT ![r].at = "attempt", ![r].tries = @ + 1]
     \/ Answer(r, "unknown")
  /\ UNCHANGED <<rows, raced, undone>>

\* The client has its answer, or the process stops before there is one.
Forget(r) ==
  /\ req[r].at # "idle"
  /\ End(r)
  /\ UNCHANGED <<rows, raced, undone>>

-----------------------------------------------------------------------------
(* closeWorkshopJob.                                                        *)
BeginClose(r, j) ==
  /\ ~job[j].closed /\ SaleOfJob(j) # {}
  /\ Begin(r, [Idle EXCEPT !.at = "close", !.job = j, !.next = "COMPLETED"])

(* changeWorkshopJobStatus: a final status stays, and a READY job needs a     *)
(* sale to be COMPLETED.                                                     *)
BeginSelect(r, j, s) ==
  /\ job[j].status \notin Final /\ s # job[j].status
  /\ job[j].status = "READY" /\ s = "COMPLETED" => SaleOfJob(j) # {}
  /\ Begin(r, [Idle EXCEPT !.at = "select", !.job = j, !.next = s])

(* updateWorkshopJob: any status replaces any other and reopens the job;      *)
(* COLLECTED and CLOSED need a sale.                                         *)
BeginPatch(r, j, s, close) ==
  /\ s = "COMPLETED" => SaleOfJob(j) # {}
  /\ close => s = "COMPLETED"
  /\ s # "CANCELLED"
  /\ Begin(r, [Idle EXCEPT !.at = IF close THEN "close" ELSE "patch", !.job = j, !.next = s])

CommitStatus(r) ==
  LET j == req[r].job
  IN  /\ req[r].at \in {"close", "select", "patch"}
      /\ JobIsFree(j)
      /\ job' = [job EXCEPT ![j].status = req[r].next,
                            ![j].closed = CASE req[r].at = "close" -> TRUE
                                            [] req[r].at = "patch" -> FALSE
                                            [] OTHER -> @]
      /\ Restate(j, req[r].next)
      /\ End(r)
      /\ UNCHANGED <<parts, basket, sales, outcome, cancelled, used, sold, raced>>

(* cancelWorkshopJob; what becomes of the deposit is left out.               *)
Cancel(j) ==
  /\ JobIsFree(j)
  /\ j \notin cancelled /\ job[j].status # "COMPLETED"
  /\ job' = [job EXCEPT ![j].status = "CANCELLED"]
  /\ cancelled' = cancelled \cup {j}
  /\ UNCHANGED <<parts, basket, sales, outcome, used, sold, req, raced, undone>>

-----------------------------------------------------------------------------
Handle(r, j) ==
  \/ BeginFinalize(r, j) \/ BeginCheckout(r, j) \/ BeginClose(r, j)
  \/ \E s \in JobStatuses : BeginSelect(r, j, s)
  \/ \E s \in JobStatuses, close \in BOOLEAN : BeginPatch(r, j, s, close)

Serve(r) ==
  \/ \E j \in Job : Handle(r, j)
  \/ \E b \in Basket : CommitFinalize(r, b) \/ BeginSell(r, b)
  \/ CommitSell(r) \/ CommitResell(r) \/ CommitStatus(r)
  \/ Attempt(r) \/ CommitCheckout(r) \/ CheckoutFails(r)
  \/ Recover(r) \/ RecoveryFails(r) \/ Forget(r)

Next ==
  \/ \E r \in Req : Serve(r)
  \/ \E j \in Job : Cancel(j) \/ \E q \in 0 .. MaxQty : EditLines(j, q)
  \/ \E s \in sales : ReopenSale(s)

Spec == Init /\ [][Next]_vars
-----------------------------------------------------------------------------
(* Properties *)

(* docs/operations.md: "workshop part stock is consumed once at finalize      *)
(* time, not again when the linked sale is checked out". It takes the link    *)
(* from job to basket, the test of it in both checkouts, and the replay of a  *)
(* finalization, and holds unless two finalizations of a job overlap.        *)
PartsConsumedOnceUnlessRaced ==
  \A j \in Job \ raced :
    LET b == job[j].basket
    IN  /\ used[j] = IF b = None THEN 0 ELSE basket[b].qty
        /\ \A c \in Basket : basket[c].job = j => sold[c] = 0

(* docs/architecture.md: jobs cannot be "marked collected or closed unless a  *)
(* linked sale already exists". The sale stays: no request that returns sales *)
(* to their baskets takes it away behind the job.                            *)
ClosedJobHasSale == \A j \in Job : job[j].closed => SaleOfJob(j) # {}

(* checkoutWorkshopJobToSale under FOR UPDATE beside cancelWorkshopJob under  *)
(* SERIALIZABLE: a job is not both paid for and cancelled, its deposit both   *)
(* counted and given back, unless someone first moves it out of its final     *)
(* status.                                                                   *)
CheckoutExcludesCancellation == outcome \cap cancelled \subseteq undone

(* The recovery in the catch of checkoutWorkshopJobToSale: the client is told *)
(* that a checkout failed only if there is no outcome, however often it       *)
(* timed out after its commit; if even that is not known, the recovery failed.*)
FailureIsHonest ==
  [][\A r \in Req : req'[r].at = "failed" => req[r].at = "failed" \/ req[r].job \notin outcome]_vars
=============================================================================
