------------------------- MODULE WorkshopJobsProofs -------------------------
(***************************************************************************)
(* Proofs about WorkshopJobs, for any number of jobs, baskets, requests    *)
(* and retries.                                                            *)
(*                                                                         *)
(* What a checkout found under the lock of its job stays true until it     *)
(* commits (CheckoutHoldsJob); a final status stays unless it is on record *)
(* in undone (FinalKept); a job has the one basket that was made of it     *)
(* unless two finalizations overlapped (Linked, SoldWithoutJob).           *)
(***************************************************************************)
EXTENDS WorkshopJobs, TLAPS

Stages == {"idle", "finalize", "sell", "resell", "attempt", "checkout", "race", "hard",
           "answered", "failed", "unknown", "close", "select", "patch"}

ReqRow == [at : Stages, job : Job \cup {None}, basket : Basket \cup {None},
           seen : JobStatuses, next : JobStatuses, qty : Nat, tries : Nat]

TypeOK ==
  /\ job \in [Job -> JobRow]
  /\ parts \in [Job -> Nat]
  /\ basket \in [Basket -> BasketRow]
  /\ sales \in SUBSET SaleRow
  /\ outcome \in SUBSET Job /\ cancelled \in SUBSET Job
  /\ used \in [Job -> Nat] /\ sold \in [Basket -> Nat]
  /\ req \in [Req -> ReqRow]
  /\ raced \in SUBSET Job /\ undone \in SUBSET Job

JobStages == {"finalize", "attempt", "checkout", "race", "hard", "close", "select", "patch"}

RequestsNameRows ==
  \A r \in Req : /\ req[r].at \in JobStages => req[r].job \in Job
                 /\ req[r].at \in {"sell", "resell"} =>
                      req[r].basket \in Basket /\ basket[req[r].basket].status # "NONE"

CheckoutHoldsJob ==
  \A r \in Req : req[r].at = "checkout" =>
    /\ req[r].job \notin outcome
    /\ job[req[r].job].status # "CANCELLED"
    /\ \A q \in Req : req[q].at = "checkout" /\ req[q].job = req[r].job => q = r

ClosingHasSale == \A r \in Req : req[r].at = "close" => SaleOfJob(req[r].job) # {}

FinalKept ==
  /\ \A j \in outcome \ undone : job[j].status = "COMPLETED"
  /\ \A j \in cancelled \ undone : job[j].status = "CANCELLED"

Linked ==
  /\ \A b \in Basket : basket[b].status = "NONE" => basket[b].job = None /\ sold[b] = 0
  /\ \A j \in Job : job[j].basket # None => basket[job[j].basket].job = j
  /\ \A b \in Basket : basket[b].job \in Job \ raced => job[basket[b].job].basket = b

SoldWithoutJob ==
  \A r \in Req : req[r].at = "sell" /\ req[r].job = None =>
    basket[req[r].basket].job \notin Job \ raced

JobsInv ==
  /\ TypeOK
  /\ RequestsNameRows
  /\ CheckoutHoldsJob
  /\ ClosingHasSale
  /\ ClosedJobHasSale
  /\ FinalKept
  /\ CheckoutExcludesCancellation
  /\ Linked
  /\ SoldWithoutJob
  /\ PartsConsumedOnceUnlessRaced

-----------------------------------------------------------------------------
LEMMA IdleIsAReq == Idle \in ReqRow /\ Idle.at = "idle"
  BY DEF Idle, ReqRow, Stages, JobStatuses

LEMMA InitEstablishesJobsInv == Init => JobsInv
<1> SUFFICES ASSUME Init PROVE JobsInv
  OBVIOUS
<1>1. TypeOK
  BY IdleIsAReq DEF Init, TypeOK, JobRow, JobStatuses, BasketRow
<1>2. \A r \in Req : req[r].at = "idle"
  BY IdleIsAReq DEF Init
<1>3. RequestsNameRows /\ CheckoutHoldsJob /\ ClosingHasSale /\ SoldWithoutJob
  BY <1>2 DEF RequestsNameRows, CheckoutHoldsJob, ClosingHasSale, SoldWithoutJob, JobStages
<1>4. ClosedJobHasSale /\ FinalKept /\ CheckoutExcludesCancellation
  BY DEF Init, ClosedJobHasSale, FinalKept, CheckoutExcludesCancellation
<1>5. Linked /\ PartsConsumedOnceUnlessRaced
  BY NoneAssumption DEF Init, Linked, PartsConsumedOnceUnlessRaced
<1> QED
  BY <1>1, <1>3, <1>4, <1>5 DEF JobsInv

(* A step of r that leaves every row as it is.                               *)
LEMMA RequestStepKeepsInv ==
  ASSUME JobsInv, NEW r \in Req, NEW new \in ReqRow,
         req' = [req EXCEPT ![r] = new], UNCHANGED <<rows, raced, undone>>,
         new.at \in JobStages => new.job \in Job,
         new.at \in {"sell", "resell"} => new.basket \in Basket /\ basket[new.basket].status # "NONE",
         new.at = "checkout" => /\ new.job \notin outcome
                                /\ job[new.job].status # "CANCELLED"
                                /\ \A q \in Req : req[q].at = "checkout" => req[q].job # new.job,
         new.at = "close" => SaleOfJob(new.job) # {},
         new.at = "sell" /\ new.job = None => basket[new.basket].job \notin Job \ raced
  PROVE  JobsInv'
<1>1. req' \in [Req -> ReqRow] /\ req'[r] = new /\ \A q \in Req \ {r} : req'[q] = req[q]
  BY DEF JobsInv, TypeOK
<1>2. /\ job' = job /\ parts' = parts /\ basket' = basket /\ sales' = sales /\ outcome' = outcome
      /\ cancelled' = cancelled /\ used' = used /\ sold' = sold /\ raced' = raced /\ undone' = undone
  BY DEF rows
<1>3. TypeOK'
  BY <1>1, <1>2 DEF JobsInv, TypeOK
<1>4. RequestsNameRows'
  BY <1>1, <1>2 DEF JobsInv, RequestsNameRows
<1>5. CheckoutHoldsJob'
  BY <1>1, <1>2 DEF JobsInv, CheckoutHoldsJob
<1>6. ClosingHasSale'
  BY <1>1, <1>2 DEF JobsInv, ClosingHasSale, SaleOfJob
<1>7. SoldWithoutJob'
  BY <1>1, <1>2 DEF JobsInv, SoldWithoutJob
<1>8. ClosedJobHasSale' /\ FinalKept' /\ CheckoutExcludesCancellation'
  BY <1>2 DEF JobsInv, ClosedJobHasSale, SaleOfJob, FinalKept, CheckoutExcludesCancellation
<1>9. Linked' /\ PartsConsumedOnceUnlessRaced'
  BY <1>2 DEF JobsInv, Linked, PartsConsumedOnceUnlessRaced
<1> QED
  BY <1>3, <1>4, <1>5, <1>6, <1>7, <1>8, <1>9 DEF JobsInv

LEMMA HandleKeepsInv ==
  ASSUME JobsInv, NEW r \in Req, NEW j \in Job, Handle(r, j)
  PROVE  JobsInv'
<1>1. /\ job[j].status \in JobStatuses /\ parts[j] \in Nat
  BY DEF JobsInv, TypeOK, JobRow
<1>2. ASSUME NEW new \in ReqRow, new.job = j,
             new.at \in {"finalize", "attempt", "close", "select", "patch"},
             new.at = "close" => SaleOfJob(j) # {},
             Begin(r, new)
      PROVE  JobsInv'
  <2>1. req' = [req EXCEPT ![r] = new] /\ UNCHANGED <<rows, raced, undone>>
    BY <1>2 DEF Begin
  <2> QED
    BY <1>2, <2>1, RequestStepKeepsInv
<1>3. CASE BeginFinalize(r, j)
  <2> DEFINE new == [Idle EXCEPT !.at = "finalize", !.job = j, !.seen = job[j].status,
                                 !.qty = parts[j]]
  <2>1. new \in ReqRow /\ new.at = "finalize" /\ new.job = j
    BY <1>1, IdleIsAReq DEF ReqRow, Stages
  <2>2. Begin(r, new)
    BY <1>3 DEF BeginFinalize
  <2> HIDE DEF new
  <2> QED
    BY <1>2, <2>1, <2>2
<1>4. CASE BeginCheckout(r, j)
  <2> DEFINE new == [Idle EXCEPT !.at = "attempt", !.job = j, !.tries = 1]
  <2>1. new \in ReqRow /\ new.at = "attempt" /\ new.job = j
    BY IdleIsAReq DEF ReqRow, Stages
  <2>2. Begin(r, new)
    BY <1>4 DEF BeginCheckout
  <2> HIDE DEF new
  <2> QED
    BY <1>2, <2>1, <2>2
<1>5. ASSUME NEW s \in JobStatuses, NEW at \in {"close", "select", "patch"},
             at = "close" => SaleOfJob(j) # {},
             Begin(r, [Idle EXCEPT !.at = at, !.job = j, !.next = s])
      PROVE  JobsInv'
  <2> DEFINE new == [Idle EXCEPT !.at = at, !.job = j, !.next = s]
  <2>1. new \in ReqRow /\ new.at = at /\ new.job = j
    BY IdleIsAReq DEF ReqRow, Stages
  <2>2. Begin(r, new)
    BY <1>5
  <2> HIDE DEF new
  <2> QED
    BY <1>2, <1>5, <2>1, <2>2
<1>6. CASE BeginClose(r, j)
  <2>1. "COMPLETED" \in JobStatuses
    BY DEF JobStatuses
  <2> QED
    BY <1>5, <1>6, <2>1 DEF BeginClose
<1>7. ASSUME NEW s \in JobStatuses, BeginSelect(r, j, s) PROVE JobsInv'
  BY <1>5, <1>7 DEF BeginSelect
<1>8. ASSUME NEW s \in JobStatuses, NEW close \in BOOLEAN, BeginPatch(r, j, s, close) PROVE JobsInv'
  <2>1. CASE close
    BY <1>5, <1>8, <2>1 DEF BeginPatch
  <2>2. CASE ~close
    BY <1>5, <1>8, <2>2 DEF BeginPatch
  <2> QED
    BY <2>1, <2>2
<1> QED
  BY <1>3, <1>4, <1>6, <1>7, <1>8 DEF Handle

LEMMA AnswerKeepsInv ==
  ASSUME JobsInv, NEW r \in Req, NEW a \in {"answered", "failed", "unknown"}, Answer(r, a),
         UNCHANGED <<rows, raced, undone>>
  PROVE  JobsInv'
<1> DEFINE new == [Idle EXCEPT !.at = a, !.job = req[r].job]
<1>1. req[r].job \in Job \cup {None}
  BY DEF JobsInv, TypeOK, ReqRow
<1>2. new \in ReqRow /\ new.at = a
  BY <1>1, IdleIsAReq DEF ReqRow, Stages
<1>3. req' = [req EXCEPT ![r] = new]
  BY DEF Answer
<1>4. a \notin JobStages /\ a \notin {"sell", "resell", "checkout", "close"}
  BY DEF JobStages
<1> HIDE DEF new
<1> QED
  BY <1>2, <1>3, <1>4, RequestStepKeepsInv

LEMMA StageKeepsInv ==
  ASSUME JobsInv, NEW r \in Req, NEW a \in {"race", "hard", "attempt", "checkout"}, NEW n \in Nat,
         req' = [req EXCEPT ![r].at = a, ![r].tries = n],
         UNCHANGED <<rows, raced, undone>>, req[r].job \in Job,
         a = "checkout" => /\ JobIsFree(req[r].job)
                           /\ req[r].job \notin outcome /\ job[req[r].job].status # "CANCELLED"
  PROVE  JobsInv'
<1> DEFINE new == [req[r] EXCEPT !.at = a, !.tries = n]
<1>1. req[r] \in ReqRow
  BY DEF JobsInv, TypeOK
<1>2. new \in ReqRow /\ new.at = a /\ new.job = req[r].job
  BY <1>1 DEF ReqRow, Stages
<1>3. req' = [req EXCEPT ![r] = new]
  BY <1>1 DEF JobsInv, TypeOK, ReqRow
<1>4. a \notin {"sell", "resell", "close"}
  OBVIOUS
<1>5. new.at = "checkout" => /\ new.job \notin outcome
                             /\ job[new.job].status # "CANCELLED"
                             /\ \A q \in Req : req[q].at = "checkout" => req[q].job # new.job
  BY <1>2 DEF JobIsFree
<1> HIDE DEF new
<1>6. new.job \in Job /\ new.at \notin {"sell", "resell", "close"}
  BY <1>2, <1>4
<1> QED
  BY <1>2, <1>3, <1>5, <1>6, RequestStepKeepsInv

LEMMA SameTries ==
  ASSUME JobsInv, NEW r \in Req, NEW a
  PROVE  /\ req[r].tries \in Nat
         /\ [req EXCEPT ![r].at = a] = [req EXCEPT ![r].at = a, ![r].tries = req[r].tries]
<1>1. req[r] \in ReqRow /\ req \in [Req -> ReqRow]
  BY DEF JobsInv, TypeOK
<1> QED
  BY <1>1 DEF ReqRow

(* The checkout of a job up to its commit, and what follows a failure.       *)
LEMMA CheckoutPathKeepsInv ==
  ASSUME JobsInv, NEW r \in Req,
         Attempt(r) \/ CheckoutFails(r) \/ Recover(r) \/ RecoveryFails(r)
  PROVE  JobsInv'
<1>1. UNCHANGED <<rows, raced, undone>> /\ req[r].at \in {"attempt", "checkout", "race", "hard"}
  BY DEF Attempt, CheckoutFails, Recover, RecoveryFails
<1>2. req[r].job \in Job
  BY <1>1 DEF JobsInv, RequestsNameRows, JobStages
<1>3. ASSUME NEW a \in {"race", "hard", "checkout"}, req' = [req EXCEPT ![r].at = a],
             a = "checkout" => /\ JobIsFree(req[r].job)
                               /\ req[r].job \notin outcome /\ job[req[r].job].status # "CANCELLED"
      PROVE  JobsInv'
  <2>1. req[r].tries \in Nat /\ req' = [req EXCEPT ![r].at = a, ![r].tries = req[r].tries]
    BY <1>3, SameTries
  <2> QED
    BY <1>1, <1>2, <1>3, <2>1, StageKeepsInv
<1>4. ASSUME req' = [req EXCEPT ![r].at = "attempt", ![r].tries = @ + 1] PROVE JobsInv'
  <2>1. req[r].tries + 1 \in Nat
    BY DEF JobsInv, TypeOK, ReqRow
  <2>2. req' = [req EXCEPT ![r].at = "attempt", ![r].tries = req[r].tries + 1]
    BY <1>4 DEF JobsInv, TypeOK, ReqRow
  <2> QED
    BY <1>1, <1>2, <2>1, <2>2, StageKeepsInv
<1>5. ASSUME NEW a \in {"answered", "failed", "unknown"}, Answer(r, a) PROVE JobsInv'
  BY <1>1, <1>5, AnswerKeepsInv
<1>6. CASE Attempt(r)
  <2>1. \/ Answer(r, "answered") \/ Answer(r, "failed") \/ req' = [req EXCEPT ![r].at = "hard"]
        \/ /\ JobIsFree(req[r].job) /\ req[r].job \notin outcome
           /\ job[req[r].job].status # "CANCELLED" /\ req' = [req EXCEPT ![r].at = "checkout"]
    BY <1>6 DEF Attempt
  <2> QED
    BY <1>3, <1>5, <2>1
<1>7. CASE CheckoutFails(r)
  BY <1>3, <1>5, <1>7 DEF CheckoutFails
<1>8. CASE Recover(r)
  BY <1>4, <1>5, <1>8 DEF Recover, NextTry
<1>9. CASE RecoveryFails(r)
  BY <1>4, <1>5, <1>9 DEF RecoveryFails
<1> QED
  BY <1>6, <1>7, <1>8, <1>9

LEMMA ForgetKeepsInv ==
  ASSUME JobsInv, NEW r \in Req, Forget(r)
  PROVE  JobsInv'
<1>1. "idle" \notin JobStages
  BY DEF JobStages
<1> QED
  BY <1>1, IdleIsAReq, RequestStepKeepsInv DEF Forget, End

(* The job a checkout at the till reads is the one the basket was made for,   *)
(* or the basket belongs to no job, or to one that was finalized twice.       *)
LEMMA BeginSellKeepsInv ==
  ASSUME JobsInv, NEW r \in Req, NEW b \in Basket, BeginSell(r, b)
  PROVE  JobsInv'
<1>1. PICK j \in Job \cup {None} :
        /\ IF JobOf(b) = {} THEN j = None ELSE j \in JobOf(b)
        /\ LET seen == IF j = None THEN "ACTIVE" ELSE job[j].status
               there == SaleOfBasket(b) # {} \/ (j # None /\ SaleOfJob(j) # {})
           IN  Begin(r, [Idle EXCEPT !.at = IF there THEN "resell" ELSE "sell",
                                     !.job = j, !.basket = b, !.seen = seen])
  BY DEF BeginSell
<1> DEFINE seen == IF j = None THEN "ACTIVE" ELSE job[j].status
           there == SaleOfBasket(b) # {} \/ (j # None /\ SaleOfJob(j) # {})
           new == [Idle EXCEPT !.at = IF there THEN "resell" ELSE "sell",
                               !.job = j, !.basket = b, !.seen = seen]
<1>2. seen \in JobStatuses
  BY <1>1 DEF JobsInv, TypeOK, JobRow, JobStatuses
<1>3. /\ new \in ReqRow /\ new.at \in {"sell", "resell"} /\ new.job = j /\ new.basket = b
  BY <1>2, IdleIsAReq DEF ReqRow, Stages
<1>4. req' = [req EXCEPT ![r] = new] /\ UNCHANGED <<rows, raced, undone>>
  BY <1>1 DEF Begin
<1>5. basket[b].status # "NONE"
  BY DEF BeginSell
<1>6. j = None => basket[b].job \notin Job \ raced
  <2> SUFFICES ASSUME j = None, basket[b].job \in Job \ raced PROVE FALSE
    OBVIOUS
  <2>1. basket[b].job \in JobOf(b)
    BY DEF JobsInv, Linked, JobOf
  <2>2. j \in JobOf(b)
    BY <1>1, <2>1
  <2> QED
    BY <2>2, NoneAssumption DEF JobOf
<1>7. "sell" \notin JobStages /\ "resell" \notin JobStages
  BY DEF JobStages
<1> HIDE DEF new, seen, there
<1> QED
  BY <1>3, <1>4, <1>5, <1>6, <1>7, RequestStepKeepsInv

-----------------------------------------------------------------------------
(* A step that ends r (or leaves the requests alone) and changes the rows.    *)
EndsOrStays(r) == End(r) \/ req' = req

LEMMA EndedRequest ==
  ASSUME JobsInv, NEW r \in Req, EndsOrStays(r)
  PROVE  /\ req' \in [Req -> ReqRow]
         /\ \A q \in Req : req'[q] = req[q] \/ req'[q].at = "idle"
  BY IdleIsAReq DEF EndsOrStays, End, JobsInv, TypeOK

(* What a step must leave alone for the requests under way to stay valid: j   *)
(* is the job it writes, if any.                                             *)
LEMMA OthersKeepRequests ==
  ASSUME JobsInv, NEW j \in Job \cup {None}, NEW r \in Req, EndsOrStays(r),
         j # None => JobIsFree(j),
         \A k \in Job \ {j} : job'[k].status = job[k].status,
         outcome' = outcome, raced \subseteq raced',
         \A k \in Job : SaleOfJob(k) \subseteq SaleOfJob(k)',
         \A b \in Basket : basket[b].status # "NONE" =>
                          basket'[b].status # "NONE" /\ basket'[b].job = basket[b].job
  PROVE  RequestsNameRows' /\ CheckoutHoldsJob' /\ ClosingHasSale' /\ SoldWithoutJob'
<1>1. \A q \in Req : req'[q] = req[q] \/ req'[q].at = "idle"
  BY EndedRequest
<1>2. {"idle"} \cap (JobStages \cup {"sell", "resell", "checkout", "close"}) = {}
  BY DEF JobStages
<1>3. RequestsNameRows'
  BY <1>1, <1>2 DEF JobsInv, RequestsNameRows
<1>4. \A q \in Req : req'[q].at = "checkout" =>
        req'[q] = req[q] /\ req[q].job \in Job \ {j}
  BY <1>1, NoneAssumption DEF JobsInv, RequestsNameRows, JobIsFree, JobStages
<1>5. CheckoutHoldsJob'
  BY <1>4 DEF JobsInv, CheckoutHoldsJob
<1>6. \A q \in Req : req'[q].at = "close" => req'[q] = req[q] /\ req[q].job \in Job
  BY <1>1 DEF JobsInv, RequestsNameRows, JobStages
<1>7. ClosingHasSale'
  BY <1>6 DEF JobsInv, ClosingHasSale
<1>8. \A q \in Req : req'[q].at = "sell" =>
        req'[q] = req[q] /\ basket'[req[q].basket].job = basket[req[q].basket].job
  BY <1>1 DEF JobsInv, RequestsNameRows
<1>9. SoldWithoutJob'
  BY <1>8 DEF JobsInv, SoldWithoutJob
<1> QED
  BY <1>3, <1>5, <1>7, <1>9

(* A final status that is replaced is on record.                             *)
LEMMA RestateKeepsFinal ==
  ASSUME JobsInv, NEW j \in Job, NEW s, Restate(j, s), job'[j].status = s,
         \A k \in Job \ {j} : job'[k].status = job[k].status,
         outcome' = outcome, cancelled' = cancelled
  PROVE  FinalKept' /\ CheckoutExcludesCancellation' /\ undone' \in SUBSET Job
<1>1. undone \subseteq undone' /\ undone' \in SUBSET Job
  BY DEF Restate, JobsInv, TypeOK
<1>2. j \notin undone' /\ job[j].status \in Final => s = job[j].status
  BY DEF Restate
<1>3. FinalKept'
  BY <1>1, <1>2 DEF JobsInv, TypeOK, FinalKept, Final
<1>4. CheckoutExcludesCancellation'
  BY <1>1 DEF JobsInv, CheckoutExcludesCancellation
<1> QED
  BY <1>1, <1>3, <1>4

LEMMA FinalizeKeepsInv ==
  ASSUME JobsInv, NEW r \in Req, NEW b \in Basket, CommitFinalize(r, b)
  PROVE  JobsInv'
<1>1. PICK j \in Job : j = req[r].job
  BY DEF CommitFinalize, JobsInv, RequestsNameRows, JobStages
<1>2. PICK q \in Nat : q = req[r].qty
  BY DEF JobsInv, TypeOK, ReqRow
<1>3. PICK s \in JobStatuses : /\ job' = [job EXCEPT ![j].basket = b, ![j].status = s]
                              /\ Restate(j, s)
  BY <1>1 DEF CommitFinalize, JobsInv, TypeOK, JobRow, JobStatuses
<1>4. /\ JobIsFree(j) /\ basket[b].status = "NONE"
      /\ basket' = [basket EXCEPT ![b] = [status |-> "OPEN", job |-> j, qty |-> q]]
      /\ used' = [used EXCEPT ![j] = @ + q]
      /\ raced' = IF job[j].basket # None THEN raced \cup {j} ELSE raced
      /\ EndsOrStays(r)
      /\ parts' = parts /\ sales' = sales /\ outcome' = outcome /\ cancelled' = cancelled
      /\ sold' = sold
  BY <1>1, <1>2 DEF CommitFinalize, EndsOrStays
<1>5. /\ job' \in [Job -> JobRow] /\ job'[j].basket = b /\ job'[j].status = s
      /\ job'[j].closed = job[j].closed /\ \A k \in Job \ {j} : job'[k] = job[k]
  BY <1>3 DEF JobsInv, TypeOK, JobRow
<1>6. /\ basket' \in [Basket -> BasketRow] /\ basket'[b].job = j /\ basket'[b].qty = q
      /\ basket'[b].status = "OPEN" /\ \A c \in Basket \ {b} : basket'[c] = basket[c]
  BY <1>2, <1>4 DEF JobsInv, TypeOK, BasketRow
<1>7. used' \in [Job -> Nat] /\ used'[j] = used[j] + q /\ \A k \in Job \ {j} : used'[k] = used[k]
  BY <1>2, <1>4 DEF JobsInv, TypeOK
<1>8. raced' \in SUBSET Job /\ raced \subseteq raced'
  BY <1>4 DEF JobsInv, TypeOK
<1>9. FinalKept' /\ CheckoutExcludesCancellation' /\ undone' \in SUBSET Job
  BY <1>3, <1>4, <1>5, RestateKeepsFinal
<1>10. TypeOK'
  BY <1>4, <1>5, <1>6, <1>7, <1>8, <1>9, EndedRequest DEF JobsInv, TypeOK
<1>11. RequestsNameRows' /\ CheckoutHoldsJob' /\ ClosingHasSale' /\ SoldWithoutJob'
  <2>1. \A k \in Job : SaleOfJob(k)' = SaleOfJob(k)
    BY <1>4 DEF SaleOfJob
  <2> QED
    BY <1>4, <1>5, <1>6, <1>8, <2>1, OthersKeepRequests
<1>12. ClosedJobHasSale'
  BY <1>4, <1>5 DEF JobsInv, ClosedJobHasSale, SaleOfJob
<1>13. basket[b].job = None /\ sold[b] = 0 /\ \A k \in Job : job[k].basket # b
  BY <1>4, NoneAssumption DEF JobsInv, Linked
<1>14. Linked'
  <2>1. \A c \in Basket : basket'[c].status = "NONE" => basket'[c].job = None /\ sold'[c] = 0
    BY <1>4, <1>6 DEF JobsInv, Linked
  <2>2. \A k \in Job : job'[k].basket # None => basket'[job'[k].basket].job = k
    BY <1>5, <1>6, <1>13 DEF JobsInv, TypeOK, JobRow, Linked
  <2>3. \A c \in Basket : basket'[c].job \in Job \ raced' => job'[basket'[c].job].basket = c
    <3> SUFFICES ASSUME NEW c \in Basket \ {b}, basket[c].job \in Job \ raced'
                 PROVE  job'[basket[c].job].basket = c
      BY <1>5, <1>6
    <3>1. job[basket[c].job].basket = c
      BY <1>8 DEF JobsInv, Linked
    <3>2. basket[c].job # j
      BY <1>4, <3>1, NoneAssumption
    <3> QED
      BY <1>5, <3>1, <3>2
  <2> QED
    BY <2>1, <2>2, <2>3 DEF Linked
<1>15. PartsConsumedOnceUnlessRaced'
  <2> SUFFICES ASSUME NEW k \in Job \ raced'
               PROVE  /\ used'[k] = IF job'[k].basket = None THEN 0 ELSE basket'[job'[k].basket].qty
                      /\ \A c \in Basket : basket'[c].job = k => sold'[c] = 0
    BY DEF PartsConsumedOnceUnlessRaced
  <2>1. /\ used[k] = IF job[k].basket = None THEN 0 ELSE basket[job[k].basket].qty
        /\ \A c \in Basket : basket[c].job = k => sold[c] = 0
    BY <1>8 DEF JobsInv, PartsConsumedOnceUnlessRaced
  <2>2. \A c \in Basket : basket'[c].job = k => sold'[c] = 0
    BY <1>4, <1>6, <1>13, <2>1
  <2>3. CASE k = j
    <3>1. job[j].basket = None
      BY <1>4, <2>3
    <3>2. used'[j] = q
      BY <1>2, <1>7, <2>1, <2>3, <3>1
    <3> QED
      BY <1>5, <1>6, <2>2, <2>3, <3>2, NoneAssumption
  <2>4. CASE k # j
    <3>1. job'[k] = job[k] /\ used'[k] = used[k]
      BY <1>5, <1>7, <2>4
    <3>2. job[k].basket \in Basket \cup {None} /\ job[k].basket # b
      BY <1>13 DEF JobsInv, TypeOK, JobRow
    <3> QED
      BY <1>6, <2>1, <2>2, <3>1, <3>2
  <2> QED
    BY <2>3, <2>4
<1> QED
  BY <1>9, <1>10, <1>11, <1>12, <1>14, <1>15 DEF JobsInv

(* completeWorkshopJobForBasketCheckoutTx writes the status of one job.      *)
LEMMA CompleteSeenFacts ==
  ASSUME JobsInv, NEW r \in Req, CompleteSeen(r), outcome' = outcome, cancelled' = cancelled,
         req[r].at \in {"sell", "resell"}
  PROVE  /\ job' \in [Job -> JobRow]
         /\ \A k \in Job : job'[k].closed = job[k].closed /\ job'[k].basket = job[k].basket
         /\ \A k \in Job \ {req[r].job} : job'[k].status = job[k].status
         /\ FinalKept' /\ CheckoutExcludesCancellation' /\ undone' \in SUBSET Job
<1> DEFINE Facts == /\ job' \in [Job -> JobRow]
                    /\ \A k \in Job : job'[k].closed = job[k].closed /\ job'[k].basket = job[k].basket
                    /\ \A k \in Job \ {req[r].job} : job'[k].status = job[k].status
                    /\ FinalKept' /\ CheckoutExcludesCancellation' /\ undone' \in SUBSET Job
<1>1. ASSUME UNCHANGED <<job, undone>> PROVE Facts
  BY <1>1 DEF JobsInv, TypeOK, FinalKept, CheckoutExcludesCancellation
<1>2. ASSUME req[r].job # None, job' = [job EXCEPT ![req[r].job].status = "COMPLETED"],
             Restate(req[r].job, "COMPLETED")
      PROVE  Facts
  <2>1. PICK j \in Job : j = req[r].job
    BY <1>2 DEF JobsInv, TypeOK, ReqRow
  <2>2. /\ job' \in [Job -> JobRow] /\ job'[j].status = "COMPLETED"
        /\ \A k \in Job : job'[k].closed = job[k].closed /\ job'[k].basket = job[k].basket
        /\ \A k \in Job \ {j} : job'[k].status = job[k].status
    BY <1>2, <2>1 DEF JobsInv, TypeOK, JobRow, JobStatuses
  <2>3. FinalKept' /\ CheckoutExcludesCancellation' /\ undone' \in SUBSET Job
    BY <1>2, <2>1, <2>2, RestateKeepsFinal
  <2> QED
    BY <2>1, <2>2, <2>3
<1>3. Facts
  <2> HIDE DEF Facts
  <2> QED
    BY <1>1, <1>2 DEF CompleteSeen
<1> QED
  BY <1>3

LEMMA SellKeepsInv ==
  ASSUME JobsInv, NEW r \in Req, CommitSell(r) \/ CommitResell(r)
  PROVE  JobsInv'
<1>1. PICK b \in Basket : b = req[r].basket
  BY DEF CommitSell, CommitResell, JobsInv, RequestsNameRows
<1>2. PICK j \in Job \cup {None} : j = req[r].job
  BY DEF JobsInv, TypeOK, ReqRow
<1>3. /\ req[r].at \in {"sell", "resell"} /\ basket[b].status # "NONE"
      /\ j # None => JobIsFree(j)
      /\ basket' = [basket EXCEPT ![b].status = "CHECKED_OUT"]
      /\ CompleteSeen(r) /\ EndsOrStays(r)
      /\ parts' = parts /\ outcome' = outcome /\ cancelled' = cancelled /\ used' = used
      /\ raced' = raced
  BY <1>1, <1>2 DEF CommitSell, CommitResell, EndsOrStays, JobsInv, RequestsNameRows
<1>4. /\ job' \in [Job -> JobRow]
      /\ \A k \in Job : job'[k].closed = job[k].closed /\ job'[k].basket = job[k].basket
      /\ \A k \in Job \ {j} : job'[k].status = job[k].status
      /\ FinalKept' /\ CheckoutExcludesCancellation' /\ undone' \in SUBSET Job
  BY <1>2, <1>3, CompleteSeenFacts
<1>5. /\ basket' \in [Basket -> BasketRow] /\ basket'[b].status # "NONE"
      /\ \A c \in Basket \ {b} : basket'[c] = basket[c]
      /\ \A c \in Basket : basket'[c].job = basket[c].job /\ basket'[c].qty = basket[c].qty
  BY <1>3 DEF JobsInv, TypeOK, BasketRow
<1>6. /\ sales' \in SUBSET SaleRow /\ sales \subseteq sales'
  <2>1. CASE CommitSell(r)
    <3>1. sales' = sales \cup {[job |-> j, basket |-> b]}
      BY <1>1, <1>2, <2>1 DEF CommitSell
    <3> QED
      BY <3>1 DEF SaleRow, JobsInv, TypeOK
  <2>2. CASE CommitResell(r)
    BY <2>2 DEF CommitResell, JobsInv, TypeOK
  <2> QED
    BY <2>1, <2>2
<1>7. \A k \in Job : SaleOfJob(k) \subseteq SaleOfJob(k)'
  BY <1>6 DEF SaleOfJob
<1>8. /\ sold' \in [Basket -> Nat] /\ \A c \in Basket \ {b} : sold'[c] = sold[c]
      /\ basket[b].job \in Job \ raced => sold'[b] = sold[b]
  <2>1. CASE CommitSell(r)
    <3>1. sold' = [sold EXCEPT ![b] = IF req[r].job = None THEN sold[b] + basket[b].qty ELSE sold[b]]
      BY <1>1, <2>1 DEF CommitSell, DrawsStock, JobsInv, TypeOK
    <3>2. req[r].at = "sell"
      BY <2>1 DEF CommitSell
    <3>3. basket[b].job \in Job \ raced => req[r].job # None
      BY <1>1, <3>2 DEF JobsInv, SoldWithoutJob
    <3> QED
      BY <3>1, <3>3 DEF JobsInv, TypeOK, BasketRow
  <2>2. CASE CommitResell(r)
    BY <2>2 DEF CommitResell, JobsInv, TypeOK
  <2> QED
    BY <2>1, <2>2
<1>9. TypeOK'
  BY <1>3, <1>4, <1>5, <1>6, <1>8, EndedRequest DEF JobsInv, TypeOK
<1>10. RequestsNameRows' /\ CheckoutHoldsJob' /\ ClosingHasSale' /\ SoldWithoutJob'
  <2>1. \A c \in Basket : basket[c].status # "NONE" =>
                         basket'[c].status # "NONE" /\ basket'[c].job = basket[c].job
    BY <1>5
  <2> QED
    BY <1>3, <1>4, <1>7, <2>1, OthersKeepRequests
<1>11. ClosedJobHasSale'
  BY <1>4, <1>7 DEF JobsInv, ClosedJobHasSale
<1>12. Linked'
  BY <1>3, <1>4, <1>5, <1>8 DEF JobsInv, TypeOK, JobRow, Linked
<1>13. PartsConsumedOnceUnlessRaced'
  <2>1. \A k \in Job : job'[k].basket = None \/ basket'[job'[k].basket].qty = basket[job[k].basket].qty
    BY <1>4, <1>5 DEF JobsInv, TypeOK, JobRow
  <2>2. \A c \in Basket : basket[c].job \in Job \ raced => sold'[c] = sold[c]
    BY <1>8
  <2> QED
    BY <1>3, <1>4, <1>5, <2>1, <2>2 DEF JobsInv, PartsConsumedOnceUnlessRaced
<1> QED
  BY <1>4, <1>9, <1>10, <1>11, <1>12, <1>13 DEF JobsInv

(* A sale that is returned to its basket refers to no job.                   *)
LEMMA ReopenKeepsInv ==
  ASSUME JobsInv, NEW s \in sales, ReopenSale(s)
  PROVE  JobsInv'
<1>1. PICK b \in Basket : b = s.basket
  BY NoneAssumption DEF ReopenSale, MayReopen, JobsInv, TypeOK, SaleRow
<1>2. /\ s.job = None /\ sales' = sales \ {s} /\ sold' = [sold EXCEPT ![b] = 0]
      /\ basket' = [basket EXCEPT ![b].status = "OPEN"]
      /\ job' = job /\ parts' = parts /\ outcome' = outcome /\ cancelled' = cancelled
      /\ used' = used /\ req' = req /\ raced' = raced /\ undone' = undone
  BY <1>1 DEF ReopenSale, MayReopen
<1>3. /\ basket' \in [Basket -> BasketRow] /\ basket'[b].status # "NONE"
      /\ \A c \in Basket \ {b} : basket'[c] = basket[c]
      /\ \A c \in Basket : basket'[c].job = basket[c].job /\ basket'[c].qty = basket[c].qty
  BY <1>2 DEF JobsInv, TypeOK, BasketRow
<1>4. /\ sold' \in [Basket -> Nat] /\ sold'[b] = 0 /\ \A c \in Basket \ {b} : sold'[c] = sold[c]
  BY <1>2 DEF JobsInv, TypeOK
<1>5. \A k \in Job : SaleOfJob(k)' = SaleOfJob(k)
  BY <1>2, NoneAssumption DEF SaleOfJob
<1>6. TypeOK'
  BY <1>2, <1>3, <1>4 DEF JobsInv, TypeOK
<1>7. RequestsNameRows' /\ CheckoutHoldsJob' /\ SoldWithoutJob'
  BY <1>2, <1>3 DEF JobsInv, RequestsNameRows, CheckoutHoldsJob, SoldWithoutJob
<1>8. ClosingHasSale'
  BY <1>2, <1>5 DEF JobsInv, RequestsNameRows, JobStages, ClosingHasSale
<1>9. ClosedJobHasSale' /\ FinalKept' /\ CheckoutExcludesCancellation'
  BY <1>2, <1>5 DEF JobsInv, ClosedJobHasSale, FinalKept, CheckoutExcludesCancellation
<1>10. Linked'
  BY <1>2, <1>3, <1>4 DEF JobsInv, TypeOK, JobRow, Linked
<1>11. PartsConsumedOnceUnlessRaced'
  <2>1. \A k \in Job : job'[k].basket = None \/ basket'[job'[k].basket].qty = basket[job[k].basket].qty
    BY <1>2, <1>3 DEF JobsInv, TypeOK, JobRow
  <2> QED
    BY <1>2, <1>3, <1>4, <2>1 DEF JobsInv, PartsConsumedOnceUnlessRaced
<1> QED
  BY <1>6, <1>7, <1>8, <1>9, <1>10, <1>11 DEF JobsInv

LEMMA SameBaskets ==
  ASSUME JobsInv, basket' = basket, used' = used, sold' = sold, raced' = raced,
         \A k \in Job : job'[k].basket = job[k].basket
  PROVE  Linked' /\ PartsConsumedOnceUnlessRaced'
<1>1. Linked'
  BY DEF JobsInv, Linked
<1>2. PartsConsumedOnceUnlessRaced'
  BY DEF JobsInv, PartsConsumedOnceUnlessRaced
<1> QED
  BY <1>1, <1>2

(* The commit of a checkout completes a job that was not cancelled: the lock  *)
(* kept its status since it was read.                                        *)
LEMMA CheckoutKeepsInv ==
  ASSUME JobsInv, NEW r \in Req, CommitCheckout(r)
  PROVE  JobsInv'
<1>1. PICK j \in Job : j = req[r].job
  BY DEF CommitCheckout, JobsInv, RequestsNameRows, JobStages
<1>2. /\ j \notin outcome /\ job[j].status # "CANCELLED" /\ req[r].at = "checkout"
      /\ \A q \in Req \ {r} : req[q].at = "checkout" => req[q].job # j
  BY <1>1 DEF CommitCheckout, JobsInv, CheckoutHoldsJob
<1>3. /\ sales' = sales \cup {[job |-> j, basket |-> None]}
      /\ job' = [job EXCEPT ![j].status = "COMPLETED"]
      /\ outcome' = outcome \cup {j}
      /\ parts' = parts /\ basket' = basket /\ cancelled' = cancelled /\ used' = used
      /\ sold' = sold /\ raced' = raced /\ undone' = undone
  BY <1>1 DEF CommitCheckout
<1>4. /\ req' \in [Req -> ReqRow] /\ \A q \in Req \ {r} : req'[q] = req[q]
      /\ req'[r].at \in {"answered", "race", "hard"} /\ req'[r].job = j
  <2>1. CASE Answer(r, "answered")
    BY <1>1, <2>1, IdleIsAReq DEF Answer, JobsInv, TypeOK, ReqRow, Stages
  <2>2. ASSUME NEW a \in {"race", "hard"}, req' = [req EXCEPT ![r].at = a]
        PROVE  /\ req' \in [Req -> ReqRow] /\ \A q \in Req \ {r} : req'[q] = req[q]
               /\ req'[r].at \in {"answered", "race", "hard"} /\ req'[r].job = j
    BY <1>1, <2>2 DEF JobsInv, TypeOK, ReqRow, Stages
  <2> QED
    BY <2>1, <2>2 DEF CommitCheckout
<1>5. /\ job' \in [Job -> JobRow] /\ job'[j].status = "COMPLETED"
      /\ \A k \in Job : job'[k].closed = job[k].closed /\ job'[k].basket = job[k].basket
      /\ \A k \in Job \ {j} : job'[k] = job[k]
  BY <1>3 DEF JobsInv, TypeOK, JobRow, JobStatuses
<1>6. sales' \in SUBSET SaleRow /\ \A k \in Job : SaleOfJob(k) \subseteq SaleOfJob(k)'
  BY <1>3 DEF JobsInv, TypeOK, SaleRow, SaleOfJob
<1>7. TypeOK'
  BY <1>3, <1>4, <1>5, <1>6 DEF JobsInv, TypeOK
<1>8. RequestsNameRows'
  BY <1>3, <1>4 DEF JobsInv, RequestsNameRows
<1>9. CheckoutHoldsJob'
  <2>1. \A q \in Req : req'[q].at = "checkout" => q # r /\ req'[q] = req[q] /\ req[q].job \in Job \ {j}
    BY <1>2, <1>4 DEF JobsInv, RequestsNameRows, JobStages
  <2> QED
    BY <1>3, <1>5, <2>1 DEF JobsInv, CheckoutHoldsJob
<1>10. ClosingHasSale'
  BY <1>4, <1>6 DEF JobsInv, RequestsNameRows, JobStages, ClosingHasSale
<1>11. SoldWithoutJob'
  BY <1>3, <1>4 DEF JobsInv, SoldWithoutJob
<1>12. ClosedJobHasSale'
  BY <1>5, <1>6 DEF JobsInv, ClosedJobHasSale
<1>13. FinalKept' /\ CheckoutExcludesCancellation'
  BY <1>2, <1>3, <1>5 DEF JobsInv, TypeOK, FinalKept, CheckoutExcludesCancellation
<1>14. Linked' /\ PartsConsumedOnceUnlessRaced'
  BY <1>3, <1>5, SameBaskets
<1> QED
  BY <1>7, <1>8, <1>9, <1>10, <1>11, <1>12, <1>13, <1>14 DEF JobsInv

LEMMA StatusKeepsInv ==
  ASSUME JobsInv, NEW r \in Req, CommitStatus(r)
  PROVE  JobsInv'
<1>1. PICK j \in Job : j = req[r].job
  BY DEF CommitStatus, JobsInv, RequestsNameRows, JobStages
<1>2. PICK s \in JobStatuses : s = req[r].next
  BY DEF JobsInv, TypeOK, ReqRow
<1>3. /\ job' \in [Job -> JobRow] /\ job'[j].status = s
      /\ job'[j].closed => req[r].at = "close" \/ job[j].closed
      /\ \A k \in Job : job'[k].basket = job[k].basket
      /\ \A k \in Job \ {j} : job'[k] = job[k]
  <2>1. CASE req[r].at = "close"
    <3>1. job' = [job EXCEPT ![j].status = s, ![j].closed = TRUE]
      BY <1>1, <1>2, <2>1 DEF CommitStatus
    <3> QED
      BY <2>1, <3>1 DEF JobsInv, TypeOK, JobRow
  <2>2. CASE req[r].at = "patch"
    <3>1. job' = [job EXCEPT ![j].status = s, ![j].closed = FALSE]
      BY <1>1, <1>2, <2>2 DEF CommitStatus
    <3> QED
      BY <3>1 DEF JobsInv, TypeOK, JobRow
  <2>3. CASE req[r].at = "select"
    <3>1. job' = [job EXCEPT ![j].status = s, ![j].closed = @]
      BY <1>1, <1>2, <2>3 DEF CommitStatus
    <3>2. job' = [job EXCEPT ![j].status = s]
      BY <3>1 DEF JobsInv, TypeOK, JobRow
    <3> QED
      BY <3>2 DEF JobsInv, TypeOK, JobRow
  <2> QED
    BY <2>1, <2>2, <2>3 DEF CommitStatus
<1>4. /\ JobIsFree(j) /\ Restate(j, s) /\ EndsOrStays(r)
      /\ parts' = parts /\ basket' = basket /\ sales' = sales /\ outcome' = outcome
      /\ cancelled' = cancelled /\ used' = used /\ sold' = sold /\ raced' = raced
  BY <1>1, <1>2 DEF CommitStatus, EndsOrStays
<1>6. FinalKept' /\ CheckoutExcludesCancellation' /\ undone' \in SUBSET Job
  BY <1>4, <1>3, RestateKeepsFinal
<1>7. TypeOK'
  BY <1>4, <1>3, <1>6, EndedRequest DEF JobsInv, TypeOK
<1>8. \A k \in Job : SaleOfJob(k)' = SaleOfJob(k)
  BY <1>4 DEF SaleOfJob
<1>9. RequestsNameRows' /\ CheckoutHoldsJob' /\ ClosingHasSale' /\ SoldWithoutJob'
  BY <1>4, <1>3, <1>8, OthersKeepRequests
<1>10. ClosedJobHasSale'
  <2>1. job'[j].closed => SaleOfJob(j) # {}
    BY <1>1, <1>3 DEF JobsInv, ClosingHasSale, ClosedJobHasSale
  <2> QED
    BY <1>3, <1>8, <2>1 DEF JobsInv, ClosedJobHasSale
<1>11. Linked' /\ PartsConsumedOnceUnlessRaced'
  BY <1>4, <1>3, SameBaskets
<1> QED
  BY <1>6, <1>7, <1>9, <1>10, <1>11 DEF JobsInv

LEMMA CancelKeepsInv ==
  ASSUME JobsInv, NEW j \in Job, Cancel(j)
  PROVE  JobsInv'
<1>1. /\ JobIsFree(j) /\ job[j].status # "COMPLETED"
      /\ job' = [job EXCEPT ![j].status = "CANCELLED"]
      /\ cancelled' = cancelled \cup {j}
      /\ parts' = parts /\ basket' = basket /\ sales' = sales /\ outcome' = outcome
      /\ used' = used /\ sold' = sold /\ req' = req /\ raced' = raced /\ undone' = undone
  BY DEF Cancel
<1>2. /\ job' \in [Job -> JobRow] /\ job'[j].status = "CANCELLED"
      /\ \A k \in Job : job'[k].basket = job[k].basket /\ job'[k].closed = job[k].closed
      /\ \A k \in Job \ {j} : job'[k] = job[k]
  BY <1>1 DEF JobsInv, TypeOK, JobRow, JobStatuses
<1>3. TypeOK'
  BY <1>1, <1>2 DEF JobsInv, TypeOK
<1>4. \A k \in Job : SaleOfJob(k)' = SaleOfJob(k)
  BY <1>1 DEF SaleOfJob
<1>5. RequestsNameRows' /\ SoldWithoutJob'
  BY <1>1 DEF JobsInv, RequestsNameRows, SoldWithoutJob
<1>6. CheckoutHoldsJob'
  BY <1>1, <1>2 DEF JobsInv, RequestsNameRows, JobStages, CheckoutHoldsJob, JobIsFree
<1>7. ClosingHasSale' /\ ClosedJobHasSale'
  BY <1>1, <1>2, <1>4 DEF JobsInv, RequestsNameRows, JobStages, ClosingHasSale, ClosedJobHasSale
<1>8. FinalKept' /\ CheckoutExcludesCancellation'
  BY <1>1, <1>2 DEF JobsInv, TypeOK, FinalKept, CheckoutExcludesCancellation
<1>9. Linked' /\ PartsConsumedOnceUnlessRaced'
  BY <1>1, <1>2, SameBaskets
<1> QED
  BY <1>3, <1>5, <1>6, <1>7, <1>8, <1>9 DEF JobsInv

LEMMA UnchangedJobsKeepInv ==
  ASSUME JobsInv, parts' \in [Job -> Nat],
         UNCHANGED <<job, basket, sales, outcome, cancelled, used, sold, req, raced, undone>>
  PROVE  JobsInv'
<1>1. TypeOK'
  BY DEF JobsInv, TypeOK
<1>2. RequestsNameRows' /\ CheckoutHoldsJob' /\ ClosingHasSale' /\ SoldWithoutJob'
  BY DEF JobsInv, RequestsNameRows, CheckoutHoldsJob, ClosingHasSale, SoldWithoutJob, SaleOfJob
<1>3. ClosedJobHasSale' /\ FinalKept' /\ CheckoutExcludesCancellation'
  BY DEF JobsInv, ClosedJobHasSale, SaleOfJob, FinalKept, CheckoutExcludesCancellation
<1>4. Linked' /\ PartsConsumedOnceUnlessRaced'
  BY SameBaskets DEF JobsInv
<1> QED
  BY <1>1, <1>2, <1>3, <1>4 DEF JobsInv

LEMMA NextKeepsJobsInv == JobsInv /\ [Next]_vars => JobsInv'
<1> SUFFICES ASSUME JobsInv, [Next]_vars PROVE JobsInv'
  OBVIOUS
<1>1. ASSUME NEW r \in Req, Serve(r) PROVE JobsInv'
  BY <1>1, HandleKeepsInv, FinalizeKeepsInv, BeginSellKeepsInv, SellKeepsInv, StatusKeepsInv,
     CheckoutPathKeepsInv, CheckoutKeepsInv, ForgetKeepsInv DEF Serve
<1>2. ASSUME NEW j \in Job, NEW q \in 0 .. MaxQty, EditLines(j, q) PROVE JobsInv'
  <2>1. parts' \in [Job -> Nat]
    BY <1>2 DEF EditLines, JobsInv, TypeOK
  <2> QED
    BY <1>2, <2>1, UnchangedJobsKeepInv DEF EditLines
<1>3. CASE UNCHANGED vars
  <2>1. parts' \in [Job -> Nat]
    BY <1>3 DEF vars, JobsInv, TypeOK
  <2> QED
    BY <1>3, <2>1, UnchangedJobsKeepInv DEF vars
<1> QED
  BY <1>1, <1>2, <1>3, CancelKeepsInv, ReopenKeepsInv DEF Next

-----------------------------------------------------------------------------
(* Jobs, their baskets, sales and requests fit together in every behaviour.   *)
THEOREM JobsInvariance == Spec => []JobsInv
<1>1. Init => JobsInv
  BY InitEstablishesJobsInv
<1>2. JobsInv /\ [Next]_vars => JobsInv'
  BY NextKeepsJobsInv
<1> QED
  BY <1>1, <1>2, PTL DEF Spec

(* Finalization and both checkouts draw the parts of a job once, unless two   *)
(* finalizations overlap.                                                    *)
THEOREM PartsOnce == Spec => []PartsConsumedOnceUnlessRaced
<1>1. JobsInv => PartsConsumedOnceUnlessRaced
  BY DEF JobsInv
<1> QED
  BY <1>1, JobsInvariance, PTL

(* A closed job has a sale, whatever is reopened behind it.                   *)
THEOREM ClosedHasSale == Spec => []ClosedJobHasSale
<1>1. JobsInv => ClosedJobHasSale
  BY DEF JobsInv
<1> QED
  BY <1>1, JobsInvariance, PTL

(* No job is checked out and cancelled unless its final status was replaced.  *)
THEOREM CheckoutOrCancellation == Spec => []CheckoutExcludesCancellation
<1>1. JobsInv => CheckoutExcludesCancellation
  BY DEF JobsInv
<1> QED
  BY <1>1, JobsInvariance, PTL

(* checkoutWorkshopJobToSale says that a checkout failed only where there is  *)
(* no outcome, for any number of retries.                                    *)
THEOREM FailuresAreHonest == Spec => FailureIsHonest
<1>1. JobsInv /\ [Next]_vars =>
        [\A r \in Req : req'[r].at = "failed" => req[r].at = "failed" \/ req[r].job \notin outcome]_vars
  <2> SUFFICES ASSUME JobsInv, Next, NEW r \in Req, req'[r].at = "failed", req[r].at # "failed"
               PROVE  req[r].job \notin outcome
    OBVIOUS
  <2>1. req \in [Req -> ReqRow] /\ Idle.at = "idle"
    BY IdleIsAReq DEF JobsInv, TypeOK
  <2>2. ASSUME NEW q \in Req, NEW a, Answer(q, a) PROVE q = r /\ a = "failed"
    BY <2>1, <2>2 DEF Answer, ReqRow
  <2>3. ASSUME NEW q \in Req, NEW new, req' = [req EXCEPT ![q] = new], new.at # "failed" PROVE FALSE
    BY <2>1, <2>3
  <2>4. ASSUME NEW q \in Req, NEW a, a # "failed", req' = [req EXCEPT ![q].at = a] PROVE FALSE
    BY <2>1, <2>4 DEF ReqRow
  <2>5. ASSUME NEW q \in Req, req' = [req EXCEPT ![q].at = "attempt", ![q].tries = @ + 1] PROVE FALSE
    BY <2>1, <2>5 DEF ReqRow
  <2>6. ASSUME NEW q \in Req, End(q) PROVE FALSE
    BY <2>1, <2>3, <2>6 DEF End
  <2>7. ASSUME NEW q \in Req, NEW j \in Job, Handle(q, j) PROVE FALSE
    <3>1. ASSUME NEW new, Begin(q, new), new.at # "failed" PROVE FALSE
      BY <2>3, <3>1 DEF Begin
    <3>2. CASE BeginFinalize(q, j) \/ BeginCheckout(q, j) \/ BeginClose(q, j)
      BY <3>1, <3>2 DEF BeginFinalize, BeginCheckout, BeginClose, Idle
    <3>3. ASSUME NEW s \in JobStatuses, BeginSelect(q, j, s) PROVE FALSE
      BY <3>1, <3>3 DEF BeginSelect, Idle
    <3>4. ASSUME NEW s \in JobStatuses, NEW c \in BOOLEAN, BeginPatch(q, j, s, c) PROVE FALSE
      BY <3>1, <3>4 DEF BeginPatch, Idle
    <3> QED
      BY <2>7, <3>2, <3>3, <3>4 DEF Handle
  <2>8. ASSUME NEW q \in Req, NEW b \in Basket, BeginSell(q, b) PROVE FALSE
    <3>1. ASSUME NEW at, NEW k, NEW s, at # "failed",
                 Begin(q, [Idle EXCEPT !.at = at, !.job = k, !.basket = b, !.seen = s])
          PROVE  FALSE
      <4> DEFINE new == [Idle EXCEPT !.at = at, !.job = k, !.basket = b, !.seen = s]
      <4>1. new.at # "failed"
        BY <3>1 DEF Idle
      <4>2. req' = [req EXCEPT ![q] = new]
        BY <3>1 DEF Begin
      <4> HIDE DEF new
      <4> QED
        BY <2>3, <4>1, <4>2
    <3>2. PICK k \in Job \cup {None} :
            LET seen == IF k = None THEN "ACTIVE" ELSE job[k].status
                there == SaleOfBasket(b) # {} \/ (k # None /\ SaleOfJob(k) # {})
            IN  Begin(q, [Idle EXCEPT !.at = IF there THEN "resell" ELSE "sell",
                                      !.job = k, !.basket = b, !.seen = seen])
      BY <2>8 DEF BeginSell
    <3> QED
      BY <3>1, <3>2
  <2>9. ASSUME NEW q \in Req, NEW b \in Basket, CommitFinalize(q, b) PROVE FALSE
    BY <2>6, <2>9 DEF CommitFinalize
  <2>10. ASSUME NEW q \in Req,
                CommitSell(q) \/ CommitResell(q) \/ CommitStatus(q) \/ Forget(q)
         PROVE  FALSE
    BY <2>6, <2>10 DEF CommitSell, CommitResell, CommitStatus, Forget
  <2>11. ASSUME NEW q \in Req, CommitCheckout(q) PROVE FALSE
    BY <2>2, <2>4, <2>11 DEF CommitCheckout
  <2>12. ASSUME NEW q \in Req, RecoveryFails(q) PROVE FALSE
    BY <2>2, <2>5, <2>12 DEF RecoveryFails
  <2>13. ASSUME NEW q \in Req, Attempt(q) PROVE req[r].job \notin outcome
    BY <2>2, <2>4, <2>13 DEF Attempt
  <2>14. ASSUME NEW q \in Req, CheckoutFails(q) PROVE req[r].job \notin outcome
    BY <2>2, <2>4, <2>14 DEF CheckoutFails, JobsInv, CheckoutHoldsJob
  <2>15. ASSUME NEW q \in Req, Recover(q) PROVE req[r].job \notin outcome
    BY <2>2, <2>5, <2>15 DEF Recover, NextTry
  <2>16. ASSUME UNCHANGED req PROVE FALSE
    BY <2>16
  <2>17. (\E j \in Job : Cancel(j) \/ \E q \in 0 .. MaxQty : EditLines(j, q))
           \/ (\E s \in sales : ReopenSale(s)) => UNCHANGED req
    BY DEF Cancel, EditLines, ReopenSale
  <2>18. ASSUME NEW q \in Req, Serve(q) PROVE req[r].job \notin outcome
    BY <2>7, <2>8, <2>9, <2>10, <2>11, <2>12, <2>13, <2>14, <2>15, <2>18 DEF Serve
  <2> QED
    BY <2>16, <2>17, <2>18 DEF Next
<1> QED
  BY <1>1, JobsInvariance, PTL DEF Spec, FailureIsHonest
=============================================================================
