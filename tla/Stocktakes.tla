----------------------------- MODULE Stocktakes -----------------------------
(***************************************************************************)
(* Stocktakes on top of the stock ledger: lines are counted into an open   *)
(* stocktake, and posting it turns the differences between the counts and  *)
(* the stock into adjustments.                                             *)
(*                                                                         *)
(* Only a posting locks the Stocktake row.  The other requests read the    *)
(* stocktake and write in a later step; a write of the row itself, and the *)
(* insertion of a line, whose foreign key locks the row, wait for a        *)
(* posting that holds it.  A posting reads the on-hand of all its lines    *)
(* before it locks a position, and then locks and checks the positions one *)
(* by one in the order the lines came out of the table.                    *)
(***************************************************************************)
EXTENDS Stock

CONSTANTS
  Stocktake,   \* stocktakes; a position stands for a variant at their location
  MaxCount,    \* bound on countedQty
  NoStocktake

ASSUME CountAssumption == MaxCount \in Nat
ASSUME NoStocktakeAssumption == NoStocktake \notin Stocktake

VARIABLES
  take,        \* take[k]: the Stocktake row
  line,        \* line[k]: its StocktakeLine rows, one per position or none
  request,     \* request[t]: the line or status request t is serving
  posting,     \* posting[t]: the stocktake whose row t holds
  turn,        \* turn[t]: the position its posting locks next
  posts,       \* posts[k]: how often the adjustments of k were committed (history)
  disturbed    \* a line or the stock changed under the posting of t (history)

takes == <<take, line, posts>>
allVars == <<vars, take, line, request, posting, turn, posts, disturbed>>

TakeStatuses == {"NONE", "OPEN", "POSTED", "CANCELLED"}
TakeRow == [status : TakeStatuses, review : BOOLEAN]
Line == [counted : BOOLEAN, qty : 0 .. MaxCount, expected : Int]
NoLine == [counted |-> FALSE, qty |-> 0, expected |-> 0]
Request == [at : {"idle", "lines", "review", "cancel"}, stocktake : Stocktake \cup {NoStocktake},
            rows : [Position -> Line], on : SUBSET Position, review : BOOLEAN]
NoRequest == [at |-> "idle", stocktake |-> NoStocktake, on |-> {}, review |-> FALSE,
              rows |-> [p \in Position |-> NoLine]]

TakesInit ==
  /\ Init
  /\ take = [k \in Stocktake |-> [status |-> "NONE", review |-> FALSE]]
  /\ line = [k \in Stocktake |-> [p \in Position |-> NoLine]]
  /\ request = [t \in Txn |-> NoRequest]
  /\ posting = [t \in Txn |-> NoStocktake]
  /\ turn = [t \in Txn |-> 0]
  /\ posts = [k \in Stocktake |-> 0]
  /\ disturbed = [t \in Txn |-> FALSE]

-----------------------------------------------------------------------------
Free(t) == job[t] = "idle" /\ request[t].at = "idle"
Lines(k) == {p \in Position : line[k][p].counted}
TakeIsFree(k) == \A t \in Txn : posting[t] # k

(* What changes the lines or the stock disturbs every other posting.         *)
Disturb(t) ==
  disturbed' = [u \in Txn |-> disturbed[u] \/ (u # t /\ posting[u] # NoStocktake)]

CreateStocktake(k) ==
  /\ take[k].status = "NONE"
  /\ take' = [take EXCEPT ![k].status = "OPEN"]
  /\ UNCHANGED <<vars, line, request, posting, turn, posts, disturbed>>

(* What a request that reads the stocktake first takes away from it.         *)
BeginRequest(t, k, at, on, rows) ==
  /\ Free(t)
  /\ take[k].status = "OPEN"
  /\ request' = [request EXCEPT ![t] =
       [at |-> at, stocktake |-> k, on |-> on, rows |-> rows, review |-> take[k].review]]
  /\ UNCHANGED <<vars, takes, posting, turn, disturbed>>

(* The snapshot of a line is the stock at the first time it is counted.      *)
Counted(k, p, q) ==
  [counted |-> TRUE, qty |-> q,
   expected |-> IF line[k][p].counted THEN line[k][p].expected ELSE onHand[p]]

NoRows == [p \in Position |-> NoLine]

\* upsertStocktakeLine
BeginUpsert(t, k, p, q) ==
  BeginRequest(t, k, "lines", {p}, [NoRows EXCEPT ![p] = Counted(k, p, q)])

\* scanStocktakeLine: quantityDelta is added to what was read.
BeginScan(t, k, p) ==
  LET q == (IF line[k][p].counted THEN line[k][p].qty ELSE 0) + 1
  IN  q <= MaxCount /\ BeginUpsert(t, k, p, q)

\* bulkUpsertStocktakeLines: each variant once.
BeginBulk(t, k, q) ==
  BeginRequest(t, k, "lines", Position, [p \in Position |-> Counted(k, p, q)])

\* deleteStocktakeLine
BeginDelete(t, k, p) ==
  line[k][p].counted /\ BeginRequest(t, k, "lines", {p}, NoRows)

\* requestStocktakeReview: a second request for review changes nothing.
BeginReview(t, k) ==
  /\ Lines(k) # {} /\ ~take[k].review
  /\ BeginRequest(t, k, "review", {}, NoRows)

\* cancelStocktake
BeginCancel(t, k) == BeginRequest(t, k, "cancel", {}, NoRows)

EndRequest(t) == request' = [request EXCEPT ![t] = NoRequest]

(* Inserting a line and clearing reviewRequestedAt lock the Stocktake row.   *)
CommitLines(t) ==
  LET k == request[t].stocktake
      on == request[t].on
      rows == request[t].rows
  IN  /\ request[t].at = "lines"
      /\ \/ TakeIsFree(k)
         \/ ~request[t].review /\ \A p \in on : line[k][p].counted
      /\ \A p \in on : rows[p].counted \/ line[k][p].counted
      /\ line' = [line EXCEPT ![k] = [p \in Position |-> IF p \in on THEN rows[p] ELSE @[p]]]
      /\ take' = [take EXCEPT ![k].review = @ /\ ~request[t].review]
      /\ EndRequest(t)
      /\ Disturb(t)
      /\ UNCHANGED <<vars, posting, turn, posts>>

CommitReview(t) ==
  LET k == request[t].stocktake
  IN  /\ request[t].at = "review"
      /\ TakeIsFree(k)
      /\ take' = [take EXCEPT ![k].review = TRUE]
      /\ EndRequest(t)
      /\ UNCHANGED <<vars, line, posting, turn, posts, disturbed>>

CommitCancel(t) ==
  LET k == request[t].stocktake
  IN  /\ request[t].at = "cancel"
      /\ TakeIsFree(k)
      /\ take' = [take EXCEPT ![k].status = "CANCELLED"]
      /\ EndRequest(t)
      /\ UNCHANGED <<vars, line, posting, turn, posts, disturbed>>

(* The line to delete is gone, or the transaction fails.                     *)
RequestFails(t) ==
  /\ request[t].at # "idle"
  /\ EndRequest(t)
  /\ UNCHANGED <<vars, takes, posting, turn, disturbed>>

-----------------------------------------------------------------------------
(* postStocktake                                                            *)

\* mutant: the differences to the snapshots are posted
DifferenceToSnapshot(k, p) == line[k][p].qty - line[k][p].expected

DeltaNeeded(k, p) == line[k][p].qty - onHand[p]

\* mutant: the status is read without FOR UPDATE
BeginPostingUnlocked(t, k) ==
  /\ Free(t)
  /\ take[k].status = "OPEN"
  /\ Lines(k) # {}
  /\ posting' = [posting EXCEPT ![t] = k]
  /\ job' = [job EXCEPT ![t] = "post"]
  /\ delta' = [delta EXCEPT ![t] =
       [p \in Position |-> IF p \in Lines(k) THEN DeltaNeeded(k, p) ELSE 0]]
  /\ UNCHANGED <<stock, transfers, override, row, held, checked, takes, request, turn,
                 disturbed>>

(* The row lock, the lines and the on-hand of all of them.  Nothing that     *)
(* runs between these reads could not as well run before them.               *)
BeginPosting(t, k) ==
  /\ Free(t)
  /\ TakeIsFree(k)
  /\ take[k].status = "OPEN"
  /\ Lines(k) # {}
  /\ posting' = [posting EXCEPT ![t] = k]
  /\ job' = [job EXCEPT ![t] = "post"]
  /\ delta' = [delta EXCEPT ![t] =
       [p \in Position |-> IF p \in Lines(k) THEN DeltaNeeded(k, p) ELSE 0]]
  /\ UNCHANGED <<stock, transfers, override, row, held, checked, takes, request, turn,
                 disturbed>>

(* createStockAdjustmentTx for one line: its position lock, its check.       *)
TurnToLine(t, p) ==
  /\ job[t] = "post" /\ turn[t] = 0
  /\ p \in Wanted(t)
  /\ turn' = [turn EXCEPT ![t] = p]
  /\ UNCHANGED <<vars, takes, request, posting, disturbed>>

LockLine(t) ==
  /\ job[t] = "post" /\ turn[t] \in Wanted(t)
  /\ \A u \in Txn : turn[t] \notin held[u]
  /\ held' = [held EXCEPT ![t] = @ \cup {turn[t]}]
  /\ UNCHANGED <<stock, transfers, session, checked, takes, request, posting, turn, disturbed>>

CheckLine(t) ==
  LET p == turn[t]
  IN  /\ job[t] = "post" /\ p \in held[t]
      /\ Allowed(t, p)
      /\ checked' = [checked EXCEPT ![t] = @ \cup {p}]
      /\ turn' = [turn EXCEPT ![t] = 0]
      /\ UNCHANGED <<stock, transfers, session, held, takes, request, posting, disturbed>>

EndPosting(t) ==
  /\ posting' = [posting EXCEPT ![t] = NoStocktake]
  /\ turn' = [turn EXCEPT ![t] = 0]

CommitPosting(t) ==
  /\ job[t] = "post" /\ turn[t] = 0
  /\ Commit(t)
  /\ take' = [take EXCEPT ![posting[t]].status = "POSTED"]
  /\ posts' = [posts EXCEPT ![posting[t]] = @ + 1]
  /\ EndPosting(t)
  /\ disturbed' = [u \in Txn |-> u # t /\ (disturbed[u] \/ posting[u] # NoStocktake)]
  /\ UNCHANGED <<line, request>>

(* A line that would go below zero, a deadlock PostgreSQL breaks, a timeout. *)
RollbackPosting(t) ==
  /\ job[t] = "post"
  /\ Rollback(t)
  /\ EndPosting(t)
  /\ disturbed' = [disturbed EXCEPT ![t] = FALSE]
  /\ UNCHANGED <<takes, request>>

-----------------------------------------------------------------------------
(* The other movements, by transactions that serve no stocktake.             *)
MovementStep(t) ==
  /\ request[t].at = "idle" /\ job[t] # "post"
  /\ Guarded(t)
  /\ IF onHand' = onHand THEN UNCHANGED disturbed ELSE Disturb(t)
  /\ UNCHANGED <<takes, request, posting, turn>>

UnlockedStep(p) ==
  /\ Unlocked(p)
  /\ disturbed' = [t \in Txn |-> disturbed[t] \/ posting[t] # NoStocktake]
  /\ UNCHANGED <<takes, request, posting, turn>>

Counting(t, k) ==
  \/ \E p \in Position, q \in 0 .. MaxCount : BeginUpsert(t, k, p, q)
  \/ \E p \in Position : BeginScan(t, k, p) \/ BeginDelete(t, k, p)
  \/ \E q \in 0 .. MaxCount : BeginBulk(t, k, q)
  \/ BeginReview(t, k) \/ BeginCancel(t, k)

StocktakeRequest(t) ==
  \/ \E k \in Stocktake : Counting(t, k) \/ BeginPosting(t, k)
  \/ CommitLines(t) \/ CommitReview(t) \/ CommitCancel(t) \/ RequestFails(t)
  \/ \E p \in Position : TurnToLine(t, p)
  \/ LockLine(t) \/ CheckLine(t) \/ CommitPosting(t) \/ RollbackPosting(t)

TakesNext ==
  \/ \E t \in Txn : StocktakeRequest(t) \/ MovementStep(t)
  \/ \E k \in Stocktake : CreateStocktake(k)
  \/ \E p \in Position : UnlockedStep(p)

TakesSpec == TakesInit /\ [][TakesNext]_allVars
-----------------------------------------------------------------------------
(* Properties *)

(* postStocktake under FOR UPDATE: whoever else counts, posts or cancels, the *)
(* adjustments of a stocktake are committed at most once.                    *)
StocktakePostsOnce == \A k \in Stocktake : posts[k] <= 1

(* createStockAdjustmentTx takes one lock at a time, in no order, beside      *)
(* movements that sort theirs: a circle of waits always contains a posting,   *)
(* so checkouts, adjustments and transfers alone never lock each other out.   *)
Waits(t, u) ==
  IF job[t] = "post" THEN turn[t] \in Wanted(t) /\ turn[t] \in held[u] ELSE WaitsFor(t, u)

WaitCycleHasPosting ==
  \A S \in SUBSET Txn : S # {} /\ (\A t \in S : \E u \in S : Waits(t, u))
    => \E t \in S : job[t] = "post"

(* deltaNeeded is the difference to the stock at the posting, not to the      *)
(* snapshot of the count: unless a line or the stock changes under it, a      *)
(* posting leaves every counted position with its count.                     *)
PostingSetsTheCount ==
  [][\A t \in Txn : posting[t] # NoStocktake /\ posts' # posts /\ job'[t] = "idle"
        /\ ~disturbed[t]
       => \A p \in Lines(posting[t]) : onHand'[p] = line[posting[t]][p].qty]_allVars
=============================================================================
