# CorePOS: a verification project in TLA+

CorePOS is a point of sale and workshop system for bicycle shops: a Node and
TypeScript backend on Postgres (`src/src`), a React front end (`src/frontend`), a
small print agent for Windows (`src/print-agent`). This directory holds TLA+
specifications of the parts of the backend where requests, background work,
external services and crashes meet over money and stock; the TLC configurations
that check them on small instances; and theorems about them that TLAPS checks for
every instance.

Paths below are relative to the repository. `PROJECT.json` maps every definition to
the lines it models, and lists hazards, runs, mutants, findings and theorems.

## 1. Inventory

### How the program runs

An Express route calls one operation of a service; a service reads and writes
Postgres through Prisma. Several requests are served at a time, by one or more
processes. Everything that makes the code hard follows from how an operation
uses the database:

* **One transaction, row lock first.** `SELECT ... FOR UPDATE` on the sale, payment
  intent, basket, refund, transfer, purchase order or job, and everything read
  after it. READ COMMITTED: what the lock does not cover may change between a
  read and the write that rests on it.
* **One transaction, advisory locks.** Stock positions have no row to lock; movements
  take `pg_advisory_xact_lock` on a hash of variant and location, in key order.
* **One transaction, serializable, with retries.** Credit and workshop deposits.
* **One transaction without a lock**, or **several transactions in a row**, where an
  overlapping request or a crash may come in between.
* **Conditional update or unique key**, with a refused insert (P2002) read as "somebody
  else has done it".

After a commit some operations publish an event to subscribers in memory: lost in a crash.

### The components

| Component | Code (`src/services/` unless said) | State | Operations | What is hard, and what makes it correct |
|---|---|---|---|---|
| Sale settlement | `salesService`, `paymentIntentService` | Sale, SaleTender, Payment, PaymentIntent | add, list and delete tenders; create, capture, cancel intents; complete; return to basket | tenders against completion; replays; a completed sale is covered, captures stop at the total, completion is final |
| Till | `tillService` | CashSession, CashMovement, CashCount | open, move cash, count, close; movements of sales and refunds | sessions opening and closing around a sale; the drawer holds the net cash |
| Layaways | `layawayService` | Layaway, its sale and ledger rows | create, list and get (which expire), cancel, complete in three transactions | reads before writes without a lock; sold or part-paid stock stays, stock comes back once |
| Managed print queue | `managedPrintQueueService` | PrintJob, a map of drains in memory | enqueue, claim, deliver, record, retry, sweep, stop | crash between delivery and record; one delivery per printer; jobs settle |
| Card terminals | `cardTerminalService`, `payments/dojo` | CardTerminalSession | start, refresh, cancel, settle in a chain of transactions | late and repeated answers; a captured session is paid for, its money booked |
| Stock ledger and movements | `inventoryLedgerService`, `stockService`, `stockTransferService` | StockLedgerEntry (on-hand is a sum), StockTransfer | checkout movements, adjustments, create, send, receive, cancel transfers | no oversell, a transfer moves once, lock order |
| Stocktakes | `stocktakeService` | Stocktake, lines | add, scan, count and delete lines, review, post, cancel | stale on-hand at posting, unsorted locks, lost scans; a stocktake is posted once, and sets what it counted |
| Baskets and checkout | `basketService`, `salesService` | Basket, BasketItem | edit, check out | a basket edited while it is checked out; one sale per basket |
| Refunds and returns | `refundService`, `salesService` | Refund, lines, tenders; SaleReturn | draft, tender, complete; return, exchange | each path counts only its own kind; no more goes back than was sold, a completed refund is settled and booked once |
| Purchasing | `purchasingService` | PurchaseOrder, items | draft, edit, send, cancel, receive | receipts, edits and status requests that overlap; receipts stay within the order, the status follows them |
| Workshop checkout | `workshopCheckoutService` | WorkshopCheckoutOutcome | check out a job | a retry after a time-out finds the first outcome; not paid for and cancelled both |
| Workshop money and credit | `workshopMoneyService` | CreditLedgerEntry, Payment | deposit, issue, apply, refund | bounded retries; a balance is not negative, a key is applied once |
| Workshop jobs | `workshopService`, `workshopWorkflowService` | WorkshopJob | lines, status, finalize, close, cancel | two finalizations; parts are drawn once, a closed job has a sale |
| Workshop parts | `workshopPartService` | WorkshopJobPart, ledger rows | reserve, use, return | availability read without a position lock |
| Workshop estimates | `workshopEstimateService` | WorkshopEstimate versions | save, decide, customer link | a customer approves a superseded version |
| Workshop bookings | `workshopBookingService`, `workshopAvailabilityService` | bookings, capacity of a day | book, reschedule, pay deposit | capacity counted, then filled |
| Bike hire | `bikeHireService` | HireBooking, HireAsset | reserve, check out, return, cancel | only reserving locks the asset |
| Online orders and shipments | `orderService` | WebOrder, WebOrderShipment | prepare, buy label, print, dispatch, void | the label is bought between two transactions |
| Management cash | `managementCashService` | receipts, blind close | close, upload | close in two transactions |
| Notifications and reminders | `notificationService`, `reminderCandidateService`, `core/` | deliveries, candidates | prepare, send, dismiss | events lost with the process; dedupe keys |
| Customer capture and accounts | `saleCustomerCaptureService` and account services | capture sessions, tokens | start, submit, expire | one live session, single use |
| Receipts and print agents, Print agent | `receiptService`, `managedPrintDispatchService`, `print-agent/` | configuration | format, deliver over HTTP | answers lost after the paper is out |
| Catalogue, planning, staff, users, configuration, HTTP layer, front end | the remaining services, `routes`, `middleware`, `frontend` | rows edited on their own | edit, list, report | no protocol of their own |

### How they interact

* A **checkout** locks the basket, creates a sale and writes its SALE ledger rows
  under position locks (*Stock*).
* A sale's **tenders, intents and payments** share the sale row lock (*SalePayments*).
  Completion books cash in the open till session and publishes `sale.completed`.
* A **layaway** is a sale whose stock is already drawn; its deposit copies the tenders
  (*Layaways* extends *SalePayments*).
* A **card terminal session** drives the ordinary tender and capture operations
  (*CardTerminals* extends *SalePayments*).
* A **refund** is completed under the lock of its sale, which returns take too, and books
  its cash in the newest open till session (*Refunds* extends *Till*).
* A **stocktake** becomes adjustments of the ledger, under the position locks that
  checkouts take (*Stocktakes* extends *Stock*).
* A **workshop job** is finalized into a basket that the till checks out, or checked out
  by itself; either way a sale refers to it and its parts leave the stock (*WorkshopJobs*).
* **Printing** is asked for by receipts and labels and is on its own from then on (*PrintQueue*).
* Workshop parts, purchasing, returns and opening stock **write the ledger without a
  position lock**; *Stock* has them as single commits.

## 2. The modules and the code

| Module | Models | Extends | Proofs in |
|---|---|---|---|
| `SaleRows` | the money rows of one sale and the rules on them, as a record and functions | | |
| `SalePayments` | concurrent requests on those rows, the layaway row and the till flag | `SaleRows` | `SalePaymentsProofs` |
| `Layaways` | layaway requests beside all sale requests | `SalePayments` | `SaleChainsProofs` |
| `CardTerminals` | terminal sessions, the provider, and the sale requests they race | `SalePayments` | `SaleChainsProofs` |
| `PrintSpool` | what the print queue promises a user, per job | | |
| `PrintQueue` | rows, drains, sweep, retries, crashes; refines `PrintSpool` | | `PrintQueueProofs` |
| `Stock` | positions, position locks, guarded movements, transfers, writers without locks | | `StocktakesProofs` |
| `Stocktakes` | counting, review, cancellation and posting beside those movements | `Stock` | `StocktakesProofs` |
| `Till` | opening, counting and closing cash sessions | | `RefundsProofs` |
| `Refunds` | refunds and returns of one sale beside the till | `Till` | `RefundsProofs` |
| `Purchasing` | orders, edits, status requests and receipts | | `PurchasingProofs` |
| `WorkshopJobs` | a job's way to its sale: finalization, two checkouts, closing, cancellation | | `WorkshopJobsProofs` |
| `SumTheorems` | facts about sums over finite sets, for the proofs | | itself |
| `MC...` | values for the constants | the module checked | |

**A request is two or more steps.** `Begin...` takes the lock, where there is one, and
reads; `Commit...` is everything the transaction writes, the calls it makes included:
`CommitCapture` is `capturePaymentIntentTx` with the payment, the layaway's state and,
where the sale is covered now, `completeSaleIfEligibleTx` with its change and its cash
movement. Other requests come in between, and may do what the lock leaves open. A refused
request changes nothing: its commit is disabled and a rollback ends it, which
also stands for a crash. Handlers without a lock keep what they read,
as old as it is. Code that runs after a commit (`emitSaleCompletedEvent`) is
a step of its own, and a crash may skip it.

**History variables** say that a race the code does not exclude has happened: `raced`,
`overlapped`, `stale`, `disturbed`, `doubled`, `undone`; or that the code left something out
on purpose: `tillShut` (cash that found no open session, in a sale and in `Refunds`), `unsynced` (sales
whose layaway was not told of tenders); or keep what was there at a completion (`cash`, `cashPaid` of a
sale). No guard reads one. A property that such a race breaks is stated of what the race has not
touched, so that it still has to hold of everything else, other races included; it does not catch the race
itself, which section 4 lists.

**Money** is a function from the kinds of tender to pence; a sale's tenders, payments
and captured intents are sums per kind. Rows that only add up are not kept
apart. Names, notes, receipts and currencies are left out.

**SalePayments.** `row[s]` is the sale with its tenders, payments, change, credit,
drawer movements. A completion books what is left of the tenders' cash, if a session is open, and notes in
`tillShut` when it was not; `lock`, `ilock` are the FOR UPDATE locks on sale and intent;
`op`, `arg`, `seen` the request each member of `Txn` is serving. The tender list is there
because `GET /sales/:id/tenders` writes: it makes tenders out of legacy payments. An intent
that goes with its sale is DELETED: its id is a random uuid that no later intent gets again.

**Layaways.** `desk[t]` is the layaway request in progress. Listing and getting expire
what is overdue and unpaid; completion is three transactions, and a crash (`Abort`) may
end it after each. `unsynced` holds the sales with tenders that were there before the layaway, or
were made by a tender list: nothing writes those to its deposit.

**CardTerminals.** `term[t]` is the place in the chain "ask the provider, add the
tender, note it, capture the intent, save the status", which may be cut anywhere;
`provider[i]` is what the terminal knows. The provider is not under `src/` and may move
whenever the customer acts. `mock` is `DOJO_MOCK_MODE`, chosen at the start: no provider is asked then, a
refresh finds the money captured, and a response to a signature is written whatever the session says
(`BeginSignature`); with a live provider it goes to the provider and a refresh follows. A session whose tender
is deleted forgets it (`MayLoseTender`), as the column is set to null.

**PrintQueue.** `job[j]` is the row, `drain[n][p]` the entry of `activePrinterDrains` in
process `n`, lost in `Crash(n)`. A delivery returns, fails before the paper, or
fails after it: `printed` counts the copies, `doubt` the occasions on which a
second copy could not be excluded. A statement that fails was carried out or not: after a success that was
recorded without an answer the drain stands at `markLate`, and writes over the success. A retry by hand reads the job in one step and puts it back in
another: `raced` holds the printers of jobs put back although they were FAILED no more.
`PrintSpool` gives a job the phases none, queued, active, done, unsure (such a success), failed, lost and, for
printers in `raced`, void, and the moves between them.

**Stock.** Positions are `1 .. N` in the order of their lock keys, which is all that
`lockInventoryPositionsTx` sorts by. `delta[t]` are the ledger rows transaction `t` is going
to write, `held[t]` and `checked[t]` how far it has come; `drawn[p]` counts what
manager overrides and writers without locks took past the check.

**Stocktakes.** `take[k]` and `line[k]` are the rows; a position stands for a variant at the
stocktake's location. `request[t]` is a line, review or cancellation request between its read and its
write, `posting[t]` the stocktake whose row `t` holds, `turn[t]` the position it locks next: any that
is left, as the lines come back unsorted. `delta`, `held`, `checked` are those of `Stock`, whose
movements go on beside it. `disturbed[t]` says that a line or the stock changed
while `t` was posting.

**Till and Refunds.** `session[s]` is a CashSession, `errand[t]` an opening or a blind close
between its two steps. `refund[r]` is a refund with lines and tenders per kind, `serving[t]` a request that
holds the refund, its sale, or both: a draft line and a completion read first and
write later, a completion finds its till session in between. `returned` and `restocked` are what
returns and restocking refunds wrote, `booked[s]` the refunds with a movement in session `s`,
`tillShut` those that paid cash and found no session: the code writes no movement for them.

**Purchasing.** `ordered`, `received` and `status` are the rows; a receipt holds the order and
the lines it names, every other request has read the status (`req[r].read`) and the lines
(`known`) without a lock and writes when no receipt holds them. `stale[o]`: a draft edit or a status was written
to an order whose status was no longer the one read.

**WorkshopJobs.** `req[r].at` is the stage of a request: a finalization, the checkout of a
basket at the till (`sell`, `resell`), the checkout of the job with its attempts, time-outs, lost answers and
recovery (`attempt` to `unknown`), closing, and the two status requests. The job's row lock is held from
`checkout` to its end (`JobIsFree`), a basket's row lock likewise. The serializable
cancellation is one step: when its job changes after its snapshot, Postgres rolls it back and
it is retried. `used` and `sold` count what the WORKSHOP and the SALE rows of the ledger drew.

## 3. Runs

A run that passes explores every state of its instance. Deadlock is checked in
all of them but `card_terminals`, where the one sale may be deleted, and
with it everything a request could be about.

| Run | Question | Instance |
|---|---|---|
| `sale_payments` | Do two overlapping requests, of any kind, keep a sale's money right? | 1 sale of 2, 2 intents, amounts 1 or 2, 2 requests |
| `layaways` | Two overlapping requests that may die between transactions: is stock held and released as it should be, and a completed layaway a completed sale? | 1 layaway of 2, 1 intent, 2 requests |
| `layaway_paid_expiry` (violated) | Is a layaway that was paid towards ever expired? | 1 layaway, 1 intent, 1 request |
| `print_queue` | Two processes, two retries by hand and a fault: one delivery per printer, no needless copy, refinement of `PrintSpool`. A fault is a crash, a failing statement or a lost answer | 2 jobs, 1 printer, 2 attempts, 2 staff |
| `print_drains` | Is a due job claimed, and without faults settled? | the same, no retry by hand |
| `print_crash` (violated) | Is every job settled although a process stops? | 2 jobs, 1 process, 1 fault |
| `card_terminals` | Two overlapping chains and sale requests, cut anywhere, with a live provider and in mock mode | 1 sale of 1, 2 requests; live: 2 sessions, in mock mode 1 |
| `stock` | Overlapping checkouts, adjustments, transfers and unlocked writers | 2 positions, 2 transactions, 1 transfer |
| `stocktakes` | Counting, cancelling and posting beside checkouts and unlocked writers | 2 positions, 1 stocktake, 2 transactions |
| `refunds` | Drafts, completions and returns beside a till that opens and closes | a part and its labour, tax 1, 2 refunds, 2 sessions, 2 requests |
| `purchasing` | Edits, status requests and receipts of an order | 1 order of 2 items, 3 requests |
| `workshop_jobs` | Finalization, both checkouts, closing, cancellation, retries, lost answers | 1 job, 2 baskets, 2 requests, 2 attempts |

### Why the bounds are enough

* One sale: every lock, read and write of these handlers is about one sale and its
  rows, so two sales do not interact. Two requests are a race; a third would
  wait for the same lock. What the code says of a sale of 2 with amounts of 1 and 2
  covers part payment, exact payment and overpayment with change. `MaxTender` bounds
  what tenders of a sale add up to (one above the total in `sale_payments`, so that
  change is given). The proofs do not use any of these values, but for `MaxTender`, which
  is a guard of the actions.
* Terminals: two sessions are an attempt and its repetition, or a session and an intent
  captured by hand. Partial amounts would need a total of 2 and are left to `sale_payments`. `MaxSessions`
  and `Beside` say how many terminal sales are begun, and which other requests about the sale are made, in
  either mode: intents of other methods beside two live sessions, tenders deleted and listed beside one in mock
  mode, where the answer of the terminal is as free. The proofs are about any values of both. The till stays open
  in this module, as card payments do not ask for it.
* Print jobs of different printers meet only in the sweep. Two jobs of one printer are
  the order and the exclusion; two attempts are one automatic retry. `MaxRetries` bounds
  retries by hand, `MaxFaults` crashes, failing statements and lost answers; the fault may be at any step.
* Stock: the transfer's source has the later lock key, so that locking in the
  order of the transfer and in the order of the keys differ. Opening stock of 1 makes
  every pair of draws compete. `MaxStock` and `MaxDrawn` cap what is put and drawn.
* Stocktakes: two positions are two orders of locking. `MaxCount` bounds counts and scans. One
  basket asks for more than there is, so that movements are refused too; adjustments and
  transfers are those of `stock`.
* Refunds: a part and its labour, each sold once, and two refunds are all ways to split a sale and to ask for one
  line twice, and tell lines with stock from lines without; an odd penny of tax rounds up
  in each half. Two sessions are one that closes and one that opens under a completion.
* Purchasing: two lines make PARTIALLY_RECEIVED differ from RECEIVED; three requests
  are a receipt, and two that wait for it, or an edit that was sent and received behind a third. `MaxQty` bounds
  quantities ordered and received at once.
* Workshop: two baskets are as many as two overlapping finalizations make; two attempts are
  one retry, so a time-out may be the first or the last. `MaxQty` bounds a job's parts.

Symmetry is over requests and over rows that nothing orders, in runs without liveness.

### Properties

Each run's properties are stated and explained in its module; for each one
`PROJECT.json` names a mutant, a plausible bug of a mapped definition, under which
TLC finds it violated.

* Settlement: `LockedReadsAreCurrent` (between lock and commit, what a request read is what is
  there), `CompletedSaleIsCovered`, `CapturedWithinTotal`, `CapturedSaleIsCompleted`,
  `OnePaymentPerCapturedIntent`, `CompletionIsFinal`, `AnnouncedAtMostOnce`. `DrawerHoldsNetCash` is an equation: what
  the drawer has booked for a completed sale is its cash less the change, or what was paid in cash if that is more; if the
  completion found the till shut, what was paid in cash and no more; payments taken after the completion apart.
* Layaways: `CompletedLayawayIsSold`, `SoldStockIsHeld`, `StockReleasedOnce`, and `DepositHoldsStock`, which is about
  the tenders of the sale and not about the copy of their sum that expiry looks at: it fails when the copy is not written.
* Terminals: `CapturedSessionIsPaid`, wherever a settlement was cut, repeated or overtaken;
  `PaidWithinTotal`, although failed sessions overwrite captured intents; `FinalSessionStays`, with a live provider.
* Printing: `OneDeliveryUnlessRaced`, `PrintedAgainOnlyInDoubt`, `ImplementsSpool`,
  `DueJobIsClaimed`, `JobSettlesOrFault`.
* Stock: `StockIsCovered`, `TransferMovesOnce`, `NoWaitCycle`, `ClosedTransferStays`.
* Stocktakes: `StocktakePostsOnce`; `PostingSetsTheCount`, unless it was disturbed;
  `WaitCycleHasPosting`: only a posting can close a circle of lock waits.
* Refunds: `RefundedWithinSold` although lines are drafted beside completions,
  `RefundsWithinTotal` but for half a penny each, `CompletedRefundIsSettled`, `OneSessionUnlessDoubled`. `RefundsBookedOnce`:
  one movement of one session for a refund that paid cash, none when no session was open; what goes back
  on stock is every line of a refund and the stock lines of a return, once.
* Purchasing: `ReceivedWithinOrdered`, `StatusFitsReceipts`, `ReceiptNeedsOpenOrder`, `ClosedOrderStays`.
* Workshop: `PartsConsumedOnceUnlessRaced`, `ClosedJobHasSale`, `CheckoutExcludesCancellation`,
  `FailureIsHonest`: a failure is reported only where there is no outcome.

### Fairness

Only `PrintQueue` states fairness (`FairSpec`): weak fairness of a drain's steps (a
delivery has a time-out), of the recheck, the sweep (a `setInterval`), the end of a
back-off, a retry already begun, and the restart of a process that stopped. Nothing is
fair about crashes, enqueues or clients. For all other modules
no fairness is justified: clients may stop asking, and any transaction may roll back.

## 4. Findings

* **A paid layaway expires** (`layaway_paid_expiry`). `README.md:398` says part-paid layaways
  stay held; a captured intent does not reach `depositPaidPence`, which is all that expiry looks at.
* **A stuck printer** (`print_crash`). `docs/windows_print_agent.md:91` says the queue "records
  terminal job state". A job whose process stops while it is PROCESSING is
  never put back, and its printer's queue stands still. A claim that is committed without its answer does the same.

Four more disagreements and gaps met on the way; the models have them, and the properties say what is true with them:

* **Labour is restocked by refunds.** `completeRefund` (`refundService.ts:871`) writes a RETURN row for every line of
  a refund that restocks; returns skip lines without stock, and `docs/operations.md:76` says that labour lines are
  excluded from stock movements. `refunds` has such a line, and `RefundsBookedOnce` counts what the code writes.
* **Cash is not booked while the till is shut.** A completion and a cash refund look for an open session and, finding
  none, write no movement and refuse nothing (`tillService.ts:570`, `:685`). `DrawerHoldsNetCash` and `RefundsBookedOnce` say
  which cash that is.
* **In mock mode a signature response moves a final session** (`cardTerminalService.ts:571`): the handler does not look at the
  status it read, so a CAPTURED session becomes DECLINED. `FinalSessionStays` is limited to the live provider.
* **Tenders that do not reach the deposit.** Tenders older than the layaway, or made by `GET /sales/:id/tenders`, are not written to
  `depositPaidPence`, and neither are captures; only adding and deleting tenders does. `DepositHoldsStock` excepts `unsynced`.

The races the code does not exclude, each in its model and excepted by a history variable or by
what the property is about:

* Two overlapping finalizations of a job each make a basket and draw the parts (`raced` in `WorkshopJobs`).
* Two overlapping retries of a print job may put it back while it is delivered, so that two
  deliveries go to one printer (`raced` in `PrintQueue`); `docs/deployment.md:94` speaks of one.
* Two requests that open the till at once open two sessions (`doubled`). A movement may also land in a
  session that was closed after it was read.
* A success that was recorded without an answer is written over as FAILED or PENDING (`markLate` in `PrintQueue`), and the job may be
  printed again.
* A stock movement or a count between a posting's reads and its commit makes its adjustments wrong
  (`disturbed`). A scan may be lost, for it is a read and an upsert.
* A cancellation that read an open stocktake overwrites its POSTED; the adjustments stay, once.
* An edit of a draft, or a status request, that is written after the order was sent, received or cancelled
  (`stale`) may leave fewer ordered than received, or reopen a closed order.
* A status request that read a job in work may take it out of a final status (`undone`).
* Layaway expiry and cancellation act on rows read without a lock (`raced` in `Layaways`): two of them may release stock twice, or
  release what is paid or sold meanwhile; two requests about one terminal session may move it back (`overlapped` in `CardTerminals`).
* The tender list counts and inserts without the sale lock, so it may put tenders on a sale
  that was completed meanwhile; `docs/operations.md:73` says that cannot be.
* The money of a terminal session is booked by a chain whose later links may be refused.
* Returns and refunds of a line each count their own kind only.
* The return of an unpaid sale to its basket counts payments before it deletes the sale.

## 5. Proofs

Each proof module has an inductive invariant, say `Inv`, with `Init => Inv`, one lemma per
action, or group of actions, for `Inv /\ [Next]_vars => Inv'`, and the properties as consequences.
They hold for every value of the constants that satisfies the named assumptions of the module.

**`SalePaymentsProofs`**, for any sets of sales, intents and requests, any totals
in `Nat`, any positive amounts: `TypeCorrect`, `LockedReads`, `CompletedCovered`, `CapturesBounded`,
`CaptureCompletes`, `DrawerNet`, `CompletionFinal`, `AnnouncedOnce`. `CompletedSaleIsCovered` is not inductive: a completion
checks rows it has read. The invariant adds `LockedReadsAreCurrent`, that a request's sale and intent are
known (`ArgsBound`, `IntentsHaveSales`), that it knows whether its sale has a layaway
(`LayawayKnown`), and `SoundRows`: for every sale, open ones included, captured money is paid and within the total,
an open sale has given neither change nor credit, and the drawer and the cover of a completed
sale are right. Lemmas on `SaleRows` say that each write keeps a row sound; the
action lemmas then only have to say which write an action makes. A completion is announced once because one
request at most has the event of a sale to publish, and none has once it is out (`Announced`).
`CapturesPaidOnce` has an invariant of its own (`CountInv`): the amounts of a sale's captured intents add up to what
its payments captured, and an intent being captured is locked, belongs to the sale the request read, and was neither
cancelled nor deleted meanwhile. Each step then adds no payment, one payment with its intent, or deletes both (`MoneyStep`).

**`StocktakesProofs`**, the part about `Stock`, for any number of positions, transactions and transfers, any routes, baskets and
opening stock: `StockTypeCorrect`, `StockCovered`, `TransferMoved`, `MovementsDoNotDeadlock`,
`ClosedTransfersStay`. The invariant adds that locks exclude each other, that what is checked is
held, that a checked position covers its draw, that locks are taken in ascending order and that
rows of transfers exclude each other. `StockIsCovered` needs the third, as the sum
was read before the commit. `NoWaitCycle` follows from the fourth: in a set of transactions that wait
for each other, one that wants the least key waits for one that holds it and so wants a greater one.

The part about `Stocktakes`: `PostsOnce`, `CyclesNeedPostings`, `PostingSets`. A posting holds its stocktake's row
alone, and the row stays OPEN as long, since the writes of the other requests wait
(`PostingHoldsRow`); what it is going to add to a position is the difference of the count to the stock unless
it was disturbed (`DeltaFitsCount`); whoever serves no posting takes its locks in ascending order
(`LocksAscendElsewhere`), from which the argument for `NoWaitCycle` applies to any circle without a posting.

**`SaleChainsProofs`**, on top of `SalePaymentsProofs`, the part about `Layaways`: `LayawaysAreSold`, `LayawaySalesCovered`, `SoldIsHeld`,
`ReleasedOnce`, `DepositsHold`, which rests on the deposit being the sum of the tenders (of sales not in `unsynced`). The layaway handlers lock nothing, so it has to be shown that they leave the invariant of
the sale requests alone: the one that writes the sale waits for its lock and adds to sound rows. A sale request does to a
sale and its layaway one of four things (`SaleEffect`). A completion that is about to mark its layaway has a sale that is
no longer open (`DesksInStep`) nor deleted, for it has a layaway (`SoundPair`). The rest holds of requests that did not
overlap: all others are at rest (`OthersAtRest`), so what a request read is still so, and a layaway and its sale agree
(`SerialPair`).

The part about `CardTerminals`: `CapturedSessionsPaid`, `PaidBounded`, `TerminalSalesCovered`,
`FinalSessionsStay`. A step is one of the sale requests,
the begin of a tender of some amount, or takes an intent back (`TerminalsStep`). The last is not a step of `SalePayments`: it is shown to
leave the payments alone and to take one captured intent out of the sum of `CountInv`, so that the invariants go on holding
(`BaseStep`). An intent is `Settled` when its payment is there, its sale completed, or it is gone; no step undoes that (`Carried`), so a
chain that captured it, or found its sale completed, may rely on it links later (`RequestInv`), and so may the session (`SessionInv`). For
`FinalSessionStays`, with a live provider, a request that runs alone works on a session that is not final (`SerialInv`).

**`PrintQueueProofs`**, for any number of jobs, printers, processes, retries and faults: `OneDelivery`, `PrintedInDoubt`,
and `QueueImplementsSpool`, the refinement. `QueueInv`: a drain delivers jobs of its own printer; and for
every printer outside `raced` the row of a job that is being delivered is PROCESSING, with the attempts the drain
knows, no other process delivers there, and a drain at `markLate` finds the success it recorded, alone
(`LateDrainsFollowSuccess`). With it each step of the queue is shown to be one move of `PrintSpool`, or
to change no phase; two drains of one job would otherwise finish it twice. For `PrintedAgainOnlyInDoubt` the copies made, the
deliveries that may still make one and the one a row asks for are counted together (`CopyInv`).

**`RefundsProofs`**, for any number of refunds, lines, sessions and requests, any prices and tax:
`RefundsSettled`, `OneSession`, `ReturnsBounded`, `RefundsBounded`, `RefundsBooked`, `RefundsWithinSale`. As long as no two openings overlapped there is one request
to open, and it found none open (`TillInv`); a refund has one request at a time, what it found to be a
draft is one, and what it checked still holds (`RefundInv`). What is left of each line is known to the one completion
that holds the sale (`AmountInv`), so that the sums of what completed refunds took back stay within what was sold. The bound on money
follows from the quantities alone: a refund's tax is rounded by at most half a penny (`TaxBound`), and the untaxed
values add up line by line.

**`PurchasingProofs`**, for any orders, items, requests and bounds: `ReceiptsBounded`, `ReceiptsNeedOpenOrders`, `StatusesFitReceipts`,
`ClosedOrdersStay`. While
a receipt holds its rows, what it found to remain still does: no other receipt has them
and no edit reaches them but a stale one, for an edit that is not stale meets a draft, of which nothing was received. The computed status compares totals: as no line
receives too much, the totals agree only where every line does (`CalculatedOfSome`). A request that asks for another
status than it read has read an order of which nothing was received (`StatusInv`).

**`WorkshopJobsProofs`**, for any number of jobs, baskets, requests and retries: `PartsOnce`, `ClosedHasSale`,
`CheckoutOrCancellation`, `FailuresAreHonest`. What a checkout found under the lock of its job stays true until
it commits (`CheckoutHoldsJob`); a final status stays unless that is on record (`FinalKept`); a job has the one
basket that was made of it unless two finalizations overlapped (`Linked`, `SoldWithoutJob`), so a checkout of a
basket knows whether its parts are drawn already.

**`SumTheorems`**: the sum of a function over a finite set is 0 for the empty set, a natural number for natural values, grows by
what is added, is monotonic, and that of a sum is the sum of the sums. `SumFunctionOnSet` is a recursive function chosen by its
own equation, so that such a function exists and that the order of summing does not matter is shown first, by
well-founded induction on the subsets of the set (`SumsExist`, `SumSolves`).

The assumptions on constants are those of the code's own types: totals, prices and quantities are natural numbers, tenders are
positive, a sale or an order has finitely many lines (`ItemAssumption`), and the values that stand for "no row" name none.

**Only model-checked**: liveness (`DueJobIsClaimed`, `JobSettlesOrFault`), as fairness is about ENABLED, which is out of the prover's reach. Every
invariant and every other property of the runs that pass is also a theorem.

## 6. Not modelled

Reads, reports, configuration, import parsing, formatting, authentication, the front end: they have
no protocol of their own, and they are most of the repository's lines. Not yet modelled, though they have one:
the editing of basket items, deposits and the credit ledger, reservation and use of workshop parts, estimates, bookings,
bike hire, shipments, reminders, customer capture, exchanges (section 7).

Left out inside the parts that are modelled: notes and audit events, currency,
receipt numbers, restricted roles, what is paid in or out of a till by hand, prices of
purchase orders, amounts and deposits of workshop jobs, the hash of a lock key (two positions
with one hash are one lock, which only removes interleavings). Writers of ledger rows without a lock may be
refused by checks of their own, which `Stock` does not know; there they may take anything up to
`MaxDrawn`, and `drawn` counts it. `Refunds` is about a sale that is completed; its stock rows
are counted, not posted to `Stock`. The component list in `PROJECT.json` gives the reason for every part.

## 7. Plan

Done: `SalePayments`, `Layaways`, `CardTerminals`, `PrintQueue` with its refinement, `Stock`, `Stocktakes`,
`Till`, `Refunds`, `Purchasing`, `WorkshopJobs`, and the proofs of section 5, which cover every safety property
of the runs.

To come, the most important first:

1. `Credit`: credit and deposits under serializable transactions with bounded retries, beside captures that are not
   serializable; an account with one entry per key as the abstract specification (`M12_CLOSEOUT.md` states its invariants).
2. `Checkout`: baskets edited while they are checked out; every line of the basket in the sale.
3. `WorkshopParts`, the unlocked writer of `Stock` in detail; `Estimates` and `Bookings` of a job.
4. `HireBookings`, `Shipments`, `Reminders`.

Abstract specifications worth stating: a settlement that is paid at once (for
`SalePayments`), a shelf that is never oversold (for `Stock`).

Theorems to come: those abstract specifications as refinements of `SalePayments` and `Stock`, and the invariants of the
modules above as they are written.
