----------------------------- MODULE PrintQueue -----------------------------
(***************************************************************************)
(* The managed print queue: PrintJob rows in the database, and in every    *)
(* backend process one drain per printer that claims a due job, sends it   *)
(* to the print agent and records the result, until nothing is left.       *)
(*                                                                         *)
(* A drain is started when a job is enqueued or retried, by the recheck    *)
(* when a drain ends, and by the sweep.  Drains live in memory: a crash    *)
(* loses them, the rows stay.  Every statement on the rows is one step.    *)
(* Which of several due jobs is claimed first is left open.                *)
(***************************************************************************)
EXTENDS Integers, FiniteSets

CONSTANTS
  Job, Printer, Node,   \* print jobs, printers, backend processes
  Staff,                \* retry requests served concurrently
  PrinterOf,            \* PrinterOf[j]: the printer job j is for
  MaxAttempts,          \* maxAttempts of every job
  MaxRetries,           \* bound: manual retries
  MaxFaults,            \* bound: crashes and failing database statements
  None

ASSUME PrinterAssumption == PrinterOf \in [Job -> Printer]
ASSUME AttemptsAssumption == MaxAttempts \in 1..10
ASSUME NoneAssumption == None \notin Job \cup Node

VARIABLES
  job,      \* job[j]: the PrintJob row
  drain,    \* drain[n][p]: the entry of activePrinterDrains
  recheck,  \* recheck[n][p]: a drain has ended and its recheck is outstanding
  up,       \* up[n]: the process runs
  request,  \* request[u]: the retry request of u
  printed,  \* printed[j]: times the agent printed job j
  doubt,    \* doubt[j]: reasons to print j again
  raced,    \* printers of a job that was put back by a retry although it was
            \*   FAILED no more (history)
  retries, faults

vars == <<job, drain, recheck, up, request, printed, doubt, raced, retries, faults>>

JobStatus == {"NONE", "PENDING", "PROCESSING", "SUCCEEDED", "FAILED"}

(* due: nextAttemptAt is unset or has passed                               *)
JobRow == [status : JobStatus, attempts : Nat, due : BOOLEAN]
NewRow == [status |-> "NONE", attempts |-> 0, due |-> FALSE]
QueuedRow == [status |-> "PENDING", attempts |-> 0, due |-> TRUE]

(* markLate: markFailed, after a markSucceeded that was carried out although *)
(* its answer was lost                                                      *)
DrainStep ==
  {"none", "claim", "dispatch", "markSucceeded", "markFailed", "markLate", "ending"}
Drain == [at : DrainStep, job : Job \cup {None}, attempts : Nat,
          retryable : BOOLEAN]
NoDrain == [at |-> "none", job |-> None, attempts |-> 0, retryable |-> FALSE]
NewDrain == [NoDrain EXCEPT !.at = "claim"]

Request == [job : Job \cup {None}, node : Node \cup {None}]
NoRequest == [job |-> None, node |-> None]

Init ==
  /\ job = [j \in Job |-> NewRow]
  /\ drain = [n \in Node |-> [p \in Printer |-> NoDrain]]
  /\ recheck = [n \in Node |-> [p \in Printer |-> FALSE]]
  /\ up = [n \in Node |-> TRUE]
  /\ request = [u \in Staff |-> NoRequest]
  /\ printed = [j \in Job |-> 0]
  /\ doubt = [j \in Job |-> 0]
  /\ raced = {}
  /\ retries = 0 /\ faults = 0

-----------------------------------------------------------------------------
Due(j) == job[j].status = "PENDING" /\ job[j].due
JobsOf(p) == {j \in Job : PrinterOf[j] = p}

(* ensurePrinterDrain for the printers P of node n.                        *)
EnsureDrain(n, P) ==
  drain' = [drain EXCEPT ![n] =
              [p \in Printer |-> IF p \in P /\ @[p].at = "none" THEN NewDrain ELSE @[p]]]

At(n, p, step) == up[n] /\ drain[n][p].at = step
Goto(n, p, d) == drain' = [drain EXCEPT ![n][p] = d]
Step(d, step) == [d EXCEPT !.at = step]
Doubted(j) == doubt' = [doubt EXCEPT ![j] = @ + 1]

Fault == faults < MaxFaults /\ faults' = faults + 1

(* enqueueManagedPrintJob *)
Enqueue(n, j) ==
  /\ up[n]
  /\ job[j].status = "NONE"
  /\ job' = [job EXCEPT ![j] = QueuedRow]
  /\ EnsureDrain(n, {PrinterOf[j]})
  /\ UNCHANGED <<recheck, up, request, printed, doubt, raced, retries, faults>>

\* mutant: the NOT EXISTS clause is missing
EveryDueJob(p) == {j \in JobsOf(p) : Due(j)}

(* The subquery of the claim: a due job of a printer that is not printing. *)
Claimable(p) ==
  {j \in JobsOf(p) : Due(j) /\ \A k \in JobsOf(p) : job[k].status # "PROCESSING"}

\* mutant: the claim only selects
TakeJobUnmarked(n, p, j) ==
  /\ UNCHANGED job
  /\ Goto(n, p, [at |-> "dispatch", job |-> j, attempts |-> job[j].attempts,
                 retryable |-> FALSE])

MarkClaimed(j) ==
  job' = [job EXCEPT ![j] = [status |-> "PROCESSING", attempts |-> @.attempts + 1,
                             due |-> FALSE]]

TakeJob(n, p, j) ==
  /\ MarkClaimed(j)
  /\ Goto(n, p, [at |-> "dispatch", job |-> j, attempts |-> job[j].attempts + 1,
                 retryable |-> FALSE])

(* claimNextEligiblePrintJobForPrinter; two processes that claim at once    *)
(* are told apart by the unique index on PROCESSING rows.                  *)
Claim(n, p) ==
  /\ At(n, p, "claim")
  /\ \/ \E j \in Claimable(p) : TakeJob(n, p, j)
     \/ Claimable(p) = {} /\ Goto(n, p, Step(NoDrain, "ending")) /\ UNCHANGED job
  /\ UNCHANGED <<recheck, up, request, printed, doubt, raced, retries, faults>>

(* The dispatch handler returns, or throws an error that isRetryable... may *)
(* or may not call retryable; what it was sent may have been printed.      *)
DispatchReturns(n, p) ==
  LET j == drain[n][p].job
  IN  /\ At(n, p, "dispatch")
      /\ printed' = [printed EXCEPT ![j] = @ + 1]
      /\ Goto(n, p, Step(drain[n][p], "markSucceeded"))
      /\ UNCHANGED <<job, recheck, up, request, doubt, raced, retries, faults>>

DispatchThrows(n, p, retryable, hasPrinted) ==
  LET j == drain[n][p].job
  IN  /\ At(n, p, "dispatch")
      /\ IF hasPrinted
         THEN printed' = [printed EXCEPT ![j] = @ + 1] /\ Doubted(j)
         ELSE UNCHANGED <<printed, doubt>>
      /\ Goto(n, p, [drain[n][p] EXCEPT !.at = "markFailed", !.retryable = retryable])
      /\ UNCHANGED <<job, recheck, up, request, raced, retries, faults>>

RecordSuccess(d) ==
  job' = [job EXCEPT ![d.job].status = "SUCCEEDED", ![d.job].due = FALSE]

MarkSucceeded(n, p) ==
  /\ At(n, p, "markSucceeded")
  /\ RecordSuccess(drain[n][p])
  /\ Goto(n, p, NewDrain)
  /\ UNCHANGED <<recheck, up, request, printed, doubt, raced, retries, faults>>

CanRetryAutomatically(d) == d.retryable /\ d.attempts < MaxAttempts

\* mutant: a job that may be retried keeps its status
RecordFailureOnly(d) ==
  job' = IF CanRetryAutomatically(d) THEN job ELSE [job EXCEPT ![d.job].status = "FAILED"]

RecordFailure(d) ==
  job' = [job EXCEPT ![d.job].status =
                       IF CanRetryAutomatically(d) THEN "PENDING" ELSE "FAILED",
                     ![d.job].due = FALSE]

(* The update is by id alone, whatever the row says meanwhile.             *)
MarkFailed(n, p) ==
  /\ At(n, p, "markFailed") \/ At(n, p, "markLate")
  /\ RecordFailure(drain[n][p])
  /\ Goto(n, p, NewDrain)
  /\ UNCHANGED <<recheck, up, request, printed, doubt, raced, retries, faults>>

(* A statement of the drain fails, or is carried out and its answer lost.   *)
(* A failing markPrintJobSucceeded is taken for a failed dispatch, anything *)
(* else ends the drain.                                                    *)
SuccessFails(n, p) ==
  /\ At(n, p, "markSucceeded")
  /\ \E retryable \in BOOLEAN :
       \/ /\ Goto(n, p, [drain[n][p] EXCEPT !.at = "markFailed", !.retryable = retryable])
          /\ UNCHANGED job
       \/ /\ Goto(n, p, [drain[n][p] EXCEPT !.at = "markLate", !.retryable = retryable])
          /\ RecordSuccess(drain[n][p])
  /\ Doubted(drain[n][p].job)

FailureFails(n, p) ==
  /\ At(n, p, "markFailed") \/ At(n, p, "markLate")
  /\ UNCHANGED job \/ RecordFailure(drain[n][p])
  /\ Goto(n, p, Step(NoDrain, "ending"))
  /\ UNCHANGED doubt

ClaimFails(n, p) ==
  /\ At(n, p, "claim")
  /\ UNCHANGED job \/ \E j \in Claimable(p) : MarkClaimed(j)
  /\ Goto(n, p, Step(NoDrain, "ending"))
  /\ UNCHANGED doubt

StatementFails(n, p) ==
  /\ Fault
  /\ ClaimFails(n, p) \/ SuccessFails(n, p) \/ FailureFails(n, p)
  /\ UNCHANGED <<recheck, up, request, printed, raced, retries>>

\* mutant: the entry stays in the map
EndDrainNever(n, p) == FALSE

(* The finally handler: the map entry goes, then the rows are looked at    *)
(* again, for a job enqueued after the last claim came back empty.         *)
EndDrain(n, p) ==
  /\ At(n, p, "ending")
  /\ Goto(n, p, NoDrain)
  /\ recheck' = [recheck EXCEPT ![n][p] = TRUE]
  /\ UNCHANGED <<job, up, request, printed, doubt, raced, retries, faults>>

Recheck(n, p) ==
  /\ up[n] /\ recheck[n][p]
  /\ recheck' = [recheck EXCEPT ![n][p] = FALSE]
  /\ EnsureDrain(n, IF \E j \in JobsOf(p) : Due(j) THEN {p} ELSE {})
  /\ UNCHANGED <<job, up, request, printed, doubt, raced, retries, faults>>

(* processDueManagedPrintJobsOnce *)
Sweep(n) ==
  /\ up[n]
  /\ EnsureDrain(n, {PrinterOf[j] : j \in {k \in Job : Due(k)}})
  /\ UNCHANGED <<job, recheck, up, request, printed, doubt, raced, retries, faults>>

(* The backoff of a job that is to be retried is over.                     *)
BecomesDue(j) ==
  /\ job[j].status = "PENDING" /\ ~job[j].due
  /\ job' = [job EXCEPT ![j].due = TRUE]
  /\ UNCHANGED <<drain, recheck, up, request, printed, doubt, raced, retries, faults>>

(* retryManagedPrintJob reads the row, then writes it.                     *)
BeginRetry(u, n, j) ==
  /\ up[n] /\ request[u] = NoRequest
  /\ retries < MaxRetries
  /\ job[j].status = "FAILED"
  /\ request' = [request EXCEPT ![u] = [job |-> j, node |-> n]]
  /\ retries' = retries + 1
  /\ UNCHANGED <<job, drain, recheck, up, printed, doubt, raced, faults>>

CommitRetry(u) ==
  LET j == request[u].job
  IN  /\ j # None
      /\ job' = [job EXCEPT ![j] = QueuedRow]
      /\ EnsureDrain(request[u].node, {PrinterOf[j]})
      /\ request' = [request EXCEPT ![u] = NoRequest]
      /\ Doubted(j)
      /\ raced' = IF job[j].status = "FAILED" THEN raced ELSE raced \cup {PrinterOf[j]}
      /\ UNCHANGED <<recheck, up, printed, retries, faults>>

Crash(n) ==
  /\ up[n]
  /\ Fault
  /\ up' = [up EXCEPT ![n] = FALSE]
  /\ drain' = [drain EXCEPT ![n] = [p \in Printer |-> NoDrain]]
  /\ recheck' = [recheck EXCEPT ![n] = [p \in Printer |-> FALSE]]
  /\ request' = [u \in Staff |-> IF request[u].node = n THEN NoRequest ELSE request[u]]
  /\ UNCHANGED <<job, printed, doubt, raced, retries>>

\* mutant: a restart puts every job back that is in delivery, by whatever process
RestartRequeues(n) ==
  /\ ~up[n]
  /\ up' = [up EXCEPT ![n] = TRUE]
  /\ job' = [j \in Job |-> IF job[j].status = "PROCESSING" THEN QueuedRow ELSE job[j]]
  /\ EnsureDrain(n, Printer)
  /\ UNCHANGED <<recheck, request, printed, doubt, raced, retries, faults>>

(* startManagedPrintQueueWorker sweeps at once.                            *)
Restart(n) ==
  /\ ~up[n]
  /\ up' = [up EXCEPT ![n] = TRUE]
  /\ EnsureDrain(n, {PrinterOf[j] : j \in {k \in Job : Due(k)}})
  /\ UNCHANGED <<job, recheck, request, printed, doubt, raced, retries, faults>>

-----------------------------------------------------------------------------
DrainNext(n, p) ==
  \/ Claim(n, p) \/ DispatchReturns(n, p)
  \/ \E retryable, hasPrinted \in BOOLEAN : DispatchThrows(n, p, retryable, hasPrinted)
  \/ MarkSucceeded(n, p) \/ MarkFailed(n, p)
  \/ EndDrain(n, p)

Next ==
  \/ \E n \in Node, p \in Printer : DrainNext(n, p) \/ StatementFails(n, p) \/ Recheck(n, p)
  \/ \E n \in Node : Sweep(n) \/ Crash(n) \/ Restart(n)
  \/ \E n \in Node, j \in Job : Enqueue(n, j)
  \/ \E j \in Job : BecomesDue(j)
  \/ \E u \in Staff : CommitRetry(u) \/ \E n \in Node, j \in Job : BeginRetry(u, n, j)

Spec == Init /\ [][Next]_vars

(* The agent call has a timeout, so a drain always goes on; the sweep is a  *)
(* setInterval; a backoff ends when its time comes; a process that crashed  *)
(* is restarted by its supervisor.                                         *)
Fairness ==
  /\ \A n \in Node, p \in Printer : WF_vars(DrainNext(n, p)) /\ WF_vars(Recheck(n, p))
  /\ \A n \in Node : WF_vars(Sweep(n)) /\ WF_vars(Restart(n))
  /\ \A j \in Job : WF_vars(BecomesDue(j))
  /\ \A u \in Staff : WF_vars(CommitRetry(u))

FairSpec == Spec /\ Fairness
-----------------------------------------------------------------------------
(* Properties *)

Holds(n, p) == drain[n][p].at \in {"dispatch", "markSucceeded", "markFailed"}
HeldBy(j) == {n \in Node : Holds(n, PrinterOf[j]) /\ drain[n][PrinterOf[j]].job = j}

(* The drains that are about to write over the success of j they recorded.  *)
Late(n, p) == drain[n][p].at = "markLate"
LateOn(j) == {n \in Node : Late(n, PrinterOf[j]) /\ drain[n][PrinterOf[j]].job = j}

(* docs/deployment.md: "only one active managed job is delivered to a given  *)
(* printer at a time". It takes the unique PROCESSING row, the in-memory     *)
(* drains and the retry check together: no two processes deliver to one      *)
(* printer, and what a drain delivers is the row that is PROCESSING, until   *)
(* two retries of one job overlap and the later one puts it back.            *)
OneDeliveryUnlessRaced ==
  \A n \in Node, p \in Printer \ raced : Holds(n, p) =>
    /\ job[drain[n][p].job].status = "PROCESSING"
    /\ job[drain[n][p].job].attempts = drain[n][p].attempts
    /\ PrinterOf[drain[n][p].job] = p
    /\ \A q \in Node \ {n} : ~Holds(q, p)

(* markPrintJobFailed: a job is delivered again only for a reason: a copy     *)
(* came out whose delivery was not confirmed or not recorded, or staff asked. *)
PrintedAgainOnlyInDoubt == \A j \in Job : printed[j] <= 1 + doubt[j]

(* The queue as its users see it: the phase of a job is the status of its     *)
(* row, except that a PROCESSING row no drain is working on is lost, that a  *)
(* success whose answer was lost is unsure until its drain has taken it for  *)
(* a failure, and that nothing is promised of a printer two retries have     *)
(* raced on.                                                                 *)
Phase(j) ==
  IF PrinterOf[j] \in raced THEN "void"
  ELSE CASE job[j].status = "NONE" -> "none"
         [] job[j].status = "PENDING" -> "queued"
         [] job[j].status = "PROCESSING" -> IF HeldBy(j) = {} THEN "lost" ELSE "active"
         [] job[j].status = "SUCCEEDED" -> IF LateOn(j) = {} THEN "done" ELSE "unsure"
         [] OTHER -> "failed"

Spool == INSTANCE PrintSpool WITH phase <- [j \in Job |-> Phase(j)]
ImplementsSpool == Spool!SpoolSpec

(* drain, recheck and sweep together: a due job is claimed, however the       *)
(* enqueue and the end of the running drain interleave and whatever crashes,  *)
(* unless an abandoned job keeps the printer for itself.                     *)
DueJobIsClaimed ==
  \A j \in Job : Due(j) ~>
    \/ job[j].status # "PENDING"
    \/ \E k \in JobsOf(PrinterOf[j]) : Phase(k) = "lost"

(* The claim, markPrintJobFailed with its backoff, and the drains: as long as *)
(* no process stops and no statement fails, every job that is enqueued is     *)
(* printed or reported as failed in the end, however deliveries turn out.     *)
JobSettlesOrFault ==
  \A j \in Job : job[j].status = "PENDING" ~>
    job[j].status \in {"SUCCEEDED", "FAILED"} \/ faults > 0

(* docs/windows_print_agent.md: a "durable CorePOS print-job queue". Every    *)
(* job that is enqueued is printed or reported as failed in the end.         *)
EveryJobSettles ==
  \A j \in Job : job[j].status = "PENDING" ~> job[j].status \in {"SUCCEEDED", "FAILED"}
=============================================================================
