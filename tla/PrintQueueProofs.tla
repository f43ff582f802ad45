-------------------------- MODULE PrintQueueProofs --------------------------
(***************************************************************************)
(* Proofs about PrintQueue, for any number of jobs, printers, processes,   *)
(* retries and faults.                                                     *)
(*                                                                         *)
(* QueueInv: a drain delivers a job of its own printer, and as long as no  *)
(* two retries raced on that printer the job's row says so and no other    *)
(* process delivers there; a drain that is about to take a recorded        *)
(* success for a failure finds it still recorded, and is alone with it.    *)
(* With it every step of the queue is a step of PrintSpool, or changes no  *)
(* phase.                                                                  *)
(*                                                                         *)
(* CopyInv: the copies of a job, the deliveries of it that may still make  *)
(* one and the one its row still asks for are at most one more than the    *)
(* occasions on which a copy was in doubt.                                 *)
(***************************************************************************)
EXTENDS PrintQueue, FiniteSetTheorems, TLAPS

TypeOK ==
  /\ job \in [Job -> JobRow]
  /\ drain \in [Node -> [Printer -> Drain]]
  /\ recheck \in [Node -> [Printer -> BOOLEAN]]
  /\ up \in [Node -> BOOLEAN]
  /\ request \in [Staff -> Request]
  /\ raced \in SUBSET Printer

DrainsHoldOwnJobs ==
  \A n \in Node, p \in Printer : Holds(n, p) \/ Late(n, p) => drain[n][p].job \in JobsOf(p)

LateDrainsFollowSuccess ==
  \A n \in Node, p \in Printer \ raced : Late(n, p) =>
    /\ job[drain[n][p].job].status = "SUCCEEDED"
    /\ \A q \in Node \ {n} : Late(q, p) => drain[q][p].job # drain[n][p].job

RequestsHaveNodes ==
  \A u \in Staff : request[u].job # None => request[u].node \in Node

QueueInv ==
  /\ TypeOK /\ DrainsHoldOwnJobs /\ RequestsHaveNodes
  /\ OneDeliveryUnlessRaced /\ LateDrainsFollowSuccess

-----------------------------------------------------------------------------
(* EnsureDrain starts drains where there are none: whoever delivers goes on. *)
LEMMA EnsureDrainKeepsDeliveries ==
  ASSUME TypeOK, NEW n \in Node, NEW P, EnsureDrain(n, P)
  PROVE  /\ drain' \in [Node -> [Printer -> Drain]]
         /\ \A m \in Node, p \in Printer :
              /\ Holds(m, p)' = Holds(m, p) /\ Late(m, p)' = Late(m, p)
              /\ Holds(m, p) \/ Late(m, p) => drain'[m][p] = drain[m][p]
<1>1. NewDrain \in Drain /\ NewDrain.at = "claim"
  BY DEF NewDrain, NoDrain, Drain, DrainStep
<1>2. \A p \in Printer : drain'[n][p] = IF p \in P /\ drain[n][p].at = "none"
                                        THEN NewDrain ELSE drain[n][p]
  BY DEF EnsureDrain, TypeOK
<1>3. \A m \in Node \ {n} : drain'[m] = drain[m]
  BY DEF EnsureDrain, TypeOK
<1>4. drain' \in [Node -> [Printer -> Drain]]
  BY <1>1 DEF EnsureDrain, TypeOK
<1>5. ASSUME NEW m \in Node, NEW p \in Printer
      PROVE  /\ Holds(m, p)' = Holds(m, p) /\ Late(m, p)' = Late(m, p)
             /\ Holds(m, p) \/ Late(m, p) => drain'[m][p] = drain[m][p]
  <2>1. CASE m = n
    BY <1>1, <1>2, <2>1 DEF Holds, Late
  <2>2. CASE m # n
    BY <1>3, <2>2 DEF Holds, Late
  <2> QED
    BY <2>1, <2>2
<1> QED
  BY <1>4, <1>5

(* A drain n, p that moves from d to e: what the other drains do stays.      *)
LEMMA GotoMovesOneDrain ==
  ASSUME TypeOK, NEW n \in Node, NEW p \in Printer, NEW e \in Drain, Goto(n, p, e)
  PROVE  /\ drain' \in [Node -> [Printer -> Drain]]
         /\ drain'[n][p] = e
         /\ \A m \in Node, q \in Printer : m # n \/ q # p => drain'[m][q] = drain[m][q]
  BY DEF Goto, TypeOK

(* The drain n, p is busy with a job; it goes on with the one it has, or      *)
(* drops it.                                                                 *)
Busy(n, p) == Holds(n, p) \/ Late(n, p)
GoesOn(n, p) ==
  /\ Holds(n, p)' => Holds(n, p) /\ drain'[n][p].attempts = drain[n][p].attempts
  /\ Late(n, p)' => Late(n, p)
  /\ Busy(n, p)' => drain'[n][p].job = drain[n][p].job

(* A row that no drain is busy with after the step may be written: what the  *)
(* drains do with the other rows goes on.                                    *)
LEMMA OtherRowsKeepInvariant ==
  ASSUME QueueInv, NEW j \in Job,
         PrinterOf[j] \in raced' \/
           \A n \in Node : Busy(n, PrinterOf[j])' => drain'[n][PrinterOf[j]].job # j,
         \A k \in Job \ {j} : job'[k] = job[k],
         raced \subseteq raced',
         \A n \in Node, p \in Printer : GoesOn(n, p)
  PROVE  DrainsHoldOwnJobs' /\ OneDeliveryUnlessRaced' /\ LateDrainsFollowSuccess'
<1>1. DrainsHoldOwnJobs'
  BY DEF QueueInv, DrainsHoldOwnJobs, JobsOf, GoesOn, Busy
<1>2. ASSUME NEW n \in Node, NEW p \in Printer \ raced', Busy(n, p)'
      PROVE  /\ p \in Printer \ raced /\ Busy(n, p)
             /\ drain'[n][p].job = drain[n][p].job
             /\ drain[n][p].job \in Job /\ PrinterOf[drain[n][p].job] = p
             /\ job'[drain[n][p].job] = job[drain[n][p].job]
  <2>1. p \in Printer \ raced /\ Busy(n, p) /\ drain'[n][p].job = drain[n][p].job
    BY <1>2 DEF GoesOn, Busy
  <2>2. drain[n][p].job \in Job \ {j} /\ PrinterOf[drain[n][p].job] = p
    BY <1>2, <2>1 DEF QueueInv, DrainsHoldOwnJobs, JobsOf, Busy
  <2>3. job'[drain[n][p].job] = job[drain[n][p].job]
    BY <2>2
  <2> QED
    BY <2>1, <2>2, <2>3
<1>3. ASSUME NEW n \in Node, NEW p \in Printer \ raced', Holds(n, p)'
      PROVE  /\ job'[drain'[n][p].job].status = "PROCESSING"
             /\ job'[drain'[n][p].job].attempts = drain'[n][p].attempts
             /\ PrinterOf[drain'[n][p].job] = p
             /\ \A q \in Node \ {n} : ~Holds(q, p)'
  BY <1>2, <1>3 DEF QueueInv, OneDeliveryUnlessRaced, GoesOn, Busy
<1>4. ASSUME NEW n \in Node, NEW p \in Printer \ raced', Late(n, p)'
      PROVE  /\ job'[drain'[n][p].job].status = "SUCCEEDED"
             /\ \A q \in Node \ {n} : Late(q, p)' => drain'[q][p].job # drain'[n][p].job
  BY <1>2, <1>4 DEF QueueInv, LateDrainsFollowSuccess, GoesOn, Busy
<1> QED
  BY <1>1, <1>3, <1>4 DEF OneDeliveryUnlessRaced, LateDrainsFollowSuccess

(* And so if no row is written at all.                                       *)
LEMMA SameRowsKeepInvariant ==
  ASSUME QueueInv, UNCHANGED <<job, raced>>, \A n \in Node, p \in Printer : GoesOn(n, p)
  PROVE  DrainsHoldOwnJobs' /\ OneDeliveryUnlessRaced' /\ LateDrainsFollowSuccess'
<1>1. DrainsHoldOwnJobs'
  BY DEF QueueInv, DrainsHoldOwnJobs, GoesOn, Busy
<1>2. OneDeliveryUnlessRaced'
  BY DEF QueueInv, OneDeliveryUnlessRaced, GoesOn, Busy
<1>3. LateDrainsFollowSuccess'
  BY DEF QueueInv, LateDrainsFollowSuccess, GoesOn, Busy
<1> QED
  BY <1>1, <1>2, <1>3

(* A row that says neither PROCESSING nor SUCCEEDED is nobody's, unless two  *)
(* retries raced on its printer.                                             *)
LEMMA QueuedIsNobodys ==
  ASSUME QueueInv, NEW j \in Job, job[j].status \notin {"PROCESSING", "SUCCEEDED"},
         PrinterOf[j] \notin raced, NEW n \in Node
  PROVE  Busy(n, PrinterOf[j]) => drain[n][PrinterOf[j]].job # j
  BY PrinterAssumption DEF QueueInv, OneDeliveryUnlessRaced, LateDrainsFollowSuccess, Busy

-----------------------------------------------------------------------------
LEMMA InitEstablishesQueueInv == Init => QueueInv
<1> SUFFICES ASSUME Init PROVE QueueInv
  OBVIOUS
<1>1. NewRow \in JobRow /\ NoDrain \in Drain /\ NoRequest \in Request
  BY DEF NewRow, JobRow, JobStatus, NoDrain, Drain, DrainStep, NoRequest, Request
<1>2. TypeOK
  BY <1>1 DEF Init, TypeOK
<1>3. \A n \in Node, p \in Printer : ~Holds(n, p) /\ ~Late(n, p)
  BY DEF Init, Holds, Late, NoDrain
<1>4. \A u \in Staff : request[u].job = None
  BY DEF Init, NoRequest
<1> QED
  BY <1>2, <1>3, <1>4 DEF QueueInv, DrainsHoldOwnJobs, RequestsHaveNodes,
                          OneDeliveryUnlessRaced, LateDrainsFollowSuccess

LEMMA EnqueueKeepsInv ==
  ASSUME QueueInv, NEW n \in Node, NEW j \in Job, Enqueue(n, j)
  PROVE  QueueInv'
<1>1. TypeOK
  BY DEF QueueInv
<1>2. QueuedRow \in JobRow
  BY DEF QueuedRow, JobRow, JobStatus
<1>3. EnsureDrain(n, {PrinterOf[j]})
  BY DEF Enqueue
<1>4. /\ drain' \in [Node -> [Printer -> Drain]]
      /\ \A m \in Node, p \in Printer :
           /\ Holds(m, p)' = Holds(m, p) /\ Late(m, p)' = Late(m, p)
           /\ Holds(m, p) \/ Late(m, p) => drain'[m][p] = drain[m][p]
  BY <1>1, <1>3, EnsureDrainKeepsDeliveries
<1>5. TypeOK' /\ RequestsHaveNodes'
  BY <1>2, <1>4 DEF Enqueue, TypeOK, QueueInv, RequestsHaveNodes
<1>6. PrinterOf[j] \in Printer
  BY PrinterAssumption
<1>7. PrinterOf[j] \in raced' \/
        \A m \in Node : Busy(m, PrinterOf[j])' => drain'[m][PrinterOf[j]].job # j
  BY <1>4, <1>6, QueuedIsNobodys DEF Enqueue, Busy
<1>8. raced \subseteq raced' /\ \A k \in Job \ {j} : job'[k] = job[k]
  BY DEF Enqueue, QueueInv, TypeOK
<1>9. \A m \in Node, p \in Printer : GoesOn(m, p)
  BY <1>4 DEF GoesOn, Busy
<1> QED
  BY <1>5, <1>7, <1>8, <1>9, OtherRowsKeepInvariant DEF QueueInv

(* The claim: a row is taken only if none of its printer's is PROCESSING, so *)
(* no drain of that printer delivers.                                        *)
LEMMA ClaimKeepsInv ==
  ASSUME QueueInv, NEW n \in Node, NEW p \in Printer, Claim(n, p)
  PROVE  QueueInv'
<1>1. TypeOK /\ At(n, p, "claim")
  BY DEF QueueInv, Claim
<1>2. CASE Claimable(p) = {} /\ Goto(n, p, Step(NoDrain, "ending")) /\ UNCHANGED job
  <2>1. Step(NoDrain, "ending") \in Drain /\ Step(NoDrain, "ending").at = "ending"
    BY DEF Step, NoDrain, Drain, DrainStep
  <2>2. /\ drain' \in [Node -> [Printer -> Drain]]
        /\ drain'[n][p].at = "ending"
        /\ \A m \in Node, q \in Printer : m # n \/ q # p => drain'[m][q] = drain[m][q]
    BY <1>1, <1>2, <2>1, GotoMovesOneDrain
  <2>3. TypeOK' /\ RequestsHaveNodes'
    BY <1>2, <2>2 DEF Claim, TypeOK, QueueInv, RequestsHaveNodes
  <2>4. \A m \in Node, q \in Printer : GoesOn(m, q)
    BY <2>2 DEF GoesOn, Busy, Holds, Late
  <2>5. UNCHANGED <<job, raced>>
    BY <1>2 DEF Claim
  <2> QED
    BY <2>3, <2>4, <2>5, SameRowsKeepInvariant DEF QueueInv
<1>3. CASE \E j \in Claimable(p) : TakeJob(n, p, j)
  <2>1. PICK j \in Claimable(p) : TakeJob(n, p, j)
    BY <1>3
  <2>2. j \in Job /\ PrinterOf[j] = p /\ \A k \in JobsOf(p) : job[k].status # "PROCESSING"
    BY DEF Claimable, JobsOf
  <2> DEFINE a == job[j].attempts + 1
             e == [at |-> "dispatch", job |-> j, attempts |-> a, retryable |-> FALSE]
  <2>14. MarkClaimed(j)
    BY <2>1 DEF TakeJob
  <2>15. job[j].status = "PENDING"
    BY DEF Claimable, Due
  <2>3. a \in Nat
    BY <1>1, <2>2 DEF TypeOK, JobRow
  <2>4. e \in Drain
    BY <2>2, <2>3 DEF Drain, DrainStep
  <2>5. /\ drain' \in [Node -> [Printer -> Drain]]
        /\ drain'[n][p] = e
        /\ \A m \in Node, q \in Printer : m # n \/ q # p => drain'[m][q] = drain[m][q]
    BY <1>1, <2>1, <2>4, GotoMovesOneDrain DEF TakeJob
  <2>6. /\ job' \in [Job -> JobRow]
        /\ job'[j].status = "PROCESSING" /\ job'[j].attempts = a
        /\ \A k \in Job \ {j} : job'[k] = job[k]
    BY <1>1, <2>14, <2>2, <2>3 DEF MarkClaimed, TypeOK, JobRow, JobStatus
  <2>7. TypeOK' /\ RequestsHaveNodes'
    BY <2>5, <2>6 DEF Claim, TypeOK, QueueInv, RequestsHaveNodes
  <2>8. /\ \A m \in Node, q \in Printer : m # n \/ q # p => Holds(m, q)' = Holds(m, q)
        /\ \A m \in Node, q \in Printer : Late(m, q)' => Late(m, q) /\ drain'[m][q] = drain[m][q]
    BY <2>5 DEF Holds, Late
  <2>9. DrainsHoldOwnJobs'
    BY <2>2, <2>5, <2>8 DEF QueueInv, DrainsHoldOwnJobs, JobsOf
  <2>10. raced' = raced
    BY DEF Claim
  <2>11. p \notin raced => \A m \in Node : ~Holds(m, p)
    BY <2>2 DEF QueueInv, OneDeliveryUnlessRaced, DrainsHoldOwnJobs
  <2>12. OneDeliveryUnlessRaced'
    <3> SUFFICES ASSUME NEW m \in Node, NEW q \in Printer \ raced', Holds(m, q)'
                 PROVE  /\ job'[drain'[m][q].job].status = "PROCESSING"
                        /\ job'[drain'[m][q].job].attempts = drain'[m][q].attempts
                        /\ PrinterOf[drain'[m][q].job] = q
                        /\ \A o \in Node \ {m} : ~Holds(o, q)'
      BY DEF OneDeliveryUnlessRaced
    <3>1. CASE q = p
      <4>1. m = n
        BY <2>8, <2>10, <2>11, <3>1
      <4> QED
        BY <2>2, <2>5, <2>6, <2>8, <2>10, <2>11, <3>1, <4>1
    <3>2. CASE q # p
      <4>1. drain'[m][q] = drain[m][q] /\ Holds(m, q) /\ \A o \in Node : Holds(o, q)' = Holds(o, q)
        BY <2>5, <2>8, <3>2
      <4>2. drain[m][q].job \in Job \ {j}
        BY <2>2, <3>2, <4>1 DEF QueueInv, DrainsHoldOwnJobs, JobsOf
      <4> QED
        BY <2>6, <2>10, <4>1, <4>2 DEF QueueInv, OneDeliveryUnlessRaced
    <3> QED
      BY <3>1, <3>2
  <2>13. LateDrainsFollowSuccess'
    <3> SUFFICES ASSUME NEW m \in Node, NEW q \in Printer \ raced', Late(m, q)'
                 PROVE  /\ job'[drain'[m][q].job].status = "SUCCEEDED"
                        /\ \A o \in Node \ {m} : Late(o, q)' => drain'[o][q].job # drain'[m][q].job
      BY DEF LateDrainsFollowSuccess
    <3>1. /\ Late(m, q) /\ drain'[m][q] = drain[m][q] /\ q \notin raced
          /\ drain[m][q].job \in Job /\ job[drain[m][q].job].status = "SUCCEEDED"
      BY <2>8, <2>10 DEF QueueInv, LateDrainsFollowSuccess, DrainsHoldOwnJobs, JobsOf
    <3>2. job'[drain[m][q].job].status = "SUCCEEDED"
      BY <2>6, <2>15, <3>1
    <3> QED
      BY <2>8, <3>1, <3>2 DEF QueueInv, LateDrainsFollowSuccess
  <2> QED
    BY <2>7, <2>9, <2>12, <2>13 DEF QueueInv
<1> QED
  BY <1>2, <1>3 DEF Claim

(* A step of a drain that goes on with the job it holds, or drops it, and    *)
(* touches no row.                                                           *)
LEMMA DrainStepKeepsInv ==
  ASSUME QueueInv, NEW n \in Node, NEW p \in Printer, NEW e \in Drain, Goto(n, p, e),
         e.at # "markLate",
         e.at \in {"dispatch", "markSucceeded", "markFailed"} =>
           Holds(n, p) /\ e.job = drain[n][p].job /\ e.attempts = drain[n][p].attempts,
         UNCHANGED <<job, up, request, raced>>,
         recheck' \in [Node -> [Printer -> BOOLEAN]]
  PROVE  QueueInv'
<1>1. /\ drain' \in [Node -> [Printer -> Drain]]
      /\ drain'[n][p] = e
      /\ \A m \in Node, q \in Printer : m # n \/ q # p => drain'[m][q] = drain[m][q]
  BY GotoMovesOneDrain DEF QueueInv
<1>2. TypeOK' /\ RequestsHaveNodes'
  BY <1>1 DEF QueueInv, TypeOK, RequestsHaveNodes
<1>3. \A m \in Node, q \in Printer : GoesOn(m, q)
  BY <1>1 DEF GoesOn, Busy, Holds, Late
<1> QED
  BY <1>2, <1>3, SameRowsKeepInvariant DEF QueueInv

(* A result: the drain that was busy with p's job writes its row and lets go *)
(* of it.                                                                    *)
LEMMA ResultKeepsInv ==
  ASSUME QueueInv, NEW n \in Node, NEW p \in Printer, Busy(n, p),
         NEW e \in Drain, e.at \in {"claim", "ending"}, Goto(n, p, e),
         NEW row \in JobRow, job' = [job EXCEPT ![drain[n][p].job] = row],
         UNCHANGED <<recheck, up, request, raced>>
  PROVE  QueueInv'
<1>1. PICK j \in JobsOf(p) : j = drain[n][p].job
  BY DEF QueueInv, DrainsHoldOwnJobs, Busy
<1>2. j \in Job /\ PrinterOf[j] = p
  BY DEF JobsOf
<1>3. /\ drain' \in [Node -> [Printer -> Drain]]
      /\ drain'[n][p] = e
      /\ \A m \in Node, q \in Printer : m # n \/ q # p => drain'[m][q] = drain[m][q]
  BY GotoMovesOneDrain DEF QueueInv
<1>4. /\ job' \in [Job -> JobRow]
      /\ \A k \in Job \ {j} : job'[k] = job[k]
  BY <1>1, <1>2 DEF QueueInv, TypeOK
<1>5. TypeOK' /\ RequestsHaveNodes'
  BY <1>3, <1>4 DEF QueueInv, TypeOK, RequestsHaveNodes
<1>6. \A m \in Node, q \in Printer : GoesOn(m, q)
  BY <1>3 DEF GoesOn, Busy, Holds, Late
<1>7. p \in raced' \/ \A m \in Node : Busy(m, p)' => drain'[m][p].job # j
  <2> SUFFICES ASSUME p \notin raced, NEW m \in Node, Busy(m, p)', drain'[m][p].job = j PROVE FALSE
    OBVIOUS
  <2>1. m # n
    BY <1>3 DEF Busy, Holds, Late
  <2>2. Busy(m, p) /\ drain[m][p].job = j
    BY <1>6 DEF GoesOn, Busy
  <2>3. /\ Holds(m, p) \/ Holds(n, p) => job[j].status = "PROCESSING"
        /\ Late(m, p) \/ Late(n, p) => job[j].status = "SUCCEEDED"
    BY <1>1, <2>2 DEF QueueInv, OneDeliveryUnlessRaced, LateDrainsFollowSuccess
  <2>4. ~(Holds(m, p) /\ Holds(n, p)) /\ ~(Late(m, p) /\ Late(n, p))
    BY <1>1, <2>1, <2>2 DEF QueueInv, OneDeliveryUnlessRaced, LateDrainsFollowSuccess
  <2> QED
    BY <2>2, <2>3, <2>4 DEF Busy
<1>8. PrinterOf[j] \in raced' \/
        \A m \in Node : Busy(m, PrinterOf[j])' => drain'[m][PrinterOf[j]].job # j
  BY <1>7, <1>2
<1>9. raced \subseteq raced'
  OBVIOUS
<1> QED
  BY <1>2, <1>4, <1>5, <1>6, <1>8, <1>9, OtherRowsKeepInvariant DEF QueueInv

(* A success that is recorded although its answer is lost: its drain was the  *)
(* one that delivered the job.                                               *)
LEMMA LostAnswerKeepsInv ==
  ASSUME QueueInv, NEW n \in Node, NEW p \in Printer, Holds(n, p),
         NEW e \in Drain, e.at = "markLate", e.job = drain[n][p].job, Goto(n, p, e),
         RecordSuccess(drain[n][p]), UNCHANGED <<recheck, up, request, raced>>
  PROVE  QueueInv'
<1>1. PICK j \in JobsOf(p) : j = drain[n][p].job
  BY DEF QueueInv, DrainsHoldOwnJobs
<1>2. j \in Job /\ PrinterOf[j] = p
  BY DEF JobsOf
<1>3. /\ drain' \in [Node -> [Printer -> Drain]]
      /\ drain'[n][p] = e
      /\ \A m \in Node, q \in Printer : m # n \/ q # p => drain'[m][q] = drain[m][q]
  BY GotoMovesOneDrain DEF QueueInv
<1>4. /\ job' \in [Job -> JobRow] /\ job'[j].status = "SUCCEEDED"
      /\ \A k \in Job \ {j} : job'[k] = job[k]
  BY <1>1, <1>2 DEF QueueInv, TypeOK, RecordSuccess, JobRow, JobStatus
<1>5. TypeOK' /\ RequestsHaveNodes'
  BY <1>3, <1>4 DEF QueueInv, TypeOK, RequestsHaveNodes
<1>6. /\ ~Holds(n, p)' /\ Late(n, p)'
      /\ \A m \in Node, q \in Printer : m # n \/ q # p =>
           Holds(m, q)' = Holds(m, q) /\ Late(m, q)' = Late(m, q)
  BY <1>3 DEF Holds, Late
<1>7. DrainsHoldOwnJobs'
  BY <1>1, <1>3, <1>6 DEF QueueInv, DrainsHoldOwnJobs
<1>8. p \notin raced => \A m \in Node \ {n} :
        ~Holds(m, p) /\ (Late(m, p) => drain[m][p].job # j)
  BY <1>1 DEF QueueInv, OneDeliveryUnlessRaced, LateDrainsFollowSuccess
<1>9. ASSUME NEW m \in Node, NEW q \in Printer \ raced, m # n \/ q # p, Busy(m, q)
      PROVE  drain[m][q].job \in Job \ {j}
  <2>1. drain[m][q].job \in JobsOf(q)
    BY <1>9 DEF QueueInv, DrainsHoldOwnJobs, Busy
  <2> QED
    BY <1>2, <1>8, <1>9, <2>1 DEF JobsOf, Busy
<1>10. OneDeliveryUnlessRaced'
  <2> SUFFICES ASSUME NEW m \in Node, NEW q \in Printer \ raced, Holds(m, q)'
               PROVE  /\ job'[drain'[m][q].job].status = "PROCESSING"
                      /\ job'[drain'[m][q].job].attempts = drain'[m][q].attempts
                      /\ PrinterOf[drain'[m][q].job] = q
                      /\ \A o \in Node \ {m} : ~Holds(o, q)'
    BY DEF OneDeliveryUnlessRaced
  <2>1. (m # n \/ q # p) /\ Holds(m, q) /\ drain'[m][q] = drain[m][q]
    BY <1>3, <1>6
  <2>2. job'[drain[m][q].job] = job[drain[m][q].job]
    BY <1>4, <1>9, <2>1 DEF Busy
  <2> QED
    BY <1>6, <2>1, <2>2 DEF QueueInv, OneDeliveryUnlessRaced
<1>11. LateDrainsFollowSuccess'
  <2> SUFFICES ASSUME NEW m \in Node, NEW q \in Printer \ raced, Late(m, q)'
               PROVE  /\ job'[drain'[m][q].job].status = "SUCCEEDED"
                      /\ \A o \in Node \ {m} : Late(o, q)' => drain'[o][q].job # drain'[m][q].job
    BY DEF LateDrainsFollowSuccess
  <2>1. CASE m = n /\ q = p
    BY <1>1, <1>3, <1>4, <1>6, <1>8, <2>1
  <2>2. CASE m # n \/ q # p
    <3>1. Late(m, q) /\ drain'[m][q] = drain[m][q] /\ drain[m][q].job \in Job \ {j}
      BY <1>3, <1>6, <1>9, <2>2 DEF Busy
    <3>2. job'[drain'[m][q].job].status = "SUCCEEDED"
      BY <1>4, <3>1 DEF QueueInv, LateDrainsFollowSuccess
    <3>3. ASSUME NEW o \in Node \ {m}, Late(o, q)' PROVE drain'[o][q].job # drain'[m][q].job
      <4>1. CASE o = n /\ q = p
        BY <1>1, <1>3, <3>1, <4>1
      <4>2. CASE o # n \/ q # p
        BY <1>3, <1>6, <3>1, <3>3, <4>2 DEF QueueInv, LateDrainsFollowSuccess
      <4> QED
        BY <4>1, <4>2
    <3> QED
      BY <3>2, <3>3
  <2> QED
    BY <2>1, <2>2
<1> QED
  BY <1>5, <1>7, <1>10, <1>11 DEF QueueInv

LEMMA FailureRecordedKeepsInv ==
  ASSUME QueueInv, NEW n \in Node, NEW p \in Printer, Busy(n, p),
         NEW e \in Drain, e.at \in {"claim", "ending"}, Goto(n, p, e),
         RecordFailure(drain[n][p]), UNCHANGED <<recheck, up, request, raced>>
  PROVE  QueueInv'
<1> DEFINE d == drain[n][p]
           row == [job[d.job] EXCEPT
                     !.status = IF CanRetryAutomatically(d) THEN "PENDING" ELSE "FAILED",
                     !.due = FALSE]
<1>1. d.job \in Job /\ job \in [Job -> JobRow]
  BY DEF QueueInv, TypeOK, DrainsHoldOwnJobs, JobsOf, Busy
<1>2. row \in JobRow
  BY <1>1 DEF JobRow, JobStatus
<1>3. job' = [job EXCEPT ![d.job] = row]
  BY <1>1 DEF RecordFailure, JobRow
<1> HIDE DEF row
<1> QED
  BY <1>2, <1>3, ResultKeepsInv

LEMMA DeliveryKeepsInv ==
  ASSUME QueueInv, NEW n \in Node, NEW p \in Printer,
         \/ DispatchReturns(n, p)
         \/ \E retryable, hasPrinted \in BOOLEAN : DispatchThrows(n, p, retryable, hasPrinted)
         \/ MarkSucceeded(n, p) \/ MarkFailed(n, p)
         \/ EndDrain(n, p)
  PROVE  QueueInv'
<1> DEFINE d == drain[n][p]
<1>1. d \in Drain /\ job \in [Job -> JobRow] /\ recheck \in [Node -> [Printer -> BOOLEAN]]
  BY DEF QueueInv, TypeOK
<1>2. Busy(n, p) => d.job \in Job
  BY DEF QueueInv, DrainsHoldOwnJobs, JobsOf, Busy
<1>7. NewDrain \in Drain /\ NewDrain.at = "claim"
  BY DEF NewDrain, NoDrain, Drain, DrainStep
<1>3. CASE DispatchReturns(n, p)
  <2>1. Step(d, "markSucceeded") \in Drain /\ Step(d, "markSucceeded").job = d.job
                                        /\ Step(d, "markSucceeded").attempts = d.attempts
                                        /\ Step(d, "markSucceeded").at = "markSucceeded"
    BY <1>1 DEF Step, Drain, DrainStep
  <2>2. Holds(n, p) /\ Goto(n, p, Step(d, "markSucceeded"))
    BY <1>3 DEF DispatchReturns, Holds, At
  <2>3. UNCHANGED <<job, up, request, raced, recheck>>
    BY <1>3 DEF DispatchReturns
  <2> QED
    BY <1>1, <2>1, <2>2, <2>3, DrainStepKeepsInv
<1>4. ASSUME NEW retryable \in BOOLEAN, NEW hasPrinted \in BOOLEAN,
             DispatchThrows(n, p, retryable, hasPrinted)
      PROVE  QueueInv'
  <2> DEFINE e == [d EXCEPT !.at = "markFailed", !.retryable = retryable]
  <2>1. e \in Drain /\ e.job = d.job /\ e.attempts = d.attempts /\ e.at = "markFailed"
    BY <1>1 DEF Drain, DrainStep
  <2>2. Holds(n, p) /\ Goto(n, p, e)
    BY <1>4 DEF DispatchThrows, Holds, At
  <2>3. UNCHANGED <<job, up, request, raced, recheck>>
    BY <1>4 DEF DispatchThrows
  <2> HIDE DEF e
  <2> QED
    BY <1>1, <2>1, <2>2, <2>3, DrainStepKeepsInv
<1>5. CASE MarkSucceeded(n, p)
  <2> DEFINE row == [job[d.job] EXCEPT !.status = "SUCCEEDED", !.due = FALSE]
  <2>1. Busy(n, p)
    BY <1>5 DEF MarkSucceeded, Busy, Holds, At
  <2>2. row \in JobRow
    BY <1>1, <1>2, <2>1 DEF JobRow, JobStatus
  <2>3. job' = [job EXCEPT ![d.job] = row]
    BY <1>5, <1>1, <1>2, <2>1 DEF MarkSucceeded, RecordSuccess, JobRow
  <2>4. UNCHANGED <<recheck, up, request, raced>> /\ Goto(n, p, NewDrain)
    BY <1>5 DEF MarkSucceeded
  <2> HIDE DEF row
  <2> QED
    BY <1>7, <2>1, <2>2, <2>3, <2>4, ResultKeepsInv
<1>6. CASE MarkFailed(n, p)
  <2>1. Busy(n, p) /\ RecordFailure(d) /\ Goto(n, p, NewDrain)
    BY <1>6 DEF MarkFailed, Busy, Holds, Late, At
  <2>2. UNCHANGED <<recheck, up, request, raced>>
    BY <1>6 DEF MarkFailed
  <2> QED
    BY <1>7, <2>1, <2>2, FailureRecordedKeepsInv
<1>8. CASE EndDrain(n, p)
  <2>1. NoDrain \in Drain /\ NoDrain.at = "none"
    BY DEF NoDrain, Drain, DrainStep
  <2>2. UNCHANGED <<job, up, request, raced>> /\ Goto(n, p, NoDrain)
    BY <1>8 DEF EndDrain
  <2>3. recheck' \in [Node -> [Printer -> BOOLEAN]]
    BY <1>1, <1>8 DEF EndDrain
  <2> QED
    BY <2>1, <2>2, <2>3, DrainStepKeepsInv
<1> QED
  BY <1>3, <1>4, <1>5, <1>6, <1>8

LEMMA StatementFailsKeepsInv ==
  ASSUME QueueInv, NEW n \in Node, NEW p \in Printer, StatementFails(n, p)
  PROVE  QueueInv'
<1> DEFINE d == drain[n][p]
           last == Step(NoDrain, "ending")
<1>1. /\ d \in Drain /\ job \in [Job -> JobRow] /\ drain \in [Node -> [Printer -> Drain]]
      /\ recheck \in [Node -> [Printer -> BOOLEAN]]
      /\ UNCHANGED <<recheck, up, request, raced>>
  BY DEF QueueInv, TypeOK, StatementFails
<1>2. last \in Drain /\ last.at = "ending"
  BY DEF Step, NoDrain, Drain, DrainStep
<1>3. ASSUME Goto(n, p, last), UNCHANGED job
      PROVE  QueueInv'
  BY <1>1, <1>2, <1>3, DrainStepKeepsInv
<1>4. CASE SuccessFails(n, p)
  <2>1. Holds(n, p) /\ d.job \in Job
    BY <1>4 DEF SuccessFails, At, Holds, QueueInv, DrainsHoldOwnJobs, JobsOf
  <2>2. ASSUME NEW retryable \in BOOLEAN, UNCHANGED job,
               Goto(n, p, [d EXCEPT !.at = "markFailed", !.retryable = retryable])
        PROVE  QueueInv'
    <3> DEFINE e == [d EXCEPT !.at = "markFailed", !.retryable = retryable]
    <3>1. e \in Drain /\ e.job = d.job /\ e.attempts = d.attempts /\ e.at = "markFailed"
      BY <1>1 DEF Drain, DrainStep
    <3>2. Goto(n, p, e)
      BY <2>2
    <3> HIDE DEF e
    <3> QED
      BY <1>1, <2>1, <2>2, <3>1, <3>2, DrainStepKeepsInv
  <2>3. ASSUME NEW retryable \in BOOLEAN, RecordSuccess(d),
               Goto(n, p, [d EXCEPT !.at = "markLate", !.retryable = retryable])
        PROVE  QueueInv'
    <3> DEFINE e == [d EXCEPT !.at = "markLate", !.retryable = retryable]
    <3>1. e \in Drain /\ e.job = d.job /\ e.at = "markLate"
      BY <1>1 DEF Drain, DrainStep
    <3>2. Goto(n, p, e)
      BY <2>3
    <3> HIDE DEF e
    <3> QED
      BY <1>1, <2>1, <2>3, <3>1, <3>2, LostAnswerKeepsInv
  <2> QED
    BY <1>4, <2>2, <2>3 DEF SuccessFails
<1>5. CASE FailureFails(n, p)
  <2>1. Busy(n, p) /\ Goto(n, p, last)
    BY <1>5 DEF FailureFails, At, Busy, Holds, Late
  <2>2. CASE UNCHANGED job
    BY <1>3, <2>1, <2>2
  <2>3. CASE RecordFailure(d)
    BY <1>1, <1>2, <2>1, <2>3, FailureRecordedKeepsInv
  <2> QED
    BY <1>5, <2>2, <2>3 DEF FailureFails
<1>6. CASE ClaimFails(n, p)
  <2>1. At(n, p, "claim") /\ Goto(n, p, last)
    BY <1>6 DEF ClaimFails
  <2>2. CASE UNCHANGED job
    BY <1>3, <2>1, <2>2
  <2>3. ASSUME NEW j \in Claimable(p), MarkClaimed(j)
        PROVE  QueueInv'
    <3>1. j \in Job /\ PrinterOf[j] = p /\ job[j].status = "PENDING"
      BY DEF Claimable, JobsOf, Due
    <3>2. /\ job' \in [Job -> JobRow]
          /\ \A k \in Job \ {j} : job'[k] = job[k]
      BY <1>1, <2>3, <3>1 DEF MarkClaimed, JobRow, JobStatus
    <3>3. /\ drain' \in [Node -> [Printer -> Drain]]
          /\ drain'[n][p] = last
          /\ \A m \in Node, q \in Printer : m # n \/ q # p => drain'[m][q] = drain[m][q]
      BY <1>2, <2>1, GotoMovesOneDrain DEF QueueInv
    <3>4. \A m \in Node, q \in Printer : GoesOn(m, q)
      BY <1>2, <3>3 DEF GoesOn, Busy, Holds, Late
    <3>5. TypeOK' /\ RequestsHaveNodes'
      BY <1>1, <3>2, <3>3 DEF QueueInv, TypeOK, RequestsHaveNodes
    <3>6. PrinterOf[j] \notin raced => \A m \in Node :
            Busy(m, PrinterOf[j]) => drain[m][PrinterOf[j]].job # j
      BY <3>1, QueuedIsNobodys
    <3>7. PrinterOf[j] \in raced' \/
            \A m \in Node : Busy(m, PrinterOf[j])' => drain'[m][PrinterOf[j]].job # j
      BY <1>1, <3>1, <3>4, <3>6 DEF GoesOn, Busy
    <3>8. raced \subseteq raced'
      BY <1>1
    <3> QED
      BY <3>1, <3>2, <3>4, <3>5, <3>7, <3>8, OtherRowsKeepInvariant DEF QueueInv
  <2> QED
    BY <1>6, <2>2, <2>3 DEF ClaimFails
<1> QED
  BY <1>4, <1>5, <1>6 DEF StatementFails

(* The recheck, the sweep and a start only start drains.                     *)
LEMMA EnsureDrainKeepsInv ==
  ASSUME QueueInv, NEW n \in Node, NEW P, EnsureDrain(n, P),
         UNCHANGED <<job, request, raced>>,
         up' \in [Node -> BOOLEAN], recheck' \in [Node -> [Printer -> BOOLEAN]]
  PROVE  QueueInv'
<1>1. /\ drain' \in [Node -> [Printer -> Drain]]
      /\ \A m \in Node, p \in Printer :
           /\ Holds(m, p)' = Holds(m, p) /\ Late(m, p)' = Late(m, p)
           /\ Holds(m, p) \/ Late(m, p) => drain'[m][p] = drain[m][p]
  BY EnsureDrainKeepsDeliveries DEF QueueInv
<1>2. TypeOK' /\ RequestsHaveNodes'
  BY <1>1 DEF QueueInv, TypeOK, RequestsHaveNodes
<1>3. \A m \in Node, p \in Printer : GoesOn(m, p)
  BY <1>1 DEF GoesOn, Busy
<1> QED
  BY <1>2, <1>3, SameRowsKeepInvariant DEF QueueInv

LEMMA CommitRetryKeepsInv ==
  ASSUME QueueInv, NEW u \in Staff, CommitRetry(u)
  PROVE  QueueInv'
<1>1. TypeOK
  BY DEF QueueInv
<1>2. PICK j \in Job, n \in Node : j = request[u].job /\ n = request[u].node
  BY <1>1 DEF CommitRetry, QueueInv, TypeOK, Request, RequestsHaveNodes
<1>11. PrinterOf[j] \in Printer
  BY PrinterAssumption
<1>3. EnsureDrain(n, {PrinterOf[j]})
  BY <1>2 DEF CommitRetry
<1>4. /\ drain' \in [Node -> [Printer -> Drain]]
      /\ \A m \in Node, p \in Printer :
           /\ Holds(m, p)' = Holds(m, p) /\ Late(m, p)' = Late(m, p)
           /\ Holds(m, p) \/ Late(m, p) => drain'[m][p] = drain[m][p]
  BY <1>1, <1>2, <1>3, EnsureDrainKeepsDeliveries
<1>5. QueuedRow \in JobRow /\ NoRequest \in Request /\ NoRequest.job = None
  BY DEF QueuedRow, JobRow, JobStatus, NoRequest, Request
<1>6. /\ job' \in [Job -> JobRow]
      /\ \A k \in Job \ {j} : job'[k] = job[k]
  BY <1>1, <1>2, <1>5 DEF CommitRetry, TypeOK
<1>7. raced' \in SUBSET Printer /\ raced \subseteq raced'
      /\ (PrinterOf[j] \in raced' \/ job[j].status = "FAILED")
  BY <1>1, <1>2, <1>11 DEF CommitRetry, TypeOK
<1>8. TypeOK' /\ RequestsHaveNodes'
  <2>1. request' = [request EXCEPT ![u] = NoRequest] /\ UNCHANGED <<recheck, up>>
    BY DEF CommitRetry
  <2> QED
    BY <1>4, <1>5, <1>6, <1>7, <2>1 DEF TypeOK, QueueInv, RequestsHaveNodes
<1>9. PrinterOf[j] \in raced' \/
        \A m \in Node : Busy(m, PrinterOf[j])' => drain'[m][PrinterOf[j]].job # j
  BY <1>11, <1>4, <1>7, QueuedIsNobodys DEF Busy
<1>10. \A m \in Node, p \in Printer : GoesOn(m, p)
  BY <1>4 DEF GoesOn, Busy
<1> QED
  BY <1>2, <1>6, <1>7, <1>8, <1>9, <1>10, OtherRowsKeepInvariant DEF QueueInv

LEMMA CrashKeepsInv ==
  ASSUME QueueInv, NEW n \in Node, Crash(n)
  PROVE  QueueInv'
<1>1. NoDrain \in Drain /\ NoRequest \in Request /\ NoRequest.job = None
  BY DEF NoDrain, Drain, DrainStep, NoRequest, Request
<1>2. /\ drain' \in [Node -> [Printer -> Drain]]
      /\ \A m \in Node, p \in Printer : GoesOn(m, p)
  <2>1. /\ drain' \in [Node -> [Printer -> Drain]]
        /\ drain'[n] = [p \in Printer |-> NoDrain]
        /\ \A m \in Node \ {n} : drain'[m] = drain[m]
    BY <1>1 DEF Crash, QueueInv, TypeOK
  <2>2. \A p \in Printer : ~Busy(n, p)'
    BY <2>1 DEF Busy, Holds, Late, NoDrain
  <2>4. \A p \in Printer : GoesOn(n, p)
    BY <2>2 DEF GoesOn, Busy
  <2>3. \A m \in Node \ {n}, p \in Printer : GoesOn(m, p)
    BY <2>1 DEF GoesOn, Busy, Holds, Late
  <2> QED
    BY <2>1, <2>3, <2>4
<1>3. /\ recheck' \in [Node -> [Printer -> BOOLEAN]] /\ up' \in [Node -> BOOLEAN]
      /\ request' \in [Staff -> Request]
      /\ UNCHANGED <<job, raced>>
  BY <1>1 DEF Crash, QueueInv, TypeOK
<1>4. RequestsHaveNodes'
  BY <1>1 DEF Crash, QueueInv, TypeOK, RequestsHaveNodes
<1>5. TypeOK'
  BY <1>2, <1>3 DEF QueueInv, TypeOK
<1> QED
  BY <1>2, <1>3, <1>4, <1>5, SameRowsKeepInvariant DEF QueueInv

LEMMA BecomesDueKeepsInv ==
  ASSUME QueueInv, NEW j \in Job, BecomesDue(j)
  PROVE  QueueInv'
<1>1. /\ job' \in [Job -> JobRow]
      /\ \A k \in Job : job'[k].status = job[k].status /\ job'[k].attempts = job[k].attempts
  BY DEF BecomesDue, QueueInv, TypeOK, JobRow
<1>2. UNCHANGED <<drain, recheck, up, request, raced>>
  BY DEF BecomesDue
<1>3. TypeOK' /\ RequestsHaveNodes' /\ DrainsHoldOwnJobs'
  BY <1>1, <1>2 DEF QueueInv, TypeOK, RequestsHaveNodes, DrainsHoldOwnJobs, Holds, Late
<1>4. \A m \in Node, p \in Printer : /\ Holds(m, p)' = Holds(m, p) /\ Late(m, p)' = Late(m, p)
                                    /\ (Holds(m, p) \/ Late(m, p) => drain[m][p].job \in Job)
  BY <1>2 DEF Holds, Late, QueueInv, DrainsHoldOwnJobs, JobsOf
<1>5. OneDeliveryUnlessRaced'
  BY <1>1, <1>2, <1>4 DEF QueueInv, OneDeliveryUnlessRaced
<1>6. LateDrainsFollowSuccess'
  BY <1>1, <1>2, <1>4 DEF QueueInv, LateDrainsFollowSuccess
<1> QED
  BY <1>3, <1>5, <1>6 DEF QueueInv

LEMMA BeginRetryKeepsInv ==
  ASSUME QueueInv, NEW u \in Staff, NEW n \in Node, NEW j \in Job, BeginRetry(u, n, j)
  PROVE  QueueInv'
<1>1. /\ request' = [request EXCEPT ![u] = [job |-> j, node |-> n]]
      /\ UNCHANGED <<job, drain, recheck, up, raced>>
  BY DEF BeginRetry
<1>2. [job |-> j, node |-> n] \in Request
  BY DEF Request
<1>3. TypeOK' /\ RequestsHaveNodes'
  BY <1>1, <1>2 DEF QueueInv, TypeOK, RequestsHaveNodes
<1>4. DrainsHoldOwnJobs' /\ OneDeliveryUnlessRaced' /\ LateDrainsFollowSuccess'
  BY <1>1 DEF QueueInv, DrainsHoldOwnJobs, OneDeliveryUnlessRaced, LateDrainsFollowSuccess,
              Holds, Late
<1> QED
  BY <1>3, <1>4 DEF QueueInv

-----------------------------------------------------------------------------
LEMMA NextKeepsQueueInv == QueueInv /\ [Next]_vars => QueueInv'
<1> SUFFICES ASSUME QueueInv, [Next]_vars PROVE QueueInv'
  OBVIOUS
<1>1. ASSUME NEW n \in Node, NEW p \in Printer, DrainNext(n, p) \/ StatementFails(n, p)
      PROVE  QueueInv'
  BY <1>1, ClaimKeepsInv, DeliveryKeepsInv, StatementFailsKeepsInv DEF DrainNext
<1>2. ASSUME NEW n \in Node, NEW p \in Printer, Recheck(n, p)
      PROVE  QueueInv'
  <2>1. PICK P : EnsureDrain(n, P)
    BY <1>2 DEF Recheck
  <2>2. UNCHANGED <<job, request, raced>>
    BY <1>2 DEF Recheck
  <2>3. up' \in [Node -> BOOLEAN] /\ recheck' \in [Node -> [Printer -> BOOLEAN]]
    BY <1>2 DEF Recheck, QueueInv, TypeOK
  <2> QED
    BY <2>1, <2>2, <2>3, EnsureDrainKeepsInv
<1>3. ASSUME NEW n \in Node, Sweep(n) \/ Restart(n)
      PROVE  QueueInv'
  <2>1. PICK P : EnsureDrain(n, P)
    BY <1>3 DEF Sweep, Restart
  <2>2. UNCHANGED <<job, request, raced>>
    BY <1>3 DEF Sweep, Restart
  <2>3. up' \in [Node -> BOOLEAN] /\ recheck' \in [Node -> [Printer -> BOOLEAN]]
    BY <1>3 DEF Sweep, Restart, QueueInv, TypeOK
  <2> QED
    BY <2>1, <2>2, <2>3, EnsureDrainKeepsInv
<1>4. CASE UNCHANGED vars
  BY <1>4 DEF vars, QueueInv, TypeOK, DrainsHoldOwnJobs, RequestsHaveNodes,
              OneDeliveryUnlessRaced, LateDrainsFollowSuccess, Holds, Late
<1> QED
  BY <1>1, <1>2, <1>3, <1>4, EnqueueKeepsInv, BecomesDueKeepsInv, BeginRetryKeepsInv,
     CommitRetryKeepsInv, CrashKeepsInv DEF Next

(* The invariant of every behaviour: a drain delivers jobs of its printer.    *)
THEOREM QueueInvariance == Spec => []QueueInv
<1>1. Init => QueueInv
  BY InitEstablishesQueueInv
<1>2. QueueInv /\ [Next]_vars => QueueInv'
  BY NextKeepsQueueInv
<1> QED
  BY <1>1, <1>2, PTL DEF Spec

(* claimNextEligiblePrintJobForPrinter and the drains: no two processes       *)
(* deliver to one printer until two retries of one of its jobs overlap.       *)
THEOREM OneDelivery == Spec => []OneDeliveryUnlessRaced
<1>1. QueueInv => OneDeliveryUnlessRaced
  BY DEF QueueInv
<1> QED
  BY <1>1, QueueInvariance, PTL

-----------------------------------------------------------------------------
(* The refinement. A step whose rows keep their statuses and whose drains     *)
(* keep their jobs changes no phase.                                         *)
Phases == [j \in Job |-> Phase(j)]

LEMMA SameRowsSamePhases ==
  ASSUME UNCHANGED raced, \A j \in Job : job'[j].status = job[j].status,
         \A j \in Job : PrinterOf[j] \notin raced =>
           (HeldBy(j)' = {} <=> HeldBy(j) = {}) /\ (LateOn(j)' = {} <=> LateOn(j) = {})
  PROVE  UNCHANGED Phases
<1>1. \A j \in Job : Phase(j)' = Phase(j)
  BY DEF Phase
<1> QED
  BY <1>1 DEF Phases

(* A step that changes one row and leaves the holders of the others alone.    *)
LEMMA OneRowOnePhase ==
  ASSUME NEW j \in Job, UNCHANGED raced, \A k \in Job \ {j} : job'[k] = job[k],
         \A k \in Job \ {j} : HeldBy(k)' = HeldBy(k) /\ LateOn(k)' = LateOn(k)
  PROVE  \A k \in Job \ {j} : Phase(k)' = Phase(k)
  BY DEF Phase

LEMMA EnsureDrainKeepsHolders ==
  ASSUME QueueInv, NEW n \in Node, NEW P, EnsureDrain(n, P)
  PROVE  \A j \in Job : HeldBy(j)' = HeldBy(j) /\ LateOn(j)' = LateOn(j)
<1>1. \A m \in Node, p \in Printer :
        /\ Holds(m, p)' = Holds(m, p) /\ Late(m, p)' = Late(m, p)
        /\ Holds(m, p) \/ Late(m, p) => drain'[m][p] = drain[m][p]
  BY EnsureDrainKeepsDeliveries DEF QueueInv
<1>2. ASSUME NEW j \in Job PROVE HeldBy(j)' = HeldBy(j)
  BY <1>1, PrinterAssumption DEF HeldBy
<1>3. ASSUME NEW j \in Job PROVE LateOn(j)' = LateOn(j)
  BY <1>1, PrinterAssumption DEF LateOn
<1> QED
  BY <1>2, <1>3

LEMMA OneMove ==
  ASSUME NEW j \in Job, NEW from, NEW to, Phase(j) \in from, Phase(j)' = to,
         \A k \in Job \ {j} : Phase(k)' = Phase(k)
  PROVE  Spool!Move(j, from, to)
<1>1. [k \in Job |-> Phase(k)]' = [[k \in Job |-> Phase(k)] EXCEPT ![j] = to]
  OBVIOUS
<1> QED
  BY <1>1 DEF Spool!Move

LEMMA HolderIsOnly ==
  ASSUME QueueInv, NEW n \in Node, NEW p \in Printer \ raced, Holds(n, p)
  PROVE  /\ drain[n][p].job \in JobsOf(p)
         /\ HeldBy(drain[n][p].job) = {n}
         /\ job[drain[n][p].job].status = "PROCESSING"
         /\ Phase(drain[n][p].job) = "active"
<1>1. drain[n][p].job \in Job /\ PrinterOf[drain[n][p].job] = p
  BY DEF QueueInv, DrainsHoldOwnJobs, JobsOf
<1>2. job[drain[n][p].job].status = "PROCESSING" /\ \A q \in Node \ {n} : ~Holds(q, p)
  BY DEF QueueInv, OneDeliveryUnlessRaced
<1>3. HeldBy(drain[n][p].job) = {n}
  BY <1>1, <1>2 DEF HeldBy
<1> QED
  BY <1>1, <1>2, <1>3 DEF Phase, JobsOf

LEMMA LateIsOnly ==
  ASSUME QueueInv, NEW n \in Node, NEW p \in Printer \ raced, Late(n, p)
  PROVE  LateOn(drain[n][p].job) = {n} /\ Phase(drain[n][p].job) = "unsure"
<1>1. drain[n][p].job \in Job /\ PrinterOf[drain[n][p].job] = p
  BY DEF QueueInv, DrainsHoldOwnJobs, JobsOf
<1>2. /\ job[drain[n][p].job].status = "SUCCEEDED"
      /\ \A q \in Node \ {n} : Late(q, p) => drain[q][p].job # drain[n][p].job
  BY DEF QueueInv, LateDrainsFollowSuccess
<1>3. LateOn(drain[n][p].job) = {n}
  BY <1>1, <1>2 DEF LateOn
<1> QED
  BY <1>1, <1>2, <1>3 DEF Phase

(* What a move of the drain n, p to e does to those busy with a job.          *)
LEMMA GotoMovesHolder ==
  ASSUME QueueInv, NEW n \in Node, NEW p \in Printer, NEW e \in Drain, Goto(n, p, e),
         NEW k \in Job
  PROVE  /\ HeldBy(k)' \ {n} = HeldBy(k) \ {n} /\ LateOn(k)' \ {n} = LateOn(k) \ {n}
         /\ PrinterOf[k] # p => HeldBy(k)' = HeldBy(k) /\ LateOn(k)' = LateOn(k)
         /\ PrinterOf[k] = p =>
              /\ n \in HeldBy(k)' <=> /\ e.at \in {"dispatch", "markSucceeded", "markFailed"}
                                     /\ e.job = k
              /\ n \in LateOn(k)' <=> e.at = "markLate" /\ e.job = k
<1>1. /\ drain'[n][p] = e
      /\ \A m \in Node, q \in Printer : m # n \/ q # p => drain'[m][q] = drain[m][q]
  BY GotoMovesOneDrain DEF QueueInv
<1>2. PrinterOf[k] \in Printer
  BY PrinterAssumption
<1>3. \A m \in Node : m # n \/ PrinterOf[k] # p =>
         drain'[m][PrinterOf[k]] = drain[m][PrinterOf[k]]
  BY <1>1, <1>2
<1>4. \A m \in Node : m # n \/ PrinterOf[k] # p =>
         (m \in HeldBy(k)' <=> m \in HeldBy(k)) /\ (m \in LateOn(k)' <=> m \in LateOn(k))
  BY <1>3 DEF HeldBy, LateOn, Holds, Late
<1>5. HeldBy(k) \subseteq Node /\ LateOn(k) \subseteq Node
      /\ HeldBy(k)' \subseteq Node /\ LateOn(k)' \subseteq Node
  BY DEF HeldBy, LateOn
<1>6. PrinterOf[k] = p =>
        /\ n \in HeldBy(k)' <=> /\ e.at \in {"dispatch", "markSucceeded", "markFailed"}
                               /\ e.job = k
        /\ n \in LateOn(k)' <=> e.at = "markLate" /\ e.job = k
  BY <1>1 DEF HeldBy, LateOn, Holds, Late
<1>7. PrinterOf[k] # p => HeldBy(k)' = HeldBy(k) /\ LateOn(k)' = LateOn(k)
  BY <1>4, <1>5
<1>8. HeldBy(k)' \ {n} = HeldBy(k) \ {n} /\ LateOn(k)' \ {n} = LateOn(k) \ {n}
  BY <1>4, <1>5
<1> QED
  BY <1>6, <1>7, <1>8

LEMMA EnqueueIsSubmit ==
  ASSUME QueueInv, NEW n \in Node, NEW j \in Job, Enqueue(n, j)
  PROVE  Spool!SpoolMove \/ UNCHANGED Phases
<1>1. UNCHANGED raced /\ job[j].status = "NONE"
      /\ job'[j].status = "PENDING" /\ \A k \in Job \ {j} : job'[k] = job[k]
  BY DEF Enqueue, QueueInv, TypeOK, QueuedRow
<1>2. \A k \in Job : HeldBy(k)' = HeldBy(k) /\ LateOn(k)' = LateOn(k)
  BY EnsureDrainKeepsHolders DEF Enqueue
<1>3. \A k \in Job \ {j} : Phase(k)' = Phase(k)
  BY <1>1, <1>2, OneRowOnePhase
<1>4. CASE PrinterOf[j] \in raced
  <2>1. Phase(j)' = Phase(j)
    BY <1>1, <1>4 DEF Phase
  <2> QED
    BY <1>3, <2>1 DEF Phases
<1>5. CASE PrinterOf[j] \notin raced
  <2>1. Phase(j) = "none" /\ Phase(j)' = "queued"
    BY <1>1, <1>5 DEF Phase
  <2>2. Spool!Submit(j)
    BY <1>3, <2>1, OneMove DEF Spool!Submit
  <2> QED
    BY <2>2 DEF Spool!SpoolMove
<1> QED
  BY <1>4, <1>5

(* A claim: no job of the printer is active or lost.                         *)
LEMMA ClaimedWasQueued ==
  ASSUME QueueInv, NEW p \in Printer \ raced, NEW j \in Claimable(p)
  PROVE  j \in Job /\ PrinterOf[j] = p /\ Phase(j) = "queued" /\ Spool!PrinterFree(j)
<1>1. /\ j \in Job /\ PrinterOf[j] = p /\ job[j].status = "PENDING"
      /\ \A k \in JobsOf(p) : job[k].status # "PROCESSING"
  BY DEF Claimable, JobsOf, Due
<1>2. PrinterOf[j] \notin raced
  BY <1>1
<1>3. Phase(j) = "queued"
  BY <1>1, <1>2 DEF Phase
<1>4. \A k \in Job : PrinterOf[k] = PrinterOf[j] => Phase(k) \notin {"active", "lost"}
  BY <1>1 DEF Phase, JobsOf
<1> QED
  BY <1>1, <1>3, <1>4 DEF Spool!PrinterFree

(* A job that is claimed, with a drain that goes on with it or with one that  *)
(* never learns of it.                                                       *)
LEMMA ClaimedIsStartedOrLost ==
  ASSUME QueueInv, NEW n \in Node, NEW p \in Printer, ~Busy(n, p), UNCHANGED raced,
         NEW j \in Claimable(p), MarkClaimed(j), NEW e \in Drain, Goto(n, p, e),
         \/ e.at = "dispatch" /\ e.job = j
         \/ e.at = "ending"
  PROVE  Spool!SpoolMove \/ UNCHANGED Phases
<1>1. /\ j \in Job /\ PrinterOf[j] = p /\ job[j].status = "PENDING"
      /\ \A k \in JobsOf(p) : job[k].status # "PROCESSING"
  BY DEF Claimable, JobsOf, Due
<1>2. /\ job'[j].status = "PROCESSING"
      /\ \A k \in Job \ {j} : job'[k] = job[k]
  BY <1>1 DEF MarkClaimed, QueueInv, TypeOK
<1>3. \A k \in Job : PrinterOf[k] = p => n \notin HeldBy(k) /\ n \notin LateOn(k)
  BY DEF Busy, HeldBy, LateOn
<1>4. ASSUME NEW k \in Job \ {j} PROVE HeldBy(k)' = HeldBy(k) /\ LateOn(k)' = LateOn(k)
  <2>1. CASE PrinterOf[k] # p
    BY <2>1, GotoMovesHolder
  <2>2. CASE PrinterOf[k] = p
    <3>1. n \notin HeldBy(k)' /\ n \notin LateOn(k)'
      BY <2>2, GotoMovesHolder
    <3> QED
      BY <1>3, <2>2, <3>1, GotoMovesHolder
  <2> QED
    BY <2>1, <2>2
<1>5. \A k \in Job \ {j} : Phase(k)' = Phase(k)
  BY <1>1, <1>2, <1>4, OneRowOnePhase
<1>6. CASE p \in raced
  <2>1. Phase(j)' = Phase(j)
    BY <1>1, <1>6 DEF Phase
  <2> QED
    BY <1>5, <2>1 DEF Phases
<1>7. CASE p \notin raced
  <2>1. Phase(j) = "queued" /\ Spool!PrinterFree(j)
    BY <1>7, ClaimedWasQueued
  <2>2. PrinterOf[j] \notin raced'
    BY <1>1, <1>7
  <2>3. CASE e.at = "dispatch" /\ e.job = j
    <3>1. n \in HeldBy(j)'
      BY <1>1, <2>3, GotoMovesHolder
    <3>2. HeldBy(j)' # {}
      BY <3>1
    <3>3. Phase(j)' = "active"
      BY <1>2, <2>2, <3>2 DEF Phase
    <3>4. Spool!Start(j)
      BY <1>1, <1>5, <2>1, <3>3, OneMove DEF Spool!Start
    <3> QED
      BY <1>1, <3>4 DEF Spool!SpoolMove
  <2>4. CASE e.at = "ending"
    <3>1. HeldBy(j) = {}
      BY <1>1, <1>7 DEF HeldBy, QueueInv, OneDeliveryUnlessRaced
    <3>2. HeldBy(j)' = {}
      <4>1. n \notin HeldBy(j)' /\ HeldBy(j)' \ {n} = HeldBy(j) \ {n}
        BY <1>1, <2>4, GotoMovesHolder
      <4> QED
        BY <3>1, <4>1
    <3>3. Phase(j)' = "lost"
      BY <1>2, <2>2, <3>2 DEF Phase
    <3>4. Spool!Lose(j)
      BY <1>1, <1>5, <2>1, <3>3, OneMove DEF Spool!Lose
    <3> QED
      BY <1>1, <3>4 DEF Spool!SpoolMove
  <2> QED
    BY <2>3, <2>4
<1> QED
  BY <1>6, <1>7

(* A drain that goes on with its job, or has none and takes none, changes no  *)
(* phase; one that ends with a job PROCESSING abandons it.                   *)
LEMMA DrainOnlyIsStutter ==
  ASSUME QueueInv, NEW n \in Node, NEW p \in Printer, NEW e \in Drain, Goto(n, p, e),
         (e.at \in {"dispatch", "markSucceeded", "markFailed"}) <=> Holds(n, p),
         e.at # "markLate", ~Late(n, p),
         e.job = drain[n][p].job \/ ~Holds(n, p),
         UNCHANGED <<job, raced>>
  PROVE  UNCHANGED Phases
<1>1. ASSUME NEW k \in Job PROVE HeldBy(k)' = HeldBy(k) /\ LateOn(k)' = LateOn(k)
  <2>1. CASE PrinterOf[k] # p
    BY <2>1, GotoMovesHolder
  <2>2. CASE PrinterOf[k] = p
    <3>1. n \in HeldBy(k) <=> Holds(n, p) /\ drain[n][p].job = k
      BY <2>2 DEF HeldBy
    <3>2. n \in HeldBy(k)' <=> n \in HeldBy(k)
      BY <2>2, <3>1, GotoMovesHolder
    <3>3. n \notin LateOn(k)' /\ n \notin LateOn(k)
      BY <2>2, GotoMovesHolder DEF LateOn
    <3>6. HeldBy(k)' \ {n} = HeldBy(k) \ {n} /\ LateOn(k)' \ {n} = LateOn(k) \ {n}
      BY GotoMovesHolder
    <3>4. HeldBy(k)' = HeldBy(k)
      BY <3>2, <3>6
    <3>5. LateOn(k)' = LateOn(k)
      BY <3>3, <3>6
    <3> QED
      BY <3>4, <3>5
  <2> QED
    BY <2>1, <2>2
<1> QED
  BY <1>1, SameRowsSamePhases

LEMMA ClaimIsStart ==
  ASSUME QueueInv, NEW n \in Node, NEW p \in Printer, Claim(n, p)
  PROVE  Spool!SpoolMove \/ UNCHANGED Phases
<1>1. TypeOK /\ At(n, p, "claim") /\ UNCHANGED raced
  BY DEF QueueInv, Claim
<1>2. ~Busy(n, p) /\ ~Holds(n, p) /\ ~Late(n, p)
  BY <1>1 DEF At, Busy, Holds, Late
<1>3. CASE Goto(n, p, Step(NoDrain, "ending")) /\ UNCHANGED job
  <2>1. Step(NoDrain, "ending") \in Drain /\ Step(NoDrain, "ending").at = "ending"
    BY DEF Step, NoDrain, Drain, DrainStep
  <2> QED
    BY <1>1, <1>2, <1>3, <2>1, DrainOnlyIsStutter
<1>4. ASSUME NEW j \in Claimable(p), TakeJob(n, p, j)
      PROVE  Spool!SpoolMove \/ UNCHANGED Phases
  <2> DEFINE e == [at |-> "dispatch", job |-> j, attempts |-> job[j].attempts + 1,
                   retryable |-> FALSE]
  <2>1. j \in Job
    BY DEF Claimable, JobsOf
  <2>2. e \in Drain /\ e.at = "dispatch" /\ e.job = j
    BY <1>1, <2>1 DEF Drain, DrainStep, TypeOK, JobRow
  <2>3. MarkClaimed(j) /\ Goto(n, p, e)
    BY <1>4 DEF TakeJob
  <2> HIDE DEF e
  <2> QED
    BY <1>1, <1>2, <2>2, <2>3, ClaimedIsStartedOrLost
<1> QED
  BY <1>3, <1>4 DEF Claim

(* A result of a delivery takes the one active job of p to done, failed or    *)
(* queued; one that writes over an unsure success takes it to failed or       *)
(* queued.                                                                   *)
LEMMA ResultIsMove ==
  ASSUME QueueInv, NEW n \in Node, NEW p \in Printer, Busy(n, p), UNCHANGED raced,
         NEW e \in Drain, e.at \in {"claim", "ending"}, Goto(n, p, e),
         RecordFailure(drain[n][p]) \/ (Holds(n, p) /\ RecordSuccess(drain[n][p]))
  PROVE  Spool!SpoolMove \/ UNCHANGED Phases
<1>1. PICK j \in JobsOf(p) : j = drain[n][p].job
  BY DEF QueueInv, DrainsHoldOwnJobs, Busy
<1>2. j \in Job /\ PrinterOf[j] = p
  BY DEF JobsOf
<1>3. /\ \/ job'[j].status \in {"PENDING", "FAILED"}
         \/ job'[j].status = "SUCCEEDED" /\ Holds(n, p)
      /\ \A k \in Job \ {j} : job'[k] = job[k]
  BY <1>1, <1>2 DEF RecordSuccess, RecordFailure, QueueInv, TypeOK, JobRow
<1>4. ASSUME NEW k \in Job \ {j} PROVE HeldBy(k)' = HeldBy(k) /\ LateOn(k)' = LateOn(k)
  <2>1. CASE PrinterOf[k] # p
    BY <2>1, GotoMovesHolder
  <2>2. CASE PrinterOf[k] = p
    <3>1. n \notin HeldBy(k)' /\ n \notin LateOn(k)'
      BY <2>2, GotoMovesHolder
    <3>2. n \notin HeldBy(k) /\ n \notin LateOn(k)
      BY <1>1, <2>2 DEF HeldBy, LateOn
    <3> QED
      BY <3>1, <3>2, GotoMovesHolder
  <2> QED
    BY <2>1, <2>2
<1>5. \A k \in Job \ {j} : Phase(k)' = Phase(k)
  BY <1>2, <1>3, <1>4, OneRowOnePhase
<1>6. CASE p \in raced
  <2>1. Phase(j)' = Phase(j)
    BY <1>2, <1>6 DEF Phase
  <2> QED
    BY <1>5, <2>1 DEF Phases
<1>7. CASE p \notin raced
  <2>1. PrinterOf[j] \notin raced'
    BY <1>2, <1>7
  <2>2. CASE job'[j].status \in {"PENDING", "FAILED"}
    <3>1. Phase(j) \in {"active", "unsure"}
      BY <1>1, <1>7, HolderIsOnly, LateIsOnly DEF Busy
    <3>2. Phase(j)' \in {"queued", "failed"}
      BY <2>1, <2>2 DEF Phase
    <3>3. Spool!Requeue(j) \/ Spool!GiveUp(j)
      BY <1>2, <1>5, <3>1, <3>2, OneMove DEF Spool!Requeue, Spool!GiveUp
    <3> QED
      BY <1>2, <3>3 DEF Spool!SpoolMove
  <2>3. CASE job'[j].status = "SUCCEEDED" /\ Holds(n, p)
    <3>1. Phase(j) = "active" /\ job[j].status = "PROCESSING"
      BY <1>1, <1>7, <2>3, HolderIsOnly
    <3>2. LateOn(j) = {}
      BY <1>2, <1>7, <3>1 DEF LateOn, QueueInv, LateDrainsFollowSuccess
    <3>3. LateOn(j)' = {}
      <4>1. n \notin LateOn(j)' /\ LateOn(j)' \ {n} = LateOn(j) \ {n}
        BY <1>2, GotoMovesHolder
      <4> QED
        BY <3>2, <4>1
    <3>4. Phase(j)' = "done"
      BY <2>1, <2>3, <3>3 DEF Phase
    <3>5. Spool!Finish(j)
      BY <1>2, <1>5, <3>1, <3>4, OneMove DEF Spool!Finish
    <3> QED
      BY <1>2, <3>5 DEF Spool!SpoolMove
  <2> QED
    BY <1>3, <2>2, <2>3
<1> QED
  BY <1>6, <1>7

(* A success whose answer is lost.                                           *)
LEMMA LostAnswerIsUnsure ==
  ASSUME QueueInv, NEW n \in Node, NEW p \in Printer, Holds(n, p), UNCHANGED raced,
         NEW e \in Drain, e.at = "markLate", e.job = drain[n][p].job, Goto(n, p, e),
         RecordSuccess(drain[n][p])
  PROVE  Spool!SpoolMove \/ UNCHANGED Phases
<1>1. PICK j \in JobsOf(p) : j = drain[n][p].job
  BY DEF QueueInv, DrainsHoldOwnJobs
<1>2. j \in Job /\ PrinterOf[j] = p
  BY DEF JobsOf
<1>3. /\ job'[j].status = "SUCCEEDED"
      /\ \A k \in Job \ {j} : job'[k] = job[k]
  BY <1>1, <1>2 DEF RecordSuccess, QueueInv, TypeOK, JobRow
<1>4. ASSUME NEW k \in Job \ {j} PROVE HeldBy(k)' = HeldBy(k) /\ LateOn(k)' = LateOn(k)
  <2>1. CASE PrinterOf[k] # p
    BY <2>1, GotoMovesHolder
  <2>2. CASE PrinterOf[k] = p
    <3>1. n \notin HeldBy(k)' /\ n \notin LateOn(k)'
      BY <1>1, <2>2, GotoMovesHolder
    <3>2. n \notin HeldBy(k) /\ n \notin LateOn(k)
      BY <1>1, <2>2 DEF HeldBy, LateOn
    <3>3. HeldBy(k)' \ {n} = HeldBy(k) \ {n} /\ LateOn(k)' \ {n} = LateOn(k) \ {n}
      BY GotoMovesHolder
    <3> QED
      BY <3>1, <3>2, <3>3
  <2> QED
    BY <2>1, <2>2
<1>5. \A k \in Job \ {j} : Phase(k)' = Phase(k)
  BY <1>2, <1>3, <1>4, OneRowOnePhase
<1>6. CASE p \in raced
  <2>1. Phase(j)' = Phase(j)
    BY <1>2, <1>6 DEF Phase
  <2> QED
    BY <1>5, <2>1 DEF Phases
<1>7. CASE p \notin raced
  <2>1. Phase(j) = "active"
    BY <1>1, <1>7, HolderIsOnly
  <2>2. n \in LateOn(j)' /\ PrinterOf[j] \notin raced'
    BY <1>1, <1>2, <1>7, GotoMovesHolder
  <2>3. LateOn(j)' # {}
    BY <2>2
  <2>4. Phase(j)' = "unsure"
    BY <1>3, <2>2, <2>3 DEF Phase
  <2>5. Spool!FinishUnanswered(j)
    BY <1>2, <1>5, <2>1, <2>4, OneMove DEF Spool!FinishUnanswered
  <2> QED
    BY <1>2, <2>5 DEF Spool!SpoolMove
<1> QED
  BY <1>6, <1>7

(* Drains of n that drop the jobs they are busy with, and no row is written.  *)
LEMMA LostIsAbandon ==
  ASSUME QueueInv, NEW n \in Node, UNCHANGED <<job, raced>>,
         \A k \in Job : /\ HeldBy(k)' \in {HeldBy(k), HeldBy(k) \ {n}}
                       /\ LateOn(k)' \in {LateOn(k), LateOn(k) \ {n}}
  PROVE  Spool!SpoolMove
<1> DEFINE J == {j \in Job : /\ PrinterOf[j] \notin raced
                             /\ \/ n \in HeldBy(j) /\ n \notin HeldBy(j)'
                                \/ n \in LateOn(j) /\ n \notin LateOn(j)'}
<1>1. ASSUME NEW j \in J
      PROVE  Phase(j) \in {"active", "unsure"} /\ Phase(j)' = Spool!Left[Phase(j)]
  <2>1. PrinterOf[j] \in Printer \ raced /\ PrinterOf[j] \notin raced'
    BY PrinterAssumption
  <2>2. CASE n \in HeldBy(j) /\ n \notin HeldBy(j)'
    <3>1. Holds(n, PrinterOf[j]) /\ drain[n][PrinterOf[j]].job = j
      BY <2>2 DEF HeldBy
    <3>2. HeldBy(j) = {n} /\ job[j].status = "PROCESSING" /\ Phase(j) = "active"
      BY <2>1, <3>1, HolderIsOnly
    <3>3. HeldBy(j)' = {}
      BY <2>2, <3>2
    <3>4. Phase(j)' = "lost"
      BY <2>1, <3>2, <3>3 DEF Phase
    <3> QED
      BY <3>2, <3>4 DEF Spool!Left
  <2>3. CASE n \in LateOn(j) /\ n \notin LateOn(j)'
    <3>1. Late(n, PrinterOf[j]) /\ drain[n][PrinterOf[j]].job = j
      BY <2>3 DEF LateOn
    <3>2. LateOn(j) = {n} /\ job[j].status = "SUCCEEDED" /\ Phase(j) = "unsure"
      BY <2>1, <3>1, LateIsOnly DEF QueueInv, LateDrainsFollowSuccess
    <3>3. LateOn(j)' = {}
      BY <2>3, <3>2
    <3>4. Phase(j)' = "done"
      BY <2>1, <3>2, <3>3 DEF Phase
    <3> QED
      BY <3>2, <3>4 DEF Spool!Left
  <2> QED
    BY <2>2, <2>3
<1>2. ASSUME NEW j \in Job \ J PROVE Phase(j)' = Phase(j)
  <2>1. CASE PrinterOf[j] \in raced
    BY <2>1 DEF Phase
  <2>2. CASE PrinterOf[j] \notin raced
    <3>1. HeldBy(j)' = HeldBy(j) /\ LateOn(j)' = LateOn(j)
      BY <2>2
    <3> QED
      BY <3>1 DEF Phase
  <2> QED
    BY <2>1, <2>2
<1>3. \A j \in Job : Phase(j)' = IF j \in J THEN Spool!Left[Phase(j)] ELSE Phase(j)
  BY <1>1, <1>2
<1>4. \A j \in J : Phase(j) \in DOMAIN Spool!Left
  BY <1>1 DEF Spool!Left
<1>5. J \in SUBSET Job
  OBVIOUS
<1> HIDE DEF J
<1>6. Spool!Abandon(J)
  BY <1>3, <1>4, <1>5 DEF Spool!Abandon
<1> QED
  BY <1>5, <1>6 DEF Spool!SpoolMove

(* ... and so when one drain ends.                                           *)
LEMMA EndingIsAbandon ==
  ASSUME QueueInv, NEW n \in Node, NEW p \in Printer, UNCHANGED <<job, raced>>,
         NEW e \in Drain, e.at = "ending", Goto(n, p, e)
  PROVE  Spool!SpoolMove
<1>1. ASSUME NEW k \in Job
      PROVE  /\ HeldBy(k)' \in {HeldBy(k), HeldBy(k) \ {n}}
             /\ LateOn(k)' \in {LateOn(k), LateOn(k) \ {n}}
  <2>1. CASE PrinterOf[k] # p
    BY <2>1, GotoMovesHolder
  <2>2. CASE PrinterOf[k] = p
    <3>1. n \notin HeldBy(k)' /\ n \notin LateOn(k)'
      BY <2>2, GotoMovesHolder
    <3>2. HeldBy(k)' = HeldBy(k) \ {n}
      BY <3>1, GotoMovesHolder
    <3>3. LateOn(k)' = LateOn(k) \ {n}
      BY <3>1, GotoMovesHolder
    <3> QED
      BY <3>2, <3>3
  <2> QED
    BY <2>1, <2>2
<1> QED
  BY <1>1, LostIsAbandon

LEMMA DrainIsSpool ==
  ASSUME QueueInv, NEW n \in Node, NEW p \in Printer,
         DrainNext(n, p) \/ StatementFails(n, p)
  PROVE  Spool!SpoolMove \/ UNCHANGED Phases
<1> DEFINE d == drain[n][p]
<1>1. d \in Drain
  BY DEF QueueInv, TypeOK
<1>2. CASE DispatchReturns(n, p)
  <2>1. /\ Step(d, "markSucceeded") \in Drain /\ Step(d, "markSucceeded").job = d.job
        /\ Step(d, "markSucceeded").at = "markSucceeded"
    BY <1>1 DEF Step, Drain, DrainStep
  <2>2. /\ Holds(n, p) /\ ~Late(n, p)
        /\ Goto(n, p, Step(d, "markSucceeded")) /\ UNCHANGED <<job, raced>>
    BY <1>2 DEF DispatchReturns, Holds, Late, At
  <2> QED
    BY <2>1, <2>2, DrainOnlyIsStutter
<1>3. ASSUME NEW retryable \in BOOLEAN, Holds(n, p), ~Late(n, p), UNCHANGED <<job, raced>>,
             Goto(n, p, [d EXCEPT !.at = "markFailed", !.retryable = retryable])
      PROVE  UNCHANGED Phases
  <2> DEFINE e == [d EXCEPT !.at = "markFailed", !.retryable = retryable]
  <2>1. e \in Drain /\ e.job = d.job /\ e.at = "markFailed"
    BY <1>1 DEF Drain, DrainStep
  <2>2. Goto(n, p, e)
    BY <1>3
  <2> HIDE DEF e
  <2> QED
    BY <1>3, <2>1, <2>2, DrainOnlyIsStutter
<1>4. ASSUME NEW retryable \in BOOLEAN, NEW hasPrinted \in BOOLEAN,
             DispatchThrows(n, p, retryable, hasPrinted)
      PROVE  UNCHANGED Phases
  BY <1>3, <1>4 DEF DispatchThrows, Holds, Late, At
<1>5. CASE MarkSucceeded(n, p) \/ MarkFailed(n, p)
  <2>1. NewDrain \in Drain /\ NewDrain.at = "claim"
    BY DEF NewDrain, NoDrain, Drain, DrainStep
  <2>2. /\ Busy(n, p) /\ Goto(n, p, NewDrain) /\ UNCHANGED raced
        /\ RecordFailure(d) \/ (Holds(n, p) /\ RecordSuccess(d))
    BY <1>5 DEF MarkSucceeded, MarkFailed, Busy, Holds, Late, At
  <2> QED
    BY <2>1, <2>2, ResultIsMove
<1>6. CASE EndDrain(n, p)
  <2>1. NoDrain \in Drain /\ NoDrain.at = "none"
    BY DEF NoDrain, Drain, DrainStep
  <2>2. ~Holds(n, p) /\ ~Late(n, p) /\ Goto(n, p, NoDrain) /\ UNCHANGED <<job, raced>>
    BY <1>6 DEF EndDrain, Holds, Late, At
  <2> QED
    BY <2>1, <2>2, DrainOnlyIsStutter
<1>7. CASE StatementFails(n, p)
  <2> DEFINE last == Step(NoDrain, "ending")
  <2>1. UNCHANGED raced /\ last \in Drain /\ last.at = "ending"
    BY <1>7 DEF StatementFails, Step, NoDrain, Drain, DrainStep
  <2> HIDE DEF last
  <2>2. CASE SuccessFails(n, p)
    <3>1. Holds(n, p) /\ ~Late(n, p)
      BY <2>2 DEF SuccessFails, Holds, Late, At
    <3>2. ASSUME NEW retryable \in BOOLEAN, RecordSuccess(d),
                 Goto(n, p, [d EXCEPT !.at = "markLate", !.retryable = retryable])
          PROVE  Spool!SpoolMove \/ UNCHANGED Phases
      <4> DEFINE e == [d EXCEPT !.at = "markLate", !.retryable = retryable]
      <4>1. e \in Drain /\ e.job = d.job /\ e.at = "markLate"
        BY <1>1 DEF Drain, DrainStep
      <4>2. Goto(n, p, e)
        BY <3>2
      <4> HIDE DEF e
      <4> QED
        BY <2>1, <3>1, <3>2, <4>1, <4>2, LostAnswerIsUnsure
    <3> QED
      BY <1>3, <2>1, <2>2, <3>1, <3>2 DEF SuccessFails
  <2>3. CASE FailureFails(n, p)
    <3>1. Busy(n, p) /\ Goto(n, p, last) /\ (UNCHANGED job \/ RecordFailure(d))
      BY <2>3 DEF FailureFails, Busy, Holds, Late, At, last
    <3> QED
      BY <2>1, <3>1, EndingIsAbandon, ResultIsMove
  <2>4. CASE ClaimFails(n, p)
    <3>1. ~Busy(n, p) /\ Goto(n, p, last)
      BY <2>4 DEF ClaimFails, Busy, Holds, Late, At, last
    <3>2. CASE UNCHANGED job
      BY <2>1, <3>1, <3>2, EndingIsAbandon
    <3>3. ASSUME NEW j \in Claimable(p), MarkClaimed(j)
          PROVE  Spool!SpoolMove \/ UNCHANGED Phases
      BY <2>1, <3>1, <3>3, ClaimedIsStartedOrLost
    <3> QED
      BY <2>4, <3>2, <3>3 DEF ClaimFails
  <2> QED
    BY <1>7, <2>2, <2>3, <2>4 DEF StatementFails
<1> QED
  BY <1>2, <1>4, <1>5, <1>6, <1>7, ClaimIsStart DEF DrainNext

LEMMA StartsAreStutters ==
  ASSUME QueueInv, NEW n \in Node, NEW P, EnsureDrain(n, P), UNCHANGED <<job, raced>>
  PROVE  UNCHANGED Phases
  BY EnsureDrainKeepsHolders, SameRowsSamePhases

(* A retry of a FAILED job hands it in again; any other voids its printer.   *)
LEMMA CommitRetryIsSubmitOrVoid ==
  ASSUME QueueInv, NEW u \in Staff, CommitRetry(u)
  PROVE  Spool!SpoolMove \/ UNCHANGED Phases
<1>1. TypeOK
  BY DEF QueueInv
<1>2. PICK j \in Job, n \in Node : j = request[u].job /\ n = request[u].node
  BY <1>1 DEF CommitRetry, QueueInv, TypeOK, Request, RequestsHaveNodes
<1>3. \A k \in Job : HeldBy(k)' = HeldBy(k) /\ LateOn(k)' = LateOn(k)
  BY <1>2, EnsureDrainKeepsHolders DEF CommitRetry
<1>4. job'[j].status = "PENDING" /\ \A k \in Job \ {j} : job'[k] = job[k]
  BY <1>1, <1>2 DEF CommitRetry, TypeOK, QueuedRow
<1>5. raced' = IF job[j].status = "FAILED" THEN raced ELSE raced \cup {PrinterOf[j]}
  BY <1>2 DEF CommitRetry
<1>6. CASE job[j].status = "FAILED"
  <2>1. UNCHANGED raced
    BY <1>5, <1>6
  <2>2. \A k \in Job \ {j} : Phase(k)' = Phase(k)
    BY <1>3, <1>4, <2>1, OneRowOnePhase
  <2>3. CASE PrinterOf[j] \in raced
    <3>1. Phase(j)' = Phase(j)
      BY <2>1, <2>3 DEF Phase
    <3> QED
      BY <2>2, <3>1 DEF Phases
  <2>4. CASE PrinterOf[j] \notin raced
    <3>1. Phase(j) = "failed" /\ Phase(j)' = "queued"
      BY <1>4, <1>6, <2>1, <2>4 DEF Phase
    <3>2. Spool!Submit(j)
      BY <2>2, <3>1, OneMove DEF Spool!Submit
    <3> QED
      BY <3>2 DEF Spool!SpoolMove
  <2> QED
    BY <2>3, <2>4
<1>7. CASE job[j].status # "FAILED"
  <2>1. raced' = raced \cup {PrinterOf[j]}
    BY <1>5, <1>7
  <2>2. \A k \in Job : Phase(k)' = IF PrinterOf[k] = PrinterOf[j] THEN "void" ELSE Phase(k)
    <3> SUFFICES ASSUME NEW k \in Job
                 PROVE  Phase(k)' = IF PrinterOf[k] = PrinterOf[j] THEN "void" ELSE Phase(k)
      OBVIOUS
    <3>1. CASE PrinterOf[k] = PrinterOf[j]
      <4>1. PrinterOf[k] \in raced'
        BY <2>1, <3>1
      <4>2. Phase(k)' = "void"
        BY <4>1 DEF Phase
      <4> QED
        BY <3>1, <4>2
    <3>2. CASE PrinterOf[k] # PrinterOf[j]
      <4>1. job'[k] = job[k] /\ HeldBy(k)' = HeldBy(k) /\ LateOn(k)' = LateOn(k)
        BY <1>3, <1>4, <3>2
      <4>2. PrinterOf[k] \in raced' <=> PrinterOf[k] \in raced
        BY <2>1, <3>2
      <4>3. Phase(k)' = Phase(k)
        BY <4>1, <4>2 DEF Phase
      <4> QED
        BY <3>2, <4>3
    <3> QED
      BY <3>1, <3>2
  <2>3. Spool!Void(PrinterOf[j])
    BY <2>2 DEF Spool!Void
  <2>4. PrinterOf[j] \in Printer
    BY PrinterAssumption
  <2> QED
    BY <2>3, <2>4 DEF Spool!SpoolMove
<1> QED
  BY <1>6, <1>7

LEMMA CrashIsAbandon ==
  ASSUME QueueInv, NEW n \in Node, Crash(n)
  PROVE  Spool!SpoolMove
<1>1. /\ drain'[n] = [p \in Printer |-> NoDrain]
      /\ \A m \in Node \ {n} : drain'[m] = drain[m]
      /\ UNCHANGED <<job, raced>>
  BY DEF Crash, QueueInv, TypeOK
<1>2. \A p \in Printer : ~Holds(n, p)' /\ ~Late(n, p)'
  BY <1>1 DEF Holds, Late, NoDrain
<1>3. ASSUME NEW k \in Job
      PROVE  HeldBy(k)' = HeldBy(k) \ {n} /\ LateOn(k)' = LateOn(k) \ {n}
  <2>1. PrinterOf[k] \in Printer
    BY PrinterAssumption
  <2>2. n \notin HeldBy(k)' /\ n \notin LateOn(k)'
    BY <1>2, <2>1 DEF HeldBy, LateOn
  <2>3. \A m \in Node \ {n} : (m \in HeldBy(k)' <=> m \in HeldBy(k))
                             /\ (m \in LateOn(k)' <=> m \in LateOn(k))
    BY <1>1 DEF HeldBy, LateOn, Holds, Late
  <2>4. /\ HeldBy(k)' \subseteq Node /\ HeldBy(k) \subseteq Node
        /\ LateOn(k)' \subseteq Node /\ LateOn(k) \subseteq Node
    BY DEF HeldBy, LateOn
  <2> QED
    BY <2>2, <2>3, <2>4
<1> QED
  BY <1>1, <1>3, LostIsAbandon

LEMMA StepIsSpool ==
  ASSUME QueueInv, [Next]_vars
  PROVE  Spool!SpoolMove \/ UNCHANGED Phases
<1>1. ASSUME NEW n \in Node, NEW p \in Printer, Recheck(n, p)
      PROVE  UNCHANGED Phases
  BY <1>1, StartsAreStutters DEF Recheck
<1>2. ASSUME NEW n \in Node, Sweep(n) \/ Restart(n)
      PROVE  UNCHANGED Phases
  BY <1>2, StartsAreStutters DEF Sweep, Restart
<1>3. ASSUME NEW j \in Job, BecomesDue(j)
      PROVE  UNCHANGED Phases
  <2>1. \A k \in Job : job'[k].status = job[k].status
    BY <1>3 DEF BecomesDue, QueueInv, TypeOK, JobRow
  <2>2. UNCHANGED <<drain, raced>>
    BY <1>3 DEF BecomesDue
  <2>3. \A k \in Job : HeldBy(k)' = HeldBy(k) /\ LateOn(k)' = LateOn(k)
    BY <2>2 DEF HeldBy, LateOn, Holds, Late
  <2> QED
    BY <2>1, <2>2, <2>3, SameRowsSamePhases
<1>4. ASSUME UNCHANGED <<job, drain, raced>>
      PROVE  UNCHANGED Phases
  <2>1. \A k \in Job : HeldBy(k)' = HeldBy(k) /\ LateOn(k)' = LateOn(k)
    BY <1>4 DEF HeldBy, LateOn, Holds, Late
  <2> QED
    BY <1>4, <2>1, SameRowsSamePhases
<1>5. ASSUME NEW u \in Staff, NEW n \in Node, NEW j \in Job, BeginRetry(u, n, j)
      PROVE  UNCHANGED Phases
  BY <1>4, <1>5 DEF BeginRetry
<1> QED
  BY <1>1, <1>2, <1>3, <1>4, <1>5, DrainIsSpool, CrashIsAbandon, EnqueueIsSubmit,
     CommitRetryIsSubmitOrVoid DEF Next, vars

LEMMA InitIsSpoolInit == Init => Spool!SpoolInit
<1> SUFFICES ASSUME Init PROVE Spool!SpoolInit
  OBVIOUS
<1>1. \A j \in Job : Phase(j) = "none"
  BY DEF Init, Phase, NewRow
<1> QED
  BY <1>1 DEF Spool!SpoolInit

(* Every step of the queue is a step of what PrintSpool promises of it, or    *)
(* one its users cannot see: one active job per printer, a finished job is    *)
(* done with unless its success went unanswered, a lost one stays lost.      *)
THEOREM QueueImplementsSpool == Spec => ImplementsSpool
<1>1. Init => Spool!SpoolInit
  BY InitIsSpoolInit
<1>2. QueueInv /\ [Next]_vars => [Spool!SpoolNext]_[j \in Job |-> Phase(j)]
  BY StepIsSpool DEF Phases, Spool!SpoolNext
<1> QED
  BY <1>1, <1>2, QueueInvariance, PTL DEF Spec, ImplementsSpool, Spool!SpoolSpec

-----------------------------------------------------------------------------
(* A job is printed again only in doubt.                                    *)

(* The drains that may still bring a copy of j out, or put it back, without *)
(* a new reason: those that have not had the agent's answer, and those that *)
(* have taken it for a failure.                                             *)
Tries(d, j) == d.at \in {"dispatch", "markFailed", "markLate"} /\ d.job = j
TriedBy(j) == {n \in Node : Tries(drain[n][PrinterOf[j]], j)}

(* ... and so may the next claim.                                           *)
ToClaim(j) == IF job[j].status \in {"NONE", "PENDING"} THEN 1 ELSE 0

(* Copies that are out and copies that are still to come have their reasons, *)
(* raced retries or not.                                                    *)
CopiesHaveReasons(j) ==
  /\ printed[j] \in Nat /\ doubt[j] \in Nat
  /\ IsFiniteSet(TriedBy(j))
  /\ printed[j] + Cardinality(TriedBy(j)) + ToClaim(j) <= 1 + doubt[j]

CopyInv ==
  /\ printed \in [Job -> Nat] /\ doubt \in [Job -> Nat]
  /\ \A j \in Job : CopiesHaveReasons(j)

LEMMA ToClaimType == \A j \in Job : ToClaim(j) \in {0, 1}
BY DEF ToClaim

(* Only as many reasons as copies: the drains of j are the same or fewer.   *)
LEMMA NoMoreTries ==
  ASSUME NEW j \in Job, CopiesHaveReasons(j), TriedBy(j)' \subseteq TriedBy(j),
         printed'[j] \in Nat, doubt'[j] \in Nat, ToClaim(j)' \in {0, 1},
         printed'[j] + ToClaim(j)' - doubt'[j] <= printed[j] + ToClaim(j) - doubt[j]
  PROVE  CopiesHaveReasons(j)'
<1>1. /\ IsFiniteSet(TriedBy(j)')
      /\ Cardinality(TriedBy(j)') <= Cardinality(TriedBy(j))
      /\ Cardinality(TriedBy(j)') \in Nat /\ Cardinality(TriedBy(j)) \in Nat
  BY FS_Subset, FS_CardinalityType DEF CopiesHaveReasons
<1> QED
  BY <1>1, ToClaimType DEF CopiesHaveReasons

LEMMA OneMoreTry ==
  ASSUME NEW j \in Job, CopiesHaveReasons(j), NEW n, TriedBy(j)' = TriedBy(j) \cup {n},
         printed'[j] \in Nat, doubt'[j] \in Nat, ToClaim(j)' \in {0, 1},
         printed'[j] + ToClaim(j)' - doubt'[j] < printed[j] + ToClaim(j) - doubt[j]
  PROVE  CopiesHaveReasons(j)'
<1>1. /\ IsFiniteSet(TriedBy(j)')
      /\ Cardinality(TriedBy(j)') <= Cardinality(TriedBy(j)) + 1
      /\ Cardinality(TriedBy(j)') \in Nat /\ Cardinality(TriedBy(j)) \in Nat
  <2> DEFINE T == TriedBy(j)
  <2>1. IsFiniteSet(T)
    BY DEF CopiesHaveReasons
  <2>2. TriedBy(j)' = T \cup {n}
    OBVIOUS
  <2> HIDE DEF T
  <2>3. /\ IsFiniteSet(T \cup {n}) /\ Cardinality(T) \in Nat
        /\ Cardinality(T \cup {n}) \in {Cardinality(T), Cardinality(T) + 1}
    BY <2>1, FS_AddElement, FS_CardinalityType
  <2>4. /\ IsFiniteSet(T \cup {n})
        /\ Cardinality(T \cup {n}) <= Cardinality(T) + 1
        /\ Cardinality(T \cup {n}) \in Nat /\ Cardinality(T) \in Nat
    BY <2>3
  <2> QED
    BY <2>2, <2>4 DEF T
<1> QED
  BY <1>1, ToClaimType DEF CopiesHaveReasons

LEMMA OneTryLess ==
  ASSUME NEW j \in Job, CopiesHaveReasons(j), NEW n \in TriedBy(j),
         TriedBy(j)' = TriedBy(j) \ {n},
         printed'[j] \in Nat, doubt'[j] \in Nat, ToClaim(j)' \in {0, 1},
         printed'[j] + ToClaim(j)' - doubt'[j] <= printed[j] + ToClaim(j) - doubt[j] + 1
  PROVE  CopiesHaveReasons(j)'
<1>1. /\ IsFiniteSet(TriedBy(j)')
      /\ Cardinality(TriedBy(j)') = Cardinality(TriedBy(j)) - 1
      /\ Cardinality(TriedBy(j)') \in Nat /\ Cardinality(TriedBy(j)) \in Nat
  BY FS_Subset, FS_RemoveElement, FS_CardinalityType DEF CopiesHaveReasons
<1> QED
  BY <1>1, ToClaimType DEF CopiesHaveReasons

(* What a step of the drain n, p does to the tries of a job.                *)
LEMMA GotoTries ==
  ASSUME TypeOK, NEW n \in Node, NEW p \in Printer, NEW e \in Drain, Goto(n, p, e),
         NEW j \in Job
  PROVE  TriedBy(j)' = IF PrinterOf[j] # p THEN TriedBy(j)
                       ELSE IF Tries(e, j) THEN TriedBy(j) \cup {n}
                       ELSE TriedBy(j) \ {n}
<1>1. /\ drain'[n][p] = e
      /\ \A m \in Node, q \in Printer : m # n \/ q # p => drain'[m][q] = drain[m][q]
  BY GotoMovesOneDrain
<1>2. PrinterOf[j] \in Printer
  BY PrinterAssumption
<1> QED
  BY <1>1, <1>2 DEF TriedBy

LEMMA EnsureDrainTries ==
  ASSUME TypeOK, NEW n \in Node, NEW P, EnsureDrain(n, P), NEW j \in Job
  PROVE  TriedBy(j)' = TriedBy(j)
<1> DEFINE p == PrinterOf[j]
<1>1. p \in Printer
  BY PrinterAssumption
<1>2. /\ drain'[n][p] = IF p \in P /\ drain[n][p].at = "none" THEN NewDrain ELSE drain[n][p]
      /\ \A m \in Node \ {n} : drain'[m] = drain[m]
  BY <1>1 DEF EnsureDrain, TypeOK
<1>3. ~Tries(NewDrain, j)
  BY DEF Tries, NewDrain, NoDrain
<1> QED
  BY <1>2, <1>3 DEF TriedBy, Tries

LEMMA InitCopies == Init => CopyInv
<1> SUFFICES ASSUME Init, NEW j \in Job PROVE CopiesHaveReasons(j)
  BY DEF Init, CopyInv
<1>1. TriedBy(j) = {}
  BY PrinterAssumption DEF Init, TriedBy, Tries, NoDrain
<1>2. ToClaim(j) = 1 /\ printed[j] = 0 /\ doubt[j] = 0
  BY DEF Init, ToClaim, NewRow
<1> QED
  BY <1>1, <1>2, FS_EmptySet DEF CopiesHaveReasons

(* The claim turns a copy to be claimed into one that is tried.             *)
LEMMA ClaimKeepsCopies ==
  ASSUME QueueInv, CopyInv, NEW n \in Node, NEW p \in Printer, Claim(n, p), NEW j \in Job
  PROVE  CopiesHaveReasons(j)'
<1>1. /\ TypeOK /\ UNCHANGED <<printed, doubt>> /\ CopiesHaveReasons(j)
      /\ printed[j] \in Nat /\ doubt[j] \in Nat
  BY DEF QueueInv, Claim, CopyInv
<1>2. CASE Goto(n, p, Step(NoDrain, "ending")) /\ UNCHANGED job
  <2>1. Step(NoDrain, "ending") \in Drain /\ ~Tries(Step(NoDrain, "ending"), j)
    BY DEF Step, NoDrain, Drain, DrainStep, Tries
  <2>2. TriedBy(j)' \subseteq TriedBy(j)
    BY <1>1, <1>2, <2>1, GotoTries
  <2>3. ToClaim(j)' = ToClaim(j)
    BY <1>2 DEF ToClaim
  <2> QED
    BY <1>1, <2>2, <2>3, ToClaimType, NoMoreTries
<1>3. ASSUME NEW k \in Claimable(p), TakeJob(n, p, k)
      PROVE  CopiesHaveReasons(j)'
  <2> DEFINE e == [at |-> "dispatch", job |-> k, attempts |-> job[k].attempts + 1,
                   retryable |-> FALSE]
  <2>1. k \in Job /\ PrinterOf[k] = p /\ job[k].status = "PENDING"
    BY DEF Claimable, JobsOf, Due
  <2>2. e \in Drain /\ e.at = "dispatch" /\ e.job = k
    BY <1>1, <2>1 DEF Drain, DrainStep, TypeOK, JobRow
  <2>3. Goto(n, p, e)
    BY <1>3 DEF TakeJob
  <2>4. job'[k].status = "PROCESSING" /\ \A i \in Job \ {k} : job'[i] = job[i]
    BY <1>1, <1>3, <2>1 DEF TakeJob, MarkClaimed, TypeOK
  <2> HIDE DEF e
  <2>5. CASE j = k
    <3>1. TriedBy(j)' = TriedBy(j) \cup {n}
      BY <1>1, <2>1, <2>2, <2>3, <2>5, GotoTries DEF Tries
    <3>2. ToClaim(j) = 1 /\ ToClaim(j)' = 0
      BY <2>1, <2>4, <2>5 DEF ToClaim
    <3> QED
      BY <1>1, <3>1, <3>2, OneMoreTry
  <2>6. CASE j # k
    <3>1. TriedBy(j)' \subseteq TriedBy(j)
      BY <1>1, <2>2, <2>3, <2>6, GotoTries DEF Tries
    <3>2. ToClaim(j)' = ToClaim(j)
      BY <2>4, <2>6 DEF ToClaim
    <3> QED
      BY <1>1, <3>1, <3>2, ToClaimType, NoMoreTries
  <2> QED
    BY <2>5, <2>6
<1> QED
  BY <1>2, <1>3 DEF Claim

(* The answer of the agent, or its absence.                                 *)
LEMMA DispatchKeepsCopies ==
  ASSUME QueueInv, CopyInv, NEW n \in Node, NEW p \in Printer, NEW j \in Job,
         \/ DispatchReturns(n, p)
         \/ \E retryable, hasPrinted \in BOOLEAN : DispatchThrows(n, p, retryable, hasPrinted)
  PROVE  CopiesHaveReasons(j)'
<1> DEFINE d == drain[n][p]
<1>1. /\ TypeOK /\ UNCHANGED job /\ CopiesHaveReasons(j)
      /\ printed \in [Job -> Nat] /\ doubt \in [Job -> Nat]
      /\ d \in Drain /\ d.at = "dispatch"
  BY DEF QueueInv, TypeOK, CopyInv, DispatchReturns, DispatchThrows, At
<1>2. d.job \in Job /\ PrinterOf[d.job] = p
  BY <1>1 DEF QueueInv, DrainsHoldOwnJobs, Holds, JobsOf
<1>3. ToClaim(j)' = ToClaim(j)
  BY <1>1 DEF ToClaim
<1>4. CASE DispatchReturns(n, p)
  <2>1. Step(d, "markSucceeded") \in Drain /\ ~Tries(Step(d, "markSucceeded"), j)
    BY <1>1 DEF Step, Drain, DrainStep, Tries
  <2>2. Goto(n, p, Step(d, "markSucceeded")) /\ UNCHANGED doubt
    BY <1>4 DEF DispatchReturns
  <2>3. /\ printed'[d.job] = printed[d.job] + 1
        /\ \A k \in Job \ {d.job} : printed'[k] = printed[k]
    BY <1>1, <1>2, <1>4 DEF DispatchReturns
  <2>4. CASE j = d.job
    <3>1. n \in TriedBy(j)
      BY <1>1, <1>2, <2>4 DEF TriedBy, Tries
    <3>2. TriedBy(j)' = TriedBy(j) \ {n}
      BY <1>1, <1>2, <2>1, <2>2, <2>4, GotoTries
    <3> QED
      BY <1>1, <1>3, <2>2, <2>3, <2>4, <3>1, <3>2, ToClaimType, OneTryLess
  <2>5. CASE j # d.job
    <3>1. TriedBy(j)' \subseteq TriedBy(j)
      BY <1>1, <2>1, <2>2, GotoTries
    <3> QED
      BY <1>1, <1>3, <2>2, <2>3, <2>5, <3>1, ToClaimType, NoMoreTries
  <2> QED
    BY <2>4, <2>5
<1>5. ASSUME NEW retryable \in BOOLEAN, NEW hasPrinted \in BOOLEAN,
             DispatchThrows(n, p, retryable, hasPrinted)
      PROVE  CopiesHaveReasons(j)'
  <2> DEFINE e == [d EXCEPT !.at = "markFailed", !.retryable = retryable]
  <2>1. e \in Drain /\ e.at = "markFailed" /\ e.job = d.job
    BY <1>1 DEF Drain, DrainStep
  <2>2. Goto(n, p, e)
    BY <1>5 DEF DispatchThrows
  <2> HIDE DEF e
  <2>3. TriedBy(j)' \subseteq TriedBy(j)
    BY <1>1, <1>2, <2>1, <2>2, GotoTries DEF TriedBy, Tries
  <2>4. /\ printed'[j] \in Nat /\ doubt'[j] \in Nat
        /\ printed'[j] - doubt'[j] = printed[j] - doubt[j]
    <3>1. CASE hasPrinted
      <4>1. /\ printed' = [printed EXCEPT ![d.job] = @ + 1]
            /\ doubt' = [doubt EXCEPT ![d.job] = @ + 1]
        BY <1>5, <3>1 DEF DispatchThrows, Doubted
      <4> HIDE DEF d
      <4>2. /\ printed'[j] = (IF j = d.job THEN printed[j] + 1 ELSE printed[j])
            /\ doubt'[j] = (IF j = d.job THEN doubt[j] + 1 ELSE doubt[j])
        BY <1>1, <4>1
      <4> QED
        BY <1>1, <4>2
    <3>2. CASE ~hasPrinted
      BY <1>1, <1>5, <3>2 DEF DispatchThrows
    <3> QED
      BY <3>1, <3>2
  <2> QED
    BY <1>1, <1>3, <2>3, <2>4, ToClaimType, NoMoreTries
<1> QED
  BY <1>4, <1>5

(* The result that is recorded, or not.                                     *)
LEMMA ResultKeepsCopies ==
  ASSUME QueueInv, CopyInv, NEW n \in Node, NEW p \in Printer, NEW j \in Job,
         MarkSucceeded(n, p) \/ MarkFailed(n, p)
  PROVE  CopiesHaveReasons(j)'
<1> DEFINE d == drain[n][p]
<1>1. /\ TypeOK /\ UNCHANGED <<printed, doubt>> /\ CopiesHaveReasons(j)
      /\ printed[j] \in Nat /\ doubt[j] \in Nat
      /\ Goto(n, p, NewDrain)
      /\ d.at \in {"markSucceeded", "markFailed", "markLate"}
  BY DEF QueueInv, CopyInv, MarkSucceeded, MarkFailed, At
<1>2. d.job \in Job /\ PrinterOf[d.job] = p
  BY <1>1 DEF QueueInv, DrainsHoldOwnJobs, Holds, Late, JobsOf
<1>3. NewDrain \in Drain /\ ~Tries(NewDrain, j)
  BY DEF NewDrain, NoDrain, Drain, DrainStep, Tries
<1>4. TriedBy(j)' = IF PrinterOf[j] # p THEN TriedBy(j) ELSE TriedBy(j) \ {n}
  BY <1>1, <1>3, GotoTries
<1>5. \A k \in Job \ {d.job} : job'[k] = job[k]
  BY <1>1, <1>2 DEF MarkSucceeded, MarkFailed, RecordSuccess, RecordFailure, TypeOK
<1>6. CASE j # d.job
  <2>1. ToClaim(j)' = ToClaim(j)
    BY <1>5, <1>6 DEF ToClaim
  <2> QED
    BY <1>1, <1>4, <2>1, ToClaimType, NoMoreTries
<1>7. CASE j = d.job /\ MarkSucceeded(n, p)
  <2>1. ToClaim(j)' = 0
    BY <1>1, <1>2, <1>7 DEF MarkSucceeded, RecordSuccess, TypeOK, JobRow, ToClaim
  <2> QED
    BY <1>1, <1>4, <2>1, ToClaimType, NoMoreTries
<1>8. CASE j = d.job /\ MarkFailed(n, p)
  <2>1. n \in TriedBy(j) /\ TriedBy(j)' = TriedBy(j) \ {n}
    BY <1>2, <1>4, <1>8 DEF MarkFailed, At, TriedBy, Tries
  <2>2. ToClaim(j)' \in {0, 1}
    BY DEF ToClaim
  <2> QED
    BY <1>1, <2>1, <2>2, ToClaimType, OneTryLess
<1> QED
  BY <1>6, <1>7, <1>8

LEMMA StatementFailsKeepsCopies ==
  ASSUME QueueInv, CopyInv, NEW n \in Node, NEW p \in Printer, NEW j \in Job,
         StatementFails(n, p)
  PROVE  CopiesHaveReasons(j)'
<1> DEFINE d == drain[n][p]
           last == Step(NoDrain, "ending")
<1>1. /\ TypeOK /\ UNCHANGED printed /\ CopiesHaveReasons(j)
      /\ printed \in [Job -> Nat] /\ doubt \in [Job -> Nat] /\ d \in Drain
  BY DEF QueueInv, TypeOK, CopyInv, StatementFails
<1>2. last \in Drain /\ ~Tries(last, j)
  BY DEF Step, NoDrain, Drain, DrainStep, Tries
<1>3. CASE SuccessFails(n, p)
  <2>1. PICK e \in Drain : /\ e.at \in {"markFailed", "markLate"} /\ e.job = d.job
                           /\ Goto(n, p, e)
                           /\ UNCHANGED job \/ RecordSuccess(d)
    <3>1. ASSUME NEW retryable \in BOOLEAN, NEW at \in {"markFailed", "markLate"}
          PROVE  /\ [d EXCEPT !.at = at, !.retryable = retryable] \in Drain
                 /\ [d EXCEPT !.at = at, !.retryable = retryable].at = at
                 /\ [d EXCEPT !.at = at, !.retryable = retryable].job = d.job
      BY <1>1 DEF Drain, DrainStep
    <3> QED
      BY <1>3, <3>1 DEF SuccessFails
  <2>2. d.job \in Job /\ PrinterOf[d.job] = p /\ Doubted(d.job)
    BY <1>3 DEF SuccessFails, QueueInv, DrainsHoldOwnJobs, Holds, JobsOf, At
  <2>3. /\ doubt'[d.job] = doubt[d.job] + 1
        /\ \A k \in Job \ {d.job} : doubt'[k] = doubt[k]
    BY <1>1, <2>2 DEF Doubted
  <2>4. ToClaim(j)' \in {0, 1} /\ ToClaim(j)' <= ToClaim(j)
    <3>1. job'[j].status \in {job[j].status, "SUCCEEDED"}
      BY <1>1, <2>1, <2>2 DEF RecordSuccess, TypeOK, JobRow
    <3> QED
      BY <3>1 DEF ToClaim
  <2>5. CASE j = d.job
    <3>1. TriedBy(j)' = TriedBy(j) \cup {n}
      BY <1>1, <2>1, <2>2, <2>5, GotoTries DEF Tries
    <3>2. /\ printed'[j] = printed[j] /\ doubt'[j] = doubt[j] + 1
          /\ printed[j] \in Nat /\ doubt[j] \in Nat /\ ToClaim(j) \in {0, 1}
      BY <1>1, <2>3, <2>5, ToClaimType
    <3>3. printed'[j] + ToClaim(j)' - doubt'[j] < printed[j] + ToClaim(j) - doubt[j]
      BY <2>4, <3>2
    <3>4. printed'[j] \in Nat /\ doubt'[j] \in Nat
      BY <3>2
    <3> QED
      BY <1>1, <2>4, <3>1, <3>3, <3>4, OneMoreTry
  <2>6. CASE j # d.job
    <3>1. TriedBy(j)' \subseteq TriedBy(j)
      BY <1>1, <2>1, <2>6, GotoTries DEF Tries
    <3>2. /\ printed'[j] = printed[j] /\ doubt'[j] = doubt[j]
          /\ printed[j] \in Nat /\ doubt[j] \in Nat
      BY <1>1, <2>3, <2>6
    <3> QED
      BY <1>1, <2>4, <3>1, <3>2, ToClaimType, NoMoreTries
  <2> QED
    BY <2>5, <2>6
<1>4. CASE FailureFails(n, p)
  <2>1. Goto(n, p, last) /\ UNCHANGED doubt /\ d.at \in {"markFailed", "markLate"}
    BY <1>4 DEF FailureFails, At
  <2>2. d.job \in Job /\ PrinterOf[d.job] = p
    BY <2>1 DEF QueueInv, DrainsHoldOwnJobs, Holds, Late, JobsOf
  <2>3. TriedBy(j)' = IF PrinterOf[j] # p THEN TriedBy(j) ELSE TriedBy(j) \ {n}
    BY <1>1, <1>2, <2>1, GotoTries
  <2>4. printed'[j] = printed[j] /\ doubt'[j] = doubt[j]
        /\ printed[j] \in Nat /\ doubt[j] \in Nat
    BY <1>1, <2>1
  <2>5. CASE j = d.job
    <3>1. n \in TriedBy(j) /\ TriedBy(j)' = TriedBy(j) \ {n}
      BY <2>1, <2>2, <2>3, <2>5 DEF TriedBy, Tries
    <3>2. ToClaim(j)' \in {0, 1}
      BY DEF ToClaim
    <3> QED
      BY <1>1, <2>4, <3>1, <3>2, ToClaimType, OneTryLess
  <2>6. CASE j # d.job
    <3>1. ToClaim(j)' = ToClaim(j)
      <4>1. job'[j] = job[j]
        BY <1>1, <1>4, <2>2, <2>6 DEF FailureFails, RecordFailure, TypeOK
      <4> QED
        BY <4>1 DEF ToClaim
    <3> QED
      BY <1>1, <2>3, <2>4, <3>1, ToClaimType, NoMoreTries
  <2> QED
    BY <2>5, <2>6
<1>5. CASE ClaimFails(n, p)
  <2>1. Goto(n, p, last) /\ UNCHANGED doubt
    BY <1>5 DEF ClaimFails
  <2>2. TriedBy(j)' \subseteq TriedBy(j)
    BY <1>1, <1>2, <2>1, GotoTries
  <2>3. ToClaim(j)' \in {0, 1} /\ ToClaim(j)' <= ToClaim(j)
    <3>1. job'[j].status \in {job[j].status, "PROCESSING"}
      BY <1>1, <1>5 DEF ClaimFails, MarkClaimed, TypeOK
    <3> QED
      BY <3>1 DEF ToClaim
  <2>4. printed'[j] = printed[j] /\ doubt'[j] = doubt[j]
        /\ printed[j] \in Nat /\ doubt[j] \in Nat
    BY <1>1, <2>1
  <2> QED
    BY <1>1, <2>2, <2>3, <2>4, ToClaimType, NoMoreTries
<1> QED
  BY <1>3, <1>4, <1>5 DEF StatementFails

LEMMA EndDrainKeepsCopies ==
  ASSUME QueueInv, CopyInv, NEW n \in Node, NEW p \in Printer, NEW j \in Job,
         EndDrain(n, p)
  PROVE  CopiesHaveReasons(j)'
<1>1. /\ TypeOK /\ UNCHANGED <<job, printed, doubt>> /\ CopiesHaveReasons(j)
      /\ printed[j] \in Nat /\ doubt[j] \in Nat /\ Goto(n, p, NoDrain)
  BY DEF QueueInv, CopyInv, EndDrain
<1>2. NoDrain \in Drain /\ ~Tries(NoDrain, j)
  BY DEF NoDrain, Drain, DrainStep, Tries
<1>3. TriedBy(j)' \subseteq TriedBy(j)
  BY <1>1, <1>2, GotoTries
<1>4. ToClaim(j)' = ToClaim(j)
  BY <1>1 DEF ToClaim
<1> QED
  BY <1>1, <1>3, <1>4, ToClaimType, NoMoreTries

(* What is enqueued was to be claimed before; what is retried has a reason. *)
LEMMA QueueingKeepsCopies ==
  ASSUME QueueInv, CopyInv, NEW j \in Job,
         \/ \E n \in Node, k \in Job : Enqueue(n, k)
         \/ \E u \in Staff : CommitRetry(u)
  PROVE  CopiesHaveReasons(j)'
<1>1. /\ TypeOK /\ UNCHANGED printed /\ CopiesHaveReasons(j)
      /\ printed[j] \in Nat /\ doubt \in [Job -> Nat]
  BY DEF QueueInv, CopyInv, Enqueue, CommitRetry
<1>2. ToClaim(j)' \in {0, 1}
  BY DEF ToClaim
<1>3. ASSUME NEW n \in Node, NEW k \in Job, Enqueue(n, k)
      PROVE  CopiesHaveReasons(j)'
  <2>1. TriedBy(j)' = TriedBy(j) /\ UNCHANGED doubt
    BY <1>1, <1>3, EnsureDrainTries DEF Enqueue
  <2>2. ToClaim(j)' = ToClaim(j)
    BY <1>1, <1>3 DEF Enqueue, TypeOK, ToClaim, QueuedRow
  <2> QED
    BY <1>1, <2>1, <2>2, ToClaimType, NoMoreTries
<1>4. ASSUME NEW u \in Staff, CommitRetry(u)
      PROVE  CopiesHaveReasons(j)'
  <2>1. PICK k \in Job, n \in Node : k = request[u].job /\ n = request[u].node
    BY <1>1, <1>4 DEF CommitRetry, QueueInv, TypeOK, Request, RequestsHaveNodes
  <2>2. TriedBy(j)' = TriedBy(j)
    BY <1>1, <1>4, <2>1, EnsureDrainTries DEF CommitRetry
  <2>3. CASE j = k
    <3>1. doubt'[j] = doubt[j] + 1
      BY <1>1, <1>4, <2>1, <2>3 DEF CommitRetry, Doubted
    <3> QED
      BY <1>1, <1>2, <2>2, <3>1, ToClaimType, NoMoreTries
  <2>4. CASE j # k
    <3>1. doubt'[j] = doubt[j]
      BY <1>1, <1>4, <2>1, <2>4 DEF CommitRetry, Doubted
    <3>2. ToClaim(j)' = ToClaim(j)
      BY <1>1, <1>4, <2>1, <2>4 DEF CommitRetry, TypeOK, ToClaim
    <3> QED
      BY <1>1, <2>2, <3>1, <3>2, ToClaimType, NoMoreTries
  <2> QED
    BY <2>3, <2>4
<1> QED
  BY <1>3, <1>4

LEMMA OthersKeepCopies ==
  ASSUME QueueInv, CopyInv, NEW j \in Job,
         \/ \E n \in Node, p \in Printer : Recheck(n, p)
         \/ \E n \in Node : Sweep(n) \/ Crash(n) \/ Restart(n)
         \/ \E k \in Job : BecomesDue(k)
         \/ \E u \in Staff, n \in Node, k \in Job : BeginRetry(u, n, k)
         \/ UNCHANGED vars
  PROVE  CopiesHaveReasons(j)'
<1>1. /\ TypeOK /\ UNCHANGED <<printed, doubt>> /\ CopiesHaveReasons(j)
      /\ printed[j] \in Nat /\ doubt[j] \in Nat
  BY DEF QueueInv, CopyInv, Recheck, Sweep, Crash, Restart, BecomesDue, BeginRetry, vars
<1>2. ToClaim(j)' = ToClaim(j)
  BY <1>1 DEF Recheck, Sweep, Crash, Restart, BecomesDue, BeginRetry, vars, ToClaim,
              TypeOK, JobRow
<1>3. TriedBy(j)' \subseteq TriedBy(j)
  <2>1. CASE UNCHANGED drain
    BY <2>1 DEF TriedBy
  <2>2. ASSUME NEW n \in Node, NEW P, EnsureDrain(n, P)
        PROVE  TriedBy(j)' \subseteq TriedBy(j)
    BY <1>1, <2>2, EnsureDrainTries
  <2>3. ASSUME NEW n \in Node, Crash(n)
        PROVE  TriedBy(j)' \subseteq TriedBy(j)
    <3>1. /\ drain'[n] = [p \in Printer |-> NoDrain]
          /\ \A m \in Node \ {n} : drain'[m] = drain[m]
      BY <1>1, <2>3 DEF Crash, TypeOK
    <3> QED
      BY <3>1, PrinterAssumption DEF TriedBy, Tries, NoDrain
  <2> QED
    BY <2>1, <2>2, <2>3 DEF Recheck, Sweep, Restart, BecomesDue, BeginRetry, vars
<1> QED
  BY <1>1, <1>2, <1>3, ToClaimType, NoMoreTries

LEMMA CopyStep ==
  ASSUME QueueInv, CopyInv, [Next]_vars
  PROVE  CopyInv'
<1>1. \A j \in Job : CopiesHaveReasons(j)'
  BY ClaimKeepsCopies, DispatchKeepsCopies, ResultKeepsCopies, StatementFailsKeepsCopies,
     EndDrainKeepsCopies, QueueingKeepsCopies, OthersKeepCopies DEF Next, DrainNext
<1>2. printed' = [j \in Job |-> printed'[j]] /\ doubt' = [j \in Job |-> doubt'[j]]
  <2>1. ASSUME NEW n \in Node, NEW p \in Printer, DrainNext(n, p) \/ StatementFails(n, p)
        PROVE  /\ printed' = printed \/ \E k : printed' = [printed EXCEPT ![k] = @ + 1]
               /\ doubt' = doubt \/ \E k : doubt' = [doubt EXCEPT ![k] = @ + 1]
    <3>1. CASE Claim(n, p) \/ MarkSucceeded(n, p) \/ MarkFailed(n, p) \/ EndDrain(n, p)
      BY <3>1 DEF Claim, MarkSucceeded, MarkFailed, EndDrain
    <3>2. CASE DispatchReturns(n, p) \/ StatementFails(n, p)
      BY <3>2 DEF DispatchReturns, StatementFails, SuccessFails, FailureFails, ClaimFails, Doubted
    <3>3. ASSUME NEW retryable \in BOOLEAN, NEW hasPrinted \in BOOLEAN,
                 DispatchThrows(n, p, retryable, hasPrinted)
          PROVE  /\ printed' = printed \/ \E k : printed' = [printed EXCEPT ![k] = @ + 1]
                 /\ doubt' = doubt \/ \E k : doubt' = [doubt EXCEPT ![k] = @ + 1]
      BY <3>3 DEF DispatchThrows, Doubted
    <3> QED
      BY <2>1, <3>1, <3>2, <3>3 DEF DrainNext
  <2>2. CASE printed' = printed /\ (doubt' = doubt \/ \E u \in Staff : CommitRetry(u))
    BY <2>2 DEF CommitRetry, Doubted, CopyInv
  <2>3. \/ \E n \in Node, p \in Printer : DrainNext(n, p) \/ StatementFails(n, p)
        \/ printed' = printed /\ (doubt' = doubt \/ \E u \in Staff : CommitRetry(u))
    BY DEF Next, vars, Recheck, Sweep, Crash, Restart, Enqueue, BecomesDue, CommitRetry,
       BeginRetry
  <2> QED
    BY <2>1, <2>2, <2>3 DEF CopyInv
<1> QED
  BY <1>1, <1>2 DEF CopyInv, CopiesHaveReasons

(* markPrintJobFailed, retryManagedPrintJob and the drain loop: whatever is  *)
(* claimed, thrown, crashed and retried, by however many processes, a job    *)
(* comes out once and once more for each reason to doubt or to ask again.    *)
THEOREM PrintedInDoubt == Spec => []PrintedAgainOnlyInDoubt
<1>1. Init => CopyInv
  BY InitCopies
<1>2. QueueInv /\ CopyInv /\ [Next]_vars => CopyInv'
  BY CopyStep
<1>3. CopyInv => PrintedAgainOnlyInDoubt
  <2> SUFFICES ASSUME CopyInv, NEW j \in Job PROVE printed[j] <= 1 + doubt[j]
    BY DEF PrintedAgainOnlyInDoubt
  <2>1. CopiesHaveReasons(j) /\ Cardinality(TriedBy(j)) \in Nat /\ ToClaim(j) \in {0, 1}
    BY FS_CardinalityType, ToClaimType DEF CopyInv, CopiesHaveReasons
  <2> QED
    BY <2>1 DEF CopiesHaveReasons
<1> QED
  BY <1>1, <1>2, <1>3, QueueInvariance, PTL DEF Spec
=============================================================================
