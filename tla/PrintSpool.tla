----------------------------- MODULE PrintSpool -----------------------------
(***************************************************************************)
(* What the managed print queue promises its users: jobs of a printer are  *)
(* delivered one at a time, a delivered job is done with, a job that gives *)
(* up can be handed in again.  A success that went unanswered is unsure:   *)
(* it may yet be taken for a failure.  A job whose delivery is abandoned,  *)
(* or never known of, is lost, and so is its printer; and two overlapping  *)
(* retries of one job void the promise for its printer.                    *)
(***************************************************************************)
EXTENDS Integers

CONSTANTS Job, Printer, PrinterOf

VARIABLE phase   \* phase[j]: where job j is

Phase == {"none", "queued", "active", "unsure", "done", "failed", "lost", "void"}

SpoolInit == phase = [j \in Job |-> "none"]

Move(j, from, to) == phase[j] \in from /\ phase' = [phase EXCEPT ![j] = to]

PrinterFree(j) ==
  \A k \in Job : PrinterOf[k] = PrinterOf[j] => phase[k] \notin {"active", "lost"}

Submit(j) == Move(j, {"none", "failed"}, "queued")
Start(j) == PrinterFree(j) /\ Move(j, {"queued"}, "active")
Finish(j) == Move(j, {"active"}, "done")
FinishUnanswered(j) == Move(j, {"active"}, "unsure")
Requeue(j) == Move(j, {"active", "unsure"}, "queued")
GiveUp(j) == Move(j, {"active", "unsure"}, "failed")
Lose(j) == PrinterFree(j) /\ Move(j, {"queued"}, "lost")

(* What a process leaves behind of the jobs J it was busy with.            *)
Left == [active |-> "lost", unsure |-> "done"]
Abandon(J) ==
  /\ \A j \in J : phase[j] \in DOMAIN Left
  /\ phase' = [j \in Job |-> IF j \in J THEN Left[phase[j]] ELSE phase[j]]

Void(p) == phase' = [j \in Job |-> IF PrinterOf[j] = p THEN "void" ELSE phase[j]]

SpoolMove ==
  \/ \E j \in Job : \/ Submit(j) \/ Start(j) \/ Finish(j) \/ FinishUnanswered(j)
                    \/ Requeue(j) \/ GiveUp(j) \/ Lose(j)
  \/ \E J \in SUBSET Job : Abandon(J)
  \/ \E p \in Printer : Void(p)

(* Every step of the spool is one its users can see.                       *)
SpoolNext == phase' # phase /\ SpoolMove

SpoolSpec == SpoolInit /\ [][SpoolNext]_phase
=============================================================================
