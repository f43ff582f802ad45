---------------------------- MODULE CardTerminals ----------------------------
(***************************************************************************)
(* Card terminal sessions on top of the sale transactions.                 *)
(*                                                                         *)
(* A session is made for a CARD payment intent and is named by it.  Every   *)
(* request reads the session, asks the provider, and settles what it hears  *)
(* in a chain of transactions of its own: add a CARD tender, note it on     *)
(* the session, capture the intent, save the status.  The session is never  *)
(* locked and never read again on the way, other requests run in between,   *)
(* and the process may die between any two links of the chain.              *)
(*                                                                         *)
(* In mock mode, a switch of the environment, no provider is asked.         *)
(*                                                                         *)
(* overlapped is a history variable: TRUE once two requests have been in   *)
(* progress together.                                                      *)
(***************************************************************************)
EXTENDS SalePayments

CONSTANTS
  MaxSessions,  \* bound: MaxSessions[mock] terminal sales are begun at most
  Beside        \* bound: Beside[mock] are the other requests about a sale that are made

VARIABLES
  session,   \* session[i]: the CardTerminalSession row of intent i
  provider,  \* provider[i]: what the terminal and Dojo know of the payment
  term,      \* term[t]: the terminal request t is serving
  mock,      \* DOJO_MOCK_MODE
  overlapped \* have two requests been in progress together?

termVars == <<session, provider, term>>
terminalsVars == <<vars, termVars, mock, overlapped>>

SessionStatus == {"NONE", "INITIATED", "CAPTURED", "DECLINED", "CANCELED", "FAILED"}
Final == {"CAPTURED", "DECLINED", "CANCELED", "FAILED"}
SessionRow == [status : SessionStatus, tendered : BOOLEAN]
NoSession == [status |-> "NONE", tendered |-> FALSE]

Provider == {"none", "INITIATED", "CAPTURED", "DECLINED", "CANCELED"}

Link == {"idle", "creating", "opening", "asking", "canceling", "signing", "settling",
         "tender", "tendering", "noting", "capture", "capturing", "failing", "finishing",
         "saving"}
Request == [at : Link, session : Intent \cup {None}, seen : SessionRow,
            next : SessionStatus]
NoRequest == [at |-> "idle", session |-> None, seen |-> NoSession, next |-> "NONE"]

(* Bound: a cash session stays open.  It decides about cash intents and the  *)
(* drawer, card payments do not ask for it.                                  *)
TerminalsInit ==
  /\ Init
  /\ till
  /\ session = [i \in Intent |-> NoSession]
  /\ provider = [i \in Intent |-> "none"]
  /\ term = [t \in Txn |-> NoRequest]
  /\ mock \in BOOLEAN
  /\ overlapped = FALSE

-----------------------------------------------------------------------------
Ready(t) == term[t].at = "idle" /\ op[t] = "idle"
Reached(t, link) == term[t].at = link /\ op[t] = "idle"
Go(t, link) == term' = [term EXCEPT ![t].at = link]
Done(t) == term' = [term EXCEPT ![t] = NoRequest]
Mine(t) == term[t].session
MySale(t) == intent[Mine(t)].sale

HasIntent(i) == intent[i].status \notin {"NONE", "DELETED"}
HasSession(i) == session[i].status # "NONE"
Save(i, status) == session' = [session EXCEPT ![i].status = status]

\* mutant: an intent that was never captured is taken back
OverwriteAnyIntent(i, status) ==
  LET s == intent[i].sale
  IN  /\ ilock[i] = None
      /\ HasIntent(i) /\ lock[s] = None
      /\ intent' = [intent EXCEPT ![i].status = status]
      /\ row' = [row EXCEPT ![s].captured[intent[i].method] = @ - intent[i].amount]
      /\ UNCHANGED <<layaway, till, lock, ilock, op, arg, seen, seenLay, emitted>>

(* prisma.paymentIntent.update without a look at the intent's status; an     *)
(* intent that is gone is no error.  Money of an intent that is captured no  *)
(* more is still paid.  The update waits for the intent's lock; that it      *)
(* waits for the sale's as well is a bound, as what runs under that lock     *)
(* reads captured intents once.                                             *)
OverwriteIntent(i, status) ==
  LET s == intent[i].sale
  IN  /\ ilock[i] = None
      /\ IF ~HasIntent(i) THEN UNCHANGED <<row, intent>>
         ELSE /\ lock[s] = None
              /\ intent' = [intent EXCEPT ![i].status = status]
              /\ row' = IF intent[i].status = "CAPTURED"
                        THEN [row EXCEPT ![s].captured[intent[i].method] = @ - intent[i].amount]
                        ELSE row
      /\ UNCHANGED <<layaway, till, lock, ilock, op, arg, seen, seenLay, emitted>>

TerminalSales ==
  {i \in Intent : intent[i].status # "NONE"} \cup {t \in Txn : term[t].at = "creating"}

(* createCardTerminalSaleSession: the local intent first, in a transaction.  *)
BeginTerminalSale(t, s, a) ==
  /\ Ready(t)
  /\ Cardinality(TerminalSales) < MaxSessions[mock]
  /\ BeginCreateIntent(t, s, "CARD", a)
  /\ Go(t, "creating")
  /\ UNCHANGED <<session, provider>>

TerminalIntentCreated(t) ==
  /\ term[t].at = "creating"
  /\ CommitCreateIntent(t)
  /\ \E i \in Intent :
       /\ intent[i].status = "NONE" /\ intent'[i].status # "NONE"
       /\ term' = [term EXCEPT ![t].at = "opening", ![t].session = i]
  /\ UNCHANGED <<session, provider>>

(* Then the provider's intent and session, and the session row with the     *)
(* status the provider answers; the intent is left as it is.  INITIATED     *)
(* stands for every status that is not final.  Bound: a session that was    *)
(* just opened is not captured yet.                                         *)
OpenSession(t) ==
  LET i == Mine(t)
  IN  /\ Reached(t, "opening")
      /\ HasIntent(i)
      /\ \E answer \in {"INITIATED"} \cup (IF mock THEN {} ELSE {"DECLINED", "CANCELED"}) :
           /\ provider' = [provider EXCEPT ![i] = answer]
           /\ Save(i, answer)
      /\ Done(t)
      /\ UNCHANGED vars

OpeningFails(t) ==
  /\ Reached(t, "opening")
  /\ OverwriteIntent(Mine(t), "FAILED")
  /\ Done(t)
  /\ UNCHANGED <<session, provider>>

(* The customer at the terminal, and the answer to a signature request.      *)
CustomerActs(i) ==
  /\ ~mock
  /\ provider[i] = "INITIATED"
  /\ \E outcome \in {"CAPTURED", "DECLINED"} :
       provider' = [provider EXCEPT ![i] = outcome]
  /\ UNCHANGED <<vars, session, term>>

(* A request reads the session once and goes on from what it has read.       *)
Ask(t, i, link) ==
  /\ Ready(t)
  /\ HasSession(i)
  /\ term' = [term EXCEPT ![t] = [NoRequest EXCEPT !.at = link, !.session = i,
                                                  !.seen = session[i]]]
  /\ UNCHANGED <<vars, session, provider>>

(* refreshCardTerminalSession and cancelCardTerminalSession; the answer to a *)
(* signature request goes to the provider, and a refresh follows it.         *)
BeginRequest(t, i, link) ==
  /\ session[i].status \notin Final
  /\ Ask(t, i, link)

(* respondToCardTerminalSignature in mock mode answers for the provider, and *)
(* does not look whether the session is final.                               *)
BeginSignature(t, i) ==
  /\ mock
  /\ Ask(t, i, "signing")

\* mutant: what the provider captured is saved without being settled
HeardOnly(t, answer) ==
  term' = [term EXCEPT ![t].next = answer,
                       ![t].at = IF answer \in Final \ {"CAPTURED"} THEN "finishing"
                                 ELSE "saving"]

(* updateSessionFromProviderState starts from the provider's answer; a       *)
(* session that was captured when it was read is not settled again.          *)
Heard(t, answer) ==
  term' = [term EXCEPT ![t].next = answer,
                       ![t].at = IF answer \in Final \ {"CAPTURED"} THEN "finishing"
                                 ELSE IF answer # term[t].seen.status
                                         /\ answer = "CAPTURED" THEN "settling"
                                 ELSE "saving"]

ProviderAnswers(t) ==
  /\ Reached(t, "asking")
  /\ Heard(t, IF mock THEN "CAPTURED" ELSE provider[Mine(t)])
  /\ UNCHANGED <<vars, session, provider>>

ProviderCancels(t) ==
  LET i == Mine(t)
  IN  /\ Reached(t, "canceling")
      /\ provider' = [provider EXCEPT ![i] = IF @ = "INITIATED" THEN "CANCELED" ELSE @]
      /\ Heard(t, provider'[i])
      /\ UNCHANGED <<vars, session>>

SignatureAnswered(t) ==
  /\ Reached(t, "signing")
  /\ \E answer \in {"CAPTURED", "DECLINED"} : Heard(t, answer)
  /\ UNCHANGED <<vars, session, provider>>

(* settleCapturedTerminalSession: a completed sale needs no more money.      *)
Settle(t) ==
  /\ Reached(t, "settling")
  /\ Go(t, IF MySale(t) \in Sale /\ row[MySale(t)].status = "completed" THEN "saving"
           ELSE IF term[t].seen.tendered THEN "capture"
           ELSE "tender")
  /\ UNCHANGED <<vars, session, provider>>

BeginTender(t) ==
  /\ Reached(t, "tender")
  /\ IF MySale(t) \in Sale
     THEN BeginAddTender(t, MySale(t), "CARD", intent[Mine(t)].amount) /\ Go(t, "tendering")
     ELSE UNCHANGED vars /\ Go(t, "failing")
  /\ UNCHANGED <<session, provider>>

TenderAdded(t) ==
  /\ term[t].at = "tendering"
  /\ CommitAddTender(t)
  /\ Go(t, "noting")
  /\ UNCHANGED <<session, provider>>

TenderRefused(t) ==
  /\ term[t].at = "tendering"
  /\ seen[t].status # "open"
  /\ Rollback(t)
  /\ Go(t, "failing")
  /\ UNCHANGED <<session, provider>>

NoteTender(t) ==
  /\ Reached(t, "noting")
  /\ HasSession(Mine(t))
  /\ session' = [session EXCEPT ![Mine(t)].tendered = TRUE]
  /\ Go(t, "capture")
  /\ UNCHANGED <<vars, provider>>

BeginSettleCapture(t) ==
  /\ Reached(t, "capture")
  /\ IF intent[Mine(t)].status \in {"REQUIRES_ACTION", "CAPTURED"}
     THEN BeginCapture(t, Mine(t)) /\ Go(t, "capturing")
     ELSE UNCHANGED vars /\ Go(t, "failing")
  /\ UNCHANGED <<session, provider>>

SettleCaptureLocksSale(t) ==
  /\ term[t].at = "capturing"
  /\ CaptureLocksSale(t)
  /\ UNCHANGED termVars

Captured(t) ==
  /\ term[t].at = "capturing"
  /\ CommitCapture(t)
  /\ Go(t, "saving")
  /\ UNCHANGED <<session, provider>>

CaptureRefused(t) ==
  /\ term[t].at = "capturing" /\ op[t] = "capture"
  /\ ~ENABLED CommitCapture(t)
  /\ Rollback(t)
  /\ Go(t, "failing")
  /\ UNCHANGED <<session, provider>>

(* The tender was deleted meanwhile, or the update fails.                    *)
NotingFails(t) ==
  /\ Reached(t, "noting")
  /\ Go(t, "failing")
  /\ UNCHANGED <<vars, session, provider>>

(* The catch branch: the session fails, its intent is left as it is.         *)
SaveFailed(t) ==
  /\ Reached(t, "failing")
  /\ HasSession(Mine(t))
  /\ Save(Mine(t), "FAILED")
  /\ Done(t)
  /\ UNCHANGED <<vars, provider>>

(* markCoreIntentFinished *)
FinishIntent(t) ==
  /\ Reached(t, "finishing")
  /\ OverwriteIntent(Mine(t), IF term[t].next = "CANCELED" THEN "CANCELED" ELSE "FAILED")
  /\ Go(t, "saving")
  /\ UNCHANGED <<session, provider>>

SaveAnswer(t) ==
  /\ Reached(t, "saving")
  /\ HasSession(Mine(t))
  /\ Save(Mine(t), term[t].next)
  /\ Done(t)
  /\ UNCHANGED <<vars, provider>>

(* The session row went with its sale: the update throws.                    *)
SessionGone(t) ==
  /\ term[t].at \in {"noting", "failing", "saving"} /\ op[t] = "idle"
  /\ ~HasSession(Mine(t))
  /\ Done(t)
  /\ UNCHANGED <<vars, session, provider>>

(* createPaymentIntent refuses, or the process dies.                         *)
AbandonRequest(t) ==
  /\ term[t].at # "idle"
  /\ Done(t)
  /\ IF op[t] = "idle" THEN UNCHANGED vars ELSE Rollback(t)
  /\ UNCHANGED <<session, provider>>

-----------------------------------------------------------------------------
TerminalRequest(t) ==
  \/ \E s \in Sale, a \in Amounts : BeginTerminalSale(t, s, a)
  \/ \E i \in Intent, link \in {"asking", "canceling"} : BeginRequest(t, i, link)
  \/ \E i \in Intent : BeginSignature(t, i)
  \/ TerminalIntentCreated(t) \/ OpenSession(t) \/ OpeningFails(t)
  \/ ProviderAnswers(t) \/ ProviderCancels(t) \/ SignatureAnswered(t) \/ Settle(t)
  \/ BeginTender(t) \/ TenderAdded(t) \/ TenderRefused(t)
  \/ NoteTender(t) \/ NotingFails(t)
  \/ BeginSettleCapture(t) \/ SettleCaptureLocksSale(t) \/ Captured(t) \/ CaptureRefused(t)
  \/ SaveFailed(t) \/ FinishIntent(t) \/ SaveAnswer(t) \/ SessionGone(t) \/ AbandonRequest(t)

(* A session whose tender may be the one that t deletes: the column is set   *)
(* to null with the tender.  Which tender a row of the sums is, is not kept.  *)
MayLoseTender(t, i) ==
  /\ op[t] = "deleteTender"
  /\ session[i].tendered
  /\ intent[i].sale = arg[t].sale
  /\ intent[i].method = arg[t].method /\ intent[i].amount = arg[t].amount

(* Every other request about the sale; its return to the basket deletes the  *)
(* sessions too.                                                             *)
OtherSaleRequest(t) ==
  /\ \/ /\ term[t].at = "idle"
        /\ \/ Begin(t) /\ op'[t] \in Beside[mock]
           \/ CaptureLocksSale(t) \/ ListReadsSources(t) \/ Commit(t) \/ Rollback(t)
     \/ EmitCompleted(t)
  /\ \E lost \in {None} \cup {i \in Intent : CommitDeleteTender(t) /\ MayLoseTender(t, i)} :
       session' = [i \in Intent |-> IF ~HasIntent(i)' THEN NoSession
                                    ELSE IF i = lost THEN [session[i] EXCEPT !.tendered = FALSE]
                                    ELSE session[i]]
  /\ UNCHANGED <<provider, term>>

RequestsOverlap == \E t, u \in Txn : t # u /\ ~Ready(t) /\ ~Ready(u)

TerminalsNext ==
  /\ \/ \E t \in Txn : TerminalRequest(t) \/ OtherSaleRequest(t)
     \/ \E i \in Intent : CustomerActs(i)
     \/ (\E i \in Intent : CancelIntent(i)) /\ UNCHANGED termVars
  /\ UNCHANGED mock
  /\ overlapped' = (overlapped \/ RequestsOverlap')

TerminalsSpec == TerminalsInit /\ [][TerminalsNext]_terminalsVars
-----------------------------------------------------------------------------
(* Properties *)

(* updateSessionFromProviderState: however requests overlap, stop and are     *)
(* repeated, a session says CAPTURED only when its money is in the payments   *)
(* of the sale, or the sale was completed without it.                        *)
CapturedSessionIsPaid ==
  \A i \in Intent : session[i].status = "CAPTURED" =>
    \/ row[intent[i].sale].status = "completed"
    \/ row[intent[i].sale].paid[intent[i].method] >= intent[i].amount

(* markCoreIntentFinished may turn a captured intent into a failed one, and   *)
(* its money stays paid: what createPaymentIntent and capture count is the    *)
(* payments, so a sale is never charged for more than it is worth.           *)
PaidWithinTotal == \A s \in Sale : Amount(row[s].paid) <= Total[s]

(* isFinalStatus: with a live provider a session that is final is done with,  *)
(* for the POS stops asking, as long as no two requests about it overlapped.  *)
(* In mock mode a signature response moves it.                               *)
FinalSessionStays ==
  [][\A i \in Intent : ~mock /\ ~overlapped /\ session[i].status \in Final
       => session'[i].status \in {session[i].status, "NONE"}]_session
=============================================================================
