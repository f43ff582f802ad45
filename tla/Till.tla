-------------------------------- MODULE Till --------------------------------
(***************************************************************************)
(* Cash sessions: opening, counting and closing them.                      *)
(*                                                                         *)
(* None of these operations locks the CashSession row, and nothing but a   *)
(* read keeps a second session from being opened.  Each one is a read and  *)
(* a later write; a blind close is a count and a close, in two             *)
(* transactions that other requests may come between.  What is paid in or  *)
(* out by hand only adds to the cash a session expects and is left out.    *)
(***************************************************************************)
EXTENDS Integers

CONSTANTS
  Session,   \* rows of CashSession
  Txn,       \* requests served at a time
  NoSession

ASSUME NoSessionAssumption == NoSession \notin Session

VARIABLES
  session,   \* session[s]: the CashSession row, and whether it has a count
  errand,    \* errand[t]: the till operation t is serving
  doubled    \* two requests to open a session overlapped (history)

till == <<session, errand, doubled>>

SessionRow == [status : {"NONE", "OPEN", "CLOSED"}, counted : BOOLEAN]
Errand == [at : {"idle", "open", "close"}, session : Session \cup {NoSession}]
NoErrand == [at |-> "idle", session |-> NoSession]

TillInit ==
  /\ session = [s \in Session |-> [status |-> "NONE", counted |-> FALSE]]
  /\ errand = [t \in Txn |-> NoErrand]
  /\ doubled = FALSE

OpenSessions == {s \in Session : session[s].status = "OPEN"}

(* findFirst by openedAt, which is the start of a transaction and not its     *)
(* commit: of several open sessions any may be the newest.                   *)
SessionsFound == IF OpenSessions = {} THEN {NoSession} ELSE OpenSessions

Serve(t, at, s) == errand' = [errand EXCEPT ![t] = [at |-> at, session |-> s]]

EndErrand(t) == errand' = [errand EXCEPT ![t] = NoErrand]

-----------------------------------------------------------------------------
\* mutant: no look at the sessions that are open
BeginOpenAnother(t) ==
  /\ Serve(t, "open", NoSession)
  /\ doubled' = (doubled \/ \E u \in Txn \ {t} : errand[u].at = "open")
  /\ UNCHANGED session

(* openCashSession, and a FLOAT movement that finds no session.              *)
BeginOpen(t) ==
  /\ OpenSessions = {}
  /\ Serve(t, "open", NoSession)
  /\ doubled' = (doubled \/ \E u \in Txn \ {t} : errand[u].at = "open")
  /\ UNCHANGED session

CommitOpen(t, s) ==
  /\ errand[t].at = "open"
  /\ session[s].status = "NONE"
  /\ session' = [session EXCEPT ![s].status = "OPEN"]
  /\ EndErrand(t)
  /\ UNCHANGED doubled

(* recordCashCount, by itself or as the first half of                        *)
(* closeCurrentRegisterBlind.  A session that is closed between its read and  *)
(* its write has its count already.                                          *)
RecordCount(t, s, blind) ==
  /\ session[s].status = "OPEN"
  /\ session' = [session EXCEPT ![s].counted = TRUE]
  /\ IF blind THEN Serve(t, "close", s) ELSE UNCHANGED errand
  /\ UNCHANGED doubled

(* closeCashSession reads the status and the count, and writes the status;    *)
(* a count stays, and to close a closed session again changes nothing.       *)
Close(t, s) ==
  /\ session[s].counted
  /\ session' = [session EXCEPT ![s].status = "CLOSED"]
  /\ EndErrand(t)
  /\ UNCHANGED doubled

CloseSession(t, s) == session[s].status = "OPEN" /\ Close(t, s)

CommitClose(t) == errand[t].at = "close" /\ Close(t, errand[t].session)

ErrandFails(t) ==
  /\ errand[t].at # "idle"
  /\ EndErrand(t)
  /\ UNCHANGED <<session, doubled>>

-----------------------------------------------------------------------------
TillRequest(t) ==
  /\ errand[t].at = "idle"
  /\ \/ BeginOpen(t)
     \/ \E s \in Session, blind \in BOOLEAN : RecordCount(t, s, blind)
     \/ \E s \in Session : CloseSession(t, s)

TillAnswer(t) ==
  \/ \E s \in Session : CommitOpen(t, s)
  \/ CommitClose(t) \/ ErrandFails(t)

(* openCashSession refuses while a session is open.  That check and the       *)
(* insert are apart, so two sessions can be open: but only after two requests *)
(* to open one overlapped, however sessions are closed in between.           *)
OneSessionUnlessDoubled == \A r, s \in OpenSessions : r = s \/ doubled
=============================================================================
