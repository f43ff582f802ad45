--------------------------- MODULE RefundsProofs ----------------------------
(***************************************************************************)
(* Proofs about Refunds, for any number of refunds, lines, sessions and    *)
(* requests.                                                               *)
(*                                                                         *)
(* TillInv: as long as no two openings overlapped, there is one request to *)
(* open a session at most, and it found none open.  RefundInv: a refund    *)
(* has one request at a time; while a request holds a row that it found to *)
(* be a draft, it is one; and what it checked of it still holds.           *)
(* AmountInv: what is left of each line is known to the one completion     *)
(* that has the sale (CheckedFits), and each completed refund has been     *)
(* booked once.  That refunds stay within the sale's total follows from    *)
(* the quantities alone, by a bound on the rounding of each refund's tax   *)
(* (TaxBound).                                                             *)
(***************************************************************************)
EXTENDS Refunds, SumTheorems

TillTypeOK ==
  /\ session \in [Session -> SessionRow]
  /\ errand \in [Txn -> Errand]
  /\ doubled \in BOOLEAN

Opens(t) == errand[t].at = "open"

OneOpening ==
  ~doubled => \A t, u \in Txn : Opens(t) /\ Opens(u) => t = u

OpeningFoundNone ==
  ~doubled => \A t \in Txn : Opens(t) => OpenSessions = {}

TillInv ==
  /\ TillTypeOK
  /\ OneOpening
  /\ OpeningFoundNone
  /\ OneSessionUnlessDoubled

RowsTypeOK ==
  /\ refund \in [Refund -> RefundRow]
  /\ serving \in [Txn -> Serving]
  /\ returned \in [Item -> Nat]

Serves(t, r) == serving[t].refund = r

OneRequestPerRefund ==
  \A t, u \in Txn, r \in Refund : Serves(t, r) /\ Serves(u, r) => t = u

RequestsNameRefunds ==
  \A t \in Txn : serving[t].at \in {"line", "complete", "checked"} => serving[t].refund \in Refund

DraftsAreHeld ==
  \A t \in Txn : serving[t].at \in {"line", "checked"} => Draft(serving[t].refund)

Settled(r) == refund[r].line # None /\ Tendered(r) = TotalOf(refund[r].line)

CheckedIsSettled == \A t \in Txn : serving[t].at = "checked" => Settled(serving[t].refund)

OneSaleRequest ==
  \A t, u \in Txn :
    serving[t].at \in {"checked", "return"} /\ serving[u].at \in {"checked", "return"} => t = u

ReturnFits ==
  \A t \in Txn : serving[t].at = "return" =>
    \A i \in Item : returned[i] + serving[t].qty[i] <= Sold[i]

ReturnedWithinSold == \A i \in Item : returned[i] <= Sold[i]

RefundInv ==
  /\ RowsTypeOK
  /\ OneRequestPerRefund
  /\ RequestsNameRefunds
  /\ DraftsAreHeld
  /\ CheckedIsSettled
  /\ CompletedRefundIsSettled
  /\ OneSaleRequest
  /\ ReturnFits
  /\ ReturnedWithinSold

-----------------------------------------------------------------------------
(* The till                                                                 *)

LEMMA NoErrandIsErrand == NoErrand \in Errand /\ NoErrand.at = "idle"
BY DEF NoErrand, Errand

LEMMA TillInitially == TillInit => TillInv
<1> SUFFICES ASSUME TillInit PROVE TillInv
  OBVIOUS
<1>1. TillTypeOK /\ OpenSessions = {} /\ \A t \in Txn : ~Opens(t)
  BY NoErrandIsErrand DEF TillInit, TillTypeOK, SessionRow, OpenSessions, Opens
<1> QED
  BY <1>1 DEF TillInv, OneOpening, OpeningFoundNone, OneSessionUnlessDoubled

(* A step that opens no session and begins no opening.                       *)
LEMMA QuietTillStep ==
  ASSUME TillInv, TillTypeOK', UNCHANGED doubled,
         \A s \in Session : session'[s].status = "OPEN" => session[s].status = "OPEN",
         \A t \in Txn : errand'[t].at = "open" => errand[t].at = "open"
  PROVE  TillInv'
<1>1. OpenSessions' \subseteq OpenSessions /\ \A t \in Txn : Opens(t)' => Opens(t)
  BY DEF OpenSessions, Opens
<1>2. OneOpening' /\ OpeningFoundNone' /\ OneSessionUnlessDoubled'
  BY <1>1 DEF TillInv, OneOpening, OpeningFoundNone, OneSessionUnlessDoubled
<1> QED
  BY <1>2 DEF TillInv

LEMMA EndErrandType ==
  ASSUME TillTypeOK, NEW t \in Txn, EndErrand(t)
  PROVE  /\ errand' \in [Txn -> Errand]
         /\ errand'[t].at = "idle" /\ \A u \in Txn \ {t} : errand'[u] = errand[u]
BY NoErrandIsErrand DEF EndErrand, TillTypeOK

LEMMA ServeType ==
  ASSUME TillTypeOK, NEW t \in Txn, NEW at \in {"open", "close"},
         NEW s \in Session \cup {NoSession}, Serve(t, at, s)
  PROVE  /\ errand' \in [Txn -> Errand]
         /\ errand'[t].at = at /\ \A u \in Txn \ {t} : errand'[u] = errand[u]
<1> DEFINE e == [at |-> at, session |-> s]
<1>1. e \in Errand /\ errand' = [errand EXCEPT ![t] = e]
  BY DEF Serve, Errand
<1> QED
  BY <1>1 DEF TillTypeOK

LEMMA BeginOpenKeeps ==
  ASSUME TillInv, NEW t \in Txn, BeginOpen(t)
  PROVE  TillInv'
<1>1. TillTypeOK
  BY DEF TillInv
<1>2. /\ errand' \in [Txn -> Errand]
      /\ errand'[t].at = "open" /\ \A u \in Txn \ {t} : errand'[u] = errand[u]
  BY <1>1, ServeType DEF BeginOpen
<1>3. TillTypeOK' /\ OpenSessions' = {}
  BY <1>1, <1>2 DEF BeginOpen, TillTypeOK, OpenSessions
<1>4. ~doubled' => \A u \in Txn : Opens(u)' => u = t
  BY <1>2 DEF BeginOpen, Opens
<1> QED
  BY <1>3, <1>4 DEF TillInv, OneOpening, OpeningFoundNone, OneSessionUnlessDoubled

LEMMA CommitOpenKeeps ==
  ASSUME TillInv, NEW t \in Txn, NEW s \in Session, CommitOpen(t, s)
  PROVE  TillInv'
<1>1. /\ errand' \in [Txn -> Errand]
      /\ errand'[t].at = "idle" /\ \A u \in Txn \ {t} : errand'[u] = errand[u]
  BY EndErrandType DEF CommitOpen, TillInv
<1>2. TillTypeOK'
  BY <1>1 DEF CommitOpen, TillInv, TillTypeOK, SessionRow
<1>3. OpenSessions' = OpenSessions \cup {s}
  BY DEF CommitOpen, OpenSessions, TillInv, TillTypeOK
<1>4. ~doubled' => OpenSessions' = {s} /\ \A u \in Txn : ~Opens(u)'
  BY <1>1, <1>3 DEF CommitOpen, Opens, TillInv, OneOpening, OpeningFoundNone
<1> QED
  BY <1>2, <1>4 DEF TillInv, OneOpening, OpeningFoundNone, OneSessionUnlessDoubled

LEMMA CloseKeeps ==
  ASSUME TillInv, NEW t \in Txn, NEW s \in Session, Close(t, s)
  PROVE  TillInv'
<1>1. /\ errand' \in [Txn -> Errand]
      /\ errand'[t].at = "idle" /\ \A u \in Txn \ {t} : errand'[u] = errand[u]
  BY EndErrandType DEF Close, TillInv
<1>2. TillTypeOK' /\ UNCHANGED doubled
  BY <1>1 DEF Close, TillInv, TillTypeOK, SessionRow
<1>3. \A x \in Session : session'[x].status = "OPEN" => session[x].status = "OPEN"
  BY DEF Close, TillInv, TillTypeOK
<1> QED
  BY <1>1, <1>2, <1>3, QuietTillStep

LEMMA RecordCountKeeps ==
  ASSUME TillInv, NEW t \in Txn, NEW s \in Session, NEW blind \in BOOLEAN,
         RecordCount(t, s, blind)
  PROVE  TillInv'
<1>1. /\ errand' \in [Txn -> Errand]
      /\ \A u \in Txn : errand'[u].at = "open" => errand[u].at = "open"
  <2>1. CASE blind
    BY <2>1, ServeType DEF RecordCount, TillInv
  <2>2. CASE ~blind
    BY <2>2 DEF RecordCount, TillInv, TillTypeOK
  <2> QED
    BY <2>1, <2>2
<1>2. TillTypeOK' /\ UNCHANGED doubled
  BY <1>1 DEF RecordCount, TillInv, TillTypeOK, SessionRow
<1>3. \A x \in Session : session'[x].status = session[x].status
  BY DEF RecordCount, TillInv, TillTypeOK
<1> QED
  BY <1>1, <1>2, <1>3, QuietTillStep

LEMMA TillStepKeeps ==
  ASSUME TillInv, NEW t \in Txn, TillRequest(t) \/ TillAnswer(t)
  PROVE  TillInv'
<1>1. CASE BeginOpen(t)
  BY <1>1, BeginOpenKeeps
<1>2. ASSUME NEW s \in Session, NEW blind \in BOOLEAN, RecordCount(t, s, blind) PROVE TillInv'
  BY <1>2, RecordCountKeeps
<1>3. ASSUME NEW s \in Session, CloseSession(t, s) PROVE TillInv'
  BY <1>3, CloseKeeps DEF CloseSession
<1>4. ASSUME NEW s \in Session, CommitOpen(t, s) PROVE TillInv'
  BY <1>4, CommitOpenKeeps
<1>6. CASE CommitClose(t)
  <2> DEFINE s == errand[t].session
  <2>1. CASE s \in Session
    BY <1>6, <2>1, CloseKeeps DEF CommitClose
  <2>2. CASE s \notin Session
    <3>1. UNCHANGED <<session, doubled>>
      BY <1>6, <2>2 DEF CommitClose, Close, TillInv, TillTypeOK
    <3>2. /\ errand' \in [Txn -> Errand]
          /\ errand'[t].at = "idle" /\ \A u \in Txn \ {t} : errand'[u] = errand[u]
      BY <1>6, EndErrandType DEF CommitClose, Close, TillInv
    <3> QED
      BY <3>1, <3>2, QuietTillStep DEF TillInv, TillTypeOK
  <2> QED
    BY <2>1, <2>2
<1>7. CASE ErrandFails(t)
  <2>1. /\ errand' \in [Txn -> Errand]
        /\ errand'[t].at = "idle" /\ \A u \in Txn \ {t} : errand'[u] = errand[u]
    BY <1>7, EndErrandType DEF ErrandFails, TillInv
  <2> QED
    BY <1>7, <2>1, QuietTillStep DEF ErrandFails, TillInv, TillTypeOK
<1> QED
  BY <1>1, <1>2, <1>3, <1>4, <1>6, <1>7 DEF TillRequest, TillAnswer

LEMMA TillUnchanged == TillInv /\ UNCHANGED till => TillInv'
BY DEF TillInv, till, TillTypeOK, OneOpening, OpeningFoundNone, OneSessionUnlessDoubled,
   Opens, OpenSessions

-----------------------------------------------------------------------------
(* Refunds and returns                                                      *)

LEMMA NotServingIsServing == NotServing \in Serving /\ NotServing.at = "idle"
BY DEF NotServing, Serving, None, Quantities

LEMMA RefundsInitially == RefundsInit => RefundInv
<1> SUFFICES ASSUME RefundsInit PROVE RefundInv
  OBVIOUS
<1>1. /\ \A t \in Txn : serving[t] = NotServing
      /\ \A r \in Refund : refund[r].status = "NONE"
      /\ \A i \in Item : returned[i] = 0
  BY DEF RefundsInit, None
<1>2. RowsTypeOK
  BY NotServingIsServing DEF RefundsInit, RowsTypeOK, RefundRow, Quantities, None
<1>3. \A t \in Txn : serving[t].at = "idle" /\ \A r \in Refund : ~Serves(t, r)
  BY <1>1, NoRefundAssumption DEF NotServing, Serves
<1>4. ReturnedWithinSold
  BY <1>1, SaleAssumption DEF ReturnedWithinSold
<1>5. OneRequestPerRefund /\ RequestsNameRefunds /\ DraftsAreHeld /\ CheckedIsSettled
  BY <1>3 DEF OneRequestPerRefund, RequestsNameRefunds, DraftsAreHeld, CheckedIsSettled
<1>6. CompletedRefundIsSettled /\ OneSaleRequest /\ ReturnFits
  BY <1>1, <1>3 DEF CompletedRefundIsSettled, Completed, OneSaleRequest, ReturnFits
<1> QED
  BY <1>2, <1>4, <1>5, <1>6 DEF RefundInv

(* Writing a refund nobody serves.                                           *)
LEMMA FreeRowKeeps ==
  ASSUME RefundInv, NEW r \in Refund, NEW row \in RefundRow,
         refund[r].status # "COMPLETED", row.status # "COMPLETED", RefundIsFree(r),
         refund' = [refund EXCEPT ![r] = row], UNCHANGED <<returned, serving>>
  PROVE  RefundInv'
<1>1. \A t \in Txn : serving'[t] = serving[t] /\ ~Serves(t, r)
  BY DEF RefundIsFree, Serves
<1>2. RowsTypeOK'
  BY DEF RefundInv, RowsTypeOK
<1>3. \A x \in Refund \ {r} : refund'[x] = refund[x]
  BY DEF RefundInv, RowsTypeOK
<1>4. CompletedRefundIsSettled'
  <2> SUFFICES ASSUME NEW x \in Refund, refund'[x].status = "COMPLETED"
               PROVE  refund'[x].line # None /\ Tendered(x)' = TotalOf(refund'[x].line)
    BY DEF CompletedRefundIsSettled, Completed
  <2>1. x # r
    BY DEF RefundInv, RowsTypeOK
  <2>2. refund'[x] = refund[x]
    BY <1>3, <2>1
  <2> QED
    BY <2>2 DEF RefundInv, CompletedRefundIsSettled, Completed, Tendered
<1>5. ASSUME NEW t \in Txn, serving[t].at \in {"line", "checked"}
      PROVE  refund'[serving[t].refund] = refund[serving[t].refund]
  BY <1>1, <1>3, <1>5 DEF RefundInv, RequestsNameRefunds, Serves
<1>6. DraftsAreHeld' /\ CheckedIsSettled'
  BY <1>1, <1>5 DEF RefundInv, DraftsAreHeld, CheckedIsSettled, Draft, Settled, Tendered
<1> QED
  BY <1>1, <1>2, <1>4, <1>6 DEF RefundInv, OneRequestPerRefund, RequestsNameRefunds, Serves,
     OneSaleRequest, ReturnFits, ReturnedWithinSold

LEMMA CreateRefundKeeps ==
  ASSUME RefundInv, NEW r \in Refund, CreateRefund(r)
  PROVE  RefundInv'
<1> DEFINE row == [refund[r] EXCEPT !.status = "DRAFT"]
<1>1. row \in RefundRow /\ row.status = "DRAFT" /\ refund[r].status = "NONE"
  BY DEF CreateRefund, RefundInv, RowsTypeOK, RefundRow
<1>2. refund' = [refund EXCEPT ![r] = row] /\ UNCHANGED <<returned, serving>>
  BY DEF CreateRefund
<1>3. RowsTypeOK'
  BY <1>1, <1>2 DEF RefundInv, RowsTypeOK
<1>4. \A t \in Txn : serving[t].at \in {"line", "checked"} => serving[t].refund # r
  BY <1>1 DEF RefundInv, DraftsAreHeld, Draft
<1>5. \A x \in Refund \ {r} : refund'[x] = refund[x]
  BY <1>2 DEF RefundInv, RowsTypeOK
<1>6. CompletedRefundIsSettled'
  <2> SUFFICES ASSUME NEW x \in Refund, refund'[x].status = "COMPLETED"
               PROVE  refund'[x].line # None /\ Tendered(x)' = TotalOf(refund'[x].line)
    BY DEF CompletedRefundIsSettled, Completed
  <2>1. x # r
    BY <1>1, <1>2 DEF RefundInv, RowsTypeOK
  <2>2. refund'[x] = refund[x]
    BY <1>5, <2>1
  <2> QED
    BY <2>2 DEF RefundInv, CompletedRefundIsSettled, Completed, Tendered
<1>7. ASSUME NEW t \in Txn, serving[t].at \in {"line", "checked"}
      PROVE  refund'[serving[t].refund] = refund[serving[t].refund]
  BY <1>4, <1>5, <1>7 DEF RefundInv, RequestsNameRefunds
<1>8. DraftsAreHeld' /\ CheckedIsSettled'
  BY <1>2, <1>7 DEF RefundInv, DraftsAreHeld, CheckedIsSettled, Draft, Settled, Tendered
<1> QED
  BY <1>2, <1>3, <1>6, <1>8 DEF RefundInv, OneRequestPerRefund, RequestsNameRefunds, Serves,
     OneSaleRequest, ReturnFits, ReturnedWithinSold

LEMMA DraftStepKeeps ==
  ASSUME RefundInv, NEW r \in Refund, DraftStep(r)
  PROVE  RefundInv'
<1> USE DEF EditDraft, Draft
<1>1. CASE CreateRefund(r)
  BY <1>1, CreateRefundKeeps
<1>2. ASSUME NEW i \in Item, DeleteLine(r, i) PROVE RefundInv'
  <2> DEFINE row == [refund[r] EXCEPT !.line[i] = 0]
  <2>1. row \in RefundRow /\ row.status = "DRAFT"
    BY <1>2 DEF DeleteLine, RefundInv, RowsTypeOK, RefundRow, Quantities
  <2> QED
    BY <1>2, <2>1, FreeRowKeeps DEF DeleteLine
<1>3. ASSUME NEW k \in Kinds, NEW a \in Amounts, AddTender(r, k, a) PROVE RefundInv'
  <2> DEFINE row == [refund[r] EXCEPT !.tender[k] = @ + a]
  <2>0. refund[r] \in RefundRow /\ refund[r].status = "DRAFT" /\ refund[r].tender[k] \in Nat
    BY <1>3 DEF AddTender, RefundInv, RowsTypeOK, RefundRow
  <2>1. row \in RefundRow /\ row.status = "DRAFT"
    <3>1. refund[r].tender[k] + a \in Nat
      BY <1>3, <2>0, TenderAssumption DEF AddTender
    <3> QED
      BY <2>0, <3>1 DEF RefundRow
  <2> QED
    BY <1>3, <2>1, FreeRowKeeps DEF AddTender
<1>4. ASSUME NEW k \in Kinds, NEW a \in Amounts, DeleteTender(r, k, a) PROVE RefundInv'
  <2> DEFINE row == [refund[r] EXCEPT !.tender[k] = @ - a]
  <2>0. refund[r] \in RefundRow /\ refund[r].status = "DRAFT" /\ refund[r].tender[k] \in Nat
    BY <1>4 DEF DeleteTender, RefundInv, RowsTypeOK, RefundRow
  <2>1. row \in RefundRow /\ row.status = "DRAFT"
    <3>1. refund[r].tender[k] - a \in Nat
      BY <1>4, <2>0, TenderAssumption DEF DeleteTender, HasTender
    <3> QED
      BY <2>0, <3>1 DEF RefundRow
  <2> QED
    BY <1>4, <2>1, FreeRowKeeps DEF DeleteTender
<1> QED
  BY <1>1, <1>2, <1>3, <1>4 DEF DraftStep

(* A request that changes its own record only.                               *)
LEMMA OwnStepKeeps ==
  ASSUME RefundInv, NEW t \in Txn, UNCHANGED <<refund, returned>>,
         serving' \in [Txn -> Serving], \A u \in Txn \ {t} : serving'[u] = serving[u],
         serving'[t].at \in {"idle", "line", "complete"},
         serving'[t].at \in {"line", "complete"} => serving'[t].refund \in Refund,
         serving'[t].at = "line" => Draft(serving'[t].refund),
         \A r \in Refund : serving'[t].refund = r => RefundIsFree(r)
  PROVE  RefundInv'
<1>1. RowsTypeOK'
  BY DEF RefundInv, RowsTypeOK
<1>2. OneRequestPerRefund'
  BY DEF RefundInv, OneRequestPerRefund, Serves, RefundIsFree
<1>3. RequestsNameRefunds' /\ OneSaleRequest'
  BY DEF RefundInv, RequestsNameRefunds, OneSaleRequest
<1>4. DraftsAreHeld'
  BY DEF RefundInv, DraftsAreHeld, Draft
<1>5. CheckedIsSettled'
  BY DEF RefundInv, CheckedIsSettled, Settled, Tendered
<1>6. CompletedRefundIsSettled'
  BY DEF RefundInv, CompletedRefundIsSettled, Completed, Tendered
<1>7. ReturnFits' /\ ReturnedWithinSold'
  BY DEF RefundInv, ReturnFits, ReturnedWithinSold
<1> QED
  BY <1>1, <1>2, <1>3, <1>4, <1>5, <1>6, <1>7 DEF RefundInv

LEMMA EndServingFacts ==
  ASSUME RefundInv, NEW t \in Txn, EndServing(t)
  PROVE  /\ serving' \in [Txn -> Serving]
         /\ \A u \in Txn \ {t} : serving'[u] = serving[u]
         /\ serving'[t].at = "idle" /\ serving'[t].refund \notin Refund
BY NotServingIsServing, NoRefundAssumption DEF EndServing, RefundInv, RowsTypeOK, NotServing

LEMMA BeginLineKeeps ==
  ASSUME RefundInv, NEW t \in Txn, NEW r \in Refund, NEW i \in Item, NEW q \in 1 .. Sold[i],
         BeginLine(t, r, i, q)
  PROVE  RefundInv'
<1> DEFINE e == [serving[t] EXCEPT !.at = "line", !.refund = r, !.qty = [None EXCEPT ![i] = q]]
<1>1. q \in Nat /\ [None EXCEPT ![i] = q] \in Quantities
  BY SaleAssumption DEF None, Quantities
<1>2. e \in Serving /\ e.at = "line" /\ e.refund = r
  BY <1>1 DEF RefundInv, RowsTypeOK, Serving
<1>3. serving' = [serving EXCEPT ![t] = e] /\ UNCHANGED <<refund, returned>>
  BY DEF BeginLine, rows, RefundInv, RowsTypeOK, Serving
<1>4. /\ serving' \in [Txn -> Serving] /\ serving'[t] = e
      /\ \A u \in Txn \ {t} : serving'[u] = serving[u]
  BY <1>2, <1>3 DEF RefundInv, RowsTypeOK
<1> QED
  BY <1>2, <1>3, <1>4, OwnStepKeeps DEF BeginLine

LEMMA BeginCompletionKeeps ==
  ASSUME RefundInv, NEW t \in Txn, NEW r \in Refund, BeginCompletion(t, r)
  PROVE  RefundInv'
<1> DEFINE e == [serving[t] EXCEPT !.at = "complete", !.refund = r]
<1>1. e \in Serving /\ e.at = "complete" /\ e.refund = r
  BY DEF RefundInv, RowsTypeOK, Serving
<1>2. serving' = [serving EXCEPT ![t] = e] /\ UNCHANGED <<refund, returned>>
  BY DEF BeginCompletion, rows, RefundInv, RowsTypeOK, Serving
<1>3. /\ serving' \in [Txn -> Serving] /\ serving'[t] = e
      /\ \A u \in Txn \ {t} : serving'[u] = serving[u]
  BY <1>1, <1>2 DEF RefundInv, RowsTypeOK
<1> QED
  BY <1>1, <1>2, <1>3, OwnStepKeeps DEF BeginCompletion

LEMMA RollbackKeeps ==
  ASSUME RefundInv, NEW t \in Txn, Rollback(t)
  PROVE  RefundInv'
BY EndServingFacts, OwnStepKeeps DEF Rollback, rows

-----------------------------------------------------------------------------
LEMMA CheckKeeps ==
  ASSUME RefundInv, NEW t \in Txn, NEW s \in SessionsFound, CheckCompletion(t, s)
  PROVE  RefundInv'
<1> DEFINE r == serving[t].refund
           e == [serving[t] EXCEPT !.at = "checked", !.session = s]
<1>1. s \in Session \cup {NoSession}
  BY DEF SessionsFound, OpenSessions
<1>2. e \in Serving /\ e.at = "checked" /\ e.refund = r
  BY <1>1 DEF RefundInv, RowsTypeOK, Serving
<1>3. serving' = [serving EXCEPT ![t] = e] /\ UNCHANGED <<refund, returned>>
  BY DEF CheckCompletion, Check, rows, RefundInv, RowsTypeOK, Serving
<1>4. /\ serving' \in [Txn -> Serving] /\ serving'[t] = e
      /\ \A u \in Txn \ {t} : serving'[u] = serving[u]
  BY <1>2, <1>3 DEF RefundInv, RowsTypeOK
<1>5. r \in Refund /\ Draft(r) /\ Settled(r)
  BY DEF CheckCompletion, Check, Valid, Settled, RefundInv, RequestsNameRefunds
<1>6. RowsTypeOK' /\ RequestsNameRefunds' /\ OneRequestPerRefund'
  BY <1>2, <1>3, <1>4, <1>5 DEF RefundInv, RowsTypeOK, RequestsNameRefunds, OneRequestPerRefund,
     Serves
<1>7. DraftsAreHeld'
  BY <1>2, <1>3, <1>4, <1>5 DEF RefundInv, DraftsAreHeld, Draft
<1>8. CheckedIsSettled' /\ CompletedRefundIsSettled'
  BY <1>2, <1>3, <1>4, <1>5 DEF RefundInv, CheckedIsSettled, Settled, Tendered,
     CompletedRefundIsSettled, Completed
<1>9. OneSaleRequest'
  BY <1>4 DEF CheckCompletion, SaleIsFree, OneSaleRequest
<1>10. ReturnFits' /\ ReturnedWithinSold'
  BY <1>2, <1>3, <1>4 DEF RefundInv, ReturnFits, ReturnedWithinSold
<1> QED
  BY <1>6, <1>7, <1>8, <1>9, <1>10 DEF RefundInv
LEMMA RefundUnchanged == RefundInv /\ UNCHANGED <<rows, serving>> => RefundInv'
BY DEF RefundInv, rows, RowsTypeOK, OneRequestPerRefund, Serves, RequestsNameRefunds,
   DraftsAreHeld, Draft, CheckedIsSettled, Settled, Tendered, CompletedRefundIsSettled,
   Completed, OneSaleRequest, ReturnFits, ReturnedWithinSold

(* A request that writes its refund and ends.                                *)
LEMMA OthersKeep ==
  ASSUME RefundInv, NEW t \in Txn, NEW r \in Refund, UNCHANGED returned,
         refund' \in [Refund -> RefundRow], serving' \in [Txn -> Serving],
         \A x \in Refund \ {r} : refund'[x] = refund[x],
         \A u \in Txn \ {t} : serving'[u] = serving[u] /\ ~Serves(u, r),
         serving'[t].at = "idle", serving'[t].refund \notin Refund,
         refund'[r].status = "COMPLETED" => Settled(r)'
  PROVE  RefundInv'
<1>1. RowsTypeOK' /\ RequestsNameRefunds' /\ OneRequestPerRefund'
  BY DEF RefundInv, RowsTypeOK, RequestsNameRefunds, OneRequestPerRefund, Serves
<1>2. ASSUME NEW u \in Txn \ {t}, serving[u].at \in {"line", "checked"}
      PROVE  refund'[serving[u].refund] = refund[serving[u].refund]
  BY <1>2 DEF RefundInv, RequestsNameRefunds, Serves
<1>3. DraftsAreHeld' /\ CheckedIsSettled'
  BY <1>2 DEF RefundInv, DraftsAreHeld, Draft, CheckedIsSettled, Settled, Tendered
<1>4. \A x \in Completed' : Settled(x)'
  BY DEF RefundInv, CompletedRefundIsSettled, Completed, Settled, Tendered
<1>5. OneSaleRequest' /\ ReturnFits' /\ ReturnedWithinSold'
  BY DEF RefundInv, OneSaleRequest, ReturnFits, ReturnedWithinSold
<1> QED
  BY <1>1, <1>3, <1>4, <1>5 DEF RefundInv, CompletedRefundIsSettled, Settled

LEMMA CommitLineKeeps ==
  ASSUME RefundInv, NEW t \in Txn, CommitLine(t)
  PROVE  RefundInv'
<1> DEFINE r == serving[t].refund
           q == serving[t].qty
           new == [i \in Item |-> IF q[i] > 0 THEN q[i] ELSE refund[r].line[i]]
           row == [refund[r] EXCEPT !.line = new]
<1>1. r \in Refund /\ Draft(r) /\ q \in Quantities /\ refund[r] \in RefundRow
  BY DEF CommitLine, RefundInv, RequestsNameRefunds, DraftsAreHeld, RowsTypeOK, Serving
<1>2. row \in RefundRow /\ row.status = "DRAFT"
  BY <1>1 DEF RefundRow, Quantities, Draft
<1>3. refund' = [refund EXCEPT ![r] = row] /\ UNCHANGED returned
  BY <1>1 DEF CommitLine, RefundInv, RowsTypeOK, RefundRow
<1>4. /\ serving' \in [Txn -> Serving]
      /\ \A u \in Txn \ {t} : serving'[u] = serving[u]
      /\ serving'[t].at = "idle" /\ serving'[t].refund \notin Refund
  BY EndServingFacts DEF CommitLine
<1> HIDE DEF row
<1>5. refund' \in [Refund -> RefundRow] /\ \A x \in Refund \ {r} : refund'[x] = refund[x]
  BY <1>2, <1>3 DEF RefundInv, RowsTypeOK
<1>6. \A u \in Txn \ {t} : ~Serves(u, r)
  BY <1>1 DEF RefundInv, OneRequestPerRefund, Serves
<1>7. ~(refund'[r].status = "COMPLETED")
  BY <1>1, <1>2, <1>3 DEF RefundInv, RowsTypeOK
<1> HIDE DEF r
<1> QED
  BY <1>1, <1>3, <1>4, <1>5, <1>6, <1>7, OthersKeep DEF CommitLine

LEMMA CommitCompletionKeeps ==
  ASSUME RefundInv, NEW t \in Txn, NEW back \in BOOLEAN, CommitCompletion(t, back)
  PROVE  RefundInv'
<1>0. PICK r \in Refund : r = serving[t].refund
  BY DEF CommitCompletion, RefundInv, RequestsNameRefunds
<1> DEFINE row == [refund[r] EXCEPT !.status = "COMPLETED", !.back = back]
<1>1. /\ Settled(r)
      /\ refund[r] \in RefundRow
  BY <1>0 DEF CommitCompletion, RefundInv, CheckedIsSettled, RowsTypeOK, Serving
<1>2. row \in RefundRow /\ row.line = refund[r].line /\ row.tender = refund[r].tender
  BY <1>1 DEF RefundRow
<1>3. refund' = [refund EXCEPT ![r] = row] /\ UNCHANGED returned
  BY <1>0, <1>1 DEF CommitCompletion, RefundInv, RowsTypeOK, RefundRow
<1>4. /\ serving' \in [Txn -> Serving]
      /\ \A u \in Txn \ {t} : serving'[u] = serving[u]
      /\ serving'[t].at = "idle" /\ serving'[t].refund \notin Refund
  BY EndServingFacts DEF CommitCompletion
<1> HIDE DEF row
<1>5. refund' \in [Refund -> RefundRow] /\ \A x \in Refund \ {r} : refund'[x] = refund[x]
  BY <1>2, <1>3 DEF RefundInv, RowsTypeOK
<1>6. \A u \in Txn \ {t} : ~Serves(u, r)
  BY <1>0 DEF RefundInv, OneRequestPerRefund, Serves
<1>7. Settled(r)'
  BY <1>1, <1>2, <1>3 DEF Settled, Tendered, RefundInv, RowsTypeOK
<1> QED
  BY <1>1, <1>3, <1>4, <1>5, <1>6, <1>7, OthersKeep DEF CommitCompletion

LEMMA BeginReturnKeeps ==
  ASSUME RefundInv, NEW t \in Txn, NEW q \in Quantities, BeginReturn(t, q)
  PROVE  RefundInv'
<1> DEFINE e == [serving[t] EXCEPT !.at = "return", !.qty = q]
<1>1. e \in Serving /\ e.at = "return" /\ e.refund = serving[t].refund /\ e.qty = q
  BY DEF RefundInv, RowsTypeOK, Serving
<1>2. serving' = [serving EXCEPT ![t] = e] /\ UNCHANGED <<refund, returned>>
  BY DEF BeginReturn, rows, RefundInv, RowsTypeOK, Serving
<1> HIDE DEF e
<1>3. /\ serving' \in [Txn -> Serving] /\ serving'[t] = e
      /\ \A u \in Txn \ {t} : serving'[u] = serving[u]
  BY <1>1, <1>2 DEF RefundInv, RowsTypeOK
<1>4. RowsTypeOK' /\ RequestsNameRefunds'
  BY <1>1, <1>2, <1>3 DEF RefundInv, RowsTypeOK, RequestsNameRefunds
<1>5. \A u \in Txn, r \in Refund : Serves(u, r)' <=> Serves(u, r)
  BY <1>1, <1>3 DEF Serves
<1>6. OneRequestPerRefund'
  BY <1>5 DEF RefundInv, OneRequestPerRefund
<1>7. DraftsAreHeld' /\ CheckedIsSettled' /\ CompletedRefundIsSettled'
  BY <1>1, <1>2, <1>3 DEF RefundInv, DraftsAreHeld, Draft, CheckedIsSettled, Settled, Tendered,
     CompletedRefundIsSettled, Completed
<1>8. OneSaleRequest'
  BY <1>3 DEF BeginReturn, SaleIsFree, OneSaleRequest
<1>9. \A i \in Item : returned[i] + q[i] <= Sold[i]
  BY SaleAssumption DEF BeginReturn, RefundInv, RowsTypeOK, Quantities
<1>10. ReturnFits' /\ ReturnedWithinSold'
  BY <1>1, <1>2, <1>3, <1>9 DEF RefundInv, ReturnFits, ReturnedWithinSold
<1> QED
  BY <1>4, <1>6, <1>7, <1>8, <1>10 DEF RefundInv

LEMMA CommitReturnKeeps ==
  ASSUME RefundInv, NEW t \in Txn, CommitReturn(t)
  PROVE  RefundInv'
<1> DEFINE q == serving[t].qty
<1>1. q \in [Item -> Nat] /\ \A i \in Item : returned[i] + q[i] <= Sold[i]
  BY DEF CommitReturn, RefundInv, ReturnFits, RowsTypeOK, Serving, Quantities
<1>2. returned' \in [Item -> Nat] /\ \A i \in Item : returned'[i] = returned[i] + q[i]
  BY <1>1 DEF CommitReturn, RefundInv, RowsTypeOK
<1>3. /\ serving' \in [Txn -> Serving]
      /\ \A u \in Txn \ {t} : serving'[u] = serving[u]
      /\ serving'[t].at = "idle" /\ serving'[t].refund \notin Refund
  BY EndServingFacts DEF CommitReturn
<1>4. RowsTypeOK' /\ RequestsNameRefunds' /\ OneRequestPerRefund'
  BY <1>2, <1>3 DEF CommitReturn, RefundInv, RowsTypeOK, RequestsNameRefunds,
     OneRequestPerRefund, Serves
<1>5. DraftsAreHeld' /\ CheckedIsSettled' /\ CompletedRefundIsSettled'
  BY <1>3 DEF CommitReturn, RefundInv, DraftsAreHeld, Draft, CheckedIsSettled, Settled, Tendered,
     CompletedRefundIsSettled, Completed
<1>6. OneSaleRequest' /\ \A u \in Txn : serving'[u].at # "return"
  BY <1>3 DEF CommitReturn, RefundInv, OneSaleRequest
<1>7. ReturnFits' /\ ReturnedWithinSold'
  BY <1>1, <1>2, <1>6 DEF ReturnFits, ReturnedWithinSold
<1> QED
  BY <1>4, <1>5, <1>6, <1>7 DEF RefundInv

-----------------------------------------------------------------------------
LEMMA NaturalRange ==
  ASSUME NEW m, NEW q \in [Item -> 0 .. m]
  PROVE  q \in Quantities
BY DEF Quantities

LEMMA RefundRequestKeeps ==
  ASSUME TillInv, RefundInv, NEW t \in Txn, RefundRequest(t)
  PROVE  TillInv' /\ RefundInv'
<1>1. UNCHANGED till
  BY DEF RefundRequest, BeginLine, BeginCompletion, CheckCompletion, Check, BeginReturn,
     CommitLine, CommitCompletion, CommitReturn, Rollback
<1>2. ASSUME NEW s \in SessionsFound, CheckCompletion(t, s) PROVE RefundInv'
  BY <1>2, CheckKeeps
<1>3. ASSUME NEW q \in [Item -> 0 .. Max({Sold[i] : i \in Item})], BeginReturn(t, q)
      PROVE  RefundInv'
  BY <1>3, NaturalRange, BeginReturnKeeps
<1> QED
  BY <1>1, <1>2, <1>3, TillUnchanged, BeginLineKeeps, BeginCompletionKeeps, CommitLineKeeps,
     CommitCompletionKeeps, CommitReturnKeeps, RollbackKeeps DEF RefundRequest

LEMMA TillStepKeepsBoth ==
  ASSUME TillInv, RefundInv, NEW t \in Txn, TillStep(t)
  PROVE  TillInv' /\ RefundInv'
<1>1. TillInv'
  BY TillStepKeeps DEF TillStep
<1>2. UNCHANGED <<rows, serving>>
  BY DEF TillStep
<1> QED
  BY <1>1, <1>2, RefundUnchanged

LEMMA StepKeeps == TillInv /\ RefundInv /\ [RefundsNext]_refundVars => TillInv' /\ RefundInv'
<1> SUFFICES ASSUME TillInv, RefundInv, [RefundsNext]_refundVars PROVE TillInv' /\ RefundInv'
  OBVIOUS
<1>1. ASSUME NEW r \in Refund, DraftStep(r) PROVE TillInv' /\ RefundInv'
  <2>1. UNCHANGED till
    BY <1>1 DEF DraftStep, CreateRefund, DeleteLine, AddTender, DeleteTender, EditDraft
  <2> QED
    BY <1>1, <2>1, DraftStepKeeps, TillUnchanged
<1>2. CASE UNCHANGED refundVars
  BY <1>2, TillUnchanged, RefundUnchanged DEF refundVars
<1> QED
  BY <1>1, <1>2, RefundRequestKeeps, TillStepKeepsBoth DEF RefundsNext

(* The till and the refunds keep their invariants, whatever requests come     *)
(* between the transactions of the till, of drafts, of completions and of     *)
(* returns.                                                                  *)
THEOREM RefundsInvariance == RefundsSpec => [](TillInv /\ RefundInv)
<1>1. RefundsInit => TillInv /\ RefundInv
  BY TillInitially, RefundsInitially DEF RefundsInit
<1> QED
  BY <1>1, StepKeeps, PTL DEF RefundsSpec

(* completeRefund: what a completed refund paid out is what its lines are      *)
(* worth, for requests that came before its row was locked too.              *)
THEOREM RefundsSettled == RefundsSpec => []CompletedRefundIsSettled
<1>1. RefundInv => CompletedRefundIsSettled
  BY DEF RefundInv
<1> QED
  BY <1>1, RefundsInvariance, PTL

(* openCashSession: two open sessions only after two overlapping openings.   *)
THEOREM OneSession == RefundsSpec => []OneSessionUnlessDoubled
<1>1. TillInv => OneSessionUnlessDoubled
  BY DEF TillInv
<1> QED
  BY <1>1, RefundsInvariance, PTL

(* createSaleReturn: what is returned of a line was sold.                     *)
THEOREM ReturnsBounded == RefundsSpec => []ReturnedWithinSold
<1>1. RefundInv => ReturnedWithinSold
  BY DEF RefundInv
<1> QED
  BY <1>1, RefundsInvariance, PTL

-----------------------------------------------------------------------------
(* What the completed refunds add up to                                     *)

InCash(r) == refund[r].tender["CASH"] > 0
BackOf(i) == [r \in Refund |-> IF refund[r].back THEN refund[r].line[i] ELSE 0]

BookedTypeOK ==
  /\ booked \in [Session -> SUBSET Refund] /\ restocked \in [Item -> Nat]
  /\ tillShut \subseteq Completed

RefundedFits == \A i \in Item : SumFunctionOnSet(Refunded(i), Completed) <= Sold[i]

(* What a completion found to be left of each line still is.                 *)
CheckedFits ==
  \A t \in Txn : serving[t].at = "checked" =>
    \A i \in Item :
      SumFunctionOnSet(Refunded(i), Completed) + refund[serving[t].refund].line[i] <= Sold[i]

BookedFits ==
  \A r \in Refund :
    IF r \in Completed \ tillShut /\ InCash(r)
    THEN \E s \in Session : {d \in Session : r \in booked[d]} = {s}
    ELSE {d \in Session : r \in booked[d]} = {}

RestockedFits ==
  \A i \in Item :
    restocked[i] = (IF i \in NonStock THEN 0 ELSE returned[i])
      + SumFunctionOnSet(BackOf(i), Completed)

AmountInv ==
  /\ IsFiniteSet(Completed)
  /\ BookedTypeOK
  /\ RefundedFits
  /\ CheckedFits
  /\ BookedFits
  /\ RestockedFits

LEMMA CompletedIsFinite == AmountInv => IsFiniteSet(Completed) /\ Completed \subseteq Refund
BY DEF AmountInv, Completed

LEMMA LinesAreNat ==
  ASSUME RowsTypeOK, NEW i \in Item, NEW T \in SUBSET Refund
  PROVE  NatValued(Refunded(i), T) /\ NatValued(BackOf(i), T)
<1>1. \A r \in Refund : refund[r].line[i] \in Nat
  BY DEF RowsTypeOK, RefundRow, Quantities
<1> QED
  BY <1>1 DEF NatValued, Refunded, BackOf

LEMMA AmountsInitially == RefundsInit => AmountInv
<1> SUFFICES ASSUME RefundsInit PROVE AmountInv
  OBVIOUS
<1>1. Completed = {}
  BY DEF RefundsInit, Completed
<1>2. \A i \in Item : returned[i] = 0 /\ restocked[i] = 0
  BY DEF RefundsInit, None
<1>3. BookedTypeOK
  BY DEF RefundsInit, BookedTypeOK, None
<1>4. RefundedFits /\ RestockedFits
  BY <1>1, <1>2, SumEmpty, SaleAssumption DEF RefundedFits, RestockedFits
<1>5. CheckedFits
  BY DEF RefundsInit, CheckedFits, NotServing
<1>6. \A d \in Session : booked[d] = {}
  BY DEF RefundsInit
<1>7. BookedFits
  BY <1>1, <1>6 DEF BookedFits
<1> QED
  BY <1>1, <1>3, <1>4, <1>5, <1>7, FS_EmptySet DEF AmountInv

(* A step that completes nothing and leaves completed refunds alone.         *)
QuietForCompleted ==
  /\ Completed' = Completed
  /\ \A r \in Completed : refund'[r] = refund[r]
  /\ UNCHANGED <<booked, tillShut>>

LEMMA QuietSums ==
  ASSUME RowsTypeOK, RowsTypeOK', AmountInv, QuietForCompleted, NEW i \in Item
  PROVE  /\ SumFunctionOnSet(Refunded(i), Completed)' = SumFunctionOnSet(Refunded(i), Completed)
         /\ SumFunctionOnSet(BackOf(i), Completed)' = SumFunctionOnSet(BackOf(i), Completed)
<1>1. \A r \in Completed : r \in Refund /\ refund'[r] = refund[r]
  BY DEF QuietForCompleted, Completed
<1>2. \A r \in Completed : Refunded(i)[r] = Refunded(i)'[r] /\ BackOf(i)[r] = BackOf(i)'[r]
  BY <1>1 DEF Refunded, BackOf
<1>3. Completed' = Completed
  BY DEF QuietForCompleted
<1>4. NatValued(Refunded(i), Completed) /\ NatValued(BackOf(i), Completed)
  BY CompletedIsFinite, LinesAreNat
<1>5. SumFunctionOnSet(Refunded(i), Completed) = SumFunctionOnSet(Refunded(i)', Completed)
  BY <1>2, <1>4, CompletedIsFinite, SumSame
<1>6. SumFunctionOnSet(BackOf(i), Completed) = SumFunctionOnSet(BackOf(i)', Completed)
  BY <1>2, <1>4, CompletedIsFinite, SumSame
<1> QED
  BY <1>3, <1>5, <1>6

(* Such a step keeps the amounts if checked requests keep their refunds and   *)
(* nothing is put on stock.                                                  *)
LEMMA QuietKeepsAmounts ==
  ASSUME RefundInv, RefundInv', AmountInv, QuietForCompleted,
         UNCHANGED <<returned, restocked>>,
         \A t \in Txn : serving'[t].at = "checked" =>
            /\ serving[t].at = "checked" /\ serving'[t].refund = serving[t].refund
            /\ refund'[serving[t].refund] = refund[serving[t].refund]
  PROVE  AmountInv'
<1>0. RowsTypeOK /\ RowsTypeOK'
  BY DEF RefundInv
<1>1. \A i \in Item :
         /\ SumFunctionOnSet(Refunded(i), Completed)' = SumFunctionOnSet(Refunded(i), Completed)
         /\ SumFunctionOnSet(BackOf(i), Completed)' = SumFunctionOnSet(BackOf(i), Completed)
  BY <1>0, QuietSums
<1>2. BookedTypeOK'
  BY DEF AmountInv, BookedTypeOK, QuietForCompleted
<1>3. RefundedFits'
  BY <1>1 DEF AmountInv, RefundedFits
<1>4. CheckedFits'
  BY <1>1 DEF AmountInv, CheckedFits
<1>5. BookedFits'
  <2>1. \A r \in Completed : InCash(r)' <=> InCash(r)
    BY DEF QuietForCompleted, InCash
  <2> QED
    BY <2>1 DEF AmountInv, BookedFits, QuietForCompleted
<1>6. RestockedFits'
  BY <1>1 DEF AmountInv, RestockedFits
<1> QED
  BY <1>2, <1>3, <1>4, <1>5, <1>6 DEF AmountInv, QuietForCompleted

(* Writing a refund that is not completed and that no checked request serves. *)
LEMMA DraftRowKeepsAmounts ==
  ASSUME RefundInv, RefundInv', AmountInv, NEW r \in Refund, NEW row,
         refund[r].status # "COMPLETED", row.status # "COMPLETED",
         refund' = [refund EXCEPT ![r] = row], UNCHANGED <<returned, restocked, booked, tillShut>>,
         \A t \in Txn : serving'[t].at = "checked" =>
            serving[t] = serving'[t] /\ serving[t].refund # r
  PROVE  AmountInv'
<1>1. \A x \in Refund : x # r => refund'[x] = refund[x]
  BY DEF RefundInv, RowsTypeOK
<1>2. refund'[r] = row
  BY DEF RefundInv, RowsTypeOK
<1>3. QuietForCompleted
  BY <1>1, <1>2 DEF QuietForCompleted, Completed
<1>4. \A t \in Txn : serving'[t].at = "checked" => serving[t].refund \in Refund
  BY DEF RefundInv, RequestsNameRefunds
<1> QED
  BY <1>1, <1>3, <1>4, QuietKeepsAmounts

LEMMA DraftStepKeepsAmounts ==
  ASSUME RefundInv, RefundInv', AmountInv, NEW r \in Refund, DraftStep(r)
  PROVE  AmountInv'
<1>0. refund[r] \in RefundRow
  BY DEF RefundInv, RowsTypeOK
<1>1. \E row : /\ refund[r].status # "COMPLETED" /\ row.status # "COMPLETED"
               /\ refund' = [refund EXCEPT ![r] = row]
               /\ UNCHANGED <<returned, restocked, booked, tillShut, serving>>
               /\ refund[r].status = "NONE" \/ RefundIsFree(r)
  <2>1. CASE CreateRefund(r)
    <3> DEFINE row == [refund[r] EXCEPT !.status = "DRAFT"]
    <3>1. row.status = "DRAFT"
      BY <1>0 DEF RefundRow
    <3>2. refund' = [refund EXCEPT ![r] = row]
      BY <2>1 DEF CreateRefund
    <3> QED
      BY <2>1, <3>1, <3>2 DEF CreateRefund
  <2>2. ASSUME NEW i \in Item, DeleteLine(r, i)
        PROVE  \E row : row.status = "DRAFT" /\ Draft(r) /\ EditDraft(r, row)
    <3> DEFINE row == [refund[r] EXCEPT !.line[i] = 0]
    <3>1. row.status = "DRAFT"
      BY <1>0, <2>2 DEF RefundRow, DeleteLine, Draft
    <3> QED
      BY <2>2, <3>1 DEF DeleteLine
  <2>3. ASSUME NEW k \in Kinds, NEW a \in Amounts, AddTender(r, k, a)
        PROVE  \E row : row.status = "DRAFT" /\ Draft(r) /\ EditDraft(r, row)
    <3> DEFINE row == [refund[r] EXCEPT !.tender[k] = @ + a]
    <3>1. row.status = "DRAFT"
      BY <1>0, <2>3 DEF RefundRow, AddTender, Draft
    <3> QED
      BY <2>3, <3>1 DEF AddTender
  <2>4. ASSUME NEW k \in Kinds, NEW a \in Amounts, DeleteTender(r, k, a)
        PROVE  \E row : row.status = "DRAFT" /\ Draft(r) /\ EditDraft(r, row)
    <3> DEFINE row == [refund[r] EXCEPT !.tender[k] = @ - a]
    <3>1. row.status = "DRAFT"
      BY <1>0, <2>4 DEF RefundRow, DeleteTender, Draft
    <3> QED
      BY <2>4, <3>1 DEF DeleteTender
  <2>5. ASSUME NEW row, row.status = "DRAFT", Draft(r), EditDraft(r, row)
        PROVE  /\ refund[r].status # "COMPLETED" /\ row.status # "COMPLETED"
               /\ refund' = [refund EXCEPT ![r] = row]
               /\ UNCHANGED <<returned, restocked, booked, tillShut, serving>>
               /\ RefundIsFree(r)
    BY <2>5 DEF EditDraft, Draft
  <2> QED
    BY <2>1, <2>2, <2>3, <2>4, <2>5 DEF DraftStep
<1>2. \A t \in Txn : serving[t].at = "checked" => serving[t].refund # r
  BY <1>1 DEF RefundInv, DraftsAreHeld, Draft, RefundIsFree
<1> QED
  BY <1>1, <1>2, DraftRowKeepsAmounts

(* A request that begins or ends without writing.                            *)
LEMMA OwnStepKeepsAmounts ==
  ASSUME RefundInv, RefundInv', AmountInv, NEW t \in Txn, UNCHANGED rows,
         \A u \in Txn \ {t} : serving'[u] = serving[u], serving'[t].at # "checked"
  PROVE  AmountInv'
<1>1. QuietForCompleted
  BY DEF QuietForCompleted, Completed, rows
<1> QED
  BY <1>1, QuietKeepsAmounts DEF rows

LEMMA CheckKeepsAmounts ==
  ASSUME RefundInv, RefundInv', AmountInv, NEW t \in Txn, NEW s, CheckCompletion(t, s)
  PROVE  AmountInv'
<1>0. PICK r \in Refund : r = serving[t].refund
  BY DEF CheckCompletion, Check, RefundInv, RequestsNameRefunds
<1>1. /\ UNCHANGED rows /\ Draft(r) /\ Valid(r)
      /\ \A u \in Txn \ {t} : serving'[u] = serving[u]
      /\ serving'[t].refund = r
  BY <1>0 DEF CheckCompletion, Check, RefundInv, RowsTypeOK, Serving
<1>2. QuietForCompleted
  BY <1>1 DEF QuietForCompleted, Completed, rows
<1>3. \A i \in Item : SumFunctionOnSet(Refunded(i), Completed)'
                        = SumFunctionOnSet(Refunded(i), Completed)
  BY <1>2, QuietSums DEF RefundInv
<1>4. Completed \ {r} = Completed
  BY <1>1 DEF Completed, Draft
<1>5. ASSUME NEW i \in Item
      PROVE  SumFunctionOnSet(Refunded(i), Completed) + refund[r].line[i] <= Sold[i]
  <2>1. refund[r].line[i] \in Nat /\ Sold[i] \in Nat
    BY SaleAssumption DEF RefundInv, RowsTypeOK, RefundRow, Quantities
  <2>2. SumFunctionOnSet(Refunded(i), Completed) \in Nat
    BY CompletedIsFinite, LinesAreNat, SumNat DEF RefundInv
  <2>3. SumFunctionOnSet(Refunded(i), Completed) <= Sold[i]
    BY DEF AmountInv, RefundedFits
  <2>4. refund[r].line[i] > 0
          => refund[r].line[i] <= Sold[i] - SumFunctionOnSet(Refunded(i), Completed)
    BY <1>1, <1>4 DEF Valid, RefundedElsewhere
  <2> QED
    BY <2>1, <2>2, <2>3, <2>4
<1>6. refund' = refund /\ UNCHANGED <<returned, restocked, booked, tillShut>>
  BY <1>1 DEF rows
<1>7. CheckedFits'
  <2> SUFFICES ASSUME NEW u \in Txn, serving'[u].at = "checked", NEW i \in Item
               PROVE  SumFunctionOnSet(Refunded(i), Completed)'
                        + refund'[serving'[u].refund].line[i] <= Sold[i]
    BY DEF CheckedFits
  <2>1. CASE u = t
    BY <1>1, <1>3, <1>5, <1>6, <2>1
  <2>2. CASE u # t
    <3>1. serving'[u] = serving[u]
      BY <1>1, <2>2
    <3> QED
      BY <1>3, <1>6, <3>1 DEF AmountInv, CheckedFits
  <2> QED
    BY <2>1, <2>2
<1>8. BookedTypeOK' /\ RefundedFits'
  BY <1>3, <1>6 DEF AmountInv, BookedTypeOK, RefundedFits, Completed
<1>9. BookedFits'
  BY <1>2, <1>6 DEF AmountInv, BookedFits, QuietForCompleted, InCash
<1>10. RestockedFits'
  BY <1>2, <1>6, QuietSums DEF AmountInv, RestockedFits, RefundInv
<1> QED
  BY <1>2, <1>7, <1>8, <1>9, <1>10 DEF AmountInv, QuietForCompleted

LEMMA CommitLineKeepsAmounts ==
  ASSUME RefundInv, RefundInv', AmountInv, NEW t \in Txn, CommitLine(t)
  PROVE  AmountInv'
<1>0. PICK r \in Refund : r = serving[t].refund
  BY DEF CommitLine, RefundInv, RequestsNameRefunds
<1> DEFINE q == serving[t].qty
           row == [refund[r] EXCEPT !.line =
                     [i \in Item |-> IF q[i] > 0 THEN q[i] ELSE refund[r].line[i]]]
<1>1. refund[r] \in RefundRow /\ refund[r].status = "DRAFT"
  BY <1>0 DEF CommitLine, RefundInv, RowsTypeOK, DraftsAreHeld, Draft
<1>2. row.status = "DRAFT"
  BY <1>1 DEF RefundRow
<1>3. refund' = [refund EXCEPT ![r] = row] /\ UNCHANGED <<returned, restocked, booked, tillShut>>
  BY <1>0, <1>1 DEF CommitLine, RefundInv, RowsTypeOK, RefundRow
<1>4. /\ \A u \in Txn \ {t} : serving'[u] = serving[u]
      /\ serving'[t].at = "idle"
  BY EndServingFacts DEF CommitLine
<1>5. \A u \in Txn : serving'[u].at = "checked" => serving[u] = serving'[u] /\ serving[u].refund # r
  BY <1>0, <1>4 DEF RefundInv, OneRequestPerRefund, Serves
<1> HIDE DEF row
<1> QED
  BY <1>1, <1>2, <1>3, <1>5, DraftRowKeepsAmounts

LEMMA CommitReturnKeepsAmounts ==
  ASSUME RefundInv, RefundInv', AmountInv, NEW t \in Txn, CommitReturn(t)
  PROVE  AmountInv'
<1> DEFINE q == serving[t].qty
<1>1. /\ \A u \in Txn \ {t} : serving'[u] = serving[u]
      /\ serving'[t].at = "idle"
  BY EndServingFacts DEF CommitReturn
<1>2. QuietForCompleted /\ refund' = refund
  BY DEF QuietForCompleted, Completed, CommitReturn
<1>3. \A i \in Item :
         /\ SumFunctionOnSet(Refunded(i), Completed)' = SumFunctionOnSet(Refunded(i), Completed)
         /\ SumFunctionOnSet(BackOf(i), Completed)' = SumFunctionOnSet(BackOf(i), Completed)
  BY <1>2, QuietSums DEF RefundInv
<1>4. \A i \in Item : q[i] \in Nat /\ returned[i] \in Nat /\ restocked[i] \in Nat
  BY DEF RefundInv, RowsTypeOK, Serving, Quantities, AmountInv, BookedTypeOK
<1>5. BookedTypeOK'
  BY <1>2, <1>4 DEF CommitReturn, AmountInv, BookedTypeOK, QuietForCompleted
<1>6. RefundedFits' /\ CheckedFits'
  BY <1>1, <1>2, <1>3 DEF AmountInv, RefundedFits, CheckedFits
<1>7. BookedFits'
  BY <1>2 DEF AmountInv, BookedFits, QuietForCompleted, InCash
<1>8. RestockedFits'
  <2> SUFFICES ASSUME NEW i \in Item
               PROVE  restocked'[i] = (IF i \in NonStock THEN 0 ELSE returned'[i])
                        + SumFunctionOnSet(BackOf(i), Completed)'
    BY DEF RestockedFits
  <2>1. SumFunctionOnSet(BackOf(i), Completed) \in Nat
    BY CompletedIsFinite, LinesAreNat, SumNat DEF RefundInv
  <2>2. /\ returned'[i] = returned[i] + q[i]
        /\ restocked'[i] = restocked[i] + (IF i \in NonStock THEN 0 ELSE q[i])
    BY DEF CommitReturn
  <2>3. restocked[i] = (IF i \in NonStock THEN 0 ELSE returned[i])
          + SumFunctionOnSet(BackOf(i), Completed)
    BY DEF AmountInv, RestockedFits
  <2> QED
    BY <1>3, <1>4, <2>1, <2>2, <2>3
<1> QED
  BY <1>2, <1>5, <1>6, <1>7, <1>8 DEF AmountInv, QuietForCompleted

(* The completion adds its lines to what has been refunded, and its cash to   *)
(* one drawer: a draft had been booked in none.                              *)
LEMMA CommitCompletionKeepsAmounts ==
  ASSUME RefundInv, RefundInv', AmountInv, NEW t \in Txn, NEW back \in BOOLEAN,
         CommitCompletion(t, back)
  PROVE  AmountInv'
<1>0. PICK r \in Refund : r = serving[t].refund
  BY DEF CommitCompletion, RefundInv, RequestsNameRefunds
<1>1. PICK s \in Session \cup {NoSession} : s = serving[t].session
  BY DEF CommitCompletion, RefundInv, RowsTypeOK, Serving
<1>2. refund[r] \in RefundRow /\ Draft(r) /\ serving[t].at = "checked"
  BY <1>0 DEF CommitCompletion, RefundInv, DraftsAreHeld, RowsTypeOK
<1> DEFINE row == [refund[r] EXCEPT !.status = "COMPLETED", !.back = back]
<1>3. refund' = [refund EXCEPT ![r] = row]
  BY <1>0, <1>2 DEF CommitCompletion, RefundInv, RowsTypeOK, RefundRow
<1>4. /\ row.status = "COMPLETED" /\ row.back = back
      /\ row.line = refund[r].line /\ row.tender = refund[r].tender
  BY <1>2 DEF RefundRow
<1> HIDE DEF row
<1>5. refund'[r] = row /\ \A x \in Refund : x # r => refund'[x] = refund[x]
  BY <1>3 DEF RefundInv, RowsTypeOK
<1>6. Completed' = Completed \cup {r} /\ r \notin Completed
  BY <1>2, <1>4, <1>5 DEF Completed, Draft
<1>7. RowsTypeOK /\ RowsTypeOK'
  BY DEF RefundInv
<1>8. Completed \subseteq Refund /\ Completed' \subseteq Refund
  BY DEF Completed
<1>9. ASSUME NEW i \in Item
      PROVE  /\ NatValued(Refunded(i), Completed) /\ NatValued(BackOf(i), Completed)
             /\ NatValued(Refunded(i)', Completed \cup {r})
             /\ NatValued(BackOf(i)', Completed \cup {r})
  <2>1. \A x \in Refund : refund[x].line[i] \in Nat /\ refund'[x].line[i] \in Nat
    BY <1>7 DEF RowsTypeOK, RefundRow, Quantities
  <2> QED
    BY <1>6, <1>8, <2>1 DEF NatValued, Refunded, BackOf
<1>10. ASSUME NEW i \in Item
       PROVE  SumFunctionOnSet(Refunded(i), Completed)'
                = SumFunctionOnSet(Refunded(i), Completed) + refund[r].line[i]
  <2>1. \A x \in Completed : Refunded(i)[x] = Refunded(i)'[x]
    BY <1>5, <1>6, <1>8 DEF Refunded
  <2>2. SumFunctionOnSet(Refunded(i), Completed) = SumFunctionOnSet(Refunded(i)', Completed)
    BY <1>9, <2>1, CompletedIsFinite, SumSame
  <2>3. SumFunctionOnSet(Refunded(i)', Completed \cup {r})
          = SumFunctionOnSet(Refunded(i)', Completed) + Refunded(i)'[r]
    BY <1>6, <1>9, CompletedIsFinite, SumAdd
  <2>4. Refunded(i)'[r] = refund[r].line[i]
    BY <1>4, <1>5 DEF Refunded
  <2> QED
    BY <1>6, <2>2, <2>3, <2>4
<1>11. ASSUME NEW i \in Item
       PROVE  SumFunctionOnSet(BackOf(i), Completed)'
                = SumFunctionOnSet(BackOf(i), Completed) + (IF back THEN refund[r].line[i] ELSE 0)
  <2>1. \A x \in Completed : BackOf(i)[x] = BackOf(i)'[x]
    BY <1>5, <1>6, <1>8 DEF BackOf
  <2>2. SumFunctionOnSet(BackOf(i), Completed) = SumFunctionOnSet(BackOf(i)', Completed)
    BY <1>9, <2>1, CompletedIsFinite, SumSame
  <2>3. SumFunctionOnSet(BackOf(i)', Completed \cup {r})
          = SumFunctionOnSet(BackOf(i)', Completed) + BackOf(i)'[r]
    BY <1>6, <1>9, CompletedIsFinite, SumAdd
  <2>4. BackOf(i)'[r] = IF back THEN refund[r].line[i] ELSE 0
    BY <1>4, <1>5 DEF BackOf
  <2> QED
    BY <1>6, <2>2, <2>3, <2>4
<1>12. \A u \in Txn : serving'[u].at # "checked"
  BY <1>2, EndServingFacts DEF CommitCompletion, RefundInv, OneSaleRequest
<1>13. RefundedFits' /\ CheckedFits'
  <2>1. \A i \in Item : SumFunctionOnSet(Refunded(i), Completed) + refund[r].line[i] <= Sold[i]
    BY <1>0, <1>2 DEF AmountInv, CheckedFits
  <2> QED
    BY <1>10, <1>12, <2>1 DEF RefundedFits, CheckedFits
<1>14. restocked' = IF back THEN [i \in Item |-> restocked[i] + refund[r].line[i]] ELSE restocked
  BY <1>0 DEF CommitCompletion
<1>15. \A i \in Item : refund[r].line[i] \in Nat /\ restocked[i] \in Nat
  BY <1>7 DEF RowsTypeOK, RefundRow, Quantities, AmountInv, BookedTypeOK
<1>16. RestockedFits'
  <2> SUFFICES ASSUME NEW i \in Item
               PROVE  restocked'[i] = (IF i \in NonStock THEN 0 ELSE returned'[i])
                        + SumFunctionOnSet(BackOf(i), Completed)'
    BY DEF RestockedFits
  <2>1. restocked'[i] = restocked[i] + (IF back THEN refund[r].line[i] ELSE 0)
    BY <1>14, <1>15
  <2>2. restocked[i] = (IF i \in NonStock THEN 0 ELSE returned[i])
          + SumFunctionOnSet(BackOf(i), Completed)
    BY DEF AmountInv, RestockedFits
  <2>3. returned' = returned /\ returned[i] \in Nat
    BY <1>7 DEF CommitCompletion, RowsTypeOK
  <2>4. SumFunctionOnSet(BackOf(i), Completed) \in Nat
    BY <1>9, CompletedIsFinite, SumNat
  <2> QED
    BY <1>11, <1>15, <2>1, <2>2, <2>3, <2>4
<1>17. \/ ~InCash(r) /\ booked' = booked /\ tillShut' = tillShut
       \/ InCash(r) /\ booked' = booked /\ tillShut' = tillShut \cup {r}
       \/ /\ InCash(r) /\ s \in Session /\ tillShut' = tillShut
          /\ booked' = [booked EXCEPT ![s] = @ \cup {r}]
  BY <1>0, <1>1 DEF CommitCompletion, InCash
<1>18. BookedTypeOK'
  <2>1. restocked' \in [Item -> Nat]
    BY <1>14, <1>15 DEF AmountInv, BookedTypeOK
  <2>2. booked' \in [Session -> SUBSET Refund]
    BY <1>17 DEF AmountInv, BookedTypeOK
  <2>3. tillShut' \subseteq Completed'
    BY <1>6, <1>17 DEF AmountInv, BookedTypeOK
  <2> QED
    BY <2>1, <2>2, <2>3 DEF BookedTypeOK
<1>19. BookedFits'
  <2> SUFFICES ASSUME NEW x \in Refund
               PROVE  IF x \in Completed' \ tillShut' /\ InCash(x)'
                      THEN \E d \in Session : {e \in Session : x \in booked'[e]} = {d}
                      ELSE {e \in Session : x \in booked'[e]} = {}
    BY DEF BookedFits
  <2>1. InCash(x)' <=> InCash(x)
    BY <1>4, <1>5 DEF InCash
  <2>2. CASE x # r
    <3>1. /\ \A e \in Session : x \in booked'[e] <=> x \in booked[e]
          /\ x \in tillShut' <=> x \in tillShut
      BY <1>17, <2>2 DEF AmountInv, BookedTypeOK
    <3> QED
      BY <1>6, <2>1, <2>2, <3>1 DEF AmountInv, BookedFits
  <2>3. CASE x = r
    <3>1. {e \in Session : r \in booked[e]} = {} /\ r \notin tillShut
      BY <1>6 DEF AmountInv, BookedFits, BookedTypeOK
    <3>2. CASE /\ booked' = booked
               /\ ~InCash(r) \/ tillShut' = tillShut \cup {r}
      <4>1. {e \in Session : r \in booked'[e]} = {}
        BY <3>1, <3>2
      <4>2. r \in tillShut' \/ ~InCash(r)
        BY <3>2
      <4> QED
        BY <2>1, <2>3, <4>1, <4>2
    <3>3. CASE /\ InCash(r) /\ s \in Session /\ tillShut' = tillShut
               /\ booked' = [booked EXCEPT ![s] = @ \cup {r}]
      <4>1. {e \in Session : r \in booked'[e]} = {s}
        BY <3>1, <3>3 DEF AmountInv, BookedTypeOK
      <4> QED
        BY <1>6, <2>1, <2>3, <3>1, <3>3, <4>1
    <3> QED
      BY <1>17, <3>2, <3>3
  <2> QED
    BY <2>2, <2>3
<1>20. IsFiniteSet(Completed')
  BY <1>6, CompletedIsFinite, FS_AddElement
<1> QED
  BY <1>13, <1>16, <1>18, <1>19, <1>20 DEF AmountInv

LEMMA RequestKeepsAmounts ==
  ASSUME RefundInv, RefundInv', AmountInv, NEW t \in Txn, RefundRequest(t)
  PROVE  AmountInv'
<1>1. ASSUME NEW r \in Refund, NEW i \in Item, NEW q, BeginLine(t, r, i, q) PROVE AmountInv'
  <2>1. UNCHANGED rows /\ serving'[t].at = "line"
        /\ \A u \in Txn \ {t} : serving'[u] = serving[u]
    BY <1>1 DEF BeginLine, RefundInv, RowsTypeOK, Serving
  <2> QED
    BY <2>1, OwnStepKeepsAmounts
<1>2. ASSUME NEW r \in Refund, BeginCompletion(t, r) PROVE AmountInv'
  <2>1. UNCHANGED rows /\ serving'[t].at = "complete"
        /\ \A u \in Txn \ {t} : serving'[u] = serving[u]
    BY <1>2 DEF BeginCompletion, RefundInv, RowsTypeOK, Serving
  <2> QED
    BY <2>1, OwnStepKeepsAmounts
<1>3. ASSUME NEW q, BeginReturn(t, q) PROVE AmountInv'
  <2>1. UNCHANGED rows /\ serving'[t].at = "return"
        /\ \A u \in Txn \ {t} : serving'[u] = serving[u]
    BY <1>3 DEF BeginReturn, RefundInv, RowsTypeOK, Serving
  <2> QED
    BY <2>1, OwnStepKeepsAmounts
<1>4. CASE Rollback(t)
  <2>1. UNCHANGED rows /\ serving'[t].at = "idle"
        /\ \A u \in Txn \ {t} : serving'[u] = serving[u]
    BY <1>4, EndServingFacts DEF Rollback
  <2> QED
    BY <2>1, OwnStepKeepsAmounts
<1>5. ASSUME NEW s \in SessionsFound, CheckCompletion(t, s) PROVE AmountInv'
  BY <1>5, CheckKeepsAmounts
<1> QED
  BY <1>1, <1>2, <1>3, <1>4, <1>5, CommitLineKeepsAmounts, CommitCompletionKeepsAmounts,
     CommitReturnKeepsAmounts DEF RefundRequest

LEMMA AmountsUnchanged ==
  ASSUME RefundInv, RefundInv', AmountInv, UNCHANGED <<rows, serving>>
  PROVE  AmountInv'
<1>1. QuietForCompleted
  BY DEF QuietForCompleted, Completed, rows
<1> QED
  BY <1>1, QuietKeepsAmounts DEF rows

LEMMA StepKeepsAmounts ==
  TillInv /\ RefundInv /\ AmountInv /\ [RefundsNext]_refundVars => AmountInv'
<1> SUFFICES ASSUME TillInv, RefundInv, AmountInv, [RefundsNext]_refundVars PROVE AmountInv'
  OBVIOUS
<1>0. RefundInv'
  BY StepKeeps
<1>1. ASSUME NEW t \in Txn, TillStep(t) PROVE AmountInv'
  BY <1>0, <1>1, AmountsUnchanged DEF TillStep
<1>2. CASE UNCHANGED refundVars
  BY <1>0, <1>2, AmountsUnchanged DEF refundVars
<1> QED
  BY <1>0, <1>1, <1>2, DraftStepKeepsAmounts, RequestKeepsAmounts DEF RefundsNext

(* Quantities, drawers and stock keep their invariants too, whatever requests *)
(* completeRefund and createSaleReturn overlap with.                          *)
THEOREM AmountsInvariance == RefundsSpec => [](TillInv /\ RefundInv /\ AmountInv)
<1>1. RefundsInit => TillInv /\ RefundInv /\ AmountInv
  BY TillInitially, RefundsInitially, AmountsInitially DEF RefundsInit
<1>2. TillInv /\ RefundInv /\ AmountInv /\ [RefundsNext]_refundVars
        => (TillInv /\ RefundInv /\ AmountInv)'
  BY StepKeeps, StepKeepsAmounts
<1> QED
  BY <1>1, <1>2, PTL DEF RefundsSpec

(* completeRefund counts the completed refunds of a line under the sale lock, *)
(* createSaleReturn its returns: neither exceeds what was sold, however       *)
(* drafts are edited and completed side by side.                             *)
THEOREM RefundsBounded == RefundsSpec => []RefundedWithinSold
<1>1. RefundInv /\ AmountInv => RefundedWithinSold
  BY DEF RefundInv, ReturnedWithinSold, AmountInv, RefundedFits, RefundedWithinSold
<1> QED
  BY <1>1, AmountsInvariance, PTL

(* recordCashRefundMovementForSaleRefundTx: a refund that paid cash is one    *)
(* movement of one drawer, none if no session was open, and what went back on *)
(* stock is what returns and refunds say, each once, however often a          *)
(* completion is repeated.                                                   *)
THEOREM RefundsBooked == RefundsSpec => []RefundsBookedOnce
<1>1. ASSUME AmountInv PROVE RefundsBookedOnce
  <2>2. ASSUME NEW r \in Refund
        PROVE  Cardinality({s \in Session : r \in booked[s]})
                 = IF /\ r \in Completed \ tillShut
                      /\ refund[r].tender["CASH"] > 0 THEN 1 ELSE 0
    BY <1>1, FS_EmptySet, FS_Singleton DEF AmountInv, BookedFits, InCash
  <2> QED
    BY <1>1, <2>2 DEF RefundsBookedOnce, AmountInv, RestockedFits, BackOf
<1>2. AmountInv => RefundsBookedOnce
  BY <1>1
<1> QED
  BY <1>2, AmountsInvariance, PTL

-----------------------------------------------------------------------------
(* Money.  What the completed refunds are worth follows from what they        *)
(* refund of each line; only the rounding of the tax adds to it.              *)

LEMMA QuotientBound ==
  ASSUME NEW a \in Nat, NEW b \in Nat \ {0}
  PROVE  a \div b \in Nat /\ b * (a \div b) <= a
OBVIOUS

LEMMA ValueFacts ==
  ASSUME NEW q \in Quantities
  PROVE  /\ NatValued([i \in Item |-> q[i] * Price[i]], Item)
         /\ Value(q) \in Nat
<1>1. \A i \in Item : q[i] * Price[i] \in Nat
  BY SaleAssumption DEF Quantities
<1>2. NatValued([i \in Item |-> q[i] * Price[i]], Item)
  BY <1>1 DEF NatValued
<1> QED
  BY <1>2, ItemAssumption, SumNat DEF Value

LEMMA ValueMonotonic ==
  ASSUME NEW p \in Quantities, NEW q \in Quantities, \A i \in Item : p[i] <= q[i]
  PROVE  Value(p) <= Value(q)
<1>1. \A i \in Item : p[i] \in Nat /\ q[i] \in Nat /\ Price[i] \in Nat
  BY SaleAssumption DEF Quantities
<1>2. \A i \in Item : p[i] * Price[i] <= q[i] * Price[i]
  BY <1>1
<1> QED
  BY <1>2, ValueFacts, ItemAssumption, SumMonotonic DEF Value

LEMMA ValueOfSum ==
  ASSUME NEW p \in Quantities, NEW q \in Quantities, NEW s,
         \A i \in Item : s[i] = p[i] + q[i]
  PROVE  Value(s) = Value(p) + Value(q)
<1>1. \A i \in Item : p[i] \in Nat /\ q[i] \in Nat /\ Price[i] \in Nat
  BY SaleAssumption DEF Quantities
<1>2. \A i \in Item : s[i] * Price[i] = p[i] * Price[i] + q[i] * Price[i]
  BY <1>1
<1> QED
  BY <1>2, ValueFacts, ItemAssumption, SumOfSums DEF Value

Valued == [r \in Refund |-> Value(refund[r].line)]
Taxed == [r \in Refund |-> TaxOf(Value(refund[r].line))]

(* The refunds of a set are worth what they refund of each line together.    *)
LEMMA ValueOfRefunds ==
  ASSUME RowsTypeOK, NEW C \in SUBSET Refund, IsFiniteSet(C)
  PROVE  SumFunctionOnSet(Valued, C)
           = Value([i \in Item |-> SumFunctionOnSet(Refunded(i), C)])
<1> DEFINE Lines(T) == [i \in Item |-> SumFunctionOnSet(Refunded(i), T)]
           G == {T \in SUBSET C : SumFunctionOnSet(Valued, T) = Value(Lines(T))}
<1>1. \A r \in Refund : refund[r].line \in Quantities
  BY DEF RowsTypeOK, RefundRow
<1>2. \A T \in SUBSET C : IsFiniteSet(T)
  BY FS_Subset
<1>3. \A T \in SUBSET C : Lines(T) \in Quantities /\ NatValued(Valued, T)
  <2> SUFFICES ASSUME NEW T \in SUBSET C
               PROVE  Lines(T) \in Quantities /\ NatValued(Valued, T)
    OBVIOUS
  <2>1. \A i \in Item : SumFunctionOnSet(Refunded(i), T) \in Nat
    BY <1>2, LinesAreNat, SumNat
  <2>2. NatValued(Valued, T)
    BY <1>1, ValueFacts DEF NatValued, Valued
  <2> QED
    BY <2>1, <2>2 DEF Quantities
<1>4. {} \in G
  <2>1. \A i \in Item : Lines({})[i] * Price[i] = 0
    BY SumEmpty, SaleAssumption
  <2>2. NatValued([i \in Item |-> Lines({})[i] * Price[i]], Item)
    BY <2>1 DEF NatValued
  <2>3. Value(Lines({})) = 0
    BY <2>1, <2>2, ItemAssumption, SumZero DEF Value
  <2> QED
    BY <2>3, SumEmpty
<1>5. ASSUME NEW T \in SUBSET C, NEW r \in C \ T, T \in G PROVE T \cup {r} \in G
  <2>1. T \cup {r} \in SUBSET C /\ IsFiniteSet(T)
    BY <1>2
  <2>2. SumFunctionOnSet(Valued, T \cup {r}) = SumFunctionOnSet(Valued, T) + Value(refund[r].line)
    <3>1. NatValued(Valued, T \cup {r})
      BY <1>3, <2>1
    <3>2. Valued[r] = Value(refund[r].line)
      BY DEF Valued
    <3> QED
      BY <2>1, <3>1, <3>2, SumAdd
  <2>3. \A i \in Item : Lines(T \cup {r})[i] = Lines(T)[i] + refund[r].line[i]
    BY <2>1, LinesAreNat, SumAdd DEF Refunded
  <2>4. Value(Lines(T \cup {r})) = Value(Lines(T)) + Value(refund[r].line)
    <3>1. Lines(T) \in Quantities /\ refund[r].line \in Quantities
      BY <1>1, <1>3
    <3> HIDE DEF Lines
    <3> QED
      BY <2>3, <3>1, ValueOfSum
  <2>5. SumFunctionOnSet(Valued, T) = Value(Lines(T))
    BY <1>5
  <2> QED
    BY <2>1, <2>2, <2>4, <2>5
<1>6. SUBSET C \subseteq G
  <2> HIDE DEF G
  <2> QED
    BY <1>4, <1>5, SubsetInduction
<1> QED
  BY <1>6

(* Math.round adds half a penny at most.                                     *)
LEMMA TaxBound ==
  ASSUME NEW n \in Nat
  PROVE  /\ TaxOf(n) \in Nat
         /\ (2 * Subtotal) * TaxOf(n) <= (2 * Tax) * n + Subtotal
<1>1. Subtotal \in Nat /\ Tax \in Nat
  BY ValueFacts, SaleAssumption DEF Subtotal, Quantities
<1>2. CASE n > 0 /\ Subtotal > 0 /\ Tax > 0
  <2> DEFINE a == 2 * n * Tax + Subtotal
             b == 2 * Subtotal
  <2>1. a \in Nat /\ b \in Nat \ {0}
    BY <1>1, <1>2
  <2>2. TaxOf(n) = a \div b
    BY <1>2 DEF TaxOf
  <2>3. a = (2 * Tax) * n + Subtotal
    BY <1>1
  <2> HIDE DEF a, b
  <2>4. TaxOf(n) \in Nat /\ b * TaxOf(n) <= a
    BY <2>1, <2>2, QuotientBound
  <2> QED
    BY <2>3, <2>4 DEF b
<1>3. CASE ~(n > 0 /\ Subtotal > 0 /\ Tax > 0)
  <2>1. TaxOf(n) = 0
    BY <1>3 DEF TaxOf
  <2>2. (2 * Tax) * n + Subtotal \in Nat
    BY <1>1
  <2> QED
    BY <1>1, <2>1, <2>2
<1> QED
  BY <1>2, <1>3

LEMMA TaxOfRefunds ==
  ASSUME RowsTypeOK, NEW C \in SUBSET Refund, IsFiniteSet(C)
  PROVE  (2 * Subtotal) * SumFunctionOnSet(Taxed, C)
           <= (2 * Tax) * SumFunctionOnSet(Valued, C) + Subtotal * Cardinality(C)
<1> DEFINE left == [r \in Refund |-> (2 * Subtotal) * Taxed[r]]
           share == [r \in Refund |-> (2 * Tax) * Valued[r]]
           half == [r \in Refund |-> Subtotal]
           right == [r \in Refund |-> share[r] + half[r]]
<1>1. Subtotal \in Nat /\ Tax \in Nat /\ IsFiniteSet(C)
  BY ValueFacts, SaleAssumption DEF Subtotal, Quantities
<1>2. \A r \in C : Valued[r] \in Nat /\ Taxed[r] \in Nat
                   /\ (2 * Subtotal) * Taxed[r] <= (2 * Tax) * Valued[r] + Subtotal
  <2> SUFFICES ASSUME NEW r \in C
               PROVE  Valued[r] \in Nat /\ Taxed[r] \in Nat
                      /\ (2 * Subtotal) * Taxed[r] <= (2 * Tax) * Valued[r] + Subtotal
    OBVIOUS
  <2>1. refund[r].line \in Quantities
    BY DEF RowsTypeOK, RefundRow
  <2>2. Valued[r] \in Nat /\ Valued[r] = Value(refund[r].line) /\ Taxed[r] = TaxOf(Valued[r])
    BY <2>1, ValueFacts DEF Valued, Taxed
  <2> QED
    BY <2>2, TaxBound
<1>3. NatValued(Valued, C) /\ NatValued(Taxed, C)
  BY <1>2 DEF NatValued
<1>4. /\ NatValued(left, C) /\ NatValued(right, C)
      /\ NatValued(share, C) /\ NatValued(half, C)
  BY <1>1, <1>2 DEF NatValued
<1>5. SumFunctionOnSet(left, C) <= SumFunctionOnSet(right, C)
  <2>1. \A r \in C : left[r] <= right[r]
    BY <1>2
  <2> HIDE DEF left, right
  <2> QED
    BY <1>1, <1>4, <2>1, SumMonotonic
<1>6. SumFunctionOnSet(left, C) = (2 * Subtotal) * SumFunctionOnSet(Taxed, C)
  <2>1. (\A r \in C : left[r] = (2 * Subtotal) * Taxed[r]) /\ 2 * Subtotal \in Nat
    BY <1>1
  <2> HIDE DEF left
  <2> QED
    BY <1>1, <1>3, <2>1, SumTimes
<1>7. SumFunctionOnSet(share, C) = (2 * Tax) * SumFunctionOnSet(Valued, C)
  <2>1. (\A r \in C : share[r] = (2 * Tax) * Valued[r]) /\ 2 * Tax \in Nat
    BY <1>1
  <2> HIDE DEF share
  <2> QED
    BY <1>1, <1>3, <2>1, SumTimes
<1>8. SumFunctionOnSet(half, C) = Subtotal * Cardinality(C)
  <2>1. \A r \in C : half[r] = Subtotal
    OBVIOUS
  <2> HIDE DEF half
  <2> QED
    BY <1>1, <2>1, SumConstant
<1>9. SumFunctionOnSet(right, C) = SumFunctionOnSet(share, C) + SumFunctionOnSet(half, C)
  <2>1. \A r \in C : right[r] = share[r] + half[r]
    OBVIOUS
  <2> HIDE DEF right, share, half
  <2> QED
    BY <1>1, <1>4, <2>1, SumOfSums
<1> QED
  BY <1>5, <1>6, <1>7, <1>8, <1>9

LEMMA Cancelled ==
  ASSUME NEW a \in Nat, NEW b \in Nat, NEW c \in Nat \ {0}, c * a <= c * b
  PROVE  a <= b
OBVIOUS

LEMMA Doubled ==
  ASSUME NEW s \in Nat, NEW x \in Nat, NEW t \in Nat, NEW n \in Nat, NEW c \in Nat, n <= s,
         (2 * s) * x <= (2 * t) * n + s * c
  PROVE  s * (2 * x) <= s * (2 * t + c)
<1>1. (2 * t) * n <= (2 * t) * s
  OBVIOUS
<1>2. (2 * t) * s + s * c = s * (2 * t + c) /\ (2 * s) * x = s * (2 * x)
  OBVIOUS
<1>3. /\ (2 * s) * x \in Nat /\ (2 * t) * n \in Nat /\ s * c \in Nat
      /\ (2 * t) * s \in Nat
  OBVIOUS
<1> QED
  BY <1>1, <1>2, <1>3

LEMMA TotalsFit ==
  ASSUME RowsTypeOK, AmountInv
  PROVE  RefundsWithinTotal
<1> DEFINE C == Completed
           V == SumFunctionOnSet(Valued, C)
           X == SumFunctionOnSet(Taxed, C)
<1>1. IsFiniteSet(C) /\ C \subseteq Refund /\ Cardinality(C) \in Nat
  BY CompletedIsFinite, FS_CardinalityType
<1>2. Subtotal \in Nat /\ Tax \in Nat
  BY ValueFacts, SaleAssumption DEF Subtotal, Quantities
<1>3. \A r \in Refund : refund[r].line \in Quantities
  BY DEF RowsTypeOK, RefundRow
<1>4. NatValued(Valued, C) /\ NatValued(Taxed, C)
  BY <1>1, <1>3, ValueFacts, TaxBound DEF NatValued, Valued, Taxed
<1>5. V \in Nat /\ X \in Nat
  BY <1>1, <1>4, SumNat
<1>6. V <= Subtotal
  <2> DEFINE L == [i \in Item |-> SumFunctionOnSet(Refunded(i), C)]
  <2>1. L \in Quantities /\ Sold \in Quantities
    <3>1. \A i \in Item : SumFunctionOnSet(Refunded(i), C) \in Nat
      BY <1>1, LinesAreNat, SumNat
    <3> QED
      BY <3>1, SaleAssumption DEF Quantities
  <2>2. \A i \in Item : L[i] <= Sold[i]
    BY DEF AmountInv, RefundedFits
  <2>3. V = Value(L)
    BY <1>1, ValueOfRefunds
  <2> HIDE DEF L, V
  <2> QED
    BY <2>1, <2>2, <2>3, ValueMonotonic DEF Subtotal
<1>7. 2 * X <= 2 * Tax + Cardinality(C)
  <2>1. CASE Subtotal = 0
    <3>1. \A r \in C : Taxed[r] = 0
      BY <1>1, <2>1 DEF Taxed, TaxOf
    <3>2. X = 0
      BY <1>1, <1>4, <3>1, SumZero
    <3> QED
      BY <1>1, <1>2, <3>2
  <2>2. CASE Subtotal # 0
    <3>1. (2 * Subtotal) * X <= (2 * Tax) * V + Subtotal * Cardinality(C)
      BY <1>1, TaxOfRefunds
    <3> HIDE DEF C, V, X
    <3>2. Subtotal * (2 * X) <= Subtotal * (2 * Tax + Cardinality(C))
      BY <1>1, <1>2, <1>5, <1>6, <3>1, Doubled
    <3> QED
      BY <1>1, <1>2, <1>5, <2>2, <3>2, Cancelled
  <2> QED
    BY <2>1, <2>2
<1>8. SumFunctionOnSet([r \in Refund |-> TotalOf(refund[r].line)], C) = V + X
  <2> DEFINE total == [r \in Refund |-> TotalOf(refund[r].line)]
  <2>1. \A r \in C : total[r] = Valued[r] + Taxed[r]
    BY <1>1 DEF Valued, Taxed, TotalOf
  <2> HIDE DEF total
  <2>2. SumFunctionOnSet(total, C) = V + X
    BY <1>1, <1>4, <2>1, SumOfSums
  <2> QED
    BY <2>2 DEF total
<1> HIDE DEF V, X
<1> QED
  BY <1>1, <1>2, <1>5, <1>6, <1>7, <1>8 DEF RefundsWithinTotal

(* computeRefundTotals: the refunds of a sale, each with its tax rounded by   *)
(* itself, exceed what the sale took by half a penny a refund at most.        *)
THEOREM RefundsWithinSale == RefundsSpec => []RefundsWithinTotal
<1>1. RefundInv /\ AmountInv => RefundsWithinTotal
  BY TotalsFit DEF RefundInv
<1> QED
  BY <1>1, AmountsInvariance, PTL
=============================================================================
