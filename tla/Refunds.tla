------------------------------- MODULE Refunds ------------------------------
(***************************************************************************)
(* What goes back of one completed sale: refunds, drafted line by line and *)
(* completed against tenders, and returns, which are one request; both     *)
(* beside the till their cash comes out of.                                *)
(*                                                                         *)
(* Every request on a refund locks its row.  Completion then locks the     *)
(* sale too, as a return does.  A draft line is checked against refunds    *)
(* that may complete before it is written, so completion checks again.     *)
(***************************************************************************)
EXTENDS Till, FiniteSets, FiniteSetsExt, Functions

CONSTANTS
  Refund,     \* refunds of the sale
  Item,       \* its lines
  Sold,       \* Sold[i]: their quantities
  Price,      \* Price[i]: unitPricePence
  Tax,        \* taxPence of the sale
  NonStock,   \* lines that returns do not put on stock
  Amounts,    \* amounts of tenders
  MaxTender,  \* bound on what the tenders of a refund add up to
  NoRefund

ASSUME SaleAssumption ==
  /\ Sold \in [Item -> Nat] /\ Price \in [Item -> Nat] /\ Tax \in Nat
  /\ NonStock \subseteq Item
ASSUME TenderAssumption == Amounts \subseteq Nat \ {0} /\ MaxTender \in Nat
ASSUME NoRefundAssumption == NoRefund \notin Refund
ASSUME ItemAssumption == IsFiniteSet(Item)

VARIABLES
  refund,     \* refund[r]: the Refund row with its lines and tenders
  returned,   \* returned[i]: SaleReturnItem rows, added up
  restocked,  \* restocked[i]: RETURN rows of the ledger, added up
  booked,     \* booked[s]: refunds with a cash movement in session s
  tillShut,   \* refunds that paid cash and found no session to book it in (history)
  serving     \* serving[t]: the refund or return request of t

rows == <<refund, returned, restocked, booked, tillShut>>
refundVars == <<till, rows, serving>>

Kinds == {"CASH", "OTHER"}   \* CARD and VOUCHER are treated as OTHER is
Quantities == [Item -> Nat]
None == [i \in Item |-> 0]
RefundRow == [status : {"NONE", "DRAFT", "COMPLETED"}, line : Quantities,
              tender : [Kinds -> Nat], back : BOOLEAN]
Serving == [at : {"idle", "line", "complete", "checked", "return"}, refund : Refund \cup {NoRefund},
            qty : Quantities, session : Session \cup {NoSession}]
NotServing == [at |-> "idle", refund |-> NoRefund, qty |-> None,
               session |-> NoSession]

RefundsInit ==
  /\ TillInit
  /\ refund = [r \in Refund |-> [status |-> "NONE", line |-> None, back |-> FALSE,
                                 tender |-> [k \in Kinds |-> 0]]]
  /\ returned = None
  /\ restocked = None
  /\ booked = [s \in Session |-> {}]
  /\ tillShut = {}
  /\ serving = [t \in Txn |-> NotServing]

-----------------------------------------------------------------------------
(* Money *)

Value(q) == SumFunctionOnSet([i \in Item |-> q[i] * Price[i]], Item)
Subtotal == Value(Sold)

\* mutant: the share is upside down
TaxUpsideDown(n) == IF n > 0 THEN (2 * Subtotal * Tax + n) \div (2 * n) ELSE 0

(* Math.round of the share of the sale's tax.                                *)
TaxOf(n) ==
  IF n > 0 /\ Subtotal > 0 /\ Tax > 0 THEN (2 * n * Tax + Subtotal) \div (2 * Subtotal) ELSE 0

TotalOf(q) == Value(q) + TaxOf(Value(q))
Tendered(r) == refund[r].tender["CASH"] + refund[r].tender["OTHER"]

Completed == {r \in Refund : refund[r].status = "COMPLETED"}
Refunded(i) == [r \in Refund |-> refund[r].line[i]]
RefundedElsewhere(r, i) == SumFunctionOnSet(Refunded(i), Completed \ {r})

Draft(r) == refund[r].status = "DRAFT"
RefundIsFree(r) == \A t \in Txn : serving[t].refund # r
SaleIsFree == \A t \in Txn : serving[t].at \notin {"checked", "return"}
Free(t) == errand[t].at = "idle" /\ serving[t].at = "idle"

EndServing(t) == serving' = [serving EXCEPT ![t] = NotServing]

-----------------------------------------------------------------------------
(* Drafts.  What only reads rows of the locked refund is one step.           *)

CreateRefund(r) ==
  /\ refund[r].status = "NONE"
  /\ refund' = [refund EXCEPT ![r].status = "DRAFT"]
  /\ UNCHANGED <<till, returned, restocked, booked, tillShut, serving>>

EditDraft(r, row) ==
  /\ RefundIsFree(r)
  /\ refund' = [refund EXCEPT ![r] = row]
  /\ UNCHANGED <<till, returned, restocked, booked, tillShut, serving>>

\* upsertRefundLine
BeginLine(t, r, i, q) ==
  /\ Free(t) /\ RefundIsFree(r) /\ Draft(r)
  /\ q > 0 /\ q <= Sold[i] - RefundedElsewhere(r, i)
  /\ serving' = [serving EXCEPT ![t].at = "line", ![t].refund = r,
                                ![t].qty = [None EXCEPT ![i] = q]]
  /\ UNCHANGED <<till, rows>>

CommitLine(t) ==
  LET q == serving[t].qty
  IN  /\ serving[t].at = "line"
      /\ refund' = [refund EXCEPT ![serving[t].refund].line =
           [i \in Item |-> IF q[i] > 0 THEN q[i] ELSE @[i]]]
      /\ EndServing(t)
      /\ UNCHANGED <<till, returned, restocked, booked, tillShut>>

DeleteLine(r, i) ==
  Draft(r) /\ refund[r].line[i] > 0 /\ EditDraft(r, [refund[r] EXCEPT !.line[i] = 0])

AddTender(r, k, a) ==
  /\ Draft(r)
  /\ Tendered(r) + a <= MaxTender
  /\ EditDraft(r, [refund[r] EXCEPT !.tender[k] = @ + a])

(* One of the tenders that make up the sum: what is left is none, or others. *)
HasTender(r, k, a) ==
  \/ refund[r].tender[k] = a
  \/ \E b \in Amounts : refund[r].tender[k] >= a + b

\* mutant: the status is not looked at
DeleteTenderOfAny(r, k, a) ==
  /\ HasTender(r, k, a)
  /\ EditDraft(r, [refund[r] EXCEPT !.tender[k] = @ - a])

DeleteTender(r, k, a) ==
  /\ Draft(r)
  /\ HasTender(r, k, a)
  /\ EditDraft(r, [refund[r] EXCEPT !.tender[k] = @ - a])

-----------------------------------------------------------------------------
(* completeRefund                                                           *)

BeginCompletion(t, r) ==
  /\ Free(t) /\ RefundIsFree(r)
  /\ refund[r].status # "NONE"
  /\ serving' = [serving EXCEPT ![t].at = "complete", ![t].refund = r]
  /\ UNCHANGED <<till, rows>>

Valid(r) ==
  /\ refund[r].line # None
  /\ \A i \in Item :
       refund[r].line[i] > 0 => refund[r].line[i] <= Sold[i] - RefundedElsewhere(r, i)
  /\ Tendered(r) = TotalOf(refund[r].line)

Check(t, s) ==
  /\ serving[t].at = "complete"
  /\ Valid(serving[t].refund)
  /\ serving' = [serving EXCEPT ![t].at = "checked", ![t].session = s]
  /\ UNCHANGED <<till, rows>>

\* mutant: completion does not lock the sale
CheckWithoutSaleLock(t, s) ==
  serving[t].at = "complete" /\ Draft(serving[t].refund) /\ Check(t, s)

\* mutant: a refund that is completed is completed again
CheckAgain(t, s) == serving[t].at = "complete" /\ SaleIsFree /\ Check(t, s)

(* The sale lock, all that is read under it, and the open session.  A         *)
(* refund that is COMPLETED is answered as it is.                            *)
CheckCompletion(t, s) ==
  /\ serving[t].at = "complete" /\ SaleIsFree
  /\ Draft(serving[t].refund)
  /\ Check(t, s)

(* back: returnToStock, which takes every line.  Without a session the cash   *)
(* is not booked.  A second movement for a refund in one session breaks the  *)
(* unique key, and with it the transaction.                                  *)
CommitCompletion(t, back) ==
  LET r == serving[t].refund
      s == serving[t].session
      inCash == refund[r].tender["CASH"] > 0
  IN  /\ serving[t].at = "checked"
      /\ refund' = [refund EXCEPT ![r].status = "COMPLETED", ![r].back = back]
      /\ restocked' = IF back
                      THEN [i \in Item |-> restocked[i] + refund[r].line[i]] ELSE restocked
      /\ \/ ~inCash /\ UNCHANGED <<booked, tillShut>>
         \/ inCash /\ s = NoSession /\ tillShut' = tillShut \cup {r} /\ UNCHANGED booked
         \/ /\ inCash /\ s # NoSession
            /\ r \notin booked[s]
            /\ booked' = [booked EXCEPT ![s] = @ \cup {r}]
            /\ UNCHANGED tillShut
      /\ EndServing(t)
      /\ UNCHANGED <<till, returned>>

-----------------------------------------------------------------------------
(* createSaleReturn: it counts earlier returns, and no refunds.  The payment  *)
(* it may write, with its cash movement, is read by no other request here.   *)

BeginReturn(t, q) ==
  /\ Free(t) /\ SaleIsFree
  /\ q # None /\ \A i \in Item : q[i] <= Sold[i] - returned[i]
  /\ serving' = [serving EXCEPT ![t].at = "return", ![t].qty = q]
  /\ UNCHANGED <<till, rows>>

CommitReturn(t) ==
  LET q == serving[t].qty
  IN  /\ serving[t].at = "return"
      /\ returned' = [i \in Item |-> returned[i] + q[i]]
      /\ restocked' = [i \in Item |-> restocked[i] + (IF i \in NonStock THEN 0 ELSE q[i])]
      /\ EndServing(t)
      /\ UNCHANGED <<till, refund, booked, tillShut>>

Rollback(t) ==
  /\ serving[t].at # "idle"
  /\ EndServing(t)
  /\ UNCHANGED <<till, rows>>

-----------------------------------------------------------------------------
DraftStep(r) ==
  \/ CreateRefund(r)
  \/ \E i \in Item : DeleteLine(r, i)
  \/ \E k \in Kinds, a \in Amounts : AddTender(r, k, a) \/ DeleteTender(r, k, a)

RefundRequest(t) ==
  \/ \E r \in Refund :
       \/ \E i \in Item : \E q \in 1 .. Sold[i] : BeginLine(t, r, i, q)
       \/ BeginCompletion(t, r)
  \/ \E s \in SessionsFound : CheckCompletion(t, s)
  \/ \E q \in [Item -> 0 .. Max({Sold[i] : i \in Item})] : BeginReturn(t, q)
  \/ \E back \in BOOLEAN : CommitCompletion(t, back)
  \/ CommitLine(t) \/ CommitReturn(t) \/ Rollback(t)

TillStep(t) ==
  /\ serving[t].at = "idle"
  /\ TillRequest(t) \/ TillAnswer(t)
  /\ UNCHANGED <<rows, serving>>

RefundsNext ==
  \/ \E r \in Refund : DraftStep(r)
  \/ \E t \in Txn : RefundRequest(t) \/ TillStep(t)

RefundsSpec == RefundsInit /\ [][RefundsNext]_refundVars
-----------------------------------------------------------------------------
(* Properties *)

(* completeRefund under the sale lock and createSaleReturn under the same one: *)
(* neither the completed refunds nor the returns of a line exceed what was     *)
(* sold, however drafts are edited and completed side by side.                *)
RefundedWithinSold ==
  \A i \in Item :
    /\ SumFunctionOnSet(Refunded(i), Completed) <= Sold[i]
    /\ returned[i] <= Sold[i]

(* computeRefundTotals rounds the tax of each refund by itself: together they  *)
(* stay within what the sale took but for half a penny a refund, no more.     *)
RefundsWithinTotal ==
  2 * SumFunctionOnSet([r \in Refund |-> TotalOf(refund[r].line)], Completed)
    <= 2 * (Subtotal + Tax) + Cardinality(Completed)

(* Line and tender requests of a refund that is being completed wait for its   *)
(* row and then find it COMPLETED: what it paid out stays what its lines are   *)
(* worth.                                                                    *)
CompletedRefundIsSettled ==
  \A r \in Completed : refund[r].line # None /\ Tendered(r) = TotalOf(refund[r].line)

(* Completion may be repeated, also when another session is open, and returns  *)
(* run beside it: a refund that paid cash is one movement of one drawer, or no *)
(* movement when its completion found no session.  What goes back on stock is *)
(* each line of a refund that says so and each stock line of a return, once.  *)
RefundsBookedOnce ==
  /\ \A r \in Refund :
       Cardinality({s \in Session : r \in booked[s]})
         = IF /\ r \in Completed \ tillShut
              /\ refund[r].tender["CASH"] > 0 THEN 1 ELSE 0
  /\ \A i \in Item :
       restocked[i] = (IF i \in NonStock THEN 0 ELSE returned[i])
         + SumFunctionOnSet([r \in Refund |-> IF refund[r].back THEN refund[r].line[i] ELSE 0],
                           Completed)
=============================================================================
