------------------------------ MODULE SaleRows ------------------------------
(***************************************************************************)
(* What one transaction of the sale services does to the rows that hang    *)
(* off a Sale, as operators on one record: the tender rows, the payment    *)
(* rows, the captured payment intents and the CASH_SALE movements of the   *)
(* sale, each kept as the sum of its rows per method.                      *)
(*                                                                         *)
(* CARD stands for every method that is not cash (CARD, BANK_TRANSFER,     *)
(* VOUCHER, OTHER): the completion rules only ask whether money is cash.   *)
(***************************************************************************)
EXTENDS Integers

Method == {"CASH", "CARD"}
Money == [Method -> Nat]
NoMoney == [m \in Method |-> 0]
Only(m, a) == [NoMoney EXCEPT ![m] = a]
Plus(x, y) == [m \in Method |-> x[m] + y[m]]
Amount(x) == x["CASH"] + x["CARD"]
AtLeast0(n) == IF n > 0 THEN n ELSE 0

SaleStatus == {"open", "completed", "deleted"}

(* status:   open until completedAt is set; deleted once the row is gone   *)
(* change, credited: changeDuePence and the CREDIT_ISSUED payment          *)
(* tender:   SaleTender rows;  paid: Payment rows that are not            *)
(*           CREDIT_ISSUED;  captured: those made for captured intents     *)
(* drawer:   CASH_SALE movements recorded for the sale                     *)
(* tillShut, cash, cashPaid: did the completion of the sale leave cash      *)
(*           unbooked because no till session was open, and what cash had  *)
(*           been tendered and paid by then (history)                      *)
SaleRow == [status : SaleStatus, change : Nat, credited : Money,
            tender : Money, paid : Money, captured : Money, drawer : Nat,
            tillShut : BOOLEAN, cash : Nat, cashPaid : Nat]

OpenRow == [status |-> "open", change |-> 0, credited |-> NoMoney,
            tender |-> NoMoney, paid |-> NoMoney, captured |-> NoMoney,
            drawer |-> 0, tillShut |-> FALSE, cash |-> 0, cashPaid |-> 0]

DeletedRow == [OpenRow EXCEPT !.status = "deleted"]

Payments(r) == Plus(r.paid, r.credited)

\* mutant: payments already taken are forgotten
OutstandingIgnoresPayments(r, total) == AtLeast0(total)

Outstanding(r, total) == AtLeast0(total - Amount(Payments(r)))

(* A sale without tenders gets them from its captured intents or, when it  *)
(* has none, from its positive payments.                                   *)
HydrationOf(r) ==
  IF r.tender # NoMoney THEN NoMoney
  ELSE IF r.captured # NoMoney THEN r.captured
  ELSE Payments(r)

Hydrated(r) == [r EXCEPT !.tender = Plus(@, HydrationOf(r))]

WithTender(r, m, a) == [r EXCEPT !.tender[m] = @ + a]

(* A cash payment is booked in the drawer when it is taken.                *)
WithPayment(r, m, a) ==
  [r EXCEPT !.paid[m] = @ + a,
            !.drawer = @ + (IF m = "CASH" THEN a ELSE 0)]

WithCapture(r, m, a) == [WithPayment(r, m, a) EXCEPT !.captured[m] = @ + a]

OverTender(r, total) == AtLeast0(Amount(r.tender) - total)

\* mutant: any over-tender is accepted
TenderRulesWithoutCashRule(r, total, credit) ==
  Amount(r.tender) > 0 /\ Amount(r.tender) >= total

TenderRulesHold(r, total, credit) ==
  /\ Amount(r.tender) > 0
  /\ Amount(r.tender) >= total
  /\ r.tender["CASH"] >= OverTender(r, total) \/ credit

ChangeDue(r, total, credit) == IF credit THEN 0 ELSE OverTender(r, total)

OverpaymentCredit(r, total) ==
  Only(IF r.tender["CASH"] >= OverTender(r, total) THEN "CASH" ELSE "CARD",
       OverTender(r, total))

\* mutant: cash booked by payments is booked again
UnrecordedCashTwice(r, change) == AtLeast0(r.tender["CASH"] - change)

(* Cash of the tenders, less the change, that no payment has booked yet.   *)
UnrecordedCash(r, change) ==
  AtLeast0(AtLeast0(r.tender["CASH"] - change) - r.paid["CASH"])

(* recordCashSaleMovementForSaleTx writes nothing when no session is open.  *)
Completed(r, total, credit, tillOpen) ==
  LET change == ChangeDue(r, total, credit)
  IN  [r EXCEPT !.status = "completed",
                !.change = change,
                !.credited = IF credit THEN OverpaymentCredit(r, total) ELSE @,
                !.drawer = @ + (IF tillOpen THEN UnrecordedCash(r, change) ELSE 0),
                !.tillShut = ~tillOpen /\ UnrecordedCash(r, change) > 0,
                !.cash = r.tender["CASH"],
                !.cashPaid = r.paid["CASH"]]
=============================================================================
