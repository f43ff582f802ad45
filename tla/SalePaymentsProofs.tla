------------------------- MODULE SalePaymentsProofs -------------------------
(***************************************************************************)
(* Proofs about SalePayments, for any number of sales, intents and         *)
(* concurrent requests and any totals and amounts.                         *)
(*                                                                         *)
(* The inductive invariant has two halves.  The rows of every sale are     *)
(* sound on their own (SoundRow), and a request that holds the sale lock   *)
(* has read the rows as they are (LockedReadsAreCurrent).  A locking       *)
(* handler therefore writes what one of the operators of SaleRows makes of *)
(* a sound row, and the row lemmas say that this is a sound row again.     *)
(*                                                                         *)
(* Payments are tied to the intents they were made for by a second         *)
(* invariant (CountInv): the captured intents of a sale add up to what its *)
(* payments say they captured, and an intent that is being captured is     *)
(* touched by no other request (IntentsHeld).                              *)
(***************************************************************************)
EXTENDS SalePayments, SumTheorems

-----------------------------------------------------------------------------
(* The rows of one sale.                                                    *)

Unsettled(r) == r.status = "open" => r.change = 0 /\ r.credited = NoMoney

CapturedIsPaid(r) == \A m \in Method : r.captured[m] <= r.paid[m]

CapturedFits(r, total) == Amount(r.captured) <= total

Covered(r, total) ==
  r.status = "completed" =>
    /\ Amount(r.tender) - r.change - Amount(r.credited) >= total
    /\ r.change <= r.tender["CASH"]

DrawerIsNet(r) ==
  LET net == r.cash - r.change
      later == r.paid["CASH"] - r.cashPaid
  IN  /\ r.status = "open" => r.cash = 0 /\ r.cashPaid = 0
      /\ r.status # "deleted" =>
           r.drawer - later = IF ~r.tillShut /\ net > r.cashPaid THEN net ELSE r.cashPaid

SoundRow(r, total) ==
  /\ Unsettled(r)
  /\ CapturedIsPaid(r)
  /\ CapturedFits(r, total)
  /\ Covered(r, total)
  /\ DrawerIsNet(r)

LEMMA MoneyType ==
  /\ NoMoney \in Money
  /\ \A m \in Method, a \in Nat : Only(m, a) \in Money
  /\ \A x, y \in Money : Plus(x, y) \in Money
  /\ \A x \in Money : Amount(x) \in Nat
BY DEF Money, NoMoney, Only, Plus, Amount, Method

LEMMA RowType ==
  /\ OpenRow \in SaleRow
  /\ DeletedRow \in SaleRow
  /\ \A r \in SaleRow : Payments(r) \in Money
BY MoneyType DEF OpenRow, DeletedRow, SaleRow, SaleStatus, Payments

LEMMA HydrationType ==
  ASSUME NEW r \in SaleRow
  PROVE  HydrationOf(r) \in Money
BY MoneyType, RowType DEF HydrationOf, SaleRow

LEMMA OpenRowSound ==
  ASSUME NEW total \in Nat
  PROVE  SoundRow(OpenRow, total) /\ SoundRow(DeletedRow, total)
BY DEF SoundRow, Unsettled, CapturedIsPaid, CapturedFits, Covered,
       DrawerIsNet, OpenRow, DeletedRow, NoMoney, Amount, Method

LEMMA WithTenderSound ==
  ASSUME NEW r \in SaleRow, NEW total \in Nat, NEW m \in Method, NEW a \in Nat,
         r.status = "open", SoundRow(r, total)
  PROVE  /\ WithTender(r, m, a) \in SaleRow
         /\ SoundRow(WithTender(r, m, a), total)
         /\ WithTender(r, m, a).status = "open"
<1> DEFINE w == WithTender(r, m, a)
<1>1. /\ w = [r EXCEPT !.tender = [r.tender EXCEPT ![m] = @ + a]]
      /\ [r.tender EXCEPT ![m] = @ + a] \in Money
  BY DEF WithTender, SaleRow, Money
<1> HIDE DEF w
<1>2. /\ w \in SaleRow
      /\ \A f \in {"status", "change", "credited", "paid", "captured", "drawer",
                   "tillShut", "cash", "cashPaid"} : w[f] = r[f]
  BY <1>1 DEF SaleRow
<1>3. SoundRow(w, total)
  BY <1>2 DEF SoundRow, Unsettled, CapturedIsPaid, CapturedFits, Covered, DrawerIsNet
<1> QED
  BY <1>2, <1>3 DEF w

LEMMA WithoutTenderSound ==
  ASSUME NEW r \in SaleRow, NEW total \in Nat, NEW m \in Method, NEW a \in Nat,
         r.status = "open", SoundRow(r, total), r.tender[m] >= a
  PROVE  /\ [r EXCEPT !.tender[m] = @ - a] \in SaleRow
         /\ SoundRow([r EXCEPT !.tender[m] = @ - a], total)
         /\ [r EXCEPT !.tender[m] = @ - a].status = "open"
BY DEF SoundRow, Unsettled, CapturedIsPaid, CapturedFits, Covered,
       DrawerIsNet, SaleRow, Money

(* CommitListTenders: rows that appear beside those of any sale, completed  *)
(* or not, take nothing away from it.                                       *)
LEMMA MoreTendersSound ==
  ASSUME NEW r \in SaleRow, NEW total \in Nat, NEW h \in Money,
         \A m \in Method : h[m] >= r.tender[m], SoundRow(r, total)
  PROVE  /\ [r EXCEPT !.tender = h] \in SaleRow
         /\ SoundRow([r EXCEPT !.tender = h], total)
BY DEF SoundRow, Unsettled, CapturedIsPaid, CapturedFits, Covered,
       DrawerIsNet, SaleRow, Money, Amount, Method

LEMMA HydratedSound ==
  ASSUME NEW r \in SaleRow, NEW total \in Nat, SoundRow(r, total)
  PROVE  /\ Hydrated(r) \in SaleRow
         /\ SoundRow(Hydrated(r), total)
         /\ Hydrated(r).status = r.status
<1>1. Plus(r.tender, HydrationOf(r)) \in Money
  BY MoneyType, HydrationType DEF SaleRow
<1>2. \A m \in Method : Plus(r.tender, HydrationOf(r))[m] >= r.tender[m]
  BY HydrationType DEF Plus, SaleRow, Money
<1> QED
  BY <1>1, <1>2, MoreTendersSound DEF Hydrated, SaleRow

LEMMA WithPaymentFields ==
  ASSUME NEW r \in SaleRow, NEW m \in Method, NEW a \in Nat
  PROVE  LET p == WithPayment(r, m, a)
         IN  /\ p \in SaleRow
             /\ p.status = r.status /\ p.change = r.change
             /\ p.credited = r.credited
             /\ p.tender = r.tender /\ p.captured = r.captured
             /\ p.paid = [r.paid EXCEPT ![m] = @ + a]
             /\ p.drawer = r.drawer + (IF m = "CASH" THEN a ELSE 0)
             /\ p.tillShut = r.tillShut /\ p.cash = r.cash /\ p.cashPaid = r.cashPaid
<1> DEFINE p == WithPayment(r, m, a)
           paid == [r.paid EXCEPT ![m] = @ + a]
           drawer == r.drawer + (IF m = "CASH" THEN a ELSE 0)
<1>1. paid \in Money /\ drawer \in Nat
  BY DEF SaleRow, Money
<1>2. p = [r EXCEPT !.paid = paid, !.drawer = drawer]
  BY DEF WithPayment, SaleRow
<1> HIDE DEF p, paid, drawer
<1>3. /\ p \in SaleRow
      /\ p.status = r.status /\ p.change = r.change /\ p.credited = r.credited
      /\ p.tender = r.tender /\ p.captured = r.captured
      /\ p.paid = paid /\ p.drawer = drawer
      /\ p.tillShut = r.tillShut /\ p.cash = r.cash /\ p.cashPaid = r.cashPaid
  BY <1>1, <1>2 DEF SaleRow
<1> QED
  BY <1>3 DEF p, paid, drawer

(* createPaymentIntent and capturePaymentIntentById: a capture checked      *)
(* against the outstanding amount keeps the captures within the total.      *)
LEMMA WithCaptureSound ==
  ASSUME NEW r \in SaleRow, NEW total \in Nat, NEW m \in Method, NEW a \in Nat,
         r.status = "open", SoundRow(r, total), a <= Outstanding(r, total)
  PROVE  /\ WithCapture(r, m, a) \in SaleRow
         /\ SoundRow(WithCapture(r, m, a), total)
         /\ WithCapture(r, m, a).status = "open"
<1> DEFINE w == WithCapture(r, m, a)
<1>1. /\ w \in SaleRow
      /\ w.status = r.status /\ w.change = r.change /\ w.credited = r.credited
      /\ w.tender = r.tender
      /\ w.paid = [r.paid EXCEPT ![m] = @ + a]
      /\ w.captured = [r.captured EXCEPT ![m] = @ + a]
      /\ w.drawer = r.drawer + (IF m = "CASH" THEN a ELSE 0)
      /\ w.tillShut = r.tillShut /\ w.cash = r.cash /\ w.cashPaid = r.cashPaid
  <2> DEFINE p == WithPayment(r, m, a)
  <2>1. /\ p \in SaleRow
        /\ p.status = r.status /\ p.change = r.change /\ p.credited = r.credited
        /\ p.tender = r.tender /\ p.captured = r.captured
        /\ p.paid = [r.paid EXCEPT ![m] = @ + a]
        /\ p.drawer = r.drawer + (IF m = "CASH" THEN a ELSE 0)
        /\ p.tillShut = r.tillShut /\ p.cash = r.cash /\ p.cashPaid = r.cashPaid
    BY WithPaymentFields
  <2>2. /\ [p.captured EXCEPT ![m] = @ + a] \in Money
        /\ w = [p EXCEPT !.captured = [p.captured EXCEPT ![m] = @ + a]]
    BY <2>1 DEF WithCapture, SaleRow, Money
  <2> HIDE DEF p, w
  <2> QED
    BY <2>1, <2>2 DEF SaleRow
<1>2. Amount(w.captured) = Amount(r.captured) + a
  BY <1>1 DEF Amount, SaleRow, Money, Method
<1>3. Amount(r.captured) <= Amount(r.paid)
  BY DEF SoundRow, CapturedIsPaid, Amount, SaleRow, Money, Method
<1>4. a = 0 \/ a <= total - Amount(r.paid)
  BY DEF Outstanding, AtLeast0, Payments, Plus, Amount, SaleRow, Money, Method
<1>5. CapturedFits(w, total)
  <2>1. Amount(r.captured) <= total
    BY DEF SoundRow, CapturedFits
  <2>2. Amount(r.captured) \in Nat /\ Amount(r.paid) \in Nat
    BY MoneyType DEF SaleRow
  <2> QED
    BY <1>2, <1>3, <1>4, <2>1, <2>2 DEF CapturedFits
<1>6. DrawerIsNet(w) /\ CapturedIsPaid(w) /\ Covered(w, total) /\ Unsettled(w)
  BY <1>1 DEF DrawerIsNet, CapturedIsPaid, Covered, Unsettled, SoundRow,
              SaleRow, Money, Method
<1> QED
  BY <1>1, <1>5, <1>6 DEF SoundRow

(* completeSaleIfEligibleTx: completing an open sale whose tenders pass the *)
(* rules leaves a sale that is covered and a drawer that holds its cash.    *)
LEMMA CompletedSound ==
  ASSUME NEW r \in SaleRow, NEW total \in Nat, NEW credit \in BOOLEAN,
         NEW open \in BOOLEAN, r.status = "open", SoundRow(r, total),
         TenderRulesHold(r, total, credit)
  PROVE  /\ Completed(r, total, credit, open) \in SaleRow
         /\ SoundRow(Completed(r, total, credit, open), total)
         /\ Completed(r, total, credit, open).status = "completed"
<1> DEFINE change == ChangeDue(r, total, credit)
           c == Completed(r, total, credit, open)
           over == OverTender(r, total)
<1>1. /\ over \in Nat
      /\ Amount(r.tender) \in Nat
      /\ Amount(r.tender) - over >= total
  BY MoneyType DEF OverTender, AtLeast0, TenderRulesHold, SaleRow
<1>2. change \in Nat /\ change <= r.tender["CASH"]
  BY <1>1 DEF ChangeDue, TenderRulesHold, SaleRow, Money, Method
<1>3. UnrecordedCash(r, change) \in Nat
  BY <1>2 DEF UnrecordedCash, AtLeast0, SaleRow, Money, Method
<1>4. c.credited \in Money /\ Amount(c.credited) = (IF credit THEN over ELSE 0)
  <2>1. c.credited = IF credit THEN OverpaymentCredit(r, total) ELSE NoMoney
    BY DEF Completed, SoundRow, Unsettled, SaleRow
  <2>2. /\ OverpaymentCredit(r, total) \in Money
        /\ Amount(OverpaymentCredit(r, total)) = over
    BY <1>1 DEF OverpaymentCredit, Only, NoMoney, Money, Amount, Method
  <2> QED
    BY <2>1, <2>2 DEF NoMoney, Money, Amount, Method
<1>5. /\ c \in SaleRow /\ c.status = "completed" /\ c.change = change
      /\ c.tender = r.tender /\ c.paid = r.paid /\ c.captured = r.captured
      /\ c.drawer = r.drawer + (IF open THEN UnrecordedCash(r, change) ELSE 0)
      /\ c.tillShut = (~open /\ UnrecordedCash(r, change) > 0)
      /\ c.cash = r.tender["CASH"] /\ c.cashPaid = r.paid["CASH"]
  <2>1. c = [r EXCEPT !.status = "completed", !.change = change,
                      !.credited = c.credited, !.drawer = c.drawer,
                      !.tillShut = c.tillShut, !.cash = r.tender["CASH"],
                      !.cashPaid = r.paid["CASH"]]
    BY DEF Completed, SaleRow
  <2>2. c.drawer = r.drawer + (IF open THEN UnrecordedCash(r, change) ELSE 0)
    BY DEF Completed, SaleRow
  <2>3. c.drawer \in Nat /\ r.tender["CASH"] \in Nat /\ r.paid["CASH"] \in Nat
    BY <1>3, <2>2 DEF SaleRow, Money, Method
  <2>4. c.tillShut = (~open /\ UnrecordedCash(r, change) > 0)
    BY DEF Completed, SaleRow
  <2> HIDE DEF c, change
  <2> QED
    BY <1>2, <1>4, <2>1, <2>2, <2>3, <2>4 DEF SaleRow, SaleStatus
<1>6. Covered(c, total)
  BY <1>1, <1>2, <1>4, <1>5 DEF Covered, ChangeDue
<1>7. DrawerIsNet(c)
  <2>2. /\ r.tender["CASH"] \in Nat /\ r.paid["CASH"] \in Nat
        /\ r.drawer \in Nat
    BY DEF SaleRow, Money, Method
  <2>3. r.change = 0 /\ r.cash = 0 /\ r.cashPaid = 0
    BY DEF SoundRow, Unsettled, DrawerIsNet
  <2>1. r.drawer = r.paid["CASH"]
    BY <2>2, <2>3 DEF SoundRow, DrawerIsNet
  <2> DEFINE left == UnrecordedCash(r, change)
  <2>4. left = AtLeast0(AtLeast0(c.cash - change) - c.cashPaid) /\ left \in Nat
    BY <1>3, <1>5 DEF UnrecordedCash
  <2> HIDE DEF left, change, c
  <2>5. /\ c.status = "completed" /\ c.change = change /\ c.paid = r.paid
        /\ c.drawer = r.drawer + (IF open THEN left ELSE 0)
        /\ c.tillShut = (~open /\ left > 0)
        /\ c.cash = r.tender["CASH"] /\ c.cashPaid = r.paid["CASH"]
    BY <1>5 DEF left
  <2> DEFINE paid == r.paid["CASH"]
             net == r.tender["CASH"] - change
  <2>6. /\ paid \in Nat /\ net \in Nat
        /\ left = IF net > paid THEN net - paid ELSE 0
    BY <1>2, <2>2, <2>4, <2>5 DEF AtLeast0
  <2>7. c.drawer = IF ~c.tillShut /\ net > paid THEN net ELSE paid
    <3> HIDE DEF paid, net
    <3>1. r.drawer = paid
      BY <2>1 DEF paid
    <3>2. c.tillShut <=> ~open /\ left > 0
      BY <2>5
    <3>3. c.drawer = paid + (IF open THEN left ELSE 0)
      BY <2>5, <3>1
    <3>4. CASE open
      BY <2>6, <3>2, <3>3, <3>4
    <3>5. CASE ~open
      BY <2>6, <3>2, <3>3, <3>5
    <3> QED
      BY <3>4, <3>5
  <2> QED
    BY <2>5, <2>6, <2>7 DEF DrawerIsNet
<1>8. Unsettled(c) /\ CapturedIsPaid(c) /\ CapturedFits(c, total)
  BY <1>5 DEF SoundRow, Unsettled, CapturedIsPaid, CapturedFits
<1> QED
  BY <1>5, <1>6, <1>7, <1>8 DEF SoundRow

-----------------------------------------------------------------------------
(* The inductive invariant.                                                 *)

ArgsBound ==
  \A t \in Txn :
    /\ op[t] # "idle" => arg[t].sale \in Sale
    /\ op[t] \in {"captureWaits", "capture"} => arg[t].intent \in Intent

IntentsHaveSales ==
  \A i \in Intent : intent[i].status \notin {"NONE", "DELETED"} => intent[i].sale \in Sale

SoundRows == \A s \in Sale : SoundRow(row[s], Total[s])

(* The layaway of a locked sale may change after it was read, but does not  *)
(* come into being or go away: only a deletion of the sale does that.       *)
LayawayKnown ==
  \A t \in Txn : op[t] \in Locking =>
    (seenLay[t].status = "NONE" <=> layaway[arg[t].sale].status = "NONE")

IInv ==
  /\ TypeOK
  /\ ArgsBound
  /\ IntentsHaveSales
  /\ LockedReadsAreCurrent
  /\ SoundRows
  /\ LayawayKnown
  /\ CapturedSaleIsCompleted

LEMMA RecordTypes ==
  /\ NoArg \in Arg
  /\ NoLayaway \in LayawayRow
  /\ [NoLayaway EXCEPT !.status = "ACTIVE"] \in LayawayRow
  /\ NoIntent \in IntentRow /\ DeletedIntent \in IntentRow
BY DEF NoArg, Arg, NoLayaway, LayawayRow, LayawayStatus, NoIntent, DeletedIntent,
       IntentRow, IntentStatus, Method

LEMMA InitInv == Init => IInv
<1> SUFFICES ASSUME Init PROVE IInv
  OBVIOUS
<1>1. \A s \in Sale : row[s] \in SaleRow /\ SoundRow(row[s], Total[s])
                       /\ row[s].captured = NoMoney
  <2> SUFFICES ASSUME NEW s \in Sale
               PROVE  row[s] \in SaleRow /\ SoundRow(row[s], Total[s])
                       /\ row[s].captured = NoMoney
    OBVIOUS
  <2>1. Total[s] \in Nat /\ CheckedOut(s)
    BY TotalAssumption DEF Init
  <2>2. CASE row[s] = OpenRow
    <3>1. OpenRow.captured = NoMoney
      BY DEF OpenRow
    <3> QED
      BY <2>1, <2>2, <3>1, RowType, OpenRowSound
  <2>3. CASE \E m \in Method : row[s] = WithPayment(OpenRow, m, Total[s])
    <3> PICK m \in Method : row[s] = WithPayment(OpenRow, m, Total[s])
      BY <2>3
    <3>1. /\ row[s] \in SaleRow
          /\ row[s].status = "open"
          /\ row[s].change = 0 /\ row[s].credited = NoMoney
          /\ row[s].captured = NoMoney
          /\ row[s].paid = [NoMoney EXCEPT ![m] = @ + Total[s]]
          /\ row[s].drawer = (IF m = "CASH" THEN Total[s] ELSE 0)
          /\ row[s].cash = 0 /\ row[s].cashPaid = 0
      <4>1. /\ OpenRow.status = "open" /\ OpenRow.change = 0
            /\ OpenRow.credited = NoMoney /\ OpenRow.captured = NoMoney
            /\ OpenRow.paid = NoMoney /\ OpenRow.drawer = 0
            /\ OpenRow.cash = 0 /\ OpenRow.cashPaid = 0
        BY DEF OpenRow
      <4> QED
        BY <2>1, <4>1, WithPaymentFields, RowType
    <3>2. SoundRow(row[s], Total[s])
      BY <2>1, <3>1 DEF SoundRow, Unsettled, CapturedIsPaid, CapturedFits, Covered,
                        DrawerIsNet, NoMoney, Amount, Method
    <3> QED
      BY <3>1, <3>2
  <2> QED
    BY <2>1, <2>2, <2>3 DEF CheckedOut
<1>2. row \in [Sale -> SaleRow] /\ layaway \in [Sale -> LayawayRow]
  BY <1>1, RecordTypes DEF Init
<1>3. TypeOK
  BY <1>2, RowType, RecordTypes DEF Init, TypeOK, Op
<1> QED
  BY <1>1, <1>3 DEF Init, IInv, ArgsBound, IntentsHaveSales,
     LockedReadsAreCurrent, SoundRows, LayawayKnown, CapturedSaleIsCompleted,
     Locking, NoIntent

-----------------------------------------------------------------------------
(* Transactions that begin and end.                                         *)

(* Every handler that begins by locking its sale.                           *)
LEMMA BeginLockedInv ==
  ASSUME IInv, NEW t \in Txn, NEW s \in Sale,
         NEW name \in {"addTender", "deleteTender", "complete", "createIntent"},
         NEW a \in Arg, a.sale = s,
         Enter(t, name, a), LockSale(t, s), ReadSale(t, s),
         UNCHANGED <<row, intent, layaway, till, ilock, emitted>>
  PROVE  IInv'
<1> USE DEF IInv
<1>1. TypeOK'
  BY DEF TypeOK, Enter, LockSale, ReadSale, Op, Locking
<1>2. ArgsBound'
  BY DEF TypeOK, ArgsBound, Enter
<1>3. LockedReadsAreCurrent'
  BY NoneAssumption DEF TypeOK, LockedReadsAreCurrent, Enter, LockSale, ReadSale
<1>4. LayawayKnown'
  BY DEF TypeOK, LayawayKnown, Enter, ReadSale
<1> QED
  BY <1>1, <1>2, <1>3, <1>4 DEF IntentsHaveSales, SoundRows, CapturedSaleIsCompleted

(* What the end of a transaction means for the others: they keep their      *)
(* locks and what they have read.                                           *)
LEMMA EndFacts ==
  ASSUME IInv, NEW t \in Txn, op[t] # "idle", Leave(t) \/ LeaveToEmit(t)
  PROVE  /\ lock' \in [Sale -> Txn \cup {None}]
         /\ ilock' \in [Intent -> Txn \cup {None}]
         /\ op' \in [Txn -> Op]
         /\ arg' \in [Txn -> Arg]
         /\ seen' \in [Txn -> SaleRow]
         /\ seenLay' \in [Txn -> LayawayRow]
         /\ ArgsBound'
         /\ op'[t] \notin Locking
         /\ \A u \in Txn \ {t} :
              /\ op'[u] = op[u] /\ arg'[u] = arg[u]
              /\ seen'[u] = seen[u] /\ seenLay'[u] = seenLay[u]
         /\ \A s \in Sale : lock[s] # t => lock'[s] = lock[s]
<1> USE DEF IInv
<1>1. /\ lock' \in [Sale -> Txn \cup {None}]
      /\ ilock' \in [Intent -> Txn \cup {None}]
      /\ seen' \in [Txn -> SaleRow]
      /\ seenLay' \in [Txn -> LayawayRow]
      /\ \A s \in Sale : lock[s] # t => lock'[s] = lock[s]
      /\ \A u \in Txn \ {t} : seen'[u] = seen[u] /\ seenLay'[u] = seenLay[u]
  BY RowType, RecordTypes DEF TypeOK, Leave, LeaveToEmit, EndTransaction
<1>2. /\ op' \in [Txn -> Op]
      /\ arg' \in [Txn -> Arg]
      /\ op'[t] \notin Locking
      /\ \A u \in Txn \ {t} : op'[u] = op[u] /\ arg'[u] = arg[u]
  BY RecordTypes DEF TypeOK, Leave, LeaveToEmit, Op, Locking
<1>3. op'[t] = "idle" \/ (op'[t] = "emit" /\ arg'[t] = arg[t])
  BY DEF TypeOK, Leave, LeaveToEmit
<1>4. ArgsBound'
  BY <1>2, <1>3 DEF ArgsBound
<1> QED
  BY <1>1, <1>2, <1>4

(* A locking handler commits: it writes a sound row and a layaway for its   *)
(* own sale, and nobody else has read that row under a lock.                *)
LEMMA CommitInv ==
  ASSUME IInv, NEW t \in Txn, op[t] \in Locking, Leave(t) \/ LeaveToEmit(t),
         NEW r \in SaleRow, SoundRow(r, Total[arg[t].sale]),
         row' = [row EXCEPT ![arg[t].sale] = r],
         NEW l \in LayawayRow,
         layaway' = [layaway EXCEPT ![arg[t].sale] = l],
         l.status = "NONE" <=> layaway[arg[t].sale].status = "NONE",
         r.captured # NoMoney /\ l.status = "NONE" => r.status = "completed",
         intent' \in [Intent -> IntentRow], IntentsHaveSales',
         UNCHANGED <<till, emitted>>
  PROVE  IInv'
<1> USE DEF IInv
<1> DEFINE s == arg[t].sale
<1>1. op[t] # "idle" /\ s \in Sale
  BY DEF ArgsBound, Locking
<1>2. \A u \in Txn \ {t} : op[u] \in Locking => arg[u].sale # s /\ arg[u].sale \in Sale
  BY DEF LockedReadsAreCurrent, ArgsBound, Locking
<1>3. TypeOK'
  BY <1>1, EndFacts DEF TypeOK
<1>4. LockedReadsAreCurrent'
  <2> SUFFICES ASSUME NEW u \in Txn, op'[u] \in Locking
               PROVE  lock'[arg'[u].sale] = u /\ seen'[u] = row'[arg'[u].sale]
    BY DEF LockedReadsAreCurrent
  <2>1. u # t /\ op[u] \in Locking /\ arg'[u] = arg[u] /\ seen'[u] = seen[u]
    BY <1>1, EndFacts
  <2>2. lock[arg[u].sale] = u /\ seen[u] = row[arg[u].sale] /\ arg[u].sale \in Sale
    BY <1>2, <2>1 DEF LockedReadsAreCurrent
  <2>3. lock'[arg[u].sale] = u
    BY <1>1, <2>1, <2>2, EndFacts
  <2> QED
    BY <1>2, <2>1, <2>2, <2>3 DEF TypeOK
<1>5. LayawayKnown'
  <2> SUFFICES ASSUME NEW u \in Txn, op'[u] \in Locking
               PROVE  seenLay'[u].status = "NONE"
                        <=> layaway'[arg'[u].sale].status = "NONE"
    BY DEF LayawayKnown
  <2>1. /\ u # t /\ op[u] \in Locking /\ arg'[u] = arg[u]
        /\ seenLay'[u] = seenLay[u]
    BY <1>1, EndFacts
  <2> QED
    BY <1>2, <2>1 DEF LayawayKnown, TypeOK
<1>6. SoundRows' /\ CapturedSaleIsCompleted'
  BY <1>1 DEF SoundRows, CapturedSaleIsCompleted, TypeOK
<1>7. ArgsBound'
  BY <1>1, EndFacts
<1> QED
  BY <1>3, <1>4, <1>5, <1>6, <1>7

-----------------------------------------------------------------------------
(* What a locking handler knows and what its parts write.                   *)

LEMMA LockedFacts ==
  ASSUME IInv, NEW t \in Txn, op[t] \in Locking
  PROVE  /\ arg[t] \in Arg /\ arg[t].sale \in Sale
         /\ Total[arg[t].sale] \in Nat
         /\ seen[t] = row[arg[t].sale]
         /\ seen[t] \in SaleRow
         /\ SoundRow(seen[t], Total[arg[t].sale])
         /\ seenLay[t] \in LayawayRow
         /\ seenLay[t].status = "NONE" <=> layaway[arg[t].sale].status = "NONE"
         /\ layaway[arg[t].sale] \in LayawayRow
BY TotalAssumption DEF IInv, TypeOK, ArgsBound, LockedReadsAreCurrent, SoundRows,
   LayawayKnown, Locking

LEMMA SyncLayawayWrites ==
  ASSUME IInv, NEW t \in Txn, op[t] \in Locking, NEW n \in Nat, SyncLayaway(t, n)
  PROVE  \E l \in LayawayRow :
           /\ layaway' = [layaway EXCEPT ![arg[t].sale] = l]
           /\ l.status = "NONE" <=> layaway[arg[t].sale].status = "NONE"
<1> DEFINE s == arg[t].sale
           status == IF n > 0 THEN "PART_PAID" ELSE "ACTIVE"
           l == [layaway[s] EXCEPT !.deposit = n, !.status = status]
<1>1. CASE layaway' = layaway
  BY <1>1, LockedFacts DEF IInv, TypeOK
<1>2. CASE layaway' # layaway
  <2>1. LayawayOpen(seenLay[t])
    BY <1>2 DEF SyncLayaway
  <2>2. seenLay[t].status # "NONE" /\ layaway[s].status # "NONE"
    BY <2>1, LockedFacts DEF LayawayOpen
  <2>3. l \in LayawayRow /\ l.status # "NONE"
    BY LockedFacts DEF LayawayRow, LayawayStatus
  <2>4. layaway' = [layaway EXCEPT ![s] = l]
    BY <1>2, LockedFacts DEF SyncLayaway, IInv, TypeOK
  <2> QED
    BY <2>2, <2>3, <2>4
<1> QED
  BY <1>1, <1>2

LEMMA CompleteSaleInv ==
  ASSUME IInv, NEW t \in Txn, op[t] \in Locking,
         NEW r \in SaleRow, SoundRow(r, Total[arg[t].sale]), r.status = "open",
         NEW credit \in BOOLEAN, CompleteSale(t, r, credit),
         intent' \in [Intent -> IntentRow], IntentsHaveSales',
         UNCHANGED <<till, emitted>>
  PROVE  IInv'
<1> DEFINE s == arg[t].sale
           h == Hydrated(r)
           c == Completed(h, Total[s], credit, till)
           l == IF seenLay[t].status \notin {"NONE", "COMPLETED"}
                THEN [layaway[s] EXCEPT !.status = "COMPLETED", !.completed = TRUE]
                ELSE layaway[s]
<1>1. h \in SaleRow /\ SoundRow(h, Total[s]) /\ h.status = "open"
  BY HydratedSound, LockedFacts
<1>2. c \in SaleRow /\ SoundRow(c, Total[s]) /\ c.status = "completed"
  <2>1. till \in BOOLEAN /\ TenderRulesHold(h, Total[s], credit)
    BY DEF IInv, TypeOK, CompleteSale
  <2> QED
    BY <1>1, <2>1, CompletedSound, LockedFacts
<1>3. l \in LayawayRow /\ (l.status = "NONE" <=> layaway[s].status = "NONE")
  BY LockedFacts DEF LayawayRow, LayawayStatus
<1>4. layaway' = [layaway EXCEPT ![s] = l]
  BY LockedFacts DEF CompleteSale, IInv, TypeOK
<1>5. row' = [row EXCEPT ![s] = c] /\ LeaveToEmit(t)
  BY DEF CompleteSale, WriteSale
<1> HIDE DEF c, l
<1> QED
  BY <1>2, <1>3, <1>4, <1>5, CommitInv

(* The handler ends without touching the sale or its layaway.               *)
LEMMA NothingWrittenInv ==
  ASSUME IInv, NEW t \in Txn, op[t] \in Locking, Leave(t),
         UNCHANGED <<row, layaway>>,
         intent' \in [Intent -> IntentRow], IntentsHaveSales',
         UNCHANGED <<till, emitted>>
  PROVE  IInv'
<1> DEFINE s == arg[t].sale
<1>1. row' = [row EXCEPT ![s] = row[s]] /\ layaway' = [layaway EXCEPT ![s] = layaway[s]]
  BY LockedFacts DEF IInv, TypeOK
<1>2. /\ row[s] \in SaleRow /\ SoundRow(row[s], Total[s])
      /\ layaway[s] \in LayawayRow
      /\ row[s].captured # NoMoney /\ layaway[s].status = "NONE"
           => row[s].status = "completed"
  BY LockedFacts DEF IInv, CapturedSaleIsCompleted
<1> QED
  BY <1>1, <1>2, CommitInv

-----------------------------------------------------------------------------
(* One lemma per handler.                                                   *)

LEMMA AddTenderInv ==
  ASSUME IInv, NEW t \in Txn, CommitAddTender(t)
  PROVE  IInv'
<1> DEFINE s == arg[t].sale
           r == WithTender(seen[t], arg[t].method, arg[t].amount)
<1>1. op[t] \in Locking
  BY DEF CommitAddTender, Locking
<1>2. arg[t].method \in Method /\ arg[t].amount \in Nat
  BY <1>1, LockedFacts DEF Arg
<1>4. row[s].status = "open" /\ seen[t] = row[s] /\ seen[t] \in SaleRow
  BY <1>1, LockedFacts DEF CommitAddTender
<1>3. r \in SaleRow /\ SoundRow(r, Total[s]) /\ r.captured = row[s].captured
  <2>1. r \in SaleRow /\ SoundRow(r, Total[s])
    BY <1>1, <1>2, <1>4, LockedFacts, WithTenderSound
  <2>2. r.captured = seen[t].captured
    BY <1>4 DEF WithTender, SaleRow
  <2> QED
    BY <1>4, <2>1, <2>2
<1>5. PICK l \in LayawayRow :
        /\ layaway' = [layaway EXCEPT ![s] = l]
        /\ l.status = "NONE" <=> layaway[s].status = "NONE"
  <2>1. Amount(r.tender) \in Nat /\ SyncLayaway(t, Amount(r.tender))
    BY <1>3, MoneyType DEF SaleRow, CommitAddTender
  <2> QED
    BY <1>1, <2>1, SyncLayawayWrites
<1>6. r.captured # NoMoney /\ l.status = "NONE" => r.status = "completed"
  BY <1>1, <1>3, <1>4, <1>5, LockedFacts DEF IInv, CapturedSaleIsCompleted
<1>7. /\ intent' \in [Intent -> IntentRow] /\ IntentsHaveSales'
      /\ UNCHANGED <<till, emitted>>
      /\ row' = [row EXCEPT ![s] = r] /\ Leave(t)
  BY DEF CommitAddTender, WriteSale, IInv, TypeOK, IntentsHaveSales
<1> HIDE DEF r
<1> QED
  BY <1>1, <1>3, <1>5, <1>6, <1>7, CommitInv

LEMMA DeleteTenderInv ==
  ASSUME IInv, NEW t \in Txn, CommitDeleteTender(t)
  PROVE  IInv'
<1> DEFINE s == arg[t].sale
           r == [seen[t] EXCEPT !.tender[arg[t].method] = @ - arg[t].amount]
<1>1. op[t] \in Locking
  BY DEF CommitDeleteTender, Locking
<1>2. arg[t].method \in Method /\ arg[t].amount \in Nat
  BY <1>1, LockedFacts DEF Arg
<1>4. /\ row[s].status = "open" /\ seen[t] = row[s] /\ seen[t] \in SaleRow
      /\ seen[t].tender[arg[t].method] >= arg[t].amount
  BY <1>1, LockedFacts DEF CommitDeleteTender
<1>3. r \in SaleRow /\ SoundRow(r, Total[s]) /\ r.captured = row[s].captured
  <2>1. r \in SaleRow /\ SoundRow(r, Total[s])
    BY <1>1, <1>2, <1>4, LockedFacts, WithoutTenderSound
  <2>2. r.captured = seen[t].captured
    BY <1>4 DEF SaleRow
  <2> QED
    BY <1>4, <2>1, <2>2
<1>5. PICK l \in LayawayRow :
        /\ layaway' = [layaway EXCEPT ![s] = l]
        /\ l.status = "NONE" <=> layaway[s].status = "NONE"
  <2>1. Amount(r.tender) \in Nat /\ SyncLayaway(t, Amount(r.tender))
    BY <1>3, MoneyType DEF SaleRow, CommitDeleteTender
  <2> QED
    BY <1>1, <2>1, SyncLayawayWrites
<1>6. r.captured # NoMoney /\ l.status = "NONE" => r.status = "completed"
  BY <1>1, <1>3, <1>4, <1>5, LockedFacts DEF IInv, CapturedSaleIsCompleted
<1>7. /\ intent' \in [Intent -> IntentRow] /\ IntentsHaveSales'
      /\ UNCHANGED <<till, emitted>>
      /\ row' = [row EXCEPT ![s] = r] /\ Leave(t)
  BY DEF CommitDeleteTender, WriteSale, IInv, TypeOK, IntentsHaveSales
<1> HIDE DEF r
<1> QED
  BY <1>1, <1>3, <1>5, <1>6, <1>7, CommitInv

LEMMA CompleteInv ==
  ASSUME IInv, NEW t \in Txn, CommitComplete(t)
  PROVE  IInv'
<1>1. op[t] \in Locking
  BY DEF CommitComplete, Locking
<1>2. intent' \in [Intent -> IntentRow] /\ IntentsHaveSales' /\ UNCHANGED <<till, emitted>>
  BY DEF CommitComplete, IInv, TypeOK, IntentsHaveSales
<1>3. CASE AlreadyCompleted(t)
  BY <1>1, <1>2, <1>3, NothingWrittenInv DEF AlreadyCompleted
<1>4. CASE seen[t].status = "open" /\ CompleteSale(t, seen[t], arg[t].credit)
  <2>1. arg[t].credit \in BOOLEAN
    BY <1>1, LockedFacts DEF Arg
  <2> QED
    BY <1>1, <1>2, <1>4, <2>1, LockedFacts, CompleteSaleInv
<1> QED
  BY <1>3, <1>4 DEF CommitComplete

(* Without an open layaway to wait for, a capture completes the sale.       *)
LEMMA CapturedWithLayaway ==
  ASSUME IInv, NEW t \in Txn, op[t] \in Locking, ~ShouldAutoComplete(t)
  PROVE  layaway[arg[t].sale].status # "NONE"
BY LockedFacts DEF ShouldAutoComplete

(* A payment is captured for a sale that must wait for its layaway.         *)
LEMMA CaptureOnlyInv ==
  ASSUME IInv, NEW t \in Txn, op[t] \in Locking, ~ShouldAutoComplete(t), Leave(t),
         NEW r \in SaleRow, SoundRow(r, Total[arg[t].sale]), WriteSale(t, r),
         layaway' = layaway,
         intent' \in [Intent -> IntentRow], IntentsHaveSales',
         UNCHANGED <<till, emitted>>
  PROVE  IInv'
<1> DEFINE s == arg[t].sale
<1>1. layaway[s].status # "NONE" /\ layaway[s] \in LayawayRow
  BY CapturedWithLayaway, LockedFacts
<1>2. layaway' = [layaway EXCEPT ![s] = layaway[s]]
  BY LockedFacts DEF IInv, TypeOK
<1> QED
  BY <1>1, <1>2, CommitInv DEF WriteSale

LEMMA CreateIntentInv ==
  ASSUME IInv, NEW t \in Txn, CommitCreateIntent(t)
  PROVE  IInv'
<1> DEFINE a == arg[t]
           s == arg[t].sale
           r == WithCapture(seen[t], "CASH", a.amount)
           New(status) == [status |-> status, sale |-> s,
                           method |-> a.method, amount |-> a.amount]
           Create(i, status) == intent' = [intent EXCEPT ![i] = New(status)]
<1>1. op[t] \in Locking /\ UNCHANGED <<till, emitted>>
  BY DEF CommitCreateIntent, Locking
<1>2. /\ a.method \in Method /\ a.amount \in Nat
      /\ seen[t].status = "open"
      /\ a.amount <= Outstanding(seen[t], Total[s])
  BY <1>1, LockedFacts DEF Arg, CommitCreateIntent
<1>3. r \in SaleRow /\ SoundRow(r, Total[s]) /\ r.status = "open"
  BY <1>1, <1>2, LockedFacts, WithCaptureSound DEF Method
<1>4. PICK i \in Intent :
        \/ /\ Create(i, "REQUIRES_ACTION")
           /\ Leave(t) /\ UNCHANGED <<row, layaway>>
        \/ /\ Create(i, "CAPTURED")
           /\ \/ CompleteSale(t, r, FALSE)
              \/ ~ShouldAutoComplete(t) /\ WriteSale(t, r) /\ Leave(t) /\ layaway' = layaway
  BY DEF CommitCreateIntent
<1>5. \A status \in IntentStatus :
        Create(i, status) => intent' \in [Intent -> IntentRow] /\ IntentsHaveSales'
  <2> SUFFICES ASSUME NEW status \in IntentStatus, Create(i, status)
               PROVE  intent' \in [Intent -> IntentRow] /\ IntentsHaveSales'
    OBVIOUS
  <2>1. New(status) \in IntentRow /\ New(status).sale \in Sale
    BY <1>1, <1>2, LockedFacts DEF IntentRow
  <2> HIDE DEF New
  <2> QED
    BY <2>1 DEF IInv, TypeOK, IntentsHaveSales
<1>6. intent' \in [Intent -> IntentRow] /\ IntentsHaveSales'
  BY <1>4, <1>5 DEF IntentStatus
<1> HIDE DEF r, Create
<1> QED
  BY <1>1, <1>3, <1>4, <1>6, NothingWrittenInv, CompleteSaleInv, CaptureOnlyInv

LEMMA CaptureInv ==
  ASSUME IInv, NEW t \in Txn, CommitCapture(t)
  PROVE  IInv'
<1> DEFINE i == arg[t].intent
           s == arg[t].sale
           r == WithCapture(seen[t], intent[i].method, intent[i].amount)
<1>1. op[t] \in Locking /\ UNCHANGED <<till, emitted>>
  BY DEF CommitCapture, Locking
<1>2. i \in Intent /\ intent[i] \in IntentRow
  BY DEF CommitCapture, IInv, TypeOK, ArgsBound
<1>3. CASE ReplayCapture(t)
  <2>1. intent' \in [Intent -> IntentRow] /\ IntentsHaveSales'
    BY <1>3 DEF ReplayCapture, IInv, TypeOK, IntentsHaveSales
  <2>2. CASE Leave(t) /\ UNCHANGED <<row, layaway>>
    BY <1>1, <2>1, <2>2, NothingWrittenInv
  <2>3. CASE seen[t].status = "open" /\ CompleteSale(t, seen[t], FALSE)
    BY <1>1, <2>1, <2>3, LockedFacts, CompleteSaleInv
  <2> QED
    BY <1>3, <2>2, <2>3 DEF ReplayCapture, AlreadyCompleted
<1>4. CASE FirstCapture(t)
  <2>1. r \in SaleRow /\ SoundRow(r, Total[s]) /\ r.status = "open"
    BY <1>1, <1>2, <1>4, LockedFacts, WithCaptureSound DEF FirstCapture, IntentRow
  <2>2. intent' \in [Intent -> IntentRow] /\ IntentsHaveSales'
    <3>1. intent' = [intent EXCEPT ![i] = [intent[i] EXCEPT !.status = "CAPTURED"]]
      BY <1>2, <1>4 DEF FirstCapture, IInv, TypeOK
    <3>2. [intent[i] EXCEPT !.status = "CAPTURED"] \in IntentRow
      BY <1>2 DEF IntentRow, IntentStatus
    <3>3. intent[i].sale \in Sale
      BY <1>2, <1>4 DEF FirstCapture, IInv, IntentsHaveSales
    <3> QED
      BY <1>2, <3>1, <3>2, <3>3 DEF IInv, TypeOK, IntentsHaveSales, IntentRow
  <2>3. CASE CompleteSale(t, r, FALSE)
    BY <1>1, <2>1, <2>2, <2>3, CompleteSaleInv
  <2>4. CASE ~ShouldAutoComplete(t) /\ WriteSale(t, r) /\ Leave(t) /\ layaway' = layaway
    BY <1>1, <2>1, <2>2, <2>4, CaptureOnlyInv
  <2> QED
    BY <1>4, <2>3, <2>4 DEF FirstCapture
<1> QED
  BY <1>3, <1>4 DEF CommitCapture

LEMMA BeginCaptureInv ==
  ASSUME IInv, NEW t \in Txn, NEW i \in Intent, BeginCapture(t, i)
  PROVE  IInv'
<1> DEFINE a == [NoArg EXCEPT !.sale = intent[i].sale, !.intent = i]
<1>1. intent[i].sale \in Sale
  BY DEF IInv, IntentsHaveSales, BeginCapture
<1>2. a \in Arg /\ a.sale \in Sale /\ a.intent \in Intent
  BY <1>1, RecordTypes DEF Arg, NoArg
<1>3. /\ op' = [op EXCEPT ![t] = "captureWaits"] /\ op[t] = "idle"
      /\ arg' = [arg EXCEPT ![t] = a]
  BY DEF BeginCapture, Enter
<1> HIDE DEF a
<1>4. TypeOK'
  BY <1>2, <1>3 DEF IInv, TypeOK, BeginCapture, Op
<1> QED
  BY <1>2, <1>3, <1>4 DEF IInv, TypeOK, ArgsBound, IntentsHaveSales, LayawayKnown,
     LockedReadsAreCurrent, SoundRows, CapturedSaleIsCompleted, BeginCapture, Locking

LEMMA CaptureLocksSaleInv ==
  ASSUME IInv, NEW t \in Txn, CaptureLocksSale(t)
  PROVE  IInv'
<1>1. arg[t].sale \in Sale /\ arg[t].intent \in Intent
  BY DEF IInv, ArgsBound, CaptureLocksSale
<1>2. TypeOK'
  BY <1>1 DEF IInv, TypeOK, CaptureLocksSale, LockSale, ReadSale, Op, Locking
<1>3. ArgsBound' /\ IntentsHaveSales' /\ SoundRows' /\ CapturedSaleIsCompleted'
  BY DEF IInv, TypeOK, ArgsBound, IntentsHaveSales, SoundRows,
     CapturedSaleIsCompleted, CaptureLocksSale
<1>4. LockedReadsAreCurrent' /\ LayawayKnown'
  BY <1>1, NoneAssumption DEF IInv, TypeOK, LockedReadsAreCurrent, LayawayKnown,
     CaptureLocksSale, LockSale, ReadSale
<1> QED
  BY <1>2, <1>3, <1>4 DEF IInv

(* The handlers that take no lock: nobody relies on what they have read.    *)
LEMMA BeginUnlockedInv ==
  ASSUME IInv, NEW t \in Txn, NEW s \in Sale, BeginListTenders(t, s) \/ BeginReopen(t, s)
  PROVE  IInv'
<1> DEFINE a == [NoArg EXCEPT !.sale = s]
<1>1. a \in Arg /\ a.sale = s
  BY DEF Arg, NoArg, Method
<1>2. /\ op[t] = "idle" /\ op' = [op EXCEPT ![t] = op'[t]]
      /\ op'[t] \in {"list", "reopen"}
      /\ arg' = [arg EXCEPT ![t] = a] /\ ReadSale(t, s)
      /\ UNCHANGED <<row, intent, layaway, till, lock, ilock, emitted>>
  BY DEF BeginListTenders, BeginReopen, Enter, IInv, TypeOK
<1> HIDE DEF a
<1>3. TypeOK'
  BY <1>1, <1>2 DEF IInv, TypeOK, ReadSale, Op
<1> QED
  BY <1>1, <1>2, <1>3 DEF IInv, TypeOK, ArgsBound, IntentsHaveSales, LayawayKnown,
     LockedReadsAreCurrent, SoundRows, CapturedSaleIsCompleted, ReadSale, Locking

LEMMA ListReadsInv ==
  ASSUME IInv, NEW t \in Txn, ListReadsSources(t)
  PROVE  IInv'
<1> DEFINE r == [row[arg[t].sale] EXCEPT !.tender = NoMoney]
<1>1. arg[t].sale \in Sale
  BY DEF IInv, ArgsBound, ListReadsSources
<1>2. r \in SaleRow
  BY <1>1, MoneyType DEF IInv, TypeOK, SaleRow
<1>3. seen' = [seen EXCEPT ![t] = r]
  BY DEF ListReadsSources
<1> HIDE DEF r
<1>4. TypeOK'
  BY <1>2, <1>3 DEF IInv, TypeOK, ListReadsSources, Op
<1> QED
  BY <1>1, <1>3, <1>4 DEF IInv, TypeOK, ArgsBound, IntentsHaveSales, LayawayKnown,
     LockedReadsAreCurrent, SoundRows, CapturedSaleIsCompleted, ListReadsSources,
     Locking

(* Rows outside the reach of any lock are written only while nobody holds   *)
(* the lock of the sale.                                                    *)
LEMMA UnlockedCommitInv ==
  ASSUME IInv, NEW t \in Txn, op[t] # "idle", Leave(t) \/ LeaveToEmit(t),
         TypeOK', IntentsHaveSales',
         \A s \in Sale :
           \/ row'[s] = row[s] /\ layaway'[s] = layaway[s]
           \/ /\ lock[s] = None
              /\ SoundRow(row'[s], Total[s])
              /\ row'[s].captured # NoMoney /\ layaway'[s].status = "NONE"
                    => row'[s].status = "completed"
  PROVE  IInv'
<1>1. ArgsBound'
  BY EndFacts
<1>2. ASSUME NEW u \in Txn, op'[u] \in Locking
      PROVE  /\ lock'[arg'[u].sale] = u /\ seen'[u] = row'[arg'[u].sale]
             /\ seenLay'[u].status = "NONE"
                   <=> layaway'[arg'[u].sale].status = "NONE"
  <2>1. /\ u # t /\ op[u] \in Locking /\ arg'[u] = arg[u]
        /\ seen'[u] = seen[u] /\ seenLay'[u] = seenLay[u]
    BY <1>2, EndFacts
  <2>2. /\ lock[arg[u].sale] = u /\ seen[u] = row[arg[u].sale]
        /\ arg[u].sale \in Sale
        /\ seenLay[u].status = "NONE" <=> layaway[arg[u].sale].status = "NONE"
    BY <2>1 DEF IInv, LockedReadsAreCurrent, LayawayKnown, ArgsBound, Locking
  <2>3. /\ row'[arg[u].sale] = row[arg[u].sale]
        /\ layaway'[arg[u].sale] = layaway[arg[u].sale]
    BY <2>2, NoneAssumption
  <2>4. lock'[arg[u].sale] = u
    BY <2>1, <2>2, EndFacts
  <2> QED
    BY <2>1, <2>2, <2>3, <2>4
<1>3. LockedReadsAreCurrent' /\ LayawayKnown'
  BY <1>2 DEF LockedReadsAreCurrent, LayawayKnown
<1>4. SoundRows' /\ CapturedSaleIsCompleted'
  BY DEF IInv, SoundRows, CapturedSaleIsCompleted
<1> QED
  BY <1>1, <1>3, <1>4 DEF IInv

LEMMA ListTendersInv ==
  ASSUME IInv, NEW t \in Txn, CommitListTenders(t)
  PROVE  IInv'
<1> DEFINE s == arg[t].sale
           h == Plus(row[s].tender, HydrationOf(seen[t]))
           r == [row[s] EXCEPT !.tender = h]
<1>1. /\ op[t] # "idle" /\ s \in Sale /\ lock[s] = None /\ Leave(t)
      /\ row[s] \in SaleRow /\ SoundRow(row[s], Total[s]) /\ Total[s] \in Nat
  BY TotalAssumption DEF CommitListTenders, IInv, ArgsBound, TypeOK, SoundRows
<1>2. HydrationOf(seen[t]) \in Money
  BY HydrationType DEF IInv, TypeOK
<1>3. h \in Money /\ \A m \in Method : h[m] >= row[s].tender[m]
  BY <1>1, <1>2 DEF Plus, SaleRow, Money
<1>4. r \in SaleRow /\ SoundRow(r, Total[s])
  BY <1>1, <1>3, MoreTendersSound
<1>5. r.captured = row[s].captured /\ r.status = row[s].status
  BY <1>1 DEF SaleRow
<1>6. /\ row' = [row EXCEPT ![s] = r]
      /\ UNCHANGED <<intent, layaway, till, emitted>>
  BY DEF CommitListTenders, IInv, TypeOK
<1> HIDE DEF r
<1>7. TypeOK' /\ IntentsHaveSales'
  BY <1>1, <1>4, <1>6, EndFacts DEF IInv, TypeOK, IntentsHaveSales
<1>8. row'[s] = r /\ \A q \in Sale \ {s} : row'[q] = row[q]
  BY <1>1, <1>6 DEF IInv, TypeOK
<1>9. row'[s].captured # NoMoney /\ layaway'[s].status = "NONE"
        => row'[s].status = "completed"
  BY <1>1, <1>5, <1>6, <1>8 DEF IInv, CapturedSaleIsCompleted
<1> QED
  BY <1>1, <1>4, <1>6, <1>7, <1>8, <1>9, UnlockedCommitInv

LEMMA ReopenInv ==
  ASSUME IInv, NEW t \in Txn, CommitReopen(t)
  PROVE  IInv'
<1> DEFINE s == arg[t].sale
<1>1. /\ op[t] # "idle" /\ s \in Sale /\ lock[s] = None /\ Leave(t)
      /\ Total[s] \in Nat
  BY TotalAssumption DEF CommitReopen, IInv, ArgsBound
<1>2. /\ row' = [row EXCEPT ![s] = DeletedRow]
      /\ layaway' = [layaway EXCEPT ![s] = NoLayaway]
      /\ intent' = [i \in Intent |-> IF intent[i].sale = s THEN DeletedIntent ELSE intent[i]]
      /\ UNCHANGED <<till, emitted>>
  BY DEF CommitReopen
<1>3. TypeOK'
  BY <1>1, <1>2, RowType, RecordTypes, EndFacts DEF IInv, TypeOK
<1>4. IntentsHaveSales'
  BY <1>2 DEF IInv, IntentsHaveSales, NoIntent, DeletedIntent
<1>5. /\ row'[s] = DeletedRow /\ DeletedRow.captured = NoMoney
      /\ \A q \in Sale \ {s} : row'[q] = row[q] /\ layaway'[q] = layaway[q]
  BY <1>1, <1>2 DEF IInv, TypeOK, DeletedRow, OpenRow
<1> QED
  BY <1>1, <1>3, <1>4, <1>5, OpenRowSound, UnlockedCommitInv

LEMMA EndWithoutWritingInv ==
  ASSUME IInv, NEW t \in Txn, EmitCompleted(t) \/ Rollback(t)
  PROVE  IInv'
<1>1. op[t] # "idle" /\ Leave(t) /\ UNCHANGED <<row, intent, layaway, till>>
  BY DEF EmitCompleted, Rollback
<1>2. emitted' \in [Sale -> Nat]
  BY <1>1 DEF EmitCompleted, Rollback, IInv, TypeOK
<1>3. TypeOK' /\ IntentsHaveSales'
  BY <1>1, <1>2, EndFacts DEF IInv, TypeOK, IntentsHaveSales
<1> QED
  BY <1>1, <1>3, UnlockedCommitInv

LEMMA CancelIntentInv ==
  ASSUME IInv, NEW i \in Intent, CancelIntent(i)
  PROVE  IInv'
<1>1. intent' = [intent EXCEPT ![i] = [intent[i] EXCEPT !.status = "CANCELED"]]
  BY DEF CancelIntent, IInv, TypeOK
<1>2. [intent[i] EXCEPT !.status = "CANCELED"] \in IntentRow
  BY DEF IInv, TypeOK, IntentRow, IntentStatus
<1>3. intent[i].sale \in Sale
  BY DEF IInv, IntentsHaveSales, CancelIntent
<1>4. TypeOK' /\ IntentsHaveSales'
  BY <1>1, <1>2, <1>3 DEF IInv, TypeOK, IntentsHaveSales, IntentRow, CancelIntent
<1> QED
  BY <1>4 DEF IInv, ArgsBound, LayawayKnown, LockedReadsAreCurrent, SoundRows,
     CapturedSaleIsCompleted, CancelIntent

LEMMA ToggleTillInv ==
  ASSUME IInv, ToggleTill
  PROVE  IInv'
BY DEF ToggleTill, IInv, TypeOK, ArgsBound, IntentsHaveSales, LayawayKnown,
   LockedReadsAreCurrent, SoundRows, CapturedSaleIsCompleted

LEMMA BeginInv ==
  ASSUME IInv, NEW t \in Txn, Begin(t)
  PROVE  IInv'
<1>1. \A s \in Sale, m \in Method, n \in Nat :
        LET a == [NoArg EXCEPT !.sale = s, !.method = m, !.amount = n]
        IN  a \in Arg /\ a.sale = s
  BY DEF Arg, NoArg
<1>2. ASSUME NEW s \in Sale, NEW m \in Method, NEW n \in Amounts,
             \/ BeginAddTender(t, s, m, n)
             \/ BeginDeleteTender(t, s, m, n)
             \/ BeginCreateIntent(t, s, m, n)
      PROVE  IInv'
  <2> DEFINE a == [NoArg EXCEPT !.sale = s, !.method = m, !.amount = n]
  <2>1. PICK name \in {"addTender", "deleteTender", "createIntent"} : Enter(t, name, a)
    BY <1>2 DEF BeginAddTender, BeginDeleteTender, BeginCreateIntent
  <2>2. /\ LockSale(t, s) /\ ReadSale(t, s)
        /\ UNCHANGED <<row, intent, layaway, till, ilock, emitted>>
    BY <1>2 DEF BeginAddTender, BeginDeleteTender, BeginCreateIntent
  <2>3. a \in Arg /\ a.sale = s
    BY <1>1, AmountsAssumption
  <2> HIDE DEF a
  <2> QED
    BY <2>1, <2>2, <2>3, BeginLockedInv
<1>3. ASSUME NEW s \in Sale, NEW credit \in BOOLEAN, BeginComplete(t, s, credit)
      PROVE  IInv'
  <2> DEFINE a == [NoArg EXCEPT !.sale = s, !.credit = credit]
  <2>1. /\ Enter(t, "complete", a) /\ LockSale(t, s) /\ ReadSale(t, s)
        /\ UNCHANGED <<row, intent, layaway, till, ilock, emitted>>
    BY <1>3 DEF BeginComplete
  <2>2. a \in Arg /\ a.sale = s
    BY DEF Arg, NoArg, Method
  <2> HIDE DEF a
  <2> QED
    BY <2>1, <2>2, BeginLockedInv
<1> QED
  BY <1>2, <1>3, BeginUnlockedInv, BeginCaptureInv DEF Begin

LEMMA NextInv ==
  ASSUME IInv, [Next]_vars
  PROVE  IInv'
<1>1. ASSUME NEW t \in Txn,
             \/ Begin(t) \/ CaptureLocksSale(t) \/ ListReadsSources(t)
             \/ Commit(t) \/ EmitCompleted(t) \/ Rollback(t)
      PROVE  IInv'
  BY <1>1, BeginInv, CaptureLocksSaleInv, ListReadsInv, AddTenderInv, DeleteTenderInv,
     CompleteInv, CreateIntentInv, CaptureInv, ListTendersInv, ReopenInv,
     EndWithoutWritingInv DEF Commit
<1>2. CASE UNCHANGED vars
  BY <1>2 DEF vars, IInv, TypeOK, ArgsBound, IntentsHaveSales, LayawayKnown,
     LockedReadsAreCurrent, SoundRows, CapturedSaleIsCompleted
<1> QED
  BY <1>1, <1>2, CancelIntentInv, ToggleTillInv DEF Next

-----------------------------------------------------------------------------
(* The inductive invariant holds in every reachable state, for any set of   *)
(* sales, intents and concurrent requests.                                  *)
THEOREM Invariance == Spec => []IInv
<1>1. Init => IInv
  BY InitInv
<1>2. IInv /\ [Next]_vars => IInv'
  BY NextInv
<1> QED
  BY <1>1, <1>2, PTL DEF Spec

(* Every handler keeps the rows, locks and requests well typed: in          *)
(* particular no sum of tenders or payments goes negative.                  *)
THEOREM TypeCorrect == Spec => []TypeOK
<1>1. IInv => TypeOK
  BY DEF IInv
<1> QED
  BY <1>1, Invariance, PTL

(* lockSaleForUpdateTx: what a locking handler has read is still what the   *)
(* database holds, until it commits.                                        *)
THEOREM LockedReads == Spec => []LockedReadsAreCurrent
<1>1. IInv => LockedReadsAreCurrent
  BY DEF IInv
<1> QED
  BY <1>1, Invariance, PTL

(* completeSaleIfEligibleTx: a completed sale is covered by its tenders,    *)
(* net of change and credit, and change came out of cash.                   *)
THEOREM CompletedCovered == Spec => []CompletedSaleIsCovered
<1>1. IInv => CompletedSaleIsCovered
  BY DEF IInv, SoundRows, SoundRow, Covered, CompletedSaleIsCovered
<1> QED
  BY <1>1, Invariance, PTL

(* createPaymentIntent, capturePaymentIntentById: concurrent captures never *)
(* take more than the total of the sale.                                    *)
THEOREM CapturesBounded == Spec => []CapturedWithinTotal
<1>1. IInv => CapturedWithinTotal
  BY DEF IInv, SoundRows, SoundRow, CapturedFits, CapturedWithinTotal
<1> QED
  BY <1>1, Invariance, PTL

(* shouldAutoCompleteCapturedSaleTx: captured money and completion are one  *)
(* transaction unless a layaway holds the sale back.                        *)
THEOREM CaptureCompletes == Spec => []CapturedSaleIsCompleted
<1>1. IInv => CapturedSaleIsCompleted
  BY DEF IInv
<1> QED
  BY <1>1, Invariance, PTL

(* recordCashSaleMovementForPaymentTx and ...ForSaleTx together: the cash   *)
(* of a sale completed with the till open is in the drawer once and whole,  *)
(* of any other sale what was paid.                                         *)
THEOREM DrawerNet == Spec => []DrawerHoldsNetCash
<1>1. IInv => DrawerHoldsNetCash
  BY DEF IInv, SoundRows, SoundRow, DrawerIsNet, DrawerHoldsNetCash
<1> QED
  BY <1>1, Invariance, PTL

-----------------------------------------------------------------------------
(* Completion is final.                                                     *)

(* What may happen to the rows of a completed sale.                         *)
FinalStep(s) ==
  row[s].status = "completed" /\ row'[s].status # "deleted" =>
    /\ row'[s].status = "completed"
    /\ \A f \in {"change", "credited", "paid", "captured", "drawer"} :
         row'[s][f] = row[s][f]
    /\ \A m \in Method : row'[s].tender[m] >= row[s].tender[m]

(* A locking handler that writes does so because it has read an open sale.  *)
LEMMA LockedWritesOpenSales ==
  ASSUME IInv, NEW t \in Txn,
         \/ CommitAddTender(t) \/ CommitDeleteTender(t) \/ CommitComplete(t)
         \/ CommitCreateIntent(t) \/ CommitCapture(t)
  PROVE  \/ row' = row
         \/ \E r : row' = [row EXCEPT ![arg[t].sale] = r]
               /\ row[arg[t].sale].status = "open"
<1>1. op[t] \in Locking
  BY DEF CommitAddTender, CommitDeleteTender, CommitComplete, CommitCreateIntent,
         CommitCapture, Locking
<1>2. seen[t] = row[arg[t].sale]
  BY <1>1, LockedFacts
<1>3. CASE CommitAddTender(t) \/ CommitDeleteTender(t)
  BY <1>2, <1>3 DEF CommitAddTender, CommitDeleteTender, WriteSale
<1>4. CASE CommitComplete(t)
  BY <1>2, <1>4 DEF CommitComplete, AlreadyCompleted, CompleteSale, WriteSale
<1>5. CASE CommitCreateIntent(t)
  BY <1>2, <1>5 DEF CommitCreateIntent, CompleteSale, WriteSale
<1>6. CASE CommitCapture(t)
  BY <1>2, <1>6 DEF CommitCapture, ReplayCapture, FirstCapture, AlreadyCompleted,
                    CompleteSale, WriteSale
<1> QED
  BY <1>3, <1>4, <1>5, <1>6

LEMMA RowUnchanged ==
  ASSUME IInv, NEW s \in Sale, row'[s] = row[s]
  PROVE  FinalStep(s)
BY DEF FinalStep, IInv, TypeOK, SaleRow, Money

LEMMA NextWrites ==
  ASSUME Next
  PROVE  row' = row \/ \E t \in Txn : Commit(t)
<1>1. ASSUME NEW t \in Txn, Begin(t) PROVE row' = row
  BY <1>1 DEF Begin, BeginAddTender, BeginDeleteTender, BeginCreateIntent,
              BeginComplete, BeginListTenders, BeginReopen, BeginCapture
<1>2. ASSUME NEW t \in Txn,
             \/ CaptureLocksSale(t) \/ ListReadsSources(t)
             \/ EmitCompleted(t) \/ Rollback(t)
      PROVE  row' = row
  BY <1>2 DEF CaptureLocksSale, ListReadsSources, EmitCompleted, Rollback
<1>3. ToggleTill \/ (\E i \in Intent : CancelIntent(i)) => row' = row
  BY DEF ToggleTill, CancelIntent
<1> QED
  BY <1>1, <1>2, <1>3 DEF Next

LEMMA NextFinal ==
  ASSUME IInv, Next, NEW s \in Sale
  PROVE  FinalStep(s)
<1>1. CASE row' = row
  BY <1>1, RowUnchanged
<1>2. ASSUME NEW t \in Txn,
             \/ CommitAddTender(t) \/ CommitDeleteTender(t) \/ CommitComplete(t)
             \/ CommitCreateIntent(t) \/ CommitCapture(t)
      PROVE  FinalStep(s)
  <2>1. row'[s] = row[s] \/ row[s].status = "open"
    BY <1>2, LockedWritesOpenSales DEF IInv, TypeOK
  <2> QED
    BY <2>1, RowUnchanged DEF FinalStep
<1>3. ASSUME NEW t \in Txn, CommitListTenders(t)
      PROVE  FinalStep(s)
  <2> DEFINE q == arg[t].sale
             h == Plus(row[q].tender, HydrationOf(seen[t]))
             r == [row[q] EXCEPT !.tender = h]
  <2>1. q \in Sale /\ row' = [row EXCEPT ![q] = r]
    BY <1>3 DEF CommitListTenders, IInv, TypeOK, ArgsBound
  <2>2. \A m \in Method : h[m] >= row[q].tender[m]
    <3>1. HydrationOf(seen[t]) \in Money
      BY HydrationType DEF IInv, TypeOK
    <3> QED
      BY <2>1, <3>1 DEF Plus, IInv, TypeOK, SaleRow, Money
  <2>3. \A f \in {"status", "change", "credited", "paid", "captured", "drawer"} :
          r[f] = row[q][f]
    BY <2>1 DEF IInv, TypeOK, SaleRow
  <2>4. r.tender = h
    BY <2>1 DEF IInv, TypeOK, SaleRow
  <2> HIDE DEF r, h
  <2>5. CASE s = q
    BY <2>1, <2>2, <2>3, <2>4, <2>5 DEF FinalStep, IInv, TypeOK
  <2>6. CASE s # q
    BY <2>1, <2>6, RowUnchanged DEF IInv, TypeOK
  <2> QED
    BY <2>5, <2>6
<1>4. ASSUME NEW t \in Txn, CommitReopen(t)
      PROVE  FinalStep(s)
  <2>1. row'[s] = row[s] \/ row'[s].status = "deleted"
    BY <1>4 DEF CommitReopen, IInv, TypeOK, DeletedRow, OpenRow
  <2> QED
    BY <2>1, RowUnchanged DEF FinalStep
<1>5. row' = row \/ \E t \in Txn : Commit(t)
  BY NextWrites
<1> QED
  BY <1>1, <1>2, <1>3, <1>4, <1>5 DEF Commit

(* completeSaleIfEligibleTx and every handler that looks at completedAt:    *)
(* once completed, a sale keeps its change, credit, payments and drawer     *)
(* movements and loses no tender.                                           *)
THEOREM CompletionFinal == Spec => CompletionIsFinal
<1>1. IInv /\ [Next]_vars =>
        [\A s \in Sale : row[s].status = "completed" /\ row'[s].status # "deleted" =>
           /\ row'[s].status = "completed"
           /\ \A f \in {"change", "credited", "paid", "captured", "drawer"} :
                row'[s][f] = row[s][f]
           /\ \A m \in Method : row'[s].tender[m] >= row[s].tender[m]]_row
  <2>1. IInv /\ Next => \A s \in Sale : FinalStep(s)
    BY NextFinal
  <2>2. UNCHANGED vars => row' = row
    BY DEF vars
  <2> QED
    BY <2>1, <2>2 DEF FinalStep
<1> QED
  BY <1>1, Invariance, PTL DEF Spec, CompletionIsFinal

-----------------------------------------------------------------------------
(* A completion is announced at most once.                                  *)

Announces(t, s) == op[t] = "emit" /\ arg[t].sale = s

(* One request at most has the event of a sale to publish, and only while   *)
(* none has been published; the sale is no longer open by then.             *)
Announced(s) ==
  /\ emitted[s] # 0 \/ (\E t \in Txn : Announces(t, s)) => row[s].status # "open"
  /\ \A t, u \in Txn : Announces(t, s) /\ Announces(u, s) => t = u
  /\ emitted[s] = 0 \/ (emitted[s] = 1 /\ \A t \in Txn : ~Announces(t, s))

AnnounceInv == \A s \in Sale : Announced(s)

(* What a request's step means for the events.                              *)
Completes(t) ==
  /\ op[t] # "emit" /\ op'[t] = "emit" /\ arg'[t] = arg[t] /\ emitted' = emitted
  /\ row[arg[t].sale].status = "open" /\ row'[arg[t].sale].status # "open"

Publishes(t) ==
  /\ op[t] = "emit" /\ op'[t] # "emit"
  /\ emitted' \in {emitted, [emitted EXCEPT ![arg[t].sale] = @ + 1]}

SaysNothing(t) == op[t] # "emit" /\ op'[t] # "emit" /\ emitted' = emitted

LEMMA NotReopened ==
  ASSUME IInv, Next, NEW s \in Sale, row[s].status # "open"
  PROVE  row'[s].status # "open"
<1>1. CASE row[s].status = "completed"
  BY <1>1, NextFinal DEF FinalStep
<1>2. ASSUME NEW t \in Txn, Commit(t)
      PROVE  row'[s].status # "open"
  <2>1. CASE \/ CommitAddTender(t) \/ CommitDeleteTender(t) \/ CommitComplete(t)
             \/ CommitCreateIntent(t) \/ CommitCapture(t)
    BY <2>1, LockedWritesOpenSales DEF IInv, TypeOK
  <2>2. CASE CommitListTenders(t)
    BY <2>2 DEF CommitListTenders, IInv, TypeOK, ArgsBound, SaleRow
  <2>3. CASE CommitReopen(t)
    BY <2>3 DEF CommitReopen, IInv, TypeOK, DeletedRow, OpenRow
  <2> QED
    BY <1>2, <2>1, <2>2, <2>3 DEF Commit
<1>3. row' = row \/ \E t \in Txn : Commit(t)
  BY NextWrites
<1> QED
  BY <1>2, <1>3

LEMMA CompleteSaleCompletes ==
  ASSUME IInv, NEW t \in Txn, op[t] \in Locking, row[arg[t].sale].status = "open",
         NEW r \in SaleRow, NEW credit \in BOOLEAN, CompleteSale(t, r, credit),
         emitted' = emitted
  PROVE  Completes(t)
<1> DEFINE c == Completed(Hydrated(r), Total[arg[t].sale], credit, till)
<1>1. arg[t].sale \in Sale
  BY LockedFacts
<1>2. row' = [row EXCEPT ![arg[t].sale] = c] /\ LeaveToEmit(t)
  BY DEF CompleteSale, WriteSale
<1>3. c.status = "completed"
  BY DEF Completed, Hydrated, SaleRow
<1> HIDE DEF c
<1> QED
  BY <1>1, <1>2, <1>3 DEF Completes, LeaveToEmit, Locking, IInv, TypeOK

LEMMA AnnounceEffect ==
  ASSUME IInv, NEW t \in Txn,
         \/ Begin(t) \/ CaptureLocksSale(t) \/ ListReadsSources(t)
         \/ Commit(t) \/ EmitCompleted(t) \/ Rollback(t)
  PROVE  /\ Completes(t) \/ Publishes(t) \/ SaysNothing(t)
         /\ \A u \in Txn \ {t} : op'[u] = op[u] /\ arg'[u] = arg[u]
<1>1. CASE Begin(t)
  <2>1. \E name \in Op \ {"emit"} : \E a : Enter(t, name, a)
    BY <1>1 DEF Begin, BeginAddTender, BeginDeleteTender, BeginCreateIntent, BeginComplete,
                BeginListTenders, BeginReopen, BeginCapture, Op, Locking
  <2>2. emitted' = emitted
    BY <1>1 DEF Begin, BeginAddTender, BeginDeleteTender, BeginCreateIntent, BeginComplete,
                BeginListTenders, BeginReopen, BeginCapture
  <2> QED
    BY <2>1, <2>2 DEF Enter, SaysNothing, IInv, TypeOK
<1>2. CASE CaptureLocksSale(t) \/ ListReadsSources(t)
  BY <1>2 DEF CaptureLocksSale, ListReadsSources, SaysNothing, IInv, TypeOK
<1>3. CASE EmitCompleted(t) \/ Rollback(t)
  BY <1>3 DEF EmitCompleted, Rollback, Leave, Publishes, SaysNothing, IInv, TypeOK
<1>4. CASE Commit(t)
  <2>1. op[t] \notin {"idle", "emit"} /\ (Leave(t) \/ LeaveToEmit(t)) /\ emitted' = emitted
    BY <1>4 DEF Commit, CommitAddTender, CommitDeleteTender, CommitComplete,
       CommitCreateIntent, CommitCapture, ReplayCapture, FirstCapture, AlreadyCompleted,
       CompleteSale, CommitListTenders, CommitReopen
  <2>2. /\ Leave(t) => SaysNothing(t)
        /\ \A u \in Txn \ {t} : op'[u] = op[u] /\ arg'[u] = arg[u]
    BY <2>1, EndFacts DEF Leave, SaysNothing, IInv, TypeOK
  <2>3. CASE CommitAddTender(t) \/ CommitDeleteTender(t) \/ CommitListTenders(t)
             \/ CommitReopen(t)
    BY <2>2, <2>3 DEF CommitAddTender, CommitDeleteTender, CommitListTenders, CommitReopen
  <2>4. CASE CommitComplete(t)
    <3>1. op[t] \in Locking
      BY <2>4 DEF CommitComplete, Locking
    <3>2. arg[t].credit \in BOOLEAN /\ seen[t] = row[arg[t].sale] /\ seen[t] \in SaleRow
      BY <3>1, LockedFacts DEF Arg
    <3> QED
      BY <2>1, <2>2, <2>4, <3>1, <3>2, CompleteSaleCompletes
         DEF CommitComplete, AlreadyCompleted
  <2>5. CASE CommitCreateIntent(t)
    <3> DEFINE r == WithCapture(seen[t], "CASH", arg[t].amount)
    <3>1. op[t] \in Locking /\ seen[t].status = "open"
      BY <2>5 DEF CommitCreateIntent, Locking
    <3>2. /\ seen[t] = row[arg[t].sale] /\ seen[t] \in SaleRow
          /\ Total[arg[t].sale] \in Nat /\ SoundRow(seen[t], Total[arg[t].sale])
          /\ arg[t].amount \in Nat
      BY <3>1, LockedFacts DEF Arg
    <3>3. r \in SaleRow
      BY <2>5, <3>1, <3>2, WithCaptureSound DEF Method, CommitCreateIntent
    <3>4. Leave(t) \/ CompleteSale(t, r, FALSE)
      BY <2>5 DEF CommitCreateIntent
    <3> HIDE DEF r
    <3> QED
      BY <2>1, <2>2, <3>1, <3>2, <3>3, <3>4, CompleteSaleCompletes
  <2>6. CASE CommitCapture(t)
    <3> DEFINE i == arg[t].intent
               r == WithCapture(seen[t], intent[i].method, intent[i].amount)
    <3>1. op[t] \in Locking /\ i \in Intent /\ intent[i] \in IntentRow
      BY <2>6 DEF CommitCapture, Locking, IInv, TypeOK, ArgsBound
    <3>2. /\ seen[t] = row[arg[t].sale] /\ seen[t] \in SaleRow
          /\ Total[arg[t].sale] \in Nat /\ SoundRow(seen[t], Total[arg[t].sale])
      BY <3>1, LockedFacts
    <3>3. CASE ReplayCapture(t)
      BY <2>1, <2>2, <3>1, <3>2, <3>3, CompleteSaleCompletes
         DEF ReplayCapture, AlreadyCompleted
    <3>4. CASE FirstCapture(t)
      <4>1. r \in SaleRow /\ seen[t].status = "open"
        BY <3>1, <3>2, <3>4, WithCaptureSound DEF FirstCapture, IntentRow
      <4>2. Leave(t) \/ CompleteSale(t, r, FALSE)
        BY <3>4 DEF FirstCapture
      <4> HIDE DEF r
      <4> QED
        BY <2>1, <2>2, <3>1, <3>2, <4>1, <4>2, CompleteSaleCompletes
    <3> QED
      BY <2>6, <3>3, <3>4 DEF CommitCapture
  <2> QED
    BY <1>4, <2>3, <2>4, <2>5, <2>6 DEF Commit
<1> QED
  BY <1>1, <1>2, <1>3, <1>4

LEMMA AnnounceStep ==
  ASSUME IInv, AnnounceInv, [Next]_vars
  PROVE  AnnounceInv'
<1> SUFFICES ASSUME NEW s \in Sale PROVE Announced(s)'
  BY DEF AnnounceInv
<1>1. Announced(s) /\ emitted \in [Sale -> Nat]
  BY DEF AnnounceInv, IInv, TypeOK
<1>2. CASE Next
  <2>1. row[s].status # "open" => row'[s].status # "open"
    BY <1>2, NotReopened
  <2>2. ASSUME NEW t \in Txn,
               \/ Begin(t) \/ CaptureLocksSale(t) \/ ListReadsSources(t)
               \/ Commit(t) \/ EmitCompleted(t) \/ Rollback(t)
        PROVE  Announced(s)'
    <3>1. \A u \in Txn \ {t} : Announces(u, s)' <=> Announces(u, s)
      BY <2>2, AnnounceEffect DEF Announces
    <3>2. CASE Completes(t)
      <4>1. CASE arg[t].sale = s
        BY <1>1, <3>1, <3>2, <4>1 DEF Announced, Announces, Completes
      <4>2. CASE arg[t].sale # s
        BY <1>1, <2>1, <3>1, <3>2, <4>2 DEF Announced, Announces, Completes
      <4> QED
        BY <4>1, <4>2
    <3>3. CASE Publishes(t)
      <4>1. ~Announces(t, s)'
        BY <3>3 DEF Publishes, Announces
      <4>2. CASE Announces(t, s)
        <5>1. emitted[s] = 0 /\ emitted'[s] \in {0, 1}
          BY <1>1, <3>3, <4>2 DEF Announced, Publishes, Announces
        <5> QED
          BY <1>1, <2>1, <3>1, <4>1, <4>2, <5>1 DEF Announced
      <4>3. CASE ~Announces(t, s)
        <5>1. emitted'[s] = emitted[s]
          BY <1>1, <3>3, <4>3 DEF Publishes, Announces
        <5> QED
          BY <1>1, <2>1, <3>1, <4>1, <4>3, <5>1 DEF Announced
      <4> QED
        BY <4>2, <4>3
    <3>4. CASE SaysNothing(t)
      BY <1>1, <2>1, <3>1, <3>4 DEF Announced, Announces, SaysNothing
    <3> QED
      BY <2>2, <3>2, <3>3, <3>4, AnnounceEffect
  <2>3. CASE ToggleTill \/ \E i \in Intent : CancelIntent(i)
    BY <1>1, <2>3 DEF ToggleTill, CancelIntent, Announced, Announces
  <2> QED
    BY <1>2, <2>2, <2>3 DEF Next
<1>3. CASE UNCHANGED vars
  BY <1>1, <1>3 DEF vars, Announced, Announces
<1> QED
  BY <1>2, <1>3

(* emitSaleCompletedEvent: of all requests that complete, capture or replay *)
(* at once, one publishes the completion of a sale, and only one.           *)
THEOREM AnnouncedOnce == Spec => []AnnouncedAtMostOnce
<1>1. Init => AnnounceInv
  BY DEF Init, AnnounceInv, Announced, Announces
<1>2. IInv /\ AnnounceInv /\ [Next]_vars => AnnounceInv'
  BY AnnounceStep
<1>3. IInv /\ AnnounceInv => AnnouncedAtMostOnce
  <2> SUFFICES ASSUME IInv, AnnounceInv, NEW s \in Sale
               PROVE  /\ emitted[s] + Cardinality({t \in Txn : Announces(t, s)}) <= 1
                      /\ emitted[s] = 1 => row[s].status # "open"
    BY DEF AnnouncedAtMostOnce, Announces
  <2> DEFINE announcing == {t \in Txn : Announces(t, s)}
  <2>1. Announced(s)
    BY DEF AnnounceInv
  <2>2. CASE announcing = {}
    BY <2>1, <2>2, FS_EmptySet DEF Announced
  <2>3. CASE announcing # {}
    <3>1. PICK t \in Txn : announcing = {t}
      BY <2>1, <2>3 DEF Announced
    <3>2. Cardinality(announcing) = 1 /\ emitted[s] = 0
      BY <2>1, <3>1, FS_Singleton DEF Announced
    <3> QED
      BY <3>2
  <2> QED
    BY <2>2, <2>3
<1> QED
  BY <1>1, <1>2, <1>3, Invariance, PTL DEF Spec

-----------------------------------------------------------------------------
(* Every captured intent has one payment.                                   *)

(* capturePaymentIntentById locks the intent row before it looks at it: an  *)
(* intent being captured is neither cancelled nor deleted, nor its sale     *)
(* exchanged for another, until the request ends.                           *)
IntentsHeld ==
  \A t \in Txn : op[t] \in {"captureWaits", "capture"} =>
    LET i == arg[t].intent
    IN  /\ ilock[i] = t
        /\ intent[i].sale = arg[t].sale
        /\ intent[i].status \in {"REQUIRES_ACTION", "CAPTURED"}

CapturedOf(s, m) ==
  {i \in Intent : /\ intent[i].status = "CAPTURED"
                  /\ intent[i].sale = s /\ intent[i].method = m}

AmountsOf == [i \in Intent |-> intent[i].amount]

(* The payments made for captured intents add up to the intents' amounts.   *)
CapturesCounted ==
  \A s \in Sale, m \in Method :
    /\ IsFiniteSet(CapturedOf(s, m))
    /\ SumFunctionOnSet(AmountsOf, CapturedOf(s, m)) = row[s].captured[m]

CountInv == IntentsHeld /\ CapturesCounted

(* What a step means for the payments: none is added or lost, an intent is  *)
(* captured together with its payment, or a sale goes with its intents.     *)
KeepsMoney(s) ==
  /\ row'[s].captured = row[s].captured /\ row'[s].paid = row[s].paid
  /\ row[s].status = "completed" => row'[s].status = "completed"

KeepsCaptures ==
  /\ \A s \in Sale : KeepsMoney(s)
  /\ \A i \in Intent :
       \/ intent'[i] = intent[i]
       \/ intent[i].status # "CAPTURED" /\ intent'[i].status # "CAPTURED"

Captures(i, s, m, a) ==
  /\ intent[i].status # "CAPTURED"
  /\ intent' = [intent EXCEPT ![i] = [status |-> "CAPTURED", sale |-> s,
                                      method |-> m, amount |-> a]]
  /\ row[s].status = "open" /\ a <= Outstanding(row[s], Total[s])
  /\ row'[s].captured = [row[s].captured EXCEPT ![m] = @ + a]
  /\ row'[s].paid = [row[s].paid EXCEPT ![m] = @ + a]
  /\ \A q \in Sale \ {s} : row'[q] = row[q]

Deletes(s) ==
  /\ row' = [row EXCEPT ![s] = DeletedRow]
  /\ intent' = [i \in Intent |-> IF intent[i].sale = s THEN DeletedIntent ELSE intent[i]]

LEMMA AmountsNat ==
  ASSUME TypeOK, NEW S \in SUBSET Intent
  PROVE  NatValued(AmountsOf, S)
BY DEF TypeOK, NatValued, AmountsOf, IntentRow

LEMMA AmountsNatNext ==
  ASSUME TypeOK', NEW S \in SUBSET Intent
  PROVE  NatValued(AmountsOf', S)
BY DEF TypeOK, NatValued, AmountsOf, IntentRow

(* The same intents with the same amounts add up to the same.               *)
LEMMA SameCaptures ==
  ASSUME TypeOK, TypeOK', CapturesCounted, NEW s \in Sale, NEW m \in Method,
         CapturedOf(s, m)' = CapturedOf(s, m),
         \A i \in CapturedOf(s, m) : intent'[i].amount = intent[i].amount
  PROVE  /\ IsFiniteSet(CapturedOf(s, m)')
         /\ SumFunctionOnSet(AmountsOf', CapturedOf(s, m)') = row[s].captured[m]
<1>1. CapturedOf(s, m) \in SUBSET Intent
  BY DEF CapturedOf
<1>2. \A i \in CapturedOf(s, m) : AmountsOf[i] = AmountsOf'[i]
  BY <1>1 DEF AmountsOf
<1>3. NatValued(AmountsOf, CapturedOf(s, m)) /\ IsFiniteSet(CapturedOf(s, m))
  BY <1>1, AmountsNat DEF CapturesCounted
<1>4. SumFunctionOnSet(AmountsOf, CapturedOf(s, m))
        = SumFunctionOnSet(AmountsOf', CapturedOf(s, m))
  BY <1>2, <1>3, SumSame
<1> QED
  BY <1>3, <1>4 DEF CapturesCounted

LEMMA KeptCounted ==
  ASSUME TypeOK, TypeOK', CapturesCounted, KeepsCaptures
  PROVE  CapturesCounted'
<1> SUFFICES ASSUME NEW s \in Sale, NEW m \in Method
             PROVE  /\ IsFiniteSet(CapturedOf(s, m)')
                    /\ SumFunctionOnSet(AmountsOf', CapturedOf(s, m)')
                         = row'[s].captured[m]
  BY DEF CapturesCounted
<1>1. CapturedOf(s, m)' = CapturedOf(s, m)
  BY DEF CapturedOf, KeepsCaptures
<1>2. \A i \in CapturedOf(s, m) : intent'[i].amount = intent[i].amount
  BY DEF CapturedOf, KeepsCaptures
<1> QED
  BY <1>1, <1>2, SameCaptures DEF KeepsCaptures, KeepsMoney

LEMMA DeletionCounted ==
  ASSUME TypeOK, TypeOK', CapturesCounted, NEW d \in Sale, Deletes(d)
  PROVE  CapturesCounted'
<1> SUFFICES ASSUME NEW s \in Sale, NEW m \in Method
             PROVE  /\ IsFiniteSet(CapturedOf(s, m)')
                    /\ SumFunctionOnSet(AmountsOf', CapturedOf(s, m)')
                         = row'[s].captured[m]
  BY DEF CapturesCounted
<1>1. CASE s = d
  <2>1. CapturedOf(s, m)' = {}
    BY <1>1 DEF CapturedOf, Deletes, NoIntent, DeletedIntent
  <2>2. row'[s].captured[m] = 0
    BY <1>1 DEF Deletes, TypeOK, DeletedRow, OpenRow, NoMoney
  <2> QED
    BY <2>1, <2>2, SumEmpty, FS_EmptySet
<1>2. CASE s # d
  <2>1. CapturedOf(s, m)' = CapturedOf(s, m)
    BY <1>2 DEF CapturedOf, Deletes, NoIntent, DeletedIntent
  <2>2. \A i \in CapturedOf(s, m) : intent'[i].amount = intent[i].amount
    BY <1>2 DEF CapturedOf, Deletes
  <2>3. row'[s] = row[s]
    BY <1>2 DEF Deletes, TypeOK
  <2> QED
    BY <2>1, <2>2, <2>3, SameCaptures
<1> QED
  BY <1>1, <1>2

LEMMA CaptureCounted ==
  ASSUME TypeOK, TypeOK', CapturesCounted, NEW i \in Intent, NEW q \in Sale,
         NEW n \in Method, NEW a \in Nat, Captures(i, q, n, a)
  PROVE  CapturesCounted'
<1> SUFFICES ASSUME NEW s \in Sale, NEW m \in Method
             PROVE  /\ IsFiniteSet(CapturedOf(s, m)')
                    /\ SumFunctionOnSet(AmountsOf', CapturedOf(s, m)')
                         = row'[s].captured[m]
  BY DEF CapturesCounted
<1>1. /\ intent'[i].status = "CAPTURED" /\ intent'[i].sale = q
      /\ intent'[i].method = n /\ intent'[i].amount = a
      /\ \A j \in Intent \ {i} : intent'[j] = intent[j]
      /\ intent[i].status # "CAPTURED"
  BY DEF Captures, TypeOK
<1>2. row[q].captured \in Money
  BY DEF TypeOK, SaleRow
<1>3. CASE s = q /\ m = n
  <2> DEFINE C == CapturedOf(s, m)
  <2>1. C \in SUBSET Intent /\ i \notin C /\ CapturedOf(s, m)' = C \cup {i}
    BY <1>1, <1>3 DEF CapturedOf
  <2>2. /\ IsFiniteSet(C)
        /\ SumFunctionOnSet(AmountsOf, C) = row[s].captured[m]
    BY DEF CapturesCounted
  <2>3. \A j \in C : AmountsOf[j] = AmountsOf'[j]
    BY <1>1, <2>1 DEF AmountsOf
  <2>4. AmountsOf'[i] = a
    BY <1>1 DEF AmountsOf
  <2>5. NatValued(AmountsOf, C) /\ NatValued(AmountsOf', C \cup {i})
    BY <2>1, AmountsNat, AmountsNatNext
  <2>6. IsFiniteSet(C \cup {i})
    BY <2>2, FS_AddElement
  <2> HIDE DEF C
  <2>7. SumFunctionOnSet(AmountsOf, C) = SumFunctionOnSet(AmountsOf', C)
    BY <2>2, <2>3, <2>5, SumSame
  <2>8. SumFunctionOnSet(AmountsOf', C \cup {i})
          = SumFunctionOnSet(AmountsOf', C) + AmountsOf'[i]
    BY <2>1, <2>2, <2>5, SumAdd
  <2>9. row'[s].captured[m] = row[s].captured[m] + a
    BY <1>2, <1>3 DEF Captures, Money
  <2> QED
    BY <2>1, <2>2, <2>4, <2>6, <2>7, <2>8, <2>9
<1>4. CASE ~(s = q /\ m = n)
  <2>1. CapturedOf(s, m)' = CapturedOf(s, m)
    BY <1>1, <1>4 DEF CapturedOf
  <2>2. \A j \in CapturedOf(s, m) : intent'[j].amount = intent[j].amount
    BY <1>1 DEF CapturedOf
  <2>3. row'[s].captured[m] = row[s].captured[m]
    BY <1>2, <1>4 DEF Captures, Money
  <2> QED
    BY <2>1, <2>2, <2>3, SameCaptures
<1> QED
  BY <1>3, <1>4

-----------------------------------------------------------------------------
LEMMA CompletionKeepsCaptured ==
  ASSUME IInv, NEW t \in Txn, op[t] \in Locking, NEW r \in SaleRow,
         NEW credit \in BOOLEAN, CompleteSale(t, r, credit)
  PROVE  /\ row'[arg[t].sale].captured = r.captured
         /\ row'[arg[t].sale].paid = r.paid
         /\ row'[arg[t].sale].status = "completed"
         /\ \A q \in Sale \ {arg[t].sale} : row'[q] = row[q]
<1> DEFINE h == Hydrated(r)
           c == Completed(h, Total[arg[t].sale], credit, till)
<1>1. arg[t].sale \in Sale /\ row' = [row EXCEPT ![arg[t].sale] = c]
  BY LockedFacts DEF CompleteSale, WriteSale
<1>2. c.captured = r.captured /\ c.paid = r.paid /\ c.status = "completed"
  BY DEF Completed, Hydrated, SaleRow
<1> HIDE DEF c
<1> QED
  BY <1>1, <1>2 DEF IInv, TypeOK

LEMMA CapturedByCapture ==
  ASSUME NEW r \in SaleRow, NEW m \in Method, NEW a \in Nat
  PROVE  /\ WithCapture(r, m, a).captured = [r.captured EXCEPT ![m] = @ + a]
         /\ WithCapture(r, m, a).paid = [r.paid EXCEPT ![m] = @ + a]
<1> DEFINE p == WithPayment(r, m, a)
<1>1. /\ p \in SaleRow /\ p.captured = r.captured
      /\ p.paid = [r.paid EXCEPT ![m] = @ + a]
  BY WithPaymentFields
<1> HIDE DEF p
<1>2. /\ [p EXCEPT !.captured[m] = @ + a].captured = [p.captured EXCEPT ![m] = @ + a]
      /\ [p EXCEPT !.captured[m] = @ + a].paid = p.paid
  BY <1>1 DEF SaleRow, Money
<1> QED
  BY <1>1, <1>2 DEF WithCapture, p

(* The handlers that capture nothing.                                       *)
LEMMA TendersKeepCaptures ==
  ASSUME IInv, NEW t \in Txn,
         CommitAddTender(t) \/ CommitDeleteTender(t) \/ CommitListTenders(t)
  PROVE  KeepsCaptures
<1>1. CASE CommitAddTender(t) \/ CommitDeleteTender(t)
  <2>1. op[t] \in Locking
    BY <1>1 DEF CommitAddTender, CommitDeleteTender, Locking
  <2>2. PICK r : /\ row' = [row EXCEPT ![arg[t].sale] = r]
                 /\ \A f \in {"status", "captured", "paid"} : r[f] = seen[t][f]
    <3>1. \A f \in {"status", "captured", "paid"} :
            /\ WithTender(seen[t], arg[t].method, arg[t].amount)[f] = seen[t][f]
            /\ [seen[t] EXCEPT !.tender[arg[t].method] = @ - arg[t].amount][f] = seen[t][f]
      BY <2>1, LockedFacts DEF WithTender, SaleRow
    <3> QED
      BY <1>1, <3>1 DEF CommitAddTender, CommitDeleteTender, WriteSale
  <2>3. intent' = intent
    BY <1>1 DEF CommitAddTender, CommitDeleteTender
  <2> QED
    BY <2>1, <2>2, <2>3, LockedFacts DEF KeepsCaptures, KeepsMoney, IInv, TypeOK
<1>2. CASE CommitListTenders(t)
  <2>1. PICK h : row' = [row EXCEPT ![arg[t].sale].tender = h]
    BY <1>2 DEF CommitListTenders
  <2>2. intent' = intent
    BY <1>2 DEF CommitListTenders
  <2> QED
    BY <2>1, <2>2 DEF KeepsCaptures, KeepsMoney, IInv, TypeOK, SaleRow
<1> QED
  BY <1>1, <1>2

LEMMA CompleteKeepsCaptures ==
  ASSUME IInv, NEW t \in Txn, CommitComplete(t)
  PROVE  KeepsCaptures
<1>1. op[t] \in Locking /\ intent' = intent
  BY DEF CommitComplete, Locking
<1>2. arg[t].credit \in BOOLEAN /\ seen[t] = row[arg[t].sale] /\ seen[t] \in SaleRow
  BY <1>1, LockedFacts DEF Arg
<1>3. CASE row' = row
  BY <1>1, <1>3 DEF KeepsCaptures, KeepsMoney
<1>4. CASE CompleteSale(t, seen[t], arg[t].credit)
  BY <1>1, <1>2, <1>4, CompletionKeepsCaptured DEF KeepsCaptures, KeepsMoney
<1> QED
  BY <1>3, <1>4 DEF CommitComplete, AlreadyCompleted

LEMMA CreateIntentCaptures ==
  ASSUME IInv, NEW t \in Txn, CommitCreateIntent(t)
  PROVE  \/ KeepsCaptures
         \/ \E i \in Intent : Captures(i, arg[t].sale, "CASH", arg[t].amount)
<1> DEFINE s == arg[t].sale
           a == arg[t].amount
           r == WithCapture(seen[t], "CASH", a)
           New(status) == [status |-> status, sale |-> s,
                           method |-> arg[t].method, amount |-> a]
<1>1. op[t] \in Locking
  BY DEF CommitCreateIntent, Locking
<1>2. seen[t] = row[s] /\ seen[t] \in SaleRow /\ s \in Sale /\ a \in Nat
  BY <1>1, LockedFacts DEF Arg
<1>3. PICK i \in Intent :
        /\ intent[i].status = "NONE"
        /\ \/ /\ intent' = [intent EXCEPT ![i] = New("REQUIRES_ACTION")]
              /\ row' = row
           \/ /\ arg[t].method = "CASH"
              /\ intent' = [intent EXCEPT ![i] = New("CAPTURED")]
              /\ CompleteSale(t, r, FALSE) \/ WriteSale(t, r)
  BY DEF CommitCreateIntent
<1>4. CASE intent' = [intent EXCEPT ![i] = New("REQUIRES_ACTION")] /\ row' = row
  BY <1>3, <1>4 DEF KeepsCaptures, KeepsMoney, IInv, TypeOK
<1>5. CASE /\ arg[t].method = "CASH"
           /\ intent' = [intent EXCEPT ![i] = New("CAPTURED")]
           /\ CompleteSale(t, r, FALSE) \/ WriteSale(t, r)
  <2>1. r \in SaleRow
    BY <1>1, <1>2, LockedFacts, WithCaptureSound DEF CommitCreateIntent, Method
  <2>2. /\ r.captured = [row[s].captured EXCEPT !["CASH"] = @ + a]
        /\ r.paid = [row[s].paid EXCEPT !["CASH"] = @ + a]
        /\ row[s].status = "open" /\ a <= Outstanding(row[s], Total[s])
    BY <1>2, CapturedByCapture DEF Method, CommitCreateIntent
  <2> HIDE DEF r
  <2>3. /\ row'[s].captured = r.captured /\ row'[s].paid = r.paid
        /\ \A q \in Sale \ {s} : row'[q] = row[q]
    BY <1>1, <1>2, <1>5, <2>1, CompletionKeepsCaptured DEF WriteSale, IInv, TypeOK
  <2>4. intent[i].status # "CAPTURED"
    BY <1>3
  <2>5. Captures(i, s, "CASH", a)
    BY <1>5, <2>2, <2>3, <2>4 DEF Captures
  <2> QED
    BY <2>5
<1> QED
  BY <1>3, <1>4, <1>5

LEMMA CaptureCaptures ==
  ASSUME IInv, IntentsHeld, NEW t \in Txn, CommitCapture(t)
  PROVE  \/ KeepsCaptures
         \/ LET i == arg[t].intent
            IN  Captures(i, arg[t].sale, intent[i].method, intent[i].amount)
<1> DEFINE i == arg[t].intent
           s == arg[t].sale
           m == intent[i].method
           a == intent[i].amount
           r == WithCapture(seen[t], m, a)
<1>1. op[t] \in Locking /\ i \in Intent /\ intent[i] \in IntentRow
      /\ intent[i].sale = s
  BY DEF CommitCapture, Locking, IInv, TypeOK, ArgsBound, IntentsHeld
<1>2. /\ seen[t] = row[s] /\ seen[t] \in SaleRow /\ s \in Sale
      /\ m \in Method /\ a \in Nat
  BY <1>1, LockedFacts DEF IntentRow
<1>3. CASE ReplayCapture(t)
  <2>1. intent' = intent /\ (row' = row \/ CompleteSale(t, seen[t], FALSE))
    BY <1>3 DEF ReplayCapture, AlreadyCompleted
  <2> QED
    BY <1>1, <1>2, <2>1, CompletionKeepsCaptured DEF KeepsCaptures, KeepsMoney
<1>4. CASE FirstCapture(t)
  <2>1. /\ intent[i].status = "REQUIRES_ACTION"
        /\ intent' = [intent EXCEPT ![i].status = "CAPTURED"]
        /\ CompleteSale(t, r, FALSE) \/ WriteSale(t, r)
    BY <1>4 DEF FirstCapture
  <2>2. r \in SaleRow
    BY <1>1, <1>2, <1>4, LockedFacts, WithCaptureSound DEF FirstCapture
  <2>3. /\ r.captured = [row[s].captured EXCEPT ![m] = @ + a]
        /\ r.paid = [row[s].paid EXCEPT ![m] = @ + a]
        /\ row[s].status = "open" /\ a <= Outstanding(row[s], Total[s])
    <3>1. row[s].status = "open" /\ a <= Outstanding(row[s], Total[s])
      BY <1>2, <1>4 DEF FirstCapture
    <3> QED
      BY <1>2, <3>1, CapturedByCapture
  <2>4. intent' = [intent EXCEPT ![i] = [status |-> "CAPTURED", sale |-> s,
                                         method |-> m, amount |-> a]]
    <3>1. intent[i] = [status |-> intent[i].status, sale |-> s,
                       method |-> m, amount |-> a]
      BY <1>1 DEF IntentRow
    <3>2. [intent[i] EXCEPT !.status = "CAPTURED"]
            = [status |-> "CAPTURED", sale |-> s, method |-> m, amount |-> a]
      BY <3>1
    <3> QED
      BY <1>1, <2>1, <3>2 DEF IInv, TypeOK
  <2> HIDE DEF r
  <2>5. /\ row'[s].captured = r.captured /\ row'[s].paid = r.paid
        /\ \A q \in Sale \ {s} : row'[q] = row[q]
    BY <1>1, <1>2, <2>1, <2>2, CompletionKeepsCaptured DEF WriteSale, IInv, TypeOK
  <2>6. Captures(i, s, m, a)
    BY <2>1, <2>3, <2>4, <2>5 DEF Captures
  <2> QED
    BY <2>6
<1> QED
  BY <1>3, <1>4 DEF CommitCapture

(* Steps that leave every sale row and, but for a cancelled one, every      *)
(* intent as it is.                                                         *)
LEMMA OthersKeepCaptures ==
  ASSUME IInv,
         \/ \E t \in Txn : \/ Begin(t) \/ CaptureLocksSale(t) \/ ListReadsSources(t)
                           \/ EmitCompleted(t) \/ Rollback(t)
         \/ \E i \in Intent : CancelIntent(i)
         \/ ToggleTill
         \/ UNCHANGED vars
  PROVE  KeepsCaptures
<1>1. ASSUME NEW t \in Txn, Begin(t) PROVE row' = row /\ intent' = intent
  BY <1>1 DEF Begin, BeginAddTender, BeginDeleteTender, BeginCreateIntent,
              BeginComplete, BeginListTenders, BeginReopen, BeginCapture
<1>2. ASSUME NEW t \in Txn,
             \/ CaptureLocksSale(t) \/ ListReadsSources(t)
             \/ EmitCompleted(t) \/ Rollback(t)
      PROVE  row' = row /\ intent' = intent
  BY <1>2 DEF CaptureLocksSale, ListReadsSources, EmitCompleted, Rollback
<1>3. ToggleTill \/ UNCHANGED vars => row' = row /\ intent' = intent
  BY DEF ToggleTill, vars
<1>4. ASSUME NEW i \in Intent, CancelIntent(i)
      PROVE  KeepsCaptures
  <2>1. intent' = [intent EXCEPT ![i] = [intent[i] EXCEPT !.status = "CANCELED"]]
    BY <1>4 DEF CancelIntent, IInv, TypeOK
  <2>2. [intent[i] EXCEPT !.status = "CANCELED"].status = "CANCELED"
    BY DEF IInv, TypeOK, IntentRow
  <2>3. intent[i].status # "CAPTURED" /\ row' = row
    BY <1>4 DEF CancelIntent
  <2> QED
    BY <2>1, <2>2, <2>3 DEF KeepsCaptures, KeepsMoney, IInv, TypeOK
<1> QED
  BY <1>1, <1>2, <1>3, <1>4 DEF KeepsCaptures, KeepsMoney

(* Every step is one of the three.                                          *)
LEMMA MoneyStep ==
  ASSUME IInv, IntentsHeld, [Next]_vars
  PROVE  \/ KeepsCaptures
         \/ \E i \in Intent, s \in Sale, m \in Method, a \in Nat : Captures(i, s, m, a)
         \/ \E s \in Sale : Deletes(s)
<1>1. ASSUME NEW t \in Txn, CommitCreateIntent(t)
      PROVE  \/ KeepsCaptures
             \/ \E i \in Intent, s \in Sale, m \in Method, a \in Nat : Captures(i, s, m, a)
  <2>1. op[t] \in Locking
    BY <1>1 DEF CommitCreateIntent, Locking
  <2>2. arg[t].sale \in Sale /\ arg[t].amount \in Nat /\ "CASH" \in Method
    BY <2>1, LockedFacts DEF Arg, Method
  <2> QED
    BY <1>1, <2>2, CreateIntentCaptures
<1>2. ASSUME NEW t \in Txn, CommitCapture(t)
      PROVE  \/ KeepsCaptures
             \/ \E i \in Intent, s \in Sale, m \in Method, a \in Nat : Captures(i, s, m, a)
  <2> DEFINE i == arg[t].intent
  <2>1. i \in Intent /\ intent[i] \in IntentRow /\ arg[t].sale \in Sale
    BY <1>2 DEF CommitCapture, IInv, TypeOK, ArgsBound
  <2>2. intent[i].method \in Method /\ intent[i].amount \in Nat
    BY <2>1 DEF IntentRow
  <2> QED
    BY <1>2, <2>1, <2>2, CaptureCaptures
<1>3. ASSUME NEW t \in Txn, CommitReopen(t)
      PROVE  \E s \in Sale : Deletes(s)
  BY <1>3 DEF CommitReopen, IInv, ArgsBound, Deletes
<1>4. ASSUME NEW t \in Txn,
             \/ CommitAddTender(t) \/ CommitDeleteTender(t) \/ CommitListTenders(t)
             \/ CommitComplete(t)
      PROVE  KeepsCaptures
  BY <1>4, TendersKeepCaptures, CompleteKeepsCaptures
<1> QED
  BY <1>1, <1>2, <1>3, <1>4, OthersKeepCaptures DEF Next, Commit

LEMMA CountedStep ==
  ASSUME IInv, IInv', CountInv, [Next]_vars
  PROVE  CapturesCounted'
BY MoneyStep, KeptCounted, CaptureCounted, DeletionCounted DEF IInv, CountInv

LEMMA BeginHolds ==
  ASSUME IInv, IntentsHeld, NEW t \in Txn, Begin(t) \/ CaptureLocksSale(t)
  PROVE  IntentsHeld'
<1> USE DEF IInv, TypeOK
<1>1. CASE CaptureLocksSale(t)
  BY <1>1 DEF CaptureLocksSale, IntentsHeld
<1>2. CASE \E i \in Intent : BeginCapture(t, i)
  <2> PICK i \in Intent : BeginCapture(t, i)
    BY <1>2
  <2> DEFINE a == [NoArg EXCEPT !.sale = intent[i].sale, !.intent = i]
  <2>1. /\ arg' = [arg EXCEPT ![t] = a] /\ op' = [op EXCEPT ![t] = "captureWaits"]
        /\ intent[i].status \in {"REQUIRES_ACTION", "CAPTURED"}
        /\ ilock[i] = None /\ ilock' = [ilock EXCEPT ![i] = t] /\ intent' = intent
    BY DEF BeginCapture, Enter
  <2>2. a.sale = intent[i].sale /\ a.intent = i
    BY DEF NoArg
  <2> HIDE DEF a
  <2> QED
    BY <2>1, <2>2, NoneAssumption DEF IntentsHeld
<1>3. CASE ~CaptureLocksSale(t) /\ ~ \E i \in Intent : BeginCapture(t, i)
  <2>1. /\ \E name \in Op \ {"captureWaits", "capture"} : \E a : Enter(t, name, a)
        /\ intent' = intent /\ ilock' = ilock
    BY <1>3 DEF Begin, BeginAddTender, BeginDeleteTender, BeginCreateIntent,
                BeginComplete, BeginListTenders, BeginReopen, Op, Locking
  <2> QED
    BY <2>1 DEF IntentsHeld, Enter
<1> QED
  BY <1>1, <1>2, <1>3

(* What the end of a request leaves the others: their intents' locks.       *)
LEMMA EndHolds ==
  ASSUME IInv, IntentsHeld, NEW t \in Txn, op[t] # "idle", Leave(t) \/ LeaveToEmit(t),
         \A i \in Intent : ilock[i] \notin {None, t} =>
           /\ intent'[i].sale = intent[i].sale
           /\ \/ intent'[i].status = intent[i].status
              \/ intent[i].status = "NONE"
  PROVE  IntentsHeld'
<1> SUFFICES ASSUME NEW u \in Txn, op'[u] \in {"captureWaits", "capture"}
             PROVE  LET i == arg'[u].intent
                    IN  /\ ilock'[i] = u
                        /\ intent'[i].sale = arg'[u].sale
                        /\ intent'[i].status \in {"REQUIRES_ACTION", "CAPTURED"}
  BY DEF IntentsHeld
<1>1. u # t
  BY DEF IInv, TypeOK, Leave, LeaveToEmit
<1>2. op[u] = op'[u] /\ arg'[u] = arg[u]
  BY <1>1, EndFacts
<1> DEFINE i == arg[u].intent
<1>3. i \in Intent /\ ilock[i] = u /\ intent[i].sale = arg[u].sale
      /\ intent[i].status \in {"REQUIRES_ACTION", "CAPTURED"}
  BY <1>2 DEF IInv, ArgsBound, IntentsHeld
<1>4. ilock'[i] = u
  BY <1>1, <1>3 DEF Leave, LeaveToEmit, EndTransaction
<1> QED
  BY <1>1, <1>2, <1>3, <1>4, NoneAssumption

LEMMA HeldStep ==
  ASSUME IInv, IntentsHeld, [Next]_vars
  PROVE  IntentsHeld'
<1>1. ASSUME NEW t \in Txn, Commit(t) \/ EmitCompleted(t) \/ Rollback(t)
      PROVE  IntentsHeld'
  <2>1. op[t] # "idle" /\ (Leave(t) \/ LeaveToEmit(t))
    BY <1>1 DEF Commit, CommitAddTender, CommitDeleteTender, CommitComplete,
       CommitCreateIntent, CommitCapture, ReplayCapture, FirstCapture, AlreadyCompleted,
       CompleteSale, CommitListTenders, CommitReopen, EmitCompleted, Rollback
  <2>2. CASE intent' = intent
    BY <2>1, <2>2, EndHolds
  <2>3. CASE CommitCreateIntent(t)
    <3>1. PICK j \in Intent : /\ intent[j].status = "NONE"
                              /\ \E v : intent' = [intent EXCEPT ![j] = v]
      BY <2>3 DEF CommitCreateIntent
    <3>2. \A u \in Txn : op[u] \in {"captureWaits", "capture"} => arg[u].intent # j
      BY <3>1 DEF IntentsHeld
    <3>3. \A u \in Txn \ {t} :
            /\ op'[u] = op[u] /\ arg'[u] = arg[u]
            /\ \A i \in Intent : ilock[i] = u => ilock'[i] = u
      BY <2>1, EndFacts DEF Leave, LeaveToEmit, EndTransaction
    <3>4. op'[t] \notin {"captureWaits", "capture"}
      BY <2>1 DEF Leave, LeaveToEmit, IInv, TypeOK
    <3> QED
      BY <3>1, <3>2, <3>3, <3>4 DEF IntentsHeld, IInv, TypeOK, ArgsBound
  <2>4. CASE CommitCapture(t) /\ intent' # intent
    <3>1. /\ op[t] = "capture"
          /\ intent' = [intent EXCEPT ![arg[t].intent].status = "CAPTURED"]
      BY <2>4 DEF CommitCapture, ReplayCapture, FirstCapture
    <3>2. ilock[arg[t].intent] = t
      BY <3>1 DEF IntentsHeld
    <3> QED
      BY <2>1, <3>1, <3>2, EndHolds DEF IInv, TypeOK
  <2>5. CASE CommitReopen(t)
    <3>1. \A i \in Intent : ilock[i] # None => intent'[i] = intent[i]
      BY <2>5 DEF CommitReopen
    <3> QED
      BY <2>1, <3>1, EndHolds
  <2>6. \/ intent' = intent \/ CommitCreateIntent(t) \/ CommitCapture(t)
        \/ CommitReopen(t)
    BY <1>1 DEF Commit, CommitAddTender, CommitDeleteTender, CommitComplete,
       CommitListTenders, EmitCompleted, Rollback
  <2> QED
    BY <2>2, <2>3, <2>4, <2>5, <2>6
<1>2. ASSUME NEW t \in Txn, ListReadsSources(t) PROVE IntentsHeld'
  BY <1>2 DEF ListReadsSources, IntentsHeld, IInv, TypeOK
<1>3. ASSUME NEW i \in Intent, CancelIntent(i) PROVE IntentsHeld'
  BY <1>3, NoneAssumption DEF CancelIntent, IntentsHeld, IInv, TypeOK, ArgsBound
<1>4. CASE ToggleTill \/ UNCHANGED vars
  BY <1>4 DEF ToggleTill, vars, IntentsHeld
<1> QED
  BY <1>1, <1>2, <1>3, <1>4, BeginHolds DEF Next

LEMMA InitCounted == ASSUME Init PROVE CountInv
<1>1. \A s \in Sale, m \in Method : row[s].captured[m] = 0
  <2>1. row \in [Sale -> SaleRow] /\ \A s \in Sale : SoundRow(row[s], Total[s])
    BY InitInv DEF IInv, TypeOK, SoundRows
  <2>2. ASSUME NEW s \in Sale PROVE row[s].captured = NoMoney
    <3>1. OpenRow.captured = NoMoney
      BY DEF OpenRow
    <3>2. ASSUME NEW m \in Method
          PROVE  WithPayment(OpenRow, m, Total[s]).captured = NoMoney
      <4>1. Total[s] \in Nat /\ OpenRow \in SaleRow
        BY TotalAssumption, RowType
      <4> QED
        BY <3>1, <4>1, WithPaymentFields
    <3> QED
      BY <3>1, <3>2 DEF Init, CheckedOut
  <2> QED
    BY <2>2 DEF NoMoney
<1>2. \A s \in Sale, m \in Method : CapturedOf(s, m) = {}
  BY DEF Init, CapturedOf, NoIntent
<1>3. CapturesCounted
  BY <1>1, <1>2, SumEmpty, FS_EmptySet DEF CapturesCounted
<1>4. IntentsHeld
  BY DEF Init, IntentsHeld
<1> QED
  BY <1>3, <1>4 DEF CountInv

(* upsertSalePaymentForIntentTx and capturePaymentIntentById: over any      *)
(* number of intents, captures, replays and deletions, the payments of a    *)
(* sale made for captured intents add up to what was captured.              *)
THEOREM CapturesPaidOnce == Spec => []OnePaymentPerCapturedIntent
<1>1. Init => CountInv
  BY InitCounted
<1>2. IInv /\ IInv' /\ CountInv /\ [Next]_vars => CountInv'
  BY CountedStep, HeldStep DEF CountInv
<1>3. IInv /\ CountInv => OnePaymentPerCapturedIntent
  BY DEF IInv, SoundRows, SoundRow, CapturedIsPaid, CountInv, CapturesCounted,
         CapturedOf, AmountsOf, OnePaymentPerCapturedIntent
<1> QED
  BY <1>1, <1>2, <1>3, Invariance, PTL DEF Spec
=============================================================================
