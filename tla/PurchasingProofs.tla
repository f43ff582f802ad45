-------------------------- MODULE PurchasingProofs --------------------------
(***************************************************************************)
(* Proofs about Purchasing, for any number of orders, items and requests.  *)
(*                                                                         *)
(* That no line receives more than was ordered rests on two facts: while a *)
(* receipt holds the rows of an order, what it found to remain still does  *)
(* (RemainingIsHeld), because no other receipt has them (OneReceipt) and   *)
(* no edit reaches them but a stale one; and an edit that is not stale     *)
(* meets a draft, of which nothing was received (DraftsAreUntouched).      *)
(*                                                                         *)
(* The status is computed from totals over the lines.  As no line receives *)
(* more than was ordered, totals agree only where the lines do, so what    *)
(* every writer computes is what the lines say (CalculatedOfSome); and a   *)
(* request that asks for another status than it read has read an order of  *)
(* which nothing was received (StatusInv).                                 *)
(***************************************************************************)
EXTENDS Purchasing, SumTheorems

Receives(r, o) == req[r].at = "receive" /\ req[r].order = o

OneReceipt ==
  \A r, s \in Req, o \in Order : Receives(r, o) /\ Receives(s, o) => r = s

DraftsAreUntouched ==
  \A o \in Order : status[o] \in {"NONE", "DRAFT"} =>
    /\ \A i \in Item : received[o][i] = 0
    /\ \A r \in Req : ~Receives(r, o)

ReceiptsAreOpen ==
  \A r \in Req, o \in Order : Receives(r, o) => status[o] \in Receivable

RemainingIsHeld ==
  \A r \in Req, o \in Order : Receives(r, o) /\ ~stale[o] =>
    \A i \in Item : received[o][i] + req[r].lines[i] <= ordered[o][i]

ReadsAreKept ==
  \A r \in Req :
    /\ req[r].at = "update" => req[r].next \in {req[r].read, "SENT", "CANCELLED"}
    /\ req[r].at = "receive" => req[r].read \in Receivable

IInv ==
  /\ TypeOK
  /\ OneReceipt
  /\ DraftsAreUntouched
  /\ ReceiptsAreOpen
  /\ RemainingIsHeld
  /\ ReadsAreKept
  /\ ReceivedWithinOrdered

-----------------------------------------------------------------------------
LEMMA NoLinesIsLines == NoLines \in Lines /\ NoLines \in [Item -> Nat]
BY QuantityAssumption DEF NoLines, Lines

LEMMA IdleIsRequest == Idle \in Request
BY NoLinesIsLines DEF Idle, Request, Statuses

(* What calculatePurchaseOrderStatus can return.                             *)
LEMMA CalculatedStatus ==
  ASSUME NEW s, NEW ord, NEW rec
  PROVE  Calculated(s, ord, rec) \in {s, "PARTIALLY_RECEIVED", "RECEIVED"}
BY Zenon DEF Calculated

LEMMA InitEstablishes == Init => IInv
<1> SUFFICES ASSUME Init PROVE IInv
  OBVIOUS
<1>1. TypeOK
  BY NoLinesIsLines, IdleIsRequest DEF Init, TypeOK, Statuses, Idle
<1>2. \A r \in Req : req[r].at = "idle"
  BY DEF Init, Idle
<1> QED
  BY <1>1, <1>2, QuantityAssumption DEF Init, IInv, OneReceipt, DraftsAreUntouched,
     ReceiptsAreOpen, RemainingIsHeld, ReadsAreKept, ReceivedWithinOrdered, Receives, NoLines

-----------------------------------------------------------------------------
(* A request that reads changes its own record only.                         *)

LEMMA ReadKeeps ==
  ASSUME IInv, NEW r \in Req, NEW o \in Order, NEW at, NEW lines \in Lines,
         NEW next \in Statuses, at \in {"edit", "update"},
         at = "update" => next \in {status[o], "SENT", "CANCELLED"},
         Read(r, o, at, lines, next)
  PROVE  IInv'
<1> DEFINE q == [at |-> at, order |-> o, read |-> status[o],
                 known |-> Named(ordered[o]), lines |-> lines, next |-> next]
<1>1. req' = [req EXCEPT ![r] = q] /\ UNCHANGED <<rows, stale>>
  BY DEF Read
<1>2. q \in Request
  BY DEF IInv, TypeOK, Request, Named
<1>3. TypeOK'
  BY <1>1, <1>2 DEF IInv, TypeOK, rows
<1>4. \A s \in Req, p \in Order : Receives(s, p)' => Receives(s, p) /\ req'[s] = req[s]
  BY <1>1 DEF Receives, IInv, TypeOK
<1>5. ReadsAreKept'
  BY <1>1 DEF ReadsAreKept, IInv, TypeOK
<1>6. OneReceipt' /\ DraftsAreUntouched' /\ ReceiptsAreOpen'
  BY <1>1, <1>4 DEF IInv, OneReceipt, DraftsAreUntouched, ReceiptsAreOpen, rows
<1>7. RemainingIsHeld' /\ ReceivedWithinOrdered'
  BY <1>1, <1>4 DEF IInv, RemainingIsHeld, ReceivedWithinOrdered, rows
<1> QED
  BY <1>3, <1>5, <1>6, <1>7 DEF IInv

LEMMA ReceiptReadKeeps ==
  ASSUME IInv, NEW r \in Req, NEW o \in Order, NEW lines \in Lines, BeginReceipt(r, o, lines)
  PROVE  IInv'
<1> DEFINE q == [at |-> "receive", order |-> o, read |-> status[o],
                 known |-> Named(ordered[o]), lines |-> lines, next |-> status[o]]
<1>1. /\ req' = [req EXCEPT ![r] = q] /\ UNCHANGED <<rows, stale>>
      /\ status[o] \in Receivable
      /\ \A s \in Req : ~Receives(s, o)
      /\ \A i \in Named(lines) : lines[i] <= ordered[o][i] - received[o][i]
  BY DEF BeginReceipt, Read, OrderIsFree, Receives
<1>2. q \in Request
  BY DEF IInv, TypeOK, Request, Named
<1>3. TypeOK'
  BY <1>1, <1>2 DEF IInv, TypeOK, rows
<1>4. \A s \in Req, p \in Order : Receives(s, p)' =>
         \/ s = r /\ p = o /\ req'[s] = q
         \/ s # r /\ p # o /\ Receives(s, p) /\ req'[s] = req[s]
  BY <1>1 DEF Receives, IInv, TypeOK
<1>5. ReadsAreKept'
  BY <1>1 DEF ReadsAreKept, IInv, TypeOK
<1>6. OneReceipt' /\ DraftsAreUntouched' /\ ReceiptsAreOpen'
  BY <1>1, <1>4 DEF IInv, OneReceipt, DraftsAreUntouched, ReceiptsAreOpen, rows, Receivable
<1>7. ReceivedWithinOrdered'
  BY <1>1 DEF IInv, ReceivedWithinOrdered, rows
<1>8. ~stale[o] => \A i \in Item : received[o][i] + lines[i] <= ordered[o][i]
  BY <1>1, QuantityAssumption DEF IInv, TypeOK, ReceivedWithinOrdered, Lines, Named
<1>9. RemainingIsHeld'
  BY <1>1, <1>4, <1>8 DEF IInv, RemainingIsHeld, rows
<1> QED
  BY <1>3, <1>5, <1>6, <1>7, <1>9 DEF IInv

LEMMA EndKeepsType ==
  ASSUME TypeOK, NEW r \in Req, EndRequest(r)
  PROVE  /\ req' \in [Req -> Request]
         /\ \A s \in Req : req'[s].at # "idle" => req'[s] = req[s] /\ s # r
BY IdleIsRequest DEF TypeOK, EndRequest, Idle

LEMMA CreateKeeps ==
  ASSUME IInv, NEW o \in Order, CreateOrder(o)
  PROVE  IInv'
<1>1. TypeOK'
  BY DEF IInv, TypeOK, CreateOrder, Statuses
<1>2. OneReceipt' /\ RemainingIsHeld' /\ ReadsAreKept' /\ ReceivedWithinOrdered'
  BY DEF CreateOrder, IInv, OneReceipt, RemainingIsHeld, ReadsAreKept,
     ReceivedWithinOrdered, Receives
<1>3. DraftsAreUntouched' /\ ReceiptsAreOpen'
  BY DEF CreateOrder, IInv, TypeOK, DraftsAreUntouched, ReceiptsAreOpen, Receives, Receivable
<1> QED
  BY <1>1, <1>2, <1>3 DEF IInv

LEMMA FailKeeps ==
  ASSUME IInv, NEW r \in Req, RequestFails(r)
  PROVE  IInv'
<1>1. EndRequest(r) /\ UNCHANGED <<rows, stale>>
  BY DEF RequestFails
<1>2. TypeOK'
  BY <1>1, EndKeepsType DEF IInv, TypeOK, rows
<1>3. \A s \in Req, p \in Order : Receives(s, p)' => Receives(s, p) /\ req'[s] = req[s]
  BY <1>1, EndKeepsType DEF Receives, IInv
<1>4. ReadsAreKept'
  BY <1>1, EndKeepsType DEF ReadsAreKept, IInv
<1> QED
  BY <1>1, <1>2, <1>3, <1>4 DEF IInv, OneReceipt, DraftsAreUntouched, ReceiptsAreOpen,
     RemainingIsHeld, ReceivedWithinOrdered, rows

LEMMA EditKeeps ==
  ASSUME IInv, NEW r \in Req, CommitEdit(r)
  PROVE  IInv'
<1> DEFINE o == req[r].order
           new == [i \in Item |-> IF i \in Named(req[r].lines) THEN req[r].lines[i]
                                  ELSE ordered[o][i]]
<1>1. /\ o \in Order
      /\ ordered' = [ordered EXCEPT ![o] = new]
      /\ stale' = [stale EXCEPT ![o] = stale[o] \/ status[o] # "DRAFT"]
      /\ EndRequest(r)
      /\ UNCHANGED <<status, received>>
  BY DEF CommitEdit, IInv, TypeOK
<1>2. req[r].lines \in Lines
  BY DEF IInv, TypeOK, Request
<1>3. new \in Lines
  BY <1>1, <1>2 DEF IInv, TypeOK, Lines
<1>4. TypeOK'
  BY <1>1, <1>3, EndKeepsType DEF IInv, TypeOK
<1>5. \A s \in Req, p \in Order : Receives(s, p)' => Receives(s, p) /\ req'[s] = req[s]
  BY <1>1, EndKeepsType DEF Receives, IInv
<1>6. ReadsAreKept'
  BY <1>1, EndKeepsType DEF ReadsAreKept, IInv
<1>7. OneReceipt' /\ DraftsAreUntouched' /\ ReceiptsAreOpen'
  BY <1>1, <1>5 DEF IInv, OneReceipt, DraftsAreUntouched, ReceiptsAreOpen
<1>8. ~stale'[o] => (\A i \in Item : received[o][i] = 0) /\ \A s \in Req : ~Receives(s, o)
  BY <1>1 DEF IInv, TypeOK, DraftsAreUntouched
<1>9. \A p \in Order : p # o => ordered'[p] = ordered[p] /\ stale'[p] = stale[p]
  BY <1>1 DEF IInv, TypeOK
<1>10. RemainingIsHeld'
  BY <1>1, <1>5, <1>8, <1>9 DEF IInv, RemainingIsHeld
<1>11. ReceivedWithinOrdered'
  <2> SUFFICES ASSUME NEW p \in Order, ~stale'[p], NEW i \in Item
               PROVE  received'[p][i] <= ordered'[p][i]
    BY DEF ReceivedWithinOrdered
  <2>1. CASE p = o
    BY <2>1, <1>1, <1>3, <1>8, QuantityAssumption DEF IInv, TypeOK, Lines
  <2>2. CASE p # o
    BY <2>2, <1>1, <1>9 DEF IInv, ReceivedWithinOrdered
  <2> QED
    BY <2>1, <2>2
<1> QED
  BY <1>4, <1>6, <1>7, <1>10, <1>11 DEF IInv

LEMMA UpdateKeeps ==
  ASSUME IInv, NEW r \in Req, CommitUpdate(r)
  PROVE  IInv'
<1> DEFINE o == req[r].order
           s0 == req[r].next
           fits == Calculated(s0, ordered[o], received[o])
           new == IF fits # s0 THEN fits ELSE IF s0 # req[r].read THEN s0 ELSE status[o]
<1>1. /\ o \in Order
      /\ \A s \in Req : ~Receives(s, o)
      /\ status' = [status EXCEPT ![o] = new]
      /\ stale' = [stale EXCEPT ![o] = stale[o] \/ (s0 # req[r].read /\ status[o] # req[r].read)]
      /\ EndRequest(r)
      /\ UNCHANGED <<ordered, received>>
  BY DEF CommitUpdate, OrderIsFree, Receives, IInv, TypeOK
<1>2. new \in {status[o], "SENT", "CANCELLED", "PARTIALLY_RECEIVED", "RECEIVED"}
  <2>1. fits \in {s0, "PARTIALLY_RECEIVED", "RECEIVED"}
    BY CalculatedStatus
  <2>2. s0 \in {req[r].read, "SENT", "CANCELLED"}
    BY DEF CommitUpdate, IInv, ReadsAreKept
  <2> QED
    BY <2>1, <2>2
<1>3. TypeOK'
  <2>1. new \in Statuses
    BY <1>1, <1>2 DEF IInv, TypeOK, Statuses
  <2>2. status' \in [Order -> Statuses] /\ stale' \in [Order -> BOOLEAN]
    BY <1>1, <2>1 DEF IInv, TypeOK
  <2> QED
    BY <1>1, <2>2, EndKeepsType DEF IInv, TypeOK
<1>4. \A s \in Req, p \in Order : Receives(s, p)' =>
         Receives(s, p) /\ req'[s] = req[s] /\ p # o
  BY <1>1, EndKeepsType DEF Receives, IInv
<1>5. \A p \in Order : p # o => status'[p] = status[p]
  BY <1>1 DEF IInv, TypeOK
<1>6. ReadsAreKept'
  BY <1>1, EndKeepsType DEF ReadsAreKept, IInv
<1>7. OneReceipt' /\ ReceiptsAreOpen'
  BY <1>4, <1>5 DEF IInv, OneReceipt, ReceiptsAreOpen
<1>8. DraftsAreUntouched'
  <2>1. \A p \in Order : status'[p] \in {"NONE", "DRAFT"} => status[p] \in {"NONE", "DRAFT"}
    BY <1>1, <1>2, <1>5 DEF IInv, TypeOK
  <2> QED
    BY <1>1, <1>4, <2>1 DEF IInv, DraftsAreUntouched
<1>9. \A p \in Order : ~stale'[p] => ~stale[p]
  BY <1>1 DEF IInv, TypeOK
<1>10. RemainingIsHeld' /\ ReceivedWithinOrdered'
  BY <1>1, <1>4, <1>9 DEF IInv, RemainingIsHeld, ReceivedWithinOrdered
<1> QED
  BY <1>3, <1>6, <1>7, <1>8, <1>10 DEF IInv

LEMMA ReceiptKeeps ==
  ASSUME IInv, NEW r \in Req, CommitReceipt(r)
  PROVE  IInv'
<1> DEFINE o == req[r].order
           rec == [i \in Item |-> received[o][i] + req[r].lines[i]]
           new == Calculated(req[r].read, ordered[o], rec)
<1>1. /\ o \in Order
      /\ Receives(r, o)
      /\ received' = [received EXCEPT ![o] = rec]
      /\ status' = [status EXCEPT ![o] = new]
      /\ EndRequest(r)
      /\ UNCHANGED <<ordered, stale>>
  BY DEF CommitReceipt, Receives, IInv, TypeOK
<1>2. new \in {"SENT", "PARTIALLY_RECEIVED", "RECEIVED"}
  BY <1>1, CalculatedStatus DEF IInv, ReadsAreKept, Receives, Receivable
<1>3. rec \in [Item -> Nat]
  BY <1>1, QuantityAssumption DEF IInv, TypeOK, Request, Lines
<1>4. TypeOK'
  <2>1. status' \in [Order -> Statuses] /\ received' \in [Order -> [Item -> Nat]]
    BY <1>1, <1>2, <1>3 DEF IInv, TypeOK, Statuses
  <2> QED
    BY <1>1, <2>1, EndKeepsType DEF IInv, TypeOK
<1>5. \A s \in Req, p \in Order : Receives(s, p)' =>
         Receives(s, p) /\ req'[s] = req[s] /\ p # o
  BY <1>1, EndKeepsType DEF Receives, IInv, OneReceipt
<1>6. \A p \in Order : p # o => status'[p] = status[p] /\ received'[p] = received[p]
  BY <1>1 DEF IInv, TypeOK
<1>7. ReadsAreKept'
  BY <1>1, EndKeepsType DEF ReadsAreKept, IInv
<1>8. OneReceipt' /\ ReceiptsAreOpen'
  BY <1>5, <1>6 DEF IInv, OneReceipt, ReceiptsAreOpen
<1>9. status'[o] = new /\ received'[o] = rec
  BY <1>1 DEF IInv, TypeOK
<1>10. DraftsAreUntouched'
  BY <1>2, <1>5, <1>6, <1>9 DEF IInv, DraftsAreUntouched
<1>11. RemainingIsHeld'
  BY <1>1, <1>5, <1>6 DEF IInv, RemainingIsHeld
<1>12. ReceivedWithinOrdered'
  <2>1. ~stale[o] => \A i \in Item : rec[i] <= ordered[o][i]
    BY <1>1 DEF IInv, RemainingIsHeld
  <2> QED
    BY <1>1, <1>6, <1>9, <2>1 DEF IInv, ReceivedWithinOrdered
<1> QED
  BY <1>4, <1>7, <1>8, <1>10, <1>11, <1>12 DEF IInv

-----------------------------------------------------------------------------
LEMMA NextStatusesAreStatuses ==
  ASSUME NEW s \in Statuses
  PROVE  NextStatuses(s) \subseteq {s, "SENT", "CANCELLED"}
BY DEF NextStatuses, Statuses

LEMMA StepKeeps == IInv /\ [Next]_vars => IInv'
<1> SUFFICES ASSUME IInv, [Next]_vars PROVE IInv'
  OBVIOUS
<1>1. ASSUME NEW o \in Order, CreateOrder(o) PROVE IInv'
  BY <1>1, CreateKeeps
<1>2. ASSUME NEW r \in Req, NEW o \in Order, Serve(r, o) PROVE IInv'
  <2>1. ASSUME NEW lines \in Lines, BeginEdit(r, o, lines) PROVE IInv'
    BY <2>1, ReadKeeps DEF BeginEdit, Statuses
  <2>2. ASSUME NEW lines \in Lines, BeginReceipt(r, o, lines) PROVE IInv'
    BY <2>2, ReceiptReadKeeps
  <2>3. ASSUME BeginUpdate(r, o) PROVE IInv'
    <3>1. PICK next \in NextStatuses(status[o]) : Read(r, o, "update", NoLines, next)
      BY <2>3 DEF BeginUpdate
    <3>2. next \in {status[o], "SENT", "CANCELLED"} /\ next \in Statuses
      BY <3>1, NextStatusesAreStatuses DEF IInv, TypeOK, Statuses
    <3> QED
      BY <3>1, <3>2, ReadKeeps, NoLinesIsLines
  <2> QED
    BY <1>2, <2>1, <2>2, <2>3 DEF Serve
<1>3. ASSUME NEW r \in Req,
             CommitEdit(r) \/ CommitUpdate(r) \/ CommitReceipt(r) \/ RequestFails(r)
      PROVE  IInv'
  BY <1>3, EditKeeps, UpdateKeeps, ReceiptKeeps, FailKeeps
<1>4. CASE UNCHANGED vars
  BY <1>4 DEF vars, IInv, TypeOK, OneReceipt, DraftsAreUntouched, ReceiptsAreOpen,
     RemainingIsHeld, ReadsAreKept, ReceivedWithinOrdered, Receives
<1> QED
  BY <1>1, <1>2, <1>3, <1>4 DEF Next

(* The invariant behind the two results below.                               *)
THEOREM PurchasingInvariance == Spec => []IInv
<1>1. IInv /\ [Next]_vars => IInv'
  BY StepKeeps
<1> QED
  BY InitEstablishes, <1>1, PTL DEF Spec

(* receivePurchaseOrder under the locks of the order and its lines: receipts  *)
(* that overlap, and edits and status requests that were written to the       *)
(* status they read, never receive more of a line than was ordered.  Of an    *)
(* order that was written to on a stale reading of its status nothing is said. *)
THEOREM ReceiptsBounded == Spec => []ReceivedWithinOrdered
BY PurchasingInvariance, PTL DEF IInv

(* receivePurchaseOrder: goods are booked only on an order that is SENT or    *)
(* PARTIALLY_RECEIVED at the moment of the booking.                          *)
THEOREM ReceiptsNeedOpenOrders == Spec => ReceiptNeedsOpenOrder
<1>1. ASSUME IInv, Next
      PROVE  \A o \in Order : received'[o] # received[o] => status[o] \in Receivable
  <2> SUFFICES ASSUME NEW o \in Order, received'[o] # received[o]
               PROVE  status[o] \in Receivable
    OBVIOUS
  <2>1. PICK r \in Req : CommitReceipt(r)
    BY <1>1 DEF Next, CreateOrder, Serve, BeginEdit, BeginUpdate, BeginReceipt, Read,
       rows, CommitEdit, CommitUpdate, RequestFails
  <2>2. req[r].order = o
    BY <1>1, <2>1 DEF CommitReceipt, IInv, TypeOK
  <2> QED
    BY <1>1, <2>1, <2>2 DEF CommitReceipt, IInv, ReceiptsAreOpen, Receives
<1>2. IInv /\ [Next]_vars
        => [\A o \in Order : received'[o] # received[o] => status[o] \in Receivable]_vars
  BY <1>1
<1> QED
  BY PurchasingInvariance, <1>2, PTL DEF Spec, ReceiptNeedsOpenOrder

-----------------------------------------------------------------------------
(* The computed status.  Totals are sums over the lines; because no line has *)
(* received more than was ordered, the totals agree only if every line does. *)

LEMMA CalculatedOfSome ==
  ASSUME NEW s \in Statuses, s # "CANCELLED", NEW ord \in [Item -> Nat],
         NEW rec \in [Item -> Nat],
         \A i \in Item : rec[i] <= ord[i], \E i \in Item : rec[i] > 0
  PROVE  Calculated(s, ord, rec)
           = IF \A i \in Item : rec[i] >= ord[i] THEN "RECEIVED" ELSE "PARTIALLY_RECEIVED"
<1>1. NatValued(ord, Item) /\ NatValued(rec, Item) /\ IsFiniteSet(Item)
  BY ItemAssumption DEF NatValued
<1>2. /\ SumFunction(ord) = SumFunctionOnSet(ord, Item)
      /\ SumFunction(rec) = SumFunctionOnSet(rec, Item)
  BY DEF SumFunction
<1>3. SumFunction(ord) \in Nat /\ SumFunction(rec) \in Nat
  BY <1>1, <1>2, SumNat
<1>4. SumFunction(rec) > 0
  BY <1>1, <1>2, <1>3, SumZero
<1>5. ord # NoLines
  BY DEF NoLines
<1>6. CASE \A i \in Item : rec[i] >= ord[i]
  <2>1. \A i \in Item : ord[i] <= rec[i]
    BY <1>6
  <2>2. SumFunction(ord) <= SumFunction(rec)
    BY <1>1, <1>2, <2>1, SumMonotonic
  <2> QED
    BY <1>3, <1>4, <1>5, <1>6, <2>2 DEF Calculated
<1>7. CASE ~ \A i \in Item : rec[i] >= ord[i]
  <2>1. PICK i \in Item : rec[i] < ord[i]
    BY <1>7
  <2>2. SumFunction(rec) < SumFunction(ord)
    BY <1>1, <1>2, <2>1, SumStrictlyMonotonic
  <2> QED
    BY <1>3, <1>4, <1>5, <1>7, <2>2 DEF Calculated
<1> QED
  BY <1>6, <1>7

LEMMA CalculatedOfNone ==
  ASSUME NEW s, s # "RECEIVED", NEW ord, NEW rec \in [Item -> Nat],
         \A i \in Item : rec[i] = 0
  PROVE  Calculated(s, ord, rec) = s
<1>1. NatValued(rec, Item) /\ IsFiniteSet(Item)
  BY ItemAssumption DEF NatValued
<1>2. SumFunction(rec) = SumFunctionOnSet(rec, Item)
  BY DEF SumFunction
<1>3. SumFunction(rec) = 0
  BY <1>1, <1>2, SumZero
<1>4. SumFunction(rec) <= 0
  BY <1>3
<1> QED
  BY <1>4 DEF Calculated

(* What a request knows of the status it read: one that asks for another     *)
(* status read an order nothing was received of; one that read RECEIVED      *)
(* read an order that has received goods.                                    *)
AskedFromUnreceived ==
  \A r \in Req : req[r].at = "update" /\ req[r].next # req[r].read
                   => req[r].read \in {"DRAFT", "SENT"}
ReceivedWasRead ==
  \A r \in Req : req[r].at = "update" /\ req[r].read = "RECEIVED" /\ ~stale[req[r].order]
                   => \E i \in Item : received[req[r].order][i] > 0
ReceiptsNameLines == \A r \in Req : req[r].at = "receive" => Named(req[r].lines) # {}

StatusInv ==
  /\ AskedFromUnreceived
  /\ ReceivedWasRead
  /\ ReceiptsNameLines
  /\ StatusFitsReceipts

Untouched(o) == \A i \in Item : received[o][i] = 0

(* StatusFitsReceipts of one order, with its two cases apart.                *)
Fits(o) ==
  ~stale[o] =>
    /\ Untouched(o) => status[o] \notin {"RECEIVED", "PARTIALLY_RECEIVED"}
    /\ ~Untouched(o) => status[o] = IF \A i \in Item : received[o][i] >= ordered[o][i]
                                    THEN "RECEIVED" ELSE "PARTIALLY_RECEIVED"

LEMMA FitsIsFits == TypeOK => (StatusFitsReceipts <=> \A o \in Order : Fits(o))
<1> SUFFICES ASSUME TypeOK PROVE StatusFitsReceipts <=> \A o \in Order : Fits(o)
  OBVIOUS
<1>1. \A o \in Order : Untouched(o) <=> ~ \E i \in Item : received[o][i] > 0
  BY DEF TypeOK, Untouched
<1> QED
  BY <1>1 DEF StatusFitsReceipts, Fits

LEMMA InitFits == Init => StatusInv
<1> SUFFICES ASSUME Init PROVE StatusInv
  OBVIOUS
<1>1. \A r \in Req : req[r].at = "idle"
  BY DEF Init, Idle
<1>2. \A o \in Order : Fits(o)
  BY DEF Init, Fits, Untouched, NoLines
<1> QED
  BY <1>1, <1>2, InitEstablishes, FitsIsFits
     DEF IInv, StatusInv, AskedFromUnreceived, ReceivedWasRead, ReceiptsNameLines

LEMMA FitsIsFitsNext == TypeOK' => (StatusFitsReceipts' <=> \A o \in Order : Fits(o)')
<1> SUFFICES ASSUME TypeOK' PROVE StatusFitsReceipts' <=> \A o \in Order : Fits(o)'
  OBVIOUS
<1>1. \A o \in Order : Untouched(o)' <=> ~ \E i \in Item : received'[o][i] > 0
  BY DEF TypeOK, Untouched
<1> QED
  BY <1>1 DEF StatusFitsReceipts, Fits

(* A step that keeps rows keeps the fit of each order.                       *)
LEMMA RowsFit ==
  ASSUME IInv, StatusInv, IInv', UNCHANGED <<rows, stale>>
  PROVE  StatusFitsReceipts'
BY DEF StatusInv, StatusFitsReceipts, rows

LEMMA ReadFits ==
  ASSUME IInv, StatusInv, IInv', NEW r \in Req, NEW o \in Order, NEW at, NEW lines, NEW next,
         Read(r, o, at, lines, next),
         at = "receive" => Named(lines) # {},
         at = "update" => next = status[o] \/ status[o] \in {"DRAFT", "SENT"}
  PROVE  StatusInv'
<1>1. /\ \A s \in Req : s # r => req'[s] = req[s]
      /\ req'[r].at = at /\ req'[r].order = o /\ req'[r].read = status[o]
      /\ req'[r].lines = lines /\ req'[r].next = next
      /\ UNCHANGED <<status, ordered, received, stale>>
  BY DEF Read, IInv, TypeOK, rows
<1>2. StatusFitsReceipts'
  BY <1>1, RowsFit DEF rows
<1>3. AskedFromUnreceived' /\ ReceiptsNameLines'
  BY <1>1 DEF StatusInv, AskedFromUnreceived, ReceiptsNameLines
<1>4. status[o] = "RECEIVED" /\ ~stale[o] => \E i \in Item : received[o][i] > 0
  BY DEF StatusInv, StatusFitsReceipts
<1>5. ReceivedWasRead'
  BY <1>1, <1>4 DEF StatusInv, ReceivedWasRead
<1> QED
  BY <1>2, <1>3, <1>5 DEF StatusInv

(* The requests that remain after one of them ends.                          *)
LEMMA EndFits ==
  ASSUME IInv, StatusInv, IInv', NEW r \in Req, EndRequest(r),
         \A o \in Order : ~stale'[o] => ~stale[o],
         \A o \in Order, i \in Item : received'[o][i] >= received[o][i],
         StatusFitsReceipts'
  PROVE  StatusInv'
<1>1. \A s \in Req : req'[s].at # "idle" => req'[s] = req[s]
  BY EndKeepsType DEF IInv
<1>2. AskedFromUnreceived' /\ ReceiptsNameLines'
  BY <1>1 DEF StatusInv, AskedFromUnreceived, ReceiptsNameLines
<1>3. ReceivedWasRead'
  <2> SUFFICES ASSUME NEW s \in Req, req'[s].at = "update", req'[s].read = "RECEIVED",
                      ~stale'[req'[s].order]
               PROVE  \E i \in Item : received'[req'[s].order][i] > 0
    BY DEF ReceivedWasRead
  <2>1. req'[s] = req[s] /\ req[s].order \in Order
    BY <1>1 DEF IInv, TypeOK
  <2>2. PICK i \in Item : received[req[s].order][i] > 0
    BY <2>1 DEF StatusInv, ReceivedWasRead
  <2>3. received'[req[s].order][i] >= received[req[s].order][i]
    BY <2>1
  <2>4. received[req[s].order][i] \in Nat /\ received'[req[s].order][i] \in Nat
    BY <2>1 DEF IInv, TypeOK
  <2> QED
    BY <2>1, <2>2, <2>3, <2>4
<1> QED
  BY <1>2, <1>3 DEF StatusInv

LEMMA EditFits ==
  ASSUME IInv, StatusInv, IInv', NEW r \in Req, CommitEdit(r)
  PROVE  StatusInv'
<1>0. PICK o \in Order : o = req[r].order
  BY DEF CommitEdit, IInv, TypeOK
<1>1. /\ \A p \in Order : p # o => ordered'[p] = ordered[p] /\ stale'[p] = stale[p]
      /\ stale'[o] = (stale[o] \/ status[o] # "DRAFT")
      /\ EndRequest(r)
      /\ UNCHANGED <<status, received>>
  BY <1>0 DEF CommitEdit, IInv, TypeOK
<1>2. Fits(o)'
  BY <1>1 DEF Fits, Untouched, IInv, DraftsAreUntouched
<1>3. \A p \in Order : Fits(p)
  BY FitsIsFits DEF IInv, StatusInv
<1>4. \A p \in Order : Fits(p)'
  BY <1>1, <1>2, <1>3 DEF Fits, Untouched
<1>5. StatusFitsReceipts'
  BY <1>4, FitsIsFitsNext DEF IInv
<1>6. \A p \in Order : ~stale'[p] => ~stale[p]
  BY <1>1 DEF IInv, TypeOK
<1>7. \A p \in Order, i \in Item : received'[p][i] >= received[p][i]
  BY <1>1 DEF IInv, TypeOK
<1> QED
  BY <1>1, <1>5, <1>6, <1>7, EndFits

(* A status request leaves a closed order closed, and a fitting status.      *)
LEMMA UpdateWrites ==
  ASSUME IInv, StatusInv, NEW r \in Req, CommitUpdate(r), ~stale'[req[r].order]
  PROVE  LET o == req[r].order IN
         /\ Untouched(o) => status'[o] \in {status[o], "SENT", "CANCELLED"}
         /\ ~Untouched(o) => status'[o] = status[o]
         /\ status[o] \in {"RECEIVED", "CANCELLED"} => status'[o] = status[o]
<1> DEFINE o == req[r].order
           s0 == req[r].next
           read == req[r].read
           fits == Calculated(s0, ordered[o], received[o])
           new == IF fits # s0 THEN fits ELSE IF s0 # read THEN s0 ELSE status[o]
<1>1. /\ o \in Order /\ req[r] \in Request /\ req[r].at = "update"
      /\ stale'[o] = (stale[o] \/ (s0 # read /\ status[o] # read))
  BY DEF CommitUpdate, IInv, TypeOK
<1>2. status'[o] = new
  BY DEF CommitUpdate, IInv, TypeOK
<1>3. s0 \in Statuses /\ s0 \in {read, "SENT", "CANCELLED"}
  BY <1>1 DEF IInv, ReadsAreKept, Request
<1>4. /\ ~stale[o]
      /\ (s0 # read => status[o] = read /\ read \in {"DRAFT", "SENT"})
  BY <1>1 DEF StatusInv, AskedFromUnreceived
<1>5. Fits(o)
  BY <1>1, FitsIsFits DEF IInv, StatusInv
<1>6. /\ ordered[o] \in [Item -> Nat] /\ received[o] \in [Item -> Nat]
      /\ \A i \in Item : received[o][i] <= ordered[o][i]
  BY <1>1, <1>4, QuantityAssumption DEF IInv, TypeOK, Lines, ReceivedWithinOrdered
<1>7. ASSUME Untouched(o)
      PROVE  /\ status'[o] \in {status[o], "SENT", "CANCELLED"}
             /\ status[o] = "CANCELLED" => status'[o] = status[o]
             /\ status[o] # "RECEIVED"
  <2>1. s0 # "RECEIVED"
    <3>1. s0 = read => read # "RECEIVED"
      BY <1>1, <1>4, <1>7 DEF StatusInv, ReceivedWasRead, Untouched
    <3> QED
      BY <1>3, <3>1
  <2>2. fits = s0
    BY <1>6, <1>7, <2>1, CalculatedOfNone DEF Untouched
  <2>3. status[o] # "RECEIVED"
    BY <1>4, <1>5, <1>7 DEF Fits
  <2> QED
    BY <1>2, <1>3, <1>4, <2>2, <2>3
<1>8. ASSUME ~Untouched(o) PROVE status'[o] = status[o]
  <2>1. \E i \in Item : received[o][i] > 0
    BY <1>6, <1>8 DEF Untouched
  <2>2. s0 = read
    BY <1>4, <1>5, <1>8 DEF Fits
  <2>3. CASE s0 = "CANCELLED"
    <3>1. fits = s0
      BY <2>3 DEF Calculated
    <3> QED
      BY <1>2, <2>2, <3>1
  <2>4. CASE s0 # "CANCELLED"
    <3>1. fits = IF \A i \in Item : received[o][i] >= ordered[o][i]
                 THEN "RECEIVED" ELSE "PARTIALLY_RECEIVED"
      BY <1>3, <1>6, <2>1, <2>4, CalculatedOfSome
    <3>2. fits = status[o]
      BY <1>4, <1>5, <1>8, <3>1 DEF Fits
    <3> QED
      BY <1>2, <2>2, <3>2
  <2> QED
    BY <2>3, <2>4
<1> QED
  BY <1>7, <1>8

LEMMA UpdateFits ==
  ASSUME IInv, StatusInv, IInv', NEW r \in Req, CommitUpdate(r)
  PROVE  StatusInv'
<1>0. PICK o \in Order : o = req[r].order
  BY DEF CommitUpdate, IInv, TypeOK
<1>1. /\ \A p \in Order : p # o => status'[p] = status[p] /\ stale'[p] = stale[p]
      /\ (~stale'[o] => ~stale[o])
      /\ EndRequest(r)
      /\ UNCHANGED <<ordered, received>>
  BY <1>0 DEF CommitUpdate, IInv, TypeOK
<1>2. \A p \in Order : Fits(p)
  BY FitsIsFits DEF IInv, StatusInv
<1>3. Fits(o)'
  <2> SUFFICES ASSUME ~stale'[o] PROVE Fits(o)'
    BY DEF Fits
  <2>1. CASE Untouched(o)
    <3>1. Untouched(o)'
      BY <1>1, <2>1 DEF Untouched
    <3>2. status'[o] \in {status[o], "SENT", "CANCELLED"}
      BY <1>0, <2>1, UpdateWrites
    <3>3. status[o] \notin {"RECEIVED", "PARTIALLY_RECEIVED"}
      BY <1>1, <1>2, <2>1 DEF Fits
    <3> QED
      BY <3>1, <3>2, <3>3 DEF Fits
  <2>2. CASE ~Untouched(o)
    <3>1. status'[o] = status[o]
      BY <1>0, <2>2, UpdateWrites
    <3> QED
      BY <1>1, <1>2, <3>1 DEF Fits, Untouched
  <2> QED
    BY <2>1, <2>2
<1>4. \A p \in Order : Fits(p)'
  BY <1>1, <1>2, <1>3 DEF Fits, Untouched
<1>5. StatusFitsReceipts'
  BY <1>4, FitsIsFitsNext DEF IInv
<1>6. \A p \in Order : ~stale'[p] => ~stale[p]
  BY <1>1
<1>7. \A p \in Order, i \in Item : received'[p][i] >= received[p][i]
  BY <1>1 DEF IInv, TypeOK
<1> QED
  BY <1>1, <1>5, <1>6, <1>7, EndFits

LEMMA ReceiptFits ==
  ASSUME IInv, StatusInv, IInv', NEW r \in Req, CommitReceipt(r)
  PROVE  StatusInv'
<1>0. PICK o \in Order : o = req[r].order
  BY DEF CommitReceipt, IInv, TypeOK
<1> DEFINE rec == [i \in Item |-> received[o][i] + req[r].lines[i]]
           new == Calculated(req[r].read, ordered[o], rec)
<1>1. /\ req[r].at = "receive"
      /\ \A p \in Order : p # o => status'[p] = status[p] /\ received'[p] = received[p]
      /\ EndRequest(r)
      /\ UNCHANGED <<ordered, stale>>
  BY <1>0 DEF CommitReceipt, IInv, TypeOK
<1>2. received'[o] = rec
  BY <1>0 DEF CommitReceipt, IInv, TypeOK
<1>3. status'[o] = new
  BY <1>0 DEF CommitReceipt, IInv, TypeOK
<1>4. req[r].lines \in Lines /\ req[r].read \in Receivable
  BY <1>1 DEF IInv, TypeOK, Request, ReadsAreKept
<1>5. \A i \in Item : received[o][i] \in Nat /\ req[r].lines[i] \in Nat
  BY <1>1, <1>4, QuantityAssumption DEF IInv, TypeOK, Lines
<1>6. rec \in [Item -> Nat] /\ ordered[o] \in [Item -> Nat]
  BY <1>1, <1>5, QuantityAssumption DEF IInv, TypeOK, Lines
<1>7. \E i \in Item : rec[i] > 0
  <2>1. PICK i \in Item : req[r].lines[i] > 0
    BY <1>1 DEF StatusInv, ReceiptsNameLines, Named
  <2> QED
    BY <1>5, <2>1
<1>8. Fits(o)'
  <2> SUFFICES ASSUME ~stale'[o] PROVE Fits(o)'
    BY DEF Fits
  <2>1. \A i \in Item : rec[i] <= ordered[o][i]
    BY <1>1, <1>2 DEF IInv, ReceivedWithinOrdered
  <2> HIDE DEF rec
  <2>2. new = IF \A i \in Item : rec[i] >= ordered[o][i]
              THEN "RECEIVED" ELSE "PARTIALLY_RECEIVED"
    BY <1>4, <1>6, <1>7, <2>1, CalculatedOfSome DEF Receivable, Statuses
  <2>3. ~Untouched(o)'
    BY <1>2, <1>6, <1>7 DEF Untouched
  <2> QED
    BY <1>1, <1>2, <1>3, <2>2, <2>3 DEF Fits
<1>9. \A p \in Order : Fits(p)
  BY FitsIsFits DEF IInv, StatusInv
<1>10. \A p \in Order : Fits(p)'
  BY <1>1, <1>8, <1>9 DEF Fits, Untouched
<1>11. StatusFitsReceipts'
  BY <1>10, FitsIsFitsNext DEF IInv
<1>12. \A p \in Order, i \in Item : received'[p][i] >= received[p][i]
  <2> SUFFICES ASSUME NEW p \in Order, NEW i \in Item PROVE received'[p][i] >= received[p][i]
    OBVIOUS
  <2>1. CASE p = o
    BY <1>2, <1>5, <2>1
  <2>2. CASE p # o
    BY <1>1, <2>2 DEF IInv, TypeOK
  <2> QED
    BY <2>1, <2>2
<1> QED
  BY <1>1, <1>11, <1>12, EndFits

LEMMA StepFits == IInv /\ StatusInv /\ [Next]_vars => StatusInv'
<1> SUFFICES ASSUME IInv, StatusInv, [Next]_vars PROVE StatusInv'
  OBVIOUS
<1>0. IInv'
  BY StepKeeps
<1>1. ASSUME NEW o \in Order, CreateOrder(o) PROVE StatusInv'
  <2>1. /\ \A p \in Order : p # o => status'[p] = status[p]
        /\ status'[o] = "DRAFT" /\ status[o] = "NONE"
        /\ UNCHANGED <<ordered, received, req, stale>>
    BY <1>1 DEF CreateOrder, IInv, TypeOK
  <2>2. \A p \in Order : Fits(p)'
    BY <2>1, FitsIsFits DEF IInv, StatusInv, Fits, Untouched, DraftsAreUntouched
  <2>3. StatusFitsReceipts'
    BY <1>0, <2>2, FitsIsFitsNext DEF IInv
  <2> QED
    BY <2>1, <2>3 DEF StatusInv, AskedFromUnreceived, ReceivedWasRead, ReceiptsNameLines
<1>2. ASSUME NEW r \in Req, NEW o \in Order, Serve(r, o) PROVE StatusInv'
  <2>1. ASSUME NEW lines \in Lines, BeginEdit(r, o, lines) PROVE StatusInv'
    BY <1>0, <2>1, ReadFits DEF BeginEdit
  <2>2. ASSUME NEW lines \in Lines, BeginReceipt(r, o, lines) PROVE StatusInv'
    BY <1>0, <2>2, ReadFits DEF BeginReceipt
  <2>3. ASSUME BeginUpdate(r, o) PROVE StatusInv'
    <3>1. PICK next \in NextStatuses(status[o]) : Read(r, o, "update", NoLines, next)
      BY <2>3 DEF BeginUpdate
    <3>2. next = status[o] \/ status[o] \in {"DRAFT", "SENT"}
      BY DEF NextStatuses
    <3> QED
      BY <1>0, <3>1, <3>2, ReadFits
  <2> QED
    BY <1>2, <2>1, <2>2, <2>3 DEF Serve
<1>3. ASSUME NEW r \in Req,
             CommitEdit(r) \/ CommitUpdate(r) \/ CommitReceipt(r) \/ RequestFails(r)
      PROVE  StatusInv'
  <2>1. ASSUME RequestFails(r) PROVE StatusInv'
    <3>1. EndRequest(r) /\ UNCHANGED <<status, ordered, received, stale>>
      BY <2>1 DEF RequestFails, rows
    <3>2. StatusFitsReceipts'
      BY <1>0, <3>1, RowsFit DEF rows
    <3>3. \A p \in Order, i \in Item : received'[p][i] >= received[p][i]
      BY <3>1 DEF IInv, TypeOK
    <3> QED
      BY <1>0, <3>1, <3>2, <3>3, EndFits
  <2> QED
    BY <1>0, <1>3, <2>1, EditFits, UpdateFits, ReceiptFits
<1>4. CASE UNCHANGED vars
  BY <1>4 DEF vars, StatusInv, AskedFromUnreceived, ReceivedWasRead, ReceiptsNameLines,
     StatusFitsReceipts
<1> QED
  BY <1>1, <1>2, <1>3, <1>4 DEF Next

(* The invariant behind the next two results: what requests read of a status,  *)
(* and that the status fits the lines.                                        *)
THEOREM StatusInvariance == Spec => [](IInv /\ StatusInv)
<1>1. Init => IInv /\ StatusInv
  BY InitEstablishes, InitFits
<1>2. IInv /\ StatusInv /\ [Next]_vars => (IInv /\ StatusInv)'
  BY StepKeeps, StepFits
<1> QED
  BY <1>1, <1>2, PTL DEF Spec

(* calculatePurchaseOrderStatus compares totals over the lines, and every     *)
(* writer calls it after waiting for the row: the status of an order says how *)
(* far each of its lines has been received, whatever requests overlap, unless *)
(* something was written to it on a stale reading of its status.              *)
THEOREM StatusesFitReceipts == Spec => []StatusFitsReceipts
BY StatusInvariance, PTL DEF StatusInv

(* updatePurchaseOrder: an update that read an order before it was received  *)
(* or cancelled, and writes a status after, does not reopen it.               *)
THEOREM ClosedOrdersStay == Spec => ClosedOrderStays
<1> DEFINE Stays == \A o \in Order : status[o] \in {"RECEIVED", "CANCELLED"} /\ ~stale'[o]
                                       => status'[o] = status[o]
<1>1. ASSUME IInv, StatusInv, Next PROVE Stays
  <2> SUFFICES ASSUME NEW o \in Order, status[o] \in {"RECEIVED", "CANCELLED"},
                      ~stale'[o], status'[o] # status[o]
               PROVE  FALSE
    OBVIOUS
  <2>1. \/ \E p \in Order : CreateOrder(p)
        \/ \E r \in Req : CommitUpdate(r) \/ CommitReceipt(r)
    BY <1>1 DEF Next, Serve, BeginEdit, BeginUpdate, BeginReceipt, Read, rows, CommitEdit,
       RequestFails
  <2>2. ASSUME NEW p \in Order, CreateOrder(p) PROVE FALSE
    BY <1>1, <2>2 DEF CreateOrder, IInv, TypeOK
  <2>3. ASSUME NEW r \in Req, CommitUpdate(r) PROVE FALSE
    <3>1. req[r].order = o
      BY <1>1, <2>3 DEF CommitUpdate, IInv, TypeOK
    <3> QED
      BY <1>1, <2>3, <3>1, UpdateWrites
  <2>4. ASSUME NEW r \in Req, CommitReceipt(r) PROVE FALSE
    <3>1. req[r].order = o
      BY <1>1, <2>4 DEF CommitReceipt, IInv, TypeOK
    <3>2. status[o] \in Receivable
      BY <1>1, <2>4, <3>1 DEF CommitReceipt, IInv, ReceiptsAreOpen, Receives
    <3> QED
      BY <3>2 DEF Receivable
  <2> QED
    BY <2>1, <2>2, <2>3, <2>4
<1>2. IInv /\ StatusInv /\ [Next]_vars => [Stays]_vars
  BY <1>1
<1> QED
  BY StatusInvariance, <1>2, PTL DEF Spec, ClosedOrderStays
=============================================================================
