----------------------------- MODULE Purchasing -----------------------------
(***************************************************************************)
(* Purchase orders: drafts and their lines, the status requests, and the   *)
(* receipt of goods.                                                       *)
(*                                                                         *)
(* A receipt is one transaction that locks the order row and the rows of   *)
(* the lines it receives before it reads them.  Every other request reads  *)
(* the order without a lock and writes in a later step; the write waits    *)
(* for a receipt that holds the row.  Prices and numbers are left out: a   *)
(* line is what was ordered and what has been received of an item.         *)
(***************************************************************************)
EXTENDS Integers, FiniteSets, Functions

CONSTANTS
  Order,       \* purchase orders
  Item,        \* variants; an order has at most one line of each
  Req,         \* overlapping requests
  MaxQty,      \* bound on the quantities that requests name
  NoOrder

ASSUME QuantityAssumption == MaxQty \in Nat \ {0}
ASSUME ItemAssumption == IsFiniteSet(Item)
ASSUME NoOrderAssumption == NoOrder \notin Order

VARIABLES
  status,      \* status[o]: PurchaseOrder.status, "NONE" before it is created
  ordered,     \* ordered[o][i]: quantityOrdered, 0 when there is no such line
  received,    \* received[o][i]: quantityReceived
  req,         \* req[r]: what a request has read and is going to write
  stale        \* stale[o]: a draft edit or a status was written to o although
               \*   its status was no longer the one read (history)

vars == <<status, ordered, received, req, stale>>
rows == <<status, ordered, received>>

Statuses == {"NONE", "DRAFT", "SENT", "PARTIALLY_RECEIVED", "RECEIVED", "CANCELLED"}
Receivable == {"SENT", "PARTIALLY_RECEIVED"}
Lines == [Item -> 0 .. MaxQty]
NoLines == [i \in Item |-> 0]
Named(lines) == {i \in Item : lines[i] > 0}

(* at: what the request does; read: the status it read; known: the lines it  *)
(* found; lines: its quantities; next: the status it writes.                 *)
Request == [at : {"idle", "edit", "update", "receive"}, order : Order \cup {NoOrder},
            read : Statuses, known : SUBSET Item, lines : Lines, next : Statuses]
Idle == [at |-> "idle", order |-> NoOrder, read |-> "NONE", known |-> {},
         lines |-> NoLines, next |-> "NONE"]

Init ==
  /\ status = [o \in Order |-> "NONE"]
  /\ ordered = [o \in Order |-> NoLines]
  /\ received = [o \in Order |-> NoLines]
  /\ req = [r \in Req |-> Idle]
  /\ stale = [o \in Order |-> FALSE]

-----------------------------------------------------------------------------
(* The lock of a receipt on the order row and on the rows of its lines.      *)
OrderIsFree(o) == \A r \in Req : ~(req[r].at = "receive" /\ req[r].order = o)
LineIsFree(o, i) ==
  \A r \in Req : ~(req[r].at = "receive" /\ req[r].order = o /\ req[r].lines[i] > 0)

(* calculatePurchaseOrderStatus: the status that fits what was received.     *)
Calculated(s, ord, rec) ==
  LET totalOrdered == SumFunction(ord)
      totalReceived == SumFunction(rec)
  IN  IF s = "CANCELLED" \/ ord = NoLines THEN s
      ELSE IF totalReceived <= 0 THEN IF s = "RECEIVED" THEN "PARTIALLY_RECEIVED" ELSE s
      ELSE IF totalReceived >= totalOrdered THEN "RECEIVED"
      ELSE "PARTIALLY_RECEIVED"

\* createPurchaseOrder
CreateOrder(o) ==
  /\ status[o] = "NONE"
  /\ status' = [status EXCEPT ![o] = "DRAFT"]
  /\ UNCHANGED <<ordered, received, req, stale>>

(* What request r on an order that exists takes away from its reads.         *)
Read(r, o, at, lines, next) ==
  /\ req[r].at = "idle"
  /\ status[o] # "NONE"
  /\ req' = [req EXCEPT ![r] =
       [at |-> at, order |-> o, read |-> status[o],
        known |-> Named(ordered[o]), lines |-> lines, next |-> next]]
  /\ UNCHANGED <<rows, stale>>

(* upsertPurchaseOrderItems, and updatePurchaseOrderItem for a line it found: *)
(* assertDraftForLineEdits, and no less than was received.                   *)
BeginEdit(r, o, lines) ==
  /\ Named(lines) # {}
  /\ status[o] = "DRAFT"
  /\ \A i \in Named(lines) : lines[i] >= received[o][i]
  /\ Read(r, o, "edit", lines, "DRAFT")

(* getNextStatusOrThrow, or no status at all: next is the one read then.     *)
NextStatuses(s) ==
  {s} \cup (CASE s = "DRAFT" -> {"SENT", "CANCELLED"}
              [] s = "SENT" -> {"CANCELLED"}
              [] OTHER -> {})

\* updatePurchaseOrder
BeginUpdate(r, o) ==
  \E next \in NextStatuses(status[o]) : Read(r, o, "update", NoLines, next)

\* mutant: the order and its lines are read without FOR UPDATE
BeginReceiptUnlocked(r, o, lines) ==
  /\ status[o] \in Receivable
  /\ Named(lines) # {}
  /\ \A i \in Named(lines) : lines[i] <= ordered[o][i] - received[o][i]
  /\ Read(r, o, "receive", lines, status[o])

\* mutant: without PURCHASE_ORDER_NOT_SENT
BeginReceiptOfDraft(r, o, lines) ==
  /\ OrderIsFree(o)
  /\ status[o] \in Receivable \cup {"DRAFT"}
  /\ Named(lines) # {}
  /\ \A i \in Named(lines) : lines[i] <= ordered[o][i] - received[o][i]
  /\ Read(r, o, "receive", lines, status[o])

(* receivePurchaseOrder up to its writes: the locks, the status, and what     *)
(* remains of each line.                                                     *)
BeginReceipt(r, o, lines) ==
  /\ OrderIsFree(o)
  /\ status[o] \in Receivable
  /\ Named(lines) # {}
  /\ \A i \in Named(lines) : lines[i] <= ordered[o][i] - received[o][i]
  /\ Read(r, o, "receive", lines, status[o])

EndRequest(r) == req' = [req EXCEPT ![r] = Idle]

(* A line that was found is updated, which waits for a receipt of that line; *)
(* a new one is inserted, which waits for the order, whose key it refers to, *)
(* and fails if the line exists by now.                                      *)
CommitEdit(r) ==
  LET o == req[r].order
      on == Named(req[r].lines)
  IN  /\ req[r].at = "edit"
      /\ \A i \in on : IF i \in req[r].known THEN LineIsFree(o, i)
                                            ELSE OrderIsFree(o) /\ ordered[o][i] = 0
      /\ ordered' = [ordered EXCEPT ![o] =
           [i \in Item |-> IF i \in on THEN req[r].lines[i] ELSE @[i]]]
      /\ stale' = [stale EXCEPT ![o] = @ \/ status[o] # "DRAFT"]
      /\ EndRequest(r)
      /\ UNCHANGED <<status, received>>

\* mutant: the status as read is written back when none is requested
CommitUpdateAsRead(r) ==
  LET o == req[r].order
      fits == Calculated(req[r].next, ordered[o], received[o])
  IN  /\ req[r].at = "update"
      /\ OrderIsFree(o)
      /\ status' = [status EXCEPT ![o] = fits]
      /\ stale' = [stale EXCEPT ![o] = @ \/ (req[r].next # req[r].read /\ status[o] # req[r].read)]
      /\ EndRequest(r)
      /\ UNCHANGED <<ordered, received>>

(* The status asked for, if any, and then the one that fits the lines if it   *)
(* is not the one the request holds.                                         *)
CommitUpdate(r) ==
  LET o == req[r].order
      next == req[r].next
      asked == next # req[r].read
      fits == Calculated(next, ordered[o], received[o])
  IN  /\ req[r].at = "update"
      /\ OrderIsFree(o)
      /\ status' = [status EXCEPT ![o] =
           IF fits # next THEN fits ELSE IF asked THEN next ELSE @]
      /\ stale' = [stale EXCEPT ![o] = @ \/ (asked /\ status[o] # req[r].read)]
      /\ EndRequest(r)
      /\ UNCHANGED <<ordered, received>>

\* mutant: the status is computed from the lines as they were read
CommitReceiptAsRead(r) ==
  LET o == req[r].order
  IN  /\ req[r].at = "receive"
      /\ received' = [received EXCEPT ![o] = [i \in Item |-> @[i] + req[r].lines[i]]]
      /\ status' = [status EXCEPT ![o] = Calculated(req[r].read, ordered[o], received[o])]
      /\ EndRequest(r)
      /\ UNCHANGED <<ordered, stale>>

(* quantityReceived is incremented, the PURCHASE rows of the ledger are       *)
(* written (Stock's PutUnlocked), and the status follows the lines.          *)
CommitReceipt(r) ==
  LET o == req[r].order
      rec == [i \in Item |-> received[o][i] + req[r].lines[i]]
  IN  /\ req[r].at = "receive"
      /\ received' = [received EXCEPT ![o] = rec]
      /\ status' = [status EXCEPT ![o] = Calculated(req[r].read, ordered[o], rec)]
      /\ EndRequest(r)
      /\ UNCHANGED <<ordered, stale>>

(* A refusal after the reads, a database error, a deadlock with an upsert     *)
(* that holds a line and waits for the order, a timeout: nothing is written.  *)
RequestFails(r) ==
  /\ req[r].at # "idle"
  /\ EndRequest(r)
  /\ UNCHANGED <<rows, stale>>

-----------------------------------------------------------------------------
Serve(r, o) ==
  \/ \E lines \in Lines : BeginEdit(r, o, lines) \/ BeginReceipt(r, o, lines)
  \/ BeginUpdate(r, o)

Next ==
  \/ \E o \in Order : CreateOrder(o)
  \/ \E r \in Req, o \in Order : Serve(r, o)
  \/ \E r \in Req : CommitEdit(r) \/ CommitUpdate(r) \/ CommitReceipt(r) \/ RequestFails(r)

Spec == Init /\ [][Next]_vars
-----------------------------------------------------------------------------
(* Properties *)

(* Every variable has its type, and a request has its order.                 *)
TypeOK ==
  /\ status \in [Order -> Statuses]
  /\ ordered \in [Order -> Lines]
  /\ received \in [Order -> [Item -> Nat]]
  /\ req \in [Req -> Request]
  /\ stale \in [Order -> BOOLEAN]
  /\ \A r \in Req : req[r].at # "idle" => req[r].order \in Order

(* docs/operations.md: "concurrent receive calls cannot over-receive the same *)
(* item". However receipts overlap with each other, and with edits that were  *)
(* written while the order was a draft, no line has received more than was    *)
(* ordered. An edit or a status written on a stale reading is excepted.       *)
ReceivedWithinOrdered ==
  \A o \in Order : ~stale[o] => \A i \in Item : received[o][i] <= ordered[o][i]

(* calculatePurchaseOrderStatus is called by every writer: the status of an   *)
(* order says how far its lines have been received, although the requests    *)
(* that recompute it read the status before they waited for its row.         *)
StatusFitsReceipts ==
  \A o \in Order : ~stale[o] =>
    LET some == \E i \in Item : received[o][i] > 0
        all == \A i \in Item : received[o][i] >= ordered[o][i]
    IN  IF some THEN status[o] = (IF all THEN "RECEIVED" ELSE "PARTIALLY_RECEIVED")
        ELSE status[o] \notin {"RECEIVED", "PARTIALLY_RECEIVED"}

(* receivePurchaseOrder refuses drafts and orders that are cancelled or       *)
(* complete: goods are booked only on an order that is open at that moment,   *)
(* whatever status requests were waiting when it took the row.               *)
ReceiptNeedsOpenOrder ==
  [][\A o \in Order : received'[o] # received[o] => status[o] \in Receivable]_vars

(* getNextStatusOrThrow: "Received purchase orders cannot be edited" and       *)
(* "Cancelled purchase orders cannot be edited". An update of the dates or    *)
(* the notes, which writes a status of its own after waiting for a receipt or *)
(* a cancellation, does not reopen what those closed.                        *)
ClosedOrderStays ==
  [][\A o \in Order : status[o] \in {"RECEIVED", "CANCELLED"} /\ ~stale'[o]
       => status'[o] = status[o]]_vars

=============================================================================
