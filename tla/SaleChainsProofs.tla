-------------------------- MODULE SaleChainsProofs --------------------------
(***************************************************************************)
(* Proofs about the requests that are chains of sale transactions: those   *)
(* of Layaways and those of CardTerminals, for any number of sales,        *)
(* intents and requests and any totals and amounts.                        *)
(*                                                                         *)
(* Layaways.  The invariant of SalePayments also holds beside layaway      *)
(* requests, which change no row that a request has locked and make or     *)
(* take away no layaway that one has read.  What a sale request does to a  *)
(* sale and its layaway is one of four effects (SaleEffect).  As long as   *)
(* no two requests overlapped, what a request has read is still so         *)
(* (ReadsSerial, DesksSerial), and a layaway and its sale agree            *)
(* (RowsSerial).                                                           *)
(*                                                                         *)
(* CardTerminals.  A step of theirs is a step of the sale requests, or the *)
(* begin of a tender, or it takes an intent back (TerminalsStep).  The     *)
(* last leaves the payments alone, so the invariants of the sales go on    *)
(* holding (BaseStep), and an intent that is settled stays settled: its    *)
(* payment is there, its sale completed, or it is gone (Carried).  That is *)
(* what a request may rely on from link to link without reading again      *)
(* (RequestInv), and what a captured session stands for (SessionInv).      *)
(***************************************************************************)
EXTENDS Layaways, CardTerminals, SalePaymentsProofs

DeskTypeOK ==
  /\ desk \in [Txn -> Desk]
  /\ releases \in [Sale -> Nat]
  /\ raced \in BOOLEAN
  /\ \A t \in Txn : desk[t].at \notin {"idle", "expire"} => desk[t].sale \in Sale

(* A sale and its layaway; those of requests that never overlapped.         *)
SoundPair(s) ==
  /\ layaway[s].status = "NONE" => layaway[s] = NoLayaway
  /\ row[s].status = "deleted" => layaway[s].status = "NONE"
  /\ layaway[s].completed => row[s].status = "completed"

SerialPair(s) ==
  /\ layaway[s].status # "NONE" => (row[s].status = "completed" <=> layaway[s].status = "COMPLETED")
  /\ layaway[s].status # "NONE" => (layaway[s].completed <=> layaway[s].status = "COMPLETED")
  /\ row[s].status = "completed" => ~layaway[s].released
  /\ \/ releases[s] = 0
     \/ releases[s] = 1 /\ (row[s].status = "deleted" \/ layaway[s].released)

RowsInv == \A s \in Sale : SoundPair(s)

RowsSerial == \A s \in Sale : SerialPair(s)

DesksInStep ==
  \A t \in Txn :
    /\ desk[t].at \in {"create", "expire", "cancel", "complete"} => op[t] = "idle"
    /\ desk[t].at = "completeSale" => op[t] = "complete" /\ arg[t].sale = desk[t].sale
    /\ desk[t].at = "update" =>
         op[t] \in {"idle", "emit"} /\ row[desk[t].sale].status # "open"

ReadsSerial ==
  \A t \in Txn : op[t] \in Locking => seenLay[t] = layaway[arg[t].sale]

DeskSerial(t) ==
  LET s == desk[t].sale
  IN  /\ desk[t].at = "create" => row[s].status = "open" /\ ~HasLayaway(s)
      /\ desk[t].at = "cancel" =>
           /\ HasLayaway(s) /\ desk[t].seen = layaway[s]
           /\ layaway[s].status # "COMPLETED" /\ layaway[s].deposit = 0
      /\ desk[t].at = "expire" =>
           \A q \in desk[t].stale : Unpaid(q) /\ ~layaway[q].released

DesksSerial == \A t \in Txn : DeskSerial(t)

LayInv ==
  /\ IInv /\ DeskTypeOK /\ RowsInv /\ DesksInStep
  /\ ~raced => ~Overlap /\ RowsSerial /\ ReadsSerial /\ DesksSerial

LEMMA DeskTypes == NoDesk \in Desk
BY RecordTypes DEF NoDesk, Desk, DeskStep, Method

LEMMA LayInit == LayawaysInit => LayInv
<1> SUFFICES ASSUME LayawaysInit PROVE LayInv
  OBVIOUS
<1>1. IInv
  BY InitInv DEF LayawaysInit
<1>2. DeskTypeOK /\ DesksInStep
  BY DeskTypes DEF LayawaysInit, DeskTypeOK, DesksInStep, NoDesk
<1>3. \A s \in Sale : layaway[s] = NoLayaway /\ row[s].status = "open" /\ releases[s] = 0
  <2> SUFFICES ASSUME NEW s \in Sale PROVE row[s].status = "open"
    BY DEF LayawaysInit, Init
  <2>1. row[s] = OpenRow \/ \E m \in Method : row[s] = WithPayment(OpenRow, m, Total[s])
    BY DEF LayawaysInit, Init, CheckedOut
  <2>2. \A m \in Method : WithPayment(OpenRow, m, Total[s]).status = OpenRow.status
    BY DEF WithPayment, OpenRow
  <2>3. OpenRow.status = "open"
    BY DEF OpenRow
  <2> QED
    BY <2>1, <2>2, <2>3
<1>4. RowsInv /\ RowsSerial
  BY <1>3 DEF RowsInv, RowsSerial, SoundPair, SerialPair, NoLayaway
<1>5. ~Overlap /\ ReadsSerial /\ DesksSerial
  BY DEF LayawaysInit, Init, Overlap, Free, ReadsSerial, DesksSerial, DeskSerial,
         NoDesk, Locking
<1> QED
  BY <1>1, <1>2, <1>4, <1>5 DEF LayInv

-----------------------------------------------------------------------------
(* What a sale request does to a sale and its layaway.                      *)

SaleStep(t) ==
  \/ Begin(t) \/ CaptureLocksSale(t) \/ ListReadsSources(t)
  \/ Commit(t) \/ EmitCompleted(t) \/ Rollback(t)

Kept(t, s) ==
  /\ row'[s].status = row[s].status /\ layaway'[s] = layaway[s]
  /\ \/ row'[s].tender = row[s].tender
     \/ op[t] = "listInsert" /\ arg[t].sale = s
     \/ /\ op[t] \in Locking /\ s = arg[t].sale
        /\ LayawayOpen(seenLay[t]) => seenLay[t].deposit = Amount(row'[s].tender)

Synced(t, s) ==
  /\ op[t] \in Locking /\ s = arg[t].sale
  /\ row[s].status = "open" /\ row'[s].status = "open"
  /\ LayawayOpen(seenLay[t])
  /\ \E n \in Nat, status \in {"ACTIVE", "PART_PAID"} :
       /\ layaway'[s] = [layaway[s] EXCEPT !.deposit = n, !.status = status]
       /\ n = Amount(row'[s].tender)

Sold(t, s) ==
  /\ op[t] \in Locking /\ s = arg[t].sale
  /\ row[s].status = "open" /\ row'[s].status = "completed"
  /\ ~LayawayReleased(seenLay[t])
  /\ layaway'[s] = IF seenLay[t].status \notin {"NONE", "COMPLETED"}
                   THEN [layaway[s] EXCEPT !.status = "COMPLETED", !.completed = TRUE]
                   ELSE layaway[s]

Dropped(s) == row'[s].status = "deleted" /\ layaway'[s] = NoLayaway

SaleEffect(t, s) == Kept(t, s) \/ Synced(t, s) \/ Sold(t, s) \/ Dropped(s)

LEMMA NothingWritten ==
  ASSUME UNCHANGED <<row, layaway>>, NEW t, NEW s PROVE SaleEffect(t, s)
BY DEF SaleEffect, Kept

LEMMA SyncEffect ==
  ASSUME IInv, NEW t \in Txn, op[t] \in Locking, row[arg[t].sale].status = "open",
         NEW r \in SaleRow, r.status = "open", WriteSale(t, r),
         NEW n \in Nat, n = Amount(r.tender), SyncLayaway(t, n), NEW s \in Sale
  PROVE  SaleEffect(t, s)
<1>1. arg[t].sale \in Sale
  BY LockedFacts
<1>2. CASE s # arg[t].sale
  BY <1>1, <1>2 DEF SaleEffect, Kept, WriteSale, SyncLayaway, IInv, TypeOK
<1>3. CASE s = arg[t].sale
  <2>1. row'[s].status = "open" /\ row'[s] = r
    BY <1>3 DEF WriteSale, IInv, TypeOK
  <2>2. CASE layaway' = layaway
    <3> DEFINE status == IF n > 0 THEN "PART_PAID" ELSE "ACTIVE"
               told == [[layaway EXCEPT ![s].deposit = n] EXCEPT ![s].status = status]
    <3>1. CASE LayawayOpen(seenLay[t]) => seenLay[t].deposit = n
      BY <1>3, <2>1, <2>2, <3>1 DEF SaleEffect, Kept
    <3>2. CASE LayawayOpen(seenLay[t]) /\ seenLay[t].deposit # n
      <4>1. layaway' = told
        BY <1>3, <3>2 DEF SyncLayaway
      <4>2. layaway'[s] = [layaway[s] EXCEPT !.deposit = n, !.status = status]
        BY <4>1 DEF IInv, TypeOK
      <4>3. status \in {"ACTIVE", "PART_PAID"}
        OBVIOUS
      <4> HIDE DEF status, told
      <4> QED
        BY <1>3, <2>1, <3>2, <4>2, <4>3 DEF SaleEffect, Synced
    <3> QED
      BY <3>1, <3>2
  <2>3. CASE layaway' # layaway
    <3> DEFINE status == IF n > 0 THEN "PART_PAID" ELSE "ACTIVE"
    <3>1. LayawayOpen(seenLay[t])
      BY <2>3 DEF SyncLayaway
    <3>2. layaway'[s] = [layaway[s] EXCEPT !.deposit = n, !.status = status]
      BY <1>3, <2>3 DEF SyncLayaway, IInv, TypeOK
    <3>3. status \in {"ACTIVE", "PART_PAID"}
      OBVIOUS
    <3> HIDE DEF status
    <3> QED
      BY <1>3, <2>1, <3>1, <3>2, <3>3 DEF SaleEffect, Synced
  <2> QED
    BY <2>2, <2>3
<1> QED
  BY <1>2, <1>3

LEMMA SoldEffect ==
  ASSUME IInv, NEW t \in Txn, op[t] \in Locking, row[arg[t].sale].status = "open",
         NEW r \in SaleRow, NEW credit \in BOOLEAN, CompleteSale(t, r, credit),
         NEW s \in Sale
  PROVE  SaleEffect(t, s)
<1>1. arg[t].sale \in Sale
  BY LockedFacts
<1> DEFINE c == Completed(Hydrated(r), Total[arg[t].sale], credit, till)
<1>2. row' = [row EXCEPT ![arg[t].sale] = c]
  BY DEF CompleteSale, WriteSale
<1>3. c.status = "completed"
  BY DEF Completed, Hydrated, SaleRow
<1> HIDE DEF c
<1>4. CASE s # arg[t].sale
  BY <1>1, <1>2, <1>4 DEF SaleEffect, Kept, CompleteSale, IInv, TypeOK
<1>5. CASE s = arg[t].sale
  BY <1>1, <1>2, <1>3, <1>5 DEF SaleEffect, Sold, CompleteSale, IInv, TypeOK
<1> QED
  BY <1>4, <1>5

(* A payment is written for a sale that waits for its layaway.              *)
LEMMA PaidEffect ==
  ASSUME IInv, NEW t \in Txn, op[t] \in Locking, row[arg[t].sale].status = "open",
         NEW r \in SaleRow, r.status = "open", r.tender = row[arg[t].sale].tender,
         WriteSale(t, r), layaway' = layaway, NEW s \in Sale
  PROVE  SaleEffect(t, s)
BY LockedFacts DEF SaleEffect, Kept, WriteSale, IInv, TypeOK

LEMMA TenderOfCapture ==
  ASSUME NEW r \in SaleRow, NEW m \in Method, NEW a \in Nat
  PROVE  WithCapture(r, m, a).tender = r.tender
<1>1. PICK p : p = WithPayment(r, m, a)
  OBVIOUS
<1>2. p \in SaleRow /\ p.tender = r.tender
  BY <1>1, WithPaymentFields
<1>3. WithCapture(r, m, a) = [p EXCEPT !.captured[m] = @ + a]
  BY <1>1 DEF WithCapture
<1> QED
  BY <1>2, <1>3 DEF SaleRow

LEMMA CommitEffect ==
  ASSUME IInv, NEW t \in Txn, Commit(t), NEW s \in Sale
  PROVE  SaleEffect(t, s)
<1>1. CASE CommitAddTender(t) \/ CommitDeleteTender(t)
  <2> DEFINE q == arg[t].sale
             r1 == WithTender(seen[t], arg[t].method, arg[t].amount)
             r2 == [seen[t] EXCEPT !.tender[arg[t].method] = @ - arg[t].amount]
  <2>1. op[t] \in Locking /\ seen[t].status = "open"
    BY <1>1 DEF CommitAddTender, CommitDeleteTender, Locking
  <2>2. /\ seen[t] \in SaleRow /\ row[q].status = "open" /\ q \in Sale
        /\ Total[q] \in Nat /\ SoundRow(seen[t], Total[q])
        /\ arg[t].method \in Method /\ arg[t].amount \in Nat
    BY <2>1, LockedFacts DEF Arg
  <2>3. CASE CommitAddTender(t)
    <3>1. r1 \in SaleRow /\ r1.status = "open" /\ Amount(r1.tender) \in Nat
      <4>1. r1 \in SaleRow
        BY <2>1, <2>2, WithTenderSound
      <4> QED
        BY <2>1, <2>2, <4>1, MoneyType DEF SaleRow, WithTender
    <3>2. WriteSale(t, r1) /\ SyncLayaway(t, Amount(r1.tender))
      BY <2>3 DEF CommitAddTender
    <3> HIDE DEF r1
    <3> QED
      BY <2>1, <2>2, <3>1, <3>2, SyncEffect
  <2>4. CASE CommitDeleteTender(t)
    <3>1. r2 \in SaleRow /\ r2.status = "open" /\ Amount(r2.tender) \in Nat
      <4>1. r2 \in SaleRow
        BY <2>1, <2>2, <2>4, WithoutTenderSound DEF CommitDeleteTender
      <4> QED
        BY <2>1, <2>2, <4>1, MoneyType DEF SaleRow
    <3>2. WriteSale(t, r2) /\ SyncLayaway(t, Amount(r2.tender))
      BY <2>4 DEF CommitDeleteTender
    <3> HIDE DEF r2
    <3> QED
      BY <2>1, <2>2, <3>1, <3>2, SyncEffect
  <2> QED
    BY <1>1, <2>3, <2>4
<1>2. CASE CommitComplete(t)
  <2>1. op[t] \in Locking
    BY <1>2 DEF CommitComplete, Locking
  <2>2. arg[t].credit \in BOOLEAN /\ seen[t] = row[arg[t].sale] /\ seen[t] \in SaleRow
    BY <2>1, LockedFacts DEF Arg
  <2>3. CASE AlreadyCompleted(t)
    BY <2>3, NothingWritten DEF AlreadyCompleted
  <2>4. CASE seen[t].status = "open" /\ CompleteSale(t, seen[t], arg[t].credit)
    BY <2>1, <2>2, <2>4, SoldEffect
  <2> QED
    BY <1>2, <2>3, <2>4 DEF CommitComplete
<1>3. CASE CommitCreateIntent(t)
  <2> DEFINE r == WithCapture(seen[t], "CASH", arg[t].amount)
  <2>1. op[t] \in Locking /\ seen[t].status = "open"
    BY <1>3 DEF CommitCreateIntent, Locking
  <2>2. /\ seen[t] = row[arg[t].sale] /\ seen[t] \in SaleRow /\ Total[arg[t].sale] \in Nat
        /\ SoundRow(seen[t], Total[arg[t].sale]) /\ arg[t].amount \in Nat
    BY <2>1, LockedFacts DEF Arg
  <2>3. /\ r \in SaleRow /\ r.status = "open"
        /\ r.tender = row[arg[t].sale].tender
    BY <1>3, <2>1, <2>2, WithCaptureSound, TenderOfCapture DEF Method, CommitCreateIntent
  <2>4. \/ UNCHANGED <<row, layaway>>
        \/ CompleteSale(t, r, FALSE)
        \/ WriteSale(t, r) /\ layaway' = layaway
    BY <1>3 DEF CommitCreateIntent
  <2> HIDE DEF r
  <2> QED
    BY <2>1, <2>2, <2>3, <2>4, NothingWritten, SoldEffect, PaidEffect
<1>4. CASE CommitCapture(t)
  <2> DEFINE i == arg[t].intent
             r == WithCapture(seen[t], intent[i].method, intent[i].amount)
  <2>1. op[t] \in Locking /\ i \in Intent /\ intent[i] \in IntentRow
    BY <1>4 DEF CommitCapture, Locking, IInv, TypeOK, ArgsBound
  <2>2. /\ seen[t] = row[arg[t].sale] /\ seen[t] \in SaleRow /\ Total[arg[t].sale] \in Nat
        /\ SoundRow(seen[t], Total[arg[t].sale])
    BY <2>1, LockedFacts
  <2>3. CASE ReplayCapture(t)
    BY <2>1, <2>2, <2>3, NothingWritten, SoldEffect DEF ReplayCapture, AlreadyCompleted
  <2>4. CASE FirstCapture(t)
    <3>1. /\ r \in SaleRow /\ r.status = "open" /\ seen[t].status = "open"
          /\ r.tender = row[arg[t].sale].tender
      BY <2>1, <2>2, <2>4, WithCaptureSound, TenderOfCapture DEF FirstCapture, IntentRow
    <3>2. CompleteSale(t, r, FALSE) \/ (WriteSale(t, r) /\ layaway' = layaway)
      BY <2>4 DEF FirstCapture
    <3> HIDE DEF r
    <3> QED
      BY <2>1, <2>2, <3>1, <3>2, SoldEffect, PaidEffect
  <2> QED
    BY <1>4, <2>3, <2>4 DEF CommitCapture
<1>5. CASE CommitListTenders(t)
  <2>1. arg[t].sale \in Sale /\ layaway' = layaway
    BY <1>5 DEF CommitListTenders, IInv, ArgsBound
  <2>2. row'[s].status = row[s].status
    BY <1>5, <2>1 DEF CommitListTenders, IInv, TypeOK, SaleRow
  <2>3. arg[t].sale # s => row'[s] = row[s]
    BY <1>5, <2>1 DEF CommitListTenders, IInv, TypeOK
  <2>4. op[t] = "listInsert"
    BY <1>5 DEF CommitListTenders
  <2> QED
    BY <2>1, <2>2, <2>3, <2>4 DEF SaleEffect, Kept
<1>6. CASE CommitReopen(t)
  <2>1. arg[t].sale \in Sale
    BY <1>6 DEF CommitReopen, IInv, ArgsBound
  <2> QED
    BY <1>6, <2>1 DEF CommitReopen, SaleEffect, Kept, Dropped, IInv, TypeOK, DeletedRow, OpenRow
<1> QED
  BY <1>1, <1>2, <1>3, <1>4, <1>5, <1>6 DEF Commit

LEMMA BeginWritesNothing ==
  ASSUME NEW t \in Txn,
         Begin(t) \/ CaptureLocksSale(t) \/ ListReadsSources(t)
           \/ EmitCompleted(t) \/ Rollback(t)
  PROVE  UNCHANGED <<row, layaway>>
BY DEF Begin, BeginAddTender, BeginDeleteTender, BeginCreateIntent, BeginComplete,
       BeginListTenders, BeginReopen, BeginCapture, CaptureLocksSale, ListReadsSources,
       EmitCompleted, Rollback

LEMMA SaleStepEffect ==
  ASSUME IInv, NEW t \in Txn, SaleStep(t), NEW s \in Sale
  PROVE  SaleEffect(t, s)
BY BeginWritesNothing, NothingWritten, CommitEffect DEF SaleStep

Entered(t) ==
  /\ op' = [op EXCEPT ![t] = op'[t]]
  /\ arg' = [arg EXCEPT ![t] = arg'[t]]

(* What it does to the requests: to its own, and a lock it takes is one     *)
(* under which it has read the layaway.                                     *)
LEMMA SaleStepRequests ==
  ASSUME IInv, NEW t \in Txn, SaleStep(t)
  PROVE  /\ \A u \in Txn \ {t} : op'[u] = op[u] /\ arg'[u] = arg[u]
         /\ op[t] # "idle" \/ op'[t] # "idle"
         /\ op'[t] \in Locking =>
              /\ UNCHANGED <<row, layaway>>
              /\ seenLay'[t] = layaway[arg'[t].sale]
<1>1. CASE Begin(t)
  <2>1. /\ op[t] = "idle" /\ Entered(t)
        /\ op'[t] \in Locking => seenLay'[t] = layaway[arg'[t].sale]
        /\ op'[t] # "idle"
    <3>1. ASSUME NEW s \in Sale, NEW m \in Method, NEW n \in Amounts,
                 \/ BeginAddTender(t, s, m, n) \/ BeginDeleteTender(t, s, m, n)
                 \/ BeginCreateIntent(t, s, m, n)
          PROVE  /\ op[t] = "idle" /\ Entered(t)
                 /\ op'[t] \in Locking => seenLay'[t] = layaway[arg'[t].sale]
                 /\ op'[t] # "idle"
      <4> DEFINE a == [NoArg EXCEPT !.sale = s, !.method = m, !.amount = n]
      <4>1. PICK name \in {"addTender", "deleteTender", "createIntent"} : Enter(t, name, a)
        BY <3>1 DEF BeginAddTender, BeginDeleteTender, BeginCreateIntent
      <4>2. ReadSale(t, s) /\ a.sale = s
        BY <3>1 DEF BeginAddTender, BeginDeleteTender, BeginCreateIntent, NoArg
      <4> HIDE DEF a
      <4> QED
        BY <4>1, <4>2 DEF Entered, Enter, ReadSale, IInv, TypeOK
    <3>2. ASSUME NEW s \in Sale, NEW credit \in BOOLEAN, BeginComplete(t, s, credit)
          PROVE  /\ op[t] = "idle" /\ Entered(t)
                 /\ op'[t] \in Locking => seenLay'[t] = layaway[arg'[t].sale]
                 /\ op'[t] # "idle"
      BY <3>2 DEF BeginComplete, Entered, Enter, ReadSale, NoArg, IInv, TypeOK
    <3>3. ASSUME NEW s \in Sale, BeginListTenders(t, s) \/ BeginReopen(t, s)
          PROVE  /\ op[t] = "idle" /\ Entered(t)
                 /\ op'[t] \in Locking => seenLay'[t] = layaway[arg'[t].sale]
                 /\ op'[t] # "idle"
      BY <3>3 DEF BeginListTenders, Entered, BeginReopen, Enter, IInv, TypeOK, Locking
    <3>4. ASSUME NEW i \in Intent, BeginCapture(t, i)
          PROVE  /\ op[t] = "idle" /\ Entered(t)
                 /\ op'[t] \in Locking => seenLay'[t] = layaway[arg'[t].sale]
                 /\ op'[t] # "idle"
      BY <3>4 DEF BeginCapture, Entered, Enter, IInv, TypeOK, Locking
    <3> QED
      BY <1>1, <3>1, <3>2, <3>3, <3>4 DEF Begin
  <2> QED
    BY <1>1, <2>1, BeginWritesNothing DEF Entered, IInv, TypeOK
<1>2. CASE CaptureLocksSale(t)
  BY <1>2, BeginWritesNothing DEF CaptureLocksSale, ReadSale, IInv, TypeOK
<1>3. CASE ListReadsSources(t)
  BY <1>3 DEF ListReadsSources, Locking, IInv, TypeOK
<1>4. CASE Commit(t) \/ EmitCompleted(t) \/ Rollback(t)
  <2>1. op[t] # "idle" /\ (Leave(t) \/ LeaveToEmit(t))
    BY <1>4 DEF Commit, CommitAddTender, CommitDeleteTender, CommitComplete,
       CommitCreateIntent, CommitCapture, ReplayCapture, FirstCapture, AlreadyCompleted,
       CompleteSale, CommitListTenders, CommitReopen, EmitCompleted, Rollback
  <2> QED
    BY <2>1, EndFacts
<1> QED
  BY <1>1, <1>2, <1>3, <1>4 DEF SaleStep
-----------------------------------------------------------------------------
(* The sale and layaway rows after a sale request.                          *)

LEMMA RowsAfterSaleStep ==
  ASSUME LayInv, IInv', NEW t \in Txn, SaleStep(t)
  PROVE  RowsInv' /\ (~raced /\ releases' = releases => RowsSerial')
<1>1. ASSUME NEW s \in Sale
      PROVE  SoundPair(s)' /\ (~raced /\ releases' = releases => SerialPair(s)')
  <2>1. layaway[s] \in LayawayRow /\ layaway'[s] \in LayawayRow /\ SoundPair(s)
    BY DEF LayInv, IInv, TypeOK, RowsInv
  <2>2. ~raced => SerialPair(s)
    BY DEF LayInv, RowsSerial
  <2>3. op[t] \in Locking /\ s = arg[t].sale =>
          /\ seenLay[t].status = "NONE" <=> layaway[s].status = "NONE"
          /\ ~raced => seenLay[t] = layaway[s]
    BY LockedFacts DEF LayInv, ReadsSerial
  <2>4. SaleEffect(t, s)
    BY SaleStepEffect DEF LayInv
  <2>5. CASE Kept(t, s)
    BY <2>1, <2>2, <2>5 DEF Kept, SoundPair, SerialPair
  <2>6. CASE Synced(t, s)
    <3>1. PICK n \in Nat, status \in {"ACTIVE", "PART_PAID"} :
            layaway'[s] = [layaway[s] EXCEPT !.deposit = n, !.status = status]
      BY <2>6 DEF Synced
    <3>2. /\ layaway'[s].status = status
          /\ layaway'[s].completed = layaway[s].completed
          /\ layaway'[s].released = layaway[s].released
      BY <2>1, <3>1 DEF LayawayRow
    <3>3. layaway[s].status # "NONE"
      BY <2>3, <2>6 DEF Synced, LayawayOpen
    <3> QED
      BY <2>1, <2>2, <2>3, <2>6, <3>2, <3>3
         DEF Synced, LayawayOpen, SoundPair, SerialPair
  <2>7. CASE Sold(t, s)
    <3>1. CASE seenLay[t].status \notin {"NONE", "COMPLETED"}
      <4>1. /\ layaway'[s].status = "COMPLETED" /\ layaway'[s].completed
            /\ layaway'[s].released = layaway[s].released
        BY <2>1, <2>7, <3>1 DEF Sold, LayawayRow
      <4> QED
        BY <2>1, <2>2, <2>3, <2>7, <4>1 DEF Sold, LayawayReleased, SoundPair, SerialPair
    <3>2. CASE seenLay[t].status \in {"NONE", "COMPLETED"}
      <4>1. layaway'[s] = layaway[s]
        BY <2>7, <3>2 DEF Sold
      <4> QED
        BY <2>1, <2>2, <2>3, <2>7, <3>2, <4>1
           DEF Sold, LayawayReleased, NoLayaway, SoundPair, SerialPair
    <3> QED
      BY <3>1, <3>2
  <2>8. CASE Dropped(s)
    BY <2>2, <2>8 DEF Dropped, NoLayaway, SoundPair, SerialPair
  <2> QED
    BY <2>4, <2>5, <2>6, <2>7, <2>8 DEF SaleEffect
<1> QED
  BY <1>1 DEF RowsInv, RowsSerial

(* Once taken to the till, a sale is not taken back to be paid.             *)
LEMMA SoldStaysSold ==
  ASSUME IInv, NEW t \in Txn, SaleStep(t), NEW s \in Sale, row[s].status # "open"
  PROVE  row'[s].status # "open"
BY SaleStepEffect DEF SaleEffect, Kept, Synced, Sold, Dropped

-----------------------------------------------------------------------------
(* Requests that never overlapped: a step finds all others at rest.         *)

LEMMA OthersAtRest ==
  ASSUME LayInv, NEW t \in Txn, raced' = (raced \/ Overlap'), ~raced',
         ~Free(t) \/ ~Free(t)',
         \A u \in Txn \ {t} : op'[u] = op[u] /\ desk'[u].at = desk[u].at
  PROVE  /\ ~raced /\ ~Overlap'
         /\ \A u \in Txn \ {t} : Free(u) /\ Free(u)'
BY DEF LayInv, DeskTypeOK, Overlap, Free

(* So the invariants of what requests have read are about this one.         *)
LEMMA SerialStep ==
  ASSUME LayInv, NEW t \in Txn, raced' = (raced \/ Overlap'),
         ~Free(t) \/ ~Free(t)',
         \A u \in Txn \ {t} : op'[u] = op[u] /\ desk'[u].at = desk[u].at,
         ~raced => RowsSerial',
         ~raced /\ op'[t] \in Locking => seenLay'[t] = layaway'[arg'[t].sale],
         ~raced => DeskSerial(t)'
  PROVE  ~raced' => ~Overlap' /\ RowsSerial' /\ ReadsSerial' /\ DesksSerial'
<1> SUFFICES ASSUME ~raced'
             PROVE  ~Overlap' /\ RowsSerial' /\ ReadsSerial' /\ DesksSerial'
  OBVIOUS
<1>1. ~raced /\ ~Overlap' /\ \A u \in Txn \ {t} : Free(u)'
  BY OthersAtRest
<1>2. ReadsSerial'
  BY <1>1 DEF ReadsSerial, Free, Locking
<1>3. DesksSerial'
  BY <1>1 DEF DesksSerial, DeskSerial, Free
<1> QED
  BY <1>1, <1>2, <1>3

-----------------------------------------------------------------------------
(* Steps of a request that works on its sale.                               *)

LEMMA SaleStepInv ==
  ASSUME LayInv, NEW t \in Txn, SaleStep(t), raced' = (raced \/ Overlap'),
         NEW d \in Desk, Sit(t, d), releases' = releases,
         d.at \notin {"idle", "expire"} => d.sale \in Sale,
         d.at \in {"create", "expire", "cancel", "complete"} => FALSE,
         d.at = "completeSale" => op'[t] = "complete" /\ arg'[t].sale = d.sale,
         d.at = "update" => op'[t] \in {"idle", "emit"} /\ row'[d.sale].status # "open"
  PROVE  LayInv'
<1>1. IInv'
  BY NextInv DEF LayInv, SaleStep, Next
<1>2. /\ \A u \in Txn \ {t} : op'[u] = op[u] /\ arg'[u] = arg[u] /\ desk'[u] = desk[u]
      /\ desk'[t] = d
  BY SaleStepRequests DEF Sit, LayInv, DeskTypeOK
<1>3. DeskTypeOK'
  BY <1>2 DEF Sit, LayInv, DeskTypeOK, Overlap
<1>4. RowsInv' /\ (~raced => RowsSerial')
  BY <1>1, RowsAfterSaleStep
<1>5. DesksInStep'
  <2>1. ASSUME NEW u \in Txn, desk[u].at = "update", row[desk[u].sale].status # "open"
        PROVE  row'[desk[u].sale].status # "open"
    BY <2>1, SoldStaysSold DEF LayInv, DeskTypeOK
  <2> QED
    BY <1>2, <2>1 DEF LayInv, DesksInStep
<1>6. ~Free(t) \/ ~Free(t)'
  BY SaleStepRequests DEF Free, LayInv
<1>7. op'[t] \in Locking => seenLay'[t] = layaway'[arg'[t].sale]
  BY SaleStepRequests DEF LayInv
<1>8. DeskSerial(t)'
  BY <1>2 DEF DeskSerial
<1>9. ~raced' => ~Overlap' /\ RowsSerial' /\ ReadsSerial' /\ DesksSerial'
  BY <1>2, <1>4, <1>6, <1>7, <1>8, SerialStep
<1> QED
  BY <1>1, <1>3, <1>4, <1>5, <1>9 DEF LayInv

LEMMA SaleRequestInv ==
  ASSUME LayInv, NEW t \in Txn, SaleRequest(t), raced' = (raced \/ Overlap')
  PROVE  LayInv'
<1>1. SaleStep(t) /\ releases' = releases /\ desk' = desk
  BY DEF SaleRequest, SaleStep, deskVars
<1>2. desk[t] \in Desk /\ Sit(t, desk[t])
  BY <1>1 DEF LayInv, DeskTypeOK, Sit
<1>3. CASE desk[t].at = "idle"
  BY <1>1, <1>2, <1>3, SaleStepInv
<1>4. CASE EmitCompleted(t) /\ desk[t].at # "idle"
  <2>1. op[t] = "emit" /\ op'[t] = "idle" /\ row' = row
    BY <1>4 DEF EmitCompleted, Leave, LayInv, IInv, TypeOK
  <2>2. desk[t].at = "update"
    BY <1>2, <1>4, <2>1 DEF LayInv, DesksInStep, Desk, DeskStep
  <2> QED
    BY <1>1, <1>2, <2>1, <2>2, SaleStepInv DEF LayInv, DeskTypeOK, DesksInStep
<1> QED
  BY <1>3, <1>4 DEF SaleRequest

(* completeLayaway: the two ends of its transaction on the sale.            *)
LEMMA CompletesSaleInv ==
  ASSUME LayInv, NEW t \in Txn, raced' = (raced \/ Overlap'),
         CompleteLayawayLocksSale(t) \/ CompleteLayawaySale(t)
  PROVE  LayInv'
<1>1. desk[t] \in Desk /\ desk[t].sale \in Sale
  BY DEF LayInv, DeskTypeOK, CompleteLayawayLocksSale, CompleteLayawaySale, At
<1> DEFINE locked == [desk[t] EXCEPT !.at = "completeSale"]
           sold == [desk[t] EXCEPT !.at = "update"]
<1>2. /\ locked \in Desk /\ locked.at = "completeSale" /\ locked.sale = desk[t].sale
      /\ sold \in Desk /\ sold.at = "update" /\ sold.sale = desk[t].sale
  BY <1>1 DEF Desk, DeskStep
<1>3. CASE CompleteLayawayLocksSale(t)
  <2>1. BeginComplete(t, desk[t].sale, FALSE) /\ Sit(t, locked) /\ releases' = releases
    BY <1>3 DEF CompleteLayawayLocksSale
  <2>2. SaleStep(t)
    BY <1>1, <2>1 DEF SaleStep, Begin
  <2>3. op'[t] = "complete" /\ arg'[t].sale = desk[t].sale
    BY <2>1 DEF BeginComplete, Enter, NoArg, LayInv, IInv, TypeOK
  <2> HIDE DEF locked, sold
  <2> QED
    BY <1>1, <1>2, <2>1, <2>2, <2>3, SaleStepInv
<1>4. CASE CompleteLayawaySale(t)
  <2>1. CommitComplete(t) /\ Sit(t, sold) /\ releases' = releases
    BY <1>4 DEF CompleteLayawaySale
  <2>2. SaleStep(t)
    BY <2>1 DEF SaleStep, Commit
  <2>3. /\ op[t] = "complete" /\ arg[t].sale = desk[t].sale
        /\ seen[t] = row[arg[t].sale] /\ seen[t] \in SaleRow
    BY <1>4, LockedFacts DEF CompleteLayawaySale, LayInv, DesksInStep, Locking
  <2>4. row'[desk[t].sale].status # "open"
    <3>1. CASE AlreadyCompleted(t)
      BY <2>3, <3>1 DEF AlreadyCompleted
    <3>2. CASE CompleteSale(t, seen[t], arg[t].credit)
      <4> DEFINE h == Hydrated(seen[t])
                 c == Completed(h, Total[desk[t].sale], arg[t].credit, till)
      <4>1. row' = [row EXCEPT ![desk[t].sale] = c]
        BY <2>3, <3>2 DEF CompleteSale, WriteSale
      <4>2. c.status = "completed"
        BY <2>3 DEF Completed, Hydrated, SaleRow
      <4> HIDE DEF c
      <4> QED
        BY <1>1, <4>1, <4>2 DEF LayInv, IInv, TypeOK
    <3> QED
      BY <2>1, <3>1, <3>2 DEF CommitComplete
  <2>5. op'[t] \in {"idle", "emit"}
    BY <2>1 DEF CommitComplete, AlreadyCompleted, CompleteSale, Leave, LeaveToEmit,
                LayInv, IInv, TypeOK
  <2> HIDE DEF locked, sold
  <2> QED
    BY <1>1, <1>2, <2>1, <2>2, <2>4, <2>5, SaleStepInv
<1> QED
  BY <1>3, <1>4

-----------------------------------------------------------------------------
(* Steps of a request outside its transaction on the sale.                  *)

LEMMA DeskStepInv ==
  ASSUME LayInv, IInv', RowsInv', NEW t \in Txn, raced' = (raced \/ Overlap'),
         op[t] = "idle", UNCHANGED <<op, arg, seenLay>>,
         NEW d \in Desk, Sit(t, d), desk[t].at # "idle" \/ d.at # "idle",
         d.at \in {"idle", "create", "expire", "cancel", "complete"},
         d.at \notin {"idle", "expire"} => d.sale \in Sale,
         releases' \in [Sale -> Nat],
         \A s \in Sale : row'[s].status = row[s].status,
         ~raced => RowsSerial' /\ DeskSerial(t)'
  PROVE  LayInv'
<1>1. (\A u \in Txn \ {t} : desk'[u] = desk[u]) /\ desk'[t] = d
  BY DEF Sit, LayInv, DeskTypeOK
<1>2. DeskTypeOK'
  BY <1>1 DEF Sit, LayInv, DeskTypeOK, Overlap
<1>3. DesksInStep'
  BY <1>1 DEF LayInv, DesksInStep, DeskTypeOK
<1>4. ~Free(t) \/ ~Free(t)'
  BY <1>1 DEF Free
<1>5. op'[t] \notin Locking
  BY DEF Locking
<1>6. ~raced' => ~Overlap' /\ RowsSerial' /\ ReadsSerial' /\ DesksSerial'
  BY <1>1, <1>4, <1>5, SerialStep
<1> QED
  BY <1>2, <1>3, <1>6 DEF LayInv

(* What the layaway handlers write leaves the sale's own invariant alone.   *)
LEMMA LayawayWriteInv ==
  ASSUME IInv, layaway' \in [Sale -> LayawayRow],
         \A s \in Sale : layaway'[s].status = "NONE" <=> layaway[s].status = "NONE",
         UNCHANGED <<row, intent, till, lock, ilock, op, arg, seen, seenLay, emitted>>
  PROVE  IInv'
<1>1. TypeOK' /\ ArgsBound' /\ IntentsHaveSales' /\ LockedReadsAreCurrent' /\ SoundRows'
  BY DEF IInv, TypeOK, ArgsBound, IntentsHaveSales, LockedReadsAreCurrent, SoundRows
<1>2. LayawayKnown' /\ CapturedSaleIsCompleted'
  BY DEF IInv, LayawayKnown, ArgsBound, Locking, CapturedSaleIsCompleted
<1> QED
  BY <1>1, <1>2 DEF IInv

(* The handlers that have read the layaway and wait to write.               *)
LEMMA BeginsInv ==
  ASSUME LayInv, NEW t \in Txn, raced' = (raced \/ Overlap'),
         NEW d \in Desk, Free(t), Sit(t, d), UNCHANGED <<vars, releases>>,
         d.at \in {"create", "expire", "cancel", "complete"},
         d.at # "expire" => d.sale \in Sale,
         ~raced => DeskSerial(t)'
  PROVE  LayInv'
<1>1. IInv'
  BY NextInv DEF LayInv
<1>2. RowsInv' /\ (~raced => RowsSerial')
  BY DEF LayInv, vars, RowsInv, SoundPair, RowsSerial, SerialPair
<1> QED
  BY <1>1, <1>2, DeskStepInv DEF LayInv, DeskTypeOK, Free, vars

LEMMA Begin1Inv ==
  ASSUME LayInv, NEW t \in Txn, raced' = (raced \/ Overlap'), NEW s \in Sale,
         NEW step \in {"cancel", "complete"}, Begin1(t, step, s),
         step = "cancel" => /\ HasLayaway(s) /\ layaway[s].deposit = 0
                            /\ layaway[s].status # "COMPLETED"
  PROVE  LayInv'
<1> DEFINE d == [NoDesk EXCEPT !.at = step, !.sale = s, !.seen = layaway[s]]
<1>1. /\ d \in Desk /\ d.at = step /\ d.sale = s /\ d.seen = layaway[s]
  BY RecordTypes DEF NoDesk, Desk, DeskStep, Method, LayInv, IInv, TypeOK
<1>2. Free(t) /\ Sit(t, d) /\ UNCHANGED <<vars, releases>>
  BY DEF Begin1
<1> HIDE DEF d
<1>3. DeskSerial(t)'
  BY <1>1, <1>2 DEF DeskSerial, HasLayaway, Sit, vars, LayInv, DeskTypeOK
<1> QED
  BY <1>1, <1>2, <1>3, BeginsInv

LEMMA BeginCreateLayawayInv ==
  ASSUME LayInv, NEW t \in Txn, raced' = (raced \/ Overlap'), NEW s \in Sale,
         NEW m \in Method, NEW a \in Nat, BeginCreateLayaway(t, s, m, a)
  PROVE  LayInv'
<1> DEFINE d == [NoDesk EXCEPT !.at = "create", !.sale = s, !.method = m, !.deposit = a]
<1>1. d \in Desk /\ d.at = "create" /\ d.sale = s
  BY RecordTypes DEF NoDesk, Desk, DeskStep
<1>2. Free(t) /\ Sit(t, d) /\ UNCHANGED <<vars, releases>>
  BY DEF BeginCreateLayaway
<1> HIDE DEF d
<1>3. DeskSerial(t)'
  BY <1>1, <1>2 DEF BeginCreateLayaway, DeskSerial, HasLayaway, Sit, vars, LayInv, DeskTypeOK
<1> QED
  BY <1>1, <1>2, <1>3, BeginsInv

LEMMA BeginExpireInv ==
  ASSUME LayInv, NEW t \in Txn, raced' = (raced \/ Overlap'), BeginExpire(t)
  PROVE  LayInv'
<1> DEFINE stale == {s \in Sale : Stale(s)}
           d == [NoDesk EXCEPT !.at = "expire", !.stale = stale]
<1>1. d \in Desk /\ d.at = "expire" /\ d.stale = stale
  BY RecordTypes DEF NoDesk, Desk, DeskStep, Method
<1>2. Free(t) /\ Sit(t, d) /\ UNCHANGED <<vars, releases>>
  BY DEF BeginExpire
<1> HIDE DEF d
<1>3. DeskSerial(t)'
  BY <1>1, <1>2 DEF DeskSerial, Stale, Unpaid, Sit, vars, LayInv, DeskTypeOK
<1> QED
  BY <1>1, <1>2, <1>3, BeginsInv

-----------------------------------------------------------------------------
(* The handlers that write the layaway.                                     *)

LEMMA WritesLayawayInv ==
  ASSUME LayInv, NEW t \in Txn, raced' = (raced \/ Overlap'),
         desk[t].at # "idle", op[t] = "idle", Sit(t, NoDesk),
         UNCHANGED <<row, intent, till, lock, ilock, op, arg, seen, seenLay, emitted>>,
         releases' \in [Sale -> Nat],
         layaway' \in [Sale -> LayawayRow],
         \A s \in Sale : layaway'[s].status = "NONE" <=> layaway[s].status = "NONE",
         \A s \in Sale : SoundPair(s)' /\ (~raced => SerialPair(s)')
  PROVE  LayInv'
<1>1. IInv'
  BY LayawayWriteInv DEF LayInv
<1>2. RowsInv' /\ (~raced => RowsSerial')
  BY DEF RowsInv, RowsSerial
<1>3. DeskSerial(t)'
  BY DEF DeskSerial, Sit, NoDesk, LayInv, DeskTypeOK
<1> QED
  BY <1>1, <1>2, <1>3, DeskTypes, DeskStepInv DEF NoDesk

LEMMA ClosedFields ==
  ASSUME NEW l \in LayawayRow, NEW status \in {"EXPIRED", "CANCELLED"}
  PROVE  /\ Closed(l, status) \in LayawayRow
         /\ Closed(l, status).status = status
         /\ Closed(l, status).completed = l.completed
         /\ Closed(l, status).released = l.released
         /\ Released(l) \in LayawayRow /\ Released(l).released
         /\ Released(l).completed = l.completed
BY DEF Closed, Released, LayawayRow, LayawayStatus

LEMMA CommitExpireInv ==
  ASSUME LayInv, NEW t \in Txn, raced' = (raced \/ Overlap'), CommitExpire(t)
  PROVE  LayInv'
<1> DEFINE stale == desk[t].stale
<1>1. stale \subseteq Sale /\ layaway \in [Sale -> LayawayRow] /\ releases \in [Sale -> Nat]
  BY DEF LayInv, DeskTypeOK, Desk, IInv, TypeOK
<1>2. /\ \A s \in Sale : layaway'[s] = IF s \in stale
                                      THEN Closed(Released(layaway[s]), "EXPIRED")
                                      ELSE layaway[s]
      /\ layaway' \in [Sale -> LayawayRow]
  BY <1>1, ClosedFields DEF CommitExpire
<1>3. /\ \A s \in Sale : releases'[s] = releases[s] + (IF s \in stale THEN 1 ELSE 0)
      /\ releases' \in [Sale -> Nat]
  BY <1>1 DEF CommitExpire
<1>4. \A s \in stale : layaway[s].status # "NONE"
  BY DEF CommitExpire, HasLayaway
<1>5. ~raced => \A s \in stale : layaway[s].status = "ACTIVE" /\ ~layaway[s].released
  BY DEF LayInv, DesksSerial, DeskSerial, CommitExpire, At, Unpaid
<1>6. row' = row
  BY DEF CommitExpire
<1>7. ASSUME NEW s \in Sale
      PROVE  /\ layaway'[s].status = "NONE" <=> layaway[s].status = "NONE"
             /\ SoundPair(s)' /\ (~raced => SerialPair(s)')
  <2>1. SoundPair(s) /\ (~raced => SerialPair(s))
    BY DEF LayInv, RowsInv, RowsSerial
  <2>2. CASE s \notin stale
    BY <1>1, <1>2, <1>3, <1>6, <2>1, <2>2 DEF SoundPair, SerialPair
  <2>3. CASE s \in stale
    <3>1. /\ layaway'[s].status = "EXPIRED" /\ layaway'[s].released
          /\ layaway'[s].completed = layaway[s].completed
      BY <1>1, <1>2, <2>3, ClosedFields
    <3> QED
      BY <1>1, <1>3, <1>4, <1>5, <1>6, <2>1, <2>3, <3>1 DEF SoundPair, SerialPair
  <2> QED
    BY <2>2, <2>3
<1> QED
  BY <1>2, <1>3, <1>7, WritesLayawayInv DEF CommitExpire, At

LEMMA CommitCancelInv ==
  ASSUME LayInv, NEW t \in Txn, raced' = (raced \/ Overlap'), CommitCancel(t)
  PROVE  LayInv'
<1> DEFINE q == desk[t].sale
           release == ~desk[t].seen.released
           l == Closed(IF release THEN Released(layaway[q]) ELSE layaway[q], "CANCELLED")
<1>1. /\ q \in Sale /\ layaway \in [Sale -> LayawayRow] /\ releases \in [Sale -> Nat]
      /\ layaway[q].status # "NONE"
  BY DEF LayInv, DeskTypeOK, IInv, TypeOK, CommitCancel, At, HasLayaway
<1>2. /\ l \in LayawayRow /\ l.status = "CANCELLED" /\ l.completed = layaway[q].completed
      /\ l.released = (release \/ layaway[q].released)
  BY <1>1, ClosedFields DEF LayawayRow
<1>3. /\ layaway' = [layaway EXCEPT ![q] = l]
      /\ releases' = [releases EXCEPT ![q] = @ + (IF release THEN 1 ELSE 0)]
      /\ row' = row
  BY DEF CommitCancel
<1>4. ~raced => /\ desk[t].seen.released = layaway[q].released
                /\ layaway[q].status # "COMPLETED"
  BY DEF LayInv, DesksSerial, DeskSerial, CommitCancel, At
<1> HIDE DEF l
<1>5. ASSUME NEW s \in Sale
      PROVE  /\ layaway'[s].status = "NONE" <=> layaway[s].status = "NONE"
             /\ SoundPair(s)' /\ (~raced => SerialPair(s)')
  <2>1. SoundPair(s) /\ (~raced => SerialPair(s))
    BY DEF LayInv, RowsInv, RowsSerial
  <2>2. CASE s # q
    BY <1>1, <1>3, <2>1, <2>2 DEF SoundPair, SerialPair
  <2>3. CASE s = q
    <3>1. layaway'[s] = l /\ releases'[s] = releases[s] + (IF release THEN 1 ELSE 0)
      BY <1>1, <1>3, <2>3
    <3>2. SoundPair(s)'
      BY <1>1, <1>2, <1>3, <2>1, <2>3, <3>1 DEF SoundPair
    <3>3. ASSUME ~raced, release PROVE SerialPair(s)'
      <4>1. ~layaway[s].released /\ releases[s] = 0
        BY <1>1, <1>4, <2>1, <2>3, <3>3 DEF SoundPair, SerialPair
      <4>2. /\ layaway'[s].released /\ layaway'[s].status = "CANCELLED"
            /\ layaway'[s].completed = layaway[s].completed
            /\ row'[s].status = row[s].status
        BY <1>2, <1>3, <2>3, <3>1, <3>3
      <4>3. releases'[s] = 1 /\ layaway[s].status \notin {"NONE", "COMPLETED"}
        BY <1>1, <1>4, <2>3, <3>1, <3>3, <4>1
      <4> QED
        BY <2>1, <3>3, <4>2, <4>3 DEF SerialPair
    <3>4. ASSUME ~raced, ~release PROVE SerialPair(s)'
      <4>1. layaway[s].released /\ releases'[s] = releases[s]
        BY <1>1, <1>4, <2>1, <2>3, <3>1, <3>4
      <4>2. /\ layaway'[s].released /\ layaway'[s].status = "CANCELLED"
            /\ layaway'[s].completed = layaway[s].completed
            /\ row'[s].status = row[s].status
        BY <1>2, <1>3, <2>3, <3>1, <4>1
      <4>3. layaway[s].status \notin {"NONE", "COMPLETED"}
        BY <1>1, <1>4, <2>3, <3>4
      <4> QED
        BY <2>1, <3>4, <4>1, <4>2, <4>3 DEF SerialPair
    <3> QED
      BY <1>1, <1>2, <3>1, <3>2, <3>3, <3>4, <2>3
  <2> QED
    BY <2>2, <2>3
<1>6. layaway' \in [Sale -> LayawayRow] /\ releases' \in [Sale -> Nat]
  BY <1>1, <1>2, <1>3
<1> QED
  BY <1>5, <1>6, WritesLayawayInv DEF CommitCancel, At

(* The last transaction of completeLayaway looks at nothing, and has its    *)
(* sale completed: it is no longer open, and was not deleted since it has   *)
(* a layaway.                                                               *)
LEMMA UpdateCompletedLayawayInv ==
  ASSUME LayInv, NEW t \in Txn, raced' = (raced \/ Overlap'), UpdateCompletedLayaway(t)
  PROVE  LayInv'
<1> DEFINE q == desk[t].sale
           l == [layaway[q] EXCEPT !.status = "COMPLETED", !.completed = TRUE,
                                   !.deposit = Amount(Payments(row[q]))]
<1>1. /\ q \in Sale /\ layaway \in [Sale -> LayawayRow] /\ row[q] \in SaleRow
      /\ layaway[q].status # "NONE" /\ row[q].status # "open"
  BY DEF LayInv, DeskTypeOK, DesksInStep, IInv, TypeOK, UpdateCompletedLayaway, At,
         HasLayaway
<1>2. row[q].status = "completed"
  BY <1>1 DEF LayInv, RowsInv, SoundPair, SaleRow, SaleStatus
<1>3. Amount(Payments(row[q])) \in Nat
  BY <1>1, RowType, MoneyType
<1>4. /\ l \in LayawayRow /\ l.status = "COMPLETED" /\ l.completed
      /\ l.released = layaway[q].released
  BY <1>1, <1>3 DEF LayawayRow, LayawayStatus
<1>5. layaway' = [layaway EXCEPT ![q] = l] /\ releases' = releases /\ row' = row
  BY <1>1 DEF UpdateCompletedLayaway
<1> HIDE DEF l
<1>6. ASSUME NEW s \in Sale
      PROVE  /\ layaway'[s].status = "NONE" <=> layaway[s].status = "NONE"
             /\ SoundPair(s)' /\ (~raced => SerialPair(s)')
  BY <1>1, <1>2, <1>4, <1>5 DEF LayInv, RowsInv, RowsSerial, SoundPair, SerialPair
<1>7. layaway' \in [Sale -> LayawayRow] /\ releases' \in [Sale -> Nat]
  BY <1>1, <1>4, <1>5 DEF LayInv, DeskTypeOK
<1> QED
  BY <1>6, <1>7, WritesLayawayInv DEF UpdateCompletedLayaway, At

-----------------------------------------------------------------------------
(* createLayawayFromBasket: the deposit is a payment and a tender beside    *)
(* those of any sale, completed or not.                                     *)

LEMMA DepositSound ==
  ASSUME NEW r \in SaleRow, NEW total \in Nat, NEW m \in Method, NEW a \in Nat,
         SoundRow(r, total)
  PROVE  LET d == WithTender(WithPayment(r, m, a), m, a)
         IN  d \in SaleRow /\ SoundRow(d, total) /\ d.status = r.status
<1>1. PICK p : p = WithPayment(r, m, a)
  OBVIOUS
<1> DEFINE d == WithTender(p, m, a)
<1>2. /\ p \in SaleRow
      /\ p.status = r.status /\ p.change = r.change /\ p.credited = r.credited
      /\ p.tender = r.tender /\ p.captured = r.captured
      /\ p.paid = [r.paid EXCEPT ![m] = @ + a]
      /\ p.drawer = r.drawer + (IF m = "CASH" THEN a ELSE 0)
      /\ p.tillShut = r.tillShut /\ p.cash = r.cash /\ p.cashPaid = r.cashPaid
  BY <1>1, WithPaymentFields
<1>3. /\ d \in SaleRow
      /\ d.status = r.status /\ d.change = r.change /\ d.credited = r.credited
      /\ d.tender = [r.tender EXCEPT ![m] = @ + a] /\ d.captured = r.captured
      /\ d.paid = [r.paid EXCEPT ![m] = @ + a]
      /\ d.drawer = r.drawer + (IF m = "CASH" THEN a ELSE 0)
      /\ d.tillShut = r.tillShut /\ d.cash = r.cash /\ d.cashPaid = r.cashPaid
  BY <1>2 DEF WithTender, SaleRow, Money
<1> HIDE DEF d
<1>4. Unsettled(d) /\ CapturedIsPaid(d) /\ CapturedFits(d, total)
  BY <1>3 DEF SoundRow, Unsettled, CapturedIsPaid, CapturedFits, SaleRow, Money
<1>5. Covered(d, total)
  BY <1>3 DEF SoundRow, Covered, SaleRow, Money, Amount, Method
<1>6. DrawerIsNet(d)
  BY <1>3 DEF SoundRow, DrawerIsNet, SaleRow, Money, Method
<1> QED
  BY <1>1, <1>3, <1>4, <1>5, <1>6 DEF SoundRow, d

LEMMA CommitCreateLayawayInv ==
  ASSUME LayInv, NEW t \in Txn, raced' = (raced \/ Overlap'), CommitCreateLayaway(t)
  PROVE  LayInv'
<1> DEFINE q == desk[t].sale
           m == desk[t].method
           a == desk[t].deposit
           r == WithTender(WithPayment(row[q], m, a), m, a)
           l == [NoLayaway EXCEPT !.status = IF a > 0 THEN "PART_PAID" ELSE "ACTIVE",
                                  !.deposit = a]
<1>1. /\ q \in Sale /\ m \in Method /\ a \in Nat /\ Total[q] \in Nat
      /\ row[q] \in SaleRow /\ SoundRow(row[q], Total[q])
  BY TotalAssumption DEF LayInv, DeskTypeOK, Desk, IInv, TypeOK, SoundRows,
                         CommitCreateLayaway, At
<1>2. r \in SaleRow /\ SoundRow(r, Total[q]) /\ r.status = row[q].status
  BY <1>1, DepositSound
<1>3. /\ l \in LayawayRow /\ l.status \in {"ACTIVE", "PART_PAID"}
      /\ ~l.completed /\ ~l.released
  BY <1>1 DEF NoLayaway, LayawayRow, LayawayStatus
<1>4. /\ desk[t].at = "create" /\ op[t] = "idle" /\ Sit(t, NoDesk)
      /\ lock[q] = None /\ row[q].status # "deleted" /\ layaway[q].status = "NONE"
      /\ row' = [row EXCEPT ![q] = r]
      /\ layaway' = [layaway EXCEPT ![q] = l]
      /\ UNCHANGED <<intent, till, lock, ilock, op, arg, seen, seenLay, emitted, releases>>
  BY DEF CommitCreateLayaway, At, HasLayaway
<1> HIDE DEF r, l
<1>5. IInv'
  <2>1. TypeOK' /\ ArgsBound' /\ IntentsHaveSales'
    BY <1>2, <1>3, <1>4 DEF LayInv, IInv, TypeOK, ArgsBound, IntentsHaveSales
  <2>2. SoundRows'
    BY <1>1, <1>2, <1>4 DEF LayInv, IInv, TypeOK, SoundRows
  <2>3. \A u \in Txn : op[u] \in Locking => arg[u].sale # q
    BY <1>4, NoneAssumption DEF LayInv, IInv, LockedReadsAreCurrent
  <2>4. LockedReadsAreCurrent' /\ LayawayKnown'
    BY <1>4, <2>3 DEF LayInv, IInv, TypeOK, LockedReadsAreCurrent, LayawayKnown
  <2>5. CapturedSaleIsCompleted'
    BY <1>1, <1>3, <1>4 DEF LayInv, IInv, TypeOK, CapturedSaleIsCompleted
  <2> QED
    BY <2>1, <2>2, <2>4, <2>5 DEF IInv
<1>6. ASSUME NEW s \in Sale
      PROVE  /\ SoundPair(s)' /\ (~raced => SerialPair(s)')
             /\ row'[s].status = row[s].status
  <2>1. SoundPair(s) /\ (~raced => SerialPair(s))
    BY DEF LayInv, RowsInv, RowsSerial
  <2>2. CASE s # q
    BY <1>1, <1>4, <2>1, <2>2 DEF LayInv, IInv, TypeOK, SoundPair, SerialPair
  <2>3. CASE s = q
    <3>1. row'[s] = r /\ layaway'[s] = l /\ releases'[s] = releases[s]
      BY <1>1, <1>4, <2>3 DEF LayInv, IInv, TypeOK
    <3>2. ~raced => row[s].status = "open"
      BY <1>4, <2>3 DEF LayInv, DesksSerial, DeskSerial
    <3> QED
      BY <1>2, <1>3, <1>4, <2>1, <2>3, <3>1, <3>2 DEF SoundPair, SerialPair, NoLayaway
  <2> QED
    BY <2>2, <2>3
<1>7. RowsInv' /\ (~raced => RowsSerial')
  BY <1>6 DEF RowsInv, RowsSerial
<1>8. DeskSerial(t)'
  BY <1>4 DEF DeskSerial, Sit, NoDesk, LayInv, DeskTypeOK
<1>9. releases' \in [Sale -> Nat]
  BY <1>4 DEF LayInv, DeskTypeOK
<1> QED
  BY <1>4, <1>5, <1>6, <1>7, <1>8, <1>9, DeskTypes, DeskStepInv DEF NoDesk

LEMMA AbortInv ==
  ASSUME LayInv, NEW t \in Txn, raced' = (raced \/ Overlap'), Abort(t)
  PROVE  LayInv'
<1>1. desk[t].at # "idle" /\ Sit(t, NoDesk) /\ releases' = releases
  BY DEF Abort
<1>2. CASE op[t] = "idle"
  <2>1. UNCHANGED vars
    BY <1>2 DEF Abort
  <2>2. IInv'
    BY <2>1, NextInv DEF LayInv
  <2>3. RowsInv' /\ (~raced => RowsSerial')
    BY <1>1, <2>1 DEF LayInv, vars, RowsInv, SoundPair, RowsSerial, SerialPair
  <2>4. DeskSerial(t)'
    BY <1>1 DEF DeskSerial, Sit, NoDesk, LayInv, DeskTypeOK
  <2> QED
    BY <1>1, <1>2, <2>1, <2>2, <2>3, <2>4, DeskTypes, DeskStepInv
       DEF NoDesk, vars, LayInv, DeskTypeOK
<1>3. CASE op[t] # "idle"
  BY <1>1, <1>3, DeskTypes, SaleStepInv DEF Abort, SaleStep, NoDesk
<1> QED
  BY <1>2, <1>3

-----------------------------------------------------------------------------
(* Steps that no request of a layaway or a sale makes.                      *)
LEMMA QuietInv ==
  ASSUME LayInv, IInv', UNCHANGED <<row, layaway, op, arg, seenLay, releases, desk>>,
         raced' = raced \/ raced' = (raced \/ Overlap')
  PROVE  LayInv'
<1>1. Overlap' = Overlap
  BY DEF Overlap, Free
<1>2. raced' \in BOOLEAN /\ (raced' <=> raced)
  BY <1>1 DEF LayInv, DeskTypeOK
<1>3. DeskTypeOK' /\ DesksInStep' /\ RowsInv'
  BY <1>2 DEF LayInv, DeskTypeOK, DesksInStep, RowsInv, SoundPair
<1>4. ~raced' => RowsSerial' /\ ReadsSerial'
  BY <1>2 DEF LayInv, RowsSerial, SerialPair, ReadsSerial
<1>5. ~raced' => DesksSerial'
  BY <1>2 DEF LayInv, DesksSerial, DeskSerial, HasLayaway, Unpaid
<1> QED
  BY <1>1, <1>2, <1>3, <1>4, <1>5 DEF LayInv

LEMMA LayawayRequestInv ==
  ASSUME LayInv, NEW t \in Txn, raced' = (raced \/ Overlap'), LayawayRequest(t)
  PROVE  LayInv'
<1>1. ASSUME NEW s \in Sale, BeginCancel(t, s) \/ BeginCompleteLayaway(t, s)
      PROVE  LayInv'
  <2>1. CASE BeginCancel(t, s)
    <3>1. /\ Begin1(t, "cancel", s) /\ HasLayaway(s) /\ layaway[s].deposit = 0
          /\ layaway[s].status # "COMPLETED"
      BY <2>1 DEF BeginCancel
    <3> QED
      BY <3>1, Begin1Inv
  <2>2. CASE BeginCompleteLayaway(t, s)
    <3>1. Begin1(t, "complete", s)
      BY <2>2 DEF BeginCompleteLayaway
    <3> QED
      BY <3>1, Begin1Inv
  <2> QED
    BY <1>1, <2>1, <2>2
<1>2. ASSUME NEW s \in Sale, NEW m \in Method, NEW a \in Amounts \cup {0},
             BeginCreateLayaway(t, s, m, a)
      PROVE  LayInv'
  BY <1>2, AmountsAssumption, BeginCreateLayawayInv
<1> QED
  BY <1>1, <1>2, BeginExpireInv, CommitCreateLayawayInv, CommitExpireInv, CommitCancelInv,
     CompletesSaleInv, UpdateCompletedLayawayInv, AbortInv DEF LayawayRequest

LEMMA LayNextInv ==
  ASSUME LayInv, [LayawaysNext]_allVars
  PROVE  LayInv'
<1>1. ASSUME NEW s \in Sale, PassExpiry(s), raced' = (raced \/ Overlap')
      PROVE  LayInv'
  <2>1. UNCHANGED <<vars, releases, desk>>
    BY <1>1 DEF PassExpiry
  <2>2. IInv'
    BY <2>1, NextInv DEF LayInv
  <2> QED
    BY <1>1, <2>1, <2>2, QuietInv DEF vars
<1>2. CASE /\ ToggleTill \/ \E i \in Intent : CancelIntent(i)
           /\ UNCHANGED deskVars /\ raced' = (raced \/ Overlap')
  <2>1. IInv'
    BY <1>2, NextInv DEF LayInv, Next
  <2>2. UNCHANGED <<row, layaway, op, arg, seenLay, releases, desk>>
    BY <1>2 DEF ToggleTill, CancelIntent, deskVars
  <2> QED
    BY <1>2, <2>1, <2>2, QuietInv
<1>3. CASE UNCHANGED allVars
  <2>1. IInv'
    BY <1>3, NextInv DEF LayInv, allVars
  <2> QED
    BY <1>3, <2>1, QuietInv DEF allVars, vars, deskVars
<1> QED
  BY <1>1, <1>2, <1>3, SaleRequestInv, LayawayRequestInv DEF LayawaysNext

-----------------------------------------------------------------------------
(* The inductive invariant of the sale and layaway handlers together holds  *)
(* in every reachable state.                                                *)
THEOREM LayawaysInvariance == LayawaysSpec => []LayInv
<1>1. LayawaysInit => LayInv
  BY LayInit
<1>2. LayInv /\ [LayawaysNext]_allVars => LayInv'
  BY LayNextInv
<1> QED
  BY <1>1, <1>2, PTL DEF LayawaysSpec

(* completeLayaway: its last transaction looks at nothing, and yet no       *)
(* overlap and no crash leaves a completed layaway whose sale is not.       *)
THEOREM LayawaysAreSold == LayawaysSpec => []CompletedLayawayIsSold
<1>1. LayInv => CompletedLayawayIsSold
  BY DEF LayInv, RowsInv, SoundPair, CompletedLayawayIsSold
<1> QED
  BY <1>1, LayawaysInvariance, PTL

(* assertLayawaySaleCanComplete: requests served one after another, each of *)
(* which may die between its transactions, sell no stock that was put back. *)
THEOREM SoldIsHeld == LayawaysSpec => []SoldStockIsHeld
<1>1. LayInv => SoldStockIsHeld
  BY DEF LayInv, RowsSerial, SerialPair, SoldStockIsHeld
<1> QED
  BY <1>1, LayawaysInvariance, PTL

(* releaseLayawayStockTx: nor do they put the stock of a layaway back twice.*)
THEOREM ReleasedOnce == LayawaysSpec => []StockReleasedOnce
<1>1. LayInv => StockReleasedOnce
  BY DEF LayInv, RowsSerial, SerialPair, StockReleasedOnce
<1> QED
  BY <1>1, LayawaysInvariance, PTL

(* completeSaleIfEligibleTx beside createLayawayFromBasket, which adds a    *)
(* payment and a tender without taking the lock of the sale: a completed    *)
(* sale is still covered.                                                   *)
THEOREM LayawaySalesCovered == LayawaysSpec => []CompletedSaleIsCovered
<1>1. LayInv => CompletedSaleIsCovered
  BY DEF LayInv, IInv, SoundRows, SoundRow, Covered, CompletedSaleIsCovered
<1> QED
  BY <1>1, LayawaysInvariance, PTL

-----------------------------------------------------------------------------
(* Tenders hold the stock.                                                  *)

(* A layaway that holds its stock has its tenders as its deposit.           *)
InSync(s) ==
  /\ s \notin unsynced
  /\ layaway[s].status \notin {"NONE", "COMPLETED"} /\ ~layaway[s].released
  => LayawayOpen(layaway[s]) /\ layaway[s].deposit = Amount(row[s].tender)

DepositInv == ~raced => \A s \in Sale : InSync(s)

History ==
  /\ raced' = (raced \/ Overlap')
  /\ unsynced' = IF raced' THEN {}
                 ELSE unsynced \cup {s \in Sale : BypassesDeposit(s)}

LEMMA NothingSynced ==
  ASSUME NEW s \in Sale, InSync(s), History, ~raced',
         row'[s].tender = row[s].tender, layaway'[s] = layaway[s]
  PROVE  InSync(s)'
<1>1. s \notin unsynced' => s \notin unsynced
  BY DEF History
<1>2. PICK l, n : l = layaway'[s] /\ n = Amount(row'[s].tender)
  OBVIOUS
<1> QED
  BY <1>1, <1>2 DEF InSync, LayawayOpen

LEMMA SaleStepSyncs ==
  ASSUME LayInv, NEW t \in Txn, SaleStep(t), NEW s \in Sale, InSync(s), History, ~raced'
  PROVE  InSync(s)'
<1>1. layaway[s] \in LayawayRow
  BY DEF LayInv, IInv, TypeOK
<1>2. op[t] \in Locking /\ s = arg[t].sale => seenLay[t] = layaway[s]
  BY DEF LayInv, ReadsSerial, History
<1>3. s \notin unsynced' => s \notin unsynced /\ ~BypassesDeposit(s)
  BY DEF History
<1>4. CASE Kept(t, s)
  <2>1. CASE row'[s].tender = row[s].tender
    BY <1>4, <2>1, NothingSynced DEF Kept
  <2>2. CASE op[t] = "listInsert" /\ arg[t].sale = s /\ row'[s].tender # row[s].tender
    BY <1>3, <2>2 DEF BypassesDeposit, InSync
  <2>3. CASE /\ op[t] \in Locking /\ s = arg[t].sale
             /\ LayawayOpen(seenLay[t]) => seenLay[t].deposit = Amount(row'[s].tender)
    <3>1. LayawayOpen(layaway[s]) => layaway[s].deposit = Amount(row'[s].tender)
      BY <1>2, <2>3
    <3>2. layaway'[s] = layaway[s]
      BY <1>4 DEF Kept
    <3>3. /\ s \notin unsynced' /\ layaway'[s].status \notin {"NONE", "COMPLETED"}
          /\ ~layaway'[s].released
          => LayawayOpen(layaway[s])
      BY <1>3, <3>2 DEF InSync
    <3> QED
      BY <3>1, <3>2, <3>3 DEF InSync, LayawayOpen
  <2> QED
    BY <1>4, <2>1, <2>2, <2>3 DEF Kept
<1>5. CASE Synced(t, s)
  <2>1. PICK n \in Nat, status \in {"ACTIVE", "PART_PAID"} :
          /\ layaway'[s] = [layaway[s] EXCEPT !.deposit = n, !.status = status]
          /\ n = Amount(row'[s].tender)
    BY <1>5 DEF Synced
  <2>2. LayawayOpen(layaway[s])
    BY <1>2, <1>5 DEF Synced
  <2>3. /\ layaway'[s].deposit = n /\ layaway'[s].status = status
        /\ layaway'[s].completed = layaway[s].completed
        /\ layaway'[s].cancelled = layaway[s].cancelled
        /\ layaway'[s].released = layaway[s].released
    BY <1>1, <2>1 DEF LayawayRow
  <2> QED
    BY <2>1, <2>2, <2>3 DEF InSync, LayawayOpen
<1>6. CASE Sold(t, s)
  <2>1. CASE seenLay[t].status \notin {"NONE", "COMPLETED"}
    <3>1. layaway'[s].status = "COMPLETED"
      BY <1>1, <1>6, <2>1 DEF Sold, LayawayRow
    <3> QED
      BY <3>1 DEF InSync
  <2>2. CASE seenLay[t].status \in {"NONE", "COMPLETED"}
    BY <1>2, <1>6, <2>2 DEF Sold, InSync
  <2> QED
    BY <2>1, <2>2
<1>7. CASE Dropped(s)
  BY <1>7 DEF Dropped, NoLayaway, InSync
<1> QED
  BY <1>4, <1>5, <1>6, <1>7, SaleStepEffect DEF LayInv, SaleEffect

(* createLayawayFromBasket writes one amount as the deposit and the tender. *)
LEMMA DepositTendered ==
  ASSUME LayInv, NEW t \in Txn, CommitCreateLayaway(t), NEW s \in Sale, InSync(s),
         History, ~raced'
  PROVE  InSync(s)'
<1> DEFINE q == desk[t].sale
           m == desk[t].method
           a == desk[t].deposit
<1>1. /\ q \in Sale /\ m \in Method /\ a \in Nat
      /\ row \in [Sale -> SaleRow] /\ layaway \in [Sale -> LayawayRow]
  BY DEF LayInv, DeskTypeOK, Desk, IInv, TypeOK, CommitCreateLayaway, At
<1>2. CASE s # q
  <2>1. row'[s] = row[s] /\ layaway'[s] = layaway[s]
    BY <1>1, <1>2 DEF CommitCreateLayaway
  <2> QED
    BY <2>1, NothingSynced
<1>3. CASE s = q
  <2> DEFINE l == [NoLayaway EXCEPT !.status = IF a > 0 THEN "PART_PAID" ELSE "ACTIVE",
                                    !.deposit = a]
             p == WithPayment(row[s], m, a)
             r == WithTender(p, m, a)
  <2>1. row'[s] = r /\ layaway'[s] = l /\ ~HasLayaway(s)
    BY <1>1, <1>3 DEF CommitCreateLayaway
  <2>2. /\ LayawayOpen(l) /\ l.deposit = a
        /\ l.status \in {"ACTIVE", "PART_PAID"}
    BY <1>1 DEF NoLayaway, LayawayOpen
  <2>3. r.tender = [row[s].tender EXCEPT ![m] = @ + a]
    <3>1. p \in SaleRow /\ p.tender = row[s].tender
      BY <1>1, WithPaymentFields
    <3> HIDE DEF p
    <3> QED
      BY <3>1 DEF WithTender, SaleRow, Money
  <2>4. row[s].tender = NoMoney => Amount(r.tender) = a
    BY <1>1, <2>3 DEF NoMoney, Amount, Method
  <2> HIDE DEF l, r, p
  <2>5. s \notin unsynced' => row[s].tender = NoMoney
    BY <2>1, <2>2 DEF History, BypassesDeposit, HasLayaway
  <2> QED
    BY <2>1, <2>2, <2>4, <2>5 DEF InSync
<1> QED
  BY <1>2, <1>3

LEMMA LayawayRequestSyncs ==
  ASSUME LayInv, NEW t \in Txn, LayawayRequest(t), NEW s \in Sale, InSync(s),
         History, ~raced'
  PROVE  InSync(s)'
<1>1. layaway \in [Sale -> LayawayRow]
  BY DEF LayInv, IInv, TypeOK
<1>2. CASE UNCHANGED <<row, layaway>>
  BY <1>2, NothingSynced
<1>3. CASE CommitExpire(t)
  <2>1. desk[t].stale \subseteq Sale
    BY DEF LayInv, DeskTypeOK, Desk
  <2>2. s \in desk[t].stale => layaway'[s].released
    BY <1>1, <1>3, ClosedFields DEF CommitExpire
  <2>3. s \notin desk[t].stale => row'[s] = row[s] /\ layaway'[s] = layaway[s]
    BY <1>1, <1>3 DEF CommitExpire
  <2> QED
    BY <2>2, <2>3, NothingSynced DEF InSync
<1>4. CASE CommitCancel(t)
  <2> DEFINE q == desk[t].sale
             release == ~desk[t].seen.released
             l == Closed(IF release THEN Released(layaway[q]) ELSE layaway[q], "CANCELLED")
  <2>1. q \in Sale /\ desk[t].seen = layaway[q]
    BY <1>4 DEF LayInv, DeskTypeOK, DesksSerial, DeskSerial, CommitCancel, At, History
  <2>2. layaway' = [layaway EXCEPT ![q] = l] /\ row' = row
    BY <1>4 DEF CommitCancel
  <2>3. l.released
    BY <1>1, <2>1, ClosedFields
  <2> HIDE DEF l
  <2>4. CASE s = q
    BY <1>1, <2>1, <2>2, <2>3, <2>4 DEF InSync
  <2>5. CASE s # q
    BY <1>1, <2>2, <2>5, NothingSynced
  <2> QED
    BY <2>4, <2>5
<1>5. CASE UpdateCompletedLayaway(t)
  <2> DEFINE q == desk[t].sale
             n == Amount(Payments(row[q]))
             l == [layaway[q] EXCEPT !.status = "COMPLETED", !.completed = TRUE, !.deposit = n]
  <2>1. q \in Sale
    BY <1>5 DEF LayInv, DeskTypeOK, UpdateCompletedLayaway, At
  <2>2. layaway' = [layaway EXCEPT ![q] = l] /\ row' = row
    BY <1>5 DEF UpdateCompletedLayaway
  <2>3. l.status = "COMPLETED"
    <3> HIDE DEF n
    <3> QED
      BY <1>1, <2>1 DEF LayawayRow
  <2> HIDE DEF l
  <2>4. CASE s = q
    BY <1>1, <2>1, <2>2, <2>3, <2>4 DEF InSync
  <2>5. CASE s # q
    BY <1>1, <2>2, <2>5, NothingSynced
  <2> QED
    BY <2>4, <2>5
<1>6. CASE CompleteLayawayLocksSale(t) \/ CompleteLayawaySale(t) \/ Abort(t)
  <2>1. SaleStep(t) \/ UNCHANGED vars
    BY <1>6 DEF CompleteLayawayLocksSale, CompleteLayawaySale, Abort, At, SaleStep, Begin,
                Commit, LayInv, DeskTypeOK
  <2> QED
    BY <1>2, <2>1, SaleStepSyncs DEF vars
<1>7. ASSUME NEW q \in Sale, BeginCancel(t, q) \/ BeginCompleteLayaway(t, q)
      PROVE  UNCHANGED <<row, layaway>>
  BY <1>7 DEF BeginCancel, BeginCompleteLayaway, Begin1, vars
<1>8. ASSUME NEW q \in Sale, NEW m, NEW a, BeginCreateLayaway(t, q, m, a)
      PROVE  UNCHANGED <<row, layaway>>
  BY <1>8 DEF BeginCreateLayaway, vars
<1>9. BeginExpire(t) => UNCHANGED <<row, layaway>>
  BY DEF BeginExpire, vars
<1> QED
  BY <1>2, <1>3, <1>4, <1>5, <1>6, <1>7, <1>8, <1>9, DepositTendered DEF LayawayRequest

LEMMA DepositStep ==
  ASSUME LayInv, DepositInv, [LayawaysNext]_allVars
  PROVE  DepositInv'
<1> SUFFICES ASSUME ~raced', NEW s \in Sale PROVE InSync(s)'
  BY DEF DepositInv
<1>1. CASE UNCHANGED allVars
  BY <1>1 DEF allVars, vars, DepositInv, InSync, LayawayOpen
<1>2. CASE LayawaysNext
  <2>1. History /\ InSync(s)
    BY <1>2 DEF LayawaysNext, History, DepositInv
  <2>2. ASSUME NEW t \in Txn, SaleRequest(t) PROVE SaleStep(t)
    BY <2>2 DEF SaleRequest, SaleStep
  <2>3. \/ UNCHANGED <<row, layaway>>
        \/ \E t \in Txn : SaleStep(t) \/ LayawayRequest(t)
    BY <1>2, <2>2 DEF LayawaysNext, PassExpiry, ToggleTill, CancelIntent, vars
  <2> QED
    BY <2>1, <2>3, NothingSynced, SaleStepSyncs, LayawayRequestSyncs
<1> QED
  BY <1>1, <1>2

Holding(s) ==
  /\ ~raced /\ s \notin unsynced
  /\ Amount(row[s].tender) > 0 /\ ~layaway[s].released
  => ~layaway'[s].released

LEMMA SaleStepHolds ==
  ASSUME LayInv, NEW t \in Txn, SaleStep(t), NEW s \in Sale
  PROVE  Holding(s)
<1>1. layaway[s] \in LayawayRow
  BY DEF LayInv, IInv, TypeOK
<1>2. SaleEffect(t, s)
  BY SaleStepEffect DEF LayInv
<1>3. layaway'[s].released = layaway[s].released \/ ~layaway'[s].released
  <2>1. CASE Kept(t, s) \/ Dropped(s)
    BY <2>1 DEF Kept, Dropped, NoLayaway
  <2>2. CASE Synced(t, s)
    <3>1. PICK n \in Nat, status \in {"ACTIVE", "PART_PAID"} :
            layaway'[s] = [layaway[s] EXCEPT !.deposit = n, !.status = status]
      BY <2>2 DEF Synced
    <3>2. layaway'[s].released = layaway[s].released
      BY <1>1, <3>1 DEF LayawayRow
    <3> QED
      BY <3>2
  <2>3. CASE Sold(t, s)
    <3>1. \/ layaway'[s] = [layaway[s] EXCEPT !.status = "COMPLETED", !.completed = TRUE]
          \/ layaway'[s] = layaway[s]
      BY <2>3 DEF Sold
    <3>2. layaway'[s].released = layaway[s].released
      BY <1>1, <3>1 DEF LayawayRow
    <3> QED
      BY <3>2
  <2> QED
    BY <1>2, <2>1, <2>2, <2>3 DEF SaleEffect
<1> QED
  BY <1>3 DEF Holding

LEMMA LayawayRequestHolds ==
  ASSUME LayInv, DepositInv, NEW t \in Txn, LayawayRequest(t), NEW s \in Sale
  PROVE  Holding(s)
<1>1. layaway \in [Sale -> LayawayRow]
  BY DEF LayInv, IInv, TypeOK
<1>2. CASE layaway' = layaway
  BY <1>2 DEF Holding
<1>3. CASE CommitCreateLayaway(t)
  <2>1. layaway'[s] = layaway[s] \/ ~layaway'[s].released
    BY <1>1, <1>3 DEF CommitCreateLayaway, NoLayaway
  <2> QED
    BY <2>1 DEF Holding
<1>4. CASE CommitExpire(t)
  <2>1. s \notin desk[t].stale => layaway'[s] = layaway[s]
    BY <1>4 DEF CommitExpire
  <2>2. ~raced /\ s \in desk[t].stale =>
          layaway[s].deposit = 0 /\ layaway[s].status = "ACTIVE"
    BY <1>4 DEF LayInv, DesksSerial, DeskSerial, CommitExpire, At, Unpaid
  <2> QED
    BY <2>1, <2>2 DEF Holding, DepositInv, InSync
<1>5. CASE CommitCancel(t)
  <2>1. s # desk[t].sale => layaway'[s] = layaway[s]
    BY <1>1, <1>5 DEF CommitCancel
  <2>2. ~raced => /\ layaway[desk[t].sale].deposit = 0
                  /\ layaway[desk[t].sale].status \notin {"NONE", "COMPLETED"}
    BY <1>5 DEF LayInv, DesksSerial, DeskSerial, CommitCancel, At, HasLayaway
  <2> QED
    BY <2>1, <2>2 DEF Holding, DepositInv, InSync
<1>6. CASE UpdateCompletedLayaway(t)
  <2> DEFINE q == desk[t].sale
             n == Amount(Payments(row[q]))
  <2>1. layaway' = [layaway EXCEPT ![q].status = "COMPLETED", ![q].completed = TRUE,
                                   ![q].deposit = n]
    BY <1>6 DEF UpdateCompletedLayaway
  <2> HIDE DEF n
  <2>2. layaway'[s].released = layaway[s].released
    BY <1>1, <2>1 DEF LayawayRow
  <2> QED
    BY <2>2 DEF Holding
<1>7. CASE CompleteLayawayLocksSale(t) \/ CompleteLayawaySale(t) \/ Abort(t)
  <2>1. SaleStep(t) \/ UNCHANGED vars
    BY <1>7 DEF CompleteLayawayLocksSale, CompleteLayawaySale, Abort, At, SaleStep, Begin,
                Commit, LayInv, DeskTypeOK
  <2> QED
    BY <1>2, <2>1, SaleStepHolds DEF vars
<1>8. ASSUME NEW q \in Sale, BeginCancel(t, q) \/ BeginCompleteLayaway(t, q)
      PROVE  layaway' = layaway
  BY <1>8 DEF BeginCancel, BeginCompleteLayaway, Begin1, vars
<1>9. ASSUME NEW q \in Sale, NEW m, NEW a, BeginCreateLayaway(t, q, m, a)
      PROVE  layaway' = layaway
  BY <1>9 DEF BeginCreateLayaway, vars
<1>10. BeginExpire(t) => layaway' = layaway
  BY DEF BeginExpire, vars
<1> QED
  BY <1>2, <1>3, <1>4, <1>5, <1>6, <1>7, <1>8, <1>9, <1>10 DEF LayawayRequest

(* addSaleTender, deleteSaleTender and the deposit of createLayaway beside  *)
(* expireUnpaidLayawaysTx and cancelLayaway: of requests served one after   *)
(* another, none releases the stock of a layaway whose sale has tenders.    *)
THEOREM DepositsHold == LayawaysSpec => DepositHoldsStock
<1>1. LayawaysInit => DepositInv
  BY DEF LayawaysInit, DepositInv, InSync, NoLayaway
<1>2. LayInv /\ DepositInv /\ [LayawaysNext]_allVars => DepositInv'
  BY DepositStep
<1>3. LayInv /\ DepositInv /\ [LayawaysNext]_allVars
        => [\A s \in Sale : Holding(s)]_allVars
  <2> SUFFICES ASSUME LayInv, DepositInv, LayawaysNext, NEW s \in Sale PROVE Holding(s)
    OBVIOUS
  <2>1. ASSUME NEW t \in Txn, SaleRequest(t) PROVE SaleStep(t)
    BY <2>1 DEF SaleRequest, SaleStep
  <2>2. \/ layaway' = layaway
        \/ \E t \in Txn : SaleStep(t) \/ LayawayRequest(t)
    BY <2>1 DEF LayawaysNext, PassExpiry, ToggleTill, CancelIntent, vars
  <2> QED
    BY <2>2, SaleStepHolds, LayawayRequestHolds DEF Holding
<1>4. [\A s \in Sale : Holding(s)]_allVars <=>
        [\A s \in Sale : /\ ~raced /\ s \notin unsynced
                        /\ Amount(row[s].tender) > 0 /\ ~layaway[s].released
           => ~layaway'[s].released]_allVars
  BY DEF Holding
<1> QED
  BY <1>1, <1>2, <1>3, <1>4, LayawaysInvariance, PTL DEF LayawaysSpec, DepositHoldsStock

-----------------------------------------------------------------------------
(* Card terminals: what holds between the steps.                            *)
PaidFits == \A s \in Sale : Amount(row[s].paid) <= Total[s]

(* An intent nobody needs to be paid for any more.                          *)
Settled(i) ==
  \/ intent[i].status = "DELETED"
  \/ row[intent[i].sale].status = "completed"
  \/ row[intent[i].sale].paid[intent[i].method] >= intent[i].amount

TermTypes ==
  /\ session \in [Intent -> SessionRow]
  /\ provider \in [Intent -> Provider]
  /\ term \in [Txn -> Request]

(* A session belongs to an intent the provider knows.                       *)
SessionInv(i) ==
  /\ HasSession(i) => HasIntent(i) /\ provider[i] # "none"
  /\ session[i].status = "CAPTURED" => Settled(i)

(* What a request knows at each link of its chain.                          *)
RequestInv(t) ==
  /\ term[t].at \notin {"idle", "creating"} =>
       Mine(t) \in Intent /\ intent[Mine(t)].status # "NONE"
  /\ term[t].at \in {"asking", "canceling", "signing"} =>
       /\ provider[Mine(t)] # "none"
       /\ term[t].seen.status = "CAPTURED" => Settled(Mine(t))
  /\ term[t].at = "capturing" =>
       op[t] \in {"captureWaits", "capture"} /\ arg[t].intent = Mine(t)
  /\ term[t].at = "finishing" => term[t].next # "CAPTURED"
  /\ term[t].at = "saving" /\ term[t].next = "CAPTURED" => Settled(Mine(t))

TermInv ==
  /\ TermTypes
  /\ \A i \in Intent : SessionInv(i)
  /\ \A t \in Txn : RequestInv(t)

(* A request that runs alone, with a live provider, works on a session that *)
(* is not final.                                                            *)
SerialRequest(t) ==
  /\ term[t].at \notin {"idle", "creating", "opening"} =>
       session[Mine(t)].status \notin Final
  /\ term[t].at = "opening" => session[Mine(t)].status = "NONE"

SerialInv ==
  /\ overlapped \in BOOLEAN
  /\ ~overlapped => ~RequestsOverlap
  /\ ~overlapped /\ ~mock => \A t \in Txn : SerialRequest(t)

ChainInv == IInv /\ CountInv /\ PaidFits /\ TermInv /\ SerialInv

-----------------------------------------------------------------------------
(* What a step of the sale requests does to an intent: its terms stay, or   *)
(* it goes with its sale.                                                   *)
SameTerms(i) ==
  /\ intent'[i].sale = intent[i].sale /\ intent'[i].method = intent[i].method
  /\ intent'[i].amount = intent[i].amount
  /\ intent'[i].status # "NONE"
  /\ intent'[i].status = "DELETED" <=> intent[i].status = "DELETED"

LEMMA DeletedTerms == DeletedIntent.status = "DELETED"
BY DEF DeletedIntent, NoIntent

(* An update of the status alone.                                           *)
LEMMA StatusUpdate ==
  ASSUME IInv, NEW i \in Intent, intent[i].status # "NONE", NEW j \in Intent,
         NEW status \in {"CAPTURED", "CANCELED"}, intent[j].status # "DELETED",
         intent' = [intent EXCEPT ![j].status = status]
  PROVE  SameTerms(i)
<1> DEFINE v == [intent[j] EXCEPT !.status = status]
<1>1. /\ v.status = status /\ v.sale = intent[j].sale
      /\ v.method = intent[j].method /\ v.amount = intent[j].amount
  BY DEF IInv, TypeOK, IntentRow
<1>2. intent' = [intent EXCEPT ![j] = v]
  BY DEF IInv, TypeOK
<1> HIDE DEF v
<1>3. CASE i = j
  BY <1>1, <1>2, <1>3 DEF SameTerms, IInv, TypeOK
<1>4. CASE i # j
  BY <1>2, <1>4 DEF SameTerms, IInv, TypeOK
<1> QED
  BY <1>3, <1>4

LEMMA CommitTerms ==
  ASSUME IInv, NEW i \in Intent, intent[i].status # "NONE",
         \/ \E t \in Txn : CommitCreateIntent(t) \/ CommitCapture(t)
         \/ \E j \in Intent : CancelIntent(j)
  PROVE  SameTerms(i)
<1>1. intent' = intent => SameTerms(i)
  BY DEF SameTerms
<1>2. ASSUME NEW t \in Txn, CommitCreateIntent(t)
      PROVE  SameTerms(i)
  <2>1. PICK j \in Intent : /\ intent[j].status = "NONE"
                            /\ \E v : intent' = [intent EXCEPT ![j] = v]
    BY <1>2 DEF CommitCreateIntent
  <2> QED
    BY <2>1 DEF SameTerms, IInv, TypeOK
<1>3. ASSUME NEW t \in Txn, CommitCapture(t)
      PROVE  SameTerms(i)
  <2>1. CASE ReplayCapture(t)
    <3>1. intent' = intent
      BY <2>1 DEF ReplayCapture
    <3> QED
      BY <1>1, <3>1
  <2>2. CASE FirstCapture(t)
    <3>1. arg[t].intent \in Intent
      BY <1>3 DEF CommitCapture, ArgsBound, IInv
    <3> QED
      BY <2>2, <3>1, StatusUpdate DEF FirstCapture
  <2> QED
    BY <1>3, <2>1, <2>2 DEF CommitCapture
<1>4. ASSUME NEW j \in Intent, CancelIntent(j)
      PROVE  SameTerms(i)
  BY <1>4, StatusUpdate DEF CancelIntent
<1> QED
  BY <1>2, <1>3, <1>4

LEMMA TermsKept ==
  ASSUME IInv, [Next]_vars, NEW i \in Intent, intent[i].status # "NONE"
  PROVE  SameTerms(i) \/ intent'[i] = DeletedIntent
<1>1. intent' = intent => SameTerms(i)
  BY DEF SameTerms
<1>2. ASSUME NEW t \in Txn, CommitReopen(t)
      PROVE  SameTerms(i) \/ intent'[i] = DeletedIntent
  BY <1>2 DEF CommitReopen, SameTerms
<1>3. ASSUME NEW t \in Txn, Begin(t) \/ CaptureLocksSale(t) \/ ListReadsSources(t)
                             \/ EmitCompleted(t) \/ Rollback(t)
      PROVE  intent' = intent
  BY <1>3 DEF Begin, BeginAddTender, BeginDeleteTender, BeginCreateIntent, BeginComplete,
     BeginListTenders, BeginReopen, BeginCapture, CaptureLocksSale, ListReadsSources,
     EmitCompleted, Rollback
<1>4. ASSUME NEW t \in Txn, CommitAddTender(t) \/ CommitDeleteTender(t)
                             \/ CommitComplete(t) \/ CommitListTenders(t)
      PROVE  intent' = intent
  BY <1>4 DEF CommitAddTender, CommitDeleteTender, CommitComplete, CommitListTenders
<1>5. ToggleTill \/ UNCHANGED vars => intent' = intent
  BY DEF ToggleTill, vars
<1> QED
  BY <1>1, <1>2, <1>3, <1>4, <1>5, CommitTerms DEF Next, Commit

LEMMA MoneyTypes ==
  ASSUME IInv, NEW s \in Sale
  PROVE  /\ row[s].paid \in Money /\ row[s].credited \in Money
         /\ Total[s] \in Nat
BY TotalAssumption DEF IInv, TypeOK, SaleRow

(* Money that is not paid for more than the sale is worth.                  *)
LEMMA CaptureFits ==
  ASSUME IInv, NEW s \in Sale, NEW m \in Method, NEW a \in Nat,
         Amount(row[s].paid) <= Total[s], a <= Outstanding(row[s], Total[s])
  PROVE  Amount([row[s].paid EXCEPT ![m] = @ + a]) <= Total[s]
<1> DEFINE p == row[s].paid
           c == row[s].credited
<1>1. p \in Money /\ c \in Money /\ Total[s] \in Nat
  BY MoneyTypes
<1>2. Amount(p) \in Nat /\ Amount(c) \in Nat
  BY <1>1, MoneyType
<1>3. Amount([p EXCEPT ![m] = @ + a]) = Amount(p) + a
  BY <1>1 DEF Amount, Money, Method
<1>4. Amount(Payments(row[s])) = Amount(p) + Amount(c)
  BY <1>1 DEF Payments, Plus, Amount, Money, Method
<1> HIDE DEF p, c
<1> QED
  BY <1>1, <1>2, <1>3, <1>4 DEF Outstanding, AtLeast0, p

LEMMA PaidFitsStep ==
  ASSUME IInv, CountInv, PaidFits, [Next]_vars
  PROVE  PaidFits'
<1> SUFFICES ASSUME NEW s \in Sale PROVE Amount(row'[s].paid) <= Total[s]
  BY DEF PaidFits
<1>0. Amount(row[s].paid) <= Total[s] /\ IntentsHeld
  BY DEF PaidFits, CountInv
<1>1. CASE KeepsCaptures
  BY <1>0, <1>1 DEF KeepsCaptures, KeepsMoney
<1>2. ASSUME NEW i \in Intent, NEW q \in Sale, NEW m \in Method, NEW a \in Nat,
             Captures(i, q, m, a)
      PROVE  Amount(row'[s].paid) <= Total[s]
  BY <1>0, <1>2, CaptureFits DEF Captures
<1>3. ASSUME NEW q \in Sale, Deletes(q)
      PROVE  Amount(row'[s].paid) <= Total[s]
  <2>1. Amount(DeletedRow.paid) = 0
    BY DEF DeletedRow, OpenRow, NoMoney, Amount, Method
  <2> QED
    BY <1>0, <1>3, <2>1, MoneyTypes DEF Deletes, IInv, TypeOK
<1> QED
  BY <1>0, <1>1, <1>2, <1>3, MoneyStep

LEMMA SettledStays ==
  ASSUME IInv, CountInv, [Next]_vars, NEW i \in Intent,
         intent[i].status # "NONE", Settled(i)
  PROVE  Settled(i)'
<1>1. CASE intent'[i] = DeletedIntent
  BY <1>1, DeletedTerms DEF Settled
<1>2. CASE SameTerms(i)
  <2> DEFINE s == intent[i].sale
  <2>1. CASE intent[i].status = "DELETED"
    BY <1>2, <2>1 DEF SameTerms, Settled
  <2>2. CASE intent[i].status # "DELETED"
    <3>1. s \in Sale /\ intent[i].method \in Method /\ intent[i].amount \in Nat
      BY <2>2 DEF IInv, TypeOK, IntentsHaveSales, IntentRow
    <3>2. CASE KeepsCaptures
      BY <1>2, <3>1, <3>2 DEF KeepsCaptures, KeepsMoney, SameTerms, Settled
    <3>3. ASSUME NEW j \in Intent, NEW q \in Sale, NEW m \in Method, NEW a \in Nat,
                 Captures(j, q, m, a)
          PROVE  Settled(i)'
      <4>1. CASE s = q
        <5>1. row[s].paid[intent[i].method] >= intent[i].amount
          BY <2>2, <3>3, <4>1 DEF Settled, Captures
        <5>2. row[s].paid \in Money /\ row'[s].paid = [row[s].paid EXCEPT ![m] = @ + a]
          BY <3>1, <3>3, <4>1, MoneyTypes DEF Captures
        <5>3. row'[s].paid[intent[i].method] >= intent[i].amount
          BY <3>1, <5>1, <5>2 DEF Money
        <5> QED
          BY <1>2, <5>3 DEF SameTerms, Settled
      <4>2. CASE s # q
        BY <1>2, <3>1, <3>3, <4>2 DEF Captures, SameTerms, Settled
      <4> QED
        BY <4>1, <4>2
    <3>4. ASSUME NEW q \in Sale, Deletes(q)
          PROVE  Settled(i)'
      <4>1. CASE s = q
        BY <3>4, <4>1, DeletedTerms DEF Deletes, Settled
      <4>2. CASE s # q
        BY <1>2, <3>1, <3>4, <4>2 DEF Deletes, SameTerms, Settled, IInv, TypeOK
      <4> QED
        BY <4>1, <4>2
    <3> QED
      BY <3>2, <3>3, <3>4, MoneyStep DEF CountInv
  <2> QED
    BY <2>1, <2>2
<1> QED
  BY <1>1, <1>2, TermsKept

-----------------------------------------------------------------------------
(* markCoreIntentFinished and markCoreIntentFailed take a captured intent   *)
(* back and leave its payment.                                              *)
TakesBack(i) ==
  LET s == intent[i].sale
  IN  /\ ilock[i] = None
      /\ HasIntent(i) /\ lock[s] = None
      /\ \E status \in {"FAILED", "CANCELED"} :
           intent' = [intent EXCEPT ![i] = [intent[i] EXCEPT !.status = status]]
      /\ row' = IF intent[i].status = "CAPTURED"
                THEN [row EXCEPT ![s].captured[intent[i].method] = @ - intent[i].amount]
                ELSE row
      /\ UNCHANGED <<layaway, till, lock, ilock, op, arg, seen, seenLay, emitted>>

LEMMA OverwriteTakesBack ==
  ASSUME IInv, NEW i \in Intent, NEW status \in {"FAILED", "CANCELED"},
         OverwriteIntent(i, status)
  PROVE  TakesBack(i) \/ UNCHANGED vars
<1>1. CASE ~HasIntent(i)
  BY <1>1 DEF OverwriteIntent, vars
<1>2. CASE HasIntent(i)
  <2>1. intent' = [intent EXCEPT ![i].status = status]
    BY <1>2 DEF OverwriteIntent
  <2>2. intent' = [intent EXCEPT ![i] = [intent[i] EXCEPT !.status = status]]
    BY <2>1 DEF IInv, TypeOK
  <2> QED
    BY <1>2, <2>2 DEF OverwriteIntent, TakesBack
<1> QED
  BY <1>1, <1>2

(* What it does to the intent.                                              *)
LEMMA TakenBackIntent ==
  ASSUME IInv, NEW i \in Intent, TakesBack(i)
  PROVE  /\ intent' \in [Intent -> IntentRow]
         /\ intent'[i].status \in {"FAILED", "CANCELED"}
         /\ \A j \in Intent \ {i} : intent'[j] = intent[j]
         /\ SameTerms(i)
<1>1. PICK status \in {"FAILED", "CANCELED"} :
        intent' = [intent EXCEPT ![i] = [intent[i] EXCEPT !.status = status]]
  BY DEF TakesBack
<1> DEFINE v == [intent[i] EXCEPT !.status = status]
<1>2. /\ v \in IntentRow /\ v.status = status /\ v.sale = intent[i].sale
      /\ v.method = intent[i].method /\ v.amount = intent[i].amount
  BY DEF IInv, TypeOK, IntentRow, IntentStatus
<1>3. intent' = [intent EXCEPT ![i] = v] /\ HasIntent(i)
  BY <1>1 DEF TakesBack
<1> HIDE DEF v
<1> QED
  BY <1>2, <1>3 DEF IInv, TypeOK, SameTerms, HasIntent

(* And to the payments: they stay, one is no longer a captured intent's.    *)
LEMMA TakenBackRow ==
  ASSUME IInv, CountInv, NEW i \in Intent, TakesBack(i), intent[i].status = "CAPTURED"
  PROVE  LET s == intent[i].sale
             m == intent[i].method
             c == [row[s].captured EXCEPT ![m] = @ - intent[i].amount]
         IN  /\ s \in Sale /\ m \in Method /\ intent[i].amount \in Nat
             /\ intent[i].amount <= row[s].captured[m]
             /\ c \in Money
             /\ row' = [row EXCEPT ![s] = [row[s] EXCEPT !.captured = c]]
<1> DEFINE s == intent[i].sale
           m == intent[i].method
           a == intent[i].amount
           c == [row[s].captured EXCEPT ![m] = @ - a]
           C == CapturedOf(s, m)
<1>1. s \in Sale /\ m \in Method /\ a \in Nat
  BY DEF IInv, TypeOK, IntentsHaveSales, IntentRow
<1>2. row[s].captured \in Money
  BY <1>1 DEF IInv, TypeOK, SaleRow
<1>3. C \in SUBSET Intent /\ i \in C
  BY DEF CapturedOf
<1>4. IsFiniteSet(C) /\ SumFunctionOnSet(AmountsOf, C) = row[s].captured[m]
  BY <1>1 DEF CountInv, CapturesCounted
<1>5. NatValued(AmountsOf, C) /\ AmountsOf[i] = a
  BY <1>3, AmountsNat DEF AmountsOf, IInv
<1> HIDE DEF C
<1>6. a <= row[s].captured[m]
  <2>1. SumFunctionOnSet(AmountsOf, C) = AmountsOf[i] + SumFunctionOnSet(AmountsOf, C \ {i})
    BY <1>3, <1>4, <1>5, SumRemove
  <2>2. IsFiniteSet(C \ {i}) /\ NatValued(AmountsOf, C \ {i})
    BY <1>4, <1>5, FS_Subset DEF NatValued
  <2>3. SumFunctionOnSet(AmountsOf, C \ {i}) \in Nat
    BY <2>2, SumNat
  <2> QED
    BY <1>1, <1>4, <1>5, <2>1, <2>3
<1>7. c \in Money
  BY <1>1, <1>2, <1>6 DEF Money
<1>8. row' = [row EXCEPT ![s] = [row[s] EXCEPT !.captured = c]]
  BY <1>1, <1>2 DEF TakesBack, IInv, TypeOK
<1> QED
  BY <1>1, <1>6, <1>7, <1>8

LEMMA TakesBackRows ==
  ASSUME IInv, CountInv, NEW i \in Intent, TakesBack(i)
  PROVE  /\ row' \in [Sale -> SaleRow]
         /\ \A s \in Sale :
              /\ row'[s].status = row[s].status /\ row'[s].paid = row[s].paid
              /\ lock[s] # None => row'[s] = row[s]
              /\ SoundRow(row'[s], Total[s])
              /\ row[s].captured = NoMoney => row'[s].captured = NoMoney
<1>1. CASE row' = row
  BY <1>1 DEF IInv, TypeOK, SoundRows
<1>2. CASE intent[i].status = "CAPTURED"
  <2> DEFINE s == intent[i].sale
             m == intent[i].method
             a == intent[i].amount
             c == [row[s].captured EXCEPT ![m] = @ - a]
             r == [row[s] EXCEPT !.captured = c]
  <2>1. /\ s \in Sale /\ m \in Method /\ a \in Nat
        /\ a <= row[s].captured[m] /\ c \in Money
        /\ row' = [row EXCEPT ![s] = r]
    BY <1>2, TakenBackRow
  <2>2. row[s] \in SaleRow /\ row[s].captured \in Money /\ Total[s] \in Nat
    BY <2>1, TotalAssumption DEF IInv, TypeOK, SaleRow
  <2>3. /\ \A n \in Method : c[n] <= row[s].captured[n]
        /\ row[s].captured = NoMoney => c = NoMoney
    <3> DEFINE x == row[s].captured
    <3>1. x \in Money /\ c = [x EXCEPT ![m] = @ - a]
      BY <2>2
    <3> HIDE DEF x, c
    <3>2. \A n \in Method : c[n] <= x[n]
      BY <2>1, <3>1 DEF Money
    <3>3. x = NoMoney => c = NoMoney
      <4>1. x = NoMoney => x[m] = 0
        BY <2>1 DEF NoMoney
      <4>2. x = NoMoney => a = 0
        BY <2>1, <4>1 DEF x
      <4> QED
        BY <2>1, <3>1, <4>2 DEF NoMoney, Money
    <3> QED
      BY <3>2, <3>3 DEF x
  <2>4. lock[s] = None
    BY DEF TakesBack
  <2> HIDE DEF c
  <2>5. /\ r \in SaleRow /\ r.captured = c
        /\ \A f \in {"status", "change", "credited", "tender", "paid", "drawer",
                 "tillShut", "cash", "cashPaid"} :
             r[f] = row[s][f]
    BY <2>1, <2>2 DEF SaleRow
  <2> HIDE DEF r
  <2>6. SoundRow(row[s], Total[s])
    BY <2>1 DEF IInv, SoundRows
  <2>7. CapturedIsPaid(r) /\ CapturedFits(r, Total[s])
    <3>1. row[s].paid \in Money
      BY <2>2 DEF SaleRow
    <3>2. Amount(c) <= Amount(row[s].captured)
      BY <2>1, <2>2, <2>3 DEF Amount, Money, Method
    <3>3. Amount(c) \in Nat /\ Amount(row[s].captured) \in Nat
      BY <2>1, <2>2, MoneyType
    <3> QED
      BY <2>1, <2>2, <2>3, <2>5, <2>6, <3>1, <3>2, <3>3
         DEF SoundRow, CapturedIsPaid, CapturedFits, Money
  <2>8. SoundRow(r, Total[s])
    BY <2>5, <2>6, <2>7 DEF SoundRow, Unsettled, Covered, DrawerIsNet
  <2> QED
    BY <2>1, <2>3, <2>4, <2>5, <2>8 DEF IInv, TypeOK, SoundRows
<1> QED
  BY <1>1, <1>2 DEF TakesBack

LEMMA TakesBackInv ==
  ASSUME IInv, CountInv, NEW i \in Intent, TakesBack(i)
  PROVE  IInv'
<1>1. TypeOK'
  BY TakesBackRows, TakenBackIntent DEF IInv, TypeOK, TakesBack
<1>2. SoundRows' /\ CapturedSaleIsCompleted'
  BY TakesBackRows DEF IInv, SoundRows, CapturedSaleIsCompleted, TakesBack
<1>3. LockedReadsAreCurrent'
  <2> SUFFICES ASSUME NEW u \in Txn, op'[u] \in Locking
               PROVE  lock'[arg'[u].sale] = u /\ seen'[u] = row'[arg'[u].sale]
    BY DEF LockedReadsAreCurrent
  <2>1. UNCHANGED <<op, arg, lock, seen>>
    BY DEF TakesBack
  <2>2. /\ lock[arg[u].sale] = u /\ seen[u] = row[arg[u].sale]
        /\ arg[u].sale \in Sale
    BY <2>1 DEF IInv, LockedReadsAreCurrent, ArgsBound, Locking
  <2>3. row'[arg[u].sale] = row[arg[u].sale]
    BY <2>2, TakesBackRows, NoneAssumption
  <2> QED
    BY <2>1, <2>2, <2>3
<1>4. ArgsBound' /\ LayawayKnown'
  BY DEF IInv, ArgsBound, LayawayKnown, TakesBack
<1>5. IntentsHaveSales'
  BY TakenBackIntent DEF IInv, IntentsHaveSales, SameTerms, TakesBack, HasIntent
<1> QED
  BY <1>1, <1>2, <1>3, <1>4, <1>5 DEF IInv

LEMMA TakesBackCounted ==
  ASSUME IInv, IInv', CountInv, NEW i \in Intent, TakesBack(i)
  PROVE  CountInv'
<1>1. IntentsHeld'
  BY TakenBackIntent, NoneAssumption
     DEF CountInv, IntentsHeld, TakesBack, IInv, TypeOK, ArgsBound
<1>2. SUFFICES ASSUME NEW s \in Sale, NEW m \in Method
               PROVE  /\ IsFiniteSet(CapturedOf(s, m)')
                      /\ SumFunctionOnSet(AmountsOf', CapturedOf(s, m)')
                           = row'[s].captured[m]
  BY <1>1 DEF CountInv, CapturesCounted
<1>3. /\ \A j \in Intent \ {i} : intent'[j] = intent[j]
      /\ intent'[i].status # "CAPTURED" /\ intent'[i].amount = intent[i].amount
  BY TakenBackIntent DEF SameTerms
<1> DEFINE C == CapturedOf(s, m)
<1>4. CASE i \in C
  <2>1. /\ intent[i].status = "CAPTURED" /\ intent[i].sale = s /\ intent[i].method = m
    BY <1>4 DEF CapturedOf
  <2>2. CapturedOf(s, m)' = C \ {i} /\ C \in SUBSET Intent
    BY <1>3 DEF CapturedOf
  <2>3. IsFiniteSet(C) /\ SumFunctionOnSet(AmountsOf, C) = row[s].captured[m]
    BY DEF CountInv, CapturesCounted
  <2>4. NatValued(AmountsOf, C) /\ AmountsOf[i] = intent[i].amount
    BY <2>2, AmountsNat DEF AmountsOf, IInv
  <2>5. NatValued(AmountsOf', C \ {i})
    BY <2>2, AmountsNatNext DEF IInv
  <2>6. \A j \in C \ {i} : AmountsOf[j] = AmountsOf'[j]
    BY <1>3, <2>2 DEF AmountsOf
  <2>7. row[s].captured \in Money /\ intent[i].amount \in Nat
    BY <1>4 DEF IInv, TypeOK, SaleRow, IntentRow
  <2>8. row'[s].captured[m] = row[s].captured[m] - intent[i].amount
    <3> DEFINE c == [row[s].captured EXCEPT ![m] = @ - intent[i].amount]
               r == [row[s] EXCEPT !.captured = c]
    <3>1. row' = [row EXCEPT ![s] = r]
      BY <2>1, TakenBackRow
    <3>2. r.captured = c
      BY DEF IInv, TypeOK, SaleRow
    <3>3. c[m] = row[s].captured[m] - intent[i].amount
      BY <2>7 DEF Money
    <3> HIDE DEF r
    <3> QED
      BY <3>1, <3>2, <3>3 DEF IInv, TypeOK
  <2> HIDE DEF C
  <2>9. SumFunctionOnSet(AmountsOf, C) = AmountsOf[i] + SumFunctionOnSet(AmountsOf, C \ {i})
    BY <1>4, <2>3, <2>4, SumRemove
  <2>10. IsFiniteSet(C \ {i}) /\ NatValued(AmountsOf, C \ {i})
    BY <2>3, <2>4, FS_Subset DEF NatValued
  <2>11. SumFunctionOnSet(AmountsOf, C \ {i}) \in Nat
    BY <2>10, SumNat
  <2>12. SumFunctionOnSet(AmountsOf, C \ {i}) = SumFunctionOnSet(AmountsOf', C \ {i})
    BY <2>6, <2>10, SumSame
  <2> QED
    BY <2>2, <2>3, <2>4, <2>7, <2>8, <2>9, <2>10, <2>11, <2>12
<1>5. CASE i \notin C
  <2>1. CapturedOf(s, m)' = CapturedOf(s, m)
    BY <1>3, <1>5 DEF CapturedOf
  <2>2. \A j \in CapturedOf(s, m) : intent'[j].amount = intent[j].amount
    BY <1>3 DEF CapturedOf
  <2>3. row'[s].captured[m] = row[s].captured[m]
    <3>1. CASE intent[i].status = "CAPTURED"
      <4> DEFINE q == intent[i].sale
                 c == [row[q].captured EXCEPT ![intent[i].method] = @ - intent[i].amount]
                 r == [row[q] EXCEPT !.captured = c]
      <4>1. q \in Sale /\ row' = [row EXCEPT ![q] = r]
        BY <3>1, TakenBackRow
      <4>2. r.captured = c
        BY <4>1 DEF IInv, TypeOK, SaleRow
      <4>3. q # s \/ intent[i].method # m
        BY <1>5, <3>1 DEF CapturedOf
      <4>4. q = s => c[m] = row[s].captured[m]
        BY <4>3 DEF IInv, TypeOK, SaleRow, Money
      <4> HIDE DEF r, c
      <4> QED
        BY <4>1, <4>2, <4>4 DEF IInv, TypeOK
    <3>2. CASE intent[i].status # "CAPTURED"
      BY <3>2 DEF TakesBack
    <3> QED
      BY <3>1, <3>2
  <2> QED
    BY <2>1, <2>2, <2>3, SameCaptures DEF IInv, CountInv
<1> QED
  BY <1>4, <1>5

-----------------------------------------------------------------------------
(* The sale requests of a step of the terminals.                            *)
AddsTender ==
  \E t \in Txn, s \in Sale, m \in Method, a \in Nat : BeginAddTender(t, s, m, a)

TakesBackAny == \E i \in Intent : TakesBack(i)

LEMMA RequestStep ==
  ASSUME IInv, TermInv, NEW t \in Txn, TerminalRequest(t)
  PROVE  [Next]_vars \/ TakesBackAny \/ AddsTender
<1>1. CASE \/ \E s \in Sale, a \in Amounts : BeginTerminalSale(t, s, a)
           \/ TerminalIntentCreated(t)
  BY <1>1 DEF BeginTerminalSale, TerminalIntentCreated, Next, Begin, Commit, Method
<1>2. CASE \/ \E i \in Intent, link \in {"asking", "canceling"} : BeginRequest(t, i, link)
           \/ \E i \in Intent : BeginSignature(t, i)
           \/ OpenSession(t) \/ ProviderAnswers(t) \/ ProviderCancels(t)
           \/ SignatureAnswered(t) \/ Settle(t) \/ NoteTender(t) \/ NotingFails(t)
           \/ SaveFailed(t) \/ SaveAnswer(t) \/ SessionGone(t)
  BY <1>2 DEF BeginRequest, BeginSignature, Ask, OpenSession, ProviderAnswers,
              ProviderCancels, SignatureAnswered, Settle, NoteTender, NotingFails,
              SaveFailed, SaveAnswer, SessionGone
<1>3. CASE OpeningFails(t) \/ FinishIntent(t)
  <2>1. Mine(t) \in Intent
    BY <1>3 DEF OpeningFails, FinishIntent, Reached, TermInv, RequestInv
  <2>2. \E status \in {"FAILED", "CANCELED"} : OverwriteIntent(Mine(t), status)
    BY <1>3 DEF OpeningFails, FinishIntent
  <2> QED
    BY <2>1, <2>2, OverwriteTakesBack DEF TakesBackAny
<1>4. CASE BeginTender(t)
  <2>1. Mine(t) \in Intent
    BY <1>4 DEF BeginTender, Reached, TermInv, RequestInv
  <2>2. intent[Mine(t)].amount \in Nat
    BY <2>1 DEF IInv, TypeOK, IntentRow
  <2> QED
    BY <1>4, <2>2 DEF BeginTender, AddsTender, Method
<1>5. CASE TenderAdded(t) \/ TenderRefused(t) \/ SettleCaptureLocksSale(t)
           \/ Captured(t) \/ CaptureRefused(t) \/ AbandonRequest(t)
  BY <1>5 DEF TenderAdded, TenderRefused, SettleCaptureLocksSale, Captured,
              CaptureRefused, AbandonRequest, Next, Commit
<1>6. CASE BeginSettleCapture(t)
  <2>1. Mine(t) \in Intent
    BY <1>6 DEF BeginSettleCapture, Reached, TermInv, RequestInv
  <2> QED
    BY <1>6, <2>1 DEF BeginSettleCapture, Next, Begin
<1> QED
  BY <1>1, <1>2, <1>3, <1>4, <1>5, <1>6 DEF TerminalRequest

LEMMA TerminalsStep ==
  ASSUME IInv, TermInv, TerminalsNext
  PROVE  [Next]_vars \/ TakesBackAny \/ AddsTender
<1>1. ASSUME NEW t \in Txn, OtherSaleRequest(t)
      PROVE  Next
  BY <1>1 DEF OtherSaleRequest, Next
<1>2. (\E i \in Intent : CancelIntent(i)) => Next
  BY DEF Next
<1>3. (\E i \in Intent : CustomerActs(i)) => UNCHANGED vars
  BY DEF CustomerActs
<1> QED
  BY <1>1, <1>2, <1>3, RequestStep DEF TerminalsNext

LEMMA TenderBegun ==
  ASSUME IInv, CountInv, AddsTender
  PROVE  IInv' /\ CountInv' /\ row' = row /\ intent' = intent
<1>1. PICK t \in Txn, s \in Sale, m \in Method, n \in Nat : BeginAddTender(t, s, m, n)
  BY DEF AddsTender
<1> DEFINE a == [NoArg EXCEPT !.sale = s, !.method = m, !.amount = n]
<1>2. a \in Arg /\ a.sale = s
  BY DEF Arg, NoArg
<1>3. /\ Enter(t, "addTender", a) /\ LockSale(t, s) /\ ReadSale(t, s)
      /\ UNCHANGED <<row, intent, layaway, till, ilock, emitted>>
  BY <1>1 DEF BeginAddTender
<1> HIDE DEF a
<1>4. IInv'
  BY <1>2, <1>3, BeginLockedInv
<1>5. IntentsHeld'
  BY <1>3 DEF CountInv, IntentsHeld, Enter, IInv, TypeOK
<1>6. KeepsCaptures
  BY <1>3 DEF KeepsCaptures, KeepsMoney
<1>7. CapturesCounted'
  BY <1>4, <1>6, KeptCounted DEF IInv, CountInv
<1> QED
  BY <1>3, <1>4, <1>5, <1>7 DEF CountInv

(* The invariants of the sale requests hold beside the terminals, an intent *)
(* does not come undone, and what is settled stays so.                      *)
Carried ==
  \A i \in Intent : intent[i].status # "NONE" =>
    intent'[i].status # "NONE" /\ (Settled(i) => Settled(i)')

LEMMA BaseStep ==
  ASSUME IInv, CountInv, PaidFits, TermInv, TerminalsNext
  PROVE  IInv' /\ CountInv' /\ PaidFits' /\ Carried
<1>1. CASE [Next]_vars
  <2>1. IInv'
    BY <1>1, NextInv
  <2>2. CountInv'
    BY <1>1, <2>1, CountedStep, HeldStep DEF CountInv
  <2>3. Carried
    BY <1>1, TermsKept, SettledStays, DeletedTerms DEF Carried, SameTerms
  <2> QED
    BY <1>1, <2>1, <2>2, <2>3, PaidFitsStep
<1>2. CASE TakesBackAny
  <2>1. PICK i \in Intent : TakesBack(i)
    BY <1>2 DEF TakesBackAny
  <2>2. IInv' /\ CountInv'
    BY <2>1, TakesBackInv, TakesBackCounted
  <2>3. \A s \in Sale : row'[s].status = row[s].status /\ row'[s].paid = row[s].paid
    BY <2>1, TakesBackRows
  <2>4. /\ SameTerms(i) /\ intent'[i].status \in {"FAILED", "CANCELED"}
        /\ \A j \in Intent \ {i} : intent'[j] = intent[j]
    BY <2>1, TakenBackIntent
  <2>5. \A j \in Intent : intent[j].status # "NONE" => SameTerms(j)
    BY <2>4 DEF SameTerms
  <2>6. Carried
    BY <2>3, <2>5 DEF Carried, SameTerms, Settled, IInv, IntentsHaveSales
  <2> QED
    BY <2>2, <2>3, <2>6 DEF PaidFits
<1>3. CASE AddsTender
  <2>1. IInv' /\ CountInv' /\ row' = row /\ intent' = intent
    BY <1>3, TenderBegun
  <2> QED
    BY <2>1 DEF PaidFits, Carried, Settled
<1> QED
  BY <1>1, <1>2, <1>3, TerminalsStep

-----------------------------------------------------------------------------
(* A step of one request leaves the others where they are.                  *)
Alone(t) ==
  \A u \in Txn \ {t} : op'[u] = op[u] /\ arg'[u] = arg[u] /\ term'[u] = term[u]

LEMMA StepsAlone ==
  ASSUME IInv, TermInv, NEW t \in Txn, TerminalRequest(t) \/ OtherSaleRequest(t)
  PROVE  Alone(t)
<1> DEFINE Saves == \A u \in Txn \ {t} : op'[u] = op[u] /\ arg'[u] = arg[u]
<1>1. term' = term \/ \E r : term' = [term EXCEPT ![t] = r]
  BY DEF TerminalRequest, OtherSaleRequest, BeginTerminalSale, BeginRequest,
     BeginSignature, Ask, TerminalIntentCreated, OpenSession, OpeningFails,
     ProviderAnswers, ProviderCancels, SignatureAnswered, Heard, Settle, BeginTender,
     TenderAdded, TenderRefused, NoteTender, NotingFails, BeginSettleCapture, SettleCaptureLocksSale, Captured, CaptureRefused, SaveFailed,
     FinishIntent, SaveAnswer, SessionGone, AbandonRequest, Go, Done, termVars
<1>2. \A u \in Txn \ {t} : term'[u] = term[u]
  BY <1>1 DEF TermInv, TermTypes
<1>3. UNCHANGED <<op, arg>> => Saves
  OBVIOUS
<1>4. \/ Begin(t) \/ CaptureLocksSale(t) \/ Commit(t) \/ EmitCompleted(t) \/ Rollback(t)
        => Saves
  BY AnnounceEffect
<1>5. (\E name, a : Enter(t, name, a)) => Saves
  BY DEF Enter, IInv, TypeOK
<1>6. OtherSaleRequest(t) => Saves
  <2>1. ListReadsSources(t) => Saves
    BY DEF ListReadsSources, IInv, TypeOK
  <2> QED
    BY <1>4, <2>1 DEF OtherSaleRequest
<1>7. ASSUME TerminalRequest(t)
      PROVE  Saves
  <2>1. CASE \/ \E s \in Sale, a \in Amounts : BeginTerminalSale(t, s, a)
             \/ BeginTender(t) \/ BeginSettleCapture(t)
    BY <1>3, <1>5, <2>1 DEF BeginTerminalSale, BeginTender, BeginSettleCapture,
       BeginCreateIntent, BeginAddTender, BeginCapture, vars
  <2>2. CASE \/ \E i \in Intent, link \in {"asking", "canceling"} : BeginRequest(t, i, link)
             \/ \E i \in Intent : BeginSignature(t, i)
             \/ OpenSession(t) \/ ProviderAnswers(t) \/ ProviderCancels(t)
             \/ SignatureAnswered(t) \/ Settle(t) \/ NoteTender(t) \/ NotingFails(t)
             \/ SaveFailed(t) \/ SaveAnswer(t) \/ SessionGone(t)
    BY <1>3, <2>2 DEF BeginRequest, BeginSignature, Ask, OpenSession, ProviderAnswers,
              ProviderCancels, SignatureAnswered, Settle, NoteTender, NotingFails,
              SaveFailed, SaveAnswer, SessionGone, vars
  <2>3. CASE OpeningFails(t) \/ FinishIntent(t)
    BY <1>3, <2>3 DEF OpeningFails, FinishIntent, OverwriteIntent
  <2>4. CASE \/ TerminalIntentCreated(t) \/ TenderAdded(t) \/ TenderRefused(t)
             \/ SettleCaptureLocksSale(t) \/ Captured(t) \/ CaptureRefused(t)
             \/ AbandonRequest(t)
    <3>1. \/ UNCHANGED vars
          \/ CaptureLocksSale(t) \/ Commit(t) \/ Rollback(t)
      BY <2>4 DEF TerminalIntentCreated, TenderAdded, TenderRefused, Captured,
              SettleCaptureLocksSale, CaptureRefused, AbandonRequest, Commit
    <3> QED
      BY <1>3, <1>4, <3>1 DEF vars
  <2> QED
    BY <1>7, <2>1, <2>2, <2>3, <2>4 DEF TerminalRequest
<1> QED
  BY <1>2, <1>6, <1>7 DEF Alone

(* What a request knows holds as long as it does nothing.                   *)
LEMMA RequestKept ==
  ASSUME NEW t \in Txn, RequestInv(t), Carried,
         \A i \in Intent : provider[i] # "none" => provider'[i] # "none",
         term'[t] = term[t],
         term[t].at = "capturing" => op'[t] = op[t] /\ arg'[t] = arg[t]
  PROVE  RequestInv(t)'
BY DEF RequestInv, Carried, Mine

LEMMA SessionKept ==
  ASSUME NEW i \in Intent, SessionInv(i), Carried, session'[i] = session[i],
         HasIntent(i) => HasIntent(i)',
         provider[i] # "none" => provider'[i] # "none"
  PROVE  SessionInv(i)'
BY DEF SessionInv, Carried, HasSession, HasIntent

ProviderStays == \A i \in Intent : provider[i] # "none" => provider'[i] # "none"

IntentsStay == \A i \in Intent : HasIntent(i) => HasIntent(i)'

LEMMA StepInv ==
  ASSUME TermInv, Carried, ProviderStays, NEW t \in Txn, Alone(t), TermTypes',
         \A i \in Intent : SessionInv(i)', RequestInv(t)'
  PROVE  TermInv'
<1>1. ASSUME NEW u \in Txn \ {t} PROVE RequestInv(u)'
  BY RequestKept DEF Alone, ProviderStays, TermInv
<1> QED
  BY <1>1 DEF TermInv

(* A step of the chain that writes neither the session nor the provider's   *)
(* side.                                                                    *)
LEMMA LinkInv ==
  ASSUME TermInv, Carried, IntentsStay, UNCHANGED <<session, provider>>,
         NEW t \in Txn, Alone(t),
         NEW r \in Request, term' = [term EXCEPT ![t] = r], RequestInv(t)'
  PROVE  TermInv'
<1>1. TermTypes' /\ ProviderStays
  BY DEF TermInv, TermTypes, ProviderStays
<1>2. ASSUME NEW i \in Intent PROVE SessionInv(i)'
  BY SessionKept DEF TermInv, IntentsStay
<1> QED
  BY <1>1, <1>2, StepInv

(* A step of the chain that writes a session.                               *)
LEMMA SaveInv ==
  ASSUME TermInv, Carried, UNCHANGED intent, ProviderStays, NEW t \in Txn, Alone(t),
         provider' \in [Intent -> Provider],
         NEW i \in Intent, NEW v \in SessionRow, session' = [session EXCEPT ![i] = v],
         HasIntent(i), provider'[i] # "none", v.status = "CAPTURED" => Settled(i)',
         NEW r \in Request, term' = [term EXCEPT ![t] = r], RequestInv(t)'
  PROVE  TermInv'
<1>1. TermTypes'
  BY DEF TermInv, TermTypes
<1>2. ASSUME NEW j \in Intent PROVE SessionInv(j)'
  <2>1. HasIntent(j)' <=> HasIntent(j)
    BY DEF HasIntent
  <2>2. CASE j = i
    <3>1. session'[j] = v
      BY <2>2 DEF TermInv, TermTypes
    <3> QED
      BY <2>1, <2>2, <3>1 DEF SessionInv
  <2>3. CASE j # i
    <3>1. session'[j] = session[j]
      BY <2>3 DEF TermInv, TermTypes
    <3> QED
      BY <2>1, <3>1, SessionKept DEF TermInv, ProviderStays
  <2> QED
    BY <2>2, <2>3
<1> QED
  BY <1>1, <1>2, StepInv

LEMMA GoesTo ==
  ASSUME TermInv, NEW t \in Txn, NEW link \in Link, Go(t, link)
  PROVE  /\ [term[t] EXCEPT !.at = link] \in Request
         /\ term' = [term EXCEPT ![t] = [term[t] EXCEPT !.at = link]]
         /\ term'[t].at = link /\ term'[t].session = term[t].session
         /\ term'[t].next = term[t].next
<1> DEFINE r == [term[t] EXCEPT !.at = link]
<1>1. /\ r \in Request /\ r.at = link /\ r.session = term[t].session
      /\ r.next = term[t].next
  BY DEF TermInv, TermTypes, Request
<1>2. term' = [term EXCEPT ![t] = r]
  BY DEF Go, TermInv, TermTypes
<1> HIDE DEF r
<1>3. term'[t] = r
  BY <1>2 DEF TermInv, TermTypes
<1> QED
  BY <1>1, <1>2, <1>3 DEF r

LEMMA Ends ==
  ASSUME TermInv, NEW t \in Txn, Done(t)
  PROVE  NoRequest \in Request /\ RequestInv(t)'
<1>1. NoRequest \in Request /\ NoRequest.at = "idle"
  BY DEF NoRequest, Request, Link, NoSession, SessionRow, SessionStatus
<1>2. term'[t] = NoRequest
  BY DEF Done, TermInv, TermTypes
<1> QED
  BY <1>1, <1>2 DEF RequestInv

(* Requests that just move on or give up.                                   *)
LEMMA GoInv ==
  ASSUME TermInv, Carried, IntentsStay, UNCHANGED <<session, provider>>,
         NEW t \in Txn, Alone(t), term[t].at \notin {"idle", "creating"},
         NEW link \in {"failing", "tender", "tendering", "noting", "capture"}, Go(t, link)
  PROVE  TermInv'
<1>1. link \in Link
  BY DEF Link
<1>2. RequestInv(t)'
  BY <1>1, GoesTo DEF RequestInv, TermInv, Carried, Mine
<1> QED
  BY <1>1, <1>2, GoesTo, LinkInv

LEMMA DoneInv ==
  ASSUME TermInv, Carried, IntentsStay, UNCHANGED <<session, provider>>,
         NEW t \in Txn, Alone(t), Done(t)
  PROVE  TermInv'
BY Ends, LinkInv DEF Done

-----------------------------------------------------------------------------
(* One lemma per link, or group of links.                                   *)

LEMMA SameIntents == ASSUME intent' = intent PROVE IntentsStay
BY DEF IntentsStay, HasIntent

LEMMA CommitsStay ==
  ASSUME IInv, NEW t \in Txn, CommitCreateIntent(t) \/ CommitCapture(t)
  PROVE  IntentsStay
BY CommitTerms DEF IntentsStay, HasIntent, SameTerms

LEMMA TakesBackStay ==
  ASSUME IInv, TakesBackAny \/ UNCHANGED vars
  PROVE  IntentsStay
<1>1. CASE UNCHANGED vars
  BY <1>1, SameIntents DEF vars
<1>2. CASE TakesBackAny
  BY <1>2, TakenBackIntent DEF TakesBackAny, IntentsStay, HasIntent, SameTerms
<1> QED
  BY <1>1, <1>2

LEMMA OpeningInv ==
  ASSUME IInv, TermInv, Carried, NEW t \in Txn, Alone(t),
         \/ \E s \in Sale, a \in Amounts : BeginTerminalSale(t, s, a)
         \/ TerminalIntentCreated(t)
  PROVE  TermInv'
<1>1. CASE \E s \in Sale, a \in Amounts : BeginTerminalSale(t, s, a)
  <2>1. Go(t, "creating") /\ intent' = intent /\ UNCHANGED <<session, provider>>
    BY <1>1 DEF BeginTerminalSale, BeginCreateIntent
  <2>2. "creating" \in Link
    BY DEF Link
  <2>3. RequestInv(t)'
    BY <2>1, <2>2, GoesTo DEF RequestInv
  <2> QED
    BY <2>1, <2>2, <2>3, GoesTo, SameIntents, LinkInv
<1>2. CASE TerminalIntentCreated(t)
  <2>1. PICK i \in Intent :
          /\ intent'[i].status # "NONE"
          /\ term' = [term EXCEPT ![t].at = "opening", ![t].session = i]
    BY <1>2 DEF TerminalIntentCreated
  <2> DEFINE r == [term[t] EXCEPT !.at = "opening", !.session = i]
  <2>2. /\ r \in Request /\ r.at = "opening" /\ r.session = i
    BY DEF TermInv, TermTypes, Request, Link
  <2>3. term' = [term EXCEPT ![t] = r]
    BY <2>1 DEF TermInv, TermTypes
  <2> HIDE DEF r
  <2>4. term'[t] = r
    BY <2>3 DEF TermInv, TermTypes
  <2>5. RequestInv(t)'
    BY <2>1, <2>2, <2>4 DEF RequestInv, Mine
  <2>6. IntentsStay /\ UNCHANGED <<session, provider>>
    BY <1>2, CommitsStay DEF TerminalIntentCreated
  <2> QED
    BY <2>2, <2>3, <2>5, <2>6, LinkInv
<1> QED
  BY <1>1, <1>2

LEMMA OpenedInv ==
  ASSUME IInv, TermInv, Carried, NEW t \in Txn, Alone(t), OpenSession(t)
  PROVE  TermInv'
<1> DEFINE i == Mine(t)
<1>0. PICK answer \in {"INITIATED", "DECLINED", "CANCELED"} :
        /\ provider' = [provider EXCEPT ![i] = answer]
        /\ session' = [session EXCEPT ![i].status = answer]
  BY DEF OpenSession, Save
<1> DEFINE v == [session[i] EXCEPT !.status = answer]
<1>1. /\ i \in Intent /\ HasIntent(i) /\ UNCHANGED intent /\ Done(t)
      /\ provider' = [provider EXCEPT ![i] = answer]
      /\ session' = [session EXCEPT ![i].status = answer]
  BY <1>0 DEF OpenSession, Reached, TermInv, RequestInv, vars
<1>2. /\ v \in SessionRow /\ v.status # "CAPTURED"
      /\ session' = [session EXCEPT ![i] = v]
  BY <1>1 DEF TermInv, TermTypes, SessionRow, SessionStatus
<1>3. /\ provider' \in [Intent -> Provider] /\ provider'[i] # "none" /\ ProviderStays
  BY <1>1 DEF TermInv, TermTypes, Provider, ProviderStays
<1>4. NoRequest \in Request /\ RequestInv(t)' /\ term' = [term EXCEPT ![t] = NoRequest]
  BY <1>1, Ends DEF Done
<1> HIDE DEF v, i
<1> QED
  BY <1>1, <1>2, <1>3, <1>4, SaveInv

LEMMA GivingUpInv ==
  ASSUME IInv, TermInv, Carried, NEW t \in Txn, Alone(t),
         OpeningFails(t) \/ SessionGone(t) \/ AbandonRequest(t)
  PROVE  TermInv'
<1>1. UNCHANGED <<session, provider>> /\ Done(t)
  BY DEF OpeningFails, SessionGone, AbandonRequest
<1>2. CASE OpeningFails(t)
  <2>1. Mine(t) \in Intent /\ OverwriteIntent(Mine(t), "FAILED")
    BY <1>2 DEF OpeningFails, Reached, TermInv, RequestInv
  <2>2. TakesBackAny \/ UNCHANGED vars
    BY <2>1, OverwriteTakesBack DEF TakesBackAny
  <2> QED
    BY <1>1, <2>2, TakesBackStay, DoneInv
<1>3. CASE SessionGone(t) \/ AbandonRequest(t)
  <2>1. intent' = intent
    BY <1>3 DEF SessionGone, AbandonRequest, Rollback, vars
  <2> QED
    BY <1>1, <2>1, SameIntents, DoneInv
<1> QED
  BY <1>2, <1>3

LEMMA BegunInv ==
  ASSUME IInv, TermInv, Carried, NEW t \in Txn, Alone(t),
         NEW i \in Intent, NEW link \in {"asking", "canceling", "signing"}, Ask(t, i, link)
  PROVE  TermInv'
<1> DEFINE r == [NoRequest EXCEPT !.at = link, !.session = i, !.seen = session[i]]
<1>1. /\ term' = [term EXCEPT ![t] = r] /\ HasSession(i)
      /\ intent' = intent /\ UNCHANGED <<session, provider>>
  BY DEF Ask, vars
<1>2. r \in Request /\ r.at = link /\ r.session = i /\ r.seen = session[i]
  BY DEF NoRequest, Request, Link, SessionStatus, TermInv, TermTypes
<1>3. /\ HasIntent(i) /\ provider[i] # "none"
      /\ session[i].status = "CAPTURED" => Settled(i)
  BY <1>1 DEF TermInv, SessionInv
<1> HIDE DEF r
<1>4. term'[t] = r
  BY <1>1 DEF TermInv, TermTypes
<1>5. RequestInv(t)'
  BY <1>1, <1>2, <1>3, <1>4 DEF RequestInv, Mine, HasIntent, Carried
<1> QED
  BY <1>1, <1>2, <1>5, SameIntents, LinkInv

(* What the provider answers decides where the chain begins.                *)
LEMMA HeardFacts ==
  ASSUME TermInv, Carried, NEW t \in Txn, NEW answer \in Provider, answer # "none",
         Heard(t, answer), intent' = intent, Mine(t) \in Intent,
         intent[Mine(t)].status # "NONE",
         term[t].seen.status = "CAPTURED" => Settled(Mine(t))
  PROVE  /\ \E r \in Request : term' = [term EXCEPT ![t] = r]
         /\ RequestInv(t)'
<1> DEFINE link == IF answer \in Final \ {"CAPTURED"} THEN "finishing"
                   ELSE IF answer # term[t].seen.status
                           /\ answer = "CAPTURED" THEN "settling"
                   ELSE "saving"
           r == [term[t] EXCEPT !.next = answer, !.at = link]
<1>1. /\ r \in Request /\ r.next = answer /\ r.at = link
      /\ r.session = term[t].session
  BY DEF TermInv, TermTypes, Request, Link, SessionStatus, Provider
<1>2. term' = [term EXCEPT ![t] = r]
  BY DEF Heard, TermInv, TermTypes
<1>3. /\ link \in {"settling", "finishing", "saving"}
      /\ answer = "CAPTURED" => link # "finishing"
      /\ answer = "CAPTURED" /\ link = "saving" => Settled(Mine(t))
  OBVIOUS
<1> HIDE DEF r, link
<1>4. term'[t] = r
  BY <1>2 DEF TermInv, TermTypes
<1>5. Mine(t)' = Mine(t) /\ (Settled(Mine(t)) => Settled(Mine(t))')
  <2>1. Mine(t)' = Mine(t)
    BY <1>1, <1>4 DEF Mine
  <2> QED
    BY <2>1 DEF Carried
<1>6. RequestInv(t)'
  BY <1>1, <1>3, <1>4, <1>5 DEF RequestInv
<1> QED
  BY <1>1, <1>2, <1>6

LEMMA HeardInv ==
  ASSUME IInv, TermInv, Carried, NEW t \in Txn, Alone(t),
         ProviderAnswers(t) \/ ProviderCancels(t) \/ SignatureAnswered(t)
  PROVE  TermInv'
<1> DEFINE i == Mine(t)
<1>1. /\ i \in Intent /\ intent[i].status # "NONE" /\ provider[i] # "none"
      /\ term[t].seen.status = "CAPTURED" => Settled(i)
      /\ intent' = intent /\ session' = session
  BY DEF ProviderAnswers, ProviderCancels, SignatureAnswered, Reached, TermInv,
         RequestInv, vars
<1>2. provider[i] \in Provider
  BY <1>1 DEF TermInv, TermTypes
<1>3. CASE ProviderAnswers(t) \/ SignatureAnswered(t)
  <2>1. PICK answer \in Provider : answer # "none" /\ Heard(t, answer) /\ provider' = provider
    BY <1>1, <1>2, <1>3 DEF ProviderAnswers, SignatureAnswered, Provider
  <2>2. PICK r \in Request : term' = [term EXCEPT ![t] = r]
    BY <1>1, <2>1, HeardFacts
  <2>3. RequestInv(t)'
    BY <1>1, <2>1, HeardFacts
  <2> QED
    BY <1>1, <2>1, <2>2, <2>3, SameIntents, LinkInv
<1>4. CASE ProviderCancels(t)
  <2>1. /\ provider' = [provider EXCEPT ![i] = IF @ = "INITIATED" THEN "CANCELED" ELSE @]
        /\ Heard(t, provider'[i])
    BY <1>4 DEF ProviderCancels
  <2>2. /\ provider' \in [Intent -> Provider] /\ ProviderStays
        /\ provider'[i] \in Provider /\ provider'[i] # "none"
    BY <1>1, <1>2, <2>1 DEF TermInv, TermTypes, Provider, ProviderStays
  <2>3. PICK r \in Request : term' = [term EXCEPT ![t] = r]
    BY <1>1, <2>1, <2>2, HeardFacts
  <2>4. RequestInv(t)'
    BY <1>1, <2>1, <2>2, HeardFacts
  <2>5. TermTypes'
    BY <1>1, <2>2, <2>3 DEF TermInv, TermTypes
  <2>6. IntentsStay
    BY <1>1, SameIntents
  <2>7. ASSUME NEW j \in Intent PROVE SessionInv(j)'
    BY <1>1, <2>2, <2>6, SessionKept DEF TermInv, IntentsStay, ProviderStays
  <2> QED
    BY <2>2, <2>4, <2>5, <2>7, StepInv
<1> QED
  BY <1>3, <1>4

LEMMA SettleInv ==
  ASSUME IInv, TermInv, Carried, NEW t \in Txn, Alone(t), Settle(t)
  PROVE  TermInv'
<1>1. /\ term[t].at = "settling" /\ UNCHANGED <<session, provider>>
      /\ intent' = intent
  BY DEF Settle, Reached, vars
<1>2. CASE Go(t, "tender") \/ Go(t, "capture")
  BY <1>1, <1>2, SameIntents, GoInv
<1>3. CASE Go(t, "saving") /\ row[MySale(t)].status = "completed"
  <2>1. /\ "saving" \in Link /\ Mine(t) \in Intent /\ intent[Mine(t)].status # "NONE"
    BY <1>1 DEF Link, TermInv, RequestInv
  <2>2. Settled(Mine(t))
    BY <1>3 DEF Settled, MySale
  <2>3. Mine(t)' = Mine(t)
    BY <1>3, <2>1, GoesTo DEF Mine
  <2>4. Settled(Mine(t))'
    BY <2>1, <2>2, <2>3 DEF Carried
  <2>5. RequestInv(t)'
    BY <1>1, <1>3, <2>1, <2>3, <2>4, GoesTo DEF RequestInv
  <2> QED
    BY <1>1, <1>3, <2>1, <2>5, GoesTo, SameIntents, LinkInv
<1> QED
  BY <1>2, <1>3 DEF Settle

LEMMA TenderingInv ==
  ASSUME IInv, TermInv, Carried, NEW t \in Txn, Alone(t),
         BeginTender(t) \/ TenderAdded(t) \/ TenderRefused(t) \/ NotingFails(t)
  PROVE  TermInv'
<1>1. /\ term[t].at \notin {"idle", "creating"} /\ UNCHANGED <<session, provider>>
      /\ Go(t, "tendering") \/ Go(t, "failing") \/ Go(t, "noting")
  BY DEF BeginTender, TenderAdded, TenderRefused, NotingFails, Reached
<1>2. intent' = intent
  BY DEF BeginTender, TenderAdded, TenderRefused, NotingFails, BeginAddTender, CommitAddTender,
         Rollback, vars
<1> QED
  BY <1>1, <1>2, SameIntents, GoInv

LEMMA NotedInv ==
  ASSUME IInv, TermInv, Carried, NEW t \in Txn, Alone(t), NoteTender(t)
  PROVE  TermInv'
<1>0. PICK i \in Intent : i = Mine(t)
  BY DEF NoteTender, Reached, TermInv, RequestInv
<1> DEFINE v == [session[i] EXCEPT !.tendered = TRUE]
           r == [term[t] EXCEPT !.at = "capture"]
<1>1. /\ HasSession(i) /\ UNCHANGED intent
      /\ provider' = provider /\ Go(t, "capture") /\ term[t].at = "noting"
      /\ session' = [session EXCEPT ![i].tendered = TRUE]
  BY <1>0 DEF NoteTender, Reached, vars
<1>2. /\ v \in SessionRow /\ v.status = session[i].status
      /\ session' = [session EXCEPT ![i] = v]
  BY <1>1 DEF TermInv, TermTypes, SessionRow
<1>3. /\ HasIntent(i) /\ provider[i] # "none"
      /\ session[i].status = "CAPTURED" => Settled(i)
  BY <1>1 DEF TermInv, SessionInv
<1>4. ProviderStays /\ provider' \in [Intent -> Provider]
  BY <1>1 DEF ProviderStays, TermInv, TermTypes
<1>5. v.status = "CAPTURED" => Settled(i)'
  BY <1>1, <1>2, <1>3 DEF Carried, HasIntent
<1>6. r \in Request /\ term' = [term EXCEPT ![t] = r] /\ RequestInv(t)'
  <2>1. "capture" \in Link
    BY DEF Link
  <2> QED
    BY <1>1, <2>1, GoesTo DEF RequestInv, TermInv, Carried, Mine
<1> HIDE DEF v, r
<1> QED
  BY <1>1, <1>2, <1>3, <1>4, <1>5, <1>6, SaveInv

(* The captured intent is paid, by this request or by an earlier one.       *)
LEMMA CapturedIsSettled ==
  ASSUME IInv', CountInv', NEW i \in Intent, intent'[i].status = "CAPTURED"
  PROVE  Settled(i)'
<1>0. intent'[i].sale \in Sale /\ intent'[i].method \in Method
  BY DEF IInv, TypeOK, IntentsHaveSales, IntentRow
<1>1. PICK s \in Sale, m \in Method : s = intent'[i].sale /\ m = intent'[i].method
  BY <1>0
<1> DEFINE C == CapturedOf(s, m)'
<1>2. C \in SUBSET Intent /\ i \in C
  BY <1>1 DEF CapturedOf
<1>3. IsFiniteSet(C) /\ SumFunctionOnSet(AmountsOf', C) = row'[s].captured[m]
  BY DEF CountInv, CapturesCounted
<1>4. NatValued(AmountsOf', C) /\ AmountsOf'[i] = intent'[i].amount
  BY <1>2, AmountsNatNext DEF AmountsOf, IInv
<1>5. row'[s].captured[m] \in Nat /\ row'[s].paid[m] \in Nat
      /\ row'[s].captured[m] <= row'[s].paid[m]
  BY <1>1 DEF IInv, TypeOK, SaleRow, Money, SoundRows, SoundRow, CapturedIsPaid
<1> HIDE DEF C
<1>6. SumFunctionOnSet(AmountsOf', C)
        = AmountsOf'[i] + SumFunctionOnSet(AmountsOf', C \ {i})
  BY <1>2, <1>3, <1>4, SumRemove
<1>7. IsFiniteSet(C \ {i}) /\ NatValued(AmountsOf', C \ {i})
  BY <1>3, <1>4, FS_Subset DEF NatValued
<1>8. SumFunctionOnSet(AmountsOf', C \ {i}) \in Nat
  BY <1>7, SumNat
<1>9. intent'[i].amount \in Nat
  BY DEF IInv, TypeOK, IntentRow
<1>10. row'[s].paid[m] >= intent'[i].amount
  BY <1>9, <1>3, <1>4, <1>5, <1>6, <1>8
<1> QED
  BY <1>1, <1>10 DEF Settled

LEMMA CaptureSettles ==
  ASSUME IInv, CountInv, IInv', CountInv', NEW t \in Txn, CommitCapture(t),
         NEW i \in Intent, i = arg[t].intent
  PROVE  Settled(i)'
<1>1. CASE ReplayCapture(t)
  BY <1>1, CapturedIsSettled DEF ReplayCapture
<1>2. CASE FirstCapture(t)
  <2>1. intent' = [intent EXCEPT ![i].status = "CAPTURED"]
    BY <1>2 DEF FirstCapture
  <2>2. intent'[i].status = "CAPTURED"
    BY <2>1 DEF IInv, TypeOK, IntentRow
  <2> QED
    BY <2>2, CapturedIsSettled
<1> QED
  BY <1>1, <1>2 DEF CommitCapture

LEMMA CapturingInv ==
  ASSUME IInv, TermInv, Carried, NEW t \in Txn, Alone(t),
         BeginSettleCapture(t) \/ SettleCaptureLocksSale(t) \/ CaptureRefused(t)
  PROVE  TermInv'
<1>1. intent' = intent /\ UNCHANGED <<session, provider>>
  BY DEF BeginSettleCapture, SettleCaptureLocksSale, CaptureRefused, BeginCapture,
         CaptureLocksSale, Rollback, termVars, vars
<1>2. CASE Go(t, "failing") /\ term[t].at \notin {"idle", "creating"}
  BY <1>1, <1>2, SameIntents, GoInv
<1>3. CASE /\ term[t].at = "capture" /\ BeginCapture(t, Mine(t))
           /\ Go(t, "capturing")
  <2> DEFINE r == [term[t] EXCEPT !.at = "capturing"]
             a == [NoArg EXCEPT !.sale = intent[Mine(t)].sale, !.intent = Mine(t)]
  <2>1. "capturing" \in Link
    BY DEF Link
  <2>2. /\ r \in Request /\ term' = [term EXCEPT ![t] = r]
        /\ term'[t].at = "capturing" /\ term'[t].session = term[t].session
    BY <1>3, <2>1, GoesTo
  <2>3. op'[t] = "captureWaits" /\ arg'[t] = a
    BY <1>3 DEF BeginCapture, Enter, IInv, TypeOK
  <2>4. a.intent = Mine(t)
    BY DEF NoArg
  <2> HIDE DEF a
  <2>5. RequestInv(t)'
    BY <1>1, <1>3, <2>2, <2>3, <2>4 DEF RequestInv, TermInv, Mine
  <2> QED
    BY <1>1, <2>2, <2>5, SameIntents, LinkInv
<1>4. CASE term[t].at = "capturing" /\ CaptureLocksSale(t) /\ term' = term
  <2>1. op'[t] = "capture" /\ arg' = arg
    BY <1>4 DEF CaptureLocksSale, IInv, TypeOK
  <2>2. RequestInv(t)'
    BY <1>1, <1>4, <2>1 DEF RequestInv, TermInv, Mine
  <2>3. term[t] \in Request /\ term' = [term EXCEPT ![t] = term[t]]
    BY <1>4 DEF TermInv, TermTypes
  <2> QED
    BY <1>1, <2>2, <2>3, SameIntents, LinkInv
<1> QED
  BY <1>2, <1>3, <1>4 DEF BeginSettleCapture, SettleCaptureLocksSale, CaptureRefused,
                          Reached, termVars

LEMMA CapturedInv ==
  ASSUME IInv, CountInv, IInv', CountInv', TermInv, Carried, NEW t \in Txn, Alone(t),
         Captured(t)
  PROVE  TermInv'
<1>1. /\ CommitCapture(t) /\ Go(t, "saving") /\ term[t].at = "capturing"
      /\ UNCHANGED <<session, provider>>
  BY DEF Captured
<1>2. PICK i \in Intent : i = Mine(t)
  BY <1>1 DEF TermInv, RequestInv
<1>3. arg[t].intent = i /\ intent[i].status # "NONE"
  BY <1>1, <1>2 DEF TermInv, RequestInv
<1>4. Settled(i)'
  BY <1>1, <1>3, CaptureSettles
<1>5. "saving" \in Link
  BY DEF Link
<1>6. Mine(t)' = i /\ term'[t].at = "saving"
  BY <1>1, <1>2, <1>5, GoesTo DEF Mine
<1>7. RequestInv(t)'
  BY <1>3, <1>4, <1>6 DEF RequestInv, Carried
<1> QED
  BY <1>1, <1>5, <1>7, GoesTo, CommitsStay, LinkInv

LEMMA FinishedInv ==
  ASSUME IInv, TermInv, Carried, NEW t \in Txn, Alone(t), FinishIntent(t)
  PROVE  TermInv'
<1>1. /\ term[t].at = "finishing" /\ Go(t, "saving")
      /\ UNCHANGED <<session, provider>> /\ "saving" \in Link
  BY DEF FinishIntent, Reached, Link
<1>2. Mine(t) \in Intent
  BY <1>1 DEF TermInv, RequestInv
<1>3. \E status \in {"FAILED", "CANCELED"} : OverwriteIntent(Mine(t), status)
  BY DEF FinishIntent
<1>4. IntentsStay
  BY <1>2, <1>3, OverwriteTakesBack, TakesBackStay DEF TakesBackAny
<1>5. RequestInv(t)'
  BY <1>1, GoesTo DEF RequestInv, TermInv, Carried, Mine
<1> QED
  BY <1>1, <1>4, <1>5, GoesTo, LinkInv

LEMMA SavedInv ==
  ASSUME IInv, TermInv, Carried, NEW t \in Txn, Alone(t),
         SaveFailed(t) \/ SaveAnswer(t)
  PROVE  TermInv'
<1>1. PICK i \in Intent : i = Mine(t)
  BY DEF SaveFailed, SaveAnswer, Reached, TermInv, RequestInv
<1>2. PICK status \in SessionStatus :
        /\ session' = [session EXCEPT ![i].status = status]
        /\ status = "CAPTURED" => Settled(i)
  <2>1. term[t].next \in SessionStatus /\ "FAILED" \in SessionStatus
    BY DEF TermInv, TermTypes, Request, SessionStatus
  <2>2. CASE SaveFailed(t)
    BY <1>1, <2>1, <2>2 DEF SaveFailed, Save
  <2>3. CASE SaveAnswer(t)
    <3>1. term[t].next = "CAPTURED" => Settled(i)
      BY <1>1, <2>3 DEF SaveAnswer, Reached, TermInv, RequestInv, Settled
    <3> QED
      BY <1>1, <2>1, <2>3, <3>1 DEF SaveAnswer, Save
  <2> QED
    BY <2>2, <2>3
<1> DEFINE v == [session[i] EXCEPT !.status = status]
<1>3. /\ HasSession(i) /\ UNCHANGED intent /\ provider' = provider /\ Done(t)
  BY <1>1 DEF SaveFailed, SaveAnswer, vars
<1>4. /\ v \in SessionRow /\ v.status = status /\ session' = [session EXCEPT ![i] = v]
  BY <1>2 DEF TermInv, TermTypes, SessionRow
<1>5. HasIntent(i) /\ provider[i] # "none"
  BY <1>3 DEF TermInv, SessionInv
<1>6. v.status = "CAPTURED" => Settled(i)'
  BY <1>2, <1>4, <1>5 DEF Carried, HasIntent
<1>7. NoRequest \in Request /\ RequestInv(t)' /\ term' = [term EXCEPT ![t] = NoRequest]
  BY <1>3, Ends DEF Done
<1>8. ProviderStays /\ provider' \in [Intent -> Provider]
  BY <1>3 DEF ProviderStays, TermInv, TermTypes
<1> HIDE DEF v
<1> QED
  BY <1>3, <1>4, <1>5, <1>6, <1>7, <1>8, SaveInv

LEMMA OtherInv ==
  ASSUME IInv, TermInv, Carried, NEW t \in Txn, Alone(t), OtherSaleRequest(t)
  PROVE  TermInv'
<1>1. PICK lost \in Intent \cup {None} :
        session' = [i \in Intent |-> IF ~HasIntent(i)' THEN NoSession
                                     ELSE IF i = lost THEN [session[i] EXCEPT !.tendered = FALSE]
                                     ELSE session[i]]
  BY DEF OtherSaleRequest
<1>2. /\ provider' = provider /\ term' = term
      /\ term[t].at = "idle" \/ EmitCompleted(t)
  BY DEF OtherSaleRequest
<1>3. NoSession \in SessionRow /\ NoSession.status = "NONE"
  BY DEF NoSession, SessionRow, SessionStatus
<1>4. ASSUME NEW i \in Intent
      PROVE  /\ session'[i] \in SessionRow
             /\ HasIntent(i)' => session'[i].status = session[i].status
             /\ ~HasIntent(i)' => session'[i] = NoSession
  <2>1. session[i] \in SessionRow
    BY DEF TermInv, TermTypes
  <2>2. /\ [session[i] EXCEPT !.tendered = FALSE] \in SessionRow
        /\ [session[i] EXCEPT !.tendered = FALSE].status = session[i].status
    BY <2>1 DEF SessionRow
  <2> QED
    BY <1>1, <1>3, <2>1, <2>2
<1>5. TermTypes' /\ ProviderStays
  <2>1. session' \in [Intent -> SessionRow]
    BY <1>1, <1>4
  <2> QED
    BY <1>2, <2>1 DEF TermInv, TermTypes, ProviderStays
<1>6. ASSUME NEW i \in Intent PROVE SessionInv(i)'
  <2>1. CASE HasIntent(i)'
    <3>1. /\ HasSession(i)' => HasSession(i)
          /\ session'[i].status = "CAPTURED" => session[i].status = "CAPTURED"
      BY <1>4, <2>1 DEF HasSession
    <3>2. /\ HasSession(i)' => HasIntent(i) /\ provider[i] # "none"
          /\ session'[i].status = "CAPTURED" => Settled(i) /\ HasIntent(i)
      BY <3>1 DEF TermInv, SessionInv, HasSession
    <3>3. session'[i].status = "CAPTURED" => Settled(i)'
      BY <3>2 DEF Carried, HasIntent
    <3> QED
      BY <1>2, <2>1, <3>2, <3>3 DEF SessionInv
  <2>2. CASE ~HasIntent(i)'
    <3>1. session'[i] = NoSession
      BY <1>4, <2>2
    <3> QED
      BY <1>3, <3>1 DEF SessionInv, HasSession
  <2> QED
    BY <2>1, <2>2
<1>7. RequestInv(t)'
  <2>1. term[t].at # "capturing"
    BY <1>2 DEF EmitCompleted, TermInv, RequestInv
  <2> QED
    BY <1>2, <1>5, <2>1, RequestKept DEF TermInv, ProviderStays
<1> QED
  BY <1>5, <1>6, <1>7, StepInv

LEMMA CustomerInv ==
  ASSUME TermInv, Carried, NEW i \in Intent, CustomerActs(i)
  PROVE  TermInv'
<1>1. UNCHANGED <<op, arg, intent, session, term>>
  BY DEF CustomerActs, vars
<1>2. PICK outcome \in {"CAPTURED", "DECLINED"} : provider' = [provider EXCEPT ![i] = outcome]
  BY DEF CustomerActs
<1>3. ProviderStays /\ TermTypes'
  BY <1>1, <1>2 DEF TermInv, TermTypes, Provider, ProviderStays
<1>4. ASSUME NEW j \in Intent PROVE SessionInv(j)'
  BY <1>1, <1>3, SameIntents, SessionKept DEF TermInv, ProviderStays, IntentsStay
<1>5. ASSUME NEW u \in Txn PROVE RequestInv(u)'
  BY <1>1, <1>3, RequestKept DEF TermInv, ProviderStays
<1> QED
  BY <1>3, <1>4, <1>5 DEF TermInv

LEMMA CanceledInv ==
  ASSUME IInv, TermInv, Carried, NEW i \in Intent, CancelIntent(i), UNCHANGED termVars
  PROVE  TermInv'
<1>1. UNCHANGED <<op, arg, session, provider, term>>
  BY DEF CancelIntent, termVars
<1>2. ProviderStays /\ TermTypes'
  BY <1>1 DEF TermInv, TermTypes, ProviderStays
<1>3. IntentsStay
  BY CommitTerms DEF IntentsStay, HasIntent, SameTerms
<1>4. ASSUME NEW j \in Intent PROVE SessionInv(j)'
  BY <1>1, <1>2, <1>3, SessionKept DEF TermInv, ProviderStays, IntentsStay
<1>5. ASSUME NEW u \in Txn PROVE RequestInv(u)'
  BY <1>1, <1>2, RequestKept DEF TermInv, ProviderStays
<1> QED
  BY <1>2, <1>4, <1>5 DEF TermInv

LEMMA TermInvStep ==
  ASSUME IInv, CountInv, PaidFits, TermInv, IInv', CountInv', Carried, TerminalsNext
  PROVE  TermInv'
<1>1. ASSUME NEW t \in Txn, TerminalRequest(t)
      PROVE  TermInv'
  <2>1. Alone(t)
    BY <1>1, StepsAlone
  <2> QED
    BY <1>1, <2>1, OpeningInv, BegunInv, OpenedInv, GivingUpInv, HeardInv, SettleInv,
       TenderingInv, NotedInv, CapturingInv, CapturedInv, FinishedInv, SavedInv
       DEF TerminalRequest, BeginRequest, BeginSignature
<1>2. ASSUME NEW t \in Txn, OtherSaleRequest(t)
      PROVE  TermInv'
  BY <1>2, StepsAlone, OtherInv
<1> QED
  BY <1>1, <1>2, CustomerInv, CanceledInv DEF TerminalsNext

LEMMA Stuttering ==
  ASSUME IInv, CountInv, PaidFits, TermInv, UNCHANGED terminalsVars
  PROVE  IInv' /\ CountInv' /\ PaidFits' /\ TermInv'
<1>1. UNCHANGED vars /\ UNCHANGED <<session, provider, term>>
  BY DEF terminalsVars, termVars
<1>2. IInv'
  BY <1>1, NextInv
<1>3. CountInv'
  BY <1>1, <1>2, CountedStep, HeldStep DEF CountInv
<1>4. PaidFits'
  BY <1>1, PaidFitsStep
<1>5. TermInv'
  BY <1>1 DEF TermInv, TermTypes, SessionInv, RequestInv, HasSession, HasIntent, Settled,
     Mine, vars
<1> QED
  BY <1>2, <1>3, <1>4, <1>5

-----------------------------------------------------------------------------
(* Requests one at a time.                                                  *)

(* Which links of a chain write a session, and whose.                       *)
LEMMA SessionWritten ==
  ASSUME TermInv, NEW t \in Txn, TerminalRequest(t)
  PROVE  \/ session' = session
         \/ /\ Mine(t) \in Intent /\ term[t].at \in {"opening", "failing", "saving"}
            /\ Done(t) /\ \E v : session' = [session EXCEPT ![Mine(t)] = v]
         \/ NoteTender(t)
<1>1. OpenSession(t) \/ SaveFailed(t) \/ SaveAnswer(t)
        => /\ Mine(t) \in Intent /\ term[t].at \in {"opening", "failing", "saving"}
           /\ Done(t) /\ \E status : session' = [session EXCEPT ![Mine(t)].status = status]
  BY DEF OpenSession, SaveFailed, SaveAnswer, Save, Reached, TermInv, RequestInv
<1>2. \A i \in Intent : \A status :
        [session EXCEPT ![i].status = status]
          = [session EXCEPT ![i] = [session[i] EXCEPT !.status = status]]
  BY DEF TermInv, TermTypes
<1>3. OpenSession(t) \/ SaveFailed(t) \/ SaveAnswer(t)
        => \E v : session' = [session EXCEPT ![Mine(t)] = v]
  BY <1>1, <1>2
<1>4. \/ OpenSession(t) \/ SaveFailed(t) \/ SaveAnswer(t) \/ NoteTender(t)
      \/ session' = session
  BY DEF TerminalRequest, BeginTerminalSale, BeginRequest, BeginSignature, Ask,
     TerminalIntentCreated, OpeningFails, ProviderAnswers, ProviderCancels,
     SignatureAnswered, Settle, BeginTender, TenderAdded, TenderRefused, NotingFails,
     BeginSettleCapture, SettleCaptureLocksSale, Captured, CaptureRefused,
     FinishIntent, SessionGone, AbandonRequest, termVars
<1> QED
  BY <1>1, <1>3, <1>4

LEMMA NotedStatus ==
  ASSUME TermInv, NEW t \in Txn, NoteTender(t)
  PROVE  \A i \in Intent : session'[i].status = session[i].status
<1>1. Mine(t) \in Intent
  BY DEF NoteTender, Reached, TermInv, RequestInv
<1> QED
  BY <1>1 DEF NoteTender, TermInv, TermTypes, SessionRow

(* The sessions that other requests leave or delete.                        *)
LEMMA SessionsDropped ==
  ASSUME TermInv, NEW t \in Txn, OtherSaleRequest(t), NEW i \in Intent
  PROVE  session'[i].status \in {session[i].status, "NONE"}
<1>1. PICK lost : session' = [j \in Intent |->
                                IF ~HasIntent(j)' THEN NoSession
                                ELSE IF j = lost THEN [session[j] EXCEPT !.tendered = FALSE]
                                ELSE session[j]]
  BY DEF OtherSaleRequest
<1>2. [session[i] EXCEPT !.tendered = FALSE].status = session[i].status
  BY DEF TermInv, TermTypes, SessionRow
<1> QED
  BY <1>1, <1>2 DEF NoSession

(* A request that begins makes its sender busy; one in progress is alone.   *)
LEMMA OthersReady ==
  ASSUME TermInv, SerialInv, ~overlapped, ~RequestsOverlap', NEW t \in Txn,
         TerminalRequest(t), Alone(t), NEW u \in Txn \ {t}
  PROVE  term'[u].at = "idle"
<1>1. term'[u] = term[u]
  BY DEF Alone
<1>2. CASE ~Ready(t)
  BY <1>1, <1>2 DEF SerialInv, RequestsOverlap, Ready
<1>3. CASE Ready(t)
  <2>1. \/ \E s \in Sale, a \in Amounts : BeginTerminalSale(t, s, a)
        \/ \E i \in Intent, link \in {"asking", "canceling"} : BeginRequest(t, i, link)
        \/ \E i \in Intent : BeginSignature(t, i)
    BY <1>3 DEF Ready, TerminalRequest, TerminalIntentCreated, OpenSession, OpeningFails,
       ProviderAnswers, ProviderCancels, SignatureAnswered, Settle, BeginTender,
       TenderAdded, TenderRefused, NoteTender, NotingFails, BeginSettleCapture, SettleCaptureLocksSale, Captured, CaptureRefused,
       SaveFailed, FinishIntent, SaveAnswer, SessionGone, AbandonRequest, Reached
  <2>2. term'[t].at # "idle"
    <3>1. term \in [Txn -> Request]
      BY DEF TermInv, TermTypes
    <3>2. CASE \E s \in Sale, a \in Amounts : BeginTerminalSale(t, s, a)
      BY <3>1, <3>2 DEF BeginTerminalSale, Go, Request
    <3>3. CASE \/ \E i \in Intent, link \in {"asking", "canceling"} : BeginRequest(t, i, link)
               \/ \E i \in Intent : BeginSignature(t, i)
      BY <3>1, <3>3 DEF BeginRequest, BeginSignature, Ask, NoRequest
    <3> QED
      BY <2>1, <3>2, <3>3
  <2> QED
    BY <1>1, <2>2 DEF RequestsOverlap, Ready
<1> QED
  BY <1>2, <1>3

(* The request itself.                                                      *)
LEMMA MovesOn ==
  ASSUME TermInv, NEW t \in Txn, SerialRequest(t),
         term[t].at \notin {"idle", "creating", "opening"},
         session' = session \/ NoteTender(t),
         term'[t].at # "opening", term'[t].session = term[t].session
  PROVE  SerialRequest(t)'
<1>1. PICK i \in Intent : i = Mine(t)
  BY DEF TermInv, RequestInv
<1>2. session'[i].status = session[i].status
  BY <1>1, NotedStatus
<1>3. Mine(t)' = i
  BY <1>1 DEF Mine
<1> QED
  BY <1>1, <1>2, <1>3 DEF SerialRequest

LEMMA SerialRequestKept ==
  ASSUME IInv, TermInv, ~mock, NEW t \in Txn, SerialRequest(t), TerminalRequest(t)
  PROVE  SerialRequest(t)'
<1>1. Done(t) => SerialRequest(t)'
  <2>1. Done(t) => term'[t].at = "idle"
    BY DEF Done, NoRequest, TermInv, TermTypes
  <2> QED
    BY <2>1 DEF SerialRequest
<1>2. CASE \E s \in Sale, a \in Amounts : BeginTerminalSale(t, s, a)
  BY <1>2 DEF BeginTerminalSale, Go, TermInv, TermTypes, Request, SerialRequest
<1>3. CASE \E i \in Intent, link \in {"asking", "canceling"} : BeginRequest(t, i, link)
  <2>1. PICK i \in Intent, link \in {"asking", "canceling"} : BeginRequest(t, i, link)
    BY <1>3
  <2>2. term'[t].at = link /\ term'[t].session = i /\ session' = session
    BY <2>1 DEF BeginRequest, Ask, NoRequest, TermInv, TermTypes
  <2>3. session[i].status \notin Final
    BY <2>1 DEF BeginRequest
  <2> QED
    BY <2>2, <2>3 DEF SerialRequest, Mine
<1>4. CASE TerminalIntentCreated(t)
  <2>1. PICK i \in Intent :
          /\ intent[i].status = "NONE"
          /\ term' = [term EXCEPT ![t].at = "opening", ![t].session = i]
    BY <1>4 DEF TerminalIntentCreated
  <2>2. term'[t].at = "opening" /\ term'[t].session = i
    BY <2>1 DEF TermInv, TermTypes, Request
  <2>3. session' = session /\ session[i].status = "NONE"
    BY <1>4, <2>1 DEF TerminalIntentCreated, TermInv, SessionInv, HasSession, HasIntent
  <2> QED
    BY <2>2, <2>3 DEF SerialRequest, Mine
<1>5. CASE ProviderAnswers(t) \/ ProviderCancels(t) \/ SignatureAnswered(t)
  <2>1. /\ term[t].at \in {"asking", "canceling", "signing"} /\ session' = session
        /\ \E answer : Heard(t, answer)
    BY <1>5 DEF ProviderAnswers, ProviderCancels, SignatureAnswered, Reached
  <2>2. term'[t].at \in {"settling", "finishing", "saving"}
        /\ term'[t].session = term[t].session
    BY <2>1 DEF Heard, TermInv, TermTypes, Request
  <2> QED
    BY <2>1, <2>2, MovesOn
<1>6. CASE \/ Settle(t) \/ BeginTender(t) \/ TenderAdded(t) \/ TenderRefused(t)
           \/ NoteTender(t) \/ NotingFails(t) \/ BeginSettleCapture(t)
           \/ SettleCaptureLocksSale(t) \/ Captured(t) \/ CaptureRefused(t) \/ FinishIntent(t)
  <2>1. /\ term[t].at \notin {"idle", "creating", "opening"}
        /\ session' = session \/ NoteTender(t)
    BY <1>6 DEF Settle, BeginTender, TenderAdded, TenderRefused, NoteTender, NotingFails,
       BeginSettleCapture, SettleCaptureLocksSale, Captured, CaptureRefused, FinishIntent,
       Reached, termVars
  <2>2. term' = term \/ \E link \in {"saving", "capture", "tender", "tendering", "failing",
                                     "noting", "capturing"} : Go(t, link)
    BY <1>6 DEF Settle, BeginTender, TenderAdded, TenderRefused, NoteTender, NotingFails,
       BeginSettleCapture, SettleCaptureLocksSale, Captured, CaptureRefused, FinishIntent,
       termVars
  <2>3. term'[t].at # "opening" /\ term'[t].session = term[t].session
    BY <2>1, <2>2 DEF Go, TermInv, TermTypes, Request
  <2> QED
    BY <2>1, <2>3, MovesOn
<1>7. CASE \/ OpenSession(t) \/ OpeningFails(t) \/ SaveFailed(t) \/ SaveAnswer(t)
           \/ SessionGone(t) \/ AbandonRequest(t)
  BY <1>1, <1>7 DEF OpenSession, OpeningFails, SaveFailed, SaveAnswer, SessionGone,
                    AbandonRequest
<1>8. ~\E i \in Intent : BeginSignature(t, i)
  BY DEF BeginSignature
<1> QED
  BY <1>2, <1>3, <1>4, <1>5, <1>6, <1>7, <1>8 DEF TerminalRequest

LEMMA RequestsSerialStep ==
  ASSUME IInv, TermInv, SerialInv, [TerminalsNext]_terminalsVars
  PROVE  SerialInv'
<1>1. CASE TerminalsNext
  <2>1. overlapped' = (overlapped \/ RequestsOverlap') /\ mock' = mock
    BY <1>1 DEF TerminalsNext
  <2>2. SUFFICES ASSUME ~overlapped, ~mock, ~RequestsOverlap', NEW u \in Txn
                 PROVE  SerialRequest(u)'
    BY <2>1 DEF SerialInv
  <2>3. SerialRequest(u)
    BY <2>2 DEF SerialInv
  <2>4. ASSUME NEW t \in Txn, TerminalRequest(t) PROVE SerialRequest(u)'
    <3>1. CASE u = t
      BY <2>2, <2>3, <2>4, <3>1, SerialRequestKept
    <3>2. CASE u # t
      <4>1. term'[u].at = "idle"
        BY <2>2, <2>4, <3>2, StepsAlone, OthersReady
      <4> QED
        BY <4>1 DEF SerialRequest
    <3> QED
      BY <3>1, <3>2
  <2>5. ASSUME term' = term,
               \A i \in Intent : session'[i].status \in {session[i].status, "NONE"}
        PROVE  SerialRequest(u)'
    <3>1. term[u].at \notin {"idle", "creating"} => Mine(u) \in Intent
      BY DEF TermInv, RequestInv
    <3>2. Mine(u)' = Mine(u)
      BY <2>5 DEF Mine
    <3>3. "NONE" \notin Final
      BY DEF Final
    <3> QED
      BY <2>3, <2>5, <3>1, <3>2, <3>3 DEF SerialRequest
  <2>6. ASSUME NEW t \in Txn, OtherSaleRequest(t) PROVE SerialRequest(u)'
    <3>1. term' = term
      BY <2>6 DEF OtherSaleRequest
    <3>2. \A i \in Intent : session'[i].status \in {session[i].status, "NONE"}
      BY <2>6, SessionsDropped
    <3> QED
      BY <2>5, <3>1, <3>2
  <2>7. CASE \/ \E i \in Intent : CustomerActs(i)
             \/ (\E i \in Intent : CancelIntent(i)) /\ UNCHANGED termVars
    BY <2>5, <2>7 DEF CustomerActs, termVars
  <2> QED
    BY <1>1, <2>4, <2>6, <2>7 DEF TerminalsNext
<1>2. CASE UNCHANGED terminalsVars
  BY <1>2 DEF terminalsVars, termVars, vars, SerialInv, RequestsOverlap, Ready,
              SerialRequest, Mine
<1> QED
  BY <1>1, <1>2

-----------------------------------------------------------------------------
(* The initial states.                                                      *)
LEMMA PaidFitsInit == ASSUME Init PROVE PaidFits
<1> SUFFICES ASSUME NEW s \in Sale PROVE Amount(row[s].paid) <= Total[s]
  BY DEF PaidFits
<1>1. Total[s] \in Nat /\ OpenRow \in SaleRow /\ Amount(OpenRow.paid) = 0
  BY TotalAssumption, RowType DEF OpenRow, NoMoney, Amount, Method
<1>2. ASSUME NEW m \in Method
      PROVE  Amount(WithPayment(OpenRow, m, Total[s]).paid) = Total[s]
  <2> DEFINE p == WithPayment(OpenRow, m, Total[s]).paid
  <2>1. p = [NoMoney EXCEPT ![m] = @ + Total[s]]
    BY <1>1, WithPaymentFields DEF OpenRow
  <2>2. /\ p[m] = Total[s]
        /\ \A n \in Method \ {m} : p[n] = 0
    BY <1>1, <2>1 DEF NoMoney
  <2> HIDE DEF p
  <2>3. m = "CASH" \/ m = "CARD"
    BY DEF Method
  <2>4. Amount(p) = Total[s]
    BY <1>1, <2>2, <2>3 DEF Amount, Method
  <2> QED
    BY <2>4 DEF p
<1> QED
  BY <1>1, <1>2 DEF Init, CheckedOut

LEMMA TerminalsInitInv == ASSUME TerminalsInit PROVE ChainInv
<1>1. IInv /\ CountInv /\ PaidFits
  BY InitInv, InitCounted, PaidFitsInit DEF TerminalsInit
<1>2. /\ NoSession \in SessionRow /\ NoSession.status = "NONE"
      /\ NoRequest \in Request /\ NoRequest.at = "idle"
  BY DEF NoSession, SessionRow, SessionStatus, NoRequest, Request, Link
<1>3. TermInv
  BY <1>2 DEF TerminalsInit, TermInv, TermTypes, SessionInv, RequestInv, HasSession, Provider
<1>4. SerialInv
  BY <1>2 DEF TerminalsInit, Init, SerialInv, RequestsOverlap, Ready, SerialRequest
<1> QED
  BY <1>1, <1>3, <1>4 DEF ChainInv

LEMMA ChainStep == ChainInv /\ [TerminalsNext]_terminalsVars => ChainInv'
<1>1. ChainInv /\ TerminalsNext => ChainInv'
  BY BaseStep, TermInvStep, RequestsSerialStep DEF ChainInv
<1>2. ChainInv /\ UNCHANGED terminalsVars => ChainInv'
  BY Stuttering, RequestsSerialStep DEF ChainInv
<1> QED
  BY <1>1, <1>2

(* Requests to the terminals, customers, and requests to the sales they     *)
(* pay: however they interleave and wherever a chain of transactions stops, *)
(* each keeps what it knew when it began, and so do the rows it left.       *)
THEOREM TerminalsInvariance == TerminalsSpec => []ChainInv
BY TerminalsInitInv, ChainStep, PTL DEF TerminalsSpec

(* updateSessionFromProviderState: a session is CAPTURED only when its      *)
(* money is in the payments of the sale, or the sale was completed without  *)
(* it, though the sessions, the intents and the payments are written in     *)
(* separate transactions and a captured intent may be taken back.           *)
THEOREM CapturedSessionsPaid == TerminalsSpec => []CapturedSessionIsPaid
<1>1. ChainInv => CapturedSessionIsPaid
  <2> SUFFICES ASSUME ChainInv, NEW i \in Intent, session[i].status = "CAPTURED"
               PROVE  \/ row[intent[i].sale].status = "completed"
                      \/ row[intent[i].sale].paid[intent[i].method] >= intent[i].amount
    BY DEF CapturedSessionIsPaid
  <2>1. HasIntent(i) /\ Settled(i)
    BY DEF ChainInv, TermInv, SessionInv, HasSession
  <2> QED
    BY <2>1 DEF HasIntent, Settled
<1> QED
  BY <1>1, TerminalsInvariance, PTL

(* markCoreIntentFinished: a captured intent that is taken back leaves its  *)
(* payment, and what is outstanding is counted from the payments, so no     *)
(* series of intents charges a sale for more than its total.                *)
THEOREM PaidBounded == TerminalsSpec => []PaidWithinTotal
<1>1. ChainInv => PaidWithinTotal
  BY DEF ChainInv, PaidFits, PaidWithinTotal
<1> QED
  BY <1>1, TerminalsInvariance, PTL

(* completeSaleIfEligibleTx and upsertSalePaymentForIntentTx beside the     *)
(* terminals: although captured intents are taken back without a look at   *)
(* their status, a completed sale stays covered, and the payments made for *)
(* captured intents still add up to those that are captured.               *)
THEOREM TerminalSalesCovered ==
  TerminalsSpec => [](CompletedSaleIsCovered /\ OnePaymentPerCapturedIntent)
<1>1. ChainInv => CompletedSaleIsCovered
  BY DEF ChainInv, IInv, SoundRows, SoundRow, Covered, CompletedSaleIsCovered
<1>2. ChainInv => OnePaymentPerCapturedIntent
  BY DEF ChainInv, IInv, SoundRows, SoundRow, CapturedIsPaid, CountInv, CapturesCounted,
         CapturedOf, AmountsOf, OnePaymentPerCapturedIntent
<1> QED
  BY <1>1, <1>2, TerminalsInvariance, PTL

(* isFinalStatus: a request that read the session before another one ended  *)
(* it can change it again, and in mock mode so can a signature response.    *)
(* With a live provider and while no two requests overlap, a final session  *)
(* only ever goes with its sale.                                            *)
THEOREM FinalSessionsStay == TerminalsSpec => FinalSessionStays
<1> DEFINE Stays == \A i \in Intent : ~mock /\ ~overlapped /\ session[i].status \in Final
                      => session'[i].status \in {session[i].status, "NONE"}
<1>1. ASSUME ChainInv, TerminalsNext
      PROVE  Stays
  <2> SUFFICES ASSUME NEW i \in Intent, ~mock, ~overlapped, session[i].status \in Final
               PROVE  session'[i].status \in {session[i].status, "NONE"}
    OBVIOUS
  <2>1. TermInv /\ \A t \in Txn : SerialRequest(t)
    BY <1>1 DEF ChainInv, SerialInv
  <2>2. ASSUME NEW t \in Txn, TerminalRequest(t)
        PROVE  session'[i].status = session[i].status
    <3>1. CASE session' = session \/ NoteTender(t)
      BY <2>1, <3>1, NotedStatus
    <3>2. CASE /\ term[t].at \in {"opening", "failing", "saving"}
               /\ \E v : session' = [session EXCEPT ![Mine(t)] = v]
      <4>1. Mine(t) # i
        BY <2>1, <3>2 DEF SerialRequest, Final
      <4> QED
        BY <2>1, <3>2, <4>1 DEF TermInv, TermTypes
    <3> QED
      BY <2>1, <2>2, <3>1, <3>2, SessionWritten
  <2>3. ASSUME NEW t \in Txn, OtherSaleRequest(t)
        PROVE  session'[i].status \in {session[i].status, "NONE"}
    BY <2>1, <2>3, SessionsDropped
  <2>4. CASE \/ \E j \in Intent : CustomerActs(j)
             \/ (\E j \in Intent : CancelIntent(j)) /\ UNCHANGED termVars
    BY <2>4 DEF CustomerActs, termVars
  <2> QED
    BY <1>1, <2>2, <2>3, <2>4 DEF TerminalsNext
<1>2. ChainInv /\ [TerminalsNext]_terminalsVars => [Stays]_session
  BY <1>1 DEF terminalsVars, termVars
<1> QED
  BY <1>2, TerminalsInvariance, PTL DEF FinalSessionStays, TerminalsSpec
=============================================================================
