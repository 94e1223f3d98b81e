----------------------- MODULE OrderPayments_proofs -----------------------
(***************************************************************************)
(* Theorems of OrderPayments for every set of orders, attempts and         *)
(* workers.                                                                *)
(***************************************************************************)
EXTENDS OrderPayments, TLAPS

USE DEF Keep, Job, Idle, NoWrite

LEMMA InitType == Init => TypeOK
BY ConstantsAssumption
   DEF Init, TypeOK, JobType, OrderStatus, PaymentStatus, Announcements

LEMMA StartType ==
  ASSUME TypeOK, NEW w \in Workers, NEW j \in JobType, Start(w, j)
  PROVE  TypeOK'
BY DEF TypeOK, Start, rows, provider

LEMMA GotoPaymentType ==
  ASSUME TypeOK, NEW w \in Workers, NEW wr \in Write, job[w] \in PaymentJob,
         NEW at \in {"stock", "commit", "after"}, Goto(w, at, wr)
  PROVE  job' \in [Workers -> JobType]
BY DEF TypeOK, Goto, JobType, PaymentJob

LEMMA GotoOrderType ==
  ASSUME TypeOK, NEW w \in Workers, NEW wr \in Write, job[w] \in OrderJob,
         NEW at \in {"commit", "cancel"}, Goto(w, at, wr)
  PROVE  job' \in [Workers -> JobType]
BY DEF TypeOK, Goto, JobType, OrderJob

LEMMA FinishType ==
  ASSUME TypeOK, NEW w \in Workers, Finish(w)
  PROVE  job' \in [Workers -> JobType]
BY DEF TypeOK, Finish, JobType

LEMMA SettleType ==
  ASSUME TypeOK, NEW w \in Workers, NEW p \in Payments,
         NEW op \in SettleOps, Settle(w, op, p)
  PROVE  TypeOK'
<1>1. Job(op, "begin", p, NoWrite) \in JobType
  BY DEF JobType, PaymentJob, PaymentOps, Write
<1>2. QED
  BY <1>1, StartType DEF Settle

\* A job that is not idle runs on a payment or on an order.
LEMMA JobKinds ==
  ASSUME TypeOK, NEW w \in Workers, job[w].op # "idle"
  PROVE  \/ job[w] \in PaymentJob /\ job[w].op \notin OrderOps
         \/ job[w] \in OrderJob /\ job[w].op \notin PaymentOps
<1>1. job[w] \in JobType /\ job[w] # Idle
  BY DEF TypeOK
<1>2. QED
  BY <1>1 DEF JobType, PaymentJob, OrderJob, PaymentOps, OrderOps, SettleOps

\* A refused confirmation changes no row: it starts a hold on an attempt still
\* open, or nothing.
LEMMA RefusedStep ==
  ASSUME TypeOK, NEW w \in Workers, NEW p \in Payments, WebhookRefused(w, p)
  PROVE  /\ UNCHANGED <<orderStatus, orderPaid, stock, taken, payStatus, receipts>>
         /\ UNCHANGED <<deadline, reports>>
         /\ holds' \in [Payments -> 0..MaxHolds]
         /\ payStatus[p] # "none" /\ ProviderOf[p] = "BICTORYS"
         /\ \A v \in Workers \ {w} : job'[v] = job[v]
         /\ \/ /\ payStatus[p] \in OpenStatuses
               /\ job' = [job EXCEPT ![w] = Job("hold", "write", p, NoWrite)]
               /\ job'[w] = Job("hold", "write", p, NoWrite)
            \/ job' = job /\ job'[w] = Idle
<1>1. PICK q \in Payments : Refused(q, p)
  BY DEF WebhookRefused
<1>2. /\ UNCHANGED <<orderStatus, orderPaid, stock, taken, payStatus, receipts>>
      /\ UNCHANGED <<deadline, reports>>
  BY <1>1 DEF Refused, rows, provider
<1>3. holds' \in [Payments -> 0..MaxHolds]
  <2>1. holds[q] \in 0..MaxHolds /\ MaxHolds \in Nat /\ holds[q] < MaxHolds
    BY <1>1, ConstantsAssumption DEF Refused, TypeOK
  <2>2. holds[q] + 1 \in 0..MaxHolds
    BY <2>1
  <2>3. QED
    BY <1>1, <2>2 DEF Refused, TypeOK
<1>4. payStatus[p] # "none" /\ ProviderOf[p] = "BICTORYS"
  BY <1>1, ConstantsAssumption DEF Refused, Matches, FindBictorysPayment, Exists
<1>5. CASE payStatus[p] \in OpenStatuses
  <2>1. job' = [job EXCEPT ![w] = Job("hold", "write", p, NoWrite)]
    BY <1>5 DEF WebhookRefused
  <2>2. QED
    BY <1>2, <1>3, <1>4, <1>5, <2>1 DEF TypeOK
<1>6. CASE payStatus[p] \notin OpenStatuses
  <2>1. job' = job /\ job[w] = Idle
    BY <1>6 DEF WebhookRefused
  <2>2. QED
    BY <1>2, <1>3, <1>4, <2>1
<1>7. QED
  BY <1>5, <1>6

LEMMA EnvironmentType ==
  ASSUME TypeOK, NEW p \in Payments, Report(p) \/ Age(p)
  PROVE  TypeOK'
<1>1. CASE Report(p)
  BY <1>1 DEF Report, TypeOK, rows, Announcements
<1>2. CASE Age(p)
  BY <1>2 DEF Age, TypeOK, rows
<1>3. QED
  BY <1>1, <1>2

LEMMA BeginType ==
  ASSUME TypeOK, NEW w \in Workers, Begin(w)
  PROVE  TypeOK'
<1>1. ASSUME NEW p \in Payments, InitiatePayment(w, p)
      PROVE  TypeOK'
  <2>1. Job("initiate", "create", p, NoWrite) \in JobType
    BY DEF JobType, PaymentJob, PaymentOps, Write
  <2>2. QED
    BY <1>1, <2>1, StartType DEF InitiatePayment
<1>2. ASSUME NEW p \in Payments,
             \/ WebhookSuccess(w, p) \/ WebhookFailed(w, p) \/ WebhookExpired(w, p)
             \/ VerifyPayment(w, p)
             \/ ReconcilePaid(w, p) \/ ReconcileFailed(w, p) \/ ReconcileExpired(w, p)
      PROVE  TypeOK'
  <2>1. \E op \in SettleOps : Settle(w, op, p)
    BY <1>2 DEF WebhookSuccess, WebhookFailed, WebhookExpired, VerifyPayment,
                ReconcilePaid, ReconcileFailed, ReconcileExpired,
                ConfirmPayment, MarkPaymentFailed, MarkPaymentExpired, SettleOps
  <2>2. QED
    BY <2>1, SettleType
<1>3. ASSUME NEW p \in Payments, WebhookRefused(w, p)
      PROVE  TypeOK'
  <2>1. Job("hold", "write", p, NoWrite) \in JobType
    BY DEF JobType, PaymentJob, PaymentOps, Write
  <2>2. /\ UNCHANGED <<orderStatus, orderPaid, stock, taken, payStatus, receipts>>
        /\ UNCHANGED <<deadline, reports>>
        /\ holds' \in [Payments -> 0..MaxHolds]
        /\ \/ job' = [job EXCEPT ![w] = Job("hold", "write", p, NoWrite)]
           \/ job' = job
    BY <1>3, RefusedStep
  <2>3. job' \in [Workers -> JobType]
    BY <2>1, <2>2 DEF TypeOK
  <2>4. QED
    BY <2>2, <2>3 DEF TypeOK
<1>4. ASSUME NEW o \in Orders, NEW wr \in Write, ChangeOrder(w, o, wr)
      PROVE  TypeOK'
  <2>1. Job("order", "commit", o, wr) \in JobType
    BY DEF JobType, OrderJob, OrderOps
  <2>2. QED
    BY <1>4, <2>1, StartType DEF ChangeOrder
<1>5. ASSUME NEW o \in Orders, CancelMyOrder(w, o)
      PROVE  TypeOK'
  BY <1>5, <1>4 DEF CancelMyOrder, Write, OrderStatus, PaymentStatus
<1>6. ASSUME NEW o \in Orders, UpdateStatus(w, o)
      PROVE  TypeOK'
  <2>1. ASSUME NEW s \in StaffStatuses PROVE StatusWrite(s) \in Write
    BY ConstantsAssumption DEF StatusWrite, Write
  <2>2. QED
    BY <1>4, <1>6, <2>1 DEF UpdateStatus
<1>7. ASSUME NEW o \in Orders, UpdatePaymentStatus(w, o)
      PROVE  TypeOK'
  <2>1. ASSUME NEW s \in StaffPaymentStatuses, NEW op \in {"staffFail", "order"}
        PROVE  Job(op, "commit", o, [status |-> Keep, paid |-> s, take |-> 0]) \in JobType
    BY ConstantsAssumption DEF JobType, OrderJob, OrderOps, Write
  <2>2. QED
    BY <1>7, <2>1, StartType DEF UpdatePaymentStatus
<1>8. QED
  BY <1>1, <1>2, <1>3, <1>5, <1>6, <1>7 DEF Begin

LEMMA CommitType ==
  ASSUME TypeOK, NEW w \in Workers, Commit(w)
  PROVE  TypeOK'
<1>1. \/ job[w] \in PaymentJob /\ job[w].op \notin OrderOps
      \/ job[w] \in OrderJob /\ job[w].op \notin PaymentOps
  BY JobKinds DEF Commit, TypeOK, JobType, PaymentJob, OrderJob, PaymentOps, OrderOps, SettleOps
<1>2. job[w].write \in Write /\ OrderAt(w) \in Orders
  BY <1>1, ConstantsAssumption DEF PaymentJob, OrderJob, OrderAt
<1>3. orderStatus' \in [Orders -> OrderStatus]
  BY <1>2 DEF Commit, TypeOK, Written, Write
<1>4. orderPaid' \in [Orders -> PaymentStatus]
  BY <1>2 DEF Commit, TypeOK, Written, Write
<1>5. stock' \in Int /\ taken' \in [Orders -> Int]
  <2>1. job[w].write.take * Units[OrderAt(w)] \in Int
    BY <1>2, ConstantsAssumption DEF Write
  <2>2. QED
    BY <1>2, <2>1 DEF Commit, TypeOK
<1>6. payStatus' \in [Payments -> {"none", "PENDING", "PROCESSING", "PAID", "FAILED", "EXPIRED"}]
  BY DEF Commit, TypeOK, Settled, SettleOps
<1>7. job' \in [Workers -> JobType]
  <2>1. NoWrite \in Write
    BY DEF Write
  <2>2. CASE job[w].op = "confirm"
    BY <1>1, <2>1, <2>2, GotoPaymentType DEF Commit, PaymentOps, SettleOps, OrderJob
  <2>3. CASE job[w].op = "staffFail"
    BY <1>1, <2>1, <2>3, GotoOrderType DEF Commit, OrderOps, PaymentJob
  <2>4. CASE job[w].op \notin {"confirm", "staffFail"}
    BY <2>4, FinishType DEF Commit
  <2>5. QED
    BY <2>2, <2>3, <2>4
<1>8. QED
  BY <1>3, <1>4, <1>5, <1>6, <1>7 DEF Commit, TypeOK, provider

LEMMA ContinueType ==
  ASSUME TypeOK, NEW w \in Workers, Continue(w) \/ Die(w)
  PROVE  TypeOK'
<1>1. CASE CreatePayment(w)
  <2>1. job[w] \in PaymentJob
    BY <1>1, JobKinds DEF CreatePayment, OrderJob, OrderOps, PaymentOps
  <2>2. InitiationWrite(job[w].on) \in Write
    BY DEF InitiationWrite, Write, OrderStatus, PaymentStatus
  <2>3. job' \in [Workers -> JobType]
    BY <1>1, <2>1, <2>2, GotoPaymentType DEF CreatePayment
  <2>4. QED
    BY <1>1, <2>3 DEF CreatePayment, TypeOK, provider
<1>2. CASE HoldPayment(w)
  <2>1. job' \in [Workers -> JobType]
    BY <1>2, FinishType DEF HoldPayment
  <2>2. QED
    BY <1>2, <2>1 DEF HoldPayment, TypeOK, provider
<1>3. CASE StaffCancel(w)
  <2>1. job[w] \in OrderJob
    BY <1>3, JobKinds DEF StaffCancel, PaymentJob, OrderOps, PaymentOps
  <2>2. Job("order", "commit", job[w].on, StatusWrite("CANCELLED")) \in JobType
    BY <2>1 DEF JobType, OrderJob, OrderOps, StatusWrite, Write, OrderStatus
  <2>3. job' \in [Workers -> JobType]
    BY <1>3, <2>2, FinishType DEF StaffCancel, TypeOK
  <2>4. QED
    BY <1>3, <2>3 DEF StaffCancel, TypeOK, rows, provider
<1>4. CASE LoseRace(w) \/ Die(w)
  <2>1. job' \in [Workers -> JobType]
    BY <1>4, FinishType DEF LoseRace, Die
  <2>2. QED
    BY <1>4, <2>1 DEF LoseRace, Die, Locking, TypeOK, rows, provider
<1>5. CASE ConfirmTx(w) \/ ReserveStock(w) \/ FailTx(w) \/ ExpireTx(w)
  <2>1. job[w] \in PaymentJob
    BY <1>5, JobKinds DEF ConfirmTx, ReserveStock, FailTx, ExpireTx, Locking,
                          OrderJob, OrderOps, PaymentOps, SettleOps
  <2>2. \E at \in {"stock", "commit"}, wr \in Write : Goto(w, at, wr)
    BY <1>5 DEF ConfirmTx, ReserveStock, FailTx, ExpireTx, ConfirmWrite,
                CancelWrite, Settled, Write, OrderStatus, PaymentStatus
  <2>3. job' \in [Workers -> JobType]
    BY <2>1, <2>2, GotoPaymentType
  <2>4. QED
    BY <1>5, <2>3 DEF ConfirmTx, ReserveStock, FailTx, ExpireTx, Locking,
                      TypeOK, rows, provider
<1>6. CASE Commit(w)
  BY <1>6, CommitType
<1>7. CASE SendReceipt(w)
  <2>1. job' \in [Workers -> JobType]
    BY <1>7, FinishType DEF SendReceipt
  <2>2. receipts' \in [Payments -> 0..2]
    <3>1. \A n \in 0..2 : (IF n = 0 THEN 1 ELSE 2) \in 0..2
      OBVIOUS
    <3>2. job[w].on \in Payments
      BY <1>7, JobKinds DEF SendReceipt, PaymentJob, OrderJob, OrderOps
    <3>3. QED
      BY <1>7, <3>1, <3>2 DEF SendReceipt, TypeOK
  <2>3. QED
    BY <1>7, <2>1, <2>2 DEF SendReceipt, TypeOK, provider
<1>8. QED
  BY <1>1, <1>2, <1>3, <1>4, <1>5, <1>6, <1>7 DEF Continue

LEMMA NextType ==
  ASSUME TypeOK, [Next]_vars
  PROVE  TypeOK'
<1>1. CASE UNCHANGED vars
  BY <1>1 DEF TypeOK, vars, rows, provider
<1>2. CASE Next
  BY <1>2, EnvironmentType, BeginType, ContinueType DEF Next
<1>3. QED
  BY <1>1, <1>2

\* Whatever handlers interleave, every row and every handler in progress stays
\* well formed; in particular a handler in progress names the row it works on.
THEOREM TypeCorrect == Spec => []TypeOK
BY InitType, NextType, PTL DEF Spec

-----------------------------------------------------------------------------
(* Settlement: the row locks and the WHERE clauses make confirmation        *)
(* happen once.                                                            *)

\* A step that gives w a job without a row lock, an insert, a hold or a receipt
\* to send disturbs nothing.
LEMMA QuietStep ==
  ASSUME SettlementInv, NEW w \in Workers,
         \A v \in Workers \ {w} : job'[v] = job[v],
         UNCHANGED <<payStatus, receipts>>,
         ~(job'[w].op \in SettleOps /\ job'[w].at \in {"stock", "commit", "after"}),
         ~(job'[w].op = "initiate" /\ job'[w].at = "create"),
         job'[w].op # "hold"
  PROVE  SettlementInv'
<1>1. \A v \in Workers \ {w} : job'[v] = job[v]
  OBVIOUS
<1>2. RowLocks'
  BY <1>1 DEF SettlementInv, RowLocks, HoldsRow
<1>3. RowInserts'
  BY <1>1 DEF SettlementInv, RowInserts, Creating
<1>4. OneReceipt'
  BY <1>1 DEF SettlementInv, OneReceipt, Confirmed, SettleOps, Guarded
<1>5. QED
  BY <1>2, <1>3, <1>4 DEF SettlementInv

LEMMA SettlementBegin ==
  ASSUME TypeOK, SettlementInv, NEW w \in Workers, Begin(w)
  PROVE  SettlementInv'
<1>1. ASSUME NEW p \in Payments, InitiatePayment(w, p)
      PROVE  SettlementInv'
  <2>1. job' = [job EXCEPT ![w] = Job("initiate", "create", p, NoWrite)]
        /\ UNCHANGED <<payStatus, receipts>>
    BY <1>1 DEF InitiatePayment, Start, rows
  <2>2. job'[w] = Job("initiate", "create", p, NoWrite)
        /\ \A v \in Workers \ {w} : job'[v] = job[v] /\ job[v].on # p
    BY <1>1, <2>1 DEF TypeOK, InitiatePayment
  <2>3. RowLocks'
    BY <2>1, <2>2 DEF SettlementInv, RowLocks, HoldsRow, SettleOps
  <2>4. RowInserts'
    BY <1>1, <2>1, <2>2 DEF SettlementInv, RowInserts, Creating, InitiatePayment
  <2>5. OneReceipt'
    BY <2>1, <2>2 DEF SettlementInv, OneReceipt, Confirmed, Guarded
  <2>6. QED
    BY <2>3, <2>4, <2>5 DEF SettlementInv
<1>2. ASSUME NEW p \in Payments,
             \/ WebhookSuccess(w, p) \/ WebhookFailed(w, p) \/ WebhookExpired(w, p)
             \/ VerifyPayment(w, p)
             \/ ReconcilePaid(w, p) \/ ReconcileFailed(w, p) \/ ReconcileExpired(w, p)
      PROVE  SettlementInv'
  <2>1. \E op \in SettleOps : Settle(w, op, p)
    BY <1>2 DEF WebhookSuccess, WebhookFailed, WebhookExpired, VerifyPayment,
                ReconcilePaid, ReconcileFailed, ReconcileExpired,
                ConfirmPayment, MarkPaymentFailed, MarkPaymentExpired, SettleOps
  <2>2. PICK op \in SettleOps : Settle(w, op, p)
    BY <2>1
  <2>3. /\ job'[w] = Job(op, "begin", p, NoWrite)
        /\ \A v \in Workers \ {w} : job'[v] = job[v]
        /\ UNCHANGED <<payStatus, receipts>>
    BY <2>2 DEF Settle, Start, rows, TypeOK
  <2>4. QED
    BY <2>3, QuietStep DEF SettleOps
<1>3. ASSUME NEW p \in Payments, WebhookRefused(w, p)
      PROVE  SettlementInv'
  <2>1. /\ UNCHANGED <<payStatus, receipts>>
        /\ \A v \in Workers \ {w} : job'[v] = job[v]
        /\ payStatus[p] # "none" /\ ProviderOf[p] = "BICTORYS"
        /\ job'[w] = Job("hold", "write", p, NoWrite) \/ job'[w] = Idle
    BY <1>3, RefusedStep
  <2>2. CASE job'[w] = Job("hold", "write", p, NoWrite)
    <3>1. RowLocks'
      BY <2>1, <2>2 DEF SettlementInv, RowLocks, HoldsRow, SettleOps
    <3>2. RowInserts'
      BY <2>1, <2>2 DEF SettlementInv, RowInserts, Creating
    <3>3. OneReceipt'
      BY <2>1, <2>2 DEF SettlementInv, OneReceipt, Confirmed, Guarded
    <3>4. QED
      BY <3>1, <3>2, <3>3 DEF SettlementInv
  <2>3. CASE job'[w] = Idle
    BY <2>1, <2>3, QuietStep DEF SettleOps
  <2>4. QED
    BY <2>1, <2>2, <2>3
<1>4. ASSUME NEW o \in Orders,
             CancelMyOrder(w, o) \/ UpdateStatus(w, o) \/ UpdatePaymentStatus(w, o)
      PROVE  SettlementInv'
  <2>1. ASSUME NEW op \in OrderOps, NEW wr, Start(w, Job(op, "commit", o, wr))
        PROVE  SettlementInv'
    <3>1. /\ job'[w] = Job(op, "commit", o, wr)
          /\ \A v \in Workers \ {w} : job'[v] = job[v]
          /\ UNCHANGED <<payStatus, receipts>>
      BY <2>1 DEF Start, rows, TypeOK
    <3>2. job'[w].op \in OrderOps
      BY <2>1, <3>1 DEF Job
    <3>3. QED
      BY <3>1, <3>2, QuietStep DEF SettleOps, OrderOps
  <2>2. QED
    BY <1>4, <2>1 DEF CancelMyOrder, UpdateStatus, UpdatePaymentStatus, ChangeOrder, OrderOps
<1>5. QED
  BY <1>1, <1>2, <1>3, <1>4 DEF Begin

LEMMA SettlementContinue ==
  ASSUME TypeOK, SettlementInv, NEW w \in Workers, Continue(w) \/ Die(w)
  PROVE  SettlementInv'
<1> DEFINE p == job[w].on
<1>0. \A v \in Workers \ {w} : job'[v] = job[v]
  BY DEF Continue, Die, CreatePayment, HoldPayment, StaffCancel, LoseRace, ConfirmTx,
         ReserveStock, FailTx, ExpireTx, Commit, SendReceipt, Goto, Finish, TypeOK
<1>1. CASE CreatePayment(w)
  <2>1. p \in Payments /\ payStatus[p] = "none" /\ ~HoldsRow(w, p)
    BY <1>1, JobKinds DEF CreatePayment, PaymentJob, OrderJob, OrderOps, PaymentOps,
                          SettlementInv, RowInserts, Creating, HoldsRow
  <2>2. /\ payStatus'[p] = "PENDING"
        /\ \A q \in Payments \ {p} : payStatus'[q] = payStatus[q]
        /\ receipts' = receipts
    BY <1>1, <2>1 DEF CreatePayment, TypeOK
  <2>3. job'[w].op = "initiate" /\ job'[w].at = "commit" /\ job'[w].on = p
    BY <1>1, JobKinds DEF CreatePayment, Goto, TypeOK, PaymentJob, OrderJob, OrderOps
  <2>4. \A v \in Workers : ~HoldsRow(v, p)
    BY <2>1 DEF SettlementInv, RowLocks, Where, OpenStatuses, PaymentStatus
  <2>5. RowLocks'
    BY <1>0, <2>1, <2>2, <2>3, <2>4 DEF SettlementInv, RowLocks, HoldsRow, SettleOps
  <2>6. RowInserts'
    <3>1. \A v \in Workers : Creating(v, p) => v = w
      BY <1>1, <2>1 DEF SettlementInv, RowInserts, Creating, CreatePayment
    <3>2. QED
      BY <1>0, <2>1, <2>2, <2>3, <3>1 DEF SettlementInv, RowInserts, Creating
  <2>7. OneReceipt'
    BY <1>0, <2>1, <2>2, <2>3 DEF SettlementInv, OneReceipt, Confirmed, Guarded
  <2>8. QED
    BY <2>5, <2>6, <2>7 DEF SettlementInv
<1>2. CASE HoldPayment(w)
  <2>1. /\ job'[w] = Idle
        /\ p \in Payments => payStatus'[p] = "PROCESSING"
        /\ \A q \in Payments \ {p} : payStatus'[q] = payStatus[q]
        /\ receipts' = receipts
    BY <1>2 DEF HoldPayment, Finish, TypeOK
  <2>2. /\ p \in Payments /\ payStatus[p] # "none" /\ ProviderOf[p] = "BICTORYS"
        /\ \A v \in Workers : ~HoldsRow(v, p)
    BY <1>2, JobKinds DEF HoldPayment, PaymentJob, OrderJob, OrderOps, RowFree,
                          SettlementInv, RowInserts
  <2>3. RowLocks'
    BY <1>0, <2>1, <2>2 DEF SettlementInv, RowLocks, HoldsRow, SettleOps
  <2>4. RowInserts'
    BY <1>0, <2>1, <2>2 DEF SettlementInv, RowInserts, Creating
  <2>5. OneReceipt'
    BY <1>0, <2>1, <2>2 DEF SettlementInv, OneReceipt, Confirmed, Guarded
  <2>6. QED
    BY <2>3, <2>4, <2>5 DEF SettlementInv
<1>3. CASE StaffCancel(w) \/ LoseRace(w) \/ Die(w)
  <2>1. /\ job'[w] = Idle \/ job'[w].op = "order"
        /\ UNCHANGED <<payStatus, receipts>>
    BY <1>3 DEF StaffCancel, LoseRace, Die, Locking, Finish, TypeOK, rows
  <2>2. QED
    BY <1>0, <2>1, QuietStep DEF SettleOps
<1>4. CASE ConfirmTx(w) \/ FailTx(w) \/ ExpireTx(w)
  <2>1. /\ job[w].op \in SettleOps /\ job[w].at = "begin" /\ p \in Payments
        /\ \A v \in Workers : ~HoldsRow(v, p)
        /\ payStatus[p] \in Where(job[w].op)
        /\ UNCHANGED <<payStatus, receipts>>
    BY <1>4, JobKinds DEF ConfirmTx, FailTx, ExpireTx, Locking, Admitted, RowFree, rows,
                          SettleOps, PaymentJob, OrderJob, OrderOps
  <2>2. /\ job'[w].op = job[w].op /\ job'[w].on = p
        /\ job'[w].at \in {"stock", "commit"}
    BY <1>4, <2>1, JobKinds DEF ConfirmTx, FailTx, ExpireTx, Goto, TypeOK, PaymentJob,
                                OrderJob, OrderOps, SettleOps
  <2>3. RowLocks'
    BY <1>0, <2>1, <2>2 DEF SettlementInv, RowLocks, HoldsRow
  <2>4. RowInserts'
    BY <1>0, <2>1, <2>2 DEF SettlementInv, RowInserts, Creating, SettleOps
  <2>5. OneReceipt'
    BY <1>0, <2>1, <2>2 DEF SettlementInv, OneReceipt, Confirmed, Guarded
  <2>6. QED
    BY <2>3, <2>4, <2>5 DEF SettlementInv
<1>5. CASE ReserveStock(w)
  <2>1. /\ job[w].op = "confirm" /\ job[w].at = "stock" /\ p \in Payments
        /\ UNCHANGED <<payStatus, receipts>>
    BY <1>5, JobKinds DEF ReserveStock, rows, PaymentJob, OrderJob, OrderOps
  <2>2. job'[w].op = "confirm" /\ job'[w].on = p /\ job'[w].at = "commit"
    BY <1>5, <2>1, JobKinds DEF ReserveStock, Goto, TypeOK, PaymentJob, OrderJob, OrderOps
  <2>3. RowLocks'
    BY <1>0, <2>1, <2>2 DEF SettlementInv, RowLocks, HoldsRow, SettleOps
  <2>4. RowInserts'
    BY <1>0, <2>1, <2>2 DEF SettlementInv, RowInserts, Creating
  <2>5. OneReceipt'
    BY <1>0, <2>1, <2>2 DEF SettlementInv, OneReceipt, Confirmed, Guarded
  <2>6. QED
    BY <2>3, <2>4, <2>5 DEF SettlementInv
<1>6. CASE Commit(w)
  <2>1. CASE job[w].op \in SettleOps
    <3>1. p \in Payments /\ HoldsRow(w, p) /\ payStatus[p] \in Where(job[w].op)
      BY <1>6, <2>1, JobKinds DEF Commit, PaymentJob, OrderJob, OrderOps, SettleOps,
                                  HoldsRow, SettlementInv, RowLocks
    <3>2. payStatus[p] \notin {"none", "PAID"}
      BY <3>1 DEF Where, OpenStatuses, PaymentStatus
    <3>3. /\ payStatus' = [payStatus EXCEPT ![p] = Settled(job[w].op)]
          /\ receipts' = receipts
      BY <1>6, <2>1 DEF Commit
    <3>4. \/ job[w].op = "confirm" /\ job'[w].op = "confirm"
             /\ job'[w].at = "after" /\ job'[w].on = p
          \/ job[w].op # "confirm" /\ job'[w] = Idle
      BY <1>6, <2>1, <3>1, JobKinds DEF Commit, Goto, Finish, TypeOK, PaymentJob,
                                        OrderJob, OrderOps, SettleOps
    <3>5. \A v \in Workers \ {w} : ~HoldsRow(v, p)
      BY <3>1 DEF SettlementInv, RowLocks
    <3>6. RowLocks'
      BY <1>0, <3>1, <3>3, <3>4, <3>5 DEF SettlementInv, RowLocks, HoldsRow, SettleOps, TypeOK
    <3>7. RowInserts'
      BY <1>0, <2>1, <3>1, <3>2, <3>3, <3>4
         DEF SettlementInv, RowInserts, Creating, Settled, SettleOps, TypeOK
    <3>8. OneReceipt'
      BY <1>0, <2>1, <3>1, <3>2, <3>3, <3>4
         DEF SettlementInv, OneReceipt, Confirmed, Settled, SettleOps, Guarded, TypeOK
    <3>9. QED
      BY <3>6, <3>7, <3>8 DEF SettlementInv
  <2>2. CASE job[w].op \notin SettleOps
    <3>1. /\ job'[w] = Idle \/ job'[w].op = "staffFail"
          /\ UNCHANGED <<payStatus, receipts>>
      BY <1>6, <2>2, JobKinds DEF Commit, Goto, Finish, TypeOK, SettleOps, PaymentJob, OrderJob
    <3>2. QED
      BY <1>0, <3>1, QuietStep DEF SettleOps
  <2>3. QED
    BY <2>1, <2>2
<1>7. CASE SendReceipt(w)
  <2>1. job[w].op = "confirm" /\ job[w].at = "after" /\ p \in Payments
    BY <1>7, JobKinds DEF SendReceipt, PaymentJob, OrderJob, OrderOps
  <2>2. /\ job'[w] = Idle /\ payStatus' = payStatus
        /\ receipts' = [receipts EXCEPT ![p] = IF @ = 0 THEN 1 ELSE 2]
    BY <1>7 DEF SendReceipt, Finish, TypeOK
  <2>3. RowLocks'
    BY <1>0, <2>1, <2>2 DEF SettlementInv, RowLocks, HoldsRow, SettleOps
  <2>4. RowInserts'
    BY <1>0, <2>1, <2>2 DEF SettlementInv, RowInserts, Creating
  <2>5. OneReceipt'
    BY <1>0, <2>1, <2>2 DEF SettlementInv, OneReceipt, Confirmed, Guarded, TypeOK
  <2>6. QED
    BY <2>3, <2>4, <2>5 DEF SettlementInv
<1>8. QED
  BY <1>1, <1>2, <1>3, <1>4, <1>5, <1>6, <1>7 DEF Continue

LEMMA SettlementInit == Init => SettlementInv
BY DEF Init, SettlementInv, RowLocks, RowInserts, OneReceipt, HoldsRow, Creating,
       Confirmed, SettleOps, Guarded

LEMMA SettlementNext ==
  ASSUME TypeOK, SettlementInv, [Next]_vars
  PROVE  SettlementInv'
<1>1. ASSUME UNCHANGED <<job, payStatus, receipts>>
      PROVE  SettlementInv'
  BY <1>1 DEF SettlementInv, RowLocks, RowInserts, OneReceipt, HoldsRow, Creating, Confirmed
<1>2. CASE UNCHANGED vars
  BY <1>1, <1>2 DEF vars, rows
<1>3. ASSUME NEW p \in Payments, Report(p) \/ Age(p)
      PROVE  SettlementInv'
  BY <1>1, <1>3 DEF Report, Age, rows
<1>4. QED
  BY <1>2, <1>3, SettlementBegin, SettlementContinue DEF Next

\* Only one transaction at a time works on a payment row, rows are inserted
\* once, and no second receipt is ever owed.
THEOREM SettlementHolds == Spec => []SettlementInv
<1>1. TypeOK /\ SettlementInv /\ [Next]_vars => SettlementInv'
  BY SettlementNext
<1>2. QED
  BY <1>1, SettlementInit, TypeCorrect, PTL DEF Spec

-----------------------------------------------------------------------------
(* Refinement: guarded attempts implement PaymentLifecycle.                *)

LEMMA LifecycleInit == Init => GuardedAttempts!Init
BY DEF Init, GuardedAttempts!Init, Guarded

LEMMA LifecycleStep ==
  ASSUME TypeOK, SettlementInv, [Next]_vars
  PROVE  [GuardedAttempts!Next]_(GuardedAttempts!vars)
<1> USE DEF GuardedAttempts!vars
<1>1. ASSUME UNCHANGED <<payStatus, receipts>>
      PROVE  UNCHANGED GuardedAttempts!vars
  BY <1>1
<1>2. ASSUME NEW w \in Workers, CreatePayment(w)
      PROVE  [GuardedAttempts!Next]_(GuardedAttempts!vars)
  <2>0. PICK p \in Payments : p = job[w].on
    BY <1>2, JobKinds DEF CreatePayment, PaymentJob, OrderJob, OrderOps
  <2>1. payStatus[p] = "none" /\ receipts' = receipts
        /\ payStatus' = [payStatus EXCEPT ![p] = "PENDING"]
    BY <1>2, <2>0, JobKinds DEF CreatePayment, PaymentJob, OrderJob, OrderOps,
                          SettlementInv, RowInserts, Creating
  <2>2. CASE p \in Guarded
    <3>1. [q \in Guarded |-> payStatus'[q]]
            = [[q \in Guarded |-> payStatus[q]] EXCEPT ![p] = "PENDING"]
      BY <2>1, <2>2 DEF Guarded, TypeOK
    <3>2. GuardedAttempts!Create(p)
      BY <2>1, <2>2, <3>1 DEF GuardedAttempts!Create, GuardedAttempts!Move
    <3>3. QED
      BY <2>2, <3>2 DEF GuardedAttempts!Next
  <2>3. CASE p \notin Guarded
    BY <2>1, <2>3 DEF Guarded, TypeOK
  <2>4. QED
    BY <2>2, <2>3
<1>3. ASSUME NEW w \in Workers, HoldPayment(w)
      PROVE  UNCHANGED GuardedAttempts!vars
  <2> DEFINE p == job[w].on
  <2>1. p \in Payments \ Guarded /\ receipts' = receipts
        /\ payStatus' = [payStatus EXCEPT ![p] = "PROCESSING"]
    BY <1>3, JobKinds DEF HoldPayment, PaymentJob, OrderJob, OrderOps, Guarded,
                          SettlementInv, RowInserts
  <2>2. QED
    BY <2>1 DEF Guarded, TypeOK
<1>4. ASSUME NEW w \in Workers, Commit(w)
      PROVE  [GuardedAttempts!Next]_(GuardedAttempts!vars)
  <2>1. CASE job[w].op \notin SettleOps
    BY <1>1, <1>4, <2>1 DEF Commit
  <2>2. CASE job[w].op \in SettleOps
    <3>0. PICK p \in Payments : p = job[w].on
      BY <2>2, JobKinds DEF PaymentJob, OrderJob, OrderOps, SettleOps
    <3>1. /\ payStatus[p] \in Where(job[w].op) /\ receipts' = receipts
          /\ payStatus' = [payStatus EXCEPT ![p] = Settled(job[w].op)]
      BY <1>4, <2>2, <3>0, JobKinds DEF Commit, PaymentJob, OrderJob, OrderOps, SettleOps,
                                  SettlementInv, RowLocks, HoldsRow
    <3>2. payStatus[p] \in {"PENDING", "PROCESSING", "EXPIRED", "FAILED"}
      BY <3>1 DEF Where, OpenStatuses, PaymentStatus, TypeOK
    <3>3. CASE p \in Guarded
      <4>0. [q \in Guarded |-> payStatus'[q]]
              = [[q \in Guarded |-> payStatus[q]] EXCEPT ![p] = Settled(job[w].op)]
        BY <3>1, <3>3 DEF Guarded, TypeOK
      <4>1. CASE job[w].op = "confirm"
        <5>1. GuardedAttempts!Pay(p)
          BY <3>1, <3>2, <3>3, <4>0, <4>1
             DEF GuardedAttempts!Pay, GuardedAttempts!Move, GuardedAttempts!Open, Settled
        <5>2. QED
          BY <3>3, <5>1 DEF GuardedAttempts!Next
      <4>2. CASE job[w].op = "fail"
        <5>1. GuardedAttempts!Fail(p)
          BY <3>1, <3>2, <3>3, <4>0, <4>2
             DEF GuardedAttempts!Fail, GuardedAttempts!Move, GuardedAttempts!Open, Settled
        <5>2. QED
          BY <3>3, <5>1 DEF GuardedAttempts!Next
      <4>3. CASE job[w].op = "expire"
        <5>1. payStatus[p] \in GuardedAttempts!Open
          BY <3>1, <4>3 DEF Where, OpenStatuses, GuardedAttempts!Open
        <5>2. GuardedAttempts!Expire(p)
          BY <3>1, <3>3, <4>0, <4>3, <5>1
             DEF GuardedAttempts!Expire, GuardedAttempts!Move, Settled
        <5>3. QED
          BY <3>3, <5>2 DEF GuardedAttempts!Next
      <4>4. QED
        BY <2>2, <4>1, <4>2, <4>3 DEF SettleOps
    <3>4. CASE p \notin Guarded
      BY <3>1, <3>4 DEF Guarded, TypeOK
    <3>5. QED
      BY <3>3, <3>4
  <2>3. QED
    BY <2>1, <2>2
<1>5. ASSUME NEW w \in Workers, SendReceipt(w)
      PROVE  [GuardedAttempts!Next]_(GuardedAttempts!vars)
  <2>0. PICK p \in Payments : p = job[w].on
    BY <1>5, JobKinds DEF SendReceipt, PaymentJob, OrderJob, OrderOps
  <2>1. /\ Confirmed(w, p) /\ payStatus' = payStatus
        /\ receipts' = [receipts EXCEPT ![p] = IF @ = 0 THEN 1 ELSE 2]
    BY <1>5, <2>0 DEF SendReceipt, Confirmed
  <2>2. CASE p \in Guarded
    <3>1. payStatus[p] = "PAID" /\ receipts[p] = 0
      BY <2>1, <2>2 DEF SettlementInv, OneReceipt
    <3>2. receipts' = [receipts EXCEPT ![p] = 1]
      BY <2>1, <3>1
    <3>3. [q \in Guarded |-> receipts'[q]]
            = [[q \in Guarded |-> receipts[q]] EXCEPT ![p] = 1]
      BY <2>2, <3>2 DEF Guarded, TypeOK
    <3>4. GuardedAttempts!Receipt(p)
      BY <2>1, <2>2, <3>1, <3>3 DEF GuardedAttempts!Receipt
    <3>5. QED
      BY <2>2, <3>4 DEF GuardedAttempts!Next
  <2>3. CASE p \notin Guarded
    BY <2>1, <2>3 DEF Guarded, TypeOK
  <2>4. QED
    BY <2>2, <2>3
<1>6. ASSUME NEW w \in Workers, Begin(w)
      PROVE  UNCHANGED <<payStatus, receipts>>
  BY <1>6 DEF Begin, InitiatePayment, WebhookSuccess, WebhookFailed, WebhookExpired,
              WebhookRefused, Refused, VerifyPayment, ReconcilePaid, ReconcileFailed,
              ReconcileExpired, ConfirmPayment, MarkPaymentFailed, MarkPaymentExpired,
              Settle, CancelMyOrder, UpdateStatus, UpdatePaymentStatus, ChangeOrder,
              Start, rows
<1>7. ASSUME NEW w \in Workers,
             \/ StaffCancel(w) \/ LoseRace(w) \/ ConfirmTx(w) \/ ReserveStock(w)
             \/ FailTx(w) \/ ExpireTx(w) \/ Die(w)
      PROVE  UNCHANGED <<payStatus, receipts>>
  BY <1>7 DEF StaffCancel, LoseRace, ConfirmTx, ReserveStock, FailTx, ExpireTx, Die,
              Locking, rows
<1>8. ASSUME NEW p \in Payments, Report(p) \/ Age(p)
      PROVE  UNCHANGED <<payStatus, receipts>>
  BY <1>8 DEF Report, Age, rows
<1>9. CASE UNCHANGED vars
  BY <1>1, <1>9 DEF vars, rows
<1>10. CASE Next
  BY <1>1, <1>2, <1>3, <1>4, <1>5, <1>6, <1>7, <1>8, <1>10 DEF Next, Continue
<1>11. QED
  BY <1>9, <1>10

\* A Wave, Orange Money or cash attempt follows the promised lifecycle under
\* every interleaving of webhooks, cron, staff and customer, and every crash:
\* once PAID it stays PAID and its confirmation is announced at most once.
THEOREM Lifecycle == Spec => GuardedLifecycle
<1>1. TypeOK /\ SettlementInv /\ [Next]_vars
        => [GuardedAttempts!Next]_(GuardedAttempts!vars)
  BY LifecycleStep
<1>2. QED
  BY <1>1, LifecycleInit, TypeCorrect, SettlementHolds, PTL
     DEF Spec, GuardedLifecycle, GuardedAttempts!Spec

-----------------------------------------------------------------------------
(* No confirmation without an announced success.                           *)

LEMMA ProofInit == Init => ProofInv
BY DEF Init, ProofInv, PaidHasProof, ConfirmHasProof

LEMMA ProofNext ==
  ASSUME TypeOK, ProofInv, [Next]_vars
  PROVE  ProofInv'
<1>1. ASSUME UNCHANGED <<payStatus, reports>>, NEW w \in Workers,
             \A v \in Workers \ {w} : job'[v] = job[v],
             \/ job'[w].op # "confirm"
             \/ job[w].op = "confirm" /\ job'[w].on = job[w].on
             \/ \E q \in MayPay(job'[w].on) : "success" \in reports[q]
      PROVE  ProofInv'
  BY <1>1 DEF ProofInv, PaidHasProof, ConfirmHasProof, MayPay, Siblings
<1>2. CASE UNCHANGED vars
  BY <1>2 DEF vars, rows, provider, ProofInv, PaidHasProof, ConfirmHasProof, MayPay, Siblings
<1>3. ASSUME NEW p \in Payments, Age(p)
      PROVE  ProofInv'
  BY <1>3 DEF Age, rows, ProofInv, PaidHasProof, ConfirmHasProof, MayPay, Siblings
<1>4. ASSUME NEW p \in Payments, Report(p)
      PROVE  ProofInv'
  <2>1. UNCHANGED <<payStatus, job>>
        /\ \A q \in Payments : reports[q] \subseteq reports'[q]
    BY <1>4 DEF Report, rows, TypeOK
  <2>2. QED
    BY <2>1, ConstantsAssumption
       DEF ProofInv, PaidHasProof, ConfirmHasProof, MayPay, Siblings
<1>5. ASSUME NEW w \in Workers, NEW p \in Payments,
             \/ WebhookSuccess(w, p) \/ VerifyPayment(w, p) \/ ReconcilePaid(w, p)
      PROVE  ProofInv'
  <2>1. \E q \in MayPay(p) : "success" \in reports[q]
    BY <1>5 DEF WebhookSuccess, VerifyPayment, ReconcilePaid, Webhook, Matches,
                FindPayment, FindBictorysPayment, Inspected, MayPay, Siblings
  <2>2. /\ job'[w] = Job("confirm", "begin", p, NoWrite)
        /\ \A v \in Workers \ {w} : job'[v] = job[v]
        /\ UNCHANGED <<payStatus, reports>>
    BY <1>5 DEF WebhookSuccess, VerifyPayment, ReconcilePaid, ConfirmPayment, Settle,
                Start, TypeOK, rows, provider
  <2>3. QED
    BY <1>1, <2>1, <2>2
<1>6. ASSUME NEW w \in Workers, NEW p \in Payments,
             \/ WebhookFailed(w, p) \/ WebhookExpired(w, p)
             \/ ReconcileFailed(w, p) \/ ReconcileExpired(w, p) \/ InitiatePayment(w, p)
      PROVE  ProofInv'
  <2>1. /\ job'[w].op # "confirm"
        /\ \A v \in Workers \ {w} : job'[v] = job[v]
        /\ UNCHANGED <<payStatus, reports>>
    BY <1>6 DEF WebhookFailed, WebhookExpired, ReconcileFailed, ReconcileExpired,
                InitiatePayment, MarkPaymentFailed, MarkPaymentExpired, Settle, Start,
                TypeOK, rows, provider
  <2>2. QED
    BY <1>1, <2>1
<1>7. ASSUME NEW w \in Workers, NEW o \in Orders,
             CancelMyOrder(w, o) \/ UpdateStatus(w, o) \/ UpdatePaymentStatus(w, o)
      PROVE  ProofInv'
  <2>1. /\ job'[w].op # "confirm"
        /\ \A v \in Workers \ {w} : job'[v] = job[v]
        /\ UNCHANGED <<payStatus, reports>>
    BY <1>7 DEF CancelMyOrder, UpdateStatus, UpdatePaymentStatus, ChangeOrder, Start,
                TypeOK, rows, provider
  <2>2. QED
    BY <1>1, <2>1
<1>8. ASSUME NEW w \in Workers,
             \/ LoseRace(w) \/ ConfirmTx(w) \/ ReserveStock(w) \/ FailTx(w)
             \/ ExpireTx(w) \/ StaffCancel(w) \/ SendReceipt(w) \/ Die(w)
      PROVE  ProofInv'
  <2>1. /\ \A v \in Workers \ {w} : job'[v] = job[v]
        /\ UNCHANGED <<payStatus, reports>>
    BY <1>8 DEF LoseRace, ConfirmTx, ReserveStock, FailTx, ExpireTx, StaffCancel,
                SendReceipt, Die, Locking, Goto, Finish, TypeOK, rows, provider
  <2>2. job[w] \in JobType
    BY DEF TypeOK
  <2>3. \/ job'[w].op # "confirm"
        \/ job[w].op = "confirm" /\ job'[w].on = job[w].on
    BY <1>8, <2>2 DEF LoseRace, ConfirmTx, ReserveStock, FailTx, ExpireTx, StaffCancel,
                SendReceipt, Die, Locking, Goto, Finish, TypeOK, JobType, PaymentJob,
                OrderJob
  <2>4. QED
    BY <1>1, <2>1, <2>3
<1>9. ASSUME NEW w \in Workers, CreatePayment(w) \/ HoldPayment(w) \/ Commit(w)
      PROVE  ProofInv'
  <2>1. /\ \A v \in Workers \ {w} : job'[v] = job[v]
        /\ reports' = reports
    BY <1>9 DEF CreatePayment, HoldPayment, Commit, Goto, Finish, TypeOK, provider
  <2>2. job[w] \in JobType
    BY DEF TypeOK
  <2>3. \/ job'[w].op # "confirm"
        \/ job[w].op = "confirm" /\ job'[w].on = job[w].on
    BY <1>9, <2>2 DEF CreatePayment, HoldPayment, Commit, Goto, Finish, TypeOK, JobType,
                      PaymentJob, OrderJob
  <2>4. \A p \in Payments : payStatus'[p] = "PAID" =>
          payStatus[p] = "PAID" \/ (job[w].op = "confirm" /\ job[w].on = p)
    BY <1>9 DEF CreatePayment, HoldPayment, Commit, Settled, SettleOps, TypeOK
  <2>5. PaidHasProof'
    BY <2>1, <2>4 DEF ProofInv, PaidHasProof, ConfirmHasProof, MayPay, Siblings
  <2>6. ConfirmHasProof'
    BY <2>1, <2>3 DEF ProofInv, ConfirmHasProof, MayPay, Siblings
  <2>7. QED
    BY <2>5, <2>6 DEF ProofInv
<1>10. ASSUME NEW w \in Workers, NEW p \in Payments, WebhookRefused(w, p)
       PROVE  ProofInv'
  <2>1. /\ job'[w] = Job("hold", "write", p, NoWrite) \/ job'[w] = Idle
        /\ \A v \in Workers \ {w} : job'[v] = job[v]
        /\ UNCHANGED <<payStatus, reports>>
    BY <1>10, RefusedStep
  <2>2. job'[w].op # "confirm"
    BY <2>1
  <2>3. QED
    BY <1>1, <2>1, <2>2
<1>11. QED
  BY <1>2, <1>3, <1>4, <1>5, <1>6, <1>7, <1>8, <1>9, <1>10 DEF Next, Begin, Continue

\* No attempt becomes PAID unless a provider announced a success for some attempt
\* of its order, or in a notification without an order reference: those alone
\* may pay an attempt of another order.
THEOREM NoUnprovenPayment == Spec => []PaidHasProof
<1>1. TypeOK /\ ProofInv /\ [Next]_vars => ProofInv'
  BY ProofNext
<1>2. ProofInv => PaidHasProof
  BY DEF ProofInv
<1>3. QED
  BY <1>1, <1>2, ProofInit, TypeCorrect, PTL DEF Spec

\* As long as every notification carries its order's reference, an attempt is PAID
\* only after a success announced for its own order.
THEOREM NoForeignPayment ==
  ASSUME Unreferenced = {}
  PROVE  Spec => [](\A p \in Payments : payStatus[p] = "PAID" =>
                      \E q \in Siblings(p) : "success" \in reports[q])
<1>1. PaidHasProof => \A p \in Payments : payStatus[p] = "PAID" =>
                        \E q \in Siblings(p) : "success" \in reports[q]
  BY DEF PaidHasProof, MayPay
<1>2. QED
  BY <1>1, NoUnprovenPayment, PTL

-----------------------------------------------------------------------------
(* Stock and order of a single attempt per order.                          *)

LEMMA AttemptInit == Init => SingleAttemptInv
BY ConstantsAssumption
   DEF Init, SingleAttemptInv, PendingWriteFits, Fits, UnsettledOrders, StockMatchesOrder,
       HoldsRow, SettleOps, OrderOps, Released

\* A step of w that leaves the tables alone keeps the invariant if the new job
\* of w fits.
LEMMA JobStep ==
  ASSUME SingleAttemptInv, NEW w \in Workers,
         \A v \in Workers \ {w} : job'[v] = job[v],
         UNCHANGED <<orderStatus, taken, payStatus, reports>>,
         Fits(w)'
  PROVE  SingleAttemptInv'
<1>1. ASSUME NEW v \in Workers \ {w} PROVE Fits(v)'
  <2>1. Fits(v)
    BY DEF SingleAttemptInv, PendingWriteFits
  <2>2. QED
    BY <2>1 DEF Fits, HoldsRow
<1>2. PendingWriteFits'
  BY <1>1 DEF PendingWriteFits
<1>3. UnsettledOrders' /\ StockMatchesOrder'
  BY DEF SingleAttemptInv, UnsettledOrders, StockMatchesOrder
<1>4. QED
  BY <1>2, <1>3 DEF SingleAttemptInv

LEMMA AttemptBegin ==
  ASSUME TypeOK, SingleAttempt, SingleAttemptInv, NEW w \in Workers, Begin(w)
  PROVE  SingleAttemptInv'
<1>1. ASSUME NEW p \in Payments, InitiatePayment(w, p)
      PROVE  SingleAttemptInv'
  <2>1. /\ job'[w] = Job("initiate", "create", p, NoWrite)
        /\ \A v \in Workers \ {w} : job'[v] = job[v]
        /\ UNCHANGED <<orderStatus, taken, payStatus, reports>>
    BY <1>1 DEF InitiatePayment, Start, TypeOK, rows, provider
  <2>2. Fits(w)'
    BY <2>1 DEF Fits, HoldsRow, SettleOps, OrderOps
  <2>3. QED
    BY <2>1, <2>2, JobStep
<1>2. ASSUME NEW p \in Payments, NEW op \in SettleOps, Settle(w, op, p),
             payStatus[p] # "none", ProviderOf[p] \in Online
      PROVE  SingleAttemptInv'
  <2>1. /\ job'[w] = Job(op, "begin", p, NoWrite)
        /\ \A v \in Workers \ {w} : job'[v] = job[v]
        /\ UNCHANGED <<orderStatus, taken, payStatus, reports>>
    BY <1>2 DEF Settle, Start, TypeOK, rows, provider
  <2>2. Fits(w)'
    BY <1>2, <2>1 DEF Fits, HoldsRow, SettleOps, OrderOps
  <2>3. QED
    BY <2>1, <2>2, JobStep
<1>3. ASSUME NEW p \in Payments, NEW r, Webhook(r, p)
      PROVE  payStatus[p] # "none" /\ ProviderOf[p] \in Online
  <2>1. PICK q \in Payments : Matches(q, p) /\ r \in reports[q]
    BY <1>3 DEF Webhook
  <2>2. q = p
    BY <2>1 DEF Matches, FindPayment, FindBictorysPayment, SingleAttempt
  <2>3. QED
    BY <2>1, <2>2 DEF Matches, Exists, SingleAttemptInv, UnsettledOrders
<1>4. ASSUME NEW p \in Payments,
             WebhookSuccess(w, p) \/ WebhookFailed(w, p) \/ WebhookExpired(w, p)
      PROVE  SingleAttemptInv'
  <2>1. payStatus[p] # "none" /\ ProviderOf[p] \in Online
    BY <1>3, <1>4 DEF WebhookSuccess, WebhookFailed, WebhookExpired
  <2>2. QED
    BY <1>2, <1>4, <2>1 DEF WebhookSuccess, WebhookFailed, WebhookExpired,
         ConfirmPayment, MarkPaymentFailed, MarkPaymentExpired, SettleOps
<1>5. ASSUME NEW p \in Payments,
             \/ VerifyPayment(w, p)
             \/ ReconcilePaid(w, p) \/ ReconcileFailed(w, p) \/ ReconcileExpired(w, p)
      PROVE  SingleAttemptInv'
  <2>1. payStatus[p] # "none" /\ ProviderOf[p] \in Online
    BY <1>5 DEF VerifyPayment, ReconcilePaid, ReconcileFailed, ReconcileExpired, Selected,
         Exists, Online
  <2>2. QED
    BY <1>2, <1>5, <2>1 DEF VerifyPayment, ReconcilePaid, ReconcileFailed,
         ReconcileExpired, ConfirmPayment, MarkPaymentFailed, MarkPaymentExpired, SettleOps
<1>6. ASSUME NEW p \in Payments, WebhookRefused(w, p)
      PROVE  SingleAttemptInv'
  <2>1. /\ job'[w] = Job("hold", "write", p, NoWrite) \/ job'[w] = Idle
        /\ \A v \in Workers \ {w} : job'[v] = job[v]
        /\ UNCHANGED <<orderStatus, taken, payStatus, reports>>
    BY <1>6, RefusedStep
  <2>2. Fits(w)'
    BY <2>1 DEF Fits, HoldsRow, SettleOps, OrderOps
  <2>3. QED
    BY <2>1, <2>2, JobStep
<1>7. ASSUME NEW o \in Orders,
             CancelMyOrder(w, o) \/ UpdateStatus(w, o) \/ UpdatePaymentStatus(w, o)
      PROVE  FALSE
  BY <1>7 DEF CancelMyOrder, UpdateStatus, UpdatePaymentStatus, SingleAttempt,
              PaymentHandlers
<1>8. QED
  BY <1>1, <1>4, <1>5, <1>6, <1>7 DEF Begin

\* Only the transactions of a payment commit.
LEMMA CommitKinds ==
  ASSUME TypeOK, SingleAttemptInv, NEW w \in Workers, Commit(w)
  PROVE  /\ job[w] \in PaymentJob /\ job[w].on \in Payments
         /\ OrderAt(w) = OrderOf[job[w].on] /\ OrderAt(w) \in Orders
         /\ job[w].op \in SettleOps \/ job[w].op = "initiate"
         /\ Fits(w)
<1>1. Fits(w)
  BY DEF SingleAttemptInv, PendingWriteFits
<1>2. job[w].op # "idle"
  BY DEF Commit, TypeOK, JobType, PaymentJob, OrderJob, PaymentOps, OrderOps, SettleOps
<1>3. job[w] \in PaymentJob
  BY <1>1, <1>2, JobKinds DEF Fits, OrderJob
<1>4. QED
  BY <1>1, <1>3, ConstantsAssumption DEF PaymentJob, PaymentOps, OrderAt, Commit, Fits

\* The order written by the transaction of w keeps matching the stock it holds.
LEMMA AttemptCommit ==
  ASSUME TypeOK, SettlementInv, SingleAttempt, SingleAttemptInv, NEW w \in Workers,
         Commit(w)
  PROVE  SingleAttemptInv'
<1> DEFINE p == job[w].on
           o == OrderOf[p]
           new == job[w].write
<1>1. p \in Payments /\ o \in Orders /\ OrderAt(w) = o /\ job[w] \in PaymentJob
  BY CommitKinds
<1>2. job[w].op \in SettleOps \/ job[w].op = "initiate"
  BY CommitKinds
<1>3. Fits(w)
  BY CommitKinds
<1>4. /\ orderStatus' = [orderStatus EXCEPT ![o] = Written(@, new.status)]
      /\ taken' = [taken EXCEPT ![o] = @ + new.take * Units[o]]
      /\ reports' = reports
      /\ \A v \in Workers \ {w} : job'[v] = job[v]
      /\ job[w].at = "commit"
  BY <1>1 DEF Commit, Goto, Finish, TypeOK, provider
<1>5. \A q \in Payments : payStatus[q] # "none" => payStatus'[q] # "none"
  BY <1>1 DEF Commit, Settled, SettleOps, TypeOK
<1>6. \/ new.status = Keep /\ new.take = 0
      \/ new.status = "CANCELLED" /\ new.take = -1 /\ orderStatus[o] # "CANCELLED"
      \/ new.status = "CONFIRMED" /\ new.take = 0 /\ orderStatus[o] # "CANCELLED"
      \/ new.status = "CONFIRMED" /\ new.take = 1 /\ orderStatus[o] = "CANCELLED"
      \/ new.status = "CANCELLED" /\ new.take = 0 /\ orderStatus[o] = "CANCELLED"
  <2>1. CASE job[w].op \in SettleOps
    BY <1>3, <1>4, <2>1 DEF Fits, HoldsRow
  <2>2. CASE job[w].op = "initiate"
    <3>1. new = InitiationWrite(p)
      BY <1>3, <1>4, <2>2 DEF Fits
    <3>2. ProviderOf[p] = "CASH_ON_DELIVERY" => orderStatus[o] # "CANCELLED"
      BY <1>1 DEF SingleAttemptInv, UnsettledOrders, Online
    <3>3. QED
      BY <3>1, <3>2 DEF InitiationWrite
  <2>3. QED
    BY <1>2, <2>1, <2>2
<1>7. StockMatchesOrder'
  <2>1. \A x \in Orders \ {o} : orderStatus'[x] = orderStatus[x] /\ taken'[x] = taken[x]
    BY <1>4 DEF TypeOK
  <2>2. /\ orderStatus'[o] = Written(orderStatus[o], new.status)
        /\ taken'[o] = taken[o] + new.take * Units[o]
    BY <1>1, <1>4 DEF TypeOK
  <2>3. /\ orderStatus[o] \in {"PENDING", "CONFIRMED", "CANCELLED"}
        /\ taken[o] = IF orderStatus[o] \in Released THEN 0 ELSE Units[o]
        /\ Units[o] \in Int
    BY <1>1, ConstantsAssumption DEF SingleAttemptInv, StockMatchesOrder, UnsettledOrders
  <2>4. taken'[o] = IF orderStatus'[o] \in Released THEN 0 ELSE Units[o]
    BY <1>6, <2>2, <2>3 DEF Written, Released
  <2>5. QED
    BY <2>1, <2>4 DEF SingleAttemptInv, StockMatchesOrder
<1>8. UnsettledOrders'
  <2>1. ASSUME NEW x \in Orders
        PROVE  orderStatus'[x] \in {"PENDING", "CONFIRMED", "CANCELLED"}
    BY <1>4, <1>6, <2>1 DEF Written, SingleAttemptInv, UnsettledOrders, TypeOK
  <2>2. ASSUME NEW q \in Payments, ProviderOf[q] \notin Online
        PROVE  orderStatus'[OrderOf[q]] # "CANCELLED"
    <3>1. orderStatus[OrderOf[q]] # "CANCELLED" /\ OrderOf[q] \in Orders
      BY <2>2, ConstantsAssumption DEF SingleAttemptInv, UnsettledOrders
    <3>2. CASE q = p
      <4>1. job[w].op = "initiate"
        BY <1>2, <1>3, <2>2, <3>2 DEF Fits
      <4>2. new.status \in {Keep, "CONFIRMED"}
        BY <1>3, <1>4, <4>1 DEF Fits, InitiationWrite
      <4>3. QED
        BY <1>1, <1>4, <3>1, <3>2, <4>2 DEF Written, TypeOK
    <3>3. CASE q # p
      <4>1. OrderOf[q] # o
        BY <1>1, <3>3 DEF SingleAttempt
      <4>2. QED
        BY <1>4, <3>1, <4>1 DEF TypeOK
    <3>4. QED
      BY <3>2, <3>3
  <2>3. QED
    BY <1>4, <2>1, <2>2 DEF SingleAttemptInv, UnsettledOrders
<1>9. ASSUME NEW v \in Workers \ {w} PROVE Fits(v)'
  <2>1. Fits(v) /\ job'[v] = job[v]
    BY <1>4 DEF SingleAttemptInv, PendingWriteFits
  <2>2. CASE HoldsRow(v, job[v].on)
    <3>1. job[v].on \in Payments /\ ProviderOf[job[v].on] \in Online
      BY <2>1, <2>2, JobKinds DEF HoldsRow, Fits, SettleOps, PaymentJob, OrderJob, OrderOps
    <3>2. ASSUME job[v].on = p
          PROVE  job[w].op = "initiate" /\ new.status = Keep
      <4>1. ~HoldsRow(w, p)
        BY <1>1, <2>2, <3>2 DEF SettlementInv, RowLocks
      <4>2. job[w].op = "initiate"
        BY <1>2, <1>4, <4>1 DEF HoldsRow
      <4>3. QED
        BY <1>3, <1>4, <3>1, <3>2, <4>2 DEF Fits, InitiationWrite, Online
    <3>3. OrderOf[job[v].on] = o => job[v].on = p
      BY <1>1, <3>1 DEF SingleAttempt
    <3>4. orderStatus'[OrderOf[job[v].on]] = orderStatus[OrderOf[job[v].on]]
      BY <1>1, <1>4, <3>1, <3>2, <3>3, ConstantsAssumption DEF TypeOK, Written
    <3>5. QED
      BY <1>5, <2>1, <3>1, <3>4 DEF Fits, HoldsRow
  <2>3. CASE ~HoldsRow(v, job[v].on)
    <3>1. job[v].op \in SettleOps => job[v].on \in Payments
      BY JobKinds DEF SettleOps, PaymentJob, OrderJob, OrderOps
    <3>2. QED
      BY <1>5, <2>1, <2>3, <3>1 DEF Fits, HoldsRow
  <2>4. QED
    BY <2>2, <2>3
<1>10. Fits(w)'
  <2>1. \/ job'[w] = Idle
        \/ /\ job'[w].op = "confirm" /\ job'[w].at = "after" /\ job'[w].on = p
           /\ job[w].op = "confirm"
    BY <1>1, <1>2 DEF Commit, Goto, Finish, TypeOK, PaymentJob, SettleOps
  <2>2. QED
    BY <1>1, <1>3, <1>5, <2>1 DEF Fits, HoldsRow, SettleOps, OrderOps
<1>11. PendingWriteFits'
  BY <1>9, <1>10 DEF PendingWriteFits, Fits
<1>12. QED
  BY <1>7, <1>8, <1>11 DEF SingleAttemptInv

\* Creating the row or holding it leaves every pending write as fitting as before.
LEMMA AttemptRow ==
  ASSUME TypeOK, SettlementInv, SingleAttempt, SingleAttemptInv, NEW w \in Workers,
         CreatePayment(w) \/ HoldPayment(w)
  PROVE  SingleAttemptInv'
<1>1. /\ UNCHANGED <<orderStatus, taken, reports>>
      /\ \A v \in Workers \ {w} : job'[v] = job[v]
  BY DEF CreatePayment, HoldPayment, Goto, Finish, TypeOK, provider
<1>2. \A q \in Payments : payStatus[q] # "none" => payStatus'[q] # "none"
  BY DEF CreatePayment, HoldPayment, TypeOK
<1>3. ASSUME NEW v \in Workers \ {w} PROVE Fits(v)'
  <2>1. Fits(v)
    BY DEF SingleAttemptInv, PendingWriteFits
  <2>2. job[v].op \in SettleOps => job[v].on \in Payments
    BY JobKinds DEF SettleOps, PaymentJob, OrderJob, OrderOps
  <2>3. QED
    BY <1>1, <1>2, <2>1, <2>2 DEF Fits, HoldsRow
<1>4. Fits(w)'
  <2>1. CASE CreatePayment(w)
    <3>1. /\ job'[w].op = "initiate" /\ job'[w].on = job[w].on
          /\ job'[w].write = InitiationWrite(job[w].on)
      BY <2>1, JobKinds DEF CreatePayment, Goto, TypeOK, PaymentJob, OrderJob, PaymentOps
    <3>2. QED
      BY <3>1 DEF Fits, HoldsRow, SettleOps, OrderOps
  <2>2. CASE HoldPayment(w)
    <3>1. job'[w] = Idle
      BY <2>2 DEF HoldPayment, Finish, TypeOK
    <3>2. QED
      BY <3>1 DEF Fits, HoldsRow, SettleOps, OrderOps
  <2>3. QED
    BY <2>1, <2>2
<1>5. PendingWriteFits'
  BY <1>3, <1>4 DEF PendingWriteFits, Fits
<1>6. UnsettledOrders' /\ StockMatchesOrder'
  BY <1>1 DEF SingleAttemptInv, UnsettledOrders, StockMatchesOrder
<1>7. QED
  BY <1>5, <1>6 DEF SingleAttemptInv

\* A settling transaction decides on what the order shows now.
LEMMA AttemptDecide ==
  ASSUME TypeOK, SingleAttemptInv, NEW w \in Workers,
         ConfirmTx(w) \/ ReserveStock(w) \/ FailTx(w) \/ ExpireTx(w)
  PROVE  SingleAttemptInv'
<1>1. /\ UNCHANGED <<orderStatus, taken, payStatus, reports>>
      /\ \A v \in Workers \ {w} : job'[v] = job[v]
  BY DEF ConfirmTx, ReserveStock, FailTx, ExpireTx, Locking, Goto, TypeOK, rows, provider
<1>2. PICK p \in Payments : p = job[w].on /\ job[w] \in PaymentJob
  BY JobKinds DEF ConfirmTx, ReserveStock, FailTx, ExpireTx, Locking, PaymentJob,
                  OrderJob, OrderOps
<1>3. Fits(w) /\ OrderAt(w) = OrderOf[p] /\ job[w].op \in SettleOps
  BY <1>2 DEF SingleAttemptInv, PendingWriteFits, OrderAt, ConfirmTx, ReserveStock, FailTx,
                       ExpireTx, Locking, SettleOps
<1>4. OrderOf[p] \in Orders
  BY <1>2, ConstantsAssumption
<1>5. job'[w].op = job[w].op /\ job'[w].on = p
  BY <1>2 DEF ConfirmTx, ReserveStock, FailTx, ExpireTx, Goto, TypeOK, PaymentJob
<1>6. Fits(w)'
  <2>1. CASE ConfirmTx(w)
    <3>1. \/ job'[w].at = "stock" /\ orderStatus[OrderOf[p]] = "CANCELLED"
          \/ /\ job'[w].at = "commit" /\ orderStatus[OrderOf[p]] # "CANCELLED"
             /\ job'[w].write = ConfirmWrite("CONFIRMED", 0)
      BY <1>2, <1>3, <2>1 DEF ConfirmTx, Goto, TypeOK, PaymentJob
    <3>2. QED
      BY <1>1, <1>2, <1>3, <1>5, <3>1 DEF Fits, HoldsRow, ConfirmWrite, SettleOps, OrderOps
  <2>2. CASE ReserveStock(w)
    <3>1. /\ job'[w].at = "commit" /\ orderStatus[OrderOf[p]] = "CANCELLED"
          /\ job'[w].write \in {ConfirmWrite("CONFIRMED", 1), ConfirmWrite("CANCELLED", 0)}
      BY <1>2, <1>3, <2>2 DEF ReserveStock, Goto, TypeOK, PaymentJob, Fits, HoldsRow
    <3>2. QED
      BY <1>1, <1>2, <1>3, <1>5, <3>1 DEF Fits, HoldsRow, ConfirmWrite, SettleOps, OrderOps
  <2>3. CASE FailTx(w) \/ ExpireTx(w)
    <3>1. PICK op \in SettleOps :
            job'[w].at = "commit" /\ job'[w].write = CancelWrite(op, OrderOf[p])
      BY <1>2, <1>3, <2>3 DEF FailTx, ExpireTx, Goto, TypeOK, PaymentJob, SettleOps
    <3>2. \/ /\ job'[w].write.status = Keep /\ job'[w].write.take = 0
          \/ /\ job'[w].write.status = "CANCELLED" /\ job'[w].write.take = -1
             /\ orderStatus[OrderOf[p]] # "CANCELLED"
      BY <3>1 DEF CancelWrite, Cancellable
    <3>3. QED
      BY <1>1, <1>2, <1>3, <1>5, <3>1, <3>2 DEF Fits, HoldsRow, SettleOps, OrderOps
  <2>4. QED
    BY <2>1, <2>2, <2>3
<1>7. QED
  BY <1>1, <1>6, JobStep

LEMMA AttemptEnd ==
  ASSUME TypeOK, SingleAttemptInv, NEW w \in Workers,
         LoseRace(w) \/ StaffCancel(w) \/ SendReceipt(w) \/ Die(w)
  PROVE  SingleAttemptInv'
<1>1. /\ UNCHANGED <<orderStatus, taken, payStatus, reports>>
      /\ \A v \in Workers \ {w} : job'[v] = job[v]
  BY DEF LoseRace, StaffCancel, SendReceipt, Die, Locking, Finish, TypeOK, rows, provider
<1>2. ~StaffCancel(w)
  BY DEF StaffCancel, OrderOps, SingleAttemptInv, PendingWriteFits, Fits
<1>3. job'[w] = Idle
  BY <1>2 DEF LoseRace, SendReceipt, Die, Locking, Finish, TypeOK
<1>4. Fits(w)'
  BY <1>3 DEF Fits, HoldsRow, SettleOps, OrderOps
<1>5. QED
  BY <1>1, <1>4, JobStep

LEMMA AttemptEnvironment ==
  ASSUME TypeOK, SingleAttemptInv, NEW p \in Payments, Report(p) \/ Age(p)
  PROVE  SingleAttemptInv'
<1>1. /\ UNCHANGED <<orderStatus, taken, payStatus, job>>
      /\ \A q \in Payments : ProviderOf[q] \notin Online => reports'[q] = reports[q]
  BY DEF Report, Age, TypeOK, rows
<1>2. ASSUME NEW v \in Workers PROVE Fits(v)'
  <2>1. Fits(v)
    BY DEF SingleAttemptInv, PendingWriteFits
  <2>2. QED
    BY <1>1, <2>1 DEF Fits, HoldsRow
<1>3. PendingWriteFits'
  BY <1>2 DEF PendingWriteFits, Fits
<1>4. UnsettledOrders' /\ StockMatchesOrder'
  BY <1>1 DEF SingleAttemptInv, UnsettledOrders, StockMatchesOrder
<1>5. QED
  BY <1>3, <1>4 DEF SingleAttemptInv

LEMMA AttemptNext ==
  ASSUME TypeOK, SettlementInv, SingleAttempt, SingleAttemptInv, [Next]_vars
  PROVE  SingleAttemptInv'
<1>1. CASE UNCHANGED vars
  BY <1>1 DEF vars, rows, provider, SingleAttemptInv, PendingWriteFits, Fits,
              UnsettledOrders, StockMatchesOrder, HoldsRow
<1>2. ASSUME NEW w \in Workers, Continue(w)
      PROVE  SingleAttemptInv'
  BY <1>2, AttemptRow, AttemptDecide, AttemptEnd, AttemptCommit DEF Continue
<1>3. QED
  BY <1>1, <1>2, AttemptBegin, AttemptEnd, AttemptEnvironment DEF Next

\* When every order has a single attempt and only the payment handlers run,
\* the units an order holds are exactly those its status calls for, whatever
\* webhooks, manual checks and cron passes overlap and wherever they die.
THEOREM SingleAttemptStock ==
  ASSUME SingleAttempt
  PROVE  Spec => []StockMatchesOrder
<1>1. Init => SingleAttemptInv
  BY AttemptInit
<1>2. TypeOK /\ SettlementInv /\ SingleAttemptInv /\ [Next]_vars => SingleAttemptInv'
  BY AttemptNext
<1>3. SingleAttemptInv => StockMatchesOrder
  BY DEF SingleAttemptInv
<1>4. QED
  BY <1>1, <1>2, <1>3, TypeCorrect, SettlementHolds, PTL DEF Spec

\* Under the same assumption, no step cancels the order of an attempt that is
\* already PAID: a late failure or expiry finds its WHERE clause false.
THEOREM SingleAttemptPaidOrder ==
  ASSUME SingleAttempt
  PROVE  Spec => PaidOrderNotCancelled
<1> DEFINE Stays(p) == payStatus[p] = "PAID" /\ orderStatus[OrderOf[p]] # "CANCELLED"
                         => orderStatus'[OrderOf[p]] # "CANCELLED"
<1>1. ASSUME TypeOK, SettlementInv, SingleAttemptInv, NEW w \in Workers, Commit(w),
             NEW p \in Payments
      PROVE  Stays(p)
  <2>1. PICK q \in Payments : q = job[w].on /\ OrderAt(w) = OrderOf[q]
    BY <1>1, CommitKinds
  <2>2. (job[w].op \in SettleOps \/ job[w].op = "initiate") /\ Fits(w)
    BY <1>1, CommitKinds
  <2>3. CASE OrderOf[p] # OrderOf[q]
    BY <1>1, <2>1, <2>3, ConstantsAssumption DEF Commit, TypeOK
  <2>4. CASE OrderOf[p] = OrderOf[q] /\ job[w].op \in SettleOps
    <3>1. p = q /\ HoldsRow(w, p)
      BY <1>1, <2>1, <2>4 DEF SingleAttempt, HoldsRow, Commit
    <3>2. payStatus[p] \in Where(job[w].op)
      BY <1>1, <3>1 DEF SettlementInv, RowLocks
    <3>3. QED
      BY <3>2 DEF Where, OpenStatuses
  <2>5. CASE OrderOf[p] = OrderOf[q] /\ job[w].op = "initiate"
    <3>1. job[w].write.status \in {Keep, "CONFIRMED"}
      BY <1>1, <2>1, <2>2, <2>5 DEF Fits, Commit, InitiationWrite
    <3>2. orderStatus'[OrderOf[q]] = Written(orderStatus[OrderOf[q]], job[w].write.status)
      BY <1>1, <2>1, ConstantsAssumption DEF Commit, TypeOK
    <3>3. QED
      BY <2>5, <3>1, <3>2 DEF Written
  <2>6. QED
    BY <2>2, <2>3, <2>4, <2>5
<1>2. ASSUME TypeOK, SettlementInv, SingleAttemptInv, [Next]_vars, NEW p \in Payments
      PROVE  Stays(p)
  <2>1. CASE \E w \in Workers : Commit(w)
    BY <1>1, <1>2, <2>1
  <2>2. CASE ~\E w \in Workers : Commit(w)
    <3>1. orderStatus' = orderStatus
      BY <1>2, <2>2 DEF Next, Report, Age, Begin, Continue, InitiatePayment, WebhookSuccess,
         WebhookFailed, WebhookExpired, WebhookRefused, Refused, VerifyPayment, ReconcilePaid,
         ReconcileFailed, ReconcileExpired, ConfirmPayment, MarkPaymentFailed,
         MarkPaymentExpired, Settle, Start, CancelMyOrder, UpdateStatus,
         UpdatePaymentStatus, ChangeOrder, CreatePayment, HoldPayment, StaffCancel,
         LoseRace, ConfirmTx, ReserveStock, FailTx, ExpireTx, Locking, SendReceipt, Die,
         vars, rows
    <3>2. QED
      BY <3>1
  <2>3. QED
    BY <2>1, <2>2
<1>3. TypeOK /\ SettlementInv /\ SingleAttemptInv /\ [Next]_vars
        => [\A p \in Payments : Stays(p)]_vars
  BY <1>2
<1>4. Init => SingleAttemptInv
  BY AttemptInit
<1>5. TypeOK /\ SettlementInv /\ SingleAttemptInv /\ [Next]_vars => SingleAttemptInv'
  BY AttemptNext
<1>6. QED
  BY <1>3, <1>4, <1>5, TypeCorrect, SettlementHolds, PTL DEF Spec, PaidOrderNotCancelled

-----------------------------------------------------------------------------
(* What a confirmed payment shows.                                         *)

LEMMA ShownInit == Init => ShownInv
BY DEF Init, ShownInv, PaidShowsOnOrder, InitiationFirst, ConfirmWritesOrder

\* With one attempt per order, what is announced for the order is announced for
\* the attempt.
LEMMA OwnProof ==
  ASSUME SingleAttempt, ProofInv
  PROVE  /\ \A p \in Payments : payStatus[p] = "PAID" => "success" \in reports[p]
         /\ \A w \in Workers :
              job[w].op = "confirm" /\ job[w].on \in Payments
                => "success" \in reports[job[w].on]
BY DEF SingleAttempt, ProofInv, PaidHasProof, ConfirmHasProof, MayPay, Siblings

\* A step of w that leaves the tables alone keeps the invariant when its new job
\* neither initiates an announced attempt nor confirms without writing the order.
LEMMA ShownJob ==
  ASSUME ShownInv, NEW w \in Workers,
         \A v \in Workers \ {w} : job'[v] = job[v],
         UNCHANGED <<orderStatus, orderPaid, payStatus, reports>>,
         job'[w].op = "initiate" => reports[job'[w].on] = {},
         job'[w].op = "confirm" /\ job'[w].at = "commit" =>
           /\ job'[w].write.paid = "PAID"
           /\ job'[w].write.status \in {"CONFIRMED", "CANCELLED"}
  PROVE  ShownInv'
<1>1. PaidShowsOnOrder'
  BY DEF ShownInv, PaidShowsOnOrder
<1>2. InitiationFirst'
  BY DEF ShownInv, InitiationFirst, Exists
<1>3. ConfirmWritesOrder'
  BY DEF ShownInv, ConfirmWritesOrder
<1>4. QED
  BY <1>1, <1>2, <1>3 DEF ShownInv

LEMMA ShownBegin ==
  ASSUME TypeOK, SingleAttempt, ShownInv, NEW w \in Workers, Begin(w)
  PROVE  ShownInv'
<1>1. ASSUME NEW p \in Payments, InitiatePayment(w, p)
      PROVE  ShownInv'
  <2>1. /\ job'[w] = Job("initiate", "create", p, NoWrite)
        /\ \A v \in Workers \ {w} : job'[v] = job[v]
        /\ UNCHANGED <<orderStatus, orderPaid, payStatus, reports>>
        /\ payStatus[p] = "none"
    BY <1>1 DEF InitiatePayment, Start, TypeOK, rows, provider
  <2>2. reports[p] = {}
    BY <2>1 DEF ShownInv, InitiationFirst, Exists
  <2>3. QED
    BY <2>1, <2>2, ShownJob
<1>2. ASSUME NEW p \in Payments, NEW op \in SettleOps, Settle(w, op, p)
      PROVE  ShownInv'
  <2>1. /\ job'[w] = Job(op, "begin", p, NoWrite)
        /\ \A v \in Workers \ {w} : job'[v] = job[v]
        /\ UNCHANGED <<orderStatus, orderPaid, payStatus, reports>>
    BY <1>2 DEF Settle, Start, TypeOK, rows, provider
  <2>2. QED
    BY <2>1, ShownJob DEF SettleOps
<1>3. ASSUME NEW p \in Payments,
             \/ WebhookSuccess(w, p) \/ WebhookFailed(w, p) \/ WebhookExpired(w, p)
             \/ VerifyPayment(w, p)
             \/ ReconcilePaid(w, p) \/ ReconcileFailed(w, p) \/ ReconcileExpired(w, p)
      PROVE  ShownInv'
  <2>1. \E op \in SettleOps : Settle(w, op, p)
    BY <1>3 DEF WebhookSuccess, WebhookFailed, WebhookExpired, VerifyPayment,
                ReconcilePaid, ReconcileFailed, ReconcileExpired,
                ConfirmPayment, MarkPaymentFailed, MarkPaymentExpired, SettleOps
  <2>2. QED
    BY <1>2, <2>1
<1>4. ASSUME NEW p \in Payments, WebhookRefused(w, p)
      PROVE  ShownInv'
  <2>1. /\ job'[w] = Job("hold", "write", p, NoWrite) \/ job'[w] = Idle
        /\ \A v \in Workers \ {w} : job'[v] = job[v]
        /\ UNCHANGED <<orderStatus, orderPaid, payStatus, reports>>
    BY <1>4, RefusedStep
  <2>2. QED
    BY <2>1, ShownJob
<1>5. ASSUME NEW o \in Orders,
             CancelMyOrder(w, o) \/ UpdateStatus(w, o) \/ UpdatePaymentStatus(w, o)
      PROVE  FALSE
  BY <1>5 DEF CancelMyOrder, UpdateStatus, UpdatePaymentStatus, SingleAttempt,
              PaymentHandlers
<1>6. QED
  BY <1>1, <1>3, <1>4, <1>5 DEF Begin

\* The confirmation of p writes both columns of its order; no other commit
\* touches the order of an attempt that is PAID.
LEMMA ShownCommit ==
  ASSUME TypeOK, SettlementInv, ProofInv, SingleAttempt, SingleAttemptInv, ShownInv,
         NEW w \in Workers, Commit(w)
  PROVE  ShownInv'
<1>1. PICK q \in Payments : q = job[w].on /\ OrderAt(w) = OrderOf[q] /\ OrderOf[q] \in Orders
  BY CommitKinds
<1>2. /\ job[w] \in PaymentJob
      /\ job[w].op \in SettleOps \/ job[w].op = "initiate"
  BY CommitKinds
<1>3. PICK new : new = job[w].write
  OBVIOUS
<1>4. /\ orderStatus' = [orderStatus EXCEPT ![OrderOf[q]] = Written(@, new.status)]
      /\ orderPaid' = [orderPaid EXCEPT ![OrderOf[q]] = Written(@, new.paid)]
      /\ reports' = reports
      /\ \A v \in Workers \ {w} : job'[v] = job[v]
      /\ job[w].at = "commit"
  BY <1>1, <1>3 DEF Commit, Goto, Finish, TypeOK, provider
<1>5. /\ \A p \in Payments \ {q} : payStatus'[p] = payStatus[p]
      /\ payStatus'[q] = IF job[w].op \in SettleOps THEN Settled(job[w].op)
                         ELSE payStatus[q]
  BY <1>1 DEF Commit, TypeOK
<1>6. ASSUME NEW p \in Payments, payStatus'[p] = "PAID"
      PROVE  /\ orderPaid'[OrderOf[p]] = "PAID"
             /\ orderStatus'[OrderOf[p]] \in {"CONFIRMED", "CANCELLED"}
  <2>1. CASE p # q
    <3>1. OrderOf[p] # OrderOf[q] /\ payStatus[p] = "PAID" /\ OrderOf[p] \in Orders
      BY <1>5, <1>6, <2>1, ConstantsAssumption DEF SingleAttempt
    <3>2. /\ orderPaid[OrderOf[p]] = "PAID"
          /\ orderStatus[OrderOf[p]] \in {"CONFIRMED", "CANCELLED"}
      BY <3>1 DEF ShownInv, PaidShowsOnOrder
    <3>3. QED
      BY <1>4, <3>1, <3>2 DEF TypeOK
  <2>2. CASE p = q /\ job[w].op = "initiate"
    <3>1. payStatus[q] = "PAID"
      BY <1>5, <1>6, <2>2 DEF SettleOps
    <3>2. "success" \in reports[q]
      BY <3>1, OwnProof
    <3>3. reports[q] = {}
      BY <1>1, <2>2 DEF ShownInv, InitiationFirst
    <3>4. QED
      BY <3>2, <3>3
  <2>3. CASE p = q /\ job[w].op \in SettleOps
    <3>1. job[w].op = "confirm"
      BY <1>5, <1>6, <2>3 DEF SettleOps, Settled
    <3>2. new.paid = "PAID" /\ new.status \in {"CONFIRMED", "CANCELLED"}
      BY <1>3, <1>4, <3>1 DEF ShownInv, ConfirmWritesOrder
    <3>3. QED
      BY <1>1, <1>4, <2>3, <3>2 DEF Written, TypeOK
  <2>4. QED
    BY <1>2, <2>1, <2>2, <2>3
<1>7. PaidShowsOnOrder'
  BY <1>6 DEF PaidShowsOnOrder
<1>8. \/ job'[w] = Idle
      \/ job'[w].op = "confirm" /\ job'[w].at = "after"
  BY <1>1, <1>2 DEF Commit, Goto, Finish, TypeOK, PaymentJob, SettleOps
<1>9. InitiationFirst'
  <2>1. \A p \in Payments : payStatus[p] # "none" => payStatus'[p] # "none"
    BY <1>5 DEF SettleOps, Settled
  <2>2. QED
    BY <1>4, <1>8, <2>1 DEF ShownInv, InitiationFirst, Exists
<1>10. ConfirmWritesOrder'
  BY <1>4, <1>8 DEF ShownInv, ConfirmWritesOrder
<1>11. QED
  BY <1>7, <1>9, <1>10 DEF ShownInv

\* Creating the row or holding it makes no attempt PAID.
LEMMA ShownRow ==
  ASSUME TypeOK, SingleAttemptInv, ShownInv, NEW w \in Workers,
         CreatePayment(w) \/ HoldPayment(w)
  PROVE  ShownInv'
<1>1. /\ UNCHANGED <<orderStatus, orderPaid, reports>>
      /\ \A v \in Workers \ {w} : job'[v] = job[v]
  BY DEF CreatePayment, HoldPayment, Goto, Finish, TypeOK, provider
<1>2. \A q \in Payments : \/ payStatus'[q] = payStatus[q]
                          \/ payStatus'[q] \in {"PENDING", "PROCESSING"}
  BY DEF CreatePayment, HoldPayment, TypeOK
<1>3. \/ job'[w] = Idle
      \/ /\ job'[w].op = "initiate" /\ job[w].op = "initiate"
         /\ job'[w].on = job[w].on
  <2>1. CASE CreatePayment(w)
    BY <2>1, JobKinds DEF CreatePayment, Goto, TypeOK, PaymentJob, OrderJob, PaymentOps
  <2>2. CASE HoldPayment(w)
    BY <2>2 DEF HoldPayment, Finish, TypeOK
  <2>3. QED
    BY <2>1, <2>2
<1>4. PaidShowsOnOrder'
  BY <1>1, <1>2 DEF ShownInv, PaidShowsOnOrder
<1>5. InitiationFirst'
  BY <1>1, <1>2, <1>3 DEF ShownInv, InitiationFirst, Exists
<1>6. ConfirmWritesOrder'
  BY <1>1, <1>3 DEF ShownInv, ConfirmWritesOrder
<1>7. QED
  BY <1>4, <1>5, <1>6 DEF ShownInv

LEMMA ShownDecide ==
  ASSUME TypeOK, ShownInv, NEW w \in Workers,
         ConfirmTx(w) \/ ReserveStock(w) \/ FailTx(w) \/ ExpireTx(w)
  PROVE  ShownInv'
<1>1. /\ UNCHANGED <<orderStatus, orderPaid, payStatus, reports>>
      /\ \A v \in Workers \ {w} : job'[v] = job[v]
  BY DEF ConfirmTx, ReserveStock, FailTx, ExpireTx, Locking, Goto, TypeOK, rows, provider
<1>2. job[w] \in PaymentJob
  BY JobKinds DEF ConfirmTx, ReserveStock, FailTx, ExpireTx, Locking, PaymentJob,
                  OrderJob, OrderOps
<1>3. job'[w].op = job[w].op /\ job[w].op \in SettleOps
  BY <1>2 DEF ConfirmTx, ReserveStock, FailTx, ExpireTx, Locking, Goto, TypeOK,
              PaymentJob, SettleOps
<1>4. ASSUME job'[w].op = "confirm", job'[w].at = "commit"
      PROVE  \E s \in {"CONFIRMED", "CANCELLED"}, n \in {0, 1} :
               job'[w].write = ConfirmWrite(s, n)
  <2>1. ConfirmTx(w) \/ ReserveStock(w)
    BY <1>3, <1>4 DEF FailTx, ExpireTx, Locking
  <2>2. CASE ConfirmTx(w)
    BY <1>2, <1>4, <2>2 DEF ConfirmTx, Goto, TypeOK, PaymentJob
  <2>3. CASE ReserveStock(w)
    BY <1>2, <1>4, <2>3 DEF ReserveStock, Goto, TypeOK, PaymentJob
  <2>4. QED
    BY <2>1, <2>2, <2>3
<1>5. QED
  BY <1>1, <1>3, <1>4, ShownJob DEF ConfirmWrite, SettleOps

LEMMA ShownEnd ==
  ASSUME TypeOK, SingleAttemptInv, ShownInv, NEW w \in Workers,
         LoseRace(w) \/ StaffCancel(w) \/ SendReceipt(w) \/ Die(w)
  PROVE  ShownInv'
<1>1. /\ UNCHANGED <<orderStatus, orderPaid, payStatus, reports>>
      /\ \A v \in Workers \ {w} : job'[v] = job[v]
  BY DEF LoseRace, StaffCancel, SendReceipt, Die, Locking, Finish, TypeOK, rows, provider
<1>2. ~StaffCancel(w)
  BY DEF StaffCancel, OrderOps, SingleAttemptInv, PendingWriteFits, Fits
<1>3. job'[w] = Idle
  BY <1>2 DEF LoseRace, SendReceipt, Die, Locking, Finish, TypeOK
<1>4. QED
  BY <1>1, <1>3, ShownJob

LEMMA ShownEnvironment ==
  ASSUME TypeOK, ShownInv, NEW p \in Payments, Report(p) \/ Age(p)
  PROVE  ShownInv'
<1>1. UNCHANGED <<orderStatus, orderPaid, payStatus, job>>
  BY DEF Report, Age, rows
<1>2. \A q \in Payments : reports'[q] = reports[q] \/ (q = p /\ Report(p))
  BY DEF Report, Age, TypeOK
<1>3. InitiationFirst'
  <2>1. \A q \in Payments : reports'[q] # {} => Exists(q)'
    BY <1>1, <1>2 DEF ShownInv, InitiationFirst, Exists, Report
  <2>2. ASSUME NEW w \in Workers, job'[w].op = "initiate"
        PROVE  reports'[job'[w].on] = {}
    <3>1. job[w].op = "initiate" /\ reports[job[w].on] = {} /\ job[w].on \in Payments
      BY <1>1, <2>2, JobKinds DEF ShownInv, InitiationFirst, PaymentJob, OrderJob, OrderOps
    <3>2. Report(p) => job[w].on # p
      BY <3>1 DEF Report
    <3>3. QED
      BY <1>1, <1>2, <3>1, <3>2
  <2>3. QED
    BY <2>1, <2>2 DEF InitiationFirst
<1>4. PaidShowsOnOrder' /\ ConfirmWritesOrder'
  BY <1>1 DEF ShownInv, PaidShowsOnOrder, ConfirmWritesOrder
<1>5. QED
  BY <1>3, <1>4 DEF ShownInv

LEMMA ShownNext ==
  ASSUME TypeOK, SettlementInv, ProofInv, SingleAttempt, SingleAttemptInv, ShownInv,
         [Next]_vars
  PROVE  ShownInv'
<1>1. CASE UNCHANGED vars
  BY <1>1 DEF vars, rows, provider, ShownInv, PaidShowsOnOrder, InitiationFirst,
              ConfirmWritesOrder, Exists
<1>2. ASSUME NEW w \in Workers, Continue(w)
      PROVE  ShownInv'
  BY <1>2, ShownRow, ShownDecide, ShownEnd, ShownCommit DEF Continue
<1>3. QED
  BY <1>1, <1>2, ShownBegin, ShownEnd, ShownEnvironment DEF Next

\* Under the same assumption, whatever overlaps and wherever it dies, the order
\* of a PAID attempt shows PAID and is confirmed, or cancelled for want of stock:
\* no late failure, expiry or initiation writes over what the confirmation wrote.
THEOREM SingleAttemptShown ==
  ASSUME SingleAttempt
  PROVE  Spec => []PaidShowsOnOrder
<1>1. Init => ShownInv /\ SingleAttemptInv /\ ProofInv
  BY ShownInit, AttemptInit, ProofInit
<1>2. TypeOK /\ SettlementInv /\ ProofInv /\ SingleAttemptInv /\ ShownInv /\ [Next]_vars
        => ShownInv'
  BY ShownNext
<1>3. TypeOK /\ SettlementInv /\ SingleAttemptInv /\ [Next]_vars => SingleAttemptInv'
  BY AttemptNext
<1>4. TypeOK /\ ProofInv /\ [Next]_vars => ProofInv'
  BY ProofNext
<1>5. ShownInv => PaidShowsOnOrder
  BY DEF ShownInv
<1>6. QED
  BY <1>1, <1>2, <1>3, <1>4, <1>5, TypeCorrect, SettlementHolds, PTL DEF Spec

-----------------------------------------------------------------------------
(* Refinement: handlers that run one after the other.                      *)

LEMMA OneHandlerInit == Init => OneHandlerInv
BY DEF Init, OneHandlerInv, HeldIsOpen, ReceiptOnce, Confirmed

\* A step of the only handler that leaves the rows alone, starts no hold on a
\* settled row and owes no receipt.
LEMMA OneHandlerQuiet ==
  ASSUME OneHandler, OneHandlerInv, NEW w \in Workers,
         UNCHANGED <<payStatus, receipts>>,
         job'[w].op = "hold" => payStatus[job'[w].on] \in OpenStatuses,
         ~(job'[w].op = "confirm" /\ job'[w].at = "after")
  PROVE  OneHandlerInv'
<1>1. \A v \in Workers : v = w
  BY DEF OneHandler
<1>2. HeldIsOpen'
  BY <1>1 DEF HeldIsOpen
<1>3. ReceiptOnce'
  BY <1>1 DEF OneHandlerInv, ReceiptOnce, Confirmed
<1>4. QED
  BY <1>2, <1>3 DEF OneHandlerInv

LEMMA OneHandlerBegin ==
  ASSUME TypeOK, OneHandler, OneHandlerInv, NEW w \in Workers, Begin(w)
  PROVE  OneHandlerInv'
<1>1. ASSUME NEW p \in Payments, WebhookRefused(w, p)
      PROVE  OneHandlerInv'
  <2>1. /\ \/ /\ job'[w] = Job("hold", "write", p, NoWrite)
              /\ payStatus[p] \in OpenStatuses
           \/ job'[w] = Idle
        /\ UNCHANGED <<payStatus, receipts>>
    BY <1>1, RefusedStep
  <2>2. QED
    BY <2>1, OneHandlerQuiet
<1>2. ASSUME NEW j, Start(w, j), j.op # "hold", j.at # "after"
      PROVE  OneHandlerInv'
  <2>1. job'[w] = j /\ UNCHANGED <<payStatus, receipts>>
    BY <1>2 DEF Start, TypeOK, rows
  <2>2. QED
    BY <1>2, <2>1, OneHandlerQuiet
<1>3. ASSUME NEW p \in Payments,
             \/ InitiatePayment(w, p)
             \/ WebhookSuccess(w, p) \/ WebhookFailed(w, p) \/ WebhookExpired(w, p)
             \/ VerifyPayment(w, p)
             \/ ReconcilePaid(w, p) \/ ReconcileFailed(w, p) \/ ReconcileExpired(w, p)
      PROVE  OneHandlerInv'
  <2>1. \/ Start(w, Job("initiate", "create", p, NoWrite))
        \/ \E op \in SettleOps : Start(w, Job(op, "begin", p, NoWrite))
    BY <1>3 DEF InitiatePayment, WebhookSuccess, WebhookFailed, WebhookExpired,
                VerifyPayment, ReconcilePaid, ReconcileFailed, ReconcileExpired,
                ConfirmPayment, MarkPaymentFailed, MarkPaymentExpired, Settle, SettleOps
  <2>2. QED
    BY <1>2, <2>1 DEF SettleOps
<1>4. ASSUME NEW o \in Orders,
             CancelMyOrder(w, o) \/ UpdateStatus(w, o) \/ UpdatePaymentStatus(w, o)
      PROVE  OneHandlerInv'
  <2>1. ASSUME NEW op \in OrderOps, NEW wr, Start(w, Job(op, "commit", o, wr))
        PROVE  OneHandlerInv'
    BY <1>2, <2>1 DEF OrderOps
  <2>2. QED
    BY <1>4, <2>1 DEF CancelMyOrder, UpdateStatus, UpdatePaymentStatus, ChangeOrder, OrderOps
<1>5. QED
  BY <1>1, <1>3, <1>4 DEF Begin

LEMMA OneHandlerContinue ==
  ASSUME TypeOK, SettlementInv, OneHandler, OneHandlerInv, NEW w \in Workers,
         Continue(w) \/ Die(w)
  PROVE  OneHandlerInv'
<1>0. \A v \in Workers : v = w
  BY DEF OneHandler
<1>1. CASE CreatePayment(w)
  <2>0. PICK p \in Payments : p = job[w].on
    BY <1>1, JobKinds DEF CreatePayment, PaymentJob, OrderJob, OrderOps
  <2>1. payStatus[p] = "none" /\ receipts' = receipts
        /\ payStatus' = [payStatus EXCEPT ![p] = "PENDING"]
    BY <1>1, <2>0 DEF CreatePayment, SettlementInv, RowInserts, Creating
  <2>2. job'[w].op = "initiate"
    BY <1>1 DEF CreatePayment, Goto, TypeOK
  <2>3. HeldIsOpen'
    BY <1>0, <2>2 DEF HeldIsOpen
  <2>4. ReceiptOnce'
    BY <1>0, <2>1, <2>2 DEF OneHandlerInv, ReceiptOnce, Confirmed, TypeOK
  <2>5. QED
    BY <2>3, <2>4 DEF OneHandlerInv
<1>2. CASE HoldPayment(w)
  <2>0. PICK p \in Payments : p = job[w].on
    BY <1>2, JobKinds DEF HoldPayment, PaymentJob, OrderJob, OrderOps
  <2>1. payStatus[p] \in OpenStatuses /\ receipts' = receipts
        /\ payStatus' = [payStatus EXCEPT ![p] = "PROCESSING"]
    BY <1>2, <2>0 DEF HoldPayment, OneHandlerInv, HeldIsOpen
  <2>2. job'[w] = Idle
    BY <1>2 DEF HoldPayment, Finish, TypeOK
  <2>3. HeldIsOpen'
    BY <1>0, <2>2 DEF HeldIsOpen
  <2>4. ReceiptOnce'
    BY <1>0, <2>1, <2>2 DEF OneHandlerInv, ReceiptOnce, Confirmed, OpenStatuses, TypeOK
  <2>5. QED
    BY <2>3, <2>4 DEF OneHandlerInv
<1>3. CASE StaffCancel(w) \/ LoseRace(w) \/ Die(w)
  <2>1. /\ job'[w] = Idle \/ job'[w].op = "order"
        /\ UNCHANGED <<payStatus, receipts>>
    BY <1>3 DEF StaffCancel, LoseRace, Die, Locking, Finish, TypeOK, rows
  <2>2. QED
    BY <2>1, OneHandlerQuiet
<1>4. CASE ConfirmTx(w) \/ ReserveStock(w) \/ FailTx(w) \/ ExpireTx(w)
  <2>1. job[w].op \in SettleOps /\ UNCHANGED <<payStatus, receipts>>
    BY <1>4 DEF ConfirmTx, ReserveStock, FailTx, ExpireTx, Locking, SettleOps, rows
  <2>2. job'[w].op = job[w].op /\ job'[w].at \in {"stock", "commit"}
    BY <1>4, <2>1, JobKinds DEF ConfirmTx, ReserveStock, FailTx, ExpireTx, Goto, TypeOK,
                                PaymentJob, OrderJob, OrderOps, SettleOps
  <2>3. QED
    BY <2>1, <2>2, OneHandlerQuiet DEF SettleOps
<1>5. CASE Commit(w) /\ job[w].op \in SettleOps
  <2>0. PICK p \in Payments : p = job[w].on
    BY <1>5, JobKinds DEF PaymentJob, OrderJob, OrderOps, SettleOps
  <2>1. /\ payStatus[p] \in Where(job[w].op) /\ receipts' = receipts
        /\ payStatus' = [payStatus EXCEPT ![p] = Settled(job[w].op)]
    BY <1>5, <2>0 DEF Commit, SettlementInv, RowLocks, HoldsRow
  <2>2. receipts[p] = 0
    BY <2>1 DEF Where, OpenStatuses, PaymentStatus, OneHandlerInv, ReceiptOnce
  <2>3. \/ job[w].op = "confirm" /\ job'[w].op = "confirm" /\ job'[w].on = p
        \/ job[w].op # "confirm" /\ job'[w] = Idle
    BY <1>5, <2>0, JobKinds DEF Commit, Goto, Finish, TypeOK, SettleOps, PaymentJob,
                                OrderJob, OrderOps
  <2>4. HeldIsOpen'
    BY <1>0, <2>3 DEF HeldIsOpen
  <2>5. ReceiptOnce'
    BY <1>0, <2>1, <2>2, <2>3 DEF OneHandlerInv, ReceiptOnce, Confirmed, Settled, TypeOK
  <2>6. QED
    BY <2>4, <2>5 DEF OneHandlerInv
<1>6. CASE Commit(w) /\ job[w].op \notin SettleOps
  <2>1. /\ job'[w] = Idle \/ job'[w].op = "staffFail"
        /\ UNCHANGED <<payStatus, receipts>>
    BY <1>6, JobKinds DEF Commit, Goto, Finish, TypeOK, SettleOps, PaymentJob, OrderJob
  <2>2. QED
    BY <2>1, OneHandlerQuiet
<1>7. CASE SendReceipt(w)
  <2>0. PICK p \in Payments : p = job[w].on
    BY <1>7, JobKinds DEF SendReceipt, PaymentJob, OrderJob, OrderOps
  <2>1. /\ payStatus[p] = "PAID" /\ payStatus' = payStatus
        /\ \A q \in Payments \ {p} : receipts'[q] = receipts[q]
    BY <1>7, <2>0 DEF SendReceipt, OneHandlerInv, ReceiptOnce, Confirmed, TypeOK
  <2>2. job'[w] = Idle
    BY <1>7 DEF SendReceipt, Finish, TypeOK
  <2>3. HeldIsOpen'
    BY <1>0, <2>2 DEF HeldIsOpen
  <2>4. ReceiptOnce'
    BY <1>0, <2>1, <2>2 DEF OneHandlerInv, ReceiptOnce, Confirmed
  <2>5. QED
    BY <2>3, <2>4 DEF OneHandlerInv
<1>8. QED
  BY <1>1, <1>2, <1>3, <1>4, <1>5, <1>6, <1>7 DEF Continue

LEMMA OneHandlerNext ==
  ASSUME TypeOK, SettlementInv, OneHandler, OneHandlerInv, [Next]_vars
  PROVE  OneHandlerInv'
<1>1. ASSUME UNCHANGED <<payStatus, receipts, job>>
      PROVE  OneHandlerInv'
  BY <1>1 DEF OneHandlerInv, HeldIsOpen, ReceiptOnce, Confirmed
<1>2. CASE UNCHANGED vars
  BY <1>1, <1>2 DEF vars, rows
<1>3. ASSUME NEW p \in Payments, Report(p) \/ Age(p)
      PROVE  OneHandlerInv'
  BY <1>1, <1>3 DEF Report, Age, rows
<1>4. QED
  BY <1>2, <1>3, OneHandlerBegin, OneHandlerContinue DEF Next

LEMMA FullStep ==
  ASSUME TypeOK, SettlementInv, OneHandlerInv, [Next]_vars
  PROVE  [AllAttempts!Next]_(AllAttempts!vars)
<1> USE DEF AllAttempts!vars
<1>1. ASSUME NEW w \in Workers, CreatePayment(w)
      PROVE  AllAttempts!Next
  <2>0. PICK p \in Payments : p = job[w].on
    BY <1>1, JobKinds DEF CreatePayment, PaymentJob, OrderJob, OrderOps
  <2>1. AllAttempts!Create(p)
    BY <1>1, <2>0 DEF CreatePayment, SettlementInv, RowInserts, Creating,
                      AllAttempts!Create, AllAttempts!Move
  <2>2. QED
    BY <2>1 DEF AllAttempts!Next
<1>2. ASSUME NEW w \in Workers, HoldPayment(w)
      PROVE  AllAttempts!Next
  <2>0. PICK p \in Payments : p = job[w].on
    BY <1>2, JobKinds DEF HoldPayment, PaymentJob, OrderJob, OrderOps
  <2>1. AllAttempts!Hold(p)
    BY <1>2, <2>0 DEF HoldPayment, OneHandlerInv, HeldIsOpen, OpenStatuses,
                      AllAttempts!Hold, AllAttempts!Move, AllAttempts!Open
  <2>2. QED
    BY <2>1 DEF AllAttempts!Next
<1>3. ASSUME NEW w \in Workers, Commit(w), job[w].op \in SettleOps
      PROVE  AllAttempts!Next
  <2>0. PICK p \in Payments : p = job[w].on
    BY <1>3, JobKinds DEF PaymentJob, OrderJob, OrderOps, SettleOps
  <2>1. /\ payStatus[p] \in Where(job[w].op) /\ receipts' = receipts
        /\ payStatus' = [payStatus EXCEPT ![p] = Settled(job[w].op)]
    BY <1>3, <2>0 DEF Commit, SettlementInv, RowLocks, HoldsRow
  <2>2. payStatus[p] \in {"PENDING", "PROCESSING", "EXPIRED", "FAILED"}
    BY <2>1 DEF Where, OpenStatuses, PaymentStatus, TypeOK
  <2>3. \/ job[w].op = "confirm" /\ AllAttempts!Pay(p)
        \/ job[w].op = "fail" /\ AllAttempts!Fail(p)
        \/ job[w].op = "expire" /\ AllAttempts!Expire(p)
    BY <1>3, <2>1, <2>2
       DEF SettleOps, Settled, Where, OpenStatuses, AllAttempts!Pay, AllAttempts!Fail,
           AllAttempts!Expire, AllAttempts!Move, AllAttempts!Open
  <2>4. QED
    BY <2>3 DEF AllAttempts!Next
<1>4. ASSUME NEW w \in Workers, SendReceipt(w)
      PROVE  AllAttempts!Next
  <2>0. PICK p \in Payments : p = job[w].on
    BY <1>4, JobKinds DEF SendReceipt, PaymentJob, OrderJob, OrderOps
  <2>1. payStatus[p] = "PAID" /\ receipts[p] = 0
    BY <1>4, <2>0 DEF SendReceipt, OneHandlerInv, ReceiptOnce, Confirmed
  <2>2. AllAttempts!Receipt(p)
    BY <1>4, <2>0, <2>1 DEF SendReceipt, AllAttempts!Receipt
  <2>3. QED
    BY <2>2 DEF AllAttempts!Next
<1>5. ASSUME NEW w \in Workers, Begin(w)
      PROVE  UNCHANGED <<payStatus, receipts>>
  BY <1>5 DEF Begin, InitiatePayment, WebhookSuccess, WebhookFailed, WebhookExpired,
              WebhookRefused, Refused, VerifyPayment, ReconcilePaid, ReconcileFailed,
              ReconcileExpired, ConfirmPayment, MarkPaymentFailed, MarkPaymentExpired,
              Settle, CancelMyOrder, UpdateStatus, UpdatePaymentStatus, ChangeOrder,
              Start, rows
<1>6. ASSUME NEW w \in Workers,
             \/ StaffCancel(w) \/ LoseRace(w) \/ ConfirmTx(w) \/ ReserveStock(w)
             \/ FailTx(w) \/ ExpireTx(w) \/ Die(w)
             \/ (Commit(w) /\ job[w].op \notin SettleOps)
      PROVE  UNCHANGED <<payStatus, receipts>>
  BY <1>6 DEF StaffCancel, LoseRace, ConfirmTx, ReserveStock, FailTx, ExpireTx, Die,
              Commit, Locking, rows
<1>7. ASSUME NEW p \in Payments, Report(p) \/ Age(p)
      PROVE  UNCHANGED <<payStatus, receipts>>
  BY <1>7 DEF Report, Age, rows
<1>8. CASE UNCHANGED vars
  BY <1>8 DEF vars, rows
<1>9. CASE Next
  BY <1>1, <1>2, <1>3, <1>4, <1>5, <1>6, <1>7, <1>9 DEF Next, Continue
<1>10. QED
  BY <1>8, <1>9

\* When handlers run one after the other every attempt follows the promised
\* lifecycle, Bictorys ones included: the update by id of holdBictorysPayment
\* (payments.service.ts:1665) then never meets a row settled since it was read.
THEOREM OneHandlerLifecycle ==
  ASSUME OneHandler
  PROVE  Spec => FullLifecycle
<1>1. Init => OneHandlerInv /\ AllAttempts!Init
  BY OneHandlerInit DEF Init, AllAttempts!Init
<1>2. TypeOK /\ SettlementInv /\ OneHandlerInv /\ [Next]_vars => OneHandlerInv'
  BY OneHandlerNext
<1>3. TypeOK /\ SettlementInv /\ OneHandlerInv /\ [Next]_vars
        => [AllAttempts!Next]_(AllAttempts!vars)
  BY FullStep
<1>4. QED
  BY <1>1, <1>2, <1>3, TypeCorrect, SettlementHolds, PTL
     DEF Spec, FullLifecycle, AllAttempts!Spec

-----------------------------------------------------------------------------
(* Stock and order, when handlers run one after the other.                 *)

LEMMA UnrefundedInit == Init => UnrefundedStock
BY ConstantsAssumption
   DEF Init, UnrefundedStock, OrderFits, StockMatchesOrder, Released, OrderAt

\* A step of the only handler that leaves the orders alone.
LEMMA UnrefundedQuiet ==
  ASSUME OneHandler, UnrefundedStock, NEW w \in Workers,
         UNCHANGED <<orderStatus, taken>>,
         OrderFits(w)'
  PROVE  UnrefundedStock'
<1>1. \A v \in Workers : OrderFits(v)'
  BY DEF OneHandler
<1>2. QED
  BY <1>1 DEF UnrefundedStock, StockMatchesOrder

\* A handler that has not decided what to write fits any order that stands.
LEMMA UndecidedFits ==
  ASSUME NEW w \in Workers, NEW op, NEW at, NEW on,
         UNCHANGED orderStatus, job'[w] = Job(op, at, on, NoWrite),
         at \notin {"stock", "commit"}, op # "initiate"
  PROVE  OrderFits(w)'
BY DEF OrderFits

LEMMA UnrefundedBegin ==
  ASSUME TypeOK, OneHandler, NoRefunds, UnrefundedStock, NEW w \in Workers, Begin(w)
  PROVE  UnrefundedStock'
<1>1. ASSUME NEW p \in Payments, InitiatePayment(w, p)
      PROVE  UnrefundedStock'
  <2>1. /\ job'[w] = Job("initiate", "create", p, NoWrite)
        /\ UNCHANGED <<orderStatus, taken>>
        /\ orderStatus[OrderOf[p]] \notin Released
    BY <1>1 DEF InitiatePayment, MayInitiate, Released, Start, TypeOK, rows
  <2>2. OrderFits(w)'
    BY <2>1 DEF OrderFits, OrderAt
  <2>3. QED
    BY <2>1, <2>2, UnrefundedQuiet
<1>2. ASSUME NEW p \in Payments, NEW op \in SettleOps, Settle(w, op, p)
      PROVE  UnrefundedStock'
  <2>1. job'[w] = Job(op, "begin", p, NoWrite) /\ UNCHANGED <<orderStatus, taken>>
    BY <1>2 DEF Settle, Start, TypeOK, rows
  <2>2. OrderFits(w)'
    BY <2>1, UndecidedFits DEF SettleOps
  <2>3. QED
    BY <2>1, <2>2, UnrefundedQuiet
<1>3. ASSUME NEW p \in Payments, WebhookRefused(w, p)
      PROVE  UnrefundedStock'
  <2>1. /\ job'[w] = Job("hold", "write", p, NoWrite) \/ job'[w] = Idle
        /\ UNCHANGED <<orderStatus, taken>>
    BY <1>3, RefusedStep
  <2>2. OrderFits(w)'
    BY <2>1, UndecidedFits
  <2>3. QED
    BY <2>1, <2>2, UnrefundedQuiet
<1>4. ASSUME NEW p \in Payments,
             \/ WebhookSuccess(w, p) \/ WebhookFailed(w, p) \/ WebhookExpired(w, p)
             \/ VerifyPayment(w, p)
             \/ ReconcilePaid(w, p) \/ ReconcileFailed(w, p) \/ ReconcileExpired(w, p)
      PROVE  UnrefundedStock'
  BY <1>2, <1>4 DEF WebhookSuccess, WebhookFailed, WebhookExpired, VerifyPayment,
                    ReconcilePaid, ReconcileFailed, ReconcileExpired, ConfirmPayment,
                    MarkPaymentFailed, MarkPaymentExpired, SettleOps
<1>5. ASSUME NEW o \in Orders, NEW op \in OrderOps, NEW new,
             Start(w, Job(op, "commit", o, new)),
             new.take = Stands(Written(orderStatus[o], new.status)) - Stands(orderStatus[o]),
             new.status # "REFUNDED"
      PROVE  UnrefundedStock'
  <2>1. job'[w] = Job(op, "commit", o, new) /\ UNCHANGED <<orderStatus, taken>>
    BY <1>5 DEF Start, TypeOK, rows
  <2>2. OrderAt(w)' = o
    BY <2>1, ConstantsAssumption DEF OrderAt
  <2>3. OrderFits(w)'
    BY <1>5, <2>1, <2>2 DEF OrderFits, OrderOps
  <2>4. QED
    BY <2>1, <2>3, UnrefundedQuiet
<1>6. ASSUME NEW o \in Orders, CancelMyOrder(w, o)
      PROVE  UnrefundedStock'
  <2> DEFINE new == [status |-> "CANCELLED", paid |-> "CANCELLED", take |-> -1]
  <2>1. Start(w, Job("order", "commit", o, new)) /\ orderStatus[o] = "PENDING"
    BY <1>6 DEF CancelMyOrder, ChangeOrder
  <2>2. new.take = Stands(Written(orderStatus[o], new.status)) - Stands(orderStatus[o])
    BY <2>1 DEF Stands, Written, Released
  <2>3. QED
    BY <1>5, <2>1, <2>2 DEF OrderOps
<1>7. ASSUME NEW o \in Orders, UpdateStatus(w, o)
      PROVE  UnrefundedStock'
  <2>1. PICK s \in StaffStatuses \cap AllowedTransitions(orderStatus[o]) :
          Start(w, Job("order", "commit", o, StatusWrite(s)))
    BY <1>7 DEF UpdateStatus, ChangeOrder
  <2>2. s # "REFUNDED" /\ s # Keep /\ orderStatus[o] \notin Released
    BY <2>1 DEF NoRefunds, AllowedTransitions, Released
  <2>3. StatusWrite(s).take
          = Stands(Written(orderStatus[o], StatusWrite(s).status)) - Stands(orderStatus[o])
    BY <2>2 DEF StatusWrite, Stands, Written
  <2>4. QED
    BY <1>5, <2>1, <2>2, <2>3 DEF OrderOps, StatusWrite
<1>8. ASSUME NEW o \in Orders, UpdatePaymentStatus(w, o)
      PROVE  UnrefundedStock'
  <2>1. PICK s \in StaffPaymentStatuses, op \in OrderOps :
          Start(w, Job(op, "commit", o, [status |-> Keep, paid |-> s, take |-> 0]))
    BY <1>8 DEF UpdatePaymentStatus, OrderOps
  <2> DEFINE new == [status |-> Keep, paid |-> s, take |-> 0]
  <2>2. new.take = Stands(Written(orderStatus[o], new.status)) - Stands(orderStatus[o])
    BY DEF Stands, Written
  <2>3. QED
    BY <1>5, <2>1, <2>2
<1>9. QED
  BY <1>1, <1>3, <1>4, <1>6, <1>7, <1>8 DEF Begin

\* A transaction that reads the order and decides, then commits with nothing in
\* between, moves the units its new status calls for.
LEMMA UnrefundedDecide ==
  ASSUME TypeOK, OneHandler, UnrefundedStock, NEW w \in Workers,
         ConfirmTx(w) \/ ReserveStock(w) \/ FailTx(w) \/ ExpireTx(w)
  PROVE  UnrefundedStock'
<1> DEFINE status == orderStatus[OrderAt(w)]
<1>1. /\ UNCHANGED <<orderStatus, taken>>
      /\ job'[w].op = job[w].op /\ job'[w].on = job[w].on /\ job[w].op \in SettleOps
  BY JobKinds DEF ConfirmTx, ReserveStock, FailTx, ExpireTx, Locking, Goto, SettleOps,
                  TypeOK, PaymentJob, OrderJob, rows
<1>2. OrderAt(w)' = OrderAt(w)
  BY <1>1 DEF OrderAt
<1>3. OrderAt(w) \in Orders /\ status # "REFUNDED"
  BY <1>1, JobKinds, ConstantsAssumption
     DEF OrderAt, UnrefundedStock, SettleOps, PaymentJob, OrderJob
<1>4. ASSUME NEW new, job'[w].at = "commit", job'[w].write = new,
             new.take = Stands(Written(status, new.status)) - Stands(status),
             new.status # "REFUNDED"
      PROVE  OrderFits(w)'
  BY <1>1, <1>2, <1>4 DEF OrderFits, SettleOps
<1>5. CASE ConfirmTx(w)
  <2>1. CASE status = "CANCELLED"
    <3>1. job'[w].at = "stock" /\ job'[w].write = NoWrite
      BY <1>5, <2>1, JobKinds DEF ConfirmTx, Locking, Goto, TypeOK, PaymentJob, OrderJob, OrderOps
    <3>2. QED
      BY <1>1, <1>2, <2>1, <3>1, UnrefundedQuiet DEF OrderFits, SettleOps
  <2>2. CASE status # "CANCELLED"
    <3>1. job'[w].at = "commit" /\ job'[w].write = ConfirmWrite("CONFIRMED", 0)
      BY <1>5, <2>2, JobKinds DEF ConfirmTx, Locking, Goto, TypeOK, PaymentJob, OrderJob, OrderOps
    <3>2. ConfirmWrite("CONFIRMED", 0).take = Stands(Written(status, "CONFIRMED")) - Stands(status)
      BY <1>3, <2>2 DEF ConfirmWrite, Stands, Written, Released
    <3>3. OrderFits(w)'
      BY <1>4, <3>1, <3>2 DEF ConfirmWrite
    <3>4. QED
      BY <1>1, <3>3, UnrefundedQuiet
  <2>3. QED
    BY <2>1, <2>2
<1>6. CASE ReserveStock(w)
  <2>1. status = "CANCELLED"
    BY <1>6 DEF ReserveStock, UnrefundedStock, OrderFits
  <2>2. PICK new \in {ConfirmWrite("CONFIRMED", 1), ConfirmWrite("CANCELLED", 0)} :
          job'[w].at = "commit" /\ job'[w].write = new
    BY <1>6, JobKinds DEF ReserveStock, Goto, TypeOK, PaymentJob, OrderJob, OrderOps
  <2>3. /\ new.take = Stands(Written(status, new.status)) - Stands(status)
        /\ new.status # "REFUNDED"
    BY <2>1 DEF ConfirmWrite, Stands, Written, Released
  <2>4. QED
    BY <1>1, <1>4, <2>2, <2>3, UnrefundedQuiet
<1>7. CASE FailTx(w) \/ ExpireTx(w)
  <2>1. PICK op \in SettleOps :
          job'[w].at = "commit" /\ job'[w].write = CancelWrite(op, OrderAt(w))
    BY <1>7, JobKinds DEF FailTx, ExpireTx, Locking, Goto, TypeOK, PaymentJob, OrderJob,
                          OrderOps, SettleOps
  <2> DEFINE new == CancelWrite(op, OrderAt(w))
  <2>2. /\ new.take = Stands(Written(status, new.status)) - Stands(status)
        /\ new.status # "REFUNDED"
    BY DEF CancelWrite, Cancellable, Stands, Written, Released
  <2>3. QED
    BY <1>1, <1>4, <2>1, <2>2, UnrefundedQuiet
<1>8. QED
  BY <1>5, <1>6, <1>7

LEMMA UnrefundedCommit ==
  ASSUME TypeOK, OneHandler, UnrefundedStock, NEW w \in Workers, Commit(w)
  PROVE  UnrefundedStock'
<1> DEFINE o == OrderAt(w)
           new == job[w].write
<1>1. o \in Orders /\ job[w] \in PaymentJob \cup OrderJob
  BY JobKinds, ConstantsAssumption DEF Commit, OrderAt, PaymentJob, OrderJob, TypeOK, JobType
<1>2. /\ orderStatus' = [orderStatus EXCEPT ![o] = Written(@, new.status)]
      /\ taken' = [taken EXCEPT ![o] = @ + new.take * Units[o]]
  BY DEF Commit
<1>3. /\ new.take = Stands(Written(orderStatus[o], new.status)) - Stands(orderStatus[o])
      /\ new.status # "REFUNDED"
  BY DEF UnrefundedStock, OrderFits, Commit
<1>4. \A x \in Orders : orderStatus'[x] # "REFUNDED"
  BY <1>1, <1>2, <1>3 DEF UnrefundedStock, Written, TypeOK
<1>5. StockMatchesOrder'
  <2>1. \A x \in Orders \ {o} : orderStatus'[x] = orderStatus[x] /\ taken'[x] = taken[x]
    BY <1>2 DEF TypeOK
  <2>2. /\ orderStatus'[o] = Written(orderStatus[o], new.status)
        /\ taken'[o] = taken[o] + new.take * Units[o]
    BY <1>1, <1>2 DEF TypeOK
  <2>3. taken[o] = IF orderStatus[o] \in Released THEN 0 ELSE Units[o]
    BY <1>1 DEF UnrefundedStock, StockMatchesOrder
  <2>4. new.take = Stands(orderStatus'[o]) - Stands(orderStatus[o]) /\ Units[o] \in Int
    BY <1>1, <1>3, <2>2, ConstantsAssumption
  <2>5. taken'[o] = IF orderStatus'[o] \in Released THEN 0 ELSE Units[o]
    BY <2>2, <2>3, <2>4 DEF Stands
  <2>6. QED
    BY <2>1, <2>5 DEF UnrefundedStock, StockMatchesOrder
<1>6. OrderFits(w)'
  <2>1. \/ job'[w] = Idle
        \/ /\ job'[w].at \in {"after", "cancel"} /\ job'[w].write = NoWrite
           /\ job'[w].op \in {"confirm", "staffFail"}
    BY <1>1 DEF Commit, Goto, Finish, TypeOK, PaymentJob, OrderJob
  <2>2. QED
    BY <2>1 DEF OrderFits
<1>7. \A v \in Workers : OrderFits(v)'
  BY <1>6 DEF OneHandler
<1>8. QED
  BY <1>4, <1>5, <1>7 DEF UnrefundedStock

LEMMA UnrefundedContinue ==
  ASSUME TypeOK, OneHandler, UnrefundedStock, NEW w \in Workers, Continue(w) \/ Die(w)
  PROVE  UnrefundedStock'
<1>1. CASE CreatePayment(w)
  <2>1. PICK p \in Payments : p = job[w].on /\ job[w] \in PaymentJob
    BY <1>1, JobKinds DEF CreatePayment, PaymentJob, OrderJob, OrderOps
  <2>2. /\ UNCHANGED <<orderStatus, taken>>
        /\ job'[w] = Job("initiate", "commit", p, InitiationWrite(p))
    BY <1>1, <2>1 DEF CreatePayment, Goto, TypeOK, PaymentJob
  <2>3. OrderAt(w)' = OrderAt(w) /\ orderStatus[OrderAt(w)] \notin Released
    BY <1>1, <2>1, <2>2 DEF OrderAt, CreatePayment, UnrefundedStock, OrderFits
  <2>4. /\ InitiationWrite(p).take = 0
        /\ InitiationWrite(p).status \in {Keep, "CONFIRMED"}
    BY DEF InitiationWrite
  <2>5. OrderFits(w)'
    BY <2>2, <2>3, <2>4 DEF OrderFits, Stands, Written, Released
  <2>6. QED
    BY <2>2, <2>5, UnrefundedQuiet
<1>2. CASE StaffCancel(w)
  <2>1. /\ UNCHANGED <<orderStatus, taken>>
        /\ \/ job'[w] = Idle
           \/ /\ job'[w] = Job("order", "commit", job[w].on, StatusWrite("CANCELLED"))
              /\ "CANCELLED" \in AllowedTransitions(orderStatus[job[w].on])
    BY <1>2 DEF StaffCancel, Finish, TypeOK, rows
  <2>2. job[w].on \in Orders /\ job[w].on \notin Payments
    BY <1>2, JobKinds, ConstantsAssumption DEF StaffCancel, PaymentJob, OrderJob, PaymentOps, SettleOps
  <2>3. CASE job'[w] = Idle
    BY <2>1, <2>3, UnrefundedQuiet DEF OrderFits
  <2>4. CASE job'[w] = Job("order", "commit", job[w].on, StatusWrite("CANCELLED"))
             /\ "CANCELLED" \in AllowedTransitions(orderStatus[job[w].on])
    <3>1. OrderAt(w)' = job[w].on /\ orderStatus[job[w].on] \notin Released
      BY <2>2, <2>4 DEF OrderAt, AllowedTransitions, Released
    <3>2. StatusWrite("CANCELLED").take = -1 /\ StatusWrite("CANCELLED").status = "CANCELLED"
      BY DEF StatusWrite, Released
    <3>3. OrderFits(w)'
      BY <2>1, <2>4, <3>1, <3>2 DEF OrderFits, Stands, Written, Released
    <3>4. QED
      BY <2>1, <3>3, UnrefundedQuiet
  <2>5. QED
    BY <2>1, <2>3, <2>4
<1>3. CASE HoldPayment(w) \/ LoseRace(w) \/ SendReceipt(w) \/ Die(w)
  <2>1. UNCHANGED <<orderStatus, taken>> /\ job'[w] = Idle
    BY <1>3 DEF HoldPayment, LoseRace, SendReceipt, Die, Locking, Finish, TypeOK, rows
  <2>2. OrderFits(w)'
    BY <2>1 DEF OrderFits
  <2>3. QED
    BY <2>1, <2>2, UnrefundedQuiet
<1>4. QED
  BY <1>1, <1>2, <1>3, UnrefundedDecide, UnrefundedCommit DEF Continue

LEMMA UnrefundedNext ==
  ASSUME TypeOK, OneHandler, NoRefunds, UnrefundedStock, [Next]_vars
  PROVE  UnrefundedStock'
<1>1. ASSUME UNCHANGED <<orderStatus, taken, job>>
      PROVE  UnrefundedStock'
  BY <1>1 DEF UnrefundedStock, OrderFits, OrderAt, StockMatchesOrder
<1>2. CASE UNCHANGED vars
  BY <1>1, <1>2 DEF vars, rows
<1>3. ASSUME NEW p \in Payments, Report(p) \/ Age(p)
      PROVE  UnrefundedStock'
  BY <1>1, <1>3 DEF Report, Age, rows
<1>4. QED
  BY <1>2, <1>3, UnrefundedBegin, UnrefundedContinue DEF Next

\* When handlers run one after the other, of the staff and the customer too, an
\* order with any number of attempts holds the units its status calls for. A
\* refund is excluded: confirmPayment reopens only a CANCELLED order
\* (payments.service.ts:1893).
THEOREM OneHandlerStock ==
  ASSUME OneHandler, NoRefunds
  PROVE  Spec => []StockMatchesOrder
<1>1. TypeOK /\ UnrefundedStock /\ [Next]_vars => UnrefundedStock'
  BY UnrefundedNext
<1>2. UnrefundedStock => StockMatchesOrder
  BY DEF UnrefundedStock
<1>3. QED
  BY <1>1, <1>2, UnrefundedInit, TypeCorrect, PTL DEF Spec
=============================================================================
