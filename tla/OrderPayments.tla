--------------------------- MODULE OrderPayments ---------------------------
(***************************************************************************)
(* Payment of orders: PaymentsService (initiation, provider webhooks,      *)
(* manual verification, reconciliation cron) running against the handlers  *)
(* of OrdersService that change the same rows (customer cancellation,      *)
(* staff status and payment-status updates).                               *)
(*                                                                         *)
(* Each worker runs one handler at a time as a sequence of database steps. *)
(* PostgreSQL runs at READ COMMITTED: a handler reads rows, decides, and   *)
(* its writes become visible together when its transaction commits.  A     *)
(* guarded updateMany on a payment row keeps that row locked until then,   *)
(* so the transaction of another handler on the same payment waits and     *)
(* re-evaluates its WHERE clause.  Order rows are read without a lock.     *)
(* increment/decrement apply to the latest committed quantity.  A handler  *)
(* may die at any step (crash, transaction timeout, deadlock victim): an   *)
(* open transaction is rolled back, committed steps stay.                  *)
(***************************************************************************)
EXTENDS Integers, FiniteSets

CONSTANTS
  Orders, Payments, Workers,
  OrderOf,              \* OrderOf[p]: order of payment attempt p
  ProviderOf,           \* ProviderOf[p]: its provider
  Unreferenced,         \* attempts some of whose notifications carry no order reference
  Pickup,               \* orders collected in store (fulfillmentType PICKUP)
  Units,                \* Units[o]: tracked units the items of o debit
  InitialStock,         \* sellable units once the orders are placed, negative when oversold
  Handlers,             \* the kinds of handler that run
  StaffStatuses,        \* order statuses the staff asks for
  StaffPaymentStatuses, \* payment statuses the staff writes
  MaxHolds,             \* bound: refused confirmations of a Bictorys attempt
  Nil

Online == {"WAVE", "ORANGE_MONEY", "BICTORYS"}
Providers == Online \cup {"CASH_ON_DELIVERY"}
OrderStatus == {"PENDING", "CONFIRMED", "IN_DELIVERY", "DELIVERED",
                "CANCELLED", "REFUNDED"}
PaymentStatus == {"PENDING", "PROCESSING", "PAID", "FAILED", "EXPIRED",
                  "CANCELLED", "REFUNDED", "PARTIALLY_REFUNDED"}
HandlerKinds == {"initiate", "webhook", "verify", "cron", "customer",
                 "staff", "staffPayment"}

ASSUME ConstantsAssumption ==
  /\ OrderOf \in [Payments -> Orders]
  /\ ProviderOf \in [Payments -> Providers]
  /\ Unreferenced \subseteq {p \in Payments : ProviderOf[p] \in {"WAVE", "ORANGE_MONEY"}}
  /\ Pickup \subseteq Orders
  /\ Units \in [Orders -> Nat \ {0}]
  /\ InitialStock \in Int
  /\ Handlers \subseteq HandlerKinds
  /\ StaffStatuses \subseteq OrderStatus
  /\ StaffPaymentStatuses \subseteq PaymentStatus
  /\ MaxHolds \in Nat
  /\ Nil \notin Orders \cup Payments
  /\ Orders \cap Payments = {}

VARIABLES
  orderStatus,     \* Order.status
  orderPaid,       \* Order.paymentStatus
  stock,           \* sellable quantity of the product
  taken,           \* taken[o]: SALE minus RETURN inventory movements of o
  payStatus,       \* Payment.status, "none" before the row exists
  deadline,        \* the attempt's age: "open", past "expiresAt", past "grace"
  reports,         \* statuses the provider has announced for the attempt
  receipts,        \* payment confirmations sent for the attempt (capped at 2)
  holds,           \* holds[p]: refused confirmations of Bictorys successes of p
  job              \* job[w]: the handler worker w is running

rows == <<orderStatus, orderPaid, stock, taken, payStatus, receipts>>
provider == <<deadline, reports>>
vars == <<rows, provider, holds, job>>

-----------------------------------------------------------------------------
(* Handlers in progress.                                                   *)

Keep == "keep"
Write == [status: OrderStatus \cup {Keep}, paid: PaymentStatus \cup {Keep},
          take: {-1, 0, 1}]
NoWrite == [status |-> Keep, paid |-> Keep, take |-> 0]

\* Mutant: a refused attempt is marked CANCELLED.
SettledAsCancelled(op) == CASE op = "confirm" -> "PAID"
                            [] op = "fail"    -> "CANCELLED"
                            [] op = "expire"  -> "EXPIRED"

\* The payment status each settling transaction writes.
Settled(op) == CASE op = "confirm" -> "PAID"
                 [] op = "fail"    -> "FAILED"
                 [] op = "expire"  -> "EXPIRED"
SettleOps == {"confirm", "fail", "expire"}
PaymentOps == SettleOps \cup {"hold", "initiate"}
OrderOps == {"order", "staffFail"}

Job(op, at, on, write) == [op |-> op, at |-> at, on |-> on, write |-> write]
Idle == Job("idle", "idle", Nil, NoWrite)

Start(w, j) == /\ job[w] = Idle
               /\ job' = [job EXCEPT ![w] = j]
               /\ UNCHANGED <<rows, provider, holds>>

Goto(w, at, write) == job' = [job EXCEPT ![w].at = at, ![w].write = write]
Finish(w) == job' = [job EXCEPT ![w] = Idle]

OrderAt(w) == IF job[w].on \in Payments THEN OrderOf[job[w].on] ELSE job[w].on

\* The settling transaction of w has updated payment row p and not committed.
HoldsRow(w, p) == /\ job[w].op \in SettleOps
                  /\ job[w].at \in {"stock", "commit"}
                  /\ job[w].on = p
RowFree(p) == \A w \in Workers : ~HoldsRow(w, p)

Announcements == {"success", "failed", "expired"}
Exists(p) == payStatus[p] # "none"
OpenStatuses == {"PENDING", "PROCESSING"}
Siblings(p) == {q \in Payments : OrderOf[q] = OrderOf[p]}

-----------------------------------------------------------------------------
Init ==
  /\ orderStatus = [o \in Orders |-> "PENDING"]
  /\ orderPaid = [o \in Orders |-> "PENDING"]
  /\ stock = InitialStock
  /\ taken = [o \in Orders |-> Units[o]]
  /\ payStatus = [p \in Payments |-> "none"]
  /\ deadline = [p \in Payments |-> "open"]
  /\ reports = [p \in Payments |-> {}]
  /\ receipts = [p \in Payments |-> 0]
  /\ holds = [p \in Payments |-> 0]
  /\ job = [w \in Workers |-> Idle]

-----------------------------------------------------------------------------
(* The provider and the clock.                                             *)

\* The customer has the checkout page once the initiation has answered.  A
\* page may see refusals before it ends in success or expiry.  A report stays
\* available: notifications are delayed, repeated and reordered.
Report(p) ==
  /\ Exists(p) /\ ProviderOf[p] \in Online
  /\ \A w \in Workers : job[w].op = "initiate" => job[w].on # p
  /\ reports[p] \cap {"success", "expired"} = {}
  /\ \E r \in Announcements \ reports[p] :
       reports' = [reports EXCEPT ![p] = @ \cup {r}]
  /\ UNCHANGED <<rows, deadline, holds, job>>

\* expiresAt passes, then the grace period.
Age(p) ==
  /\ Exists(p) /\ ProviderOf[p] \in Online
  /\ deadline[p] # "grace"
  /\ deadline' = [deadline EXCEPT ![p] = IF @ = "open" THEN "expiresAt" ELSE "grace"]
  /\ UNCHANGED <<rows, reports, holds, job>>

-----------------------------------------------------------------------------
(* initiatePayment: order checks, provider session, payment row, then a    *)
(* separate update of the order.                                           *)

MayInitiate(o) == /\ orderPaid[o] # "PAID"
                  /\ orderStatus[o] \notin {"CANCELLED", "REFUNDED"}

InitiatePayment(w, p) ==
  /\ "initiate" \in Handlers
  /\ payStatus[p] = "none"
  /\ \A v \in Workers : job[v].on # p
  /\ MayInitiate(OrderOf[p])
  /\ Start(w, Job("initiate", "create", p, NoWrite))

InitiationWrite(p) ==
  IF ProviderOf[p] = "CASH_ON_DELIVERY"
  THEN [status |-> "CONFIRMED", paid |-> "PENDING", take |-> 0]
  ELSE [status |-> Keep, paid |-> "PROCESSING", take |-> 0]

CreatePayment(w) ==
  /\ job[w].op = "initiate" /\ job[w].at = "create"
  /\ payStatus' = [payStatus EXCEPT ![job[w].on] = "PENDING"]
  /\ Goto(w, "commit", InitiationWrite(job[w].on))
  /\ UNCHANGED <<orderStatus, orderPaid, stock, taken, receipts, provider, holds>>

-----------------------------------------------------------------------------
(* Entry points that settle a payment.  Each re-reads the row and returns  *)
(* early on a status its transaction would refuse.                         *)

Settle(w, op, p) == Start(w, Job(op, "begin", p, NoWrite))
ConfirmPayment(w, p) == payStatus[p] # "PAID" /\ Settle(w, "confirm", p)
MarkPaymentFailed(w, p) == payStatus[p] # "PAID" /\ Settle(w, "fail", p)
MarkPaymentExpired(w, p) == payStatus[p] \in OpenStatuses /\ Settle(w, "expire", p)

\* Mutant: an attempt of any order will do, reference or not.
FindAnyPayment(p, q) == TRUE

\* A notification about attempt p is looked up by transaction id OR by order
\* number, and findFirst may return any attempt that fits one of the two. From
\* Wave and Orange Money the order number may be missing: the filter
\* { order: { orderNumber: undefined } } then fits every attempt there is.
FindPayment(p, q) == p \in Unreferenced \/ OrderOf[q] = OrderOf[p]
FindBictorysPayment(p, q) == OrderOf[q] = OrderOf[p] /\ ProviderOf[q] = "BICTORYS"

Matches(p, q) == /\ Exists(p) /\ Exists(q)
                 /\ IF ProviderOf[p] = "BICTORYS" THEN FindBictorysPayment(p, q)
                    ELSE FindPayment(p, q)

Webhook(r, q) == /\ "webhook" \in Handlers
                 /\ \E p \in Payments : Matches(p, q) /\ r \in reports[p]

WebhookSuccess(w, q) == Webhook("success", q) /\ ConfirmPayment(w, q)
WebhookFailed(w, q) == Webhook("failed", q) /\ MarkPaymentFailed(w, q)
WebhookExpired(w, q) == Webhook("expired", q) /\ MarkPaymentExpired(w, q)

\* A Bictorys success whose server-side verification does not hold (amount,
\* currency, API error) is answered 200 like any other.
Refused(p, q) == /\ "webhook" \in Handlers
                 /\ ProviderOf[p] = "BICTORYS" /\ Matches(p, q)
                 /\ "success" \in reports[p]
                 /\ holds[p] < MaxHolds
                 /\ holds' = [holds EXCEPT ![p] = @ + 1]
                 /\ UNCHANGED <<rows, provider>>

\* Mutant: an attempt is held whatever its status.
RefusedAnyStatus(w, q) ==
  /\ \E p \in Payments : Refused(p, q)
  /\ job[w] = Idle
  /\ job' = [job EXCEPT ![w] = Job("hold", "write", q, NoWrite)]

\* holdBictorysPayment reads the row here; it leaves the status of an attempt
\* that is over alone ...
WebhookRefused(w, q) ==
  /\ \E p \in Payments : Refused(p, q)
  /\ job[w] = Idle
  /\ job' = IF payStatus[q] \in OpenStatuses
            THEN [job EXCEPT ![w] = Job("hold", "write", q, NoWrite)]
            ELSE job

\* ... and updates an open one by id, whatever its status has become.
HoldPayment(w) ==
  /\ job[w].op = "hold" /\ job[w].at = "write"
  /\ RowFree(job[w].on)
  /\ payStatus' = [payStatus EXCEPT ![job[w].on] = "PROCESSING"]
  /\ Finish(w)
  /\ UNCHANGED <<orderStatus, orderPaid, stock, taken, receipts, provider, holds>>

\* What the Bictorys API answers about the order number of p.
Inspected(p, r) == \E q \in Siblings(p) :
                     ProviderOf[q] = "BICTORYS" /\ r \in reports[q]

\* "Verifier le paiement".
VerifyPayment(w, p) ==
  /\ "verify" \in Handlers
  /\ Exists(p) /\ ProviderOf[p] = "BICTORYS"
  /\ Inspected(p, "success")
  /\ ConfirmPayment(w, p)

\* The cron selects open online attempts past expiresAt, or whose
\* nextReconciliationAt was brought forward by a hold.
Selected(p) == /\ "cron" \in Handlers
               /\ ProviderOf[p] \in Online
               /\ \/ payStatus[p] = "PENDING" /\ deadline[p] # "open"
                  \/ payStatus[p] = "PROCESSING"

ReconcilePaid(w, p) == /\ Selected(p) /\ ProviderOf[p] = "BICTORYS"
                       /\ Inspected(p, "success")
                       /\ ConfirmPayment(w, p)
ReconcileFailed(w, p) == /\ Selected(p) /\ ProviderOf[p] = "BICTORYS"
                         /\ Inspected(p, "failed")
                         /\ MarkPaymentFailed(w, p)
\* Mutant: only an announced expiry expires an attempt.
ExpiredIfAnnounced(w, p) ==
  /\ Selected(p)
  /\ ProviderOf[p] = "BICTORYS" /\ Inspected(p, "expired")
  /\ MarkPaymentExpired(w, p)

\* Announced by Bictorys, or the grace period is over and no answer decides
\* (other providers are never asked; an API error counts as no answer).
ReconcileExpired(w, p) ==
  /\ Selected(p)
  /\ \/ ProviderOf[p] = "BICTORYS" /\ Inspected(p, "expired")
     \/ deadline[p] = "grace"
  /\ MarkPaymentExpired(w, p)

-----------------------------------------------------------------------------
(* The settling transactions.                                              *)

\* Mutant: a failure overwrites a confirmed payment.
WhereAnyFailure(op) == CASE op = "expire"  -> OpenStatuses
                         [] op = "confirm" -> PaymentStatus \ {"PAID"}
                         [] op = "fail"    -> PaymentStatus

\* Mutant: a payment that expired or failed cannot be confirmed any more.
WhereOpen(op) == OpenStatuses

\* WHERE clause of the guarded updateMany on the payment row.
Where(op) == IF op = "expire" THEN OpenStatuses
             ELSE PaymentStatus \ {"PAID"}

Cancellable == {"PENDING", "CONFIRMED", "IN_DELIVERY"}

\* Order payment statuses a failed/expired attempt may overwrite.
Overwrites(op) == IF op = "expire" THEN OpenStatuses
                  ELSE OpenStatuses \cup {"EXPIRED"}

\* Mutant: the stock goes back whether or not the order is cancelled here.
RestockAlways(op, o) ==
  [status |-> IF orderStatus[o] \in Cancellable THEN "CANCELLED" ELSE Keep,
   paid   |-> IF orderPaid[o] \in Overwrites(op) THEN Settled(op) ELSE Keep,
   take   |-> -1]

\* cancelOrderForPaymentFailure, on the order as read in the transaction.
CancelWrite(op, o) ==
  [status |-> IF orderStatus[o] \in Cancellable THEN "CANCELLED" ELSE Keep,
   paid   |-> IF orderPaid[o] \in Overwrites(op) THEN Settled(op) ELSE Keep,
   take   |-> IF orderStatus[o] \in Cancellable THEN -1 ELSE 0]

\* Mutant: the order is confirmed, its payment status forgotten.
ConfirmStatusOnly(status, take) == [status |-> status, paid |-> Keep, take |-> take]

ConfirmWrite(status, take) == [status |-> status, paid |-> "PAID", take |-> take]

\* updateMany waits for the row; count = 0 ends the handler.
Locking(w, op) == /\ job[w].op = op /\ job[w].at = "begin"
                  /\ RowFree(job[w].on)
                  /\ UNCHANGED <<rows, provider, holds>>
Admitted(w) == payStatus[job[w].on] \in Where(job[w].op)

LoseRace(w) == /\ job[w].op \in SettleOps
               /\ Locking(w, job[w].op)
               /\ ~Admitted(w)
               /\ Finish(w)

ConfirmTx(w) ==
  /\ Locking(w, "confirm") /\ Admitted(w)
  /\ IF orderStatus[OrderAt(w)] = "CANCELLED"
     THEN Goto(w, "stock", NoWrite)
     ELSE Goto(w, "commit", ConfirmWrite("CONFIRMED", 0))

\* Mutant: the order is reopened without taking its units again.
ReopenWithoutStock(w) ==
  /\ job[w].op = "confirm" /\ job[w].at = "stock"
  /\ Goto(w, "commit", IF stock >= Units[OrderAt(w)]
                       THEN ConfirmWrite("CONFIRMED", 0)
                       ELSE ConfirmWrite("CANCELLED", 0))
  /\ UNCHANGED <<rows, provider, holds>>

\* reserveOrderStock: the check; the decrement applies at commit.
ReserveStock(w) ==
  /\ job[w].op = "confirm" /\ job[w].at = "stock"
  /\ Goto(w, "commit", IF stock >= Units[OrderAt(w)]
                       THEN ConfirmWrite("CONFIRMED", 1)
                       ELSE ConfirmWrite("CANCELLED", 0))
  /\ UNCHANGED <<rows, provider, holds>>

FailTx(w) ==
  /\ Locking(w, "fail") /\ Admitted(w)
  /\ Goto(w, "commit", CancelWrite("fail", OrderAt(w)))

ExpireTx(w) ==
  /\ Locking(w, "expire") /\ Admitted(w)
  /\ Goto(w, "commit", CancelWrite("expire", OrderAt(w)))

-----------------------------------------------------------------------------
(* OrdersService handlers: checks on a read outside the transaction, then  *)
(* unconditional writes.                                                   *)

ChangeOrder(w, o, write) == Start(w, Job("order", "commit", o, write))

\* cancelMyOrder.
CancelMyOrder(w, o) ==
  /\ "customer" \in Handlers
  /\ orderStatus[o] = "PENDING"
  /\ ChangeOrder(w, o, [status |-> "CANCELLED", paid |-> "CANCELLED", take |-> -1])

AllowedTransitions(s) ==
  CASE s = "PENDING"     -> {"CONFIRMED", "CANCELLED", "REFUNDED"}
    [] s = "CONFIRMED"   -> {"IN_DELIVERY", "DELIVERED", "CANCELLED", "REFUNDED"}
    [] s = "IN_DELIVERY" -> {"DELIVERED", "CANCELLED", "REFUNDED"}
    [] s = "DELIVERED"   -> {"REFUNDED"}
    [] OTHER             -> {}

Released == {"CANCELLED", "REFUNDED"}

StatusWrite(s) == [status |-> s, paid |-> Keep,
                   take |-> IF s \in Released THEN -1 ELSE 0]

\* updateStatus.
UpdateStatus(w, o) ==
  /\ "staff" \in Handlers
  /\ \E s \in StaffStatuses \cap AllowedTransitions(orderStatus[o]) :
       /\ ~(o \in Pickup /\ s = "IN_DELIVERY")
       /\ ChangeOrder(w, o, StatusWrite(s))

\* updatePaymentStatus writes the order's payment status; FAILED or EXPIRED on
\* an order read as active goes on to updateStatus(CANCELLED).
\* (The receipt that PAID sends is for the order, not counted with an attempt's.)
UpdatePaymentStatus(w, o) ==
  /\ "staffPayment" \in Handlers
  /\ \E s \in StaffPaymentStatuses :
       Start(w, Job(IF s \in {"FAILED", "EXPIRED"} /\ orderStatus[o] \in Cancellable
                    THEN "staffFail" ELSE "order",
                    "commit", o, [status |-> Keep, paid |-> s, take |-> 0]))

StaffCancel(w) ==
  /\ job[w].op = "staffFail" /\ job[w].at = "cancel"
  /\ LET o == job[w].on IN
       IF "CANCELLED" \in AllowedTransitions(orderStatus[o])
       THEN job' = [job EXCEPT ![w] = Job("order", "commit", o, StatusWrite("CANCELLED"))]
       ELSE Finish(w)
  /\ UNCHANGED <<rows, provider, holds>>

-----------------------------------------------------------------------------
\* Order row as written: a field the update leaves out keeps its value.
Written(value, new) == IF new = Keep THEN value ELSE new

\* The order update (and, with it, the payment update and the stock moves of
\* the same transaction) becomes visible.
Commit(w) ==
  /\ job[w].at = "commit"
  /\ LET o == OrderAt(w)
         new == job[w].write
     IN /\ orderStatus' = [orderStatus EXCEPT ![o] = Written(@, new.status)]
        /\ orderPaid' = [orderPaid EXCEPT ![o] = Written(@, new.paid)]
        /\ stock' = stock - new.take * Units[o]
        /\ taken' = [taken EXCEPT ![o] = @ + new.take * Units[o]]
  /\ payStatus' = IF job[w].op \in SettleOps
                  THEN [payStatus EXCEPT ![job[w].on] = Settled(job[w].op)]
                  ELSE payStatus
  /\ CASE job[w].op = "confirm"   -> Goto(w, "after", NoWrite)
       [] job[w].op = "staffFail" -> Goto(w, "cancel", NoWrite)
       [] OTHER                   -> Finish(w)
  /\ UNCHANGED <<receipts, provider, holds>>

\* After the commit: notification, purchase event, receipt e-mail.
SendReceipt(w) ==
  /\ job[w].op = "confirm" /\ job[w].at = "after"
  /\ receipts' = [receipts EXCEPT ![job[w].on] = IF @ = 0 THEN 1 ELSE 2]
  /\ Finish(w)
  /\ UNCHANGED <<orderStatus, orderPaid, stock, taken, payStatus, provider, holds>>

\* The handler dies or its transaction is rolled back.
Die(w) ==
  /\ job[w] # Idle
  /\ Finish(w)
  /\ UNCHANGED <<rows, provider, holds>>

-----------------------------------------------------------------------------
Begin(w) ==
  \/ \E p \in Payments :
       \/ InitiatePayment(w, p)
       \/ WebhookSuccess(w, p) \/ WebhookFailed(w, p) \/ WebhookExpired(w, p)
       \/ WebhookRefused(w, p)
       \/ VerifyPayment(w, p)
       \/ ReconcilePaid(w, p) \/ ReconcileFailed(w, p) \/ ReconcileExpired(w, p)
  \/ \E o \in Orders :
       CancelMyOrder(w, o) \/ UpdateStatus(w, o) \/ UpdatePaymentStatus(w, o)

Continue(w) ==
  \/ CreatePayment(w) \/ HoldPayment(w) \/ StaffCancel(w)
  \/ LoseRace(w) \/ ConfirmTx(w) \/ ReserveStock(w) \/ FailTx(w) \/ ExpireTx(w)
  \/ Commit(w) \/ SendReceipt(w)

Next == \/ \E p \in Payments : Report(p) \/ Age(p)
        \/ \E w \in Workers : Begin(w) \/ Continue(w) \/ Die(w)

Spec == Init /\ [][Next]_vars

\* A provider calls the webhook again until it is answered 2xx. A refused
\* confirmation is answered 200 as well, so nothing is promised after one, nor
\* for a notification that may have been taken for another order's.
Delivered(w, p) == /\ "webhook" \in Handlers
                   /\ "success" \in reports[p] /\ holds[p] = 0
                   /\ \E q \in Payments : Matches(p, q) /\ ConfirmPayment(w, q)

\* Time passes for every attempt; the cron comes back every minute; a provider
\* repeats a success until it is answered; a started handler goes on unless it
\* dies, and handlers do not die for ever: what ends them is then their own step
\* (a lost race, like a death, leaves the rows alone).
Fairness ==
  /\ \A p \in Payments : WF_vars(Age(p))
  /\ \A w \in Workers : WF_vars(Continue(w))
  /\ \A w \in Workers, p \in Payments :
       SF_vars(ReconcilePaid(w, p) \/ ReconcileFailed(w, p) \/ ReconcileExpired(w, p))
  /\ \A w \in Workers, p \in Payments \ Unreferenced : SF_vars(Delivered(w, p))
  /\ <>[][\A w \in Workers : Die(w) => Continue(w)]_vars

LiveSpec == Spec /\ Fairness

-----------------------------------------------------------------------------
(* Properties.                                                             *)

PaymentJob == [op: PaymentOps, on: Payments, write: Write,
               at: {"create", "begin", "write", "stock", "commit", "after"}]
OrderJob == [op: OrderOps, on: Orders, write: Write, at: {"commit", "cancel"}]
JobType == {Idle} \cup PaymentJob \cup OrderJob

\* Every variable keeps its type.
TypeOK ==
  /\ orderStatus \in [Orders -> OrderStatus]
  /\ orderPaid \in [Orders -> PaymentStatus]
  /\ stock \in Int
  /\ taken \in [Orders -> Int]
  /\ payStatus \in [Payments -> {"none", "PENDING", "PROCESSING", "PAID", "FAILED", "EXPIRED"}]
  /\ deadline \in [Payments -> {"open", "expiresAt", "grace"}]
  /\ reports \in [Payments -> SUBSET Announcements]
  /\ receipts \in [Payments -> 0..2]
  /\ holds \in [Payments -> 0..MaxHolds]
  /\ job \in [Workers -> JobType]

\* Attempts no hold can touch: their row changes only in guarded transactions.
Guarded == {p \in Payments : ProviderOf[p] # "BICTORYS"}

\* Whatever handlers run concurrently, and wherever they die, a Wave, Orange
\* Money or cash attempt follows the promised lifecycle: PAID is final and
\* confirmPayment's effects happen at most once.
GuardedAttempts == INSTANCE PaymentLifecycle WITH
  Attempts <- Guarded,
  status <- [p \in Guarded |-> payStatus[p]],
  receipts <- [p \in Guarded |-> receipts[p]]
GuardedLifecycle == GuardedAttempts!Spec

\* The same promise for every attempt, Bictorys ones included.
AllAttempts == INSTANCE PaymentLifecycle WITH
  Attempts <- Payments, status <- payStatus, receipts <- receipts
FullLifecycle == AllAttempts!Spec

\* The successes that may have been announced for attempt p, as the webhooks
\* identify attempts: those of its order, and those without a reference.
MayPay(p) == Siblings(p) \cup Unreferenced

\* No attempt is PAID unless a provider announced a success for an attempt of the
\* same order, or one that carried no order reference, however notifications,
\* checks and reconciliations are matched to rows.
PaidHasProof ==
  \A p \in Payments : payStatus[p] = "PAID" =>
    \E q \in MayPay(p) : "success" \in reports[q]

\* The units an order has taken out of stock are those of its items while the
\* order stands and none once it is cancelled or refunded: no sale without
\* stock, no restock twice, a reopened order debited again.
StockMatchesOrder ==
  \A o \in Orders :
    taken[o] = IF orderStatus[o] \in Released THEN 0 ELSE Units[o]

\* A confirmed payment shows on its order.
PaidShowsOnOrder ==
  \A p \in Payments : payStatus[p] = "PAID" =>
    /\ orderPaid[OrderOf[p]] = "PAID"
    /\ orderStatus[OrderOf[p]] \in {"CONFIRMED", "CANCELLED"}

\* No step cancels an order one of whose attempts is already PAID.  It
\* holds with one attempt per order; another attempt's expiry breaks it.
PaidOrderNotCancelled ==
  [][\A p \in Payments :
       payStatus[p] = "PAID" /\ orderStatus[OrderOf[p]] # "CANCELLED"
         => orderStatus'[OrderOf[p]] # "CANCELLED"]_vars

\* The cron and the webhooks leave no online attempt open for ever.
AttemptsSettle ==
  \A p \in Payments :
    (payStatus[p] \in OpenStatuses /\ ProviderOf[p] \in Online)
      ~> payStatus[p] \notin OpenStatuses

\* A success announced under its order's reference ends with a PAID attempt on
\* the order, unless its verification was refused: that answer is final for the
\* provider, and the attempt may end EXPIRED although it was paid.
SuccessIsHonoured ==
  \A p \in Payments \ Unreferenced :
    "success" \in reports[p] ~> \/ \E q \in Siblings(p) : payStatus[q] = "PAID"
                               \/ holds[p] > 0

-----------------------------------------------------------------------------
(* Inductive strengthenings (OrderPayments_proofs).                        *)

Creating(w, p) == job[w].op = "initiate" /\ job[w].at = "create" /\ job[w].on = p
Confirmed(w, p) == job[w].op = "confirm" /\ job[w].at = "after" /\ job[w].on = p

\* One transaction at a time on a payment row, and the row still satisfies the
\* WHERE clause it was admitted by.
RowLocks ==
  /\ \A p \in Payments, w, v \in Workers :
       HoldsRow(w, p) /\ HoldsRow(v, p) => w = v
  /\ \A p \in Payments, w \in Workers :
       HoldsRow(w, p) => payStatus[p] \in Where(job[w].op)

\* A row is inserted once, and only Bictorys rows are ever held.
RowInserts ==
  /\ \A p \in Payments, w, v \in Workers :
       Creating(w, p) /\ Creating(v, p) => w = v
  /\ \A p \in Payments, w \in Workers :
       /\ Creating(w, p) => payStatus[p] = "none"
       /\ job[w].op = "hold" /\ job[w].on = p =>
            payStatus[p] # "none" /\ ProviderOf[p] = "BICTORYS"

\* A guarded attempt has at most one receipt to send, and only once PAID.
OneReceipt ==
  \A p \in Guarded :
    /\ receipts[p] # 0 => payStatus[p] = "PAID"
    /\ \A w \in Workers : Confirmed(w, p) => payStatus[p] = "PAID" /\ receipts[p] = 0
    /\ \A w, v \in Workers : Confirmed(w, p) /\ Confirmed(v, p) => w = v

SettlementInv == RowLocks /\ RowInserts /\ OneReceipt

PaymentHandlers == {"initiate", "webhook", "verify", "cron"}

\* When each order has one attempt and only payment handlers run: what a
\* pending transaction is about to write fits the order as it is now.
Fits(w) ==
  LET p == job[w].on
      o == OrderOf[p]
      new == job[w].write
  IN /\ job[w].op \notin OrderOps
     /\ job[w].op \in SettleOps => payStatus[p] # "none" /\ ProviderOf[p] \in Online
     /\ HoldsRow(w, p) /\ job[w].at = "stock" => orderStatus[o] = "CANCELLED"
     /\ HoldsRow(w, p) /\ job[w].at = "commit" =>
          \/ new.status = Keep /\ new.take = 0
          \/ new.status = "CANCELLED" /\ new.take = -1 /\ orderStatus[o] # "CANCELLED"
          \/ new.status = "CONFIRMED" /\ new.take = 0 /\ orderStatus[o] # "CANCELLED"
          \/ new.status = "CONFIRMED" /\ new.take = 1 /\ orderStatus[o] = "CANCELLED"
          \/ new.status = "CANCELLED" /\ new.take = 0 /\ orderStatus[o] = "CANCELLED"
     /\ job[w].op = "initiate" /\ job[w].at = "commit" => new = InitiationWrite(p)
     /\ job[w].op = "hold" => job[w].at = "write"

PendingWriteFits == \A w \in Workers : Fits(w)

UnsettledOrders ==
  /\ \A o \in Orders : orderStatus[o] \in {"PENDING", "CONFIRMED", "CANCELLED"}
  /\ \A p \in Payments : ProviderOf[p] \notin Online =>
       reports[p] = {} /\ orderStatus[OrderOf[p]] # "CANCELLED"

SingleAttempt == /\ \A p, q \in Payments : OrderOf[p] = OrderOf[q] => p = q
                 /\ Handlers \subseteq PaymentHandlers /\ Unreferenced = {}
SingleAttemptInv == PendingWriteFits /\ UnsettledOrders /\ StockMatchesOrder

\* A confirmation under way rests on an announced success.
ConfirmHasProof ==
  \A w \in Workers : job[w].op = "confirm" =>
    \E q \in MayPay(job[w].on) : "success" \in reports[q]
ProofInv == PaidHasProof /\ ConfirmHasProof

\* Nothing is announced for an attempt while its initiation is under way, and a
\* confirmation about to commit writes both columns of the order.
InitiationFirst ==
  /\ \A p \in Payments : reports[p] # {} => Exists(p)
  /\ \A w \in Workers : job[w].op = "initiate" => reports[job[w].on] = {}
ConfirmWritesOrder ==
  \A w \in Workers : job[w].op = "confirm" /\ job[w].at = "commit" =>
    /\ job[w].write.paid = "PAID"
    /\ job[w].write.status \in {"CONFIRMED", "CANCELLED"}
ShownInv == PaidShowsOnOrder /\ InitiationFirst /\ ConfirmWritesOrder

\* When handlers run one after the other: the attempt a hold is about to update
\* is still open, and every attempt, Bictorys ones included, has at most one
\* receipt to send, and only once PAID.
OneHandler == \A v, w \in Workers : v = w
HeldIsOpen ==
  \A w \in Workers : job[w].op = "hold" => payStatus[job[w].on] \in OpenStatuses
ReceiptOnce ==
  \A p \in Payments :
    /\ receipts[p] # 0 => payStatus[p] = "PAID"
    /\ \A w \in Workers : Confirmed(w, p) => payStatus[p] = "PAID" /\ receipts[p] = 0
OneHandlerInv == HeldIsOpen /\ ReceiptOnce

\* The same, when the staff refunds no order: the units a pending write moves
\* are those the status it writes calls for, and an initiation under way is of an
\* order that stands.
NoRefunds == "REFUNDED" \notin StaffStatuses
Stands(s) == IF s \in Released THEN 0 ELSE 1
OrderFits(w) ==
  LET status == orderStatus[OrderAt(w)]
      new == job[w].write
  IN /\ job[w].at = "commit" => new.take = Stands(Written(status, new.status)) - Stands(status)
     /\ job[w].at = "stock" => status = "CANCELLED"
     /\ job[w].op = "initiate" => status \notin Released
     /\ new.status # "REFUNDED"
UnrefundedStock ==
  /\ \A w \in Workers : OrderFits(w)
  /\ \A o \in Orders : orderStatus[o] # "REFUNDED"
  /\ StockMatchesOrder

-----------------------------------------------------------------------------
(* What the repository says of itself and the code does not do.            *)

\* docs/bictorys-integration.md, 8.1: an abandoned attempt only changes the
\* payment status; its order is not cancelled and its stock not released.
ExpiredKeepsOrder ==
  \A p \in Payments :
    payStatus[p] = "EXPIRED" => orderStatus[OrderOf[p]] # "CANCELLED"
=============================================================================
