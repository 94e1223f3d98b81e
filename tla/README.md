# Formal models of the e-commerce API

TLA+ models of the concurrent core of this NestJS / Prisma / PostgreSQL shop:
how an order is placed and paid, how its stock is kept, how sessions are granted
and ended, how conversions reach the advertising providers. TLC checks small
instances, TLAPS proves their safety properties for every value of the constants.

Files: `*.tla` (models, `MC*` instances, `*_proofs`, and `Sums`, the facts about
sums over finite sets that two of the proof modules use), `*.cfg` (one per run),
`PROJECT.json` (components, runs, source map, hazards, findings, theorems).
To repeat: `tlc -config OP_serial.cfg MCOrderPayments.tla`,
`tlapm OrderPayments_proofs.tla`.

## 1. Inventory

Paths are under `src/src/`. Every component is a set of NestJS services over one
PostgreSQL database; nothing sets an isolation level, so transactions run at
READ COMMITTED. Controllers only validate and delegate.

| component | state it keeps | operations | correct when |
|---|---|---|---|
| payments (`payments/`) | `Payment` rows (status, `expiresAt`, `nextReconciliationAt`, metadata) and the order's `paymentStatus` | initiate; webhooks of Wave, Orange Money, Bictorys; "vérifier le paiement"; hold; expire; fail; confirm; reconcile | PAID is final and rests on an announced success; effects happen once; no attempt stays open; a late success is honoured; order and stock follow the payment |
| payment cron (`payments.jobs.ts`) | none | every minute, reconcile due attempts | every abandoned attempt ends, in its turn, and for a reason |
| orders (`orders/`) | `Order`, `OrderItem`, the `SALE`/`RETURN` inventory movements | create; customer cancel; staff status; staff payment status; reads | the units an order has taken match its status; a cart is ordered once; a coupon's limit holds |
| cart (`cart/`) | `Cart`, `CartItem` | add, update, remove, clear, merge a guest cart at login | one active cart per owner, one row per product, no unit lost or made by a merge |
| coupons (`coupons/`) | `Coupon`, `CouponUsage` | create, update, remove, validate | usage stays within the limit and is counted; an order costs what was announced |
| shipping (`shipping/`) | `DeliveryZone`, `DeliveryNeighborhood` | create, update, move, remove | an order keeps its destination |
| inventory, variants (`inventory/`, `products/variants/`) | `Product.quantity`, `ProductVariant.quantity`, movements | adjust, receive, variant CRUD | the movements account for every quantity; the product's quantity is the sum over its variants once requests stop overlapping |
| auth (`auth/`, `users/`) | `User`, `RefreshToken`, `PasswordResetToken`, linked identities; two in-memory Apple maps | register, login, refresh, logout, forgot and reset, social sign-in, change password, suspend, remove, nightly clean-up | ended sessions stay ended; a refresh token or a reset link serves as often as requests overlap, no more; one session per Apple sign-in |
| tracking (`tracking/`) | sessions, `MarketingEvent`, `ConversionLog` | track, dispatch to Meta and TikTok, retry job | a log SENT is true; no recorded event is forgotten; retries are bounded and end |
| notifications (`notifications/`) | stored notifications, map user → socket | notify, connect, disconnect | the map names the user's live socket |
| reviews (`reviews/`) | `Review` | create, moderate | one review per user and product |
| catalogue, marketing, stats, mail, images | plain rows | CRUD, aggregates, I/O | no protocol of several steps |

How they interact. The cart feeds `OrdersService.create`, which debits the
stock, counts the coupon and converts the cart in one transaction.
`initiatePayment` opens a session at a provider and an attempt on the order. The
provider's webhooks, the customer's "verify" button and the cron then race to
settle the attempt, and settling it confirms or cancels the order, which moves
the stock again, while the customer may cancel the order and the staff may
change it. Confirmation finally calls notifications, tracking and mail, outside
its transaction. Sales, returns, deliveries and the staff's edits meet on the
rows of the product and its variants, and each recomputes the product's quantity
from them. Prices, coupons and delivery zones are edited while orders are computed
from them. A purchase that is tracked becomes two background dispatches, whose
failures a cron takes up again. Sessions touch the rest only through the account
they name.

Where it is hard. Nothing but row locks and `WHERE` clauses orders these
handlers. Most of them read, decide, and later write by id: what was read may be
stale. There is no unique index on `Payment.orderId`, `Cart.userId`,
`Cart.sessionId` or `CartItem`, and no CHECK on a quantity. Providers repeat,
delay and lose notifications. A process may die between a commit and the calls
that follow it. `PROJECT.json` lists each of these under "hazards", at its line,
with the property that covers it or the reason none does.

## 2. Plan

1. **`PaymentLifecycle`, `OrderPayments`** (done): attempts against the order and
   its stock. `OrderPayments` implements `PaymentLifecycle`.
2. **`Checkout`** (done): carts, coupon and stock up to the order.
3. **`VariantStock`** (done): the rows behind the one stock number of 1 and 2.
4. **`Reconciliation`** (done): the free choices of 1 made definite for Bictorys:
   which transaction is read, what verifies, which attempts the cron takes and when.
5. **`AuthSessions`** (done).
6. **`ConversionDispatch`** (done).
7. **`OrderTerms`** (done): what an order costs and where it goes.
8. Proofs (done, section 11): every invariant and action property the runs check,
   and both refinements. Where the code keeps a property only for requests that do
   not overlap, or for one attempt per order, the theorem says so.
9. **`Shop`** (not done): `Checkout` and `OrderPayments` composed over one stock
   and one set of orders, so that conservation spans placing, paying and cancelling.

The suite holds to twelve runs, so that all of it can be repeated in minutes.

Modules that are proved about use no RECURSIVE operator, have their bounds as
CONSTANTS with named assumptions, one action per database step, and invariants
as conjunctions of named parts.

## 3. OrderPayments

### State and actions

| variable | code |
|---|---|
| `orderStatus`, `orderPaid` | `Order.status`, `Order.paymentStatus` |
| `payStatus` | `Payment.status`; "none" before the row is inserted |
| `stock`, `taken` | the sellable quantity; per order, SALE minus RETURN movements |
| `deadline` | how far time is past `createdAt`: before `expiresAt`, after it, after the grace period |
| `reports` | what the provider has announced for the attempt (external) |
| `receipts` | payment confirmations sent for the attempt |
| `job` | what each worker has read and is about to write |
| `holds` | refused Bictorys confirmations of the attempt's success, up to `MaxHolds` |

| action | handler |
|---|---|
| `InitiatePayment`, `CreatePayment`, then `Commit` | `initiatePayment`: the checks, the row, the separate order update |
| `WebhookSuccess/Failed/Expired`, `WebhookRefused` + `HoldPayment` | the three webhook handlers; `holdBictorysPayment` |
| `VerifyPayment` | `verifyBictorysPayment` |
| `ReconcilePaid/Failed/Expired` | one attempt of the loop of `expireAbandonedPayments` (`reconcilePayment`) |
| `ConfirmTx`, `ReserveStock`, `FailTx`, `ExpireTx`, `LoseRace`, `Commit` | the settling transactions: the guarded `updateMany`, the read of the order, `reserveOrderStock` or `cancelOrderForPaymentFailure`, the commit |
| `SendReceipt` | what `confirmPayment` does after its commit |
| `CancelMyOrder`, `UpdateStatus`, `UpdatePaymentStatus` + `StaffCancel` | the handlers of `OrdersService` |
| `Report`, `Age` | provider and clock (external) |
| `Die` | a crash, a transaction timeout, a deadlock victim |

### What is abstracted

- READ COMMITTED. A guarded `updateMany` locks its payment row until commit
  (`RowFree`), and a second one then re-evaluates its WHERE clause (`Admitted`,
  `LoseRace`). Orders are read without a lock, so a decision rests on the order
  as it was when the transaction read it. The writes of a transaction become
  visible together, in `Commit`; increments apply to the latest quantity.
- The cron's own selection (50 rows, `expiresAt`, `nextReconciliationAt`) is the
  guard `Selected`, evaluated when it takes the attempt; an attempt settled
  between selection and treatment is refused by the same WHERE clause either way.
- Amounts, currencies and signatures are not kept. `Matches` says which row a
  notification is taken for: the code looks for one that has the transaction id OR
  the order's number and takes the first, so any attempt of the order, which
  includes the right one. When a Wave or Orange Money notification carries no order
  number, the filter `{ order: { orderNumber: undefined } }` fits every attempt of
  every order; the constant `Unreferenced` has the attempts whose notifications
  may be so (`FindPayment`). Bictorys' lookup leaves absent fields out
  (`FindBictorysPayment`). Whether Bictorys' answer verifies is a free choice
  between `WebhookSuccess` and `WebhookRefused`; `Reconciliation` says when it
  does.
- `SendReceipt` counts what `confirmPayment` sends for an attempt. The mail
  `updatePaymentStatus` sends when the staff writes PAID on an order
  (`orders.service.ts:685`) belongs to no attempt and is not counted.
- The units of all the items of an order are one number, always tracked, of one
  product. Parent and variant quantities are the subject of `VariantStock`.
- The provider announces nothing before the initiation has answered, because the
  customer has no checkout page until then.
- `Pickup` is empty in all runs: it only forbids one transition, IN_DELIVERY.

### Runs

| run | instance | what it shows |
|---|---|---|
| `OP_serial` | one order, a Wave and a Bictorys attempt, one worker, all handlers, an oversold product | handled one at a time, with crashes anywhere, stock follows the order (`StockMatchesOrder`) and every attempt follows `PaymentLifecycle` |
| `OP_concurrent` | two orders: a Wave attempt whose notifications may lack the order number, an Orange Money attempt whose notifications carry it; two payment workers | PAID needs a success announced for the order or without a number (`PaidHasProof`); guarded attempts follow `PaymentLifecycle` (`GuardedLifecycle`) |
| `OP_attempt` | a Bictorys attempt, three payment workers, one hold | stock and order agree, a confirmed payment shows on its order, no late failure cancels it; an announced success ends in PAID unless its verification was refused, and no attempt stays open |
| `OP_doc_expired` | | the disagreement of section 10 |

Bounds. Two workers are enough for every race between two handlers, which is
what each hazard needs; two attempts are enough for an attempt and its sibling,
or for two orders one of which is taken for the other.
`InitialStock` is what is left once the orders are placed. It is -1 in
`OP_serial`: overlapping orders oversell (section 5), and only then, in a model
where nobody else buys, can a late confirmation find too little stock; it is 1 in
the other runs, where reopening succeeds. Receipts are counted to 2 because the
property only tells 0, 1 and more. `MaxHolds` is 1: a held attempt may be held
again, which changes nothing but the count. `OP_concurrent` has neither customer
nor staff, who touch no attempt. No run has a cash attempt, which no provider
reports on and the cron does not take; the theorems include them. `OP_attempt` has
one order; that orders do not disturb each other is part of what `SingleAttemptStock`,
`SingleAttemptPaidOrder` and `SingleAttemptShown` prove for any number of them,
as `OneHandlerStock` and `OneHandlerLifecycle` do for `OP_serial`.

What the passing runs leave out, because the code does not keep the property
there: with two workers *and* two attempts, or with staff and customers
concurrent to payment handlers, `StockMatchesOrder` fails (section 10). With one
worker it also fails when the staff *refunds* an order whose attempt is still
open: `confirmPayment` takes the units again only from CANCELLED
(`payments.service.ts:1893`), so a late success confirms the refunded order
without them. `OP_serial` therefore has no staff REFUNDED; no document says what
should happen. `PaidShowsOnOrder` and `PaidOrderNotCancelled` are stated with one
attempt per order: two attempts of one order overwrite each other's status on it.
Only `OP_concurrent` has notifications without an order number: they pay or fail
attempts of other orders, cash ones too, and no promise about stock or the order's
status is meant for that. In `OP_attempt` there is stock when the order is
reopened; that it may be missing is in `SingleAttemptShown` and `OP_serial`.

### Fairness

`LiveSpec` assumes: time passes (`Age`); a started handler continues
(`Continue`) unless it dies; handlers do not die for ever; the cron comes back
to each due attempt (it runs every minute), and a provider repeats a success until
it is answered 2xx (`Delivered`; strong fairness, since a worker may be busy in
between). The last is the providers' retry policy and is external. A refused
confirmation is answered 200 like any other (`payments.service.ts:594`), so after
a hold nothing more is assumed to come; nor is anything of a notification without
an order number, which may have been taken for another order's. Nothing is assumed
of customers, of staff, or of failure and expiry notifications.

A death and a lost race both end a handler and leave the rows alone, so the
assumption is written `Die(w) => Continue(w)`: from some point on, what ends a
handler is a step of its own.

`AttemptsSettle` needs the grace period: with it dropped, an attempt nobody
reports on stays open (that is its mutant). `SuccessIsHonoured` needs a late
success to be accepted from EXPIRED and FAILED. It promises a PAID attempt unless
the confirmation was refused: with Bictorys unreachable when the webhook arrives
and again at the end of the grace period, the attempt ends EXPIRED although paid.

## 4. Checkout

### State and actions

`cart[c]` and `line[c][p][k]` are the cart rows and the units of the k-th row of
product p (two rows of one product are a duplicate, the hazard of `addItem`);
`stock`, `usageCount` and `order` are the rows an order touches; `job[w]` is what
request w has read.

| action | handler |
|---|---|
| `AddItem`, `CreateCart`, `ReadLine`, `WriteLine` | `addItem`: stock check, `getOrCreate` (read, create), the line (read, create or overwrite) |
| `UpdateItem`, `RemoveItem`, `WriteItem`; `Clear`, `ClearLines` | the cart is resolved, then written |
| `Merge`, `CreateCart`, `ReadMerge`, `MergeCarts` | `merge`: the guest's cart, the user's cart, one read per line, all writes and the conversion at the end |
| `OrderCart`, `OrderActiveCart`, `OrderItems` | `create` up to its transaction, in its three forms: a `cartId`, the active cart, items in the request |
| `DebitStock`, `PlaceOrder` | its transaction: debits (the row locks), the cart it converts, the commit |
| `Die` | a request that ends at any step |

### What is abstracted

- The reads of `create` before its transaction (cart, lines, stock, coupon) are
  one instant: each races with other requests in the same way, through the
  transaction that does not check them again.
- Stock is always tracked; variants, prices, shipping and discounts are left out;
  there is one coupon. The row locks of the transaction are the products and the
  coupon it updates (`SharedRow`).
- A deleted row's id may be used by a later row of the product; a write to a row
  that is gone makes the request fail.
- `merge` adds all the guest's rows of one product to one row of the user's cart
  (when the user's cart has two, any of them).
- `cart.expiresAt` is written and never read, so it is not modelled.

### Runs

| run | instance | what it shows |
|---|---|---|
| `CK_serial` | a guest session and a customer, one worker, all requests, quantities 1 and 2, stock 2 | served one after the other: one row per product, no oversale by orders that list a product once, a merge keeps the units |
| `CK_race` | a customer, two workers, two cart ids in reserve, three orders, a coupon usable once | how far overlapping requests exceed the coupon's limit, the orders of one cart and the active carts of a user: by one per extra request, no more |

The bounds of `CK_race` are what the code gives, not what it wants: nothing is
checked again inside the transactions, so the limit is exceeded by up to the
number of requests in flight. They say that the checks are worth something: a
used coupon or a converted cart is refused to every request that starts later.

Bounds. Three carts and three orders leave room to break each bound with two
workers (that is: one more than allowed). `MaxQuantity` caps a line. In
`CK_serial` quantities 1 and 2 against a stock of 2 cover enough, exactly enough
and too little. `SameIds` permutes cart ids, order ids and workers, which the
module never tells apart; it is used for safety properties only. In `CK_serial`
the customer's requests carry no session id; for a client that
keeps sending it see section 10.

`CHECK_DEADLOCK FALSE` is set in all runs, of every module, because the instances
may stop: orders and attempts are finite and may all be settled, ids be used up,
requests reach their bound.

## 5. VariantStock

The rows behind the stock: one product, its variants, and every service that
writes a quantity.

| variable | code |
|---|---|
| `variant`, `hasVariants`, `quantity` | `ProductVariant` rows, `Product.hasVariants`, both tables' `quantity` (`Product` is the product's own row) |
| `moved` | opening quantity plus the sum of the `InventoryMovement` rows |
| `order` | status and lines; a line of a deleted variant becomes a line of the product (`onDelete: SetNull`) |
| `job` | the request of a worker: lines left, rows locked, values written and not committed |
| `disputed` | history, see `LedgerAccounts` |

| action | handler |
|---|---|
| `PlaceOrder`, `InsertOrder`, `MoveLine`, `Commit` | `OrdersService.create`: checks outside, then its transaction |
| `ReturnOrder`, `MoveLine`, `SkipLine`, `Commit` | the returns of `cancelMyOrder`, `updateStatus`, `cancelOrderForPaymentFailure` |
| `ReopenOrder`, `CheckStock`, `MoveLine`, `Commit` | `reserveOrderStock` |
| `Adjust`, `Receive`, `UpdateStock`, `Commit` | `InventoryService` |
| `SumVariants`, `WriteParent` | `syncParentStock`, in each of its four copies |
| `CreateVariant` + `FlagVariants`; `UpdateVariant`; `RemoveVariant` + `CountVariants` + `UnflagVariants` | `VariantsService`, one committed statement each |
| `EditProduct` | the quantity in `ProductsService.update` |
| `Crash` | a failing statement, a deadlock's victim, a dead process |

Abstracted: every row tracks its inventory; movements are their sum; the other
columns are gone. A row written in a transaction is locked until it commits, and
an increment applies to the row as it is once the lock is granted.

Run `VS_overlap`: two variant ids (one exists), a cancelled order, two workers,
three requests of any kind. The movements account for every variant's quantity
(`LedgerAccounts`), except where the code gives it up: `UpdateVariant` writes no
movement, and a staff write of a quantity read earlier covers what was committed
in between. Overselling is bounded by what overlapped (`OversellBound`) and a
lone request repairs the product's quantity (`RequestRepairs`): what overlapping
requests, crashes and edits leave wrong lasts until the next request that nothing
overlaps, no longer.

Three requests are what each deviation needs (an order, a stale write, and the
lone request that repairs); two workers for each overlap; quantities up to 2.
That product and variants always agree is not a property of the code: two sales
of two variants each write a sum without the other; a direct edit of a product
with variants, an order line without `variantId`, or the deletion of the last
variant (`variants.service.ts:97`, which leaves the old sum) put them apart too.

## 6. AuthSessions

| variable | code |
|---|---|
| `user`, `token`, `link`, `identity` | `User` (status, whether a password is set), `RefreshToken`, `PasswordResetToken`, the Google and Apple ids of accounts |
| `appleTx`, `appleCode` | the two in-memory maps of `AuthService` |
| `job` | the request of a worker between its reads and its writes |
| `epoch`, `survivors` | history: revocations of an account; sessions that a request was serving at one |

| action | handler |
|---|---|
| `Register`, `Login`, `CreateUser`, `IssueSession` | `register`, `login`, `issueSession` |
| `Refresh`, `RevokeParent`, `IssueSession`; `Logout` | `refresh`, `logout` |
| `ForgotPassword`, `InvalidateLinks`, `SendLink`; `ResetPassword`, `ApplyReset` | `forgotPassword`, `resetPassword` |
| `ChangePassword`, `RemoveUser`, `RevokeSessions`, `Suspend`, `UpdateStatus` | `UsersService` |
| `SocialLogin`, `LinkIdentity`; `InitiateApple`, `AppleCallback`, `RefuseCallback`, `ExchangeAppleCode` | `socialLogin` and the Apple web flow |
| `ExpireToken`, `ExpireLink`, `ExpireApple`, `CleanExpiredTokens`, `Restart` | time, the nightly cron, a restart of the process |

Abstracted: passwords are right (a wrong one changes nothing); tokens are ids;
access tokens are stateless and not kept; the lookup that starts a request is one
step. A token carries the epoch of its session for the properties only.

Run `AS_sessions`: a registered account and a new address, a social identity
with that address, four tokens, three links, two workers, three requests. After a
reset, a change of password or a removal, what is still valid was granted since
or belongs to a session a request was serving then (`OnlySurvivors`); a token is
exchanged, and links stay usable, as often as workers overlap, no more
(`ExchangesBounded`, `LinksBounded`); an Apple sign-in leads to one session
(`OneSessionPerSignIn`); a session that is over stays over (`OverForGood`). Four
tokens and three links leave one more than each bound allows.

The runs also record what the code does not do: `changePassword` writes the
password and ends the sessions in two statements, so a crash between them leaves
the sessions; `updateStatus` leaves the tokens, which `refresh` then refuses
because it looks at the account; a restart loses the Apple maps, and the
sign-ins under way with them.

## 7. ConversionDispatch

| variable | code |
|---|---|
| `session`, `recorded`, `log` | `VisitorSession`, `MarketingEvent`, `ConversionLog` (one row per event and provider) |
| `configured` | which providers have credentials |
| `accepted` | what a provider took, whether the answer arrived or not (external) |
| `job` | a request recording events, a background dispatch, a run of the cron |
| `lost` | history: what a fault kept from having a row |

| action | handler |
|---|---|
| `StartSession`, `SessionTimeout`, `EndSession`, `TrackEvents`, `TrackPurchase` | `resolveSession`, `trackEvents`, `recordSearch`, `trackPurchase` |
| `RecordEvent`, `Dispatch` | `createEvent`; the two dispatches nobody awaits |
| `Skip`, `Call`, `LogResult` | the Meta and TikTok services, `logDispatchResult` and the cron's update |
| `RetryFailed` | `TrackingJobs.retryFailedConversions` |
| `RecordFails`, `LogFails`, `Restart` | faults, at most `MaxFaults` |

Abstracted: payloads and hashing; whether an event can be delivered is a
constant; the array of events a request works through is a number for each event,
since an id sent twice is recorded once, but dispatched and counted twice
(`tracking.service.ts:386`, 662, 723); `nextRetryAt` is the free choice of which
FAILED rows the cron finds due. A worker slot is kept free for the second dispatch of a request, since the
code has no limit there.

Run `CD_retry`: a purchase that server and browser announce, the browser twice in
a batch, and another event, two tasks, one row per run of the cron, two attempts
at most, one fault. SENT is true of a deliverable event (`SentIsAccepted`); an event has a row or a task that
will write it, unless a fault struck (`NothingForgotten`); overlapping runs of the
cron add one attempt each, and a request one for every time its batch holds the
event (`AttemptsBounded`); a failure is retried until it settles
(`FailuresSettle`). The limits 10 and 10 of the code become 2 and 1, and `Repeats`
is 2 for the 50 events a batch may have (`tracking.dto.ts:20`): what matters is
that rows exceed a run, attempts reach the maximum and one batch passes it.

Fairness: tasks run, and the cron is triggered every five minutes and finds a
failed row due (weak fairness; the back-off is capped at two hours).

Left to the code: an event that Meta cannot take is marked SENT with its batch;
a TikTok batch refused half-way is FAILED as a whole and sent again, so an event
may be delivered twice; a purchase whose dispatch a crash lost is never
dispatched, since `trackPurchase` then finds it recorded; when one event of a
request throws, those recorded before it are not dispatched.

## 8. Reconciliation

Bictorys in detail: transactions, what verifies, and the cron's dates and order.
What the end of an attempt does to its order is in `OrderPayments`.

| variable | code |
|---|---|
| `row` | `Payment.status`, `transactionId`, the notification kept in `metadata` |
| `due`, `left` | ticks to `nextReconciliationAt` and to the end of the grace period |
| `tx`, `key` | the provider's transactions, and whether the API key may read them (external) |
| `job` | a run of the cron with its rows as read; a webhook or a manual check |

| action | handler |
|---|---|
| `StartRun` | the query of `expireAbandonedPayments`: due or past `expiresAt`, oldest first, `Take` rows |
| `Inspect`, `SettleRow`, `SettleThrows`, `RescheduleThrows` | `reconcilePayment`, `inspectBictorysPayment`, `recordBictorysReconciliation`, `scheduleNextReconciliation` and the loop's `catch` |
| `Webhook`, `Ask`, `Verify`, `Write`, `Hold`, `WriteThrows` | `handleBictorysWebhook`, `verifyBictorysPayment`, `verifyBictorysTransaction`, the guarded updates, `holdBictorysPayment` |
| `Initiate`; `Pay`, `Conclude`, `Tick` | creation of the attempt; customer, provider, clock (external) |

Abstracted: amount and currency are one Boolean, `good`; a settlement's read and
guarded update are one step; an order has one attempt, with any number of
transactions (the customer tries again on the provider's page); a notification
names the status, amount and transaction it is about. The provider does not
reverse a transaction: the code ignores such a notification.

| run | instance | what it shows |
|---|---|---|
| `RC_turns` | two attempts, one of which throws whenever it is settled, one row per run | every other attempt is settled (`AttemptsGetTheirTurn`), whatever webhooks, checks, errors and restarts do |
| `RC_transactions` | an attempt with two transactions, keys that may and may not read | PAID is earned by a transaction (`PaidIsEarned`), an attempt closes for a failed transaction or at the end of its grace (`ClosedForAReason`) |

Durations are the shortest that keep their order (a lifetime, a grace period, a
retry longer than both steps); one row a run against two attempts is what makes
them queue.

Fairness: time passes (`SF` of `Tick`, which a run under way may hold up), the
cron starts and its run goes on (`WF`). `Tick` is coarse: the cron is triggered
more than once a tick, so a tick does not pass over a due attempt while no run is
active. `MaxHolds` bounds refused confirmations, because each puts the next
reconciliation off, and a provider that never stopped sending them would postpone
an attempt for ever.

Left to the code: a provider unreachable at the end of the grace period leaves
the attempt EXPIRED although paid, until a late webhook confirms it; a search by
reference reads one transaction (`limit` 1), so an earlier failure may hide a
later success; `recordBictorysReconciliation` writes metadata over what changed
since its read. A hold and a rescheduling merge metadata they have read
in the same way, a moment before: only `Inspect`'s merge, whose read is older by a call
to Bictorys, is a step of its own here.

## 9. OrderTerms

Where `Checkout` counts units and uses, this module has the amounts and the
destination: one product, coupons that have the same code, delivery zones and
the neighbourhoods in them.

| variable | code |
|---|---|
| `price`, `coupon`, `zone`, `hood` | `Product.price`, `Coupon`, `DeliveryZone`, `DeliveryNeighborhood` |
| `order`, `usages` | the terms of an `Order`, `CouponUsage` |
| `job` | what a request has read: an order between its three reads and its transaction, a removal between its count and its delete |
| `quote` | history: the last answer of `validate`, until a row of the code changes |

| action | handler |
|---|---|
| `CreateCoupon`, `UpdateCoupon`, `RemoveCoupon`, `Validate`; `CouponTime` | `CouponsService`; the clock against `startsAt` and `expiresAt` (external) |
| `ResolveItems`, `ResolveShipping`, `CalculateCoupon`, `PlaceOrder` | `OrdersService.create`: the items and subtotal, the fee, `validateAndCalculateCoupon`, the transaction |
| `UpdatePrice` | `ProductsService.update` |
| `SaveZone`, `SaveNeighborhood`, `Count` + `Delete` | `ShippingService` |
| `Crash` | a failing statement, a dead process |

Abstracted: items, stock and carts (`Checkout`, `VariantStock`); an order is a
number of units of the product. Amounts are integers (hundredths), rounded half
up where the code rounds a float; one code stands for each, so renaming is left
out; dates are three windows. A check that a row exists and the write that
follows are one step, since the write fails if the row is gone. A zone created
with neighbourhoods is a zone, then its neighbourhoods. `validate` and the order
compute the discount in two copies of the code, and so does the module. A patch
of a coupon that does not name `isActive` activates it (section 10). A request
whose neighbourhood is not in the zone it names (`orders.service.ts:121`) is
refused and ends like one that fails.

Run `OT_terms`: a coupon of a fixed amount above the price with two uses, an id
for another coupon, two zones, a neighbourhood, two orders, two workers, three
requests of any kind. A purchase that was quoted is accepted and costs what was
announced (`QuoteHonoured`); a coupon counts its orders exactly, through edits,
removals and crashes (`UsesAccounted`); a removal takes the destination from no
order it could count (`DestinationKept`). Three requests are what these need: a
quote, an order and an edit; an order, a move and a removal. The amounts are
small (a price of 3, a maximum of 1, a minimum of 6 for two units), so that
rounding, the maximum, equality with the minimum and the clamp at 0 all decide a
total.

## 10. What the code does otherwise than it says

`OP_doc_expired` is a run whose counterexample TLC finds: the documentation says
an abandoned attempt leaves the order alone, the code cancels it and releases its
stock. `PROJECT.json` "findings" quotes the sentence.

Four more were shown with the same models and are kept in words:

- « L'annulation est idempotente » (`payments.service.ts:1454`): two overlapping
  failures of an order's attempts both read the order before either writes, and
  both return its units (1464).
- « Un paiement déjà final n'est jamais ressuscité » (`payments.service.ts:1663`):
  `holdBictorysPayment` reads, then writes PROCESSING by id, over a status that
  became final in between (1677).
- « Marquer le panier comme CONVERTED s'il s'agissait d'une commande via panier »
  (`orders.service.ts:283`): an order of other items converts the customer's
  active cart too (289).
- « Transaction atomique : findFirst + create/update » (`cart.service.ts:129`):
  at READ COMMITTED two overlapping additions both find no row and create one
  each (131).

With the constants of the passing runs widened, the models show more:

- With two attempts of one order, one is paid and the cron then expires the
  other: the paid order is cancelled and its units return
  (`PaidOrderNotCancelled` under `OneOrder`, `payments.service.ts:1473`).
- With two attempts and two workers, a confirmation reads the order before an
  automatic cancellation commits, and confirms it without its units
  (`StockMatchesOrder`, `payments.service.ts:1885`).
- Late confirmations of two attempts check the same last unit and both take it
  (`stock` below zero, `payments.service.ts:1575`).
- A Wave or Orange Money notification without an order number may pay, or fail,
  an attempt of another order (`PaidHasProof` with `Siblings` only,
  `payments.service.ts:359` and 448); hence the exception in `PaidHasProof`.
- A Bictorys success that could not be verified is answered 200; when Bictorys
  is unreachable until the end of the grace period, the attempt stays EXPIRED
  although paid (`SuccessIsHonoured` without its exception,
  `payments.service.ts:594`).
- A batch that holds an event several times is sent and counted that many times
  (`AttemptsBounded` with one per request, `tracking.service.ts:386`).
- A product on two lines of one order passes the stock check twice; hence the
  exception in `StockNotOversold` (`orders.service.ts:807`).
- A guest's cart, ordered as the session's active cart, stays ACTIVE
  (`orders.service.ts:289`).
- A cart that carries both ids (the client kept its session id after login) is
  merged with itself: its quantities double and it is converted
  (`MergeKeepsUnits` with a context that has both, `cart.service.ts:208`).
- « Impossible de supprimer un quartier associé à des commandes existantes »
  (`shipping.service.ts:280`): a zone with no order of its own takes along a
  neighbourhood that was moved to it and has orders, which lose it
  (`schema.prisma:761`); hence the exception in `DestinationKept`.
- « Pour une réduction en pourcentage, la valeur doit être comprise entre 1 et
  100 » (`coupons.service.ts:240`) is checked only when one update names both
  type and value: edited apart they make a percentage of 150, whose discount
  exceeds the purchase and pays for delivery too.
- A patch of a coupon that does not name `isActive` activates it: the update DTO
  inherits the initial value `true` of the creation (`create-coupon.dto.ts:63`).
- A code typed with spaces is quoted, since `validate` trims it, and refused by
  the order, which does not (`orders.service.ts:904`); hence "exact" in
  `QuoteHonoured`.

## 11. Proofs

Every invariant and every action property of the runs, and both refinements, are
theorems, for any sets of orders, attempts, carts, products, variants, accounts,
tokens, events, workers and the rest. They rest on the module's own assumption
only (`ConstantsAssumption`, `StockAssumption`, `AuthAssumption`,
`DispatchAssumption`, `ReconciliationAssumption`, `TermsAssumption`), which TLC
evaluates on the runs: the types of the constants, distinct markers for "no row",
what the database holds at first, and finite sets where something is counted or
summed. A theorem that needs more states it with ASSUME:

| hypothesis | the theorem is about | without it |
|---|---|---|
| `SingleAttempt` | orders with one attempt, payment handlers only, notifications with their order number, any overlap | section 10: siblings overwrite each other, and so do orders taken for each other |
| `Unreferenced = {}` | notifications that carry their order number | section 10: a success pays another order's attempt |
| `OneHandler`, `OneAtATime` | one worker: handlers that do not overlap, any number of rows, crashes anywhere | sections 4 and 10: what was read is stale |
| `NoRefunds` | a staff that refunds no order | section 3: a late success confirms a refunded order |
| `IdsApart` | clients that send a user or a session id, not both | section 10: a cart merged with itself |

They are the hypotheses of the runs that check the property.

**`OrderPayments_proofs`**

- `TypeCorrect`: `TypeOK` is inductive; one lemma per group of actions.
- `SettlementHolds`: `SettlementInv` is inductive. `RowLocks`: one settling
  transaction holds a payment row, and the row still satisfies the WHERE clause
  it was admitted by. `RowInserts`: a row is inserted once, and only Bictorys rows
  are held. `OneReceipt`: one pending receipt per guarded attempt, only once PAID.
- `Lifecycle`: with `SettlementInv`, every step maps to a step of
  `PaymentLifecycle` or to a stutter, for the attempts no hold touches. "PAID is
  final" and "one receipt" are not inductive alone: a transaction admitted
  earlier could still commit FAILED over PAID, which `RowLocks` excludes.
- `OneHandlerLifecycle`: the same for all attempts under `OneHandler`.
  `OneHandlerInv` adds that the attempt a hold is about to update is still open,
  which is what an overlapping settlement breaks.
- `NoUnprovenPayment`: `PaidHasProof` with `ConfirmHasProof` (a confirmation
  under way rests on an announced success, which is never withdrawn), wherever
  notifications without an order number are taken to. `NoForeignPayment`: when
  all carry it, that success was announced for the attempt's own order.
- `SingleAttemptStock`, `SingleAttemptPaidOrder`: under `SingleAttempt` the write
  a pending transaction has decided still fits the order when it commits
  (`PendingWriteFits`), since only the holder of the attempt's row changes the
  order's status.
- `SingleAttemptShown`: `PaidShowsOnOrder` needs, on top of these, that nothing is
  announced while an initiation is under way (`InitiationFirst`), so its late
  write of the order meets no PAID attempt, and that a confirmation about to
  commit writes both columns (`ConfirmWritesOrder`).
- `OneHandlerStock`: under `OneHandler` and `NoRefunds`, staff, customer and any
  number of attempts included. `OrderFits`: the units a decided write moves are
  the difference between the order's status and the one it writes.

**`Checkout_proofs`**

- `TypeCorrect`.
- `CouponLimit`: the inductive invariant `CouponRoom` bounds the uses together
  with the requests still to be counted: a request that starts sees a use left
  and an idle worker, so there are fewer than `Workers` others.
- `CartOrders`: `CartRoom`: a cart with an order is CONVERTED for good, so
  nothing new is admitted for it, and its orders plus its pending requests never
  exceed the workers. `ActiveCarts`: `ActiveRoom` is the same argument for the
  active carts of a user and the requests about to create one.
- `SerialRows`, under `OneAtATime`: `SerialLines`: a request that found no row of
  its product still finds none when it writes; a merge plans one row per product.
- `SerialStockHolds`, under `OneAtATime`: `SerialStock`: what an order was told is
  in stock still is when it debits.
- `SerialMergeKeeps`, under `OneAtATime` and `IdsApart`: `SerialMerge`: the lines a
  merge has read are still those of both carts, every product of the guest has a
  row that takes it, and what will be written there is the sum.

**`VariantStock_proofs`**

- `TypeCorrect`, `LedgerHolds`: `StockInv`: two transactions share no row lock; a
  row one has locked holds the committed quantity plus the movements it has
  noted, unless disputed; a row it has not locked has nothing noted; what a staff
  write read is still there, or disputed.
- `Repairs`: `RepairInv`: when nothing overlaps a request, every other worker is
  idle, and from its last write of a variant on the product's row holds, or is
  about to get, the sum over the variants as this request sees them.
- `OversellHolds`: `OversellInv`: what a sale has checked is still there but for
  the largest quantity `q` of a request for each one that overlapped it *and has
  ended* (`overlap` minus the others in progress, `CoveredJob`). The bound with
  `overlap` itself is not inductive: a request in progress has yet to take its
  units.

**`Sums`**: `SumFunctionOnSet` over a finite set of integers is an integer
(`SumInt`), depends on the values summed only (`SumAgree`), and any element can be
split off (`SumTake`), although the definition takes elements in a fixed order.
The library states induction over finite sets with an operator parameter, which
the provers cannot instantiate; here a fact that failed would have a smallest
failing subset (`Smallest`, from well-foundedness of the strict subset order).

**`AuthSessions_proofs`**: `KnownInv` (a token id is free until the one request
that holds it issues it) gives `TypeCorrect` and, since an ended token's row is
never written as valid again, `OverStays`. `SurvivorsOnly`: a request under way
grants in the account's present epoch, or for a session that was being served at
the revocation (`Survives`). `OneSession`: before the callback of a sign-in
nothing carries it, afterwards one token or one request does (`SignInInv`).
`ExchangesHold`: tokens obtained from a token plus requests about to obtain one
never exceed the workers, and there are no such tokens until it is revoked
(`ExchangeInv`); `LinksHold` counts reset links likewise (`LinkInv`).

**`ConversionDispatch_proofs`**: `DispatchInv` (what the cron serves has a row, no
run of the cron serves an event twice, a request no more often than `Repeats`, a
task that logs knows its result) gives `TypeCorrect` and `NoneForgotten`; `SentHolds` adds that a task about to write SENT was told so
(`Told`). `AttemptsHold`: the attempts of a row, the copies of its event that
requests under way still have to log and the runs of the cron about to retry it
stay within the bound (`AttemptsInv`); a request adds as many copies as its batch
holds, at most `Repeats`.

**`Reconciliation_proofs`**: `TypeCorrect`; `TruthInv`: what a row says, what a
handler has read or been told, however old, and what it is about to write was
announced for a transaction of that attempt, and stays true since the provider
takes nothing back. `PaidEarned` and `ClosedRightly` follow.

**`OrderTerms_proofs`**: `TypeCorrect` (amounts stay natural numbers through
percentages and rounding); `UsesHold`: every step adds as many uses as usages, of
placed orders and existing coupons (`UsesInv`); `QuotesHold`: a standing quote is
what the one coupon of the code gives now, and a promise is noted only with the
discount that keeps it (`QuoteInv`); `DestinationsKept`: a removal has counted
only orders that do not name the row (`RemovalInv`).

Only model-checked: liveness (`SuccessIsHonoured`, `AttemptsSettle`,
`FailuresSettle`, `AttemptsGetTheirTurn`), because the prover has no ENABLED and
so no rule for fairness; and the disagreement of `OP_doc_expired`, a
counterexample.

The proofs led to corrections of the models: `InStock` of `Checkout` checks the
lines of the request only (`orders.service.ts:807`), so that an oversold product
blocks no order without it; the constants' assumptions name what the proofs
turned out to need (finite sets, and rows that an edit can produce).

## 12. Not modelled

Notifications: rows appended and marked read; the map user → socket, whose entry
the disconnection of an older socket deletes (`notifications.gateway.ts:91`), is
only read for logging. Reviews: a check, then a creation, so two overlapping
requests leave two reviews. Catalogue, marketing and user profiles are
single-statement updates; statistics only read. Mail, image storage and the
providers' HTTP clients beyond what sections 3 and 8 use are I/O and formatting.
In payments: references and signatures; in orders: searches and mails; in
tracking: identities, cookies, attribution and the contents of events; in auth:
mails and access tokens.
`PROJECT.json` "components" gives the reason for each.
