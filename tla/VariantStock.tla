---------------------------- MODULE VariantStock ----------------------------
(***************************************************************************)
(* The stock of one product and of its variants.                           *)
(*                                                                         *)
(* Every sale, return and delivery of a variant also rewrites the          *)
(* product's own quantity with the sum over its variants (syncParentStock).*)
(* Orders, payments and the inventory do it in a transaction, at READ      *)
(* COMMITTED: a written row stays locked and invisible until the commit.   *)
(* VariantsService does it in statements of their own.                     *)
(***************************************************************************)
EXTENDS Integers, FiniteSets, Functions

CONSTANTS
  Variants,       \* ids the product's variants may take
  Product,        \* the product's own row, as a place that holds stock
  Workers, Orders,
  Quantities,     \* bound: units a request is about
  MaxStock,       \* bound: largest quantity the staff sets
  FirstVariants,  \* the variants at the start, one unit each
  FirstOrders,    \* orders cancelled before the start, one unit of each variant
  MaxRequests,    \* bound: requests of a behaviour
  Handlers        \* the requests that are made

Shelves == Variants \cup {Product}
HandlerKinds == {"order", "return", "reopen", "adjust", "receive",
                 "create", "update", "remove", "edit"}

\* The requests that run in a transaction, those that move units by order.
Transactions == {"order", "return", "reopen", "adjust", "receive"}
OrderMoves == {"order", "return", "reopen"}

ASSUME StockAssumption ==
  /\ Product \notin Variants /\ IsFiniteSet(Variants) /\ IsFiniteSet(Workers)
  /\ FirstVariants \subseteq Variants /\ FirstOrders \subseteq Orders
  /\ Quantities \subseteq Nat \ {0} /\ MaxStock \in Nat /\ MaxRequests \in Nat
  /\ Handlers \subseteq HandlerKinds

VARIABLES
  variant,      \* variant[v]: no row yet, a row, or a deleted one
  hasVariants,  \* Product.hasVariants
  quantity,     \* quantity[s]: the committed quantity of a row
  moved,        \* moved[v]: opening quantity plus the inventory movements
  order,        \* order[o]: its status and its lines (units by shelf)
  job,          \* job[w]: the request worker w is serving
  requests,     \* requests made so far
  disputed      \* history: variants edited without a movement, or whose
                \* quantity changed between a staff read and its write

tables == <<variant, hasVariants, quantity, moved, order>>
vars == <<tables, job, requests, disputed>>

Live == {v \in Variants : variant[v] = "live"}
NoLines == [s \in Shelves |-> 0]
NoOrder == [status |-> "none", lines |-> NoLines]
Idle == [op |-> "idle"]

Init == /\ variant = [v \in Variants |-> IF v \in FirstVariants THEN "live" ELSE "none"]
        /\ hasVariants = (FirstVariants # {})
        /\ quantity = [s \in Shelves |-> IF s = Product THEN Cardinality(FirstVariants)
                                         ELSE IF s \in FirstVariants THEN 1 ELSE 0]
        /\ moved = [v \in Variants |-> IF v \in FirstVariants THEN 1 ELSE 0]
        /\ order = [o \in Orders |->
                      IF o \in FirstOrders
                      THEN [status |-> "cancelled",
                            lines |-> [s \in Shelves |-> IF s \in FirstVariants THEN 1 ELSE 0]]
                      ELSE NoOrder]
        /\ job = [w \in Workers |-> Idle]
        /\ requests = 0
        /\ disputed = {}

-----------------------------------------------------------------------------
(* Requests, row locks and what a transaction sees.                         *)

Busy(w) == job[w] # Idle

\* A request in progress: the lines left to move, the rows written and not
\* committed, the movements recorded, how many requests have overlapped it.
Request(op, at, lines) ==
  [op |-> op, at |-> at, lines |-> lines, todo |-> {s \in Shelves : lines[s] > 0},
   locks |-> {}, value |-> NoLines, noted |-> NoLines, refs |-> {}, order |-> {},
   amount |-> 0, base |-> 0, total |-> 0, overlap |-> Cardinality({x \in Workers : Busy(x)})]

Overlapped == [x \in Workers |-> IF Busy(x) THEN [job[x] EXCEPT !.overlap = @ + 1]
                                            ELSE job[x]]

Begin(w, j) ==
  /\ ~Busy(w) /\ requests < MaxRequests
  /\ requests' = requests + 1
  /\ job' = [Overlapped EXCEPT ![w] = j]

Finish(w) == job' = [job EXCEPT ![w] = Idle]

Free(w, s) == \A x \in Workers \ {w} : Busy(x) => s \notin job[x].locks
Seen(w, s) == IF s \in job[w].locks THEN job[w].value[s] ELSE quantity[s]
Sum(f, S) == FoldFunctionOnSet(+, 0, f, S)

\* The staff's transactions that read a variant and have not written it.
StaleReads(S) ==
  {s \in S : \E x \in Workers : /\ Busy(x) /\ job[x].at = "set"
                                /\ job[x].lines[s] > 0}

-----------------------------------------------------------------------------
(* Orders: the lines are read and checked outside the transaction.          *)

PlaceOrder(w, lines) ==
  /\ "order" \in Handlers
  /\ \A s \in Shelves : lines[s] > 0 => /\ s \in Live \cup {Product}
                                        /\ lines[s] <= quantity[s]
  /\ Begin(w, Request("order", "insert", lines))
  /\ UNCHANGED <<tables, disputed>>

\* The order and its items are inserted: a variant deleted meanwhile makes
\* the transaction fail, a variant referred to cannot be deleted.
InsertOrder(w) ==
  /\ Busy(w) /\ job[w].at = "insert"
  /\ job[w].todo \subseteq Live \cup {Product}
  /\ \E o \in Orders :
       /\ order[o].status = "none"
       /\ \A x \in Workers : Busy(x) => o \notin job[x].order
       /\ job' = [job EXCEPT ![w].at = "move", ![w].order = {o}, ![w].refs = job[w].todo]
  /\ UNCHANGED <<tables, requests, disputed>>

\* cancelMyOrder, updateStatus and the automatic cancellation.
ReturnOrder(w, o) ==
  /\ "return" \in Handlers
  /\ order[o].status = "placed"
  /\ Begin(w, [Request("return", "move", order[o].lines) EXCEPT !.order = {o}])
  /\ UNCHANGED <<tables, disputed>>

\* A late payment of a cancelled order.
ReopenOrder(w, o) ==
  /\ "reopen" \in Handlers
  /\ order[o].status = "cancelled"
  /\ Begin(w, [Request("reopen", "check", order[o].lines) EXCEPT !.order = {o}])
  /\ UNCHANGED <<tables, disputed>>

\* Mutant: the quantities are not compared.
TakeUnchecked(w) ==
  /\ Busy(w) /\ job[w].at = "check"
  /\ LET tracked == job[w].todo \cap (Live \cup {Product})
     IN job' = [job EXCEPT ![w].at = "move", ![w].todo = tracked]
  /\ UNCHANGED <<tables, requests, disputed>>

\* reserveOrderStock reads every quantity before it debits one.
CheckStock(w) ==
  /\ Busy(w) /\ job[w].at = "check"
  /\ LET tracked == job[w].todo \cap (Live \cup {Product})
     IN IF \A s \in tracked : job[w].lines[s] <= Seen(w, s)
        THEN job' = [job EXCEPT ![w].at = "move", ![w].todo = tracked]
        ELSE Finish(w)
  /\ UNCHANGED <<tables, requests, disputed>>

Signed(w, s) == IF job[w].op = "return" THEN job[w].lines[s] ELSE -job[w].lines[s]

\* Mutant: a return does not recompute the product's quantity.
NextOfMoveWithoutSync(w, s) ==
  IF s = Product \/ job[w].op = "return" THEN "move" ELSE "sum"

NextOfMove(w, s) == IF s = Product THEN "move" ELSE "sum"

\* Mutant: a reopened order takes its units without a movement.
NotedUnlessReopened(w, s) ==
  IF job[w].op = "reopen" THEN job[w].noted
  ELSE [job[w].noted EXCEPT ![s] = @ + Signed(w, s)]

Noted(w, s) == [job[w].noted EXCEPT ![s] = @ + Signed(w, s)]

\* One line: quantity { increment } or { decrement } on the row as it is once
\* its lock is granted, and the movement.
MoveLine(w) ==
  /\ Busy(w) /\ job[w].op \in OrderMoves /\ job[w].at = "move"
  /\ \E s \in job[w].todo :
       /\ s \in Live \cup {Product} /\ Free(w, s)
       /\ job' = [job EXCEPT ![w].todo = @ \ {s}, ![w].at = NextOfMove(w, s),
                             ![w].locks = @ \cup {s},
                             ![w].value[s] = Seen(w, s) + Signed(w, s),
                             ![w].noted = Noted(w, s)]
  /\ UNCHANGED <<tables, requests, disputed>>

\* tracksInventory finds no row for a variant deleted since the order was read.
SkipLine(w) ==
  /\ Busy(w) /\ job[w].op = "return" /\ job[w].at = "move"
  /\ \E s \in job[w].todo \ (Live \cup {Product}) : job' = [job EXCEPT ![w].todo = @ \ {s}]
  /\ UNCHANGED <<tables, requests, disputed>>

Committed(w, o) ==
  CASE job[w].op = "order"  -> [status |-> "placed", lines |-> job[w].lines]
    [] job[w].op = "return" -> [order[o] EXCEPT !.status = "cancelled"]
    [] job[w].op = "reopen" -> [order[o] EXCEPT !.status = "placed"]

Commit(w) ==
  /\ Busy(w) /\ job[w].op \in Transactions /\ job[w].at = "move" /\ job[w].todo = {}
  /\ quantity' = [s \in Shelves |-> Seen(w, s)]
  /\ moved' = [v \in Variants |-> moved[v] + job[w].noted[v]]
  /\ order' = [o \in Orders |-> IF o \in job[w].order THEN Committed(w, o) ELSE order[o]]
  /\ disputed' = disputed \cup StaleReads(job[w].locks \cap Variants)
  /\ Finish(w)
  /\ UNCHANGED <<variant, hasVariants, requests>>

-----------------------------------------------------------------------------
(* InventoryService: a read, then an absolute write, in one transaction.    *)

ReadStock(w, op, s, n) ==
  /\ op \in Handlers
  /\ s \in Live \cup {Product}
  /\ Begin(w, [Request(op, "set", [NoLines EXCEPT ![s] = 1])
               EXCEPT !.amount = n, !.base = quantity[s]])
  /\ UNCHANGED <<tables, disputed>>

Adjust(w, s, n) == ReadStock(w, "adjust", s, n)
Receive(w, s, n) == quantity[s] + n <= MaxStock /\ ReadStock(w, "receive", s, n)

\* A variant deleted since makes the update throw.
UpdateStock(w) ==
  /\ Busy(w) /\ job[w].at = "set"
  /\ \E s \in job[w].todo :
       LET new == IF job[w].op = "adjust" THEN job[w].amount ELSE job[w].base + job[w].amount
       IN /\ s \in Live \cup {Product} /\ Free(w, s)
          /\ job' = [job EXCEPT ![w].todo = {}, ![w].at = NextOfMove(w, s),
                                ![w].locks = {s}, ![w].value[s] = new,
                                ![w].noted[s] = new - job[w].base]
  /\ UNCHANGED <<tables, requests, disputed>>

-----------------------------------------------------------------------------
(* syncParentStock: the sum over the variants as they are seen, then the    *)
(* product's row. VariantsService's does not look at hasVariants.           *)

SumVariants(w) ==
  /\ Busy(w) /\ job[w].at = "sum"
  /\ IF job[w].op \in Transactions /\ ~hasVariants
     THEN job' = [job EXCEPT ![w].at = "move"]
     ELSE job' = [job EXCEPT ![w].at = "parent",
                             ![w].total = Sum([v \in Live |-> Seen(w, v)], Live)]
  /\ UNCHANGED <<tables, requests, disputed>>

WriteParent(w) ==
  /\ Busy(w) /\ job[w].at = "parent" /\ Free(w, Product)
  /\ IF job[w].op \in Transactions
     THEN /\ job' = [job EXCEPT ![w].at = "move", ![w].locks = @ \cup {Product},
                                ![w].value[Product] = job[w].total]
          /\ UNCHANGED quantity
     ELSE quantity' = [quantity EXCEPT ![Product] = job[w].total] /\ Finish(w)
  /\ UNCHANGED <<variant, hasVariants, moved, order, requests, disputed>>

-----------------------------------------------------------------------------
(* VariantsService and ProductsService.update: no transaction, no movement. *)

CreateVariant(w, v, n) ==
  /\ "create" \in Handlers
  /\ variant[v] = "none"
  /\ variant' = [variant EXCEPT ![v] = "live"]
  /\ quantity' = [quantity EXCEPT ![v] = n]
  /\ moved' = [moved EXCEPT ![v] = n]
  /\ Begin(w, Request("create", "flag", NoLines))
  /\ UNCHANGED <<hasVariants, order, disputed>>

FlagVariants(w) ==
  /\ Busy(w) /\ job[w].at = "flag" /\ Free(w, Product)
  /\ hasVariants' = TRUE
  /\ job' = [job EXCEPT ![w].at = "sum"]
  /\ UNCHANGED <<variant, quantity, moved, order, requests, disputed>>

UpdateVariant(w, v, n) ==
  /\ "update" \in Handlers
  /\ v \in Live /\ Free(w, v)
  /\ quantity' = [quantity EXCEPT ![v] = n]
  /\ disputed' = disputed \cup {v}
  /\ Begin(w, Request("update", "sum", NoLines))
  /\ UNCHANGED <<variant, hasVariants, moved, order>>

\* Mutant: the units are taken off the product's line.
UnlinkedTwice(lines, v) == [lines EXCEPT ![Product] = @ - lines[v], ![v] = 0]

\* The lines of orders that refer to the variant lose it (onDelete: SetNull):
\* their units now count as the product's own.
Unlinked(lines, v) == [lines EXCEPT ![Product] = @ + lines[v], ![v] = 0]

RemoveVariant(w, v) ==
  /\ "remove" \in Handlers
  /\ v \in Live /\ Free(w, v)
  /\ \A x \in Workers : Busy(x) => v \notin job[x].refs
  /\ variant' = [variant EXCEPT ![v] = "deleted"]
  /\ order' = [o \in Orders |-> [order[o] EXCEPT !.lines = Unlinked(@, v)]]
  /\ Begin(w, Request("remove", "count", NoLines))
  /\ UNCHANGED <<hasVariants, quantity, moved, disputed>>

CountVariants(w) ==
  /\ Busy(w) /\ job[w].at = "count"
  /\ job' = [job EXCEPT ![w].at = IF Live = {} THEN "unflag" ELSE "sum"]
  /\ UNCHANGED <<tables, requests, disputed>>

UnflagVariants(w) ==
  /\ Busy(w) /\ job[w].at = "unflag" /\ Free(w, Product)
  /\ hasVariants' = FALSE
  /\ Finish(w)
  /\ UNCHANGED <<variant, quantity, moved, order, requests, disputed>>

\* The product form may set the quantity of a product that has variants.
EditProduct(n) ==
  /\ "edit" \in Handlers /\ requests < MaxRequests
  /\ \A x \in Workers : Busy(x) => Product \notin job[x].locks
  /\ quantity' = [quantity EXCEPT ![Product] = n]
  /\ requests' = requests + 1
  /\ job' = Overlapped
  /\ UNCHANGED <<variant, hasVariants, moved, order, disputed>>

\* A failing statement, a deadlock's victim or a crash: what was committed
\* stays, a transaction's writes do not.
Crash(w) == Busy(w) /\ Finish(w) /\ UNCHANGED <<tables, requests, disputed>>

-----------------------------------------------------------------------------
Baskets == {lines \in [Shelves -> Quantities \cup {0}] : lines # NoLines}

Start(w) ==
  \/ \E lines \in Baskets : PlaceOrder(w, lines)
  \/ \E o \in Orders : ReturnOrder(w, o) \/ ReopenOrder(w, o)
  \/ \E s \in Shelves, n \in 0..MaxStock : Adjust(w, s, n)
  \/ \E s \in Shelves, n \in Quantities : Receive(w, s, n)
  \/ \E v \in Variants, n \in 0..MaxStock : CreateVariant(w, v, n) \/ UpdateVariant(w, v, n)
  \/ \E v \in Variants : RemoveVariant(w, v)

Continue(w) == \/ InsertOrder(w) \/ CheckStock(w) \/ MoveLine(w) \/ SkipLine(w) \/ Commit(w)
               \/ UpdateStock(w) \/ SumVariants(w) \/ WriteParent(w)
               \/ FlagVariants(w) \/ CountVariants(w) \/ UnflagVariants(w)

Next == \/ \E w \in Workers : Start(w) \/ Continue(w) \/ Crash(w)
        \/ \E n \in 0..MaxStock : EditProduct(n)

Spec == Init /\ [][Next]_vars

-----------------------------------------------------------------------------
JobStates == {"insert", "check", "move", "set", "sum", "parent", "flag", "count", "unflag"}
Jobs == [op: HandlerKinds, at: JobStates, lines: [Shelves -> Nat], todo: SUBSET Shelves,
         locks: SUBSET Shelves, value: [Shelves -> Int], noted: [Shelves -> Int],
         refs: SUBSET Shelves, order: SUBSET Orders, amount: Nat, base: Int, total: Int,
         overlap: Nat]

\* Every variable has the shape the rest of the module relies on.
TypeOK == /\ variant \in [Variants -> {"none", "live", "deleted"}]
          /\ hasVariants \in BOOLEAN
          /\ quantity \in [Shelves -> Int]
          /\ moved \in [Variants -> Int]
          /\ order \in [Orders -> [status: {"none", "placed", "cancelled"},
                                   lines: [Shelves -> Nat]]]
          /\ job \in [Workers -> Jobs \cup {Idle}]
          /\ requests \in 0..MaxRequests
          /\ disputed \subseteq Variants

\* The inventory movements account for the stock: whatever sales, returns,
\* reopenings and deliveries overlap, fail half-way or lose a deadlock, the
\* quantity of a variant is its opening quantity plus its movements, unless
\* the staff edited the variant itself or wrote a quantity over a change
\* committed since it had read it (InventoryService.adjust and receive).
LedgerAccounts == \A v \in Live \ disputed : quantity[v] = moved[v]

\* Overselling is bounded by what overlaps: stock is checked before the order's
\* transaction, or inside it without a lock when a late payment reopens the
\* order, so the sale takes a variant below zero by at most the units that the
\* requests which ran meanwhile can take, and not at all when none did.
OversellBound ==
  [][\A w \in Workers, v \in Variants, q \in Quantities :
       /\ Busy(w) /\ job[w].op \in {"order", "reopen"} /\ v \in job[w].locks
       /\ Commit(w) /\ v \notin disputed' /\ \A n \in Quantities : n <= q
       => quantity'[v] >= -(job[w].overlap * q)]_vars

ParentIsSum == quantity[Product] = Sum(quantity, Live)

\* What a completed request leaves behind when nothing overlapped with it.
Repaired(op) ==
  CASE op \in Transactions -> hasVariants => ParentIsSum
    [] op = "create"       -> hasVariants /\ ParentIsSum
    [] op = "update"       -> ParentIsSum
    [] op = "remove"       -> IF Live = {} THEN ~hasVariants ELSE ParentIsSum

\* A request on variants that no other overlapped leaves the product's
\* quantity equal to the sum over its variants, whatever overlaps, crashes and
\* direct edits left before it: syncParentStock recomputes, so the next lone
\* request repairs. (An order that also holds units of the product itself
\* is the exception: it may debit them after the sum was written.)
RequestRepairs ==
  [][\A w \in Workers, op \in HandlerKinds :
       /\ Busy(w) /\ job[w].op = op /\ job[w].overlap = 0 /\ job[w].lines[Product] = 0
       /\ \/ Commit(w) /\ job[w].locks \cap Variants # {}
          \/ ~Busy(w)' /\ (WriteParent(w) \/ UnflagVariants(w))
       => Repaired(op)']_vars
=============================================================================
