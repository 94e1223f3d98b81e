------------------------------ MODULE Checkout ------------------------------
(***************************************************************************)
(* From the cart to the order: CartService and OrdersService.create.       *)
(*                                                                         *)
(* Workers run requests as sequences of database steps at READ COMMITTED.  *)
(* Every handler checks on what it has read (the active cart, the stock,   *)
(* the coupon's usage count) and writes later without checking again, so   *)
(* requests that overlap may all pass the same check.                      *)
(***************************************************************************)
EXTENDS Integers, FiniteSets, Functions

CONSTANTS
  Users, Sessions,   \* customer accounts, guest sessions (X-Session-Id)
  Contexts,          \* who sends requests: [user, session], either may be Nil
  Products,
  Carts, Orders,     \* bounds: ids the cart and order rows may take
  Workers,
  Quantities,        \* bound: quantities a request asks for
  MaxQuantity,       \* bound: largest quantity of a cart line
  InitialStock,      \* InitialStock[p]: units of product p
  UsageLimit,        \* the coupon's usageLimit, 0 when it has none
  Handlers,          \* the requests that are made
  Nil

\* Bound: rows of one product a cart may hold (more than one is a duplicate).
Copies == {1, 2}

NoCart == [user |-> Nil, session |-> Nil, status |-> "none"]
CartStatus == {"none", "ACTIVE", "CONVERTED"}
HandlerKinds == {"add", "update", "remove", "clear", "merge",
                 "orderCart", "orderActive", "orderItems"}

\* Order lines, or the lines of a cart: Wanted[p][k] units in the k-th row of
\* product p, 0 when there is no such row.
Wanted == [Products -> [Copies -> Nat]]
Empty == [p \in Products |-> [k \in Copies |-> 0]]
Units(wanted, p) == wanted[p][1] + wanted[p][2]

ASSUME ConstantsAssumption ==
  /\ Contexts \subseteq [user: Users \cup {Nil}, session: Sessions \cup {Nil}]
  /\ \A x \in Contexts : x.user # Nil \/ x.session # Nil
  /\ Nil \notin Users \cup Sessions \cup Carts \cup Orders
  /\ IsFiniteSet(Workers) /\ IsFiniteSet(Orders) /\ IsFiniteSet(Carts)
  /\ MaxQuantity \in Nat /\ Quantities \subseteq 1..MaxQuantity
  /\ InitialStock \in [Products -> Nat]
  /\ UsageLimit \in Nat
  /\ Handlers \subseteq HandlerKinds

VARIABLES
  cart,        \* cart[c]: the cart row
  line,        \* line[c]: its lines
  stock,       \* sellable quantity of each product
  usageCount,  \* Coupon.usageCount
  order,       \* order[o]: what the order was placed from, and its lines
  job          \* job[w]: the request worker w is serving

tables == <<cart, line, stock, usageCount, order>>
vars == <<tables, job>>

NoOrder == [placed |-> FALSE, cartId |-> Nil, from |-> Nil, user |-> Nil,
            lines |-> Empty, coupon |-> FALSE]
Idle == [op |-> "idle", at |-> "idle"]

Init == /\ cart = [c \in Carts |-> NoCart]
        /\ line = [c \in Carts |-> Empty]
        /\ stock = InitialStock
        /\ usageCount = 0
        /\ order = [o \in Orders |-> NoOrder]
        /\ job = [w \in Workers |-> Idle]

-----------------------------------------------------------------------------
Start(w, j) == /\ job[w] = Idle
               /\ job' = [job EXCEPT ![w] = j]
               /\ UNCHANGED tables
Finish(w) == job' = [job EXCEPT ![w] = Idle]

\* findActive: any ACTIVE cart of the user, of the session for a guest.
ActiveOf(x) == {c \in Carts : /\ cart[c].status = "ACTIVE"
                              /\ IF x.user # Nil THEN cart[c].user = x.user
                                                 ELSE cart[c].session = x.session}
AsUser(u) == [user |-> u, session |-> Nil]

Rows(c, p) == {k \in Copies : line[c][p][k] > 0}
HasLines(wanted) == \E p \in Products, k \in Copies : wanted[p][k] > 0
FreshCart(c) == cart[c].status = "none"

-----------------------------------------------------------------------------
(* addItem: stock check, getOrCreate (read, then create), then the line     *)
(* (read, then create or overwrite).                                        *)

Adding(at, x, c, p, q, row, base) ==
  [op |-> "add", at |-> at, ctx |-> x, cart |-> c, product |-> p,
   quantity |-> q, row |-> row, base |-> base]

\* Mutant: the request creates a cart without looking for an active one.
AddToNewCart(w, x, p, q) ==
  /\ "add" \in Handlers
  /\ q <= stock[p]
  /\ Start(w, Adding("create", x, Nil, p, q, 0, 0))

AddItem(w, x, p, q) ==
  /\ "add" \in Handlers
  /\ q <= stock[p]
  /\ \/ ActiveOf(x) = {} /\ Start(w, Adding("create", x, Nil, p, q, 0, 0))
     \/ \E c \in ActiveOf(x) : Start(w, Adding("read", x, c, p, q, 0, 0))

\* getOrCreate of addItem and of merge, when no active cart was found.
CreateCart(w) ==
  /\ job[w].op \in {"add", "merge"} /\ job[w].at = "create"
  /\ \E c \in Carts :
       /\ FreshCart(c)
       /\ cart' = [cart EXCEPT ![c] = [user |-> job[w].ctx.user,
                                       session |-> job[w].ctx.session,
                                       status |-> "ACTIVE"]]
       /\ job' = [job EXCEPT ![w].at = "read", ![w].cart = c]
  /\ UNCHANGED <<line, stock, usageCount, order>>

\* Mutant: a new row whether the product has one or not.
ReadNoLine(w) ==
  /\ job[w].op = "add" /\ job[w].at = "read"
  /\ job' = [job EXCEPT ![w].at = "write"]
  /\ UNCHANGED tables

\* findFirst of the line, inside the transaction.
ReadLine(w) ==
  /\ job[w].op = "add" /\ job[w].at = "read"
  /\ LET c == job[w].cart
         p == job[w].product
     IN \/ /\ Rows(c, p) = {}
           /\ job' = [job EXCEPT ![w].at = "write"]
        \/ \E k \in Rows(c, p) :
             job' = [job EXCEPT ![w].at = "write", ![w].row = k,
                                ![w].base = line[c][p][k]]
  /\ UNCHANGED tables

\* A row that is gone makes the update throw.
WriteLine(w) ==
  /\ job[w].op = "add" /\ job[w].at = "write"
  /\ LET c == job[w].cart
         p == job[w].product
         k == job[w].row
         q == job[w].base + job[w].quantity
     IN /\ q <= MaxQuantity
        /\ \/ k # 0 /\ line[c][p][k] = 0 /\ UNCHANGED line
           \/ k # 0 /\ line[c][p][k] > 0 /\ line' = [line EXCEPT ![c][p][k] = q]
           \/ /\ k = 0
              /\ \E n \in Copies \ Rows(c, p) : line' = [line EXCEPT ![c][p][n] = q]
  /\ Finish(w)
  /\ UNCHANGED <<cart, stock, usageCount, order>>

-----------------------------------------------------------------------------
(* updateItem, removeItem, clear: the active cart is resolved, then its     *)
(* lines are written by id.                                                 *)

ResolveItem(w, op, x, q) ==
  \E c \in ActiveOf(x), p \in Products : \E k \in Rows(c, p) :
    Start(w, [op |-> op, at |-> "write", cart |-> c, product |-> p, row |-> k,
              quantity |-> q])

UpdateItem(w, x, q) == "update" \in Handlers /\ ResolveItem(w, "update", x, q)
RemoveItem(w, x) == "remove" \in Handlers /\ ResolveItem(w, "remove", x, 0)
Clear(w, x) == /\ "clear" \in Handlers
               /\ \E c \in ActiveOf(x) :
                    Start(w, [op |-> "clear", at |-> "write", cart |-> c])

\* A line that is gone makes the request fail, more units than there are too.
WriteItem(w) ==
  /\ job[w].op \in {"update", "remove"} /\ job[w].at = "write"
  /\ LET c == job[w].cart
         p == job[w].product
         k == job[w].row
         allowed == job[w].op = "remove" \/ job[w].quantity <= stock[p]
     IN IF line[c][p][k] > 0 /\ allowed
        THEN line' = [line EXCEPT ![c][p][k] = job[w].quantity]
        ELSE UNCHANGED line
  /\ Finish(w)
  /\ UNCHANGED <<cart, stock, usageCount, order>>

ClearLines(w) ==
  /\ job[w].op = "clear" /\ job[w].at = "write"
  /\ line' = [line EXCEPT ![job[w].cart] = Empty]
  /\ Finish(w)
  /\ UNCHANGED <<cart, stock, usageCount, order>>

-----------------------------------------------------------------------------
(* merge: the guest cart and its lines, getOrCreate of the user's cart,      *)
(* then one transaction: the lines, and the guest cart CONVERTED.           *)

Merge(w, u, s) ==
  /\ "merge" \in Handlers
  /\ \E g \in ActiveOf([user |-> Nil, session |-> s]) :
       /\ HasLines(line[g])
       /\ LET j(at, c) == [op |-> "merge", at |-> at, ctx |-> AsUser(u), cart |-> c,
                           guest |-> g, wanted |-> line[g],
                           todo |-> {p \in Products : Units(line[g], p) > 0},
                           result |-> Empty, rows |-> {}]
          IN \/ ActiveOf(AsUser(u)) = {} /\ Start(w, j("create", Nil))
             \/ \E c \in ActiveOf(AsUser(u)) : Start(w, j("read", c))

\* Mutant: the guest's quantity replaces the user's.
ReadMergeReplacing(w) ==
  /\ job[w].op = "merge" /\ job[w].at = "read"
  /\ \E p \in job[w].todo, k \in Copies :
       LET c == job[w].cart IN
       /\ Rows(c, p) # {} => k \in Rows(c, p)
       /\ line[c][p][k] + Units(job[w].wanted, p) <= MaxQuantity
       /\ job' = [job EXCEPT
            ![w].todo = @ \ {p},
            ![w].at = IF job[w].todo = {p} THEN "write" ELSE "read",
            ![w].result[p][k] = Units(job[w].wanted, p),
            ![w].rows = @ \cup {[product |-> p, row |-> k, new |-> line[c][p][k] = 0]}]
  /\ UNCHANGED tables

\* findFirst of the line a guest line is added to, and the quantity computed
\* from it; the row is new when there is none. The guest's rows of one product
\* go to one row.
ReadMerge(w) ==
  /\ job[w].op = "merge" /\ job[w].at = "read"
  /\ \E p \in job[w].todo, k \in Copies :
       LET c == job[w].cart IN
       /\ Rows(c, p) # {} => k \in Rows(c, p)
       /\ line[c][p][k] + Units(job[w].wanted, p) <= MaxQuantity
       /\ job' = [job EXCEPT
            ![w].todo = @ \ {p},
            ![w].at = IF job[w].todo = {p} THEN "write" ELSE "read",
            ![w].result[p][k] = line[c][p][k] + Units(job[w].wanted, p),
            ![w].rows = @ \cup {[product |-> p, row |-> k, new |-> line[c][p][k] = 0]}]
  /\ UNCHANGED tables

\* Mutant: the merged cart takes the status of carts nobody came back to.
MergeAbandons(w) ==
  /\ job[w].op = "merge" /\ job[w].at = "write"
  /\ LET c == job[w].cart
         rows == job[w].rows
         target == {<<r.product, r.row>> : r \in rows}
     IN \/ /\ \E r \in rows : ~r.new /\ line[c][r.product][r.row] = 0
           /\ UNCHANGED <<line, cart>>
        \/ /\ \A r \in rows : r.new <=> line[c][r.product][r.row] = 0
           /\ line' = [line EXCEPT ![c] = [p \in Products |-> [k \in Copies |->
                         IF <<p, k>> \in target THEN job[w].result[p][k] ELSE @[p][k]]]]
           /\ cart' = [cart EXCEPT ![job[w].guest].status = "ABANDONED"]
  /\ Finish(w)
  /\ UNCHANGED <<stock, usageCount, order>>

\* A row to overwrite that is gone makes the transaction throw.
MergeCarts(w) ==
  /\ job[w].op = "merge" /\ job[w].at = "write"
  /\ LET c == job[w].cart
         rows == job[w].rows
         target == {<<r.product, r.row>> : r \in rows}
     IN \/ /\ \E r \in rows : ~r.new /\ line[c][r.product][r.row] = 0
           /\ UNCHANGED <<line, cart>>
        \/ /\ \A r \in rows : r.new <=> line[c][r.product][r.row] = 0
           /\ line' = [line EXCEPT ![c] = [p \in Products |-> [k \in Copies |->
                         IF <<p, k>> \in target THEN job[w].result[p][k] ELSE @[p][k]]]]
           /\ cart' = [cart EXCEPT ![job[w].guest].status = "CONVERTED"]
  /\ Finish(w)
  /\ UNCHANGED <<stock, usageCount, order>>

-----------------------------------------------------------------------------
(* OrdersService.create: the lines, the stock and the coupon are read first, *)
(* then the order is placed in one transaction that checks nothing again.   *)

\* Mutant: one use too many.
RedeemableOnceMore == UsageLimit = 0 \/ usageCount <= UsageLimit

Redeemable == UsageLimit = 0 \/ usageCount < UsageLimit

\* Mutant: only the first line of a product is checked.
FirstInStock(wanted) ==
  \A p \in Products : wanted[p][1] > 0 => wanted[p][1] <= stock[p]

\* Each line is checked on its own against the stock.
InStock(wanted) ==
  \A p \in Products, k \in Copies : wanted[p][k] > 0 => wanted[p][k] <= stock[p]

Resolve(w, x, cartId, from, wanted, coupon) ==
  /\ HasLines(wanted)
  /\ InStock(wanted)
  /\ coupon => Redeemable
  /\ Start(w, [op |-> "order", at |-> "place", user |-> x.user, cartId |-> cartId,
               from |-> from, wanted |-> wanted, coupon |-> coupon, converts |-> Nil])

\* cartId given: the cart's owner, or the session of a guest's cart.
MayOrder(x, c) == IF cart[c].user # Nil THEN x.user \in {cart[c].user, Nil}
                  ELSE x.session # Nil /\ cart[c].session = x.session

\* Mutant: the cart named in the request may have been ordered already.
OrderAnyCart(w, x, coupon) ==
  /\ "orderCart" \in Handlers
  /\ \E c \in Carts : /\ ~FreshCart(c)
                      /\ MayOrder(x, c)
                      /\ Resolve(w, x, c, c, line[c], coupon)

OrderCart(w, x, coupon) ==
  /\ "orderCart" \in Handlers
  /\ \E c \in Carts : /\ cart[c].status = "ACTIVE"
                      /\ MayOrder(x, c)
                      /\ Resolve(w, x, c, c, line[c], coupon)

OrderActiveCart(w, x, coupon) ==
  /\ "orderActive" \in Handlers
  /\ \E c \in ActiveOf(x) : Resolve(w, x, Nil, c, line[c], coupon)

\* Items in the request itself; a product may be listed twice.
OrderItems(w, x, coupon) ==
  /\ "orderItems" \in Handlers
  /\ \E wanted \in [Products -> [Copies -> Quantities \cup {0}]] :
       Resolve(w, x, Nil, Nil, wanted, coupon)

\* Rows both transactions update: the second waits for the first's commit.
SharedRow(j, i) ==
  \/ j.coupon /\ i.coupon
  \/ \E p \in Products : Units(j.wanted, p) > 0 /\ Units(i.wanted, p) > 0

\* The transaction's debits and coupon count (it holds these rows from here),
\* then its lookup of the cart to convert: the one named in the request, else
\* any active cart of the user, whatever the items came from.
DebitStock(w) ==
  /\ job[w].op = "order" /\ job[w].at = "place"
  /\ \A v \in Workers :
       job[v].op = "order" => job[v].at = "place" \/ ~SharedRow(job[v], job[w])
  /\ LET found == IF job[w].cartId # Nil THEN {job[w].cartId}
                  ELSE IF job[w].user # Nil THEN ActiveOf(AsUser(job[w].user)) ELSE {}
     IN \/ found = {} /\ job' = [job EXCEPT ![w].at = "commit"]
        \/ \E c \in found : job' = [job EXCEPT ![w].at = "commit", ![w].converts = c]
  /\ UNCHANGED tables

PlaceOrder(w) ==
  /\ job[w].op = "order" /\ job[w].at = "commit"
  /\ LET j == job[w] IN
     /\ \E o \in Orders :
          /\ ~order[o].placed
          /\ order' = [order EXCEPT ![o] =
                         [placed |-> TRUE, cartId |-> j.cartId, from |-> j.from,
                          user |-> j.user, lines |-> j.wanted, coupon |-> j.coupon]]
     /\ stock' = [p \in Products |-> stock[p] - Units(j.wanted, p)]
     /\ usageCount' = IF j.coupon THEN usageCount + 1 ELSE usageCount
     /\ cart' = [c \in Carts |-> IF c = j.converts
                                 THEN [cart[c] EXCEPT !.status = "CONVERTED"] ELSE cart[c]]
  /\ Finish(w)
  /\ UNCHANGED line

\* The request dies or its transaction is rolled back.
Die(w) == /\ job[w] # Idle
          /\ Finish(w)
          /\ UNCHANGED tables

-----------------------------------------------------------------------------
Begin(w) ==
  \E x \in Contexts :
    \/ \E p \in Products, q \in Quantities : AddItem(w, x, p, q)
    \/ \E q \in Quantities : UpdateItem(w, x, q)
    \/ RemoveItem(w, x) \/ Clear(w, x)
    \/ \E s \in Sessions : x.user # Nil /\ Merge(w, x.user, s)
    \/ \E coupon \in BOOLEAN :
         OrderCart(w, x, coupon) \/ OrderActiveCart(w, x, coupon) \/ OrderItems(w, x, coupon)

Continue(w) == \/ CreateCart(w) \/ ReadLine(w) \/ WriteLine(w)
               \/ WriteItem(w) \/ ClearLines(w)
               \/ ReadMerge(w) \/ MergeCarts(w)
               \/ DebitStock(w) \/ PlaceOrder(w)

Next == \E w \in Workers : Begin(w) \/ Continue(w) \/ Die(w)

Spec == Init /\ [][Next]_vars

-----------------------------------------------------------------------------
CartRow == [user: Users \cup {Nil}, session: Sessions \cup {Nil}, status: CartStatus]
OrderRow == [placed: BOOLEAN, cartId: Carts \cup {Nil}, from: Carts \cup {Nil},
             user: Users \cup {Nil}, lines: Wanted, coupon: BOOLEAN]
\* A request has its cart once past getOrCreate.
HasCart(j) == j.at = "create" \/ j.cart \in Carts
AddJob == {j \in [op: {"add"}, at: {"create", "read", "write"}, ctx: Contexts,
                  cart: Carts \cup {Nil}, product: Products, quantity: Quantities,
                  row: Copies \cup {0}, base: Nat] : HasCart(j)}
ItemJob == [op: {"update", "remove"}, at: {"write"}, cart: Carts, product: Products,
            row: Copies, quantity: Quantities \cup {0}]
ClearJob == [op: {"clear"}, at: {"write"}, cart: Carts]
MergeJob == {j \in [op: {"merge"}, at: {"create", "read", "write"},
                    ctx: [user: Users, session: {Nil}], cart: Carts \cup {Nil},
                    guest: Carts, wanted: Wanted, todo: SUBSET Products,
                    result: Wanted,
                    rows: SUBSET [product: Products, row: Copies, new: BOOLEAN]] :
               HasCart(j)}
OrderJob == [op: {"order"}, at: {"place", "commit"}, user: Users \cup {Nil},
             cartId: Carts \cup {Nil}, from: Carts \cup {Nil}, wanted: Wanted,
             coupon: BOOLEAN, converts: Carts \cup {Nil}]
Job == {Idle} \cup AddJob \cup ItemJob \cup ClearJob \cup MergeJob \cup OrderJob

\* Every row and every request in progress has the type its code expects.
TypeOK == /\ cart \in [Carts -> CartRow]
          /\ line \in [Carts -> Wanted]
          /\ stock \in [Products -> Int]
          /\ usageCount \in Nat
          /\ order \in [Orders -> OrderRow]
          /\ job \in [Workers -> Job]

(* What overlapping requests may do, and no more.                           *)

\* The coupon's limit is checked before the transaction that counts its use:
\* requests in flight may exceed it, by fewer uses than there are requests.
CouponBound ==
  UsageLimit # 0 => usageCount <= UsageLimit + Cardinality(Workers) - 1

\* A cart named in requests is ordered at most once per request in flight: a
\* cart once CONVERTED is refused.
OrdersOf(c) == {o \in Orders : order[o].placed /\ order[o].cartId = c}
CartOrdersBound == \A c \in Carts : Cardinality(OrdersOf(c)) <= Cardinality(Workers)

\* getOrCreate's read then create gives a user at most one active cart per
\* request in flight.
ActiveCartsBound ==
  \A u \in Users : Cardinality(ActiveOf(AsUser(u))) <= Cardinality(Workers)

(* What holds for requests served one after the other.                      *)

\* A product is on at most one row of a cart.
LinesUnique == \A c \in Carts, p \in Products : Cardinality(Rows(c, p)) <= 1

\* Orders whose products are listed once never take more than there is.
StockNotOversold ==
  \A p \in Products :
    stock[p] >= 0 \/ \E o \in Orders : order[o].lines[p][1] > 0 /\ order[o].lines[p][2] > 0

\* Units of p in the active carts: what customers see in their cart.
InCarts(p) == SumFunctionOnSet([c \in Carts |-> Units(line[c], p)],
                               {c \in Carts : cart[c].status = "ACTIVE"})
Converted == {c \in Carts : cart[c].status = "CONVERTED"}

\* A merge moves the guest's units to the user's cart: none is lost and none
\* appears when a cart is CONVERTED without an order.
MergeKeepsUnits ==
  [][Converted' # Converted /\ order' = order =>
       \A p \in Products : InCarts(p)' = InCarts(p)]_vars
=============================================================================
