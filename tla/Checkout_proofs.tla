-------------------------- MODULE Checkout_proofs --------------------------
(***************************************************************************)
(* Theorems of Checkout for every set of customers, products, carts,       *)
(* orders and requests in flight.                                          *)
(***************************************************************************)
EXTENDS Checkout, Sums, TLAPS

LEMMA WiderRange ==
  ASSUME NEW S, NEW A, NEW B, A \subseteq B
  PROVE  [S -> A] \subseteq [S -> B]
OBVIOUS

USE ConstantsAssumption DEF ConstantsAssumption, Copies

-----------------------------------------------------------------------------
(* Types.                                                                   *)

LEMMA InitType == Init => TypeOK
<1> SUFFICES ASSUME Init PROVE TypeOK
  OBVIOUS
<1>1. NoCart \in CartRow
  BY DEF NoCart, CartRow, CartStatus
<1>2. Empty \in Wanted
  BY DEF Empty, Wanted
<1>3. NoOrder \in OrderRow
  BY <1>2 DEF NoOrder, OrderRow
<1>4. Idle \in Job
  BY DEF Job
<1>5. QED
  BY <1>1, <1>2, <1>3, <1>4 DEF Init, TypeOK

\* The kind of a request follows from its operation.
LEMMA JobKinds ==
  ASSUME TypeOK, NEW w \in Workers
  PROVE  /\ job[w] \in Job
         /\ job[w].op = "add" => job[w] \in AddJob
         /\ job[w].op \in {"update", "remove"} => job[w] \in ItemJob
         /\ job[w].op = "clear" => job[w] \in ClearJob
         /\ job[w].op = "merge" => job[w] \in MergeJob
         /\ job[w].op = "order" => job[w] \in OrderJob
<1>1. job[w] \in Job
  BY DEF TypeOK
<1>2. /\ Idle.op = "idle"
      /\ \A j \in AddJob : j.op = "add"
      /\ \A j \in ItemJob : j.op \in {"update", "remove"}
      /\ \A j \in ClearJob : j.op = "clear"
      /\ \A j \in MergeJob : j.op = "merge"
      /\ \A j \in OrderJob : j.op = "order"
  BY DEF Idle, AddJob, ItemJob, ClearJob, MergeJob, OrderJob
<1>3. QED
  BY <1>1, <1>2 DEF Job

LEMMA StartType ==
  ASSUME TypeOK, NEW w \in Workers, NEW j \in Job, Start(w, j)
  PROVE  TypeOK'
BY DEF TypeOK, Start, tables

LEMMA FinishType ==
  ASSUME TypeOK, NEW w \in Workers, Finish(w)
  PROVE  job' \in [Workers -> Job]
BY DEF TypeOK, Finish, Job

LEMMA GotoType ==
  ASSUME TypeOK, NEW w \in Workers, NEW j \in Job, job' = [job EXCEPT ![w] = j]
  PROVE  job' \in [Workers -> Job]
BY DEF TypeOK

LEMMA QuantitiesType == Quantities \subseteq Nat
OBVIOUS

LEMMA AddItemType ==
  ASSUME TypeOK, NEW w \in Workers, NEW x \in Contexts, NEW p \in Products,
         NEW q \in Quantities, AddItem(w, x, p, q)
  PROVE  TypeOK'
<1>1. Adding("create", x, Nil, p, q, 0, 0) \in Job
  BY DEF Adding, Job, AddJob, HasCart
<1>2. \A c \in Carts : Adding("read", x, c, p, q, 0, 0) \in Job
  BY DEF Adding, Job, AddJob, HasCart
<1>3. QED
  BY <1>1, <1>2, StartType DEF AddItem, ActiveOf

LEMMA ItemRequestType ==
  ASSUME TypeOK, NEW w \in Workers, NEW x \in Contexts,
         \/ \E q \in Quantities : UpdateItem(w, x, q)
         \/ RemoveItem(w, x) \/ Clear(w, x)
  PROVE  TypeOK'
<1>1. ASSUME NEW op \in {"update", "remove"}, NEW q \in Quantities \cup {0},
             ResolveItem(w, op, x, q)
      PROVE  TypeOK'
  <2>1. \A c \in Carts, p \in Products, k \in Copies :
          [op |-> op, at |-> "write", cart |-> c, product |-> p, row |-> k,
           quantity |-> q] \in Job
    BY DEF Job, ItemJob
  <2>2. QED
    BY <1>1, <2>1, StartType DEF ResolveItem, ActiveOf, Rows
<1>2. ASSUME Clear(w, x)
      PROVE  TypeOK'
  <2>1. \A c \in Carts : [op |-> "clear", at |-> "write", cart |-> c] \in Job
    BY DEF Job, ClearJob
  <2>2. QED
    BY <1>2, <2>1, StartType DEF Clear, ActiveOf
<1>3. QED
  BY <1>1, <1>2 DEF UpdateItem, RemoveItem

LEMMA MergeType ==
  ASSUME TypeOK, NEW w \in Workers, NEW u \in Users, NEW s \in Sessions,
         Merge(w, u, s)
  PROVE  TypeOK'
<1> DEFINE j(g, at, c) ==
      [op |-> "merge", at |-> at, ctx |-> AsUser(u), cart |-> c,
       guest |-> g, wanted |-> line[g],
       todo |-> {p \in Products : Units(line[g], p) > 0},
       result |-> Empty, rows |-> {}]
<1>1. \A g \in Carts : line[g] \in Wanted
  BY DEF TypeOK
<1>2. Empty \in Wanted
  BY DEF Empty, Wanted
<1>3. AsUser(u) \in [user: Users, session: {Nil}]
  BY DEF AsUser
<1>4. \A g \in Carts : j(g, "create", Nil) \in Job
  BY <1>1, <1>2, <1>3 DEF Job, MergeJob, HasCart
<1>5. \A g \in Carts, c \in Carts : j(g, "read", c) \in Job
  BY <1>1, <1>2, <1>3 DEF Job, MergeJob, HasCart
<1>6. PICK g \in Carts : \/ Start(w, j(g, "create", Nil))
                         \/ \E c \in Carts : Start(w, j(g, "read", c))
  BY DEF Merge, ActiveOf
<1> HIDE DEF j
<1>7. QED
  BY <1>4, <1>5, <1>6, StartType

LEMMA ResolveType ==
  ASSUME TypeOK, NEW w \in Workers, NEW x \in Contexts,
         NEW cartId \in Carts \cup {Nil}, NEW from \in Carts \cup {Nil},
         NEW wanted \in Wanted, NEW coupon \in BOOLEAN,
         Resolve(w, x, cartId, from, wanted, coupon)
  PROVE  TypeOK'
<1>1. [op |-> "order", at |-> "place", user |-> x.user, cartId |-> cartId,
       from |-> from, wanted |-> wanted, coupon |-> coupon, converts |-> Nil] \in Job
  BY DEF Job, OrderJob
<1>2. QED
  BY <1>1, StartType DEF Resolve

LEMMA OrderRequestType ==
  ASSUME TypeOK, NEW w \in Workers, NEW x \in Contexts, NEW coupon \in BOOLEAN,
         OrderCart(w, x, coupon) \/ OrderActiveCart(w, x, coupon)
           \/ OrderItems(w, x, coupon)
  PROVE  TypeOK'
<1>1. \A c \in Carts : line[c] \in Wanted
  BY DEF TypeOK
<1>2. [Products -> [Copies -> Quantities \cup {0}]] \subseteq Wanted
  <2>1. Quantities \cup {0} \subseteq Nat
    BY QuantitiesType
  <2>2. [Copies -> Quantities \cup {0}] \subseteq [Copies -> Nat]
    BY <2>1, WiderRange, Zenon
  <2>3. QED
    BY <2>2, WiderRange, Zenon DEF Wanted
<1>3. CASE OrderCart(w, x, coupon)
  BY <1>1, <1>3, ResolveType DEF OrderCart
<1>4. CASE OrderActiveCart(w, x, coupon)
  BY <1>1, <1>4, ResolveType DEF OrderActiveCart, ActiveOf
<1>5. CASE OrderItems(w, x, coupon)
  <2>1. PICK wanted \in [Products -> [Copies -> Quantities \cup {0}]] :
          Resolve(w, x, Nil, Nil, wanted, coupon)
    BY <1>5 DEF OrderItems
  <2>2. wanted \in Wanted
    BY <1>2
  <2>3. QED
    BY <2>1, <2>2, ResolveType
<1>6. QED
  BY <1>3, <1>4, <1>5

\* Lines of a cart after one of its rows is written.
LEMMA LineType ==
  ASSUME TypeOK, NEW c \in Carts, NEW p \in Products, NEW k \in Copies, NEW q \in Nat
  PROVE  /\ line[c][p][k] \in Nat
         /\ [line EXCEPT ![c][p][k] = q] \in [Carts -> Wanted]
BY DEF TypeOK, Wanted

LEMMA CreateCartType ==
  ASSUME TypeOK, NEW w \in Workers, CreateCart(w)
  PROVE  TypeOK'
<1>1. PICK c \in Carts :
        /\ cart' = [cart EXCEPT ![c] = [user |-> job[w].ctx.user,
                                        session |-> job[w].ctx.session,
                                        status |-> "ACTIVE"]]
        /\ job' = [job EXCEPT ![w].at = "read", ![w].cart = c]
  BY DEF CreateCart
<1>2. /\ job[w] \in AddJob \/ job[w] \in MergeJob
      /\ job[w] \in Job
  BY JobKinds DEF CreateCart
<1>3. [job[w] EXCEPT !.at = "read", !.cart = c] \in Job
  BY <1>2 DEF Job, AddJob, MergeJob, HasCart
<1>4. job[w].ctx \in [user: Users \cup {Nil}, session: Sessions \cup {Nil}]
  BY <1>2 DEF AddJob, MergeJob
<1>5. cart' \in [Carts -> CartRow]
  BY <1>1, <1>4 DEF TypeOK, CartRow, CartStatus
<1>6. QED
  BY <1>1, <1>3, <1>5 DEF TypeOK, CreateCart

LEMMA AddLineType ==
  ASSUME TypeOK, NEW w \in Workers, ReadLine(w) \/ WriteLine(w)
  PROVE  TypeOK'
<1>1. job[w] \in AddJob /\ job[w].cart \in Carts /\ job[w].product \in Products
  BY JobKinds DEF ReadLine, WriteLine, AddJob, HasCart
<1>2. CASE ReadLine(w)
  <2>1. [job[w] EXCEPT !.at = "write"] \in Job
    BY <1>1 DEF Job, AddJob, HasCart
  <2>2. ASSUME NEW k \in Copies
        PROVE  [job[w] EXCEPT !.at = "write", !.row = k,
                              !.base = line[job[w].cart][job[w].product][k]] \in Job
    <3>1. line[job[w].cart][job[w].product][k] \in Nat
      BY <1>1, LineType
    <3>2. QED
      BY <1>1, <3>1 DEF Job, AddJob, HasCart
  <2>3. \/ job' = [job EXCEPT ![w] = [job[w] EXCEPT !.at = "write"]]
        \/ \E k \in Copies :
             job' = [job EXCEPT ![w] =
                       [job[w] EXCEPT !.at = "write", !.row = k,
                                      !.base = line[job[w].cart][job[w].product][k]]]
    BY <1>2 DEF ReadLine, Rows
  <2>4. job' \in [Workers -> Job]
    BY <2>1, <2>2, <2>3, GotoType
  <2>5. QED
    BY <1>2, <2>4 DEF ReadLine, TypeOK, tables
<1>3. CASE WriteLine(w)
  <2>1. job[w].base + job[w].quantity \in Nat /\ job[w].row \in Copies \cup {0}
    <3>1. job[w].base \in Nat /\ job[w].quantity \in Quantities
          /\ job[w].row \in Copies \cup {0}
      BY <1>1 DEF AddJob
    <3>2. job[w].quantity \in Nat
      BY <3>1, QuantitiesType
    <3> HIDE DEF ConstantsAssumption
    <3>3. QED
      BY <3>1, <3>2
  <2>2. \/ line' = line
        \/ \E k \in Copies :
             line' = [line EXCEPT ![job[w].cart][job[w].product][k] =
                                     job[w].base + job[w].quantity]
    BY <1>3, <2>1 DEF WriteLine, Rows
  <2>3. line' \in [Carts -> Wanted]
    <3>1. CASE line' = line
      BY <3>1 DEF TypeOK
    <3>2. ASSUME NEW k \in Copies,
                 line' = [line EXCEPT ![job[w].cart][job[w].product][k] =
                                        job[w].base + job[w].quantity]
          PROVE  line' \in [Carts -> Wanted]
      BY <1>1, <2>1, <3>2, LineType
    <3>3. QED
      BY <2>2, <3>1, <3>2
  <2>4. QED
    BY <1>3, <2>3, FinishType DEF WriteLine, TypeOK
<1>4. QED
  BY <1>2, <1>3

LEMMA WriteItemType ==
  ASSUME TypeOK, NEW w \in Workers, WriteItem(w) \/ ClearLines(w)
  PROVE  TypeOK'
<1>1. CASE WriteItem(w)
  <2>1. /\ job[w].cart \in Carts /\ job[w].product \in Products
        /\ job[w].row \in Copies /\ job[w].quantity \in Nat
    BY <1>1, JobKinds, QuantitiesType DEF WriteItem, ItemJob
  <2>2. \/ line' = line
        \/ line' = [line EXCEPT ![job[w].cart][job[w].product][job[w].row] =
                                  job[w].quantity]
    BY <1>1 DEF WriteItem
  <2>3. line' \in [Carts -> Wanted]
    <3>1. CASE line' = line
      BY <3>1 DEF TypeOK
    <3>2. CASE line' = [line EXCEPT ![job[w].cart][job[w].product][job[w].row] =
                                       job[w].quantity]
      BY <2>1, <3>2, LineType
    <3>3. QED
      BY <2>2, <3>1, <3>2
  <2>4. QED
    BY <1>1, <2>3, FinishType DEF WriteItem, TypeOK
<1>2. CASE ClearLines(w)
  <2>1. Empty \in Wanted
    BY DEF Empty, Wanted
  <2>2. line' \in [Carts -> Wanted]
    BY <1>2, <2>1 DEF ClearLines, TypeOK
  <2>3. QED
    BY <1>2, <2>2, FinishType DEF ClearLines, TypeOK
<1>3. QED
  BY <1>1, <1>2

LEMMA MergeStepType ==
  ASSUME TypeOK, NEW w \in Workers, ReadMerge(w) \/ MergeCarts(w)
  PROVE  TypeOK'
<1>1. /\ job[w] \in MergeJob /\ job[w].cart \in Carts
      /\ job[w].result \in Wanted /\ job[w].wanted \in Wanted
  BY JobKinds DEF ReadMerge, MergeCarts, MergeJob, HasCart
<1>2. CASE ReadMerge(w)
  <2>1. PICK p \in job[w].todo, k \in Copies :
          job' = [job EXCEPT
            ![w].todo = @ \ {p},
            ![w].at = IF job[w].todo = {p} THEN "write" ELSE "read",
            ![w].result[p][k] =
               line[job[w].cart][p][k] + Units(job[w].wanted, p),
            ![w].rows = @ \cup {[product |-> p, row |-> k,
                                 new |-> line[job[w].cart][p][k] = 0]}]
    BY <1>2 DEF ReadMerge
  <2>2. p \in Products
    BY <1>1 DEF MergeJob
  <2>3. line[job[w].cart][p][k] + Units(job[w].wanted, p) \in Nat
    BY <1>1, <2>2, LineType DEF Units, Wanted, Copies
  <2> DEFINE q == line[job[w].cart][p][k] + Units(job[w].wanted, p)
             result == [job[w].result EXCEPT ![p][k] = q]
             rows == job[w].rows \cup
                       {[product |-> p, row |-> k,
                         new |-> line[job[w].cart][p][k] = 0]}
             at == IF job[w].todo = {p} THEN "write" ELSE "read"
             todo == job[w].todo \ {p}
  <2>4. /\ result \in Wanted /\ at \in {"read", "write"} /\ todo \in SUBSET Products
        /\ rows \in SUBSET [product: Products, row: Copies, new: BOOLEAN]
    <3>1. result \in Wanted
      BY <1>1, <2>2, <2>3 DEF Wanted
    <3>2. at \in {"read", "write"}
      OBVIOUS
    <3>3. job[w].todo \in SUBSET Products
          /\ job[w].rows \in SUBSET [product: Products, row: Copies, new: BOOLEAN]
      BY <1>1 DEF MergeJob
    <3>4. [product |-> p, row |-> k, new |-> line[job[w].cart][p][k] = 0]
            \in [product: Products, row: Copies, new: BOOLEAN]
      BY <2>2
    <3>5. rows \in SUBSET [product: Products, row: Copies, new: BOOLEAN]
      BY <3>3, <3>4
    <3>6. todo \in SUBSET Products
      BY <3>3
    <3>7. QED
      BY <3>1, <3>2, <3>5, <3>6
  <2>5. job'= [job EXCEPT ![w] = [@ EXCEPT !.todo = todo, !.at = at,
                                            !.result = result, !.rows = rows]]
    BY <2>1, <1>1 DEF MergeJob
  <2> HIDE DEF result, at, todo, rows
  <2>6. [job[w] EXCEPT !.todo = todo, !.at = at, !.result = result, !.rows = rows]
          \in MergeJob
    BY <1>1, <2>4 DEF MergeJob, HasCart
  <2>7. job' \in [Workers -> Job]
    BY <2>5, <2>6 DEF TypeOK, Job
  <2>8. QED
    BY <1>2, <2>7 DEF ReadMerge, TypeOK, tables
<1>3. CASE MergeCarts(w)
  <2>1. ASSUME NEW target
        PROVE  [p \in Products |-> [k \in Copies |->
                  IF <<p, k>> \in target THEN job[w].result[p][k]
                                        ELSE line[job[w].cart][p][k]]]
                 \in Wanted
    BY <1>1 DEF Wanted, TypeOK
  <2>2. line' \in [Carts -> Wanted]
    <3> DEFINE target == {<<r.product, r.row>> : r \in job[w].rows}
               merged == [p \in Products |-> [k \in Copies |->
                            IF <<p, k>> \in target THEN job[w].result[p][k]
                                                  ELSE line[job[w].cart][p][k]]]
    <3>0. merged \in Wanted
      BY <2>1
    <3>1. line' = line \/ line' = [line EXCEPT ![job[w].cart] = merged]
      BY <1>1, <1>3 DEF MergeCarts, TypeOK
    <3> HIDE DEF merged
    <3>2. QED
      BY <1>1, <3>0, <3>1 DEF TypeOK
  <2>3. job[w].guest \in Carts
    BY <1>1 DEF MergeJob
  <2>4. cart' \in [Carts -> CartRow]
    <3>1. \/ cart' = cart
          \/ cart' = [cart EXCEPT ![job[w].guest].status = "CONVERTED"]
      BY <1>3 DEF MergeCarts
    <3>2. QED
      BY <2>3, <3>1 DEF TypeOK, CartRow, CartStatus
  <2>5. QED
    BY <1>3, <2>2, <2>4, FinishType DEF MergeCarts, TypeOK
<1>4. QED
  BY <1>2, <1>3

LEMMA OrderStepType ==
  ASSUME TypeOK, NEW w \in Workers, DebitStock(w) \/ PlaceOrder(w)
  PROVE  TypeOK'
<1>1. job[w] \in OrderJob
  BY JobKinds DEF DebitStock, PlaceOrder
<1>2. CASE DebitStock(w)
  <2>1. \A c \in Carts : [job[w] EXCEPT !.at = "commit", !.converts = c] \in Job
    BY <1>1 DEF Job, OrderJob
  <2>2. [job[w] EXCEPT !.at = "commit"] \in Job
    BY <1>1 DEF Job, OrderJob
  <2>3. \/ job' = [job EXCEPT ![w] = [job[w] EXCEPT !.at = "commit"]]
        \/ \E c \in Carts :
             job' = [job EXCEPT ![w] = [job[w] EXCEPT !.at = "commit", !.converts = c]]
    BY <1>1, <1>2 DEF DebitStock, ActiveOf, OrderJob
  <2>4. job' \in [Workers -> Job]
    BY <2>1, <2>2, <2>3, GotoType
  <2>5. QED
    BY <1>2, <2>4 DEF DebitStock, TypeOK, tables
<1>3. CASE PlaceOrder(w)
  <2>1. order' \in [Orders -> OrderRow]
    BY <1>1, <1>3 DEF PlaceOrder, TypeOK, OrderJob, OrderRow
  <2>2. \A p \in Products : Units(job[w].wanted, p) \in Nat
    BY <1>1 DEF OrderJob, Units, Wanted, Copies
  <2>3. stock' \in [Products -> Int]
    BY <1>3, <2>2 DEF PlaceOrder, TypeOK
  <2>4. usageCount' \in Nat
    BY <1>3 DEF PlaceOrder, TypeOK
  <2>5. cart' \in [Carts -> CartRow]
    BY <1>3 DEF PlaceOrder, TypeOK, CartRow, CartStatus
  <2>6. QED
    BY <1>3, <2>1, <2>3, <2>4, <2>5, FinishType DEF PlaceOrder, TypeOK
<1>4. QED
  BY <1>2, <1>3

LEMMA NextType ==
  ASSUME TypeOK, [Next]_vars
  PROVE  TypeOK'
<1>1. ASSUME NEW w \in Workers, NEW x \in Contexts, NEW s \in Sessions,
             x.user # Nil, Merge(w, x.user, s)
      PROVE  TypeOK'
  <2>1. x.user \in Users
    BY <1>1
  <2>2. QED
    BY <1>1, <2>1, MergeType
<1>2. ASSUME NEW w \in Workers, Begin(w)
      PROVE  TypeOK'
  BY <1>1, <1>2, AddItemType, ItemRequestType, OrderRequestType DEF Begin
<1>3. ASSUME NEW w \in Workers, Continue(w)
      PROVE  TypeOK'
  BY <1>3, CreateCartType, AddLineType, WriteItemType, MergeStepType, OrderStepType
     DEF Continue
<1>4. ASSUME NEW w \in Workers, Die(w)
      PROVE  TypeOK'
  BY <1>4, FinishType DEF Die, TypeOK, tables
<1>5. CASE UNCHANGED vars
  BY <1>5 DEF vars, tables, TypeOK
<1>6. QED
  BY <1>2, <1>3, <1>4, <1>5 DEF Next

\* Every row and every request in progress keeps the type its code expects,
\* whatever requests overlap or die (cart.service.ts, orders.service.ts).
THEOREM TypeCorrect == Spec => []TypeOK
BY InitType, NextType, PTL DEF Spec

-----------------------------------------------------------------------------
(* What a step does to the requests in flight.                              *)

LEMMA IdleOp == Idle.op = "idle"
BY DEF Idle

\* A request for something else than an order.
LEMMA OtherRequest ==
  ASSUME TypeOK, NEW w \in Workers, NEW x \in Contexts,
         \/ \E p \in Products, q \in Quantities : AddItem(w, x, p, q)
         \/ \E q \in Quantities : UpdateItem(w, x, q)
         \/ RemoveItem(w, x) \/ Clear(w, x)
         \/ \E s \in Sessions : x.user # Nil /\ Merge(w, x.user, s)
  PROVE  \E j : j.op # "order" /\ Start(w, j)
BY DEF AddItem, Adding, UpdateItem, RemoveItem, ResolveItem, Clear, Merge

\* A request for an order: the coupon is redeemable, the named cart is active.
LEMMA OrderRequest ==
  ASSUME TypeOK, NEW w \in Workers, NEW x \in Contexts, NEW coupon \in BOOLEAN,
         OrderCart(w, x, coupon) \/ OrderActiveCart(w, x, coupon)
           \/ OrderItems(w, x, coupon)
  PROVE  \E j : /\ j.op = "order" /\ j.at = "place" /\ Start(w, j)
                /\ j.coupon => Redeemable
                /\ j.cartId \in Carts => cart[j.cartId].status = "ACTIVE"
<1>1. ASSUME NEW cartId, NEW from, NEW wanted,
             Resolve(w, x, cartId, from, wanted, coupon),
             cartId \in Carts => cart[cartId].status = "ACTIVE"
      PROVE  \E j : /\ j.op = "order" /\ j.at = "place" /\ Start(w, j)
                    /\ j.coupon => Redeemable
                    /\ j.cartId \in Carts => cart[j.cartId].status = "ACTIVE"
  <2> DEFINE j == [op |-> "order", at |-> "place", user |-> x.user,
                   cartId |-> cartId, from |-> from, wanted |-> wanted,
                   coupon |-> coupon, converts |-> Nil]
  <2>1. /\ j.op = "order" /\ j.at = "place"
        /\ j.coupon = coupon /\ j.cartId = cartId
    OBVIOUS
  <2>2. Start(w, j) /\ (coupon => Redeemable)
    BY <1>1 DEF Resolve
  <2> HIDE DEF j
  <2>3. QED
    BY <1>1, <2>1, <2>2
<1>2. CASE OrderCart(w, x, coupon)
  BY <1>1, <1>2 DEF OrderCart
<1>3. CASE OrderActiveCart(w, x, coupon)
  BY <1>1, <1>3 DEF OrderActiveCart
<1>4. CASE OrderItems(w, x, coupon)
  BY <1>1, <1>4 DEF OrderItems
<1>5. QED
  BY <1>2, <1>3, <1>4

CartStep(w) == \/ CreateCart(w) \/ ReadLine(w) \/ WriteLine(w)
               \/ WriteItem(w) \/ ClearLines(w) \/ ReadMerge(w) \/ MergeCarts(w)

\* A step on carts leaves orders and coupons alone, and no cart comes back
\* from CONVERTED.
LEMMA CartStepEffect ==
  ASSUME TypeOK, NEW w \in Workers, CartStep(w)
  PROVE  /\ \E j : j.op # "order" /\ job' = [job EXCEPT ![w] = j]
         /\ job[w].op # "order"
         /\ UNCHANGED <<stock, usageCount, order>>
         /\ \A c \in Carts : cart[c].status = "CONVERTED"
                               => cart'[c].status = "CONVERTED"
<1>1. /\ job[w].op # "order"
      /\ UNCHANGED <<stock, usageCount, order>>
  BY DEF CartStep, CreateCart, ReadLine, WriteLine, WriteItem, ClearLines,
         ReadMerge, MergeCarts, tables
<1>2. job' = [job EXCEPT ![w] = job'[w]] /\ job'[w].op # "order"
  <2>1. CASE CreateCart(w)
    <3>1. PICK c \in Carts : job' = [job EXCEPT ![w].at = "read", ![w].cart = c]
      BY <2>1 DEF CreateCart
    <3>2. job[w] \in AddJob \/ job[w] \in MergeJob
      BY <2>1, JobKinds DEF CreateCart
    <3>3. QED
      BY <1>1, <3>1, <3>2 DEF TypeOK, AddJob, MergeJob
  <2>2. CASE ReadLine(w)
    <3>1. job[w] \in AddJob
      BY <2>2, JobKinds DEF ReadLine
    <3>2. \/ job' = [job EXCEPT ![w].at = "write"]
          \/ \E k \in Copies :
               job' = [job EXCEPT ![w].at = "write", ![w].row = k,
                         ![w].base = line[job[w].cart][job[w].product][k]]
      BY <2>2 DEF ReadLine, Rows
    <3>3. QED
      BY <1>1, <3>1, <3>2 DEF TypeOK, AddJob
  <2>3. CASE ReadMerge(w)
    <3>1. job[w] \in MergeJob
      BY <2>3, JobKinds DEF ReadMerge
    <3>2. \E todo, at, result, rows :
            job' = [job EXCEPT ![w] = [@ EXCEPT !.todo = todo, !.at = at,
                                                !.result = result, !.rows = rows]]
      <4>1. PICK p \in job[w].todo, k \in Copies :
              job' = [job EXCEPT
                ![w].todo = @ \ {p},
                ![w].at = IF job[w].todo = {p} THEN "write" ELSE "read",
                ![w].result[p][k] =
                   line[job[w].cart][p][k] + Units(job[w].wanted, p),
                ![w].rows = @ \cup {[product |-> p, row |-> k,
                                     new |-> line[job[w].cart][p][k] = 0]}]
        BY <2>3 DEF ReadMerge
      <4>2. job' = [job EXCEPT ![w] =
              [@ EXCEPT
                !.todo = job[w].todo \ {p},
                !.at = IF job[w].todo = {p} THEN "write" ELSE "read",
                !.result = [job[w].result EXCEPT ![p][k] =
                              line[job[w].cart][p][k] + Units(job[w].wanted, p)],
                !.rows = job[w].rows \cup {[product |-> p, row |-> k,
                              new |-> line[job[w].cart][p][k] = 0]}]]
        BY <3>1, <4>1 DEF MergeJob
      <4>3. QED
        BY <4>2
    <3>3. QED
      BY <1>1, <3>1, <3>2 DEF TypeOK, MergeJob
  <2>4. CASE WriteLine(w) \/ WriteItem(w) \/ ClearLines(w) \/ MergeCarts(w)
    BY <2>4, IdleOp DEF WriteLine, WriteItem, ClearLines, MergeCarts, Finish, TypeOK
  <2>5. QED
    BY <2>1, <2>2, <2>3, <2>4 DEF CartStep
<1>3. ASSUME NEW c \in Carts, cart[c].status = "CONVERTED"
      PROVE  cart'[c].status = "CONVERTED"
  <2>1. CASE CreateCart(w)
    BY <1>3, <2>1 DEF CreateCart, FreshCart, TypeOK
  <2>2. CASE MergeCarts(w)
    BY <1>3, <2>2 DEF MergeCarts, TypeOK, CartRow
  <2>3. CASE UNCHANGED cart
    BY <1>3, <2>3
  <2>4. QED
    BY <2>1, <2>2, <2>3 DEF CartStep, ReadLine, WriteLine, WriteItem, ClearLines,
                            ReadMerge, tables
<1>4. QED
  BY <1>1, <1>2, <1>3

\* What an order's transaction does to its request.
LEMMA DebitEffect ==
  ASSUME TypeOK, NEW w \in Workers, DebitStock(w)
  PROVE  /\ \E c \in Carts \cup {Nil} :
              /\ job' = [job EXCEPT ![w] = [@ EXCEPT !.at = "commit", !.converts = c]]
              /\ job[w].cartId \in Carts => c = job[w].cartId
         /\ UNCHANGED tables
<1>1. job[w] \in OrderJob /\ job[w].op = "order"
  BY JobKinds DEF DebitStock
<1>2. job[w] = [job[w] EXCEPT !.converts = job[w].converts]
      /\ job[w].converts \in Carts \cup {Nil}
  BY <1>1 DEF OrderJob
<1>3. \/ /\ job' = [job EXCEPT ![w].at = "commit"]
         /\ job[w].cartId = Nil
      \/ \E c \in Carts :
           /\ job' = [job EXCEPT ![w].at = "commit", ![w].converts = c]
           /\ job[w].cartId \in Carts => c = job[w].cartId
  BY <1>1 DEF DebitStock, ActiveOf, OrderJob
<1>4. UNCHANGED tables
  BY DEF DebitStock
<1>5. CASE job' = [job EXCEPT ![w].at = "commit"] /\ job[w].cartId = Nil
  <2>1. job' = [job EXCEPT ![w] = [@ EXCEPT !.at = "commit",
                                            !.converts = job[w].converts]]
    <3>1. [job[w] EXCEPT !.at = "commit"] =
            [job[w] EXCEPT !.at = "commit", !.converts = job[w].converts]
      BY <1>1 DEF OrderJob
    <3>2. job' = [job EXCEPT ![w] = [job[w] EXCEPT !.at = "commit"]]
      BY <1>5
    <3>3. QED
      BY <3>1, <3>2
  <2>2. QED
    BY <1>2, <1>4, <1>5, <2>1
<1>6. ASSUME NEW c \in Carts,
             job' = [job EXCEPT ![w].at = "commit", ![w].converts = c],
             job[w].cartId \in Carts => c = job[w].cartId
      PROVE  \E d \in Carts \cup {Nil} :
               /\ job' = [job EXCEPT ![w] = [@ EXCEPT !.at = "commit", !.converts = d]]
               /\ job[w].cartId \in Carts => d = job[w].cartId
  BY <1>1, <1>6 DEF OrderJob, TypeOK
<1>7. QED
  BY <1>3, <1>4, <1>5, <1>6

LEMMA FinishOne ==
  ASSUME TypeOK, NEW w \in Workers, Finish(w)
  PROVE  /\ job'[w].op # "order"
         /\ \A v \in Workers \ {w} : job'[v] = job[v]
BY IdleOp DEF Finish, TypeOK

LEMMA ChangeOne ==
  ASSUME TypeOK, NEW w \in Workers, NEW j, job' = [job EXCEPT ![w] = j]
  PROVE  /\ job'[w] = j
         /\ \A v \in Workers \ {w} : job'[v] = job[v]
BY DEF TypeOK

-----------------------------------------------------------------------------
(* The coupon's limit. A request checks the limit before it is counted, so   *)
(* the uses and the requests still to be counted are bounded together.       *)

InFlight == {w \in Workers : job[w].op = "order" /\ job[w].coupon}

CouponRoom ==
  UsageLimit # 0 =>
    usageCount + Cardinality(InFlight) <= UsageLimit + Cardinality(Workers) - 1

\* Each step forgets requests, admits one that saw a use left, or counts one.
LEMMA CouponStep ==
  ASSUME TypeOK, [Next]_vars
  PROVE  \/ usageCount' = usageCount /\ InFlight' \subseteq InFlight
         \/ usageCount' = usageCount /\ Redeemable
         \/ /\ usageCount' = usageCount + 1
            /\ \E w \in InFlight : InFlight' \subseteq InFlight \ {w}
<1>1. ASSUME NEW w \in Workers, NEW j, j.op # "order", Start(w, j)
      PROVE  usageCount' = usageCount /\ InFlight' \subseteq InFlight
  BY <1>1, ChangeOne DEF Start, tables, InFlight
<1>2. ASSUME NEW w \in Workers, NEW j, j.coupon => Redeemable, Start(w, j)
      PROVE  \/ usageCount' = usageCount /\ InFlight' \subseteq InFlight
             \/ usageCount' = usageCount /\ Redeemable
  BY <1>2, ChangeOne DEF Start, tables, InFlight
<1>3. ASSUME NEW w \in Workers, Begin(w)
      PROVE  \/ usageCount' = usageCount /\ InFlight' \subseteq InFlight
             \/ usageCount' = usageCount /\ Redeemable
  BY <1>1, <1>2, <1>3, OtherRequest, OrderRequest DEF Begin
<1>4. ASSUME NEW w \in Workers, CartStep(w)
      PROVE  usageCount' = usageCount /\ InFlight' \subseteq InFlight
  BY <1>4, CartStepEffect, ChangeOne DEF InFlight
<1>5. ASSUME NEW w \in Workers, DebitStock(w)
      PROVE  usageCount' = usageCount /\ InFlight' \subseteq InFlight
  <2>1. PICK c : job' = [job EXCEPT ![w] = [@ EXCEPT !.at = "commit", !.converts = c]]
    BY <1>5, DebitEffect
  <2>2. job[w] \in OrderJob
    BY <1>5, JobKinds DEF DebitStock
  <2>3. job'[w].coupon = job[w].coupon /\ job[w].op = "order"
    BY <2>1, <2>2 DEF OrderJob, TypeOK
  <2>4. \A v \in Workers \ {w} : job'[v] = job[v]
    BY <2>1 DEF TypeOK
  <2>5. QED
    BY <1>5, <2>3, <2>4 DEF DebitStock, tables, InFlight
<1>6. ASSUME NEW w \in Workers, PlaceOrder(w)
      PROVE  \/ usageCount' = usageCount /\ InFlight' \subseteq InFlight
             \/ /\ usageCount' = usageCount + 1
                /\ \E v \in InFlight : InFlight' \subseteq InFlight \ {v}
  BY <1>6, FinishOne DEF PlaceOrder, InFlight
<1>7. ASSUME NEW w \in Workers, Die(w)
      PROVE  usageCount' = usageCount /\ InFlight' \subseteq InFlight
  BY <1>7, FinishOne DEF Die, tables, InFlight
<1>8. CASE UNCHANGED vars
  BY <1>8 DEF vars, tables, InFlight
<1>9. QED
  BY <1>3, <1>4, <1>5, <1>6, <1>7, <1>8 DEF Next, Continue, CartStep

LEMMA InFlightFinite ==
  /\ IsFiniteSet(InFlight)
  /\ Cardinality(InFlight) \in Nat
  /\ Cardinality(Workers) \in Nat
  /\ Cardinality(InFlight) <= Cardinality(Workers)
<1>1. InFlight \subseteq Workers /\ IsFiniteSet(Workers)
  BY DEF InFlight
<1>2. QED
  BY <1>1, FS_Subset, FS_CardinalityType

LEMMA CouponInit == Init => CouponRoom
<1> SUFFICES ASSUME Init PROVE CouponRoom
  OBVIOUS
<1>1. usageCount = 0
  BY DEF Init
<1>2. QED
  BY <1>1, InFlightFinite DEF CouponRoom

LEMMA CouponNext ==
  ASSUME TypeOK, CouponRoom, [Next]_vars
  PROVE  CouponRoom'
<1> SUFFICES ASSUME UsageLimit # 0
             PROVE  usageCount' + Cardinality(InFlight')
                      <= UsageLimit + Cardinality(Workers) - 1
  BY DEF CouponRoom
<1>1. /\ IsFiniteSet(InFlight) /\ Cardinality(InFlight) \in Nat
      /\ Cardinality(Workers) \in Nat
  BY InFlightFinite
<1>2. /\ IsFiniteSet(InFlight') /\ Cardinality(InFlight') \in Nat
      /\ Cardinality(InFlight') <= Cardinality(Workers)
  <2>1. InFlight' \subseteq Workers /\ IsFiniteSet(Workers)
    BY DEF InFlight
  <2>2. QED
    BY <2>1, FS_Subset, FS_CardinalityType
<1>3. usageCount \in Nat /\ UsageLimit \in Nat
  BY DEF TypeOK
<1>4. usageCount + Cardinality(InFlight) <= UsageLimit + Cardinality(Workers) - 1
  BY DEF CouponRoom
<1>5. CASE usageCount' = usageCount /\ InFlight' \subseteq InFlight
  <2>1. Cardinality(InFlight') <= Cardinality(InFlight)
    BY <1>1, <1>5, FS_Subset
  <2>2. QED
    BY <1>1, <1>2, <1>3, <1>4, <1>5, <2>1
<1>6. CASE usageCount' = usageCount /\ Redeemable
  <2>1. usageCount < UsageLimit
    BY <1>6 DEF Redeemable
  <2>2. QED
    BY <1>1, <1>2, <1>3, <1>6, <2>1
<1>7. CASE /\ usageCount' = usageCount + 1
           /\ \E w \in InFlight : InFlight' \subseteq InFlight \ {w}
  <2>1. PICK w \in InFlight : InFlight' \subseteq InFlight \ {w}
    BY <1>7
  <2>2. IsFiniteSet(InFlight \ {w})
        /\ Cardinality(InFlight \ {w}) = Cardinality(InFlight) - 1
    BY <1>1, <2>1, FS_RemoveElement
  <2>3. Cardinality(InFlight') <= Cardinality(InFlight) - 1
    BY <2>1, <2>2, FS_Subset
  <2>4. QED
    BY <1>1, <1>2, <1>3, <1>4, <1>7, <2>3
<1>8. QED
  BY <1>5, <1>6, <1>7, CouponStep

\* However many requests race on the coupon's count (checked at
\* orders.service.ts:923, counted at 268), its limit is exceeded by fewer uses
\* than there are requests in flight.
THEOREM CouponLimit == Spec => []CouponBound
<1>1. Init => TypeOK /\ CouponRoom
  BY InitType, CouponInit
<1>2. TypeOK /\ CouponRoom /\ [Next]_vars => (TypeOK /\ CouponRoom)'
  BY NextType, CouponNext
<1>3. TypeOK /\ CouponRoom => CouponBound
  BY InFlightFinite DEF TypeOK, CouponRoom, CouponBound
<1>4. QED
  BY <1>1, <1>2, <1>3, PTL DEF Spec

-----------------------------------------------------------------------------
(* Orders of a named cart. A request finds the cart ACTIVE, an order makes   *)
(* it CONVERTED for good: once there is an order, no request comes in.       *)

Pending(c) == {w \in Workers : job[w].op = "order" /\ job[w].cartId = c}

OrderedIsConverted(c) == OrdersOf(c) # {} => cart[c].status = "CONVERTED"
ConvertsNamed(c) ==
  \A w \in Pending(c) : job[w].at = "commit" => job[w].converts = c
OrderRoom(c) ==
  Cardinality(OrdersOf(c)) + Cardinality(Pending(c)) <= Cardinality(Workers)

CartRoom ==
  \A c \in Carts : OrderedIsConverted(c) /\ ConvertsNamed(c) /\ OrderRoom(c)

LEMMA PendingFinite ==
  ASSUME NEW c \in Carts
  PROVE  /\ IsFiniteSet(Pending(c)) /\ Cardinality(Pending(c)) \in Nat
         /\ Cardinality(Workers) \in Nat
         /\ Cardinality(Pending(c)) <= Cardinality(Workers)
         /\ IsFiniteSet(OrdersOf(c)) /\ Cardinality(OrdersOf(c)) \in Nat
<1>1. /\ Pending(c) \subseteq Workers /\ IsFiniteSet(Workers)
      /\ OrdersOf(c) \subseteq Orders /\ IsFiniteSet(Orders)
  BY DEF Pending, OrdersOf
<1>2. QED
  BY <1>1, FS_Subset, FS_CardinalityType

LEMMA CartRoomInit == Init => CartRoom
<1> SUFFICES ASSUME Init, NEW c \in Carts
             PROVE  OrderedIsConverted(c) /\ ConvertsNamed(c) /\ OrderRoom(c)
  BY DEF CartRoom
<1>1. OrdersOf(c) = {} /\ Pending(c) = {}
  BY IdleOp DEF Init, OrdersOf, NoOrder, Pending
<1>2. QED
  BY <1>1, FS_EmptySet, PendingFinite DEF OrderedIsConverted, ConvertsNamed, OrderRoom

\* Steps that place no order, seen from cart c: no request for it comes in, or
\* one that found it ACTIVE.
NoOrderStep(c) ==
  /\ order' = order
  /\ cart[c].status = "CONVERTED" => cart'[c].status = "CONVERTED"
  /\ Pending(c)' \subseteq Pending(c) \/ cart[c].status = "ACTIVE"
  /\ ConvertsNamed(c) => ConvertsNamed(c)'

\* An order placed from cart c, or from something else.
OrderStep(c) ==
  \/ /\ OrdersOf(c)' = OrdersOf(c) /\ Pending(c)' \subseteq Pending(c)
     /\ cart[c].status = "CONVERTED" => cart'[c].status = "CONVERTED"
     /\ ConvertsNamed(c) => ConvertsNamed(c)'
  \/ \E w \in Pending(c), o \in Orders :
       /\ OrdersOf(c)' \subseteq OrdersOf(c) \cup {o}
       /\ Pending(c)' \subseteq Pending(c) \ {w}
       /\ ConvertsNamed(c) => cart'[c].status = "CONVERTED" /\ ConvertsNamed(c)'

LEMMA OneRequestStep ==
  ASSUME TypeOK, NEW c \in Carts, NEW w \in Workers, NEW j,
         job' = [job EXCEPT ![w] = j], order' = order,
         cart[c].status = "CONVERTED" => cart'[c].status = "CONVERTED",
         \/ j.op # "order"
         \/ j.at = "place" /\ (j.cartId = c => cart[c].status = "ACTIVE")
  PROVE  NoOrderStep(c)
<1>1. job'[w] = j /\ \A v \in Workers \ {w} : job'[v] = job[v]
  BY ChangeOne
<1>2. QED
  BY <1>1 DEF NoOrderStep, Pending, ConvertsNamed

LEMMA CartRoomStep ==
  ASSUME TypeOK, [Next]_vars, NEW c \in Carts
  PROVE  NoOrderStep(c) \/ OrderStep(c)
<1>1. ASSUME NEW w \in Workers, Begin(w)
      PROVE  NoOrderStep(c)
  <2>1. ASSUME NEW j, Start(w, j), j.op # "order"
        PROVE  NoOrderStep(c)
    BY <2>1, OneRequestStep DEF Start, tables
  <2>2. ASSUME NEW j, Start(w, j), j.at = "place",
               j.cartId \in Carts => cart[j.cartId].status = "ACTIVE"
        PROVE  NoOrderStep(c)
    BY <2>2, OneRequestStep DEF Start, tables
  <2>3. QED
    BY <1>1, <2>1, <2>2, OtherRequest, OrderRequest DEF Begin
<1>2. ASSUME NEW w \in Workers, CartStep(w)
      PROVE  NoOrderStep(c)
  BY <1>2, CartStepEffect, OneRequestStep
<1>3. ASSUME NEW w \in Workers, DebitStock(w)
      PROVE  NoOrderStep(c)
  <2>1. PICK d \in Carts \cup {Nil} :
          /\ job' = [job EXCEPT ![w] = [@ EXCEPT !.at = "commit", !.converts = d]]
          /\ job[w].cartId \in Carts => d = job[w].cartId
    BY <1>3, DebitEffect
  <2>2. job[w] \in OrderJob /\ job[w].op = "order" /\ UNCHANGED tables
    BY <1>3, JobKinds DEF DebitStock
  <2>3. /\ job'[w].op = "order" /\ job'[w].cartId = job[w].cartId
        /\ job'[w].converts = d
        /\ \A v \in Workers \ {w} : job'[v] = job[v]
    BY <2>1, <2>2 DEF OrderJob, TypeOK
  <2>4. QED
    BY <2>1, <2>2, <2>3 DEF NoOrderStep, Pending, ConvertsNamed, tables
<1>4. ASSUME NEW w \in Workers, Die(w)
      PROVE  NoOrderStep(c)
  BY <1>4, IdleOp, OneRequestStep DEF Die, Finish, tables
<1>5. CASE UNCHANGED vars
  BY <1>5 DEF vars, tables, NoOrderStep, Pending, ConvertsNamed
<1>6. ASSUME NEW w \in Workers, PlaceOrder(w)
      PROVE  OrderStep(c)
  <2>1. /\ job[w].op = "order" /\ job[w].at = "commit"
        /\ job'[w].op # "order"
        /\ \A v \in Workers \ {w} : job'[v] = job[v]
    BY <1>6, FinishOne DEF PlaceOrder
  <2>2. PICK o \in Orders :
          order' = [order EXCEPT ![o] =
                      [placed |-> TRUE, cartId |-> job[w].cartId, from |-> job[w].from,
                       user |-> job[w].user, lines |-> job[w].wanted,
                       coupon |-> job[w].coupon]]
          /\ ~order[o].placed
    BY <1>6 DEF PlaceOrder
  <2>3. cart'[c] = IF c = job[w].converts
                   THEN [cart[c] EXCEPT !.status = "CONVERTED"] ELSE cart[c]
    BY <1>6 DEF PlaceOrder
  <2>4. cart[c].status = "CONVERTED" \/ c = job[w].converts
          => cart'[c].status = "CONVERTED"
    BY <2>3 DEF TypeOK, CartRow
  <2>5. Pending(c)' \subseteq Pending(c) \ {w}
    BY <2>1 DEF Pending
  <2>6. ConvertsNamed(c) => ConvertsNamed(c)'
    BY <2>1 DEF Pending, ConvertsNamed
  <2>7. CASE job[w].cartId = c
    <3>1. w \in Pending(c)
      BY <2>1, <2>7 DEF Pending
    <3>2. OrdersOf(c)' \subseteq OrdersOf(c) \cup {o}
      BY <2>2 DEF OrdersOf, TypeOK
    <3>3. ConvertsNamed(c) => job[w].converts = c
      BY <2>1, <3>1 DEF ConvertsNamed
    <3>4. QED
      BY <2>4, <2>5, <2>6, <3>1, <3>2, <3>3 DEF OrderStep
  <2>8. CASE job[w].cartId # c
    <3>1. OrdersOf(c)' = OrdersOf(c)
      BY <2>2, <2>8 DEF OrdersOf, TypeOK
    <3>2. QED
      BY <2>4, <2>5, <2>6, <3>1 DEF OrderStep
  <2>9. QED
    BY <2>7, <2>8
<1>7. QED
  BY <1>1, <1>2, <1>3, <1>4, <1>5, <1>6 DEF Next, Continue, CartStep

LEMMA CartRoomNext ==
  ASSUME TypeOK, CartRoom, [Next]_vars
  PROVE  CartRoom'
<1> SUFFICES ASSUME NEW c \in Carts
             PROVE  (OrderedIsConverted(c) /\ ConvertsNamed(c) /\ OrderRoom(c))'
  BY DEF CartRoom
<1>1. OrderedIsConverted(c) /\ ConvertsNamed(c) /\ OrderRoom(c)
  BY DEF CartRoom
<1>2. /\ IsFiniteSet(Pending(c)) /\ Cardinality(Pending(c)) \in Nat
      /\ Cardinality(Workers) \in Nat
      /\ IsFiniteSet(OrdersOf(c)) /\ Cardinality(OrdersOf(c)) \in Nat
  BY PendingFinite
<1>3. /\ IsFiniteSet(Pending(c)') /\ Cardinality(Pending(c)') \in Nat
      /\ Cardinality(Pending(c)') <= Cardinality(Workers)
      /\ IsFiniteSet(OrdersOf(c)') /\ Cardinality(OrdersOf(c)') \in Nat
  <2>1. /\ Pending(c)' \subseteq Workers /\ IsFiniteSet(Workers)
        /\ OrdersOf(c)' \subseteq Orders /\ IsFiniteSet(Orders)
    BY DEF Pending, OrdersOf
  <2>2. QED
    BY <2>1, FS_Subset, FS_CardinalityType
<1>4. ASSUME OrdersOf(c)' = OrdersOf(c), Pending(c)' \subseteq Pending(c)
      PROVE  OrderRoom(c)'
  <2>1. Cardinality(Pending(c)') <= Cardinality(Pending(c))
    BY <1>2, <1>4, FS_Subset
  <2>2. QED
    BY <1>1, <1>2, <1>3, <1>4, <2>1 DEF OrderRoom
<1>5. CASE NoOrderStep(c)
  <2>1. OrdersOf(c)' = OrdersOf(c)
    BY <1>5 DEF NoOrderStep, OrdersOf
  <2>2. OrderedIsConverted(c)' /\ ConvertsNamed(c)'
    BY <1>1, <1>5, <2>1 DEF NoOrderStep, OrderedIsConverted
  <2>3. CASE cart[c].status = "ACTIVE"
    <3>1. OrdersOf(c)' = {}
      BY <1>1, <2>1, <2>3 DEF OrderedIsConverted
    <3>2. QED
      BY <1>2, <1>3, <2>2, <3>1, FS_EmptySet DEF OrderRoom
  <2>4. QED
    BY <1>4, <1>5, <2>1, <2>2, <2>3 DEF NoOrderStep
<1>6. CASE OrderStep(c)
  <2>1. CASE /\ OrdersOf(c)' = OrdersOf(c) /\ Pending(c)' \subseteq Pending(c)
             /\ cart[c].status = "CONVERTED" => cart'[c].status = "CONVERTED"
             /\ ConvertsNamed(c) => ConvertsNamed(c)'
    BY <1>1, <1>4, <2>1 DEF OrderedIsConverted
  <2>2. CASE \E w \in Pending(c), o \in Orders :
               /\ OrdersOf(c)' \subseteq OrdersOf(c) \cup {o}
               /\ Pending(c)' \subseteq Pending(c) \ {w}
               /\ ConvertsNamed(c)
                    => cart'[c].status = "CONVERTED" /\ ConvertsNamed(c)'
    <3>1. PICK w \in Pending(c), o \in Orders :
               /\ OrdersOf(c)' \subseteq OrdersOf(c) \cup {o}
               /\ Pending(c)' \subseteq Pending(c) \ {w}
               /\ ConvertsNamed(c)
                    => cart'[c].status = "CONVERTED" /\ ConvertsNamed(c)'
      BY <2>2
    <3>2. /\ IsFiniteSet(Pending(c) \ {w})
          /\ Cardinality(Pending(c) \ {w}) = Cardinality(Pending(c)) - 1
      BY <1>2, <3>1, FS_RemoveElement
    <3>3. Cardinality(Pending(c)') <= Cardinality(Pending(c)) - 1
      BY <3>1, <3>2, FS_Subset
    <3>4. /\ IsFiniteSet(OrdersOf(c) \cup {o})
          /\ Cardinality(OrdersOf(c) \cup {o}) <= Cardinality(OrdersOf(c)) + 1
      <4>1. /\ IsFiniteSet(OrdersOf(c) \cup {o})
            /\ \/ Cardinality(OrdersOf(c) \cup {o}) = Cardinality(OrdersOf(c))
               \/ Cardinality(OrdersOf(c) \cup {o}) = Cardinality(OrdersOf(c)) + 1
        <5>1. IsFiniteSet(OrdersOf(c))
          BY <1>2
        <5>2. QED
          BY <5>1, FS_AddElement
      <4>2. QED
        BY <1>2, <4>1
    <3>5. Cardinality(OrdersOf(c)') <= Cardinality(OrdersOf(c)) + 1
      <4>1. Cardinality(OrdersOf(c)') <= Cardinality(OrdersOf(c) \cup {o})
        BY <3>1, <3>4, FS_Subset
      <4>2. Cardinality(OrdersOf(c) \cup {o}) \in Nat
        BY <3>4, FS_CardinalityType
      <4>3. QED
        BY <1>2, <1>3, <3>4, <4>1, <4>2
    <3>6. OrderRoom(c)'
      BY <1>1, <1>2, <1>3, <3>3, <3>5 DEF OrderRoom
    <3>7. QED
      BY <1>1, <3>1, <3>6 DEF OrderedIsConverted
  <2>3. QED
    BY <1>6, <2>1, <2>2 DEF OrderStep
<1>7. QED
  BY <1>5, <1>6, CartRoomStep

\* A cart named in requests is ordered at most once per request in flight:
\* resolveOrderItems accepts ACTIVE carts only (orders.service.ts:715) and the
\* order's transaction converts the cart it names (284-288).
THEOREM CartOrders == Spec => []CartOrdersBound
<1>1. Init => TypeOK /\ CartRoom
  BY InitType, CartRoomInit
<1>2. TypeOK /\ CartRoom /\ [Next]_vars => (TypeOK /\ CartRoom)'
  BY NextType, CartRoomNext
<1>3. CartRoom => CartOrdersBound
  BY PendingFinite DEF CartRoom, OrderRoom, CartOrdersBound
<1>4. QED
  BY <1>1, <1>2, <1>3, PTL DEF Spec

-----------------------------------------------------------------------------
(* The active carts of a user. A request finds none before it creates one,   *)
(* so the carts and the requests about to create one are bounded together.   *)

CreatesFor(j, u) ==
  j.op \in {"add", "merge"} /\ j.at = "create" /\ j.ctx.user = u
Creating(u) == {w \in Workers : CreatesFor(job[w], u)}
Active(u) == ActiveOf(AsUser(u))
ActiveRoom ==
  \A u \in Users :
    Cardinality(Active(u)) + Cardinality(Creating(u)) <= Cardinality(Workers)

LEMMA ActiveIs ==
  ASSUME NEW u \in Users
  PROVE  Active(u) = {c \in Carts : cart[c].status = "ACTIVE" /\ cart[c].user = u}
BY DEF Active, ActiveOf, AsUser

LEMMA ActiveFinite ==
  ASSUME NEW u \in Users
  PROVE  /\ IsFiniteSet(Active(u)) /\ Cardinality(Active(u)) \in Nat
         /\ IsFiniteSet(Creating(u)) /\ Cardinality(Creating(u)) \in Nat
         /\ Cardinality(Creating(u)) <= Cardinality(Workers)
         /\ Cardinality(Workers) \in Nat
<1>1. /\ Active(u) \subseteq Carts /\ IsFiniteSet(Carts)
      /\ Creating(u) \subseteq Workers /\ IsFiniteSet(Workers)
  BY DEF Active, ActiveOf, Creating
<1>2. QED
  BY <1>1, FS_Subset, FS_CardinalityType

\* A request that is about to create a cart found none.
LEMMA CreatingRequest ==
  ASSUME TypeOK, NEW w \in Workers, Begin(w)
  PROVE  \E j : /\ Start(w, j)
                /\ \A u \in Users : CreatesFor(j, u) => Active(u) = {}
<1>1. PICK x \in Contexts :
        \/ \E p \in Products, q \in Quantities : AddItem(w, x, p, q)
        \/ \E q \in Quantities : UpdateItem(w, x, q)
        \/ RemoveItem(w, x) \/ Clear(w, x)
        \/ \E s \in Sessions : x.user # Nil /\ Merge(w, x.user, s)
        \/ \E coupon \in BOOLEAN :
             \/ OrderCart(w, x, coupon) \/ OrderActiveCart(w, x, coupon)
             \/ OrderItems(w, x, coupon)
  BY DEF Begin
<1>2. ASSUME NEW p \in Products, NEW q \in Quantities, AddItem(w, x, p, q)
      PROVE  \E j : /\ Start(w, j)
                    /\ \A u \in Users : CreatesFor(j, u) => Active(u) = {}
  <2>1. CASE ActiveOf(x) = {} /\ Start(w, Adding("create", x, Nil, p, q, 0, 0))
    <3>1. \A u \in Users : CreatesFor(Adding("create", x, Nil, p, q, 0, 0), u)
                             => Active(u) = {}
      BY <2>1 DEF CreatesFor, Adding, Active, ActiveOf, AsUser
    <3>2. QED
      BY <2>1, <3>1
  <2>2. ASSUME NEW c \in ActiveOf(x), Start(w, Adding("read", x, c, p, q, 0, 0))
        PROVE  \E j : /\ Start(w, j)
                      /\ \A u \in Users : CreatesFor(j, u) => Active(u) = {}
    BY <2>2 DEF CreatesFor, Adding
  <2>3. QED
    BY <1>2, <2>1, <2>2 DEF AddItem
<1>3. CASE \/ \E q \in Quantities : UpdateItem(w, x, q)
           \/ RemoveItem(w, x) \/ Clear(w, x)
  <2>1. PICK j : j.at = "write" /\ Start(w, j)
    <3>1. ASSUME NEW op, NEW q, ResolveItem(w, op, x, q)
          PROVE  \E j : j.at = "write" /\ Start(w, j)
      BY <3>1, Zenon DEF ResolveItem
    <3>2. CASE Clear(w, x)
      BY <3>2, Zenon DEF Clear
    <3>3. QED
      BY <1>3, <3>1, <3>2 DEF UpdateItem, RemoveItem
  <2>2. QED
    BY <2>1 DEF CreatesFor
<1>4. ASSUME NEW s \in Sessions, Merge(w, x.user, s)
      PROVE  \E j : /\ Start(w, j)
                    /\ \A u \in Users : CreatesFor(j, u) => Active(u) = {}
  <2> DEFINE j(g, at, c) ==
        [op |-> "merge", at |-> at, ctx |-> AsUser(x.user), cart |-> c,
         guest |-> g, wanted |-> line[g],
         todo |-> {p \in Products : Units(line[g], p) > 0},
         result |-> Empty, rows |-> {}]
  <2>1. PICK g \in Carts :
          \/ Active(x.user) = {} /\ Start(w, j(g, "create", Nil))
          \/ \E c \in Carts : Start(w, j(g, "read", c))
    BY <1>4 DEF Merge, ActiveOf, Active
  <2>2. \A u \in Users : CreatesFor(j(g, "create", Nil), u) => u = x.user
    BY DEF CreatesFor, AsUser
  <2>3. \A u \in Users, c \in Carts : ~CreatesFor(j(g, "read", c), u)
    BY DEF CreatesFor
  <2> HIDE DEF j
  <2>4. QED
    BY <2>1, <2>2, <2>3
<1>5. ASSUME NEW coupon \in BOOLEAN,
             OrderCart(w, x, coupon) \/ OrderActiveCart(w, x, coupon)
               \/ OrderItems(w, x, coupon)
      PROVE  \E j : /\ Start(w, j)
                    /\ \A u \in Users : CreatesFor(j, u) => Active(u) = {}
  BY <1>5, OrderRequest DEF CreatesFor
<1>6. QED
  BY <1>1, <1>2, <1>3, <1>4, <1>5

\* What addItem holds once it has looked for the line.
LEMMA ReadLineEffect ==
  ASSUME TypeOK, NEW w \in Workers, ReadLine(w)
  PROVE  /\ job'[w].op = "add" /\ job'[w].at = "write"
         /\ job'[w].cart = job[w].cart /\ job'[w].product = job[w].product
         /\ job'[w].row = 0 => Rows(job[w].cart, job[w].product) = {}
<1>1. job[w] \in AddJob /\ job[w].op = "add"
  BY JobKinds DEF ReadLine
<1>2. \/ /\ job' = [job EXCEPT ![w].at = "write"]
         /\ Rows(job[w].cart, job[w].product) = {}
      \/ \E k \in Copies :
           job' = [job EXCEPT ![w].at = "write", ![w].row = k,
                     ![w].base = line[job[w].cart][job[w].product][k]]
  BY DEF ReadLine, Rows
<1>3. CASE /\ job' = [job EXCEPT ![w].at = "write"]
           /\ Rows(job[w].cart, job[w].product) = {}
  BY <1>1, <1>3 DEF TypeOK, AddJob
<1>4. ASSUME NEW k \in Copies, NEW n,
             job' = [job EXCEPT ![w].at = "write", ![w].row = k, ![w].base = n]
      PROVE  /\ job'[w].op = "add" /\ job'[w].at = "write"
             /\ job'[w].cart = job[w].cart /\ job'[w].product = job[w].product
             /\ job'[w].row # 0
  <2>1. job' = [job EXCEPT ![w] = [@ EXCEPT !.at = "write", !.row = k, !.base = n]]
    BY <1>1, <1>4 DEF AddJob
  <2>2. job'[w] = [job[w] EXCEPT !.at = "write", !.row = k, !.base = n]
    BY <2>1 DEF TypeOK
  <2>3. QED
    BY <1>1, <2>2 DEF AddJob
<1>5. QED
  BY <1>2, <1>3, <1>4

\* What the request holds after it has found the row for a guest line.
LEMMA ReadMergeEffect ==
  ASSUME TypeOK, NEW w \in Workers, ReadMerge(w)
  PROVE  \E p \in job[w].todo : \E k \in Copies :
           /\ Rows(job[w].cart, p) # {} => k \in Rows(job[w].cart, p)
           /\ job'[w].op = "merge" /\ job'[w].at \in {"read", "write"}
           /\ job'[w].cart = job[w].cart
           /\ job'[w].todo = job[w].todo \ {p}
           /\ job'[w].rows = job[w].rows \cup
                 {[product |-> p, row |-> k, new |-> line[job[w].cart][p][k] = 0]}
           /\ job'[w].result = [job[w].result EXCEPT ![p][k] =
                                 line[job[w].cart][p][k] + Units(job[w].wanted, p)]
           /\ job'[w].guest = job[w].guest /\ job'[w].wanted = job[w].wanted
           /\ job'[w].ctx = job[w].ctx
           /\ job'[w].at = "write" => job'[w].todo = {}
<1>1. job[w] \in MergeJob /\ job[w].op = "merge"
  BY JobKinds DEF ReadMerge
<1>2. PICK p \in job[w].todo, k \in Copies :
        /\ Rows(job[w].cart, p) # {} => k \in Rows(job[w].cart, p)
        /\ job' = [job EXCEPT
             ![w].todo = @ \ {p},
             ![w].at = IF job[w].todo = {p} THEN "write" ELSE "read",
             ![w].result[p][k] =
                line[job[w].cart][p][k] + Units(job[w].wanted, p),
             ![w].rows = @ \cup {[product |-> p, row |-> k,
                                  new |-> line[job[w].cart][p][k] = 0]}]
  BY DEF ReadMerge
<1>3. PICK at : at = IF job[w].todo = {p} THEN "write" ELSE "read"
  OBVIOUS
<1>4. PICK rows : rows = job[w].rows \cup
                           {[product |-> p, row |-> k,
                             new |-> line[job[w].cart][p][k] = 0]}
  OBVIOUS
<1>5. PICK todo : todo = job[w].todo \ {p}
  OBVIOUS
<1>6. PICK result : result = [job[w].result EXCEPT ![p][k] =
                                line[job[w].cart][p][k] + Units(job[w].wanted, p)]
  OBVIOUS
<1>7. job' = [job EXCEPT ![w] = [@ EXCEPT !.todo = todo, !.at = at,
                                          !.result = result, !.rows = rows]]
  BY <1>1, <1>2, <1>3, <1>4, <1>5, <1>6 DEF MergeJob
<1>8. job'[w] = [job[w] EXCEPT !.todo = todo, !.at = at, !.result = result, !.rows = rows]
  BY <1>7 DEF TypeOK
<1>9. /\ job'[w].op = "merge" /\ job'[w].at = at /\ job'[w].cart = job[w].cart
      /\ job'[w].todo = todo /\ job'[w].rows = rows /\ job'[w].result = result
      /\ job'[w].guest = job[w].guest /\ job'[w].wanted = job[w].wanted
      /\ job'[w].ctx = job[w].ctx
  BY <1>1, <1>8 DEF MergeJob
<1>10. at \in {"read", "write"} /\ (at = "write" => todo = {})
  BY <1>3, <1>5
<1>11. QED
  BY <1>2, <1>4, <1>5, <1>6, <1>9, <1>10

\* Of the steps on carts, only the creation of one makes it active.
LEMMA OtherCartStep ==
  ASSUME TypeOK, NEW w \in Workers, CartStep(w), ~CreateCart(w), NEW u \in Users
  PROVE  ~CreatesFor(job'[w], u) /\ Active(u)' \subseteq Active(u)
<1>1. CASE ReadLine(w)
  <2>1. job'[w].at = "write"
    BY <1>1, ReadLineEffect
  <2>2. QED
    BY <1>1, <2>1 DEF ReadLine, tables, CreatesFor, Active, ActiveOf
<1>2. CASE ReadMerge(w)
  BY <1>2, ReadMergeEffect DEF ReadMerge, tables, CreatesFor, Active, ActiveOf
<1>3. CASE WriteLine(w) \/ WriteItem(w) \/ ClearLines(w)
  <2>1. job'[w].op = "idle" /\ cart' = cart
    BY <1>3, IdleOp DEF WriteLine, WriteItem, ClearLines, Finish, TypeOK
  <2>2. QED
    BY <2>1 DEF CreatesFor, Active, ActiveOf
<1>4. CASE MergeCarts(w)
  <2>1. job'[w].op = "idle"
    BY <1>4, IdleOp DEF MergeCarts, Finish, TypeOK
  <2>2. \A c \in Carts : cart'[c] = cart[c] \/ cart'[c].status = "CONVERTED"
    BY <1>4 DEF MergeCarts, TypeOK, CartRow
  <2>3. QED
    BY <2>1, <2>2 DEF CreatesFor, Active, ActiveOf
<1>5. QED
  BY <1>1, <1>2, <1>3, <1>4 DEF CartStep

\* Each step forgets carts and requests, admits one that found no cart, or
\* creates the cart of one.
LEMMA ActiveStep ==
  ASSUME TypeOK, [Next]_vars, NEW u \in Users
  PROVE  \/ Active(u)' \subseteq Active(u) /\ Creating(u)' \subseteq Creating(u)
         \/ Active(u)' = {}
         \/ \E w \in Creating(u), c \in Carts :
              /\ Active(u)' \subseteq Active(u) \cup {c}
              /\ Creating(u)' \subseteq Creating(u) \ {w}
<1>1. ASSUME NEW w \in Workers, Begin(w)
      PROVE  \/ Active(u)' \subseteq Active(u) /\ Creating(u)' \subseteq Creating(u)
             \/ Active(u)' = {}
  <2>1. PICK j : Start(w, j) /\ (CreatesFor(j, u) => Active(u) = {})
    BY <1>1, CreatingRequest
  <2>2. job'[w] = j /\ \A v \in Workers \ {w} : job'[v] = job[v]
    BY <2>1, ChangeOne DEF Start
  <2>3. Active(u)' = Active(u)
    BY <2>1 DEF Start, tables, Active, ActiveOf
  <2>4. QED
    BY <2>1, <2>2, <2>3 DEF Creating
<1>2. ASSUME NEW w \in Workers, CreateCart(w)
      PROVE  \/ Active(u)' \subseteq Active(u) /\ Creating(u)' \subseteq Creating(u)
             \/ \E v \in Creating(u), c \in Carts :
                  /\ Active(u)' \subseteq Active(u) \cup {c}
                  /\ Creating(u)' \subseteq Creating(u) \ {v}
  <2>1. PICK c \in Carts :
          /\ cart' = [cart EXCEPT ![c] = [user |-> job[w].ctx.user,
                                          session |-> job[w].ctx.session,
                                          status |-> "ACTIVE"]]
          /\ job' = [job EXCEPT ![w].at = "read", ![w].cart = c]
    BY <1>2 DEF CreateCart
  <2>2. job[w] \in AddJob \/ job[w] \in MergeJob
    BY <1>2, JobKinds DEF CreateCart
  <2>3. job'[w].at = "read" /\ \A v \in Workers \ {w} : job'[v] = job[v]
    BY <2>1, <2>2 DEF TypeOK, AddJob, MergeJob
  <2>4. Creating(u)' \subseteq Creating(u) \ {w}
    BY <2>3 DEF Creating, CreatesFor
  <2>5. \A d \in Carts \ {c} : cart'[d] = cart[d]
    BY <2>1 DEF TypeOK
  <2>6. cart'[c].user = job[w].ctx.user
    BY <2>1 DEF TypeOK
  <2>7. Active(u)' \subseteq Active(u) \cup {c}
    BY <2>5 DEF Active, ActiveOf
  <2>8. CASE job[w].ctx.user = u
    <3>1. w \in Creating(u)
      BY <1>2, <2>8 DEF CreateCart, Creating, CreatesFor
    <3>2. QED
      BY <2>4, <2>7, <3>1
  <2>9. CASE job[w].ctx.user # u
    <3>1. Active(u)' \subseteq Active(u)
      BY <2>5, <2>6, <2>9 DEF Active, ActiveOf, AsUser
    <3>2. QED
      BY <2>4, <3>1
  <2>10. QED
    BY <2>8, <2>9
<1>3. ASSUME NEW w \in Workers, CartStep(w), ~CreateCart(w)
      PROVE  Active(u)' \subseteq Active(u) /\ Creating(u)' \subseteq Creating(u)
  <2>1. \A v \in Workers \ {w} : job'[v] = job[v]
    BY <1>3, CartStepEffect, ChangeOne
  <2>2. QED
    BY <1>3, <2>1, OtherCartStep DEF Creating
<1>4. ASSUME NEW w \in Workers, DebitStock(w)
      PROVE  Active(u)' \subseteq Active(u) /\ Creating(u)' \subseteq Creating(u)
  <2>1. PICK c : job' = [job EXCEPT ![w] = [@ EXCEPT !.at = "commit", !.converts = c]]
    BY <1>4, DebitEffect
  <2>2. job[w] \in OrderJob /\ UNCHANGED tables
    BY <1>4, JobKinds DEF DebitStock
  <2>3. job'[w].at = "commit" /\ \A v \in Workers \ {w} : job'[v] = job[v]
    BY <2>1, <2>2 DEF OrderJob, TypeOK
  <2>4. QED
    BY <2>2, <2>3 DEF tables, Creating, CreatesFor, Active, ActiveOf
<1>5. ASSUME NEW w \in Workers, PlaceOrder(w)
      PROVE  Active(u)' \subseteq Active(u) /\ Creating(u)' \subseteq Creating(u)
  <2>1. job'[w] = Idle /\ \A v \in Workers \ {w} : job'[v] = job[v]
    BY <1>5 DEF PlaceOrder, Finish, TypeOK
  <2>2. \A c \in Carts : cart'[c] = cart[c] \/ cart'[c].status = "CONVERTED"
    BY <1>5 DEF PlaceOrder, TypeOK, CartRow
  <2>3. QED
    BY <2>1, <2>2, IdleOp DEF Creating, CreatesFor, Active, ActiveOf
<1>6. ASSUME NEW w \in Workers, Die(w)
      PROVE  Active(u)' \subseteq Active(u) /\ Creating(u)' \subseteq Creating(u)
  <2>1. job'[w] = Idle /\ \A v \in Workers \ {w} : job'[v] = job[v]
    BY <1>6 DEF Die, Finish, TypeOK
  <2>2. QED
    BY <1>6, <2>1, IdleOp DEF Die, tables, Creating, CreatesFor, Active, ActiveOf
<1>7. CASE UNCHANGED vars
  BY <1>7 DEF vars, tables, Creating, Active, ActiveOf
<1>8. QED
  BY <1>1, <1>2, <1>3, <1>4, <1>5, <1>6, <1>7 DEF Next, Continue, CartStep

LEMMA ActiveInit == Init => ActiveRoom
<1> SUFFICES ASSUME Init, NEW u \in Users
             PROVE  Cardinality(Active(u)) + Cardinality(Creating(u))
                      <= Cardinality(Workers)
  BY DEF ActiveRoom
<1>1. Active(u) = {} /\ Creating(u) = {}
  BY IdleOp DEF Init, NoCart, Active, ActiveOf, Creating, CreatesFor
<1>2. QED
  BY <1>1, FS_EmptySet, ActiveFinite

LEMMA ActiveNext ==
  ASSUME TypeOK, ActiveRoom, [Next]_vars
  PROVE  ActiveRoom'
<1> SUFFICES ASSUME NEW u \in Users
             PROVE  Cardinality(Active(u)') + Cardinality(Creating(u)')
                      <= Cardinality(Workers)
  BY DEF ActiveRoom
<1>1. /\ IsFiniteSet(Active(u)) /\ Cardinality(Active(u)) \in Nat
      /\ IsFiniteSet(Creating(u)) /\ Cardinality(Creating(u)) \in Nat
      /\ Cardinality(Workers) \in Nat
      /\ Cardinality(Active(u)) + Cardinality(Creating(u)) <= Cardinality(Workers)
  BY ActiveFinite DEF ActiveRoom
<1>2. /\ IsFiniteSet(Active(u)') /\ Cardinality(Active(u)') \in Nat
      /\ IsFiniteSet(Creating(u)') /\ Cardinality(Creating(u)') \in Nat
      /\ Cardinality(Creating(u)') <= Cardinality(Workers)
  <2>1. /\ Active(u)' \subseteq Carts /\ IsFiniteSet(Carts)
        /\ Creating(u)' \subseteq Workers /\ IsFiniteSet(Workers)
    BY DEF Active, ActiveOf, Creating
  <2>2. QED
    BY <2>1, FS_Subset, FS_CardinalityType
<1>3. CASE Active(u)' \subseteq Active(u) /\ Creating(u)' \subseteq Creating(u)
  <2>1. /\ Cardinality(Active(u)') <= Cardinality(Active(u))
        /\ Cardinality(Creating(u)') <= Cardinality(Creating(u))
    BY <1>1, <1>3, FS_Subset
  <2>2. QED
    BY <1>1, <1>2, <2>1
<1>4. CASE Active(u)' = {}
  <2>1. Cardinality(Active(u)') = 0
    BY <1>4, FS_EmptySet
  <2>2. QED
    BY <1>2, <2>1
<1>5. ASSUME NEW w \in Creating(u), NEW c \in Carts,
             Active(u)' \subseteq Active(u) \cup {c},
             Creating(u)' \subseteq Creating(u) \ {w}
      PROVE  Cardinality(Active(u)') + Cardinality(Creating(u)') <= Cardinality(Workers)
  <2>1. /\ IsFiniteSet(Creating(u) \ {w})
        /\ Cardinality(Creating(u) \ {w}) = Cardinality(Creating(u)) - 1
    BY <1>1, <1>5, FS_RemoveElement
  <2>2. Cardinality(Creating(u)') <= Cardinality(Creating(u)) - 1
    BY <1>5, <2>1, FS_Subset
  <2>3. /\ IsFiniteSet(Active(u) \cup {c})
        /\ \/ Cardinality(Active(u) \cup {c}) = Cardinality(Active(u))
           \/ Cardinality(Active(u) \cup {c}) = Cardinality(Active(u)) + 1
    <3>1. IsFiniteSet(Active(u))
      BY <1>1
    <3>2. QED
      BY <3>1, FS_AddElement
  <2>4. Cardinality(Active(u)') <= Cardinality(Active(u) \cup {c})
    BY <1>5, <2>3, FS_Subset
  <2>5. QED
    BY <1>1, <1>2, <2>2, <2>3, <2>4
<1>6. QED
  BY <1>3, <1>4, <1>5, ActiveStep

\* Nothing makes Cart.userId unique: getOrCreate reads (cart.service.ts:54),
\* then creates (57). Requests that overlap may leave a user several active carts,
\* never more than there were requests in flight.
THEOREM ActiveCarts == Spec => []ActiveCartsBound
<1>1. Init => TypeOK /\ ActiveRoom
  BY InitType, ActiveInit
<1>2. TypeOK /\ ActiveRoom /\ [Next]_vars => (TypeOK /\ ActiveRoom)'
  BY NextType, ActiveNext
<1>3. ActiveRoom => ActiveCartsBound
  <2> SUFFICES ASSUME ActiveRoom, NEW u \in Users
               PROVE  Cardinality(ActiveOf(AsUser(u))) <= Cardinality(Workers)
    BY DEF ActiveCartsBound
  <2>1. Cardinality(Active(u)) + Cardinality(Creating(u)) <= Cardinality(Workers)
    BY DEF ActiveRoom
  <2>2. QED
    BY <2>1, ActiveFinite DEF Active
<1>4. QED
  BY <1>1, <1>2, <1>3, PTL DEF Spec

-----------------------------------------------------------------------------
(* Requests served one after the other: what a request has read still holds  *)
(* when it writes.                                                           *)

OneAtATime == \A v, w \in Workers : v = w

OneRow(c, p) == line[c][p][1] = 0 \/ line[c][p][2] = 0

\* A request that found no row of the product still finds none; a merge writes
\* one row per product.
RowsRead(w) ==
  LET j == job[w] IN
  /\ j.op = "add" /\ j.at = "write" /\ j.row = 0 => Rows(j.cart, j.product) = {}
  /\ j.op = "merge" /\ j.at = "create" => j.rows = {}
  /\ j.op = "merge" /\ j.at # "create" =>
       /\ \A r \in j.rows : /\ r.product \notin j.todo
                            /\ r.new => Rows(j.cart, r.product) = {}
       /\ \A r, s \in j.rows : r.product = s.product => r = s

SerialLines ==
  /\ \A c \in Carts, p \in Products : OneRow(c, p)
  /\ \A w \in Workers : RowsRead(w)

LEMMA OneRowUnique ==
  ASSUME TypeOK, NEW c \in Carts, NEW p \in Products, OneRow(c, p)
  PROVE  Cardinality(Rows(c, p)) <= 1
<1>1. line[c][p][1] \in Nat /\ line[c][p][2] \in Nat
  BY LineType
<1>2. Rows(c, p) = {} \/ Rows(c, p) = {1} \/ Rows(c, p) = {2}
  BY <1>1 DEF OneRow, Rows
<1>3. Cardinality({}) = 0 /\ Cardinality({1}) = 1 /\ Cardinality({2}) = 1
  BY FS_EmptySet, FS_Singleton
<1>4. QED
  BY <1>2, <1>3

\* Writing the row that is there, or one where there is none, leaves one row.
LEMMA WriteOneRow ==
  ASSUME TypeOK, \A c \in Carts, p \in Products : OneRow(c, p),
         NEW d \in Carts, NEW q \in Products, NEW n \in Copies, NEW u \in Nat,
         n \in Rows(d, q) \/ Rows(d, q) = {},
         line' = [line EXCEPT ![d][q][n] = u],
         NEW c \in Carts, NEW p \in Products
  PROVE  OneRow(c, p)'
<1>1. /\ line[d] \in Wanted /\ line[d][q] \in [Copies -> Nat]
      /\ line[c] \in Wanted
  BY DEF TypeOK, Wanted
<1>2. \A k \in Copies :
        line'[c][p][k] = IF c = d /\ p = q /\ k = n THEN u ELSE line[c][p][k]
  BY <1>1 DEF TypeOK, Wanted
<1>3. OneRow(c, p)
  OBVIOUS
<1>4. CASE c = d /\ p = q
  BY <1>1, <1>2, <1>3, <1>4 DEF OneRow, Rows
<1>5. CASE ~(c = d /\ p = q)
  BY <1>2, <1>3, <1>5 DEF OneRow
<1>6. QED
  BY <1>4, <1>5

\* When the lines stay, only the request of w can have read something new.
LEMMA LinesStay ==
  ASSUME OneAtATime, SerialLines, NEW w \in Workers, line' = line, RowsRead(w)'
  PROVE  SerialLines'
BY DEF SerialLines, OneAtATime, OneRow, RowsRead

LEMMA LinesWritten ==
  ASSUME OneAtATime, NEW w \in Workers, job'[w] = Idle,
         \A c \in Carts, p \in Products : OneRow(c, p)'
  PROVE  SerialLines'
<1>1. RowsRead(w)'
  BY IdleOp DEF RowsRead
<1>2. QED
  BY <1>1 DEF SerialLines, OneAtATime

LEMMA LinesInit == Init => SerialLines
BY IdleOp DEF Init, SerialLines, OneRow, Empty, RowsRead

\* A request that starts has read no line yet.
LEMMA LinesBegin ==
  ASSUME TypeOK, OneAtATime, SerialLines, NEW w \in Workers, Begin(w)
  PROVE  SerialLines'
<1>1. PICK x \in Contexts :
        \/ \E p \in Products, q \in Quantities : AddItem(w, x, p, q)
        \/ \E q \in Quantities : UpdateItem(w, x, q)
        \/ RemoveItem(w, x) \/ Clear(w, x)
        \/ \E s \in Sessions : x.user # Nil /\ Merge(w, x.user, s)
        \/ \E coupon \in BOOLEAN :
             \/ OrderCart(w, x, coupon) \/ OrderActiveCart(w, x, coupon)
             \/ OrderItems(w, x, coupon)
  BY DEF Begin
<1>2. ASSUME NEW j, Start(w, j),
             \/ j.op = "add" /\ j.at \in {"create", "read"}
             \/ j.op = "merge" /\ j.rows = {}
             \/ j.op \in {"update", "remove", "clear", "order"}
      PROVE  SerialLines'
  <2>1. job'[w] = j /\ line' = line
    BY <1>2, ChangeOne DEF Start, tables
  <2>2. RowsRead(w)'
    BY <1>2, <2>1 DEF RowsRead
  <2>3. QED
    BY <2>1, <2>2, LinesStay
<1>3. ASSUME NEW p \in Products, NEW q \in Quantities, AddItem(w, x, p, q)
      PROVE  \E j : Start(w, j) /\ j.op = "add" /\ j.at \in {"create", "read"}
  <2> DEFINE j(at, c) == Adding(at, x, c, p, q, 0, 0)
  <2>1. Start(w, j("create", Nil)) \/ \E c : Start(w, j("read", c))
    BY <1>3 DEF AddItem
  <2>2. \A at, c : j(at, c).op = "add" /\ j(at, c).at = at
    BY DEF Adding
  <2> HIDE DEF j
  <2>3. QED
    BY <2>1, <2>2
<1>4. ASSUME NEW op \in {"update", "remove"}, NEW q, ResolveItem(w, op, x, q)
      PROVE  \E j : Start(w, j) /\ j.op = op
  <2> DEFINE j(c, p, k) == [op |-> op, at |-> "write", cart |-> c, product |-> p,
                            row |-> k, quantity |-> q]
  <2>1. \E c, p, k : Start(w, j(c, p, k))
    BY <1>4 DEF ResolveItem
  <2>2. \A c, p, k : j(c, p, k).op = op
    OBVIOUS
  <2> HIDE DEF j
  <2>3. QED
    BY <2>1, <2>2
<1>5. ASSUME Clear(w, x)
      PROVE  \E j : Start(w, j) /\ j.op = "clear"
  <2> DEFINE j(c) == [op |-> "clear", at |-> "write", cart |-> c]
  <2>1. \E c : Start(w, j(c))
    BY <1>5 DEF Clear
  <2>2. \A c : j(c).op = "clear"
    OBVIOUS
  <2> HIDE DEF j
  <2>3. QED
    BY <2>1, <2>2
<1>6. ASSUME NEW s \in Sessions, Merge(w, x.user, s)
      PROVE  \E j : Start(w, j) /\ j.op = "merge" /\ j.rows = {}
  <2> DEFINE j(g, at, c) ==
        [op |-> "merge", at |-> at, ctx |-> AsUser(x.user), cart |-> c,
         guest |-> g, wanted |-> line[g],
         todo |-> {p \in Products : Units(line[g], p) > 0},
         result |-> Empty, rows |-> {}]
  <2>1. PICK g : \/ Start(w, j(g, "create", Nil))
                 \/ \E c : Start(w, j(g, "read", c))
    BY <1>6 DEF Merge
  <2>2. \A at, c : j(g, at, c).op = "merge" /\ j(g, at, c).rows = {}
    OBVIOUS
  <2> HIDE DEF j
  <2>3. QED
    BY <2>1, <2>2
<1>7. ASSUME NEW coupon \in BOOLEAN,
             OrderCart(w, x, coupon) \/ OrderActiveCart(w, x, coupon)
               \/ OrderItems(w, x, coupon)
      PROVE  \E j : Start(w, j) /\ j.op = "order"
  BY <1>7, OrderRequest
<1>8. CASE \E q \in Quantities : UpdateItem(w, x, q)
  BY <1>2, <1>4, <1>8 DEF UpdateItem
<1>9. CASE RemoveItem(w, x) \/ Clear(w, x)
  BY <1>2, <1>4, <1>5, <1>9 DEF RemoveItem
<1>10. QED
  BY <1>1, <1>2, <1>3, <1>6, <1>7, <1>8, <1>9

LEMMA LinesRead ==
  ASSUME TypeOK, OneAtATime, SerialLines, NEW w \in Workers,
         CreateCart(w) \/ ReadLine(w) \/ ReadMerge(w) \/ DebitStock(w)
  PROVE  SerialLines'
<1>1. line' = line /\ RowsRead(w)
  BY DEF CreateCart, ReadLine, ReadMerge, DebitStock, tables, SerialLines
<1>2. RowsRead(w)'
  <2>1. CASE CreateCart(w)
    <3>1. PICK c \in Carts : job' = [job EXCEPT ![w].at = "read", ![w].cart = c]
      BY <2>1 DEF CreateCart
    <3>2. \/ job[w] \in AddJob /\ job[w].op = "add"
          \/ job[w] \in MergeJob /\ job[w].op = "merge" /\ job[w].at = "create"
      BY <2>1, JobKinds DEF CreateCart
    <3>3. /\ job'[w].op = job[w].op /\ job'[w].at = "read"
          /\ job[w].op = "merge" => job'[w].rows = job[w].rows
      BY <3>1, <3>2 DEF TypeOK, AddJob, MergeJob
    <3>4. job[w].op = "merge" => job'[w].rows = {}
      BY <1>1, <3>2, <3>3 DEF RowsRead
    <3>5. QED
      BY <3>3, <3>4 DEF RowsRead
  <2>2. CASE ReadLine(w)
    <3>1. /\ job'[w].op = "add" /\ job'[w].cart = job[w].cart
          /\ job'[w].product = job[w].product
          /\ job'[w].row = 0 => Rows(job[w].cart, job[w].product) = {}
      BY <2>2, ReadLineEffect
    <3>2. QED
      BY <1>1, <3>1 DEF RowsRead, Rows
  <2>3. CASE ReadMerge(w)
    <3>2. PICK p \in job[w].todo, k \in Copies :
            /\ Rows(job[w].cart, p) # {} => k \in Rows(job[w].cart, p)
            /\ job'[w].op = "merge" /\ job'[w].at \in {"read", "write"}
            /\ job'[w].cart = job[w].cart
            /\ job'[w].todo = job[w].todo \ {p}
            /\ job'[w].rows = job[w].rows \cup
                  {[product |-> p, row |-> k, new |-> line[job[w].cart][p][k] = 0]}
            /\ job'[w].result = [job[w].result EXCEPT ![p][k] =
                                  line[job[w].cart][p][k] + Units(job[w].wanted, p)]
            /\ job'[w].guest = job[w].guest /\ job'[w].wanted = job[w].wanted
            /\ job'[w].ctx = job[w].ctx
            /\ job'[w].at = "write" => job'[w].todo = {}
      BY <2>3, ReadMergeEffect
    <3>3. PICK r : r = [product |-> p, row |-> k, new |-> line[job[w].cart][p][k] = 0]
      OBVIOUS
    <3>4. r.product = p /\ (r.new => Rows(job[w].cart, p) = {})
      <4>1. r.product = p
        BY <3>3
      <4>2. r.new <=> line[job[w].cart][p][k] = 0
        BY <3>3, Zenon
      <4>3. line[job[w].cart][p][k] = 0 => k \notin Rows(job[w].cart, p)
        BY DEF Rows
      <4>4. QED
        BY <3>2, <4>1, <4>2, <4>3
    <3>5. /\ \A s \in job[w].rows : /\ s.product \notin job[w].todo
                                    /\ s.new => Rows(job[w].cart, s.product) = {}
          /\ \A s, t \in job[w].rows : s.product = t.product => s = t
      BY <1>1, <2>3 DEF ReadMerge, RowsRead
    <3>6. job'[w].rows = job[w].rows \cup {r}
      BY <3>2, <3>3
    <3>7. \A s \in job[w].rows : s.product # p
      BY <3>5
    <3>8. /\ \A s \in job'[w].rows : /\ s.product \notin job'[w].todo
                                     /\ s.new => Rows(job[w].cart, s.product) = {}
          /\ \A s, t \in job'[w].rows : s.product = t.product => s = t
      BY <3>2, <3>4, <3>5, <3>6, <3>7
    <3>9. QED
      BY <1>1, <3>2, <3>8 DEF RowsRead, Rows
  <2>4. CASE DebitStock(w)
    <3>1. PICK c : job' = [job EXCEPT ![w] = [@ EXCEPT !.at = "commit", !.converts = c]]
      BY <2>4, DebitEffect
    <3>2. job[w] \in OrderJob
      BY <2>4, JobKinds DEF DebitStock
    <3>3. job'[w].op = "order"
      BY <3>1, <3>2 DEF OrderJob, TypeOK
    <3>4. QED
      BY <3>3 DEF RowsRead
  <2>5. QED
    BY <2>1, <2>2, <2>3, <2>4
<1>3. QED
  BY <1>1, <1>2, LinesStay

LEMMA LinesOneWrite ==
  ASSUME TypeOK, OneAtATime, SerialLines, NEW w \in Workers,
         WriteLine(w) \/ WriteItem(w) \/ ClearLines(w)
  PROVE  SerialLines'
<1>1. job'[w] = Idle
  BY DEF WriteLine, WriteItem, ClearLines, Finish, TypeOK
<1>2. \A c \in Carts, p \in Products : OneRow(c, p)
  BY DEF SerialLines
<1>3. CASE line' = line
  BY <1>1, <1>2, <1>3, LinesWritten DEF OneRow
<1>4. CASE WriteLine(w) /\ line' # line
  <2>1. /\ job[w] \in AddJob /\ job[w].op = "add" /\ job[w].at = "write"
        /\ job[w].cart \in Carts /\ job[w].product \in Products
    BY <1>4, JobKinds DEF WriteLine, AddJob, HasCart
  <2>2. PICK q : q = job[w].base + job[w].quantity
    OBVIOUS
  <2>3. q \in Nat /\ job[w].row \in Copies \cup {0}
    <3>1. job[w].base \in Nat /\ job[w].quantity \in Quantities
          /\ job[w].row \in Copies \cup {0}
      BY <2>1 DEF AddJob
    <3>2. job[w].quantity \in Nat
      BY <3>1, QuantitiesType
    <3> HIDE DEF ConstantsAssumption
    <3>3. QED
      BY <2>2, <3>1, <3>2
  <2>4. PICK n \in Copies :
          /\ line' = [line EXCEPT ![job[w].cart][job[w].product][n] = q]
          /\ \/ job[w].row = 0
             \/ n = job[w].row /\ line[job[w].cart][job[w].product][n] > 0
    BY <1>4, <2>2, <2>3 DEF WriteLine
  <2>5. n \in Rows(job[w].cart, job[w].product) \/ Rows(job[w].cart, job[w].product) = {}
    <3>1. RowsRead(w)
      BY DEF SerialLines
    <3>2. QED
      BY <2>1, <2>4, <3>1 DEF RowsRead, Rows
  <2>6. \A c \in Carts, p \in Products : OneRow(c, p)'
    BY <1>2, <2>1, <2>3, <2>4, <2>5, WriteOneRow
  <2>7. QED
    BY <1>1, <2>6, LinesWritten
<1>5. CASE WriteItem(w) /\ line' # line
  <2>1. /\ job[w].cart \in Carts /\ job[w].product \in Products
        /\ job[w].row \in Copies /\ job[w].quantity \in Nat
    BY <1>5, JobKinds, QuantitiesType DEF WriteItem, ItemJob
  <2>2. /\ line' = [line EXCEPT ![job[w].cart][job[w].product][job[w].row] =
                                  job[w].quantity]
        /\ job[w].row \in Rows(job[w].cart, job[w].product)
    BY <1>5, <2>1 DEF WriteItem, Rows
  <2>3. \A c \in Carts, p \in Products : OneRow(c, p)'
    BY <1>2, <2>1, <2>2, WriteOneRow
  <2>4. QED
    BY <1>1, <2>3, LinesWritten
<1>6. CASE ClearLines(w)
  <2>1. \A c \in Carts : line'[c] = line[c] \/ line'[c] = Empty
    BY <1>6 DEF ClearLines, TypeOK
  <2>2. \A c \in Carts, p \in Products : OneRow(c, p)'
    BY <1>2, <2>1 DEF OneRow, Empty
  <2>3. QED
    BY <1>1, <2>2, LinesWritten
<1>7. QED
  BY <1>3, <1>4, <1>5, <1>6

\* The rows a merge writes: one per product, new where there was none.
LEMMA LinesMerge ==
  ASSUME TypeOK, OneAtATime, SerialLines, NEW w \in Workers, MergeCarts(w)
  PROVE  SerialLines'
<1>1. job'[w] = Idle
  BY DEF MergeCarts, Finish, TypeOK
<1>2. \A c \in Carts, p \in Products : OneRow(c, p)
  BY DEF SerialLines
<1>3. CASE line' = line
  BY <1>1, <1>2, <1>3, LinesWritten DEF OneRow
<1>4. CASE line' # line
  <2>1. /\ job[w].op = "merge" /\ job[w].at = "write" /\ job[w].cart \in Carts
        /\ job[w].rows \in SUBSET [product: Products, row: Copies, new: BOOLEAN]
    BY JobKinds DEF MergeCarts, MergeJob, HasCart
  <2>2. PICK d \in Carts : d = job[w].cart
    BY <2>1
  <2> DEFINE target == {<<r.product, r.row>> : r \in job[w].rows}
             merged == [p \in Products |-> [k \in Copies |->
                          IF <<p, k>> \in target THEN job[w].result[p][k]
                                                ELSE line[job[w].cart][p][k]]]
  <2>3. line' = [line EXCEPT ![job[w].cart] = merged]
    BY <1>4, <2>1 DEF MergeCarts, TypeOK
  <2>4. \A r \in job[w].rows : r.new <=> line[job[w].cart][r.product][r.row] = 0
    BY <1>4 DEF MergeCarts
  <2>5. /\ \A r \in job[w].rows : r.new => Rows(d, r.product) = {}
        /\ \A r, s \in job[w].rows : r.product = s.product => r = s
    BY <2>1, <2>2 DEF SerialLines, RowsRead
  <2>6. ASSUME NEW p \in Products, NEW k \in Copies, <<p, k>> \notin target
        PROVE  line'[d][p][k] = line[d][p][k]
    <3>1. merged[p][k] = line[d][p][k]
      BY <2>2, <2>6
    <3>2. line'[d] = merged
      BY <2>2, <2>3 DEF TypeOK
    <3> HIDE DEF merged
    <3>3. QED
      BY <3>1, <3>2
  <2>7. ASSUME NEW p \in Products, NEW k \in Copies, NEW i \in Copies, i # k,
               <<p, k>> \in target
        PROVE  line'[d][p][i] = 0
    <3>1. PICK r \in job[w].rows : r.product = p /\ r.row = k
      BY <2>1, <2>7
    <3>2. <<p, i>> \notin target
      <4>1. ASSUME NEW s \in job[w].rows, s.product = p, s.row = i PROVE FALSE
        BY <2>5, <2>7, <3>1, <4>1
      <4>2. QED
        BY <4>1
    <3>3. line[d][p][i] \in Nat /\ line[d][p][k] \in Nat
      BY LineType
    <3>4. line[d][p][i] = 0
      <4>1. CASE r.new
        <5>1. Rows(d, p) = {}
          BY <2>5, <3>1, <4>1
        <5>2. QED
          BY <3>3, <5>1 DEF Rows
      <4>2. CASE ~r.new
        <5>1. line[d][p][k] # 0
          BY <2>2, <2>4, <3>1, <4>2
        <5>2. QED
          BY <1>2, <2>7, <5>1 DEF OneRow
      <4>3. QED
        BY <4>1, <4>2
    <3>5. QED
      BY <2>6, <3>2, <3>4
  <2> HIDE DEF target, merged
  <2>8. ASSUME NEW p \in Products
        PROVE  OneRow(d, p)'
    <3>1. CASE <<p, 1>> \in target
      <4>1. 1 \in Copies /\ 2 \in Copies /\ 2 # 1
        OBVIOUS
      <4>2. line'[d][p][2] = 0
        BY <2>7, <3>1, <4>1, Zenon
      <4>3. QED
        BY <4>2 DEF OneRow
    <3>2. CASE <<p, 2>> \in target
      <4>1. 1 \in Copies /\ 2 \in Copies /\ 1 # 2
        OBVIOUS
      <4>2. line'[d][p][1] = 0
        BY <2>7, <3>2, <4>1, Zenon
      <4>3. QED
        BY <4>2 DEF OneRow
    <3>3. CASE <<p, 1>> \notin target /\ <<p, 2>> \notin target
      BY <1>2, <2>6, <3>3 DEF OneRow
    <3>4. QED
      BY <3>1, <3>2, <3>3
  <2>9. ASSUME NEW c \in Carts, c # d, NEW p \in Products
        PROVE  OneRow(c, p)'
    <3>1. line'[c] = line[c]
      BY <2>2, <2>3, <2>9 DEF TypeOK
    <3>2. QED
      BY <1>2, <3>1 DEF OneRow
  <2>10. \A c \in Carts, p \in Products : OneRow(c, p)'
    BY <2>8, <2>9
  <2>11. QED
    BY <1>1, <2>10, LinesWritten
<1>5. QED
  BY <1>3, <1>4

LEMMA LinesNext ==
  ASSUME TypeOK, OneAtATime, SerialLines, [Next]_vars
  PROVE  SerialLines'
<1>1. ASSUME NEW w \in Workers, PlaceOrder(w) \/ Die(w)
      PROVE  SerialLines'
  <2>1. job'[w] = Idle /\ line' = line
    BY <1>1 DEF PlaceOrder, Die, Finish, tables, TypeOK
  <2>2. \A c \in Carts, p \in Products : OneRow(c, p)'
    BY <2>1 DEF SerialLines, OneRow
  <2>3. QED
    BY <2>1, <2>2, LinesWritten
<1>2. CASE UNCHANGED vars
  BY <1>2 DEF vars, tables, SerialLines, OneRow, RowsRead, Rows
<1>3. QED
  BY <1>1, <1>2, LinesBegin, LinesRead, LinesOneWrite, LinesMerge DEF Next, Continue

\* addItem and merge look for the line, then create it (cart.service.ts:131,
\* 226): for want of a unique index that is safe only between requests that do
\* not overlap, of any number of customers and carts.
THEOREM SerialRows ==
  ASSUME OneAtATime
  PROVE  Spec => []LinesUnique
<1>1. Init => TypeOK /\ SerialLines
  BY InitType, LinesInit
<1>2. TypeOK /\ SerialLines /\ [Next]_vars => (TypeOK /\ SerialLines)'
  BY NextType, LinesNext
<1>3. TypeOK /\ SerialLines => LinesUnique
  BY OneRowUnique DEF SerialLines, LinesUnique
<1>4. QED
  BY <1>1, <1>2, <1>3, PTL DEF Spec

-----------------------------------------------------------------------------
(* One request at a time: what an order was told is in stock still is when   *)
(* its transaction debits it.                                                *)

ListedTwice(o, p) == order[o].lines[p][1] > 0 /\ order[o].lines[p][2] > 0

SerialStock ==
  /\ StockNotOversold
  /\ \A w \in Workers : job[w].op = "order" => InStock(job[w].wanted)
  /\ \A o \in Orders : ~order[o].placed => order[o].lines = Empty

LEMMA StockInit == Init => SerialStock
BY IdleOp DEF Init, SerialStock, StockNotOversold, NoOrder

\* A step that places no order keeps the tables the invariant is about.
LEMMA StockStays ==
  ASSUME OneAtATime, SerialStock, NEW w \in Workers,
         stock' = stock, order' = order,
         job'[w].op = "order" => InStock(job'[w].wanted)
  PROVE  SerialStock'
BY DEF OneAtATime, SerialStock, StockNotOversold, InStock

LEMMA StockRequest ==
  ASSUME TypeOK, OneAtATime, SerialStock, NEW w \in Workers, Begin(w)
  PROVE  SerialStock'
<1>1. PICK x \in Contexts :
        \/ \E p \in Products, q \in Quantities : AddItem(w, x, p, q)
        \/ \E q \in Quantities : UpdateItem(w, x, q)
        \/ RemoveItem(w, x) \/ Clear(w, x)
        \/ \E s \in Sessions : x.user # Nil /\ Merge(w, x.user, s)
        \/ \E coupon \in BOOLEAN :
             \/ OrderCart(w, x, coupon) \/ OrderActiveCart(w, x, coupon)
             \/ OrderItems(w, x, coupon)
  BY DEF Begin
<1>2. ASSUME NEW j, Start(w, j), j.op = "order" => InStock(j.wanted)
      PROVE  SerialStock'
  BY <1>2, ChangeOne, StockStays DEF Start, tables
<1>3. ASSUME NEW coupon, NEW cartId, NEW from, NEW wanted,
             Resolve(w, x, cartId, from, wanted, coupon)
      PROVE  SerialStock'
  <2>1. PICK j : j = [op |-> "order", at |-> "place", user |-> x.user,
                      cartId |-> cartId, from |-> from, wanted |-> wanted,
                      coupon |-> coupon, converts |-> Nil]
    OBVIOUS
  <2>2. Start(w, j) /\ InStock(wanted) /\ j.wanted = wanted
    BY <1>3, <2>1 DEF Resolve
  <2>3. QED
    BY <1>2, <2>2
<1>4. CASE \E coupon \in BOOLEAN :
             \/ OrderCart(w, x, coupon) \/ OrderActiveCart(w, x, coupon)
             \/ OrderItems(w, x, coupon)
  BY <1>3, <1>4 DEF OrderCart, OrderActiveCart, OrderItems
<1>5. QED
  BY <1>1, <1>2, <1>4, OtherRequest

\* The debit of an order that lists a product once leaves nothing below zero.
LEMMA StockPlaced ==
  ASSUME TypeOK, OneAtATime, SerialStock, NEW w \in Workers, PlaceOrder(w)
  PROVE  SerialStock'
<1>1. job[w] \in OrderJob /\ job[w].op = "order"
  BY JobKinds DEF PlaceOrder
<1>2. PICK wanted : wanted = job[w].wanted
  OBVIOUS
<1>3. wanted \in Wanted /\ InStock(wanted)
  BY <1>1, <1>2 DEF OrderJob, SerialStock
<1>4. PICK o \in Orders :
        /\ ~order[o].placed
        /\ order' = [order EXCEPT ![o] =
             [placed |-> TRUE, cartId |-> job[w].cartId, from |-> job[w].from,
              user |-> job[w].user, lines |-> wanted, coupon |-> job[w].coupon]]
  BY <1>2 DEF PlaceOrder
<1>5. /\ order'[o].placed /\ order'[o].lines = wanted
      /\ \A x \in Orders \ {o} : order'[x] = order[x]
  BY <1>4 DEF TypeOK
<1>6. stock' = [p \in Products |-> stock[p] - Units(wanted, p)]
  BY <1>2 DEF PlaceOrder
<1>7. ASSUME NEW p \in Products
      PROVE  stock'[p] >= 0 \/ \E x \in Orders : ListedTwice(x, p)'
  <2>1. wanted[p][1] \in Nat /\ wanted[p][2] \in Nat /\ stock[p] \in Int
    BY <1>3 DEF Wanted, TypeOK
  <2>2. stock'[p] = stock[p] - (wanted[p][1] + wanted[p][2])
    BY <1>6 DEF Units
  <2>3. /\ wanted[p][1] > 0 => wanted[p][1] <= stock[p]
        /\ wanted[p][2] > 0 => wanted[p][2] <= stock[p]
    BY <1>3 DEF InStock
  <2>4. CASE wanted[p][1] > 0 /\ wanted[p][2] > 0
    BY <1>5, <2>4 DEF ListedTwice
  <2>5. CASE wanted[p][1] = 0 /\ wanted[p][2] = 0
    <3>1. stock'[p] = stock[p]
      BY <2>1, <2>2, <2>5
    <3>2. CASE stock[p] >= 0
      BY <3>1, <3>2
    <3>3. CASE \E x \in Orders : ListedTwice(x, p)
      <4>1. PICK x \in Orders : ListedTwice(x, p)
        BY <3>3
      <4>2. x # o
        BY <1>4, <4>1 DEF ListedTwice, SerialStock, Empty
      <4>3. QED
        BY <1>5, <4>1, <4>2 DEF ListedTwice
    <3>4. QED
      BY <3>2, <3>3 DEF SerialStock, StockNotOversold, ListedTwice
  <2>6. CASE \/ wanted[p][1] > 0 /\ wanted[p][2] = 0
             \/ wanted[p][1] = 0 /\ wanted[p][2] > 0
    BY <2>1, <2>2, <2>3, <2>6
  <2>7. QED
    BY <2>1, <2>4, <2>5, <2>6
<1>8. StockNotOversold'
  BY <1>7 DEF StockNotOversold, ListedTwice
<1>9. \A x \in Orders : ~order'[x].placed => order'[x].lines = Empty
  BY <1>5 DEF SerialStock
<1>10. job'[w].op # "order"
  BY FinishOne DEF PlaceOrder
<1>11. QED
  BY <1>8, <1>9, <1>10 DEF SerialStock, OneAtATime, Empty

LEMMA StockNext ==
  ASSUME TypeOK, OneAtATime, SerialStock, [Next]_vars
  PROVE  SerialStock'
<1>1. ASSUME NEW w \in Workers, CartStep(w)
      PROVE  SerialStock'
  <2>1. PICK j : j.op # "order" /\ job' = [job EXCEPT ![w] = j]
    BY <1>1, CartStepEffect
  <2>2. stock' = stock /\ order' = order
    BY <1>1, CartStepEffect
  <2>3. job'[w].op # "order"
    BY <2>1, ChangeOne
  <2>4. QED
    BY <2>2, <2>3, StockStays
<1>2. ASSUME NEW w \in Workers, DebitStock(w)
      PROVE  SerialStock'
  <2>1. PICK c : job' = [job EXCEPT ![w] = [@ EXCEPT !.at = "commit", !.converts = c]]
    BY <1>2, DebitEffect
  <2>2. job[w] \in OrderJob /\ job[w].op = "order" /\ UNCHANGED tables
    BY <1>2, JobKinds DEF DebitStock
  <2>3. job'[w].wanted = job[w].wanted
    BY <2>1, <2>2 DEF OrderJob, TypeOK
  <2>4. InStock(job[w].wanted)
    BY <2>2 DEF SerialStock
  <2>5. QED
    BY <2>2, <2>3, <2>4, StockStays DEF tables
<1>3. ASSUME NEW w \in Workers, Die(w)
      PROVE  SerialStock'
  BY <1>3, FinishOne, StockStays DEF Die, tables
<1>4. CASE UNCHANGED vars
  BY <1>4 DEF vars, tables, SerialStock, StockNotOversold, InStock
<1>5. QED
  BY <1>1, <1>2, <1>3, <1>4, StockRequest, StockPlaced DEF Next, Continue, CartStep

\* Each line of an order is checked against the stock on its own and the debit
\* comes later (orders.service.ts:807, 239): between requests that do not
\* overlap, only an order that lists a product twice takes more than there is.
THEOREM SerialStockHolds ==
  ASSUME OneAtATime
  PROVE  Spec => []StockNotOversold
<1>1. Init => TypeOK /\ SerialStock
  BY InitType, StockInit
<1>2. TypeOK /\ SerialStock /\ [Next]_vars => (TypeOK /\ SerialStock)'
  BY NextType, StockNext
<1>3. SerialStock => StockNotOversold
  BY DEF SerialStock
<1>4. QED
  BY <1>1, <1>2, <1>3, PTL DEF Spec

-----------------------------------------------------------------------------
(* One request at a time, and no request that carries both ids: a merge      *)
(* moves the guest's units and loses none.                                   *)

\* A request is the user's or the guest session's, never both.  With both, the
\* user's own cart is found by its session and merged with itself.
IdsApart == \A x \in Contexts : x.user = Nil \/ x.session = Nil
CartIdsApart == \A c \in Carts : cart[c].user = Nil \/ cart[c].session = Nil

\* What a merge has read of the guest's cart and of the user's is still so, and
\* each product of the guest is to be read yet or has the row that takes it.
MergePlanned(w) ==
  LET j == job[w] IN
  j.op = "merge" =>
    /\ cart[j.guest].status = "ACTIVE" /\ cart[j.guest].user = Nil
    /\ j.wanted = line[j.guest]
    /\ j.at # "create" => cart[j.cart].status = "ACTIVE" /\ cart[j.cart].user # Nil
    /\ j.at = "write" => j.todo = {}
    /\ \A p \in Products :
         p \in j.todo \/ Units(j.wanted, p) = 0 \/ \E r \in j.rows : r.product = p
    /\ \A r \in j.rows :
         j.result[r.product][r.row] =
           line[j.cart][r.product][r.row] + Units(j.wanted, r.product)

SerialMerge == CartIdsApart /\ \A w \in Workers : MergePlanned(w)

LEMMA MergeInit == Init => SerialMerge
BY IdleOp DEF Init, SerialMerge, CartIdsApart, NoCart, MergePlanned

\* A cart keeps its ids once it is created, by a request that carries one.
LEMMA IdsStay ==
  ASSUME TypeOK, IdsApart, CartIdsApart, [Next]_vars
  PROVE  CartIdsApart'
<1>1. CASE cart' = cart
  BY <1>1 DEF CartIdsApart
<1>2. ASSUME NEW w \in Workers, CreateCart(w)
      PROVE  CartIdsApart'
  <2>1. PICK d \in Carts :
          cart' = [cart EXCEPT ![d] = [user |-> job[w].ctx.user,
                                       session |-> job[w].ctx.session,
                                       status |-> "ACTIVE"]]
    BY <1>2 DEF CreateCart
  <2>2. job[w].ctx \in Contexts \/ job[w].ctx \in [user: Users, session: {Nil}]
    BY <1>2, JobKinds DEF CreateCart, AddJob, MergeJob
  <2>3. job[w].ctx.user = Nil \/ job[w].ctx.session = Nil
    BY <2>2 DEF IdsApart
  <2>4. QED
    BY <2>1, <2>3 DEF CartIdsApart, TypeOK
<1>3. ASSUME NEW w \in Workers, MergeCarts(w) \/ PlaceOrder(w)
      PROVE  CartIdsApart'
  <2>1. \A c \in Carts : cart'[c].user = cart[c].user /\ cart'[c].session = cart[c].session
    <3>1. CASE MergeCarts(w)
      <4>1. cart' = cart \/ cart' = [cart EXCEPT ![job[w].guest].status = "CONVERTED"]
        BY <3>1 DEF MergeCarts
      <4>2. \A c \in Carts :
              cart'[c] = cart[c] \/ cart'[c] = [cart[c] EXCEPT !.status = "CONVERTED"]
        BY <4>1 DEF TypeOK
      <4>3. \A c \in Carts : cart[c] \in CartRow
        BY DEF TypeOK
      <4>4. QED
        BY <4>2, <4>3 DEF CartRow
    <3>2. CASE PlaceOrder(w)
      <4>1. \A c \in Carts :
              cart'[c] = cart[c] \/ cart'[c] = [cart[c] EXCEPT !.status = "CONVERTED"]
        BY <3>2 DEF PlaceOrder
      <4>2. \A c \in Carts : cart[c] \in CartRow
        BY DEF TypeOK
      <4>3. QED
        BY <4>1, <4>2 DEF CartRow
    <3>3. QED
      BY <1>3, <3>1, <3>2
  <2>2. QED
    BY <2>1 DEF CartIdsApart
<1>4. ASSUME NEW w \in Workers,
             \/ Begin(w) \/ ReadLine(w) \/ WriteLine(w) \/ WriteItem(w) \/ ClearLines(w)
             \/ ReadMerge(w) \/ DebitStock(w) \/ Die(w)
      PROVE  cart' = cart
  BY <1>4 DEF Begin, AddItem, UpdateItem, RemoveItem, ResolveItem, Clear, Merge,
              OrderCart, OrderActiveCart, OrderItems, Resolve, Start, ReadLine,
              WriteLine, WriteItem, ClearLines, ReadMerge, DebitStock, Die, tables
<1>5. QED
  BY <1>1, <1>2, <1>3, <1>4 DEF Next, Continue, vars, tables

LEMMA UnitsType ==
  ASSUME TypeOK, NEW c \in Carts, NEW p \in Products
  PROVE  Units(line[c], p) \in Nat
<1>1. line[c][p][1] \in Nat /\ line[c][p][2] \in Nat
  BY LineType
<1> HIDE DEF ConstantsAssumption
<1>2. QED
  BY <1>1 DEF Units

LEMMA UnitsTypeNext ==
  ASSUME TypeOK', NEW c \in Carts, NEW p \in Products
  PROVE  Units(line'[c], p) \in Nat
<1>1. line'[c][p][1] \in Nat /\ line'[c][p][2] \in Nat
  BY DEF TypeOK, Wanted
<1> HIDE DEF ConstantsAssumption
<1>2. QED
  BY <1>1 DEF Units

\* A merge that starts has read the guest's lines and nothing else.
LEMMA MergeStarts ==
  ASSUME TypeOK, CartIdsApart, NEW w \in Workers, NEW u \in Users, NEW s \in Sessions,
         Merge(w, u, s)
  PROVE  MergePlanned(w)'
<1> DEFINE j(g, at, c) ==
      [op |-> "merge", at |-> at, ctx |-> AsUser(u), cart |-> c,
       guest |-> g, wanted |-> line[g],
       todo |-> {p \in Products : Units(line[g], p) > 0},
       result |-> Empty, rows |-> {}]
<1>1. PICK g \in Carts :
        /\ g \in ActiveOf([user |-> Nil, session |-> s])
        /\ \/ Start(w, j(g, "create", Nil))
           \/ \E c \in ActiveOf(AsUser(u)) : Start(w, j(g, "read", c))
  BY DEF Merge, ActiveOf
<1>2. s # Nil /\ u # Nil
  BY ConstantsAssumption
<1>3. cart[g].status = "ACTIVE" /\ cart[g].user = Nil
  BY <1>1, <1>2 DEF ActiveOf, CartIdsApart
<1>4. PICK at, c : /\ Start(w, j(g, at, c))
                   /\ at \in {"create", "read"}
                   /\ at = "read" => c \in ActiveOf(AsUser(u))
  <2> HIDE DEF j
  <2>1. QED
    BY <1>1
<1>5. at = "read" => cart[c].status = "ACTIVE" /\ cart[c].user # Nil
  BY <1>2, <1>4 DEF ActiveOf, AsUser
<1>6. job'[w] = j(g, at, c) /\ cart' = cart /\ line' = line
  BY <1>4, ChangeOne DEF Start, tables
<1>7. \A p \in Products : p \in job'[w].todo \/ Units(line[g], p) = 0
  <2>1. \A p \in Products : Units(line[g], p) \in Nat
    BY UnitsType
  <2>2. QED
    BY <1>6, <2>1
<1>8. QED
  BY <1>3, <1>4, <1>5, <1>6, <1>7 DEF MergePlanned

LEMMA MergeCreates ==
  ASSUME TypeOK, NEW w \in Workers, MergePlanned(w), RowsRead(w),
         CreateCart(w), job[w].op = "merge"
  PROVE  MergePlanned(w)'
<1>1. PICK c \in Carts :
        /\ FreshCart(c)
        /\ cart' = [cart EXCEPT ![c] = [user |-> job[w].ctx.user,
                                        session |-> job[w].ctx.session,
                                        status |-> "ACTIVE"]]
        /\ job' = [job EXCEPT ![w].at = "read", ![w].cart = c]
        /\ line' = line
  BY DEF CreateCart
<1>2. job[w] \in MergeJob /\ job[w].at = "create"
  BY JobKinds DEF CreateCart
<1>3. /\ job'[w].op = "merge" /\ job'[w].at = "read" /\ job'[w].cart = c
      /\ job'[w].guest = job[w].guest /\ job'[w].wanted = job[w].wanted
      /\ job'[w].todo = job[w].todo /\ job'[w].rows = job[w].rows
  BY <1>1, <1>2 DEF MergeJob, TypeOK
<1>4. job[w].rows = {} /\ job[w].ctx.user \in Users /\ job[w].guest \in Carts
  BY <1>2 DEF RowsRead, MergeJob
<1>5. job[w].guest # c
  BY <1>1 DEF MergePlanned, FreshCart
<1>6. cart'[job[w].guest] = cart[job[w].guest]
      /\ cart'[c].status = "ACTIVE" /\ cart'[c].user # Nil
  <2>1. job[w].ctx.user # Nil
    BY <1>4, ConstantsAssumption
  <2>2. QED
    BY <1>1, <1>4, <1>5, <2>1 DEF TypeOK
<1>7. QED
  BY <1>1, <1>3, <1>4, <1>6 DEF MergePlanned

LEMMA MergeReads ==
  ASSUME TypeOK, NEW w \in Workers, MergePlanned(w), RowsRead(w), ReadMerge(w)
  PROVE  MergePlanned(w)'
<1>1. PICK p \in job[w].todo, k \in Copies :
        /\ Rows(job[w].cart, p) # {} => k \in Rows(job[w].cart, p)
        /\ job'[w].op = "merge" /\ job'[w].at \in {"read", "write"}
        /\ job'[w].cart = job[w].cart
        /\ job'[w].todo = job[w].todo \ {p}
        /\ job'[w].rows = job[w].rows \cup
              {[product |-> p, row |-> k, new |-> line[job[w].cart][p][k] = 0]}
        /\ job'[w].result = [job[w].result EXCEPT ![p][k] =
                              line[job[w].cart][p][k] + Units(job[w].wanted, p)]
        /\ job'[w].guest = job[w].guest /\ job'[w].wanted = job[w].wanted
        /\ job'[w].ctx = job[w].ctx
        /\ job'[w].at = "write" => job'[w].todo = {}
  BY ReadMergeEffect
<1>2. /\ job[w] \in MergeJob /\ job[w].op = "merge" /\ job[w].at = "read"
      /\ cart' = cart /\ line' = line
  BY JobKinds DEF ReadMerge, tables
<1>3. /\ job[w].result \in Wanted /\ p \in Products
      /\ job[w].rows \in SUBSET [product: Products, row: Copies, new: BOOLEAN]
  BY <1>2 DEF MergeJob
<1>4. PICK n : n = line[job[w].cart][p][k] + Units(job[w].wanted, p)
  OBVIOUS
<1>5. PICK a : a = [product |-> p, row |-> k, new |-> line[job[w].cart][p][k] = 0]
  OBVIOUS
<1>6. a.product = p /\ a.row = k
  BY <1>5
<1>7. \A q \in Products, i \in Copies :
        job'[w].result[q][i] = IF q = p /\ i = k THEN n ELSE job[w].result[q][i]
  BY <1>1, <1>3, <1>4 DEF Wanted
<1>8. \A r \in job[w].rows : r.product # p
  BY <1>1, <1>2 DEF RowsRead
<1>9. \A r \in job'[w].rows : r \in job[w].rows \/ r = a
  BY <1>1, <1>5
<1>10. ASSUME NEW r \in job'[w].rows
       PROVE  job'[w].result[r.product][r.row] =
                line[job[w].cart][r.product][r.row] + Units(job[w].wanted, r.product)
  <2>1. CASE r = a
    BY <1>3, <1>4, <1>6, <1>7, <2>1
  <2>2. CASE r \in job[w].rows
    <3>1. job'[w].result[r.product][r.row] = job[w].result[r.product][r.row]
      BY <1>3, <1>7, <1>8, <2>2
    <3>2. QED
      BY <1>2, <2>2, <3>1 DEF MergePlanned
  <2>3. QED
    BY <1>9, <2>1, <2>2
<1>11. ASSUME NEW q \in Products
       PROVE  \/ q \in job'[w].todo \/ Units(job[w].wanted, q) = 0
              \/ \E r \in job'[w].rows : r.product = q
  BY <1>1, <1>2, <1>5, <1>6 DEF MergePlanned
<1>12. QED
  BY <1>1, <1>2, <1>10, <1>11 DEF MergePlanned

LEMMA MergeNext ==
  ASSUME TypeOK, OneAtATime, IdsApart, SerialLines, SerialMerge, [Next]_vars
  PROVE  SerialMerge'
<1>1. CartIdsApart'
  BY IdsStay DEF SerialMerge
<1>2. ASSUME NEW w \in Workers, MergePlanned(w)'
      PROVE  SerialMerge'
  BY <1>1, <1>2 DEF SerialMerge, OneAtATime
<1>3. ASSUME NEW w \in Workers, job'[w].op # "merge"
      PROVE  SerialMerge'
  BY <1>2, <1>3 DEF MergePlanned
<1>4. ASSUME NEW w \in Workers, Begin(w)
      PROVE  SerialMerge'
  <2>1. PICK x \in Contexts :
          \/ \E p \in Products, q \in Quantities : AddItem(w, x, p, q)
          \/ \E q \in Quantities : UpdateItem(w, x, q)
          \/ RemoveItem(w, x) \/ Clear(w, x)
          \/ \E s \in Sessions : x.user # Nil /\ Merge(w, x.user, s)
          \/ \E coupon \in BOOLEAN :
               \/ OrderCart(w, x, coupon) \/ OrderActiveCart(w, x, coupon)
               \/ OrderItems(w, x, coupon)
    BY <1>4 DEF Begin
  <2>2. CASE \E s \in Sessions : x.user # Nil /\ Merge(w, x.user, s)
    <3>1. PICK s \in Sessions : x.user # Nil /\ Merge(w, x.user, s)
      BY <2>2
    <3>2. x.user \in Users
      BY <3>1, ConstantsAssumption
    <3>3. QED
      BY <1>2, <3>1, <3>2, MergeStarts DEF SerialMerge
  <2>3. ASSUME NEW j, Start(w, j), j.op # "merge"
        PROVE  SerialMerge'
    <3>1. job'[w] = j
      BY <2>3, ChangeOne DEF Start
    <3>2. QED
      BY <1>3, <2>3, <3>1
  <2>4. CASE \/ \E p \in Products, q \in Quantities : AddItem(w, x, p, q)
             \/ \E q \in Quantities : UpdateItem(w, x, q)
             \/ RemoveItem(w, x) \/ Clear(w, x)
    BY <2>3, <2>4 DEF AddItem, Adding, UpdateItem, RemoveItem, ResolveItem, Clear
  <2>5. CASE \E coupon \in BOOLEAN :
               \/ OrderCart(w, x, coupon) \/ OrderActiveCart(w, x, coupon)
               \/ OrderItems(w, x, coupon)
    <3>1. \E j : Start(w, j) /\ j.op = "order"
      BY <2>5, OrderRequest
    <3>2. QED
      BY <2>3, <3>1
  <2>6. QED
    BY <2>1, <2>2, <2>4, <2>5
<1>5. ASSUME NEW w \in Workers, CreateCart(w)
      PROVE  SerialMerge'
  <2>1. CASE job[w].op = "merge"
    BY <1>2, <1>5, <2>1, MergeCreates DEF SerialMerge, SerialLines
  <2>2. CASE job[w].op = "add"
    <3>1. job[w] \in AddJob
      BY <2>2, JobKinds
    <3>2. job'[w].op = "add"
      BY <1>5, <2>2, <3>1 DEF CreateCart, AddJob, TypeOK
    <3>3. QED
      BY <1>3, <3>2
  <2>3. QED
    BY <1>5, <2>1, <2>2 DEF CreateCart
<1>6. ASSUME NEW w \in Workers, ReadMerge(w)
      PROVE  SerialMerge'
  BY <1>2, <1>6, MergeReads DEF SerialMerge, SerialLines
<1>7. ASSUME NEW w \in Workers, ReadLine(w)
      PROVE  SerialMerge'
  BY <1>3, <1>7, ReadLineEffect
<1>8. ASSUME NEW w \in Workers,
             \/ WriteLine(w) \/ WriteItem(w) \/ ClearLines(w) \/ MergeCarts(w)
             \/ PlaceOrder(w) \/ Die(w)
      PROVE  SerialMerge'
  <2>1. job'[w] = Idle
    BY <1>8 DEF WriteLine, WriteItem, ClearLines, MergeCarts, PlaceOrder, Die, Finish, TypeOK
  <2>2. QED
    BY <1>3, <2>1, IdleOp
<1>9. ASSUME NEW w \in Workers, DebitStock(w)
      PROVE  SerialMerge'
  <2>1. PICK c : job' = [job EXCEPT ![w] = [@ EXCEPT !.at = "commit", !.converts = c]]
    BY <1>9, DebitEffect
  <2>2. job[w] \in OrderJob
    BY <1>9, JobKinds DEF DebitStock
  <2>3. job'[w].op = "order"
    BY <2>1, <2>2 DEF OrderJob, TypeOK
  <2>4. QED
    BY <1>3, <2>3
<1>10. CASE UNCHANGED vars
  BY <1>10 DEF vars, tables, SerialMerge, CartIdsApart, MergePlanned
<1>11. QED
  BY <1>4, <1>5, <1>6, <1>7, <1>8, <1>9, <1>10 DEF Next, Continue

\* The lines a merge writes: the user's units of each product and the guest's.
LEMMA MergeAdds ==
  ASSUME TypeOK, NEW w \in Workers, MergePlanned(w), RowsRead(w),
         MergeCarts(w), cart' # cart
  PROVE  \E g, d \in Carts :
           /\ g # d /\ cart[g].status = "ACTIVE" /\ cart[d].status = "ACTIVE"
           /\ cart' = [cart EXCEPT ![g].status = "CONVERTED"]
           /\ \A c \in Carts : c # d => line'[c] = line[c]
           /\ \A p \in Products :
                Units(line'[d], p) = Units(line[d], p) + Units(line[g], p)
<1>1. /\ job[w] \in MergeJob /\ job[w].op = "merge" /\ job[w].at = "write"
      /\ job[w].cart \in Carts /\ job[w].guest \in Carts
      /\ job[w].rows \in SUBSET [product: Products, row: Copies, new: BOOLEAN]
  BY JobKinds DEF MergeCarts, MergeJob, HasCart
<1>2. PICK g, d \in Carts : g = job[w].guest /\ d = job[w].cart
  BY <1>1
<1>3. /\ cart[g].status = "ACTIVE" /\ cart[g].user = Nil
      /\ cart[d].status = "ACTIVE" /\ cart[d].user # Nil
      /\ job[w].wanted = line[g] /\ job[w].todo = {}
  BY <1>1, <1>2 DEF MergePlanned
<1> DEFINE target == {<<r.product, r.row>> : r \in job[w].rows}
           writes == [p \in Products |-> [k \in Copies |->
                        IF <<p, k>> \in target THEN job[w].result[p][k]
                                              ELSE line[job[w].cart][p][k]]]
<1>4. /\ cart' = [cart EXCEPT ![job[w].guest].status = "CONVERTED"]
      /\ line' = [line EXCEPT ![job[w].cart] = writes]
  BY <1>1 DEF MergeCarts, TypeOK
<1>5. PICK merged : merged = writes
  OBVIOUS
<1>6. \A p \in Products, k \in Copies :
        merged[p][k] = IF <<p, k>> \in target THEN job[w].result[p][k] ELSE line[d][p][k]
  BY <1>2, <1>5
<1> HIDE DEF writes
<1>7. /\ cart' = [cart EXCEPT ![g].status = "CONVERTED"]
      /\ line' = [line EXCEPT ![d] = merged]
  BY <1>2, <1>4, <1>5
<1>8. line'[d] = merged /\ \A c \in Carts : c # d => line'[c] = line[c]
  BY <1>7 DEF TypeOK
<1>9. ASSUME NEW p \in Products
      PROVE  Units(merged, p) = Units(line[d], p) + Units(line[g], p)
  <2>1. PICK m, n, u \in Nat : /\ m = line[d][p][1] /\ n = line[d][p][2]
                               /\ u = Units(line[g], p)
    BY LineType, UnitsType
  <2>2. /\ merged[p][1] = IF <<p, 1>> \in target THEN job[w].result[p][1] ELSE m
        /\ merged[p][2] = IF <<p, 2>> \in target THEN job[w].result[p][2] ELSE n
    BY <1>6, <2>1
  <2>3. \A r \in job[w].rows : r.product = p => job[w].result[p][r.row] = line[d][p][r.row] + u
    BY <1>1, <1>2, <1>3, <2>1 DEF MergePlanned
  <2>4. \A r, s \in job[w].rows : r.product = p /\ s.product = p => r = s
    BY <1>1 DEF RowsRead
  <2>5. \A k \in Copies : <<p, k>> \in target <=> \E r \in job[w].rows : r.product = p /\ r.row = k
    OBVIOUS
  <2>6. CASE \E r \in job[w].rows : r.product = p
    <3>1. PICK r \in job[w].rows : r.product = p
      BY <2>6
    <3>2. r.row \in {1, 2}
      BY <1>1, <3>1
    <3>3. \A k \in Copies : <<p, k>> \in target <=> k = r.row
      BY <2>4, <2>5, <3>1
    <3>4. CASE r.row = 1
      <4>1. merged[p][1] = m + u /\ merged[p][2] = n
        BY <2>1, <2>2, <2>3, <3>1, <3>3, <3>4
      <4>2. QED
        BY <2>1, <4>1 DEF Units
    <3>5. CASE r.row = 2
      <4>1. merged[p][1] = m /\ merged[p][2] = n + u
        BY <2>1, <2>2, <2>3, <3>1, <3>3, <3>5
      <4>2. QED
        BY <2>1, <4>1 DEF Units
    <3>6. QED
      BY <3>2, <3>4, <3>5
  <2>7. CASE ~ \E r \in job[w].rows : r.product = p
    <3>1. u = 0
      BY <1>1, <1>3, <2>1, <2>7 DEF MergePlanned
    <3>2. merged[p][1] = m /\ merged[p][2] = n
      BY <2>2, <2>5, <2>7
    <3>3. QED
      BY <2>1, <3>1, <3>2 DEF Units
  <2>8. QED
    BY <2>6, <2>7
<1>10. g # d
  BY <1>3
<1>11. \A p \in Products : Units(line'[d], p) = Units(line[d], p) + Units(line[g], p)
  BY <1>8, <1>9
<1>12. cart[g].status = "ACTIVE" /\ cart[d].status = "ACTIVE"
  BY <1>3
<1>13. QED
  BY <1>7, <1>8, <1>10, <1>11, <1>12, Zenon

\* A cart is CONVERTED by an order, which is then there, or by a merge.
LEMMA ConvertedByMerge ==
  ASSUME TypeOK, [Next]_vars, Converted' # Converted, order' = order
  PROVE  \E w \in Workers : MergeCarts(w) /\ cart' # cart
<1>1. cart' # cart
  BY DEF Converted
<1>2. ASSUME NEW w \in Workers, CreateCart(w)
      PROVE  FALSE
  <2>1. PICK d \in Carts :
          /\ cart[d].status = "none"
          /\ cart' = [cart EXCEPT ![d] = [user |-> job[w].ctx.user,
                                          session |-> job[w].ctx.session,
                                          status |-> "ACTIVE"]]
    BY <1>2 DEF CreateCart, FreshCart
  <2>2. \A c \in Carts : cart'[c].status = "CONVERTED" <=> cart[c].status = "CONVERTED"
    BY <2>1 DEF TypeOK
  <2>3. QED
    BY <2>2 DEF Converted
<1>3. ASSUME NEW w \in Workers, PlaceOrder(w)
      PROVE  FALSE
  <2>1. PICK o \in Orders, r \in [placed: {TRUE}, cartId: {job[w].cartId},
                                  from: {job[w].from}, user: {job[w].user},
                                  lines: {job[w].wanted}, coupon: {job[w].coupon}] :
          ~order[o].placed /\ order' = [order EXCEPT ![o] = r]
    BY <1>3 DEF PlaceOrder
  <2>2. order'[o].placed
    BY <2>1 DEF TypeOK
  <2>3. QED
    BY <2>1, <2>2
<1>4. ASSUME NEW w \in Workers,
             \/ Begin(w) \/ ReadLine(w) \/ WriteLine(w) \/ WriteItem(w) \/ ClearLines(w)
             \/ ReadMerge(w) \/ DebitStock(w) \/ Die(w)
      PROVE  cart' = cart
  BY <1>4 DEF Begin, AddItem, UpdateItem, RemoveItem, ResolveItem, Clear, Merge,
              OrderCart, OrderActiveCart, OrderItems, Resolve, Start, ReadLine,
              WriteLine, WriteItem, ClearLines, ReadMerge, DebitStock, Die, tables
<1>5. QED
  BY <1>1, <1>2, <1>3, <1>4 DEF Next, Continue, vars, tables

LEMMA MergeKeeps ==
  ASSUME TypeOK, TypeOK', SerialLines, SerialMerge, [Next]_vars,
         Converted' # Converted, order' = order, NEW p \in Products
  PROVE  InCarts(p)' = InCarts(p)
<1>1. PICK w \in Workers : MergeCarts(w) /\ cart' # cart
  BY ConvertedByMerge
<1>2. PICK g, d \in Carts :
        /\ g # d /\ cart[g].status = "ACTIVE" /\ cart[d].status = "ACTIVE"
        /\ cart' = [cart EXCEPT ![g].status = "CONVERTED"]
        /\ \A c \in Carts : c # d => line'[c] = line[c]
        /\ \A q \in Products : Units(line'[d], q) = Units(line[d], q) + Units(line[g], q)
  BY <1>1, MergeAdds DEF SerialMerge, SerialLines
<1>3. PICK f : f = [c \in Carts |-> Units(line[c], p)]
  OBVIOUS
<1>4. PICK h : h = [c \in Carts |-> Units(line'[c], p)]
  OBVIOUS
<1>5. PICK S \in SUBSET Carts : S = {c \in Carts : cart[c].status = "ACTIVE"}
  OBVIOUS
<1>6. {c \in Carts : cart'[c].status = "ACTIVE"} = S \ {g}
  <2>1. \A c \in Carts : cart'[c].status = "ACTIVE" <=> c # g /\ cart[c].status = "ACTIVE"
    BY <1>2 DEF TypeOK, CartRow
  <2>2. QED
    BY <1>5, <2>1
<1>7. \A c \in Carts : Units(line[c], p) \in Nat /\ Units(line'[c], p) \in Nat
  BY UnitsType, UnitsTypeNext
<1>8. IsFiniteSet(S) /\ g \in S /\ d \in S
  BY <1>2, <1>5, FS_Subset
<1>9. /\ \A c \in S : f[c] \in Int /\ h[c] \in Int
      /\ h[d] = f[d] + f[g]
      /\ \A c \in S \ {g, d} : h[c] = f[c]
  BY <1>2, <1>3, <1>4, <1>7
<1>10. SumFunctionOnSet(h, S \ {g}) = SumFunctionOnSet(f, S)
  BY <1>2, <1>8, <1>9, SumMoved
<1>11. InCarts(p) = SumFunctionOnSet(f, S)
  BY <1>3, <1>5 DEF InCarts
<1>12. InCarts(p)' = SumFunctionOnSet(h, S \ {g})
  BY <1>4, <1>6 DEF InCarts
<1>13. QED
  BY <1>10, <1>11, <1>12

\* merge converts the guest's cart in the transaction that adds its lines
\* (cart.service.ts:217): between requests that do not overlap, and as long as
\* no client sends both ids, the customer has as many units after it as before.
THEOREM SerialMergeKeeps ==
  ASSUME OneAtATime, IdsApart
  PROVE  Spec => MergeKeepsUnits
<1>1. Init => TypeOK /\ SerialLines /\ SerialMerge
  BY InitType, LinesInit, MergeInit
<1>2. TypeOK /\ SerialLines /\ SerialMerge /\ [Next]_vars
        => (TypeOK /\ SerialLines /\ SerialMerge)'
  BY NextType, LinesNext, MergeNext
<1>3. TypeOK /\ TypeOK' /\ SerialLines /\ SerialMerge /\ [Next]_vars
        => [Converted' # Converted /\ order' = order =>
              \A p \in Products : InCarts(p)' = InCarts(p)]_vars
  BY MergeKeeps
<1>4. QED
  BY <1>1, <1>2, <1>3, PTL DEF Spec, MergeKeepsUnits
=============================================================================
