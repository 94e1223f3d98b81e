----------------------------- MODULE OrderTerms -----------------------------
(***************************************************************************)
(* What an order costs and where it goes: prices, coupons and delivery     *)
(* zones, which OrdersService.create reads one after the other and outside *)
(* its transaction, while the administration edits them. A customer may    *)
(* have been quoted the coupon before (POST /coupons/validate).            *)
(*                                                                         *)
(* Amounts are in hundredths, as Decimal(12, 2) keeps them; the value of a *)
(* coupon is a number of francs or of percent.                             *)
(***************************************************************************)
EXTENDS Integers, FiniteSets

CONSTANTS
  Coupons, Zones, Hoods, Orders, \* ids of rows (a neighbourhood is a hood)
  Workers,
  NewCoupons,    \* bound: coupons the staff asks for
  Patches,       \* bound: updates of a coupon, records of the fields they name
  FirstCoupons,  \* FirstCoupons[k]: the row at the start, or None
  FirstZone,     \* FirstZone[h]: the zone of a neighbourhood at the start
  Prices,        \* bound: prices of the product
  Fees,          \* bound: prices of a zone
  Quantities,    \* bound: units an order is about
  MaxRequests,   \* bound: requests of a behaviour
  None, Gone

Types == {"PERCENTAGE", "FIXED_AMOUNT", "FREE_SHIPPING"}
Windows == {"early", "open", "over"}  \* before startsAt, until expiresAt, after it
OrNone(S) == S \cup {None}
CouponRows == [type: Types, value: Nat, minimum: OrNone(Nat), cap: OrNone(Nat),
               limit: OrNone(Nat \ {0}), uses: Nat, active: BOOLEAN, window: Windows]
\* What an update of a coupon may name.
Edited == [type |-> Types, value |-> Nat, minimum |-> OrNone(Nat), cap |-> OrNone(Nat),
           limit |-> OrNone(Nat \ {0}), active |-> BOOLEAN, window |-> Windows]
ZoneRows == [price: Fees, active: BOOLEAN]
HoodRows == [zone: Zones, active: BOOLEAN]
Terms == [subtotal: Nat, shipping: Nat, discount: Nat, total: Nat, zone: OrNone(Zones),
          hood: OrNone(Hoods), coupon: OrNone(Coupons), promised: OrNone(Nat)]

ASSUME TermsAssumption ==
  /\ None # Gone
  /\ None \notin Terms \cup CouponRows \cup Zones \cup Hoods /\ Gone \notin CouponRows
  /\ Zones \cap Hoods = {}
  /\ \A row \in NewCoupons : row \in CouponRows /\ row.uses = 0
  /\ \A patch \in Patches : /\ DOMAIN patch \subseteq DOMAIN Edited
                             /\ \A field \in DOMAIN patch : patch[field] \in Edited[field]
  /\ FirstCoupons \in [Coupons -> OrNone(CouponRows)]
  /\ \A k \in Coupons : FirstCoupons[k] # None => FirstCoupons[k].uses = 0
  /\ \A k, l \in Coupons :
       FirstCoupons[k] # None /\ FirstCoupons[l] # None => k = l  \* the code is unique
  /\ FirstZone \in [Hoods -> OrNone(Zones)]
  /\ Prices \subseteq Nat /\ Fees \subseteq Nat /\ Quantities \subseteq Nat \ {0}
  /\ MaxRequests \in Nat

VARIABLES
  price,     \* of the product
  coupon,    \* coupon[k]: a row, None before and Gone after it; all have one code
  usages,    \* CouponUsage: <<coupon, order>>
  zone,      \* zone[z]: a row, None or Gone
  hood,      \* hood[h]: a row, None or Gone
  order,     \* order[o]: its terms, None before it is placed
  job,       \* job[w]: the request worker w is serving
  requests,
  quote      \* history: what the last quote announced, until its coupon changes

shop == <<price, coupon, usages, zone, hood, order>>
vars == <<shop, job, requests, quote>>

Live(table) == {i \in DOMAIN table : table[i] \notin {None, Gone}}
Least(a, b) == IF a <= b THEN a ELSE b
Idle == [at |-> "idle"]

Init == /\ price \in Prices
        /\ coupon = FirstCoupons
        /\ usages = {}
        /\ zone \in [Zones -> OrNone([price: Fees, active: {TRUE}])]
        /\ \A h \in Hoods : FirstZone[h] # None => FirstZone[h] \in Live(zone)
        /\ hood = [h \in Hoods |-> IF FirstZone[h] = None THEN None
                                   ELSE [zone |-> FirstZone[h], active |-> TRUE]]
        /\ order = [o \in Orders |-> None]
        /\ job = [w \in Workers |-> Idle]
        /\ requests = 0
        /\ quote = None

Request == requests < MaxRequests /\ requests' = requests + 1
Begin(w, j) == job[w] = Idle /\ Request /\ job' = [job EXCEPT ![w] = j]
Finish(w) == job' = [job EXCEPT ![w] = Idle]

-----------------------------------------------------------------------------
(* CouponsService.                                                          *)

\* The announcement stands as long as no row of the code changes.
CouponsBecome(table) == coupon' = table /\ quote' = None

RateAllowed(row) == row.type = "PERCENTAGE" => row.value \in 1..100

\* The code is unique.
CreateCoupon(k, row) ==
  /\ Request
  /\ coupon[k] = None /\ Live(coupon) = {}
  /\ RateAllowed(row)
  /\ CouponsBecome([coupon EXCEPT ![k] = row])
  /\ UNCHANGED <<price, usages, zone, hood, order, job>>

\* UpdateCouponDto inherits the creation's initializer isActive = true: a request
\* that does not name it makes the coupon active.
Names(patch, field) == field \in DOMAIN patch
Patched(row, patch) ==
  [field \in DOMAIN row |-> IF Names(patch, field) THEN patch[field]
                            ELSE IF field = "active" THEN TRUE ELSE row[field]]

\* The value is checked against the type only when the request names both.
UpdateCoupon(k, patch) ==
  /\ Request
  /\ k \in Live(coupon)
  /\ Names(patch, "type") /\ Names(patch, "value") => RateAllowed(patch)
  /\ CouponsBecome([coupon EXCEPT ![k] = Patched(@, patch)])
  /\ UNCHANGED <<price, usages, zone, hood, order, job>>

\* The usages go with the coupon (onDelete: Cascade).
RemoveCoupon(k) ==
  /\ Request
  /\ k \in Live(coupon)
  /\ CouponsBecome([coupon EXCEPT ![k] = Gone])
  /\ usages' = {u \in usages : u[1] # k}
  /\ UNCHANGED <<price, zone, hood, order, job>>

CouponTime(k) ==
  /\ k \in Live(coupon) /\ coupon[k].window # "over"
  /\ CouponsBecome([coupon EXCEPT ![k].window = IF @ = "early" THEN "open" ELSE "over"])
  /\ UNCHANGED <<price, usages, zone, hood, order, job, requests>>

\* validate and validateAndCalculateCoupon are two copies of one computation.
\* Of a code typed with spaces around it, only the first finds the coupon.
Typed == {"exact", "padded"}

QuoteAdmits(c, subtotal) ==
  /\ c.active /\ c.window = "open"
  /\ c.limit # None => c.uses < c.limit
  /\ c.minimum # None /\ c.minimum > 0 => subtotal >= c.minimum

QuoteDiscount(c, subtotal, fee) ==
  CASE c.type = "PERCENTAGE" ->
         LET share == subtotal * c.value
             most == IF c.cap # None /\ share > 100 * c.cap THEN 100 * c.cap ELSE share
         IN (most + 50) \div 100
    [] c.type = "FIXED_AMOUNT" -> Least(100 * c.value, subtotal)
    [] c.type = "FREE_SHIPPING" -> fee

\* The client passes the amounts it shows: a quantity, and the fee of a zone.
Validate(n, fee) ==
  /\ Request
  /\ \E k \in Live(coupon) :
       LET subtotal == price * n
           total == subtotal - QuoteDiscount(coupon[k], subtotal, fee) + fee
       IN /\ QuoteAdmits(coupon[k], subtotal)
          /\ quote' = [subtotal |-> subtotal, shipping |-> fee,
                       total |-> IF total < 0 THEN 0 ELSE total]
  /\ UNCHANGED <<shop, job>>

-----------------------------------------------------------------------------
(* OrdersService.create.                                                    *)

\* to: a neighbourhood or a zone, or None for an order that is fetched.
ResolveItems(w, n, to, code) ==
  /\ Begin(w, [at |-> "shipping", subtotal |-> price * n, to |-> to, code |-> code,
               shipping |-> 0, zone |-> None, hood |-> None, coupon |-> None,
               discount |-> 0, promised |-> None])
  /\ UNCHANGED <<shop, quote>>

\* The zone an active destination is delivered from, itself active. (A request
\* that names another zone along with the neighbourhood is refused, and ends as
\* one that fails.)
ZoneOf(to) ==
  {z \in Live(zone) : /\ zone[z].active
                      /\ \/ to = z
                         \/ to \in Live(hood) /\ hood[to].active /\ hood[to].zone = z}

ResolveShipping(w) ==
  /\ job[w].at = "shipping"
  /\ LET to == job[w].to
         next == IF job[w].code = None THEN "commit" ELSE "coupon"
     IN IF to = None THEN job' = [job EXCEPT ![w].at = next]
        ELSE IF ZoneOf(to) = {} THEN Finish(w)
        ELSE \E z \in ZoneOf(to) :
               job' = [job EXCEPT ![w].at = next, ![w].shipping = zone[z].price,
                                  ![w].zone = z, ![w].hood = IF to \in Hoods THEN to ELSE None]
  /\ UNCHANGED <<shop, requests, quote>>

Admits(c, subtotal) ==
  /\ c.active /\ c.window = "open"
  /\ c.limit # None => c.uses < c.limit
  /\ c.minimum # None => subtotal >= c.minimum

\* Mutant: the maximum discount is forgotten in this copy.
UncappedDiscount(c, subtotal, fee) ==
  CASE c.type = "PERCENTAGE" -> (subtotal * c.value + 50) \div 100
    [] c.type = "FIXED_AMOUNT" -> Least(100 * c.value, subtotal)
    [] c.type = "FREE_SHIPPING" -> fee

Discount(c, subtotal, fee) ==
  CASE c.type = "PERCENTAGE" ->
         LET share == subtotal * c.value
             most == IF c.cap # None /\ share > 100 * c.cap THEN 100 * c.cap ELSE share
         IN (most + 50) \div 100
    [] c.type = "FIXED_AMOUNT" -> Least(100 * c.value, subtotal)
    [] c.type = "FREE_SHIPPING" -> fee

\* The coupons of that code that the order may use.
Applicable(w) ==
  {k \in Live(coupon) : job[w].code = "exact" /\ Admits(coupon[k], job[w].subtotal)}

\* What was announced for this very purchase.
Promise(w) ==
  IF quote # None /\ quote.subtotal = job[w].subtotal /\ quote.shipping = job[w].shipping
  THEN quote.total ELSE None

CalculateCoupon(w) ==
  /\ job[w].at = "coupon"
  /\ IF Applicable(w) = {} THEN Finish(w)
     ELSE \E k \in Applicable(w) :
            job' = [job EXCEPT ![w].at = "commit", ![w].coupon = k, ![w].promised = Promise(w),
                      ![w].discount = Discount(coupon[k], job[w].subtotal, job[w].shipping)]
  /\ UNCHANGED <<shop, requests, quote>>

\* Mutant: the total is not kept above zero.
UnclampedTotal(w) == job[w].subtotal - job[w].discount + job[w].shipping

Total(w) == LET total == job[w].subtotal - job[w].discount + job[w].shipping
            IN IF total < 0 THEN 0 ELSE total

\* A row it refers to may be gone: the transaction fails.
RefersToGone(w) == \/ job[w].zone # None /\ job[w].zone \notin Live(zone)
                   \/ job[w].hood # None /\ job[w].hood \notin Live(hood)
                   \/ job[w].coupon # None /\ job[w].coupon \notin Live(coupon)

\* Mutant: the count written is the one that was checked, plus one.
CountedOnce(k) == [coupon EXCEPT ![k].uses = 1]

Counted(k) == [coupon EXCEPT ![k].uses = @ + 1]

TermsOf(w) ==
  [subtotal |-> job[w].subtotal, shipping |-> job[w].shipping, discount |-> job[w].discount,
   total |-> Total(w), zone |-> job[w].zone, hood |-> job[w].hood, coupon |-> job[w].coupon,
   promised |-> job[w].promised]

PlaceOrder(w) ==
  /\ job[w].at = "commit"
  /\ IF RefersToGone(w) THEN UNCHANGED <<order, usages, coupon, quote>>
     ELSE \E o \in Orders :
            /\ order[o] = None
            /\ order' = [order EXCEPT ![o] = TermsOf(w)]
            /\ IF job[w].coupon = None THEN UNCHANGED <<usages, coupon, quote>>
               ELSE /\ CouponsBecome(Counted(job[w].coupon))
                    /\ usages' = usages \cup {<<job[w].coupon, o>>}
  /\ Finish(w)
  /\ UNCHANGED <<price, zone, hood, requests>>

-----------------------------------------------------------------------------
(* ProductsService.update and ShippingService.                              *)

UpdatePrice(p) ==
  /\ Request
  /\ price' = p
  /\ UNCHANGED <<coupon, usages, zone, hood, order, job, quote>>

\* createZone, or updateZone of one that exists.
SaveZone(z, row) ==
  /\ Request
  /\ zone[z] # Gone
  /\ zone' = [zone EXCEPT ![z] = row]
  /\ UNCHANGED <<price, coupon, usages, hood, order, job, quote>>

\* createNeighborhood, or updateNeighborhood of one that exists; the zone must
\* exist.
SaveNeighborhood(h, row) ==
  /\ Request
  /\ hood[h] # Gone /\ row.zone \in Live(zone)
  /\ hood' = [hood EXCEPT ![h] = row]
  /\ UNCHANGED <<price, coupon, usages, zone, order, job, quote>>

\* Orders that name the row.
OrdersTo(to) == {o \in Live(order) : to \in {order[o].zone, order[o].hood}}

\* Mutant: a neighbourhood is removed whatever its orders.
CountNoHood(to) == {o \in OrdersTo(to) : to \in Zones}

CountOrders(to) == OrdersTo(to)

\* removeZone and removeNeighborhood first count the orders.
Count(w, to) ==
  /\ to \in Live(zone) \cup Live(hood)
  /\ CountOrders(to) = {}
  /\ Begin(w, [at |-> "delete", to |-> to, seen |-> Live(order)])
  /\ UNCHANGED <<shop, quote>>

\* A zone goes with its neighbourhoods (onDelete: Cascade); orders that name a
\* row that goes lose it (onDelete: SetNull).
Deleted(to) == {to} \cup {h \in Live(hood) : hood[h].zone = to}

Delete(w) ==
  /\ job[w].at = "delete"
  /\ LET gone == Deleted(job[w].to)
         Kept(to) == IF to \in gone THEN None ELSE to
     IN /\ zone' = [z \in Zones |-> IF z \in gone THEN Gone ELSE zone[z]]
        /\ hood' = [h \in Hoods |-> IF h \in gone THEN Gone ELSE hood[h]]
        /\ order' = [o \in Orders |->
                       IF order[o] = None THEN None
                       ELSE [order[o] EXCEPT !.zone = Kept(@), !.hood = Kept(@)]]
  /\ Finish(w)
  /\ UNCHANGED <<price, coupon, usages, requests, quote>>

\* A failing statement or a dead process.
Crash(w) == job[w] # Idle /\ Finish(w) /\ UNCHANGED <<shop, requests, quote>>

-----------------------------------------------------------------------------
Next ==
  \/ \E k \in Coupons : \/ \E row \in NewCoupons : CreateCoupon(k, row)
                        \/ \E patch \in Patches : UpdateCoupon(k, patch)
                        \/ RemoveCoupon(k) \/ CouponTime(k)
  \/ \E n \in Quantities, fee \in Fees \cup {0} : Validate(n, fee)
  \/ \E p \in Prices : UpdatePrice(p)
  \/ \E z \in Zones, row \in ZoneRows : SaveZone(z, row)
  \/ \E h \in Hoods, row \in HoodRows : SaveNeighborhood(h, row)
  \/ \E w \in Workers :
       \/ \E n \in Quantities, to \in OrNone(Zones \cup Hoods), code \in OrNone(Typed) :
            ResolveItems(w, n, to, code)
       \/ \E to \in Zones \cup Hoods : Count(w, to)
       \/ ResolveShipping(w) \/ CalculateCoupon(w) \/ PlaceOrder(w) \/ Delete(w) \/ Crash(w)

Spec == Init /\ [][Next]_vars

-----------------------------------------------------------------------------
Orderings == [at: {"shipping", "coupon", "commit"}, subtotal: Nat, to: OrNone(Zones \cup Hoods),
              code: OrNone(Typed), shipping: Nat, zone: OrNone(Zones), hood: OrNone(Hoods),
              coupon: OrNone(Coupons), discount: Nat, promised: OrNone(Nat)]
Removals == [at: {"delete"}, to: Zones \cup Hoods, seen: SUBSET Orders]

\* Every variable has the shape the rest of the module relies on.
TypeOK ==
  /\ price \in Prices
  /\ coupon \in [Coupons -> CouponRows \cup {None, Gone}]
  /\ usages \subseteq Coupons \X Orders
  /\ zone \in [Zones -> ZoneRows \cup {None, Gone}]
  /\ hood \in [Hoods -> HoodRows \cup {None, Gone}]
  /\ order \in [Orders -> OrNone(Terms)]
  /\ job \in [Workers -> {Idle} \cup Orderings \cup Removals]
  /\ requests \in 0..MaxRequests
  /\ quote \in OrNone([subtotal: Nat, shipping: Nat, total: Nat])

QuotePaid ==
  \A o \in Live(order) : order[o].promised # None => order[o].total = order[o].promised
QuoteAccepted ==
  \A w \in Workers : /\ job[w].at = "coupon" /\ job[w].code = "exact"
                     /\ Promise(w) # None
                     => Applicable(w) # {}

\* A customer pays what was announced. A purchase that was quoted, whose coupon
\* has not changed when the order reads it, is not refused the coupon if the
\* code was typed without spaces, and costs what the quote said, although the
\* two are computed by separate code and the prices, the zone and other orders
\* change around them.
QuoteHonoured == QuotePaid /\ QuoteAccepted

\* A coupon counts its orders, whatever overlaps, fails, is edited or removed.
UsesAccounted ==
  \A k \in Live(coupon) : coupon[k].uses = Cardinality({u \in usages : u[1] = k})

\* Removing a zone or a neighbourhood takes the destination from no order that
\* was placed when the removal counted them, except the neighbourhood of an
\* order whose neighbourhood has been moved to another zone since.
DestinationKept ==
  [][\A w \in Workers, o \in Orders :
       Delete(w) /\ job[w].at = "delete" /\ o \in job[w].seen =>
         /\ order'[o].zone = order[o].zone
         /\ \/ order'[o].hood = order[o].hood
            \/ hood[order[o].hood].zone # order[o].zone]_vars
=============================================================================
