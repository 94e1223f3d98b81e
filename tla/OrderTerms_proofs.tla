-------------------------- MODULE OrderTerms_proofs --------------------------
(***************************************************************************)
(* Theorems of OrderTerms for every set of coupons, zones, neighbourhoods, *)
(* orders and workers, and every price, fee, quantity and edit.            *)
(***************************************************************************)
EXTENDS OrderTerms, FiniteSetTheorems, TLAPS

-----------------------------------------------------------------------------
(* Types.                                                                   *)

LEMMA AmountsAreNat == Prices \subseteq Nat /\ Fees \subseteq Nat /\ Quantities \subseteq Nat
BY TermsAssumption DEF TermsAssumption

Jobs == {Idle} \cup Orderings \cup Removals

\* The kind of a request follows from where it stands.
LEMMA JobKinds ==
  ASSUME TypeOK, NEW w \in Workers
  PROVE  /\ job[w] \in Jobs
         /\ job[w].at \in {"shipping", "coupon", "commit"} => job[w] \in Orderings
         /\ job[w].at = "delete" => job[w] \in Removals
<1>1. job[w] \in Jobs
  BY DEF TypeOK, Jobs
<1>2. /\ Idle.at = "idle"
      /\ \A j \in Orderings : j.at \in {"shipping", "coupon", "commit"}
      /\ \A j \in Removals : j.at = "delete"
  BY DEF Idle, Orderings, Removals
<1>3. QED
  BY <1>1, <1>2 DEF Jobs

LEMMA Amounts ==
  ASSUME NEW row \in CouponRows, NEW subtotal \in Nat, NEW fee \in Nat
  PROVE  /\ Discount(row, subtotal, fee) \in Nat
         /\ QuoteDiscount(row, subtotal, fee) = Discount(row, subtotal, fee)
<1> DEFINE share == subtotal * row.value
           most == IF row.cap # None /\ share > 100 * row.cap THEN 100 * row.cap ELSE share
<1>1. row.type \in Types /\ row.value \in Nat /\ row.cap \in Nat \cup {None}
  BY DEF CouponRows, OrNone
<1>2. share \in Nat
  BY <1>1
<1>3. most \in Nat
  <2> HIDE DEF share
  <2>1. QED
    BY <1>1, <1>2
<1>4. (most + 50) \div 100 \in Nat
  <2> HIDE DEF most
  <2>1. QED
    BY <1>3
<1>5. Least(100 * row.value, subtotal) \in Nat
  BY <1>1 DEF Least
<1>6. Discount(row, subtotal, fee) \in Nat
  BY <1>1, <1>4, <1>5 DEF Discount, Types
<1>7. QED
  BY <1>6 DEF Discount, QuoteDiscount

LEMMA PatchedType ==
  ASSUME NEW row \in CouponRows, NEW patch \in Patches
  PROVE  /\ Patched(row, patch) \in CouponRows
         /\ Patched(row, patch).uses = row.uses
<1>1. /\ DOMAIN patch \subseteq DOMAIN Edited
      /\ \A field \in DOMAIN patch : patch[field] \in Edited[field]
  BY TermsAssumption DEF TermsAssumption
<1>2. DOMAIN row = {"type", "value", "minimum", "cap", "limit", "uses", "active", "window"}
  BY DEF CouponRows
<1>3. QED
  BY <1>1, <1>2 DEF Patched, Names, CouponRows, Edited

LEMMA InitType == Init => TypeOK
<1> SUFFICES ASSUME Init PROVE TypeOK
  OBVIOUS
<1>1. coupon \in [Coupons -> CouponRows \cup {None, Gone}]
  BY TermsAssumption DEF Init, TermsAssumption, OrNone
<1>2. hood \in [Hoods -> HoodRows \cup {None, Gone}]
  BY TermsAssumption DEF Init, TermsAssumption, HoodRows, OrNone
<1>3. zone \in [Zones -> ZoneRows \cup {None, Gone}]
  BY DEF Init, ZoneRows, OrNone
<1>4. QED
  BY <1>1, <1>2, <1>3, TermsAssumption DEF Init, TypeOK, TermsAssumption, OrNone

LEMMA FinishType ==
  ASSUME TypeOK, NEW w \in Workers, Finish(w)
  PROVE  job' \in [Workers -> Jobs]
BY DEF TypeOK, Finish, Jobs

LEMMA BeginType ==
  ASSUME TypeOK, NEW w \in Workers, NEW j \in Jobs, Begin(w, j)
  PROVE  job' \in [Workers -> Jobs] /\ requests' \in 0..MaxRequests
BY TermsAssumption DEF TypeOK, Begin, Request, Jobs, TermsAssumption

LEMMA RequestType ==
  ASSUME TypeOK, Request
  PROVE  requests' \in 0..MaxRequests
BY TermsAssumption DEF TypeOK, Request, TermsAssumption

LEMMA CouponType ==
  ASSUME TypeOK, NEW k \in Coupons,
         \/ \E row \in NewCoupons : CreateCoupon(k, row)
         \/ \E patch \in Patches : UpdateCoupon(k, patch)
         \/ RemoveCoupon(k) \/ CouponTime(k)
  PROVE  TypeOK'
<1>1. ASSUME NEW row \in CouponRows \cup {Gone}, NEW rest \in SUBSET usages,
             CouponsBecome([coupon EXCEPT ![k] = row]), usages' = rest,
             requests' \in 0..MaxRequests, UNCHANGED <<price, zone, hood, order, job>>
      PROVE  TypeOK'
  BY <1>1 DEF TypeOK, CouponsBecome, OrNone
<1>2. ASSUME NEW row \in NewCoupons, CreateCoupon(k, row)
      PROVE  TypeOK'
  <2>1. row \in CouponRows
    BY TermsAssumption DEF TermsAssumption
  <2>2. QED
    BY <1>1, <1>2, <2>1, RequestType DEF CreateCoupon
<1>3. coupon[k] \in CouponRows \/ k \notin Live(coupon)
  BY DEF TypeOK, Live
<1>4. ASSUME NEW patch \in Patches, UpdateCoupon(k, patch)
      PROVE  TypeOK'
  <2>1. Patched(coupon[k], patch) \in CouponRows
    BY <1>3, <1>4, PatchedType DEF UpdateCoupon
  <2>2. QED
    BY <1>1, <1>4, <2>1, RequestType DEF UpdateCoupon
<1>5. ASSUME RemoveCoupon(k)
      PROVE  TypeOK'
  BY <1>1, <1>5, RequestType DEF RemoveCoupon
<1>6. ASSUME CouponTime(k)
      PROVE  TypeOK'
  <2> DEFINE row == [coupon[k] EXCEPT !.window = IF @ = "early" THEN "open" ELSE "over"]
  <2>1. row \in CouponRows
    BY <1>3, <1>6 DEF CouponTime, CouponRows, Windows
  <2>2. CouponsBecome([coupon EXCEPT ![k] = row])
    BY <1>6 DEF CouponTime, CouponsBecome
  <2>3. requests' \in 0..MaxRequests /\ UNCHANGED <<price, usages, zone, hood, order, job>>
    BY <1>6 DEF CouponTime, TypeOK
  <2> HIDE DEF row
  <2>4. QED
    BY <1>1, <2>1, <2>2, <2>3
<1>7. QED
  BY <1>2, <1>4, <1>5, <1>6

LEMMA QuoteType ==
  ASSUME TypeOK, NEW n \in Quantities, NEW fee \in Fees \cup {0}, Validate(n, fee)
  PROVE  TypeOK'
<1>1. n \in Nat /\ fee \in Nat /\ price \in Nat
  BY AmountsAreNat DEF TypeOK
<1> DEFINE subtotal == price * n
<1>2. subtotal \in Nat
  BY <1>1
<1> HIDE DEF subtotal
<1>3. ASSUME NEW k \in Live(coupon)
      PROVE  subtotal - QuoteDiscount(coupon[k], subtotal, fee) + fee \in Int
  <2>1. coupon[k] \in CouponRows
    BY <1>3 DEF TypeOK, Live
  <2>2. QuoteDiscount(coupon[k], subtotal, fee) \in Nat
    BY <1>1, <1>2, <2>1, Amounts
  <2>3. QED
    BY <1>1, <1>2, <2>2
<1>4. quote' \in [subtotal: Nat, shipping: Nat, total: Nat]
  <2>1. PICK k \in Live(coupon) :
          LET total == subtotal - QuoteDiscount(coupon[k], subtotal, fee) + fee
          IN quote' = [subtotal |-> subtotal, shipping |-> fee,
                       total |-> IF total < 0 THEN 0 ELSE total]
    BY DEF Validate, subtotal
  <2> DEFINE total == subtotal - QuoteDiscount(coupon[k], subtotal, fee) + fee
  <2>2. total \in Int
    BY <1>3
  <2>3. quote' = [subtotal |-> subtotal, shipping |-> fee,
                  total |-> IF total < 0 THEN 0 ELSE total]
    BY <2>1
  <2> HIDE DEF total
  <2>4. QED
    BY <1>1, <1>2, <2>2, <2>3
<1>5. QED
  BY <1>4, RequestType DEF Validate, TypeOK, shop, OrNone

LEMMA OrderingType ==
  ASSUME TypeOK, NEW w \in Workers,
         \/ \E n \in Quantities, to \in OrNone(Zones \cup Hoods), code \in OrNone(Typed) :
              ResolveItems(w, n, to, code)
         \/ ResolveShipping(w) \/ CalculateCoupon(w)
  PROVE  TypeOK'
<1>0. ASSUME job' \in [Workers -> Jobs], requests' \in 0..MaxRequests,
             UNCHANGED <<shop, quote>>
      PROVE  TypeOK'
  BY <1>0 DEF TypeOK, shop, Jobs
<1>1. ASSUME NEW n \in Quantities, NEW to \in OrNone(Zones \cup Hoods),
             NEW code \in OrNone(Typed), ResolveItems(w, n, to, code)
      PROVE  TypeOK'
  <2> DEFINE j == [at |-> "shipping", subtotal |-> price * n, to |-> to, code |-> code,
                   shipping |-> 0, zone |-> None, hood |-> None, coupon |-> None,
                   discount |-> 0, promised |-> None]
  <2>0. price \in Nat /\ n \in Nat
    BY TermsAssumption DEF TermsAssumption, TypeOK
  <2>1. price * n \in Nat
    BY <2>0
  <2>2. j \in Jobs
    BY <2>1 DEF Jobs, Orderings, OrNone
  <2>3. Begin(w, j) /\ UNCHANGED <<shop, quote>>
    BY <1>1 DEF ResolveItems
  <2> HIDE DEF j
  <2>4. QED
    BY <1>0, <2>2, <2>3, BeginType
<1>2. ASSUME ResolveShipping(w)
      PROVE  TypeOK'
  <2>1. job[w] \in Orderings
    BY <1>2, JobKinds DEF ResolveShipping
  <2>2. \A z \in Live(zone) : z \in Zones /\ zone[z].price \in Nat
    BY TermsAssumption DEF TermsAssumption, TypeOK, Live, ZoneRows
  <2>3. ZoneOf(job[w].to) \subseteq Live(zone)
    BY DEF ZoneOf
  <2> DEFINE next == IF job[w].code = None THEN "commit" ELSE "coupon"
  <2>4. CASE job' = [job EXCEPT ![w].at = next]
    <3>1. [job[w] EXCEPT !.at = next] \in Jobs
      BY <2>1 DEF Orderings, Jobs
    <3>2. QED
      BY <1>0, <1>2, <2>4, <3>1 DEF ResolveShipping, TypeOK, Jobs
  <2>5. CASE Finish(w)
    BY <1>0, <1>2, <2>5, FinishType DEF ResolveShipping, TypeOK
  <2>6. ASSUME NEW z \in ZoneOf(job[w].to),
               job' = [job EXCEPT ![w].at = next, ![w].shipping = zone[z].price, ![w].zone = z,
                                  ![w].hood = IF job[w].to \in Hoods THEN job[w].to ELSE None]
        PROVE  TypeOK'
    <3> DEFINE j == [job[w] EXCEPT !.at = next, !.shipping = zone[z].price, !.zone = z,
                                   !.hood = IF job[w].to \in Hoods THEN job[w].to ELSE None]
    <3>0. /\ z \in Zones /\ zone[z].price \in Nat
          /\ next \in {"coupon", "commit"}
          /\ (IF job[w].to \in Hoods THEN job[w].to ELSE None) \in OrNone(Hoods)
      BY <2>2, <2>3, <2>6 DEF OrNone
    <3> HIDE DEF next
    <3>1. j \in Jobs
      BY <2>1, <3>0 DEF Orderings, Jobs, OrNone
    <3>2. job' = [job EXCEPT ![w] = j]
      BY <2>6 DEF TypeOK
    <3> HIDE DEF j
    <3>3. QED
      BY <1>0, <1>2, <3>1, <3>2 DEF ResolveShipping, TypeOK, Jobs
  <2>7. QED
    BY <1>2, <2>4, <2>5, <2>6 DEF ResolveShipping
<1>3. ASSUME CalculateCoupon(w)
      PROVE  TypeOK'
  <2>1. job[w] \in Orderings
    BY <1>3, JobKinds DEF CalculateCoupon
  <2>2. CASE Finish(w)
    BY <1>0, <1>3, <2>2, FinishType DEF CalculateCoupon, TypeOK
  <2>3. ASSUME NEW k \in Applicable(w),
               job' = [job EXCEPT ![w].at = "commit", ![w].coupon = k, ![w].promised = Promise(w),
                         ![w].discount = Discount(coupon[k], job[w].subtotal, job[w].shipping)]
        PROVE  TypeOK'
    <3> DEFINE d == Discount(coupon[k], job[w].subtotal, job[w].shipping)
               j == [job[w] EXCEPT !.at = "commit", !.coupon = k, !.promised = Promise(w),
                                   !.discount = d]
    <3>1. k \in Coupons /\ coupon[k] \in CouponRows
      BY DEF Applicable, TypeOK, Live
    <3>2. d \in Nat
      BY <2>1, <3>1, Amounts DEF Orderings
    <3>3. Promise(w) \in OrNone(Nat)
      BY DEF Promise, TypeOK, OrNone
    <3>4. job' = [job EXCEPT ![w] = j]
      BY <2>3 DEF TypeOK
    <3> HIDE DEF d
    <3>5. j \in Jobs
      BY <2>1, <3>1, <3>2, <3>3 DEF Orderings, Jobs, OrNone
    <3> HIDE DEF j
    <3>6. QED
      BY <1>0, <1>3, <3>4, <3>5 DEF CalculateCoupon, TypeOK, Jobs
  <2>4. QED
    BY <1>3, <2>2, <2>3 DEF CalculateCoupon
<1>4. QED
  BY <1>1, <1>2, <1>3

LEMMA TermsType ==
  ASSUME NEW w \in Workers, job[w] \in Orderings
  PROVE  TermsOf(w) \in Terms
<1>1. Total(w) \in Nat
  BY DEF Orderings, Total
<1>2. QED
  BY <1>1 DEF Orderings, Terms, TermsOf

LEMMA PlaceType ==
  ASSUME TypeOK, NEW w \in Workers, PlaceOrder(w)
  PROVE  TypeOK'
<1>1. job[w] \in Orderings
  BY JobKinds DEF PlaceOrder
<1>2. TermsOf(w) \in Terms
  BY <1>1, TermsType
<1>3. job' \in [Workers -> Jobs]
  BY FinishType DEF PlaceOrder
<1>4. CASE UNCHANGED <<order, usages, coupon, quote>>
  BY <1>3, <1>4 DEF PlaceOrder, TypeOK, Jobs
<1>5. ASSUME NEW o \in Orders,
             order' = [order EXCEPT ![o] = TermsOf(w)],
             IF job[w].coupon = None THEN UNCHANGED <<usages, coupon, quote>>
             ELSE /\ CouponsBecome(Counted(job[w].coupon))
                  /\ usages' = usages \cup {<<job[w].coupon, o>>},
             ~ RefersToGone(w)
      PROVE  TypeOK'
  <2>1. order' \in [Orders -> OrNone(Terms)]
    BY <1>2, <1>5 DEF TypeOK, OrNone
  <2>2. CASE job[w].coupon = None
    BY <1>3, <1>5, <2>1, <2>2 DEF PlaceOrder, TypeOK, Jobs
  <2>3. CASE job[w].coupon # None
    <3> DEFINE k == job[w].coupon
    <3>1. k \in Coupons /\ coupon[k] \in CouponRows
      BY <1>1, <1>5, <2>3 DEF RefersToGone, Live, Orderings, OrNone, TypeOK
    <3>2. [coupon[k] EXCEPT !.uses = @ + 1] \in CouponRows
      BY <3>1 DEF CouponRows
    <3>3. Counted(k) \in [Coupons -> CouponRows \cup {None, Gone}]
      BY <3>1, <3>2 DEF Counted, TypeOK
    <3>4. usages' \subseteq Coupons \X Orders
      BY <1>5, <2>3, <3>1 DEF TypeOK
    <3>5. QED
      BY <1>3, <1>5, <2>1, <2>3, <3>3, <3>4 DEF PlaceOrder, TypeOK, Jobs, CouponsBecome, OrNone
  <2>4. QED
    BY <2>2, <2>3
<1>6. QED
  BY <1>4, <1>5 DEF PlaceOrder

\* A placed order stays placed when a destination is removed.
LEMMA DeletedTerms ==
  ASSUME TypeOK, NEW w \in Workers, Delete(w), NEW o \in Orders
  PROVE  (order'[o] = None /\ order[o] = None) \/ order'[o] \in Terms
<1> DEFINE gone == Deleted(job[w].to)
           Kept(to) == IF to \in gone THEN None ELSE to
<1>1. order'[o] = IF order[o] = None THEN None
                  ELSE [order[o] EXCEPT !.zone = Kept(@), !.hood = Kept(@)]
  BY DEF Delete
<1>2. ASSUME order[o] # None
      PROVE  order[o] \in Terms
  BY <1>2 DEF TypeOK, OrNone
<1>3. ASSUME order[o] # None
      PROVE  Kept(order[o].zone) \in OrNone(Zones) /\ Kept(order[o].hood) \in OrNone(Hoods)
  BY <1>2, <1>3 DEF Terms, OrNone
<1> HIDE DEF Kept, gone
<1>4. QED
  BY <1>1, <1>2, <1>3 DEF Terms

LEMMA DeleteType ==
  ASSUME TypeOK, NEW w \in Workers, Delete(w)
  PROVE  TypeOK'
<1>1. job' \in [Workers -> Jobs]
  BY FinishType DEF Delete
<1>2. zone' \in [Zones -> ZoneRows \cup {None, Gone}]
  BY DEF Delete, TypeOK
<1>3. hood' \in [Hoods -> HoodRows \cup {None, Gone}]
  BY DEF Delete, TypeOK
<1>4. DOMAIN order' = Orders /\ order' = [o \in Orders |-> order'[o]]
  BY DEF Delete
<1>5. order' \in [Orders -> OrNone(Terms)]
  BY <1>4, DeletedTerms DEF OrNone
<1>6. QED
  BY <1>1, <1>2, <1>3, <1>5 DEF Delete, TypeOK, Jobs

LEMMA NextType == TypeOK /\ [Next]_vars => TypeOK'
<1> SUFFICES ASSUME TypeOK, [Next]_vars
             PROVE  TypeOK'
  OBVIOUS
<1>1. ASSUME NEW p \in Prices, UpdatePrice(p)
      PROVE  TypeOK'
  BY <1>1, RequestType DEF UpdatePrice, TypeOK
<1>2. ASSUME NEW z \in Zones, NEW row \in ZoneRows, SaveZone(z, row)
      PROVE  TypeOK'
  BY <1>2, RequestType DEF SaveZone, TypeOK
<1>3. ASSUME NEW h \in Hoods, NEW row \in HoodRows, SaveNeighborhood(h, row)
      PROVE  TypeOK'
  BY <1>3, RequestType DEF SaveNeighborhood, TypeOK
<1>4. ASSUME NEW w \in Workers, NEW to \in Zones \cup Hoods, Count(w, to)
      PROVE  TypeOK'
  <2> DEFINE j == [at |-> "delete", to |-> to, seen |-> Live(order)]
  <2>1. j \in Jobs
    BY DEF Jobs, Removals, Live, TypeOK
  <2>2. Begin(w, j) /\ UNCHANGED <<shop, quote>>
    BY <1>4 DEF Count
  <2> HIDE DEF j
  <2>3. QED
    BY <2>1, <2>2, BeginType DEF TypeOK, shop, Jobs
<1>5. ASSUME NEW w \in Workers, Crash(w)
      PROVE  TypeOK'
  BY <1>5, FinishType DEF Crash, TypeOK, shop, Jobs
<1>6. CASE UNCHANGED vars
  BY <1>6 DEF vars, shop, TypeOK
<1>7. QED
  BY <1>1, <1>2, <1>3, <1>4, <1>5, <1>6, CouponType, QuoteType, OrderingType, PlaceType,
     DeleteType DEF Next

\* Every variable keeps its shape: amounts stay natural numbers, whatever the
\* percentages, prices and edits.
THEOREM TypeCorrect == Spec => []TypeOK
BY InitType, NextType, PTL DEF Spec

-----------------------------------------------------------------------------
(* A coupon counts its orders.                                              *)

UsagesOf(k) == {u \in usages : u[1] = k}

\* A usage is of a coupon that exists and of an order that was placed, so the
\* pair a new order adds is new, and a coupon starts with none.
UsesInv ==
  /\ IsFiniteSet(usages)
  /\ \A u \in usages : u[1] \in Live(coupon) /\ order[u[2]] # None
  /\ UsesAccounted

LEMMA UsesInit == Init => UsesInv
<1> SUFFICES ASSUME Init PROVE UsesInv
  OBVIOUS
<1>1. usages = {} /\ coupon = FirstCoupons
  BY DEF Init
<1>2. IsFiniteSet(usages) /\ \A k : UsagesOf(k) = {} /\ Cardinality(UsagesOf(k)) = 0
  BY <1>1, FS_EmptySet DEF UsagesOf
<1>3. \A k \in Live(coupon) : coupon[k].uses = 0
  BY <1>1, TermsAssumption DEF TermsAssumption, Live
<1>4. QED
  BY <1>1, <1>2, <1>3 DEF UsesInv, UsesAccounted, UsagesOf

\* Orders stay placed, usages and the counts of live coupons stay.
LEMMA UsesKept ==
  ASSUME UsesInv, UNCHANGED usages, Live(coupon)' = Live(coupon),
         \A k \in Live(coupon) : coupon'[k].uses = coupon[k].uses,
         \A u \in usages : order[u[2]] # None => order'[u[2]] # None
  PROVE  UsesInv'
BY DEF UsesInv, UsesAccounted

LEMMA UsesCreate ==
  ASSUME TypeOK, UsesInv, NEW k \in Coupons, NEW row \in NewCoupons, CreateCoupon(k, row)
  PROVE  UsesInv'
<1>1. UNCHANGED <<usages, order>> /\ coupon' = [coupon EXCEPT ![k] = row]
  BY DEF CreateCoupon, CouponsBecome
<1>2. row.uses = 0 /\ k \notin Live(coupon)
  BY TermsAssumption DEF TermsAssumption, CreateCoupon, Live
<1>3. Live(coupon) \subseteq Live(coupon)' /\ Live(coupon)' \subseteq Live(coupon) \cup {k}
  BY <1>1, <1>2 DEF TypeOK, Live
<1>4. UsagesOf(k) = {} /\ Cardinality(UsagesOf(k)) = 0
  BY <1>2, FS_EmptySet DEF UsesInv, UsagesOf
<1>5. ASSUME NEW l \in Live(coupon)'
      PROVE  coupon'[l].uses = Cardinality(UsagesOf(l))
  <2>1. CASE l = k
    <3>1. coupon'[k] = row
      BY <1>1 DEF TypeOK
    <3>2. QED
      BY <1>2, <1>4, <2>1, <3>1
  <2>2. CASE l # k
    <3>1. l \in Live(coupon) /\ coupon'[l] = coupon[l]
      BY <1>1, <1>3, <2>2 DEF TypeOK, Live
    <3>2. QED
      BY <3>1 DEF UsesInv, UsesAccounted, UsagesOf
  <2>3. QED
    BY <2>1, <2>2
<1>6. UsesAccounted'
  BY <1>1, <1>5 DEF UsesAccounted, UsagesOf
<1>7. QED
  BY <1>1, <1>3, <1>6 DEF UsesInv

LEMMA UsesRemove ==
  ASSUME TypeOK, UsesInv, NEW k \in Coupons, RemoveCoupon(k)
  PROVE  UsesInv'
<1>1. /\ coupon' = [coupon EXCEPT ![k] = Gone] /\ UNCHANGED order
      /\ usages' = {u \in usages : u[1] # k}
  BY DEF RemoveCoupon, CouponsBecome
<1>2. Live(coupon)' = Live(coupon) \ {k}
  BY <1>1 DEF TypeOK, Live
<1>3. IsFiniteSet(usages')
  BY <1>1, FS_Subset DEF UsesInv
<1>4. \A l \in Live(coupon)' : UsagesOf(l)' = UsagesOf(l) /\ coupon'[l] = coupon[l]
  BY <1>1, <1>2 DEF UsagesOf, TypeOK, Live
<1>5. \A l \in Live(coupon)' : coupon'[l].uses = Cardinality(UsagesOf(l)')
  BY <1>2, <1>4 DEF UsesInv, UsesAccounted, UsagesOf
<1>6. UsesAccounted'
  BY <1>5 DEF UsesAccounted, UsagesOf
<1>7. QED
  BY <1>1, <1>2, <1>3, <1>6 DEF UsesInv

LEMMA UsesPlace ==
  ASSUME TypeOK, UsesInv, NEW w \in Workers, PlaceOrder(w)
  PROVE  UsesInv'
<1>1. job[w] \in Orderings
  BY JobKinds DEF PlaceOrder
<1>2. CASE UNCHANGED <<order, usages, coupon, quote>>
  BY <1>2, UsesKept DEF Live
<1>3. ASSUME NEW o \in Orders, order[o] = None,
             order' = [order EXCEPT ![o] = TermsOf(w)],
             IF job[w].coupon = None THEN UNCHANGED <<usages, coupon, quote>>
             ELSE /\ CouponsBecome(Counted(job[w].coupon))
                  /\ usages' = usages \cup {<<job[w].coupon, o>>},
             ~ RefersToGone(w)
      PROVE  UsesInv'
  <2>1. TermsOf(w) # None
    BY <1>1, TermsType, TermsAssumption DEF TermsAssumption
  <2>2. \A p \in Orders : order[p] # None => order'[p] # None
    BY <1>3, <2>1 DEF TypeOK
  <2>3. \A u \in usages : u[2] \in Orders
    BY DEF TypeOK
  <2>4. CASE job[w].coupon = None
    BY <1>3, <2>2, <2>3, <2>4, UsesKept DEF Live
  <2>5. CASE job[w].coupon # None
    <3>k. PICK k \in Coupons : k = job[w].coupon
      BY <1>1, <2>5 DEF Orderings, OrNone
    <3>v. PICK u : u = <<k, o>>
      OBVIOUS
    <3>1. k \in Live(coupon) /\ k \in Coupons /\ coupon[k] \in CouponRows
      BY <1>3, <2>5, <3>k DEF RefersToGone, Live, TypeOK
    <3>2. /\ coupon' = [coupon EXCEPT ![k] = [coupon[k] EXCEPT !.uses = @ + 1]]
          /\ usages' = usages \cup {u}
      BY <1>3, <2>5, <3>k, <3>v DEF CouponsBecome, Counted
    <3>3. u \notin usages
      BY <1>3, <3>v DEF UsesInv
    <3>4. /\ [coupon[k] EXCEPT !.uses = @ + 1] \in CouponRows
          /\ [coupon[k] EXCEPT !.uses = @ + 1].uses = coupon[k].uses + 1
      BY <3>1 DEF CouponRows
    <3>5. coupon'[k].uses = coupon[k].uses + 1 /\ \A l \in Coupons \ {k} : coupon'[l] = coupon[l]
      BY <3>1, <3>2, <3>4 DEF TypeOK
    <3>u. u[1] = k /\ u[2] = o
      BY <3>v
    <3>6. \A l \in Live(coupon) \ {k} : UsagesOf(l)' = UsagesOf(l)
      BY <3>2, <3>u DEF UsagesOf
    <3>7. UsagesOf(k)' = UsagesOf(k) \cup {u} /\ u \notin UsagesOf(k)
      <4>1. \A v : v \in UsagesOf(k)' <=> v \in usages' /\ v[1] = k
        BY DEF UsagesOf
      <4>2. \A v : v \in UsagesOf(k) <=> v \in usages /\ v[1] = k
        BY DEF UsagesOf
      <4>3. QED
        BY <3>2, <3>3, <3>u, <4>1, <4>2
    <3>8. IsFiniteSet(usages') /\ IsFiniteSet(UsagesOf(k))
      BY <3>2, FS_AddElement, FS_Subset DEF UsesInv, UsagesOf
    <3>9. Cardinality(UsagesOf(k)') = Cardinality(UsagesOf(k)) + 1
      BY <3>7, <3>8, FS_AddElement
    <3>10. Live(coupon)' \subseteq Live(coupon) \cup {k}
      BY <3>2 DEF Live, TypeOK
    <3>11. ASSUME NEW l \in Live(coupon)'
           PROVE  coupon'[l].uses = Cardinality(UsagesOf(l)')
      <4>1. \A m \in Live(coupon) : coupon[m].uses = Cardinality(UsagesOf(m))
        BY DEF UsesInv, UsesAccounted, UsagesOf
      <4>2. CASE l = k
        <5>1. coupon[k].uses = Cardinality(UsagesOf(k))
          BY <3>1, <4>1
        <5>2. coupon'[l].uses = coupon[k].uses + 1
          BY <3>5, <4>2
        <5>3. QED
          BY <3>9, <4>2, <5>1, <5>2
      <4>3. CASE l # k
        <5>1. l \in Live(coupon) /\ l \in Coupons
          BY <3>10, <3>11, <4>3 DEF Live, TypeOK
        <5>2. QED
          BY <3>5, <3>6, <4>1, <4>3, <5>1
      <4>4. QED
        BY <4>2, <4>3
    <3>12. UsesAccounted'
      BY <3>11 DEF UsesAccounted, UsagesOf
    <3>13. order'[o] # None
      BY <1>3, <2>1 DEF TypeOK
    <3>14. \A v \in usages' : order'[v[2]] # None
      BY <2>2, <2>3, <3>2, <3>13, <3>u DEF UsesInv
    <3>15. Live(coupon) \subseteq Live(coupon)'
      BY <3>2, <3>4, TermsAssumption DEF Live, TypeOK, TermsAssumption
    <3>16. QED
      BY <3>1, <3>2, <3>8, <3>12, <3>14, <3>15, <3>u DEF UsesInv
  <2>6. QED
    BY <2>4, <2>5
<1>4. QED
  BY <1>2, <1>3 DEF PlaceOrder

LEMMA UsesNext == TypeOK /\ UsesInv /\ [Next]_vars => UsesInv'
<1> SUFFICES ASSUME TypeOK, UsesInv, [Next]_vars
             PROVE  UsesInv'
  OBVIOUS
<1>1. ASSUME UNCHANGED <<usages, coupon, order>>
      PROVE  UsesInv'
  BY <1>1 DEF UsesInv, UsesAccounted, Live
<1>2. ASSUME NEW k \in Coupons, NEW patch \in Patches, UpdateCoupon(k, patch)
      PROVE  UsesInv'
  <2>1. coupon[k] \in CouponRows
    BY <1>2 DEF UpdateCoupon, TypeOK, Live
  <2>2. /\ coupon' = [coupon EXCEPT ![k] = Patched(coupon[k], patch)]
        /\ Patched(coupon[k], patch) \in CouponRows
        /\ Patched(coupon[k], patch).uses = coupon[k].uses
    BY <1>2, <2>1, PatchedType DEF UpdateCoupon, CouponsBecome
  <2>3. Live(coupon)' = Live(coupon)
    BY <1>2, <2>2, TermsAssumption DEF UpdateCoupon, Live, TypeOK, TermsAssumption
  <2>4. \A l \in Live(coupon) : coupon'[l].uses = coupon[l].uses
    BY <2>2 DEF Live, TypeOK
  <2>5. QED
    BY <1>2, <2>3, <2>4, UsesKept DEF UpdateCoupon
<1>3. ASSUME NEW k \in Coupons, CouponTime(k)
      PROVE  UsesInv'
  <2> DEFINE row == [coupon[k] EXCEPT !.window = IF @ = "early" THEN "open" ELSE "over"]
  <2>1. coupon[k] \in CouponRows
    BY <1>3 DEF CouponTime, TypeOK, Live
  <2>2. row \in CouponRows /\ row.uses = coupon[k].uses
    BY <2>1 DEF CouponRows, Windows
  <2>3. coupon' = [coupon EXCEPT ![k] = row]
    BY <1>3 DEF CouponTime, CouponsBecome
  <2> HIDE DEF row
  <2>4. Live(coupon)' = Live(coupon)
    BY <1>3, <2>2, <2>3, TermsAssumption DEF CouponTime, Live, TypeOK, TermsAssumption
  <2>5. \A l \in Live(coupon) : coupon'[l].uses = coupon[l].uses
    BY <2>2, <2>3 DEF Live, TypeOK
  <2>6. QED
    BY <1>3, <2>4, <2>5, UsesKept DEF CouponTime
<1>4. ASSUME NEW w \in Workers, Delete(w)
      PROVE  UsesInv'
  <2>1. UNCHANGED <<usages, coupon>>
    BY <1>4 DEF Delete
  <2>2. ASSUME NEW o \in Orders, order[o] # None
        PROVE  order'[o] # None
    BY <1>4, <2>2, DeletedTerms, TermsAssumption DEF TermsAssumption
  <2>3. QED
    BY <2>1, <2>2, UsesKept DEF Live, TypeOK
<1>5. QED
  BY <1>1, <1>2, <1>3, <1>4, UsesCreate, UsesRemove, UsesPlace
     DEF Next, vars, shop, Validate, UpdatePrice, SaveZone, SaveNeighborhood, ResolveItems,
         Count, ResolveShipping, CalculateCoupon, Crash

\* The count of a coupon, which limits it, is the number of orders that use it,
\* whatever requests overlap, fail or die, and however the staff edits and
\* removes coupons.
THEOREM UsesHold == Spec => []UsesAccounted
<1>1. Init => TypeOK /\ UsesInv
  BY InitType, UsesInit
<1>2. TypeOK /\ UsesInv /\ [Next]_vars => (TypeOK /\ UsesInv)'
  BY NextType, UsesNext
<1>3. TypeOK /\ UsesInv => UsesAccounted
  BY DEF UsesInv
<1>4. QED
  BY <1>1, <1>2, <1>3, PTL DEF Spec

-----------------------------------------------------------------------------
(* A customer pays what was announced.                                      *)

Announced(c) ==
  LET total == quote.subtotal - QuoteDiscount(c, quote.subtotal, quote.shipping) + quote.shipping
  IN QuoteAdmits(c, quote.subtotal) /\ quote.total = IF total < 0 THEN 0 ELSE total

\* The code names one coupon, and a standing quote is what that coupon gives
\* now; a promise is noted only with the discount that keeps it.
QuoteInv ==
  /\ \A k, l \in Live(coupon) : k = l
  /\ quote # None => \E k \in Live(coupon) : Announced(coupon[k])
  /\ \A w \in Workers : job[w] \in Orderings /\ job[w].promised # None
                        => job[w].at = "commit" /\ job[w].promised = Total(w)
  /\ \A o \in Orders : order[o] # None /\ order[o].promised # None
                       => order[o].total = order[o].promised

\* What a removal has counted: placed orders that do not name the row.
RemovalInv ==
  \A w \in Workers : job[w] \in Removals =>
    \A o \in job[w].seen :
      order[o] # None /\ job[w].to \notin {order[o].zone, order[o].hood}

LEMMA QuoteInit == Init => QuoteInv
<1> SUFFICES ASSUME Init PROVE QuoteInv
  OBVIOUS
<1>1. \A k, l \in Live(coupon) : k = l
  BY TermsAssumption DEF Init, TermsAssumption, Live
<1>2. \A w \in Workers : job[w] \notin Orderings
  BY DEF Init, Idle, Orderings
<1>3. QED
  BY <1>1, <1>2 DEF Init, QuoteInv

\* One request changes at most.
LEMMA QuoteJob ==
  ASSUME TypeOK, QuoteInv, NEW w \in Workers, NEW j \in Jobs,
         job' = [job EXCEPT ![w] = j], UNCHANGED <<coupon, quote, order>>,
         j \in Orderings /\ j.promised # None => j.at = "commit" /\ j.promised = Total(w)'
  PROVE  QuoteInv'
<1>1. ASSUME NEW v \in Workers, job'[v] \in Orderings, job'[v].promised # None
      PROVE  job'[v].at = "commit" /\ job'[v].promised = Total(v)'
  <2>1. CASE v = w
    BY <1>1, <2>1 DEF TypeOK
  <2>2. CASE v # w
    BY <1>1, <2>2 DEF QuoteInv, TypeOK, Total
  <2>3. QED
    BY <2>1, <2>2
<1>2. QED
  BY <1>1 DEF QuoteInv, Announced, Live

LEMMA QuoteFinish ==
  ASSUME TypeOK, QuoteInv, NEW w \in Workers, Finish(w)
  PROVE  \A v \in Workers : job'[v] \in Orderings /\ job'[v].promised # None
                            => job'[v].at = "commit" /\ job'[v].promised = Total(v)'
<1>1. job' = [job EXCEPT ![w] = Idle] /\ Idle \notin Orderings
  BY DEF Finish, Idle, Orderings
<1>2. \A v \in Workers : job'[v] = job[v] \/ job'[v] \notin Orderings
  BY <1>1 DEF TypeOK
<1>3. QED
  BY <1>2 DEF QuoteInv, Total

LEMMA QuoteCoupons ==
  ASSUME TypeOK, QuoteInv, NEW k \in Coupons,
         \/ \E row \in NewCoupons : CreateCoupon(k, row)
         \/ \E patch \in Patches : UpdateCoupon(k, patch)
         \/ RemoveCoupon(k) \/ CouponTime(k)
  PROVE  QuoteInv'
<1>1. quote' = None /\ UNCHANGED <<job, order>>
  BY DEF CreateCoupon, UpdateCoupon, RemoveCoupon, CouponTime, CouponsBecome
<1>2. \A l, m \in Live(coupon)' : l = m
  <2>1. PICK row : coupon' = [coupon EXCEPT ![k] = row]
    BY DEF CreateCoupon, UpdateCoupon, RemoveCoupon, CouponTime, CouponsBecome
  <2>2. Live(coupon) = {} \/ k \in Live(coupon)
    BY DEF CreateCoupon, UpdateCoupon, RemoveCoupon, CouponTime
  <2>3. Live(coupon)' \subseteq Live(coupon) \cup {k}
    BY <2>1 DEF Live, TypeOK
  <2>4. QED
    BY <2>2, <2>3 DEF QuoteInv
<1>3. QED
  BY <1>1, <1>2 DEF QuoteInv, Total

LEMMA QuoteValidate ==
  ASSUME TypeOK, QuoteInv, NEW n \in Quantities, NEW fee \in Fees \cup {0}, Validate(n, fee)
  PROVE  QuoteInv'
<1> DEFINE subtotal == price * n
           total(k) == subtotal - QuoteDiscount(coupon[k], subtotal, fee) + fee
<1>1. PICK k \in Live(coupon) :
        /\ QuoteAdmits(coupon[k], subtotal)
        /\ quote' = [subtotal |-> subtotal, shipping |-> fee,
                     total |-> IF total(k) < 0 THEN 0 ELSE total(k)]
  BY DEF Validate
<1>2. UNCHANGED <<coupon, order, job>>
  BY DEF Validate, shop
<1>3. Announced(coupon[k])'
  <2>1. /\ quote'.subtotal = subtotal /\ quote'.shipping = fee
        /\ quote'.total = IF total(k) < 0 THEN 0 ELSE total(k)
    BY <1>1
  <2> HIDE DEF subtotal
  <2>2. QED
    BY <1>1, <1>2, <2>1 DEF Announced
<1>4. QED
  BY <1>1, <1>2, <1>3 DEF QuoteInv, Total, Live

LEMMA QuoteOrdering ==
  ASSUME TypeOK, QuoteInv, NEW w \in Workers,
         \/ \E n \in Quantities, to \in OrNone(Zones \cup Hoods), code \in OrNone(Typed) :
              ResolveItems(w, n, to, code)
         \/ ResolveShipping(w)
         \/ \E to \in Zones \cup Hoods : Count(w, to)
         \/ Crash(w)
  PROVE  QuoteInv'
<1>1. UNCHANGED <<coupon, quote, order>>
  BY DEF ResolveItems, ResolveShipping, Count, Crash, shop
<1>2. job[w] \in Orderings /\ job[w].at = "shipping" => job[w].promised = None
  BY DEF QuoteInv
<1>3. \A v \in Workers \ {w} : job'[v] = job[v]
  BY DEF ResolveItems, ResolveShipping, Count, Crash, Begin, Finish, TypeOK
<1>4. job'[w] \in Orderings => job'[w].promised = None
  <2>1. CASE Finish(w)
    BY <2>1 DEF Finish, Idle, Orderings, TypeOK
  <2>2. CASE \E n \in Quantities, to \in OrNone(Zones \cup Hoods), code \in OrNone(Typed) :
               ResolveItems(w, n, to, code)
    <3>1. PICK n \in Quantities, to \in OrNone(Zones \cup Hoods), code \in OrNone(Typed) :
            ResolveItems(w, n, to, code)
      BY <2>2
    <3>2. job'[w] = [at |-> "shipping", subtotal |-> price * n, to |-> to, code |-> code,
                     shipping |-> 0, zone |-> None, hood |-> None, coupon |-> None,
                     discount |-> 0, promised |-> None]
      BY <3>1 DEF ResolveItems, Begin, TypeOK
    <3>3. QED
      BY <3>2
  <2>3. CASE ResolveShipping(w) /\ ~ Finish(w)
    <3>1. job[w] \in Orderings
      BY <2>3, JobKinds DEF ResolveShipping
    <3>2. job'[w].promised = job[w].promised
      <4> DEFINE next == IF job[w].code = None THEN "commit" ELSE "coupon"
      <4>1. CASE job' = [job EXCEPT ![w].at = next]
        BY <3>1, <4>1 DEF TypeOK, Orderings
      <4>2. ASSUME NEW z \in ZoneOf(job[w].to), NEW h,
                   job' = [job EXCEPT ![w].at = next, ![w].shipping = zone[z].price,
                                      ![w].zone = z, ![w].hood = h]
            PROVE  job'[w].promised = job[w].promised
        BY <3>1, <4>2 DEF TypeOK, Orderings
      <4>3. QED
        BY <2>3, <4>1, <4>2 DEF ResolveShipping
    <3>3. QED
      BY <1>2, <2>3, <3>1, <3>2 DEF ResolveShipping
  <2>4. CASE \E to \in Zones \cup Hoods : Count(w, to)
    <3>1. PICK to \in Zones \cup Hoods : Count(w, to)
      BY <2>4
    <3>2. job'[w] = [at |-> "delete", to |-> to, seen |-> Live(order)]
      BY <3>1 DEF Count, Begin, TypeOK
    <3>3. QED
      BY <3>2 DEF Orderings
  <2>5. QED
    BY <2>1, <2>2, <2>3, <2>4 DEF Crash
<1>5. QED
  BY <1>1, <1>3, <1>4 DEF QuoteInv, Announced, Live, Total

\* What the two computations of a discount agree on.
LEMMA PromiseKept ==
  ASSUME TypeOK, QuoteInv, NEW w \in Workers, job[w] \in Orderings, Promise(w) # None,
         NEW k \in Live(coupon)
  PROVE  LET total == job[w].subtotal - Discount(coupon[k], job[w].subtotal, job[w].shipping)
                      + job[w].shipping
         IN /\ Promise(w) = IF total < 0 THEN 0 ELSE total
            /\ Admits(coupon[k], job[w].subtotal)
<1>1. /\ quote # None /\ quote.subtotal = job[w].subtotal /\ quote.shipping = job[w].shipping
      /\ Promise(w) = quote.total
  BY DEF Promise
<1>2. Announced(coupon[k])
  BY <1>1 DEF QuoteInv
<1>3. coupon[k] \in CouponRows /\ job[w].subtotal \in Nat /\ job[w].shipping \in Nat
  BY DEF TypeOK, Live, Orderings
<1>4. QuoteDiscount(coupon[k], job[w].subtotal, job[w].shipping)
      = Discount(coupon[k], job[w].subtotal, job[w].shipping)
  BY <1>3, Amounts
<1>5. Admits(coupon[k], job[w].subtotal)
  <2>1. coupon[k].minimum \in Nat \cup {None}
    BY <1>3 DEF CouponRows, OrNone
  <2>2. QED
    BY <1>1, <1>2, <1>3, <2>1 DEF Announced, QuoteAdmits, Admits
<1>6. QED
  BY <1>1, <1>2, <1>4, <1>5 DEF Announced

LEMMA QuoteCalculate ==
  ASSUME TypeOK, QuoteInv, NEW w \in Workers, CalculateCoupon(w)
  PROVE  QuoteInv'
<1>1. job[w] \in Orderings
  BY JobKinds DEF CalculateCoupon
<1>2. CASE Finish(w)
  BY <1>2, QuoteFinish DEF CalculateCoupon, shop, QuoteInv, Announced, Live
<1>3. ASSUME NEW k \in Applicable(w),
             job' = [job EXCEPT ![w].at = "commit", ![w].coupon = k, ![w].promised = Promise(w),
                       ![w].discount = Discount(coupon[k], job[w].subtotal, job[w].shipping)]
      PROVE  QuoteInv'
  <2> DEFINE d == Discount(coupon[k], job[w].subtotal, job[w].shipping)
             total == job[w].subtotal - d + job[w].shipping
  <2>1. /\ job'[w].at = "commit" /\ job'[w].promised = Promise(w) /\ job'[w].discount = d
        /\ job'[w].subtotal = job[w].subtotal /\ job'[w].shipping = job[w].shipping
    BY <1>1, <1>3 DEF TypeOK, Orderings
  <2>2. Total(w)' = IF total < 0 THEN 0 ELSE total
    BY <2>1 DEF Total
  <2>3. Promise(w) # None => Promise(w) = IF total < 0 THEN 0 ELSE total
    BY <1>1, <1>3, PromiseKept DEF Applicable
  <2>4. \A v \in Workers \ {w} : job'[v] = job[v]
    BY <1>3 DEF TypeOK
  <2>5. UNCHANGED <<coupon, quote, order>>
    BY DEF CalculateCoupon, shop
  <2> HIDE DEF d, total
  <2>6. QED
    BY <2>1, <2>2, <2>3, <2>4, <2>5 DEF QuoteInv, Announced, Live, Total
<1>4. QED
  BY <1>2, <1>3 DEF CalculateCoupon

LEMMA QuotePlace ==
  ASSUME TypeOK, QuoteInv, NEW w \in Workers, PlaceOrder(w)
  PROVE  QuoteInv'
<1>1. job[w] \in Orderings
  BY JobKinds DEF PlaceOrder
<1>2. \A v \in Workers : job'[v] \in Orderings /\ job'[v].promised # None
                         => job'[v].at = "commit" /\ job'[v].promised = Total(v)'
  BY QuoteFinish DEF PlaceOrder
<1>3. CASE UNCHANGED <<order, usages, coupon, quote>>
  BY <1>2, <1>3 DEF QuoteInv, Announced, Live
<1>4. ASSUME NEW o \in Orders, order' = [order EXCEPT ![o] = TermsOf(w)],
             IF job[w].coupon = None THEN UNCHANGED <<usages, coupon, quote>>
             ELSE CouponsBecome(Counted(job[w].coupon)),
             ~ RefersToGone(w)
      PROVE  QuoteInv'
  <2>1. \A p \in Orders : order'[p] # None /\ order'[p].promised # None
                          => order'[p].total = order'[p].promised
    BY <1>1, <1>4 DEF TypeOK, TermsOf, QuoteInv
  <2>2. CASE job[w].coupon = None
    BY <1>2, <1>4, <2>1, <2>2 DEF QuoteInv, Announced, Live
  <2>3. CASE job[w].coupon # None
    <3>1. Live(coupon)' \subseteq Live(coupon)
      BY <1>4, <2>3 DEF CouponsBecome, Counted, RefersToGone, Live, TypeOK
    <3>2. QED
      BY <1>2, <1>4, <2>1, <2>3, <3>1 DEF QuoteInv, CouponsBecome
  <2>4. QED
    BY <2>2, <2>3
<1>5. QED
  BY <1>3, <1>4 DEF PlaceOrder

LEMMA QuoteDelete ==
  ASSUME TypeOK, QuoteInv, NEW w \in Workers, Delete(w)
  PROVE  QuoteInv'
<1>1. UNCHANGED <<coupon, quote>>
  BY DEF Delete
<1>2. \A v \in Workers : job'[v] \in Orderings /\ job'[v].promised # None
                         => job'[v].at = "commit" /\ job'[v].promised = Total(v)'
  BY QuoteFinish DEF Delete
<1>3. ASSUME NEW o \in Orders, order'[o] # None
      PROVE  /\ order[o] # None
             /\ order'[o].total = order[o].total /\ order'[o].promised = order[o].promised
  <2>1. order[o] \in Terms
    BY <1>3 DEF Delete, TypeOK, OrNone
  <2>2. PICK a, b : order'[o] = [order[o] EXCEPT !.zone = a, !.hood = b]
    BY <1>3 DEF Delete
  <2>3. QED
    BY <2>1, <2>2, TermsAssumption DEF Terms, TermsAssumption
<1>4. QED
  BY <1>1, <1>2, <1>3 DEF QuoteInv, Announced, Live

LEMMA QuoteNext == TypeOK /\ QuoteInv /\ [Next]_vars => QuoteInv'
<1> SUFFICES ASSUME TypeOK, QuoteInv, [Next]_vars
             PROVE  QuoteInv'
  OBVIOUS
<1>1. ASSUME UNCHANGED <<coupon, quote, order, job>>
      PROVE  QuoteInv'
  BY <1>1 DEF QuoteInv, Announced, Live, Total
<1>2. QED
  BY <1>1, QuoteCoupons, QuoteValidate, QuoteOrdering, QuoteCalculate, QuotePlace, QuoteDelete
     DEF Next, vars, shop, UpdatePrice, SaveZone, SaveNeighborhood

\* A customer pays what was announced: an order that was quoted costs the quote,
\* and a request that reads the coupon while the quote stands is not refused it.
THEOREM QuotesHold == Spec => []QuoteHonoured
<1>1. Init => TypeOK /\ QuoteInv
  BY InitType, QuoteInit
<1>2. TypeOK /\ QuoteInv /\ [Next]_vars => (TypeOK /\ QuoteInv)'
  BY NextType, QuoteNext
<1>3. TypeOK /\ QuoteInv => QuoteHonoured
  <2> SUFFICES ASSUME TypeOK, QuoteInv
               PROVE  QuoteHonoured
    OBVIOUS
  <2>1. QuotePaid
    BY DEF QuoteInv, QuotePaid, Live, TypeOK
  <2>2. ASSUME NEW w \in Workers, job[w].at = "coupon", job[w].code = "exact",
               Promise(w) # None
        PROVE  Applicable(w) # {}
    <3>1. job[w] \in Orderings
      BY <2>2, JobKinds
    <3>2. PICK k \in Live(coupon) : TRUE
      BY <2>2 DEF Promise, QuoteInv
    <3>3. Admits(coupon[k], job[w].subtotal)
      BY <2>2, <3>1, PromiseKept
    <3>4. QED
      BY <2>2, <3>3 DEF Applicable
  <2>3. QED
    BY <2>1, <2>2 DEF QuoteHonoured, QuoteAccepted
<1>4. QED
  BY <1>1, <1>2, <1>3, PTL DEF Spec

-----------------------------------------------------------------------------
(* A removal takes a destination from no order it counted.                  *)

LEMMA RemovalInit == Init => RemovalInv
<1>1. Idle \notin Removals
  BY DEF Idle, Removals
<1>2. QED
  BY <1>1 DEF Init, RemovalInv

LEMMA RemovalJobs ==
  ASSUME TypeOK, RemovalInv, UNCHANGED order,
         \A w \in Workers : job'[w] \in Removals => job'[w] = job[w]
  PROVE  RemovalInv'
BY DEF RemovalInv

LEMMA NoNewRemoval ==
  ASSUME TypeOK, NEW w \in Workers,
         \/ \E n \in Quantities, to \in OrNone(Zones \cup Hoods), code \in OrNone(Typed) :
              ResolveItems(w, n, to, code)
         \/ ResolveShipping(w) \/ CalculateCoupon(w) \/ PlaceOrder(w) \/ Delete(w) \/ Crash(w)
  PROVE  \A v \in Workers : job'[v] \in Removals => job'[v] = job[v]
<1>1. \A v \in Workers \ {w} : job'[v] = job[v]
  BY DEF ResolveItems, ResolveShipping, CalculateCoupon, PlaceOrder, Delete, Crash,
         Begin, Finish, TypeOK
<1>2. job'[w] \notin Removals
  <2>1. CASE Finish(w)
    BY <2>1 DEF Finish, Idle, Removals, TypeOK
  <2>2. ASSUME NEW n \in Quantities, NEW to \in OrNone(Zones \cup Hoods),
               NEW code \in OrNone(Typed), ResolveItems(w, n, to, code)
        PROVE  job'[w] \notin Removals
    <3>1. job'[w] = [at |-> "shipping", subtotal |-> price * n, to |-> to, code |-> code,
                     shipping |-> 0, zone |-> None, hood |-> None, coupon |-> None,
                     discount |-> 0, promised |-> None]
      BY <2>2 DEF ResolveItems, Begin, TypeOK
    <3>2. job'[w].at = "shipping"
      BY <3>1
    <3>3. QED
      BY <3>2 DEF Removals
  <2>3. CASE ResolveShipping(w) /\ ~ Finish(w)
    <3>1. job[w] \in Orderings
      BY <2>3, JobKinds DEF ResolveShipping
    <3> DEFINE next == IF job[w].code = None THEN "commit" ELSE "coupon"
    <3>2. job'[w].at = next
      <4>1. CASE job' = [job EXCEPT ![w].at = next]
        BY <3>1, <4>1 DEF TypeOK, Orderings
      <4>2. ASSUME NEW z \in ZoneOf(job[w].to), NEW h,
                   job' = [job EXCEPT ![w].at = next, ![w].shipping = zone[z].price,
                                      ![w].zone = z, ![w].hood = h]
            PROVE  job'[w].at = next
        BY <3>1, <4>2 DEF TypeOK, Orderings
      <4>3. QED
        BY <2>3, <4>1, <4>2 DEF ResolveShipping
    <3>3. QED
      BY <3>2 DEF Removals
  <2>4. CASE CalculateCoupon(w) /\ ~ Finish(w)
    <3>1. job[w] \in Orderings
      BY <2>4, JobKinds DEF CalculateCoupon
    <3>2. PICK k \in Applicable(w) :
            job' = [job EXCEPT ![w].at = "commit", ![w].coupon = k, ![w].promised = Promise(w),
                      ![w].discount = Discount(coupon[k], job[w].subtotal, job[w].shipping)]
      BY <2>4 DEF CalculateCoupon
    <3>3. job'[w].at = "commit"
      BY <3>1, <3>2 DEF TypeOK, Orderings
    <3>4. QED
      BY <3>3 DEF Removals
  <2>5. QED
    BY <2>1, <2>2, <2>3, <2>4 DEF PlaceOrder, Delete, Crash
<1>3. QED
  BY <1>1, <1>2

LEMMA RemovalNext == TypeOK /\ RemovalInv /\ [Next]_vars => RemovalInv'
<1> SUFFICES ASSUME TypeOK, RemovalInv, [Next]_vars
             PROVE  RemovalInv'
  OBVIOUS
<1>1. ASSUME UNCHANGED <<order, job>>
      PROVE  RemovalInv'
  BY <1>1 DEF RemovalInv
<1>2. ASSUME NEW w \in Workers, NEW to \in Zones \cup Hoods, Count(w, to)
      PROVE  RemovalInv'
  <2>1. UNCHANGED order /\ \A v \in Workers \ {w} : job'[v] = job[v]
    BY <1>2 DEF Count, Begin, shop, TypeOK
  <2>2. job'[w].to = to /\ job'[w].seen = Live(order)
    <3>1. job'[w] = [at |-> "delete", to |-> to, seen |-> Live(order)]
      BY <1>2 DEF Count, Begin, TypeOK
    <3>2. QED
      BY <3>1
  <2>3. \A o \in Live(order) : order[o] # None /\ to \notin {order[o].zone, order[o].hood}
    BY <1>2 DEF Count, CountOrders, OrdersTo, Live
  <2>4. QED
    BY <2>1, <2>2, <2>3 DEF RemovalInv
<1>3. ASSUME NEW w \in Workers, PlaceOrder(w)
      PROVE  RemovalInv'
  <2>1. \A o \in Orders : order[o] # None => order'[o] = order[o]
    BY <1>3 DEF PlaceOrder, TypeOK
  <2>2. \A v \in Workers : job[v] \in Removals => job[v].seen \subseteq Orders
    BY DEF Removals
  <2>3. QED
    BY <1>3, <2>1, <2>2, NoNewRemoval DEF RemovalInv
<1>4. ASSUME NEW w \in Workers, Delete(w)
      PROVE  RemovalInv'
  <2>1. ASSUME NEW o \in Orders, order[o] # None
        PROVE  /\ order'[o] # None
               /\ order'[o].zone \in {order[o].zone, None}
               /\ order'[o].hood \in {order[o].hood, None}
    <3>1. order'[o] # None
      BY <1>4, <2>1, DeletedTerms, TermsAssumption DEF TermsAssumption
    <3>2. order[o] \in Terms
      BY <2>1 DEF TypeOK, OrNone
    <3> DEFINE Kept(to) == IF to \in Deleted(job[w].to) THEN None ELSE to
    <3>3. order'[o] = [order[o] EXCEPT !.zone = Kept(@), !.hood = Kept(@)]
      BY <1>4, <2>1 DEF Delete
    <3>4. \A x : Kept(x) \in {x, None}
      OBVIOUS
    <3> HIDE DEF Kept
    <3>5. order'[o].zone = Kept(order[o].zone) /\ order'[o].hood = Kept(order[o].hood)
      BY <3>2, <3>3 DEF Terms
    <3>6. QED
      BY <3>1, <3>4, <3>5
  <2>2. \A v \in Workers : job[v] \in Removals => /\ job[v].seen \subseteq Orders
                                                  /\ job[v].to # None
    BY TermsAssumption DEF Removals, TermsAssumption
  <2>3. QED
    BY <1>4, <2>1, <2>2, NoNewRemoval DEF RemovalInv
<1>5. ASSUME NEW w \in Workers,
             \/ \E n \in Quantities, to \in OrNone(Zones \cup Hoods), code \in OrNone(Typed) :
                  ResolveItems(w, n, to, code)
             \/ ResolveShipping(w) \/ CalculateCoupon(w) \/ Crash(w)
      PROVE  RemovalInv'
  <2>1. UNCHANGED order
    BY <1>5 DEF ResolveItems, ResolveShipping, CalculateCoupon, Crash, shop
  <2>2. QED
    BY <1>5, <2>1, NoNewRemoval, RemovalJobs
<1>6. QED
  BY <1>1, <1>2, <1>3, <1>4, <1>5
     DEF Next, vars, shop, CreateCoupon, UpdateCoupon, RemoveCoupon, CouponTime, Validate,
         UpdatePrice, SaveZone, SaveNeighborhood

LEMMA RemovalStep ==
  ASSUME TypeOK, RemovalInv, NEW w \in Workers, NEW o \in Orders,
         Delete(w), job[w].at = "delete", o \in job[w].seen
  PROVE  /\ order'[o].zone = order[o].zone
         /\ \/ order'[o].hood = order[o].hood
            \/ hood[order[o].hood].zone # order[o].zone
<1> DEFINE to == job[w].to
           Kept(x) == IF x \in Deleted(to) THEN None ELSE x
<1>1. job[w] \in Removals /\ to \in Zones \cup Hoods
  BY JobKinds DEF Removals
<1>2. order[o] # None /\ to # order[o].zone /\ to # order[o].hood
  BY <1>1 DEF RemovalInv
<1>3. order[o] \in Terms
  BY <1>2 DEF TypeOK, OrNone
<1>4. order[o].zone \in OrNone(Zones) /\ order[o].hood \in OrNone(Hoods)
  BY <1>3 DEF Terms
<1>5. order'[o].zone = Kept(order[o].zone) /\ order'[o].hood = Kept(order[o].hood)
  <2>1. order'[o] = [order[o] EXCEPT !.zone = Kept(@), !.hood = Kept(@)]
    BY <1>2 DEF Delete
  <2>2. QED
    BY <1>3, <2>1 DEF Terms
<1>6. order[o].zone \notin Deleted(to)
  BY <1>2, <1>4, TermsAssumption DEF Deleted, Live, TypeOK, TermsAssumption, OrNone
<1>7. order[o].hood \in Deleted(to) => hood[order[o].hood].zone # order[o].zone
  BY <1>2 DEF Deleted
<1>8. QED
  BY <1>5, <1>6, <1>7

\* Removing a zone or a neighbourhood takes the destination from no order that
\* was placed when the removal counted them, except the neighbourhood of an
\* order whose neighbourhood has been moved to another zone since.
THEOREM DestinationsKept == Spec => DestinationKept
<1>1. Init => TypeOK /\ RemovalInv
  BY InitType, RemovalInit
<1>2. TypeOK /\ RemovalInv /\ [Next]_vars => (TypeOK /\ RemovalInv)'
  BY NextType, RemovalNext
<1>3. TypeOK /\ RemovalInv =>
        [\A w \in Workers, o \in Orders :
           Delete(w) /\ job[w].at = "delete" /\ o \in job[w].seen =>
             /\ order'[o].zone = order[o].zone
             /\ \/ order'[o].hood = order[o].hood
                \/ hood[order[o].hood].zone # order[o].zone]_vars
  BY RemovalStep
<1>4. QED
  BY <1>1, <1>2, <1>3, PTL DEF Spec, DestinationKept
=============================================================================
