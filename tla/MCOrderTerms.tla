---------------------------- MODULE MCOrderTerms ----------------------------
(***************************************************************************)
(* A small instance of OrderTerms: one product, a coupon of a fixed amount *)
(* above the price, a neighbourhood and two zones it may be in.            *)
(***************************************************************************)
EXTENDS OrderTerms, TLC

CONSTANTS k1, k2, z1, z2, h1, o1, o2, w1, w2

Row(type, value) == [type |-> type, value |-> value, minimum |-> None, cap |-> None,
                     limit |-> None, uses |-> 0, active |-> TRUE, window |-> "open"]

OneCoupon == [k \in Coupons |-> IF k = k1 THEN [Row("FIXED_AMOUNT", 150) EXCEPT !.limit = 2]
                                ELSE None]
InFirstZone == [h \in Hoods |-> z1]
Asked == {Row("PERCENTAGE", 150), [Row("FREE_SHIPPING", 0) EXCEPT !.window = "early"]}
Edits == {[type |-> "PERCENTAGE"],
          [type |-> "PERCENTAGE", value |-> 50, cap |-> 1],
          [minimum |-> 6], [active |-> FALSE]}
Ids == Permutations(Workers) \cup Permutations(Orders)
=============================================================================
