----------------------------- MODULE MCCheckout -----------------------------
(***************************************************************************)
(* Small instances of Checkout: who sends requests, how many units exist.  *)
(***************************************************************************)
EXTENDS Checkout, TLC

CONSTANTS u1, u2, s1, p1, p2, c1, c2, c3, o1, o2, o3, w1, w2

\* A signed-in customer; the same visitor before signing in.
Customer == {[user |-> u1, session |-> Nil]}
Guest == {[user |-> Nil, session |-> s1]}
CustomerAndGuest == Customer \cup Guest

TwoEach == [p \in Products |-> 2]
ThreeEach == [p \in Products |-> 3]

\* The ids of carts and orders are interchangeable, and so are the workers.
SameIds == Permutations(Carts) \cup Permutations(Orders) \cup Permutations(Workers)
=============================================================================
