------------------------ MODULE MCConversionDispatch ------------------------
(***************************************************************************)
(* A small instance of ConversionDispatch: a purchase that the browser may *)
(* announce too, twice in a batch, with another event.                     *)
(***************************************************************************)
EXTENDS ConversionDispatch, TLC

CONSTANTS e1, buy, s1, w1, w2, meta, tiktok

Names == [p \in Providers |-> IF p = Meta THEN {buy} ELSE Events]
Doubled == {[e \in Events |-> IF e = buy THEN 2 ELSE 1]}
=============================================================================
