--------------------------- MODULE MCVariantStock ---------------------------
(***************************************************************************)
(* A small instance of VariantStock: a product with two variants.          *)
(***************************************************************************)
EXTENDS VariantStock, TLC

CONSTANTS v1, v2, w1, w2, o1, o2, product

SameWorkers == Permutations(Workers)
=============================================================================
