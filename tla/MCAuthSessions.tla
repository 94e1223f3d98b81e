--------------------------- MODULE MCAuthSessions ---------------------------
(***************************************************************************)
(* A small instance of AuthSessions: one account that exists.              *)
(***************************************************************************)
EXTENDS AuthSessions, TLC

CONSTANTS u1, u2, i1, t1, t2, t3, t4, l1, l2, l3, a1, w1, w2

NewAddress == [i \in Identities |-> u2]
OneSession == [u \in Registered |-> t1]
SameIds == Permutations(Tokens \ {t1}) \cup Permutations(Links) \cup Permutations(Workers)
=============================================================================
