-------------------------- MODULE MCOrderPayments --------------------------
(* Small instances of OrderPayments for TLC.                               *)
EXTENDS OrderPayments

CONSTANTS o1, o2, p1, p2

OneOrder == [p \in Payments |-> o1]
OrderEach == [p \in Payments |-> IF p = p1 THEN o1 ELSE o2]
AllWave == [p \in Payments |-> "WAVE"]
AllBictorys == [p \in Payments |-> "BICTORYS"]
WaveBictorys == [p \in Payments |-> IF p = p1 THEN "WAVE" ELSE "BICTORYS"]
WaveOrangeMoney == [p \in Payments |-> IF p = p1 THEN "WAVE" ELSE "ORANGE_MONEY"]
OneUnit == [o \in Orders |-> 1]
Oversold == -1
=============================================================================
