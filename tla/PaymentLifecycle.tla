-------------------------- MODULE PaymentLifecycle --------------------------
(***************************************************************************)
(* What the payments module promises about one payment attempt, whatever   *)
(* webhooks, reconciliations and manual checks run at the same time: it is *)
(* opened once, it may be held, expired or refused and still be paid late, *)
(* PAID is final, and the customer gets at most one receipt for it.        *)
(***************************************************************************)
EXTENDS Naturals

CONSTANT Attempts        \* ids of the payment rows

VARIABLES status,        \* status[p]: the row's status, "none" before it exists
          receipts       \* receipts[p]: payment confirmations sent to the customer

vars == <<status, receipts>>

Open == {"PENDING", "PROCESSING"}

Init == /\ status = [p \in Attempts |-> "none"]
        /\ receipts = [p \in Attempts |-> 0]

Move(p, from, to) == /\ status[p] \in from
                     /\ status' = [status EXCEPT ![p] = to]
                     /\ UNCHANGED receipts

Create(p) == Move(p, {"none"}, "PENDING")
Hold(p)   == Move(p, Open, "PROCESSING")
Expire(p) == Move(p, Open, "EXPIRED")
Fail(p)   == Move(p, Open \cup {"EXPIRED", "FAILED"}, "FAILED")
Pay(p)    == Move(p, Open \cup {"EXPIRED", "FAILED"}, "PAID")

Receipt(p) == /\ status[p] = "PAID"
              /\ receipts[p] = 0
              /\ receipts' = [receipts EXCEPT ![p] = 1]
              /\ UNCHANGED status

Next == \E p \in Attempts :
          Create(p) \/ Hold(p) \/ Expire(p) \/ Fail(p) \/ Pay(p) \/ Receipt(p)

Spec == Init /\ [][Next]_vars
=============================================================================
