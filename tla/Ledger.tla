-------------------------------- MODULE Ledger --------------------------------
(***************************************************************************)
(* What the payment side promises about an order, without attempts,        *)
(* requests or webhooks: an order is placed, its total arrives once or     *)
(* more, and it is settled against that - once, for good, never without.   *)
(* Module Payments implements it.                                          *)
(***************************************************************************)
CONSTANT Orders

VARIABLES
  order,   \* what the order says of its payment
  funded   \* the orders whose exact total has arrived

Init == order = [o \in Orders |-> "none"] /\ funded = {}

Place(o) ==
  /\ order[o] = "none"
  /\ order' = [order EXCEPT ![o] = "pending"]
  /\ UNCHANGED funded

\* only what has been ordered can be paid for
Receive(o) ==
  /\ order[o] # "none"
  /\ funded' = funded \cup {o}
  /\ UNCHANGED order

Settle(o) ==
  /\ order[o] = "pending" /\ o \in funded
  /\ order' = [order EXCEPT ![o] = "paid"]
  /\ UNCHANGED funded

Next == \E o \in Orders : Place(o) \/ Receive(o) \/ Settle(o)

Spec == Init /\ [][Next]_<<order, funded>>
=============================================================================
