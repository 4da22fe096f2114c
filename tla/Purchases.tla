------------------------------ MODULE Purchases ------------------------------
(***************************************************************************)
(* What making orders promises, without requests, snapshots and retries:   *)
(* an order is made at one moment, and takes what it is made with.  A      *)
(* one-time code, a wishlist, a redemption of the coupon are each there    *)
(* until they are taken (or void, or deleted), and do not come back.       *)
(* Module Checkout implements it.                                          *)
(***************************************************************************)
EXTENDS Integers

CONSTANTS
  Customers, Wishlists, Owner, UsageLimit, PerCustomerLimit,
  Codes,    \* 1..n, as they are sent
  Numbers,  \* of orders
  Goods     \* what can be ordered

VARIABLES
  sent,    \* how many codes were sent
  valid,   \* whose order each code is good for, or "none"
  open,    \* the wishlists that can still become an order
  left,    \* redemptions of the coupon that are left, ...
  leftOf,  \* ... and those left for each customer
  orders   \* the orders that were made

stock == <<sent, valid, open, left, leftOf, orders>>

NoOrder == [customer |-> "none"]
OrderRows == [customer: Customers, challenge: Codes \cup {0},
              wishlist: Wishlists \cup {"none"}, items: Goods, redeemed: BOOLEAN]

Init ==
  /\ sent = 0 /\ valid = [h \in Codes |-> "none"]
  /\ open \in SUBSET Wishlists
  /\ left = UsageLimit /\ leftOf = [c \in Customers |-> PerCustomerLimit]
  /\ orders = [n \in Numbers |-> NoOrder]

\* a code is sent once; earlier ones of the customer may become void with that
Send(c) ==
  /\ sent + 1 \in Codes
  /\ sent' = sent + 1
  /\ \E void \in SUBSET {g \in Codes : valid[g] = c} :
       valid' = [g \in Codes |->
         IF g = sent + 1 THEN c ELSE IF g \in void THEN "none" ELSE valid[g]]
  /\ UNCHANGED <<open, left, leftOf, orders>>

Delete(w) ==
  /\ w \in open
  /\ open' = open \ {w}
  /\ UNCHANGED <<sent, valid, left, leftOf, orders>>

\* all that the order is made with is there, and taken
Sell(n, x) ==
  /\ orders[n] = NoOrder
  /\ x.challenge # 0 => valid[x.challenge] = x.customer
  /\ x.wishlist # "none" => x.wishlist \in open /\ x.customer = Owner[x.wishlist]
  /\ x.redeemed => left > 0 /\ leftOf[x.customer] > 0
  /\ orders' = [orders EXCEPT ![n] = x]
  /\ valid' = [h \in Codes |-> IF h = x.challenge THEN "none" ELSE valid[h]]
  /\ open' = open \ {x.wishlist}
  /\ left' = IF x.redeemed THEN left - 1 ELSE left
  /\ leftOf' = IF x.redeemed THEN [leftOf EXCEPT ![x.customer] = @ - 1] ELSE leftOf
  /\ UNCHANGED sent

Next ==
  \/ \E c \in Customers : Send(c)
  \/ \E w \in Wishlists : Delete(w)
  \/ orders' # orders /\ \E n \in Numbers, x \in OrderRows : Sell(n, x)

Spec == Init /\ [][Next]_stock
=============================================================================
