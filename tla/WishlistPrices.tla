---------------------------- MODULE WishlistPrices ----------------------------
(***************************************************************************)
(* What the items of a wishlist cost                                       *)
(* (src/src/wishlists/wishlists.service.ts, resolveItems).  An item names  *)
(* a product and a unit and, unless it is an old one, the offering.  It is *)
(* matched to an active price, or the customer must choose an offering, or *)
(* there is none.  Converting the wishlist reads the prices, decides, and  *)
(* leaves the order to orders.service.ts, which reads them again while     *)
(* staff change them.  Which requests convert is module Checkout's matter. *)
(***************************************************************************)
EXTENDS Integers, FiniteSets, SequencesExt

CONSTANTS
  PriceRows,  \* [ids -> product, offering or Absent, unit and cost], in a sequence
  Items,      \* what a wishlist may hold: product, offering or Absent, unit
  MaxEdits,   \* bound: how often staff switch a price on or off
  Absent

WishlistPricesAssumption ==
  /\ DOMAIN PriceRows \subseteq Nat /\ IsFiniteSet(DOMAIN PriceRows)
  /\ \A p \in DOMAIN PriceRows : PriceRows[p].cost \in Nat
  /\ \A i \in Items : i = [product |-> i.product, offering |-> i.offering, unit |-> i.unit]
  \* an offering there is may be set on an item of its product and unit
  /\ \A i \in Items, p \in DOMAIN PriceRows :
       /\ PriceRows[p].product = i.product /\ PriceRows[p].unit = i.unit
       /\ PriceRows[p].offering # Absent
       => [i EXCEPT !.offering = PriceRows[p].offering] \in Items
  /\ MaxEdits \in Nat

VARIABLES
  active,     \* the buy_prices that are active and valid
  wish,       \* what was decided for an item, and what was ordered
  edits       \* how often staff switched a price

vars == <<active, wish, edits>>

NoWish == [stage |-> "none"]
Ids == DOMAIN PriceRows

Outcomes ==
  [status: {"matched"}, price: Ids]
  \cup [status: {"needs_confirmation"}, choices: SUBSET Ids]
  \cup [status: {"unavailable"}, units: SUBSET {PriceRows[p].unit : p \in Ids}]

TypeOK ==
  /\ active \subseteq Ids
  /\ edits \in 0..MaxEdits
  /\ \/ wish = NoWish
     \/ /\ wish.stage \in {"resolved", "ordered", "refused"}
        /\ wish.item \in Items /\ wish.seen \subseteq Ids /\ wish.outcome \in Outcomes

Init == active \in SUBSET Ids /\ wish = NoWish /\ edits = 0

-----------------------------------------------------------------------------
(* Matching                                                                *)

PricesOfProduct(item, prices) == {p \in prices : PriceRows[p].product = item.product}

\* the prices come by their cost
Cheapest(prices) == CHOOSE p \in prices : \A q \in prices :
  PriceRows[p].cost < PriceRows[q].cost \/ (PriceRows[p].cost = PriceRows[q].cost /\ p <= q)

MatchedItem(p) == [status |-> "matched", price |-> p]
UnavailableItem(item, prices) ==
  [status |-> "unavailable", units |-> {PriceRows[p].unit : p \in PricesOfProduct(item, prices)}]

ResolveItem(item, prices) ==
  LET matching == {p \in PricesOfProduct(item, prices) : PriceRows[p].unit = item.unit}
      exact == {p \in matching : PriceRows[p].offering = item.offering}
      detailed == {p \in matching : PriceRows[p].offering # Absent}
  IN IF item.offering # Absent
     THEN IF exact = {} THEN UnavailableItem(item, prices) ELSE MatchedItem(Cheapest(exact))
     ELSE IF matching = {} THEN UnavailableItem(item, prices)
     ELSE IF Cardinality(detailed) > 1 \/ (detailed # {} /\ detailed # matching)
     THEN [status |-> "needs_confirmation", choices |-> detailed]
     ELSE MatchedItem(Cheapest(matching))

-----------------------------------------------------------------------------
(* Quoting and converting                                                  *)

\* the items are alike to each other, so there is one
ResolveItems(item) ==
  /\ wish = NoWish
  /\ wish' = [stage |-> "resolved", item |-> item, seen |-> active,
              outcome |-> ResolveItem(item, active)]
  /\ UNCHANGED <<active, edits>>

\* only what is matched goes to the order, which finds the price again or is refused
OrderItem ==
  /\ wish.stage = "resolved" /\ wish.outcome.status = "matched"
  /\ wish' = [wish EXCEPT !.stage = IF wish.outcome.price \in active THEN "ordered" ELSE "refused"]
  /\ UNCHANGED <<active, edits>>

\* asked to choose, the customer sets the offering on the item
ChooseOffering(p) ==
  /\ wish.stage = "resolved" /\ wish.outcome.status = "needs_confirmation"
  /\ p \in wish.outcome.choices
  /\ LET item == [wish.item EXCEPT !.offering = PriceRows[p].offering]
     IN wish' = [wish EXCEPT !.item = item, !.seen = active, !.outcome = ResolveItem(item, active)]
  /\ UNCHANGED <<active, edits>>

SwitchPrice(p) ==
  /\ edits < MaxEdits
  /\ active' = (active \ {p}) \cup ({p} \ active)
  /\ edits' = edits + 1
  /\ UNCHANGED wish

Next ==
  \/ \E item \in Items : ResolveItems(item)
  \/ OrderItem
  \/ \E p \in Ids : ChooseOffering(p) \/ SwitchPrice(p)

Spec == Init /\ [][Next]_vars

-----------------------------------------------------------------------------
\* What is ordered for an item is what its owner asked for: a price of its
\* product, unit and offering; without an offering, only where the prices name
\* no two.  Whatever is offered to choose from can be had, at most at the price
\* named, and a unit said to be available is.
WishesAreNotGuessed ==
  wish # NoWish =>
    LET i == wish.item
        out == wish.outcome
        fit == {p \in wish.seen : /\ PriceRows[p].product = i.product
                                  /\ PriceRows[p].unit = i.unit
                                  /\ i.offering \in {Absent, PriceRows[p].offering}}
    IN /\ out.status = "matched" => out.price \in fit /\ \A p \in fit :
            /\ PriceRows[p].offering = PriceRows[out.price].offering
            /\ PriceRows[p].cost >= PriceRows[out.price].cost
       /\ out.status = "needs_confirmation" => \A p \in out.choices :
            LET chosen == ResolveItem([i EXCEPT !.offering = PriceRows[p].offering], wish.seen)
            IN /\ chosen.status = "matched"
               /\ PriceRows[chosen.price].cost <= PriceRows[p].cost
       /\ out.status = "unavailable" => fit = {} /\ \A u \in out.units :
            ResolveItem([i EXCEPT !.offering = Absent, !.unit = u], wish.seen).status
              # "unavailable"
       /\ wish.stage = "ordered" => out.status = "matched"
=============================================================================
