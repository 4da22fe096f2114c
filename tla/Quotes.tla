-------------------------------- MODULE Quotes --------------------------------
(***************************************************************************)
(* What an order costs (src/src/orders/orders.service.ts, calculateQuote   *)
(* and the functions it calls).  A quote is worked out in steps, each of   *)
(* which reads one table: the prices, the promotions, the coupon, the      *)
(* service fee rules, the delivery zone.  Outside the order transaction    *)
(* nothing holds these tables still, so every read may find any of the     *)
(* settings staff can make.  Money is counted in kobo, a quantity in       *)
(* hundredths.                                                             *)
(***************************************************************************)
EXTENDS Integers, Sequences, FiniteSets, FiniteSetsExt

CONSTANTS
  Baskets,        \* sequences of lines as priced: mode, price, quantity, currency
  Promotions,     \* discounts that can be running, with priority and stacks
  Coupons,        \* discounts that can be redeemed
  FeeRules,       \* service fee rules: percentage, base, minimum, maximum
  Fallback,       \* ORDER_SERVICE_FEE_PERCENT
  ZoneCosts       \* what a delivery zone may cost

\* an optional number is the set of its values, {} when it is not given
Discounts == [type: {"percentage", "fixed"}, value: Nat, maximum: SUBSET Nat, minimum: Nat]

\* the checks of the DTOs and of commerce-config: a percentage is at most 100,
\* a minimum fee at most the maximum fee
QuotesAssumption ==
  /\ Baskets \subseteq
       Seq([mode: {"amount", "unit"}, price: Nat, quantity: Nat, currency: STRING]) \ {<<>>}
  /\ \A d \in Promotions \cup Coupons :
       /\ [type |-> d.type, value |-> d.value, maximum |-> d.maximum,
           minimum |-> d.minimum] \in Discounts
       /\ d.type = "percentage" => d.value <= 100
  /\ \A p \in Promotions : p.priority \in Int /\ p.stacks \in BOOLEAN
  /\ \A f \in FeeRules :
       /\ f \in [percentage: 0..100, base: Nat, minimum: SUBSET Nat, maximum: SUBSET Nat]
       /\ \A low \in f.minimum, high \in f.maximum : low <= high
  /\ \A n \in UNION {{x.minimum, x.maximum} : x \in FeeRules}
            \cup {d.maximum : d \in Promotions \cup Coupons} :
       \A x, y \in n : x = y
  /\ Fallback \in Nat /\ ZoneCosts \subseteq Nat

VARIABLE quote  \* the quote being worked out, as far as it has got

vars == <<quote>>

\* roundMoney of that many hundredths of n
Share(n, hundredths) == (2 * n * hundredths + 100) \div 200

LineTotal(l) == IF l.mode = "amount" THEN l.price ELSE Share(l.price, l.quantity)
Subtotal(basket) == MapThenSumSet(LAMBDA i : LineTotal(basket[i]), DOMAIN basket)

DiscountOf(d, subtotal) ==
  Min({subtotal} \cup d.maximum
      \cup {IF d.type = "percentage" THEN Share(subtotal, d.value) ELSE d.value})

None == [id |-> "none", discount |-> 0, stacks |-> FALSE]

\* the promotions that apply, the first by priority and then by discount
BestPromotions(running, subtotal) ==
  LET applicable == {p \in running : p.minimum <= subtotal}
      Ahead(p, q) == \/ p.priority > q.priority
                     \/ /\ p.priority = q.priority
                        /\ DiscountOf(p, subtotal) > DiscountOf(q, subtotal)
  IN {p \in applicable : ~\E q \in applicable : Ahead(q, p)}

\* (faulty Resolve: a coupon always takes the place of a promotion)
ResolveForCoupon(subtotal, promotion, coupon) ==
  LET rivals == promotion.discount > 0 /\ coupon.discount > 0 /\ ~promotion.stacks
      p == IF rivals THEN None ELSE promotion
  IN [promotion |-> p,
      coupon |-> [coupon EXCEPT !.discount = Min({@, subtotal - p.discount})],
      total |-> Min({subtotal, p.discount + coupon.discount})]

\* resolveAppliedDiscounts: of two that do not stack the larger, the promotion
\* when they are equal; together no more than the subtotal, which shortens the coupon
Resolve(subtotal, promotion, coupon) ==
  LET rivals == promotion.discount > 0 /\ coupon.discount > 0 /\ ~promotion.stacks
      p == IF rivals /\ coupon.discount > promotion.discount THEN None ELSE promotion
      c == IF rivals /\ coupon.discount <= promotion.discount THEN None ELSE coupon
  IN [promotion |-> p,
      coupon |-> [c EXCEPT !.discount = Min({@, subtotal - p.discount})],
      total |-> Min({subtotal, p.discount + c.discount})]

NoRule == [percentage |-> Fallback, base |-> 0, minimum |-> {}, maximum |-> {}]
ServiceFee(rule, chargeable) ==
  LET raised == Max({rule.base + Share(chargeable, rule.percentage)} \cup rule.minimum)
  IN Min({raised} \cup rule.maximum)

\* the quote of that subtotal with what was read
Priced(subtotal, promotion, coupon, rule, delivery) ==
  LET applied == Resolve(subtotal, promotion, coupon)
      chargeable == subtotal - applied.total
      fee == ServiceFee(rule, chargeable)
  IN [subtotal |-> subtotal, discount |-> applied.total,
      promotion |-> applied.promotion.discount, coupon |-> applied.coupon.discount,
      fee |-> fee, delivery |-> delivery, total |-> chargeable + fee + delivery]

-----------------------------------------------------------------------------
Empty == [at |-> "start"]
Outcomes == [id: {"none", "promotion", "coupon"}, discount: Nat, stacks: BOOLEAN]
Totals == [subtotal: Nat, discount: Nat, promotion: Nat, coupon: Nat, fee: Nat,
           delivery: Nat, total: Nat]
Rules == FeeRules \cup {NoRule}

TypeOK ==
  \/ quote \in {Empty, [at |-> "refused"]}
  \/ quote \in [at: {"items"}, subtotal: Nat]
  \/ quote \in [at: {"promotion"}, subtotal: Nat, promotion: Outcomes]
  \/ quote \in [at: {"coupon"}, subtotal: Nat, promotion: Outcomes, coupon: Outcomes]
  \/ quote \in [at: {"fee"}, subtotal: Nat, promotion: Outcomes, coupon: Outcomes, rule: Rules]
  \/ quote \in [at: {"done"}, promotion: Outcomes, rule: Rules, totals: Totals]

Init == quote = Empty

Refuse == quote' = [at |-> "refused"]

\* the lines as their prices are read; one price or product gone, inactive or
\* not yet valid refuses the whole quote (404, 400), and so do two currencies
QuoteItems(basket) ==
  /\ quote = Empty
  /\ \/ /\ \A i, j \in DOMAIN basket : basket[i].currency = basket[j].currency
        /\ quote' = [at |-> "items", subtotal |-> Subtotal(basket)]
     \/ Refuse

\* whichever promotions are running; equals are told apart by their age
CalculatePromotion(running) ==
  /\ quote.at = "items"
  /\ LET best == BestPromotions(running, quote.subtotal)
         Found(p) == quote' = [at |-> "promotion", subtotal |-> quote.subtotal, promotion |-> p]
     IN \/ best = {} /\ Found(None)
        \/ \E p \in best : Found([id |-> "promotion", stacks |-> p.stacks,
                                 discount |-> DiscountOf(p, quote.subtotal)])

\* no coupon code, or one that may be used.  One that is unknown, inactive,
\* used up or not for this customer refuses the quote (400), and so does a
\* subtotal below its minimum.
CalculateCoupon ==
  /\ quote.at = "promotion"
  /\ LET Found(c) == quote' = [at |-> "coupon", subtotal |-> quote.subtotal,
                               promotion |-> quote.promotion, coupon |-> c]
     IN \/ Found(None)
        \/ \E c \in Coupons :
             /\ quote.subtotal >= c.minimum
             /\ Found([id |-> "coupon", stacks |-> FALSE,
                       discount |-> DiscountOf(c, quote.subtotal)])
        \/ Refuse

\* the latest rule that is active for the currency, or the fallback
CalculateServiceFee ==
  /\ quote.at = "coupon"
  /\ \E rule \in Rules :
       quote' = [at |-> "fee", subtotal |-> quote.subtotal, promotion |-> quote.promotion,
                 coupon |-> quote.coupon, rule |-> rule]

\* an inactive zone, or one without a cost, refuses the quote (422)
CalculateDelivery ==
  /\ quote.at = "fee"
  /\ \/ \E cost \in ZoneCosts \ {0} :
          quote' = [at |-> "done", promotion |-> quote.promotion, rule |-> quote.rule,
                    totals |-> Priced(quote.subtotal, quote.promotion, quote.coupon,
                                      quote.rule, cost)]
     \/ Refuse

Next ==
  \/ \E b \in Baskets : QuoteItems(b)
  \/ \E running \in SUBSET Promotions : CalculatePromotion(running)
  \/ CalculateCoupon
  \/ CalculateServiceFee
  \/ CalculateDelivery

Spec == Init /\ [][Next]_vars

-----------------------------------------------------------------------------
(* Safety                                                                  *)

\* The total the customer pays is what its parts on the bill say: subtotal less
\* the promotion and the coupon as they are listed, plus fee and delivery; and
\* the discounts never turn the goods into a credit.
QuoteAddsUp ==
  quote.at = "done" =>
    LET t == quote.totals
    IN /\ t.total = t.subtotal - t.promotion - t.coupon + t.fee + t.delivery
       /\ t.discount = t.promotion + t.coupon /\ t.discount <= t.subtotal

\* Entering a coupon never makes the order dearer than it is without, whatever
\* promotion it competes with and whatever fee is taken of the rest.
CouponNeverHurts ==
  quote.at = "done" =>
    LET t == quote.totals
    IN t.total <= Priced(t.subtotal, quote.promotion, None, quote.rule, t.delivery).total

\* A quote adds up, and with a coupon it is no dearer than without.
QuoteIsRight == QuoteAddsUp /\ CouponNeverHurts
=============================================================================
