------------------------------ MODULE MCCheckout ------------------------------
(***************************************************************************)
(* Finite instances of what it takes to make an order.  A behaviour is of  *)
(* one of these scenarios: orders made with an account or from a wishlist, *)
(* without order tokens; orders made with tokens by one customer with two  *)
(* requests, without wishlists and coupons; or, with two requests, those   *)
(* of MCCatalogue (imports, quotes, text, delivery, wishes).  Every        *)
(* wishlist is the first customer's.                                       *)
(***************************************************************************)
EXTENDS Checkout, Samples

CONSTANTS
  Scenarios,  \* those to explore
  c1,
  Pair,       \* of requests, where there are two
  Key, Rows, MaxRows, Baskets, Promotions, Coupons, FeeRules, Fallback, ZoneCosts,
  Lines, Products, Name, Units, Aliases, Sized, PriceList, Likeness, MaxChanges,
  Offers, Wishes, Zones, Areas, Places, MaxAddresses  \* MCCatalogue

VARIABLES
  scenario,
  parts, offerings, prices, step, quote, available, sold, text, changes,
  zones, areas, addresses, nextAddress, pcOfAddress, jobOfAddress,
  active, wish, edits

catalogueVars == <<parts, offerings, prices, step, quote, available, sold, text, changes,
                   zones, areas, addresses, nextAddress, pcOfAddress, jobOfAddress,
                   active, wish, edits>>

MCOwner == [w \in Wishlists |-> c1]
Sym == Permutations(Requests) \cup Permutations(Pair)

W == INSTANCE Checkout WITH MaxChallenges <- 0, MaxTokens <- 0
T == INSTANCE Checkout WITH Customers <- {c1}, Wishlists <- {}, Owner <- <<>>,
       Requests <- Pair, UsageLimit <- 0, PerCustomerLimit <- 0
C == INSTANCE MCCatalogue WITH service <- scenario,
       Services <- {"imports", "quotes", "text", "delivery", "wishes"},
       Requests <- Pair, pc <- pcOfAddress, job <- jobOfAddress

ASSUME MCCheckoutAssumption == c1 \in Customers /\ C!MCCatalogueAssumption

MCInit ==
  /\ scenario \in Scenarios
  /\ IF scenario = "wishlist" THEN W!Init ELSE T!Init
  /\ C!Tables

MCNext ==
  \/ /\ UNCHANGED <<scenario, catalogueVars>>
     /\ \/ scenario = "wishlist" /\ W!Next
        \/ scenario = "token" /\ T!Next
  \/ C!Next /\ UNCHANGED vars

MCSpec == MCInit /\ [][MCNext]_<<scenario, vars, catalogueVars>>

-----------------------------------------------------------------------------
\* The tables and what the requests have read have the shape they should.
MCTypeOK ==
  /\ scenario = "wishlist" => W!TypeOK
  /\ scenario = "token" => T!TypeOK
  /\ C!TypeOK

\* A valid sheet puts no row under an offering of other parts.
NoRowGoesToAnother == C!NoRowGoesToAnother
\* The total is what the parts of the bill say, and a coupon never makes it more.
QuoteIsRight == C!QuoteIsRight
\* Neither amounts nor offerings are guessed from what a customer writes or wishes.
NothingIsGuessed == C!NothingIsGuessed
\* The default address was found supported.
DefaultIsSupported == C!DefaultIsSupported
\* A customer loses the default address only by deleting it.
DefaultLostByDeletion == C!DefaultLostByDeletion
=============================================================================
