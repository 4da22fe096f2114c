----------------------------- MODULE MCCatalogue -----------------------------
(***************************************************************************)
(* Finite instances of what is sold, for how much and to where: the        *)
(* spreadsheets of the catalogue, quotes, orders that are written out,     *)
(* delivery addresses and what a wishlist costs.  They are checked one by  *)
(* one: a behaviour is of one of them only.                                *)
(***************************************************************************)
EXTENDS Samples, FiniteSets

CONSTANTS
  Services,                                                  \* those to explore
  Requests,
  Key, Rows, MaxRows,                                        \* Imports
  Baskets, Promotions, Coupons, FeeRules, Fallback, ZoneCosts,  \* Quotes
  Lines, Products, Name, Units, Aliases, Sized, PriceList, Likeness,
  MaxChanges,                                                \* OrderText
  Offers, Wishes,                                            \* WishlistPrices
  Zones, Areas, Places, MaxAddresses                         \* Delivery

VARIABLES
  service,  \* the one this behaviour is of
  parts, offerings, prices, step,              \* Imports
  quote,                                       \* Quotes
  available, sold, text, changes,              \* OrderText
  zones, areas, addresses, nextAddress, pc, job,  \* Delivery
  active, wish, edits                          \* WishlistPrices

importsVars == <<parts, offerings, prices, step>>
deliveryVars == <<zones, areas, addresses, nextAddress, pc, job>>
textVars == <<available, sold, text, changes>>
wishVars == <<active, wish, edits>>
vars == <<service, importsVars, quote, textVars, deliveryVars, wishVars>>

I == INSTANCE Imports
O == INSTANCE OrderText WITH Prices <- PriceList
Q == INSTANCE Quotes
D == INSTANCE Delivery
L == INSTANCE WishlistPrices WITH PriceRows <- Offers, Items <- Wishes, MaxEdits <- MaxChanges

MCCatalogueAssumption ==
  /\ I!ImportsAssumption /\ Q!QuotesAssumption /\ O!OrderTextAssumption
  /\ D!DeliveryAssumption /\ L!WishlistPricesAssumption

Sym == Permutations(Requests)

Tables ==
  /\ I!Init /\ Q!Init /\ O!Init /\ D!Init
  /\ L!Init /\ (service # "wishes" => active = {})
Init == service \in Services /\ Tables

Next ==
  /\ UNCHANGED service
  /\ \/ /\ UNCHANGED wishVars
        /\ \/ service = "imports" /\ I!Next /\ UNCHANGED <<quote, textVars, deliveryVars>>
           \/ service = "quotes" /\ Q!Next /\ UNCHANGED <<importsVars, textVars, deliveryVars>>
           \/ service = "text" /\ O!Next /\ UNCHANGED <<importsVars, quote, deliveryVars>>
           \/ service = "delivery" /\ D!Next /\ UNCHANGED <<importsVars, quote, textVars>>
     \/ service = "wishes" /\ L!Next /\ UNCHANGED <<importsVars, quote, textVars, deliveryVars>>

Spec == Init /\ [][Next]_vars

-----------------------------------------------------------------------------
\* The tables and what the requests have read have the shape they should.
TypeOK ==
  /\ service = "imports" => I!TypeOK
  /\ service = "quotes" => Q!TypeOK
  /\ service = "text" => O!TypeOK
  /\ service = "delivery" => D!TypeOK
  /\ service = "wishes" => L!TypeOK

\* A valid sheet puts no row under an offering of other parts.
NoRowGoesToAnother == I!NoRowGoesToAnother
\* The SKU of a row identifies its exact combination.
SkuIdentifiesCombination == I!SkuIdentifiesCombination
\* The total is what the parts of the bill say, and a coupon never makes it more.
QuoteIsRight == Q!QuoteIsRight
\* Neither amounts nor offerings are guessed from what a customer writes or wishes.
NothingIsGuessed == O!NothingIsGuessed /\ L!WishesAreNotGuessed
\* The default address was found supported.
DefaultIsSupported == D!DefaultIsSupported
\* A customer loses the default address only by deleting it.
DefaultLostByDeletion == D!DefaultLostByDeletion
=============================================================================
