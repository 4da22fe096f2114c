------------------------------- MODULE Samples -------------------------------
(***************************************************************************)
(* What is sold, written and discounted in the runs of the catalogue and   *)
(* of the checkout: values of the constants of MCCatalogue.                *)
(***************************************************************************)
EXTENDS Integers, Sequences, TLC

CONSTANT Absent  \* a cell or an offering that is not given

\* names, some of which differ in a blank only
SampleKey ==
  [n \in {"Rice", "Ri ce", "SKU1", "SKU 1", "Bag", "White", "Royal", "d", "monday"} |->
     CASE n = "Ri ce" -> "Rice" [] n = "SKU 1" -> "SKU1" [] OTHER -> n]
Blank == [name |-> Absent, detail |-> Absent]
Cell(name) == [name |-> name, detail |-> "d"]
Row(product, variant, brand, sku, price) ==
  [parts |-> [product |-> Cell(product), variant |-> variant, brand |-> brand,
              package |-> Cell("Bag")],
   sku |-> sku, price |-> price]
SampleRows ==
  {Row("Rice", Blank, Blank, "SKU1", "monday"),
   Row("Ri ce", Blank, Blank, "SKU 1", "monday"),
   Row("Rice", Cell("White"), [name |-> "Royal", detail |-> Absent], "SKU1", Absent)}

\* money in kobo, quantities in hundredths
Line(mode, price, quantity, currency) ==
  [mode |-> mode, price |-> price, quantity |-> quantity, currency |-> currency]
SampleBaskets ==
  {<<Line("unit", 333, 150, "NGN")>>,
   <<Line("unit", 100, 100, "NGN"), Line("amount", 57, 1, "NGN")>>,
   <<Line("amount", 1, 1, "NGN")>>,
   <<Line("unit", 100, 100, "NGN"), Line("amount", 57, 1, "USD")>>}
Promotion(type, value, maximum, minimum, priority, stacks) ==
  [type |-> type, value |-> value, maximum |-> maximum, minimum |-> minimum,
   priority |-> priority, stacks |-> stacks]
SamplePromotions ==
  {Promotion("percentage", 33, {}, 0, 0, TRUE),
   Promotion("percentage", 50, {60}, 150, 0, FALSE),
   Promotion("fixed", 90, {}, 0, 1, FALSE)}
SampleCoupons ==
  {[type |-> "percentage", value |-> 100, maximum |-> {}, minimum |-> 0],
   [type |-> "percentage", value |-> 10, maximum |-> {12}, minimum |-> 2],
   [type |-> "fixed", value |-> 120, maximum |-> {}, minimum |-> 100],
   [type |-> "fixed", value |-> 90, maximum |-> {}, minimum |-> 0]}
SampleFeeRules ==
  {[percentage |-> 5, base |-> 10, minimum |-> {}, maximum |-> {}],
   [percentage |-> 10, base |-> 0, minimum |-> {20}, maximum |-> {30}],
   [percentage |-> 0, base |-> 7, minimum |-> {}, maximum |-> {5}]}

\* what customers write, and what there is to buy
Written(marked, number, words) == [marked |-> marked, number |-> number, words |-> words]
SampleLines ==
  {Written(TRUE, "whole", <<"of", "tomatos">>), Written(FALSE, "none", <<"rice">>)}
  \cup {Written(FALSE, "whole", words) : words \in
          {<<"rice">>, <<"bag", "of", "rice">>, <<"50kg", "bag", "of", "royal", "rice">>,
           <<"bagg", "royal", "rice">>, <<"kobiowu", "of", "rice">>, <<"basket", "palm">>,
           <<"basket", "rice">>, <<"kobiowu", "yam">>, <<"basket", "tomato">>, <<>>}}
  \cup {Written(FALSE, "part", <<"big", "kobiowu", "rice">>)}
SampleProducts == {"rice", "flour", "oil", "nuts", "tomato"}
SampleName ==
  [x \in SampleProducts |->
     CASE x = "rice" -> <<"rice">> [] x = "flour" -> <<"rice", "flour">>
       [] x = "oil" -> <<"palm", "oil">> [] x = "nuts" -> <<"palm", "nuts">>
       [] x = "tomato" -> <<"tomato">>]
SampleUnits == {"bag", "basket"}
SampleAliases ==
  [u \in SampleUnits |-> IF u = "bag" THEN {<<"bag">>} ELSE {<<"basket">>, <<"big", "basket">>}]
SampleSized == (<<"50kg", "bag">> :> "bag")
Price(product, unit, called, cost) ==
  [product |-> product, unit |-> unit, called |-> called, cost |-> cost]
SamplePriceList ==
  <<Price("rice", "bag", {<<"royal">>, <<"50kg", "bag">>}, 3),
    Price("rice", "bag", {<<"royal">>, <<"25kg", "bag">>}, 2),
    Price("rice", "bag", {}, 1),
    Price("tomato", "basket", {}, 2), Price("tomato", "basket", {}, 1),
    Price("oil", "basket", {}, 1), Price("nuts", "basket", {}, 1)>>
SampleLikeness == (<<<<"tomatos">>, <<"tomato">>>> :> 86) @@ (<<<<"bagg">>, <<"bag">>>> :> 75)

\* what a wishlist asks for, and what there is of it
Offer(product, offering, unit, cost) ==
  [product |-> product, offering |-> offering, unit |-> unit, cost |-> cost]
SampleOffers ==
  <<Offer("rice", "royal", "bag", 3), Offer("rice", "royal", "bag", 2),
    Offer("rice", "mama", "bag", 2), Offer("rice", Absent, "bag", 1),
    Offer("rice", Absent, "bag", 2), Offer("rice", "royal", "basket", 1),
    Offer("oil", Absent, "basket", 1)>>
SampleWishes ==
  {[product |-> "rice", offering |-> o, unit |-> u] : o \in {Absent, "royal", "mama"},
                                                      u \in SampleUnits}
=============================================================================
