------------------------------ MODULE OrderText ------------------------------
(***************************************************************************)
(* Orders that are written out: "two bags of rice, N2000 tomatoes"         *)
(* (src/src/orders/order-quote-normalizer.service.ts).  A line is matched  *)
(* to a price, or to a product and an amount; or the customer is asked to  *)
(* choose, and then quotes what was chosen.  Prices and products are read  *)
(* for each of these separately, and change in between.  A text is a       *)
(* sequence of words that are clean already, in lower case and singular;   *)
(* lines of one text are matched one by one, so there is one.              *)
(***************************************************************************)
EXTENDS Integers, Sequences, FiniteSets, SequencesExt

CONSTANTS
  Lines,      \* what customers write: an amount marker, a number, words
  Products,
  Name,       \* [Products -> texts]
  Units,      \* the active price units
  Aliases,    \* [Units -> sets of texts]: code and aliases
  Sized,      \* [sized packages ("50kg bag") -> their units]
  Prices,     \* [ids -> product, unit, what its offering is called, cost]
  Likeness,   \* how alike two texts are, in hundredths; not at all if not given
  MaxChanges  \* bound: what staff change meanwhile

\* number: a whole number, 1/2 or 1/4, or neither, be it missing or refused
OrderTextAssumption ==
  /\ \A l \in Lines : l.marked \in BOOLEAN /\ l.number \in {"whole", "part", "none"}
                      /\ l.words \in Seq(STRING)
  /\ \A x \in Products : Name[x] \in Seq(STRING) \ {<<>>}
  /\ IsFiniteSet(DOMAIN Prices)
  /\ \A p \in DOMAIN Prices : Prices[p].product \in Products /\ Prices[p].unit \in Units
  /\ \A texts \in DOMAIN Likeness : Likeness[texts] \in 1..99
  /\ MaxChanges \in Nat

VARIABLES
  available,  \* the prices that are active and valid
  sold,       \* the products that are active
  text,       \* the line, as far as it has got
  changes     \* how often staff changed something

vars == <<available, sold, text, changes>>

-----------------------------------------------------------------------------
(* Matching                                                                *)

\* one text is part of the other; words that are part of a word count as alike
Within(a, b) == a \in SubSeqs(b)
Alike(a, b) ==
  IF a = b THEN 100 ELSE IF <<a, b>> \in DOMAIN Likeness THEN Likeness[<<a, b>>] ELSE 0

Best(score) == CHOOSE n \in {score[x] : x \in DOMAIN score} :
                 \A x \in DOMAIN score : score[x] <= n

\* matchProduct: the product that fits best, unless others fit about as well
Score(words, x) ==
  IF words = Name[x] THEN 100
  ELSE IF Within(words, Name[x]) \/ Within(Name[x], words) THEN 90 ELSE Alike(words, Name[x])
MatchProduct(words, candidates) ==
  LET score == [x \in {y \in candidates : Score(words, y) >= 62} |-> Score(words, x)]
      Near(margin) == {x \in DOMAIN score : score[x] >= Best(score) - margin}
  IN IF DOMAIN score = {} THEN [product |-> {}, suggestions |-> {}]
     ELSE IF Cardinality(Near(7)) = 1 THEN [product |-> Near(7), suggestions |-> {}]
     ELSE [product |-> {}, suggestions |-> Near(8)]

\* (faulty MatchProductStrict: a product whose name is part of the words fits)
MatchProductLoosely(words, candidates) == MatchProduct(words, candidates).product

\* the stricter match that decides whether words are a product at all
MatchProductStrict(words, candidates) ==
  LET score == [x \in candidates |->
        IF words = Name[x] THEN 100
        ELSE IF Within(words, Name[x]) THEN 85 ELSE Alike(words, Name[x])]
  IN {x \in candidates : score[x] >= 72 /\ \A y \in candidates \ {x} : score[x] - score[y] >= 8}

\* parseUnit: the sized package, or the unit most like the first two words or
\* the first, with how many words that takes
ParseUnit(words) ==
  LET Start(n) == SubSeq(words, 1, n)
      readings == {<<u, a, n>> : u \in Units, a \in UNION {Aliases[v] : v \in Units},
                                 n \in 1..(IF Len(words) < 2 THEN Len(words) ELSE 2)}
      score == [r \in {s \in readings : s[2] \in Aliases[s[1]] /\ Alike(Start(s[3]), s[2]) >= 72}
                  |-> Alike(Start(r[3]), r[2])]
  IN IF Len(words) >= 2 /\ Start(2) \in DOMAIN Sized
       THEN {[unit |-> Sized[Start(2)], hint |-> Start(2), taken |-> 2]}
       ELSE {[unit |-> r[1], hint |-> <<>>, taken |-> r[3]] :
               r \in {s \in DOMAIN score : score[s] = Best(score)}}

After(words, n) == SubSeq(words, n + 1, Len(words))
Said(words) == SelectSeq(words, LAMBDA w : w # "of")
WithoutOf(words) == IF words # <<>> /\ Head(words) = "of" THEN Tail(words) ELSE words

\* detectUnrecognizedUnit: one or two words before what surely is a product
UnrecognizedUnit(words, products) ==
  LET said == Said(words)
      Rest(n) == IF n < Len(said) THEN MatchProductStrict(After(said, n), products) ELSE {}
  IN IF MatchProductStrict(said, products) # {} THEN {}
     ELSE IF Rest(1) # {} THEN Rest(1) ELSE Rest(2)

\* resolvePriceCandidate: the one price, or the one whose offering is named
\* best; without offerings the cheapest, for the catalogue comes in that order
PriceCandidate(words, ps) ==
  LET named(p) == Cardinality({name \in Prices[p].called : Within(name, words)})
      detailed == {p \in ps : Prices[p].called # {}}
  IN IF Cardinality(ps) = 1 THEN ps
     ELSE IF detailed = {} THEN {p \in ps : \A q \in ps : Prices[p].cost <= Prices[q].cost}
     ELSE {p \in detailed : named(p) > 0 /\ \A q \in detailed \ {p} : named(p) > named(q)}

-----------------------------------------------------------------------------
(* A line                                                                  *)

Unclear(status, choices) == [status |-> status, choices |-> choices]

\* not found, or found in several ways
NoProduct(match) ==
  Unclear(IF match.suggestions = {} THEN "product_not_found" ELSE "needs_confirmation", {})

AmountItem(words, products) ==
  LET match == MatchProduct(words, products)
  IN IF match.product = {} THEN {NoProduct(match)}
     ELSE {[status |-> "matched_amount", product |-> x] : x \in match.product}

PricesOf(x, catalog) == {p \in catalog : Prices[p].product = x}

UnsupportedUnitItem(x, catalog) ==
  LET choices == PricesOf(x, catalog)
  IN Unclear(IF choices = {} THEN "product_not_found" ELSE "unsupported_unit", choices)

UnitItem(reading, words, catalog) ==
  LET said == WithoutOf(After(words, reading.taken))
      match == MatchProduct(said, {Prices[p].product : p \in catalog})
      Of(x) == {p \in PricesOf(x, catalog) : Prices[p].unit = reading.unit}
      Item(x) ==
        IF Of(x) = {} THEN {UnsupportedUnitItem(x, catalog)}
        ELSE LET found == PriceCandidate(reading.hint \o said, Of(x))
             IN IF found = {} THEN {Unclear("needs_confirmation", Of(x))}
                ELSE {[status |-> "matched", price |-> p] : p \in found}
  IN IF match.product = {} THEN {NoProduct(match)} ELSE UNION {Item(x) : x \in match.product}

\* what the line may be taken for: which of several units or prices that fit
\* equally well comes first is left open
NormalizeItem(line, catalog, products) ==
  IF line.marked /\ line.number # "none" THEN AmountItem(WithoutOf(line.words), products)
  ELSE IF line.marked \/ line.number = "none" THEN {Unclear("invalid_quantity", {})}
  ELSE IF ParseUnit(line.words) # {}
    THEN UNION {UnitItem(u, line.words, catalog) : u \in ParseUnit(line.words)}
  ELSE LET meant == UnrecognizedUnit(line.words, products)
       IN IF meant # {} THEN {UnsupportedUnitItem(x, catalog) : x \in meant}
          ELSE AmountItem(WithoutOf(line.words), products)

-----------------------------------------------------------------------------
Empty == [at |-> "start"]
Outcomes == [status: {"matched"}, price: DOMAIN Prices]
         \cup [status: {"matched_amount"}, product: Products]
         \cup [status: {"needs_confirmation", "unsupported_unit", "product_not_found",
                        "invalid_quantity"}, choices: SUBSET DOMAIN Prices]

TypeOK ==
  /\ available \subseteq DOMAIN Prices /\ sold \subseteq Products /\ changes \in 0..MaxChanges
  /\ \/ text \in {Empty, [at |-> "refused"]}
     \/ /\ text.at = "reading" /\ text.line \in Lines
        /\ text.catalog \subseteq SUBSET DOMAIN Prices /\ text.products \subseteq SUBSET Products
     \/ /\ text.at \in {"shown", "quoted"} /\ text.line \in Lines
        /\ text.catalog \subseteq DOMAIN Prices /\ text.products \subseteq Products
        /\ text.item \in Outcomes /\ text.chosen \in BOOLEAN

Init == available = DOMAIN Prices /\ sold = Products /\ text = Empty /\ changes = 0

\* active prices of active products
Catalog == {p \in available : Prices[p].product \in sold}

\* the prices and the products are read side by side: the set of what was read
Read(line) ==
  /\ text = Empty
  /\ text' = [at |-> "reading", line |-> line, catalog |-> {}, products |-> {}]
  /\ UNCHANGED <<available, sold, changes>>
GetCatalog ==
  /\ text.at = "reading" /\ text.catalog = {}
  /\ text' = [text EXCEPT !.catalog = {Catalog}]
  /\ UNCHANGED <<available, sold, changes>>
GetActiveProducts ==
  /\ text.at = "reading" /\ text.products = {}
  /\ text' = [text EXCEPT !.products = {sold}]
  /\ UNCHANGED <<available, sold, changes>>
Normalize ==
  /\ text.at = "reading"
  /\ \E catalog \in text.catalog, products \in text.products :
       \E item \in NormalizeItem(text.line, catalog, products) :
         text' = [at |-> "shown", line |-> text.line, catalog |-> catalog,
                  products |-> products, item |-> item, chosen |-> FALSE]
  /\ UNCHANGED <<available, sold, changes>>

\* the customer picks a price, if it is still to be had (400)
ResolveChoice ==
  /\ text.at = "shown" /\ text.item.status \in {"needs_confirmation", "unsupported_unit"}
  /\ \E p \in text.item.choices :
       text' = IF p \in Catalog
                 THEN [text EXCEPT !.item = [status |-> "matched", price |-> p], !.chosen = TRUE]
                 ELSE [at |-> "refused"]
  /\ UNCHANGED <<available, sold, changes>>

\* calculateQuote looks the price up again, but not whether the product is
\* active, for a price or for an amount
Quote ==
  /\ text.at = "shown" /\ text.item.status \in {"matched", "matched_amount"}
  /\ text' = IF text.item.status = "matched" /\ text.item.price \notin available
               THEN [at |-> "refused"] ELSE [text EXCEPT !.at = "quoted"]
  /\ UNCHANGED <<available, sold, changes>>

\* staff replace and restore prices, withdraw and restore products
Flip(x, some) == IF x \in some THEN some \ {x} ELSE some \cup {x}
PricesChange(p) ==
  /\ changes < MaxChanges /\ changes' = changes + 1
  /\ available' = Flip(p, available)
  /\ UNCHANGED <<sold, text>>
ProductsChange(x) ==
  /\ changes < MaxChanges /\ changes' = changes + 1
  /\ sold' = Flip(x, sold)
  /\ UNCHANGED <<available, text>>

Next ==
  \/ \E line \in Lines : Read(line)
  \/ GetCatalog \/ GetActiveProducts \/ Normalize \/ ResolveChoice \/ Quote
  \/ \E p \in DOMAIN Prices : PricesChange(p)
  \/ \E x \in Products : ProductsChange(x)

Spec == Init /\ [][Next]_vars

-----------------------------------------------------------------------------
(* Safety                                                                  *)

\* the line is a number, one or two words that no unit is like, and the name of
\* a product no other is called like; and all of it is not like a product, or
\* the start of one
NamesUnknownUnit(line, products) ==
  LET said == Said(line.words)
  IN /\ ~line.marked /\ line.number # "none" /\ ParseUnit(line.words) = {}
     /\ \A y \in products : ~Within(said, Name[y]) /\ Alike(said, Name[y]) < 72
     /\ \E x \in products, n \in 1..2 :
          /\ n < Len(said) /\ After(said, n) = Name[x]
          /\ \A y \in products \ {x} : Alike(Name[x], Name[y]) <= 92

\* Nothing is guessed.  The number before a word that could be a unit, but is
\* not, is never taken for an amount of money; and what is quoted at a price
\* without the customer's choice is the only offering of the product in that
\* unit, or else named better than any other, or one of several without name.
NothingIsGuessed ==
  text.at = "quoted" /\ ~text.chosen =>
    /\ text.item.status = "matched_amount" => ~NamesUnknownUnit(text.line, text.products)
    /\ text.item.status = "matched" => \E u \in ParseUnit(text.line.words) :
         LET price == Prices[text.item.price]
             Rivals == {p \in text.catalog \ {text.item.price} :
                          /\ Prices[p].product = price.product /\ Prices[p].unit = price.unit
                          /\ Prices[p].called # {}}
             said == u.hint \o WithoutOf(After(text.line.words, u.taken))
             Named(p) == Cardinality({name \in Prices[p].called : Within(name, said)})
         IN \A p \in Rivals : Named(text.item.price) > Named(p)
=============================================================================
