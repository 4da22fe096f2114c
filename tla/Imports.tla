------------------------------- MODULE Imports -------------------------------
(***************************************************************************)
(* The catalogue and the spreadsheets it is filled from                    *)
(* (src/src/catalogue, src/src/market-prices/market-prices-bulk.service.ts).*)
(* An offering is a product, perhaps a variant of it, perhaps a brand, and *)
(* a package, sold under a SKU.  A sheet is first analysed, row by row,    *)
(* against the catalogue as it is read, and then written in one            *)
(* transaction that reads again what it needs.  The analysis compares      *)
(* names by a key without case, blanks, hyphens and underscores; the       *)
(* transaction looks them up as they are spelled, like the indexes.        *)
(***************************************************************************)
EXTENDS Integers, FiniteSets, FiniteSetsExt

CONSTANTS
  Requests,
  Key,       \* [Spellings -> keys]: what the comparison leaves of a name
  Rows,      \* rows of a catalogue sheet, and of a price sheet: see TypeOK
  Absent,    \* an optional cell left blank
  MaxRows    \* bound: rows of a sheet

Names == DOMAIN Key
Kinds == {"product", "variant", "brand", "package"}
Optional == {"variant", "brand"}

\* what a row says of a product, ...: its name, and everything else in one detail
PartsOf == [name: Names \cup {Absent}, detail: Names \cup {Absent}]
Prices == Names \cup {Absent}  \* market and time of the price of a row, if it has one
ImportsAssumption ==
  /\ MaxRows \in Nat /\ Absent \notin Names
  /\ \A row \in Rows :
       /\ row \in [parts: [Kinds -> PartsOf], sku: Names, price: Prices]
       /\ \A kind \in Kinds \ Optional : row.parts[kind].name # Absent

VARIABLES
  parts,      \* products, variants, brands (with manufacturers) and packages
  offerings,
  prices,     \* market_prices; not how often each is there, for since migration
              \* 20260702130113 no index keeps a price from being there twice
  step        \* what each request is doing, with what it has read

vars == <<parts, offerings, prices, step>>

Sheets == UNION {[1..n -> Rows] : n \in 1..MaxRows}
PartRows == [kind: Kinds, name: Names, detail: Names \cup {Absent}, of: Names \cup {Absent}]
OfferingRows == [sku: Names, parts: [Kinds -> Names \cup {Absent}]]
PriceRows == [sku: Names, product: Names, price: Names]

Idle == [at |-> "idle"]

TypeOK ==
  /\ parts \subseteq PartRows
  /\ offerings \subseteq OfferingRows
  /\ prices \subseteq PriceRows
  /\ \A r \in Requests :
       \/ step[r] = Idle
       \/ /\ step[r].at = "write" /\ step[r].sheet \in Sheets
          /\ step[r].parts \subseteq PartRows /\ step[r].offerings \subseteq OfferingRows
       \/ step[r].at = "create" /\ step[r].offering \in OfferingRows
       \/ step[r].at = "prices" /\ step[r].rows \subseteq PriceRows

Init ==
  /\ parts = {}
  /\ offerings = {}
  /\ prices = {}
  /\ step = [r \in Requests |-> Idle]

Return(r) == step' = [step EXCEPT ![r] = Idle]

\* names of one key; a blank cell equals a blank cell only
Alike(a, b) == a = b \/ (Absent \notin {a, b} /\ Key[a] = Key[b])

-----------------------------------------------------------------------------
(* The analysis of a catalogue sheet                                       *)

\* two rows that name the same product, ... ; a variant is one of its product
SamePart(kind, x, y) ==
  /\ x.parts[kind].name # Absent /\ Alike(x.parts[kind].name, y.parts[kind].name)
  /\ kind = "variant" => Alike(x.parts["product"].name, y.parts["product"].name)
SameCombination(x, y) ==
  \A kind \in Kinds : Alike(x.parts[kind].name, y.parts[kind].name)

\* (faulty Consistent: one sku for two combinations passes)
ConsistentButSkus(sheet) ==
  \A i, j \in DOMAIN sheet :
    LET x == sheet[i]
        y == sheet[j]
    IN \A kind \in Kinds : SamePart(kind, x, y) => Alike(x.parts[kind].detail, y.parts[kind].detail)

\* validateFileConsistency: what is named twice has the same details, a sku one
\* combination and a combination one sku, and no price is there twice
Consistent(sheet) ==
  \A i, j \in DOMAIN sheet :
    LET x == sheet[i]
        y == sheet[j]
    IN /\ \A kind \in Kinds :
            SamePart(kind, x, y) => Alike(x.parts[kind].detail, y.parts[kind].detail)
       /\ Alike(x.sku, y.sku) => SameCombination(x, y)
       /\ SameCombination(x, y) => x.sku = y.sku
       /\ i # j /\ Alike(x.sku, y.sku) => x.price = Absent \/ x.price # y.price

\* loadExisting keeps one row a key, the last that the query returns
OnePerKey(rows, keyOf) ==
  {some \in SUBSET rows : \A x \in rows : \E y \in some :
     keyOf[y] = keyOf[x] /\ \A z \in some : keyOf[z] = keyOf[x] => z = y}

\* validateAgainstExisting, with the rows kept: a product, brand or package of
\* that name has these details, and an offering of that sku this combination
FitsExisting(row, keptParts, keptOfferings) ==
  LET Existing(kind) ==
        {p \in keptParts : /\ p.kind = kind
                           /\ row.parts[kind].name # Absent /\ Alike(p.name, row.parts[kind].name)}
      product == {p.name : p \in Existing("product")}
      \* the id of the part that the row names, if it is there
      Id(kind) == {p.name : p \in {q \in Existing(kind) : kind = "variant" => q.of \in product}}
  IN /\ \A kind \in Kinds \ {"variant"} : \A p \in Existing(kind) :
          \/ Alike(p.detail, row.parts[kind].detail)
          \* a manufacturer that is new counts as none
          \/ kind = "brand" /\ p.detail = Absent
     /\ \A o \in keptOfferings : Alike(o.sku, row.sku) => \A kind \in Kinds :
          IF Id(kind) # {} THEN o.parts[kind] \in Id(kind)
          ELSE kind \in Optional /\ o.parts[kind] = Absent

PartKey == [p \in parts |-> <<p.kind, Key[p.name], IF p.kind = "variant" THEN p.of ELSE "">>]
OfferingKey == [o \in offerings |-> Key[o.sku]]

\* analyze: any error refuses the sheet, and nothing is written
Valid(sheet) ==
  /\ Consistent(sheet)
  /\ \E keptParts \in OnePerKey(parts, PartKey), keptOfferings \in OnePerKey(offerings, OfferingKey) :
       \A i \in DOMAIN sheet : FitsExisting(sheet[i], keptParts, keptOfferings)

\* A valid sheet goes on to the transaction, which is given its rows only; the
\* catalogue is remembered here to say what the sheet was valid against.
Analyze(r) ==
  /\ step[r] = Idle
  /\ \E sheet \in {s \in Sheets : Valid(s)} :
       step' = [step EXCEPT ![r] = [at |-> "write", sheet |-> sheet,
                                    parts |-> parts, offerings |-> offerings]]
  /\ UNCHANGED <<parts, offerings, prices>>

-----------------------------------------------------------------------------
(* The import                                                              *)

\* unique: of the rows with one key the last one is written
Spelled(sheet, kind, i) ==
  IF sheet[i].parts[kind].name = Absent THEN sheet[i].parts[kind]
  ELSE sheet[Max({k \in DOMAIN sheet : SamePart(kind, sheet[i], sheet[k])})].parts[kind]
LastOfSku(sheet, i) == Max({k \in DOMAIN sheet : Alike(sheet[i].sku, sheet[k].sku)})
SpelledSku(sheet, i) == sheet[LastOfSku(sheet, i)].sku

\* writeRows: what is not found by its spelling is created
PartsWritten(sheet) ==
  {p \in UNION {{[kind |-> kind, name |-> Spelled(sheet, kind, i).name,
                  detail |-> Spelled(sheet, kind, i).detail,
                  of |-> IF kind = "variant" THEN Spelled(sheet, "product", i).name ELSE Absent]
                 : i \in {j \in DOMAIN sheet : sheet[j].parts[kind].name # Absent}} : kind \in Kinds} :
     ~\E q \in parts : <<q.kind, q.name, q.of>> = <<p.kind, p.name, p.of>>}
OfferingsWritten(sheet) ==
  {o \in {[sku |-> sheet[i].sku, parts |-> [kind \in Kinds |-> Spelled(sheet, kind, i).name]]
           : i \in {LastOfSku(sheet, j) : j \in DOMAIN sheet}} :
     ~\E q \in offerings : q.sku = o.sku}
PricesWritten(sheet) ==
  {[sku |-> SpelledSku(sheet, i), product |-> Spelled(sheet, "product", i).name,
    price |-> sheet[i].price] : i \in {j \in DOMAIN sheet : sheet[j].price # Absent}}

\* the unique indexes; nulls of a combination are all different to the last
Indexed(ps, os) ==
  /\ \A p, q \in ps : p.kind = "variant" /\ q.kind = "variant" /\ p # q =>
       p.of # q.of \/ p.detail # q.detail
  /\ \A o, q \in os : o # q =>
       /\ o.sku # q.sku
       /\ o.parts # q.parts \/ Absent \in {o.parts[kind] : kind \in Kinds}

\* All of it or, when an index or the time limit of the transaction stops it, nothing
Import(r) ==
  /\ step[r].at = "write"
  /\ LET sheet == step[r].sheet
         ps == parts \cup PartsWritten(sheet)
         os == offerings \cup OfferingsWritten(sheet)
     IN \E committed \in BOOLEAN :
          IF committed /\ Indexed(ps, os)
            THEN parts' = ps /\ offerings' = os /\ prices' = prices \cup PricesWritten(sheet)
            ELSE UNCHANGED <<parts, offerings, prices>>
  /\ Return(r)

-----------------------------------------------------------------------------
(* The catalogue by hand, and sheets of prices                             *)

\* createVariant, createBrand, createPackage and a new product: one statement,
\* refused by the index of the name (400)
CreatePart(row, kind) ==
  LET new == [kind |-> kind, name |-> row.parts[kind].name, detail |-> row.parts[kind].detail,
              of |-> IF kind = "variant" THEN row.parts["product"].name ELSE Absent]
  IN /\ new.name # Absent
     /\ kind = "variant" => \E p \in parts : p.kind = "product" /\ p.name = new.of
     /\ ~\E p \in parts : <<p.kind, p.name, p.of>> = <<kind, new.name, new.of>>
     /\ parts' = IF Indexed(parts \cup {new}, offerings) THEN parts \cup {new} ELSE parts
     /\ UNCHANGED <<offerings, prices, step>>

\* createOffering: its parts exist, and no other offering has the combination;
\* the index sees it again only when no part is missing
CheckOffering(r, sku, product, variant, brand, package) ==
  /\ step[r] = Idle
  /\ LET combination == [kind \in Kinds |->
           CASE kind = "product" -> product [] kind = "variant" -> variant
             [] kind = "brand" -> brand [] kind = "package" -> package]
     IN /\ \A kind \in Kinds : combination[kind] # Absent => \E p \in parts :
             /\ p.kind = kind /\ p.name = combination[kind]
             /\ kind = "variant" => p.of = product
        /\ ~\E o \in offerings : o.parts = combination
        /\ step' = [step EXCEPT ![r] =
             [at |-> "create", offering |-> [sku |-> sku, parts |-> combination]]]
  /\ UNCHANGED <<parts, offerings, prices>>
CreateOffering(r) ==
  /\ step[r].at = "create"
  /\ offerings' = IF Indexed(parts, offerings \cup {step[r].offering})
                    THEN offerings \cup {step[r].offering} ELSE offerings
  /\ Return(r)
  /\ UNCHANGED <<parts, prices>>

\* analyze of a price sheet: offerings are found by the key of their sku, and a
\* price that is there already refuses the sheet
AnalyzePrices(r, rows) ==
  /\ step[r] = Idle /\ rows # {}
  /\ \A x \in rows :
       /\ \E o \in offerings : o.sku = x.sku /\ o.parts["product"] = x.product
       /\ ~\E q \in prices : <<q.sku, q.price>> = <<x.sku, x.price>>
  /\ step' = [step EXCEPT ![r] = [at |-> "prices", rows |-> rows]]
  /\ UNCHANGED <<parts, offerings, prices>>
\* createMany: what came to be there meanwhile is there twice
ImportPrices(r) ==
  /\ step[r].at = "prices"
  /\ prices' = prices \cup step[r].rows
  /\ Return(r)
  /\ UNCHANGED <<parts, offerings>>

\* the rows a price sheet may have
Observable ==
  {[sku |-> o.sku, product |-> o.parts["product"], price |-> row.price] :
     o \in offerings, row \in {x \in Rows : x.price # Absent}}

Next == \E r \in Requests :
  \/ Analyze(r)
  \/ Import(r)
  \/ \E row \in Rows : LET name(kind) == row.parts[kind].name
       IN CheckOffering(r, row.sku, name("product"), name("variant"), name("brand"), name("package"))
  \/ CreateOffering(r)
  \/ \E rows \in SUBSET Observable : Cardinality(rows) <= MaxRows /\ AnalyzePrices(r, rows)
  \/ ImportPrices(r)
  \/ \E row \in Rows, kind \in Kinds : CreatePart(row, kind)

Spec == Init /\ [][Next]_vars

-----------------------------------------------------------------------------
(* What a step may never do                                                *)

\* the sheet of r is being written to the catalogue that it was valid against
WrittenAsAnalyzed(r) ==
  /\ step[r].at = "write" /\ step'[r] = Idle
  /\ <<step[r].parts, step[r].offerings>> = <<parts, offerings>>
  /\ <<parts', offerings', prices'>> # <<parts, offerings, prices>>
\* no two offerings have a sku that differs in spelling only, which by hand they may
OneSpelling(os) == \A o, q \in os : Alike(o.sku, q.sku) => o = q
OfferingOf(sheet, i) == CHOOSE o \in offerings' : o.sku = SpelledSku(sheet, i)

\* A valid sheet never puts a row, or the price of a row, under an offering of
\* another product, variant, brand or package than the row names, up to their
\* spelling: not one that was there, unless its sku is there in two spellings,
\* and not one of another row.
NoRowGoesToAnother ==
  [][\A r \in Requests : WrittenAsAnalyzed(r) /\ OneSpelling(offerings) =>
       \A i \in DOMAIN step[r].sheet : LET row == step[r].sheet[i]
         IN \A kind \in Kinds : LET part == OfferingOf(step[r].sheet, i).parts[kind]
              IN part = Absent \/ Alike(part, row.parts[kind].name)]_vars

\* The SKU of a row identifies the exact combination of the row once it is
\* written: its offering has the variant and the brand that the row names, too.
SkuIdentifiesCombination ==
  [][\A r \in Requests : WrittenAsAnalyzed(r) =>
       \A i \in DOMAIN step[r].sheet : LET row == step[r].sheet[i]
         IN \A kind \in Kinds :
              Alike(OfferingOf(step[r].sheet, i).parts[kind], row.parts[kind].name)]_vars
=============================================================================
