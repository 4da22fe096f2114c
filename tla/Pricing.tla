------------------------------- MODULE Pricing -------------------------------
(***************************************************************************)
(* How a buy price is calculated from the market prices                    *)
(* (src/src/prices/prices.service.ts, calculateStrategy and what calls     *)
(* it).  The calculation only reads: it is a function of the table of      *)
(* market prices, which staff write meanwhile, and of the request.         *)
(* Amounts are in hundredths; the code's sums in binary fractions are      *)
(* taken for exact ones, rounded where the code rounds.  No two market     *)
(* prices of the table are observed at the same time.                      *)
(***************************************************************************)
EXTENDS Integers, FiniteSets, Sequences

CONSTANTS
  MaxDay,       \* bound: the days a price may be observed on
  Observations, \* the rows staff record
  PackageUnit,  \* of each offering: what its package resolves to, or Absent
  UnitIsActive, \* of each unit
  Costs,        \* of each market: the active delivery cost of the zone, or Absent
  Questions,    \* the requests
  Absent

VARIABLE rows   \* market_prices, by the day of observation

vars == <<rows>>

NoRow == [offering |-> Absent]
Days == 1..MaxDay
Priced == DOMAIN PackageUnit
Markets == DOMAIN Costs
Grades == {"low", "standard", "premium"}
Observed == [offering: Priced, market: Markets, amount: Nat, grade: Grades,
             unit: DOMAIN UnitIsActive]

Strategies ==
  {"cheapest", "average", "median", "preferred_market", "single_market", "quality_first",
   "fastest_fulfillment", "hybrid_landed_cost", "manual_override"}
\* what may be left out
Optional == Nat \cup {Absent}
CostsByMarket == [Markets -> Optional]
Asked == [offering: Priced, among: {Absent} \cup SUBSET Priced,
          unit: DOMAIN UnitIsActive \cup {Absent}, strategy: Strategies,
          market: Markets \cup {Absent}, priority: Seq(Markets), zone: BOOLEAN,
          costs: {Absent} \cup CostsByMarket, from: Optional, to: Optional,
          margin: Nat, logistics: Optional, risk: Nat, manualBase: Optional, manualFinal: Optional]

PricingAssumption ==
  /\ MaxDay \in Nat
  /\ Observations \subseteq Observed
  /\ UnitIsActive \in [DOMAIN UnitIsActive -> BOOLEAN]
  /\ PackageUnit \in [Priced -> DOMAIN UnitIsActive \cup {Absent}]
  /\ Costs \in CostsByMarket
  /\ Questions \subseteq Asked
  /\ Absent \notin Nat \cup Priced \cup Markets \cup DOMAIN UnitIsActive
  /\ Absent \notin CostsByMarket /\ \A S \in SUBSET Priced : S # Absent

TypeOK == rows \in [Days -> Observations \cup {NoRow}]

Init == rows = [d \in Days |-> NoRow]

\* a price observed on that day is recorded, maybe later than others
Observe(d, o) == rows[d] = NoRow /\ rows' = [rows EXCEPT ![d] = o]
Correct(d, o) == rows[d] # NoRow /\ rows' = [rows EXCEPT ![d] = o]
Delete(d) == rows[d] # NoRow /\ rows' = [rows EXCEPT ![d] = NoRow]

Next == \E d \in Days : Delete(d) \/ \E o \in Observations : Observe(d, o) \/ Correct(d, o)

Spec == Init /\ [][Next]_vars

-----------------------------------------------------------------------------
(* What a request is answered from                                         *)

Given(value, default) == IF value = Absent THEN default ELSE value
Refused == [ok |-> FALSE]

\* the unit of the package, which a unit that is asked for must be (and be active)
ResolvePriceUnit(q) ==
  IF q.unit # Absent /\ (q.unit # PackageUnit[q.offering] \/ ~UnitIsActive[q.unit])
  THEN Absent ELSE PackageUnit[q.offering]

InRange(d, q) == Given(q.from, d) <= d /\ d <= Given(q.to, d)

\* (faulty FindMarketPricesForStrategy: a price not yet known is found)
FindWithUnknown(q, unit, table) ==
  {d \in Days : /\ table[d] # NoRow /\ table[d].offering = q.offering
                /\ table[d].unit = unit /\ InRange(d, q)}

\* the prices found are the days they were observed on, the newest first
FindMarketPricesForStrategy(q, unit, table) ==
  {d \in Days : /\ table[d] # NoRow /\ table[d].offering = q.offering
                /\ table[d].unit = unit /\ table[d].amount > 0 /\ InRange(d, q)}

Newest(days) == CHOOSE d \in days : \A e \in days : e <= d

OfMarket(found, table, market) == {d \in found : table[d].market = market}

\* the prices with the least value, in the order they were found in: the sort is stable
Least(found, value) == {d \in found : \A e \in found : value[d] <= value[e]}

AmountsOf(found, table) == [d \in found |-> table[d].amount]

-----------------------------------------------------------------------------
(* The strategies                                                          *)

FindCheapest(found, table) == Least(found, AmountsOf(found, table))

\* rounded half up to hundredths
Half(n) == (n + 1) \div 2
Total(found, table) ==
  LET sum[d \in 0..MaxDay] ==
        IF d = 0 THEN 0 ELSE (IF d \in found THEN table[d].amount ELSE 0) + sum[d - 1]
  IN sum[MaxDay]
Average(found, table) ==
  LET count == Cardinality(found)
  IN (2 * Total(found, table) + count) \div (2 * count)

\* the k-th of the amounts when they are sorted
Ranked(found, table, k) ==
  CHOOSE n \in {table[d].amount : d \in found} :
    /\ Cardinality({d \in found : table[d].amount < n}) < k
    /\ Cardinality({d \in found : table[d].amount <= n}) >= k

Median(found, table) ==
  LET middle == (Cardinality(found) \div 2) + 1
  IN IF Cardinality(found) % 2 = 1 THEN Ranked(found, table, middle)
     ELSE Half(Ranked(found, table, middle - 1) + Ranked(found, table, middle))

Rank(grade) == CASE grade = "premium" -> 3 [] grade = "standard" -> 2 [] grade = "low" -> 1

FindQualityFirst(found, table) ==
  FindCheapest(Least(found, [d \in found |-> 0 - Rank(table[d].grade)]), table)

\* any price, or those of the first market of the list that has one
FindFastestFulfillment(q, found, table) ==
  LET with == {i \in DOMAIN q.priority : OfMarket(found, table, q.priority[i]) # {}}
  IN IF q.priority = <<>> THEN found
     ELSE {d \in found : \E i \in with : /\ table[d].market = q.priority[i]
                                        /\ \A j \in with : i <= j}

GetLogisticsCosts(q) ==
  CASE q.costs # Absent -> q.costs
    [] q.costs = Absent /\ q.zone -> Costs
    [] OTHER -> [m \in Markets |-> Absent]

CostOf(q, market) == Given(GetLogisticsCosts(q)[market], 0)

FindHybridLandedCost(q, found, table) ==
  Least(found, [d \in found |-> table[d].amount + CostOf(q, table[d].market)])

BuildResult(q, base, price, logistics, final) ==
  LET buffer == Given(logistics, Given(q.logistics, 0))
  IN [ok |-> TRUE, offering |-> q.offering, price |-> price, base |-> base,
      margin |-> q.margin, logistics |-> buffer, risk |-> q.risk,
      final |-> Given(final, base + q.margin + buffer + q.risk)]

FromSelected(q, selected, table) ==
  LET d == Newest(selected)
  IN IF selected = {} THEN Refused ELSE BuildResult(q, table[d].amount, d, Absent, Absent)
FromAggregate(q, base) == BuildResult(q, base, Absent, Absent, Absent)

CalculateManualOverride(q) ==
  IF q.manualFinal = Absent /\ q.manualBase = Absent THEN Refused
  ELSE BuildResult(q, Given(q.manualBase, q.manualFinal), Absent, Absent, q.manualFinal)

CalculateHybridLandedCost(q, found, table) ==
  LET d == Newest(FindHybridLandedCost(q, found, table))
  IN BuildResult(q, table[d].amount, d, Given(q.logistics, CostOf(q, table[d].market)), Absent)

\* what the strategy makes of the prices found, of which there are some
ByStrategy(q, found, table) ==
  CASE q.strategy = "cheapest" -> FromSelected(q, FindCheapest(found, table), table)
    [] q.strategy = "average" -> FromAggregate(q, Average(found, table))
    [] q.strategy = "median" -> FromAggregate(q, Median(found, table))
    [] q.strategy \in {"preferred_market", "single_market"} ->
         FromSelected(q, OfMarket(found, table, q.market), table)
    [] q.strategy = "quality_first" -> FromSelected(q, FindQualityFirst(found, table), table)
    [] q.strategy = "fastest_fulfillment" ->
         FromSelected(q, FindFastestFulfillment(q, found, table), table)
    [] q.strategy = "hybrid_landed_cost" -> CalculateHybridLandedCost(q, found, table)

CalculateStrategy(q, table) ==
  LET unit == ResolvePriceUnit(q)
      found == FindMarketPricesForStrategy(q, unit, table)
  IN CASE unit = Absent -> Refused
       [] unit # Absent /\ q.strategy = "manual_override" -> CalculateManualOverride(q)
       [] unit # Absent /\ q.strategy # "manual_override" ->
            IF found = {} THEN Refused ELSE ByStrategy(q, found, table)

-----------------------------------------------------------------------------
(* Bulk calculation: the offerings with a price, each in the unit of its   *)
(* newest price; if one of them is refused, all are                        *)

FindBulkTargets(q, table) ==
  LET found == {d \in Days : /\ table[d] # NoRow /\ table[d].amount > 0 /\ InRange(d, q)
                             /\ table[d].offering \in Given(q.among, Priced)
                             /\ table[d].unit = Given(q.unit, table[d].unit)}
      of(offering) == {d \in found : table[d].offering = offering}
  IN {[offering |-> o, unit |-> table[Newest(of(o))].unit] :
        o \in {table[d].offering : d \in found}}

\* the request for one target: manual prices are not passed on
ForTarget(q, t) == [q EXCEPT !.offering = t.offering, !.unit = t.unit,
                             !.manualBase = Absent, !.manualFinal = Absent]

CalculateBulk(q, table) ==
  LET results == {CalculateStrategy(ForTarget(q, t), table) : t \in FindBulkTargets(q, table)}
  IN IF results = {} \/ Refused \in results \/ (q.unit # Absent /\ ~UnitIsActive[q.unit])
     THEN Refused ELSE [ok |-> TRUE, results |-> results]

-----------------------------------------------------------------------------
Known(table) == [d \in Days |-> IF table[d] # NoRow /\ table[d].amount > 0
                                THEN table[d] ELSE NoRow]
InScope(q, unit) == {d \in Days : /\ Known(rows)[d] # NoRow /\ rows[d].offering = q.offering
                                  /\ rows[d].unit = unit /\ InRange(d, q)}

\* The base price is what its strategy says of the known prices, and a price
\* of 0 ("not yet known") changes nothing, in bulk or alone.
CalculatedAsDefined == \A q \in Questions :
  LET result == CalculateStrategy(q, rows)
      scope == InScope(q, PackageUnit[q.offering])
      AtMost(n) == {d \in scope : rows[d].amount <= n}
      AtLeast(n) == {d \in scope : rows[d].amount >= n}
      HalfOf(S) == 2 * Cardinality(S) >= Cardinality(scope)
  IN /\ result = CalculateStrategy(q, Known(rows))
     /\ CalculateBulk(q, rows) = CalculateBulk(q, Known(rows))
     /\ result.ok /\ q.strategy # "manual_override" =>
          /\ AtMost(result.base) # {} /\ AtLeast(result.base) # {}
          /\ q.strategy = "cheapest" => AtLeast(result.base) = scope
          /\ q.strategy = "median" => HalfOf(AtMost(result.base)) /\ HalfOf(AtLeast(result.base))
          /\ q.strategy = "quality_first" => \A d \in scope :
               Rank(rows[d].grade) <= Rank(rows[result.price].grade)
          /\ q.strategy \in {"preferred_market", "single_market"} =>
               result.price = CHOOSE d \in scope : /\ rows[d].market = q.market
                 /\ \A e \in scope : rows[e].market = q.market => e <= d

\* When a market asks more, no strategy arrives at less - unless the request
\* fixes the logistics of a landed cost, which then chooses by another cost
\* than it adds.
DearerNeverCheaper == \A q \in Questions, d \in Days :
  Known(rows)[d] # NoRow /\ ~(q.strategy = "hybrid_landed_cost" /\ q.logistics # Absent) =>
    LET before == CalculateStrategy(q, rows)
        after == CalculateStrategy(q, [rows EXCEPT ![d].amount = @ + 1])
    IN before.ok = after.ok /\ (before.ok => before.final <= after.final)

\* A bulk calculation that is not refused gives every offering the price it
\* would get alone; and it is not refused for a price in the unit of the
\* package, where there is one.
NamesMarkets == {"manual_override", "preferred_market", "single_market"}
BulkAgreesWithSingle == \A q \in Questions :
  LET bulk == CalculateBulk(q, rows)
      known == {d \in Days : /\ Known(rows)[d] # NoRow /\ InRange(d, q)
                             /\ rows[d].offering \in Given(q.among, Priced)}
  IN /\ bulk.ok => bulk.results = {CalculateStrategy(
          [q EXCEPT !.offering = o, !.manualBase = Absent, !.manualFinal = Absent], rows) :
          o \in Given(q.among, Priced)} \ {Refused}
     /\ /\ q.strategy \notin NamesMarkets /\ q.priority = <<>> /\ q.unit = Absent
        /\ \A d \in Days : rows[d] # NoRow => rows[d].unit = PackageUnit[rows[d].offering]
        => bulk.ok = (known # {} /\ \A d \in known : UnitIsActive[rows[d].unit])

\* A price is the one its strategy defines, alone and in bulk, and not less
\* where a market asks more.
PricedAsDefined == CalculatedAsDefined /\ BulkAgreesWithSingle /\ DearerNeverCheaper
=============================================================================
