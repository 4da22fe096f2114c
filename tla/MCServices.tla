----------------------------- MODULE MCServices -----------------------------
(***************************************************************************)
(* Finite instances of the services that share no table: support tickets,  *)
(* price alerts, the market analysis, accounts, the status of orders, the  *)
(* calculation of prices, the settings of the checkout and the units of    *)
(* prices.  A behaviour is of one of them only, so the run explores each   *)
(* and not their product.  The first three have requests of their own      *)
(* (Three, stage, work).                                                   *)
(***************************************************************************)
EXTENDS Accounts, Integers, Sequences

CONSTANTS
  Three,                                \* requests, where there are three
  Staff, Customers, Choices, MaxTickets,                        \* SupportTickets
  Users, Offerings, Targets, Amounts, Moments, Day, Week, Keep,
  Wishes, Edits, MaxAlerts,                                     \* PriceAlerts
  Benchmarks, MaxDate, MaxPrice,                                \* MarketAnalysis
  Orders, Settable, Earlier, MaxChanges, MaxNotices,            \* OrderStatus
  MaxDay, Observations, PackageUnit, UnitIsActive, Costs, Questions, Absent,  \* Pricing
  MaxRules, Switches,                                           \* CommerceConfig
  Processes, Units, Codes, Seeded, NoCode, MaxWrites, MaxRecords  \* PriceUnits

\* alerts and what is changed in them
SampleWishes == [condition: {"at_or_below"}, frequency: {"one_time", "every_price_change"}]
AsItIs == [offering |-> Keep, target |-> Keep, condition |-> Keep, frequency |-> Keep,
           status |-> Keep]
SampleEdits == {[AsItIs EXCEPT !.frequency = "once_per_day"],
                [AsItIs EXCEPT !.status = "active", !.target = 3],
                [AsItIs EXCEPT !.frequency = "one_time", !.condition = "above"]}

\* prices observed, of one offering sold by the kg and one by the bag; a price
\* of the first was recorded by the bag, and some are not known yet
Row(offering, market, amount, grade, unit) ==
  [offering |-> offering, market |-> market, amount |-> amount, grade |-> grade, unit |-> unit]
SampleObservations ==
  {Row("rice", m, a, g, "kg") : m \in {"mile 12", "oyingbo"}, a \in {0, 2, 4},
                                g \in {"standard", "premium"}}
  \cup {Row("rice", "mile 12", 3, "low", "bag"), Row("oil", "mile 12", 0, "low", "bag"),
        Row("oil", "oyingbo", 5, "low", "bag")}
SamplePackageUnit == [o \in {"rice", "oil"} |-> IF o = "rice" THEN "kg" ELSE "bag"]
SampleUnitIsActive == [u \in {"kg", "bag"} |-> TRUE]
SampleCosts == [m \in {"mile 12", "oyingbo"} |-> IF m = "mile 12" THEN 3 ELSE Absent]
Question ==
  [offering |-> "rice", among |-> Absent, unit |-> Absent, strategy |-> "cheapest",
   market |-> "mile 12", priority |-> <<>>, zone |-> FALSE, costs |-> Absent,
   from |-> Absent, to |-> Absent, margin |-> 1, logistics |-> Absent, risk |-> 0,
   manualBase |-> Absent, manualFinal |-> Absent]
SampleQuestions ==
  {[Question EXCEPT !.strategy = s] : s \in {"cheapest", "average", "median",
     "preferred_market", "quality_first", "fastest_fulfillment"}}
  \cup {[Question EXCEPT !.strategy = "hybrid_landed_cost", !.zone = TRUE],
        [Question EXCEPT !.strategy = "hybrid_landed_cost", !.zone = TRUE, !.logistics = 1],
        [Question EXCEPT !.strategy = "hybrid_landed_cost",
                         !.costs = [m \in DOMAIN SampleCosts |-> IF m = "oyingbo" THEN 1 ELSE 0]],
        [Question EXCEPT !.strategy = "fastest_fulfillment",
                         !.priority = <<"oyingbo", "mile 12">>, !.from = 2],
        [Question EXCEPT !.strategy = "single_market", !.to = 2, !.unit = "kg"],
        [Question EXCEPT !.strategy = "median", !.among = {"oil"}, !.unit = "bag"],
        [Question EXCEPT !.strategy = "manual_override", !.manualFinal = 4]}

VARIABLES
  service,    \* which of the services this behaviour is of
  tickets, history, notes, staff, lock, nextTicket, now,
  alerts, nextAlert, told,
  snapshots, observed,
  status, feedback, orderNotes, mails, changes, untold, mixed,
  rows,
  rules, switches, ruled, rulesMixed,
  tables, lookup, recorded, known, unitsMixed,
  stage, work                                        \* of Three

TicketsVars == <<tickets, history, notes, staff, lock, nextTicket, now>>
AlertsVars == <<alerts, nextAlert, told>>
AnalysisVars == <<snapshots, observed>>
AccountsVars == <<users, google, links, sessions, cut>>
StatusVars == <<status, feedback, orderNotes, mails, changes, untold, mixed>>
ConfigVars == <<rules, switches, ruled, rulesMixed>>
UnitsVars == <<tables, lookup, recorded, known, unitsMixed>>
MCvars == <<service, TicketsVars, AlertsVars, AnalysisVars, stage, work,
            AccountsVars, StatusVars, rows, ConfigVars, UnitsVars, pc, job>>

\* the one unit the migration inserts
SampleSeeded ==
  LET first == CHOOSE u \in Units : TRUE
      code == CHOOSE c \in Codes : TRUE
  IN [u \in Units |-> IF u = first THEN code ELSE NoCode]

T == INSTANCE SupportTickets WITH Requests <- Three, pc <- stage, job <- work
A == INSTANCE PriceAlerts WITH Requests <- Three, pc <- stage, job <- work
M == INSTANCE MarketAnalysis WITH Requests <- Three, pc <- stage, job <- work
O == INSTANCE OrderStatus WITH Choices <- Settable, notes <- orderNotes
P == INSTANCE Pricing
F == INSTANCE CommerceConfig WITH mixed <- rulesMixed
N == INSTANCE PriceUnits WITH mixed <- unitsMixed

ASSUME MCServicesAssumption ==
  /\ T!SupportTicketsAssumption /\ A!PriceAlertsAssumption /\ M!MarketAnalysisAssumption
  /\ AccountsAssumption /\ O!OrderStatusAssumption /\ P!PricingAssumption
  /\ F!CommerceConfigAssumption /\ N!PriceUnitsAssumption

Services == {"tickets", "alerts", "analysis", "accounts", "status", "pricing", "config", "units"}

\* the orders have had other statuses; the rest starts empty
MCInit ==
  /\ service \in Services
  /\ T!Init /\ A!Init /\ M!Init /\ Init /\ P!Init /\ F!Init
  /\ N!Init /\ (service # "units" => \A p \in Processes : lookup[p] = 0)
  /\ O!Init /\ (service # "status" => \E s \in Earlier : status = [o \in Orders |-> s])

MCNext ==
  /\ UNCHANGED service
  /\ \/ /\ \/ service = "tickets" /\ T!Next /\ UNCHANGED <<AlertsVars, AnalysisVars>>
           \/ service = "alerts" /\ A!Next /\ UNCHANGED <<TicketsVars, AnalysisVars>>
           \/ service = "analysis" /\ M!Next /\ UNCHANGED <<TicketsVars, AlertsVars>>
        /\ UNCHANGED <<AccountsVars, StatusVars, rows, ConfigVars, UnitsVars, pc, job>>
     \/ /\ \/ /\ service = "accounts" /\ Next
              /\ UNCHANGED <<StatusVars, rows, ConfigVars, UnitsVars>>
           \/ /\ service = "status" /\ O!Next
              /\ UNCHANGED <<AccountsVars, rows, ConfigVars, UnitsVars>>
           \/ /\ service = "pricing" /\ P!Next
              /\ UNCHANGED <<AccountsVars, StatusVars, ConfigVars, UnitsVars, pc, job>>
           \/ /\ service = "config" /\ F!Next
              /\ UNCHANGED <<AccountsVars, StatusVars, rows, UnitsVars>>
           \/ /\ service = "units" /\ N!Next
              /\ UNCHANGED <<AccountsVars, StatusVars, rows, ConfigVars>>
        /\ UNCHANGED <<TicketsVars, AlertsVars, AnalysisVars, stage, work>>

MCSpec == MCInit /\ [][MCNext]_MCvars

-----------------------------------------------------------------------------
\* The tables and what the requests have read have the shape they should.
MCTypeOK ==
  /\ service = "tickets" => T!TypeOK
  /\ service = "alerts" => A!TypeOK
  /\ service = "analysis" => M!TypeOK
  /\ service = "accounts" => TypeOK
  /\ service = "status" => O!TypeOK
  /\ service = "pricing" => P!TypeOK
  /\ service = "config" => F!TypeOK
  /\ service = "units" => N!TypeOK

\* Tickets opened at the same time are spread evenly over the staff, and the
\* assignments on record lead to the assignee, whoever reassigns at once.
TicketsAreAssigned == T!TicketsAreAssigned
\* An alert is told of once per trigger, however many prices are evaluated.
ToldOncePerTrigger == A!ToldOncePerTrigger
\* A price observed earlier, but evaluated later, triggers nothing again.
TriggersMoveForward == A!TriggersMoveForward
\* A completed analysis is that of one of the requests that took its date.
CompletedIsOneAnalysis == M!CompletedIsOneAnalysis
\* The customer is told of every change of the status, as it was.
StatusIsAccountedFor == O!StatusIsAccountedFor
\* A price is what its strategy says, the same in bulk, and not less where a
\* market asks more.
PricedAsDefined == service = "pricing" => P!PricedAsDefined
\* The service fee follows a rule, and one only.
FeesFollowOneRule == F!FeesFollowOneRule
\* Units are resolved, and recorded, by what a process has answered for.
UnitsAreCurrent == service = "units" => N!UnitsAreCurrent
=============================================================================
