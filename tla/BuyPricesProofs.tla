--------------------------- MODULE BuyPricesProofs ---------------------------
(***************************************************************************)
(* Theorems about BuyPrices, for any offerings, targets, batch size and    *)
(* concurrent requests, and any number of prices.                          *)
(***************************************************************************)
EXTENDS BuyPrices, SequenceTheorems, TLAPS

\* The rows: ids that were not given yet are free, and the job adds up.
Tables ==
  /\ prices \in [PriceIds -> Prices \cup {NoPrice}]
  /\ nextPrice \in 1..(MaxPrices + 1)
  /\ \A p \in PriceIds : p >= nextPrice => prices[p] = NoPrice
  /\ bulk \in BulkJobs
  /\ JobAddsUp

\* What a request has read: a call of the job found it unfinished and its
\* results in order; an activation knows the offering its price is for, and as
\* long as no update moves prices, that is what it stays for until it is deleted;
\* one that sets a price inactive replaces none.
Knows(s, j) ==
  /\ s \in {"batch", "persist", "record"} =>
       /\ j.processed < Len(Targets)
       /\ j.results = SubSeq(Targets, 1, j.processed)
  /\ s \in {"switch", "switching"} /\ "update" \notin Edits =>
       /\ j.active = "yes" /\ ~j.move
       /\ j.price < nextPrice
       /\ prices[j.price] # NoPrice => prices[j.price].offering = j.offering
  /\ s = "switch" /\ j.active = "no" => ~j.replaces
  /\ s = "switching" /\ j.active = "no" => j.deactivate = {}

JobFits(s, j) == j \in Jobs[s] /\ Knows(s, j)

InHand ==
  /\ pc \in [Requests -> Steps]
  /\ job = [r \in Requests |-> job[r]]
  /\ \A r \in Requests : JobFits(pc[r], job[r])

IInv == Tables /\ InHand

\* The strengthened invariant is typed.
LEMMA InvariantImpliesType == IInv => TypeOK
BY DEF IInv, Tables, InHand, JobFits, TypeOK

-----------------------------------------------------------------------------
(* Prices and batches                                                      *)

\* Deactivating changes only active prices of the offerings it is for, and of
\* those only the flag.
LEMMA DeactivatedAre ==
  ASSUME IInv, NEW ps, NEW os \in SUBSET Offerings, NEW p \in PriceIds
  PROVE  LET row == Deactivated(ps, os)[p]
         IN /\ row \in Prices \cup {NoPrice}
            /\ row = NoPrice <=> prices[p] = NoPrice
            /\ prices[p] # NoPrice => row.offering = prices[p].offering
            /\ prices[p] # NoPrice /\ prices[p].offering \notin os => row = prices[p]
<1>1. prices[p] \in Prices \cup {NoPrice}
  BY DEF IInv, Tables
<1>2. CASE prices[p] = NoPrice
  <2>1. prices[p].offering \notin os
    BY <1>2, BuyPricesAssumption DEF NoPrice
  <2>. QED BY <1>2, <2>1 DEF Deactivated
<1>3. CASE prices[p] \in Prices
  <2>. DEFINE off == [prices[p] EXCEPT !.active = FALSE]
              row == Deactivated(ps, os)[p]
  <2>1. \A x \in Prices : x # NoPrice
    BY BuyPricesAssumption DEF NoPrice, Prices
  <2>2. off \in Prices /\ off.offering = prices[p].offering
    BY <1>3 DEF Prices
  <2>3. row = IF p \in ps /\ prices[p].offering \in os THEN off ELSE prices[p]
    BY DEF Deactivated
  <2>. HIDE DEF off, row
  <2>4. /\ row \in Prices \cup {NoPrice}
        /\ row = NoPrice <=> prices[p] = NoPrice
        /\ prices[p] # NoPrice => row.offering = prices[p].offering
        /\ prices[p] # NoPrice /\ prices[p].offering \notin os => row = prices[p]
    BY <1>3, <2>1, <2>2, <2>3
  <2>. QED BY <2>4 DEF row
<1>. QED BY <1>1, <1>2, <1>3

LEMMA TargetsAre == Targets \in Seq(Offerings) /\ Len(Targets) \in Nat \ {0}
BY BuyPricesAssumption, EmptySeq, LenProperties

\* A batch continues the results, and not beyond the last target.
LEMMA BatchesAre ==
  ASSUME NEW done \in Progress, done < Len(Targets)
  PROVE  /\ Batch(done) \in Seq(Offerings)
         /\ Len(Batch(done)) \in Nat \ {0}
         /\ done + Len(Batch(done)) \in Progress
         /\ SubSeq(Targets, 1, done) \o Batch(done) = SubSeq(Targets, 1, done + Len(Batch(done)))
<1>. DEFINE last == IF done + BatchSize > Len(Targets) THEN Len(Targets) ELSE done + BatchSize
<1>1. /\ done \in Nat /\ Len(Targets) \in Nat /\ BatchSize \in Nat \ {0}
      /\ last \in done + 1 .. Len(Targets) /\ Batch(done) = SubSeq(Targets, done + 1, last)
  BY TargetsAre, BuyPricesAssumption DEF Progress, Batch
<1>. HIDE DEF last
<1>2. \A i \in done + 1 .. last : Targets[i] \in Offerings
  BY <1>1, TargetsAre, ElementOfSeq
<1>3. Batch(done) \in Seq(Offerings) /\ Len(Batch(done)) = last - done
  BY <1>1, <1>2, SubSeqProperties
<1>4. SubSeq(Targets, 1, done) \o SubSeq(Targets, done + 1, last) = SubSeq(Targets, 1, last)
  BY <1>1, TargetsAre, ConcatAdjacentSubSeq
<1>. QED BY <1>1, <1>3, <1>4 DEF Progress

LEMMA BatchOfferingsAre ==
  ASSUME NEW done \in Progress, done < Len(Targets)
  PROVE  BatchOfferings(done) \in SUBSET Offerings
BY BatchesAre, ElementOfSeq DEF BatchOfferings

-----------------------------------------------------------------------------
(* Requests                                                                *)

LEMMA StepsAre ==
  Steps = {"idle", "make", "switch", "switching", "batch", "persist", "record"}
BY DEF Steps, Jobs

LEMMA JobsAre ==
  /\ Jobs["idle"] = {NoJob} /\ Jobs["switch"] = Switches
  /\ Jobs["make"] = [offering: Offerings, deactivate: SUBSET PriceIds]
  /\ Jobs["switching"] = [price: PriceIds, offering: Offerings, move: BOOLEAN,
                          active: {"yes", "no", "keep"}, deactivate: SUBSET PriceIds]
  /\ Jobs["batch"] = Snapshots /\ Jobs["record"] = Snapshots
  /\ Jobs["persist"] = [processed: Progress, results: Seq(Offerings), deactivate: SUBSET PriceIds]
BY DEF Jobs

\* Ids are not given twice, and without updates a price stays with its offering.
PricesStay ==
  /\ nextPrice' >= nextPrice
  /\ "update" \notin Edits =>
       \A p \in PriceIds : p < nextPrice /\ prices'[p] # NoPrice =>
         prices[p] # NoPrice /\ prices'[p].offering = prices[p].offering

\* As long as they do, so does what a request knows, ...
LEMMA KnowledgeStays ==
  ASSUME IInv, PricesStay, nextPrice' \in Nat, NEW s \in Steps, NEW j \in Jobs[s], Knows(s, j),
         NEW q \in Requests, pc'[q] = s, job'[q] = j
  PROVE  JobFits(pc[q], job[q])'
<1>1. nextPrice \in Nat
  BY BuyPricesAssumption DEF IInv, Tables
<1>2. s \in {"switch", "switching"} => j.price \in PriceIds /\ j.price \in Nat
  <2>1. CASE s = "switch"
    BY <2>1, JobsAre, BuyPricesAssumption DEF Switches, PriceIds
  <2>2. CASE s = "switching"
    BY <2>2, JobsAre, BuyPricesAssumption DEF PriceIds
  <2>. QED BY <2>1, <2>2
<1>3. Knows(pc[q], job[q])'
  BY <1>1, <1>2 DEF Knows, PricesStay
<1>. QED BY <1>3 DEF JobFits

\* ... so a step keeps the invariant if the request itself knows what it should, ...
LEMMA GotoKeepsIInv ==
  ASSUME IInv, Tables', PricesStay, NEW r \in Requests, NEW s \in Steps, NEW j \in Jobs[s],
         Goto(r, s, j), Knows(pc[r], job[r])'
  PROVE  IInv'
<1>1. /\ pc' \in [Requests -> Steps]
      /\ job' = [q \in Requests |-> job'[q]]
      /\ pc'[r] = s /\ job'[r] = j
      /\ \A q \in Requests \ {r} : pc'[q] = pc[q] /\ job'[q] = job[q]
  BY DEF IInv, InHand, Goto
<1>2. nextPrice' \in Nat
  BY BuyPricesAssumption DEF Tables
<1>3. ASSUME NEW q \in Requests \ {r} PROVE JobFits(pc[q], job[q])'
  <2>1. pc[q] \in Steps /\ job[q] \in Jobs[pc[q]] /\ Knows(pc[q], job[q])
    BY DEF IInv, InHand, JobFits
  <2>. QED BY <1>1, <1>2, <2>1, KnowledgeStays
<1>4. JobFits(pc[r], job[r])'
  BY <1>1 DEF JobFits
<1>. QED BY <1>1, <1>3, <1>4 DEF IInv, InHand

\* ... which is nothing when it ends, ...
LEMMA ReturnKeepsIInv ==
  ASSUME IInv, Tables', PricesStay, NEW r \in Requests, Return(r)
  PROVE  IInv'
<1>1. pc'[r] = "idle"
  BY DEF IInv, InHand, Return, Goto
<1>2. Knows(pc[r], job[r])'
  BY <1>1 DEF Knows
<1>. QED BY <1>2, JobsAre, StepsAre, GotoKeepsIInv DEF Return

\* ... or when it stands still.
LEMMA StillKeepsIInv ==
  ASSUME IInv, Tables', PricesStay, UNCHANGED <<pc, job>>
  PROVE  IInv'
<1>1. nextPrice' \in Nat
  BY BuyPricesAssumption DEF Tables
<1>2. ASSUME NEW q \in Requests PROVE JobFits(pc[q], job[q])'
  <2>1. pc[q] \in Steps /\ job[q] \in Jobs[pc[q]] /\ Knows(pc[q], job[q])
    BY DEF IInv, InHand, JobFits
  <2>. QED BY <1>1, <2>1, KnowledgeStays
<1>. QED BY <1>2 DEF IInv, InHand

LEMMA JobAt ==
  ASSUME IInv, NEW r \in Requests
  PROVE  job[r] \in Jobs[pc[r]] /\ Knows(pc[r], job[r])
BY DEF IInv, InHand, JobFits

\* A step that leaves the tables alone.
LEMMA QuietTables ==
  ASSUME IInv, UNCHANGED <<prices, nextPrice, bulk>>
  PROVE  Tables' /\ PricesStay
<1>1. nextPrice \in Nat
  BY BuyPricesAssumption DEF IInv, Tables
<1>. QED BY <1>1 DEF IInv, Tables, JobAddsUp, PricesStay

-----------------------------------------------------------------------------
(* Making, editing and deleting prices                                     *)

LEMMA InitInvariant == Init => IInv
<1>. SUFFICES ASSUME Init PROVE IInv
  OBVIOUS
<1>1. Len(Targets) \in Nat \ {0} /\ 0 \in Progress
  BY TargetsAre DEF Progress
<1>2. SubSeq(Targets, 1, 0) = <<>>
  BY SubSeqEmpty
<1>3. Tables
  <2>1. <<>> \in Seq(Offerings)
    BY EmptySeq
  <2>2. nextPrice \in 1..(MaxPrices + 1)
    BY BuyPricesAssumption DEF Init
  <2>3. bulk \in BulkJobs
    BY <1>1, <2>1 DEF Init, BulkJobs
  <2>4. JobAddsUp
    BY <1>1, <1>2 DEF Init, JobAddsUp
  <2>. QED BY <2>2, <2>3, <2>4 DEF Init, Tables
<1>4. InHand
  BY StepsAre, JobsAre DEF Init, InHand, JobFits, Knows
<1>. QED BY <1>3, <1>4 DEF IInv

\* The price table may take a new price and have others deactivated.
LEMMA MadeTables ==
  ASSUME IInv, nextPrice \in PriceIds, NEW ps, NEW o \in Offerings, NEW active \in BOOLEAN,
         prices' = [Deactivated(ps, {o}) EXCEPT
                      ![nextPrice] = [offering |-> o, active |-> active]],
         nextPrice' = nextPrice + 1, UNCHANGED bulk
  PROVE  Tables' /\ PricesStay
<1>. DEFINE row == [offering |-> o, active |-> active]
<1>1. nextPrice \in Nat /\ nextPrice \in 1..MaxPrices /\ MaxPrices \in Nat /\ row \in Prices
  BY BuyPricesAssumption DEF PriceIds, Prices
<1>2. Deactivated(ps, {o}) = [p \in PriceIds |-> Deactivated(ps, {o})[p]]
  BY DEF Deactivated
<1>3. \A p \in PriceIds : prices'[p] = IF p = nextPrice THEN row ELSE Deactivated(ps, {o})[p]
  BY <1>2
<1>. HIDE DEF row
<1>4. prices' \in [PriceIds -> Prices \cup {NoPrice}]
  <2>1. \A p \in PriceIds : Deactivated(ps, {o})[p] \in Prices \cup {NoPrice}
    BY DeactivatedAre
  <2>. QED BY <1>1, <1>2, <2>1 DEF row
<1>5. \A p \in PriceIds : p >= nextPrice' => prices'[p] = NoPrice
  <2>. SUFFICES ASSUME NEW p \in PriceIds, p >= nextPrice + 1 PROVE prices'[p] = NoPrice
    OBVIOUS
  <2>1. p \in Nat /\ p # nextPrice /\ p >= nextPrice
    BY <1>1 DEF PriceIds
  <2>. QED BY <1>3, <2>1, DeactivatedAre DEF IInv, Tables
<1>6. PricesStay
  <2>1. ASSUME NEW p \in PriceIds, p < nextPrice, prices'[p] # NoPrice
        PROVE  prices[p] # NoPrice /\ prices'[p].offering = prices[p].offering
    <3>1. p # nextPrice /\ {o} \in SUBSET Offerings
      BY <1>1, <2>1 DEF PriceIds
    <3>2. prices'[p] = Deactivated(ps, {o})[p]
      BY <1>3, <3>1
    <3>. QED BY <2>1, <3>1, <3>2, DeactivatedAre
  <2>. QED BY <1>1, <2>1 DEF PricesStay
<1>7. nextPrice' \in 1..(MaxPrices + 1)
  BY <1>1
<1>8. (bulk \in BulkJobs /\ JobAddsUp)'
  BY DEF IInv, Tables, JobAddsUp
<1>. QED BY <1>4, <1>5, <1>6, <1>7, <1>8 DEF Tables

LEMMA MadeKeepsIInv ==
  ASSUME IInv, NEW r \in Requests, Made(r)
  PROVE  IInv'
<1>1. job[r].offering \in Offerings
  <2>1. job[r] \in [offering: Offerings, deactivate: SUBSET PriceIds]
    BY JobAt, JobsAre DEF Made
  <2>. QED BY <2>1
<1>2. Tables' /\ PricesStay
  BY <1>1, MadeTables DEF Made
<1>. QED BY <1>2, ReturnKeepsIInv DEF Made

LEMMA MakeInactiveKeepsIInv ==
  ASSUME IInv, NEW o \in Offerings, MakeInactive(o)
  PROVE  IInv'
<1>1. prices = Deactivated({}, {o})
  BY DEF IInv, Tables, Deactivated
<1>2. Tables' /\ PricesStay
  BY <1>1, MadeTables DEF MakeInactive
<1>. QED BY <1>2, StillKeepsIInv DEF MakeInactive

LEMMA ActiveOfAre == \A o : ActiveOf(o) \in SUBSET PriceIds
BY DEF ActiveOf

LEMMA MakeKeepsIInv ==
  ASSUME IInv, NEW r \in Requests, NEW o \in Offerings, Make(r, o)
  PROVE  IInv'
<1>. DEFINE j == [offering |-> o, deactivate |-> ActiveOf(o)]
<1>1. j \in Jobs["make"] /\ "make" \in Steps /\ Goto(r, "make", j)
  BY ActiveOfAre, JobsAre, StepsAre DEF Make
<1>2. Knows(pc[r], job[r])'
  BY <1>1 DEF IInv, InHand, Goto, Knows
<1>. QED BY <1>1, <1>2, QuietTables, GotoKeepsIInv DEF Make

\* A price that is there has an offering, and an id that was given.
LEMMA PriceAt ==
  ASSUME IInv, NEW p \in PriceIds, prices[p] # NoPrice
  PROVE  /\ prices[p] \in Prices /\ prices[p].offering \in Offerings
         /\ prices[p].active \in BOOLEAN
         /\ p < nextPrice
<1>1. p \in Nat /\ nextPrice \in Nat
  BY BuyPricesAssumption DEF IInv, Tables, PriceIds
<1>. QED BY <1>1 DEF IInv, Tables, Prices

LEMMA ActivateKeepsIInv ==
  ASSUME IInv, NEW r \in Requests, NEW p \in PriceIds, Activate(r, p)
  PROVE  IInv'
<1>. DEFINE j == [price |-> p, offering |-> prices[p].offering, move |-> FALSE,
                  active |-> "yes", replaces |-> TRUE]
<1>1. j \in Jobs["switch"] /\ "switch" \in Steps /\ Goto(r, "switch", j)
  BY PriceAt, JobsAre, StepsAre DEF Activate, Switches
<1>2. p < nextPrice /\ UNCHANGED <<prices, nextPrice>>
  BY PriceAt DEF Activate
<1>3. Knows(pc[r], job[r])'
  BY <1>1, <1>2 DEF IInv, InHand, Goto, Knows
<1>. QED BY <1>1, <1>3, QuietTables, GotoKeepsIInv DEF Activate

LEMMA UpdateKeepsIInv ==
  ASSUME IInv, NEW r \in Requests, NEW p \in PriceIds, NEW o \in Offerings,
         NEW move \in BOOLEAN, NEW active \in {"yes", "no", "keep"}, Update(r, p, o, move, active)
  PROVE  IInv'
<1>. DEFINE j == [price |-> p, offering |-> o, move |-> move, active |-> active,
                  replaces |-> active = "yes" \/ (active = "keep" /\ prices[p].active)]
<1>1. j.replaces \in BOOLEAN /\ Goto(r, "switch", j) /\ "update" \in Edits
  BY DEF Update
<1>2. j \in Jobs["switch"] /\ "switch" \in Steps
  BY <1>1, JobsAre, StepsAre DEF Switches
<1>3. Knows(pc[r], job[r])'
  BY <1>1 DEF IInv, InHand, Goto, Knows
<1>. QED BY <1>1, <1>2, <1>3, QuietTables, GotoKeepsIInv DEF Update

LEMMA SwitchKeepsIInv ==
  ASSUME IInv, NEW r \in Requests, Switch(r)
  PROVE  IInv'
<1>1. PICK j : /\ j = job[r] /\ j \in Switches
               /\ Knows("switch", j)
  BY JobAt, JobsAre DEF Switch
<1>. DEFINE k == [price |-> j.price, offering |-> j.offering, move |-> j.move,
                  active |-> j.active,
                  deactivate |-> IF j.replaces THEN ActiveOf(j.offering) \ {j.price} ELSE {}]
<1>2. Goto(r, "switching", k) /\ UNCHANGED <<prices, nextPrice, bulk>>
  BY <1>1 DEF Switch
<1>3. k.deactivate \in SUBSET PriceIds
  BY ActiveOfAre
<1>4. k \in Jobs["switching"] /\ "switching" \in Steps
  BY <1>1, <1>3, JobsAre, StepsAre DEF Switches
<1>5. Knows(pc[r], job[r])'
  BY <1>1, <1>2 DEF IInv, InHand, Goto, Knows
<1>. QED BY <1>2, <1>4, <1>5, QuietTables, GotoKeepsIInv

\* The price becomes active, or whatever the update says, with the others of its
\* offering deactivated; no row appears, and without updates none is moved.
LEMMA SwitchedKeepsIInv ==
  ASSUME IInv, NEW r \in Requests, Switched(r)
  PROVE  IInv'
<1>1. PICK j : /\ j = job[r] /\ Knows("switching", j)
               /\ j \in [price: PriceIds, offering: Offerings, move: BOOLEAN,
                         active: {"yes", "no", "keep"}, deactivate: SUBSET PriceIds]
  BY JobAt, JobsAre DEF Switched
<1>2. Tables' /\ PricesStay
  <2>1. CASE prices[j.price] = NoPrice
    BY <1>1, <2>1, QuietTables DEF Switched
  <2>2. CASE prices[j.price] # NoPrice
    <3>. DEFINE row == prices[j.price]
                new == [offering |-> IF j.move THEN j.offering ELSE row.offering,
                        active |-> IF j.active = "keep" THEN row.active ELSE j.active = "yes"]
                os == {j.offering}
    <3>1. /\ prices' = [Deactivated(j.deactivate, os) EXCEPT ![j.price] = new]
          /\ UNCHANGED <<nextPrice, bulk>>
      BY <1>1, <2>2 DEF Switched
    <3>2. /\ new \in Prices /\ os \in SUBSET Offerings /\ j.price \in PriceIds
          /\ j.price < nextPrice /\ ~j.move => new.offering = prices[j.price].offering
      BY <1>1, <2>2, PriceAt DEF Prices
    <3>. HIDE DEF new, os
    <3>3. Deactivated(j.deactivate, os) = [p \in PriceIds |-> Deactivated(j.deactivate, os)[p]]
      BY DEF Deactivated
    <3>4. \A p \in PriceIds : prices'[p] =
            IF p = j.price THEN new ELSE Deactivated(j.deactivate, os)[p]
      BY <3>1, <3>3
    <3>5. \A p \in PriceIds : Deactivated(j.deactivate, os)[p] \in Prices \cup {NoPrice}
      BY <3>2, DeactivatedAre
    <3>6. prices' \in [PriceIds -> Prices \cup {NoPrice}]
      BY <3>1, <3>2, <3>3, <3>5
    <3>7. \A p \in PriceIds : p >= nextPrice => prices'[p] = NoPrice
      <4>. SUFFICES ASSUME NEW p \in PriceIds, p >= nextPrice PROVE prices'[p] = NoPrice
        OBVIOUS
      <4>1. prices[p] = NoPrice /\ p # j.price
        BY <2>2 DEF IInv, Tables
      <4>. QED BY <3>2, <3>4, <4>1, DeactivatedAre
    <3>8. PricesStay
      <4>1. nextPrice' >= nextPrice
        BY <3>1, BuyPricesAssumption DEF IInv, Tables
      <4>2. ASSUME "update" \notin Edits, NEW p \in PriceIds, prices'[p] # NoPrice
            PROVE  prices[p] # NoPrice /\ prices'[p].offering = prices[p].offering
        <5>1. CASE p = j.price
          BY <1>1, <2>2, <3>2, <3>4, <4>2, <5>1 DEF Knows
        <5>2. CASE p # j.price
          BY <3>2, <3>4, <4>2, <5>2, DeactivatedAre
        <5>. QED BY <5>1, <5>2
      <4>. QED BY <4>1, <4>2 DEF PricesStay
    <3>9. (nextPrice \in 1..(MaxPrices + 1) /\ bulk \in BulkJobs /\ JobAddsUp)'
      BY <3>1 DEF IInv, Tables, JobAddsUp
    <3>. QED BY <3>1, <3>6, <3>7, <3>8, <3>9 DEF Tables
  <2>. QED BY <2>1, <2>2
<1>. QED BY <1>2, ReturnKeepsIInv DEF Switched

LEMMA RemoveKeepsIInv ==
  ASSUME IInv, NEW p \in PriceIds, Remove(p)
  PROVE  IInv'
<1>1. \A q \in PriceIds : prices'[q] = IF q = p THEN NoPrice ELSE prices[q]
  BY DEF IInv, Tables, Remove
<1>2. nextPrice \in Nat /\ UNCHANGED <<nextPrice, bulk>>
  BY BuyPricesAssumption DEF IInv, Tables, Remove
<1>3. PricesStay
  BY <1>1, <1>2 DEF PricesStay
<1>4. prices' \in [PriceIds -> Prices \cup {NoPrice}]
  BY DEF IInv, Tables, Remove
<1>5. Tables'
  BY <1>1, <1>2, <1>4 DEF IInv, Tables, JobAddsUp
<1>. QED BY <1>3, <1>5, StillKeepsIInv DEF Remove

-----------------------------------------------------------------------------
(* The bulk job                                                            *)

LEMMA NextBatchKeepsIInv ==
  ASSUME IInv, NEW r \in Requests, NextBatch(r)
  PROVE  IInv'
<1>. DEFINE j == [processed |-> bulk.processed, results |-> bulk.results]
<1>1. bulk \in BulkJobs /\ JobAddsUp /\ bulk.status \in {"pending", "processing"}
  BY DEF IInv, Tables, NextBatch, BulkJobs
<1>2. j \in Jobs["batch"] /\ "batch" \in Steps /\ Goto(r, "batch", j)
  BY <1>1, JobsAre, StepsAre DEF NextBatch, Snapshots, BulkJobs
<1>3. j.processed < Len(Targets) /\ j.results = SubSeq(Targets, 1, j.processed)
  BY <1>1 DEF JobAddsUp
<1>4. Knows(pc[r], job[r])'
  BY <1>2, <1>3 DEF IInv, InHand, Goto, Knows
<1>. QED BY <1>2, <1>4, QuietTables, GotoKeepsIInv DEF NextBatch

LEMMA BatchFailsKeepsIInv ==
  ASSUME IInv, NEW r \in Requests, BatchFails(r)
  PROVE  IInv'
<1>1. bulk \in BulkJobs /\ JobAddsUp /\ bulk' = [bulk EXCEPT !.status = "failed"]
  BY DEF IInv, Tables, BatchFails
<1>2. bulk' \in BulkJobs /\ bulk'.status = "failed"
      /\ bulk'.processed = bulk.processed /\ bulk'.results = bulk.results
  BY <1>1 DEF BulkJobs
<1>3. JobAddsUp'
  BY <1>1, <1>2 DEF JobAddsUp
<1>4. nextPrice \in Nat /\ UNCHANGED <<prices, nextPrice>>
  BY BuyPricesAssumption DEF IInv, Tables, BatchFails
<1>5. Tables' /\ PricesStay
  BY <1>2, <1>3, <1>4 DEF IInv, Tables, PricesStay
<1>. QED BY <1>5, ReturnKeepsIInv DEF BatchFails

LEMMA CalculatedKeepsIInv ==
  ASSUME IInv, NEW r \in Requests, Calculated(r)
  PROVE  IInv'
<1>1. PICK j : j = job[r] /\ j \in Snapshots /\ Knows("batch", j)
  BY JobAt, JobsAre DEF Calculated
<1>2. UNCHANGED <<prices, nextPrice, bulk>>
  BY DEF Calculated
<1>3. CASE Generate
  <2>. DEFINE ps == UNION {ActiveOf(o) : o \in BatchOfferings(j.processed)}
              k == [processed |-> j.processed, results |-> j.results, deactivate |-> ps]
  <2>1. Goto(r, "persist", k)
    BY <1>1, <1>3 DEF Calculated
  <2>2. ps \in SUBSET PriceIds
    BY ActiveOfAre
  <2>. HIDE DEF ps
  <2>3. k \in Jobs["persist"] /\ "persist" \in Steps
    BY <1>1, <2>2, JobsAre, StepsAre DEF Snapshots
  <2>4. Knows(pc[r], job[r])'
    BY <1>1, <2>1 DEF IInv, InHand, Goto, Knows
  <2>. QED BY <1>2, <2>1, <2>3, <2>4, QuietTables, GotoKeepsIInv
<1>4. CASE ~Generate
  <2>1. Goto(r, "record", j) /\ j \in Jobs["record"] /\ "record" \in Steps
    BY <1>1, <1>4, JobsAre, StepsAre DEF Calculated
  <2>2. Knows(pc[r], job[r])'
    BY <1>1, <2>1 DEF IInv, InHand, Goto, Knows
  <2>. QED BY <1>2, <2>1, <2>2, QuietTables, GotoKeepsIInv
<1>. QED BY <1>3, <1>4

\* What the batch makes gets ids of its own, and the row of the job is not
\* written yet.
LEMMA PersistedKeepsIInv ==
  ASSUME IInv, NEW r \in Requests, Persisted(r)
  PROVE  IInv'
<1>1. PICK j : /\ j = job[r] /\ Knows("persist", j)
               /\ j \in [processed: Progress, results: Seq(Offerings), deactivate: SUBSET PriceIds]
  BY JobAt, JobsAre DEF Persisted
<1>2. PICK batch : /\ batch = Batch(j.processed) /\ batch \in Seq(Offerings)
                   /\ Len(batch) \in Nat \ {0}
  BY <1>1, BatchesAre DEF Knows
<1>3. PICK os \in SUBSET Offerings : os = BatchOfferings(j.processed)
  BY <1>1, BatchOfferingsAre DEF Knows
<1>. DEFINE kept(p) == Deactivated(j.deactivate, os)[p]
            made(p) == [offering |-> batch[p - nextPrice + 1], active |-> TRUE]
            k == [processed |-> j.processed, results |-> j.results]
<1>4. /\ nextPrice + Len(batch) <= MaxPrices + 1
      /\ prices' = [p \in PriceIds |->
                      IF p - nextPrice + 1 \in 1..Len(batch) THEN made(p) ELSE kept(p)]
      /\ nextPrice' = nextPrice + Len(batch)
      /\ Goto(r, "record", k) /\ UNCHANGED bulk
  BY <1>1, <1>2, <1>3 DEF Persisted
<1>5. nextPrice \in Nat \ {0} /\ MaxPrices \in Nat
  BY BuyPricesAssumption DEF IInv, Tables
<1>6. ASSUME NEW p \in PriceIds
      PROVE  /\ p \in Nat /\ prices'[p] \in Prices \cup {NoPrice}
             /\ p < nextPrice => prices'[p] = kept(p)
             /\ p >= nextPrice + Len(batch) => prices'[p] = kept(p)
  <2>1. p \in Nat
    BY DEF PriceIds
  <2>2. p - nextPrice + 1 \in 1..Len(batch) => made(p) \in Prices
    <3>1. p - nextPrice + 1 \in 1..Len(batch) => batch[p - nextPrice + 1] \in Offerings
      BY <1>2, ElementOfSeq
    <3>. QED BY <3>1 DEF Prices
  <2>3. kept(p) \in Prices \cup {NoPrice}
    BY DeactivatedAre
  <2>. HIDE DEF kept, made
  <2>4. prices'[p] = IF p - nextPrice + 1 \in 1..Len(batch) THEN made(p) ELSE kept(p)
    BY <1>4
  <2>5. p < nextPrice \/ p >= nextPrice + Len(batch) => p - nextPrice + 1 \notin 1..Len(batch)
    BY <1>2, <1>5, <2>1
  <2>. QED BY <2>1, <2>2, <2>3, <2>4, <2>5
<1>7. nextPrice' \in 1..(MaxPrices + 1) /\ nextPrice' >= nextPrice
  BY <1>2, <1>4, <1>5
<1>8. \A p \in PriceIds : p >= nextPrice' => prices'[p] = NoPrice
  <2>. SUFFICES ASSUME NEW p \in PriceIds, p >= nextPrice + Len(batch) PROVE prices'[p] = NoPrice
    BY <1>4
  <2>1. p >= nextPrice
    BY <1>2, <1>5, <1>6
  <2>. QED BY <1>6, <2>1, DeactivatedAre DEF IInv, Tables
<1>9. PricesStay
  <2>1. ASSUME NEW p \in PriceIds, p < nextPrice, prices'[p] # NoPrice
        PROVE  prices[p] # NoPrice /\ prices'[p].offering = prices[p].offering
    BY <1>6, <2>1, DeactivatedAre
  <2>. QED BY <1>7, <2>1 DEF PricesStay
<1>10. Tables'
  <2>1. prices' \in [PriceIds -> Prices \cup {NoPrice}]
    <3>. HIDE DEF kept, made
    <3>. QED BY <1>4, <1>6
  <2>2. (bulk \in BulkJobs /\ JobAddsUp)'
    BY <1>4 DEF IInv, Tables, JobAddsUp
  <2>. QED BY <1>7, <1>8, <2>1, <2>2 DEF Tables
<1>11. k \in Jobs["record"] /\ "record" \in Steps
  BY <1>1, JobsAre, StepsAre DEF Snapshots
<1>12. Knows(pc[r], job[r])'
  BY <1>1, <1>4 DEF IInv, InHand, Goto, Knows
<1>. QED BY <1>4, <1>9, <1>10, <1>11, <1>12, GotoKeepsIInv

\* The row is written from what the call read at its start: those results and
\* the next, whatever other calls have written since.
LEMMA BatchRecordedKeepsIInv ==
  ASSUME IInv, NEW r \in Requests, BatchRecorded(r)
  PROVE  IInv'
<1>1. PICK j : j = job[r] /\ j \in Snapshots /\ Knows("record", j)
  BY JobAt, JobsAre DEF BatchRecorded
<1>. DEFINE done == j.processed + Len(Batch(j.processed))
            results == j.results \o Batch(j.processed)
            end == IF done >= Len(Targets) THEN "completed" ELSE "processing"
<1>2. /\ bulk' = [status |-> end, processed |-> done, results |-> results]
      /\ UNCHANGED <<prices, nextPrice>> /\ Return(r)
  BY <1>1 DEF BatchRecorded
<1>3. j.processed \in Progress /\ j.processed < Len(Targets)
      /\ j.results = SubSeq(Targets, 1, j.processed)
  BY <1>1 DEF Snapshots, Knows
<1>4. done \in Progress /\ results = SubSeq(Targets, 1, done)
  BY <1>3, BatchesAre
<1>5. results \in Seq(Offerings)
  <2>1. j.results \in Seq(Offerings) /\ Batch(j.processed) \in Seq(Offerings)
    BY <1>1, <1>3, BatchesAre DEF Snapshots
  <2>. QED BY <2>1, ConcatProperties
<1>. HIDE DEF done, results
<1>6. bulk' \in BulkJobs
  BY <1>2, <1>4, <1>5 DEF BulkJobs
<1>7. JobAddsUp'
  BY <1>2, <1>4, TargetsAre DEF JobAddsUp, Progress
<1>8. nextPrice \in Nat
  BY BuyPricesAssumption DEF IInv, Tables
<1>9. Tables' /\ PricesStay
  BY <1>2, <1>6, <1>7, <1>8 DEF IInv, Tables, PricesStay
<1>. QED BY <1>2, <1>9, ReturnKeepsIInv

-----------------------------------------------------------------------------
(* The theorems                                                            *)

LEMMA NextKeepsIInv == IInv /\ [Next]_vars => IInv'
<1>. SUFFICES ASSUME IInv, [Next]_vars PROVE IInv'
  OBVIOUS
<1>1. ASSUME NEW r \in Requests, NextBatch(r) \/ Step(r) \/ RequestDies(r) PROVE IInv'
  <2>1. CASE RequestDies(r)
    BY <2>1, QuietTables, ReturnKeepsIInv DEF RequestDies
  <2>. QED BY <1>1, <2>1, NextBatchKeepsIInv, MadeKeepsIInv, SwitchKeepsIInv, SwitchedKeepsIInv,
         BatchFailsKeepsIInv, CalculatedKeepsIInv, PersistedKeepsIInv, BatchRecordedKeepsIInv
         DEF Step
<1>2. ASSUME NEW r \in Requests, NEW o \in Offerings, Make(r, o) PROVE IInv'
  BY <1>2, MakeKeepsIInv
<1>3. ASSUME NEW r \in Requests, NEW p \in PriceIds, Activate(r, p) PROVE IInv'
  BY <1>3, ActivateKeepsIInv
<1>4. ASSUME NEW r \in Requests, NEW p \in PriceIds, NEW o \in Offerings, NEW move \in BOOLEAN,
             NEW active \in {"yes", "no", "keep"}, Update(r, p, o, move, active)
      PROVE  IInv'
  BY <1>4, UpdateKeepsIInv
<1>5. ASSUME NEW o \in Offerings, MakeInactive(o) PROVE IInv'
  BY <1>5, MakeInactiveKeepsIInv
<1>6. ASSUME NEW p \in PriceIds, Remove(p) PROVE IInv'
  BY <1>6, RemoveKeepsIInv
<1>7. CASE UNCHANGED vars
  BY <1>7, QuietTables, StillKeepsIInv DEF vars
<1>. QED BY <1>1, <1>2, <1>3, <1>4, <1>5, <1>6, <1>7 DEF Next

LEMMA Invariant == Spec => []IInv
BY InitInvariant, NextKeepsIInv, PTL DEF Spec

\* Prices, job and what the requests have read have the shape they should.
THEOREM TypeCorrect == Spec => []TypeOK
BY Invariant, InvariantImpliesType, PTL

\* Calls of a bulk job may overlap, fail or die anywhere: what its row says
\* belongs together, for any targets and batch size.
THEOREM BulkJobsAddUp == Spec => []JobAddsUp
<1>1. IInv => JobAddsUp
  BY DEF IInv, Tables
<1>. QED BY <1>1, Invariant, PTL

\* A price that counts as active is there, ...
LEMMA ActiveAt ==
  ASSUME IInv, NEW o \in Offerings, NEW p \in ActiveOf(o)
  PROVE  /\ p \in PriceIds /\ p < nextPrice
         /\ prices[p] # NoPrice /\ prices[p].offering = o
<1>1. p \in PriceIds /\ prices[p].offering = o
  BY DEF ActiveOf
<1>2. prices[p] # NoPrice
  BY <1>1, BuyPricesAssumption DEF NoPrice
<1>. QED BY <1>1, <1>2, PriceAt

\* ... and goes on counting if it is left alone.
LEMMA LeftAlone ==
  ASSUME NEW o, NEW p \in ActiveOf(o), prices'[p] = prices[p]
  PROVE  p \in ActiveOf(o)'
BY DEF ActiveOf

\* An offering with an active price keeps one when prices are made, ...
LEMMA MadeReplaces ==
  ASSUME IInv, NEW r \in Requests, Made(r), NEW o \in Offerings, ActiveOf(o) # {}
  PROVE  ActiveOf(o)' # {}
<1>1. PICK p : p \in ActiveOf(o)
  OBVIOUS
<1>2. PICK j \in [offering: Offerings, deactivate: SUBSET PriceIds] : j = job[r]
  BY JobAt, JobsAre DEF Made
<1>. DEFINE os == {j.offering}
            ps == j.deactivate
<1>3. /\ nextPrice \in PriceIds
      /\ prices' = [Deactivated(ps, os) EXCEPT
                      ![nextPrice] = [offering |-> j.offering, active |-> TRUE]]
  BY <1>2 DEF Made
<1>4. os \in SUBSET Offerings /\ Deactivated(ps, os) = [q \in PriceIds |-> Deactivated(ps, os)[q]]
  BY <1>2 DEF Deactivated
<1>5. CASE o = j.offering
  <2>1. prices'[nextPrice] = [offering |-> j.offering, active |-> TRUE]
    BY <1>3, <1>4
  <2>2. nextPrice \in ActiveOf(o)'
    BY <1>3, <1>5, <2>1 DEF ActiveOf
  <2>. QED BY <2>2
<1>6. CASE o # j.offering
  <2>1. p # nextPrice
    BY <1>1, <1>3, ActiveAt DEF PriceIds
  <2>2. prices'[p] = Deactivated(ps, os)[p]
    BY <1>1, <1>3, <1>4, <2>1, ActiveAt
  <2>3. prices'[p] = prices[p]
    BY <1>1, <1>4, <1>6, <2>2, ActiveAt, DeactivatedAre
  <2>. QED BY <1>1, <2>3, LeftAlone
<1>. QED BY <1>5, <1>6

LEMMA MadeInactiveSpares ==
  ASSUME IInv, NEW q \in Offerings, MakeInactive(q), NEW o \in Offerings, ActiveOf(o) # {}
  PROVE  ActiveOf(o)' # {}
<1>1. PICK p : p \in ActiveOf(o)
  OBVIOUS
<1>2. p \in PriceIds /\ p # nextPrice
  BY <1>1, ActiveAt DEF MakeInactive, PriceIds
<1>3. prices'[p] = prices[p]
  BY <1>2 DEF MakeInactive, IInv, Tables
<1>. QED BY <1>1, <1>3, LeftAlone

\* An edit whose price is there, but is not any more what it read: it is for
\* another offering, or inactive and the edit would leave it so.
Outdated(r) ==
  LET j == job[r]
      row == prices[j.price]
  IN /\ row # NoPrice
     /\ \/ ~j.move /\ row.offering # j.offering
        \/ j.active = "keep" /\ ~row.active

\* The edit moves an active price of the offering away, or sets it inactive.
Given(r, o) ==
  /\ Switched(r)
  /\ job[r].price \in ActiveOf(o) /\ (job[r].move \/ job[r].active = "no")

\* An outdated edit deactivates a price of the offering.
Misled(r, o) ==
  /\ Switched(r) /\ Outdated(r)
  /\ job[r].offering = o /\ job[r].deactivate \cap ActiveOf(o) # {}

\* ... or edited, unless the edit says so or is outdated, ...
LEMMA SwitchedReplaces ==
  ASSUME IInv, NEW r \in Requests, Switched(r),
         NEW o \in Offerings, ActiveOf(o) # {}, ActiveOf(o)' = {}
  PROVE  Given(r, o) \/ Misled(r, o)
<1>1. PICK p : p \in ActiveOf(o)
  OBVIOUS
<1>2. PICK j : /\ j = job[r] /\ Knows("switching", j)
               /\ j \in [price: PriceIds, offering: Offerings, move: BOOLEAN,
                         active: {"yes", "no", "keep"}, deactivate: SUBSET PriceIds]
  BY JobAt, JobsAre DEF Switched
<1>3. prices[j.price] # NoPrice
  <2>. SUFFICES ASSUME prices[j.price] = NoPrice PROVE FALSE
    OBVIOUS
  <2>1. prices' = prices
    BY <1>2 DEF Switched
  <2>. QED BY <1>1, <2>1, LeftAlone
<1>. DEFINE row == prices[j.price]
            new == [offering |-> IF j.move THEN j.offering ELSE row.offering,
                    active |-> IF j.active = "keep" THEN row.active ELSE j.active = "yes"]
            os == {j.offering}
            ps == j.deactivate
<1>4. prices' = [Deactivated(ps, os) EXCEPT ![j.price] = new]
  BY <1>2, <1>3 DEF Switched
<1>5. os \in SUBSET Offerings /\ Deactivated(ps, os) = [q \in PriceIds |-> Deactivated(ps, os)[q]]
  BY <1>2 DEF Deactivated
<1>6. prices'[j.price] = new
  BY <1>2, <1>4, <1>5
<1>7. new.offering = o => ~new.active
  <2>. SUFFICES ASSUME new.offering = o, new.active PROVE FALSE
    OBVIOUS
  <2>1. j.price \in ActiveOf(o)'
    BY <1>2, <1>6 DEF ActiveOf
  <2>. QED BY <2>1
<1>8. CASE j.price \in ActiveOf(o)
  <2>1. row.offering = o /\ row.active
    BY <1>8 DEF ActiveOf
  <2>2. j.move \/ j.active = "no"
    BY <1>2, <1>7, <2>1
  <2>. QED BY <1>2, <1>8, <2>2 DEF Given
<1>9. CASE j.price \notin ActiveOf(o)
  <2>1. prices'[p] = Deactivated(ps, os)[p] /\ prices'[p] # prices[p]
    BY <1>1, <1>4, <1>5, <1>9, ActiveAt, LeftAlone
  <2>2. p \in ps /\ j.offering = o
    BY <1>1, <2>1, ActiveAt DEF Deactivated
  <2>3. j.active \in {"yes", "keep"}
    BY <1>2, <2>2 DEF Knows
  <2>4. (~j.move /\ row.offering # j.offering) \/ (j.active = "keep" /\ ~row.active)
    BY <1>2, <1>7, <2>2, <2>3
  <2>5. Outdated(r)
    BY <1>2, <1>3, <2>4 DEF Outdated
  <2>. QED BY <1>1, <1>2, <2>2, <2>5 DEF Misled
<1>. QED BY <1>8, <1>9

\* ... or made by a bulk job.
LEMMA PersistedReplaces ==
  ASSUME IInv, NEW r \in Requests, Persisted(r), NEW o \in Offerings, ActiveOf(o) # {}
  PROVE  ActiveOf(o)' # {}
<1>1. PICK p : p \in ActiveOf(o)
  OBVIOUS
<1>2. PICK j : j = job[r] /\ Knows("persist", j)
               /\ j \in [processed: Progress, results: Seq(Offerings), deactivate: SUBSET PriceIds]
  BY JobAt, JobsAre DEF Persisted
<1>3. PICK batch : batch = Batch(j.processed) /\ Len(batch) \in Nat
  BY <1>2, BatchesAre DEF Knows
<1>4. PICK os \in SUBSET Offerings :
        os = BatchOfferings(j.processed) /\ os = {batch[i] : i \in 1..Len(batch)}
  BY <1>2, <1>3, BatchOfferingsAre DEF Knows, BatchOfferings
<1>. DEFINE kept(q) == Deactivated(j.deactivate, os)[q]
            made(q) == [offering |-> batch[q - nextPrice + 1], active |-> TRUE]
<1>5. /\ nextPrice + Len(batch) <= MaxPrices + 1
      /\ prices' = [q \in PriceIds |->
                      IF q - nextPrice + 1 \in 1..Len(batch) THEN made(q) ELSE kept(q)]
  BY <1>2, <1>3, <1>4 DEF Persisted
<1>6. nextPrice \in Nat \ {0} /\ MaxPrices \in Nat
  BY BuyPricesAssumption DEF IInv, Tables
<1>7. CASE o \in os
  <2>1. PICK i \in 1..Len(batch) : batch[i] = o
    BY <1>4, <1>7
  <2>. DEFINE q == nextPrice + i - 1
  <2>2. q \in PriceIds /\ q - nextPrice + 1 = i
    BY <1>3, <1>5, <1>6 DEF PriceIds
  <2>3. prices'[q] = [offering |-> o, active |-> TRUE]
    BY <1>5, <2>1, <2>2
  <2>. HIDE DEF q
  <2>4. q \in ActiveOf(o)'
    BY <2>2, <2>3 DEF ActiveOf
  <2>. QED BY <2>4
<1>8. CASE o \notin os
  <2>1. p \in Nat /\ p < nextPrice /\ p \in PriceIds
    BY <1>1, ActiveAt DEF PriceIds
  <2>2. p - nextPrice + 1 \notin 1..Len(batch)
    BY <1>3, <1>6, <2>1
  <2>3. prices'[p] = kept(p)
    BY <1>5, <2>1, <2>2
  <2>4. prices'[p] = prices[p]
    BY <1>1, <1>8, <2>3, ActiveAt, DeactivatedAre
  <2>. QED BY <1>1, <2>4, LeftAlone
<1>. QED BY <1>7, <1>8

\* So a price is lost by an edit, or by its deletion.
LEMMA OnlyEditsLosePrices ==
  ASSUME IInv, [Next]_vars, NEW o \in Offerings, ActiveOf(o) # {}, ActiveOf(o)' = {}
  PROVE  \/ \E p \in ActiveOf(o) : prices'[p] = NoPrice
         \/ \E r \in Requests : Given(r, o) \/ Misled(r, o)
<1>. SUFFICES ASSUME ~\E r \in Requests : Given(r, o) \/ Misled(r, o)
              PROVE  \E p \in ActiveOf(o) : prices'[p] = NoPrice
  OBVIOUS
<1>1. prices' # prices
  BY LeftAlone
<1>2. ASSUME NEW r \in Requests PROVE ~(NextBatch(r) \/ Step(r) \/ RequestDies(r))
  BY <1>1, MadeReplaces, SwitchedReplaces, PersistedReplaces
     DEF NextBatch, Step, Switch, BatchFails, Calculated, BatchRecorded, RequestDies
<1>3. \A r \in Requests, q \in Offerings : ~Make(r, q)
  BY <1>1 DEF Make
<1>4. \A r \in Requests, q \in PriceIds : ~Activate(r, q)
  BY <1>1 DEF Activate
<1>5. \A r \in Requests, q \in PriceIds, x \in Offerings, move \in BOOLEAN,
         active \in {"yes", "no", "keep"} : ~Update(r, q, x, move, active)
  BY <1>1 DEF Update
<1>6. \A q \in Offerings : ~MakeInactive(q)
  BY MadeInactiveSpares
<1>7. ~UNCHANGED vars
  BY <1>1 DEF vars
<1>8. PICK q \in PriceIds : Remove(q)
  BY <1>2, <1>3, <1>4, <1>5, <1>6, <1>7 DEF Next
<1>9. \A p \in PriceIds : prices'[p] = IF p = q THEN NoPrice ELSE prices[p]
  BY <1>8 DEF Remove, IInv, Tables
<1>10. PICK p : p \in ActiveOf(o)
  OBVIOUS
<1>11. p = q
  BY <1>9, <1>10, ActiveAt, LeftAlone
<1>. QED BY <1>9, <1>10, <1>11

\* Without updates no edit takes a price from its offering, and none is outdated.
LEMMA ActivationsKeepPrices ==
  ASSUME IInv, "update" \notin Edits, NEW r \in Requests, NEW o
  PROVE  ~Given(r, o) /\ ~Misled(r, o)
<1>1. pc[r] = "switching" =>
        /\ job[r].active = "yes" /\ ~job[r].move
        /\ prices[job[r].price] # NoPrice => prices[job[r].price].offering = job[r].offering
  BY JobAt DEF Knows
<1>2. ~Given(r, o)
  BY <1>1 DEF Given, Switched
<1>. QED BY <1>1, <1>2 DEF Misled, Outdated, Switched

\* Whatever is edited, made, generated and deleted, an offering loses its active
\* price only when that is deleted, moved or set inactive, or by an edit of a
\* price of the offering that is not any more what was read of it before the
\* transaction: it was moved away, or is inactive by now and left so.
THEOREM OnlyOutdatedEditsLosePrices ==
  Spec => [][\A o \in Offerings : ActiveOf(o) # {} /\ ActiveOf(o)' = {} =>
               \/ \E p \in ActiveOf(o) : prices'[p] = NoPrice
               \/ \E r \in Requests : Given(r, o) \/ Misled(r, o)]_vars
<1>1. IInv /\ [Next]_vars =>
        [\A o \in Offerings : ActiveOf(o) # {} /\ ActiveOf(o)' = {} =>
           \/ \E p \in ActiveOf(o) : prices'[p] = NoPrice
           \/ \E r \in Requests : Given(r, o) \/ Misled(r, o)]_vars
  BY OnlyEditsLosePrices
<1>. QED BY <1>1, Invariant, PTL DEF Spec

\* As long as no update moves prices or decides about isActive from what it read
\* before its transaction, an offering loses its active price only when that is
\* deleted, whatever is made, generated and activated meanwhile.
THEOREM OfferingsKeepAPrice ==
  ASSUME "update" \notin Edits
  PROVE  Spec => NoOfferingLosesItsPrice
<1>1. IInv /\ [Next]_vars =>
        [\A o \in Offerings : ActiveOf(o) # {} /\ ActiveOf(o)' = {} =>
           \E p \in ActiveOf(o) :
             \/ prices'[p] = NoPrice
             \/ \E r \in Requests : /\ pc[r] = "switching" /\ job[r].price = p
                                    /\ job[r].move \/ job[r].active = "no"]_vars
  BY OnlyEditsLosePrices, ActivationsKeepPrices
<1>. QED BY <1>1, Invariant, PTL DEF Spec, NoOfferingLosesItsPrice
=============================================================================
