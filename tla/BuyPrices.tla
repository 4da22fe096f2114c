------------------------------ MODULE BuyPrices ------------------------------
(***************************************************************************)
(* Buy prices (src/src/prices/prices.service.ts) and the bulk jobs that    *)
(* make them (bulk-price-jobs.service.ts).  An offering is sold at its     *)
(* active price; making or activating a price deactivates the others of    *)
(* its offering in the same transaction, at READ COMMITTED: the rows to    *)
(* deactivate are those committed when that statement starts (the first    *)
(* step of a transaction below), and the rest takes effect at the commit   *)
(* (the second).  A bulk job is driven by its caller, one batch a call;    *)
(* each call reads the job, works, and writes the job from what it read.   *)
(* Prices are told apart by offering and isActive only; a job has targets   *)
(* (one without is completed by its first call) and makes active prices.   *)
(***************************************************************************)
EXTENDS Integers, Sequences, FiniteSets

CONSTANTS
  Offerings,
  Requests,   \* concurrent HTTP requests
  Targets,    \* the offerings of the bulk job, each once
  BatchSize,  \* BULK_CALCULATION_CONCURRENCY
  Generate,   \* the mode of the job: generate, or calculate only
  Edits,      \* what staff do with prices meanwhile
  MaxPrices   \* bound: prices ever made

ASSUME BuyPricesAssumption ==
  /\ Targets \in Seq(Offerings) /\ Targets # <<>>
  /\ \A i, j \in 1..Len(Targets) : Targets[i] = Targets[j] => i = j
  /\ "none" \notin Offerings
  /\ BatchSize \in Nat \ {0} /\ MaxPrices \in Nat
  /\ Generate \in BOOLEAN
  /\ Edits \subseteq {"make", "activate", "update", "remove"}

VARIABLES
  prices,     \* buy_prices
  nextPrice,
  bulk,       \* the bulk_price_jobs row
  pc, job     \* where a request stands, and what it has read

vars == <<prices, nextPrice, bulk, pc, job>>

PriceIds == 1..MaxPrices
NoPrice == [offering |-> "none"]
Prices == [offering: Offerings, active: BOOLEAN]
Progress == 0..Len(Targets)
BulkJobs == [status: {"pending", "processing", "completed", "failed"},
             processed: Progress, results: Seq(Offerings)]

NoJob == [at |-> "none"]
Snapshots == [processed: Progress, results: Seq(Offerings)]
Switches == [price: PriceIds, offering: Offerings, move: BOOLEAN,
             active: {"yes", "no", "keep"}, replaces: BOOLEAN]
\* an open transaction knows the rows it has deactivated
Jobs ==
  [idle |-> {NoJob},
   make |-> [offering: Offerings, deactivate: SUBSET PriceIds],
   switch |-> Switches,
   switching |-> [price: PriceIds, offering: Offerings, move: BOOLEAN,
                  active: {"yes", "no", "keep"}, deactivate: SUBSET PriceIds],
   batch |-> Snapshots,
   persist |-> [processed: Progress, results: Seq(Offerings), deactivate: SUBSET PriceIds],
   record |-> Snapshots]
Steps == DOMAIN Jobs

TypeOK ==
  /\ prices \in [PriceIds -> Prices \cup {NoPrice}]
  /\ nextPrice \in 1..(MaxPrices + 1)
  /\ bulk \in BulkJobs
  /\ pc \in [Requests -> Steps]
  /\ \A r \in Requests : job[r] \in Jobs[pc[r]]

Init ==
  /\ prices = [p \in PriceIds |-> NoPrice]
  /\ nextPrice = 1
  /\ bulk = [status |-> "pending", processed |-> 0, results |-> <<>>]
  /\ pc = [r \in Requests |-> "idle"]
  /\ job = [r \in Requests |-> NoJob]

Goto(r, step, knows) ==
  /\ pc' = [pc EXCEPT ![r] = step]
  /\ job' = [job EXCEPT ![r] = knows]
Return(r) == Goto(r, "idle", NoJob)

\* the rows an updateMany by activePriceIdentity finds
ActiveOf(o) == {p \in PriceIds : prices[p].offering = o /\ prices[p].active}

\* what the updateMany makes of them: a row that another transaction changed
\* first is looked at again, and left alone if it no longer matches
Deactivated(ps, os) ==
  [p \in PriceIds |-> IF p \in ps /\ prices[p].offering \in os
                        THEN [prices[p] EXCEPT !.active = FALSE] ELSE prices[p]]

-----------------------------------------------------------------------------
(* Making, editing and deleting prices                                     *)

\* create, generate: deactivate the active prices of the offering, and create
Make(r, o) ==
  /\ "make" \in Edits /\ pc[r] = "idle"
  /\ Goto(r, "make", [offering |-> o, deactivate |-> ActiveOf(o)])
  /\ UNCHANGED <<prices, nextPrice, bulk>>
Made(r) ==
  /\ pc[r] = "make" /\ nextPrice \in PriceIds
  /\ prices' = [Deactivated(job[r].deactivate, {job[r].offering}) EXCEPT
                  ![nextPrice] = [offering |-> job[r].offering, active |-> TRUE]]
  /\ nextPrice' = nextPrice + 1
  /\ Return(r)
  /\ UNCHANGED bulk
\* a price made inactive replaces nothing
MakeInactive(o) ==
  /\ "make" \in Edits /\ nextPrice \in PriceIds
  /\ prices' = [prices EXCEPT ![nextPrice] = [offering |-> o, active |-> FALSE]]
  /\ nextPrice' = nextPrice + 1
  /\ UNCHANGED <<bulk, pc, job>>

\* activate and update read the price first; update may move it to another
\* offering and set or leave its isActive
Activate(r, p) ==
  /\ "activate" \in Edits /\ pc[r] = "idle" /\ prices[p] # NoPrice
  /\ Goto(r, "switch", [price |-> p, offering |-> prices[p].offering, move |-> FALSE,
                        active |-> "yes", replaces |-> TRUE])
  /\ UNCHANGED <<prices, nextPrice, bulk>>
Update(r, p, o, move, active) ==
  /\ "update" \in Edits /\ pc[r] = "idle" /\ prices[p] # NoPrice
  /\ ~move => o = prices[p].offering
  /\ Goto(r, "switch",
       [price |-> p, offering |-> o, move |-> move, active |-> active,
        replaces |-> active = "yes" \/ (active = "keep" /\ prices[p].active)])
  /\ UNCHANGED <<prices, nextPrice, bulk>>

Switch(r) ==
  /\ pc[r] = "switch"
  /\ LET j == job[r]
     IN Goto(r, "switching",
          [price |-> j.price, offering |-> j.offering, move |-> j.move, active |-> j.active,
           deactivate |-> IF j.replaces THEN ActiveOf(j.offering) \ {j.price} ELSE {}])
  /\ UNCHANGED <<prices, nextPrice, bulk>>

\* (faulty Switched: without a transaction)
SwitchedAnyway(r) ==
  /\ pc[r] = "switching" /\ prices[job[r].price] = NoPrice
  /\ prices' = Deactivated(job[r].deactivate, {job[r].offering})
  /\ Return(r)
  /\ UNCHANGED <<nextPrice, bulk>>

\* the price is updated by id and the transaction commits; when the price was
\* deleted meanwhile, all of it is rolled back (404)
Switched(r) ==
  /\ pc[r] = "switching"
  /\ LET j == job[r]
         row == prices[j.price]
     IN IF row = NoPrice THEN UNCHANGED prices
        ELSE prices' = [Deactivated(j.deactivate, {j.offering}) EXCEPT ![j.price] =
               [offering |-> IF j.move THEN j.offering ELSE row.offering,
                active |-> IF j.active = "keep" THEN row.active ELSE j.active = "yes"]]
  /\ Return(r)
  /\ UNCHANGED <<nextPrice, bulk>>

Remove(p) ==
  /\ "remove" \in Edits /\ prices[p] # NoPrice
  /\ prices' = [prices EXCEPT ![p] = NoPrice]
  /\ UNCHANGED <<nextPrice, bulk, pc, job>>

-----------------------------------------------------------------------------
(* The bulk job                                                            *)

Batch(done) ==
  SubSeq(Targets, done + 1, IF done + BatchSize > Len(Targets) THEN Len(Targets) ELSE done + BatchSize)
BatchOfferings(done) == {Batch(done)[i] : i \in 1..Len(Batch(done))}

\* processNextBatch reads the job; one that is done is returned as it is
NextBatch(r) ==
  /\ pc[r] = "idle"
  /\ bulk.status \notin {"completed", "failed"}
  /\ Goto(r, "batch", [processed |-> bulk.processed, results |-> bulk.results])
  /\ UNCHANGED <<prices, nextPrice, bulk>>

\* a target has no market prices, or a statement fails
BatchFails(r) ==
  /\ pc[r] \in {"batch", "persist", "record"}
  /\ bulk' = [bulk EXCEPT !.status = "failed"]
  /\ Return(r)
  /\ UNCHANGED <<prices, nextPrice>>

\* the results are calculated, and in generate mode persisted in a transaction
Calculated(r) ==
  /\ pc[r] = "batch"
  /\ LET j == job[r]
     IN IF Generate
          THEN Goto(r, "persist",
                 [processed |-> j.processed, results |-> j.results,
                  deactivate |-> UNION {ActiveOf(o) : o \in BatchOfferings(j.processed)}])
          ELSE Goto(r, "record", j)
  /\ UNCHANGED <<prices, nextPrice, bulk>>
Persisted(r) ==
  /\ pc[r] = "persist"
  /\ LET j == job[r]
         batch == Batch(j.processed)
         new(p) == p - nextPrice + 1
     IN /\ nextPrice + Len(batch) <= MaxPrices + 1
        /\ prices' = [p \in PriceIds |->
             IF new(p) \in 1..Len(batch) THEN [offering |-> batch[new(p)], active |-> TRUE]
             ELSE Deactivated(j.deactivate, BatchOfferings(j.processed))[p]]
        /\ nextPrice' = nextPrice + Len(batch)
        /\ Goto(r, "record", [processed |-> j.processed, results |-> j.results])
  /\ UNCHANGED bulk

\* (faulty BatchRecorded: appending to the results of the row)
BatchAppended(r) ==
  /\ pc[r] = "record"
  /\ LET done == job[r].processed + Len(Batch(job[r].processed))
     IN bulk' = [status |-> IF done = Len(Targets) THEN "completed" ELSE "processing",
                 processed |-> done, results |-> bulk.results \o Batch(job[r].processed)]
  /\ Return(r)
  /\ UNCHANGED <<prices, nextPrice>>

\* (faulty BatchRecorded: the count is incremented in the row)
BatchIncrements(r) ==
  /\ pc[r] = "record"
  /\ LET batch == Batch(job[r].processed)
         done == bulk.processed + Len(batch)
     IN bulk' = [status |-> IF done = Len(Targets) THEN "completed" ELSE "processing",
                 processed |-> done, results |-> job[r].results \o batch]
  /\ Return(r)
  /\ UNCHANGED <<prices, nextPrice>>

\* (faulty BatchRecorded: the results of a finished batch are not kept)
BatchNotCounted(r) ==
  /\ pc[r] = "record"
  /\ bulk' = [bulk EXCEPT !.status = "processing"]
  /\ Return(r)
  /\ UNCHANGED <<prices, nextPrice>>

\* status, count and results are written from what was read at the start
BatchRecorded(r) ==
  /\ pc[r] = "record"
  /\ LET batch == Batch(job[r].processed)
         done == job[r].processed + Len(batch)
     IN bulk' = [status |-> IF done >= Len(Targets) THEN "completed" ELSE "processing",
                 processed |-> done, results |-> job[r].results \o batch]
  /\ Return(r)
  /\ UNCHANGED <<prices, nextPrice>>

\* a request goes away; an open transaction is rolled back
RequestDies(r) ==
  /\ pc[r] # "idle"
  /\ Return(r)
  /\ UNCHANGED <<prices, nextPrice, bulk>>

-----------------------------------------------------------------------------
Step(r) ==
  \/ Made(r) \/ Switch(r) \/ Switched(r)
  \/ BatchFails(r) \/ Calculated(r) \/ Persisted(r) \/ BatchRecorded(r)

Next ==
  \/ \E r \in Requests : NextBatch(r) \/ Step(r) \/ RequestDies(r)
  \/ \E r \in Requests, o \in Offerings : Make(r, o)
  \/ \E r \in Requests, p \in PriceIds : Activate(r, p)
  \/ \E r \in Requests, p \in PriceIds, o \in Offerings, move \in BOOLEAN,
        active \in {"yes", "no", "keep"} : Update(r, p, o, move, active)
  \/ \E o \in Offerings : MakeInactive(o)
  \/ \E p \in PriceIds : Remove(p)

Spec == Init /\ [][Next]_vars

\* A request goes on or dies; the caller calls again and again, and not every
\* call it makes dies.
FairSpec ==
  /\ Spec
  /\ \A r \in Requests :
       /\ WF_vars(Step(r) \/ RequestDies(r))
       /\ SF_vars(NextBatch(r)) /\ SF_vars(Calculated(r)) /\ SF_vars(BatchRecorded(r))

-----------------------------------------------------------------------------
(* Safety                                                                  *)

\* Whatever calls overlap, what the job row says belongs together: it has the
\* results of the targets it counts, in order, and is completed with the last.
JobAddsUp ==
  /\ bulk.processed <= Len(Targets)  \* the last batch may be short
  /\ bulk.results = SubSeq(Targets, 1, bulk.processed)
  /\ bulk.status = "completed" => bulk.processed = Len(Targets)
  /\ bulk.status \in {"pending", "processing"} => bulk.processed < Len(Targets)

(* What a step may never do                                                *)

\* Replacing a price is all or nothing, and replacing one by two requests at
\* once still leaves one of them active: an offering that has a price loses it
\* only when that price is deleted, moved to another offering or set inactive.
NoOfferingLosesItsPrice ==
  [][\A o \in Offerings : ActiveOf(o) # {} /\ ActiveOf(o)' = {} =>
       \E p \in ActiveOf(o) :
         \/ prices'[p] = NoPrice
         \/ \E r \in Requests : /\ pc[r] = "switching" /\ job[r].price = p
                                /\ job[r].move \/ job[r].active = "no"]_vars

(* Liveness                                                                *)

\* A job that is called again and again comes to an end.
JobEnds == <>(bulk.status \in {"completed", "failed"})
=============================================================================
