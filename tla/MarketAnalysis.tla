---------------------------- MODULE MarketAnalysis ----------------------------
(***************************************************************************)
(* The daily market analysis                                               *)
(* (src/src/market-analysis/market-analysis.service.ts).  A job request    *)
(* takes the snapshot of a date, calculates one item per benchmark from    *)
(* the prices observed that day and the last completed analysis before it, *)
(* and replaces the items of the snapshot in a transaction.  Job requests  *)
(* overlap, fail and die, and prices are recorded meanwhile.  A statement  *)
(* of a transaction (READ COMMITTED) that must see what others committed   *)
(* is a step of its own; the rest takes effect at the commit.  The median  *)
(* over the markets of a benchmark is one number here, and the benchmarks  *)
(* are not edited.  A request is served once.                              *)
(***************************************************************************)
EXTENDS Integers, FiniteSets

CONSTANTS
  Requests,   \* POST /internal/jobs/market-analysis/daily
  Benchmarks, \* the offerings with an active benchmark
  MaxDate,    \* bound: analysis dates
  MaxPrice    \* bound: medians

Dates == 1..MaxDate
Medians == 0..MaxPrice
Unknown == 0

MarketAnalysisAssumption ==
  /\ Benchmarks # {} /\ IsFiniteSet(Benchmarks)
  /\ MaxDate \in Nat /\ MaxPrice \in Nat

VARIABLES
  snapshots,  \* market_analysis_snapshots and their items, by date
  observed,   \* the median of the prices of an offering observed on a date
  pc, job     \* where a request stands, and what it has read

vars == <<snapshots, observed, pc, job>>

NoSnapshot == [status |-> "none"]
NoJob == [at |-> "none"]

\* an item, and the request that inserted it (the identity of the row)
Items == [offering: Benchmarks, current: Medians, previous: Medians, by: Requests]
Snapshots == [status: {"processing", "completed", "failed"}, items: SUBSET Items]

\* where a request can stand, and what it has read there
Jobs ==
  [idle |-> {NoJob}, create |-> [date: Dates], retake |-> [date: Dates],
   benchmarks |-> [date: Dates], fail |-> [date: Dates],
   calculate |-> [date: Dates, previous: [Benchmarks -> Medians], items: SUBSET Items],
   replace |-> [date: Dates, previous: [Benchmarks -> Medians], items: SUBSET Items],
   insert |-> [date: Dates, items: SUBSET Items, deleted: SUBSET Items],
   done |-> {NoJob}]
\* (a set of items is too many values to enumerate: see ItemsOf)
ItemsOf(r) ==
  IF pc[r] \in {"calculate", "replace", "insert"} THEN job[r].items ELSE {}

TypeOK ==
  /\ \A d \in Dates : snapshots[d] # NoSnapshot =>
       /\ snapshots[d].status \in {"processing", "completed", "failed"}
       /\ snapshots[d].items \subseteq Items
  /\ observed \in [Dates -> [Benchmarks -> Medians]]
  /\ pc \in [Requests -> DOMAIN Jobs]
  /\ \A r \in Requests :
       /\ pc[r] \notin {"idle", "done"} => job[r].date \in Dates
       /\ ItemsOf(r) \subseteq Items

Init ==
  /\ snapshots = [d \in Dates |-> NoSnapshot]
  /\ observed = [d \in Dates |-> [o \in Benchmarks |-> Unknown]]
  /\ pc = [r \in Requests |-> "idle"]
  /\ job = [r \in Requests |-> NoJob]

Goto(r, step, knows) ==
  /\ pc' = [pc EXCEPT ![r] = step]
  /\ job' = [job EXCEPT ![r] = knows]
Return(r) == Goto(r, "done", NoJob)
At(d) == [date |-> d]
Completed(d) == snapshots[d].status = "completed"

\* a market price is recorded, corrected or deleted
Observe(d, o, median) ==
  /\ observed[d][o] # median
  /\ observed' = [observed EXCEPT ![d][o] = median]
  /\ UNCHANGED <<snapshots, pc, job>>

-----------------------------------------------------------------------------
(* runDaily                                                                *)

\* acquireSnapshot finds none, one that failed, or one that is done or being
\* made (the request returns)
RunDaily(r, d) ==
  /\ pc[r] = "idle"
  /\ CASE snapshots[d] = NoSnapshot -> Goto(r, "create", At(d))
       [] snapshots[d].status = "failed" -> Goto(r, "retake", At(d))
       [] OTHER -> Return(r)
  /\ UNCHANGED <<snapshots, observed>>

\* the unique analysis_date lets one of two inserts pass
CreateSnapshot(r) ==
  /\ pc[r] = "create"
  /\ LET d == job[r].date
     IN IF snapshots[d] = NoSnapshot
          THEN /\ snapshots' = [snapshots EXCEPT ![d] = [status |-> "processing", items |-> {}]]
               /\ Goto(r, "benchmarks", At(d))
          ELSE Return(r) /\ UNCHANGED snapshots
  /\ UNCHANGED observed

\* a failed snapshot is taken again by its id, whatever became of it
Retake(r) ==
  /\ pc[r] = "retake"
  /\ snapshots' = [snapshots EXCEPT ![job[r].date].status = "processing"]
  /\ Goto(r, "benchmarks", job[r])
  /\ UNCHANGED observed

\* the last completed analysis before the date
LastCompleted(d) ==
  {e \in 1..(d - 1) : Completed(e) /\ \A f \in (e + 1)..(d - 1) : ~Completed(f)}
PreviousPrice(d, o) ==
  LET found == {i \in UNION {snapshots[e].items : e \in LastCompleted(d)} : i.offering = o}
  IN IF found = {} THEN Unknown ELSE (CHOOSE i \in found : TRUE).current

ReadBenchmarks(r) ==
  /\ pc[r] = "benchmarks"
  /\ LET d == job[r].date
     IN Goto(r, "calculate", [date |-> d, items |-> {},
                              previous |-> [o \in Benchmarks |-> PreviousPrice(d, o)]])
  /\ UNCHANGED <<snapshots, observed>>

\* each benchmark reads its observations for itself, in any order
Calculate(r, o) ==
  /\ pc[r] = "calculate" /\ \A i \in job[r].items : i.offering # o
  /\ LET j == job[r]
         items == j.items \cup {[offering |-> o, current |-> observed[j.date][o],
                                 previous |-> j.previous[o], by |-> r]}
     IN Goto(r, IF Cardinality(items) = Cardinality(Benchmarks) THEN "replace" ELSE "calculate",
             [j EXCEPT !.items = items])
  /\ UNCHANGED <<snapshots, observed>>

\* the transaction deletes the items it finds ...
DeleteItems(r) ==
  /\ pc[r] = "replace"
  /\ Goto(r, "insert", [date |-> job[r].date, items |-> job[r].items,
                        deleted |-> snapshots[job[r].date].items])
  /\ UNCHANGED <<snapshots, observed>>

\* ... and inserts its own.  An item of the same offering that it did not see
\* violates the unique index, and the transaction is rolled back.
Collides(r) ==
  \E i \in snapshots[job[r].date].items \ job[r].deleted, n \in job[r].items :
    i.offering = n.offering

\* (faulty ReplaceItems: without the unique index)
ReplaceUnchecked(r) ==
  /\ pc[r] = "insert"
  /\ LET j == job[r]
     IN snapshots' = [snapshots EXCEPT ![j.date] =
          [status |-> "completed", items |-> (@.items \ j.deleted) \cup j.items]]
  /\ Return(r)
  /\ UNCHANGED observed

ReplaceItems(r) ==
  /\ pc[r] = "insert"
  /\ LET j == job[r]
     IN IF Collides(r) THEN Goto(r, "fail", At(j.date)) /\ UNCHANGED snapshots
        ELSE /\ snapshots' = [snapshots EXCEPT ![j.date] =
                  [status |-> "completed", items |-> (@.items \ j.deleted) \cup j.items]]
             /\ Return(r)
  /\ UNCHANGED observed

\* a calculation or a statement fails
StepFails(r) ==
  /\ pc[r] \in {"benchmarks", "calculate", "replace", "insert"}
  /\ Goto(r, "fail", At(job[r].date))
  /\ UNCHANGED <<snapshots, observed>>
RecordFailure(r) ==
  /\ pc[r] = "fail"
  /\ snapshots' = [snapshots EXCEPT ![job[r].date].status = "failed"]
  /\ Return(r)
  /\ UNCHANGED observed

RequestDies(r) ==
  /\ pc[r] \notin {"idle", "done"}
  /\ Return(r)
  /\ UNCHANGED <<snapshots, observed>>

Next ==
  \/ \E r \in Requests, d \in Dates : RunDaily(r, d)
  \/ \E r \in Requests :
       \/ CreateSnapshot(r) \/ Retake(r) \/ ReadBenchmarks(r)
       \/ \E o \in Benchmarks : Calculate(r, o)
       \/ DeleteItems(r) \/ ReplaceItems(r)
       \/ StepFails(r) \/ RecordFailure(r) \/ RequestDies(r)
  \/ \E d \in Dates, o \in Benchmarks, median \in Medians : Observe(d, o, median)

Spec == Init /\ [][Next]_vars

-----------------------------------------------------------------------------
(* Safety                                                                  *)

\* However many requests took the date, a completed analysis is that of one of
\* them, with an item for every benchmark.
CompletedIsOneAnalysis ==
  \A d \in Dates : Completed(d) =>
    /\ {i.offering : i \in snapshots[d].items} = Benchmarks
    /\ \A i, j \in snapshots[d].items : i.by = j.by
=============================================================================
