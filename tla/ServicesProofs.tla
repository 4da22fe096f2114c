--------------------------- MODULE ServicesProofs ---------------------------
(***************************************************************************)
(* Theorems about the services that MCServices brings together, each about *)
(* the specification of its own service, for any requests and bounds.      *)
(***************************************************************************)
EXTENDS MCServices, AccountsProofs, FiniteSetTheorems, NaturalsInduction,
        WellFoundedInduction, TLAPS

\* The services count as everybody does.
LEMMA OneCardinality ==
  \A S : /\ F!Cardinality(S) = Cardinality(S) /\ M!Cardinality(S) = Cardinality(S)
         /\ M!IsFiniteSet(S) = IsFiniteSet(S)
         /\ A!Cardinality(S) = Cardinality(S) /\ A!IsFiniteSet(S) = IsFiniteSet(S)
         /\ T!Cardinality(S) = Cardinality(S)
         /\ O!Cardinality(S) = Cardinality(S) /\ O!IsFiniteSet(S) = IsFiniteSet(S)
BY DEF F!Cardinality, M!Cardinality, A!Cardinality, T!Cardinality, O!Cardinality, Cardinality,
       M!IsFiniteSet, A!IsFiniteSet, O!IsFiniteSet, IsFiniteSet

\* Of some natural numbers one is the least.
LEMMA SmallestNat ==
  ASSUME NEW S \in SUBSET Nat, S # {}
  PROVE  \E n \in S : \A m \in S : n <= m
<1>1. PICK n \in S : \A m \in S : <<m, n>> \notin OpToRel(<, Nat)
  BY NatLessThanWellFounded, WFMin, Zenon
<1>2. \A m \in S : ~(m < n)
  BY <1>1, Zenon DEF OpToRel
<1> QED
  BY <1>2

-----------------------------------------------------------------------------
(* CommerceConfig: the rules of the service fee.  A request deactivates    *)
(* what it found active when it began, so one rule is left only if that is *)
(* still what is active when it commits: as long as no request committed   *)
(* while another was at it, it is.                                         *)

\* what a request that will commit leaves active besides its own rule: nothing
Outdates(r) ==
  \/ pc[r] = "create" /\ job[r].deactivate = F!Active
  \/ pc[r] = "activate" /\ job[r].deactivate = F!Active \ {job[r].rule}

FeesInv ==
  /\ F!TypeOK
  /\ job = [r \in Requests |-> job[r]]
  /\ ruled => F!Active # {}
  /\ ~rulesMixed =>
       /\ \A r \in Requests : pc[r] \in {"create", "activate"} => Outdates(r)
       /\ \A i, k \in F!Active : i = k

LEMMA FeeJobsAre ==
  /\ DOMAIN F!Jobs = {"idle", "create", "activate", "toggle"}
  /\ F!Jobs["idle"] = {F!NoJob} /\ F!Jobs["create"] = [deactivate: SUBSET F!RuleIds]
  /\ F!Jobs["activate"] = [rule: F!RuleIds, deactivate: SUBSET F!RuleIds]
  /\ F!Jobs["toggle"] = [switch: Switches, read: {"active", "inactive"}]
BY DEF F!Jobs, F!States

\* A request that moves on, without a rule being written.
LEMMA FeeRequestMoves ==
  ASSUME FeesInv, NEW r \in Requests, NEW s \in DOMAIN F!Jobs, NEW j \in F!Jobs[s],
         F!Goto(r, s, j), UNCHANGED <<rules, ruled, rulesMixed>>,
         switches' \in [Switches -> F!States],
         s = "create" => j.deactivate = F!Active,
         s = "activate" => j.deactivate = F!Active \ {j.rule}
  PROVE  FeesInv'
<1>1. /\ pc' \in [Requests -> DOMAIN F!Jobs] /\ pc'[r] = s /\ job'[r] = j
      /\ job' = [q \in Requests |-> job'[q]]
      /\ \A q \in Requests \ {r} : pc'[q] = pc[q] /\ job'[q] = job[q]
  BY DEF FeesInv, F!TypeOK, F!Goto
<1>2. F!Active' = F!Active
  BY DEF F!Active
<1>3. F!TypeOK'
  BY <1>1, FeeJobsAre DEF FeesInv, F!TypeOK, F!Jobs, F!RuleIds
<1>4. ASSUME ~rulesMixed, NEW q \in Requests, pc'[q] \in {"create", "activate"}
      PROVE  Outdates(q)'
  BY <1>1, <1>2, <1>4 DEF FeesInv, Outdates
<1>. QED BY <1>1, <1>2, <1>3, <1>4 DEF FeesInv

\* A rule is written: it is active afterwards, and alone if nobody else was at it.
LEMMA FeeRuleIsWritten ==
  ASSUME FeesInv, NEW r \in Requests, pc[r] \in {"create", "activate"}, NEW i \in F!RuleIds,
         pc[r] = "activate" => i = job[r].rule,
         rules' = [F!Deactivated(job[r].deactivate) EXCEPT ![i] = "active"],
         ruled' = TRUE, rulesMixed' = (rulesMixed \/ F!Others(r)),
         F!Return(r), UNCHANGED switches
  PROVE  FeesInv'
<1>1. /\ pc' \in [Requests -> DOMAIN F!Jobs] /\ pc'[r] = "idle" /\ job'[r] = F!NoJob
      /\ job' = [q \in Requests |-> job'[q]]
      /\ \A q \in Requests \ {r} : pc'[q] = pc[q] /\ job'[q] = job[q]
  BY FeeJobsAre DEF FeesInv, F!TypeOK, F!Return, F!Goto
<1>2. /\ rules' \in [F!RuleIds -> F!States] /\ rules'[i] = "active"
      /\ \A k \in F!RuleIds \ {i} : rules'[k] = IF k \in job[r].deactivate THEN "inactive"
                                                ELSE rules[k]
  BY DEF FeesInv, F!TypeOK, F!Deactivated, F!States
<1>3. i \in F!Active' /\ \A k \in F!Active' : k = i \/ k \in F!Active \ job[r].deactivate
  BY <1>2 DEF F!Active
<1>4. F!TypeOK'
  <2>1. \A q \in Requests : job'[q] \in F!Jobs[pc'[q]]
    BY <1>1, FeeJobsAre DEF FeesInv, F!TypeOK
  <2>. QED BY <1>1, <1>2, <2>1
       DEF FeesInv, F!TypeOK, F!Jobs, F!RuleIds, F!States, F!NoJob
<1>5. ASSUME ~rulesMixed'
      PROVE  /\ \A q \in Requests : pc'[q] \in {"create", "activate"} => Outdates(q)'
             /\ \A k, l \in F!Active' : k = l
  <2>1. ~rulesMixed /\ \A q \in Requests \ {r} : pc[q] \notin {"create", "activate"}
    BY <1>5 DEF F!Others
  <2>2. \A k \in F!Active \ job[r].deactivate : k = i
    BY <2>1 DEF FeesInv, Outdates
  <2>. QED BY <1>1, <1>3, <2>1, <2>2
<1>. QED BY <1>1, <1>3, <1>4, <1>5 DEF FeesInv

LEMMA FeesInvStays ==
  ASSUME FeesInv, F!Next
  PROVE  FeesInv'
<1>. USE FeeJobsAre
<1>1. ASSUME NEW r \in Requests, F!Return(r), UNCHANGED <<rules, ruled, rulesMixed>>,
             switches' \in [Switches -> F!States]
      PROVE  FeesInv'
  BY <1>1, FeeRequestMoves DEF F!Return
<1>2. switches \in [Switches -> F!States]
  BY DEF FeesInv, F!TypeOK
<1>3. ASSUME NEW r \in Requests, F!CreateServiceFeeRule(r)
      PROVE  FeesInv'
  <2>. DEFINE j == [deactivate |-> F!Active]
  <2>1. j \in F!Jobs["create"] /\ j.deactivate = F!Active
    BY DEF F!Active
  <2>. HIDE DEF j
  <2>2. F!Goto(r, "create", j)
    BY <1>3 DEF F!CreateServiceFeeRule, j
  <2>. QED BY <1>2, <1>3, <2>1, <2>2, FeeRequestMoves DEF F!CreateServiceFeeRule
<1>4. ASSUME NEW r \in Requests, NEW i \in F!RuleIds, F!ActivateServiceFeeRule(r, i)
      PROVE  FeesInv'
  <2>. DEFINE j == [rule |-> i, deactivate |-> F!Active \ {i}]
  <2>1. j \in F!Jobs["activate"] /\ j.deactivate = F!Active \ {j.rule}
    BY DEF F!Active
  <2>. HIDE DEF j
  <2>2. F!Goto(r, "activate", j)
    BY <1>4 DEF F!ActivateServiceFeeRule, j
  <2>. QED BY <1>2, <1>4, <2>1, <2>2, FeeRequestMoves DEF F!ActivateServiceFeeRule
<1>5. ASSUME NEW r \in Requests, F!ServiceFeeRuleCreated(r)
      PROVE  FeesInv'
  <2>1. PICK i \in F!RuleIds :
          rules' = [F!Deactivated(job[r].deactivate) EXCEPT ![i] = "active"]
    BY <1>5 DEF F!ServiceFeeRuleCreated, F!Free
  <2>. QED BY <1>5, <2>1, FeeRuleIsWritten DEF F!ServiceFeeRuleCreated
<1>6. ASSUME NEW r \in Requests, F!ServiceFeeRuleActivated(r)
      PROVE  FeesInv'
  <2>1. job[r] \in [rule: F!RuleIds, deactivate: SUBSET F!RuleIds]
    BY <1>6 DEF F!ServiceFeeRuleActivated, FeesInv, F!TypeOK
  <2>2. PICK i \in F!RuleIds : i = job[r].rule
    BY <2>1
  <2>. QED BY <1>6, <2>2, FeeRuleIsWritten DEF F!ServiceFeeRuleActivated
<1>7. ASSUME NEW r \in Requests, NEW w \in Switches, F!Toggle(r, w)
      PROVE  FeesInv'
  <2>. DEFINE j == [switch |-> w, read |-> switches[w]]
  <2>1. j \in F!Jobs["toggle"]
    BY <1>2, <1>7 DEF F!Toggle, F!States
  <2>. HIDE DEF j
  <2>2. F!Goto(r, "toggle", j)
    BY <1>7 DEF F!Toggle, j
  <2>. QED BY <1>2, <1>7, <2>1, <2>2, FeeRequestMoves DEF F!Toggle
<1>8. ASSUME NEW r \in Requests, F!Toggled(r)
      PROVE  FeesInv'
  BY <1>1, <1>2, <1>8 DEF F!Toggled, F!States
<1>9. ASSUME NEW r \in Requests, F!RequestFails(r)
      PROVE  FeesInv'
  BY <1>1, <1>2, <1>9 DEF F!RequestFails
<1>10. CASE F!CreateInactiveRule
  <2>1. F!Active' = F!Active
    BY <1>10 DEF F!CreateInactiveRule, F!Active, F!Free, FeesInv, F!TypeOK
  <2>2. F!TypeOK'
    BY <1>10 DEF F!CreateInactiveRule, F!Free, FeesInv, F!TypeOK, F!States, F!Jobs, F!RuleIds
  <2>. QED BY <1>10, <2>1, <2>2 DEF F!CreateInactiveRule, FeesInv, Outdates
<1>11. ASSUME NEW w \in Switches, NEW state \in {"active", "inactive"}, F!Create(w, state)
       PROVE  FeesInv'
  <2>1. F!TypeOK'
    BY <1>11 DEF F!Create, FeesInv, F!TypeOK, F!States, F!Jobs, F!RuleIds
  <2>2. F!Active' = F!Active
    BY <1>11 DEF F!Create, F!Active, F!RuleIds
  <2>. QED BY <1>11, <2>1, <2>2 DEF F!Create, FeesInv, Outdates
<1>. QED BY <1>3, <1>4, <1>5, <1>6, <1>7, <1>8, <1>9, <1>10, <1>11 DEF F!Next

LEMMA FeesInvInit == F!Init => FeesInv
<1>1. F!Init => F!Active = {}
  BY DEF F!Init, F!Active
<1>2. F!Init => F!TypeOK
  <2>1. F!Init => /\ rules \in [F!RuleIds -> F!States]
                  /\ switches \in [Switches -> F!States]
                  /\ pc \in [Requests -> DOMAIN F!Jobs]
                  /\ \A r \in Requests : job[r] \in F!Jobs[pc[r]]
    BY FeeJobsAre DEF F!Init, F!States
  <2>2. F!Init => ruled \in BOOLEAN /\ rulesMixed \in BOOLEAN
    BY DEF F!Init
  <2>. QED BY <2>1, <2>2, Zenon DEF F!TypeOK
<1>. QED BY <1>1, <1>2 DEF F!Init, FeesInv

LEMMA FeesInvKept == FeesInv /\ [F!Next]_(F!vars) => FeesInv'
<1>1. ASSUME FeesInv, UNCHANGED F!vars
      PROVE  FeesInv'
  <2>1. F!Active' = F!Active
    BY <1>1 DEF F!vars, F!Active, F!RuleIds
  <2>2. F!TypeOK'
    BY <1>1 DEF F!vars, FeesInv, F!TypeOK, F!RuleIds, F!States, F!Jobs, F!NoJob
  <2>. QED BY <1>1, <2>1, <2>2 DEF F!vars, FeesInv, Outdates
<1>. QED BY <1>1, FeesInvStays

\* Once there is a rule for the service fee there always is one, however many
\* are made and activated at once, and there is one only unless two were.
THEOREM FeesFollowOne == F!Spec => []FeesFollowOneRule
<1>1. FeesInv => FeesFollowOneRule
  <2>1. ASSUME FeesInv, ~rulesMixed
        PROVE  Cardinality(F!Active) <= 1
    <3>1. CASE F!Active = {}
      BY <3>1, FS_EmptySet
    <3>2. CASE F!Active # {}
      <4>1. PICK i \in F!Active : F!Active = {i}
        BY <2>1, <3>2 DEF FeesInv
      <4>2. Cardinality(F!Active) = 1
        BY <4>1, FS_Singleton
      <4>. QED BY <4>2
    <3>. QED BY <3>1, <3>2
  <2>2. FeesInv => (ruled => F!Active # {})
    BY Zenon DEF FeesInv
  <2>3. FeesInv => F!FeesFollowOneRule
    BY <2>1, <2>2, OneCardinality, Zenon DEF F!FeesFollowOneRule
  <2>. QED BY <2>3 DEF FeesFollowOneRule
<1>. QED BY FeesInvInit, FeesInvKept, <1>1, PTL DEF F!Spec

-----------------------------------------------------------------------------
(* MarketAnalysis: a completed analysis is that of one request.  The items *)
(* a request is about to insert are its own and cover every benchmark, so  *)
(* none it did not delete can be beside them: that one would collide.      *)

\* what request r has read for the step s it stands at
AnalysisFits(r, s, j) ==
  /\ j \in M!Jobs[s]
  /\ s \notin {"idle", "create", "done"} => snapshots[j.date] # M!NoSnapshot
  /\ s \in {"calculate", "replace", "insert"} => \A i \in j.items : i.by = r
  /\ s = "calculate" => Cardinality(j.items) = Cardinality({i.offering : i \in j.items})
                        /\ IsFiniteSet(j.items)
  /\ s \in {"replace", "insert"} => {i.offering : i \in j.items} = Benchmarks

\* the items are those of one analysis
OneAnalysis(items) ==
  /\ {i.offering : i \in items} = Benchmarks
  /\ \A i, k \in items : i.by = k.by

AnalysisInv ==
  /\ snapshots \in [M!Dates -> M!Snapshots \cup {M!NoSnapshot}]
  /\ observed \in [M!Dates -> [Benchmarks -> M!Medians]]
  /\ stage \in [Three -> DOMAIN M!Jobs]
  /\ work = [r \in Three |-> work[r]]
  /\ \A r \in Three : AnalysisFits(r, stage[r], work[r])
  /\ M!CompletedIsOneAnalysis

LEMMA AnalysisJobsAre ==
  /\ DOMAIN M!Jobs = {"idle", "create", "retake", "benchmarks", "calculate", "replace",
                      "insert", "fail", "done"}
  /\ M!Jobs["idle"] = {M!NoJob} /\ M!Jobs["done"] = {M!NoJob}
  /\ \A j : \A s \in {"create", "retake", "benchmarks", "fail"} :
       j \in M!Jobs[s] <=> j \in [date: M!Dates]
  /\ \A j : \A s \in {"calculate", "replace"} :
       j \in M!Jobs[s] <=>
         j \in [date: M!Dates, previous: [Benchmarks -> M!Medians], items: SUBSET M!Items]
  /\ \A j : j \in M!Jobs["insert"] <=>
       j \in [date: M!Dates, items: SUBSET M!Items, deleted: SUBSET M!Items]
BY DEF M!Jobs

\* What a request has read fits as long as no snapshot goes away.
LEMMA AnalysisStaysFit ==
  ASSUME NEW r, NEW s \in DOMAIN M!Jobs, NEW j, AnalysisFits(r, s, j),
         \A d \in M!Dates : snapshots[d] # M!NoSnapshot => snapshots'[d] # M!NoSnapshot
  PROVE  AnalysisFits(r, s, j)'
<1>1. M!Jobs' = M!Jobs
  BY Zenon DEF M!Jobs, M!NoJob, M!Dates, M!Medians, M!Items
<1>2. s \notin {"idle", "create", "done"} => j.date \in M!Dates
  <2>1. j \in M!Jobs[s]
    BY DEF AnalysisFits
  <2>. QED BY <2>1, AnalysisJobsAre
<1>3. M!NoSnapshot' = M!NoSnapshot
  BY DEF M!NoSnapshot
<1>. QED BY <1>1, <1>2, <1>3 DEF AnalysisFits

\* A request moves on; the snapshots stay or are completed as they should.
LEMMA AnalysisRequestMoves ==
  ASSUME AnalysisInv, NEW r \in Three, NEW s \in DOMAIN M!Jobs, NEW j,
         M!Goto(r, s, j), UNCHANGED observed,
         snapshots' \in [M!Dates -> M!Snapshots \cup {M!NoSnapshot}],
         \A d \in M!Dates : snapshots[d] # M!NoSnapshot => snapshots'[d] # M!NoSnapshot,
         \A d \in M!Dates : snapshots'[d].status = "completed" =>
           snapshots'[d] = snapshots[d] \/ OneAnalysis(snapshots'[d].items),
         AnalysisFits(r, s, j)'
  PROVE  AnalysisInv'
<1>1. /\ stage' \in [Three -> DOMAIN M!Jobs] /\ stage'[r] = s /\ work'[r] = j
      /\ work' = [q \in Three |-> work'[q]]
      /\ \A q \in Three \ {r} : stage'[q] = stage[q] /\ work'[q] = work[q]
  BY DEF AnalysisInv, M!Goto
<1>2. ASSUME NEW q \in Three \ {r}
      PROVE  AnalysisFits(q, stage[q], work[q])'
  <2>1. PICK t, w : t \in DOMAIN M!Jobs /\ t = stage[q] /\ w = work[q]
    BY DEF AnalysisInv
  <2>2. AnalysisFits(q, t, w)'
    BY <2>1, AnalysisStaysFit DEF AnalysisInv
  <2>. QED BY <1>1, <2>1, <2>2
<1>3. ASSUME NEW q \in Three
      PROVE  AnalysisFits(q, stage[q], work[q])'
  BY <1>1, <1>2 DEF AnalysisFits
<1>4. M!CompletedIsOneAnalysis'
  BY DEF AnalysisInv, M!CompletedIsOneAnalysis, M!Completed, M!Dates, OneAnalysis
<1>. QED BY <1>1, <1>3, <1>4
     DEF AnalysisInv, M!Dates, M!Snapshots, M!NoSnapshot, M!Items, M!Medians, M!Jobs

\* What a request at a step after "create" has read, as far as every step has it.
LEMMA AnalysisAtWork ==
  ASSUME AnalysisInv, NEW r \in Three, stage[r] \notin {"idle", "create", "done"}
  PROVE  /\ work[r].date \in M!Dates
         /\ snapshots[work[r].date] # M!NoSnapshot
         /\ snapshots[work[r].date] \in M!Snapshots
<1>1. PICK s, j : s \in DOMAIN M!Jobs /\ s = stage[r] /\ j = work[r] /\ AnalysisFits(r, s, j)
  BY DEF AnalysisInv
<1>2. j.date \in M!Dates
  BY <1>1, AnalysisJobsAre DEF AnalysisFits
<1>. QED BY <1>1, <1>2 DEF AnalysisFits, AnalysisInv

\* The price of the last completed analysis is a median.
LEMMA PreviousIsMedian ==
  ASSUME AnalysisInv, MCServicesAssumption, NEW d \in M!Dates, NEW o \in Benchmarks
  PROVE  M!PreviousPrice(d, o) \in M!Medians
<1>. DEFINE found == {i \in UNION {snapshots[e].items : e \in M!LastCompleted(d)} :
                        i.offering = o}
<1>1. CASE found = {}
  BY <1>1 DEF M!PreviousPrice, M!Medians, M!Unknown, MCServicesAssumption,
     M!MarketAnalysisAssumption
<1>2. CASE found # {}
  <2>1. (CHOOSE i \in found : TRUE) \in found
    BY <1>2
  <2>2. ASSUME NEW i \in found
        PROVE  i.current \in M!Medians
    <3>1. PICK e \in M!LastCompleted(d) : i \in snapshots[e].items
      OBVIOUS
    <3>2. e \in M!Dates /\ snapshots[e].status = "completed"
      BY <3>1 DEF M!LastCompleted, M!Completed, M!Dates, MCServicesAssumption,
         M!MarketAnalysisAssumption
    <3>3. snapshots[e] \in M!Snapshots
      BY <3>2 DEF AnalysisInv, M!NoSnapshot
    <3>. QED BY <3>1, <3>3 DEF M!Snapshots, M!Items
  <2>. QED BY <1>2, <2>1, <2>2 DEF M!PreviousPrice
<1>. QED BY <1>1, <1>2

\* Each calculation adds one item, of another benchmark, until they are all there.
LEMMA CalculationGrows ==
  ASSUME MCServicesAssumption, NEW r \in Three, NEW items \in SUBSET M!Items, NEW i \in M!Items,
         IsFiniteSet(items), Cardinality(items) = Cardinality({k.offering : k \in items}),
         \A k \in items : k.offering # i.offering
  PROVE  LET all == items \cup {i}
         IN  /\ IsFiniteSet(all) /\ Cardinality(all) = Cardinality({k.offering : k \in all})
             /\ Cardinality(all) = Cardinality(Benchmarks)
                  => {k.offering : k \in all} = Benchmarks
<1>. DEFINE all == items \cup {i}
            offerings == {k.offering : k \in items}
<1>1. {k.offering : k \in all} = offerings \cup {i.offering}
  OBVIOUS
<1>2. offerings \subseteq Benchmarks /\ i.offering \in Benchmarks /\ i.offering \notin offerings
      /\ i \notin items
  BY DEF M!Items
<1>3. IsFiniteSet(Benchmarks)
  BY OneCardinality DEF MCServicesAssumption, M!MarketAnalysisAssumption
<1>4. IsFiniteSet(offerings)
  BY <1>2, <1>3, FS_Subset
<1>. HIDE DEF offerings
<1>5. /\ IsFiniteSet(all) /\ Cardinality(all) = Cardinality(items) + 1
  BY <1>2, FS_AddElement
<1>6. Cardinality(offerings \cup {i.offering}) = Cardinality(offerings) + 1
  BY <1>2, <1>4, FS_AddElement
<1>7. Cardinality(items) = Cardinality(offerings)
  BY DEF offerings
<1>8. offerings \cup {i.offering} \in SUBSET Benchmarks
  BY <1>2
<1>9. Cardinality(offerings \cup {i.offering}) = Cardinality(Benchmarks)
        => offerings \cup {i.offering} = Benchmarks
  BY <1>3, <1>8, FS_Subset
<1>. QED BY <1>1, <1>5, <1>6, <1>7, <1>9

\* A request moves on without a snapshot being written.
LEMMA AnalysisRequestReads ==
  ASSUME AnalysisInv, NEW r \in Three, NEW s \in DOMAIN M!Jobs, NEW j,
         M!Goto(r, s, j), UNCHANGED <<snapshots, observed>>, AnalysisFits(r, s, j)
  PROVE  AnalysisInv'
<1>1. AnalysisFits(r, s, j)'
  BY AnalysisStaysFit
<1>2. snapshots' \in [M!Dates -> M!Snapshots \cup {M!NoSnapshot}]
  BY DEF AnalysisInv
<1>. QED BY <1>1, <1>2, AnalysisRequestMoves

\* A request writes the snapshot of its date, which there is from then on.
LEMMA AnalysisRequestWrites ==
  ASSUME AnalysisInv, NEW r \in Three, NEW s \in DOMAIN M!Jobs, NEW j, NEW d \in M!Dates,
         NEW row \in M!Snapshots, M!Goto(r, s, j), UNCHANGED observed,
         snapshots' = [snapshots EXCEPT ![d] = row],
         row.status = "completed" => OneAnalysis(row.items),
         s \in {"benchmarks", "done"}, j \in M!Jobs[s], s = "benchmarks" => j.date = d
  PROVE  AnalysisInv'
<1>1. row # M!NoSnapshot
  BY DEF M!Snapshots, M!NoSnapshot
<1>2. snapshots' \in [M!Dates -> M!Snapshots \cup {M!NoSnapshot}]
  BY DEF AnalysisInv
<1>3. \A e \in M!Dates : snapshots'[e] = IF e = d THEN row ELSE snapshots[e]
  BY DEF AnalysisInv
<1>4. AnalysisFits(r, s, j)'
  <2>1. M!Jobs' = M!Jobs /\ M!NoSnapshot' = M!NoSnapshot
    BY Zenon DEF M!Jobs, M!NoJob, M!Dates, M!Medians, M!Items, M!NoSnapshot
  <2>. QED BY <1>1, <1>3, <2>1 DEF AnalysisFits
<1>. QED BY <1>1, <1>2, <1>3, <1>4, AnalysisRequestMoves

\* The request that takes the date calculates the analysis next.
LEMMA AnalysisRequestTakes ==
  ASSUME AnalysisInv, NEW r \in Three, NEW d \in M!Dates, NEW row \in M!Snapshots,
         M!Goto(r, "benchmarks", M!At(d)), UNCHANGED observed,
         snapshots' = [snapshots EXCEPT ![d] = row], row.status # "completed"
  PROVE  AnalysisInv'
<1>1. PICK s, j :
        s \in DOMAIN M!Jobs /\ s = "benchmarks" /\ j \in M!Jobs[s] /\ j.date = d /\ M!Goto(r, s, j)
  BY AnalysisJobsAre DEF M!At
<1>. QED BY <1>1, AnalysisRequestWrites

\* The request that writes it last returns.
LEMMA AnalysisRequestEnds ==
  ASSUME AnalysisInv, NEW r \in Three, NEW d \in M!Dates, NEW row \in M!Snapshots,
         M!Return(r), UNCHANGED observed, snapshots' = [snapshots EXCEPT ![d] = row],
         row.status = "completed" => OneAnalysis(row.items)
  PROVE  AnalysisInv'
<1>1. PICK s, j : s \in DOMAIN M!Jobs /\ s = "done" /\ j \in M!Jobs[s] /\ M!Goto(r, s, j)
  BY AnalysisJobsAre DEF M!Return
<1>. QED BY <1>1, AnalysisRequestWrites

LEMMA AnalysisInvStays ==
  ASSUME AnalysisInv, MCServicesAssumption, M!Next
  PROVE  AnalysisInv'
<1>. USE AnalysisJobsAre
<1>1. ASSUME NEW r \in Three, M!Return(r), UNCHANGED <<snapshots, observed>>
      PROVE  AnalysisInv'
  <2>1. AnalysisFits(r, "done", M!NoJob)
    BY DEF AnalysisFits
  <2>. QED BY <1>1, <2>1, AnalysisRequestReads DEF M!Return
<1>2. ASSUME NEW r \in Three, NEW d \in M!Dates, M!RunDaily(r, d)
      PROVE  AnalysisInv'
  <2>1. CASE snapshots[d] = M!NoSnapshot
    <3>1. AnalysisFits(r, "create", M!At(d))
      BY DEF AnalysisFits, M!At
    <3>2. M!Goto(r, "create", M!At(d)) /\ UNCHANGED <<snapshots, observed>>
      BY <1>2, <2>1 DEF M!RunDaily, M!NoSnapshot
    <3>. QED BY <3>1, <3>2, AnalysisRequestReads
  <2>2. CASE snapshots[d] # M!NoSnapshot /\ snapshots[d].status = "failed"
    <3>1. AnalysisFits(r, "retake", M!At(d))
      BY <2>2 DEF AnalysisFits, M!At
    <3>. QED BY <1>2, <2>2, <3>1, AnalysisRequestReads DEF M!RunDaily
  <2>3. CASE snapshots[d] # M!NoSnapshot /\ snapshots[d].status # "failed"
    BY <1>1, <1>2, <2>3 DEF M!RunDaily
  <2>. QED BY <2>1, <2>2, <2>3
<1>3. ASSUME NEW r \in Three, M!CreateSnapshot(r)
      PROVE  AnalysisInv'
  <2>1. PICK d \in M!Dates : d = work[r].date
    <3>1. work[r] \in M!Jobs[stage[r]]
      BY DEF AnalysisInv, AnalysisFits
    <3>. QED BY <1>3, <3>1 DEF M!CreateSnapshot
  <2>2. CASE snapshots[d] = M!NoSnapshot
    <3>. DEFINE row == [status |-> "processing", items |-> {}]
    <3>1. row \in M!Snapshots /\ row.status # "completed"
      BY DEF M!Snapshots
    <3>2. snapshots' = [snapshots EXCEPT ![d] = row] /\ M!Goto(r, "benchmarks", M!At(d))
          /\ UNCHANGED observed
      BY <1>3, <2>1, <2>2 DEF M!CreateSnapshot
    <3>. HIDE DEF row
    <3>. QED BY <3>1, <3>2, AnalysisRequestTakes
  <2>3. CASE snapshots[d] # M!NoSnapshot
    BY <1>1, <1>3, <2>1, <2>3 DEF M!CreateSnapshot
  <2>. QED BY <2>2, <2>3
<1>4. ASSUME NEW r \in Three, M!Retake(r)
      PROVE  AnalysisInv'
  <2>1. PICK d \in M!Dates : d = work[r].date /\ snapshots[d] \in M!Snapshots
    BY <1>4, AnalysisAtWork DEF M!Retake
  <2>2. work[r] = M!At(d)
    <3>1. work[r] \in M!Jobs["retake"]
      BY <1>4 DEF AnalysisInv, AnalysisFits, M!Retake
    <3>. QED BY <2>1, <3>1 DEF M!At
  <2>. DEFINE row == [snapshots[d] EXCEPT !.status = "processing"]
  <2>3. row \in M!Snapshots /\ row.status # "completed"
    BY <2>1 DEF M!Snapshots
  <2>4. /\ snapshots' = [snapshots EXCEPT ![d] = row]
        /\ M!Goto(r, "benchmarks", M!At(d)) /\ UNCHANGED observed
    BY <1>4, <2>1, <2>2 DEF M!Retake
  <2>. HIDE DEF row
  <2>. QED BY <2>3, <2>4, AnalysisRequestTakes
<1>5. ASSUME NEW r \in Three, M!ReadBenchmarks(r)
      PROVE  AnalysisInv'
  <2>1. PICK d \in M!Dates : d = work[r].date /\ snapshots[d] # M!NoSnapshot
    BY <1>5, AnalysisAtWork DEF M!ReadBenchmarks
  <2>. DEFINE j == [date |-> d, items |-> {},
                    previous |-> [o \in Benchmarks |-> M!PreviousPrice(d, o)]]
  <2>2. j.date = d /\ j.items = {} /\ j.previous \in [Benchmarks -> M!Medians]
    BY PreviousIsMedian
  <2>3. j \in M!Jobs["calculate"]
    BY <2>2
  <2>4. M!Goto(r, "calculate", j) /\ UNCHANGED <<snapshots, observed>>
    BY <1>5, <2>1 DEF M!ReadBenchmarks
  <2>. HIDE DEF j
  <2>5. {i.offering : i \in j.items} = {}
    BY <2>2
  <2>6. AnalysisFits(r, "calculate", j)
    BY <2>1, <2>2, <2>3, <2>5, FS_EmptySet DEF AnalysisFits
  <2>. QED BY <2>4, <2>6, AnalysisRequestReads
<1>6. ASSUME NEW r \in Three, NEW o \in Benchmarks, M!Calculate(r, o)
      PROVE  AnalysisInv'
  <2>1. PICK j : j = work[r] /\ AnalysisFits(r, "calculate", j)
    BY <1>6 DEF M!Calculate, AnalysisInv
  <2>2. j \in [date: M!Dates, previous: [Benchmarks -> M!Medians], items: SUBSET M!Items]
    BY <2>1 DEF AnalysisFits
  <2>. DEFINE item == [offering |-> o, current |-> observed[j.date][o],
                       previous |-> j.previous[o], by |-> r]
              items == j.items \cup {item}
              next == [j EXCEPT !.items = items]
              s == IF Cardinality(items) = Cardinality(Benchmarks) THEN "replace"
                   ELSE "calculate"
  <2>3. item \in M!Items /\ item.offering = o /\ item.by = r
    BY <2>2 DEF AnalysisInv, M!Items
  <2>4. M!Goto(r, s, next) /\ UNCHANGED <<snapshots, observed>>
    BY <1>6, <2>1, OneCardinality DEF M!Calculate
  <2>. HIDE DEF item
  <2>5. /\ IsFiniteSet(items) /\ Cardinality(items) = Cardinality({k.offering : k \in items})
        /\ Cardinality(items) = Cardinality(Benchmarks)
             => {k.offering : k \in items} = Benchmarks
    <3>1. /\ IsFiniteSet(j.items) /\ j.items \in SUBSET M!Items
          /\ Cardinality(j.items) = Cardinality({k.offering : k \in j.items})
      BY <2>1, <2>2 DEF AnalysisFits
    <3>2. \A k \in j.items : k.offering # item.offering
      BY <1>6, <2>1, <2>3 DEF M!Calculate
    <3>. QED BY <2>3, <3>1, <3>2, CalculationGrows
  <2>6. /\ next.items = items /\ next.date = j.date
        /\ next \in [date: M!Dates, previous: [Benchmarks -> M!Medians], items: SUBSET M!Items]
    BY <2>2, <2>3
  <2>7. \A i \in items : i.by = r
    BY <2>1, <2>3 DEF AnalysisFits
  <2>8. s \in {"calculate", "replace"}
        /\ (s = "replace" => Cardinality(items) = Cardinality(Benchmarks))
    OBVIOUS
  <2>. HIDE DEF items, next, s
  <2>9. AnalysisFits(r, s, next)
    BY <2>1, <2>5, <2>6, <2>7, <2>8 DEF AnalysisFits
  <2>. QED BY <2>4, <2>8, <2>9, AnalysisRequestReads
<1>7. ASSUME NEW r \in Three, M!DeleteItems(r)
      PROVE  AnalysisInv'
  <2>1. PICK j : /\ j = work[r] /\ AnalysisFits(r, "replace", j)
                 /\ j \in [date: M!Dates, previous: [Benchmarks -> M!Medians],
                           items: SUBSET M!Items]
    BY <1>7 DEF M!DeleteItems, AnalysisInv, AnalysisFits
  <2>2. snapshots[j.date] \in M!Snapshots /\ snapshots[j.date] # M!NoSnapshot
    BY <1>7, <2>1, AnalysisAtWork DEF M!DeleteItems
  <2>. DEFINE next == [date |-> j.date, items |-> j.items,
                       deleted |-> snapshots[j.date].items]
  <2>3. next \in M!Jobs["insert"] /\ next.items = j.items /\ next.date = j.date
    BY <2>1, <2>2 DEF M!Snapshots
  <2>4. M!Goto(r, "insert", next) /\ UNCHANGED <<snapshots, observed>>
    BY <1>7, <2>1 DEF M!DeleteItems
  <2>. HIDE DEF next
  <2>5. AnalysisFits(r, "insert", next)
    BY <2>1, <2>2, <2>3 DEF AnalysisFits
  <2>. QED BY <2>4, <2>5, AnalysisRequestReads
<1>8. ASSUME NEW r \in Three, stage[r] \notin {"idle", "create", "done"},
             M!Goto(r, "fail", M!At(work[r].date)), UNCHANGED <<snapshots, observed>>
      PROVE  AnalysisInv'
  <2>1. PICK d \in M!Dates : d = work[r].date /\ snapshots[d] # M!NoSnapshot
    BY <1>8, AnalysisAtWork
  <2>2. AnalysisFits(r, "fail", M!At(d))
    BY <2>1 DEF AnalysisFits, M!At
  <2>. QED BY <1>8, <2>1, <2>2, AnalysisRequestReads
<1>9. ASSUME NEW r \in Three, M!ReplaceItems(r)
      PROVE  AnalysisInv'
  <2>1. PICK j : /\ j = work[r] /\ AnalysisFits(r, "insert", j)
                 /\ j \in [date: M!Dates, items: SUBSET M!Items, deleted: SUBSET M!Items]
    BY <1>9 DEF M!ReplaceItems, AnalysisInv, AnalysisFits
  <2>2. CASE M!Collides(r)
    BY <1>8, <1>9, <2>2 DEF M!ReplaceItems
  <2>3. CASE ~M!Collides(r)
    <3>1. PICK d \in M!Dates : d = j.date /\ snapshots[d] \in M!Snapshots
      BY <1>9, <2>1, AnalysisAtWork DEF M!ReplaceItems
    <3>. DEFINE rest == snapshots[d].items \ j.deleted
                row == [status |-> "completed", items |-> rest \cup j.items]
    <3>2. rest = {}
      <4>1. \A i \in rest : i.offering \in Benchmarks
        BY <3>1 DEF M!Snapshots, M!Items
      <4>2. {n.offering : n \in j.items} = Benchmarks
        BY <2>1 DEF AnalysisFits
      <4>3. \A i \in rest, n \in j.items : i.offering # n.offering
        BY <2>1, <2>3, <3>1 DEF M!Collides
      <4>. QED BY <4>1, <4>2, <4>3
    <3>3. row \in M!Snapshots /\ row.items = j.items
      BY <2>1, <3>2 DEF M!Snapshots
    <3>4. snapshots' = [snapshots EXCEPT ![d] = row] /\ M!Return(r) /\ UNCHANGED observed
      BY <1>9, <2>1, <2>3, <3>1 DEF M!ReplaceItems
    <3>. HIDE DEF row
    <3>5. OneAnalysis(row.items)
      BY <2>1, <3>3 DEF AnalysisFits, OneAnalysis
    <3>. QED BY <3>3, <3>4, <3>5, AnalysisRequestEnds
  <2>. QED BY <2>2, <2>3
<1>10. ASSUME NEW r \in Three, M!StepFails(r)
       PROVE  AnalysisInv'
  BY <1>8, <1>10 DEF M!StepFails
<1>11. ASSUME NEW r \in Three, M!RecordFailure(r)
       PROVE  AnalysisInv'
  <2>1. PICK d \in M!Dates : d = work[r].date /\ snapshots[d] \in M!Snapshots
    BY <1>11, AnalysisAtWork DEF M!RecordFailure
  <2>. DEFINE row == [snapshots[d] EXCEPT !.status = "failed"]
  <2>2. row \in M!Snapshots /\ row.status # "completed"
    BY <2>1 DEF M!Snapshots
  <2>3. snapshots' = [snapshots EXCEPT ![d] = row] /\ M!Return(r) /\ UNCHANGED observed
    BY <1>11, <2>1 DEF M!RecordFailure
  <2>. HIDE DEF row
  <2>. QED BY <2>2, <2>3, AnalysisRequestEnds
<1>12. ASSUME NEW r \in Three, M!RequestDies(r)
       PROVE  AnalysisInv'
  BY <1>1, <1>12 DEF M!RequestDies
<1>13. ASSUME NEW d \in M!Dates, NEW o \in Benchmarks, NEW median \in M!Medians,
              M!Observe(d, o, median)
       PROVE  AnalysisInv'
  <2>1. observed' \in [M!Dates -> [Benchmarks -> M!Medians]]
    BY <1>13 DEF M!Observe, AnalysisInv
  <2>2. \A r \in Three : AnalysisFits(r, stage[r], work[r])'
    <3>1. M!Jobs' = M!Jobs /\ M!NoSnapshot' = M!NoSnapshot
      BY Zenon DEF M!Jobs, M!NoJob, M!Dates, M!Medians, M!Items, M!NoSnapshot
    <3>. QED BY <1>13, <3>1 DEF M!Observe, AnalysisInv, AnalysisFits
  <2>3. M!CompletedIsOneAnalysis'
    BY <1>13 DEF M!Observe, AnalysisInv, M!CompletedIsOneAnalysis, M!Completed, M!Dates
  <2>. QED BY <1>13, <2>1, <2>2, <2>3 DEF M!Observe, AnalysisInv, M!Dates, M!Medians,
         M!Snapshots, M!NoSnapshot, M!Items, M!Jobs
<1>. QED BY <1>2, <1>3, <1>4, <1>5, <1>6, <1>7, <1>9, <1>10, <1>11, <1>12, <1>13 DEF M!Next

LEMMA AnalysisInvInit == M!Init => AnalysisInv
<1>1. M!Init => /\ stage \in [Three -> DOMAIN M!Jobs] /\ work = [r \in Three |-> work[r]]
                /\ \A r \in Three : AnalysisFits(r, stage[r], work[r])
  BY AnalysisJobsAre DEF M!Init, AnalysisFits
<1>2. M!Init => /\ snapshots \in [M!Dates -> M!Snapshots \cup {M!NoSnapshot}]
                /\ observed \in [M!Dates -> [Benchmarks -> M!Medians]]
  BY MCServicesAssumption
  DEF M!Init, M!Medians, M!Unknown, MCServicesAssumption, M!MarketAnalysisAssumption
<1>3. M!Init => M!CompletedIsOneAnalysis
  BY DEF M!Init, M!CompletedIsOneAnalysis, M!Completed, M!NoSnapshot
<1>. QED BY <1>1, <1>2, <1>3 DEF AnalysisInv

LEMMA AnalysisInvKept == AnalysisInv /\ [M!Next]_(M!vars) => AnalysisInv'
<1>1. ASSUME AnalysisInv, UNCHANGED M!vars
      PROVE  AnalysisInv'
  <2>1. M!CompletedIsOneAnalysis'
    BY <1>1 DEF M!vars, AnalysisInv, M!CompletedIsOneAnalysis, M!Completed, M!Dates
  <2>2. M!Jobs' = M!Jobs /\ M!NoSnapshot' = M!NoSnapshot
    BY Zenon DEF M!Jobs, M!NoJob, M!Dates, M!Medians, M!Items, M!NoSnapshot
  <2>3. \A r \in Three : AnalysisFits(r, stage[r], work[r])'
    BY <1>1, <2>2 DEF M!vars, AnalysisInv, AnalysisFits
  <2>. QED BY <1>1, <2>1, <2>2, <2>3 DEF M!vars, AnalysisInv, M!Dates, M!Medians,
         M!Snapshots, M!Items
<1>. QED BY <1>1, AnalysisInvStays, MCServicesAssumption

\* However many requests take a date, fail and take it again, a completed
\* analysis has an item for every benchmark, and all are of one request.
THEOREM CompletedIsOne == M!Spec => []CompletedIsOneAnalysis
<1>1. AnalysisInv => CompletedIsOneAnalysis
  BY DEF AnalysisInv, CompletedIsOneAnalysis
<1>. QED BY AnalysisInvInit, AnalysisInvKept, <1>1, PTL DEF M!Spec

-----------------------------------------------------------------------------
(* PriceAlerts: an alert is told of once per trigger.  A request has each  *)
(* alert at most once among those it found due, and drops it when it tries *)
(* to trigger it, so what it tells of it has not told of before.           *)

TellingsOf(a) == {t \in told : t.alert = a}
Noting(a) == {r \in Three : stage[r] = "notify" /\ work[r].alert = a}
Gone == {r \in Three : stage[r] = "failed"}

\* n triggers of alert a are accounted for
Accounted(a, n) ==
  /\ Cardinality(TellingsOf(a)) + Cardinality(Noting(a)) <= n
  /\ n <= Cardinality(TellingsOf(a)) + Cardinality(Noting(a)) + Cardinality(Gone)

\* what request r has read for the step s it stands at
AlertFits(r, s, j) ==
  /\ j \in A!Jobs[s]
  /\ s \in {"trigger", "notify"} =>
       /\ \A d \in j.due : d.alert < nextAlert /\ (d.last = A!Never \/ d.last < j.moment)
       /\ \A d, e \in j.due : d.alert = e.alert => d = e
       /\ \A t \in told, d \in j.due : t.by = r => t.alert # d.alert
  /\ s = "notify" =>
       /\ j.alert < nextAlert
       /\ \A d \in j.due : d.alert # j.alert
       /\ \A t \in told : t.by = r => t.alert # j.alert
  /\ s = "idle" => \A t \in told : t.by # r

Tellings == [alert: A!AlertIds, moment: Moments, by: Three]

AlertsInv ==
  /\ alerts \in [A!AlertIds -> A!Alerts \cup {A!NoAlert}]
  /\ nextAlert \in 1..(MaxAlerts + 1)
  /\ told \subseteq Tellings /\ IsFiniteSet(told)
  /\ stage \in [Three -> DOMAIN A!Jobs]
  /\ work = [r \in Three |-> work[r]]
  /\ \A a \in A!AlertIds : A!Exists(a) => a < nextAlert
  /\ \A t \in told : t.alert < nextAlert
  /\ \A r \in Three : AlertFits(r, stage[r], work[r])
  /\ \A a \in A!AlertIds : A!Exists(a) => Accounted(a, alerts[a].count)

LEMMA AlertJobsAre ==
  /\ DOMAIN A!Jobs = {"idle", "done", "failed", "insert", "update", "delete", "trigger",
                      "notify"}
  /\ \A s \in {"idle", "done", "failed"} : A!Jobs[s] = {A!NoJob}
  /\ \A j : j \in A!Jobs["insert"] <=>
       j \in [user: Users, offering: Offerings, target: Targets, wish: Wishes]
  /\ \A j : j \in A!Jobs["update"] <=> j \in [alert: A!AlertIds, edit: Edits]
  /\ \A j : j \in A!Jobs["delete"] <=> j \in [alert: A!AlertIds]
  /\ \A j : j \in A!Jobs["trigger"] <=> j \in [moment: Moments, due: SUBSET A!Due]
  /\ \A j : j \in A!Jobs["notify"] <=>
       j \in [moment: Moments, due: SUBSET A!Due, alert: A!AlertIds]
BY DEF A!Jobs

LEMMA AlertConstantsStay ==
  /\ A!Jobs' = A!Jobs /\ A!AlertIds' = A!AlertIds /\ A!NoAlert' = A!NoAlert
  /\ A!Alerts' = A!Alerts /\ Tellings' = Tellings /\ A!Never' = A!Never
BY Zenon DEF A!Jobs, A!AlertIds, A!NoAlert, A!NoJob, A!Alerts, Tellings, A!Never, A!Due,
     A!Conditions, A!Frequencies, A!AlertStatuses

\* The sets that are counted are finite.
LEMMA CountsAreFinite ==
  ASSUME MCServicesAssumption, IsFiniteSet(told), NEW a
  PROVE  /\ IsFiniteSet(TellingsOf(a)) /\ IsFiniteSet(Noting(a)) /\ IsFiniteSet(Gone)
         /\ Cardinality(TellingsOf(a)) \in Nat /\ Cardinality(Noting(a)) \in Nat
         /\ Cardinality(Gone) \in Nat
<1>1. IsFiniteSet(Three)
  BY OneCardinality DEF MCServicesAssumption, A!PriceAlertsAssumption
<1>2. TellingsOf(a) \in SUBSET told /\ Noting(a) \in SUBSET Three /\ Gone \in SUBSET Three
  BY DEF TellingsOf, Noting, Gone
<1>3. IsFiniteSet(TellingsOf(a)) /\ IsFiniteSet(Noting(a)) /\ IsFiniteSet(Gone)
  BY <1>1, <1>2, FS_Subset
<1>. QED BY <1>3, FS_CardinalityType

\* What a request has read fits while others create alerts and tell of them.
LEMMA AlertStaysFit ==
  ASSUME AlertsInv, NEW r \in Three, NEW s \in DOMAIN A!Jobs, NEW j, AlertFits(r, s, j),
         nextAlert' \in 1..(MaxAlerts + 1), nextAlert' >= nextAlert, MaxAlerts \in Nat,
         \A t \in told' : t \in told \/ t.by # r
  PROVE  AlertFits(r, s, j)'
<1>1. j \in A!Jobs'[s]
  BY AlertConstantsStay DEF AlertFits
<1>2. ASSUME s \in {"trigger", "notify"}
      PROVE  j.due \subseteq A!Due /\ (s = "notify" => j.alert \in A!AlertIds)
  BY <1>2, AlertJobsAre DEF AlertFits
<1>3. ASSUME NEW a \in A!AlertIds, a < nextAlert
      PROVE  a < nextAlert'
  BY <1>3 DEF A!AlertIds, AlertsInv
<1>. QED BY <1>1, <1>2, <1>3, AlertConstantsStay DEF AlertFits, A!Due

\* A request moves on; what it writes keeps the counts.
LEMMA AlertRequestMoves ==
  ASSUME AlertsInv, MaxAlerts \in Nat, NEW r \in Three, NEW s \in DOMAIN A!Jobs, NEW j,
         A!Goto(r, s, j), alerts' \in [A!AlertIds -> A!Alerts \cup {A!NoAlert}],
         nextAlert' \in 1..(MaxAlerts + 1), nextAlert' >= nextAlert,
         told' \subseteq Tellings, IsFiniteSet(told'),
         \A t \in told' : t \in told \/ (t.by = r /\ t.alert < nextAlert),
         \A a \in A!AlertIds : alerts'[a] # A!NoAlert => a < nextAlert',
         AlertFits(r, s, j)',
         \A a \in A!AlertIds : alerts'[a] # A!NoAlert => Accounted(a, alerts[a].count)'
  PROVE  AlertsInv'
<1>1. /\ stage' \in [Three -> DOMAIN A!Jobs] /\ stage'[r] = s /\ work'[r] = j
      /\ work' = [q \in Three |-> work'[q]]
      /\ \A q \in Three \ {r} : stage'[q] = stage[q] /\ work'[q] = work[q]
  BY DEF AlertsInv, A!Goto
<1>2. ASSUME NEW q \in Three \ {r}
      PROVE  AlertFits(q, stage[q], work[q])'
  <2>1. PICK t, w : t \in DOMAIN A!Jobs /\ t = stage[q] /\ w = work[q]
    BY DEF AlertsInv
  <2>2. AlertFits(q, t, w)'
    BY <2>1, AlertStaysFit DEF AlertsInv
  <2>. QED BY <1>1, <2>1, <2>2
<1>3. ASSUME NEW q \in Three
      PROVE  AlertFits(q, stage[q], work[q])'
  BY <1>1, <1>2 DEF AlertFits
<1>4. \A t \in told' : t.alert < nextAlert'
  BY DEF AlertsInv, Tellings, A!AlertIds
<1>. QED BY <1>1, <1>3, <1>4, AlertConstantsStay DEF AlertsInv, A!Exists

\* Nobody begins or ends to notify.
LEMMA CountsStay ==
  ASSUME AlertsInv, NEW r \in Three, NEW s \in DOMAIN A!Jobs, NEW j, A!Goto(r, s, j),
         stage[r] \notin {"notify", "failed"}, s \notin {"notify", "failed"},
         UNCHANGED told, NEW a, NEW n
  PROVE  Accounted(a, n)' <=> Accounted(a, n)
<1>1. stage' = [stage EXCEPT ![r] = s] /\ \A q \in Three \ {r} : work'[q] = work[q]
  BY DEF A!Goto, AlertsInv
<1>2. TellingsOf(a)' = TellingsOf(a) /\ Noting(a)' = Noting(a) /\ Gone' = Gone
  BY <1>1 DEF AlertsInv, TellingsOf, Noting, Gone
<1>. QED BY <1>2 DEF Accounted

\* A request that does not notify moves on; alerts may be edited or removed.
LEMMA AlertRequestWorks ==
  ASSUME AlertsInv, MaxAlerts \in Nat, NEW r \in Three, NEW s \in DOMAIN A!Jobs, NEW j,
         A!Goto(r, s, j), AlertFits(r, s, j), UNCHANGED <<nextAlert, told>>,
         stage[r] \notin {"notify", "failed"}, s \notin {"notify", "failed"},
         alerts' \in [A!AlertIds -> A!Alerts \cup {A!NoAlert}],
         \A a \in A!AlertIds : alerts'[a] # A!NoAlert =>
           (alerts[a] # A!NoAlert /\ alerts'[a].count = alerts[a].count)
  PROVE  AlertsInv'
<1>1. AlertFits(r, s, j)'
  BY AlertStaysFit DEF AlertsInv
<1>2. ASSUME NEW a \in A!AlertIds, alerts'[a] # A!NoAlert
      PROVE  Accounted(a, alerts[a].count)'
  <2>1. PICK n : n = alerts[a].count /\ n = alerts'[a].count /\ Accounted(a, n)
    BY <1>2 DEF AlertsInv, A!Exists
  <2>2. Accounted(a, n)'
    BY <2>1, CountsStay
  <2>. QED BY <2>1, <2>2
<1>3. \A a \in A!AlertIds : alerts'[a] # A!NoAlert => a < nextAlert'
  BY DEF AlertsInv, A!Exists
<1>4. /\ nextAlert' \in 1..(MaxAlerts + 1) /\ nextAlert' >= nextAlert
      /\ told' \subseteq Tellings /\ IsFiniteSet(told') /\ \A t \in told' : t \in told
  BY DEF AlertsInv
<1>. QED BY <1>1, <1>2, <1>3, <1>4, AlertRequestMoves

\* An evaluation that fails is one more that may have left an alert untold.
LEMMA AlertRequestFails ==
  ASSUME AlertsInv, MCServicesAssumption, NEW r \in Three, stage[r] # "failed",
         A!Goto(r, "failed", A!NoJob), UNCHANGED <<alerts, nextAlert, told>>
  PROVE  AlertsInv'
<1>1. PICK s, j : s \in DOMAIN A!Jobs /\ s = "failed" /\ j = A!NoJob /\ A!Goto(r, s, j)
  BY AlertJobsAre
<1>2. AlertFits(r, s, j)
  BY <1>1, AlertJobsAre DEF AlertFits
<1>3. MaxAlerts \in Nat
  BY DEF MCServicesAssumption, A!PriceAlertsAssumption
<1>4. AlertFits(r, s, j)'
  BY <1>1, <1>2, <1>3, AlertStaysFit DEF AlertsInv
<1>5. ASSUME NEW a \in A!AlertIds, alerts'[a] # A!NoAlert
      PROVE  Accounted(a, alerts[a].count)'
  <2>1. PICK n \in Nat : n = alerts[a].count /\ n = alerts'[a].count /\ Accounted(a, n)
    <3>1. alerts[a] \in A!Alerts
      BY <1>5 DEF AlertsInv
    <3>. QED BY <1>5, <3>1 DEF AlertsInv, A!Exists, A!Alerts
  <2>2. stage' = [stage EXCEPT ![r] = s] /\ \A q \in Three \ {r} : work'[q] = work[q]
    BY <1>1 DEF A!Goto, AlertsInv
  <2>3. /\ TellingsOf(a)' = TellingsOf(a)
        /\ Noting(a)' = Noting(a) \ {r}
        /\ Gone' = Gone \cup {r} /\ r \notin Gone
    BY <1>1, <2>2 DEF AlertsInv, TellingsOf, Noting, Gone
  <2>4. /\ Cardinality(Noting(a)') \in Nat
        /\ Cardinality(Noting(a)') <= Cardinality(Noting(a))
        /\ Cardinality(Noting(a)') >= Cardinality(Noting(a)) - 1
        /\ Cardinality(Gone') = Cardinality(Gone) + 1
    <3>1. /\ IsFiniteSet(Noting(a)) /\ IsFiniteSet(Gone) /\ Cardinality(Noting(a)) \in Nat
      BY CountsAreFinite DEF AlertsInv
    <3>2. /\ IsFiniteSet(Noting(a) \ {r})
          /\ Cardinality(Noting(a) \ {r}) = IF r \in Noting(a) THEN Cardinality(Noting(a)) - 1
                                            ELSE Cardinality(Noting(a))
          /\ Cardinality(Gone \cup {r}) = Cardinality(Gone) + 1
      BY <2>3, <3>1, FS_RemoveElement, FS_AddElement
    <3>3. Cardinality(Noting(a) \ {r}) \in Nat
      BY <3>2, FS_CardinalityType
    <3>. QED BY <2>3, <3>1, <3>2, <3>3
  <2>5. Accounted(a, n)'
    <3>1. /\ Cardinality(TellingsOf(a)) \in Nat /\ Cardinality(Noting(a)) \in Nat
          /\ Cardinality(Gone) \in Nat
      BY CountsAreFinite DEF AlertsInv
    <3>. QED BY <2>1, <2>3, <2>4, <3>1 DEF Accounted
  <2>. QED BY <2>1, <2>5
<1>6. /\ nextAlert' \in 1..(MaxAlerts + 1) /\ nextAlert' >= nextAlert
      /\ told' \subseteq Tellings /\ IsFiniteSet(told') /\ \A t \in told' : t \in told
      /\ alerts' \in [A!AlertIds -> A!Alerts \cup {A!NoAlert}]
      /\ \A a \in A!AlertIds : alerts'[a] # A!NoAlert => a < nextAlert'
  BY DEF AlertsInv, A!Exists
<1>. QED BY <1>1, <1>3, <1>4, <1>5, <1>6, AlertRequestMoves

\* An alert is created: it has not been told of, and nobody is about to.
LEMMA AlertIsCreated ==
  ASSUME AlertsInv, MCServicesAssumption, NEW r \in Three, A!Created(r)
  PROVE  AlertsInv'
<1>1. PICK j : j = work[r] /\ j \in [user: Users, offering: Offerings, target: Targets,
                                     wish: Wishes]
  BY AlertJobsAre DEF A!Created, AlertsInv, AlertFits
<1>2. MaxAlerts \in Nat /\ Wishes \subseteq [condition: A!Conditions, frequency: A!Frequencies]
  BY DEF MCServicesAssumption, A!PriceAlertsAssumption
<1>3. PICK row \in A!Alerts : row.count = 0 /\ alerts' = [alerts EXCEPT ![nextAlert] = row]
  <2>. DEFINE row == [user |-> j.user, offering |-> j.offering, target |-> j.target,
                      condition |-> j.wish.condition, frequency |-> j.wish.frequency,
                      status |-> "active", last |-> A!Never, count |-> 0]
  <2>1. row \in A!Alerts /\ row.count = 0
    BY <1>1, <1>2 DEF A!Alerts, A!AlertStatuses
  <2>2. alerts' = [alerts EXCEPT ![nextAlert] = row]
    BY <1>1 DEF A!Created
  <2>. QED BY <2>1, <2>2
<1>4. PICK new \in A!AlertIds : new = nextAlert /\ nextAlert' = new + 1
  BY DEF A!Created
<1>5. PICK s, k : /\ s \in DOMAIN A!Jobs
                  /\ s = "done" /\ k = A!NoJob /\ A!Goto(r, s, k)
                  /\ AlertFits(r, s, k)
  BY AlertJobsAre DEF A!Created, A!Return, AlertFits
<1>6. nextAlert' \in 1..(MaxAlerts + 1) /\ nextAlert' >= nextAlert /\ told' = told
  BY <1>2, <1>4 DEF A!AlertIds, A!Created
<1>7. AlertFits(r, s, k)'
  BY <1>2, <1>5, <1>6, AlertStaysFit
<1>8. ASSUME NEW a \in A!AlertIds, NEW n, Accounted(a, n)
      PROVE  Accounted(a, n)'
  BY <1>5, <1>6, <1>8, CountsStay DEF A!Created
<1>9. Accounted(new, 0)
  <2>1. TellingsOf(new) = {}
    BY <1>4 DEF AlertsInv, TellingsOf, A!AlertIds
  <2>2. Noting(new) = {}
    BY <1>4 DEF AlertsInv, AlertFits, Noting, A!AlertIds
  <2>. QED BY <2>1, <2>2, FS_EmptySet, CountsAreFinite DEF AlertsInv, Accounted
<1>10. ASSUME NEW a \in A!AlertIds, alerts'[a] # A!NoAlert
       PROVE  a < nextAlert' /\ Accounted(a, alerts[a].count)'
  <2>1. CASE a = new
    <3>1. PICK n : n = 0 /\ n = alerts'[a].count
      BY <1>3, <1>4, <2>1 DEF AlertsInv
    <3>. QED BY <1>4, <1>8, <1>9, <2>1, <3>1 DEF A!AlertIds
  <2>2. CASE a # new
    <3>1. PICK n : n = alerts'[a].count /\ Accounted(a, n) /\ a < nextAlert
      BY <1>3, <1>4, <1>10, <2>2 DEF AlertsInv, A!Exists
    <3>. QED BY <1>4, <1>8, <3>1 DEF A!AlertIds
  <2>. QED BY <2>1, <2>2
<1>11. alerts' \in [A!AlertIds -> A!Alerts \cup {A!NoAlert}]
  BY <1>3 DEF AlertsInv
<1>12. told' \subseteq Tellings /\ IsFiniteSet(told') /\ \A t \in told' : t \in told
  BY <1>6 DEF AlertsInv
<1>. QED BY <1>2, <1>5, <1>6, <1>7, <1>10, <1>11, <1>12, AlertRequestMoves

\* What a request that evaluates a price has read.
LEMMA EvaluationHas ==
  ASSUME AlertsInv, NEW r \in Three, stage[r] \in {"trigger", "notify"}
  PROVE  /\ work[r].moment \in Moments /\ work[r].due \subseteq A!Due
         /\ stage[r] = "trigger" => work[r] \in [moment: Moments, due: SUBSET A!Due]
         /\ stage[r] = "notify" => work[r].alert \in A!AlertIds
BY AlertJobsAre DEF AlertsInv, AlertFits

LEMMA TriggeredRow ==
  ASSUME NEW old \in A!Alerts, NEW moment \in Moments, NEW state \in A!AlertStatuses
  PROVE  LET row == [old EXCEPT !.last = moment, !.count = @ + 1, !.status = state]
         IN  row \in A!Alerts /\ row.count = old.count + 1 /\ old.count \in Nat
<1>. DEFINE row == [old EXCEPT !.last = moment, !.count = @ + 1, !.status = state]
<1>1. old.count \in Nat /\ row.count = old.count + 1 /\ row.count \in Nat
  BY DEF A!Alerts
<1>2. row.last \in Moments /\ row.status \in A!AlertStatuses
  BY DEF A!Alerts
<1>3. row \in A!Alerts
  BY <1>1, <1>2 DEF A!Alerts
<1>. QED BY <1>1, <1>3

\* An alert is triggered: once more, and one request more is about to tell of it.
LEMMA AlertIsTriggered ==
  ASSUME AlertsInv, MCServicesAssumption, NEW r \in Three, stage[r] = "trigger",
         NEW d \in work[r].due, A!Trigger(r, d)
  PROVE  AlertsInv'
<1>1. /\ work[r] \in [moment: Moments, due: SUBSET A!Due] /\ d \in A!Due
      /\ MaxAlerts \in Nat /\ AlertFits(r, "trigger", work[r])
  BY EvaluationHas DEF AlertsInv, MCServicesAssumption, A!PriceAlertsAssumption
<1>2. PICK a, w : a \in A!AlertIds /\ a = d.alert /\ w = work[r]
  BY <1>1 DEF A!Due
<1>. DEFINE rest == [moment |-> w.moment, due |-> w.due \ {d}]
            next == [moment |-> w.moment, due |-> w.due \ {d}, alert |-> a]
<1>3. CASE A!Exists(a) /\ alerts[a].status = "active" /\ alerts[a].last = d.last
  <2>1. PICK row \in A!Alerts, n \in Nat :
          /\ n = alerts[a].count /\ row.count = n + 1 /\ alerts' = [alerts EXCEPT ![a] = row]
    <3>. DEFINE state == IF d.once THEN "triggered" ELSE "active"
                row == [alerts[a] EXCEPT !.last = w.moment, !.count = @ + 1, !.status = state]
    <3>1. alerts[a] \in A!Alerts
      BY <1>2, <1>3 DEF A!Exists, AlertsInv
    <3>2. w.moment \in Moments /\ state \in A!AlertStatuses
      BY <1>1, <1>2 DEF A!AlertStatuses
    <3>. HIDE DEF state
    <3>3. row \in A!Alerts /\ row.count = alerts[a].count + 1 /\ alerts[a].count \in Nat
      BY <3>1, <3>2, TriggeredRow
    <3>. USE DEF state
    <3>4. alerts' = A!Triggered(a, w.moment, d.once)
      BY <1>2, <1>3 DEF A!Trigger
    <3>5. alerts' = [alerts EXCEPT ![a] = row]
      BY <1>2, <3>1, <3>4 DEF A!Triggered, AlertsInv
    <3>. QED BY <3>3, <3>5
  <2>2. PICK s, j : /\ s \in DOMAIN A!Jobs
                    /\ s = "notify" /\ A!Goto(r, s, j) /\ j.alert = a
                    /\ AlertFits(r, s, j)
    <3>1. A!Goto(r, "notify", next)
      BY <1>2, <1>3 DEF A!Trigger
    <3>2. next \in A!Jobs["notify"] /\ next.alert = a /\ next.moment = w.moment
          /\ next.due = w.due \ {d}
      BY <1>1, <1>2, AlertJobsAre
    <3>. HIDE DEF next
    <3>3. AlertFits(r, "notify", next)
      BY <1>1, <1>2, <3>2 DEF AlertFits
    <3>. QED BY <3>1, <3>2, <3>3, AlertJobsAre
  <2>3. UNCHANGED <<nextAlert, told>>
    BY DEF A!Trigger
  <2>4. AlertFits(r, s, j)'
    BY <1>1, <2>2, <2>3, AlertStaysFit DEF AlertsInv
  <2>5. stage' = [stage EXCEPT ![r] = s] /\ work' = [work EXCEPT ![r] = j]
        /\ work' = [q \in Three |-> work'[q]]
    BY <2>2 DEF A!Goto, AlertsInv
  <2>6. ASSUME NEW b \in A!AlertIds, alerts'[b] # A!NoAlert
        PROVE  b < nextAlert' /\ Accounted(b, alerts[b].count)'
    <3>1. PICK m \in Nat : m = alerts[b].count /\ Accounted(b, m) /\ b < nextAlert
                           /\ alerts'[b].count = IF b = a THEN m + 1 ELSE m
      <4>1. alerts[b] \in A!Alerts /\ A!Exists(b)
        BY <1>3, <2>1, <2>6 DEF AlertsInv, A!Exists
      <4>2. alerts'[b] = IF b = a THEN row ELSE alerts[b]
        BY <2>1 DEF AlertsInv
      <4>3. Accounted(b, alerts[b].count) /\ b < nextAlert
        BY <4>1 DEF AlertsInv
      <4>. QED BY <2>1, <4>1, <4>2, <4>3 DEF A!Alerts
    <3>2. /\ TellingsOf(b)' = TellingsOf(b) /\ Gone' = Gone
          /\ Noting(b)' = IF b = a THEN Noting(b) \cup {r} ELSE Noting(b)
          /\ r \notin Noting(b)
      BY <2>2, <2>3, <2>5 DEF AlertsInv, TellingsOf, Noting, Gone
    <3>3. /\ Cardinality(TellingsOf(b)) \in Nat /\ Cardinality(Noting(b)) \in Nat
          /\ Cardinality(Gone) \in Nat /\ IsFiniteSet(Noting(b))
      BY CountsAreFinite DEF AlertsInv
    <3>4. Cardinality(Noting(b) \cup {r}) = Cardinality(Noting(b)) + 1
      BY <3>2, <3>3, FS_AddElement
    <3>5. PICK k \in Nat : k = alerts'[b].count /\ k = IF b = a THEN m + 1 ELSE m
      BY <3>1
    <3>6. Accounted(b, k)'
      BY <3>1, <3>2, <3>3, <3>4, <3>5 DEF Accounted
    <3>. QED BY <2>3, <3>1, <3>5, <3>6
  <2>7. /\ alerts' \in [A!AlertIds -> A!Alerts \cup {A!NoAlert}]
        /\ nextAlert' \in 1..(MaxAlerts + 1) /\ nextAlert' >= nextAlert
        /\ told' \subseteq Tellings /\ IsFiniteSet(told') /\ \A t \in told' : t \in told
    BY <1>2, <2>1, <2>3 DEF AlertsInv
  <2>. QED BY <1>1, <2>2, <2>4, <2>6, <2>7, AlertRequestMoves
<1>4. CASE ~(A!Exists(a) /\ alerts[a].status = "active" /\ alerts[a].last = d.last)
  <2>1. A!Goto(r, "trigger", rest) /\ UNCHANGED <<alerts, nextAlert, told>>
    BY <1>2, <1>4 DEF A!Trigger
  <2>2. rest \in A!Jobs["trigger"] /\ rest.moment = w.moment /\ rest.due = w.due \ {d}
    BY <1>1, <1>2, AlertJobsAre
  <2>. HIDE DEF rest
  <2>3. AlertFits(r, "trigger", rest)
    BY <1>1, <1>2, <2>2 DEF AlertFits
  <2>4. PICK s, j : s \in DOMAIN A!Jobs /\ s = "trigger" /\ A!Goto(r, s, j) /\ AlertFits(r, s, j)
    BY <2>1, <2>3, AlertJobsAre
  <2>. QED BY <1>1, <2>1, <2>4, AlertRequestWorks DEF AlertsInv
<1>. QED BY <1>3, <1>4

\* The owner is told: one request less is about to, and it has not told before.
LEMMA AlertIsTold ==
  ASSUME AlertsInv, MCServicesAssumption, NEW r \in Three, A!Notify(r),
         A!Exists(work[r].alert)
  PROVE  AlertsInv'
<1>1. PICK w : /\ w = work[r] /\ AlertFits(r, "notify", w)
               /\ w.moment \in Moments /\ w.due \subseteq A!Due /\ w.alert \in A!AlertIds
  BY EvaluationHas DEF A!Notify, AlertsInv
<1>2. PICK note \in Tellings : note = [alert |-> w.alert, moment |-> w.moment, by |-> r]
  BY <1>1 DEF Tellings
<1>3. told' = told \cup {note} /\ UNCHANGED <<alerts, nextAlert>>
  BY <1>1, <1>2 DEF A!Notify
<1>4. note \notin told /\ note.alert = w.alert /\ note.by = r
  BY <1>1, <1>2 DEF AlertFits
<1>5. PICK s, j :
        /\ s \in DOMAIN A!Jobs
        /\ s = "trigger" /\ A!Goto(r, s, j)
        /\ j \in A!Jobs["trigger"] /\ j.moment = w.moment /\ j.due = w.due
  <2>. DEFINE next == [moment |-> w.moment, due |-> w.due]
  <2>1. A!Goto(r, "trigger", next)
    BY <1>1 DEF A!Notify
  <2>2. next \in A!Jobs["trigger"] /\ next.moment = w.moment /\ next.due = w.due
    BY <1>1, AlertJobsAre
  <2>. QED BY <2>1, <2>2, AlertJobsAre
<1>6. AlertFits(r, s, j)'
  <2>1. j \in A!Jobs'[s]
    BY <1>5, AlertConstantsStay
  <2>2. \A t \in told', d \in j.due : t.by = r => t.alert # d.alert
    BY <1>1, <1>3, <1>4, <1>5 DEF AlertFits
  <2>. QED BY <1>1, <1>3, <1>5, <2>1, <2>2, AlertConstantsStay DEF AlertFits
<1>7. stage' = [stage EXCEPT ![r] = s] /\ \A q \in Three \ {r} : work'[q] = work[q]
  BY <1>5 DEF A!Goto, AlertsInv
<1>8. ASSUME NEW a \in A!AlertIds, alerts'[a] # A!NoAlert
      PROVE  a < nextAlert' /\ Accounted(a, alerts[a].count)'
  <2>1. PICK n \in Nat : n = alerts[a].count /\ n = alerts'[a].count /\ Accounted(a, n)
                         /\ a < nextAlert
    <3>1. alerts[a] \in A!Alerts /\ A!Exists(a)
      BY <1>3, <1>8 DEF AlertsInv, A!Exists
    <3>. QED BY <1>3, <3>1 DEF AlertsInv, A!Alerts
  <2>2. CASE a = w.alert
    <3>1. /\ TellingsOf(a)' = TellingsOf(a) \cup {note} /\ note \notin TellingsOf(a)
          /\ Noting(a)' = Noting(a) \ {r} /\ r \in Noting(a)
          /\ Gone' = Gone
      BY <1>1, <1>3, <1>4, <1>5, <1>7, <2>2
      DEF A!Notify, AlertsInv, TellingsOf, Noting, Gone
    <3>2. /\ IsFiniteSet(TellingsOf(a)) /\ Cardinality(TellingsOf(a)) \in Nat
          /\ IsFiniteSet(Noting(a)) /\ Cardinality(Noting(a)) \in Nat
          /\ Cardinality(Gone) \in Nat
      BY CountsAreFinite DEF AlertsInv
    <3>3. /\ Cardinality(TellingsOf(a) \cup {note}) = Cardinality(TellingsOf(a)) + 1
          /\ Cardinality(Noting(a) \ {r}) = Cardinality(Noting(a)) - 1
      BY <3>1, <3>2, FS_AddElement, FS_RemoveElement
    <3>4. Accounted(a, n)'
      BY <2>1, <3>1, <3>2, <3>3 DEF Accounted
    <3>. QED BY <1>3, <2>1, <3>4
  <2>3. CASE a # w.alert
    <3>1. TellingsOf(a)' = TellingsOf(a) /\ Noting(a)' = Noting(a) /\ Gone' = Gone
      BY <1>1, <1>3, <1>4, <1>5, <1>7, <2>3
      DEF A!Notify, AlertsInv, TellingsOf, Noting, Gone
    <3>2. Accounted(a, n)'
      BY <2>1, <3>1 DEF Accounted
    <3>. QED BY <1>3, <2>1, <3>2
  <2>. QED BY <2>2, <2>3
<1>9. /\ alerts' \in [A!AlertIds -> A!Alerts \cup {A!NoAlert}]
      /\ nextAlert' \in 1..(MaxAlerts + 1) /\ nextAlert' >= nextAlert
      /\ told' \subseteq Tellings /\ IsFiniteSet(told')
  BY <1>3, FS_AddElement DEF AlertsInv
<1>10. \A t \in told' : t \in told \/ (t.by = r /\ t.alert < nextAlert)
  BY <1>1, <1>3, <1>4 DEF AlertFits
<1>11. MaxAlerts \in Nat
  BY DEF MCServicesAssumption, A!PriceAlertsAssumption
<1>. QED BY <1>5, <1>6, <1>8, <1>9, <1>10, <1>11, AlertRequestMoves

\* What an evaluation finds due has not been triggered at that moment or later.
LEMMA DueIsOlder ==
  ASSUME AlertsInv, MCServicesAssumption, NEW offering \in Offerings, NEW amount \in Amounts,
         NEW moment \in Moments
  PROVE  /\ A!DueAlerts(offering, amount, moment) \subseteq A!Due
         /\ \A d \in A!DueAlerts(offering, amount, moment) :
              d.alert < nextAlert /\ (d.last = A!Never \/ d.last < moment)
         /\ \A d, e \in A!DueAlerts(offering, amount, moment) : d.alert = e.alert => d = e
<1>1. /\ Moments \subseteq Nat \ {0} /\ Day \in Nat \ {0} /\ Week \in Nat /\ Week > Day
  BY DEF MCServicesAssumption, A!PriceAlertsAssumption
<1>2. ASSUME NEW d \in A!DueAlerts(offering, amount, moment)
      PROVE  /\ d \in A!Due /\ d.alert < nextAlert /\ (d.last = A!Never \/ d.last < moment)
             /\ d = [alert |-> d.alert, last |-> alerts[d.alert].last,
                     once |-> alerts[d.alert].frequency = "one_time"]
  <2>1. PICK a \in A!AlertIds :
          /\ A!Exists(a) /\ A!FrequencyAllows(alerts[a].frequency, alerts[a].last, moment)
          /\ d = [alert |-> a, last |-> alerts[a].last,
                  once |-> alerts[a].frequency = "one_time"]
    BY <1>2 DEF A!DueAlerts
  <2>2. alerts[a] \in A!Alerts /\ a < nextAlert
    BY <2>1 DEF AlertsInv, A!Exists
  <2>3. alerts[a].last \in Moments \cup {A!Never}
    BY <2>2 DEF A!Alerts
  <2>4. alerts[a].last = A!Never \/ alerts[a].last < moment
    BY <1>1, <2>1, <2>3 DEF A!FrequencyAllows, A!Never
  <2>. QED BY <2>1, <2>2, <2>3, <2>4 DEF A!Due
<1>. QED BY <1>2

\* An edit leaves an alert an alert, and its count alone.
LEMMA EditedIsAlert ==
  ASSUME MCServicesAssumption, NEW row \in A!Alerts, NEW edit \in Edits
  PROVE  A!Edited(row, edit) \in A!Alerts /\ A!Edited(row, edit).count = row.count
<1>1. edit \in A!Editions /\ row.count \in Nat
  BY DEF MCServicesAssumption, A!PriceAlertsAssumption, A!Alerts
<1>2. /\ A!Kept(edit.offering, row.offering) \in Offerings
      /\ A!Kept(edit.target, row.target) \in Targets
      /\ A!Kept(edit.condition, row.condition) \in A!Conditions
      /\ A!Kept(edit.frequency, row.frequency) \in A!Frequencies
      /\ A!Kept(edit.status, row.status) \in A!AlertStatuses
  BY <1>1 DEF A!Kept, A!Editions, A!Alerts
<1>. DEFINE next == A!Edited(row, edit)
<1>3. /\ next.offering \in Offerings /\ next.target \in Targets
      /\ next.condition \in A!Conditions /\ next.frequency \in A!Frequencies
      /\ next.status \in A!AlertStatuses /\ next.count = row.count
  BY <1>2 DEF A!Edited, A!Alerts
<1>. QED BY <1>2, <1>3 DEF A!Edited, A!Alerts

LEMMA AlertsInvStays ==
  ASSUME AlertsInv, MCServicesAssumption, A!Next
  PROVE  AlertsInv'
<1>. USE AlertJobsAre
<1>1. MaxAlerts \in Nat /\ alerts \in [A!AlertIds -> A!Alerts \cup {A!NoAlert}]
  BY DEF MCServicesAssumption, A!PriceAlertsAssumption, AlertsInv
<1>2. ASSUME NEW r \in Three, NEW s \in DOMAIN A!Jobs, NEW j, A!Goto(r, s, j),
             AlertFits(r, s, j), UNCHANGED <<nextAlert, told, alerts>>,
             stage[r] \notin {"notify", "failed"}, s \notin {"notify", "failed"}
      PROVE  AlertsInv'
  BY <1>1, <1>2, AlertRequestWorks
<1>3. ASSUME NEW r \in Three, A!Return(r), UNCHANGED <<nextAlert, told>>,
             stage[r] \notin {"notify", "failed"},
             alerts' \in [A!AlertIds -> A!Alerts \cup {A!NoAlert}],
             \A a \in A!AlertIds : alerts'[a] # A!NoAlert =>
               (alerts[a] # A!NoAlert /\ alerts'[a].count = alerts[a].count)
      PROVE  AlertsInv'
  <2>1. PICK s, j : s \in DOMAIN A!Jobs /\ s = "done" /\ j \in A!Jobs[s] /\ A!Goto(r, s, j)
    BY <1>3 DEF A!Return
  <2>2. AlertFits(r, s, j)
    BY <2>1 DEF AlertFits
  <2>. QED BY <1>1, <1>3, <2>1, <2>2, AlertRequestWorks
<1>4. ASSUME NEW r \in Three, NEW user \in Users, NEW offering \in Offerings,
             NEW target \in Targets, NEW wish \in Wishes,
             A!Create(r, user, offering, target, wish)
      PROVE  AlertsInv'
  <2>1. PICK s, j : s \in DOMAIN A!Jobs /\ s = "insert" /\ j \in A!Jobs[s] /\ A!Goto(r, s, j)
    BY <1>4 DEF A!Create
  <2>2. AlertFits(r, s, j)
    BY <2>1 DEF AlertFits
  <2>. QED BY <1>2, <1>4, <2>1, <2>2 DEF A!Create
<1>5. ASSUME NEW r \in Three, NEW a \in A!AlertIds, A!Remove(r, a)
      PROVE  AlertsInv'
  <2>1. PICK s, j : s \in DOMAIN A!Jobs /\ s = "delete" /\ j \in A!Jobs[s] /\ A!Goto(r, s, j)
    BY <1>5 DEF A!Remove
  <2>2. AlertFits(r, s, j)
    BY <2>1 DEF AlertFits
  <2>. QED BY <1>2, <1>5, <2>1, <2>2 DEF A!Remove
<1>6. ASSUME NEW r \in Three, NEW a \in A!AlertIds, NEW edit \in Edits, A!Update(r, a, edit)
      PROVE  AlertsInv'
  <2>1. PICK s, j : s \in DOMAIN A!Jobs /\ s = "update" /\ j \in A!Jobs[s] /\ A!Goto(r, s, j)
    BY <1>6 DEF A!Update
  <2>2. AlertFits(r, s, j)
    BY <2>1 DEF AlertFits
  <2>. QED BY <1>2, <1>6, <2>1, <2>2 DEF A!Update
<1>7. ASSUME NEW r \in Three, NEW offering \in Offerings, NEW amount \in Amounts,
             NEW moment \in Moments, A!Report(r, offering, amount, moment)
      PROVE  AlertsInv'
  <2>1. CASE amount = 0
    BY <1>1, <1>3, <1>7, <2>1 DEF A!Report
  <2>2. CASE amount # 0
    <3>1. PICK due \in SUBSET A!Due :
            /\ due = A!DueAlerts(offering, amount, moment)
            /\ \A d \in due : d.alert < nextAlert /\ (d.last = A!Never \/ d.last < moment)
            /\ \A d, e \in due : d.alert = e.alert => d = e
      BY DueIsOlder
    <3>2. PICK s, j : /\ s \in DOMAIN A!Jobs
                      /\ s = "trigger" /\ j \in A!Jobs[s] /\ A!Goto(r, s, j)
                      /\ j.moment = moment /\ j.due = due
      BY <1>7, <2>2, <3>1 DEF A!Report
    <3>3. AlertFits(r, "idle", work[r])
      BY <1>7 DEF A!Report, AlertsInv
    <3>4. AlertFits(r, s, j)
      BY <3>1, <3>2, <3>3 DEF AlertFits
    <3>. QED BY <1>2, <1>7, <3>2, <3>4 DEF A!Report
  <2>. QED BY <2>1, <2>2
<1>8. ASSUME NEW r \in Three, A!Created(r)
      PROVE  AlertsInv'
  BY <1>8, AlertIsCreated
<1>9. ASSUME NEW r \in Three, A!Updated(r)
      PROVE  AlertsInv'
  <2>1. PICK a \in A!AlertIds, edit \in Edits : a = work[r].alert /\ edit = work[r].edit
    BY <1>9 DEF A!Updated, AlertsInv, AlertFits
  <2>2. CASE A!Exists(a)
    <3>1. PICK row \in A!Alerts : row = A!Edited(alerts[a], edit) /\ row.count = alerts[a].count
      BY <1>1, <2>2, EditedIsAlert DEF A!Exists
    <3>2. alerts' = [alerts EXCEPT ![a] = row]
      BY <1>9, <2>1, <2>2, <3>1 DEF A!Updated
    <3>3. /\ alerts' \in [A!AlertIds -> A!Alerts \cup {A!NoAlert}]
          /\ \A b \in A!AlertIds : alerts'[b] # A!NoAlert =>
               (alerts[b] # A!NoAlert /\ alerts'[b].count = alerts[b].count)
      BY <1>1, <2>2, <3>1, <3>2 DEF A!Exists
    <3>. QED BY <1>3, <1>9, <3>3 DEF A!Updated
  <2>3. CASE ~A!Exists(a)
    BY <1>1, <1>3, <1>9, <2>1, <2>3 DEF A!Updated
  <2>. QED BY <2>2, <2>3
<1>10. ASSUME NEW r \in Three, A!Removed(r)
       PROVE  AlertsInv'
  <2>1. /\ alerts' \in [A!AlertIds -> A!Alerts \cup {A!NoAlert}]
        /\ \A b \in A!AlertIds : alerts'[b] # A!NoAlert =>
             (alerts[b] # A!NoAlert /\ alerts'[b].count = alerts[b].count)
    BY <1>1, <1>10 DEF A!Removed
  <2>. QED BY <1>3, <1>10, <2>1 DEF A!Removed
<1>11. ASSUME NEW r \in Three, stage[r] = "trigger", NEW d \in work[r].due, A!Trigger(r, d)
       PROVE  AlertsInv'
  BY <1>11, AlertIsTriggered
<1>12. ASSUME NEW r \in Three, A!Notify(r)
       PROVE  AlertsInv'
  <2>1. CASE A!Exists(work[r].alert)
    BY <1>12, <2>1, AlertIsTold
  <2>2. CASE ~A!Exists(work[r].alert)
    BY <1>12, <2>2, AlertRequestFails DEF A!Notify
  <2>. QED BY <2>1, <2>2
<1>13. ASSUME NEW r \in Three, A!Evaluated(r)
       PROVE  AlertsInv'
  BY <1>1, <1>3, <1>13 DEF A!Evaluated
<1>14. ASSUME NEW r \in Three, A!RequestFails(r)
       PROVE  AlertsInv'
  BY <1>14, AlertRequestFails DEF A!RequestFails
<1>. QED BY <1>4, <1>5, <1>6, <1>7, <1>8, <1>9, <1>10, <1>11, <1>12, <1>13, <1>14 DEF A!Next

LEMMA AlertsInvInit == A!Init => AlertsInv
<1>1. A!Init => /\ stage \in [Three -> DOMAIN A!Jobs] /\ work = [r \in Three |-> work[r]]
                /\ \A r \in Three : AlertFits(r, stage[r], work[r])
  BY AlertJobsAre DEF A!Init, AlertFits
<1>2. A!Init => /\ alerts \in [A!AlertIds -> A!Alerts \cup {A!NoAlert}]
                /\ nextAlert \in 1..(MaxAlerts + 1)
                /\ told \subseteq Tellings /\ IsFiniteSet(told)
                /\ \A a \in A!AlertIds : ~A!Exists(a)
                /\ \A t \in told : t.alert < nextAlert
  BY MCServicesAssumption, FS_EmptySet
  DEF A!Init, A!Exists, MCServicesAssumption, A!PriceAlertsAssumption
<1>. QED BY <1>1, <1>2 DEF AlertsInv

LEMMA AlertsInvKept == AlertsInv /\ [A!Next]_(A!vars) => AlertsInv'
<1>1. ASSUME AlertsInv, UNCHANGED A!vars
      PROVE  AlertsInv'
  <2>1. \A r \in Three : AlertFits(r, stage[r], work[r])'
    BY <1>1, AlertConstantsStay DEF A!vars, AlertsInv, AlertFits
  <2>2. \A a \in A!AlertIds : A!Exists(a)' => Accounted(a, alerts[a].count)'
    BY <1>1, AlertConstantsStay
    DEF A!vars, AlertsInv, A!Exists, Accounted, TellingsOf, Noting, Gone
  <2>. QED BY <1>1, <2>1, <2>2, AlertConstantsStay DEF A!vars, AlertsInv, A!Exists
<1>. QED BY <1>1, AlertsInvStays, MCServicesAssumption

LEMMA AlertsInvHolds == A!Spec => []AlertsInv
BY AlertsInvInit, AlertsInvKept, PTL DEF A!Spec

\* However many prices are evaluated at once, and whatever is edited, deleted or
\* fails meanwhile, an alert is told of once per trigger.
THEOREM ToldOnce == A!Spec => []ToldOncePerTrigger
<1>1. AlertsInv => ToldOncePerTrigger
  BY OneCardinality DEF AlertsInv, ToldOncePerTrigger, A!ToldOncePerTrigger, A!Tellings,
     A!InHand, A!Failures, Accounted, TellingsOf, Noting, Gone
<1>. QED BY <1>1, AlertsInvHolds, PTL

\* A price that arrives late triggers no alert that was triggered by a later one.
THEOREM TriggersGoForward == A!Spec => TriggersMoveForward
<1>. DEFINE Forward ==
       \A a \in A!AlertIds : A!Exists(a) /\ A!Exists(a)' /\ alerts'[a].count # alerts[a].count =>
         alerts[a].last = A!Never \/ alerts'[a].last > alerts[a].last
<1>1. AlertsInv /\ A!Next => Forward
  <2>. SUFFICES ASSUME AlertsInv, A!Next, NEW a \in A!AlertIds, A!Exists(a), A!Exists(a)',
                       alerts'[a].count # alerts[a].count
                PROVE  alerts[a].last = A!Never \/ alerts'[a].last > alerts[a].last
    OBVIOUS
  <2>. USE DEF A!Exists
  <2>1. ~UNCHANGED alerts
    OBVIOUS
  <2>2. ASSUME NEW r \in Three, A!Created(r)
        PROVE  FALSE
    <3>1. nextAlert # a /\ nextAlert \in A!AlertIds
      BY <2>2 DEF A!Created, AlertsInv, A!AlertIds
    <3>. QED BY <2>2, <3>1 DEF A!Created, AlertsInv
  <2>3. ASSUME NEW r \in Three, A!Updated(r)
        PROVE  FALSE
    <3>1. PICK b \in A!AlertIds, edit \in Edits : b = work[r].alert /\ edit = work[r].edit
      BY <2>3, AlertJobsAre DEF A!Updated, AlertsInv, AlertFits
    <3>2. alerts' = [alerts EXCEPT ![b] = A!Edited(alerts[b], edit)] /\ b = a
      BY <2>1, <2>3, <3>1 DEF A!Updated, AlertsInv
    <3>3. A!Edited(alerts[a], edit).count = alerts[a].count
      BY MCServicesAssumption, EditedIsAlert DEF AlertsInv
    <3>. QED BY <3>2, <3>3 DEF AlertsInv
  <2>4. ASSUME NEW r \in Three, A!Removed(r)
        PROVE  FALSE
    BY <2>4 DEF A!Removed, AlertsInv
  <2>5. ASSUME NEW r \in Three, stage[r] = "trigger", NEW d \in work[r].due, A!Trigger(r, d)
        PROVE  alerts[a].last = A!Never \/ alerts'[a].last > alerts[a].last
    <3>1. /\ d.alert \in A!AlertIds /\ work[r].moment \in Moments
          /\ d.last = A!Never \/ d.last < work[r].moment
      BY <2>5, EvaluationHas DEF AlertsInv, AlertFits, A!Due
    <3>2. /\ alerts' = A!Triggered(d.alert, work[r].moment, d.once)
          /\ alerts[d.alert].last = d.last
      BY <2>1, <2>5 DEF A!Trigger
    <3>3. a = d.alert
      BY <3>1, <3>2 DEF A!Triggered, AlertsInv
    <3>4. alerts[a] \in A!Alerts /\ alerts'[a].last = work[r].moment
      BY <3>2, <3>3 DEF A!Triggered, AlertsInv, A!Alerts
    <3>. QED BY <3>1, <3>2, <3>3, <3>4
  <2>. QED BY <2>1, <2>2, <2>3, <2>4, <2>5 DEF A!Next, A!Create, A!Remove, A!Update, A!Report,
         A!Notify, A!Evaluated, A!RequestFails
<1>2. AlertsInv /\ [A!Next]_(A!vars) => [Forward]_(A!vars)
  BY <1>1
<1>3. A!Spec => [][Forward]_(A!vars)
  BY <1>2, AlertsInvHolds, PTL DEF A!Spec
<1>. QED BY <1>3 DEF TriggersMoveForward, A!TriggersMoveForward

-----------------------------------------------------------------------------
(* SupportTickets: while nothing else has happened to the tickets, whoever *)
(* is about to be given one has no more of them than anybody, since only   *)
(* one request holds the lock; and whoever a request knows as assignee had *)
(* the ticket when it read that, which no later reassignment undoes.       *)

RowsOf(t) == {h \in history : h.ticket = t}
Had(t) == {h.new : h \in RowsOf(t)}

\* the history of ticket t explains its assignee, and who was told as staff
Explained(t) ==
  /\ \E o : {h \in RowsOf(t) : h.previous = T!Nobody} = {o}
  /\ \A h \in RowsOf(t) : h.previous \in Had(t) \cup {T!Nobody} /\ h.previous # h.new
  /\ tickets[t].assignee \in Had(t)
  /\ \A n \in notes : n.ticket = t /\ n.user \in Staff => n.user \in Had(t)

\* what request r has read for the step s it stands at
TicketFits(r, s, j) ==
  /\ j \in T!Jobs[s]
  /\ s \in {"assign", "insert"} => lock = r
  /\ s = "insert" =>
       /\ j.ticket < nextTicket /\ ~T!Exists(j.ticket)
       /\ T!Untouched => \A u \in Staff : T!Load(j.assignee) <= T!Load(u)
  /\ s \in {"reply", "reassign", "status", "notify"} => T!Exists(j.ticket)
  /\ s = "reply" => j.assignee \in Had(j.ticket)
  /\ s = "reassign" => j.from \in Had(j.ticket) /\ j.from # j.to
  /\ s = "status" => j.status \in Choices

Rows == [ticket: T!Numbers, previous: Staff \cup {T!Nobody}, new: Staff]

TicketTables ==
  /\ tickets \in [T!Numbers -> T!Tickets \cup {T!NoTicket}]
  /\ history \subseteq Rows
  /\ notes \subseteq T!Notes
  /\ staff \subseteq Staff
  /\ nextTicket \in 1..(MaxTickets + 1)
  /\ now \in Nat
  /\ \A t \in T!Numbers : T!Exists(t) => t < nextTicket
  /\ \A h \in history : T!Exists(h.ticket)
  /\ \A n \in notes : T!Exists(n.ticket)

TicketsInv ==
  /\ TicketTables
  /\ stage \in [Three -> DOMAIN T!Jobs]
  /\ work = [r \in Three |-> work[r]]
  /\ \A r \in Three : TicketFits(r, stage[r], work[r])
  /\ T!LoadIsBalanced
  /\ \A t \in T!Numbers : T!Exists(t) => Explained(t)

LEMMA TicketJobsAre ==
  /\ DOMAIN T!Jobs = {"idle", "done", "assign", "insert", "reply", "reassign", "status",
                      "notify"}
  /\ T!Jobs["idle"] = {T!NoJob} /\ T!Jobs["done"] = {T!NoJob}
  /\ \A j : j \in T!Jobs["assign"] <=> j \in [customer: Customers]
  /\ \A j : j \in T!Jobs["insert"] <=>
       j \in [customer: Customers, ticket: T!Numbers, assignee: Staff, assignedAt: Nat]
  /\ \A j : j \in T!Jobs["reply"] <=>
       j \in [ticket: T!Numbers, byStaff: BOOLEAN, assignee: Staff, customer: Customers,
              status: T!Statuses]
  /\ \A j : j \in T!Jobs["reassign"] <=> j \in [ticket: T!Numbers, from: Staff, to: Staff]
  /\ \A j : \A s \in {"status", "notify"} : j \in T!Jobs[s] <=>
       j \in [ticket: T!Numbers, customer: Customers, status: T!Statuses]
BY DEF T!Jobs

LEMMA TicketConstantsStay ==
  /\ T!Jobs' = T!Jobs /\ T!Numbers' = T!Numbers /\ T!NoTicket' = T!NoTicket
  /\ T!Tickets' = T!Tickets /\ T!Notes' = T!Notes /\ Rows' = Rows /\ T!Nobody' = T!Nobody
BY Zenon DEF T!Jobs, T!Numbers, T!NoTicket, T!NoJob, T!Tickets, T!Notes, T!Statuses,
     T!ActiveStatuses, Rows, T!Nobody

\* As long as tickets stay what they are, so do the loads.
LEMMA LoadsStay ==
  ASSUME UNCHANGED tickets, NEW s
  PROVE  T!Load(s)' = T!Load(s)
BY TicketConstantsStay DEF T!Load, T!AssignedTo, T!Exists, T!Numbers, T!ActiveStatuses

\* nobody is given a ticket, and if nothing had happened to the tickets by the
\* end, nothing had before and they are the same
Calm ==
  /\ \A t \in T!Numbers : T!Exists(t)' <=> T!Exists(t)
  /\ T!Untouched' => T!Untouched /\ UNCHANGED tickets

\* What another request has read fits, unless it is about to give a ticket away.
LEMMA TicketStaysFit ==
  ASSUME TicketsInv, MaxTickets \in Nat, TicketTables', NEW r \in Three,
         NEW s \in DOMAIN T!Jobs, NEW j, TicketFits(r, s, j), Calm \/ s # "insert",
         s \in {"assign", "insert"} => lock' = r,
         nextTicket' >= nextTicket, history \subseteq history',
         \A t \in T!Numbers : T!Exists(t) => T!Exists(t)'
  PROVE  TicketFits(r, s, j)'
<1>1. j \in T!Jobs'[s]
  BY TicketConstantsStay DEF TicketFits
<1>2. \A t : Had(t) \subseteq Had(t)'
  BY DEF Had, RowsOf
<1>3. ASSUME s = "insert"
      PROVE  /\ j.ticket < nextTicket' /\ ~T!Exists(j.ticket)'
             /\ T!Untouched' => \A u \in Staff : T!Load(j.assignee)' <= T!Load(u)'
  <2>1. j.ticket \in T!Numbers /\ j.ticket < nextTicket /\ ~T!Exists(j.ticket) /\ Calm
    BY <1>3, TicketJobsAre DEF TicketFits
  <2>2. j.ticket < nextTicket'
    BY <2>1, TicketConstantsStay DEF TicketTables, TicketsInv, T!Numbers
  <2>3. ASSUME T!Untouched'
        PROVE  \A u \in Staff : T!Load(j.assignee)' <= T!Load(u)'
    <3>1. T!Untouched /\ UNCHANGED tickets
      BY <2>1, <2>3 DEF Calm
    <3>2. \A u \in Staff : T!Load(j.assignee) <= T!Load(u)
      BY <1>3, <3>1 DEF TicketFits
    <3>. QED BY <3>1, <3>2, LoadsStay
  <2>. QED BY <2>1, <2>2, <2>3 DEF Calm
<1>4. s \in {"reply", "reassign", "status", "notify"} => T!Exists(j.ticket)'
  BY TicketJobsAre DEF TicketFits
<1>5. /\ s = "reply" => j.assignee \in Had(j.ticket)'
      /\ s = "reassign" => j.from \in Had(j.ticket)' /\ j.from # j.to
      /\ s = "status" => j.status \in Choices
  BY <1>2 DEF TicketFits
<1>. QED BY <1>1, <1>3, <1>4, <1>5 DEF TicketFits

\* A request moves on; what it writes keeps the tables in order.
LEMMA TicketRequestMoves ==
  ASSUME TicketsInv, MaxTickets \in Nat, NEW r \in Three, NEW s \in DOMAIN T!Jobs, NEW j,
         T!Goto(r, s, j), TicketTables', nextTicket' >= nextTicket, history \subseteq history',
         \A t \in T!Numbers : T!Exists(t) => T!Exists(t)',
         Calm \/ \A q \in Three \ {r} : stage[q] # "insert",
         \A q \in Three \ {r} : lock = q => lock' = q,
         TicketFits(r, s, j)', T!LoadIsBalanced',
         \A t \in T!Numbers : T!Exists(t)' => Explained(t)'
  PROVE  TicketsInv'
<1>1. /\ stage' \in [Three -> DOMAIN T!Jobs] /\ stage'[r] = s /\ work'[r] = j
      /\ work' = [q \in Three |-> work'[q]]
      /\ \A q \in Three \ {r} : stage'[q] = stage[q] /\ work'[q] = work[q]
  BY DEF TicketsInv, T!Goto
<1>2. ASSUME NEW q \in Three \ {r}
      PROVE  TicketFits(q, stage[q], work[q])'
  <2>1. PICK p, w : p \in DOMAIN T!Jobs /\ p = stage[q] /\ w = work[q] /\ TicketFits(q, p, w)
    BY DEF TicketsInv
  <2>2. (Calm \/ p # "insert") /\ (p \in {"assign", "insert"} => lock' = q)
    BY <2>1 DEF TicketFits
  <2>3. TicketFits(q, p, w)'
    BY <2>1, <2>2, TicketStaysFit
  <2>. QED BY <1>1, <2>1, <2>3
<1>3. ASSUME NEW q \in Three
      PROVE  TicketFits(q, stage[q], work[q])'
  BY <1>1, <1>2 DEF TicketFits
<1>. QED BY <1>1, <1>3, TicketConstantsStay DEF TicketsInv

LEMMA LoadsCount ==
  ASSUME MaxTickets \in Nat, NEW s
  PROVE  T!Load(s) \in Nat
<1>. DEFINE given == {t \in T!AssignedTo(s) : tickets[t].status \in T!ActiveStatuses}
<1>1. given \in SUBSET (1..MaxTickets) /\ IsFiniteSet(1..MaxTickets)
  BY FS_Interval DEF T!AssignedTo, T!Numbers
<1>2. Cardinality(given) \in Nat
  BY <1>1, FS_Subset, FS_CardinalityType
<1>. QED BY <1>2, OneCardinality DEF T!Load

LEMMA CalmKeepsBalance ==
  ASSUME TicketsInv, Calm
  PROVE  T!LoadIsBalanced'
BY LoadsStay DEF TicketsInv, Calm, T!LoadIsBalanced

\* A ticket that keeps its assignee stays explained.
LEMMA ExplainedStays ==
  ASSUME TicketsInv, NEW t \in T!Numbers, T!Exists(t),
         history \subseteq history', \A h \in history' : h \in history \/ h.ticket # t,
         tickets'[t].assignee = tickets[t].assignee,
         \A n \in notes' : \/ n \in notes \/ n.ticket # t
                           \/ n.user \in Staff => n.user \in Had(t)
  PROVE  Explained(t)'
<1>1. RowsOf(t)' = RowsOf(t)
  BY DEF RowsOf
<1>2. Had(t)' = Had(t)
  BY <1>1 DEF Had
<1>. QED BY <1>1, <1>2, TicketConstantsStay DEF TicketsInv, Explained

\* A request reads, or draws a number, or tells the customer.
LEMMA TicketRequestWorks ==
  ASSUME TicketsInv, MCServicesAssumption, NEW r \in Three, NEW s \in DOMAIN T!Jobs, NEW j,
         T!Goto(r, s, j), UNCHANGED <<tickets, history, staff>>,
         notes \subseteq notes', notes' \subseteq T!Notes,
         \A n \in notes' : \/ n \in notes
                           \/ n.user \in Customers /\ T!Exists(n.ticket),
         nextTicket' \in 1..(MaxTickets + 1), nextTicket' >= nextTicket, now' \in Nat,
         \A q \in Three \ {r} : lock = q => lock' = q,
         TicketFits(r, s, j)'
  PROVE  TicketsInv'
<1>1. MaxTickets \in Nat /\ Staff \cap Customers = {}
  BY DEF MCServicesAssumption, T!SupportTicketsAssumption
<1>2. \A t \in T!Numbers : T!Exists(t)' <=> T!Exists(t)
  BY TicketConstantsStay DEF T!Exists
<1>3. Calm
  BY <1>2, TicketConstantsStay DEF Calm, T!Untouched, T!Exists
<1>4. TicketTables'
  <2>1. \A t \in T!Numbers : t < nextTicket => t < nextTicket'
    BY <1>1 DEF T!Numbers, TicketsInv, TicketTables
  <2>2. \A n \in notes' : T!Exists(n.ticket)'
    BY TicketConstantsStay DEF T!Exists, TicketsInv, TicketTables
  <2>3. \A h \in history' : T!Exists(h.ticket)'
    BY TicketConstantsStay DEF T!Exists, TicketsInv, TicketTables
  <2>. QED BY <1>2, <2>1, <2>2, <2>3, TicketConstantsStay DEF TicketsInv, TicketTables
<1>5. T!LoadIsBalanced'
  BY <1>3, CalmKeepsBalance
<1>6. ASSUME NEW t \in T!Numbers, T!Exists(t)'
      PROVE  Explained(t)'
  BY <1>1, <1>2, <1>6, ExplainedStays
<1>. QED BY <1>1, <1>2, <1>3, <1>4, <1>5, <1>6, TicketRequestMoves

\* One ticket is changed, by somebody's deed, and returns to what it was or not.
LEMMA TicketIsChanged ==
  ASSUME TicketsInv, MCServicesAssumption, NEW r \in Three, NEW s \in DOMAIN T!Jobs, NEW j,
         T!Goto(r, s, j), NEW t \in T!Numbers, T!Exists(t), NEW row \in T!Tickets,
         tickets' = [tickets EXCEPT ![t] = row], UNCHANGED <<staff, lock, nextTicket>>,
         history \subseteq history', history' \subseteq Rows,
         \A h \in history' : h \in history \/ h.ticket = t,
         notes \subseteq notes', notes' \subseteq T!Notes,
         \A n \in notes' : n \in notes \/ n.ticket = t,
         now' \in Nat, ~T!Untouched', TicketFits(r, s, j)',
         \A k \in T!Numbers \ {t} : T!Exists(k) => Explained(k)', Explained(t)'
  PROVE  TicketsInv'
<1>1. MaxTickets \in Nat
  BY DEF MCServicesAssumption, T!SupportTicketsAssumption
<1>2. \A k \in T!Numbers : T!Exists(k)' <=> T!Exists(k)
  BY TicketConstantsStay
  DEF TicketsInv, TicketTables, T!Exists, T!Tickets, T!NoTicket, T!Statuses, T!ActiveStatuses
<1>3. Calm
  BY <1>2 DEF Calm
<1>4. TicketTables'
  <2>1. tickets' \in [T!Numbers -> T!Tickets \cup {T!NoTicket}]
    BY DEF TicketsInv, TicketTables
  <2>2. \A n \in notes' : T!Exists(n.ticket)'
    BY <1>2 DEF TicketsInv, TicketTables, T!Notes
  <2>3. \A h \in history' : T!Exists(h.ticket)'
    BY <1>2 DEF TicketsInv, TicketTables, Rows
  <2>4. nextTicket' \in 1..(MaxTickets + 1) /\ staff' \subseteq Staff
        /\ \A k \in T!Numbers : T!Exists(k)' => k < nextTicket'
    BY <1>2 DEF TicketsInv, TicketTables
  <2>. QED BY <2>1, <2>2, <2>3, <2>4, TicketConstantsStay DEF TicketTables
<1>5. T!LoadIsBalanced'
  BY <1>3, CalmKeepsBalance
<1>6. \A k \in T!Numbers : T!Exists(k)' => Explained(k)'
  BY <1>2
<1>7. nextTicket' >= nextTicket
  BY <1>1 DEF TicketsInv, TicketTables
<1>. QED BY <1>1, <1>2, <1>3, <1>4, <1>5, <1>6, <1>7, TicketRequestMoves

LEMMA StatusRow ==
  ASSUME NEW row \in T!Tickets, NEW state \in T!Statuses
  PROVE  LET next == [row EXCEPT !.status = state, !.resolved = (state = "resolved")]
         IN  /\ next \in T!Tickets /\ next.assignee = row.assignee /\ next.status = state
<1>. PICK resolved \in BOOLEAN : resolved = (state = "resolved")
  OBVIOUS
<1>. DEFINE next == [row EXCEPT !.status = state, !.resolved = resolved]
<1>1. next \in T!Tickets /\ next.assignee = row.assignee /\ next.status = state
  BY DEF T!Tickets
<1>. QED BY <1>1

\* The status is written by id.
LEMMA StatusIsWritten ==
  ASSUME TicketsInv, NEW t \in T!Numbers, T!Exists(t), NEW state \in T!Statuses
  PROVE  \E row \in T!Tickets : /\ T!WithStatus(t, state) = [tickets EXCEPT ![t] = row]
                                /\ row.assignee = tickets[t].assignee /\ row.status = state
<1>1. tickets[t] \in T!Tickets
  BY DEF TicketsInv, TicketTables, T!Exists
<1>. DEFINE row == [tickets[t] EXCEPT !.status = state, !.resolved = (state = "resolved")]
<1>2. row \in T!Tickets /\ row.assignee = tickets[t].assignee /\ row.status = state
  BY <1>1, StatusRow
<1>3. T!WithStatus(t, state) = [tickets EXCEPT ![t] = row]
  BY DEF T!WithStatus, TicketsInv, TicketTables
<1>. QED BY <1>2, <1>3

LEMMA TicketIsAnswered ==
  ASSUME TicketsInv, MCServicesAssumption, NEW r \in Three, T!Replied(r)
  PROVE  TicketsInv'
<1>. USE TicketJobsAre
<1>1. PICK j : /\ j = work[r] /\ T!Exists(j.ticket) /\ j.assignee \in Had(j.ticket)
               /\ j \in [ticket: T!Numbers, byStaff: BOOLEAN, assignee: Staff,
                         customer: Customers, status: T!Statuses]
  BY DEF T!Replied, TicketsInv, TicketFits
<1>2. PICK t \in T!Numbers : t = j.ticket /\ T!Exists(t)
  BY <1>1
<1>3. PICK row \in T!Tickets : tickets' = [tickets EXCEPT ![t] = row]
                               /\ row.assignee = tickets[t].assignee
  BY <1>1, <1>2, StatusIsWritten DEF T!Replied
<1>4. PICK user \in Staff \cup Customers : /\ user \in Staff => user \in Had(t)
                                           /\ notes' = notes \cup {T!Note(user, t, "reply")}
  <2>1. notes' = notes \cup {T!Note(IF j.byStaff THEN j.customer ELSE j.assignee, t, "reply")}
    BY <1>1, <1>2 DEF T!Replied
  <2>2. Staff \cap Customers = {}
    BY DEF MCServicesAssumption, T!SupportTicketsAssumption
  <2>3. CASE j.byStaff
    BY <1>1, <2>1, <2>2, <2>3
  <2>4. CASE ~j.byStaff
    BY <1>1, <1>2, <2>1, <2>4
  <2>. QED BY <2>3, <2>4
<1>5. /\ notes' \subseteq T!Notes
      /\ \A n \in notes' : n \in notes \/ (n.ticket = t /\ n.user = user)
      /\ ~T!Untouched'
  <2>. DEFINE n == T!Note(user, t, "reply")
  <2>1. n \in T!Notes /\ n.ticket = t /\ n.user = user /\ n.event # "assigned"
    BY DEF T!Note, T!Notes
  <2>2. notes' = notes \cup {n}
    BY <1>4
  <2>. HIDE DEF n
  <2>. QED BY <2>1, <2>2 DEF TicketsInv, TicketTables, T!Untouched
<1>6. PICK s, k : s \in DOMAIN T!Jobs /\ s = "done" /\ k \in T!Jobs[s] /\ T!Goto(r, s, k)
  BY DEF T!Replied, T!Return
<1>7. TicketFits(r, s, k)'
  BY <1>6, TicketConstantsStay DEF TicketFits
<1>8. UNCHANGED <<history, staff, lock, nextTicket>> /\ now' = now
  BY DEF T!Replied
<1>9. \A k2 \in T!Numbers : T!Exists(k2) => Explained(k2)'
  <2>1. \A k2 \in T!Numbers : tickets'[k2].assignee = tickets[k2].assignee
    BY <1>3 DEF TicketsInv, TicketTables
  <2>. QED BY <1>4, <1>5, <1>8, <2>1, ExplainedStays
<1>10. now' \in Nat /\ history' \subseteq Rows
  BY <1>8 DEF TicketsInv, TicketTables
<1>. QED BY <1>2, <1>3, <1>4, <1>5, <1>6, <1>7, <1>8, <1>9, <1>10, TicketIsChanged

LEMMA TicketChangesStatus ==
  ASSUME TicketsInv, MCServicesAssumption, NEW r \in Three, T!StatusChanged(r)
  PROVE  TicketsInv'
<1>. USE TicketJobsAre
<1>1. PICK j : /\ j = work[r] /\ T!Exists(j.ticket) /\ j.status \in Choices
               /\ j \in [ticket: T!Numbers, customer: Customers, status: T!Statuses]
  BY DEF T!StatusChanged, TicketsInv, TicketFits
<1>2. PICK t \in T!Numbers : t = j.ticket /\ T!Exists(t)
  BY <1>1
<1>3. PICK row \in T!Tickets : /\ tickets' = [tickets EXCEPT ![t] = row]
                               /\ row.assignee = tickets[t].assignee /\ row.status = j.status
  <2>1. tickets' = T!WithStatus(t, j.status) /\ j.status \in T!Statuses
    BY <1>1, <1>2 DEF T!StatusChanged
  <2>. QED BY <1>2, <2>1, StatusIsWritten
<1>4. ~T!Untouched'
  <2>1. tickets'[t] = row /\ row # T!NoTicket
    BY <1>3 DEF TicketsInv, TicketTables, T!Tickets, T!NoTicket, T!Statuses, T!ActiveStatuses
  <2>. QED BY <1>1, <1>3, <2>1, TicketConstantsStay DEF T!Untouched, T!Exists
<1>5. PICK s, k : s \in DOMAIN T!Jobs /\ s = "notify" /\ k = j /\ T!Goto(r, s, k)
  BY <1>1 DEF T!StatusChanged
<1>6. UNCHANGED <<history, notes, staff, lock, nextTicket>> /\ now' = now
  BY DEF T!StatusChanged
<1>7. TicketFits(r, s, k)'
  <2>1. T!Exists(t)'
    BY <1>3, TicketConstantsStay
    DEF T!Exists, TicketsInv, TicketTables, T!Tickets, T!NoTicket, T!Statuses, T!ActiveStatuses
  <2>. QED BY <1>1, <1>2, <1>5, <2>1, TicketConstantsStay DEF TicketFits
<1>8. \A k2 \in T!Numbers : T!Exists(k2) => Explained(k2)'
  <2>1. \A k2 \in T!Numbers : tickets'[k2].assignee = tickets[k2].assignee
    BY <1>3 DEF TicketsInv, TicketTables
  <2>. QED BY <1>6, <2>1, ExplainedStays
<1>9. now' \in Nat /\ history' \subseteq Rows /\ notes' \subseteq T!Notes
  BY <1>6 DEF TicketsInv, TicketTables
<1>. QED BY <1>2, <1>3, <1>4, <1>5, <1>6, <1>7, <1>8, <1>9, TicketIsChanged

LEMMA TicketIsReassigned ==
  ASSUME TicketsInv, MCServicesAssumption, NEW r \in Three, T!Reassigned(r)
  PROVE  TicketsInv'
<1>. USE TicketJobsAre
<1>1. PICK j : /\ j = work[r] /\ T!Exists(j.ticket) /\ j.from \in Had(j.ticket) /\ j.from # j.to
               /\ j \in [ticket: T!Numbers, from: Staff, to: Staff]
  BY DEF T!Reassigned, TicketsInv, TicketFits
<1>2. PICK t \in T!Numbers, from \in Staff, to \in Staff :
        /\ t = j.ticket /\ from = j.from /\ to = j.to
        /\ T!Exists(t) /\ from \in Had(t) /\ from # to
  BY <1>1
<1>3. PICK row \in T!Tickets : tickets' = [tickets EXCEPT ![t] = row] /\ row.assignee = to
  <2>. DEFINE row == [tickets[t] EXCEPT !.assignee = to, !.assignedAt = now]
  <2>1. tickets[t] \in T!Tickets /\ now \in Nat
    BY <1>2 DEF TicketsInv, TicketTables, T!Exists
  <2>2. row \in T!Tickets /\ row.assignee = to
    BY <2>1 DEF T!Tickets
  <2>3. tickets' = [tickets EXCEPT ![t] = row]
    BY <1>1, <1>2 DEF T!Reassigned, TicketsInv, TicketTables
  <2>. QED BY <2>2, <2>3
<1>4. PICK h \in Rows : /\ h.ticket = t /\ h.previous = from /\ h.new = to
                        /\ history' = history \cup {h}
  <2>. DEFINE h == [ticket |-> t, previous |-> from, new |-> to]
  <2>1. h \in Rows /\ h.ticket = t /\ h.previous = from /\ h.new = to
    BY DEF Rows
  <2>2. history' = history \cup {h}
    BY <1>1, <1>2 DEF T!Reassigned
  <2>. QED BY <2>1, <2>2
<1>5. /\ notes \subseteq notes' /\ notes' \subseteq T!Notes
      /\ \A n \in notes' : n \in notes \/ (n.ticket = t /\ n.user \in {from, to})
  <2>1. notes' = notes \cup {T!Note(to, t, "reassigned"), T!Note(from, t, "reassigned_from")}
    BY <1>1, <1>2 DEF T!Reassigned
  <2>. QED BY <2>1 DEF T!Note, T!Notes, TicketsInv, TicketTables
<1>6. ~T!Untouched'
  <2>1. T!Nobody \notin Staff
    BY DEF MCServicesAssumption, T!SupportTicketsAssumption
  <2>. QED BY <1>4, <2>1, TicketConstantsStay DEF T!Untouched
<1>7. PICK s, k : s \in DOMAIN T!Jobs /\ s = "done" /\ k \in T!Jobs[s] /\ T!Goto(r, s, k)
  BY DEF T!Reassigned, T!Return
<1>8. TicketFits(r, s, k)'
  BY <1>7, TicketConstantsStay DEF TicketFits
<1>9. UNCHANGED <<staff, lock, nextTicket>> /\ now' \in Nat
  BY DEF T!Reassigned, TicketsInv, TicketTables
<1>10. ASSUME NEW k2 \in T!Numbers \ {t}, T!Exists(k2)
       PROVE  Explained(k2)'
  <2>1. tickets'[k2].assignee = tickets[k2].assignee
    BY <1>3 DEF TicketsInv, TicketTables
  <2>. QED BY <1>4, <1>5, <1>10, <2>1, ExplainedStays
<1>11. Explained(t)'
  <2>1. RowsOf(t)' = RowsOf(t) \cup {h}
    BY <1>4 DEF RowsOf
  <2>2. Had(t)' = Had(t) \cup {to}
    BY <1>4, <2>1 DEF Had
  <2>3. T!Nobody # from
    BY DEF MCServicesAssumption, T!SupportTicketsAssumption
  <2>4. {g \in RowsOf(t)' : g.previous = T!Nobody} = {g \in RowsOf(t) : g.previous = T!Nobody}
    BY <1>4, <2>1, <2>3
  <2>5. Explained(t)
    BY <1>2 DEF TicketsInv
  <2>6. \E o : {g \in RowsOf(t)' : g.previous = T!Nobody'} = {o}
    BY <2>4, <2>5, TicketConstantsStay DEF Explained
  <2>7. \A g \in RowsOf(t)' : g.previous \in Had(t)' \cup {T!Nobody} /\ g.previous # g.new
    BY <1>2, <1>4, <2>1, <2>2, <2>5 DEF Explained
  <2>8. tickets'[t].assignee \in Had(t)'
    BY <1>3, <2>2 DEF TicketsInv, TicketTables
  <2>9. \A n \in notes' : n.ticket = t /\ n.user \in Staff => n.user \in Had(t)'
    BY <1>2, <1>5, <2>2, <2>5 DEF Explained
  <2>. QED BY <2>6, <2>7, <2>8, <2>9, TicketConstantsStay DEF Explained
<1>12. /\ history \subseteq history' /\ history' \subseteq Rows
       /\ \A g \in history' : g \in history \/ g.ticket = t
       /\ \A n \in notes' : n \in notes \/ n.ticket = t
  BY <1>4, <1>5 DEF TicketsInv, TicketTables
<1>. QED BY <1>2, <1>3, <1>5, <1>6, <1>7, <1>8, <1>9, <1>10, <1>11, <1>12, TicketIsChanged

\* A ticket is opened: nobody else is giving one away, and whoever gets it had no
\* more than anybody.
LEMMA TicketIsOpened ==
  ASSUME TicketsInv, MCServicesAssumption, NEW r \in Three, T!Opened(r)
  PROVE  TicketsInv'
<1>. USE TicketJobsAre
<1>1. PICK j : /\ j = work[r] /\ TicketFits(r, "insert", j)
               /\ j \in [customer: Customers, ticket: T!Numbers, assignee: Staff,
                         assignedAt: Nat]
  BY DEF T!Opened, TicketsInv, TicketFits
<1>2. PICK t \in T!Numbers, a \in Staff :
        /\ t = j.ticket /\ a = j.assignee /\ t < nextTicket /\ ~T!Exists(t) /\ lock = r
        /\ T!Untouched => \A u \in Staff : T!Load(a) <= T!Load(u)
  BY <1>1 DEF TicketFits
<1>3. MaxTickets \in Nat /\ T!Nobody \notin Staff \cup Three
  BY DEF MCServicesAssumption, T!SupportTicketsAssumption
<1>4. PICK row \in T!Tickets : /\ tickets' = [tickets EXCEPT ![t] = row]
                               /\ row.assignee = a /\ row.status = "open"
  <2>. DEFINE row == [customer |-> j.customer, assignee |-> j.assignee,
                      assignedAt |-> j.assignedAt, status |-> "open", resolved |-> FALSE]
  <2>1. row \in T!Tickets /\ row.assignee = a /\ row.status = "open"
    BY <1>1, <1>2 DEF T!Tickets, T!Statuses, T!ActiveStatuses
  <2>2. tickets' = [tickets EXCEPT ![t] = row]
    BY <1>1, <1>2 DEF T!Opened
  <2>. QED BY <2>1, <2>2
<1>5. PICK h \in Rows : /\ h.ticket = t /\ h.previous = T!Nobody /\ h.new = a
                        /\ history' = history \cup {h}
  <2>. DEFINE h == [ticket |-> t, previous |-> T!Nobody, new |-> a]
  <2>1. h \in Rows /\ h.ticket = t /\ h.previous = T!Nobody /\ h.new = a
    BY DEF Rows
  <2>2. history' = history \cup {h}
    BY <1>1, <1>2 DEF T!Opened
  <2>. QED BY <2>1, <2>2
<1>6. /\ notes \subseteq notes' /\ notes' \subseteq T!Notes
      /\ \A n \in notes' : n \in notes \/ (n.ticket = t /\ n.user = a)
  <2>1. notes' = notes \cup {T!Note(a, t, "assigned")}
    BY <1>1, <1>2 DEF T!Opened
  <2>. QED BY <2>1 DEF T!Note, T!Notes, TicketsInv, TicketTables
<1>7. PICK s, k : s \in DOMAIN T!Jobs /\ s = "done" /\ k \in T!Jobs[s] /\ T!Goto(r, s, k)
  BY DEF T!Opened, T!Return
<1>8. TicketFits(r, s, k)'
  BY <1>7, TicketConstantsStay DEF TicketFits
<1>9. UNCHANGED <<staff, nextTicket, now>>
  BY DEF T!Opened
<1>10. /\ \A k2 \in T!Numbers : T!Exists(k2)' <=> T!Exists(k2) \/ k2 = t
       /\ \A k2 \in T!Numbers \ {t} : tickets'[k2] = tickets[k2]
       /\ tickets'[t] = row
  BY <1>4, TicketConstantsStay
  DEF TicketsInv, TicketTables, T!Exists, T!Tickets, T!NoTicket, T!Statuses, T!ActiveStatuses
<1>11. TicketTables'
  <2>1. tickets' \in [T!Numbers -> T!Tickets \cup {T!NoTicket}]
    BY <1>4 DEF TicketsInv, TicketTables
  <2>2. \A n \in notes' : T!Exists(n.ticket)'
    BY <1>2, <1>6, <1>10 DEF TicketsInv, TicketTables, T!Notes
  <2>3. history' \subseteq Rows /\ \A g \in history' : T!Exists(g.ticket)'
    BY <1>2, <1>5, <1>10 DEF TicketsInv, TicketTables, Rows
  <2>4. /\ nextTicket' \in 1..(MaxTickets + 1) /\ staff' \subseteq Staff /\ now' \in Nat
        /\ \A k2 \in T!Numbers : T!Exists(k2)' => k2 < nextTicket'
    BY <1>2, <1>9, <1>10 DEF TicketsInv, TicketTables
  <2>. QED BY <1>6, <2>1, <2>2, <2>3, <2>4, TicketConstantsStay DEF TicketTables
<1>12. ASSUME NEW k2 \in T!Numbers \ {t}, T!Exists(k2)
       PROVE  Explained(k2)'
  BY <1>5, <1>6, <1>10, <1>12, ExplainedStays
<1>13. Explained(t)'
  <2>1. RowsOf(t)' = {h}
    BY <1>2, <1>5 DEF RowsOf, TicketsInv, TicketTables
  <2>2. Had(t)' = {a}
    BY <1>5, <2>1 DEF Had
  <2>3. {g \in RowsOf(t)' : g.previous = T!Nobody} = {h}
    BY <1>5, <2>1
  <2>4. \A n \in notes' : n.ticket = t => n.user = a
    BY <1>2, <1>6 DEF TicketsInv, TicketTables
  <2>. QED BY <1>3, <1>4, <1>5, <1>10, <2>1, <2>2, <2>3, <2>4, TicketConstantsStay
       DEF Explained
<1>14. T!LoadIsBalanced'
  <2>. SUFFICES ASSUME T!Untouched', NEW u \in Staff, NEW v \in Staff
                PROVE  T!Load(u)' <= T!Load(v)' + 1
    BY DEF T!LoadIsBalanced
  <2>1. T!Untouched
    BY <1>2, <1>5, <1>6, <1>9, <1>10, TicketConstantsStay DEF T!Untouched
  <2>2. ASSUME NEW w \in Staff
        PROVE  T!Load(w)' = IF w = a THEN T!Load(w) + 1 ELSE T!Load(w)
    <3>. DEFINE given == {n \in T!AssignedTo(w) : tickets[n].status \in T!ActiveStatuses}
                later == {n \in T!Numbers :
                           /\ T!Exists(n)' /\ tickets'[n].assignee = w
                           /\ tickets'[n].status \in T!ActiveStatuses}
    <3>1. t \notin given /\ later = IF w = a THEN given \cup {t} ELSE given
      BY <1>2, <1>4, <1>10 DEF T!AssignedTo, T!ActiveStatuses
    <3>2. IsFiniteSet(given)
      <4>1. given \in SUBSET (1..MaxTickets) /\ IsFiniteSet(1..MaxTickets)
        BY <1>3, FS_Interval DEF T!AssignedTo, T!Numbers
      <4>. QED BY <4>1, FS_Subset
    <3>3. T!Load(w) = Cardinality(given)
      BY OneCardinality DEF T!Load
    <3>4. T!Load(w)' = Cardinality(later)
      BY OneCardinality, TicketConstantsStay DEF T!Load, T!AssignedTo, T!ActiveStatuses
    <3>. HIDE DEF given, later
    <3>. QED BY <3>1, <3>2, <3>3, <3>4, FS_AddElement
  <2>3. T!Load(u) <= T!Load(v) + 1
    BY <2>1 DEF TicketsInv, T!LoadIsBalanced
  <2>4. T!Load(a) <= T!Load(v)
    BY <1>2, <2>1
  <2>5. T!Load(u) \in Nat /\ T!Load(v) \in Nat /\ T!Load(a) \in Nat
    BY <1>3, LoadsCount
  <2>. QED BY <2>2, <2>3, <2>4, <2>5
<1>15. \A q \in Three \ {r} : stage[q] # "insert" /\ lock # q
  BY <1>2 DEF TicketsInv, TicketFits
<1>16. nextTicket' >= nextTicket
  BY <1>3, <1>9 DEF TicketsInv, TicketTables
<1>17. /\ history \subseteq history' /\ \A k2 \in T!Numbers : T!Exists(k2) => T!Exists(k2)'
       /\ \A k2 \in T!Numbers : T!Exists(k2)' => Explained(k2)'
  BY <1>5, <1>10, <1>12, <1>13
<1>. QED BY <1>3, <1>7, <1>8, <1>11, <1>14, <1>15, <1>16, <1>17, TicketRequestMoves

\* Whoever is given the next ticket has no more than any other member of staff.
LEMMA LeastLoadedHasLeast ==
  ASSUME MCServicesAssumption, NEW s \in T!LeastLoaded, T!Untouched, NEW u \in Staff
  PROVE  T!Load(s) <= T!Load(u)
<1>1. T!Load(s) < T!Load(u) \/ T!Load(s) = T!Load(u)
  BY DEF T!LeastLoaded, T!Untouched
<1>2. T!Load(s) \in Nat /\ T!Load(u) \in Nat
  BY LoadsCount DEF MCServicesAssumption, T!SupportTicketsAssumption
<1>. QED BY <1>1, <1>2

LEMMA TicketsInvStays ==
  ASSUME TicketsInv, MCServicesAssumption, T!Next
  PROVE  TicketsInv'
<1>. USE TicketJobsAre, TicketConstantsStay
<1>1. /\ MaxTickets \in Nat /\ T!Nobody \notin Staff \cup Three /\ Staff \cap Customers = {}
      /\ Choices \subseteq T!Statuses
  BY DEF MCServicesAssumption, T!SupportTicketsAssumption
<1>2. nextTicket \in 1..(MaxTickets + 1) /\ nextTicket >= nextTicket /\ now \in Nat
      /\ notes \subseteq T!Notes
  BY <1>1 DEF TicketsInv, TicketTables
<1>3. ASSUME NEW r \in Three, NEW s \in DOMAIN T!Jobs, NEW j, T!Goto(r, s, j),
             UNCHANGED <<tickets, history, notes, staff, nextTicket, now>>,
             \A q \in Three \ {r} : lock = q => lock' = q, TicketFits(r, s, j)'
      PROVE  TicketsInv'
  BY <1>2, <1>3, TicketRequestWorks
<1>4. ASSUME NEW r \in Three, T!Return(r),
             UNCHANGED <<tickets, history, notes, staff, nextTicket, now>>,
             \A q \in Three \ {r} : lock = q => lock' = q
      PROVE  TicketsInv'
  <2>1. PICK s, j : s \in DOMAIN T!Jobs /\ s = "done" /\ j \in T!Jobs[s] /\ T!Goto(r, s, j)
    BY <1>4 DEF T!Return
  <2>2. TicketFits(r, s, j)'
    BY <2>1 DEF TicketFits
  <2>. QED BY <1>3, <1>4, <2>1, <2>2
<1>5. ASSUME NEW r \in Three, NEW c \in Customers, T!Open(r, c)
      PROVE  TicketsInv'
  <2>1. PICK s, j : s \in DOMAIN T!Jobs /\ s = "assign" /\ j \in T!Jobs[s] /\ T!Goto(r, s, j)
    BY <1>5 DEF T!Open
  <2>2. TicketFits(r, s, j)'
    BY <1>5, <2>1 DEF TicketFits, T!Open
  <2>3. \A q \in Three \ {r} : lock # q
    BY <1>1, <1>5 DEF T!Open
  <2>. QED BY <1>3, <1>5, <2>1, <2>2, <2>3 DEF T!Open
<1>6. ASSUME NEW r \in Three, T!Assign(r)
      PROVE  TicketsInv'
  <2>1. PICK w : w = work[r] /\ w \in [customer: Customers] /\ lock = r
    BY <1>6 DEF T!Assign, TicketsInv, TicketFits
  <2>2. PICK a \in T!LeastLoaded : T!Goto(r, "insert",
          [customer |-> w.customer, ticket |-> nextTicket, assignee |-> a, assignedAt |-> now])
    BY <1>6, <2>1 DEF T!Assign
  <2>3. a \in Staff /\ nextTicket \in T!Numbers /\ nextTicket' = nextTicket + 1
        /\ now' = now + 1 /\ UNCHANGED <<tickets, history, notes, staff, lock>>
    BY <1>6 DEF T!Assign, T!LeastLoaded, TicketsInv, TicketTables
  <2>4. PICK s, j : /\ s \in DOMAIN T!Jobs
                    /\ s = "insert" /\ j \in T!Jobs[s] /\ T!Goto(r, s, j)
                    /\ j.ticket = nextTicket /\ j.assignee = a
    BY <1>2, <2>1, <2>2, <2>3
  <2>5. ~T!Exists(nextTicket)
    BY <1>2, <2>3 DEF TicketsInv, TicketTables
  <2>6. ASSUME T!Untouched'
        PROVE  \A u \in Staff : T!Load(a)' <= T!Load(u)'
    <3>1. T!Untouched
      BY <2>3, <2>6 DEF T!Untouched, T!Exists
    <3>. QED BY <2>3, <3>1, LeastLoadedHasLeast, LoadsStay
  <2>7. TicketFits(r, s, j)'
    <3>1. ~T!Exists(j.ticket)'
      BY <2>3, <2>4, <2>5 DEF T!Exists
    <3>2. j.ticket < nextTicket'
      BY <1>2, <2>3, <2>4
    <3>. QED BY <2>1, <2>3, <2>4, <2>6, <3>1, <3>2 DEF TicketFits
  <2>8. nextTicket' \in 1..(MaxTickets + 1) /\ nextTicket' >= nextTicket /\ now' \in Nat
    BY <1>1, <1>2, <2>3 DEF T!Numbers
  <2>. QED BY <1>2, <2>3, <2>4, <2>7, <2>8, TicketRequestWorks
<1>7. ASSUME NEW r \in Three, T!NobodyToAssign(r)
      PROVE  TicketsInv'
  <2>1. lock = r
    BY <1>7 DEF T!NobodyToAssign, TicketsInv, TicketFits
  <2>. QED BY <1>4, <1>7, <2>1 DEF T!NobodyToAssign
<1>8. ASSUME NEW t \in T!Numbers, T!Exists(t)
      PROVE  /\ tickets[t] \in T!Tickets /\ tickets[t].assignee \in Had(t)
             /\ T!Exists(t)' \/ ~UNCHANGED tickets
             /\ Had(t)' = Had(t) \/ ~UNCHANGED history
  BY <1>8 DEF TicketsInv, TicketTables, T!Exists, Explained, Had, RowsOf
<1>9. ASSUME NEW r \in Three, NEW t \in T!Numbers, NEW byStaff \in BOOLEAN,
             NEW choice \in Choices \cup {T!NoChoice}, T!Reply(r, t, byStaff, choice)
      PROVE  TicketsInv'
  <2>1. T!Exists(t) /\ UNCHANGED <<tickets, history, notes, staff, lock, nextTicket, now>>
    BY <1>9 DEF T!Reply
  <2>. DEFINE state == IF ~byStaff THEN "in_review"
                        ELSE IF choice # T!NoChoice THEN choice ELSE tickets[t].status
              next == [ticket |-> t, byStaff |-> byStaff, assignee |-> tickets[t].assignee,
                       customer |-> tickets[t].customer, status |-> state]
  <2>2. state \in T!Statuses
    BY <1>1, <1>8, <2>1 DEF T!Statuses, T!ActiveStatuses, T!Tickets
  <2>3. T!Goto(r, "reply", next)
    BY <1>9 DEF T!Reply
  <2>. HIDE DEF state
  <2>4. next \in T!Jobs["reply"] /\ next.ticket = t /\ next.assignee = tickets[t].assignee
    BY <1>8, <2>1, <2>2 DEF T!Tickets
  <2>. HIDE DEF next
  <2>5. PICK s, j : /\ s \in DOMAIN T!Jobs
                    /\ s = "reply" /\ j \in T!Jobs[s] /\ T!Goto(r, s, j)
                    /\ j.ticket = t /\ j.assignee = tickets[t].assignee
    BY <2>3, <2>4
  <2>6. TicketFits(r, s, j)'
    BY <1>8, <2>1, <2>5 DEF TicketFits
  <2>. QED BY <1>3, <2>1, <2>5, <2>6
<1>10. ASSUME NEW r \in Three, NEW t \in T!Numbers, NEW u \in Staff, T!Reassign(r, t, u)
       PROVE  TicketsInv'
  <2>1. T!Exists(t) /\ UNCHANGED <<tickets, history, notes, staff, lock, nextTicket, now>>
    BY <1>10 DEF T!Reassign
  <2>2. PICK s, j :
          /\ s \in DOMAIN T!Jobs
          /\ s = "reassign" /\ j \in T!Jobs[s] /\ T!Goto(r, s, j)
          /\ j.ticket = t /\ j.from = tickets[t].assignee /\ j.from # j.to
    BY <1>8, <1>10, <2>1 DEF T!Reassign, T!Tickets
  <2>3. TicketFits(r, s, j)'
    BY <1>8, <2>1, <2>2 DEF TicketFits
  <2>. QED BY <1>3, <2>1, <2>2, <2>3
<1>11. ASSUME NEW r \in Three, NEW t \in T!Numbers, NEW state \in Choices,
              T!ChangeStatus(r, t, state)
       PROVE  TicketsInv'
  <2>1. T!Exists(t) /\ UNCHANGED <<tickets, history, notes, staff, lock, nextTicket, now>>
    BY <1>11 DEF T!ChangeStatus
  <2>2. PICK s, j :
          /\ s \in DOMAIN T!Jobs
          /\ s = "status" /\ j \in T!Jobs[s] /\ T!Goto(r, s, j)
          /\ j.ticket = t /\ j.status \in Choices
    BY <1>1, <1>8, <1>11, <2>1 DEF T!ChangeStatus, T!Tickets
  <2>3. TicketFits(r, s, j)'
    BY <1>8, <2>1, <2>2 DEF TicketFits
  <2>. QED BY <1>3, <2>1, <2>2, <2>3
<1>12. ASSUME NEW r \in Three, T!CustomerNotified(r)
       PROVE  TicketsInv'
  <2>1. PICK j : /\ j = work[r] /\ T!Exists(j.ticket)
                 /\ j \in [ticket: T!Numbers, customer: Customers, status: T!Statuses]
    BY <1>12 DEF T!CustomerNotified, TicketsInv, TicketFits
  <2>2. /\ notes \subseteq notes' /\ notes' \subseteq T!Notes
        /\ \A n \in notes' : n \in notes \/ (n.user \in Customers /\ T!Exists(n.ticket))
    <3>1. notes' = notes \cup {T!Note(j.customer, j.ticket, "status_changed")}
      BY <1>12, <2>1 DEF T!CustomerNotified
    <3>. QED BY <1>2, <2>1, <3>1 DEF T!Note, T!Notes
  <2>3. PICK s, k : s \in DOMAIN T!Jobs /\ s = "done" /\ k \in T!Jobs[s] /\ T!Goto(r, s, k)
    BY <1>12 DEF T!CustomerNotified, T!Return
  <2>4. TicketFits(r, s, k)'
    BY <2>3 DEF TicketFits
  <2>5. UNCHANGED <<tickets, history, staff, lock, nextTicket, now>>
    BY <1>12 DEF T!CustomerNotified
  <2>. QED BY <1>2, <2>2, <2>3, <2>4, <2>5, TicketRequestWorks
<1>13. ASSUME NEW r \in Three, T!RequestDies(r)
       PROVE  TicketsInv'
  BY <1>4, <1>13 DEF T!RequestDies
<1>14. ASSUME NEW u \in Staff, T!Demote(u)
       PROVE  TicketsInv'
  <2>1. /\ UNCHANGED <<tickets, history, notes, lock, nextTicket, now, stage, work>>
        /\ u \in staff /\ staff' = staff \ {u}
    BY <1>14 DEF T!Demote
  <2>2. ~T!Untouched'
    BY <2>1 DEF T!Untouched
  <2>3. \A t : T!Exists(t)' <=> T!Exists(t)
    BY <2>1 DEF T!Exists
  <2>4. Calm /\ TicketTables'
    BY <2>1, <2>2, <2>3 DEF Calm, TicketsInv, TicketTables
  <2>5. \A r \in Three : TicketFits(r, stage[r], work[r])'
    <3>. SUFFICES ASSUME NEW r \in Three PROVE TicketFits(r, stage[r], work[r])'
      OBVIOUS
    <3>1. PICK s, j : s \in DOMAIN T!Jobs /\ s = stage[r] /\ j = work[r] /\ TicketFits(r, s, j)
      BY DEF TicketsInv
    <3>2. s \in {"assign", "insert"} => lock' = r
      BY <2>1, <3>1 DEF TicketFits
    <3>3. TicketFits(r, s, j)'
      BY <1>1, <1>2, <2>1, <2>3, <2>4, <3>1, <3>2, TicketStaysFit
    <3>. QED BY <2>1, <3>1, <3>3
  <2>6. \A t \in T!Numbers : T!Exists(t)' => Explained(t)'
    BY <2>1, <2>3, ExplainedStays
  <2>7. T!LoadIsBalanced'
    BY <2>4, CalmKeepsBalance
  <2>. QED BY <2>1, <2>4, <2>5, <2>6, <2>7 DEF TicketsInv
<1>15. ASSUME NEW r \in Three, T!Opened(r) \/ T!Replied(r) \/ T!Reassigned(r) \/ T!StatusChanged(r)
       PROVE  TicketsInv'
  BY <1>15, TicketIsOpened, TicketIsAnswered, TicketIsReassigned, TicketChangesStatus
<1>. QED BY <1>5, <1>6, <1>7, <1>9, <1>10, <1>11, <1>12, <1>13, <1>14, <1>15 DEF T!Next

LEMMA TicketsInvInit == T!Init => TicketsInv
<1>. USE TicketJobsAre, TicketConstantsStay
<1>1. T!Init => /\ stage \in [Three -> DOMAIN T!Jobs] /\ work = [r \in Three |-> work[r]]
                /\ \A r \in Three : TicketFits(r, stage[r], work[r])
  BY DEF T!Init, TicketFits
<1>2. T!Init => TicketTables /\ \A t \in T!Numbers : ~T!Exists(t)
  BY MCServicesAssumption DEF T!Init, TicketTables, T!Exists, MCServicesAssumption,
     T!SupportTicketsAssumption
<1>3. ASSUME T!Init
      PROVE  T!LoadIsBalanced
  <2>1. \A s : {t \in T!AssignedTo(s) : tickets[t].status \in T!ActiveStatuses} = {}
    BY <1>2, <1>3 DEF T!AssignedTo
  <2>2. \A s : T!Load(s) = 0
    BY <2>1, OneCardinality, FS_EmptySet DEF T!Load
  <2>. QED BY <2>2 DEF T!LoadIsBalanced
<1>. QED BY <1>1, <1>2, <1>3 DEF TicketsInv

LEMMA TicketsInvKept == TicketsInv /\ [T!Next]_(T!vars) => TicketsInv'
<1>. USE TicketJobsAre, TicketConstantsStay
<1>1. ASSUME TicketsInv, UNCHANGED T!vars
      PROVE  TicketsInv'
  <2>1. UNCHANGED <<tickets, history, notes, staff, lock, nextTicket, now, stage, work>>
    BY <1>1 DEF T!vars
  <2>2. \A t : T!Exists(t)' <=> T!Exists(t)
    BY <2>1 DEF T!Exists
  <2>3. Calm /\ TicketTables'
    BY <1>1, <2>1, <2>2 DEF Calm, TicketsInv, TicketTables, T!Untouched
  <2>4. MaxTickets \in Nat /\ nextTicket' >= nextTicket
    BY <1>1, <2>1, MCServicesAssumption
    DEF MCServicesAssumption, T!SupportTicketsAssumption, TicketsInv, TicketTables
  <2>5. \A r \in Three : TicketFits(r, stage[r], work[r])'
    <3>. SUFFICES ASSUME NEW r \in Three PROVE TicketFits(r, stage[r], work[r])'
      OBVIOUS
    <3>1. PICK s, j : s \in DOMAIN T!Jobs /\ s = stage[r] /\ j = work[r] /\ TicketFits(r, s, j)
      BY <1>1 DEF TicketsInv
    <3>2. s \in {"assign", "insert"} => lock' = r
      BY <2>1, <3>1 DEF TicketFits
    <3>3. TicketFits(r, s, j)'
      BY <1>1, <2>1, <2>2, <2>3, <2>4, <3>1, <3>2, TicketStaysFit
    <3>. QED BY <2>1, <3>1, <3>3
  <2>6. \A t \in T!Numbers : T!Exists(t)' => Explained(t)'
    BY <1>1, <2>1, <2>2, ExplainedStays
  <2>7. T!LoadIsBalanced'
    BY <1>1, <2>3, CalmKeepsBalance
  <2>. QED BY <1>1, <2>1, <2>3, <2>5, <2>6, <2>7 DEF TicketsInv
<1>. QED BY <1>1, TicketsInvStays, MCServicesAssumption

\* Tickets opened at once are spread evenly over the staff, and whatever is
\* reassigned at once, the history leads to whoever has a ticket.
THEOREM TicketsAreShared == T!Spec => []TicketsAreAssigned
<1>. USE TicketJobsAre, TicketConstantsStay
<1>1. TicketsInv => TicketsAreAssigned
  <2>. SUFFICES ASSUME TicketsInv PROVE TicketsAreAssigned
    OBVIOUS
  <2>1. ASSUME NEW t \in T!Numbers, T!Exists(t)
        PROVE  /\ T!Cardinality({h \in RowsOf(t) : h.previous = T!Nobody}) = 1 /\ Explained(t)
    <3>1. PICK o : {h \in RowsOf(t) : h.previous = T!Nobody} = {o}
      BY <2>1 DEF TicketsInv, Explained
    <3>2. Cardinality({o}) = 1
      BY FS_Singleton
    <3>. QED BY <2>1, <3>1, <3>2, OneCardinality DEF TicketsInv
  <2>2. T!HistoryExplainsAssignee
    BY <2>1 DEF T!HistoryExplainsAssignee, Explained, Had, RowsOf
  <2>. QED BY <2>2 DEF TicketsInv, TicketsAreAssigned, T!TicketsAreAssigned
<1>. QED BY TicketsInvInit, TicketsInvKept, <1>1, PTL DEF T!Spec

-----------------------------------------------------------------------------
(* PriceUnits: the readings of the table.  A refresh keeps a reading that  *)
(* has seen the change it answers for; that it has seen what its process   *)
(* answered for meanwhile follows only if no other refresh of the process  *)
(* was at the same point.                                                  *)

UnitTables == [Units -> N!UnitRows \cup {N!NoUnit}]

\* the unit was active under the code at some time since
Asked(x) == \E v \in x.since..N!Now : tables[v][x.unit] = [code |-> x.code, active |-> TRUE]

\* what a request knows, where it stands
UnitFits(s, j) ==
  /\ j \in N!Jobs[s]
  /\ s \in {"read", "keep"} => j.change <= N!Now
  /\ s = "keep" =>
       /\ j.change <= j.reading /\ j.reading <= N!Now
       /\ j.process \notin unitsMixed => known[j.process] <= j.reading
  /\ s = "write" => Asked(j.row)

UnitsInv ==
  /\ tables \in Seq(UnitTables) /\ N!Now \in N!Readings
  /\ lookup \in [Processes -> 0..N!Now] /\ known \in [Processes -> 1..N!Now]
  /\ unitsMixed \subseteq Processes
  /\ recorded \subseteq N!Records
  /\ \A x \in recorded : N!Table[x.unit] # N!NoUnit /\ Asked(x)
  /\ pc \in [Requests -> DOMAIN N!Jobs] /\ job = [r \in Requests |-> job[r]]
  /\ \A r \in Requests : UnitFits(pc[r], job[r])
  /\ N!LookupsAreCurrent

LEMMA UnitJobsAre ==
  /\ DOMAIN N!Jobs = {"idle", "read", "keep", "write"}
  /\ N!Jobs["idle"] = {N!NoJob}
  /\ \A j : j \in N!Jobs["read"] <=> j \in [process: Processes, change: {0} \cup N!Readings]
  /\ \A j : j \in N!Jobs["keep"] <=>
       j \in [process: Processes, change: {0} \cup N!Readings, reading: N!Readings]
  /\ \A j : j \in N!Jobs["write"] <=> j \in [process: Processes, row: N!Records]
BY DEF N!Jobs

LEMMA UnitConstantsStay == N!Jobs' = N!Jobs /\ N!Records' = N!Records
BY Zenon DEF N!Jobs, N!Records, N!Readings, N!NoJob

\* A change of the table is the last one, and the earlier ones are kept.
LEMMA TableGrows ==
  ASSUME UnitsInv, NEW t \in UnitTables, tables' = Append(tables, t), N!Now <= MaxWrites
  PROVE  /\ tables' \in Seq(UnitTables) /\ N!Now' = N!Now + 1 /\ N!Table' = t
         /\ \A v \in 1..N!Now : tables'[v] = tables[v]
         /\ N!Now' \in N!Readings
<1>1. MaxWrites \in Nat
  BY MCServicesAssumption DEF MCServicesAssumption, N!PriceUnitsAssumption
<1>. QED BY <1>1 DEF UnitsInv, N!Now, N!Table, N!Readings

\* What was asked for stays true as the table changes.
LEMMA AskedStays ==
  ASSUME UnitsInv, N!Now' \in N!Readings, N!Now' >= N!Now,
         \A v \in 1..N!Now : tables'[v] = tables[v],
         NEW x \in N!Records, Asked(x)
  PROVE  Asked(x)'
<1>1. N!Now \in Nat /\ N!Now' \in Nat
  BY MCServicesAssumption DEF UnitsInv, N!Readings, MCServicesAssumption, N!PriceUnitsAssumption
<1>. QED BY <1>1 DEF Asked, N!Records, N!Readings

\* So does what a request knows, unless another refresh comes between.
LEMMA UnitStaysFit ==
  ASSUME UnitsInv, N!Now' \in N!Readings, N!Now' >= N!Now,
         \A v \in 1..N!Now : tables'[v] = tables[v],
         unitsMixed \subseteq unitsMixed',
         NEW s \in DOMAIN N!Jobs, NEW j, UnitFits(s, j),
         s = "keep" => j.process \in unitsMixed' \/ known'[j.process] = known[j.process]
  PROVE  UnitFits(s, j)'
<1>. USE UnitJobsAre, UnitConstantsStay
<1>1. N!Now \in Nat /\ N!Now' \in Nat
  BY MCServicesAssumption DEF UnitsInv, N!Readings, MCServicesAssumption, N!PriceUnitsAssumption
<1>2. j \in N!Jobs'[s]
  BY DEF UnitFits
<1>3. s \in {"read", "keep"} => j.change <= N!Now'
  BY <1>1 DEF UnitFits, N!Readings
<1>4. s = "keep" => /\ j.change <= j.reading /\ j.reading <= N!Now'
                    /\ j.process \notin unitsMixed' => known'[j.process] <= j.reading
  BY <1>1 DEF UnitFits, N!Readings
<1>5. s = "write" => Asked(j.row)'
  BY AskedStays DEF UnitFits
<1>. QED BY <1>2, <1>3, <1>4, <1>5 DEF UnitFits

\* A request that moves on, while the table may change.
LEMMA UnitsRequestMoves ==
  ASSUME UnitsInv, NEW r \in Requests, NEW s \in DOMAIN N!Jobs, NEW j,
         UnitFits(s, j)', N!Goto(r, s, j), UNCHANGED <<lookup, recorded, known, unitsMixed>>,
         tables' \in Seq(UnitTables), N!Now' \in N!Readings, N!Now' >= N!Now,
         \A v \in 1..N!Now : tables'[v] = tables[v],
         \A x \in recorded : N!Table'[x.unit] # N!NoUnit
  PROVE  UnitsInv'
<1>. USE UnitConstantsStay
<1>1. /\ pc' \in [Requests -> DOMAIN N!Jobs] /\ pc'[r] = s /\ job'[r] = j
      /\ job' = [q \in Requests |-> job'[q]]
      /\ \A q \in Requests \ {r} : pc'[q] = pc[q] /\ job'[q] = job[q]
  BY DEF UnitsInv, N!Goto
<1>2. \A q \in Requests : UnitFits(pc[q], job[q])'
  <2>. SUFFICES ASSUME NEW q \in Requests PROVE UnitFits(pc[q], job[q])'
    OBVIOUS
  <2>1. CASE q = r
    BY <1>1, <2>1
  <2>2. CASE q # r
    <3>1. PICK z, k : z \in DOMAIN N!Jobs /\ z = pc[q] /\ k = job[q] /\ UnitFits(z, k)
      BY DEF UnitsInv
    <3>2. UnitFits(z, k)'
      BY <3>1, UnitStaysFit
    <3>. QED BY <1>1, <2>2, <3>1, <3>2
  <2>. QED BY <2>1, <2>2
<1>3. N!Now \in Nat /\ N!Now' \in Nat
  BY MCServicesAssumption DEF UnitsInv, N!Readings, MCServicesAssumption, N!PriceUnitsAssumption
<1>4. lookup' \in [Processes -> 0..N!Now'] /\ known' \in [Processes -> 1..N!Now']
  BY <1>3 DEF UnitsInv
<1>5. \A x \in recorded' : N!Table'[x.unit] # N!NoUnit' /\ Asked(x)'
  BY AskedStays DEF UnitsInv, N!NoUnit
<1>6. N!LookupsAreCurrent'
  BY DEF UnitsInv, N!LookupsAreCurrent
<1>. QED BY <1>1, <1>2, <1>4, <1>5, <1>6 DEF UnitsInv, UnitTables, N!UnitRows, N!NoUnit

\* A request changes the table, and is about to read it.
LEMMA TableIsChanged ==
  ASSUME UnitsInv, NEW r \in Requests, NEW p \in Processes, NEW t \in UnitTables,
         tables' = Append(tables, t), N!Now <= MaxWrites,
         N!Goto(r, "read", [process |-> p, change |-> N!Now + 1]),
         UNCHANGED <<lookup, recorded, known, unitsMixed>>,
         \A x \in recorded : t[x.unit] # N!NoUnit
  PROVE  UnitsInv'
<1>1. PICK s, j : s = "read" /\ j = [process |-> p, change |-> N!Now + 1]
  OBVIOUS
<1>2. /\ tables' \in Seq(UnitTables) /\ N!Now' = N!Now + 1 /\ N!Table' = t
      /\ \A v \in 1..N!Now : tables'[v] = tables[v]
      /\ N!Now' \in N!Readings
  BY TableGrows
<1>. N!Now' \in Nat /\ N!Now \in Nat
  BY <1>2, MCServicesAssumption
  DEF UnitsInv, N!Readings, MCServicesAssumption, N!PriceUnitsAssumption
<1>3. UnitFits(s, j)'
  BY <1>1, <1>2, UnitJobsAre, UnitConstantsStay DEF UnitFits
<1>4. s \in DOMAIN N!Jobs /\ N!Goto(r, s, j)
  BY <1>1, UnitJobsAre
<1>5. /\ N!Now' >= N!Now
      /\ \A x \in recorded : N!Table'[x.unit] # N!NoUnit
  BY <1>2
<1>. QED BY <1>2, <1>3, <1>4, <1>5, UnitsRequestMoves

\* A request moves on, and nothing else happens.
LEMMA UnitsRequestStands ==
  ASSUME UnitsInv, NEW r \in Requests, NEW s \in DOMAIN N!Jobs, NEW j, UnitFits(s, j),
         N!Goto(r, s, j), UNCHANGED <<tables, lookup, recorded, known, unitsMixed>>
  PROVE  UnitsInv'
<1>1. /\ tables' \in Seq(UnitTables) /\ N!Now' = N!Now /\ N!Table' = N!Table
      /\ \A v \in 1..N!Now : tables'[v] = tables[v]
      /\ N!Now' \in N!Readings /\ N!Now' \in Nat
  BY MCServicesAssumption
  DEF UnitsInv, N!Now, N!Table, N!Readings, MCServicesAssumption, N!PriceUnitsAssumption
<1>2. UnitFits(s, j)'
  BY <1>1, UnitStaysFit
<1>3. \A x \in recorded : N!Table'[x.unit] # N!NoUnit
  BY <1>1 DEF UnitsInv
<1>. QED BY <1>1, <1>2, <1>3, UnitsRequestMoves

\* Nothing happens to the units.
LEMMA UnitsStand ==
  ASSUME UnitsInv, UNCHANGED <<tables, lookup, recorded, known, unitsMixed, pc, job>>
  PROVE  UnitsInv'
<1>1. /\ tables' \in Seq(UnitTables) /\ N!Now' = N!Now /\ N!Table' = N!Table
      /\ \A v \in 1..N!Now : tables'[v] = tables[v]
      /\ N!Now' \in N!Readings /\ N!Now' \in Nat
  BY MCServicesAssumption
  DEF UnitsInv, N!Now, N!Table, N!Readings, MCServicesAssumption, N!PriceUnitsAssumption
<1>2. \A q \in Requests : UnitFits(pc[q], job[q])'
  <2>. SUFFICES ASSUME NEW q \in Requests PROVE UnitFits(pc[q], job[q])'
    OBVIOUS
  <2>1. PICK z, k : z \in DOMAIN N!Jobs /\ z = pc[q] /\ k = job[q] /\ UnitFits(z, k)
    BY DEF UnitsInv
  <2>2. UnitFits(z, k)'
    BY <1>1, <2>1, UnitStaysFit
  <2>. QED BY <2>1, <2>2
<1>3. \A x \in recorded' : N!Table'[x.unit] # N!NoUnit' /\ Asked(x)'
  BY <1>1, AskedStays DEF UnitsInv, N!NoUnit
<1>4. N!LookupsAreCurrent'
  BY DEF UnitsInv, N!LookupsAreCurrent
<1>. QED BY <1>1, <1>2, <1>3, <1>4, UnitConstantsStay DEF UnitsInv, N!NoUnit

\* A reading is kept: it has seen what the process answers for now, and what it
\* answered for before unless another refresh was about to keep its own.
LEMMA ReadingIsKept ==
  ASSUME UnitsInv, NEW r \in Requests, N!Refreshed(r)
  PROVE  UnitsInv'
<1>. USE UnitConstantsStay
<1>1. PICK k : /\ k = job[r] /\ UnitFits("keep", k) /\ k.process \in Processes
               /\ k.change \in Nat /\ k.reading \in 1..N!Now /\ k.change <= k.reading
  BY UnitJobsAre, MCServicesAssumption
  DEF N!Refreshed, UnitsInv, UnitFits, N!Readings, MCServicesAssumption,
      N!PriceUnitsAssumption
<1>2. PICK p \in Processes : p = k.process
  BY <1>1
<1>3. /\ lookup' = [lookup EXCEPT ![p] = k.reading] /\ UNCHANGED <<tables, recorded>>
      /\ known' = [known EXCEPT ![p] = IF k.change > @ THEN k.change ELSE @]
      /\ unitsMixed' = IF N!Overlaps(r) THEN unitsMixed \cup {p} ELSE unitsMixed
      /\ N!Goto(r, "idle", N!NoJob) /\ pc[r] = "keep"
  BY <1>1, <1>2 DEF N!Refreshed, N!Return
<1>4. /\ tables' \in Seq(UnitTables) /\ N!Now' = N!Now /\ N!Table' = N!Table
      /\ \A v \in 1..N!Now : tables'[v] = tables[v]
      /\ N!Now' \in N!Readings /\ N!Now' \in Nat /\ unitsMixed \subseteq unitsMixed'
  BY <1>3, MCServicesAssumption
  DEF UnitsInv, N!Now, N!Table, N!Readings, MCServicesAssumption, N!PriceUnitsAssumption
<1>5. /\ pc' \in [Requests -> DOMAIN N!Jobs] /\ pc'[r] = "idle" /\ job'[r] = N!NoJob
      /\ job' = [q \in Requests |-> job'[q]]
      /\ \A q \in Requests \ {r} : pc'[q] = pc[q] /\ job'[q] = job[q]
  BY <1>3, UnitJobsAre DEF UnitsInv, N!Goto
<1>6. \A q \in Requests : UnitFits(pc[q], job[q])'
  <2>. SUFFICES ASSUME NEW q \in Requests PROVE UnitFits(pc[q], job[q])'
    OBVIOUS
  <2>1. CASE q = r
    <3>1. PICK z, w : z = "idle" /\ w = N!NoJob
      OBVIOUS
    <3>2. UnitFits(z, w)'
      BY <3>1, UnitJobsAre DEF UnitFits
    <3>. QED BY <1>5, <2>1, <3>1, <3>2
  <2>2. CASE q # r
    <3>1. PICK z, w : z \in DOMAIN N!Jobs /\ z = pc[q] /\ w = job[q] /\ UnitFits(z, w)
      BY DEF UnitsInv
    <3>2. ASSUME z = "keep"
          PROVE  w.process \in unitsMixed' \/ known'[w.process] = known[w.process]
      <4>1. w.process \in Processes
        BY <3>1, <3>2, UnitJobsAre DEF UnitFits
      <4>2. CASE w.process = p
        BY <1>1, <1>2, <1>3, <2>2, <3>1, <3>2, <4>2 DEF N!Overlaps
      <4>3. CASE w.process # p
        BY <1>3, <4>1, <4>3 DEF UnitsInv
      <4>. QED BY <4>2, <4>3
    <3>3. UnitFits(z, w)'
      BY <1>4, <3>1, <3>2, UnitStaysFit
    <3>. QED BY <1>5, <2>2, <3>1, <3>3
  <2>. QED BY <2>1, <2>2
<1>7. \A x \in recorded' : N!Table'[x.unit] # N!NoUnit' /\ Asked(x)'
  BY <1>3, <1>4, AskedStays DEF UnitsInv, N!NoUnit
<1>8. /\ lookup' \in [Processes -> 0..N!Now'] /\ known' \in [Processes -> 1..N!Now']
      /\ unitsMixed' \subseteq Processes
  BY <1>1, <1>3, <1>4 DEF UnitsInv
<1>9. N!LookupsAreCurrent'
  <2>. SUFFICES ASSUME NEW q \in Processes, q \notin unitsMixed', lookup'[q] # 0
                PROVE  lookup'[q] >= known'[q]
    BY DEF N!LookupsAreCurrent
  <2>1. CASE q = p
    <3>1. known[p] <= k.reading
      BY <1>1, <1>2, <1>4, <2>1 DEF UnitFits
    <3>. QED BY <1>1, <1>3, <2>1, <3>1 DEF UnitsInv
  <2>2. CASE q # p
    BY <1>3, <1>4, <2>2 DEF UnitsInv, N!LookupsAreCurrent
  <2>. QED BY <2>1, <2>2
<1>. QED BY <1>3, <1>4, <1>5, <1>6, <1>7, <1>8, <1>9 DEF UnitsInv, N!NoUnit

\* What is recorded was asked for, and the unit is there.
LEMMA UnitIsRecorded ==
  ASSUME UnitsInv, NEW r \in Requests, N!Record(r)
  PROVE  UnitsInv'
<1>. USE UnitConstantsStay
<1>1. PICK x \in N!Records : x = job[r].row /\ Asked(x)
  BY UnitJobsAre DEF N!Record, UnitsInv, UnitFits
<1>2. /\ recorded' = IF N!Table[x.unit] # N!NoUnit THEN recorded \cup {x} ELSE recorded
      /\ N!Goto(r, "idle", N!NoJob) /\ UNCHANGED <<tables, lookup, known, unitsMixed>>
  BY <1>1 DEF N!Record, N!Return
<1>3. /\ tables' \in Seq(UnitTables) /\ N!Now' = N!Now /\ N!Table' = N!Table
      /\ \A v \in 1..N!Now : tables'[v] = tables[v]
      /\ N!Now' \in N!Readings /\ N!Now' \in Nat
  BY <1>2, MCServicesAssumption
  DEF UnitsInv, N!Now, N!Table, N!Readings, MCServicesAssumption, N!PriceUnitsAssumption
<1>4. /\ pc' \in [Requests -> DOMAIN N!Jobs] /\ pc'[r] = "idle" /\ job'[r] = N!NoJob
      /\ job' = [q \in Requests |-> job'[q]]
      /\ \A q \in Requests \ {r} : pc'[q] = pc[q] /\ job'[q] = job[q]
  BY <1>2, UnitJobsAre DEF UnitsInv, N!Goto
<1>5. \A q \in Requests : UnitFits(pc[q], job[q])'
  <2>. SUFFICES ASSUME NEW q \in Requests PROVE UnitFits(pc[q], job[q])'
    OBVIOUS
  <2>1. CASE q = r
    <3>1. PICK z, w : z = "idle" /\ w = N!NoJob
      OBVIOUS
    <3>2. UnitFits(z, w)'
      BY <3>1, UnitJobsAre DEF UnitFits
    <3>. QED BY <1>4, <2>1, <3>1, <3>2
  <2>2. CASE q # r
    <3>1. PICK z, w : z \in DOMAIN N!Jobs /\ z = pc[q] /\ w = job[q] /\ UnitFits(z, w)
      BY DEF UnitsInv
    <3>2. UnitFits(z, w)'
      BY <1>2, <1>3, <3>1, UnitStaysFit
    <3>. QED BY <1>4, <2>2, <3>1, <3>2
  <2>. QED BY <2>1, <2>2
<1>6. \A y \in recorded' : y \in N!Records /\ N!Table'[y.unit] # N!NoUnit' /\ Asked(y)'
  BY <1>1, <1>2, <1>3, AskedStays DEF UnitsInv, N!NoUnit
<1>7. N!LookupsAreCurrent'
  BY <1>2 DEF UnitsInv, N!LookupsAreCurrent
<1>. QED BY <1>2, <1>3, <1>4, <1>5, <1>6, <1>7 DEF UnitsInv, N!NoUnit

\* A process that starts anew has the table as it is, or no reading.
LEMMA ProcessRestarts ==
  ASSUME UnitsInv, NEW p \in Processes, N!Restart(p)
  PROVE  UnitsInv'
<1>. USE UnitConstantsStay
<1>1. PICK v \in {0, N!Now} : lookup' = [lookup EXCEPT ![p] = v]
  BY DEF N!Restart
<1>2. UNCHANGED <<tables, recorded, known, unitsMixed>>
  BY DEF N!Restart
<1>3. /\ tables' \in Seq(UnitTables) /\ N!Now' = N!Now /\ N!Table' = N!Table
      /\ \A w \in 1..N!Now : tables'[w] = tables[w]
      /\ N!Now' \in N!Readings /\ N!Now' \in Nat
  BY <1>2, MCServicesAssumption
  DEF UnitsInv, N!Now, N!Table, N!Readings, MCServicesAssumption, N!PriceUnitsAssumption
<1>4. /\ pc' \in [Requests -> DOMAIN N!Jobs] /\ job' = [q \in Requests |-> job'[q]]
      /\ \A q \in Requests : \/ pc'[q] = "idle" /\ job'[q] = N!NoJob
                             \/ pc'[q] = pc[q] /\ job'[q] = job[q]
  BY UnitJobsAre DEF N!Restart, UnitsInv
<1>5. \A q \in Requests : UnitFits(pc[q], job[q])'
  <2>. SUFFICES ASSUME NEW q \in Requests PROVE UnitFits(pc[q], job[q])'
    OBVIOUS
  <2>1. CASE pc'[q] = "idle" /\ job'[q] = N!NoJob
    <3>1. PICK z, w : z = "idle" /\ w = N!NoJob
      OBVIOUS
    <3>2. UnitFits(z, w)'
      BY <3>1, UnitJobsAre DEF UnitFits
    <3>. QED BY <2>1, <3>1, <3>2
  <2>2. CASE pc'[q] = pc[q] /\ job'[q] = job[q]
    <3>1. PICK z, w : z \in DOMAIN N!Jobs /\ z = pc[q] /\ w = job[q] /\ UnitFits(z, w)
      BY DEF UnitsInv
    <3>2. UnitFits(z, w)'
      BY <1>2, <1>3, <3>1, UnitStaysFit
    <3>. QED BY <2>2, <3>1, <3>2
  <2>. QED BY <1>4, <2>1, <2>2
<1>6. \A x \in recorded' : N!Table'[x.unit] # N!NoUnit' /\ Asked(x)'
  BY <1>2, <1>3, AskedStays DEF UnitsInv, N!NoUnit
<1>7. lookup' \in [Processes -> 0..N!Now'] /\ N!LookupsAreCurrent'
  BY <1>1, <1>2, <1>3 DEF UnitsInv, N!LookupsAreCurrent
<1>. QED BY <1>2, <1>3, <1>4, <1>5, <1>6, <1>7 DEF UnitsInv, N!NoUnit

LEMMA UnitsInvStays == UnitsInv /\ N!Next => UnitsInv'
<1>. USE UnitConstantsStay, UnitJobsAre
<1>. SUFFICES ASSUME UnitsInv, N!Next PROVE UnitsInv'
  OBVIOUS
<1>1. /\ N!Now \in Nat /\ MaxWrites \in Nat /\ NoCode \notin Codes
      /\ \A q \in Requests : UnitFits(pc[q], job[q])
      /\ N!Table = tables[N!Now] /\ tables[N!Now] \in UnitTables
      /\ \A v \in 1..N!Now : tables[v] \in UnitTables
  BY MCServicesAssumption
  DEF UnitsInv, N!Readings, N!Now, N!Table, MCServicesAssumption, N!PriceUnitsAssumption
<1>2. /\ N!NoUnit.code = NoCode /\ \A row \in N!UnitRows : row.code \in Codes
      /\ \A row \in N!UnitRows : row # N!NoUnit
  BY <1>1 DEF N!NoUnit, N!UnitRows
<1>3. ASSUME NEW r \in Requests, NEW p \in Processes, NEW u \in Units, N!Remove(r, p, u)
      PROVE  UnitsInv'
  <2>. DEFINE t == [N!Table EXCEPT ![u] = N!NoUnit]
  <2>1. t \in UnitTables /\ \A w \in Units \ {u} : t[w] = N!Table[w]
    BY <1>1 DEF UnitTables
  <2>2. tables' = Append(tables, t) /\ ~N!Used(u) /\ N!Now <= MaxWrites
    BY <1>3 DEF N!Remove
  <2>3. \A x \in recorded : x.unit \in Units \ {u}
    BY <2>2 DEF N!Used, UnitsInv, N!Records
  <2>4. \A x \in recorded : t[x.unit] # N!NoUnit
    BY <2>1, <2>3 DEF UnitsInv
  <2>. HIDE DEF t
  <2>. QED BY <1>3, <2>1, <2>2, <2>4, TableIsChanged DEF N!Remove
<1>4. ASSUME NEW r \in Requests, NEW p \in Processes, NEW u \in Units, NEW row \in N!UnitRows,
             N!Put(r, p, u, row)
      PROVE  UnitsInv'
  <2>. DEFINE t == [N!Table EXCEPT ![u] = row]
  <2>1. t \in UnitTables /\ \A w \in Units : t[w] = IF w = u THEN row ELSE N!Table[w]
    BY <1>1 DEF UnitTables
  <2>2. tables' = Append(tables, t) /\ N!Now <= MaxWrites
    BY <1>4 DEF N!Put
  <2>3. \A x \in recorded : t[x.unit] # N!NoUnit
    BY <1>2, <2>1 DEF UnitsInv, N!Records
  <2>. HIDE DEF t
  <2>. QED BY <1>4, <2>1, <2>2, <2>3, TableIsChanged DEF N!Put
<1>5. ASSUME NEW r \in Requests, NEW p \in Processes, N!GetLookup(r, p)
      PROVE  UnitsInv'
  <2>1. PICK s, j : s \in DOMAIN N!Jobs /\ s = "read" /\ j = [process |-> p, change |-> 0]
                    /\ N!Goto(r, s, j)
    BY <1>5 DEF N!GetLookup
  <2>2. UnitFits(s, j)
    BY <1>1, <2>1 DEF UnitFits
  <2>. QED BY <1>5, <2>1, <2>2, UnitsRequestStands DEF N!GetLookup
<1>6. ASSUME NEW r \in Requests, NEW p \in Processes, NEW code \in Codes,
             N!RequireByCode(r, p, code)
      PROVE  UnitsInv'
  <2>1. PICK u \in Units :
          /\ tables[lookup[p]][u] = [code |-> code, active |-> TRUE]
          /\ N!Goto(r, "write", [process |-> p,
               row |-> [unit |-> u, code |-> code,
                        since |-> IF p \in unitsMixed THEN 1 ELSE known[p]]])
    BY <1>6 DEF N!RequireByCode
  <2>2. PICK x : x = [unit |-> u, code |-> code,
                      since |-> IF p \in unitsMixed THEN 1 ELSE known[p]]
    OBVIOUS
  <2>3. /\ lookup[p] \in 1..N!Now /\ known[p] \in 1..N!Now
        /\ p \notin unitsMixed => known[p] <= lookup[p]
    BY <1>1, <1>6 DEF N!RequireByCode, UnitsInv, N!LookupsAreCurrent
  <2>4. /\ x \in N!Records /\ x.unit = u /\ x.code = code
        /\ x.since \in 1..lookup[p]
    BY <1>1, <2>2, <2>3 DEF UnitsInv, N!Records, N!Readings
  <2>5. Asked(x)
    BY <1>1, <2>1, <2>3, <2>4 DEF Asked
  <2>6. PICK s, j : s \in DOMAIN N!Jobs /\ s = "write" /\ j = [process |-> p, row |-> x]
                    /\ N!Goto(r, s, j)
    BY <2>1, <2>2
  <2>7. UnitFits(s, j)
    BY <2>4, <2>5, <2>6 DEF UnitFits
  <2>. QED BY <1>6, <2>6, <2>7, UnitsRequestStands DEF N!RequireByCode
<1>7. ASSUME NEW r \in Requests, N!Refresh(r)
      PROVE  UnitsInv'
  <2>1. PICK k : k = job[r] /\ k \in [process: Processes, change: {0} \cup N!Readings]
                 /\ k.change <= N!Now
    BY <1>1, <1>7 DEF N!Refresh, UnitFits
  <2>2. PICK s, j : /\ s \in DOMAIN N!Jobs /\ s = "keep" /\ N!Goto(r, s, j)
                    /\ j = [process |-> k.process, change |-> k.change, reading |-> N!Now]
    BY <1>7, <2>1 DEF N!Refresh
  <2>3. known[k.process] <= N!Now
    BY <1>1, <2>1 DEF UnitsInv
  <2>4. UnitFits(s, j)
    BY <1>1, <2>1, <2>2, <2>3 DEF UnitFits, UnitsInv
  <2>. QED BY <1>7, <2>2, <2>4, UnitsRequestStands DEF N!Refresh
<1>8. ASSUME NEW r \in Requests, N!RequestFails(r)
      PROVE  UnitsInv'
  <2>1. PICK s, j : s \in DOMAIN N!Jobs /\ s = "idle" /\ j = N!NoJob /\ N!Goto(r, s, j)
    BY <1>8 DEF N!RequestFails, N!Return
  <2>2. UnitFits(s, j)
    BY <2>1 DEF UnitFits
  <2>. QED BY <1>8, <2>1, <2>2, UnitsRequestStands DEF N!RequestFails
<1>9. ASSUME NEW r \in Requests, N!Refreshed(r)
      PROVE  UnitsInv'
  BY <1>9, ReadingIsKept
<1>10. ASSUME NEW r \in Requests, N!Record(r)
       PROVE  UnitsInv'
  BY <1>10, UnitIsRecorded
<1>11. ASSUME NEW p \in Processes, N!Restart(p)
       PROVE  UnitsInv'
  BY <1>11, ProcessRestarts
<1>. QED BY <1>3, <1>4, <1>5, <1>6, <1>7, <1>8, <1>9, <1>10, <1>11 DEF N!Next

LEMMA UnitsInvInit == N!Init => UnitsInv
<1>. SUFFICES ASSUME N!Init PROVE UnitsInv
  OBVIOUS
<1>. DEFINE t == [u \in Units |-> IF Seeded[u] = NoCode THEN N!NoUnit
                                  ELSE [code |-> Seeded[u], active |-> TRUE]]
<1>1. Seeded \in [Units -> Codes \cup {NoCode}] /\ MaxWrites \in Nat
  BY MCServicesAssumption DEF MCServicesAssumption, N!PriceUnitsAssumption
<1>2. t \in UnitTables
  BY <1>1 DEF UnitTables, N!UnitRows
<1>3. tables = <<t>>
  BY DEF N!Init
<1>. HIDE DEF t
<1>4. tables \in Seq(UnitTables) /\ N!Now = 1 /\ N!Now \in N!Readings
  BY <1>1, <1>2, <1>3 DEF N!Now, N!Readings
<1>5. \A r \in Requests : UnitFits(pc[r], job[r])
  BY UnitJobsAre DEF N!Init, UnitFits
<1>. QED BY <1>4, <1>5, UnitJobsAre DEF N!Init, UnitsInv, N!LookupsAreCurrent

LEMMA UnitsInvKept == UnitsInv /\ [N!Next]_(N!vars) => UnitsInv'
<1>1. ASSUME UnitsInv, UNCHANGED N!vars
      PROVE  UnitsInv'
  BY <1>1, UnitsStand DEF N!vars
<1>. QED BY <1>1, UnitsInvStays

\* A process resolves units by a reading that has seen every change it has
\* answered for, unless two of its refreshes overlapped; and what was recorded
\* refers to a unit there is, active under its code at some time since.
THEOREM UnitsStayCurrent == N!Spec => []UnitsAreCurrent
<1>1. UnitsInv => UnitsAreCurrent
  BY DEF UnitsInv, UnitsAreCurrent, N!UnitsAreCurrent, N!RecordedAsAsked, Asked
<1>. QED BY UnitsInvInit, UnitsInvKept, <1>1, PTL DEF N!Spec

-----------------------------------------------------------------------------
(* OrderStatus: what the customers are told.  A change has a task until it *)
(* is told, and no two tasks are of one change.  For an order that no two  *)
(* requests were on at once there is one task at most, so its changes are  *)
(* told in their order, and what was read of it is still its status.       *)

ChangeRows == [order: Orders, old: O!Statuses, new: O!Statuses]

Delivered(o) == \E c \in 1..Len(changes) : changes[c].order = o /\ changes[c].new = "delivered"

OfStatus(n) == orderNotes[n].event = "status"

\* a notification of a status tells of a change as it was
NoteFits(n) ==
  OfStatus(n) =>
    /\ orderNotes[n].change \in 1..Len(changes)
    /\ orderNotes[n].order = changes[orderNotes[n].change].order
    /\ orderNotes[n].new = changes[orderNotes[n].change].new
    /\ orderNotes[n].old # orderNotes[n].new
    /\ orderNotes[n].order \notin mixed =>
         orderNotes[n].old = changes[orderNotes[n].change].old

\* a notification is not of the change c of order o, and of none after it
NoteBefore(n, o, c) ==
  OfStatus(n) =>
    /\ orderNotes[n].change # c
    /\ orderNotes[n].order = o /\ o \notin mixed => orderNotes[n].change < c

\* a task is of a change to the status s, and a notification is still to come
TaskFits(t, s) ==
  /\ t.change \in 1..Len(changes)
  /\ changes[t.change].order = t.order /\ changes[t.change].new = s /\ t.old # s
  /\ t.order \notin mixed => t.old = changes[t.change].old
  /\ t.step = "note" => \A n \in 1..Len(orderNotes) : NoteBefore(n, t.order, t.change)

\* what a request knows, where it stands
StatusFits(s, j) ==
  /\ j \in O!Jobs[s]
  /\ s = "write" => \A o \in Orders : j.read[o] # O!None =>
       j.read[o] # j.status /\ (o \notin mixed => j.read[o] = status[o])
  /\ s = "tell" => \A t \in j.tasks : TaskFits(t, j.status)
  /\ s = "feedback" => Delivered(j.order)

\* the tasks of requests are of different changes, and of one order only if mixed
Apart(r, t, q, u) ==
  t.change = u.change \/ (t.order = u.order /\ t.order \notin mixed) => r = q /\ t = u
TasksApart ==
  \A r, q \in Requests : \A t \in O!TasksOf(r), u \in O!TasksOf(q) : Apart(r, t, q, u)

StatusTables ==
  /\ status \in [Orders -> O!Statuses] /\ feedback \subseteq Orders
  /\ orderNotes \in Seq(O!Notes) /\ changes \in Seq(ChangeRows) /\ Len(changes) <= MaxChanges
  /\ mails \subseteq 1..Len(changes) /\ untold \subseteq 1..Len(changes)
  /\ mixed \subseteq Orders

Deliveries ==
  /\ \A o \in Orders : status[o] = "delivered" => Delivered(o)
  /\ \A o \in feedback : Delivered(o)

NotesFit ==
  /\ \A n \in 1..Len(orderNotes) : NoteFits(n)
  /\ \A n \in 1..Len(orderNotes) : OfStatus(n) =>
       \A m \in 1..(n - 1) : NoteBefore(m, orderNotes[n].order, orderNotes[n].change)

IsNoted(c) == \E n \in 1..Len(orderNotes) : OfStatus(n) /\ orderNotes[n].change = c
Telling(c) ==
  \/ c \in untold
  \/ c \in mails /\ IsNoted(c)
  \/ \E r \in Requests : \E t \in O!TasksOf(r) :
       t.change = c /\ (t.step = "note" \/ IsNoted(c))

StatusInv ==
  /\ StatusTables /\ Deliveries /\ NotesFit /\ TasksApart
  /\ pc \in [Requests -> DOMAIN O!Jobs] /\ job = [r \in Requests |-> job[r]]
  /\ \A r \in Requests : StatusFits(pc[r], job[r])
  /\ \A c \in 1..Len(changes) : Telling(c)

LEMMA StatusJobsAre ==
  /\ DOMAIN O!Jobs = {"idle", "write", "tell", "feedback"}
  /\ O!Jobs["idle"] = {O!NoJob}
  /\ \A j : j \in O!Jobs["write"] <=>
       j \in [status: O!Statuses, read: [Orders -> O!Statuses \cup {O!None}]]
  /\ \A j : j \in O!Jobs["tell"] <=> j \in [status: O!Statuses, tasks: SUBSET O!Tasks]
  /\ \A j : j \in O!Jobs["feedback"] <=> j \in [order: Orders]
BY DEF O!Jobs

LEMMA StatusConstantsStay ==
  /\ O!Jobs' = O!Jobs /\ O!Notes' = O!Notes /\ O!Statuses' = O!Statuses /\ O!Tasks' = O!Tasks
  /\ ChangeRows' = ChangeRows /\ O!None' = O!None /\ O!NoJob' = O!NoJob
BY Zenon DEF O!Jobs, O!Notes, O!Statuses, O!Tasks, ChangeRows, O!None, O!NoJob, O!Changes

LEMMA StatusNumbers ==
  ASSUME StatusTables
  PROVE  /\ Len(changes) \in Nat /\ Len(orderNotes) \in Nat /\ MaxChanges \in Nat
         /\ Len(changes) \in 0..MaxChanges
         /\ \A c \in 1..Len(changes) : changes[c] \in ChangeRows
         /\ \A n \in 1..Len(orderNotes) : orderNotes[n] \in O!Notes
BY MCServicesAssumption DEF StatusTables, MCServicesAssumption, O!OrderStatusAssumption

\* Whatever a step does, changes and notifications stay, and mixed orders too.
StatusGrows ==
  /\ StatusTables'
  /\ Len(changes') >= Len(changes) /\ \A c \in 1..Len(changes) : changes'[c] = changes[c]
  /\ Len(orderNotes') >= Len(orderNotes)
  /\ \A n \in 1..Len(orderNotes) : orderNotes'[n] = orderNotes[n]
  /\ mixed \subseteq mixed' /\ untold \subseteq untold' /\ mails \subseteq mails'

LEMMA GrownNumbers ==
  ASSUME StatusInv, StatusGrows
  PROVE  /\ Len(changes) \in Nat /\ Len(changes') \in Nat
         /\ Len(orderNotes) \in Nat /\ Len(orderNotes') \in Nat
         /\ \A c \in 1..Len(changes) : changes[c] \in ChangeRows /\ c \in 1..Len(changes')
         /\ \A n \in 1..Len(orderNotes) : orderNotes[n] \in O!Notes /\ n \in 1..Len(orderNotes')
         /\ \A c \in 1..Len(changes') : c \in Nat
BY StatusNumbers DEF StatusInv, StatusGrows, StatusTables

LEMMA DeliveredStays ==
  ASSUME StatusInv, StatusGrows, NEW o, Delivered(o)
  PROVE  Delivered(o)'
BY GrownNumbers DEF StatusGrows, Delivered

LEMMA NoteStaysBefore ==
  ASSUME StatusInv, StatusGrows, NEW n \in 1..Len(orderNotes), NEW o, NEW c, NoteBefore(n, o, c)
  PROVE  NoteBefore(n, o, c)'
BY GrownNumbers DEF StatusGrows, NoteBefore, OfStatus

LEMMA NoteStaysFit ==
  ASSUME StatusInv, StatusGrows, NEW n \in 1..Len(orderNotes)
  PROVE  NoteFits(n)'
<1>1. NoteFits(n) /\ (OfStatus(n)' <=> OfStatus(n)) /\ orderNotes'[n] = orderNotes[n]
  BY DEF StatusInv, NotesFit, StatusGrows, OfStatus
<1>2. SUFFICES ASSUME OfStatus(n)' PROVE NoteFits(n)'
  BY DEF NoteFits
<1>3. PICK c \in 1..Len(changes) : c = orderNotes[n].change /\ changes'[c] = changes[c]
                                   /\ c \in 1..Len(changes')
  BY <1>1, <1>2, GrownNumbers DEF NoteFits, StatusGrows
<1>. QED BY <1>1, <1>2, <1>3 DEF NoteFits, StatusGrows

\* The notifications fit, and those that came did: they tell of no change that
\* was told, and of none of an order before what was told of it.
LEMMA NotesStayFit ==
  ASSUME StatusInv, StatusGrows,
         \A n \in 1..Len(orderNotes') : n > Len(orderNotes) =>
           /\ n = Len(orderNotes') /\ NoteFits(n)'
           /\ OfStatus(n)' => \A m \in 1..Len(orderNotes) :
                NoteBefore(m, orderNotes'[n].order, orderNotes'[n].change),
         Len(orderNotes') <= Len(orderNotes) + 1
  PROVE  NotesFit'
<1>1. ASSUME NEW n \in 1..Len(orderNotes')
      PROVE  NoteFits(n)'
  BY <1>1, GrownNumbers, NoteStaysFit
<1>2. ASSUME NEW n \in 1..Len(orderNotes'), OfStatus(n)', NEW m \in 1..(n - 1)
      PROVE  NoteBefore(m, orderNotes[n].order, orderNotes[n].change)'
  <2>1. PICK o, c : o = orderNotes'[n].order /\ c = orderNotes'[n].change
    OBVIOUS
  <2>2. m \in 1..Len(orderNotes)
    BY <1>2, GrownNumbers
  <2>3. NoteBefore(m, o, c)
    <3>1. CASE n > Len(orderNotes)
      BY <1>2, <2>1, <2>2, <3>1
    <3>2. CASE ~(n > Len(orderNotes))
      <4>1. n \in 1..Len(orderNotes) /\ orderNotes'[n] = orderNotes[n]
        BY <3>2, GrownNumbers DEF StatusGrows
      <4>. QED BY <1>2, <2>1, <4>1 DEF StatusInv, NotesFit, OfStatus
    <3>. QED BY <3>1, <3>2
  <2>4. NoteBefore(m, o, c)'
    BY <2>2, <2>3, NoteStaysBefore
  <2>. QED BY <2>1, <2>4
<1>. QED BY <1>1, <1>2 DEF NotesFit

LEMMA TaskStaysFit ==
  ASSUME StatusInv, StatusGrows, NEW t, NEW s, TaskFits(t, s),
         t.step = "note" => \A n \in 1..Len(orderNotes') : n > Len(orderNotes) =>
           NoteBefore(n, t.order, t.change)'
  PROVE  TaskFits(t, s)'
<1>1. PICK c \in 1..Len(changes) : c = t.change /\ changes'[c] = changes[c]
                                   /\ c \in 1..Len(changes')
  BY GrownNumbers DEF TaskFits, StatusGrows
<1>2. t.step = "note" => \A n \in 1..Len(orderNotes') : NoteBefore(n, t.order, t.change)'
  BY GrownNumbers, NoteStaysBefore DEF TaskFits
<1>. QED BY <1>1, <1>2 DEF TaskFits, StatusGrows

\* What a request knows stays true, when what it read is not written unless the
\* order is then mixed, and its tasks are not told of by others.
LEMMA StatusStaysFit ==
  ASSUME StatusInv, StatusGrows, NEW s \in DOMAIN O!Jobs, NEW j, StatusFits(s, j),
         s = "write" => \A o \in Orders : j.read[o] # O!None =>
           o \in mixed' \/ status'[o] = status[o],
         s = "tell" => \A t \in j.tasks : t.step = "note" =>
           \A n \in 1..Len(orderNotes') : n > Len(orderNotes) =>
             NoteBefore(n, t.order, t.change)'
  PROVE  StatusFits(s, j)'
<1>. USE StatusConstantsStay
<1>1. j \in O!Jobs'[s]
  BY DEF StatusFits
<1>2. s = "write" => \A o \in Orders : j.read[o] # O!None =>
        j.read[o] # j.status /\ (o \notin mixed' => j.read[o] = status'[o])
  BY DEF StatusFits, StatusGrows
<1>3. s = "tell" => \A t \in j.tasks : TaskFits(t, j.status)'
  BY TaskStaysFit DEF StatusFits
<1>4. s = "feedback" => Delivered(j.order)'
  BY DeliveredStays DEF StatusFits
<1>. QED BY <1>1, <1>2, <1>3, <1>4 DEF StatusFits

\* Whoever has a task of a change has been telling of it.
LEMMA TellingStays ==
  ASSUME StatusInv, StatusGrows, NEW c \in 1..Len(changes),
         \A r \in Requests : \A t \in O!TasksOf(r) : t.change = c => t \in O!TasksOf(r)'
  PROVE  Telling(c)'
<1>1. IsNoted(c) => IsNoted(c)'
  BY GrownNumbers DEF StatusGrows, IsNoted, OfStatus
<1>2. Telling(c)
  BY DEF StatusInv
<1>. QED BY <1>1, <1>2 DEF Telling, StatusGrows

\* A request goes on, and the others stand where they did.
LEMMA StatusRequestMoves ==
  ASSUME StatusInv, NEW r \in Requests, NEW s \in DOMAIN O!Jobs, NEW j, O!Goto(r, s, j)
  PROVE  /\ pc' \in [Requests -> DOMAIN O!Jobs] /\ pc'[r] = s /\ job'[r] = j
         /\ job' = [q \in Requests |-> job'[q]]
         /\ \A q \in Requests \ {r} : pc'[q] = pc[q] /\ job'[q] = job[q]
         /\ \A q \in Requests \ {r} : O!TasksOf(q)' = O!TasksOf(q)
         /\ O!TasksOf(r)' = IF s = "tell" THEN j.tasks ELSE {}
<1>1. /\ pc' \in [Requests -> DOMAIN O!Jobs] /\ pc'[r] = s /\ job'[r] = j
      /\ job' = [q \in Requests |-> job'[q]]
      /\ \A q \in Requests \ {r} : pc'[q] = pc[q] /\ job'[q] = job[q]
  BY DEF StatusInv, O!Goto
<1>. QED BY <1>1 DEF O!TasksOf

LEMMA TasksAre ==
  ASSUME StatusInv, NEW r \in Requests, NEW t \in O!TasksOf(r)
  PROVE  /\ pc[r] = "tell" /\ job[r] \in [status: O!Statuses, tasks: SUBSET O!Tasks]
         /\ t \in job[r].tasks /\ t \in O!Tasks /\ TaskFits(t, job[r].status)
<1>1. pc[r] = "tell" /\ t \in job[r].tasks
  BY DEF O!TasksOf
<1>2. PICK s, j : s = pc[r] /\ j = job[r] /\ StatusFits(s, j)
  BY DEF StatusInv
<1>. QED BY <1>1, <1>2, StatusJobsAre DEF StatusFits

\* A request that has no tasks goes on, and feedback may be given.
LEMMA StatusRequestWorks ==
  ASSUME StatusInv, NEW r \in Requests, NEW s \in DOMAIN O!Jobs, NEW j,
         pc[r] # "tell", s # "tell", StatusFits(s, j), O!Goto(r, s, j),
         feedback' \subseteq Orders, \A o \in feedback' : Delivered(o),
         UNCHANGED <<status, orderNotes, mails, changes, untold, mixed>>
  PROVE  StatusInv'
<1>. USE StatusConstantsStay
<1>1. StatusGrows
  BY StatusNumbers DEF StatusInv, StatusTables, StatusGrows
<1>2. /\ pc' \in [Requests -> DOMAIN O!Jobs] /\ pc'[r] = s /\ job'[r] = j
      /\ job' = [q \in Requests |-> job'[q]]
      /\ \A q \in Requests \ {r} : pc'[q] = pc[q] /\ job'[q] = job[q]
      /\ \A q \in Requests \ {r} : O!TasksOf(q)' = O!TasksOf(q)
      /\ O!TasksOf(r)' = {}
  BY StatusRequestMoves
<1>3. \A q \in Requests : O!TasksOf(q)' = O!TasksOf(q)
  BY <1>2 DEF O!TasksOf
<1>4. Deliveries'
  BY <1>1, DeliveredStays DEF StatusInv, Deliveries
<1>5. NotesFit'
  BY <1>1, StatusNumbers, NotesStayFit DEF StatusInv
<1>6. TasksApart'
  BY <1>3 DEF StatusInv, TasksApart, Apart
<1>7. ASSUME NEW q \in Requests
      PROVE  StatusFits(pc[q], job[q])'
  <2>1. PICK z, k : z \in DOMAIN O!Jobs /\ z = pc'[q] /\ k = job'[q] /\ StatusFits(z, k)
    BY <1>2 DEF StatusInv
  <2>2. StatusFits(z, k)'
    BY <1>1, <2>1, StatusStaysFit, StatusNumbers DEF StatusInv
  <2>. QED BY <2>1, <2>2
<1>8. \A c \in 1..Len(changes') : Telling(c)'
  BY <1>1, <1>3, TellingStays
<1>. QED BY <1>1, <1>2, <1>4, <1>5, <1>6, <1>7, <1>8 DEF StatusInv, StatusGrows

\* A request ends, whatever it has told; what it has not is on record.
LEMMA StatusRequestFails ==
  ASSUME StatusInv, NEW r \in Requests, O!RequestFails(r)
  PROVE  StatusInv'
<1>. USE StatusConstantsStay
<1>1. PICK s, j : s \in DOMAIN O!Jobs /\ s = "idle" /\ j = O!NoJob /\ O!Goto(r, s, j)
  BY StatusJobsAre DEF O!RequestFails, O!Return
<1>2. /\ untold' = untold \cup {t.change : t \in O!TasksOf(r)}
      /\ UNCHANGED <<status, feedback, orderNotes, mails, changes, mixed>>
  BY DEF O!RequestFails
<1>3. \A t \in O!TasksOf(r) : t.change \in 1..Len(changes)
  BY TasksAre DEF TaskFits
<1>4. StatusGrows
  BY <1>2, <1>3, StatusNumbers DEF StatusInv, StatusTables, StatusGrows
<1>5. /\ pc' \in [Requests -> DOMAIN O!Jobs] /\ pc'[r] = s /\ job'[r] = j
      /\ job' = [q \in Requests |-> job'[q]]
      /\ \A q \in Requests \ {r} : pc'[q] = pc[q] /\ job'[q] = job[q]
      /\ \A q \in Requests \ {r} : O!TasksOf(q)' = O!TasksOf(q)
      /\ O!TasksOf(r)' = {}
  BY <1>1, StatusRequestMoves
<1>6. Deliveries'
  BY <1>2, <1>4, DeliveredStays DEF StatusInv, Deliveries
<1>7. NotesFit'
  BY <1>2, <1>4, StatusNumbers, NotesStayFit DEF StatusInv
<1>8. TasksApart'
  BY <1>2, <1>5 DEF StatusInv, TasksApart, Apart
<1>9. ASSUME NEW q \in Requests
      PROVE  StatusFits(pc[q], job[q])'
  <2>1. PICK z, k : z \in DOMAIN O!Jobs /\ z = pc'[q] /\ k = job'[q] /\ StatusFits(z, k)
    BY <1>1, <1>5, StatusJobsAre DEF StatusInv, StatusFits
  <2>2. StatusFits(z, k)'
    BY <1>2, <1>4, <2>1, StatusStaysFit, StatusNumbers DEF StatusInv
  <2>. QED BY <2>1, <2>2
<1>10. ASSUME NEW c \in 1..Len(changes')
       PROVE  Telling(c)'
  <2>1. CASE \E t \in O!TasksOf(r) : t.change = c
    BY <1>2, <2>1 DEF Telling
  <2>2. CASE ~\E t \in O!TasksOf(r) : t.change = c
    BY <1>2, <1>4, <1>5, <2>2, TellingStays
  <2>. QED BY <2>1, <2>2
<1>. QED BY <1>4, <1>5, <1>6, <1>7, <1>8, <1>9, <1>10 DEF StatusInv, StatusGrows

\* A notification of something else.
LEMMA OtherNotice ==
  ASSUME StatusInv, NEW o \in Orders, O!CreateNotification(o)
  PROVE  StatusInv'
<1>. USE StatusConstantsStay
<1>1. PICK note : note = [order |-> o, event |-> "notice"]
  OBVIOUS
<1>2. /\ orderNotes' = Append(orderNotes, note) /\ note \in O!Notes /\ note.event # "status"
      /\ UNCHANGED <<status, feedback, mails, changes, untold, mixed, pc, job>>
  BY <1>1 DEF O!CreateNotification, O!Notes
<1>3. /\ orderNotes' \in Seq(O!Notes) /\ Len(orderNotes') = Len(orderNotes) + 1
      /\ \A n \in 1..Len(orderNotes) : orderNotes'[n] = orderNotes[n]
      /\ orderNotes'[Len(orderNotes')] = note
  BY <1>2 DEF StatusInv, StatusTables
<1>4. StatusGrows
  BY <1>2, <1>3, StatusNumbers DEF StatusInv, StatusTables, StatusGrows
<1>5. \A n \in 1..Len(orderNotes') : n > Len(orderNotes) => n = Len(orderNotes') /\ ~OfStatus(n)'
  BY <1>2, <1>3, <1>4, GrownNumbers DEF OfStatus
<1>6. Deliveries'
  BY <1>2, <1>4, DeliveredStays DEF StatusInv, Deliveries
<1>7. NotesFit'
  <2>1. \A n \in 1..Len(orderNotes') : n > Len(orderNotes) =>
          n = Len(orderNotes') /\ ~OfStatus(n)' /\ NoteFits(n)'
    BY <1>5 DEF NoteFits
  <2>. QED BY <1>3, <1>4, <2>1, GrownNumbers, NotesStayFit
<1>8. TasksApart' /\ \A q \in Requests : O!TasksOf(q)' = O!TasksOf(q)
  BY <1>2 DEF StatusInv, TasksApart, Apart, O!TasksOf
<1>9. ASSUME NEW q \in Requests
      PROVE  StatusFits(pc[q], job[q])'
  <2>1. PICK z, k : z \in DOMAIN O!Jobs /\ z = pc'[q] /\ k = job'[q] /\ StatusFits(z, k)
    BY <1>2 DEF StatusInv
  <2>2. \A n \in 1..Len(orderNotes') : n > Len(orderNotes) => \A y, c : NoteBefore(n, y, c)'
    BY <1>5 DEF NoteBefore
  <2>3. StatusFits(z, k)'
    BY <1>2, <1>4, <2>1, <2>2, StatusStaysFit DEF StatusInv
  <2>. QED BY <2>1, <2>3
<1>10. \A c \in 1..Len(changes') : Telling(c)'
  BY <1>2, <1>4, <1>8, TellingStays
<1>. QED BY <1>2, <1>4, <1>6, <1>7, <1>8, <1>9, <1>10 DEF StatusInv, StatusGrows

\* A request goes on with the tasks left, and ends with none left.
LEMMA TasksAreDone ==
  ASSUME StatusInv, NEW r \in Requests, NEW t \in O!TasksOf(r), NEW rest \in SUBSET O!Tasks,
         O!Done(r, t, rest)
  PROVE  \E s, j :
           /\ s \in DOMAIN O!Jobs /\ O!Goto(r, s, j) /\ j \in O!Jobs[s]
           /\ \/ /\ s = "tell" /\ j.status = job[r].status
                 /\ j.tasks = (job[r].tasks \ {t}) \cup rest
              \/ s = "idle" /\ (job[r].tasks \ {t}) \cup rest = {}
<1>1. PICK k : k = job[r] /\ k \in [status: O!Statuses, tasks: SUBSET O!Tasks]
  BY TasksAre
<1>2. PICK left \in SUBSET O!Tasks : left = (k.tasks \ {t}) \cup rest
  BY <1>1
<1>3. CASE left = {}
  BY <1>1, <1>2, <1>3, StatusJobsAre DEF O!Done, O!Return
<1>4. CASE left # {}
  <2>. DEFINE j == [k EXCEPT !.tasks = left]
  <2>1. O!Goto(r, "tell", j)
    BY <1>1, <1>2, <1>4 DEF O!Done
  <2>2. j \in [status: O!Statuses, tasks: SUBSET O!Tasks] /\ j.status = k.status /\ j.tasks = left
    BY <1>1
  <2>. HIDE DEF j
  <2>. QED BY <1>1, <1>2, <2>1, <2>2, StatusJobsAre
<1>. QED BY <1>3, <1>4

\* A task whose notification is done goes on with the e-mail.
LEMMA EmailFollows ==
  ASSUME NEW t \in O!Tasks
  PROVE  \E u \in O!Tasks : /\ u = [t EXCEPT !.step = "mail"] /\ u.change = t.change
                            /\ u.order = t.order /\ u.old = t.old /\ u.step = "mail"
<1>. DEFINE u == [t EXCEPT !.step = "mail"]
<1>1. /\ u \in O!Tasks /\ u.change = t.change
      /\ u.order = t.order /\ u.old = t.old /\ u.step = "mail"
  BY DEF O!Tasks
<1>. HIDE DEF u
<1>2. \E v \in O!Tasks : /\ v = u /\ v.change = t.change
                         /\ v.order = t.order /\ v.old = t.old /\ v.step = "mail"
  BY <1>1
<1>. QED BY <1>2 DEF u

\* The e-mail of a change is sent, or tried to: its notification was before.
LEMMA EmailIsSent ==
  ASSUME StatusInv, NEW r \in Requests, NEW t \in O!TasksOf(r), O!SendOrderStatusEmail(r, t)
  PROVE  StatusInv'
<1>. USE StatusConstantsStay
<1>1. /\ job[r] \in [status: O!Statuses, tasks: SUBSET O!Tasks] /\ pc[r] = "tell"
      /\ t \in job[r].tasks /\ TaskFits(t, job[r].status) /\ t.step = "mail"
      /\ O!TasksOf(r) = job[r].tasks
  BY TasksAre DEF O!SendOrderStatusEmail, O!TasksOf
<1>2. PICK left : left = job[r].tasks \ {t}
  OBVIOUS
<1>3. PICK s, j : /\ s \in DOMAIN O!Jobs /\ O!Goto(r, s, j) /\ j \in O!Jobs[s]
                  /\ \/ s = "tell" /\ j.status = job[r].status /\ j.tasks = left
                     \/ s = "idle" /\ left = {}
  BY <1>2, TasksAreDone DEF O!SendOrderStatusEmail
<1>4. /\ mails' = mails \cup {t.change}
      /\ UNCHANGED <<status, feedback, orderNotes, changes, untold, mixed>>
  BY DEF O!SendOrderStatusEmail
<1>5. StatusGrows
  BY <1>1, <1>4, StatusNumbers DEF StatusInv, StatusTables, StatusGrows, TaskFits
<1>6. /\ pc' \in [Requests -> DOMAIN O!Jobs] /\ pc'[r] = s /\ job'[r] = j
      /\ job' = [q \in Requests |-> job'[q]]
      /\ \A q \in Requests \ {r} : pc'[q] = pc[q] /\ job'[q] = job[q]
      /\ \A q \in Requests \ {r} : O!TasksOf(q)' = O!TasksOf(q)
      /\ O!TasksOf(r)' = IF s = "tell" THEN j.tasks ELSE {}
  BY <1>3, StatusRequestMoves
<1>. O!TasksOf(r)' = left
  BY <1>3, <1>6
<1>7. Deliveries'
  BY <1>4, <1>5, DeliveredStays DEF StatusInv, Deliveries
<1>8. NotesFit'
  BY <1>4, <1>5, StatusNumbers, NotesStayFit DEF StatusInv
<1>9. TasksApart'
  <2>1. \A q \in Requests : O!TasksOf(q)' \subseteq O!TasksOf(q)
    BY <1>1, <1>2, <1>6
  <2>. QED BY <1>4, <2>1 DEF StatusInv, TasksApart, Apart
<1>10. StatusFits(s, j)
  <2>1. \A u \in job[r].tasks : TaskFits(u, job[r].status)
    BY <1>1, TasksAre
  <2>. QED BY <1>2, <1>3, <2>1 DEF StatusFits
<1>11. ASSUME NEW q \in Requests
       PROVE  StatusFits(pc[q], job[q])'
  <2>1. PICK z, k : z \in DOMAIN O!Jobs /\ z = pc'[q] /\ k = job'[q] /\ StatusFits(z, k)
    BY <1>3, <1>6, <1>10 DEF StatusInv
  <2>2. StatusFits(z, k)'
    BY <1>4, <1>5, <2>1, StatusStaysFit, StatusNumbers DEF StatusInv
  <2>. QED BY <2>1, <2>2
<1>12. ASSUME NEW c \in 1..Len(changes')
       PROVE  Telling(c)'
  <2>1. CASE c = t.change
    <3>1. \A q \in Requests : \A u \in O!TasksOf(q) : u.change = c => u = t
      BY <2>1 DEF StatusInv, TasksApart, Apart
    <3>2. c \in untold \/ IsNoted(c)
      BY <1>1, <1>4, <3>1 DEF StatusInv, Telling
    <3>3. IsNoted(c)' <=> IsNoted(c)
      BY <1>4 DEF IsNoted, OfStatus
    <3>. QED BY <1>4, <2>1, <3>2, <3>3 DEF Telling
  <2>2. CASE c # t.change
    <3>1. \A q \in Requests : \A u \in O!TasksOf(q) : u.change = c => u \in O!TasksOf(q)'
      BY <1>1, <1>2, <1>6, <2>2
    <3>. QED BY <1>4, <1>5, <3>1, TellingStays
  <2>. QED BY <2>1, <2>2
<1>. QED BY <1>5, <1>6, <1>7, <1>8, <1>9, <1>11, <1>12 DEF StatusInv, StatusGrows

\* The notification of a change is created, or fails: only this task is of it.
LEMMA NotificationIsCreated ==
  ASSUME StatusInv, NEW r \in Requests, NEW t \in O!TasksOf(r),
         O!CreateOrderStatusNotification(r, t)
  PROVE  StatusInv'
<1>. USE StatusConstantsStay
<1>1. /\ job[r] \in [status: O!Statuses, tasks: SUBSET O!Tasks] /\ pc[r] = "tell"
      /\ t \in job[r].tasks /\ t \in O!Tasks /\ TaskFits(t, job[r].status) /\ t.step = "note"
      /\ O!TasksOf(r) = job[r].tasks
  BY TasksAre DEF O!CreateOrderStatusNotification, O!TasksOf
<1>2. PICK u \in O!Tasks : /\ u = [t EXCEPT !.step = "mail"] /\ u.change = t.change
                           /\ u.order = t.order /\ u.old = t.old /\ u.step = "mail"
  BY <1>1, EmailFollows
<1>3. PICK left : left = (job[r].tasks \ {t}) \cup {u}
  OBVIOUS
<1>4. PICK s, j : /\ s = "tell" /\ O!Goto(r, s, j) /\ j \in O!Jobs[s] /\ s \in DOMAIN O!Jobs
                  /\ j.status = job[r].status /\ j.tasks = left
  <2>1. O!Done(r, t, {u})
    BY <1>2 DEF O!CreateOrderStatusNotification
  <2>. QED BY <1>2, <1>3, <2>1, TasksAreDone
<1>5. PICK note : note = [order |-> t.order, event |-> "status", old |-> t.old,
                          new |-> job[r].status, change |-> t.change]
  OBVIOUS
<1>6. /\ \/ orderNotes' = Append(orderNotes, note) /\ untold' = untold
         \/ untold' = untold \cup {t.change} /\ orderNotes' = orderNotes
      /\ UNCHANGED <<status, feedback, mails, changes, mixed>>
  BY <1>5 DEF O!CreateOrderStatusNotification
<1>7. /\ note \in O!Notes /\ note.event = "status" /\ note.order = t.order
      /\ note.old = t.old /\ note.new = job[r].status /\ note.change = t.change
  BY <1>1, <1>5 DEF O!Tasks, O!Notes
<1>8. /\ orderNotes' \in Seq(O!Notes) /\ Len(orderNotes') >= Len(orderNotes)
      /\ Len(orderNotes') <= Len(orderNotes) + 1
      /\ \A n \in 1..Len(orderNotes) : orderNotes'[n] = orderNotes[n]
      /\ \A n \in 1..Len(orderNotes') : n > Len(orderNotes) =>
           n = Len(orderNotes') /\ orderNotes'[n] = note
      /\ \/ t.change \in untold'
         \/ /\ Len(orderNotes) + 1 \in 1..Len(orderNotes')
            /\ orderNotes'[Len(orderNotes) + 1] = note
  <2>1. CASE orderNotes' = Append(orderNotes, note)
    BY <1>7, <2>1 DEF StatusInv, StatusTables
  <2>2. CASE untold' = untold \cup {t.change} /\ orderNotes' = orderNotes
    BY <2>2 DEF StatusInv, StatusTables
  <2>. QED BY <1>6, <2>1, <2>2
<1>9. StatusGrows
  BY <1>1, <1>6, <1>8, StatusNumbers DEF StatusInv, StatusTables, StatusGrows, TaskFits
<1>10. /\ pc' \in [Requests -> DOMAIN O!Jobs] /\ pc'[r] = s /\ job'[r] = j
       /\ job' = [q \in Requests |-> job'[q]]
       /\ \A q \in Requests \ {r} : pc'[q] = pc[q] /\ job'[q] = job[q]
       /\ \A q \in Requests \ {r} : O!TasksOf(q)' = O!TasksOf(q)
       /\ O!TasksOf(r)' = left
  BY <1>4, StatusRequestMoves
<1>11. Deliveries'
  BY <1>6, <1>9, DeliveredStays DEF StatusInv, Deliveries
<1>12. NotesFit'
  <2>1. ASSUME NEW n \in 1..Len(orderNotes'), n > Len(orderNotes)
        PROVE  /\ n = Len(orderNotes') /\ NoteFits(n)'
               /\ \A m \in 1..Len(orderNotes) :
                    NoteBefore(m, orderNotes'[n].order, orderNotes'[n].change)
    BY <1>1, <1>6, <1>7, <1>8, <2>1 DEF NoteFits, TaskFits
  <2>. QED BY <1>8, <1>9, <2>1, NotesStayFit
<1>13. TasksApart'
  <2>1. ASSUME NEW q \in Requests, NEW w \in O!TasksOf(q)'
        PROVE  \E v \in O!TasksOf(q) : /\ v.change = w.change /\ v.order = w.order
                                       /\ (v # t /\ w = v) \/ (v = t /\ w = u)
    <3>1. CASE q = r
      BY <1>1, <1>2, <1>3, <1>10, <2>1, <3>1
    <3>2. CASE q # r
      <4>1. w \in O!TasksOf(q)
        BY <1>10, <2>1, <3>2
      <4>2. w # t
        BY <3>2, <4>1 DEF StatusInv, TasksApart, Apart
      <4>. QED BY <4>1, <4>2
    <3>. QED BY <3>1, <3>2
  <2>. QED BY <1>6, <2>1 DEF StatusInv, TasksApart, Apart
<1>14. ASSUME NEW q \in Requests, NEW w \in O!TasksOf(q), w # t,
              NEW n \in 1..Len(orderNotes'), n > Len(orderNotes)
       PROVE  NoteBefore(n, w.order, w.change)'
  <2>1. Apart(q, w, r, t)
    BY DEF StatusInv, TasksApart
  <2>. QED BY <1>6, <1>7, <1>8, <1>14, <2>1 DEF NoteBefore, Apart
<1>15. ASSUME NEW q \in Requests
       PROVE  StatusFits(pc[q], job[q])'
  <2>1. CASE q = r
    <3>1. \A w \in job[r].tasks : TaskFits(w, job[r].status)
      BY <1>1, TasksAre
    <3>2. StatusFits(s, j)
      BY <1>1, <1>2, <1>3, <1>4, <3>1 DEF StatusFits, TaskFits
    <3>3. \A w \in j.tasks : w.step = "note" => w \in O!TasksOf(r) /\ w # t
      BY <1>1, <1>2, <1>3, <1>4
    <3>4. StatusFits(s, j)'
      BY <1>4, <1>9, <1>14, <3>2, <3>3, StatusStaysFit
    <3>. QED BY <1>10, <2>1, <3>4
  <2>2. CASE q # r
    <3>1. PICK z, k : z \in DOMAIN O!Jobs /\ z = pc[q] /\ k = job[q] /\ StatusFits(z, k)
      BY DEF StatusInv
    <3>2. z = "tell" => \A w \in k.tasks : w \in O!TasksOf(q) /\ w # t
      BY <2>2, <3>1 DEF O!TasksOf, StatusInv, TasksApart, Apart
    <3>3. StatusFits(z, k)'
      BY <1>6, <1>9, <1>14, <3>1, <3>2, StatusStaysFit
    <3>. QED BY <1>10, <2>2, <3>1, <3>3
  <2>. QED BY <2>1, <2>2
<1>16. ASSUME NEW c \in 1..Len(changes')
       PROVE  Telling(c)'
  <2>1. CASE c = t.change
    <3>1. t.change \in untold' \/ IsNoted(c)'
      BY <1>7, <1>8, <2>1 DEF IsNoted, OfStatus
    <3>2. u \in O!TasksOf(r)' /\ u.change = c
      BY <1>2, <1>3, <1>10, <2>1
    <3>. QED BY <2>1, <3>1, <3>2 DEF Telling
  <2>2. CASE c # t.change
    <3>1. \A q \in Requests : \A w \in O!TasksOf(q) : w.change = c => w \in O!TasksOf(q)'
      BY <1>1, <1>3, <1>10, <2>2
    <3>. QED BY <1>6, <1>9, <3>1, TellingStays
  <2>. QED BY <2>1, <2>2
<1>. QED BY <1>9, <1>10, <1>11, <1>12, <1>13, <1>15, <1>16 DEF StatusInv, StatusGrows

\* Sequences are joined.
LEMMA Joined ==
  ASSUME NEW S, NEW s \in Seq(S), NEW t \in Seq(S)
  PROVE  /\ s \o t \in Seq(S) /\ Len(s \o t) = Len(s) + Len(t)
         /\ \A i \in 1..Len(s) : (s \o t)[i] = s[i]
         /\ \A i \in 1..Len(t) : (s \o t)[Len(s) + i] = t[i]
OBVIOUS

\* An enumeration of some orders has each of them, and once.
LEMMA EnumerationHasAll ==
  ASSUME NEW W \in SUBSET Orders, NEW order \in O!Enumerations(W)
  PROVE  /\ Cardinality(W) \in Nat /\ DOMAIN order = 1..Cardinality(W)
         /\ order \in [1..Cardinality(W) -> W]
         /\ \A i, k \in 1..Cardinality(W) : order[i] = order[k] => i = k
         /\ \A o \in W : \E i \in 1..Cardinality(W) : order[i] = o
<1>1. IsFiniteSet(W) /\ Cardinality(W) \in Nat
  BY OneCardinality, MCServicesAssumption, FS_Subset, FS_CardinalityType
  DEF MCServicesAssumption, O!OrderStatusAssumption
<1>2. PICK k \in Nat : k = Cardinality(W)
  BY <1>1
<1>3. order \in [1..k -> W] /\ \A i, l \in 1..k : order[i] = order[l] => i = l
  BY <1>2, OneCardinality DEF O!Enumerations
<1>4. order \in Injection(1..k, W)
  BY <1>3 DEF Injection, IsInjective
<1>5. Cardinality(1..k) = k
  BY FS_Interval
<1>6. order \in Surjection(1..k, W)
  BY <1>1, <1>2, <1>4, <1>5, FS_Injection
<1>. QED BY <1>1, <1>2, <1>3, <1>6 DEF Surjection

\* What a request writes: a change and a task for each of the orders it read, in
\* some order.
WrittenAs(r, j, W, n, k, order, tasks) ==
  /\ j \in [status: O!Statuses, read: [Orders -> O!Statuses \cup {O!None}]]
  /\ \A o \in W : j.read[o] # j.status /\ (o \notin mixed => j.read[o] = status[o])
  /\ n = Len(changes) /\ n \in Nat /\ k \in Nat /\ n + k <= MaxChanges
  /\ W \in SUBSET Orders /\ order \in [1..k -> W] /\ \A o \in W : \E i \in 1..k : order[i] = o
  /\ status' \in [Orders -> O!Statuses]
  /\ \A o \in Orders : status'[o] = IF o \in W THEN j.status ELSE status[o]
  /\ changes' \in Seq(ChangeRows) /\ Len(changes') = n + k
  /\ \A c \in 1..n : changes'[c] = changes[c]
  /\ \A i \in 1..k : /\ changes'[n + i].order = order[i] /\ changes'[n + i].new = j.status
                     /\ changes'[n + i].old = status[order[i]]
  /\ tasks \in SUBSET O!Tasks
  /\ \A t \in tasks : \E i \in 1..k : /\ t.order = order[i] /\ t.change = n + i
                                      /\ t.old = j.read[order[i]] /\ t.step = "note"
  /\ \A i \in 1..k : \E t \in tasks : t.change = n + i /\ t.step = "note"
  /\ \A t, u \in tasks : t.change = u.change \/ t.order = u.order => t = u
  /\ O!Goto(r, "tell", [status |-> j.status, tasks |-> tasks])
  /\ \A o \in W \ mixed' : \A q \in Requests \ {r} : ~O!OnOrder(q, o)
  /\ mixed \subseteq mixed' /\ mixed' \subseteq Orders

LEMMA ReadIsWritten ==
  ASSUME StatusInv, NEW r \in Requests, O!StatusWritten(r)
  PROVE  \E j, W, n, k, order, tasks : WrittenAs(r, j, W, n, k, order, tasks)
<1>. DEFINE j == job[r]
            W == O!ToWrite(r)
            n == Len(changes)
            Change(order, i) == [order |-> order[i], old |-> status[order[i]], new |-> j.status]
            TaskOf(order, i) == [order |-> order[i], change |-> n + i,
                                 old |-> j.read[order[i]], step |-> "note"]
<1>1. pc[r] = "write"
  BY DEF O!StatusWritten
<1>2. /\ j \in [status: O!Statuses, read: [Orders -> O!Statuses \cup {O!None}]]
      /\ \A o \in Orders : j.read[o] # O!None =>
           j.read[o] # j.status /\ (o \notin mixed => j.read[o] = status[o])
  BY <1>1, StatusJobsAre DEF StatusInv, StatusFits
<1>3. W \in SUBSET Orders /\ \A o \in W : j.read[o] # O!None
  BY DEF O!ToWrite
<1>4. n \in Nat /\ changes \in Seq(ChangeRows) /\ MaxChanges \in Nat
      /\ status \in [Orders -> O!Statuses] /\ mixed \subseteq Orders
  BY StatusNumbers DEF StatusInv, StatusTables
<1>5. PICK order \in O!Enumerations(W) :
        /\ status' = [o \in Orders |-> IF o \in W THEN j.status ELSE status[o]]
        /\ changes' = changes \o [i \in DOMAIN order |-> Change(order, i)]
        /\ O!Goto(r, "tell", [status |-> j.status,
                               tasks |-> {TaskOf(order, i) : i \in DOMAIN order}])
  BY DEF O!StatusWritten
<1>. DEFINE made == [i \in DOMAIN order |-> Change(order, i)]
            tasks == {TaskOf(order, i) : i \in DOMAIN order}
<1>6. /\ n + Cardinality(W) <= MaxChanges
      /\ mixed' = mixed \cup {o \in W : \E q \in Requests \ {r} : O!OnOrder(q, o)}
  BY OneCardinality DEF O!StatusWritten
<1>. HIDE DEF j, W
<1>7. PICK k \in Nat :
        /\ k = Cardinality(W) /\ DOMAIN order = 1..k /\ order \in [1..k -> W]
        /\ \A i, l \in 1..k : order[i] = order[l] => i = l
        /\ \A o \in W : \E i \in 1..k : order[i] = o
  BY <1>3, EnumerationHasAll
<1>8. \A i \in 1..k : order[i] \in W /\ order[i] \in Orders
  BY <1>3, <1>7
<1>9. \A i \in 1..k : /\ Change(order, i) \in ChangeRows
                      /\ Change(order, i).order = order[i] /\ Change(order, i).new = j.status
                      /\ Change(order, i).old = status[order[i]]
  BY <1>2, <1>4, <1>8 DEF ChangeRows
<1>. HIDE DEF Change, n
<1>10. made \in [1..k -> ChangeRows] /\ \A i \in 1..k : made[i] = Change(order, i)
  BY <1>7, <1>9
<1>. HIDE DEF made
<1>11. made \in Seq(ChangeRows) /\ Len(made) = k
  BY <1>10
<1>12. /\ changes' \in Seq(ChangeRows) /\ Len(changes') = n + k
       /\ \A c \in 1..n : changes'[c] = changes[c]
       /\ \A i \in 1..k : changes'[n + i] = made[i]
  BY <1>4, <1>5, <1>11, Joined DEF made, n
<1>13. \A i \in 1..k : /\ changes'[n + i].order = order[i] /\ changes'[n + i].new = j.status
                       /\ changes'[n + i].old = status[order[i]]
  BY <1>9, <1>10, <1>12
<1>14. \A i \in 1..k : /\ TaskOf(order, i).order = order[i] /\ TaskOf(order, i).change = n + i
                       /\ TaskOf(order, i).old = j.read[order[i]]
                       /\ TaskOf(order, i).step = "note"
  OBVIOUS
<1>15. \A i \in 1..k : n + i \in 1..MaxChanges /\ j.read[order[i]] \in O!Statuses
  BY <1>2, <1>3, <1>4, <1>6, <1>7, <1>8
<1>16. \A i \in 1..k : TaskOf(order, i) \in O!Tasks
  BY <1>8, <1>15 DEF O!Tasks, O!Changes
<1>. HIDE DEF TaskOf
<1>17. /\ tasks \in SUBSET O!Tasks
       /\ \A t \in tasks : \E i \in 1..k : t = TaskOf(order, i)
       /\ \A i \in 1..k : TaskOf(order, i) \in tasks
  BY <1>7, <1>16
<1>18. O!Goto(r, "tell", [status |-> j.status, tasks |-> tasks])
  BY <1>5
<1>. HIDE DEF tasks
<1>19. \A t, u \in tasks : t.change = u.change \/ t.order = u.order => t = u
  <2>. SUFFICES ASSUME NEW t \in tasks, NEW u \in tasks, t.change = u.change \/ t.order = u.order
                PROVE  t = u
    OBVIOUS
  <2>1. PICK i \in 1..k, l \in 1..k : t = TaskOf(order, i) /\ u = TaskOf(order, l)
    BY <1>17
  <2>2. i = l
    <3>1. n + i = n + l \/ order[i] = order[l]
      BY <1>14, <2>1
    <3>. QED BY <1>4, <1>7, <3>1
  <2>. QED BY <2>1, <2>2
<1>20. /\ status' \in [Orders -> O!Statuses]
       /\ \A o \in Orders : status'[o] = IF o \in W THEN j.status ELSE status[o]
  BY <1>2, <1>4, <1>5
<1>21. \A o \in W \ mixed' : \A q \in Requests \ {r} : ~O!OnOrder(q, o)
  BY <1>6
<1>22. mixed \subseteq mixed' /\ mixed' \subseteq Orders
  BY <1>3, <1>4, <1>6
<1>23. /\ \A t \in tasks : \E i \in 1..k : /\ t.order = order[i] /\ t.change = n + i
                                           /\ t.old = j.read[order[i]] /\ t.step = "note"
       /\ \A i \in 1..k : \E t \in tasks : t.change = n + i /\ t.step = "note"
  BY <1>14, <1>17
<1>24. WrittenAs(r, j, W, n, k, order, tasks)
  <2>1. n = Len(changes) /\ n + k <= MaxChanges
    BY <1>6, <1>7 DEF n
  <2>2. \A o \in W : j.read[o] # j.status /\ (o \notin mixed => j.read[o] = status[o])
    BY <1>2, <1>3
  <2>. QED BY <1>2, <1>3, <1>4, <1>7, <1>12, <1>13, <1>17, <1>18, <1>19, <1>20, <1>21, <1>22,
              <1>23, <2>1, <2>2 DEF WrittenAs
<1>. QED BY <1>24

\* The statuses of some orders are written, and there is a task for each change.
LEMMA StatusesAreWritten ==
  ASSUME StatusInv, NEW r \in Requests, O!StatusWritten(r)
  PROVE  StatusInv'
<1>. USE StatusConstantsStay
<1>1. /\ pc[r] = "write" /\ O!TasksOf(r) = {} /\ UNCHANGED <<feedback, orderNotes, mails, untold>>
  BY DEF O!StatusWritten, O!TasksOf
<1>2. PICK j, W, n, k, order, tasks : WrittenAs(r, j, W, n, k, order, tasks)
  BY ReadIsWritten
<1>3. /\ n \in Nat /\ k \in Nat /\ n = Len(changes) /\ Len(changes') = n + k
      /\ \A i \in 1..k : n + i \in 1..Len(changes') /\ n + i > n
  BY <1>2 DEF WrittenAs
<1>4. PICK s, g : /\ s = "tell" /\ g = [status |-> j.status, tasks |-> tasks]
                  /\ s \in DOMAIN O!Jobs
                  /\ O!Goto(r, s, g) /\ g \in O!Jobs[s] /\ g.status = j.status /\ g.tasks = tasks
  BY <1>2, StatusJobsAre DEF WrittenAs
<1>5. /\ pc' \in [Requests -> DOMAIN O!Jobs] /\ pc'[r] = s /\ job'[r] = g
      /\ job' = [q \in Requests |-> job'[q]]
      /\ \A q \in Requests \ {r} : pc'[q] = pc[q] /\ job'[q] = job[q]
      /\ \A q \in Requests \ {r} : O!TasksOf(q)' = O!TasksOf(q)
      /\ O!TasksOf(r)' = tasks
  BY <1>4, StatusRequestMoves
<1>6. StatusGrows
  <2>1. StatusTables'
    BY <1>1, <1>2, <1>3, StatusNumbers DEF StatusInv, StatusTables, WrittenAs
  <2>2. \A m \in 1..Len(orderNotes) : orderNotes'[m] = orderNotes[m]
    BY <1>1
  <2>. QED BY <1>1, <1>2, <1>3, <2>1, <2>2, StatusNumbers DEF StatusInv, WrittenAs, StatusGrows
<1>7. Deliveries'
  <2>1. ASSUME NEW o \in Orders, status'[o] = "delivered"
        PROVE  Delivered(o)'
    <3>1. CASE o \in W
      <4>1. PICK i \in 1..k : order[i] = o
        BY <1>2, <3>1 DEF WrittenAs
      <4>2. j.status = "delivered"
        BY <1>2, <2>1, <3>1 DEF WrittenAs
      <4>3. n + i \in 1..Len(changes') /\ changes'[n + i].order = o /\ changes'[n + i].new = j.status
        BY <1>2, <1>3, <4>1 DEF WrittenAs
      <4>. QED BY <4>2, <4>3 DEF Delivered
    <3>2. CASE o \notin W
      <4>1. status[o] = "delivered"
        BY <1>2, <2>1, <3>2 DEF WrittenAs
      <4>. QED BY <1>6, <4>1, DeliveredStays DEF StatusInv, Deliveries
    <3>. QED BY <3>1, <3>2
  <2>. QED BY <1>1, <1>6, <2>1, DeliveredStays DEF StatusInv, Deliveries
<1>8. NotesFit'
  BY <1>1, <1>6, StatusNumbers, NotesStayFit DEF StatusInv
\* the new tasks fit, and come after all there was
<1>9. ASSUME NEW t \in tasks
      PROVE  TaskFits(t, j.status)'
  <2>1. PICK i \in 1..k : /\ t.order = order[i] /\ t.change = n + i
                          /\ t.old = j.read[order[i]] /\ t.step = "note"
    BY <1>2, <1>9 DEF WrittenAs
  <2>2. PICK o \in W, c \in 1..Len(changes') :
          /\ o = order[i] /\ o = t.order /\ c = n + i /\ c = t.change /\ c > n
          /\ changes'[c].order = o /\ changes'[c].new = j.status /\ changes'[c].old = status[o]
    BY <1>2, <1>3, <2>1 DEF WrittenAs
  <2>3. t.old # j.status /\ (o \notin mixed' => t.old = status[o])
    BY <1>2, <2>1, <2>2 DEF WrittenAs
  <2>4. \A m \in 1..Len(orderNotes') : NoteBefore(m, o, c)'
    <3>1. \A m \in 1..Len(orderNotes) : OfStatus(m) => orderNotes[m].change \in 1..n
      BY <1>3 DEF StatusInv, NotesFit, NoteFits
    <3>2. \A m \in 1..Len(orderNotes) : OfStatus(m) => orderNotes[m].change < c
                                                       /\ orderNotes[m].change # c
      BY <1>3, <2>2, <3>1
    <3>. QED BY <1>1, <3>2 DEF NoteBefore, OfStatus
  <2>. QED BY <2>2, <2>3, <2>4 DEF TaskFits
<1>10. ASSUME NEW q \in Requests
       PROVE  StatusFits(pc[q], job[q])'
  <2>1. CASE q = r
    <3>1. StatusFits(s, g)'
      <4>1. \A t \in g.tasks : TaskFits(t, g.status)'
        BY <1>4, <1>9
      <4>. QED BY <1>4, <4>1 DEF StatusFits
    <3>. QED BY <1>5, <2>1, <3>1
  <2>2. CASE q # r
    <3>1. PICK z, h : z \in DOMAIN O!Jobs /\ z = pc[q] /\ h = job[q] /\ StatusFits(z, h)
      BY DEF StatusInv
    <3>2. z = "write" => \A o \in Orders : h.read[o] # O!None =>
            o \in mixed' \/ status'[o] = status[o]
      BY <1>2, <2>2, <3>1 DEF O!OnOrder, WrittenAs
    <3>3. \A m \in 1..Len(orderNotes') : ~(m > Len(orderNotes))
      BY <1>1, StatusNumbers DEF StatusInv
    <3>4. StatusFits(z, h)'
      BY <1>6, <3>1, <3>2, <3>3, StatusStaysFit
    <3>. QED BY <1>5, <2>2, <3>1, <3>4
  <2>. QED BY <2>1, <2>2
\* nobody else has a task of a new change, or of an order that is not mixed
<1>11. ASSUME NEW t \in tasks, NEW q \in Requests \ {r}, NEW u \in O!TasksOf(q)
       PROVE  t.change # u.change /\ (t.order = u.order => t.order \in mixed')
  <2>1. PICK i \in 1..k : t.order = order[i] /\ t.change = n + i
    BY <1>2, <1>11 DEF WrittenAs
  <2>. t.order \in W
    BY <1>2, <2>1 DEF WrittenAs
  <2>2. u.change \in 1..n
    BY <1>3, TasksAre DEF TaskFits
  <2>3. t.change # u.change
    BY <1>3, <2>1, <2>2
  <2>4. O!OnOrder(q, u.order)
    BY <1>11 DEF O!OnOrder
  <2>5. t.order \notin mixed' => ~O!OnOrder(q, t.order)
    BY <1>2, <2>1 DEF WrittenAs
  <2>. QED BY <2>3, <2>4, <2>5
<1>12. TasksApart'
  <2>. SUFFICES ASSUME NEW q \in Requests, NEW p \in Requests,
                       NEW t \in O!TasksOf(q)', NEW u \in O!TasksOf(p)'
                PROVE  Apart(q, t, p, u)'
    BY DEF TasksApart
  <2>1. CASE q = r /\ p = r
    BY <1>2, <1>5, <2>1 DEF Apart, WrittenAs
  <2>2. CASE q = r /\ p # r
    BY <1>5, <1>11, <2>2 DEF Apart
  <2>3. CASE q # r /\ p = r
    BY <1>5, <1>11, <2>3 DEF Apart
  <2>4. CASE q # r /\ p # r
    BY <1>5, <1>6, <2>4 DEF StatusInv, TasksApart, Apart, StatusGrows
  <2>. QED BY <2>1, <2>2, <2>3, <2>4
<1>13. ASSUME NEW c \in 1..Len(changes')
       PROVE  Telling(c)'
  <2>1. CASE c <= n
    <3>1. c \in 1..Len(changes)
      BY <1>3, <2>1
    <3>2. \A q \in Requests : \A t \in O!TasksOf(q) : t \in O!TasksOf(q)'
      BY <1>1, <1>5
    <3>. QED BY <1>6, <3>1, <3>2, TellingStays
  <2>2. CASE ~(c <= n)
    <3>1. PICK i \in 1..k : c = n + i
      <4>1. c - n \in 1..k /\ c = n + (c - n)
        BY <1>3, <2>2
      <4>. QED BY <4>1
    <3>. QED BY <1>2, <1>5, <3>1 DEF Telling, WrittenAs
  <2>. QED BY <1>3, <2>1, <2>2
<1>. QED BY <1>5, <1>6, <1>7, <1>8, <1>10, <1>12, <1>13 DEF StatusInv, StatusGrows

\* Nothing happens to the orders.
LEMMA StatusStands ==
  ASSUME StatusInv,
         UNCHANGED <<status, feedback, orderNotes, mails, changes, untold, mixed, pc, job>>
  PROVE  StatusInv'
<1>. USE StatusConstantsStay
<1>1. StatusGrows /\ Deliveries'
  BY StatusNumbers
  DEF StatusInv, StatusTables, StatusGrows, Deliveries, Delivered
<1>2. NotesFit'
  BY <1>1, StatusNumbers, NotesStayFit DEF StatusInv
<1>3. TasksApart' /\ \A q \in Requests : O!TasksOf(q)' = O!TasksOf(q)
  BY DEF StatusInv, TasksApart, Apart, O!TasksOf
<1>4. ASSUME NEW q \in Requests
      PROVE  StatusFits(pc[q], job[q])'
  <2>1. PICK z, k : z \in DOMAIN O!Jobs /\ z = pc'[q] /\ k = job'[q] /\ StatusFits(z, k)
    BY DEF StatusInv
  <2>2. StatusFits(z, k)'
    BY <1>1, <2>1, StatusStaysFit, StatusNumbers DEF StatusInv
  <2>. QED BY <2>1, <2>2
<1>5. \A c \in 1..Len(changes') : Telling(c)'
  BY <1>1, <1>3, TellingStays
<1>. QED BY <1>1, <1>2, <1>3, <1>4, <1>5 DEF StatusInv, StatusGrows

LEMMA StatusInvStays == StatusInv /\ O!Next => StatusInv'
<1>. USE StatusJobsAre
<1>. SUFFICES ASSUME StatusInv, O!Next PROVE StatusInv'
  OBVIOUS
<1>1. status \in [Orders -> O!Statuses] /\ Settable \subseteq O!Statuses
      /\ feedback \subseteq Orders
  BY MCServicesAssumption
  DEF StatusInv, StatusTables, MCServicesAssumption, O!OrderStatusAssumption
<1>2. \A o \in feedback : Delivered(o)
  BY DEF StatusInv, Deliveries
\* what is read of some orders
<1>3. ASSUME NEW r \in Requests, NEW Q \in SUBSET Orders, NEW s \in Settable, pc[r] = "idle",
             O!Goto(r, "write", [status |-> s, read |-> O!Read(Q, s)]),
             UNCHANGED <<status, feedback, orderNotes, mails, changes, untold, mixed>>
      PROVE  StatusInv'
  <2>1. PICK read : read = O!Read(Q, s)
    OBVIOUS
  <2>2. /\ read \in [Orders -> O!Statuses \cup {O!None}]
        /\ \A o \in Orders : read[o] # O!None => read[o] = status[o] /\ status[o] # s
    BY <1>1, <2>1 DEF O!Read
  <2>3. PICK z, j : /\ z = "write" /\ j = [status |-> s, read |-> read] /\ O!Goto(r, z, j)
                    /\ z \in DOMAIN O!Jobs /\ j.read = read /\ j.status = s
    BY <1>3, <2>1
  <2>4. StatusFits(z, j)
    BY <1>1, <2>2, <2>3 DEF StatusFits
  <2>. QED BY <1>1, <1>2, <1>3, <2>3, <2>4, StatusRequestWorks
<1>4. ASSUME NEW r \in Requests, NEW o \in Orders, NEW s \in Settable, O!UpdateStatus(r, o, s)
      PROVE  StatusInv'
  <2>1. {o} \in SUBSET Orders
    OBVIOUS
  <2>. QED BY <1>3, <1>4, <2>1 DEF O!UpdateStatus
<1>5. ASSUME NEW r \in Requests, NEW Q \in SUBSET Orders, NEW s \in Settable,
             O!BulkUpdateStatus(r, Q, s)
      PROVE  StatusInv'
  BY <1>3, <1>5 DEF O!BulkUpdateStatus
<1>6. ASSUME NEW r \in Requests, NEW o \in Orders, O!CreateFeedback(r, o)
      PROVE  StatusInv'
  <2>1. Delivered(o)
    BY <1>6 DEF O!CreateFeedback, StatusInv, Deliveries
  <2>2. PICK z, j : /\ z = "feedback" /\ j = [order |-> o] /\ O!Goto(r, z, j)
                    /\ z \in DOMAIN O!Jobs /\ j.order = o /\ pc[r] = "idle"
    BY <1>6 DEF O!CreateFeedback
  <2>3. StatusFits(z, j)
    BY <2>1, <2>2 DEF StatusFits
  <2>. QED BY <1>1, <1>2, <1>6, <2>2, <2>3, StatusRequestWorks DEF O!CreateFeedback
<1>7. ASSUME NEW r \in Requests, O!FeedbackCreated(r)
      PROVE  StatusInv'
  <2>1. PICK p, k : p = "feedback" /\ p = pc[r] /\ k = job[r] /\ StatusFits(p, k)
    BY <1>7 DEF O!FeedbackCreated, StatusInv
  <2>2. job[r].order \in Orders /\ Delivered(job[r].order)
    BY <2>1 DEF StatusFits
  <2>3. PICK z, j : /\ z = "idle" /\ j = O!NoJob /\ O!Goto(r, z, j) /\ z \in DOMAIN O!Jobs
    BY <1>7 DEF O!FeedbackCreated, O!Return
  <2>4. StatusFits(z, j)
    BY <2>3 DEF StatusFits
  <2>. QED BY <1>1, <1>2, <1>7, <2>1, <2>2, <2>3, <2>4, StatusRequestWorks DEF O!FeedbackCreated
<1>8. ASSUME NEW r \in Requests, NEW t \in O!TasksOf(r),
             O!CreateOrderStatusNotification(r, t) \/ O!SendOrderStatusEmail(r, t)
      PROVE  StatusInv'
  BY <1>8, NotificationIsCreated, EmailIsSent
<1>9. ASSUME NEW r \in Requests, O!StatusWritten(r) \/ O!RequestFails(r)
      PROVE  StatusInv'
  BY <1>9, StatusesAreWritten, StatusRequestFails
<1>10. ASSUME NEW o \in Orders, O!CreateNotification(o)
       PROVE  StatusInv'
  BY <1>10, OtherNotice
<1>. QED BY <1>4, <1>5, <1>6, <1>7, <1>8, <1>9, <1>10 DEF O!Next

LEMMA StatusInvInit == O!Init => StatusInv
<1>. USE StatusJobsAre
<1>. SUFFICES ASSUME O!Init PROVE StatusInv
  OBVIOUS
<1>1. StatusTables /\ Len(changes) = 0 /\ Len(orderNotes) = 0
  BY MCServicesAssumption
  DEF O!Init, StatusTables, MCServicesAssumption, O!OrderStatusAssumption
<1>2. Deliveries
  BY MCServicesAssumption
  DEF O!Init, Deliveries, MCServicesAssumption, O!OrderStatusAssumption
<1>3. NotesFit /\ \A c \in 1..Len(changes) : Telling(c)
  BY <1>1 DEF NotesFit
<1>4. /\ pc \in [Requests -> DOMAIN O!Jobs] /\ job = [r \in Requests |-> job[r]]
      /\ \A r \in Requests : StatusFits(pc[r], job[r]) /\ O!TasksOf(r) = {}
  BY DEF O!Init, StatusFits, O!TasksOf
<1>5. TasksApart
  BY <1>4 DEF TasksApart
<1>. QED BY <1>1, <1>2, <1>3, <1>4, <1>5 DEF StatusInv

LEMMA StatusInvKept == StatusInv /\ [O!Next]_(O!vars) => StatusInv'
<1>. USE StatusJobsAre
<1>1. ASSUME StatusInv, UNCHANGED O!vars
      PROVE  StatusInv'
  BY <1>1, StatusStands DEF O!vars
<1>. QED BY <1>1, StatusInvStays

\* The customer is told of every change of the status by one notification and by
\* e-mail, unless that failed, as it was and in the order it happened when no two
\* requests were on the order at once; and feedback follows a delivery.
THEOREM StatusesAreTold == O!Spec => []StatusIsAccountedFor
<1>. USE StatusJobsAre
<1>1. StatusInv => StatusIsAccountedFor
  <2>. SUFFICES ASSUME StatusInv PROVE StatusIsAccountedFor
    OBVIOUS
  <2>. DEFINE Told(c) == {n \in 1..Len(orderNotes) : orderNotes[n].event = "status"
                                                     /\ orderNotes[n].change = c}
  <2>1. ASSUME NEW c \in 1..Len(changes)
        PROVE  /\ c \in untold \/ c \in mails \/ O!Pending(c, {"note", "mail"})
               /\ Told(c) # {} \/ c \in untold \/ O!Pending(c, {"note"})
    <3>1. \A r \in Requests : \A t \in O!TasksOf(r) : t.step \in {"note", "mail"}
      BY TasksAre DEF O!Tasks
    <3>2. Telling(c) /\ (IsNoted(c) => Told(c) # {})
      BY DEF StatusInv, IsNoted, OfStatus
    <3>. HIDE DEF Told
    <3>. QED BY <3>1, <3>2 DEF Telling, O!Pending
  <2>2. ASSUME NEW c \in 1..Len(changes), NEW n \in Told(c)
        PROVE  /\ orderNotes[n].order = changes[c].order /\ orderNotes[n].new = changes[c].new
               /\ orderNotes[n].old # orderNotes[n].new
    BY <2>2 DEF StatusInv, NotesFit, NoteFits, OfStatus
  <2>3. ASSUME NEW c \in 1..Len(changes)
        PROVE  O!Cardinality(Told(c)) <= 1
    <3>1. ASSUME NEW m \in Told(c), NEW n \in Told(c), m < n
          PROVE  FALSE
      <4>1. n \in 1..Len(orderNotes) /\ m \in 1..(n - 1) /\ OfStatus(n) /\ OfStatus(m)
        BY <3>1, StatusNumbers DEF StatusInv, OfStatus
      <4>2. NoteBefore(m, orderNotes[n].order, orderNotes[n].change)
        BY <4>1 DEF StatusInv, NotesFit
      <4>. QED BY <3>1, <4>1, <4>2 DEF NoteBefore
    <3>2. \A m, n \in Told(c) : m = n
      <4>1. Told(c) \subseteq Int
        OBVIOUS
      <4>. HIDE DEF Told
      <4>. QED BY <3>1, <4>1
    <3>. HIDE DEF Told
    <3>3. Told(c) = {} \/ \E n : Told(c) = {n}
      BY <3>2
    <3>4. Cardinality(Told(c)) <= 1
      <4>1. CASE Told(c) = {}
        BY <4>1, FS_EmptySet
      <4>2. CASE \E n : Told(c) = {n}
        <5>1. PICK n : Told(c) = {n}
          BY <4>2
        <5>2. Cardinality({n}) = 1
          BY FS_Singleton
        <5>. QED BY <5>1, <5>2
      <4>. QED BY <3>3, <4>1, <4>2
    <3>. QED BY <3>4, OneCardinality
  <2>4. /\ mails \subseteq 1..Len(changes)
        /\ \A n \in 1..Len(orderNotes) :
             orderNotes[n].event = "status" => orderNotes[n].change \in 1..Len(changes)
    BY DEF StatusInv, StatusTables, NotesFit, NoteFits, OfStatus
  <2>5. O!EveryChangeIsTold
    BY <2>1, <2>2, <2>3, <2>4 DEF O!EveryChangeIsTold
  <2>6. O!NotesTellTheStory
    BY DEF O!NotesTellTheStory, StatusInv, NotesFit, NoteFits, NoteBefore, OfStatus
  <2>7. O!FeedbackFollowsDelivery
    BY DEF O!FeedbackFollowsDelivery, StatusInv, Deliveries, Delivered
  <2>. QED BY <2>5, <2>6, <2>7 DEF StatusIsAccountedFor, O!StatusIsAccountedFor
<1>. QED BY StatusInvInit, StatusInvKept, <1>1, PTL DEF O!Spec
-----------------------------------------------------------------------------
(* Pricing: what is calculated from the prices on record.  The rows only   *)
(* have to be what staff record; the rest is about the calculation: a      *)
(* strategy goes by the prices that are found, the k-th amount, the total, *)
(* and so the average and the median, grow with them, and a target of a    *)
(* bulk calculation is answered as its offering is alone.                  *)

\* a table of market prices
Table(t) == t \in [P!Days -> P!Observed \cup {P!NoRow}]
\* some prices that were found in a table
Found(found, t) ==
  /\ Table(t) /\ found \in SUBSET P!Days /\ found # {}
  /\ \A d \in found : t[d] \in P!Observed

LEMMA PricesAssumed == P!PricingAssumption
BY MCServicesAssumption DEF MCServicesAssumption

LEMMA DaysAre ==
  /\ MaxDay \in Nat /\ P!Days \in SUBSET Nat /\ IsFiniteSet(P!Days)
  /\ \A d \in P!Days : d \in Nat /\ 1 <= d /\ d <= MaxDay
<1>1. MaxDay \in Nat
  BY PricesAssumed DEF P!PricingAssumption
<1>2. IsFiniteSet(1..MaxDay)
  BY <1>1, FS_Interval
<1>. QED BY <1>1, <1>2 DEF P!Days

LEMMA ObservedRow ==
  ASSUME NEW o \in P!Observed
  PROVE  /\ o.offering \in P!Priced /\ o.market \in P!Markets /\ o.amount \in Nat
         /\ o.grade \in P!Grades /\ o.unit \in DOMAIN UnitIsActive /\ o # P!NoRow
<1>1. o.offering \in P!Priced /\ Absent \notin P!Priced
  BY PricesAssumed DEF P!Observed, P!PricingAssumption
<1>2. P!NoRow.offering = Absent
  BY DEF P!NoRow
<1>3. o # P!NoRow
  BY <1>1, <1>2
<1>4. /\ o.market \in P!Markets /\ o.amount \in Nat
      /\ o.grade \in P!Grades /\ o.unit \in DOMAIN UnitIsActive
  BY DEF P!Observed
<1>. QED BY <1>1, <1>3, <1>4

LEMMA NewestIsNewest ==
  ASSUME NEW days \in SUBSET P!Days, days # {}
  PROVE  P!Newest(days) \in days /\ \A e \in days : e <= P!Newest(days)
<1>. DEFINE left == {MaxDay - d : d \in days}
<1>1. left \in SUBSET Nat /\ left # {}
  <2>1. \A d \in days : MaxDay - d \in Nat
    BY DaysAre
  <2>. QED BY <2>1
<1>2. PICK n \in left : \A m \in left : n <= m
  BY <1>1, SmallestNat
<1>3. PICK d \in days : n = MaxDay - d
  OBVIOUS
<1>4. \A e \in days : MaxDay - d <= MaxDay - e
  BY <1>2, <1>3
<1>5. \A e \in days : e <= d
  BY <1>4, DaysAre
<1>6. \E x \in days : \A e \in days : e <= x
  BY <1>5
<1>. QED BY <1>6 DEF P!Newest

\* There is a least value, when no value is too far below 0.
LEMMA LeastIsThere ==
  ASSUME NEW found \in SUBSET P!Days, found # {},
         NEW value, \A d \in found : value[d] \in Int /\ 0 - 3 <= value[d]
  PROVE  P!Least(found, value) \in SUBSET found /\ P!Least(found, value) # {}
<1>. DEFINE above == {value[d] + 3 : d \in found}
<1>1. above \in SUBSET Nat /\ above # {}
  OBVIOUS
<1>2. PICK n \in above : \A m \in above : n <= m
  BY <1>1, SmallestNat
<1>3. PICK d \in found : n = value[d] + 3
  OBVIOUS
<1>4. \A e \in found : value[d] + 3 <= value[e] + 3
  BY <1>2, <1>3
<1>5. \A e \in found : value[d] <= value[e]
  BY <1>4
<1>. QED BY <1>5 DEF P!Least

LEMMA DaysCount ==
  /\ \A S : P!Cardinality(S) = Cardinality(S)
  /\ \A S \in SUBSET P!Days : Cardinality(S) \in Nat /\ (Cardinality(S) = 0 <=> S = {})
  /\ \A S \in SUBSET P!Days : \A R \in SUBSET S : Cardinality(R) <= Cardinality(S)
<1>1. \A S : P!Cardinality(S) = Cardinality(S)
  BY DEF P!Cardinality, Cardinality, P!IsFiniteSet, IsFiniteSet
<1>2. ASSUME NEW S \in SUBSET P!Days
      PROVE  /\ Cardinality(S) \in Nat /\ (Cardinality(S) = 0 <=> S = {})
             /\ \A R \in SUBSET S : Cardinality(R) <= Cardinality(S)
  <2>1. IsFiniteSet(S)
    BY DaysAre, FS_Subset
  <2>. QED BY <2>1, FS_Subset, FS_CardinalityType, FS_EmptySet
<1>. QED BY <1>1, <1>2

\* the prices found that ask less than n, and that ask no more
Under(found, t, n) == {d \in found : t[d].amount < n}
UpTo(found, t, n) == {d \in found : t[d].amount <= n}

LEMMA FoundAmounts ==
  ASSUME NEW found, NEW t, Found(found, t)
  PROVE  \A d \in found : t[d].amount \in Nat /\ d \in P!Days
BY ObservedRow DEF Found

\* Some amount is not exceeded by any that was found.
LEMMA AmountsAreBounded ==
  ASSUME NEW found \in SUBSET P!Days, NEW t, \A d \in found : t[d].amount \in Nat
  PROVE  \E n \in Nat : \A d \in found : t[d].amount <= n
<1>. DEFINE Bounded(m) == \E n \in Nat : \A d \in found : d <= m => t[d].amount <= n
            Bad == {m \in Nat : m <= MaxDay /\ ~Bounded(m)}
<1>1. SUFFICES Bad = {}
  <2>1. MaxDay \in Nat /\ \A d \in found : d <= MaxDay
    BY DaysAre
  <2>2. MaxDay \notin Bad
    OBVIOUS
  <2>3. Bounded(MaxDay)
    BY <2>1, <2>2
  <2>. QED BY <2>1, <2>3
<1>2. SUFFICES ASSUME Bad # {} PROVE FALSE
  OBVIOUS
<1>3. PICK m \in Bad : \A k \in Bad : m <= k
  BY <1>2, SmallestNat
<1>4. m # 0
  <2>1. 0 \in Nat /\ \A d \in found : ~(d <= 0)
    BY DaysAre
  <2>2. Bounded(0)
    BY <2>1, Zenon
  <2>. QED BY <2>2
<1>5. m - 1 \in Nat /\ m - 1 <= MaxDay /\ m - 1 \notin Bad
  <2>1. m \in Nat /\ m <= MaxDay /\ MaxDay \in Nat
    BY DaysAre
  <2>2. m - 1 \in Nat /\ m - 1 <= MaxDay /\ ~(m <= m - 1)
    BY <1>4, <2>1
  <2>. HIDE DEF Bad
  <2>. QED BY <1>3, <2>2
<1>6. PICK n \in Nat : \A d \in found : d <= m - 1 => t[d].amount <= n
  BY <1>5, Zenon
<1>7. \A d \in found : d <= m => d <= m - 1 \/ d = m
  BY DaysAre
<1>8. CASE m \in found
  <2>1. t[m].amount \in Nat /\ n + t[m].amount \in Nat
    BY <1>8
  <2>2. \A d \in found : d <= m => t[d].amount <= n + t[m].amount
    BY <1>6, <1>7, <2>1
  <2>. QED BY <2>1, <2>2
<1>9. CASE m \notin found
  BY <1>6, <1>7, <1>9
<1>. QED BY <1>8, <1>9

LEMMA RankedIs ==
  ASSUME NEW found, NEW t, Found(found, t), NEW k \in 1..Cardinality(found)
  PROVE  /\ \E d \in found : P!Ranked(found, t, k) = t[d].amount
         /\ P!Ranked(found, t, k) \in Nat
         /\ Cardinality(Under(found, t, P!Ranked(found, t, k))) < k
         /\ Cardinality(UpTo(found, t, P!Ranked(found, t, k))) >= k
<1>1. found \in SUBSET P!Days /\ found # {} /\ \A d \in found : t[d].amount \in Nat
  BY FoundAmounts DEF Found
<1>2. Cardinality(found) \in Nat /\ k \in Nat /\ 1 <= k /\ k <= Cardinality(found)
  BY <1>1, DaysCount
<1>. DEFINE Enough == {n \in Nat : Cardinality(UpTo(found, t, n)) >= k}
<1>3. \A n \in Nat : /\ UpTo(found, t, n) \in SUBSET P!Days /\ Under(found, t, n) \in SUBSET P!Days
                     /\ Cardinality(UpTo(found, t, n)) \in Nat
                     /\ Cardinality(Under(found, t, n)) \in Nat
  <2>1. \A n : UpTo(found, t, n) \in SUBSET P!Days /\ Under(found, t, n) \in SUBSET P!Days
    BY <1>1 DEF UpTo, Under
  <2>. QED BY <2>1, DaysCount
<1>4. Enough # {}
  <2>1. \E n \in Nat : \A d \in found : t[d].amount <= n
    BY <1>1, AmountsAreBounded
  <2>2. PICK n \in Nat : \A d \in found : t[d].amount <= n
    BY <2>1
  <2>3. UpTo(found, t, n) = found
    BY <2>2 DEF UpTo
  <2>. QED BY <1>2, <2>3
<1>5. PICK n \in Enough : \A m \in Enough : n <= m
  BY <1>4, SmallestNat
<1>6. n \in Nat /\ Cardinality(UpTo(found, t, n)) >= k
  OBVIOUS
<1>7. Cardinality(Under(found, t, n)) < k
  <2>1. CASE n = 0
    <3>1. Under(found, t, n) = {}
      BY <1>1, <2>1 DEF Under
    <3>. QED BY <1>2, <3>1, FS_EmptySet
  <2>2. CASE n # 0
    <3>1. n - 1 \in Nat /\ n - 1 \notin Enough
      BY <1>5, <1>6, <2>2
    <3>2. Cardinality(UpTo(found, t, n - 1)) < k
      BY <1>2, <1>3, <3>1
    <3>3. Under(found, t, n) = UpTo(found, t, n - 1)
      BY <1>1, <1>6, <3>1 DEF Under, UpTo
    <3>. QED BY <3>2, <3>3
  <2>. QED BY <2>1, <2>2
<1>8. n \in {t[d].amount : d \in found}
  <2>1. SUFFICES ASSUME \A d \in found : t[d].amount # n PROVE FALSE
    OBVIOUS
  <2>2. Under(found, t, n) = UpTo(found, t, n)
    BY <1>1, <1>6, <2>1 DEF Under, UpTo
  <2>. QED BY <1>2, <1>3, <1>6, <1>7, <2>2
<1>9. \E x \in {t[d].amount : d \in found} :
        /\ P!Cardinality({d \in found : t[d].amount < x}) < k
        /\ P!Cardinality({d \in found : t[d].amount <= x}) >= k
  BY <1>6, <1>7, <1>8, DaysCount DEF Under, UpTo
<1>10. /\ P!Ranked(found, t, k) \in {t[d].amount : d \in found}
       /\ P!Cardinality({d \in found : t[d].amount < P!Ranked(found, t, k)}) < k
       /\ P!Cardinality({d \in found : t[d].amount <= P!Ranked(found, t, k)}) >= k
  BY <1>9 DEF P!Ranked
<1>. QED BY <1>1, <1>10, DaysCount DEF Under, UpTo

\* Where every price found asks no less, the k-th amount is no less.
LEMMA RankedGrows ==
  ASSUME NEW found, NEW t, NEW u, Found(found, t), Found(found, u),
         \A d \in found : t[d].amount <= u[d].amount, NEW k \in 1..Cardinality(found)
  PROVE  P!Ranked(found, t, k) <= P!Ranked(found, u, k)
<1>. DEFINE n == P!Ranked(found, t, k)
            m == P!Ranked(found, u, k)
<1>1. /\ n \in Nat /\ Cardinality(Under(found, t, n)) < k
      /\ m \in Nat /\ Cardinality(UpTo(found, u, m)) >= k
  BY RankedIs
<1>. HIDE DEF n, m
<1>2. SUFFICES ASSUME m < n PROVE FALSE
  BY <1>1 DEF n, m
<1>3. UpTo(found, u, m) \in SUBSET Under(found, t, n)
  BY <1>1, <1>2, FoundAmounts DEF UpTo, Under
<1>4. Under(found, t, n) \in SUBSET P!Days
  BY DEF Under, Found
<1>5. /\ Cardinality(UpTo(found, u, m)) \in Nat /\ Cardinality(Under(found, t, n)) \in Nat
      /\ Cardinality(UpTo(found, u, m)) <= Cardinality(Under(found, t, n))
  BY <1>3, <1>4, DaysCount
<1>. QED BY <1>1, <1>5, DaysCount

\* what is no less than n
AtLeast(found, t, n) == {d \in found : t[d].amount >= n}

\* Half of the prices found ask no more than the median, and half no less.
LEMMA MedianInTheMiddle ==
  ASSUME NEW found, NEW t, Found(found, t)
  PROVE  /\ P!Median(found, t) \in Nat
         /\ 2 * Cardinality(UpTo(found, t, P!Median(found, t))) >= Cardinality(found)
         /\ 2 * Cardinality(AtLeast(found, t, P!Median(found, t))) >= Cardinality(found)
<1>1. found \in SUBSET P!Days /\ found # {} /\ \A d \in found : t[d].amount \in Nat
  BY FoundAmounts DEF Found
<1>. DEFINE all == Cardinality(found)
            middle == (all \div 2) + 1
<1>2. all \in Nat /\ all # 0 /\ P!Cardinality(found) = all
  BY <1>1, DaysCount
<1>3. /\ middle \in 1..all
      /\ all % 2 = 1 => 2 * middle = all + 1
      /\ all % 2 # 1 => 2 * middle = all + 2 /\ middle - 1 \in 1..all
  <2>. HIDE DEF all
  <2>. QED BY <1>2
<1>4. /\ all % 2 = 1 => P!Median(found, t) = P!Ranked(found, t, middle)
      /\ all % 2 # 1 => P!Median(found, t) =
           P!Half(P!Ranked(found, t, middle - 1) + P!Ranked(found, t, middle))
  BY <1>2 DEF P!Median
<1>. HIDE DEF all, middle
\* no more than k - 1 prices ask less than the k-th, so the rest asks no less
<1>5. ASSUME NEW n \in Nat, NEW m \in Nat, m >= n, NEW k \in 1..all,
             Cardinality(UpTo(found, t, n)) >= k
      PROVE  Cardinality(UpTo(found, t, m)) >= k
  <2>1. UpTo(found, t, n) \in SUBSET UpTo(found, t, m)
    BY <1>1, <1>5 DEF UpTo
  <2>2. UpTo(found, t, m) \in SUBSET P!Days
    BY <1>1 DEF UpTo
  <2>3. /\ Cardinality(UpTo(found, t, n)) \in Nat /\ Cardinality(UpTo(found, t, m)) \in Nat
        /\ Cardinality(UpTo(found, t, n)) <= Cardinality(UpTo(found, t, m))
    BY <2>1, <2>2, DaysCount
  <2>. QED BY <1>2, <1>5, <2>3
<1>6. ASSUME NEW n \in Nat, NEW m \in Nat, m <= n, NEW k \in 1..all,
             Cardinality(Under(found, t, n)) < k
      PROVE  Cardinality(AtLeast(found, t, m)) >= all - k + 1
  <2>1. AtLeast(found, t, m) \in SUBSET P!Days /\ Under(found, t, n) \in SUBSET P!Days
    BY <1>1 DEF AtLeast, Under
  <2>2. found = AtLeast(found, t, m) \cup Under(found, t, n)
    BY <1>1, <1>6 DEF AtLeast, Under
  <2>3. all <= Cardinality(AtLeast(found, t, m)) + Cardinality(Under(found, t, n))
    <3>1. IsFiniteSet(AtLeast(found, t, m)) /\ IsFiniteSet(Under(found, t, n))
      BY <2>1, DaysAre, FS_Subset
    <3>2. Cardinality(found) =
            Cardinality(AtLeast(found, t, m)) + Cardinality(Under(found, t, n))
              - Cardinality(AtLeast(found, t, m) \cap Under(found, t, n))
      BY <2>2, <3>1, FS_Union
    <3>3. Cardinality(AtLeast(found, t, m) \cap Under(found, t, n)) \in Nat
      BY <2>1, DaysCount
    <3>. QED BY <2>1, <3>2, <3>3, DaysCount DEF all
  <2>4. Cardinality(AtLeast(found, t, m)) \in Nat /\ Cardinality(Under(found, t, n)) \in Nat
    BY <2>1, DaysCount
  <2>. QED BY <1>2, <1>6, <2>3, <2>4
<1>7. CASE all % 2 = 1
  <2>. DEFINE n == P!Ranked(found, t, middle)
  <2>1. /\ n \in Nat /\ Cardinality(Under(found, t, n)) < middle
        /\ Cardinality(UpTo(found, t, n)) >= middle
    BY <1>3, RankedIs DEF all
  <2>2. P!Median(found, t) = n
    BY <1>4, <1>7
  <2>3. Cardinality(AtLeast(found, t, n)) >= all - middle + 1
    BY <1>3, <1>6, <2>1
  <2>4. Cardinality(UpTo(found, t, n)) \in Nat /\ Cardinality(AtLeast(found, t, n)) \in Nat
    BY <1>1, DaysCount DEF UpTo, AtLeast
  <2>. HIDE DEF n
  <2>. QED BY <1>2, <1>3, <1>7, <2>1, <2>2, <2>3, <2>4 DEF all
<1>8. CASE all % 2 # 1
  <2>. DEFINE n == P!Ranked(found, t, middle - 1)
              m == P!Ranked(found, t, middle)
              x == P!Half(n + m)
  <2>1. /\ n \in Nat /\ Cardinality(UpTo(found, t, n)) >= middle - 1
        /\ m \in Nat /\ Cardinality(Under(found, t, m)) < middle
        /\ Cardinality(Under(found, t, n)) < middle - 1
        /\ Cardinality(UpTo(found, t, m)) >= middle
    BY <1>3, <1>8, RankedIs DEF all
  <2>. HIDE DEF n, m
  <2>2. n <= m
    <3>1. SUFFICES ASSUME m < n PROVE FALSE
      BY <2>1
    <3>2. UpTo(found, t, m) \in SUBSET Under(found, t, n)
      BY <1>1, <2>1, <3>1 DEF UpTo, Under
    <3>3. Under(found, t, n) \in SUBSET P!Days
      BY <1>1 DEF Under
    <3>4. /\ Cardinality(UpTo(found, t, m)) \in Nat /\ Cardinality(Under(found, t, n)) \in Nat
          /\ Cardinality(UpTo(found, t, m)) <= Cardinality(Under(found, t, n))
      BY <3>2, <3>3, DaysCount
    <3>. QED BY <1>2, <1>3, <2>1, <3>4
  <2>3. x \in Nat /\ n <= x /\ x <= m
    BY <2>1, <2>2 DEF P!Half
  <2>4. P!Median(found, t) = x
    BY <1>4, <1>8 DEF n, m
  <2>. HIDE DEF x
  <2>5. Cardinality(UpTo(found, t, x)) >= middle - 1
    BY <1>3, <1>5, <1>8, <2>1, <2>3
  <2>6. Cardinality(AtLeast(found, t, x)) >= all - middle + 1
    BY <1>3, <1>6, <2>1, <2>3
  <2>7. Cardinality(UpTo(found, t, x)) \in Nat /\ Cardinality(AtLeast(found, t, x)) \in Nat
    BY <1>1, DaysCount DEF UpTo, AtLeast
  <2>. QED BY <1>2, <1>3, <1>8, <2>3, <2>4, <2>5, <2>6, <2>7 DEF all
<1>. QED BY <1>7, <1>8

LEMMA MedianGrows ==
  ASSUME NEW found, NEW t, NEW u, Found(found, t), Found(found, u),
         \A d \in found : t[d].amount <= u[d].amount
  PROVE  P!Median(found, t) <= P!Median(found, u)
<1>. DEFINE all == Cardinality(found)
            middle == (all \div 2) + 1
<1>1. all \in Nat /\ all # 0 /\ P!Cardinality(found) = all
  BY DaysCount DEF Found
<1>2. middle \in 1..all /\ (all % 2 # 1 => middle - 1 \in 1..all)
  <2>. HIDE DEF all
  <2>. QED BY <1>1
<1>3. \A s : /\ all % 2 = 1 => P!Median(found, s) = P!Ranked(found, s, middle)
             /\ all % 2 # 1 => P!Median(found, s) =
                  P!Half(P!Ranked(found, s, middle - 1) + P!Ranked(found, s, middle))
  BY <1>1 DEF P!Median
<1>4. ASSUME NEW k \in 1..all
      PROVE  /\ P!Ranked(found, t, k) \in Nat /\ P!Ranked(found, u, k) \in Nat
             /\ P!Ranked(found, t, k) <= P!Ranked(found, u, k)
  BY RankedIs, RankedGrows
<1>. HIDE DEF all, middle
<1>. QED BY <1>2, <1>3, <1>4 DEF P!Half

\* the amount of a day, and the sums of the amounts up to each day
Adds(found, t, d) == IF d \in found THEN t[d].amount ELSE 0
Sums(found, t, last, sum) ==
  sum = [d \in 0..last |-> IF d = 0 THEN 0 ELSE Adds(found, t, d) + sum[d - 1]]

LEMMA SumsThere ==
  ASSUME NEW found \in SUBSET P!Days, NEW t, \A d \in found : t[d].amount \in Nat
  PROVE  \E sum : Sums(found, t, MaxDay, sum)
<1>. DEFINE Bad == {n \in Nat : ~\E i : i \in [0..n -> Nat] /\ Sums(found, t, n, i)}
<1>1. \A d \in Nat : Adds(found, t, d) \in Nat
  BY DEF Adds
<1>2. SUFFICES Bad = {}
  BY DaysAre
<1>3. SUFFICES ASSUME Bad # {} PROVE FALSE
  OBVIOUS
<1>4. PICK n \in Bad : \A k \in Bad : n <= k
  BY <1>3, SmallestNat
<1>5. n # 0
  <2>. DEFINE i == [d \in 0..0 |-> 0]
  <2>1. i \in [0..0 -> Nat]
    OBVIOUS
  <2>2. i = [d \in 0..0 |-> IF d = 0 THEN 0 ELSE Adds(found, t, d) + i[d - 1]]
    OBVIOUS
  <2>3. Sums(found, t, 0, i)
    BY <2>2 DEF Sums
  <2>. HIDE DEF i
  <2>. QED BY <2>1, <2>3
<1>6. n \in Nat /\ n - 1 \in Nat /\ n - 1 \notin Bad
  <2>1. n \in Nat
    OBVIOUS
  <2>2. n - 1 \in Nat /\ ~(n <= n - 1)
    BY <2>1, <1>5
  <2>. HIDE DEF Bad
  <2>. QED BY <2>1, <2>2, <1>4
<1>7. PICK i : i \in [0..(n - 1) -> Nat] /\ Sums(found, t, n - 1, i)
  BY <1>6
<1>. DEFINE next(d) == IF d = 0 THEN 0 ELSE Adds(found, t, d) + i[d - 1]
            j == [d \in 0..n |-> next(d)]
<1>8. \A d \in 0..(n - 1) : i[d] = next(d)
  BY <1>7 DEF Sums
<1>9. \A d \in 0..n : d # 0 => d \in Nat /\ d - 1 \in 0..(n - 1)
  BY <1>6
<1>10. \A d \in 0..n : next(d) \in Nat
  <2>1. ASSUME NEW d \in 0..n, d # 0
        PROVE  Adds(found, t, d) \in Nat /\ i[d - 1] \in Nat
    BY <2>1, <1>1, <1>7, <1>9
  <2>. QED BY <2>1
<1>11. j \in [0..n -> Nat]
  <2>. HIDE DEF next
  <2>. QED BY <1>10
<1>12. \A d \in 0..n : d # 0 => j[d - 1] = i[d - 1]
  <2>. HIDE DEF next
  <2>1. \A d \in 0..(n - 1) : d \in 0..n
    BY <1>6
  <2>. QED BY <1>8, <1>9, <2>1
<1>13. j = [d \in 0..n |-> IF d = 0 THEN 0 ELSE Adds(found, t, d) + j[d - 1]]
  <2>. DEFINE again(d) == IF d = 0 THEN 0 ELSE Adds(found, t, d) + j[d - 1]
  <2>. HIDE DEF j
  <2>1. \A d \in 0..n : next(d) = again(d)
    BY <1>12
  <2>. HIDE DEF next, again
  <2>2. [d \in 0..n |-> next(d)] = [d \in 0..n |-> again(d)]
    BY <2>1
  <2>. QED BY <2>2 DEF j, again
<1>. HIDE DEF j
<1>14. Sums(found, t, n, j)
  BY <1>13 DEF Sums
<1>. QED BY <1>6, <1>11, <1>14

\* The total is the last of the sums, which are natural numbers.
LEMMA TotalIsLast ==
  ASSUME NEW found \in SUBSET P!Days, NEW t, \A d \in found : t[d].amount \in Nat
  PROVE  \E sum : /\ P!Total(found, t) = sum[MaxDay]
                  /\ sum[0] = 0
                  /\ \A d \in P!Days : sum[d] = Adds(found, t, d) + sum[d - 1]
                  /\ \A d \in 0..MaxDay : sum[d] \in Nat
<1>1. P!Total(found, t) = (CHOOSE sum : Sums(found, t, MaxDay, sum))[MaxDay]
  BY DEF P!Total, Sums, Adds
<1>2. PICK sum : Sums(found, t, MaxDay, sum) /\ P!Total(found, t) = sum[MaxDay]
  BY <1>1, SumsThere
<1>3. sum[0] = 0 /\ \A d \in P!Days : sum[d] = Adds(found, t, d) + sum[d - 1]
  BY <1>2, DaysAre DEF Sums, P!Days
<1>4. ASSUME NEW e \in 0..MaxDay, sum[e] \notin Nat
      PROVE  FALSE
  <2>. DEFINE Bad == {d \in Nat : d <= MaxDay /\ sum[d] \notin Nat}
  <2>1. Bad \in SUBSET Nat /\ Bad # {}
    BY <1>4, DaysAre
  <2>2. PICK d \in Bad : \A k \in Bad : d <= k
    BY <2>1, SmallestNat
  <2>3. d \in Nat /\ d <= MaxDay /\ d # 0 /\ sum[d] \notin Nat
    BY <1>3
  <2>4. d - 1 \in Nat /\ d - 1 <= MaxDay /\ ~(d <= d - 1) /\ d \in P!Days
    BY <2>3, DaysAre DEF P!Days
  <2>5. sum[d - 1] \in Nat
    BY <2>2, <2>4
  <2>6. Adds(found, t, d) \in Nat
    BY DEF Adds
  <2>. QED BY <1>3, <2>3, <2>4, <2>5, <2>6
<1>. QED BY <1>2, <1>3, <1>4

\* Where every price found asks no less, so do they together.
LEMMA TotalGrows ==
  ASSUME NEW found \in SUBSET P!Days, NEW t, NEW u,
         \A d \in found : t[d].amount \in Nat /\ u[d].amount \in Nat
                          /\ t[d].amount <= u[d].amount
  PROVE  /\ P!Total(found, t) \in Nat /\ P!Total(found, u) \in Nat
         /\ P!Total(found, t) <= P!Total(found, u)
<1>1. PICK sum : /\ P!Total(found, t) = sum[MaxDay] /\ sum[0] = 0
                 /\ \A d \in P!Days : sum[d] = Adds(found, t, d) + sum[d - 1]
                 /\ \A d \in 0..MaxDay : sum[d] \in Nat
  BY TotalIsLast
<1>2. PICK more : /\ P!Total(found, u) = more[MaxDay] /\ more[0] = 0
                  /\ \A d \in P!Days : more[d] = Adds(found, u, d) + more[d - 1]
                  /\ \A d \in 0..MaxDay : more[d] \in Nat
  BY TotalIsLast
<1>. DEFINE Bad == {d \in Nat : d <= MaxDay /\ ~(sum[d] <= more[d])}
<1>3. Bad = {}
  <2>1. SUFFICES ASSUME Bad # {} PROVE FALSE
    OBVIOUS
  <2>2. PICK d \in Bad : \A k \in Bad : d <= k
    BY <2>1, SmallestNat
  <2>3. d \in Nat /\ d <= MaxDay /\ d # 0 /\ ~(sum[d] <= more[d])
    BY <1>1, <1>2
  <2>4. /\ d - 1 \in Nat /\ d - 1 <= MaxDay /\ ~(d <= d - 1) /\ d \in P!Days
        /\ d - 1 \in 0..MaxDay
    BY <2>3, DaysAre DEF P!Days
  <2>5. sum[d - 1] <= more[d - 1]
    BY <2>2, <2>4
  <2>6. /\ Adds(found, t, d) \in Nat /\ Adds(found, u, d) \in Nat
        /\ Adds(found, t, d) <= Adds(found, u, d)
    BY DEF Adds
  <2>7. sum[d - 1] \in Nat /\ more[d - 1] \in Nat
    BY <1>1, <1>2, <2>4
  <2>. QED BY <1>1, <1>2, <2>3, <2>4, <2>5, <2>6, <2>7
<1>. QED BY <1>1, <1>2, <1>3, DaysAre

\* As much for every price found comes to as much as many times.
LEMMA TotalOfSame ==
  ASSUME NEW found \in SUBSET P!Days, NEW t, NEW c \in Nat, \A d \in found : t[d].amount = c
  PROVE  P!Total(found, t) = c * Cardinality(found)
<1>1. PICK sum : /\ P!Total(found, t) = sum[MaxDay] /\ sum[0] = 0
                 /\ \A d \in P!Days : sum[d] = Adds(found, t, d) + sum[d - 1]
                 /\ \A d \in 0..MaxDay : sum[d] \in Nat
  BY TotalIsLast
<1>. DEFINE Upto(n) == {d \in found : d <= n}
            Bad == {d \in Nat : d <= MaxDay /\ sum[d] # c * Cardinality(Upto(d))}
<1>2. Bad = {}
  <2>1. SUFFICES ASSUME Bad # {} PROVE FALSE
    OBVIOUS
  <2>2. PICK d \in Bad : \A k \in Bad : d <= k
    BY <2>1, SmallestNat
  <2>3. d \in Nat /\ d <= MaxDay /\ sum[d] # c * Cardinality(Upto(d))
    OBVIOUS
  <2>4. d # 0
    <3>1. Upto(0) = {}
      <4>1. \A e \in found : ~(e <= 0)
        BY DaysAre
      <4>. QED BY <4>1
    <3>2. c * Cardinality(Upto(0)) = 0
      BY <3>1, FS_EmptySet
    <3>. HIDE DEF Upto
    <3>. QED BY <1>1, <2>3, <3>2
  <2>5. /\ d - 1 \in Nat /\ d - 1 <= MaxDay /\ ~(d <= d - 1) /\ d \in P!Days
        /\ d - 1 \in 0..MaxDay
    BY <2>3, <2>4, DaysAre DEF P!Days
  <2>6. sum[d - 1] = c * Cardinality(Upto(d - 1))
    <3>. HIDE DEF Upto
    <3>. QED BY <2>2, <2>5
  <2>7. Upto(d) = IF d \in found THEN Upto(d - 1) \cup {d} ELSE Upto(d - 1)
    <3>1. \A e \in found : e <= d <=> e <= d - 1 \/ e = d
      BY <2>3, DaysAre
    <3>. QED BY <3>1
  <2>8. /\ IsFiniteSet(Upto(d - 1)) /\ Cardinality(Upto(d - 1)) \in Nat /\ d \notin Upto(d - 1)
    <3>1. Upto(d - 1) \in SUBSET P!Days
      OBVIOUS
    <3>. QED BY <2>5, <3>1, DaysCount, DaysAre, FS_Subset
  <2>9. Cardinality(Upto(d)) = Cardinality(Upto(d - 1)) + (IF d \in found THEN 1 ELSE 0)
    <3>. HIDE DEF Upto
    <3>1. Cardinality(Upto(d - 1) \cup {d}) = Cardinality(Upto(d - 1)) + 1
      BY <2>8, FS_AddElement
    <3>. QED BY <2>7, <2>8, <3>1
  <2>10. Adds(found, t, d) = IF d \in found THEN c ELSE 0
    BY DEF Adds
  <2>11. \A k \in Nat : c * (k + 1) = c + c * k
    OBVIOUS
  <2>. HIDE DEF Upto
  <2>12. CASE d \in found
    <3>1. c * Cardinality(Upto(d)) = c + c * Cardinality(Upto(d - 1))
      BY <2>8, <2>9, <2>11, <2>12
    <3>2. sum[d] = c + sum[d - 1]
      BY <1>1, <2>5, <2>10, <2>12
    <3>. QED BY <2>3, <2>6, <3>1, <3>2
  <2>13. CASE d \notin found
    <3>1. sum[d] = sum[d - 1] /\ Cardinality(Upto(d)) = Cardinality(Upto(d - 1))
      BY <1>1, <2>5, <2>8, <2>9, <2>10, <2>13
    <3>. QED BY <2>3, <2>6, <3>1
  <2>. QED BY <2>12, <2>13
<1>3. Upto(MaxDay) = found
  BY DaysAre
<1>. HIDE DEF Upto
<1>. QED BY <1>1, <1>2, <1>3, DaysAre

\* What a division rounds down to; and more is not rounded to less.
LEMMA RoundsDown ==
  ASSUME NEW n \in Nat, NEW k \in Nat, k # 0
  PROVE  n \div k \in Nat /\ k * (n \div k) <= n /\ n < k * (n \div k) + k
<1>1. n \div k \in Nat
  BY Z3
<1>2. k * (n \div k) <= n
  BY Z3
<1>3. n < k * (n \div k) + k
  BY Z3
<1>. QED BY <1>1, <1>2, <1>3

LEMMA RoundingGrows ==
  ASSUME NEW n \in Nat, NEW m \in Nat, n <= m, NEW k \in Nat, k # 0
  PROVE  n \div k <= m \div k
BY Z3

LEMMA RoundingExact ==
  ASSUME NEW c \in Nat, NEW k \in Nat, k # 0
  PROVE  (2 * (c * k) + k) \div (2 * k) = c
<1>. DEFINE n == 2 * (c * k) + k
            j == 2 * k
            a == n \div j
<1>1. n \in Nat /\ j \in Nat /\ j # 0 /\ n = j * c + k /\ k < j
  OBVIOUS
<1>. HIDE DEF n, j
<1>2. a \in Nat /\ j * a <= n /\ n < j * a + j
  BY <1>1, RoundsDown
<1>. HIDE DEF a
<1>3. \A x \in Nat, y \in Nat : x + 1 <= y => j * x + j <= j * y
  BY <1>1
<1>4. j * c \in Nat /\ j * a \in Nat
  BY <1>1, <1>2
<1>5. ~(a + 1 <= c)
  BY <1>1, <1>2, <1>3, <1>4
<1>6. ~(c + 1 <= a)
  BY <1>1, <1>2, <1>3, <1>4
<1>. QED BY <1>2, <1>5, <1>6 DEF a, n, j

LEMMA AverageGrows ==
  ASSUME NEW found, NEW t, NEW u, found \in SUBSET P!Days, found # {},
         \A d \in found : t[d].amount \in Nat /\ u[d].amount \in Nat
                          /\ t[d].amount <= u[d].amount
  PROVE  /\ P!Average(found, t) \in Nat
         /\ P!Average(found, t) <= P!Average(found, u)
<1>. DEFINE all == Cardinality(found)
<1>1. all \in Nat /\ all # 0 /\ P!Cardinality(found) = all
  BY DaysCount
<1>2. /\ P!Total(found, t) \in Nat /\ P!Total(found, u) \in Nat
      /\ P!Total(found, t) <= P!Total(found, u)
  BY TotalGrows
<1>3. \A s : P!Average(found, s) = (2 * P!Total(found, s) + all) \div (2 * all)
  BY <1>1 DEF P!Average
<1>. HIDE DEF all
<1>4. /\ 2 * P!Total(found, t) + all \in Nat /\ 2 * P!Total(found, u) + all \in Nat
      /\ 2 * P!Total(found, t) + all <= 2 * P!Total(found, u) + all
      /\ 2 * all \in Nat /\ 2 * all # 0
  BY <1>1, <1>2
<1>. QED BY <1>3, <1>4, RoundingGrows, RoundsDown

\* Some price found asks no more than the average, and some no less.
LEMMA AverageBetween ==
  ASSUME NEW found, NEW t, Found(found, t)
  PROVE  /\ P!Average(found, t) \in Nat
         /\ \E d \in found : t[d].amount <= P!Average(found, t)
         /\ \E d \in found : t[d].amount >= P!Average(found, t)
<1>1. found \in SUBSET P!Days /\ found # {} /\ \A d \in found : t[d].amount \in Nat
  BY FoundAmounts DEF Found
<1>. DEFINE same(c) == [d \in found |-> [amount |-> c]]
<1>2. ASSUME NEW c \in Nat
      PROVE  P!Average(found, same(c)) = c /\ \A d \in found : same(c)[d].amount = c
  <2>1. \A d \in found : same(c)[d].amount = c
    OBVIOUS
  <2>. DEFINE all == Cardinality(found)
  <2>2. P!Total(found, same(c)) = c * all
    <3>. HIDE DEF same
    <3>. QED BY <1>1, <2>1, TotalOfSame
  <2>3. all \in Nat /\ all # 0 /\ P!Cardinality(found) = all
    BY <1>1, DaysCount
  <2>4. P!Average(found, same(c)) = (2 * (c * all) + all) \div (2 * all)
    BY <2>2, <2>3 DEF P!Average
  <2>. HIDE DEF all, same
  <2>. QED BY <2>1, <2>3, <2>4, RoundingExact
<1>. HIDE DEF same
<1>3. P!Average(found, t) \in Nat
  BY <1>1, AverageGrows
<1>. DEFINE n == P!Average(found, t)
<1>. HIDE DEF n
<1>4. n \in Nat /\ n = P!Average(found, t)
  BY <1>3 DEF n
<1>5. ASSUME \A d \in found : t[d].amount > n PROVE FALSE
  <2>1. P!Average(found, same(n + 1)) <= P!Average(found, t)
    BY <1>1, <1>2, <1>4, <1>5, AverageGrows
  <2>. QED BY <1>2, <1>4, <2>1
<1>6. ASSUME \A d \in found : t[d].amount < n PROVE FALSE
  <2>1. n - 1 \in Nat
    BY <1>1, <1>4, <1>6
  <2>2. P!Average(found, t) <= P!Average(found, same(n - 1))
    BY <1>1, <1>2, <1>4, <1>6, <2>1, AverageGrows
  <2>. QED BY <1>2, <1>4, <2>1, <2>2
<1>. QED BY <1>1, <1>4, <1>5, <1>6

LEMMA AskedIs ==
  ASSUME NEW q \in P!Asked
  PROVE  /\ q.offering \in P!Priced /\ q.strategy \in P!Strategies
         /\ q.unit \in DOMAIN UnitIsActive \cup {Absent}
         /\ q.among = Absent \/ q.among \in SUBSET P!Priced
         /\ q.market \in P!Markets \cup {Absent} /\ q.priority \in Seq(P!Markets)
         /\ q.zone \in BOOLEAN /\ (q.costs = Absent \/ q.costs \in P!CostsByMarket)
         /\ q.margin \in Nat /\ q.risk \in Nat /\ q.logistics \in Nat \cup {Absent}
         /\ q.manualBase \in Nat \cup {Absent} /\ q.manualFinal \in Nat \cup {Absent}
BY DEF P!Asked, P!Optional

LEMMA AbsentIsNone ==
  /\ Absent \notin Nat /\ Absent \notin P!Priced /\ Absent \notin P!Markets
  /\ Absent \notin DOMAIN UnitIsActive
BY PricesAssumed DEF P!PricingAssumption

LEMMA PackageUnits ==
  \A o \in P!Priced : PackageUnit[o] \in DOMAIN UnitIsActive \cup {Absent}
BY PricesAssumed DEF P!PricingAssumption

\* What a result says.
LEMMA ResultIs ==
  ASSUME NEW q \in P!Asked, NEW base \in Nat, NEW price, NEW logistics \in Nat \cup {Absent},
         NEW r, r = P!BuildResult(q, base, price, logistics, Absent)
  PROVE  /\ r.ok /\ r.base = base /\ r.price = price /\ r # P!Refused
         /\ r.final = base + q.margin + P!Given(logistics, P!Given(q.logistics, 0)) + q.risk
         /\ r.final \in Nat
         /\ P!Given(logistics, P!Given(q.logistics, 0)) \in Nat
<1>. DEFINE buffer == P!Given(logistics, P!Given(q.logistics, 0))
<1>1. buffer \in Nat
  BY AskedIs DEF P!Given
<1>2. r = [ok |-> TRUE, offering |-> q.offering, price |-> price, base |-> base,
           margin |-> q.margin, logistics |-> buffer, risk |-> q.risk,
           final |-> base + q.margin + buffer + q.risk]
  BY DEF P!BuildResult, P!Given
<1>. HIDE DEF buffer
<1>3. /\ r.ok = TRUE /\ r.base = base /\ r.price = price
      /\ r.final = base + q.margin + buffer + q.risk
  BY <1>2
<1>4. r # P!Refused
  <2>1. P!Refused.ok = FALSE
    BY DEF P!Refused
  <2>. QED BY <1>3, <2>1
<1>5. base + q.margin + buffer + q.risk \in Nat
  BY <1>1, AskedIs
<1>. QED BY <1>1, <1>3, <1>4, <1>5 DEF buffer

LEMMA SelectedIs ==
  ASSUME NEW q, NEW S \in SUBSET P!Days, S # {}, NEW t
  PROVE  /\ P!FromSelected(q, S, t) =
              P!BuildResult(q, t[P!Newest(S)].amount, P!Newest(S), Absent, Absent)
         /\ P!Newest(S) \in S
BY NewestIsNewest DEF P!FromSelected

LEMMA CostIsNat ==
  ASSUME NEW q \in P!Asked, NEW m \in P!Markets
  PROVE  P!CostOf(q, m) \in Nat
<1>1. P!GetLogisticsCosts(q) \in P!CostsByMarket
  BY AskedIs, PricesAssumed
     DEF P!GetLogisticsCosts, P!PricingAssumption, P!CostsByMarket, P!Optional
<1>2. P!GetLogisticsCosts(q)[m] \in Nat \cup {Absent}
  BY <1>1 DEF P!CostsByMarket, P!Optional
<1>. QED BY <1>2 DEF P!CostOf, P!Given

\* the prices a strategy selects among, for those that select one
Chosen(q, found, t) ==
  CASE q.strategy = "cheapest" -> P!FindCheapest(found, t)
    [] q.strategy \in {"preferred_market", "single_market"} -> P!OfMarket(found, t, q.market)
    [] q.strategy = "quality_first" -> P!FindQualityFirst(found, t)
    [] q.strategy = "fastest_fulfillment" -> P!FindFastestFulfillment(q, found, t)
    [] q.strategy = "hybrid_landed_cost" -> P!FindHybridLandedCost(q, found, t)
Selecting == {"cheapest", "preferred_market", "single_market", "quality_first",
              "fastest_fulfillment"}

LEMMA RankIs ==
  \A g \in P!Grades : P!Rank(g) \in {1, 2, 3}
BY DEF P!Grades, P!Rank

LEMMA CheapestIs ==
  ASSUME NEW S \in SUBSET P!Days, S # {}, NEW t, \A d \in S : t[d].amount \in Nat
  PROVE  /\ P!FindCheapest(S, t) \in SUBSET S /\ P!FindCheapest(S, t) # {}
         /\ \A d \in P!FindCheapest(S, t), e \in S : t[d].amount <= t[e].amount
<1>. DEFINE value == P!AmountsOf(S, t)
<1>1. \A d \in S : value[d] = t[d].amount
  BY DEF P!AmountsOf
<1>2. \A d \in S : value[d] \in Int /\ 0 - 3 <= value[d]
  BY <1>1
<1>. HIDE DEF value
<1>3. P!Least(S, value) \in SUBSET S /\ P!Least(S, value) # {}
  BY <1>2, LeastIsThere
<1>4. \A d \in P!Least(S, value), e \in S : t[d].amount <= t[e].amount
  BY <1>1 DEF P!Least
<1>. QED BY <1>3, <1>4 DEF P!FindCheapest, value

\* the prices of the best grade there is
OfBest(found, t) == P!Least(found, [d \in found |-> 0 - P!Rank(t[d].grade)])

LEMMA BestIs ==
  ASSUME NEW found, NEW t, Found(found, t)
  PROVE  /\ OfBest(found, t) \in SUBSET found /\ OfBest(found, t) # {}
         /\ \A d \in OfBest(found, t), e \in found :
              P!Rank(t[e].grade) <= P!Rank(t[d].grade)
<1>. DEFINE value == [d \in found |-> 0 - P!Rank(t[d].grade)]
<1>1. \A d \in found : P!Rank(t[d].grade) \in {1, 2, 3}
  BY ObservedRow, RankIs DEF Found
<1>2. \A d \in found : value[d] = 0 - P!Rank(t[d].grade)
  OBVIOUS
<1>. HIDE DEF value
<1>3. P!Least(found, value) \in SUBSET found /\ P!Least(found, value) # {}
  <2>1. \A d \in found : value[d] \in Int /\ 0 - 3 <= value[d]
    BY <1>1, <1>2
  <2>. QED BY <2>1, LeastIsThere DEF Found
<1>4. \A d \in P!Least(found, value), e \in found :
        P!Rank(t[e].grade) <= P!Rank(t[d].grade)
  BY <1>1, <1>2 DEF P!Least
<1>. QED BY <1>3, <1>4 DEF OfBest, value

LEMMA LandedIs ==
  ASSUME NEW q \in P!Asked, NEW found, NEW t, Found(found, t)
  PROVE  LET landed(d) == t[d].amount + P!CostOf(q, t[d].market)
         IN /\ \A d \in found : landed(d) \in Nat /\ P!CostOf(q, t[d].market) \in Nat
            /\ P!FindHybridLandedCost(q, found, t) \in SUBSET found
            /\ P!FindHybridLandedCost(q, found, t) # {}
            /\ \A d \in P!FindHybridLandedCost(q, found, t), e \in found : landed(d) <= landed(e)
<1>. DEFINE landed(d) == t[d].amount + P!CostOf(q, t[d].market)
            value == [d \in found |-> landed(d)]
<1>1. \A d \in found : landed(d) \in Nat /\ P!CostOf(q, t[d].market) \in Nat
  BY ObservedRow, CostIsNat DEF Found
<1>2. \A d \in found : value[d] = landed(d)
  OBVIOUS
<1>3. P!FindHybridLandedCost(q, found, t) = P!Least(found, value)
  BY DEF P!FindHybridLandedCost
<1>. HIDE DEF value, landed
<1>4. P!Least(found, value) \in SUBSET found /\ P!Least(found, value) # {}
  <2>1. \A d \in found : value[d] \in Int /\ 0 - 3 <= value[d]
    BY <1>1, <1>2
  <2>. QED BY <2>1, LeastIsThere DEF Found
<1>5. \A d \in P!Least(found, value), e \in found : landed(d) <= landed(e)
  BY <1>2 DEF P!Least
<1>. QED BY <1>1, <1>3, <1>4, <1>5 DEF landed

LEMMA ChosenIs ==
  ASSUME NEW q \in P!Asked, NEW found, NEW t, Found(found, t),
         q.strategy \in Selecting \cup {"hybrid_landed_cost"}
  PROVE  Chosen(q, found, t) \in SUBSET found
<1>1. P!FindCheapest(found, t) \in SUBSET found
  BY CheapestIs, FoundAmounts DEF Found
<1>2. P!FindQualityFirst(found, t) \in SUBSET found
  <2>. DEFINE best == OfBest(found, t)
  <2>1. best \in SUBSET found /\ best # {} /\ best \in SUBSET P!Days
    BY BestIs DEF Found
  <2>2. P!FindQualityFirst(found, t) = P!FindCheapest(best, t)
    BY DEF P!FindQualityFirst, OfBest
  <2>. HIDE DEF best
  <2>. QED BY <2>1, <2>2, CheapestIs, FoundAmounts
<1>3. P!OfMarket(found, t, q.market) \in SUBSET found
  BY DEF P!OfMarket
<1>4. P!FindFastestFulfillment(q, found, t) \in SUBSET found
  BY DEF P!FindFastestFulfillment
<1>5. P!FindHybridLandedCost(q, found, t) \in SUBSET found
  BY LandedIs
<1>. QED BY <1>1, <1>2, <1>3, <1>4, <1>5 DEF Chosen, Selecting

\* What a strategy comes to: a selected price, an aggregate, or a landed cost.
LEMMA StrategyIs ==
  ASSUME NEW q, NEW found, NEW t
  PROVE  /\ q.strategy \in Selecting =>
              P!ByStrategy(q, found, t) = P!FromSelected(q, Chosen(q, found, t), t)
         /\ q.strategy = "average" =>
              P!ByStrategy(q, found, t) = P!FromAggregate(q, P!Average(found, t))
         /\ q.strategy = "median" =>
              P!ByStrategy(q, found, t) = P!FromAggregate(q, P!Median(found, t))
         /\ q.strategy = "hybrid_landed_cost" =>
              P!ByStrategy(q, found, t) = P!CalculateHybridLandedCost(q, found, t)
BY DEF P!ByStrategy, Chosen, Selecting

\* two requests that a strategy does not tell apart
Alike(q, r) ==
  /\ q.strategy = r.strategy /\ q.offering = r.offering /\ q.market = r.market
  /\ q.priority = r.priority /\ q.zone = r.zone /\ q.costs = r.costs
  /\ q.margin = r.margin /\ q.logistics = r.logistics /\ q.risk = r.risk

LEMMA AlikeResults ==
  ASSUME NEW q, NEW r, Alike(q, r), NEW base, NEW price, NEW logistics, NEW final
  PROVE  P!BuildResult(q, base, price, logistics, final) =
         P!BuildResult(r, base, price, logistics, final)
BY DEF Alike, P!BuildResult

LEMMA AlikeSelected ==
  ASSUME NEW q, NEW r, Alike(q, r), NEW S \in SUBSET P!Days, NEW t, NEW u,
         \A d \in S : t[d] = u[d]
  PROVE  P!FromSelected(q, S, t) = P!FromSelected(r, S, u)
<1>1. CASE S = {}
  BY <1>1 DEF P!FromSelected
<1>2. CASE S # {}
  <2>1. t[P!Newest(S)] = u[P!Newest(S)]
    BY <1>2, NewestIsNewest
  <2>. QED BY <1>2, <2>1, SelectedIs, AlikeResults
<1>. QED BY <1>1, <1>2

LEMMA SameCheapest ==
  ASSUME NEW S, NEW t, NEW u, \A d \in S : t[d].amount = u[d].amount
  PROVE  P!FindCheapest(S, t) = P!FindCheapest(S, u)
<1>1. P!AmountsOf(S, t) = P!AmountsOf(S, u)
  BY DEF P!AmountsOf
<1>. QED BY <1>1 DEF P!FindCheapest

LEMMA SameCosts ==
  ASSUME NEW q, NEW r, Alike(q, r)
  PROVE  \A m : P!CostOf(q, m) = P!CostOf(r, m)
BY DEF Alike, P!CostOf, P!GetLogisticsCosts

LEMMA SameOfMarket ==
  ASSUME NEW found, NEW t, NEW u, \A d \in found : t[d].market = u[d].market
  PROVE  \A m : P!OfMarket(found, t, m) = P!OfMarket(found, u, m)
BY DEF P!OfMarket

LEMMA SameFastest ==
  ASSUME NEW q, NEW r, Alike(q, r), NEW found, NEW t, NEW u,
         \A d \in found : t[d].market = u[d].market
  PROVE  P!FindFastestFulfillment(q, found, t) = P!FindFastestFulfillment(r, found, u)
<1>. DEFINE with(x, s) == {i \in DOMAIN x.priority : P!OfMarket(found, s, x.priority[i]) # {}}
<1>1. with(q, t) = with(r, u)
  BY SameOfMarket DEF Alike
<1>. DEFINE of(x, s, w) == {d \in found : \E i \in w : /\ s[d].market = x.priority[i]
                                                     /\ \A j \in w : i <= j}
<1>2. \A x, s : P!FindFastestFulfillment(x, found, s) =
        IF x.priority = <<>> THEN found ELSE of(x, s, with(x, s))
  BY DEF P!FindFastestFulfillment
<1>3. q.priority = r.priority
  BY DEF Alike
<1>. HIDE DEF with
<1>4. of(q, t, with(q, t)) = of(r, u, with(q, t))
  BY <1>3
<1>. HIDE DEF of
<1>. QED BY <1>1, <1>2, <1>3, <1>4

LEMMA SameBest ==
  ASSUME NEW found, NEW t, NEW u, \A d \in found : t[d].grade = u[d].grade
  PROVE  OfBest(found, t) = OfBest(found, u)
<1>1. [d \in found |-> 0 - P!Rank(t[d].grade)] = [d \in found |-> 0 - P!Rank(u[d].grade)]
  OBVIOUS
<1>. QED BY <1>1 DEF OfBest

\* A strategy goes by the prices found, whatever else the table holds.
LEMMA StrategyReadsFound ==
  ASSUME NEW q \in P!Asked, NEW r \in P!Asked, Alike(q, r), q.strategy # "manual_override",
         NEW found, NEW t, NEW u, Found(found, t), Found(found, u), \A d \in found : t[d] = u[d]
  PROVE  P!ByStrategy(q, found, t) = P!ByStrategy(r, found, u)
<1>1. found \in SUBSET P!Days /\ found # {} /\ \A d \in found : t[d].amount \in Nat
  BY FoundAmounts DEF Found
<1>2. q.strategy \in Selecting \cup {"average", "median", "hybrid_landed_cost"}
  BY AskedIs DEF P!Strategies, Selecting
<1>3. CASE q.strategy \in Selecting
  <2>1. P!FindQualityFirst(found, t) = P!FindQualityFirst(found, u)
    <3>1. OfBest(found, t) = OfBest(found, u) /\ OfBest(found, t) \in SUBSET found
      BY SameBest, BestIs
    <3>2. P!FindCheapest(OfBest(found, t), t) = P!FindCheapest(OfBest(found, t), u)
      BY <3>1, SameCheapest
    <3>. QED BY <3>1, <3>2 DEF P!FindQualityFirst, OfBest
  <2>2. P!FindCheapest(found, t) = P!FindCheapest(found, u)
    BY SameCheapest
  <2>3. P!OfMarket(found, t, q.market) = P!OfMarket(found, u, r.market)
    BY SameOfMarket DEF Alike
  <2>4. P!FindFastestFulfillment(q, found, t) = P!FindFastestFulfillment(r, found, u)
    BY SameFastest
  <2>5. Chosen(q, found, t) = Chosen(r, found, u) /\ r.strategy \in Selecting
    BY <1>3, <2>1, <2>2, <2>3, <2>4 DEF Chosen, Selecting, Alike
  <2>6. Chosen(q, found, t) \in SUBSET found
    BY <1>3, ChosenIs
  <2>7. P!FromSelected(q, Chosen(q, found, t), t) = P!FromSelected(r, Chosen(q, found, t), u)
    BY <1>1, <2>6, AlikeSelected
  <2>. QED BY <1>3, <2>5, <2>7, StrategyIs
<1>4. CASE q.strategy = "average"
  <2>1. P!Average(found, t) = P!Average(found, u)
    <3>1. /\ P!Average(found, t) \in Nat /\ P!Average(found, u) \in Nat
          /\ P!Average(found, t) <= P!Average(found, u)
          /\ P!Average(found, u) <= P!Average(found, t)
      BY <1>1, AverageGrows
    <3>. QED BY <3>1
  <2>2. r.strategy = "average"
    BY <1>4 DEF Alike
  <2>. QED BY <1>4, <2>1, <2>2, StrategyIs, AlikeResults DEF P!FromAggregate
<1>5. CASE q.strategy = "median"
  <2>1. P!Median(found, t) = P!Median(found, u)
    <3>1. /\ P!Median(found, t) \in Nat /\ P!Median(found, u) \in Nat
          /\ P!Median(found, t) <= P!Median(found, u)
          /\ P!Median(found, u) <= P!Median(found, t)
      BY <1>1, MedianGrows, MedianInTheMiddle
    <3>. QED BY <3>1
  <2>2. r.strategy = "median"
    BY <1>5 DEF Alike
  <2>. QED BY <1>5, <2>1, <2>2, StrategyIs, AlikeResults DEF P!FromAggregate
<1>6. CASE q.strategy = "hybrid_landed_cost"
  <2>1. P!FindHybridLandedCost(q, found, t) = P!FindHybridLandedCost(r, found, u)
    <3>1. [d \in found |-> t[d].amount + P!CostOf(q, t[d].market)] =
          [d \in found |-> u[d].amount + P!CostOf(r, u[d].market)]
      BY SameCosts
    <3>. QED BY <3>1 DEF P!FindHybridLandedCost
  <2>. DEFINE d == P!Newest(P!FindHybridLandedCost(q, found, t))
  <2>2. d \in found
    BY <1>1, LandedIs, NewestIsNewest
  <2>3. d = P!Newest(P!FindHybridLandedCost(q, found, t))
    OBVIOUS
  <2>. HIDE DEF d
  <2>4. /\ t[d] = u[d] /\ r.strategy = "hybrid_landed_cost" /\ q.logistics = r.logistics
        /\ P!CostOf(q, t[d].market) = P!CostOf(r, u[d].market)
    <3>1. r.strategy = "hybrid_landed_cost" /\ q.logistics = r.logistics
      BY <1>6 DEF Alike
    <3>2. \A m : P!CostOf(q, m) = P!CostOf(r, m)
      BY SameCosts
    <3>. QED BY <2>2, <3>1, <3>2
  <2>. DEFINE cost == P!Given(q.logistics, P!CostOf(q, t[d].market))
  <2>5. /\ P!CalculateHybridLandedCost(q, found, t) =
             P!BuildResult(q, t[d].amount, d, cost, Absent)
        /\ P!CalculateHybridLandedCost(r, found, u) =
             P!BuildResult(r, t[d].amount, d, cost, Absent)
    BY <2>1, <2>3, <2>4 DEF P!CalculateHybridLandedCost
  <2>. HIDE DEF cost
  <2>. QED BY <1>6, <2>4, <2>5, StrategyIs, AlikeResults
<1>. QED BY <1>2, <1>3, <1>4, <1>5, <1>6

\* What is found are prices of the offering, in the unit, known and in range.
LEMMA FindFinds ==
  ASSUME NEW q \in P!Asked, NEW unit, NEW t, Table(t)
  PROVE  LET found == P!FindMarketPricesForStrategy(q, unit, t)
         IN /\ found \in SUBSET P!Days
            /\ \A d \in found : t[d] \in P!Observed
            /\ found # {} => Found(found, t)
<1>1. \A d \in P!Days : t[d] # P!NoRow => t[d] \in P!Observed
  BY DEF Table
<1>. QED BY <1>1 DEF P!FindMarketPricesForStrategy, Found

LEMMA CalculationIs ==
  ASSUME NEW q, NEW t
  PROVE  LET unit == P!ResolvePriceUnit(q)
             found == P!FindMarketPricesForStrategy(q, unit, t)
         IN P!CalculateStrategy(q, t) =
              IF unit = Absent THEN P!Refused
              ELSE IF q.strategy = "manual_override" THEN P!CalculateManualOverride(q)
              ELSE IF found = {} THEN P!Refused ELSE P!ByStrategy(q, found, t)
BY DEF P!CalculateStrategy

\* Known prices are all that a calculation reads.
LEMMA KnownIs ==
  ASSUME NEW t, Table(t)
  PROVE  /\ Table(P!Known(t))
         /\ \A d \in P!Days :
              /\ P!Known(t)[d] # P!NoRow <=> t[d] # P!NoRow /\ t[d].amount > 0
              /\ P!Known(t)[d] # P!NoRow => P!Known(t)[d] = t[d] /\ t[d].amount > 0
BY DEF P!Known, Table

LEMMA KnownFound ==
  ASSUME NEW q \in P!Asked, NEW unit, NEW t, Table(t)
  PROVE  P!FindMarketPricesForStrategy(q, unit, P!Known(t)) =
         P!FindMarketPricesForStrategy(q, unit, t)
<1>1. \A d \in P!Days : /\ P!Known(t)[d] # P!NoRow <=> t[d] # P!NoRow /\ t[d].amount > 0
                        /\ P!Known(t)[d] # P!NoRow => P!Known(t)[d] = t[d] /\ t[d].amount > 0
  BY KnownIs
<1>. QED BY <1>1 DEF P!FindMarketPricesForStrategy

LEMMA KnownSuffices ==
  ASSUME NEW q \in P!Asked, NEW t, Table(t)
  PROVE  P!CalculateStrategy(q, P!Known(t)) = P!CalculateStrategy(q, t)
<1>. DEFINE unit == P!ResolvePriceUnit(q)
            found == P!FindMarketPricesForStrategy(q, unit, t)
<1>1. P!FindMarketPricesForStrategy(q, unit, P!Known(t)) = found
  BY KnownFound
<1>2. ASSUME found # {}, q.strategy # "manual_override"
      PROVE  P!ByStrategy(q, found, P!Known(t)) = P!ByStrategy(q, found, t)
  <2>1. Found(found, t) /\ Found(found, P!Known(t))
    BY <1>1, <1>2, FindFinds, KnownIs
  <2>2. \A d \in found : t[d] = P!Known(t)[d]
    BY KnownIs DEF P!FindMarketPricesForStrategy
  <2>3. Alike(q, q)
    BY DEF Alike
  <2>. HIDE DEF found
  <2>. QED BY <1>2, <2>1, <2>2, <2>3, StrategyReadsFound
<1>. HIDE DEF found, unit
<1>. QED BY <1>1, <1>2, CalculationIs DEF found, unit

LEMMA PlainResult ==
  ASSUME NEW q \in P!Asked, NEW base \in Nat, NEW price, NEW result,
         result = P!BuildResult(q, base, price, Absent, Absent)
  PROVE  /\ result.ok /\ result.base = base /\ result.price = price
         /\ result.final = base + q.margin + P!Given(q.logistics, 0) + q.risk
         /\ P!Given(q.logistics, 0) \in Nat
<1>1. \A l \in Nat \cup {Absent} : result = P!BuildResult(q, base, price, l, Absent) =>
        /\ result.ok /\ result.base = base /\ result.price = price
        /\ result.final = base + q.margin + P!Given(l, P!Given(q.logistics, 0)) + q.risk
  BY ResultIs
<1>2. Absent \in Nat \cup {Absent} /\ \A n : P!Given(Absent, n) = n
  BY DEF P!Given
<1>3. P!Given(q.logistics, 0) \in Nat
  BY AskedIs DEF P!Given
<1>. QED BY <1>1, <1>2, <1>3

LEMMA RowsAreTable ==
  ASSUME P!TypeOK
  PROVE  Table(rows)
BY PricesAssumed DEF P!TypeOK, P!PricingAssumption, Table

LEMMA TargetIs ==
  ASSUME NEW q \in P!Asked, NEW x, x.offering \in P!Priced, x.unit \in DOMAIN UnitIsActive
  PROVE  /\ P!ForTarget(q, x) \in P!Asked
         /\ P!ForTarget(q, x).offering = x.offering /\ P!ForTarget(q, x).unit = x.unit
         /\ P!ForTarget(q, x).strategy = q.strategy
         /\ P!ForTarget(q, x).manualBase = Absent /\ P!ForTarget(q, x).manualFinal = Absent
         /\ P!ForTarget(q, x).from = q.from /\ P!ForTarget(q, x).to = q.to
         /\ P!ForTarget(q, x).priority = q.priority
BY DEF P!ForTarget, P!Asked, P!Optional

\* the prices a bulk calculation looks for targets among
ForBulk(q, t) ==
  {d \in P!Days : /\ t[d] # P!NoRow /\ t[d].amount > 0 /\ P!InRange(d, q)
                  /\ t[d].offering \in P!Given(q.among, P!Priced)
                  /\ t[d].unit = P!Given(q.unit, t[d].unit)}
OfOffering(q, t, o) == {d \in ForBulk(q, t) : t[d].offering = o}

LEMMA TargetsAre ==
  ASSUME NEW q \in P!Asked, NEW t, Table(t)
  PROVE  /\ \A x \in P!FindBulkTargets(q, t) :
              \E o \in P!Priced : \E d \in OfOffering(q, t, o) :
                /\ o \in P!Given(q.among, P!Priced)
                /\ x = [offering |-> o, unit |-> t[d].unit]
                /\ d = P!Newest(OfOffering(q, t, o))
         /\ \A d \in ForBulk(q, t) :
              [offering |-> t[d].offering,
               unit |-> t[P!Newest(OfOffering(q, t, t[d].offering))].unit]
                \in P!FindBulkTargets(q, t)
         /\ \A d \in ForBulk(q, t) : t[d] \in P!Observed
<1>1. P!FindBulkTargets(q, t) =
        {[offering |-> o, unit |-> t[P!Newest(OfOffering(q, t, o))].unit] :
           o \in {t[d].offering : d \in ForBulk(q, t)}}
  BY DEF P!FindBulkTargets, ForBulk, OfOffering
<1>2. \A d \in ForBulk(q, t) : /\ t[d] \in P!Observed /\ t[d].offering \in P!Priced
                               /\ t[d].offering \in P!Given(q.among, P!Priced)
                               /\ d \in OfOffering(q, t, t[d].offering)
  BY ObservedRow DEF ForBulk, Table, OfOffering
<1>3. \A o : OfOffering(q, t, o) \in SUBSET P!Days
  BY DEF OfOffering, ForBulk
<1>4. ASSUME NEW d \in ForBulk(q, t)
      PROVE  P!Newest(OfOffering(q, t, t[d].offering)) \in OfOffering(q, t, t[d].offering)
  BY <1>2, <1>3, NewestIsNewest
<1>. QED BY <1>1, <1>2, <1>4

LEMMA KnownTargets ==
  ASSUME NEW q \in P!Asked, NEW t, Table(t)
  PROVE  P!FindBulkTargets(q, P!Known(t)) = P!FindBulkTargets(q, t)
<1>1. \A d \in P!Days : /\ P!Known(t)[d] # P!NoRow <=> t[d] # P!NoRow /\ t[d].amount > 0
                        /\ P!Known(t)[d] # P!NoRow => P!Known(t)[d] = t[d] /\ t[d].amount > 0
  BY KnownIs
<1>2. ForBulk(q, P!Known(t)) = ForBulk(q, t) /\ \A d \in ForBulk(q, t) : P!Known(t)[d] = t[d]
  BY <1>1 DEF ForBulk
<1>3. ForBulk(q, t) \in SUBSET P!Days
  BY DEF ForBulk
<1>. DEFINE of(s, o) == {d \in ForBulk(q, s) : s[d].offering = o}
            target(s, o) == [offering |-> o, unit |-> s[P!Newest(of(s, o))].unit]
<1>4. \A s : P!FindBulkTargets(q, s) = {target(s, o) : o \in {s[d].offering : d \in ForBulk(q, s)}}
  BY DEF P!FindBulkTargets, ForBulk
<1>5. \A o : of(P!Known(t), o) = of(t, o)
  BY <1>2
<1>6. {P!Known(t)[d].offering : d \in ForBulk(q, P!Known(t))} =
        {t[d].offering : d \in ForBulk(q, t)}
  BY <1>2
<1>7. ASSUME NEW o \in {t[d].offering : d \in ForBulk(q, t)}
      PROVE  target(P!Known(t), o) = target(t, o)
  <2>1. of(t, o) \in SUBSET P!Days /\ of(t, o) # {}
    BY <1>3
  <2>2. P!Newest(of(t, o)) \in of(t, o)
    BY <2>1, NewestIsNewest
  <2>3. P!Newest(of(t, o)) \in ForBulk(q, t)
    BY <2>2
  <2>4. P!Known(t)[P!Newest(of(t, o))] = t[P!Newest(of(t, o))]
    BY <1>2, <2>3
  <2>5. P!Newest(of(P!Known(t), o)) = P!Newest(of(t, o))
    BY <1>5
  <2>. HIDE DEF of
  <2>. QED BY <2>4, <2>5
<1>. DEFINE offerings == {t[d].offering : d \in ForBulk(q, t)}
<1>. HIDE DEF target, of
<1>8. /\ P!FindBulkTargets(q, P!Known(t)) = {target(P!Known(t), o) : o \in offerings}
      /\ P!FindBulkTargets(q, t) = {target(t, o) : o \in offerings}
  BY <1>4, <1>6, Zenon
<1>. HIDE DEF offerings
<1>9. \A o \in offerings : target(P!Known(t), o) = target(t, o)
  BY <1>7 DEF offerings
<1>. QED BY <1>8, <1>9

LEMMA TargetsAsked ==
  ASSUME NEW q \in P!Asked, NEW t, Table(t), NEW x \in P!FindBulkTargets(q, t)
  PROVE  /\ P!ForTarget(q, x) \in P!Asked
         /\ x.offering \in P!Priced /\ x.unit \in DOMAIN UnitIsActive
<1>1. PICK o \in P!Priced : \E d \in OfOffering(q, t, o) : x = [offering |-> o, unit |-> t[d].unit]
  BY TargetsAre
<1>2. PICK d \in OfOffering(q, t, o) : x = [offering |-> o, unit |-> t[d].unit]
  BY <1>1
<1>3. t[d].unit \in DOMAIN UnitIsActive
  <2>1. d \in ForBulk(q, t)
    BY DEF OfOffering
  <2>. QED BY <2>1, TargetsAre, ObservedRow
<1>4. x.offering \in P!Priced /\ x.unit \in DOMAIN UnitIsActive
  BY <1>2, <1>3
<1>. QED BY <1>4, TargetIs

LEMMA KnownBulk ==
  ASSUME NEW q \in P!Asked, NEW t, Table(t)
  PROVE  P!CalculateBulk(q, P!Known(t)) = P!CalculateBulk(q, t)
<1>. DEFINE results(s) ==
              {P!CalculateStrategy(P!ForTarget(q, x), s) : x \in P!FindBulkTargets(q, t)}
<1>1. results(P!Known(t)) = results(t)
  BY TargetsAsked, KnownSuffices
<1>2. \A s : P!FindBulkTargets(q, s) = P!FindBulkTargets(q, t) =>
        P!CalculateBulk(q, s) =
          IF \/ results(s) = {}
             \/ P!Refused \in results(s)
             \/ (q.unit # Absent /\ ~UnitIsActive[q.unit])
          THEN P!Refused ELSE [ok |-> TRUE, results |-> results(s)]
  BY DEF P!CalculateBulk
<1>3. P!FindBulkTargets(q, P!Known(t)) = P!FindBulkTargets(q, t)
  BY KnownTargets
<1>. HIDE DEF results
<1>. DEFINE answer(S) ==
       IF S = {} \/ P!Refused \in S \/ (q.unit # Absent /\ ~UnitIsActive[q.unit])
       THEN P!Refused ELSE [ok |-> TRUE, results |-> S]
<1>4. /\ P!CalculateBulk(q, P!Known(t)) = answer(results(P!Known(t)))
      /\ P!CalculateBulk(q, t) = answer(results(t))
  BY <1>2, <1>3, Zenon
<1>. HIDE DEF answer
<1>. QED BY <1>1, <1>4

\* A calculation that is not refused, and not of a manual price, finds what is in scope.
LEMMA AnsweredFrom ==
  ASSUME NEW q \in P!Asked, P!TypeOK, P!CalculateStrategy(q, rows).ok,
         q.strategy # "manual_override"
  PROVE  LET scope == P!InScope(q, PackageUnit[q.offering])
         IN /\ Found(scope, rows)
            /\ P!CalculateStrategy(q, rows) = P!ByStrategy(q, scope, rows)
<1>. DEFINE unit == P!ResolvePriceUnit(q)
            found == P!FindMarketPricesForStrategy(q, unit, rows)
            scope == P!InScope(q, PackageUnit[q.offering])
<1>1. P!CalculateStrategy(q, rows) # P!Refused
  BY DEF P!Refused
<1>2. unit # Absent /\ found # {} /\ P!CalculateStrategy(q, rows) = P!ByStrategy(q, found, rows)
  BY <1>1, CalculationIs
<1>3. unit = PackageUnit[q.offering]
  BY <1>2 DEF P!ResolvePriceUnit
<1>4. found = scope
  <2>1. \A d \in P!Days : P!Known(rows)[d] # P!NoRow <=> rows[d] # P!NoRow /\ rows[d].amount > 0
    BY RowsAreTable, KnownIs
  <2>. QED BY <1>3, <2>1 DEF P!InScope, P!FindMarketPricesForStrategy
<1>5. Found(found, rows)
  BY <1>2, RowsAreTable, FindFinds
<1>. QED BY <1>2, <1>4, <1>5

LEMMA Calculated ==
  ASSUME P!TypeOK
  PROVE  P!CalculatedAsDefined
<1>. SUFFICES ASSUME NEW q \in Questions
              PROVE  LET result == P!CalculateStrategy(q, rows)
                         scope == P!InScope(q, PackageUnit[q.offering])
                         AtMost(n) == {d \in scope : rows[d].amount <= n}
                         NoLess(n) == {d \in scope : rows[d].amount >= n}
                         HalfOf(S) == 2 * P!Cardinality(S) >= P!Cardinality(scope)
                     IN /\ result = P!CalculateStrategy(q, P!Known(rows))
                        /\ P!CalculateBulk(q, rows) = P!CalculateBulk(q, P!Known(rows))
                        /\ result.ok /\ q.strategy # "manual_override" =>
                             /\ AtMost(result.base) # {} /\ NoLess(result.base) # {}
                             /\ q.strategy = "cheapest" => NoLess(result.base) = scope
                             /\ q.strategy = "median" =>
                                  HalfOf(AtMost(result.base)) /\ HalfOf(NoLess(result.base))
                             /\ q.strategy = "quality_first" => \A d \in scope :
                                  P!Rank(rows[d].grade) <= P!Rank(rows[result.price].grade)
                             /\ q.strategy \in {"preferred_market", "single_market"} =>
                                  result.price = CHOOSE d \in scope : /\ rows[d].market = q.market
                                    /\ \A e \in scope : rows[e].market = q.market => e <= d
  BY DEF P!CalculatedAsDefined
<1>1. q \in P!Asked
  BY PricesAssumed DEF P!PricingAssumption
<1>2. Table(rows)
  BY RowsAreTable
<1>3. P!CalculateStrategy(q, rows) = P!CalculateStrategy(q, P!Known(rows))
  BY <1>1, <1>2, KnownSuffices
<1>4. P!CalculateBulk(q, rows) = P!CalculateBulk(q, P!Known(rows))
  BY <1>1, <1>2, KnownBulk
<1>. DEFINE result == P!CalculateStrategy(q, rows)
            scope == P!InScope(q, PackageUnit[q.offering])
<1>5. ASSUME result.ok, q.strategy # "manual_override"
      PROVE  /\ UpTo(scope, rows, result.base) # {} /\ AtLeast(scope, rows, result.base) # {}
             /\ q.strategy = "cheapest" => AtLeast(scope, rows, result.base) = scope
             /\ q.strategy = "median" =>
                  /\ 2 * Cardinality(UpTo(scope, rows, result.base)) >= Cardinality(scope)
                  /\ 2 * Cardinality(AtLeast(scope, rows, result.base)) >= Cardinality(scope)
             /\ q.strategy = "quality_first" => \A d \in scope :
                  P!Rank(rows[d].grade) <= P!Rank(rows[result.price].grade)
             /\ q.strategy \in {"preferred_market", "single_market"} =>
                  result.price = P!Newest(P!OfMarket(scope, rows, q.market))
  <2>1. Found(scope, rows) /\ result = P!ByStrategy(q, scope, rows)
    BY <1>1, <1>5, AnsweredFrom
  <2>. HIDE DEF result, scope
  <2>2. scope \in SUBSET P!Days /\ scope # {} /\ \A d \in scope : rows[d].amount \in Nat
    BY <2>1, FoundAmounts DEF Found
  <2>3. q.strategy \in Selecting \cup {"average", "median", "hybrid_landed_cost"}
    BY <1>1, <1>5, AskedIs DEF P!Strategies, Selecting
  <2>4. \A d \in scope : result.base = rows[d].amount =>
          UpTo(scope, rows, result.base) # {} /\ AtLeast(scope, rows, result.base) # {}
    BY <2>2 DEF UpTo, AtLeast
  <2>5. CASE q.strategy \in Selecting
    <3>. DEFINE S == Chosen(q, scope, rows)
                d == P!Newest(S)
    <3>1. S \in SUBSET scope
      BY <1>1, <2>1, <2>5, ChosenIs
    <3>2. S # {}
      <4>1. result = P!FromSelected(q, S, rows)
        BY <2>1, <2>5, StrategyIs
      <4>2. result # P!Refused
        BY <1>5 DEF P!Refused
      <4>. HIDE DEF S
      <4>. QED BY <4>1, <4>2 DEF P!FromSelected
    <3>3. d \in S /\ d \in scope
      BY <2>2, <3>1, <3>2, NewestIsNewest
    <3>4. result.base = rows[d].amount /\ result.price = d
      <4>1. result = P!BuildResult(q, rows[d].amount, d, Absent, Absent)
        BY <2>1, <2>2, <2>5, <3>1, <3>2, StrategyIs, SelectedIs
      <4>. HIDE DEF d
      <4>. QED BY <1>1, <2>2, <3>3, <4>1, PlainResult
    <3>5. q.strategy = "cheapest" => AtLeast(scope, rows, result.base) = scope
      <4>1. q.strategy = "cheapest" => S = P!FindCheapest(scope, rows)
        BY DEF Chosen
      <4>2. \A x \in P!FindCheapest(scope, rows), e \in scope : rows[x].amount <= rows[e].amount
        BY <2>2, CheapestIs
      <4>. HIDE DEF S, d
      <4>. QED BY <2>2, <3>3, <3>4, <4>1, <4>2 DEF AtLeast
    <3>6. q.strategy = "quality_first" => \A e \in scope :
            P!Rank(rows[e].grade) <= P!Rank(rows[result.price].grade)
      <4>1. q.strategy = "quality_first" => S = P!FindCheapest(OfBest(scope, rows), rows)
        BY DEF Chosen, OfBest, P!FindQualityFirst
      <4>2. /\ OfBest(scope, rows) \in SUBSET scope /\ OfBest(scope, rows) # {}
            /\ \A x \in OfBest(scope, rows), e \in scope :
                 P!Rank(rows[e].grade) <= P!Rank(rows[x].grade)
        BY <2>1, BestIs
      <4>3. P!FindCheapest(OfBest(scope, rows), rows) \in SUBSET OfBest(scope, rows)
        BY <2>2, <4>2, CheapestIs
      <4>. HIDE DEF S, d
      <4>. QED BY <3>3, <3>4, <4>1, <4>2, <4>3
    <3>7. q.strategy \in {"preferred_market", "single_market"} =>
            result.price = P!Newest(P!OfMarket(scope, rows, q.market))
      <4>1. q.strategy \in {"preferred_market", "single_market"} =>
              S = P!OfMarket(scope, rows, q.market)
        BY DEF Chosen
      <4>. HIDE DEF S
      <4>. QED BY <3>4, <4>1
    <3>8. q.strategy # "median"
      BY <2>5 DEF Selecting
    <3>. HIDE DEF S, d
    <3>. QED BY <2>4, <3>3, <3>4, <3>5, <3>6, <3>7, <3>8
  <2>6. CASE q.strategy = "average"
    <3>1. P!Average(scope, rows) \in Nat /\ result.base = P!Average(scope, rows)
      <4>1. P!Average(scope, rows) \in Nat
        BY <2>1, AverageBetween
      <4>2. result = P!BuildResult(q, P!Average(scope, rows), Absent, Absent, Absent)
        BY <2>1, <2>6, StrategyIs DEF P!FromAggregate
      <4>. QED BY <1>1, <4>1, <4>2, PlainResult
    <3>. QED BY <2>1, <2>6, <3>1, AverageBetween DEF UpTo, AtLeast
  <2>7. CASE q.strategy = "median"
    <3>1. P!Median(scope, rows) \in Nat /\ result.base = P!Median(scope, rows)
      <4>1. P!Median(scope, rows) \in Nat
        BY <2>1, MedianInTheMiddle
      <4>2. result = P!BuildResult(q, P!Median(scope, rows), Absent, Absent, Absent)
        BY <2>1, <2>7, StrategyIs DEF P!FromAggregate
      <4>. QED BY <1>1, <4>1, <4>2, PlainResult
    <3>2. /\ 2 * Cardinality(UpTo(scope, rows, result.base)) >= Cardinality(scope)
          /\ 2 * Cardinality(AtLeast(scope, rows, result.base)) >= Cardinality(scope)
      BY <2>1, <3>1, MedianInTheMiddle
    <3>3. Cardinality(scope) \in Nat /\ Cardinality(scope) # 0
      BY <2>2, DaysCount
    <3>4. UpTo(scope, rows, result.base) # {} /\ AtLeast(scope, rows, result.base) # {}
      <4>1. \A S : 2 * Cardinality(S) >= Cardinality(scope) => S # {}
        <5>1. ~(2 * Cardinality({}) >= Cardinality(scope))
          BY <3>3, FS_EmptySet
        <5>. QED BY <5>1
      <4>. QED BY <3>2, <4>1
    <3>. QED BY <2>7, <3>2, <3>4
  <2>8. CASE q.strategy = "hybrid_landed_cost"
    <3>. DEFINE d == P!Newest(P!FindHybridLandedCost(q, scope, rows))
                cost == P!Given(q.logistics, P!CostOf(q, rows[d].market))
    <3>1. d \in scope
      BY <1>1, <2>1, <2>2, LandedIs, NewestIsNewest
    <3>2. result = P!BuildResult(q, rows[d].amount, d, cost, Absent)
      BY <2>1, <2>8, StrategyIs DEF P!CalculateHybridLandedCost
    <3>. HIDE DEF d
    <3>3. cost \in Nat \cup {Absent}
      <4>1. P!CostOf(q, rows[d].market) \in Nat
        BY <1>1, <2>1, <3>1, LandedIs
      <4>. QED BY <1>1, <4>1, AskedIs DEF P!Given
    <3>. HIDE DEF cost
    <3>4. result.base = rows[d].amount
      BY <1>1, <2>2, <3>1, <3>2, <3>3, ResultIs
    <3>. QED BY <2>4, <2>8, <3>1, <3>4
  <2>. QED BY <2>3, <2>5, <2>6, <2>7, <2>8
<1>6. \A n : /\ UpTo(scope, rows, n) = {d \in scope : rows[d].amount <= n}
             /\ AtLeast(scope, rows, n) = {d \in scope : rows[d].amount >= n}
  BY DEF UpTo, AtLeast
<1>7. P!Newest(P!OfMarket(scope, rows, q.market)) =
        CHOOSE d \in scope : /\ rows[d].market = q.market
                             /\ \A e \in scope : rows[e].market = q.market => e <= d
  <2>. HIDE DEF scope
  <2>. DEFINE of == {d \in scope : rows[d].market = q.market}
  <2>1. \A d : d \in of /\ (\A e \in of : e <= d) <=>
          d \in scope /\ rows[d].market = q.market
            /\ \A e \in scope : rows[e].market = q.market => e <= d
    OBVIOUS
  <2>2. (CHOOSE d : d \in of /\ \A e \in of : e <= d) =
        CHOOSE d : d \in scope /\ rows[d].market = q.market
            /\ \A e \in scope : rows[e].market = q.market => e <= d
    BY <2>1, Zenon
  <2>. QED BY <2>2 DEF P!Newest, P!OfMarket
<1>. HIDE DEF result, scope
<1>. QED BY <1>3, <1>4, <1>5, <1>6, <1>7, DaysCount DEF result, scope

\* what a market asks more leaves as it is
Dearer(found, t, u) ==
  \A d \in found : /\ t[d].market = u[d].market /\ t[d].grade = u[d].grade
                   /\ t[d].amount \in Nat /\ u[d].amount \in Nat /\ t[d].amount <= u[d].amount

LEMMA SelectedDearer ==
  ASSUME NEW q \in P!Asked, NEW S \in SUBSET P!Days, S # {}, NEW R \in SUBSET P!Days, R # {},
         NEW t, NEW u,
         \A d \in S, e \in R : /\ t[d].amount \in Nat /\ u[e].amount \in Nat
                               /\ d = P!Newest(S) /\ e = P!Newest(R) =>
                                    t[d].amount <= u[e].amount
  PROVE  /\ P!FromSelected(q, S, t).ok /\ P!FromSelected(q, R, u).ok
         /\ P!FromSelected(q, S, t).final <= P!FromSelected(q, R, u).final
<1>. DEFINE d == P!Newest(S)
            e == P!Newest(R)
            b == P!FromSelected(q, S, t)
            a == P!FromSelected(q, R, u)
<1>1. /\ d \in S /\ b = P!BuildResult(q, t[d].amount, d, Absent, Absent)
      /\ e \in R /\ a = P!BuildResult(q, u[e].amount, e, Absent, Absent)
  BY SelectedIs
<1>2. t[d].amount \in Nat /\ u[e].amount \in Nat /\ t[d].amount <= u[e].amount
  BY <1>1
<1>. HIDE DEF d, e, a, b
<1>3. /\ b.ok /\ b.final = t[d].amount + q.margin + P!Given(q.logistics, 0) + q.risk
      /\ a.ok /\ a.final = u[e].amount + q.margin + P!Given(q.logistics, 0) + q.risk
      /\ P!Given(q.logistics, 0) \in Nat
  BY <1>1, <1>2, PlainResult
<1>4. q.margin \in Nat /\ q.risk \in Nat
  BY AskedIs
<1>. QED BY <1>2, <1>3, <1>4 DEF a, b

LEMMA CheapestDearer ==
  ASSUME NEW q \in P!Asked, NEW S \in SUBSET P!Days, S # {}, NEW t, NEW u, Dearer(S, t, u)
  PROVE  LET b == P!FromSelected(q, P!FindCheapest(S, t), t)
             a == P!FromSelected(q, P!FindCheapest(S, u), u)
         IN b.ok /\ a.ok /\ b.final <= a.final
<1>1. /\ P!FindCheapest(S, t) \in SUBSET S /\ P!FindCheapest(S, t) # {}
      /\ \A d \in P!FindCheapest(S, t), e \in S : t[d].amount <= t[e].amount
      /\ P!FindCheapest(S, u) \in SUBSET S /\ P!FindCheapest(S, u) # {}
  BY CheapestIs DEF Dearer
<1>2. \A d \in P!FindCheapest(S, t), e \in P!FindCheapest(S, u) :
        t[d].amount \in Nat /\ u[e].amount \in Nat /\ t[d].amount <= u[e].amount
  BY <1>1 DEF Dearer
<1>. DEFINE C == P!FindCheapest(S, t)
            D == P!FindCheapest(S, u)
<1>. HIDE DEF C, D
<1>3. C \in SUBSET P!Days /\ C # {} /\ D \in SUBSET P!Days /\ D # {}
  BY <1>1 DEF C, D
<1>4. \A d \in C, e \in D : t[d].amount \in Nat /\ u[e].amount \in Nat /\ t[d].amount <= u[e].amount
  BY <1>2 DEF C, D
<1>5. /\ P!FromSelected(q, C, t).ok /\ P!FromSelected(q, D, u).ok
      /\ P!FromSelected(q, C, t).final <= P!FromSelected(q, D, u).final
  BY <1>3, <1>4, SelectedDearer
<1>. QED BY <1>5 DEF C, D

\* What the prices found ask more, the strategy does not arrive at less for.
LEMMA StrategyDearer ==
  ASSUME NEW q \in P!Asked, q.strategy # "manual_override",
         ~(q.strategy = "hybrid_landed_cost" /\ q.logistics # Absent),
         NEW found, NEW t, NEW u, Found(found, t), Found(found, u), Dearer(found, t, u)
  PROVE  LET b == P!ByStrategy(q, found, t)
             a == P!ByStrategy(q, found, u)
         IN (b = P!Refused /\ a = P!Refused) \/ (b.ok /\ a.ok /\ b.final <= a.final)
<1>. DEFINE b == P!ByStrategy(q, found, t)
            a == P!ByStrategy(q, found, u)
            Goal == (b = P!Refused /\ a = P!Refused) \/ (b.ok /\ a.ok /\ b.final <= a.final)
<1>1. found \in SUBSET P!Days /\ found # {}
  BY DEF Found
<1>2. q.strategy \in Selecting \cup {"average", "median", "hybrid_landed_cost"}
  BY AskedIs DEF P!Strategies, Selecting
<1>3. CASE q.strategy = "cheapest"
  <2>1. /\ b = P!FromSelected(q, P!FindCheapest(found, t), t)
        /\ a = P!FromSelected(q, P!FindCheapest(found, u), u)
    BY <1>3, StrategyIs DEF Chosen, Selecting
  <2>2. /\ P!FromSelected(q, P!FindCheapest(found, t), t).ok
        /\ P!FromSelected(q, P!FindCheapest(found, u), u).ok
        /\ P!FromSelected(q, P!FindCheapest(found, t), t).final <=
             P!FromSelected(q, P!FindCheapest(found, u), u).final
    BY <1>1, CheapestDearer
  <2>. HIDE DEF a, b
  <2>3. Goal
    BY <2>1, <2>2
  <2>. QED BY <2>3 DEF a, b
<1>4. CASE q.strategy = "quality_first"
  <2>. DEFINE S == OfBest(found, t)
  <2>1. S \in SUBSET P!Days /\ S # {} /\ Dearer(S, t, u)
    BY <1>1, BestIs DEF Dearer
  <2>2. OfBest(found, u) = S
    BY SameBest DEF Dearer
  <2>3. /\ b = P!FromSelected(q, P!FindCheapest(S, t), t)
        /\ a = P!FromSelected(q, P!FindCheapest(S, u), u)
    BY <1>4, <2>2, StrategyIs DEF Chosen, Selecting, P!FindQualityFirst, OfBest
  <2>. HIDE DEF S
  <2>4. /\ P!FromSelected(q, P!FindCheapest(S, t), t).ok
        /\ P!FromSelected(q, P!FindCheapest(S, u), u).ok
        /\ P!FromSelected(q, P!FindCheapest(S, t), t).final <=
             P!FromSelected(q, P!FindCheapest(S, u), u).final
    BY <2>1, CheapestDearer
  <2>. HIDE DEF a, b
  <2>5. Goal
    BY <2>3, <2>4
  <2>. QED BY <2>5 DEF a, b
<1>5. CASE q.strategy \in {"preferred_market", "single_market", "fastest_fulfillment"}
  <2>. DEFINE S == Chosen(q, found, t)
  <2>1. S \in SUBSET found
    BY <1>5, ChosenIs DEF Selecting
  <2>2. Chosen(q, found, u) = S
    <3>1. \A d \in found : t[d].market = u[d].market
      BY DEF Dearer
    <3>2. P!OfMarket(found, t, q.market) = P!OfMarket(found, u, q.market)
      BY <3>1, SameOfMarket
    <3>3. P!FindFastestFulfillment(q, found, t) = P!FindFastestFulfillment(q, found, u)
      BY <3>1, SameFastest DEF Alike
    <3>. QED BY <1>5, <3>2, <3>3 DEF Chosen
  <2>3. b = P!FromSelected(q, S, t) /\ a = P!FromSelected(q, S, u)
    BY <1>5, <2>2, StrategyIs DEF Selecting
  <2>. HIDE DEF S, a, b
  <2>4. S = {} => b = P!Refused /\ a = P!Refused
    BY <2>3 DEF P!FromSelected
  <2>5. ASSUME S # {} PROVE b.ok /\ a.ok /\ b.final <= a.final
    <3>1. S \in SUBSET P!Days /\ \A d \in S : /\ t[d].amount \in Nat /\ u[d].amount \in Nat
                                              /\ t[d].amount <= u[d].amount
      BY <1>1, <2>1 DEF Dearer
    <3>2. /\ P!FromSelected(q, S, t).ok /\ P!FromSelected(q, S, u).ok
          /\ P!FromSelected(q, S, t).final <= P!FromSelected(q, S, u).final
      <4>1. \A d \in S, e \in S : /\ t[d].amount \in Nat /\ u[e].amount \in Nat
                                  /\ d = P!Newest(S) /\ e = P!Newest(S) =>
                                       t[d].amount <= u[e].amount
        BY <3>1
      <4>. QED BY <2>5, <3>1, <4>1, SelectedDearer
    <3>. QED BY <2>3, <3>2
  <2>6. Goal
    BY <2>4, <2>5
  <2>. QED BY <2>6 DEF a, b
<1>6. CASE q.strategy \in {"average", "median"}
  <2>. DEFINE n == IF q.strategy = "average" THEN P!Average(found, t) ELSE P!Median(found, t)
              m == IF q.strategy = "average" THEN P!Average(found, u) ELSE P!Median(found, u)
  <2>1. n \in Nat /\ m \in Nat /\ n <= m
    <3>1. /\ P!Average(found, t) \in Nat /\ P!Average(found, u) \in Nat
          /\ P!Average(found, t) <= P!Average(found, u)
      BY <1>1, AverageGrows, AverageBetween DEF Dearer
    <3>2. /\ P!Median(found, t) \in Nat /\ P!Median(found, u) \in Nat
          /\ P!Median(found, t) <= P!Median(found, u)
      BY MedianGrows, MedianInTheMiddle DEF Dearer
    <3>. QED BY <3>1, <3>2
  <2>2. /\ b = P!BuildResult(q, n, Absent, Absent, Absent)
        /\ a = P!BuildResult(q, m, Absent, Absent, Absent)
    BY <1>6, StrategyIs DEF P!FromAggregate
  <2>. HIDE DEF n, m, a, b
  <2>3. /\ b.ok /\ b.final = n + q.margin + P!Given(q.logistics, 0) + q.risk
        /\ a.ok /\ a.final = m + q.margin + P!Given(q.logistics, 0) + q.risk
        /\ P!Given(q.logistics, 0) \in Nat
    BY <2>1, <2>2, PlainResult
  <2>4. Goal
    BY <2>1, <2>3, AskedIs
  <2>. QED BY <2>4 DEF a, b
<1>7. CASE q.strategy = "hybrid_landed_cost"
  <2>. DEFINE d == P!Newest(P!FindHybridLandedCost(q, found, t))
              e == P!Newest(P!FindHybridLandedCost(q, found, u))
              cost(x) == P!CostOf(q, t[x].market)
  <2>1. /\ d \in P!FindHybridLandedCost(q, found, t) /\ d \in found
        /\ e \in P!FindHybridLandedCost(q, found, u) /\ e \in found
    BY <1>1, LandedIs, NewestIsNewest
  <2>2. /\ \A x \in found : cost(x) \in Nat
        /\ \A x \in P!FindHybridLandedCost(q, found, t), y \in found :
             t[x].amount + cost(x) <= t[y].amount + cost(y)
    BY LandedIs
  <2>3. q.logistics = Absent
    BY <1>7
  <2>4. \A x \in found : /\ t[x].market = u[x].market /\ t[x].amount \in Nat
                         /\ u[x].amount \in Nat /\ t[x].amount <= u[x].amount
    BY DEF Dearer
  <2>5. \A x : P!Given(q.logistics, x) = x
    BY <2>3 DEF P!Given
  <2>6. /\ b = P!BuildResult(q, t[d].amount, d, cost(d), Absent)
        /\ a = P!BuildResult(q, u[e].amount, e, cost(e), Absent)
    BY <1>7, <2>1, <2>4, <2>5, StrategyIs DEF P!CalculateHybridLandedCost
  <2>7. cost(d) \in Nat /\ cost(e) \in Nat
        /\ t[d].amount + cost(d) <= t[e].amount + cost(e)
    BY <2>1, <2>2
  <2>8. /\ P!Given(cost(d), P!Given(q.logistics, 0)) = cost(d)
        /\ P!Given(cost(e), P!Given(q.logistics, 0)) = cost(e)
    BY <2>7, AbsentIsNone DEF P!Given
  <2>9. t[d].amount \in Nat /\ u[e].amount \in Nat /\ t[e].amount \in Nat
        /\ t[e].amount <= u[e].amount
    BY <2>1, <2>4
  <2>. HIDE DEF d, e, a, b, cost
  <2>10. /\ b.ok /\ b.final = t[d].amount + q.margin + cost(d) + q.risk
         /\ a.ok /\ a.final = u[e].amount + q.margin + cost(e) + q.risk
    BY <2>6, <2>7, <2>8, <2>9, ResultIs
  <2>11. b.final <= a.final
    <3>1. q.margin \in Nat /\ q.risk \in Nat
      BY AskedIs
    <3>2. \A x, y, z, w, v, k \in Nat : x + y <= z + w /\ z <= v =>
            x + k + y + q.risk <= v + k + w + q.risk
      BY <3>1
    <3>. QED BY <2>7, <2>9, <2>10, <3>1, <3>2
  <2>12. Goal
    BY <2>10, <2>11
  <2>. QED BY <2>12 DEF a, b
<1>. QED BY <1>2, <1>3, <1>4, <1>5, <1>6, <1>7 DEF Selecting

LEMMA DearerTable ==
  ASSUME NEW t, Table(t), NEW d \in P!Days, t[d] # P!NoRow, t[d].amount > 0,
         NEW u, u = [t EXCEPT ![d].amount = @ + 1]
  PROVE  /\ Table(u)
         /\ \A e \in P!Days : /\ u[e] # P!NoRow <=> t[e] # P!NoRow
                              /\ t[e] # P!NoRow =>
                                   /\ u[e].offering = t[e].offering /\ u[e].unit = t[e].unit
                                   /\ t[e].market = u[e].market /\ t[e].grade = u[e].grade
                                   /\ t[e].amount \in Nat /\ u[e].amount \in Nat
                                   /\ t[e].amount <= u[e].amount
                                   /\ t[e].amount > 0 <=> u[e].amount > 0
<1>1. t[d] \in P!Observed /\ \A e \in P!Days : t[e] # P!NoRow => t[e] \in P!Observed
  BY DEF Table
<1>2. u[d] = [t[d] EXCEPT !.amount = @ + 1] /\ \A e \in P!Days : e # d => u[e] = t[e]
  BY DEF Table
<1>3. u[d] = [offering |-> t[d].offering, market |-> t[d].market, amount |-> t[d].amount + 1,
              grade |-> t[d].grade, unit |-> t[d].unit]
  BY <1>1, <1>2 DEF P!Observed
<1>4. t[d].amount \in Nat
  BY <1>1, ObservedRow
<1>5. u[d] \in P!Observed
  BY <1>1, <1>3, <1>4, ObservedRow DEF P!Observed
<1>6. Table(u)
  <2>1. \A e \in P!Days : u[e] \in P!Observed \cup {P!NoRow}
    BY <1>2, <1>5 DEF Table
  <2>2. DOMAIN u = P!Days /\ u = [e \in DOMAIN u |-> u[e]]
    BY DEF Table
  <2>. QED BY <2>1, <2>2 DEF Table
<1>7. u[d] # P!NoRow
  BY <1>5, ObservedRow
<1>. QED BY <1>1, <1>2, <1>3, <1>4, <1>6, <1>7, ObservedRow

LEMMA NeverCheaper ==
  ASSUME P!TypeOK
  PROVE  P!DearerNeverCheaper
<1>. SUFFICES ASSUME NEW q \in Questions, NEW d \in P!Days, P!Known(rows)[d] # P!NoRow,
                     ~(q.strategy = "hybrid_landed_cost" /\ q.logistics # Absent)
              PROVE  LET before == P!CalculateStrategy(q, rows)
                         after == P!CalculateStrategy(q, [rows EXCEPT ![d].amount = @ + 1])
                     IN before.ok = after.ok /\ (before.ok => before.final <= after.final)
  BY DEF P!DearerNeverCheaper
<1>. DEFINE u == [rows EXCEPT ![d].amount = @ + 1]
            before == P!CalculateStrategy(q, rows)
            after == P!CalculateStrategy(q, u)
            unit == P!ResolvePriceUnit(q)
            found == P!FindMarketPricesForStrategy(q, unit, rows)
<1>1. q \in P!Asked
  BY PricesAssumed DEF P!PricingAssumption
<1>2. Table(rows) /\ rows[d] # P!NoRow /\ rows[d].amount > 0
  BY RowsAreTable, KnownIs
<1>3. /\ Table(u)
      /\ \A e \in P!Days : /\ u[e] # P!NoRow <=> rows[e] # P!NoRow
                           /\ rows[e] # P!NoRow =>
                                /\ u[e].offering = rows[e].offering /\ u[e].unit = rows[e].unit
                                /\ rows[e].market = u[e].market /\ rows[e].grade = u[e].grade
                                /\ rows[e].amount \in Nat /\ u[e].amount \in Nat
                                /\ rows[e].amount <= u[e].amount
                                /\ rows[e].amount > 0 <=> u[e].amount > 0
  BY <1>2, DearerTable
<1>. HIDE DEF u
<1>4. P!FindMarketPricesForStrategy(q, unit, u) = found /\ Dearer(found, rows, u)
  BY <1>3 DEF P!FindMarketPricesForStrategy, Dearer
<1>5. found # {} => Found(found, rows) /\ Found(found, u)
  BY <1>1, <1>2, <1>3, <1>4, FindFinds
<1>6. /\ before = IF unit = Absent THEN P!Refused
                  ELSE IF q.strategy = "manual_override" THEN P!CalculateManualOverride(q)
                  ELSE IF found = {} THEN P!Refused ELSE P!ByStrategy(q, found, rows)
      /\ after = IF unit = Absent THEN P!Refused
                 ELSE IF q.strategy = "manual_override" THEN P!CalculateManualOverride(q)
                 ELSE IF found = {} THEN P!Refused ELSE P!ByStrategy(q, found, u)
  BY <1>4, CalculationIs
<1>. HIDE DEF found, unit
<1>7. CASE before = P!Refused /\ after = P!Refused
  <2>1. P!Refused.ok = FALSE
    BY DEF P!Refused
  <2>. HIDE DEF before, after
  <2>2. before.ok = after.ok /\ (before.ok => before.final <= after.final)
    BY <1>7, <2>1
  <2>. QED BY <2>2 DEF before, after, u
<1>8. CASE unit # Absent /\ q.strategy = "manual_override"
  <2>1. before = after /\ before = P!CalculateManualOverride(q)
    BY <1>6, <1>8
  <2>2. CASE before = P!Refused
    BY <1>7, <2>1, <2>2
  <2>3. CASE before # P!Refused
    <3>. DEFINE base == P!Given(q.manualBase, q.manualFinal)
    <3>1. before = P!BuildResult(q, base, Absent, Absent, q.manualFinal) /\ base \in Nat
      BY <1>1, <2>1, <2>3, AskedIs DEF P!CalculateManualOverride, P!Given
    <3>2. before.final \in Nat
      <4>1. P!Given(q.logistics, 0) \in Nat
        BY <1>1, AskedIs DEF P!Given
      <4>2. before.final = IF q.manualFinal = Absent
                           THEN base + q.margin + P!Given(q.logistics, 0) + q.risk
                           ELSE q.manualFinal
        <5>. HIDE DEF base, before
        <5>. QED BY <3>1 DEF P!BuildResult, P!Given
      <4>. HIDE DEF base, before
      <4>. QED BY <1>1, <3>1, <4>1, <4>2, AskedIs
    <3>. HIDE DEF before, after
    <3>3. before.ok = after.ok /\ (before.ok => before.final <= after.final)
      BY <2>1, <3>2
    <3>. QED BY <3>3 DEF before, after, u
  <2>. QED BY <2>2, <2>3
<1>9. CASE unit # Absent /\ q.strategy # "manual_override" /\ found # {}
  <2>. DEFINE b == P!ByStrategy(q, found, rows)
              a == P!ByStrategy(q, found, u)
  <2>1. (b = P!Refused /\ a = P!Refused) \/ (b.ok /\ a.ok /\ b.final <= a.final)
    BY <1>1, <1>4, <1>5, <1>9, StrategyDearer
  <2>2. before = b /\ after = a
    BY <1>6, <1>9
  <2>. HIDE DEF a, b
  <2>3. CASE b = P!Refused /\ a = P!Refused
    BY <1>7, <2>2, <2>3
  <2>4. CASE b.ok /\ a.ok /\ b.final <= a.final
    <3>1. b.ok = a.ok
      BY <2>4
    <3>. HIDE DEF before, after
    <3>2. before.ok = after.ok /\ (before.ok => before.final <= after.final)
      BY <2>2, <2>4, <3>1
    <3>. QED BY <3>2 DEF before, after, u
  <2>. QED BY <2>1, <2>3, <2>4
<1>. QED BY <1>6, <1>7, <1>8, <1>9

\* the request for one offering alone, as a bulk request has it
Single(q, o) == [q EXCEPT !.offering = o, !.manualBase = Absent, !.manualFinal = Absent]

LEMMA SingleIs ==
  ASSUME NEW q \in P!Asked, NEW o \in P!Priced
  PROVE  /\ Single(q, o) \in P!Asked
         /\ Single(q, o).offering = o /\ Single(q, o).unit = q.unit
         /\ Single(q, o).strategy = q.strategy
         /\ Single(q, o).manualBase = Absent /\ Single(q, o).manualFinal = Absent
         /\ Single(q, o).from = q.from /\ Single(q, o).to = q.to
BY DEF Single, P!Asked, P!Optional

LEMMA TargetAlike ==
  ASSUME NEW q \in P!Asked, NEW x
  PROVE  Alike(P!ForTarget(q, x), Single(q, x.offering))
BY DEF Alike, P!ForTarget, Single, P!Asked

LEMMA ManualRefused ==
  ASSUME NEW q \in P!Asked, q.manualBase = Absent, q.manualFinal = Absent, NEW t,
         q.strategy = "manual_override"
  PROVE  P!CalculateStrategy(q, t) = P!Refused
BY CalculationIs DEF P!CalculateManualOverride

\* A target that is answered is answered as the offering alone is.
LEMMA TargetAnswered ==
  ASSUME NEW q \in P!Asked, NEW t, Table(t), NEW x \in P!FindBulkTargets(q, t),
         P!CalculateStrategy(P!ForTarget(q, x), t) # P!Refused
  PROVE  /\ P!CalculateStrategy(Single(q, x.offering), t) =
              P!CalculateStrategy(P!ForTarget(q, x), t)
         /\ x.unit = PackageUnit[x.offering] /\ UnitIsActive[x.unit]
         /\ x.offering \in P!Given(q.among, P!Priced)
<1>. DEFINE r == P!ForTarget(q, x)
            s == Single(q, x.offering)
            unit == PackageUnit[x.offering]
            found == P!FindMarketPricesForStrategy(r, unit, t)
<1>1. /\ r \in P!Asked /\ r.offering = x.offering /\ r.unit = x.unit
      /\ r.strategy = q.strategy /\ r.manualBase = Absent /\ r.manualFinal = Absent
      /\ r.from = q.from /\ r.to = q.to
      /\ x.offering \in P!Priced /\ x.unit \in DOMAIN UnitIsActive
  BY TargetsAsked, TargetIs
<1>2. /\ s \in P!Asked /\ s.offering = x.offering /\ s.unit = q.unit
      /\ s.strategy = q.strategy /\ s.manualBase = Absent /\ s.manualFinal = Absent
      /\ s.from = q.from /\ s.to = q.to
  BY <1>1, SingleIs
<1>3. Alike(r, s)
  BY TargetAlike
<1>4. PICK o \in P!Given(q.among, P!Priced) :
        \E d \in OfOffering(q, t, o) : x = [offering |-> o, unit |-> t[d].unit]
  BY TargetsAre
<1>5. PICK d \in OfOffering(q, t, o) : x = [offering |-> o, unit |-> t[d].unit]
  BY <1>4
<1>6. x.offering = o /\ x.unit = t[d].unit /\ t[d].unit = P!Given(q.unit, t[d].unit)
  BY <1>5 DEF OfOffering, ForBulk
<1>7. P!CalculateStrategy(r, t) # P!Refused
  OBVIOUS
<1>. HIDE DEF r, s
<1>8. P!ResolvePriceUnit(r) = unit /\ unit # Absent /\ x.unit = unit /\ UnitIsActive[x.unit]
  <2>1. P!ResolvePriceUnit(r) # Absent
    BY <1>7, CalculationIs
  <2>2. x.unit # Absent
    BY <1>1, AbsentIsNone
  <2>. QED BY <1>1, <2>1, <2>2 DEF P!ResolvePriceUnit
<1>9. P!ResolvePriceUnit(s) = unit
  BY <1>2, <1>6, <1>8 DEF P!ResolvePriceUnit, P!Given
<1>10. q.strategy # "manual_override"
  BY <1>1, <1>7, ManualRefused
<1>11. P!FindMarketPricesForStrategy(s, unit, t) = found
  BY <1>1, <1>2 DEF P!FindMarketPricesForStrategy, P!InRange
<1>. HIDE DEF unit
<1>12. found # {}
  BY <1>7, <1>8, <1>1, <1>10, CalculationIs
<1>13. Found(found, t)
  BY <1>1, <1>12, FindFinds
<1>. HIDE DEF found
<1>14. P!ByStrategy(r, found, t) = P!ByStrategy(s, found, t)
  BY <1>1, <1>2, <1>3, <1>10, <1>13, StrategyReadsFound
<1>15. P!CalculateStrategy(r, t) = P!ByStrategy(r, found, t)
  BY <1>1, <1>8, <1>10, <1>12, CalculationIs DEF found
<1>16. P!CalculateStrategy(s, t) = P!ByStrategy(s, found, t)
  BY <1>2, <1>8, <1>9, <1>10, <1>11, <1>12, CalculationIs DEF found
<1>. QED BY <1>4, <1>6, <1>8, <1>14, <1>15, <1>16 DEF r, s, unit

\* An offering that is answered alone is among the targets.
LEMMA SingleIsTarget ==
  ASSUME NEW q \in P!Asked, NEW t, Table(t), NEW o \in P!Given(q.among, P!Priced),
         P!CalculateStrategy(Single(q, o), t) # P!Refused
  PROVE  \E x \in P!FindBulkTargets(q, t) : x.offering = o
<1>. DEFINE s == Single(q, o)
            unit == P!ResolvePriceUnit(s)
            found == P!FindMarketPricesForStrategy(s, unit, t)
<1>1. o \in P!Priced
  BY AskedIs DEF P!Given
<1>2. /\ s \in P!Asked /\ s.offering = o /\ s.unit = q.unit
      /\ s.strategy = q.strategy /\ s.manualBase = Absent /\ s.manualFinal = Absent
      /\ s.from = q.from /\ s.to = q.to
  BY <1>1, SingleIs
<1>3. P!CalculateStrategy(s, t) # P!Refused
  OBVIOUS
<1>. HIDE DEF s
<1>4. q.strategy # "manual_override"
  BY <1>2, <1>3, ManualRefused
<1>5. unit # Absent /\ found # {}
  BY <1>2, <1>3, <1>4, CalculationIs
<1>6. q.unit # Absent => q.unit = unit
  BY <1>2, <1>5 DEF P!ResolvePriceUnit
<1>7. PICK d \in found : TRUE
  BY <1>5
<1>8. d \in ForBulk(q, t) /\ t[d].offering = o
  BY <1>2, <1>6 DEF P!FindMarketPricesForStrategy, ForBulk, P!InRange, P!Given
<1>9. [offering |-> o, unit |-> t[P!Newest(OfOffering(q, t, o))].unit] \in P!FindBulkTargets(q, t)
  BY <1>8, TargetsAre
<1>. QED BY <1>9

LEMMA BulkIs ==
  ASSUME NEW q, NEW t
  PROVE  LET results == {P!CalculateStrategy(P!ForTarget(q, x), t) : x \in P!FindBulkTargets(q, t)}
             bulk == P!CalculateBulk(q, t)
             fine == /\ results # {} /\ P!Refused \notin results
                     /\ q.unit = Absent \/ UnitIsActive[q.unit]
         IN bulk.ok = fine /\ (fine => bulk.results = results)
<1>. DEFINE results == {P!CalculateStrategy(P!ForTarget(q, x), t) : x \in P!FindBulkTargets(q, t)}
            bulk == P!CalculateBulk(q, t)
            fine == /\ results # {} /\ P!Refused \notin results
                    /\ q.unit = Absent \/ UnitIsActive[q.unit]
<1>1. bulk = IF results = {} \/ P!Refused \in results \/ (q.unit # Absent /\ ~UnitIsActive[q.unit])
             THEN P!Refused ELSE [ok |-> TRUE, results |-> results]
  BY DEF P!CalculateBulk
<1>. HIDE DEF results, bulk
<1>2. bulk = IF fine THEN [ok |-> TRUE, results |-> results] ELSE P!Refused
  BY <1>1
<1>3. P!Refused.ok = FALSE
  BY DEF P!Refused
<1>4. fine \in BOOLEAN
  OBVIOUS
<1>. HIDE DEF fine
<1>5. CASE fine
  <2>1. bulk.ok = TRUE /\ bulk.results = results
    BY <1>2, <1>5
  <2>. QED BY <1>4, <1>5, <2>1 DEF results, bulk, fine
<1>6. CASE ~fine
  <2>1. bulk.ok = FALSE
    BY <1>2, <1>3, <1>6
  <2>. QED BY <1>4, <1>6, <2>1 DEF results, bulk, fine
<1>. QED BY <1>5, <1>6

LEMMA BulkGivesSingles ==
  ASSUME NEW q \in P!Asked, NEW t, Table(t), P!CalculateBulk(q, t).ok
  PROVE  P!CalculateBulk(q, t).results =
         {P!CalculateStrategy(Single(q, o), t) : o \in P!Given(q.among, P!Priced)} \ {P!Refused}
<1>. DEFINE results == {P!CalculateStrategy(P!ForTarget(q, x), t) : x \in P!FindBulkTargets(q, t)}
            singles == {P!CalculateStrategy(Single(q, o), t) : o \in P!Given(q.among, P!Priced)}
<1>1. P!Refused \notin results /\ P!CalculateBulk(q, t).results = results
  BY BulkIs
<1>2. ASSUME NEW x \in P!FindBulkTargets(q, t)
      PROVE  /\ P!CalculateStrategy(P!ForTarget(q, x), t) \in singles
             /\ P!CalculateStrategy(P!ForTarget(q, x), t) # P!Refused
             /\ P!CalculateStrategy(Single(q, x.offering), t) =
                  P!CalculateStrategy(P!ForTarget(q, x), t)
  <2>1. P!CalculateStrategy(P!ForTarget(q, x), t) # P!Refused
    BY <1>1
  <2>2. /\ P!CalculateStrategy(Single(q, x.offering), t) =
             P!CalculateStrategy(P!ForTarget(q, x), t)
        /\ x.offering \in P!Given(q.among, P!Priced)
    BY <2>1, TargetAnswered
  <2>. QED BY <2>1, <2>2
<1>3. ASSUME NEW o \in P!Given(q.among, P!Priced),
             P!CalculateStrategy(Single(q, o), t) # P!Refused
      PROVE  P!CalculateStrategy(Single(q, o), t) \in results
  <2>1. PICK x \in P!FindBulkTargets(q, t) : x.offering = o
    BY <1>3, SingleIsTarget
  <2>. QED BY <1>2, <2>1
<1>4. results \in SUBSET (singles \ {P!Refused})
  BY <1>2
<1>5. singles \ {P!Refused} \in SUBSET results
  BY <1>3
<1>. HIDE DEF results, singles
<1>. QED BY <1>1, <1>4, <1>5 DEF singles

\* A strategy that names no market has an answer whatever the prices found.
LEMMA AlwaysAnswered ==
  ASSUME NEW q \in P!Asked, q.strategy \notin P!NamesMarkets, q.priority = <<>>,
         NEW found, NEW t, Found(found, t)
  PROVE  P!ByStrategy(q, found, t) # P!Refused
<1>. DEFINE r == P!ByStrategy(q, found, t)
<1>0. \A x : x.ok => x # P!Refused
  BY DEF P!Refused
<1>1. found \in SUBSET P!Days /\ found # {} /\ \A d \in found : t[d].amount \in Nat
  BY FoundAmounts DEF Found
<1>2. q.strategy \in {"cheapest", "average", "median", "quality_first", "fastest_fulfillment",
                      "hybrid_landed_cost"}
  BY AskedIs DEF P!Strategies, P!NamesMarkets
<1>3. CASE q.strategy \in {"cheapest", "quality_first", "fastest_fulfillment"}
  <2>. DEFINE S == Chosen(q, found, t)
  <2>1. S \in SUBSET found
    BY <1>3, ChosenIs DEF Selecting
  <2>2. S # {}
    <3>1. P!FindCheapest(found, t) # {}
      BY <1>1, CheapestIs
    <3>2. P!FindQualityFirst(found, t) # {}
      <4>1. P!FindQualityFirst(found, t) = P!FindCheapest(OfBest(found, t), t)
        BY DEF P!FindQualityFirst, OfBest
      <4>2. OfBest(found, t) \in SUBSET found /\ OfBest(found, t) # {}
        BY BestIs
      <4>3. OfBest(found, t) \in SUBSET P!Days /\ \A d \in OfBest(found, t) : t[d].amount \in Nat
        BY <1>1, <4>2
      <4>. QED BY <4>1, <4>2, <4>3, CheapestIs
    <3>3. P!FindFastestFulfillment(q, found, t) = found
      BY DEF P!FindFastestFulfillment
    <3>. QED BY <1>1, <1>3, <3>1, <3>2, <3>3 DEF Chosen
  <2>3. r = P!FromSelected(q, S, t)
    BY <1>3, StrategyIs DEF Selecting
  <2>. HIDE DEF S
  <2>4. S \in SUBSET P!Days
    BY <1>1, <2>1
  <2>. DEFINE d == P!Newest(S)
  <2>5. r = P!BuildResult(q, t[d].amount, d, Absent, Absent) /\ d \in S
    BY <2>2, <2>3, <2>4, SelectedIs
  <2>6. t[d].amount \in Nat
    BY <1>1, <2>1, <2>5
  <2>. HIDE DEF d, r
  <2>7. r.ok
    BY <2>5, <2>6, PlainResult
  <2>8. r # P!Refused
    BY <1>0, <2>7
  <2>. QED BY <2>8 DEF r
<1>4. CASE q.strategy \in {"average", "median"}
  <2>. DEFINE n == IF q.strategy = "average" THEN P!Average(found, t) ELSE P!Median(found, t)
  <2>1. n \in Nat
    BY AverageBetween, MedianInTheMiddle
  <2>2. r = P!BuildResult(q, n, Absent, Absent, Absent)
    BY <1>4, StrategyIs DEF P!FromAggregate
  <2>. HIDE DEF n, r
  <2>3. r.ok
    BY <2>1, <2>2, PlainResult
  <2>4. r # P!Refused
    BY <1>0, <2>3
  <2>. QED BY <2>4 DEF r
<1>5. CASE q.strategy = "hybrid_landed_cost"
  <2>. DEFINE d == P!Newest(P!FindHybridLandedCost(q, found, t))
              cost == P!Given(q.logistics, P!CostOf(q, t[d].market))
  <2>1. d \in found
    BY <1>1, LandedIs, NewestIsNewest
  <2>2. r = P!BuildResult(q, t[d].amount, d, cost, Absent)
    BY <1>5, StrategyIs DEF P!CalculateHybridLandedCost
  <2>. HIDE DEF d
  <2>3. cost \in Nat \cup {Absent}
    <3>1. P!CostOf(q, t[d].market) \in Nat
      BY <2>1, LandedIs
    <3>. QED BY <3>1, AskedIs DEF P!Given
  <2>. HIDE DEF cost, r
  <2>4. r # P!Refused
    BY <1>1, <2>1, <2>2, <2>3, ResultIs
  <2>. QED BY <2>4 DEF r
<1>. QED BY <1>2, <1>3, <1>4, <1>5

LEMMA BulkIsAnswered ==
  ASSUME NEW q \in P!Asked, NEW t, Table(t), q.strategy \notin P!NamesMarkets,
         q.priority = <<>>, q.unit = Absent,
         \A d \in P!Days : t[d] # P!NoRow => t[d].unit = PackageUnit[t[d].offering]
  PROVE  P!CalculateBulk(q, t).ok =
         (ForBulk(q, t) # {} /\ \A d \in ForBulk(q, t) : UnitIsActive[t[d].unit])
<1>. DEFINE results == {P!CalculateStrategy(P!ForTarget(q, x), t) : x \in P!FindBulkTargets(q, t)}
            bulk == P!CalculateBulk(q, t)
<1>1. bulk.ok = (results # {} /\ P!Refused \notin results)
  BY BulkIs
<1>2. \A d \in ForBulk(q, t) : /\ d \in P!Days /\ t[d] # P!NoRow /\ t[d].amount > 0
                               /\ P!InRange(d, q) /\ t[d] \in P!Observed
                               /\ t[d].unit = PackageUnit[t[d].offering]
  BY TargetsAre DEF ForBulk
<1>3. ASSUME NEW d \in ForBulk(q, t)
      PROVE  \E x \in P!FindBulkTargets(q, t) : x.offering = t[d].offering
  BY TargetsAre
<1>4. ASSUME NEW x \in P!FindBulkTargets(q, t)
      PROVE  \E d \in ForBulk(q, t) : x.offering = t[d].offering /\ x.unit = t[d].unit
  <2>1. PICK o : \E d \in OfOffering(q, t, o) : x = [offering |-> o, unit |-> t[d].unit]
    BY TargetsAre
  <2>2. PICK d \in OfOffering(q, t, o) : x = [offering |-> o, unit |-> t[d].unit]
    BY <2>1
  <2>3. d \in ForBulk(q, t) /\ t[d].offering = o
    BY DEF OfOffering
  <2>. QED BY <2>2, <2>3
<1>5. ForBulk(q, t) = {} <=> results = {}
  BY <1>3, <1>4
<1>6. ASSUME P!Refused \notin results, NEW d \in ForBulk(q, t)
      PROVE  UnitIsActive[t[d].unit]
  <2>1. PICK x \in P!FindBulkTargets(q, t) : x.offering = t[d].offering
    BY <1>3
  <2>2. P!CalculateStrategy(P!ForTarget(q, x), t) # P!Refused
    BY <1>6
  <2>3. x.unit = PackageUnit[x.offering] /\ UnitIsActive[x.unit]
    BY <2>2, TargetAnswered
  <2>. QED BY <1>2, <2>1, <2>3
<1>7. ASSUME \A d \in ForBulk(q, t) : UnitIsActive[t[d].unit],
             NEW x \in P!FindBulkTargets(q, t)
      PROVE  P!CalculateStrategy(P!ForTarget(q, x), t) # P!Refused
  <2>. DEFINE r == P!ForTarget(q, x)
              unit == P!ResolvePriceUnit(r)
              found == P!FindMarketPricesForStrategy(r, unit, t)
  <2>1. PICK d \in ForBulk(q, t) : x.offering = t[d].offering /\ x.unit = t[d].unit
    BY <1>4
  <2>2. /\ r \in P!Asked /\ r.offering = x.offering /\ r.unit = x.unit
        /\ r.strategy = q.strategy /\ r.from = q.from /\ r.to = q.to /\ r.priority = q.priority
        /\ x.unit \in DOMAIN UnitIsActive
    BY TargetsAsked, TargetIs
  <2>. HIDE DEF r
  <2>3. unit = x.unit /\ unit # Absent
    BY <1>2, <1>7, <2>1, <2>2, AbsentIsNone DEF P!ResolvePriceUnit
  <2>4. d \in found
    BY <1>2, <2>1, <2>2, <2>3 DEF P!FindMarketPricesForStrategy, P!InRange
  <2>5. Found(found, t)
    BY <2>2, <2>4, FindFinds
  <2>. HIDE DEF found, unit
  <2>6. P!ByStrategy(r, found, t) # P!Refused
    BY <2>2, <2>5, AlwaysAnswered
  <2>7. r.strategy # "manual_override"
    BY <2>2 DEF P!NamesMarkets
  <2>8. P!CalculateStrategy(r, t) = P!ByStrategy(r, found, t)
    BY <2>3, <2>4, <2>7, CalculationIs DEF found, unit
  <2>. QED BY <2>6, <2>8 DEF r
<1>8. (results # {} /\ P!Refused \notin results) =
      (ForBulk(q, t) # {} /\ \A d \in ForBulk(q, t) : UnitIsActive[t[d].unit])
  <2>1. (\A d \in ForBulk(q, t) : UnitIsActive[t[d].unit]) => P!Refused \notin results
    BY <1>7
  <2>. HIDE DEF results
  <2>. QED BY <1>5, <1>6, <2>1
<1>. HIDE DEF results
<1>. QED BY <1>1, <1>8

LEMMA BulkAgrees ==
  ASSUME P!TypeOK
  PROVE  P!BulkAgreesWithSingle
<1>. SUFFICES ASSUME NEW q \in Questions
              PROVE  LET bulk == P!CalculateBulk(q, rows)
                         listed == {d \in P!Days :
                                      /\ P!Known(rows)[d] # P!NoRow /\ P!InRange(d, q)
                                      /\ rows[d].offering \in P!Given(q.among, P!Priced)}
                     IN /\ bulk.ok => bulk.results =
                             {P!CalculateStrategy(
                                [q EXCEPT !.offering = o, !.manualBase = Absent,
                                          !.manualFinal = Absent], rows) :
                                o \in P!Given(q.among, P!Priced)} \ {P!Refused}
                        /\ /\ q.strategy \notin P!NamesMarkets /\ q.priority = <<>>
                           /\ q.unit = Absent
                           /\ \A d \in P!Days :
                                rows[d] # P!NoRow => rows[d].unit = PackageUnit[rows[d].offering]
                           => bulk.ok = /\ listed # {}
                                        /\ \A d \in listed : UnitIsActive[rows[d].unit]
  BY DEF P!BulkAgreesWithSingle
<1>1. q \in P!Asked /\ Table(rows)
  BY RowsAreTable, PricesAssumed DEF P!PricingAssumption
<1>2. P!CalculateBulk(q, rows).ok => P!CalculateBulk(q, rows).results =
        {P!CalculateStrategy(Single(q, o), rows) : o \in P!Given(q.among, P!Priced)}
          \ {P!Refused}
  BY <1>1, BulkGivesSingles
<1>3. ASSUME q.unit = Absent
      PROVE  ForBulk(q, rows) =
             {d \in P!Days : /\ P!Known(rows)[d] # P!NoRow /\ P!InRange(d, q)
                             /\ rows[d].offering \in P!Given(q.among, P!Priced)}
  <2>1. \A d \in P!Days : P!Known(rows)[d] # P!NoRow <=> rows[d] # P!NoRow /\ rows[d].amount > 0
    BY <1>1, KnownIs
  <2>2. \A x : P!Given(q.unit, x) = x
    BY <1>3 DEF P!Given
  <2>. QED BY <2>1, <2>2 DEF ForBulk
<1>4. ASSUME q.strategy \notin P!NamesMarkets, q.priority = <<>>, q.unit = Absent,
             \A d \in P!Days : rows[d] # P!NoRow => rows[d].unit = PackageUnit[rows[d].offering]
      PROVE  P!CalculateBulk(q, rows).ok =
             (ForBulk(q, rows) # {} /\ \A d \in ForBulk(q, rows) : UnitIsActive[rows[d].unit])
  BY <1>1, <1>4, BulkIsAnswered
<1>5. {P!CalculateStrategy(Single(q, o), rows) : o \in P!Given(q.among, P!Priced)} =
      {P!CalculateStrategy([q EXCEPT !.offering = o, !.manualBase = Absent,
                                     !.manualFinal = Absent], rows) :
         o \in P!Given(q.among, P!Priced)}
  BY DEF Single
<1>6. P!CalculateBulk(q, rows).ok => P!CalculateBulk(q, rows).results =
        {P!CalculateStrategy([q EXCEPT !.offering = o, !.manualBase = Absent,
                                       !.manualFinal = Absent], rows) :
           o \in P!Given(q.among, P!Priced)} \ {P!Refused}
  BY <1>2, <1>5, Zenon
<1>. DEFINE priced == {d \in P!Days :
                         /\ P!Known(rows)[d] # P!NoRow /\ P!InRange(d, q)
                         /\ rows[d].offering \in P!Given(q.among, P!Priced)}
<1>. HIDE DEF priced
<1>7. /\ q.strategy \notin P!NamesMarkets /\ q.priority = <<>> /\ q.unit = Absent
      /\ \A d \in P!Days : rows[d] # P!NoRow => rows[d].unit = PackageUnit[rows[d].offering]
      => P!CalculateBulk(q, rows).ok =
           (priced # {} /\ \A d \in priced : UnitIsActive[rows[d].unit])
  <2>1. q.unit = Absent => ForBulk(q, rows) = priced
    BY <1>3 DEF priced
  <2>. QED BY <1>4, <2>1
<1>. QED BY <1>6, <1>7, Zenon DEF priced

\* The rows of the table are those staff record.
LEMMA PricesStayFit == P!TypeOK /\ [P!Next]_P!vars => P!TypeOK'
<1>. SUFFICES ASSUME P!TypeOK, P!Next PROVE P!TypeOK'
  BY DEF P!vars, P!TypeOK
<1>. QED BY DEF P!TypeOK, P!Next, P!Observe, P!Correct, P!Delete

\* A price is the one its strategy defines, alone and in bulk, and not less
\* where a market asks more.
THEOREM PricesAreAsDefined == P!Spec => []PricedAsDefined
<1>1. P!Init => P!TypeOK
  BY DEF P!Init, P!TypeOK
<1>2. P!TypeOK => PricedAsDefined
  BY Calculated, BulkAgrees, NeverCheaper DEF PricedAsDefined, P!PricedAsDefined
<1>. QED BY <1>1, <1>2, PricesStayFit, PTL DEF P!Spec
-----------------------------------------------------------------------------
(* All services: in a behaviour of any of them its own invariant holds, and *)
(* so everything the theorems above say.                                    *)

\* The advisory lock is held by a request, or free.
LockIsHeld == lock \in Three \cup {T!Nobody}

ServicesInv ==
  /\ service = "tickets" => TicketsInv /\ LockIsHeld
  /\ service = "alerts" => AlertsInv
  /\ service = "analysis" => AnalysisInv
  /\ service = "accounts" => IInv
  /\ service = "status" => StatusInv
  /\ service = "pricing" => P!TypeOK
  /\ service = "config" => FeesInv
  /\ service = "units" => UnitsInv

LEMMA LockStaysHeld == LockIsHeld /\ [T!Next]_(T!vars) => LockIsHeld'
<1>. SUFFICES ASSUME LockIsHeld, [T!Next]_(T!vars) PROVE LockIsHeld'
  OBVIOUS
<1>. USE DEF LockIsHeld
<1>1. CASE UNCHANGED T!vars
  BY <1>1 DEF T!vars, T!Nobody
<1>2. T!Nobody' = T!Nobody
  BY DEF T!Nobody
<1>3. ASSUME NEW r \in Three, NEW c \in Customers, T!Open(r, c)
      PROVE  LockIsHeld'
  BY <1>2, <1>3 DEF T!Open
<1>4. ASSUME NEW r \in Three,
             \/ T!Assign(r) \/ T!NobodyToAssign(r) \/ T!Opened(r)
             \/ T!Replied(r) \/ T!Reassigned(r) \/ T!StatusChanged(r) \/ T!CustomerNotified(r)
             \/ T!RequestDies(r)
      PROVE  LockIsHeld'
  BY <1>2, <1>4 DEF T!Assign, T!NobodyToAssign, T!Opened, T!Replied, T!Reassigned,
     T!StatusChanged, T!CustomerNotified, T!RequestDies
<1>5. ASSUME NEW r \in Three, NEW t \in T!Numbers,
             \/ \E byStaff \in BOOLEAN, choice \in Choices \cup {T!NoChoice} :
                  T!Reply(r, t, byStaff, choice)
             \/ \E s \in Staff : T!Reassign(r, t, s)
             \/ \E to \in Choices : T!ChangeStatus(r, t, to)
      PROVE  LockIsHeld'
  BY <1>2, <1>5 DEF T!Reply, T!Reassign, T!ChangeStatus
<1>6. ASSUME NEW s \in Staff, T!Demote(s)
      PROVE  LockIsHeld'
  BY <1>2, <1>6 DEF T!Demote
<1>. QED BY <1>1, <1>3, <1>4, <1>5, <1>6 DEF T!Next

\* Each invariant types its service.
LEMMA ServicesAreTyped == ServicesInv => MCTypeOK
<1>1. TicketsInv /\ LockIsHeld => T!TypeOK
  BY DEF TicketsInv, TicketTables, TicketFits, LockIsHeld, Rows, T!TypeOK
<1>2. AlertsInv => A!TypeOK
  BY DEF AlertsInv, AlertFits, Tellings, A!TypeOK
<1>3. AnalysisInv => M!TypeOK
  <2>. SUFFICES ASSUME AnalysisInv PROVE M!TypeOK
    OBVIOUS
  <2>1. ASSUME NEW d \in M!Dates, snapshots[d] # M!NoSnapshot
        PROVE  snapshots[d] \in M!Snapshots
    BY <2>1 DEF AnalysisInv
  <2>2. ASSUME NEW r \in Three
        PROVE  /\ stage[r] \notin {"idle", "done"} => work[r].date \in M!Dates
               /\ M!ItemsOf(r) \subseteq M!Items
    <3>1. PICK s, j : s = stage[r] /\ j = work[r] /\ s \in DOMAIN M!Jobs /\ j \in M!Jobs[s]
      BY DEF AnalysisInv, AnalysisFits
    <3>2. s \notin {"idle", "done"} => j.date \in M!Dates
      BY <3>1, AnalysisJobsAre
    <3>3. s \in {"calculate", "replace", "insert"} => j.items \subseteq M!Items
      BY <3>1, AnalysisJobsAre
    <3>. QED BY <3>1, <3>2, <3>3 DEF M!ItemsOf
  <2>. QED BY <2>1, <2>2 DEF AnalysisInv, M!TypeOK, M!Snapshots
<1>4. IInv => TypeOK
  BY InvariantImpliesType
<1>5. StatusInv => O!TypeOK
  BY StatusNumbers, MCServicesAssumption DEF StatusInv, StatusTables, StatusFits, ChangeRows,
     O!TypeOK, O!Changes
<1>6. FeesInv => F!TypeOK
  BY DEF FeesInv
<1>7. UnitsInv => N!TypeOK
  <2>. SUFFICES ASSUME UnitsInv PROVE N!TypeOK
    OBVIOUS
  <2>1. N!Now \in N!Readings /\ N!Now \in Nat /\ N!Now = Len(tables) /\ tables \in Seq(UnitTables)
    BY DEF UnitsInv, N!Now, N!Readings
  <2>2. \A v \in 1..N!Now : tables[v] \in UnitTables
    BY <2>1
  <2>3. 0..N!Now \subseteq {0} \cup N!Readings /\ 1..N!Now \subseteq N!Readings
    BY <2>1, MCServicesAssumption
    DEF N!Readings, MCServicesAssumption, N!PriceUnitsAssumption
  <2>4. \A r \in Requests : job[r] \in N!Jobs[pc[r]]
    BY DEF UnitsInv, UnitFits
  <2>. QED BY <2>1, <2>2, <2>3, <2>4 DEF UnitsInv, UnitTables, N!TypeOK
<1>. QED BY <1>1, <1>2, <1>3, <1>4, <1>5, <1>6, <1>7 DEF ServicesInv, MCTypeOK

\* The tables of every service, and what the requests have read, always have the
\* shape they should.
THEOREM ServicesTypeCorrect == MCSpec => []MCTypeOK
<1>1. MCInit => ServicesInv
  <2>1. T!Init => LockIsHeld
    BY DEF T!Init, LockIsHeld
  <2>2. P!Init => P!TypeOK
    BY DEF P!Init, P!TypeOK
  <2>. QED BY <2>1, <2>2, TicketsInvInit, AlertsInvInit, AnalysisInvInit, InitInvariant,
         StatusInvInit, FeesInvInit, UnitsInvInit DEF MCInit, ServicesInv
<1>2. ServicesInv /\ [MCNext]_MCvars => ServicesInv'
  <2>1. ASSUME [MCNext]_MCvars
        PROVE  /\ service' = service
               /\ service = "tickets" => [T!Next]_(T!vars)
               /\ service = "alerts" => [A!Next]_(A!vars)
               /\ service = "analysis" => [M!Next]_(M!vars)
               /\ service = "accounts" => [Next]_vars
               /\ service = "status" => [O!Next]_(O!vars)
               /\ service = "pricing" => [P!Next]_(P!vars)
               /\ service = "config" => [F!Next]_(F!vars)
               /\ service = "units" => [N!Next]_(N!vars)
    BY <2>1 DEF MCNext, MCvars, TicketsVars, AlertsVars, AnalysisVars, AccountsVars,
       StatusVars, ConfigVars, UnitsVars, T!vars, A!vars, M!vars, vars, O!vars, P!vars,
       F!vars, N!vars
  <2>2. IInv /\ [Next]_vars => IInv'
    BY StepKeepsInvariant, MCServicesAssumption DEF MCServicesAssumption
  <2>. QED BY <2>1, <2>2, LockStaysHeld, TicketsInvKept, AlertsInvKept, AnalysisInvKept,
         StatusInvKept, PricesStayFit, FeesInvKept, UnitsInvKept DEF ServicesInv
<1>. QED BY <1>1, <1>2, ServicesAreTyped, PTL DEF MCSpec
=============================================================================
