---------------------------- MODULE CommerceConfig ----------------------------
(***************************************************************************)
(* What staff set for the checkout                                         *)
(* (src/src/commerce-config/commerce-config.service.ts): the rule the      *)
(* service fee follows, of which making or activating one deactivates the  *)
(* others in a transaction at READ COMMITTED - in two steps, as in         *)
(* BuyPrices: what is found active when it starts, and the rest at its     *)
(* commit -, and coupons and promotions, which are switched by what was    *)
(* read.  What a rule or a coupon says is module Quotes' matter.           *)
(***************************************************************************)
EXTENDS Naturals, FiniteSets

CONSTANTS
  Requests,   \* requests served at the same time; a served one is reused
  MaxRules,   \* bound: rules ever made
  Switches    \* coupons and promotions

CommerceConfigAssumption == MaxRules \in Nat

VARIABLES
  rules,      \* service_fee_rules: isActive of each
  switches,   \* coupons and promotions: isActive of each
  ruled,      \* history: whether a rule has been active
  mixed,      \* history: whether rules were written while another request was on them
  pc, job     \* where a request stands, and what it has read

vars == <<rules, switches, ruled, mixed, pc, job>>

RuleIds == 1..MaxRules
States == {"none", "active", "inactive"}
NoJob == [at |-> "none"]

Jobs ==
  [idle |-> {NoJob},
   create |-> [deactivate: SUBSET RuleIds],
   activate |-> [rule: RuleIds, deactivate: SUBSET RuleIds],
   toggle |-> [switch: Switches, read: States \ {"none"}]]

TypeOK ==
  /\ rules \in [RuleIds -> States]
  /\ switches \in [Switches -> States]
  /\ ruled \in BOOLEAN /\ mixed \in BOOLEAN
  /\ pc \in [Requests -> DOMAIN Jobs]
  /\ \A r \in Requests : job[r] \in Jobs[pc[r]]

Init ==
  /\ rules = [i \in RuleIds |-> "none"]
  /\ switches = [s \in Switches |-> "none"]
  /\ ruled = FALSE /\ mixed = FALSE
  /\ pc = [r \in Requests |-> "idle"]
  /\ job = [r \in Requests |-> NoJob]

Goto(r, step, knows) ==
  /\ pc' = [pc EXCEPT ![r] = step]
  /\ job' = [job EXCEPT ![r] = knows]
Return(r) == Goto(r, "idle", NoJob)

\* another request is on the rules
Others(r) == \E q \in Requests \ {r} : pc[q] \in {"create", "activate"}

Active == {i \in RuleIds : rules[i] = "active"}
Free == {i \in RuleIds : rules[i] = "none"}
Deactivated(ids) == [i \in RuleIds |-> IF i \in ids THEN "inactive" ELSE rules[i]]

-----------------------------------------------------------------------------
(* The rules of the service fee                                            *)

CreateServiceFeeRule(r) ==
  /\ pc[r] = "idle"
  /\ Goto(r, "create", [deactivate |-> Active])
  /\ UNCHANGED <<rules, switches, ruled, mixed>>

ServiceFeeRuleCreated(r) ==
  /\ pc[r] = "create"
  /\ \E i \in Free :
       /\ \A k \in Free : i <= k
       /\ rules' = [Deactivated(job[r].deactivate) EXCEPT ![i] = "active"]
  /\ ruled' = TRUE
  /\ mixed' = (mixed \/ Others(r))
  /\ Return(r)
  /\ UNCHANGED switches

\* one that is not active replaces nothing
CreateInactiveRule ==
  /\ \E i \in Free : (\A k \in Free : i <= k) /\ rules' = [rules EXCEPT ![i] = "inactive"]
  /\ UNCHANGED <<switches, ruled, mixed, pc, job>>

\* (faulty ActivateServiceFeeRule: the rule is deactivated with the others)
ActivateAndDeactivate(r, i) ==
  /\ pc[r] = "idle" /\ rules[i] # "none"
  /\ rules' = Deactivated(Active)
  /\ Goto(r, "activate", [rule |-> i, deactivate |-> {}])
  /\ UNCHANGED <<switches, ruled, mixed>>

ActivateServiceFeeRule(r, i) ==
  /\ pc[r] = "idle" /\ rules[i] # "none"
  /\ Goto(r, "activate", [rule |-> i, deactivate |-> Active \ {i}])
  /\ UNCHANGED <<rules, switches, ruled, mixed>>

ServiceFeeRuleActivated(r) ==
  /\ pc[r] = "activate"
  /\ rules' = [Deactivated(job[r].deactivate) EXCEPT ![job[r].rule] = "active"]
  /\ ruled' = TRUE
  /\ mixed' = (mixed \/ Others(r))
  /\ Return(r)
  /\ UNCHANGED switches

-----------------------------------------------------------------------------
(* Coupons and promotions                                                  *)

Create(s, state) ==
  /\ switches[s] = "none"
  /\ switches' = [switches EXCEPT ![s] = state]
  /\ UNCHANGED <<rules, ruled, mixed, pc, job>>

Toggle(r, s) ==
  /\ pc[r] = "idle" /\ switches[s] # "none"
  /\ Goto(r, "toggle", [switch |-> s, read |-> switches[s]])
  /\ UNCHANGED <<rules, switches, ruled, mixed>>

Toggled(r) ==
  /\ pc[r] = "toggle"
  /\ LET s == job[r].switch
     IN switches' = [switches EXCEPT ![s] = IF job[r].read = "active" THEN "inactive" ELSE "active"]
  /\ Return(r)
  /\ UNCHANGED <<rules, ruled, mixed>>

\* a statement fails or the process dies: the transaction is rolled back
RequestFails(r) ==
  /\ pc[r] # "idle"
  /\ Return(r)
  /\ UNCHANGED <<rules, switches, ruled, mixed>>

Next ==
  \/ \E r \in Requests :
       \/ CreateServiceFeeRule(r) \/ ServiceFeeRuleCreated(r)
       \/ \E i \in RuleIds : ActivateServiceFeeRule(r, i)
       \/ ServiceFeeRuleActivated(r)
       \/ \E s \in Switches : Toggle(r, s)
       \/ Toggled(r) \/ RequestFails(r)
  \/ CreateInactiveRule
  \/ \E s \in Switches, state \in {"active", "inactive"} : Create(s, state)

Spec == Init /\ [][Next]_vars

-----------------------------------------------------------------------------
\* Once there is a rule for the service fee, there always is one, however many
\* are made and activated at once; and there is one only, unless two were.
FeesFollowOneRule ==
  /\ ruled => Active # {}
  /\ ~mixed => Cardinality(Active) <= 1
=============================================================================
