----------------------------- MODULE PriceAlerts -----------------------------
(***************************************************************************)
(* Price alerts (src/src/price-alerts/price-alerts.service.ts).  A market  *)
(* price that is recorded (src/src/market-prices/market-prices.service.ts) *)
(* is compared with the active alerts of its offering: each alert that is  *)
(* due is triggered by one conditional UPDATE and then notified by another *)
(* statement; users edit and delete their alerts meanwhile, and several    *)
(* prices are evaluated at once, not in the order they were observed.      *)
(* The market price is not read again here, product, unit and currency are *)
(* the same for all, and a request is served once.                         *)
(***************************************************************************)
EXTENDS Integers, FiniteSets

CONSTANTS
  Requests,   \* HTTP requests
  Users,
  Offerings,
  Targets,    \* target prices
  Amounts,    \* observed prices; 0 is not yet known
  Moments,    \* when prices are observed
  Day,        \* once_per_day and once_per_week, in moments
  Week,
  Wishes,     \* the alerts users create: condition and frequency
  Edits,      \* what users change in an alert
  Keep,       \* a field that an edit leaves alone
  MaxAlerts   \* bound: alerts ever created

Conditions == {"below", "above", "at_or_below", "at_or_above"}
Frequencies == {"one_time", "every_price_change", "once_per_day", "once_per_week"}
AlertStatuses == {"active", "paused", "triggered", "cancelled"}
Editions == [offering: Offerings \cup {Keep}, target: Targets \cup {Keep},
             condition: Conditions \cup {Keep}, frequency: Frequencies \cup {Keep},
             status: AlertStatuses \cup {Keep}]

PriceAlertsAssumption ==
  /\ IsFiniteSet(Requests)
  /\ Targets \subseteq Nat \ {0} /\ Amounts \subseteq Nat /\ Moments \subseteq Nat \ {0}
  /\ Day \in Nat \ {0} /\ Week \in Nat /\ Week > Day
  /\ Wishes \subseteq [condition: Conditions, frequency: Frequencies]
  /\ Edits \subseteq Editions
  /\ Keep \notin Offerings /\ Keep \notin Targets
  /\ Keep \notin Conditions \cup Frequencies \cup AlertStatuses
  /\ MaxAlerts \in Nat

VARIABLES
  alerts,     \* price_alerts
  nextAlert,
  told,       \* notifications: which request told of which alert, and when observed
  pc, job     \* where a request stands, and what it has read

vars == <<alerts, nextAlert, told, pc, job>>

AlertIds == 1..MaxAlerts
NoAlert == [status |-> "none"]
Never == 0
NoJob == [at |-> "none"]

Alerts == [user: Users, offering: Offerings, target: Targets, condition: Conditions,
           frequency: Frequencies, status: AlertStatuses, last: Moments \cup {Never},
           count: Nat]
Due == [alert: AlertIds, last: Moments \cup {Never}, once: BOOLEAN]
\* where a request can stand, and what it has read there
Jobs ==
  [idle |-> {NoJob}, done |-> {NoJob}, failed |-> {NoJob},
   insert |-> [user: Users, offering: Offerings, target: Targets, wish: Wishes],
   update |-> [alert: AlertIds, edit: Edits],
   delete |-> [alert: AlertIds],
   trigger |-> [moment: Moments, due: SUBSET Due],
   notify |-> [moment: Moments, due: SUBSET Due, alert: AlertIds]]

TypeOK ==
  /\ alerts \in [AlertIds -> Alerts \cup {NoAlert}]
  /\ nextAlert \in 1..(MaxAlerts + 1)
  /\ told \subseteq [alert: AlertIds, moment: Moments, by: Requests]
  /\ pc \in [Requests -> DOMAIN Jobs]
  /\ \A r \in Requests : job[r] \in Jobs[pc[r]]

Init ==
  /\ alerts = [a \in AlertIds |-> NoAlert]
  /\ nextAlert = 1
  /\ told = {}
  /\ pc = [r \in Requests |-> "idle"]
  /\ job = [r \in Requests |-> NoJob]

Goto(r, step, knows) ==
  /\ pc' = [pc EXCEPT ![r] = step]
  /\ job' = [job EXCEPT ![r] = knows]
Return(r) == Goto(r, "done", NoJob)
Exists(a) == alerts[a] # NoAlert

-----------------------------------------------------------------------------
(* A user's alerts                                                         *)

\* ensureNoActiveDuplicate, among the alerts but the one that is edited
Duplicated(user, offering, target, condition, but) ==
  \E a \in AlertIds \ but :
    /\ Exists(a) /\ alerts[a].status = "active"
    /\ alerts[a].user = user /\ alerts[a].offering = offering
    /\ alerts[a].target = target /\ alerts[a].condition = condition

Create(r, user, offering, target, wish) ==
  /\ pc[r] = "idle"
  /\ ~Duplicated(user, offering, target, wish.condition, {})
  /\ Goto(r, "insert", [user |-> user, offering |-> offering, target |-> target,
                        wish |-> wish])
  /\ UNCHANGED <<alerts, nextAlert, told>>
Created(r) ==
  /\ pc[r] = "insert" /\ nextAlert \in AlertIds
  /\ alerts' = [alerts EXCEPT ![nextAlert] =
       [user |-> job[r].user, offering |-> job[r].offering, target |-> job[r].target,
        condition |-> job[r].wish.condition, frequency |-> job[r].wish.frequency,
        status |-> "active", last |-> Never, count |-> 0]]
  /\ nextAlert' = nextAlert + 1
  /\ Return(r)
  /\ UNCHANGED told

Kept(change, value) == IF change = Keep THEN value ELSE change

Edited(row, edit) ==
  [row EXCEPT !.offering = Kept(edit.offering, @), !.target = Kept(edit.target, @),
              !.condition = Kept(edit.condition, @), !.frequency = Kept(edit.frequency, @),
              !.status = Kept(edit.status, @)]

\* update checks the alert it will become against the others
Update(r, a, edit) ==
  /\ pc[r] = "idle" /\ Exists(a)
  /\ LET next == Edited(alerts[a], edit)
     IN next.status = "active" =>
          ~Duplicated(next.user, next.offering, next.target, next.condition, {a})
  /\ Goto(r, "update", [alert |-> a, edit |-> edit])
  /\ UNCHANGED <<alerts, nextAlert, told>>
\* an alert that was deleted meanwhile is not found
Updated(r) ==
  /\ pc[r] = "update"
  /\ LET a == job[r].alert
     IN alerts' = IF Exists(a) THEN [alerts EXCEPT ![a] = Edited(@, job[r].edit)] ELSE alerts
  /\ Return(r)
  /\ UNCHANGED <<nextAlert, told>>

Remove(r, a) ==
  /\ pc[r] = "idle" /\ Exists(a)
  /\ Goto(r, "delete", [alert |-> a])
  /\ UNCHANGED <<alerts, nextAlert, told>>
Removed(r) ==
  /\ pc[r] = "delete"
  /\ alerts' = [alerts EXCEPT ![job[r].alert] = NoAlert]
  /\ Return(r)
  /\ UNCHANGED <<nextAlert, told>>

-----------------------------------------------------------------------------
(* Evaluating a market price                                               *)

ConditionMatches(condition, amount, target) ==
  \/ condition = "below" /\ amount < target
  \/ condition = "above" /\ amount > target
  \/ condition = "at_or_below" /\ amount <= target
  \/ condition = "at_or_above" /\ amount >= target

FrequencyAllows(frequency, last, moment) ==
  \/ last = Never
  \/ frequency = "every_price_change" /\ moment > last
  \/ frequency = "once_per_day" /\ moment - last >= Day
  \/ frequency = "once_per_week" /\ moment - last >= Week

\* the active alerts of the offering, as far as the loop will try to trigger
\* them: what it decides, it decides from what was read here
DueAlerts(offering, amount, moment) ==
  {[alert |-> a, last |-> alerts[a].last, once |-> alerts[a].frequency = "one_time"] :
    a \in {b \in AlertIds :
      /\ Exists(b) /\ alerts[b].status = "active" /\ alerts[b].offering = offering
      /\ ConditionMatches(alerts[b].condition, amount, alerts[b].target)
      /\ FrequencyAllows(alerts[b].frequency, alerts[b].last, moment)}}

\* the market price is saved, and evaluated unless it is not yet known
Report(r, offering, amount, moment) ==
  /\ pc[r] = "idle"
  /\ IF amount = 0 THEN Return(r)
     ELSE Goto(r, "trigger", [moment |-> moment, due |-> DueAlerts(offering, amount, moment)])
  /\ UNCHANGED <<alerts, nextAlert, told>>

Triggered(a, moment, once) ==
  [alerts EXCEPT ![a].last = moment, ![a].count = @ + 1,
                 ![a].status = IF once THEN "triggered" ELSE "active"]

\* (faulty Trigger: by id and status only)
TriggerUnguarded(r, d) ==
  /\ pc[r] = "trigger"
  /\ LET rest == [moment |-> job[r].moment, due |-> job[r].due \ {d}]
     IN IF Exists(d.alert) /\ alerts[d.alert].status = "active"
          THEN /\ alerts' = Triggered(d.alert, job[r].moment, d.once)
               /\ Goto(r, "notify",
                    [moment |-> rest.moment, due |-> rest.due, alert |-> d.alert])
          ELSE /\ UNCHANGED alerts
               /\ Goto(r, "trigger", rest)
  /\ UNCHANGED <<nextAlert, told>>

\* (faulty Trigger: updated.count is not looked at)
TriggerUncounted(r, d) ==
  /\ pc[r] = "trigger"
  /\ alerts' = IF /\ Exists(d.alert) /\ alerts[d.alert].status = "active"
                  /\ alerts[d.alert].last = d.last
                 THEN Triggered(d.alert, job[r].moment, d.once) ELSE alerts
  /\ Goto(r, "notify", [moment |-> job[r].moment, due |-> job[r].due \ {d}, alert |-> d.alert])
  /\ UNCHANGED <<nextAlert, told>>

\* the alert is triggered if it is still active and was not triggered since it
\* was read
Trigger(r, d) ==
  /\ pc[r] = "trigger"
  /\ LET a == d.alert
         rest == [moment |-> job[r].moment, due |-> job[r].due \ {d}]
     IN IF Exists(a) /\ alerts[a].status = "active" /\ alerts[a].last = d.last
          THEN /\ alerts' = Triggered(a, job[r].moment, d.once)
               /\ Goto(r, "notify", [moment |-> rest.moment, due |-> rest.due, alert |-> a])
          ELSE /\ UNCHANGED alerts
               /\ Goto(r, "trigger", rest)
  /\ UNCHANGED <<nextAlert, told>>

\* its owner is notified; the notification names the alert, and when that was
\* deleted meanwhile the insert fails and the other alerts go without
Notify(r) ==
  /\ pc[r] = "notify"
  /\ IF Exists(job[r].alert)
       THEN /\ told' = told \cup {[alert |-> job[r].alert, moment |-> job[r].moment, by |-> r]}
            /\ Goto(r, "trigger", [moment |-> job[r].moment, due |-> job[r].due])
       ELSE Goto(r, "failed", NoJob) /\ UNCHANGED told
  /\ UNCHANGED <<alerts, nextAlert>>

Evaluated(r) ==
  /\ pc[r] = "trigger" /\ job[r].due = {}
  /\ Return(r)
  /\ UNCHANGED <<alerts, nextAlert, told>>

\* a statement fails, or the request dies: an evaluation that fails is logged
\* and the price stays
RequestFails(r) ==
  /\ pc[r] \notin {"idle", "done", "failed"}
  /\ Goto(r, "failed", NoJob)
  /\ UNCHANGED <<alerts, nextAlert, told>>

Next ==
  \/ \E r \in Requests, user \in Users, offering \in Offerings, target \in Targets,
        wish \in Wishes : Create(r, user, offering, target, wish)
  \/ \E r \in Requests, a \in AlertIds :
       Remove(r, a) \/ \E edit \in Edits : Update(r, a, edit)
  \/ \E r \in Requests, offering \in Offerings, amount \in Amounts, moment \in Moments :
       Report(r, offering, amount, moment)
  \/ \E r \in Requests :
       \/ Created(r) \/ Updated(r) \/ Removed(r)
       \/ pc[r] = "trigger" /\ \E d \in job[r].due : Trigger(r, d)
       \/ Notify(r) \/ Evaluated(r) \/ RequestFails(r)

Spec == Init /\ [][Next]_vars

-----------------------------------------------------------------------------
(* Safety                                                                  *)

\* However many prices are evaluated at once, an alert is told of once per
\* trigger; a notification is missing only when its request failed.
Tellings(a) == Cardinality({t \in told : t.alert = a})
InHand(a) == Cardinality({r \in Requests : pc[r] = "notify" /\ job[r].alert = a})
Failures == Cardinality({r \in Requests : pc[r] = "failed"})
ToldOncePerTrigger ==
  \A a \in AlertIds : Exists(a) =>
    /\ Tellings(a) + InHand(a) <= alerts[a].count
    /\ alerts[a].count <= Tellings(a) + InHand(a) + Failures

(* What a step may never do                                                *)

\* Prices that arrive late do not trigger an alert again: each trigger is of a
\* price observed after the one before, whatever its owner edits meanwhile.
TriggersMoveForward ==
  [][\A a \in AlertIds : Exists(a) /\ Exists(a)' /\ alerts'[a].count # alerts[a].count =>
       alerts[a].last = Never \/ alerts'[a].last > alerts[a].last]_vars
=============================================================================
