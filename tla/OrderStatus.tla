----------------------------- MODULE OrderStatus -----------------------------
(***************************************************************************)
(* The status of an order, what its customer is told of it, and the        *)
(* feedback (src/src/orders/orders.service.ts), with the notifications     *)
(* they end in (src/src/notifications/notifications.service.ts).           *)
(* Staff set the status of one order or of several: the orders are read,   *)
(* those with another status are written - all of them or none - and then  *)
(* each customer gets a notification and an e-mail, both of which may fail *)
(* without failing the request.  Reads and writes are separate statements. *)
(* Texts, priorities and the marks of what was read are left out; what is  *)
(* refused is no step.                                                     *)
(***************************************************************************)
EXTENDS Integers, Sequences, FiniteSets

CONSTANTS
  Requests,   \* requests served at the same time; a served one is reused
  Orders,
  Choices,    \* the statuses staff set
  Earlier,    \* the statuses of the orders before the first of these changes
  MaxChanges, \* bound: changes of status
  MaxNotices  \* bound: notifications staff or services write by hand

Statuses == {"pending", "confirmed", "processing", "out_for_delivery", "delivered", "cancelled"}

OrderStatusAssumption ==
  /\ Choices \subseteq Statuses /\ Earlier \subseteq Statuses \ {"delivered"}
  /\ MaxChanges \in Nat /\ MaxNotices \in Nat
  /\ IsFiniteSet(Orders)

VARIABLES
  status,     \* orders.status; every order has a customer of its own
  feedback,   \* orders with a row in order_feedback
  notes,      \* notifications, in the order of their creation
  mails,      \* changes e-mailed to the customer, or tried to
  changes,    \* history: the statuses written, and over which
  untold,     \* history: changes whose notification failed, or whose request died
  mixed,      \* history: orders written while another request was on them
  pc, job     \* where a request stands, and what it has read

vars == <<status, feedback, notes, mails, changes, untold, mixed, pc, job>>

NoJob == [at |-> "none"]
None == "none"
Changes == 1..MaxChanges

Notes == [order: Orders, event: {"status"}, old: Statuses, new: Statuses, change: Changes]
         \cup [order: Orders, event: {"notice"}]
Tasks == [order: Orders, change: Changes, old: Statuses, step: {"note", "mail"}]
Jobs ==
  [idle |-> {NoJob},
   write |-> [status: Statuses, read: [Orders -> Statuses \cup {None}]],
   tell |-> [status: Statuses, tasks: SUBSET Tasks],
   feedback |-> [order: Orders]]

TypeOK ==
  /\ status \in [Orders -> Statuses]
  /\ feedback \subseteq Orders
  /\ \A n \in 1..Len(notes) : notes[n] \in Notes
  /\ mails \subseteq Changes /\ untold \subseteq Changes
  /\ \A c \in 1..Len(changes) : changes[c] \in [order: Orders, old: Statuses, new: Statuses]
  /\ mixed \subseteq Orders
  /\ pc \in [Requests -> DOMAIN Jobs]
  /\ \A r \in Requests : job[r] \in Jobs[pc[r]]

Init ==
  /\ status \in [Orders -> Earlier]
  /\ feedback = {} /\ mails = {} /\ untold = {} /\ mixed = {}
  /\ notes = <<>> /\ changes = <<>>
  /\ pc = [r \in Requests |-> "idle"]
  /\ job = [r \in Requests |-> NoJob]

Goto(r, step, knows) ==
  /\ pc' = [pc EXCEPT ![r] = step]
  /\ job' = [job EXCEPT ![r] = knows]
Return(r) == Goto(r, "idle", NoJob)

-----------------------------------------------------------------------------
(* Changing the status                                                     *)

\* the orders among O that have another status, as they were read
Read(O, s) == [o \in Orders |-> IF o \in O /\ status[o] # s THEN status[o] ELSE None]

UpdateStatus(r, o, s) ==
  /\ pc[r] = "idle" /\ s \in Choices
  /\ status[o] # s
  /\ Goto(r, "write", [status |-> s, read |-> Read({o}, s)])
  /\ UNCHANGED <<status, feedback, notes, mails, changes, untold, mixed>>

BulkUpdateStatus(r, O, s) ==
  /\ pc[r] = "idle" /\ s \in Choices
  /\ \E o \in O : status[o] # s
  /\ Goto(r, "write", [status |-> s, read |-> Read(O, s)])
  /\ UNCHANGED <<status, feedback, notes, mails, changes, untold, mixed>>

ToWrite(r) == {o \in Orders : job[r].read[o] # None}
TasksOf(r) == IF pc[r] = "tell" THEN job[r].tasks ELSE {}
OnOrder(q, o) ==
  \/ pc[q] = "write" /\ job[q].read[o] # None
  \/ \E t \in TasksOf(q) : t.order = o

\* any enumeration of a set
Enumerations(S) == {f \in [1..Cardinality(S) -> S] : \A i, j \in DOMAIN f : f[i] = f[j] => i = j}

\* one UPDATE each, in one transaction, whatever the statuses are by now
StatusWritten(r) ==
  /\ pc[r] = "write"
  /\ Len(changes) + Cardinality(ToWrite(r)) <= MaxChanges
  /\ LET j == job[r]
         n == Len(changes)
     IN \E order \in Enumerations(ToWrite(r)) :
          /\ status' = [o \in Orders |-> IF o \in ToWrite(r) THEN j.status ELSE status[o]]
          /\ changes' = changes \o [i \in DOMAIN order |->
               [order |-> order[i], old |-> status[order[i]], new |-> j.status]]
          /\ Goto(r, "tell", [status |-> j.status, tasks |->
               {[order |-> order[i], change |-> n + i, old |-> j.read[order[i]],
                 step |-> "note"] : i \in DOMAIN order}])
  /\ mixed' = mixed \cup {o \in ToWrite(r) : \E q \in Requests \ {r} : OnOrder(q, o)}
  /\ UNCHANGED <<feedback, notes, mails, untold>>

\* the tasks are done in any order; a failed one is only logged
Done(r, t, rest) ==
  LET left == (job[r].tasks \ {t}) \cup rest
  IN IF left = {} THEN Return(r) ELSE Goto(r, "tell", [job[r] EXCEPT !.tasks = left])

CreateOrderStatusNotification(r, t) ==
  /\ t.step = "note"
  /\ \/ /\ notes' = Append(notes, [order |-> t.order, event |-> "status", old |-> t.old,
                                   new |-> job[r].status, change |-> t.change])
        /\ UNCHANGED untold
     \/ untold' = untold \cup {t.change} /\ UNCHANGED notes
  /\ Done(r, t, {[t EXCEPT !.step = "mail"]})
  /\ UNCHANGED <<status, feedback, mails, changes, mixed>>

\* (faulty SendOrderStatusEmail: a failed one fails the rest of the request)
FailedEmailFailsAll(r, t) ==
  /\ t.step = "mail"
  /\ mails' = mails \cup {t.change}
  /\ Done(r, t, {}) \/ Return(r)
  /\ UNCHANGED <<status, feedback, notes, changes, untold, mixed>>

SendOrderStatusEmail(r, t) ==
  /\ t.step = "mail"
  /\ mails' = mails \cup {t.change}
  /\ Done(r, t, {})
  /\ UNCHANGED <<status, feedback, notes, changes, untold, mixed>>

-----------------------------------------------------------------------------
(* Notifications and feedback                                              *)

\* by staff or by another service, about anything
CreateNotification(o) ==
  /\ Cardinality({n \in 1..Len(notes) : notes[n].event = "notice"}) < MaxNotices
  /\ notes' = Append(notes, [order |-> o, event |-> "notice"])
  /\ UNCHANGED <<status, feedback, mails, changes, untold, mixed, pc, job>>

CreateFeedback(r, o) ==
  /\ pc[r] = "idle" /\ status[o] = "delivered"
  /\ o \notin feedback
  /\ Goto(r, "feedback", [order |-> o])
  /\ UNCHANGED <<status, feedback, notes, mails, changes, untold, mixed>>

\* order_feedback.order_id is unique: a second row is refused (409)
FeedbackCreated(r) ==
  /\ pc[r] = "feedback"
  /\ feedback' = feedback \cup {job[r].order}
  /\ Return(r)
  /\ UNCHANGED <<status, notes, mails, changes, untold, mixed>>

\* the statement fails or the process dies: what was not told is not told
RequestFails(r) ==
  /\ pc[r] # "idle"
  /\ untold' = untold \cup {t.change : t \in TasksOf(r)}
  /\ Return(r)
  /\ UNCHANGED <<status, feedback, notes, mails, changes, mixed>>

Next ==
  \/ \E r \in Requests :
       \/ \E s \in Choices : \/ \E o \in Orders : UpdateStatus(r, o, s)
                             \/ \E O \in SUBSET Orders : BulkUpdateStatus(r, O, s)
       \/ \E o \in Orders : CreateFeedback(r, o)
       \/ \E t \in TasksOf(r) : CreateOrderStatusNotification(r, t) \/ SendOrderStatusEmail(r, t)
       \/ StatusWritten(r) \/ FeedbackCreated(r) \/ RequestFails(r)
  \/ \E o \in Orders : CreateNotification(o)

Spec == Init /\ [][Next]_vars

-----------------------------------------------------------------------------
\* The customer is told of every change of status by one notification and by
\* e-mail, unless that failed, and of no other; and only of that of the order.
Pending(c, step) == \E r \in Requests : \E t \in TasksOf(r) :
  t.change = c /\ t.step \in step

EveryChangeIsTold ==
  /\ \A c \in 1..Len(changes) :
       /\ c \in untold \/ c \in mails \/ Pending(c, {"note", "mail"})
       /\ LET told == {n \in 1..Len(notes) : notes[n].event = "status" /\ notes[n].change = c}
          IN /\ told # {} \/ c \in untold \/ Pending(c, {"note"})
             /\ Cardinality(told) <= 1
             /\ \A n \in told : /\ notes[n].order = changes[c].order
                                /\ notes[n].new = changes[c].new
                                /\ notes[n].old # notes[n].new
  /\ mails \subseteq 1..Len(changes)
  /\ \A n \in 1..Len(notes) : notes[n].event = "status" => notes[n].change \in 1..Len(changes)

\* What the notifications tell of an order is what happened, in the order it
\* happened, when no two requests were on the order at once.
NotesTellTheStory ==
  \A o \in Orders \ mixed : \A n \in 1..Len(notes) :
    notes[n].order = o /\ notes[n].event = "status" =>
      /\ notes[n].old = changes[notes[n].change].old
      /\ \A m \in 1..(n - 1) : notes[m].order = o /\ notes[m].event = "status" =>
           notes[m].change < notes[n].change

\* Feedback is given for orders that were delivered.
FeedbackFollowsDelivery ==
  \A o \in feedback : \E c \in 1..Len(changes) :
    changes[c].order = o /\ changes[c].new = "delivered"

\* Every change of the status is told, as it was, and followed by what it allows.
StatusIsAccountedFor == EveryChangeIsTold /\ NotesTellTheStory /\ FeedbackFollowsDelivery
=============================================================================
