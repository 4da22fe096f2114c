---------------------------- MODULE SupportTickets ----------------------------
(***************************************************************************)
(* Support tickets (src/src/support-tickets/support-tickets.service.ts).   *)
(* Opening a ticket gives it to the least loaded member of staff, inside a *)
(* transaction that first takes an advisory lock; the other operations     *)
(* take no lock: each reads the ticket, decides, and writes it by id.      *)
(* Transactions run at READ COMMITTED; what a request writes after its     *)
(* last read takes effect when it commits, so such a request is its read   *)
(* and its commit.  Messages, attachments and texts are left out; what is  *)
(* refused without a write (404, 403, a bad attachment, somebody else's    *)
(* order) is no step.  A request is served once.                           *)
(***************************************************************************)
EXTENDS Integers, FiniteSets

CONSTANTS
  Requests,   \* HTTP requests
  Staff,      \* the users who are admins or superadmins at first
  Customers,
  Choices,    \* the statuses staff set
  MaxTickets  \* bound: ticket numbers ever drawn

ActiveStatuses == {"open", "in_review", "waiting_on_customer"}
Statuses == ActiveStatuses \cup {"resolved", "closed"}
Nobody == "nobody"

SupportTicketsAssumption ==
  /\ Staff \cap Customers = {} /\ Nobody \notin Staff \cup Requests
  /\ Choices \subseteq Statuses
  /\ MaxTickets \in Nat

VARIABLES
  tickets,    \* support_tickets, by ticket number
  history,    \* support_ticket_assignments
  notes,      \* notifications
  staff,      \* the users who are admins or superadmins
  lock,       \* the request that holds pg_advisory_xact_lock
  nextTicket, \* support_ticket_number_seq
  now,        \* the clock, as far as assignedAt tells
  pc, job     \* where a request stands, and what it has read

vars == <<tickets, history, notes, staff, lock, nextTicket, now, pc, job>>

Numbers == 1..MaxTickets
NoTicket == [status |-> "none"]
NoJob == [at |-> "none"]
NoChoice == "none"

Tickets == [customer: Customers, assignee: Staff, assignedAt: Nat,
            status: Statuses, resolved: BOOLEAN]
Notes == [user: Staff \cup Customers, ticket: Numbers,
          event: {"assigned", "reply", "reassigned", "reassigned_from", "status_changed"}]
\* where a request can stand, and what it has read there
Jobs ==
  [idle |-> {NoJob}, done |-> {NoJob},
   assign |-> [customer: Customers],
   insert |-> [customer: Customers, ticket: Numbers, assignee: Staff, assignedAt: Nat],
   reply |-> [ticket: Numbers, byStaff: BOOLEAN, assignee: Staff, customer: Customers,
              status: Statuses],
   reassign |-> [ticket: Numbers, from: Staff, to: Staff],
   status |-> [ticket: Numbers, customer: Customers, status: Statuses],
   notify |-> [ticket: Numbers, customer: Customers, status: Statuses]]

TypeOK ==
  /\ tickets \in [Numbers -> Tickets \cup {NoTicket}]
  /\ history \subseteq [ticket: Numbers, previous: Staff \cup {Nobody}, new: Staff]
  /\ notes \subseteq Notes
  /\ staff \subseteq Staff
  /\ lock \in Requests \cup {Nobody}
  /\ nextTicket \in 1..(MaxTickets + 1)
  /\ now \in Nat
  /\ pc \in [Requests -> DOMAIN Jobs]
  /\ \A r \in Requests : job[r] \in Jobs[pc[r]]

Init ==
  /\ tickets = [n \in Numbers |-> NoTicket]
  /\ history = {} /\ notes = {}
  /\ staff = Staff
  /\ lock = Nobody
  /\ nextTicket = 1 /\ now = 1
  /\ pc = [r \in Requests |-> "idle"]
  /\ job = [r \in Requests |-> NoJob]

Goto(r, step, knows) ==
  /\ pc' = [pc EXCEPT ![r] = step]
  /\ job' = [job EXCEPT ![r] = knows]
Return(r) == Goto(r, "done", NoJob)

Note(user, ticket, event) == [user |-> user, ticket |-> ticket, event |-> event]
Exists(t) == tickets[t] # NoTicket
AssignedTo(s) == {t \in Numbers : Exists(t) /\ tickets[t].assignee = s}

-----------------------------------------------------------------------------
(* Opening a ticket                                                        *)

\* (faulty Open: the lock is not waited for)
OpenUnlocked(r, c) ==
  /\ pc[r] = "idle"
  /\ lock' = r
  /\ Goto(r, "assign", [customer |-> c])
  /\ UNCHANGED <<tickets, history, notes, staff, nextTicket, now>>

\* the transaction begins with the advisory lock
Open(r, c) ==
  /\ pc[r] = "idle" /\ lock = Nobody
  /\ lock' = r
  /\ Goto(r, "assign", [customer |-> c])
  /\ UNCHANGED <<tickets, history, notes, staff, nextTicket, now>>

\* selectAssignee: the fewest active tickets; among those, who was given the
\* last of their tickets longest ago
Load(s) == Cardinality({t \in AssignedTo(s) : tickets[t].status \in ActiveStatuses})
LongerAgo(s, u) == \A t \in AssignedTo(s) :
  \E v \in AssignedTo(u) : tickets[t].assignedAt <= tickets[v].assignedAt

LeastLoaded == {s \in staff : \A u \in staff :
  Load(s) < Load(u) \/ (Load(s) = Load(u) /\ LongerAgo(s, u))}

Assign(r) ==
  /\ pc[r] = "assign"
  /\ nextTicket \in Numbers
  /\ \E s \in LeastLoaded :
       Goto(r, "insert", [customer |-> job[r].customer, ticket |-> nextTicket,
                          assignee |-> s, assignedAt |-> now])
  /\ nextTicket' = nextTicket + 1 /\ now' = now + 1
  /\ UNCHANGED <<tickets, history, notes, staff, lock>>

\* nobody can take the ticket (503): rolled back
NobodyToAssign(r) ==
  /\ pc[r] = "assign" /\ staff = {}
  /\ lock' = Nobody
  /\ Return(r)
  /\ UNCHANGED <<tickets, history, notes, staff, nextTicket, now>>

\* ticket, first assignment and notification are committed, and the lock is
\* released with them
Opened(r) ==
  /\ pc[r] = "insert"
  /\ LET j == job[r]
     IN /\ tickets' = [tickets EXCEPT ![j.ticket] =
             [customer |-> j.customer, assignee |-> j.assignee, assignedAt |-> j.assignedAt,
              status |-> "open", resolved |-> FALSE]]
        /\ history' = history \cup {[ticket |-> j.ticket, previous |-> Nobody, new |-> j.assignee]}
        /\ notes' = notes \cup {Note(j.assignee, j.ticket, "assigned")}
  /\ lock' = Nobody
  /\ Return(r)
  /\ UNCHANGED <<staff, nextTicket, now>>

-----------------------------------------------------------------------------
(* Replies, reassignment and status                                        *)

\* (faulty Reply: the status of the request is written as it comes)
ReplyAsGiven(r, t, byStaff, choice) ==
  /\ pc[r] = "idle" /\ Exists(t)
  /\ byStaff => staff # {}
  /\ ~byStaff => choice = NoChoice
  /\ Goto(r, "reply",
       [ticket |-> t, byStaff |-> byStaff, assignee |-> tickets[t].assignee,
        customer |-> tickets[t].customer,
        status |-> IF byStaff THEN choice ELSE "in_review"])
  /\ UNCHANGED <<tickets, history, notes, staff, lock, nextTicket, now>>

\* addMessage: staff may choose the next status and else keep the one they
\* read; a customer's reply puts the ticket in review
Reply(r, t, byStaff, choice) ==
  /\ pc[r] = "idle" /\ Exists(t)
  /\ byStaff => staff # {}
  /\ ~byStaff => choice = NoChoice
  /\ Goto(r, "reply",
       [ticket |-> t, byStaff |-> byStaff, assignee |-> tickets[t].assignee,
        customer |-> tickets[t].customer,
        status |-> IF ~byStaff THEN "in_review"
                   ELSE IF choice # NoChoice THEN choice ELSE tickets[t].status])
  /\ UNCHANGED <<tickets, history, notes, staff, lock, nextTicket, now>>

WithStatus(t, status) ==
  [tickets EXCEPT ![t].status = status, ![t].resolved = (status = "resolved")]

Replied(r) ==
  /\ pc[r] = "reply"
  /\ LET j == job[r]
     IN /\ tickets' = WithStatus(j.ticket, j.status)
        /\ notes' = notes \cup
             {Note(IF j.byStaff THEN j.customer ELSE j.assignee, j.ticket, "reply")}
  /\ Return(r)
  /\ UNCHANGED <<history, staff, lock, nextTicket, now>>

\* reassign, by an admin, to another admin than the assignee that was read
Reassign(r, t, s) ==
  /\ pc[r] = "idle" /\ Exists(t) /\ s \in staff
  /\ tickets[t].assignee # s
  /\ Goto(r, "reassign", [ticket |-> t, from |-> tickets[t].assignee, to |-> s])
  /\ UNCHANGED <<tickets, history, notes, staff, lock, nextTicket, now>>

\* ticket, history and notifications are committed together
Reassigned(r) ==
  /\ pc[r] = "reassign"
  /\ LET j == job[r]
     IN /\ tickets' = [tickets EXCEPT ![j.ticket].assignee = j.to, ![j.ticket].assignedAt = now]
        /\ history' = history \cup {[ticket |-> j.ticket, previous |-> j.from, new |-> j.to]}
        /\ notes' = notes \cup {Note(j.to, j.ticket, "reassigned"),
                                Note(j.from, j.ticket, "reassigned_from")}
  /\ now' = now + 1
  /\ Return(r)
  /\ UNCHANGED <<staff, lock, nextTicket>>

\* updateStatus: three statements without a transaction
ChangeStatus(r, t, status) ==
  /\ pc[r] = "idle" /\ Exists(t) /\ staff # {}
  /\ Goto(r, "status", [ticket |-> t, customer |-> tickets[t].customer, status |-> status])
  /\ UNCHANGED <<tickets, history, notes, staff, lock, nextTicket, now>>
StatusChanged(r) ==
  /\ pc[r] = "status"
  /\ tickets' = WithStatus(job[r].ticket, job[r].status)
  /\ Goto(r, "notify", job[r])
  /\ UNCHANGED <<history, notes, staff, lock, nextTicket, now>>
CustomerNotified(r) ==
  /\ pc[r] = "notify"
  /\ notes' = notes \cup {Note(job[r].customer, job[r].ticket, "status_changed")}
  /\ Return(r)
  /\ UNCHANGED <<tickets, history, staff, lock, nextTicket, now>>

\* a request dies, or a statement of it fails: its transaction is rolled back
\* and the lock released; the number it drew is lost
RequestDies(r) ==
  /\ pc[r] \notin {"idle", "done"}
  /\ lock' = IF lock = r THEN Nobody ELSE lock
  /\ Return(r)
  /\ UNCHANGED <<tickets, history, notes, staff, nextTicket, now>>

\* assignRole: somebody is no longer an admin (a new admin has no tickets and
\* is not modelled)
Demote(s) ==
  /\ s \in staff
  /\ staff' = staff \ {s}
  /\ UNCHANGED <<tickets, history, notes, lock, nextTicket, now, pc, job>>

Next ==
  \/ \E r \in Requests, c \in Customers : Open(r, c)
  \/ \E r \in Requests :
       \/ Assign(r) \/ NobodyToAssign(r) \/ Opened(r)
       \/ Replied(r) \/ Reassigned(r) \/ StatusChanged(r) \/ CustomerNotified(r)
       \/ RequestDies(r)
  \/ \E r \in Requests, t \in Numbers :
       \/ \E byStaff \in BOOLEAN, choice \in Choices \cup {NoChoice} : Reply(r, t, byStaff, choice)
       \/ \E s \in Staff : Reassign(r, t, s)
       \/ \E status \in Choices : ChangeStatus(r, t, status)
  \/ \E s \in Staff : Demote(s)

Spec == Init /\ [][Next]_vars

-----------------------------------------------------------------------------
(* Safety                                                                  *)

\* Tickets opened at the same time are spread over the staff: while no ticket
\* has been answered, reassigned or closed and nobody demoted, no two loads
\* differ by more than one.  (Staff do not set tickets back to open.)
Untouched ==
  /\ staff = Staff /\ "open" \notin Choices
  /\ \A h \in history : h.previous = Nobody
  /\ \A n \in notes : n.event = "assigned"
  /\ \A t \in Numbers : Exists(t) => tickets[t].status = "open"
LoadIsBalanced ==
  Untouched => \A s, u \in Staff : Load(s) <= Load(u) + 1

\* The history explains the assignee, whoever reassigned at the same time: it
\* has the automatic assignment, each further one starts from somebody who had
\* the ticket, and whoever was told of the ticket as staff once had it.
HistoryExplainsAssignee ==
  \A t \in Numbers : Exists(t) =>
    LET rows == {h \in history : h.ticket = t}
        had == {h.new : h \in rows}
    IN /\ Cardinality({h \in rows : h.previous = Nobody}) = 1
       /\ \A h \in rows : h.previous \in had \cup {Nobody} /\ h.previous # h.new
       /\ tickets[t].assignee \in had
       /\ \A n \in notes : n.ticket = t /\ n.user \in Staff => n.user \in had

\* Tickets are shared out evenly, and who has one can be accounted for.
TicketsAreAssigned == LoadIsBalanced /\ HistoryExplainsAssignee
=============================================================================
