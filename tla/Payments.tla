------------------------------ MODULE Payments ------------------------------
(***************************************************************************)
(* The payment side of an order (src/src/payments/payments.service.ts):    *)
(* an order is settled through a sequence of payment attempts, each one a  *)
(* row of the payments table with its own provider reference.  HTTP        *)
(* requests (checkout and "retry payment") talk to Paystack and write what *)
(* it answered; Paystack calls the webhook when a transfer arrived; staff  *)
(* edit payment rows directly.                                             *)
(*                                                                         *)
(* Every database call and every provider call is a step of its own,       *)
(* because each is an await between which other requests, webhook          *)
(* deliveries and other server instances run.  A request carries the       *)
(* snapshot it read and later writes from.  A request or a delivery may    *)
(* stop after any step (the instance is recycled and the process goes      *)
(* away), and nothing resumes it.                                          *)
(***************************************************************************)
EXTENDS Integers, FiniteSets

CONSTANTS
  Orders,        \* order ids
  Requests,      \* concurrent HTTP requests (checkout, retry of a payment)
  Hooks,         \* concurrent deliveries of Paystack's webhook
  Amounts,       \* amounts of money
  Total,         \* [Orders -> Amounts], the total the order was created with
  MaxAttempt,    \* bound: highest attempt number in a provider reference
  MaxPayments,   \* bound: payment rows ever created
  AdminOps,      \* which staff endpoints the environment uses
  AdminFields,   \* the fields it edits with PATCH /payments/:id
  AdminStatuses  \* the statuses it writes

PaymentStatus ==
  {"initializing", "pending", "successful", "failed", "cancelled", "refunded"}

ASSUME PaymentsAssumption ==
  /\ MaxAttempt \in Nat
  /\ MaxPayments \in Nat
  /\ Total \in [Orders -> Amounts]
  /\ AdminOps \subseteq {"create", "update", "delete"}
  /\ AdminFields \subseteq {"order", "ref", "amount", "status"}
  /\ AdminStatuses \subseteq PaymentStatus

VARIABLES
  order,      \* order.paymentStatus, "none" before checkout
  payments,   \* the payments table: a row or NoRow for every id
  nextId,     \* ids, and with them createdAt, are given in increasing order
  bank,       \* the bank transfer account row of a payment
  webhookLog, \* the references the webhook log has an entry for
  charge,     \* what Paystack holds under a reference (external)
  received,   \* the amount the customer transferred for it (external)
  pc, job,    \* where a request stands, and the snapshot it works from
  hook        \* the webhook deliveries being handled

vars == <<order, payments, nextId, bank, webhookLog, charge, received, pc, job, hook>>

PaymentIds == 1..MaxPayments
\* <<o, 0>> is the reference `order_<o>`, <<o, n>> is `order_<o>_attempt_<n>`
Refs == Orders \X (0..MaxAttempt)

NoRow == [status |-> "absent"]
Rows == [order: Orders, ref: Refs, amount: Amounts, status: PaymentStatus]
NoBank == [status |-> "absent"]
Banks == [order: Orders, status: {"pending", "successful"}]

NoJob == [from |-> "none"]
Jobs == [from: {"initialize", "reconcile"}, id: 0..MaxPayments, order: Orders,
         ref: Refs, amount: Amounts, number: 0..(MaxPayments + 1),
         status: PaymentStatus]
NoDelivery == [ref |-> "none"]
Deliveries == [id: PaymentIds, order: Orders, ref: Refs]

RequestsOK ==
  /\ pc \in [Requests -> {"idle", "load", "post", "check", "bank", "write", "create",
                       "insert"}]
  /\ job \in [Requests -> Jobs \cup {NoJob}]
  /\ \A r \in Requests : pc[r] # "idle" => job[r] \in Jobs
  /\ \A r \in Requests : pc[r] \notin {"idle", "create", "insert"} => job[r].id \in PaymentIds

TypeOK ==
  /\ order \in [Orders -> {"none", "pending", "paid"}]
  /\ payments \in [PaymentIds -> Rows \cup {NoRow}]
  /\ nextId \in 1..(MaxPayments + 1)
  /\ bank \in [PaymentIds -> Banks \cup {NoBank}]
  /\ webhookLog \in SUBSET Refs
  /\ charge \in [Refs -> {"none", "open", "success", "failed"}]
  /\ received \in [Refs -> Amounts \cup {0}]
  /\ RequestsOK
  /\ hook \in [Hooks -> Deliveries \cup {NoDelivery}]

Init ==
  /\ order = [o \in Orders |-> "none"]
  /\ payments = [p \in PaymentIds |-> NoRow]
  /\ nextId = 1
  /\ bank = [p \in PaymentIds |-> NoBank]
  /\ webhookLog = {}
  /\ charge = [ref \in Refs |-> "none"]
  /\ received = [ref \in Refs |-> 0]
  /\ pc = [r \in Requests |-> "idle"]
  /\ job = [r \in Requests |-> NoJob]
  /\ hook = [h \in Hooks |-> NoDelivery]

-----------------------------------------------------------------------------
(* The payments table.                                                     *)

Exists(p) == payments[p] # NoRow
PaymentsOf(o) == {p \in PaymentIds : Exists(p) /\ payments[p].order = o}
\* order.payments[0], newest first
IsLatest(p, o) == p \in PaymentsOf(o) /\ \A q \in PaymentsOf(o) : q <= p
\* paymentCount >= attemptNumber: another request created the attempt
AlreadyRetried(o, number) == Cardinality(PaymentsOf(o)) >= number
\* the unique index on provider_reference
RefTaken(ref) == \E p \in PaymentIds : Exists(p) /\ payments[p].ref = ref

Insert(row) ==
  /\ nextId \in PaymentIds
  /\ ~RefTaken(row.ref)
  /\ payments' = [payments EXCEPT ![nextId] = row]
  /\ nextId' = nextId + 1

Goto(r, step, snapshot) ==
  /\ pc' = [pc EXCEPT ![r] = step]
  /\ job' = [job EXCEPT ![r] = snapshot]
Return(r) == Goto(r, "idle", NoJob)

\* (faulty SnapshotOf: the id is not selected)
SnapshotWithoutId(p, from, number) ==
  [from |-> from, id |-> 0, order |-> payments[p].order, ref |-> payments[p].ref,
   amount |-> payments[p].amount, number |-> number, status |-> payments[p].status]

SnapshotOf(p, from, number) ==
  [from |-> from, id |-> p, order |-> payments[p].order, ref |-> payments[p].ref,
   amount |-> payments[p].amount, number |-> number, status |-> payments[p].status]

\* (faulty Settle: a bank account is found by its payment alone)
SettleAnyAccount(p, o) ==
  /\ Exists(p)
  /\ payments' = [payments EXCEPT ![p].status = "successful"]
  /\ order' = [order EXCEPT ![o] = "paid"]
  /\ bank' = IF bank[p] # NoBank THEN [bank EXCEPT ![p].status = "successful"] ELSE bank

\* (faulty Settle: updateMany for the payment too, which may match no row)
SettleMissingRow(p, o) ==
  /\ payments' = IF Exists(p) THEN [payments EXCEPT ![p].status = "successful"] ELSE payments
  /\ order' = [order EXCEPT ![o] = "paid"]
  /\ bank' = IF bank[p] # NoBank THEN [bank EXCEPT ![p].status = "successful"] ELSE bank

\* payment, order and bank accounts are marked paid in one transaction; it
\* needs the payment row, and leaves alone a bank account of another order
Settle(p, o) ==
  /\ Exists(p)
  /\ payments' = [payments EXCEPT ![p].status = "successful"]
  /\ order' = [order EXCEPT ![o] = "paid"]
  /\ bank' = IF bank[p] # NoBank /\ bank[p].order = o
               THEN [bank EXCEPT ![p].status = "successful"]
               ELSE bank

-----------------------------------------------------------------------------
(* Checkout: the order transaction creates the order and its first payment *)
(* attempt, initializing; the request goes on to initialize it.            *)
Checkout(r, o) ==
  /\ pc[r] = "idle"
  /\ order[o] = "none"
  /\ Insert([order |-> o, ref |-> <<o, 0>>, amount |-> Total[o],
             status |-> "initializing"])
  /\ order' = [order EXCEPT ![o] = "pending"]
  /\ Goto(r, "load", [from |-> "initialize", id |-> nextId, order |-> o,
                      ref |-> <<o, 0>>, amount |-> Total[o], number |-> 0,
                      status |-> "initializing"])
  /\ UNCHANGED <<bank, webhookLog, charge, received, hook>>

-----------------------------------------------------------------------------
(* initializePaymentAttempt                                                *)

\* (faulty LoadAttempt: the order is not looked at)
LoadAnyAttempt(r) ==
  /\ pc[r] = "load"
  /\ IF Exists(job[r].id)
       THEN Goto(r, "post", SnapshotOf(job[r].id, "initialize", 0))
       ELSE Return(r)
  /\ UNCHANGED <<order, payments, nextId, bank, webhookLog, charge, received, hook>>

\* read the attempt and its order; a missing row is answered 404, a paid
\* order "nothing to do"
LoadAttempt(r) ==
  /\ pc[r] = "load"
  /\ LET p == job[r].id IN
       IF Exists(p) /\ order[payments[p].order] # "paid"
         THEN Goto(r, "post", SnapshotOf(p, "initialize", 0))
         ELSE Return(r)
  /\ UNCHANGED <<order, payments, nextId, bank, webhookLog, charge, received, hook>>

\* (faulty ChargeAccepted: the reference is made from the number of attempts)
ChargeUnderCount(r) ==
  /\ pc[r] = "post"
  /\ LET ref == <<job[r].order, Cardinality(PaymentsOf(job[r].order))>>
     IN charge[ref] = "none" /\ charge' = [charge EXCEPT ![ref] = "open"]
  /\ Goto(r, "bank", [job[r] EXCEPT !.status = "pending"])
  /\ UNCHANGED <<order, payments, nextId, bank, webhookLog, received, hook>>

\* POST /charge accepted: Paystack opens a charge under the new reference
ChargeAccepted(r) ==
  /\ pc[r] = "post"
  /\ charge[job[r].ref] = "none"
  /\ charge' = [charge EXCEPT ![job[r].ref] = "open"]
  /\ Goto(r, "bank", [job[r] EXCEPT !.status = "pending"])
  /\ UNCHANGED <<order, payments, nextId, bank, webhookLog, received, hook>>

\* POST /charge not accepted as far as the server can tell.  A lost or 5xx
\* answer leaves the attempt initializing, a rejection or an unreadable
\* answer fails it; in either case Paystack may have opened the charge.
ChargeUnclear(r) ==
  /\ pc[r] = "post"
  /\ \/ UNCHANGED charge
     \/ /\ charge[job[r].ref] = "none"
        /\ charge' = [charge EXCEPT ![job[r].ref] = "open"]
  /\ \E s \in {"initializing", "failed"} :
       Goto(r, "write", [job[r] EXCEPT !.status = s])
  /\ UNCHANGED <<order, payments, nextId, bank, webhookLog, received, hook>>

-----------------------------------------------------------------------------
(* retryOrderPayment and reconcilePaymentAttempt                           *)

\* Read the order with its payments.  Only an unpaid order goes on.  The
\* latest attempt, when initializing or pending and untouched for 10 s, is
\* checked with Paystack first (touched more recently, the caller is told
\* to wait and nothing changes); otherwise a new attempt is due.
Retry(r, o) ==
  /\ pc[r] = "idle"
  /\ order[o] = "pending"
  /\ LET number == Cardinality(PaymentsOf(o)) + 1
         due == [from |-> "reconcile", id |-> 0, order |-> o, ref |-> <<o, 0>>,
                 amount |-> Total[o], number |-> number, status |-> "failed"]
         Open(p) == payments[p].status \in {"initializing", "pending"}
     IN \/ \E p \in PaymentIds :
             /\ IsLatest(p, o) /\ Open(p)
             /\ Goto(r, "check", SnapshotOf(p, "reconcile", number))
        \/ /\ \A p \in PaymentIds : IsLatest(p, o) => ~Open(p)
           /\ Goto(r, "create", due)
  /\ UNCHANGED <<order, payments, nextId, bank, webhookLog, charge, received, hook>>

\* GET /charge/:reference unreachable or 5xx: nothing is written
CheckLost(r) ==
  /\ pc[r] = "check"
  /\ Return(r)
  /\ UNCHANGED <<order, payments, nextId, bank, webhookLog, charge, received, hook>>

\* GET answered: a success is recorded when the amount is the attempt's, an
\* open charge keeps the attempt pending; the bank details are saved first
CheckAnswered(r) ==
  /\ pc[r] = "check"
  /\ charge[job[r].ref] \in {"open", "success"}
  /\ Goto(r, "bank", [job[r] EXCEPT !.status =
       IF charge[job[r].ref] = "success" THEN "successful" ELSE "pending"])
  /\ UNCHANGED <<order, payments, nextId, bank, webhookLog, charge, received, hook>>

\* GET rejected (unknown reference, 4xx), unreadable, or a charge that failed
CheckRejected(r) ==
  /\ pc[r] = "check"
  /\ Goto(r, "write", [job[r] EXCEPT !.status = "failed"])
  /\ UNCHANGED <<order, payments, nextId, bank, webhookLog, charge, received, hook>>

-----------------------------------------------------------------------------
(* Writing down what Paystack answered                                     *)

\* savePaystackBankTransferAccount: upsert the bank account, back to pending,
\* before the email is sent and the status is written.  An answer without an
\* account number saves nothing.  When the upsert fails (the row is gone, the
\* database does not answer) an initialization fails the attempt, a
\* reconciliation gives up.
SaveBankAccount(r) ==
  /\ pc[r] = "bank"
  /\ LET p == job[r].id IN
       \/ /\ Exists(p)
          /\ bank' = [bank EXCEPT ![p] =
               [order |-> IF @ = NoBank THEN job[r].order ELSE @.order,
                status |-> "pending"]]
          /\ Goto(r, "write", job[r])
       \/ Goto(r, "write", job[r]) /\ UNCHANGED bank
       \/ /\ job[r].from = "initialize"
          /\ Goto(r, "write", [job[r] EXCEPT !.status = "failed"])
          /\ UNCHANGED bank
       \/ job[r].from = "reconcile" /\ Return(r) /\ UNCHANGED bank
  /\ UNCHANGED <<order, payments, nextId, webhookLog, charge, received, hook>>

\* (faulty MarkPaid: the amount is not compared)
MarkPaidAnyAmount(r) ==
  /\ pc[r] = "write"
  /\ job[r].status = "successful"
  /\ \/ Settle(job[r].id, job[r].order)
     \/ ~Exists(job[r].id) /\ UNCHANGED <<order, payments, bank>>
  /\ Return(r)
  /\ UNCHANGED <<nextId, webhookLog, charge, received, hook>>

\* markPaymentPaidFromPaystackData: compare the amount with the snapshot's
\* and settle; a mismatch (400) or a missing row changes nothing
MarkPaid(r) ==
  /\ pc[r] = "write"
  /\ job[r].status = "successful"
  /\ \/ received[job[r].ref] = job[r].amount /\ Settle(job[r].id, job[r].order)
     \/ /\ received[job[r].ref] # job[r].amount \/ ~Exists(job[r].id)
        /\ UNCHANGED <<order, payments, bank>>
  /\ Return(r)
  /\ UNCHANGED <<nextId, webhookLog, charge, received, hook>>

\* payment.update({status}), whatever the row holds by now.  A reconciled
\* attempt that failed is replaced; anything else answers the request.
WriteStatus(r) ==
  /\ pc[r] = "write"
  /\ job[r].status # "successful"
  /\ IF Exists(job[r].id)
       THEN /\ payments' = [payments EXCEPT ![job[r].id].status = job[r].status]
            /\ IF job[r].from = "reconcile" /\ job[r].status = "failed"
                 THEN Goto(r, "create", job[r])
                 ELSE Return(r)
       ELSE Return(r) /\ UNCHANGED payments
  /\ UNCHANGED <<order, nextId, bank, webhookLog, charge, received, hook>>

\* the update to pending throws inside the try block: the catch block then
\* writes failed, over a charge that is open
StatusWriteFails(r) ==
  /\ pc[r] = "write"
  /\ job[r].from = "initialize" /\ job[r].status = "pending"
  /\ Goto(r, "write", [job[r] EXCEPT !.status = "failed"])
  /\ UNCHANGED <<order, payments, nextId, bank, webhookLog, charge, received, hook>>

\* createRetryPaymentAttempt, a READ COMMITTED transaction: count the order's
\* payments, and tell the caller to wait when somebody else has created the
\* attempt.  The statement before it, `WITH lock AS (SELECT
\* pg_advisory_xact_lock(...)) SELECT 1`, takes no lock: PostgreSQL does not
\* run a SELECT in WITH that the query never refers to.
CountAttempts(r) ==
  /\ pc[r] = "create"
  /\ IF AlreadyRetried(job[r].order, job[r].number)
       THEN Return(r)
       ELSE Goto(r, "insert", job[r])
  /\ UNCHANGED <<order, payments, nextId, bank, webhookLog, charge, received, hook>>

\* (faulty CreateAttempt: the order goes back to pending with a new attempt)
CreateAttemptReopens(r) ==
  /\ pc[r] = "insert" /\ job[r].number <= MaxAttempt
  /\ LET o == job[r].order
     IN /\ Insert([order |-> o, ref |-> <<o, job[r].number>>, amount |-> Total[o],
                   status |-> "initializing"])
        /\ order' = [order EXCEPT ![o] = "pending"]
  /\ Return(r)
  /\ UNCHANGED <<bank, webhookLog, charge, received, hook>>

\* Insert the attempt, its reference numbered from the payments the request
\* read at its start.  A taken reference is refused by the unique index and
\* the request fails.
CreateAttempt(r) ==
  /\ pc[r] = "insert"
  /\ LET o == job[r].order
         row == [order |-> o, ref |-> <<o, job[r].number>>, amount |-> Total[o],
                 status |-> "initializing"]
     IN IF RefTaken(row.ref)
          THEN Return(r) /\ UNCHANGED <<payments, nextId>>
          ELSE /\ job[r].number <= MaxAttempt
               /\ Insert(row)
               /\ Goto(r, "load", [from |-> "initialize", id |-> nextId, order |-> o,
                                   ref |-> row.ref, amount |-> row.amount,
                                   number |-> 0, status |-> row.status])
  /\ UNCHANGED <<order, bank, webhookLog, charge, received, hook>>

\* the process handling a request goes away between two awaits
RequestDies(r) ==
  /\ pc[r] # "idle"
  /\ Return(r)
  /\ UNCHANGED <<order, payments, nextId, bank, webhookLog, charge, received, hook>>

-----------------------------------------------------------------------------
(* webhook: log the event, find the payment by reference, check the amount *)
(* and, unless payment and order are both settled already, settle.  An     *)
(* unknown reference (404) and a mismatch (400) leave only the log entry.  *)

\* (faulty NeedsSettling: only a pending attempt is expected to be paid)
NeedsSettlingWhenPending(p) == payments[p].status = "pending"

NeedsSettling(p) ==
  payments[p].status # "successful" \/ order[payments[p].order] # "paid"

WebhookReceived(h, ref) ==
  /\ hook[h] = NoDelivery
  /\ charge[ref] = "success"
  /\ webhookLog' = webhookLog \cup {ref}
  /\ \/ \E p \in PaymentIds :
          /\ Exists(p) /\ payments[p].ref = ref
          /\ payments[p].amount = received[ref]
          /\ NeedsSettling(p)
          /\ hook' = [hook EXCEPT ![h] =
               [id |-> p, order |-> payments[p].order, ref |-> ref]]
     \/ /\ \A p \in PaymentIds :
             Exists(p) /\ payments[p].ref = ref =>
               payments[p].amount # received[ref] \/ ~NeedsSettling(p)
        /\ UNCHANGED hook
  /\ UNCHANGED <<order, payments, nextId, bank, charge, received, pc, job>>

\* any other event of an open or failed charge is logged and answered
WebhookIgnored(h, ref) ==
  /\ hook[h] = NoDelivery
  /\ charge[ref] \in {"open", "failed"}
  /\ webhookLog' = webhookLog \cup {ref}
  /\ UNCHANGED <<order, payments, nextId, bank, charge, received, pc, job, hook>>

WebhookCommit(h) ==
  /\ hook[h] # NoDelivery
  /\ \/ Settle(hook[h].id, hook[h].order)
     \/ ~Exists(hook[h].id) /\ UNCHANGED <<order, payments, bank>>
  /\ hook' = [hook EXCEPT ![h] = NoDelivery]
  /\ UNCHANGED <<nextId, webhookLog, charge, received, pc, job>>

\* a delivery that is not answered 200 is repeated by Paystack
DeliveryDies(h) ==
  /\ hook[h] # NoDelivery
  /\ hook' = [hook EXCEPT ![h] = NoDelivery]
  /\ UNCHANGED <<order, payments, nextId, bank, webhookLog, charge, received, pc, job>>

-----------------------------------------------------------------------------
(* The staff endpoints: POST, PATCH and DELETE /payments.                  *)

AdminCreate(row) ==
  /\ "create" \in AdminOps
  /\ order[row.order] # "none"
  /\ row.status \in AdminStatuses
  /\ Insert(row)
  /\ UNCHANGED <<order, bank, webhookLog, charge, received, pc, job, hook>>

\* update and updateStatus write the row's own columns and nothing else
AdminUpdate(p, row) ==
  /\ "update" \in AdminOps
  /\ Exists(p)
  /\ \A f \in {"order", "ref", "amount", "status"} \ AdminFields :
       row[f] = payments[p][f]
  /\ order[row.order] # "none"
  /\ row.status \in AdminStatuses \cup {payments[p].status}
  /\ row.ref # payments[p].ref => ~RefTaken(row.ref)
  /\ payments' = [payments EXCEPT ![p] = row]
  /\ UNCHANGED <<order, nextId, bank, webhookLog, charge, received, pc, job, hook>>

\* the bank account rows go with the payment (ON DELETE CASCADE)
AdminDelete(p) ==
  /\ "delete" \in AdminOps
  /\ Exists(p)
  /\ payments' = [payments EXCEPT ![p] = NoRow]
  /\ bank' = [bank EXCEPT ![p] = NoBank]
  /\ UNCHANGED <<order, nextId, webhookLog, charge, received, pc, job, hook>>

-----------------------------------------------------------------------------
(* Paystack and the customer (external): an open charge is paid, with any  *)
(* amount, or expires.                                                     *)

CustomerPays(ref) ==
  /\ charge[ref] = "open"
  /\ charge' = [charge EXCEPT ![ref] = "success"]
  /\ \E a \in Amounts : received' = [received EXCEPT ![ref] = a]
  /\ UNCHANGED <<order, payments, nextId, bank, webhookLog, pc, job, hook>>

ChargeExpires(ref) ==
  /\ charge[ref] = "open"
  /\ charge' = [charge EXCEPT ![ref] = "failed"]
  /\ UNCHANGED <<order, payments, nextId, bank, webhookLog, received, pc, job, hook>>

-----------------------------------------------------------------------------
Request(r) ==
  \/ LoadAttempt(r) \/ ChargeAccepted(r) \/ ChargeUnclear(r)
  \/ CheckLost(r) \/ CheckAnswered(r) \/ CheckRejected(r)
  \/ SaveBankAccount(r) \/ MarkPaid(r) \/ WriteStatus(r)
  \/ StatusWriteFails(r) \/ CountAttempts(r) \/ CreateAttempt(r)
  \/ RequestDies(r)

Admin ==
  \/ \E row \in Rows : AdminCreate(row)
  \/ \E p \in PaymentIds, row \in Rows : AdminUpdate(p, row)
  \/ \E p \in PaymentIds : AdminDelete(p)

Next ==
  \/ \E r \in Requests : Request(r) \/ \E o \in Orders : Checkout(r, o) \/ Retry(r, o)
  \/ \E h \in Hooks : WebhookCommit(h) \/ DeliveryDies(h)
  \/ \E h \in Hooks, ref \in Refs : WebhookReceived(h, ref) \/ WebhookIgnored(h, ref)
  \/ \E ref \in Refs : CustomerPays(ref) \/ ChargeExpires(ref)
  \/ Admin

Spec == Init /\ [][Next]_vars

\* Paystack repeats a delivery until it is answered, and a process does not
\* go away at the same point of the handler for ever.  Nothing is assumed of
\* customers, of staff or of retries.
Fairness ==
  /\ \A ref \in Refs : SF_vars(\E h \in Hooks : WebhookReceived(h, ref))
  /\ \A h \in Hooks : SF_vars(WebhookCommit(h))

FairSpec == Spec /\ Fairness

-----------------------------------------------------------------------------
(* Safety                                                                  *)

\* An order is paid only when Paystack received exactly its total under one
\* of the order's own references - whichever of the webhook and the retries
\* recorded it, from however old a snapshot.
PaidIsBacked ==
  \A o \in Orders : order[o] = "paid" =>
    \E n \in 0..MaxAttempt :
      charge[<<o, n>>] = "success" /\ received[<<o, n>>] = Total[o]

\* A payment row that says successful belongs to an order that says paid:
\* the two tables are never out of step in this direction.
SuccessfulIsPaid ==
  \A p \in PaymentIds :
    payments[p].status = "successful" => order[payments[p].order] = "paid"

\* The bank account rows never run ahead of the order.
SettledAccountIsPaid ==
  \A p \in PaymentIds :
    bank[p].status = "successful" => order[bank[p].order] = "paid"

\* An attempt shown as pending has a charge at Paystack to pay into, however
\* the writes of initializations and reconciliations overtook each other.
PendingHasCharge ==
  \A p \in PaymentIds :
    payments[p].status = "pending" => charge[payments[p].ref] # "none"

\* Whatever Paystack may report about, the server can find: a charge is never
\* opened under a reference that has no payment row.
ChargeHasPayment == \A ref \in Refs : charge[ref] # "none" => RefTaken(ref)

\* The attempts of an order are numbered in the order they were created, with
\* no gap and no number twice: `order_<o>`, then `_attempt_2`, `_attempt_3`...
\* Nothing but the unique index keeps concurrent retries to that.
AttemptsNumberedInOrder ==
  \A o \in Orders : order[o] # "none" =>
    /\ {payments[p].ref : p \in PaymentsOf(o)} =
         {<<o, n>> : n \in (0..Cardinality(PaymentsOf(o))) \ {1}}
    /\ \A p, q \in PaymentsOf(o) : p < q => payments[p].ref[2] < payments[q].ref[2]

\* What an attempt says of itself, its order and Paystack's charge is so, in
\* whatever order the requests and webhooks on them were served.
AttemptsTellTheTruth ==
  SuccessfulIsPaid /\ PendingHasCharge /\ ChargeHasPayment /\ AttemptsNumberedInOrder

\* A retry that passes the count finds its reference free: of the concurrent
\* retries of an order, the advisory lock lets one create the attempt and has
\* the others told that it is being initialized.
RetryNeverCollides ==
  \A r \in Requests :
    pc[r] = "insert" => ~RefTaken(<<job[r].order, job[r].number>>)

(* What a step may never do                                                *)

\* Only a request that saw the order unpaid opens a charge for it: from the
\* moment an order is paid no request that looks at it afterwards gets as
\* far as Paystack.
NoChargeForPaidOrder ==
  [][\A r \in Requests :
       pc'[r] = "post" /\ pc[r] # "post" => order[job'[r].order] # "paid"]_vars

\* An order turns paid only together with a payment row that turns
\* successful, even while staff delete and relink payments.
OrderPaidWithItsPayment ==
  [][\A o \in Orders :
       order[o] # "paid" /\ order'[o] = "paid" =>
         \E p \in PaymentIds : payments'[p].status = "successful"]_vars

(* Refinement                                                              *)

Funded == {o \in Orders : \E n \in 0..MaxAttempt :
             charge[<<o, n>>] = "success" /\ received[<<o, n>>] = Total[o]}

Promise == INSTANCE Ledger WITH funded <- Funded

\* Whatever overtakes what, an order goes from placed to settled once, after
\* its exact total has arrived, and never back - neither retries that had
\* read it unpaid nor late answers of the provider undo it.
ImplementsLedger == Promise!Spec

(* Liveness                                                                *)

\* Money that arrived in full settles the order, as long as Paystack keeps
\* reporting it, whatever crashes and whichever stale writes come between.
MoneyReceivedSettlesOrder ==
  \A o \in Orders : \A n \in 0..MaxAttempt :
    (charge[<<o, n>>] = "success" /\ received[<<o, n>>] = Total[o])
      ~> order[o] = "paid"
=============================================================================
