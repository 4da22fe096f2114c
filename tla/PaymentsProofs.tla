--------------------------- MODULE PaymentsProofs ---------------------------
(***************************************************************************)
(* Theorems about Payments, for any number of orders, requests, webhook    *)
(* deliveries, attempts and payment rows.                                  *)
(***************************************************************************)
EXTENDS Payments, FiniteSetTheorems, TLAPS

\* An order never has more payments than rows were ever created, so the
\* attempt number a retry computes stays within its type.
LEMMA PaymentsOfCount ==
  ASSUME NEW o \in Orders
  PROVE  Cardinality(PaymentsOf(o)) \in 0..MaxPayments
<1>1. IsFiniteSet(PaymentIds) /\ Cardinality(PaymentIds) = MaxPayments
  <2>1. 1 \in Int /\ MaxPayments \in Int /\ MaxPayments \in Nat
    BY PaymentsAssumption
  <2>2. IsFiniteSet(1..MaxPayments)
        /\ Cardinality(1..MaxPayments) = IF 1 > MaxPayments THEN 0 ELSE MaxPayments - 1 + 1
    BY <2>1, FS_Interval
  <2>. QED BY <2>1, <2>2 DEF PaymentIds
<1>2. PaymentsOf(o) \subseteq PaymentIds
  BY DEF PaymentsOf
<1>3. IsFiniteSet(PaymentsOf(o)) /\ Cardinality(PaymentsOf(o)) <= MaxPayments
  BY <1>1, <1>2, FS_Subset
<1>4. Cardinality(PaymentsOf(o)) \in Nat
  BY <1>3, FS_CardinalityType
<1>. QED BY <1>3, <1>4, PaymentsAssumption

\* A snapshot of an existing row is a well-formed job.
LEMMA SnapshotType ==
  ASSUME TypeOK, NEW p \in PaymentIds, Exists(p),
         NEW from \in {"initialize", "reconcile"},
         NEW n \in 0..(MaxPayments + 1)
  PROVE  SnapshotOf(p, from, n) \in Jobs
BY PaymentsAssumption DEF TypeOK, Exists, SnapshotOf, Jobs, Rows, PaymentIds

\* Inserting a row keeps the payments table and its id counter well formed.
LEMMA InsertType ==
  ASSUME TypeOK, NEW row \in Rows, Insert(row)
  PROVE  /\ payments' \in [PaymentIds -> Rows \cup {NoRow}]
         /\ nextId' \in 1..(MaxPayments + 1)
         /\ nextId \in PaymentIds
BY PaymentsAssumption DEF TypeOK, Insert, PaymentIds

\* Settling keeps the three tables it writes well formed.
LEMMA SettleType ==
  ASSUME TypeOK, NEW p \in 0..MaxPayments, NEW o \in Orders, Settle(p, o)
  PROVE  /\ payments' \in [PaymentIds -> Rows \cup {NoRow}]
         /\ order' \in [Orders -> {"none", "pending", "paid"}]
         /\ bank' \in [PaymentIds -> Banks \cup {NoBank}]
<1>1. payments' \in [PaymentIds -> Rows \cup {NoRow}]
  BY DEF TypeOK, Settle, Exists, Rows, PaymentStatus
<1>2. order' \in [Orders -> {"none", "pending", "paid"}]
  BY DEF TypeOK, Settle
<1>3. bank' \in [PaymentIds -> Banks \cup {NoBank}]
  BY DEF TypeOK, Settle, Banks
<1>. QED BY <1>1, <1>2, <1>3

\* The empty database is well formed.
LEMMA InitType == Init => TypeOK
BY PaymentsAssumption DEF Init, TypeOK, RequestsOK, PaymentIds, Refs

\* Moving a request on with a well-formed job keeps the requests well formed.
LEMMA GotoType ==
  ASSUME TypeOK, NEW r \in Requests,
         NEW step \in {"load", "post", "check", "bank", "write", "create", "insert"},
         NEW snapshot \in Jobs,
         step \notin {"create", "insert"} => snapshot.id \in PaymentIds,
         Goto(r, step, snapshot)
  PROVE  RequestsOK'
BY DEF TypeOK, RequestsOK, Goto

\* The same for a request that ends.
LEMMA ReturnType ==
  ASSUME TypeOK, NEW r \in Requests, Return(r)
  PROVE  RequestsOK'
BY DEF TypeOK, RequestsOK, Return, Goto
-----------------------------------------------------------------------------
\* Each step of a request keeps the state well formed.
LEMMA RequestType ==
  ASSUME TypeOK, NEW r \in Requests, Request(r)
  PROVE  TypeOK'
<1>. USE PaymentsAssumption
<1>1. CASE LoadAttempt(r)
  <2>1. RequestsOK'
    <3>1. CASE Return(r)
      BY <3>1, ReturnType
    <3>2. CASE Exists(job[r].id) /\ Goto(r, "post", SnapshotOf(job[r].id, "initialize", 0))
      <4>1. job[r].id \in PaymentIds
        BY <1>1 DEF LoadAttempt, TypeOK, RequestsOK
      <4>2. SnapshotOf(job[r].id, "initialize", 0) \in Jobs
        BY <3>2, <4>1, SnapshotType
      <4>. QED BY <3>2, <4>1, <4>2, GotoType DEF SnapshotOf
    <3>. QED BY <1>1, <3>1, <3>2 DEF LoadAttempt
  <2>. QED BY <1>1, <2>1 DEF LoadAttempt, TypeOK
<1>2. CASE ChargeAccepted(r)
  <2>1. [job[r] EXCEPT !.status = "pending"] \in Jobs /\ job[r].id \in PaymentIds
        /\ job[r] \in Jobs
    BY <1>2 DEF ChargeAccepted, TypeOK, RequestsOK, Jobs, PaymentStatus
  <2>2. RequestsOK'
    BY <1>2, <2>1, GotoType DEF ChargeAccepted, Jobs
  <2>. QED BY <1>2, <2>1, <2>2 DEF ChargeAccepted, TypeOK
<1>3. CASE ChargeUnclear(r)
  <2>1. PICK s \in {"initializing", "failed"} :
          Goto(r, "write", [job[r] EXCEPT !.status = s])
    BY <1>3 DEF ChargeUnclear
  <2>2. [job[r] EXCEPT !.status = s] \in Jobs /\ job[r].id \in PaymentIds /\ job[r] \in Jobs
    BY <1>3 DEF ChargeUnclear, TypeOK, RequestsOK, Jobs, PaymentStatus
  <2>3. RequestsOK'
    BY <2>1, <2>2, GotoType DEF Jobs
  <2>. QED BY <1>3, <2>3 DEF ChargeUnclear, TypeOK
<1>4. CASE CheckLost(r)
  <2>1. RequestsOK'
    BY <1>4, ReturnType DEF CheckLost
  <2>. QED BY <1>4, <2>1 DEF CheckLost, TypeOK
<1>5. CASE CheckAnswered(r)
  <2>1. PICK s \in {"pending", "successful"} :
          Goto(r, "bank", [job[r] EXCEPT !.status = s])
    BY <1>5 DEF CheckAnswered
  <2>2. [job[r] EXCEPT !.status = s] \in Jobs /\ job[r].id \in PaymentIds /\ job[r] \in Jobs
    BY <1>5 DEF CheckAnswered, TypeOK, RequestsOK, Jobs, PaymentStatus
  <2>3. RequestsOK'
    BY <2>1, <2>2, GotoType DEF Jobs
  <2>. QED BY <1>5, <2>3 DEF CheckAnswered, TypeOK
<1>6. CASE CheckRejected(r)
  <2>1. [job[r] EXCEPT !.status = "failed"] \in Jobs /\ job[r].id \in PaymentIds
        /\ job[r] \in Jobs
    BY <1>6 DEF CheckRejected, TypeOK, RequestsOK, Jobs, PaymentStatus
  <2>2. RequestsOK'
    BY <1>6, <2>1, GotoType DEF CheckRejected, Jobs
  <2>. QED BY <1>6, <2>2 DEF CheckRejected, TypeOK
<1>7. CASE SaveBankAccount(r)
  <2>1. job[r] \in Jobs /\ job[r].id \in PaymentIds
    BY <1>7 DEF SaveBankAccount, TypeOK, RequestsOK
  <2>2. [job[r] EXCEPT !.status = "failed"] \in Jobs
        /\ [job[r] EXCEPT !.status = "failed"].id = job[r].id
    BY <2>1 DEF Jobs, PaymentStatus
  <2>3. bank' \in [PaymentIds -> Banks \cup {NoBank}]
    BY <1>7, <2>1 DEF SaveBankAccount, TypeOK, Banks, Jobs
  <2>4. RequestsOK'
    <3>1. CASE Goto(r, "write", job[r])
      BY <2>1, <3>1, GotoType
    <3>2. CASE Goto(r, "write", [job[r] EXCEPT !.status = "failed"])
      BY <2>1, <2>2, <3>2, GotoType
    <3>3. CASE Return(r)
      BY <3>3, ReturnType
    <3>. QED BY <1>7, <3>1, <3>2, <3>3 DEF SaveBankAccount
  <2>. QED BY <1>7, <2>3, <2>4 DEF SaveBankAccount, TypeOK
<1>8. CASE MarkPaid(r)
  <2>1. job[r].id \in 0..MaxPayments /\ job[r].order \in Orders
    BY <1>8 DEF MarkPaid, TypeOK, RequestsOK, Jobs
  <2>2. RequestsOK'
    BY <1>8, ReturnType DEF MarkPaid
  <2>3. CASE Settle(job[r].id, job[r].order)
    BY <1>8, <2>1, <2>2, <2>3, SettleType DEF MarkPaid, TypeOK
  <2>4. CASE UNCHANGED <<order, payments, bank>>
    BY <1>8, <2>2, <2>4 DEF MarkPaid, TypeOK
  <2>. QED BY <1>8, <2>3, <2>4 DEF MarkPaid
<1>9. CASE WriteStatus(r)
  <2>1. job[r] \in Jobs /\ job[r].id \in PaymentIds
    BY <1>9 DEF WriteStatus, TypeOK, RequestsOK
  <2>2. RequestsOK'
    <3>1. CASE Return(r)
      BY <3>1, ReturnType
    <3>2. CASE Goto(r, "create", job[r])
      BY <2>1, <3>2, GotoType
    <3>. QED BY <1>9, <3>1, <3>2 DEF WriteStatus
  <2>3. payments' \in [PaymentIds -> Rows \cup {NoRow}]
    <3>1. CASE Exists(job[r].id)
      <4>1. payments[job[r].id] \in Rows
        BY <2>1, <3>1 DEF TypeOK, Exists
      <4>2. [payments[job[r].id] EXCEPT !.status = job[r].status] \in Rows
        BY <2>1, <4>1 DEF Rows, Jobs
      <4>. QED BY <1>9, <2>1, <3>1, <4>2 DEF WriteStatus, TypeOK
    <3>2. CASE ~Exists(job[r].id)
      BY <1>9, <3>2 DEF WriteStatus, TypeOK
    <3>. QED BY <3>1, <3>2
  <2>. QED BY <1>9, <2>2, <2>3 DEF WriteStatus, TypeOK
<1>10. CASE StatusWriteFails(r)
  <2>1. [job[r] EXCEPT !.status = "failed"] \in Jobs /\ job[r].id \in PaymentIds
        /\ job[r] \in Jobs
    BY <1>10 DEF StatusWriteFails, TypeOK, RequestsOK, Jobs, PaymentStatus
  <2>2. RequestsOK'
    BY <1>10, <2>1, GotoType DEF StatusWriteFails, Jobs
  <2>. QED BY <1>10, <2>2 DEF StatusWriteFails, TypeOK
<1>11. CASE CreateAttempt(r)
  <2>. DEFINE o == job[r].order
              number == job[r].number
              row == [order |-> o, ref |-> <<o, number>>, amount |-> Total[o],
                      status |-> "initializing"]
              next == [from |-> "initialize", id |-> nextId, order |-> o,
                       ref |-> row.ref, amount |-> row.amount, number |-> 0,
                       status |-> row.status]
  <2>1. o \in Orders /\ number \in 0..(MaxPayments + 1)
    BY <1>11 DEF CreateAttempt, TypeOK, RequestsOK, Jobs
  <2>2. CASE Return(r) /\ UNCHANGED <<payments, nextId>>
    <3>1. RequestsOK'
      BY <2>2, ReturnType
    <3>. QED BY <1>11, <2>2, <3>1 DEF CreateAttempt, TypeOK
  <2>3. CASE number <= MaxAttempt /\ Insert(row) /\ Goto(r, "load", next)
    <3>1. row \in Rows
      BY <2>1, <2>3 DEF Rows, Refs, PaymentStatus
    <3>2. /\ payments' \in [PaymentIds -> Rows \cup {NoRow}]
          /\ nextId' \in 1..(MaxPayments + 1)
          /\ nextId \in PaymentIds
      BY <2>3, <3>1, InsertType
    <3>3. next \in Jobs /\ next.id \in PaymentIds
      BY <2>1, <3>1, <3>2 DEF Jobs, Rows, PaymentIds
    <3>4. RequestsOK'
      BY <2>3, <3>3, GotoType
    <3>. QED BY <1>11, <3>2, <3>4 DEF CreateAttempt, TypeOK
  <2>. QED BY <1>11, <2>2, <2>3 DEF CreateAttempt
<1>12. CASE CountAttempts(r)
  <2>1. job[r] \in Jobs
    BY <1>12 DEF CountAttempts, TypeOK, RequestsOK
  <2>2. RequestsOK'
    <3>1. CASE Return(r)
      BY <3>1, ReturnType
    <3>2. CASE Goto(r, "insert", job[r])
      BY <2>1, <3>2, GotoType
    <3>. QED BY <1>12, <3>1, <3>2 DEF CountAttempts
  <2>. QED BY <1>12, <2>2 DEF CountAttempts, TypeOK
<1>13. CASE RequestDies(r)
  <2>1. RequestsOK'
    BY <1>13, ReturnType DEF RequestDies
  <2>. QED BY <1>13, <2>1 DEF RequestDies, TypeOK
<1>. QED BY <1>1, <1>2, <1>3, <1>4, <1>5, <1>6, <1>7, <1>8, <1>9, <1>10, <1>11,
            <1>12, <1>13 DEF Request

\* Each step of checkout, retry, a webhook delivery, staff or the customer
\* keeps the state well formed.
LEMMA EnvironmentType ==
  ASSUME TypeOK, Next, \A r \in Requests : ~Request(r)
  PROVE  TypeOK'
<1>. USE PaymentsAssumption
<1>1. ASSUME NEW r \in Requests, NEW o \in Orders, Checkout(r, o)
      PROVE  TypeOK'
  <2>. DEFINE row == [order |-> o, ref |-> <<o, 0>>, amount |-> Total[o],
                      status |-> "initializing"]
              next == [from |-> "initialize", id |-> nextId, order |-> o,
                       ref |-> <<o, 0>>, amount |-> Total[o], number |-> 0,
                       status |-> "initializing"]
  <2>1. row \in Rows
    BY DEF Rows, Refs, PaymentStatus
  <2>2. Insert(row) /\ Goto(r, "load", next)
    BY <1>1 DEF Checkout
  <2>3. /\ payments' \in [PaymentIds -> Rows \cup {NoRow}]
        /\ nextId' \in 1..(MaxPayments + 1)
        /\ nextId \in PaymentIds
    BY <2>1, <2>2, InsertType
  <2>4. next \in Jobs /\ next.id \in PaymentIds
    BY <2>3 DEF Jobs, Refs, PaymentIds, PaymentStatus
  <2>5. RequestsOK'
    BY <2>2, <2>4, GotoType
  <2>. QED BY <1>1, <2>3, <2>5 DEF Checkout, TypeOK
<1>2. ASSUME NEW r \in Requests, NEW o \in Orders, Retry(r, o)
      PROVE  TypeOK'
  <2>. DEFINE number == Cardinality(PaymentsOf(o)) + 1
              due == [from |-> "reconcile", id |-> 0, order |-> o, ref |-> <<o, 0>>,
                      amount |-> Total[o], number |-> number, status |-> "failed"]
  <2>1. number \in 0..(MaxPayments + 1)
    <3>1. Cardinality(PaymentsOf(o)) \in 0..MaxPayments
      BY PaymentsOfCount
    <3>. QED BY <3>1
  <2>2. RequestsOK'
    <3>. HIDE DEF number
    <3>1. ASSUME NEW p \in PaymentIds, IsLatest(p, o),
                 Goto(r, "check", SnapshotOf(p, "reconcile", number))
          PROVE  RequestsOK'
      <4>1. Exists(p)
        BY <3>1 DEF IsLatest, PaymentsOf
      <4>2. SnapshotOf(p, "reconcile", number) \in Jobs
        BY <2>1, <4>1, SnapshotType
      <4>3. SnapshotOf(p, "reconcile", number).id \in PaymentIds
        BY DEF SnapshotOf
      <4>. QED BY <3>1, <4>2, <4>3, GotoType
    <3>2. CASE Goto(r, "create", due)
      <4>1. due \in Jobs
        BY <2>1 DEF Jobs, Refs, PaymentStatus
      <4>. QED BY <3>2, <4>1, GotoType
    <3>. QED BY <1>2, <3>1, <3>2 DEF Retry, number
  <2>. QED BY <1>2, <2>2 DEF Retry, TypeOK
<1>3. ASSUME NEW h \in Hooks, WebhookCommit(h) \/ DeliveryDies(h)
      PROVE  TypeOK'
  <2>1. CASE WebhookCommit(h)
    <3>1. hook[h].id \in 0..MaxPayments /\ hook[h].order \in Orders
      BY <2>1 DEF WebhookCommit, TypeOK, Deliveries, PaymentIds
    <3>2. hook' \in [Hooks -> Deliveries \cup {NoDelivery}] /\ RequestsOK'
      BY <2>1 DEF WebhookCommit, TypeOK, RequestsOK
    <3>3. CASE Settle(hook[h].id, hook[h].order)
      BY <2>1, <3>1, <3>2, <3>3, SettleType DEF WebhookCommit, TypeOK
    <3>4. CASE UNCHANGED <<order, payments, bank>>
      BY <2>1, <3>2, <3>4 DEF WebhookCommit, TypeOK
    <3>. QED BY <2>1, <3>3, <3>4 DEF WebhookCommit
  <2>2. CASE DeliveryDies(h)
    BY <2>2 DEF DeliveryDies, TypeOK, RequestsOK
  <2>. QED BY <1>3, <2>1, <2>2
<1>4. ASSUME NEW h \in Hooks, NEW ref \in Refs,
             WebhookReceived(h, ref) \/ WebhookIgnored(h, ref)
      PROVE  TypeOK'
  <2>1. ASSUME NEW p \in PaymentIds, Exists(p)
        PROVE  [id |-> p, order |-> payments[p].order, ref |-> ref] \in Deliveries
    BY <2>1 DEF Deliveries, TypeOK, Exists, Rows
  <2>2. hook' \in [Hooks -> Deliveries \cup {NoDelivery}]
    BY <1>4, <2>1 DEF WebhookReceived, WebhookIgnored, TypeOK
  <2>. QED BY <1>4, <2>2 DEF WebhookReceived, WebhookIgnored, TypeOK, RequestsOK
<1>5. ASSUME NEW ref \in Refs, CustomerPays(ref) \/ ChargeExpires(ref)
      PROVE  TypeOK'
  BY <1>5 DEF CustomerPays, ChargeExpires, TypeOK, RequestsOK
<1>6. ASSUME Admin
      PROVE  TypeOK'
  <2>1. ASSUME NEW row \in Rows, AdminCreate(row)
        PROVE  TypeOK'
    <3>1. /\ payments' \in [PaymentIds -> Rows \cup {NoRow}]
          /\ nextId' \in 1..(MaxPayments + 1)
      BY <2>1, InsertType DEF AdminCreate
    <3>. QED BY <2>1, <3>1 DEF AdminCreate, TypeOK, RequestsOK
  <2>2. ASSUME NEW p \in PaymentIds, NEW row \in Rows, AdminUpdate(p, row)
        PROVE  TypeOK'
    BY <2>2 DEF AdminUpdate, TypeOK, RequestsOK
  <2>3. ASSUME NEW p \in PaymentIds, AdminDelete(p)
        PROVE  TypeOK'
    BY <2>3 DEF AdminDelete, TypeOK, RequestsOK
  <2>. QED BY <1>6, <2>1, <2>2, <2>3 DEF Admin
<1>. QED BY <1>1, <1>2, <1>3, <1>4, <1>5, <1>6 DEF Next

\* The tables, the provider's records and the snapshots in flight are always
\* well formed.
THEOREM TypeCorrect == Spec => []TypeOK
<1>1. TypeOK /\ [Next]_vars => TypeOK'
  <2>1. CASE UNCHANGED vars
    BY <2>1 DEF vars, TypeOK, RequestsOK
  <2>. QED BY <2>1, RequestType, EnvironmentType
<1>. QED BY <1>1, InitType, PTL DEF Spec

-----------------------------------------------------------------------------
(* A settled bank account belongs to a paid order.  Nothing but TypeOK is  *)
(* needed: only Settle marks an account successful, in the transaction     *)
(* that marks the order paid, and no step takes an order back from paid.   *)

\* Staff may edit, relink and delete payments as they please: the bank
\* account rows still never run ahead of the order.
THEOREM SettledAccounts == Spec => []SettledAccountIsPaid
<1>. USE DEF SettledAccountIsPaid
<1>1. Init => SettledAccountIsPaid
  BY DEF Init, NoBank
<1>2. ASSUME TypeOK, SettledAccountIsPaid, [Next]_vars
      PROVE  SettledAccountIsPaid'
  <2>1. ASSUME NEW p \in 0..MaxPayments, NEW o \in Orders, Settle(p, o)
        PROVE  SettledAccountIsPaid'
    BY <1>2, <2>1 DEF Settle, TypeOK, Banks, NoBank
  <2>2. ASSUME NEW r \in Requests, SaveBankAccount(r)
        PROVE  SettledAccountIsPaid'
    BY <1>2, <2>2 DEF SaveBankAccount, TypeOK, Banks, NoBank
  <2>3. ASSUME NEW r \in Requests, NEW o \in Orders, Checkout(r, o)
        PROVE  SettledAccountIsPaid'
    BY <1>2, <2>3 DEF Checkout, TypeOK, Banks, NoBank
  <2>4. ASSUME NEW p \in PaymentIds, AdminDelete(p)
        PROVE  SettledAccountIsPaid'
    BY <1>2, <2>4 DEF AdminDelete, TypeOK, NoBank
  <2>5. CASE UNCHANGED <<order, bank>>
    BY <1>2, <2>5
  <2>6. ASSUME NEW r \in Requests, Request(r)
        PROVE  SettledAccountIsPaid'
    <3>1. CASE MarkPaid(r)
      <4>1. job[r].id \in 0..MaxPayments /\ job[r].order \in Orders
        BY <1>2, <3>1 DEF MarkPaid, TypeOK, RequestsOK, Jobs
      <4>. QED BY <3>1, <4>1, <2>1, <2>5 DEF MarkPaid
    <3>. QED BY <2>6, <3>1, <2>2, <2>5 DEF Request, LoadAttempt, ChargeAccepted,
            ChargeUnclear, CheckLost, CheckAnswered, CheckRejected, WriteStatus,
            StatusWriteFails, CountAttempts, CreateAttempt, RequestDies
  <2>7. ASSUME NEW h \in Hooks, WebhookCommit(h)
        PROVE  SettledAccountIsPaid'
    <3>1. hook[h].id \in 0..MaxPayments /\ hook[h].order \in Orders
      BY <1>2, <2>7 DEF WebhookCommit, TypeOK, Deliveries, PaymentIds
    <3>. QED BY <2>7, <3>1, <2>1, <2>5 DEF WebhookCommit
  <2>. QED BY <1>2, <2>3, <2>4, <2>5, <2>6, <2>7 DEF Next, vars, Retry,
          DeliveryDies, WebhookReceived, WebhookIgnored, CustomerPays,
          ChargeExpires, Admin, AdminCreate, AdminUpdate
<1>. QED BY <1>1, <1>2, TypeCorrect, PTL DEF Spec

-----------------------------------------------------------------------------
(* A paid order is backed by money.  PaidIsBacked is not inductive: a      *)
(* request or a delivery settles from a snapshot, so the invariant must    *)
(* say what the snapshots still prove when they are used.                  *)

\* what a row, a request and a delivery carry agrees with the order
Agrees(x) == x.ref[1] = x.order /\ x.amount = Total[x.order]
Arrived(ref, o) == charge[ref] = "success" /\ received[ref] = Total[o]

RowsAgree == \A p \in PaymentIds : Exists(p) => Agrees(payments[p])
RequestsAgree ==
  \A r \in Requests : pc[r] # "idle" =>
    /\ Agrees(job[r])
    /\ pc[r] \in {"bank", "write"} /\ job[r].status = "successful" =>
         charge[job[r].ref] = "success"
DeliveriesAgree ==
  \A h \in Hooks : hook[h] # NoDelivery =>
    hook[h].ref[1] = hook[h].order /\ Arrived(hook[h].ref, hook[h].order)

BackedInv == RowsAgree /\ RequestsAgree /\ DeliveriesAgree /\ PaidIsBacked

\* The staff of an unattended system: they change a payment's status or
\* delete it, and do not invent payments or rewrite amounts and references.
StaffKeepTheBooks == AdminFields \subseteq {"status"} /\ "create" \notin AdminOps

\* What Paystack has received stays received.
LEMMA ReceivedStays ==
  ASSUME TypeOK, Next, NEW ref \in Refs, charge[ref] = "success"
  PROVE  charge'[ref] = "success" /\ received'[ref] = received[ref]
BY DEF TypeOK, Next, Request, Checkout, Retry, LoadAttempt, ChargeAccepted,
   ChargeUnclear, CheckLost, CheckAnswered, CheckRejected, SaveBankAccount, MarkPaid,
   WriteStatus, StatusWriteFails, CountAttempts, CreateAttempt, RequestDies, WebhookReceived,
   WebhookIgnored, WebhookCommit, DeliveryDies, Admin, AdminCreate, AdminUpdate,
   AdminDelete, CustomerPays, ChargeExpires

\* Every row keeps naming an order, one of its references and its total.
LEMMA RowsStayAgreed ==
  ASSUME StaffKeepTheBooks, TypeOK, BackedInv, Next
  PROVE  RowsAgree'
<1>. USE DEF RowsAgree, Agrees, Exists
<1>1. RowsAgree /\ RequestsAgree
  BY DEF BackedInv
<1>2. ASSUME NEW row \in Rows, Agrees(row), Insert(row)
      PROVE  RowsAgree'
  BY <1>1, <1>2 DEF Insert, TypeOK
<1>3. ASSUME NEW p \in 0..MaxPayments, NEW o \in Orders, Settle(p, o)
      PROVE  RowsAgree'
  BY <1>1, <1>3 DEF Settle, TypeOK, Rows, NoRow
<1>4. ASSUME NEW r \in Requests, Request(r)
      PROVE  RowsAgree'
  <2>1. CASE MarkPaid(r)
    <3>1. job[r].id \in 0..MaxPayments /\ job[r].order \in Orders
      BY <2>1 DEF MarkPaid, TypeOK, RequestsOK, Jobs
    <3>. QED BY <1>1, <1>3, <2>1, <3>1 DEF MarkPaid
  <2>2. CASE WriteStatus(r)
    BY <1>1, <2>2 DEF WriteStatus, TypeOK, Rows, NoRow
  <2>3. CASE CreateAttempt(r)
    <3>. DEFINE o == job[r].order
                row == [order |-> o, ref |-> <<o, job[r].number>>, amount |-> Total[o],
                        status |-> "initializing"]
    <3>1. CASE UNCHANGED payments
      BY <1>1, <3>1
    <3>2. CASE job[r].number <= MaxAttempt /\ Insert(row)
      <4>1. row \in Rows
        BY <2>3, <3>2, PaymentsAssumption
        DEF CreateAttempt, TypeOK, RequestsOK, Jobs, Rows, Refs, PaymentStatus
      <4>. QED BY <1>2, <3>2, <4>1
    <3>. QED BY <2>3, <3>1, <3>2 DEF CreateAttempt
  <2>4. CASE UNCHANGED payments
    BY <1>1, <2>4
  <2>. QED BY <1>4, <2>1, <2>2, <2>3, <2>4 DEF Request, LoadAttempt, ChargeAccepted,
          ChargeUnclear, CheckLost, CheckAnswered, CheckRejected, SaveBankAccount,
          StatusWriteFails, CountAttempts, RequestDies
<1>5. ASSUME NEW r \in Requests, NEW o \in Orders, Checkout(r, o)
      PROVE  RowsAgree'
  <2>. DEFINE row == [order |-> o, ref |-> <<o, 0>>, amount |-> Total[o],
                      status |-> "initializing"]
  <2>1. row \in Rows
    BY PaymentsAssumption DEF Rows, Refs, PaymentStatus
  <2>. QED BY <1>2, <1>5, <2>1 DEF Checkout
<1>6. ASSUME NEW h \in Hooks, WebhookCommit(h)
      PROVE  RowsAgree'
  <2>1. hook[h].id \in 0..MaxPayments /\ hook[h].order \in Orders
    BY <1>6 DEF WebhookCommit, TypeOK, Deliveries, PaymentIds
  <2>. QED BY <1>1, <1>3, <1>6, <2>1 DEF WebhookCommit
<1>7. CASE Admin
  <2>1. ASSUME NEW p \in PaymentIds, NEW row \in Rows, AdminUpdate(p, row)
        PROVE  RowsAgree'
    BY <1>1, <2>1 DEF AdminUpdate, StaffKeepTheBooks, TypeOK
  <2>2. ASSUME NEW p \in PaymentIds, AdminDelete(p)
        PROVE  RowsAgree'
    BY <1>1, <2>2 DEF AdminDelete, TypeOK
  <2>. QED BY <1>7, <2>1, <2>2 DEF Admin, AdminCreate, StaffKeepTheBooks
<1>8. CASE UNCHANGED payments
  BY <1>1, <1>8
<1>. QED BY <1>4, <1>5, <1>6, <1>7, <1>8 DEF Next, Retry, DeliveryDies, WebhookReceived,
        WebhookIgnored, CustomerPays, ChargeExpires

\* The snapshots requests work from keep doing so, however old.
LEMMA RequestsStayAgreed ==
  ASSUME TypeOK, BackedInv, Next
  PROVE  RequestsAgree'
<1>. USE DEF RequestsAgree, Agrees
<1>1. RowsAgree /\ RequestsAgree
  BY DEF BackedInv
\* a request that does not move keeps what it knows
<1>2. ASSUME NEW r \in Requests, pc'[r] = pc[r], job'[r] = job[r], pc[r] # "idle"
      PROVE  /\ Agrees(job'[r])
             /\ pc'[r] \in {"bank", "write"} /\ job'[r].status = "successful" =>
                  charge'[job'[r].ref] = "success"
  <2>1. job[r].ref \in Refs
    BY <1>2 DEF TypeOK, RequestsOK, Jobs
  <2>. QED BY <1>1, <1>2, <2>1, ReceivedStays
\* a request that moves leaves the others alone
<1>3. ASSUME NEW r \in Requests, NEW step, NEW snapshot, Goto(r, step, snapshot),
             step # "idle" =>
               /\ Agrees(snapshot)
               /\ step \in {"bank", "write"} /\ snapshot.status = "successful" =>
                    charge'[snapshot.ref] = "success"
      PROVE  RequestsAgree'
  <2>1. ASSUME NEW q \in Requests, pc'[q] # "idle"
        PROVE  /\ Agrees(job'[q])
               /\ pc'[q] \in {"bank", "write"} /\ job'[q].status = "successful" =>
                    charge'[job'[q].ref] = "success"
    <3>1. CASE q = r
      BY <1>3, <2>1, <3>1 DEF Goto, TypeOK, RequestsOK
    <3>2. CASE q # r
      <4>1. pc'[q] = pc[q] /\ job'[q] = job[q]
        BY <1>3, <3>2 DEF Goto, TypeOK, RequestsOK
      <4>. QED BY <1>2, <2>1, <4>1
    <3>. QED BY <3>1, <3>2
  <2>. QED BY <2>1
<1>4. ASSUME NEW r \in Requests, Request(r)
      PROVE  RequestsAgree'
  <2>. DEFINE With(s) == [job[r] EXCEPT !.status = s]
  <2>1. /\ job[r] \in Jobs
        /\ Agrees(job[r])
        /\ pc[r] \in {"bank", "write"} /\ job[r].status = "successful" =>
             charge[job[r].ref] = "success"
        /\ charge[job[r].ref] = "success" => charge'[job[r].ref] = "success"
    <3>1. pc[r] # "idle"
      BY <1>4 DEF Request, LoadAttempt, ChargeAccepted, ChargeUnclear, CheckLost,
         CheckAnswered, CheckRejected, SaveBankAccount, MarkPaid, WriteStatus,
         StatusWriteFails, CountAttempts, CreateAttempt, RequestDies
    <3>2. job[r] \in Jobs /\ job[r].ref \in Refs
      BY <3>1 DEF TypeOK, RequestsOK, Jobs
    <3>. QED BY <1>1, <3>1, <3>2, ReceivedStays
  <2>2. ASSUME NEW s \in PaymentStatus
        PROVE  Agrees(With(s)) /\ With(s).status = s /\ With(s).ref = job[r].ref
    BY <2>1 DEF Jobs
  <2>3. CASE Return(r)
    BY <2>3, <1>3 DEF Return
  <2>4. CASE LoadAttempt(r)
    <3>1. CASE /\ Exists(job[r].id)
               /\ Goto(r, "post", SnapshotOf(job[r].id, "initialize", 0))
      <4>1. job[r].id \in PaymentIds
        BY <2>4 DEF LoadAttempt, TypeOK, RequestsOK
      <4>2. Agrees(SnapshotOf(job[r].id, "initialize", 0))
        BY <1>1, <3>1, <4>1 DEF RowsAgree, SnapshotOf
      <4>. QED BY <1>3, <3>1, <4>2
    <3>. QED BY <2>3, <2>4, <3>1 DEF LoadAttempt
  <2>5. ASSUME NEW s \in PaymentStatus \ {"successful"}, NEW step \in {"bank", "write"},
               Goto(r, step, With(s))
        PROVE  RequestsAgree'
    <3>. HIDE DEF With
    <3>. QED BY <2>2, <2>5, <1>3
  <2>6. CASE ChargeAccepted(r) \/ ChargeUnclear(r) \/ CheckRejected(r) \/ StatusWriteFails(r)
    BY <2>5, <2>6 DEF ChargeAccepted, ChargeUnclear, CheckRejected, StatusWriteFails,
       PaymentStatus
  <2>7. CASE CheckAnswered(r)
    <3>1. CASE charge[job[r].ref] = "success"
      <4>1. Goto(r, "bank", With("successful"))
        BY <2>7, <3>1 DEF CheckAnswered
      <4>2. charge'[With("successful").ref] = "success" /\ Agrees(With("successful"))
        BY <2>1, <2>2, <3>1 DEF PaymentStatus
      <4>. HIDE DEF With
      <4>. QED BY <1>3, <4>1, <4>2
    <3>2. CASE charge[job[r].ref] # "success"
      BY <2>5, <2>7, <3>2 DEF CheckAnswered, PaymentStatus
    <3>. QED BY <3>1, <3>2
  <2>8. CASE SaveBankAccount(r)
    <3>1. CASE Goto(r, "write", job[r])
      BY <1>3, <2>1, <2>8, <3>1 DEF SaveBankAccount
    <3>2. CASE Goto(r, "write", With("failed"))
      BY <2>5, <3>2 DEF PaymentStatus
    <3>. QED BY <2>3, <2>8, <3>1, <3>2 DEF SaveBankAccount
  <2>9. CASE WriteStatus(r)
    <3>1. CASE Goto(r, "create", job[r])
      BY <1>3, <2>1, <3>1
    <3>. QED BY <2>3, <2>9, <3>1 DEF WriteStatus
  <2>10. CASE CreateAttempt(r)
    <3>. DEFINE o == job[r].order
                next == [from |-> "initialize", id |-> nextId, order |-> o,
                         ref |-> <<o, job[r].number>>, amount |-> Total[o],
                         number |-> 0, status |-> "initializing"]
    <3>1. CASE Goto(r, "load", next)
      <4>1. Agrees(next)
        OBVIOUS
      <4>. HIDE DEF next
      <4>. QED BY <1>3, <3>1, <4>1
    <3>. QED BY <2>3, <2>10, <3>1 DEF CreateAttempt
  <2>11. CASE CountAttempts(r)
    <3>1. CASE Goto(r, "insert", job[r])
      BY <1>3, <2>1, <3>1
    <3>. QED BY <2>3, <2>11, <3>1 DEF CountAttempts
  <2>. QED BY <1>4, <2>3, <2>4, <2>6, <2>7, <2>8, <2>9, <2>10, <2>11
       DEF Request, CheckLost, MarkPaid, RequestDies
<1>5. ASSUME NEW r \in Requests, NEW o \in Orders, Checkout(r, o)
      PROVE  RequestsAgree'
  BY <1>3, <1>5 DEF Checkout
<1>6. ASSUME NEW r \in Requests, NEW o \in Orders, Retry(r, o)
      PROVE  RequestsAgree'
  <2>. DEFINE number == Cardinality(PaymentsOf(o)) + 1
  <2>1. ASSUME NEW p \in PaymentIds, IsLatest(p, o),
               Goto(r, "check", SnapshotOf(p, "reconcile", number))
        PROVE  RequestsAgree'
    <3>1. Agrees(SnapshotOf(p, "reconcile", number))
      BY <1>1, <2>1 DEF RowsAgree, IsLatest, PaymentsOf, SnapshotOf
    <3>. QED BY <1>3, <2>1, <3>1
  <2>2. CASE Goto(r, "create", [from |-> "reconcile", id |-> 0, order |-> o,
               ref |-> <<o, 0>>, amount |-> Total[o], number |-> number,
               status |-> "failed"])
    BY <1>3, <2>2
  <2>. QED BY <1>6, <2>1, <2>2 DEF Retry
<1>7. CASE UNCHANGED <<pc, job>>
  BY <1>2, <1>7
<1>. QED BY <1>4, <1>5, <1>6, <1>7 DEF Next, WebhookReceived, WebhookIgnored,
        WebhookCommit, DeliveryDies, CustomerPays, ChargeExpires, Admin, AdminCreate,
        AdminUpdate, AdminDelete

\* A delivery under way is about money that arrived under its reference.
LEMMA DeliveriesStayAgreed ==
  ASSUME TypeOK, BackedInv, Next
  PROVE  DeliveriesAgree'
<1>. USE DEF DeliveriesAgree, Arrived
<1>1. ASSUME NEW h \in Hooks, hook[h] # NoDelivery
      PROVE  /\ hook[h].ref[1] = hook[h].order
             /\ charge'[hook[h].ref] = "success"
             /\ received'[hook[h].ref] = Total[hook[h].order]
  <2>1. hook[h].ref \in Refs
    BY <1>1 DEF TypeOK, Deliveries
  <2>. QED BY <1>1, <2>1, ReceivedStays DEF BackedInv
<1>2. ASSUME NEW h \in Hooks, NEW ref \in Refs, WebhookReceived(h, ref)
      PROVE  DeliveriesAgree'
  <2>1. ASSUME NEW p \in PaymentIds, Exists(p), payments[p].ref = ref,
               payments[p].amount = received[ref],
               hook' = [hook EXCEPT ![h] =
                 [id |-> p, order |-> payments[p].order, ref |-> ref]]
        PROVE  DeliveriesAgree'
    <3>1. ref[1] = payments[p].order /\ received[ref] = Total[payments[p].order]
      BY <2>1 DEF BackedInv, RowsAgree, Agrees
    <3>2. charge[ref] = "success" /\ UNCHANGED <<charge, received>>
      BY <1>2 DEF WebhookReceived
    <3>. QED BY <1>1, <2>1, <3>1, <3>2 DEF TypeOK
  <2>. QED BY <1>1, <1>2, <2>1 DEF WebhookReceived
<1>3. ASSUME NEW h \in Hooks, WebhookCommit(h) \/ DeliveryDies(h)
      PROVE  DeliveriesAgree'
  BY <1>1, <1>3 DEF WebhookCommit, DeliveryDies, TypeOK
<1>4. CASE UNCHANGED hook
  BY <1>1, <1>4
<1>. QED BY <1>2, <1>3, <1>4 DEF Next, Request, Checkout, Retry, LoadAttempt,
        ChargeAccepted, ChargeUnclear, CheckLost, CheckAnswered, CheckRejected,
        SaveBankAccount, MarkPaid, WriteStatus, StatusWriteFails, CountAttempts, CreateAttempt,
        RequestDies, WebhookIgnored, CustomerPays, ChargeExpires, Admin, AdminCreate,
        AdminUpdate, AdminDelete

\* So an order that turns paid is backed, and one that is paid stays so.
LEMMA PaidStaysBacked ==
  ASSUME TypeOK, BackedInv, Next
  PROVE  PaidIsBacked'
<1>. USE DEF Arrived
\* a paid order stays backed while the provider's records stay
<1>1. ASSUME NEW o \in Orders, order[o] = "paid"
      PROVE  \E n \in 0..MaxAttempt : Arrived(<<o, n>>, o)'
  <2>1. PICK n \in 0..MaxAttempt : Arrived(<<o, n>>, o)
    BY <1>1 DEF BackedInv, PaidIsBacked
  <2>2. <<o, n>> \in Refs
    BY DEF Refs
  <2>. QED BY <2>1, <2>2, ReceivedStays
\* an order is settled only against money that arrived for it
<1>2. ASSUME NEW p, NEW o \in Orders, Settle(p, o), NEW ref \in Refs,
             ref[1] = o, Arrived(ref, o), UNCHANGED <<charge, received>>
      PROVE  PaidIsBacked'
  <2>1. ref = <<o, ref[2]>> /\ ref[2] \in 0..MaxAttempt
    BY <1>2 DEF Refs
  <2>2. \A q \in Orders : order'[q] = "paid" => q = o \/ order[q] = "paid"
    BY <1>2 DEF Settle, TypeOK
  <2>. QED BY <1>1, <1>2, <2>1, <2>2 DEF PaidIsBacked
<1>3. ASSUME NEW r \in Requests, MarkPaid(r)
      PROVE  PaidIsBacked'
  <2>1. /\ job[r].order \in Orders /\ job[r].ref \in Refs
        /\ job[r].ref[1] = job[r].order
        /\ job[r].amount = Total[job[r].order]
        /\ charge[job[r].ref] = "success"
    BY <1>3 DEF MarkPaid, TypeOK, RequestsOK, Jobs, BackedInv, RequestsAgree, Agrees
  <2>2. CASE received[job[r].ref] = job[r].amount /\ Settle(job[r].id, job[r].order)
    BY <1>2, <1>3, <2>1, <2>2 DEF MarkPaid
  <2>. QED BY <1>1, <1>3, <2>2 DEF MarkPaid, PaidIsBacked
<1>4. ASSUME NEW h \in Hooks, WebhookCommit(h)
      PROVE  PaidIsBacked'
  <2>1. /\ hook[h].order \in Orders /\ hook[h].ref \in Refs
        /\ hook[h].ref[1] = hook[h].order
        /\ Arrived(hook[h].ref, hook[h].order)
    BY <1>4 DEF WebhookCommit, TypeOK, Deliveries, BackedInv, DeliveriesAgree
  <2>2. CASE Settle(hook[h].id, hook[h].order)
    BY <1>2, <1>4, <2>1, <2>2 DEF WebhookCommit
  <2>. QED BY <1>1, <1>4, <2>2 DEF WebhookCommit, PaidIsBacked
<1>5. ASSUME NEW r \in Requests, NEW o \in Orders, Checkout(r, o)
      PROVE  PaidIsBacked'
  BY <1>1, <1>5 DEF Checkout, PaidIsBacked, TypeOK
<1>6. CASE UNCHANGED order
  BY <1>1, <1>6 DEF PaidIsBacked
<1>. QED BY <1>3, <1>4, <1>5, <1>6 DEF Next, Request, Retry, LoadAttempt, ChargeAccepted,
        ChargeUnclear, CheckLost, CheckAnswered, CheckRejected, SaveBankAccount,
        WriteStatus, StatusWriteFails, CountAttempts, CreateAttempt, RequestDies, WebhookReceived,
        WebhookIgnored, DeliveryDies, CustomerPays, ChargeExpires, Admin, AdminCreate,
        AdminUpdate, AdminDelete

\* While staff only change statuses and delete payments, rows, requests and
\* deliveries agree on order, reference and amount, and with the provider.
LEMMA BooksAgree ==
  ASSUME StaffKeepTheBooks
  PROVE  Spec => []BackedInv
<1>1. Init => BackedInv
  BY DEF Init, BackedInv, RowsAgree, RequestsAgree, DeliveriesAgree, PaidIsBacked, Exists
<1>2. TypeOK /\ BackedInv /\ [Next]_vars => BackedInv'
  <2>1. ASSUME TypeOK, BackedInv, Next
        PROVE  BackedInv'
    BY <2>1, StaffKeepTheBooks, RowsStayAgreed, RequestsStayAgreed, DeliveriesStayAgreed,
       PaidStaysBacked DEF BackedInv
  <2>2. CASE UNCHANGED vars
    BY <2>2 DEF vars, BackedInv, RowsAgree, RequestsAgree, DeliveriesAgree, PaidIsBacked,
       Exists, Agrees, Arrived
  <2>. QED BY <2>1, <2>2
<1>. QED BY <1>1, <1>2, TypeCorrect, PTL DEF Spec

\* So an order is never paid without Paystack having received exactly its
\* total for it.
THEOREM PaidOrdersAreBacked ==
  ASSUME StaffKeepTheBooks
  PROVE  Spec => []PaidIsBacked
<1>1. BackedInv => PaidIsBacked
  BY DEF BackedInv
<1>. QED BY <1>1, StaffKeepTheBooks, BooksAgree, PTL

\* An order turns paid together with a payment row that turns successful:
\* Settle writes both or neither, and needs the payment row to be there.
THEOREM OrdersTurnPaidWithAPayment == Spec => OrderPaidWithItsPayment
<1>. DEFINE Together ==
       \A o \in Orders : order[o] # "paid" /\ order'[o] = "paid" =>
         \E p \in PaymentIds : payments'[p].status = "successful"
<1>1. ASSUME NEW p \in PaymentIds, NEW o \in Orders, TypeOK, Settle(p, o)
      PROVE  Together
  BY <1>1 DEF Settle, Exists, TypeOK, Rows
<1>2. TypeOK /\ [Next]_vars => [Together]_vars
  <2>1. ASSUME TypeOK, Next
        PROVE  Together
    <3>1. ASSUME NEW r \in Requests, MarkPaid(r)
          PROVE  Together
      <4>1. job[r].id \in PaymentIds /\ job[r].order \in Orders
        BY <2>1, <3>1 DEF MarkPaid, TypeOK, RequestsOK, Jobs
      <4>. QED BY <1>1, <2>1, <3>1, <4>1 DEF MarkPaid
    <3>2. ASSUME NEW h \in Hooks, WebhookCommit(h)
          PROVE  Together
      <4>1. hook[h].id \in PaymentIds /\ hook[h].order \in Orders
        BY <2>1, <3>2 DEF WebhookCommit, TypeOK, Deliveries
      <4>. QED BY <1>1, <2>1, <3>2, <4>1 DEF WebhookCommit
    <3>3. ASSUME NEW r \in Requests, NEW o \in Orders, Checkout(r, o)
          PROVE  Together
      BY <2>1, <3>3 DEF Checkout, TypeOK
    <3>. QED BY <2>1, <3>1, <3>2, <3>3 DEF Next, Request, Retry, LoadAttempt,
            ChargeAccepted, ChargeUnclear, CheckLost, CheckAnswered, CheckRejected,
            SaveBankAccount, WriteStatus, StatusWriteFails, CountAttempts, CreateAttempt,
            RequestDies,
            WebhookReceived, WebhookIgnored, DeliveryDies, CustomerPays, ChargeExpires,
            Admin, AdminCreate, AdminUpdate, AdminDelete
  <2>. QED BY <2>1
<1>. QED BY <1>2, TypeCorrect, PTL DEF Spec, OrderPaidWithItsPayment

-----------------------------------------------------------------------------
(* The refinement of Ledger.                                               *)

\* Whatever there is of an order - rows, requests, deliveries, charges - there
\* is only once it has been placed.
PlacedInv ==
  /\ \A p \in PaymentIds : Exists(p) => order[payments[p].order] # "none"
  /\ \A r \in Requests : pc[r] # "idle" => order[job[r].order] # "none"
  /\ \A h \in Hooks : hook[h] # NoDelivery => order[hook[h].order] # "none"
  /\ \A ref \in Refs : charge[ref] # "none" => order[ref[1]] # "none"

\* What a step does to the orders: a checkout places one, a settlement of a
\* request or a delivery pays one, and nothing else touches them.
LEMMA WhatHappensToOrders ==
  ASSUME TypeOK, Next
  PROVE  \/ UNCHANGED order
         \/ \E r \in Requests, o \in Orders : Checkout(r, o)
         \/ \E r \in Requests : MarkPaid(r) /\ received[job[r].ref] = job[r].amount
                                /\ Settle(job[r].id, job[r].order)
         \/ \E h \in Hooks : WebhookCommit(h) /\ Settle(hook[h].id, hook[h].order)
BY DEF Next, Request, Retry, LoadAttempt, ChargeAccepted,
   ChargeUnclear, CheckLost, CheckAnswered, CheckRejected, SaveBankAccount, MarkPaid,
   WriteStatus, StatusWriteFails, CountAttempts, CreateAttempt, RequestDies, WebhookReceived,
   WebhookIgnored, WebhookCommit, DeliveryDies, Admin, AdminCreate, AdminUpdate,
   AdminDelete, CustomerPays, ChargeExpires

\* An order that was placed stays so.
LEMMA OrdersStayPlaced ==
  ASSUME TypeOK, Next, NEW o \in Orders, order[o] # "none"
  PROVE  order'[o] # "none"
BY WhatHappensToOrders DEF TypeOK, Checkout, Settle

\* The rows of the table belong to placed orders.
LEMMA RowsStayPlaced ==
  ASSUME TypeOK, PlacedInv, Next
  PROVE  \A p \in PaymentIds : Exists(p)' => order'[payments'[p].order] # "none"
<1>. USE DEF Exists
\* a row that was there keeps an order that was placed
<1>1. ASSUME NEW p \in PaymentIds, Exists(p)
      PROVE  payments[p].order \in Orders /\ order'[payments[p].order] # "none"
  <2>1. payments[p].order \in Orders
    BY <1>1 DEF TypeOK, Rows
  <2>. QED BY <1>1, <2>1, OrdersStayPlaced DEF PlacedInv
\* a new row has one that is placed by the end of the step
<1>2. ASSUME NEW row \in Rows, order'[row.order] # "none", Insert(row)
      PROVE  \A p \in PaymentIds : Exists(p)' => order'[payments'[p].order] # "none"
  BY <1>1, <1>2 DEF Insert, TypeOK
\* a row that keeps its order
<1>3. ASSUME \A p \in PaymentIds : Exists(p)' => Exists(p) /\ payments'[p].order = payments[p].order
      PROVE  \A p \in PaymentIds : Exists(p)' => order'[payments'[p].order] # "none"
  BY <1>1, <1>3
<1>4. ASSUME NEW p \in 0..MaxPayments, NEW o \in Orders, Settle(p, o)
      PROVE  \A q \in PaymentIds : Exists(q)' => Exists(q) /\ payments'[q].order = payments[q].order
  BY <1>4 DEF Settle, TypeOK, Rows, NoRow
<1>5. ASSUME NEW r \in Requests, Request(r)
      PROVE  \A p \in PaymentIds : Exists(p)' => order'[payments'[p].order] # "none"
  <2>1. CASE MarkPaid(r)
    <3>1. job[r].id \in 0..MaxPayments /\ job[r].order \in Orders
      BY <2>1 DEF MarkPaid, TypeOK, RequestsOK, Jobs
    <3>. QED BY <1>3, <1>4, <2>1, <3>1 DEF MarkPaid
  <2>2. CASE WriteStatus(r)
    <3>1. \A p \in PaymentIds : Exists(p)' => Exists(p) /\ payments'[p].order = payments[p].order
      BY <2>2 DEF WriteStatus, TypeOK, Rows, NoRow
    <3>. QED BY <1>3, <3>1
  <2>3. CASE CreateAttempt(r)
    <3>. DEFINE o == job[r].order
                row == [order |-> o, ref |-> <<o, job[r].number>>, amount |-> Total[o],
                        status |-> "initializing"]
    <3>1. CASE UNCHANGED payments
      BY <1>3, <3>1
    <3>2. CASE job[r].number <= MaxAttempt /\ Insert(row)
      <4>1. row \in Rows /\ o \in Orders
        BY <2>3, <3>2, PaymentsAssumption
        DEF CreateAttempt, TypeOK, RequestsOK, Jobs, Rows, Refs, PaymentStatus
      <4>2. order'[o] # "none"
        BY <2>3, <4>1, OrdersStayPlaced DEF PlacedInv, CreateAttempt
      <4>. QED BY <1>2, <3>2, <4>1, <4>2
    <3>. QED BY <2>3, <3>1, <3>2 DEF CreateAttempt
  <2>4. CASE UNCHANGED payments
    BY <1>3, <2>4
  <2>. QED BY <1>5, <2>1, <2>2, <2>3, <2>4 DEF Request, LoadAttempt, ChargeAccepted,
          ChargeUnclear, CheckLost, CheckAnswered, CheckRejected, SaveBankAccount,
          StatusWriteFails, CountAttempts, RequestDies
<1>6. ASSUME NEW r \in Requests, NEW o \in Orders, Checkout(r, o)
      PROVE  \A p \in PaymentIds : Exists(p)' => order'[payments'[p].order] # "none"
  <2>. DEFINE row == [order |-> o, ref |-> <<o, 0>>, amount |-> Total[o],
                      status |-> "initializing"]
  <2>1. row \in Rows
    BY PaymentsAssumption DEF Rows, Refs, PaymentStatus
  <2>2. order'[row.order] # "none"
    BY <1>6 DEF Checkout, TypeOK
  <2>. QED BY <1>2, <1>6, <2>1, <2>2 DEF Checkout
<1>7. ASSUME NEW h \in Hooks, WebhookCommit(h)
      PROVE  \A p \in PaymentIds : Exists(p)' => order'[payments'[p].order] # "none"
  <2>1. hook[h] # NoDelivery => hook[h].id \in 0..MaxPayments /\ hook[h].order \in Orders
    BY DEF TypeOK, Deliveries, PaymentIds
  <2>. QED BY <1>3, <1>4, <1>7, <2>1 DEF WebhookCommit
<1>8. CASE Admin
  <2>1. ASSUME NEW row \in Rows, AdminCreate(row)
        PROVE  \A p \in PaymentIds : Exists(p)' => order'[payments'[p].order] # "none"
    BY <1>2, <2>1 DEF AdminCreate
  <2>2. ASSUME NEW p \in PaymentIds, NEW row \in Rows, AdminUpdate(p, row)
        PROVE  \A q \in PaymentIds : Exists(q)' => order'[payments'[q].order] # "none"
    BY <1>1, <2>2 DEF AdminUpdate, TypeOK
  <2>3. ASSUME NEW p \in PaymentIds, AdminDelete(p)
        PROVE  \A q \in PaymentIds : Exists(q)' => order'[payments'[q].order] # "none"
    BY <1>1, <2>3 DEF AdminDelete, TypeOK
  <2>. QED BY <1>8, <2>1, <2>2, <2>3 DEF Admin
<1>9. CASE UNCHANGED payments
  BY <1>3, <1>9
<1>. QED BY <1>5, <1>6, <1>7, <1>8, <1>9 DEF Next, Retry, DeliveryDies, WebhookReceived,
        WebhookIgnored, CustomerPays, ChargeExpires

\* A request works for a placed order.
LEMMA RequestsStayPlaced ==
  ASSUME TypeOK, PlacedInv, Next
  PROVE  \A r \in Requests : pc'[r] # "idle" => order'[job'[r].order] # "none"
<1>. DEFINE Goal == \A r \in Requests : pc'[r] # "idle" => order'[job'[r].order] # "none"
<1>1. ASSUME NEW r \in Requests, pc[r] # "idle"
      PROVE  /\ job[r] \in Jobs /\ job[r].order \in Orders
             /\ order[job[r].order] # "none" /\ order'[job[r].order] # "none"
  <2>1. job[r] \in Jobs /\ job[r].order \in Orders
    BY <1>1 DEF TypeOK, RequestsOK, Jobs
  <2>. QED BY <1>1, <2>1, OrdersStayPlaced DEF PlacedInv
<1>2. ASSUME NEW r \in Requests, NEW step, NEW snapshot, Goto(r, step, snapshot),
             step # "idle" => order'[snapshot.order] # "none"
      PROVE  Goal
  BY <1>1, <1>2 DEF Goto, TypeOK, RequestsOK
<1>3. ASSUME NEW p \in PaymentIds, Exists(p)
      PROVE  order'[payments[p].order] # "none"
  <2>1. payments[p].order \in Orders
    BY <1>3 DEF TypeOK, Rows, Exists
  <2>. QED BY <1>3, <2>1, OrdersStayPlaced DEF PlacedInv
<1>4. ASSUME NEW r \in Requests, Request(r)
      PROVE  Goal
  <2>. DEFINE With(s) == [job[r] EXCEPT !.status = s]
  <2>1. pc[r] # "idle"
    BY <1>4 DEF Request, LoadAttempt, ChargeAccepted, ChargeUnclear, CheckLost,
       CheckAnswered, CheckRejected, SaveBankAccount, MarkPaid, WriteStatus,
       StatusWriteFails, CountAttempts, CreateAttempt, RequestDies
  <2>2. \A s : With(s).order = job[r].order
    BY <1>1, <2>1 DEF Jobs
  <2>3. CASE Return(r)
    BY <2>3, <1>2 DEF Return
  <2>4. ASSUME NEW s, NEW step, Goto(r, step, With(s))
        PROVE  Goal
    <3>. HIDE DEF With
    <3>. QED BY <1>1, <1>2, <2>1, <2>2, <2>4
  <2>5. ASSUME NEW step, Goto(r, step, job[r])
        PROVE  Goal
    BY <1>1, <1>2, <2>1, <2>5
  <2>6. CASE LoadAttempt(r)
    <3>1. CASE /\ Exists(job[r].id)
               /\ Goto(r, "post", SnapshotOf(job[r].id, "initialize", 0))
      <4>1. job[r].id \in PaymentIds
        BY <2>6 DEF LoadAttempt, TypeOK, RequestsOK
      <4>2. SnapshotOf(job[r].id, "initialize", 0).order = payments[job[r].id].order
        BY DEF SnapshotOf
      <4>. QED BY <1>2, <1>3, <3>1, <4>1, <4>2
    <3>. QED BY <2>3, <2>6, <3>1 DEF LoadAttempt
  <2>7. CASE CreateAttempt(r)
    <3>. DEFINE o == job[r].order
                next == [from |-> "initialize", id |-> nextId, order |-> o,
                         ref |-> <<o, job[r].number>>, amount |-> Total[o],
                         number |-> 0, status |-> "initializing"]
    <3>1. CASE Goto(r, "load", next)
      <4>1. next.order = job[r].order
        OBVIOUS
      <4>. HIDE DEF next
      <4>. QED BY <1>1, <1>2, <2>1, <3>1, <4>1
    <3>. QED BY <2>3, <2>7, <3>1 DEF CreateAttempt
  <2>8. CASE ChargeAccepted(r) \/ ChargeUnclear(r) \/ CheckAnswered(r) \/ CheckRejected(r)
             \/ StatusWriteFails(r)
    BY <2>4, <2>8 DEF ChargeAccepted, ChargeUnclear, CheckAnswered, CheckRejected,
       StatusWriteFails
  <2>9. CASE SaveBankAccount(r) \/ WriteStatus(r) \/ CountAttempts(r)
    BY <2>3, <2>4, <2>5, <2>9 DEF SaveBankAccount, WriteStatus, CountAttempts
  <2>. QED BY <1>4, <2>3, <2>6, <2>7, <2>8, <2>9
       DEF Request, CheckLost, MarkPaid, RequestDies
<1>5. ASSUME NEW r \in Requests, NEW o \in Orders, Checkout(r, o)
      PROVE  Goal
  BY <1>2, <1>5 DEF Checkout, TypeOK
<1>6. ASSUME NEW r \in Requests, NEW o \in Orders, Retry(r, o)
      PROVE  Goal
  <2>. DEFINE number == Cardinality(PaymentsOf(o)) + 1
  <2>1. order'[o] # "none"
    BY <1>6, OrdersStayPlaced DEF Retry
  <2>2. ASSUME NEW p \in PaymentIds, IsLatest(p, o),
               Goto(r, "check", SnapshotOf(p, "reconcile", number))
        PROVE  Goal
    <3>1. SnapshotOf(p, "reconcile", number).order = o
      BY <2>2 DEF IsLatest, PaymentsOf, SnapshotOf
    <3>. QED BY <1>2, <2>1, <2>2, <3>1
  <2>3. CASE Goto(r, "create", [from |-> "reconcile", id |-> 0, order |-> o,
               ref |-> <<o, 0>>, amount |-> Total[o], number |-> number,
               status |-> "failed"])
    BY <1>2, <2>1, <2>3
  <2>. QED BY <1>6, <2>2, <2>3 DEF Retry
<1>7. CASE UNCHANGED <<pc, job>>
  BY <1>1, <1>7
<1>. QED BY <1>4, <1>5, <1>6, <1>7 DEF Next, WebhookReceived, WebhookIgnored,
        WebhookCommit, DeliveryDies, CustomerPays, ChargeExpires, Admin, AdminCreate,
        AdminUpdate, AdminDelete

\* Deliveries and charges are of placed orders, because the rows and requests
\* they come from are.
LEMMA ProviderStaysPlaced ==
  ASSUME TypeOK, BackedInv, PlacedInv, Next
  PROVE  /\ \A h \in Hooks : hook'[h] # NoDelivery => order'[hook'[h].order] # "none"
         /\ \A ref \in Refs : charge'[ref] # "none" => order'[ref[1]] # "none"
<1>1. ASSUME NEW h \in Hooks, hook'[h] # NoDelivery
      PROVE  order'[hook'[h].order] # "none"
  <2>1. CASE hook'[h] = hook[h]
    <3>1. hook[h].order \in Orders
      BY <1>1, <2>1 DEF TypeOK, Deliveries
    <3>. QED BY <1>1, <2>1, <3>1, OrdersStayPlaced DEF PlacedInv
  <2>2. CASE \E p \in PaymentIds : Exists(p) /\ hook'[h].order = payments[p].order
    <3>1. PICK p \in PaymentIds : Exists(p) /\ hook'[h].order = payments[p].order
      BY <2>2
    <3>2. payments[p].order \in Orders
      BY <3>1 DEF TypeOK, Rows, Exists
    <3>. QED BY <3>1, <3>2, OrdersStayPlaced DEF PlacedInv
  <2>3. ASSUME NEW g \in Hooks, NEW ref \in Refs, WebhookReceived(g, ref)
        PROVE  \/ hook'[h] = hook[h]
               \/ \E p \in PaymentIds : Exists(p) /\ hook'[h].order = payments[p].order
    BY <2>3 DEF WebhookReceived, TypeOK
  <2>4. ASSUME NEW g \in Hooks, WebhookCommit(g) \/ DeliveryDies(g)
        PROVE  hook'[h] = hook[h]
    BY <1>1, <2>4 DEF WebhookCommit, DeliveryDies, TypeOK
  <2>5. CASE UNCHANGED hook
    BY <2>1, <2>5
  <2>. QED BY <2>1, <2>2, <2>3, <2>4, <2>5 DEF Next, Request, Checkout, Retry, LoadAttempt,
        ChargeAccepted, ChargeUnclear, CheckLost, CheckAnswered, CheckRejected,
        SaveBankAccount, MarkPaid, WriteStatus, StatusWriteFails, CountAttempts, CreateAttempt,
        RequestDies, WebhookIgnored,
        CustomerPays, ChargeExpires, Admin, AdminCreate, AdminUpdate, AdminDelete
<1>2. ASSUME NEW ref \in Refs, charge'[ref] # "none"
      PROVE  order'[ref[1]] # "none"
  <2>1. ref[1] \in Orders
    BY DEF Refs
  <2>2. CASE charge[ref] # "none"
    BY <2>1, <2>2, OrdersStayPlaced DEF PlacedInv
  <2>3. CASE \E r \in Requests : pc[r] = "post" /\ job[r].ref = ref
    <3>1. PICK r \in Requests : pc[r] = "post" /\ job[r].ref = ref
      BY <2>3
    <3>2. ref[1] = job[r].order
      BY <3>1 DEF BackedInv, RequestsAgree, Agrees
    <3>. QED BY <2>1, <3>1, <3>2, OrdersStayPlaced DEF PlacedInv
  <2>. QED BY <1>2, <2>2, <2>3 DEF Next, Request, Checkout, Retry, LoadAttempt,
        ChargeAccepted, ChargeUnclear, CheckLost, CheckAnswered, CheckRejected,
        SaveBankAccount, MarkPaid, WriteStatus, StatusWriteFails, CountAttempts, CreateAttempt,
        RequestDies, WebhookReceived, WebhookCommit, DeliveryDies, WebhookIgnored,
        CustomerPays, ChargeExpires, Admin, AdminCreate, AdminUpdate, AdminDelete, TypeOK
<1>. QED BY <1>1, <1>2

\* What a step does to the money: a transfer of the exact total funds an
\* order that has been placed, and nothing is taken back.
LEMMA WhatHappensToMoney ==
  ASSUME TypeOK, PlacedInv, Next
  PROVE  \/ UNCHANGED Funded
         \/ UNCHANGED order /\ \E o \in Orders : order[o] # "none" /\ Funded' = Funded \cup {o}
<1>1. Funded \subseteq Funded'
  <2>1. ASSUME NEW o \in Orders, NEW n \in 0..MaxAttempt, charge[<<o, n>>] = "success",
               received[<<o, n>>] = Total[o]
        PROVE  charge'[<<o, n>>] = "success" /\ received'[<<o, n>>] = Total[o]
    <3>1. <<o, n>> \in Refs
      BY DEF Refs
    <3>. QED BY <2>1, <3>1, ReceivedStays
  <2>. QED BY <2>1 DEF Funded
<1>2. CASE \A ref \in Refs : charge'[ref] = "success" =>
             charge[ref] = "success" /\ received'[ref] = received[ref]
  <2>1. ASSUME NEW o \in Orders, NEW n \in 0..MaxAttempt
        PROVE  <<o, n>> \in Refs
    BY DEF Refs
  <2>2. Funded' \subseteq Funded
    BY <1>2, <2>1 DEF Funded
  <2>. QED BY <1>1, <2>2
<1>3. ASSUME NEW ref \in Refs, CustomerPays(ref)
      PROVE  \/ UNCHANGED Funded
             \/ UNCHANGED order /\ \E o \in Orders : order[o] # "none" /\ Funded' = Funded \cup {o}
  <2>1. PICK o \in Orders, n \in 0..MaxAttempt : ref = <<o, n>>
    BY DEF Refs
  <2>2. ASSUME NEW q \in Orders, NEW m \in 0..MaxAttempt, <<q, m>> # ref
        PROVE  charge'[<<q, m>>] = charge[<<q, m>>] /\ received'[<<q, m>>] = received[<<q, m>>]
    <3>1. <<q, m>> \in Refs
      BY DEF Refs
    <3>. QED BY <1>3, <2>2, <3>1 DEF CustomerPays, TypeOK
  <2>3. Funded' \subseteq Funded \cup {o}
    BY <2>1, <2>2 DEF Funded
  <2>4. order[o] # "none" /\ UNCHANGED order
    BY <1>3, <2>1 DEF CustomerPays, PlacedInv
  <2>5. CASE o \in Funded'
    BY <1>1, <2>3, <2>4, <2>5
  <2>6. CASE o \notin Funded'
    BY <1>1, <2>3, <2>6
  <2>. QED BY <2>5, <2>6
<1>4. ASSUME NEW r \in Requests, ChargeAccepted(r) \/ ChargeUnclear(r)
      PROVE  \A ref \in Refs : charge'[ref] = "success" =>
               charge[ref] = "success" /\ received'[ref] = received[ref]
  BY <1>4 DEF ChargeAccepted, ChargeUnclear, TypeOK
<1>5. ASSUME NEW ref \in Refs, ChargeExpires(ref)
      PROVE  \A q \in Refs : charge'[q] = "success" =>
               charge[q] = "success" /\ received'[q] = received[q]
  BY <1>5 DEF ChargeExpires, TypeOK
<1>. QED BY <1>2, <1>3, <1>4, <1>5 DEF Next, Request, Checkout, Retry, LoadAttempt,
        CheckLost, CheckAnswered, CheckRejected,
        SaveBankAccount, MarkPaid, WriteStatus, StatusWriteFails, CountAttempts, CreateAttempt,
        RequestDies, WebhookReceived, WebhookCommit, DeliveryDies, WebhookIgnored,
        Admin, AdminCreate, AdminUpdate, AdminDelete

\* Every step of the payments is a step of the ledger, or none.
LEMMA StepOfLedger ==
  ASSUME TypeOK, BackedInv, BackedInv', PlacedInv, Next
  PROVE  Promise!Next \/ UNCHANGED <<order, Funded>>
<1>. USE DEF Promise!Next
<1>1. ASSUME NEW p, NEW o \in Orders, Settle(p, o), order[o] # "none",
             UNCHANGED <<charge, received>>
      PROVE  Promise!Settle(o) \/ UNCHANGED <<order, Funded>>
  <2>1. UNCHANGED Funded
    BY <1>1 DEF Funded
  <2>2. o \in Funded
    <3>1. order'[o] = "paid"
      BY <1>1 DEF Settle, TypeOK
    <3>. QED BY <2>1, <3>1 DEF BackedInv, PaidIsBacked, Funded
  <2>3. CASE order[o] = "paid"
    BY <1>1, <2>1, <2>3 DEF Settle, TypeOK
  <2>4. CASE order[o] = "pending"
    BY <1>1, <2>1, <2>2, <2>4 DEF Settle, Promise!Settle
  <2>. QED BY <1>1, <2>3, <2>4 DEF TypeOK
<1>2. ASSUME NEW r \in Requests, NEW o \in Orders, Checkout(r, o)
      PROVE  Promise!Place(o)
  BY <1>2 DEF Checkout, Funded, Promise!Place
<1>3. ASSUME NEW r \in Requests, MarkPaid(r), Settle(job[r].id, job[r].order)
      PROVE  Promise!Next \/ UNCHANGED <<order, Funded>>
  <2>1. /\ job[r].order \in Orders /\ order[job[r].order] # "none"
        /\ UNCHANGED <<charge, received>>
    BY <1>3 DEF MarkPaid, TypeOK, RequestsOK, Jobs, PlacedInv
  <2>. QED BY <1>1, <1>3, <2>1
<1>4. ASSUME NEW h \in Hooks, WebhookCommit(h), Settle(hook[h].id, hook[h].order)
      PROVE  Promise!Next \/ UNCHANGED <<order, Funded>>
  <2>1. /\ hook[h].order \in Orders /\ order[hook[h].order] # "none"
        /\ UNCHANGED <<charge, received>>
    BY <1>4 DEF WebhookCommit, TypeOK, Deliveries, PlacedInv
  <2>. QED BY <1>1, <1>4, <2>1
<1>5. CASE UNCHANGED order
  BY <1>5, WhatHappensToMoney DEF Promise!Receive
<1>. QED BY <1>2, <1>3, <1>4, <1>5, WhatHappensToOrders

\* While the books are kept, whatever there is of an order is there only once
\* it has been placed.
LEMMA PlacedStays ==
  ASSUME StaffKeepTheBooks
  PROVE  Spec => []PlacedInv
<1>1. Init => PlacedInv
  BY DEF Init, PlacedInv, Exists
<1>2. TypeOK /\ BackedInv /\ PlacedInv /\ [Next]_vars => PlacedInv'
  <2>1. ASSUME TypeOK, BackedInv, PlacedInv, Next
        PROVE  PlacedInv'
    BY <2>1, RowsStayPlaced, RequestsStayPlaced, ProviderStaysPlaced DEF PlacedInv
  <2>2. CASE UNCHANGED vars
    BY <2>2 DEF vars, PlacedInv, Exists
  <2>. QED BY <2>1, <2>2
<1>. QED BY <1>1, <1>2, TypeCorrect, StaffKeepTheBooks, BooksAgree, PTL DEF Spec

\* While staff only change statuses and delete payments, the payments keep
\* the promise of the ledger: an order is settled once, after its total has
\* arrived, and never goes back, whatever overtakes what.
THEOREM PaymentsImplementLedger ==
  ASSUME StaffKeepTheBooks
  PROVE  Spec => ImplementsLedger
<1>1. Init => Promise!Init
  BY DEF Init, Promise!Init, Funded, Refs
<1>2. TypeOK /\ BackedInv /\ BackedInv' /\ PlacedInv /\ [Next]_vars
        => [Promise!Next]_<<order, Funded>>
  <2>1. CASE UNCHANGED vars
    BY <2>1 DEF vars, Funded
  <2>. QED BY <2>1, StepOfLedger
<1>. QED BY <1>1, <1>2, TypeCorrect, StaffKeepTheBooks, BooksAgree, PlacedStays, PTL
         DEF Spec, ImplementsLedger, Promise!Spec

-----------------------------------------------------------------------------
(* Attempts tell the truth.  What a row, a charge and an order say of each  *)
(* other is written by different requests from snapshots of different age,  *)
(* so the invariant says what a snapshot still proves when it is written:   *)
(* its row is there under the same reference, its charge is open, and its   *)
(* attempt number is at most one ahead of the order's payments.             *)

\* Staff who write down refunds and cancellations, and leave to the server
\* what only Paystack can say: that an attempt is pending or successful.
StaffKeepTheRecords ==
  /\ AdminOps \subseteq {"update"} /\ AdminFields \subseteq {"status"}
  /\ AdminStatuses \cap {"pending", "successful"} = {}

UnusedIdsAreFree == \A p \in PaymentIds : p >= nextId => ~Exists(p)

Names(p, o, ref) == Exists(p) /\ payments[p].order = o /\ payments[p].ref = ref

Truthful(step, j) ==
  /\ step \in {"load", "post", "check", "bank", "write"} => Names(j.id, j.order, j.ref)
  /\ step \in {"bank", "write"} /\ j.status = "pending" => charge[j.ref] # "none"
  /\ step # "idle" /\ j.from = "reconcile" =>
       j.number \in 2..(Cardinality(PaymentsOf(j.order)) + 1)
  /\ step \in {"create", "insert"} => j.from = "reconcile"

RequestsTruthful == \A r \in Requests : Truthful(pc[r], job[r])

DeliveriesTruthful ==
  \A h \in Hooks : hook[h] # NoDelivery =>
    Exists(hook[h].id) /\ payments[hook[h].id].order = hook[h].order

TruthInv ==
  UnusedIdsAreFree /\ RequestsTruthful /\ DeliveriesTruthful /\ AttemptsTellTheTruth

\* a step that leaves alone which rows there are, whose they are, and under
\* which references, and places no order
KeepsAttempts ==
  /\ UNCHANGED nextId
  /\ \A p \in PaymentIds :
       /\ payments'[p] # NoRow <=> payments[p] # NoRow
       /\ payments[p] # NoRow => /\ payments'[p].order = payments[p].order
                                 /\ payments'[p].ref = payments[p].ref
  /\ \A o \in Orders : order[o] = "none" => order'[o] = "none"

\* Attempts come from checkouts and from retries that found their reference
\* free; every other step leaves them alone.
LEMMA WhatHappensToAttempts ==
  ASSUME StaffKeepTheRecords, TypeOK, PlacedInv, Next
  PROVE  \/ KeepsAttempts
         \/ \E r \in Requests, o \in Orders : Checkout(r, o)
         \/ \E r \in Requests : CreateAttempt(r) /\ UNCHANGED charge
                                /\ ~RefTaken(<<job[r].order, job[r].number>>)
<1>. USE DEF KeepsAttempts
<1>1. ASSUME NEW p \in PaymentIds, NEW o \in Orders, Settle(p, o), order[o] # "none",
             UNCHANGED nextId
      PROVE  KeepsAttempts
  BY <1>1 DEF Settle, Exists, TypeOK, Rows, NoRow
<1>2. CASE UNCHANGED <<payments, nextId, order>>
  BY <1>2
<1>3. ASSUME NEW r \in Requests, MarkPaid(r)
      PROVE  KeepsAttempts
  <2>1. job[r].id \in PaymentIds /\ job[r].order \in Orders /\ order[job[r].order] # "none"
    BY <1>3 DEF MarkPaid, TypeOK, RequestsOK, Jobs, PlacedInv
  <2>. QED BY <1>1, <1>2, <1>3, <2>1 DEF MarkPaid
<1>4. ASSUME NEW h \in Hooks, WebhookCommit(h)
      PROVE  KeepsAttempts
  <2>1. hook[h].id \in PaymentIds /\ hook[h].order \in Orders /\ order[hook[h].order] # "none"
    BY <1>4 DEF WebhookCommit, TypeOK, Deliveries, PlacedInv
  <2>. QED BY <1>1, <1>2, <1>4, <2>1 DEF WebhookCommit
<1>5. ASSUME NEW r \in Requests, WriteStatus(r)
      PROVE  KeepsAttempts
  BY <1>5 DEF WriteStatus, Exists, TypeOK, Rows, NoRow
<1>6. ASSUME NEW r \in Requests, CreateAttempt(r), RefTaken(<<job[r].order, job[r].number>>)
      PROVE  KeepsAttempts
  BY <1>2, <1>6 DEF CreateAttempt
<1>7. CASE Admin
  <2>1. ASSUME NEW p \in PaymentIds, NEW row \in Rows, AdminUpdate(p, row)
        PROVE  KeepsAttempts
    BY <2>1 DEF AdminUpdate, StaffKeepTheRecords, Exists, TypeOK, Rows, NoRow
  <2>. QED BY <1>7, <2>1 DEF Admin, AdminCreate, AdminDelete, StaffKeepTheRecords
<1>. QED BY <1>2, <1>3, <1>4, <1>5, <1>6, <1>7 DEF Next, Request, Retry, LoadAttempt,
        ChargeAccepted, ChargeUnclear, CheckLost, CheckAnswered, CheckRejected,
        SaveBankAccount, StatusWriteFails, CountAttempts, CreateAttempt, RequestDies,
        WebhookReceived, WebhookIgnored, DeliveryDies, CustomerPays, ChargeExpires

\* The rows of an order are finitely many.
LEMMA PaymentsOfFinite ==
  ASSUME NEW o \in Orders
  PROVE  IsFiniteSet(PaymentsOf(o)) /\ Cardinality(PaymentsOf(o)) \in Nat
<1>1. IsFiniteSet(PaymentIds)
  <2>1. 1 \in Int /\ MaxPayments \in Int
    BY PaymentsAssumption
  <2>. QED BY <2>1, FS_Interval DEF PaymentIds
<1>2. PaymentsOf(o) \subseteq PaymentIds
  BY DEF PaymentsOf
<1>3. IsFiniteSet(PaymentsOf(o))
  BY <1>1, <1>2, FS_Subset
<1>. QED BY <1>3, FS_CardinalityType

\* A new row is its order's last: it adds its reference to those of the order
\* and counts for it, and no other order sees a difference.
LEMMA AddAttempt ==
  ASSUME TypeOK, UnusedIdsAreFree, NEW row \in Rows, Insert(row)
  PROVE  /\ nextId \in PaymentIds /\ nextId \notin PaymentsOf(row.order)
         /\ PaymentsOf(row.order)' = PaymentsOf(row.order) \cup {nextId}
         /\ Cardinality(PaymentsOf(row.order))' = Cardinality(PaymentsOf(row.order)) + 1
         /\ \A q \in Orders \ {row.order} : PaymentsOf(q)' = PaymentsOf(q)
         /\ payments'[nextId] = row
         /\ \A p \in PaymentIds \ {nextId} : payments'[p] = payments[p]
<1>1. nextId \in PaymentIds /\ payments' = [payments EXCEPT ![nextId] = row]
  BY DEF Insert
<1>2. /\ payments'[nextId] = row /\ row # NoRow /\ row.order \in Orders
      /\ \A p \in PaymentIds \ {nextId} : payments'[p] = payments[p]
  BY <1>1 DEF TypeOK, Rows, NoRow
<1>3. ~Exists(nextId)
  BY <1>1 DEF UnusedIdsAreFree, PaymentIds
<1>4. nextId \notin PaymentsOf(row.order)
  BY <1>3 DEF PaymentsOf
<1>5. PaymentsOf(row.order)' = PaymentsOf(row.order) \cup {nextId}
  BY <1>1, <1>2 DEF PaymentsOf, Exists
<1>6. \A q \in Orders \ {row.order} : PaymentsOf(q)' = PaymentsOf(q)
  BY <1>1, <1>2, <1>3 DEF PaymentsOf, Exists
<1>7. Cardinality(PaymentsOf(row.order) \cup {nextId}) = Cardinality(PaymentsOf(row.order)) + 1
  BY <1>2, <1>4, PaymentsOfFinite, FS_AddElement
<1>. QED BY <1>1, <1>2, <1>4, <1>5, <1>6, <1>7

\* Attempts only accumulate: a row keeps its order and its reference, an order
\* its count, and a charge that was opened is known for ever.
LEMMA AttemptsAccumulate ==
  ASSUME StaffKeepTheRecords, TypeOK, PlacedInv, UnusedIdsAreFree, Next
  PROVE  /\ \A p \in PaymentIds : payments[p] # NoRow =>
              /\ payments'[p] # NoRow
              /\ payments'[p].order = payments[p].order /\ payments'[p].ref = payments[p].ref
         /\ \A ref \in Refs : charge[ref] # "none" => charge'[ref] # "none"
         /\ \A o \in Orders : PaymentsOf(o) \subseteq PaymentsOf(o)'
<1>1. \A p \in PaymentIds : payments[p] # NoRow =>
              /\ payments'[p] # NoRow
              /\ payments'[p].order = payments[p].order /\ payments'[p].ref = payments[p].ref
  <2>1. ASSUME NEW row \in Rows, Insert(row), NEW p \in PaymentIds, payments[p] # NoRow
        PROVE  payments'[p] = payments[p]
    <3>1. nextId \in PaymentIds /\ ~Exists(nextId)
      BY <2>1 DEF Insert, UnusedIdsAreFree, PaymentIds
    <3>. QED BY <2>1, <3>1 DEF Insert, TypeOK, Exists
  <2>2. ASSUME NEW r \in Requests, NEW o \in Orders, Checkout(r, o)
        PROVE  \E row \in Rows : Insert(row)
    <3>. DEFINE row == [order |-> o, ref |-> <<o, 0>>, amount |-> Total[o],
                        status |-> "initializing"]
    <3>1. row \in Rows
      BY PaymentsAssumption DEF Rows, Refs, PaymentStatus
    <3>. QED BY <2>2, <3>1 DEF Checkout
  <2>3. ASSUME NEW r \in Requests, CreateAttempt(r),
               ~RefTaken(<<job[r].order, job[r].number>>)
        PROVE  \E row \in Rows : Insert(row)
    <3>. DEFINE row == [order |-> job[r].order, ref |-> <<job[r].order, job[r].number>>,
                        amount |-> Total[job[r].order], status |-> "initializing"]
    <3>1. row \in Rows
      BY <2>3, PaymentsAssumption
      DEF CreateAttempt, TypeOK, RequestsOK, Jobs, Rows, Refs, PaymentStatus
    <3>. QED BY <2>3, <3>1 DEF CreateAttempt
  <2>. QED BY <2>1, <2>2, <2>3, WhatHappensToAttempts DEF KeepsAttempts
<1>2. \A ref \in Refs : charge[ref] # "none" => charge'[ref] # "none"
  BY DEF TypeOK, Next, Request, Checkout, Retry, LoadAttempt, ChargeAccepted,
     ChargeUnclear, CheckLost, CheckAnswered, CheckRejected, SaveBankAccount, MarkPaid,
     WriteStatus, StatusWriteFails, CountAttempts, CreateAttempt, RequestDies, WebhookReceived,
     WebhookIgnored, WebhookCommit, DeliveryDies, Admin, AdminCreate, AdminUpdate,
     AdminDelete, CustomerPays, ChargeExpires
<1>3. \A o \in Orders : PaymentsOf(o) \subseteq PaymentsOf(o)'
  BY <1>1 DEF PaymentsOf, Exists
<1>. QED BY <1>1, <1>2, <1>3

\* The attempts of one order, numbered without a gap in the order they came.
Numbered(o) ==
  /\ {payments[p].ref : p \in PaymentsOf(o)} =
       {<<o, n>> : n \in (0..Cardinality(PaymentsOf(o))) \ {1}}
  /\ \A p, q \in PaymentsOf(o) : p < q => payments[p].ref[2] < payments[q].ref[2]

\* A row whose number is the order's next, or the first, keeps them numbered.
LEMMA NextNumberFits ==
  ASSUME TypeOK, UnusedIdsAreFree, NEW row \in Rows, Insert(row),
         NEW n \in Nat, row.ref = <<row.order, n>>,
         \/ PaymentsOf(row.order) = {} /\ n = 0
         \/ /\ Numbered(row.order) /\ PaymentsOf(row.order) # {}
            /\ n = Cardinality(PaymentsOf(row.order)) + 1
  PROVE  Numbered(row.order)'
<1>. DEFINE o == row.order
            old == {payments[p].ref : p \in PaymentsOf(o)}
            new == {payments'[p].ref : p \in PaymentsOf(o) \cup {nextId}}
            count == Cardinality(PaymentsOf(o))
<1>1. /\ nextId \in PaymentIds /\ nextId \notin PaymentsOf(o)
      /\ PaymentsOf(o)' = PaymentsOf(o) \cup {nextId}
      /\ Cardinality(PaymentsOf(o))' = count + 1
      /\ payments'[nextId] = row
      /\ \A p \in PaymentsOf(o) : payments'[p] = payments[p]
  BY AddAttempt DEF PaymentsOf
<1>2. o \in Orders /\ count \in Nat
  <2>1. o \in Orders
    BY DEF Rows
  <2>. QED BY <2>1, PaymentsOfFinite
<1>3. new = old \cup {<<o, n>>}
  BY <1>1
<1>4. \A p \in PaymentsOf(o) : payments[p].ref[2] < n
  <2>1. CASE Numbered(o) /\ n = count + 1
    <3>1. ASSUME NEW p \in PaymentsOf(o)
          PROVE  payments[p].ref[2] < n
      <4>1. payments[p].ref \in old
        OBVIOUS
      <4>2. PICK m \in (0..count) \ {1} : payments[p].ref = <<o, m>>
        BY <2>1, <4>1 DEF Numbered
      <4>. QED BY <1>2, <2>1, <4>2
    <3>. QED BY <3>1
  <2>. QED BY <2>1
<1>5. new = {<<o, m>> : m \in (0..(count + 1)) \ {1}}
  <2>1. CASE PaymentsOf(o) = {} /\ n = 0
    <3>1. count = 0
      BY <2>1, FS_EmptySet
    <3>2. old = {}
      BY <2>1
    <3>3. (0..(count + 1)) \ {1} = {0}
      BY <3>1
    <3>. QED BY <1>3, <2>1, <3>2, <3>3
  <2>2. CASE Numbered(o) /\ PaymentsOf(o) # {} /\ n = count + 1
    <3>1. count # 0
      BY <1>2, <2>2, PaymentsOfFinite, FS_EmptySet
    <3>2. (0..(count + 1)) \ {1} = ((0..count) \ {1}) \cup {n}
      BY <1>2, <2>2, <3>1
    <3>3. old = {<<o, m>> : m \in (0..count) \ {1}}
      BY <2>2 DEF Numbered
    <3>. QED BY <1>3, <3>2, <3>3
  <2>. QED BY <2>1, <2>2
<1>6. ASSUME NEW p \in PaymentsOf(o) \cup {nextId}, NEW q \in PaymentsOf(o) \cup {nextId}, p < q
      PROVE  payments'[p].ref[2] < payments'[q].ref[2]
  <2>1. \A i \in PaymentsOf(o) : i \in PaymentIds /\ Exists(i) /\ i < nextId
    BY <1>1 DEF PaymentsOf, UnusedIdsAreFree, PaymentIds
  <2>2. p \in PaymentsOf(o)
    BY <1>1, <1>6, <2>1 DEF PaymentIds
  <2>3. CASE q = nextId
    BY <1>1, <1>4, <2>2, <2>3
  <2>4. CASE q \in PaymentsOf(o)
    <3>1. Numbered(o)
      BY <2>2
    <3>. QED BY <1>1, <1>6, <2>2, <2>4, <3>1 DEF Numbered
  <2>. QED BY <2>3, <2>4
<1>. QED BY <1>1, <1>5, <1>6 DEF Numbered

\* What is numbered stays numbered when its rows keep order and reference.
LEMMA KeptAttemptsStayNumbered ==
  ASSUME TypeOK, NEW o \in Orders, Numbered(o), PaymentsOf(o)' = PaymentsOf(o),
         \A p \in PaymentsOf(o) : payments'[p].ref = payments[p].ref
  PROVE  Numbered(o)'
<1>1. {payments'[p].ref : p \in PaymentsOf(o)} = {payments[p].ref : p \in PaymentsOf(o)}
  OBVIOUS
<1>. QED BY <1>1 DEF Numbered

\* Concurrent retries never leave a gap or use a number twice: the count they
\* read bounds their number from above, the unique index from below.
LEMMA AttemptsStayNumbered ==
  ASSUME StaffKeepTheRecords, TypeOK, PlacedInv, TruthInv, Next
  PROVE  AttemptsNumberedInOrder'
<1>1. \A o \in Orders : order[o] # "none" => Numbered(o)
  BY DEF TruthInv, AttemptsTellTheTruth, AttemptsNumberedInOrder, Numbered
<1>2. UnusedIdsAreFree
  BY DEF TruthInv
<1>. DEFINE Goal == \A o \in Orders : order'[o] # "none" => Numbered(o)'
<1>3. ASSUME KeepsAttempts
      PROVE  Goal
  <2>1. ASSUME NEW o \in Orders, order'[o] # "none"
        PROVE  Numbered(o)'
    <3>1. Numbered(o)
      BY <1>1, <1>3, <2>1 DEF KeepsAttempts
    <3>2. PaymentsOf(o)' = PaymentsOf(o)
      BY <1>3 DEF KeepsAttempts, PaymentsOf, Exists
    <3>3. \A p \in PaymentsOf(o) : payments'[p].ref = payments[p].ref
      BY <1>3 DEF KeepsAttempts, PaymentsOf, Exists
    <3>. QED BY <3>1, <3>2, <3>3, KeptAttemptsStayNumbered
  <2>. QED BY <2>1
<1>4. ASSUME NEW row \in Rows, Insert(row), Numbered(row.order)',
             \A q \in Orders \ {row.order} : order'[q] # "none" => order[q] # "none"
      PROVE  Goal
  <2>1. ASSUME NEW q \in Orders \ {row.order}, order'[q] # "none"
        PROVE  Numbered(q)'
    <3>1. Numbered(q)
      BY <1>1, <1>4, <2>1
    <3>2. PaymentsOf(q)' = PaymentsOf(q)
      BY <1>2, <1>4, AddAttempt
    <3>3. \A p \in PaymentsOf(q) : payments'[p].ref = payments[p].ref
      BY <1>2, AttemptsAccumulate DEF PaymentsOf, Exists
    <3>. QED BY <3>1, <3>2, <3>3, KeptAttemptsStayNumbered
  <2>. QED BY <1>4, <2>1
<1>5. ASSUME NEW r \in Requests, NEW o \in Orders, Checkout(r, o)
      PROVE  Goal
  <2>. DEFINE row == [order |-> o, ref |-> <<o, 0>>, amount |-> Total[o],
                      status |-> "initializing"]
  <2>1. row \in Rows /\ row.order = o /\ row.ref = <<o, 0>>
    BY PaymentsAssumption DEF Rows, Refs, PaymentStatus
  <2>2. Insert(row)
    BY <1>5 DEF Checkout
  <2>3. PaymentsOf(o) = {}
    BY <1>5 DEF PaymentsOf, PlacedInv, Checkout
  <2>4. \A q \in Orders \ {o} : order'[q] # "none" => order[q] # "none"
    BY <1>5 DEF Checkout, TypeOK
  <2>. HIDE DEF row
  <2>5. Numbered(row.order)'
    BY <1>2, <2>1, <2>2, <2>3, NextNumberFits
  <2>. QED BY <1>4, <2>1, <2>2, <2>4, <2>5
<1>6. ASSUME NEW r \in Requests, CreateAttempt(r), UNCHANGED charge,
             ~RefTaken(<<job[r].order, job[r].number>>)
      PROVE  Goal
  <2>. DEFINE new == [order |-> job[r].order, ref |-> <<job[r].order, job[r].number>>,
                      amount |-> Total[job[r].order], status |-> "initializing"]
  <2>1. job[r] \in Jobs /\ job[r].order \in Orders /\ order[job[r].order] # "none"
    BY <1>6 DEF CreateAttempt, TypeOK, RequestsOK, Jobs, PlacedInv
  <2>2. new \in Rows /\ new.order = job[r].order /\ new.ref = <<new.order, job[r].number>>
    BY <1>6, <2>1, PaymentsAssumption DEF CreateAttempt, Jobs, Rows, Refs, PaymentStatus
  <2>3. Insert(new)
    BY <1>6 DEF CreateAttempt
  <2>. HIDE DEF new
  <2>4. PICK row, n : /\ row \in Rows
                      /\ Insert(row) /\ row.order = job[r].order
                      /\ n = job[r].number /\ row.ref = <<row.order, n>>
    BY <2>2, <2>3
  <2>5. row.order \in Orders /\ n \in 2..(Cardinality(PaymentsOf(row.order)) + 1)
    BY <1>6, <2>1, <2>4 DEF CreateAttempt, TruthInv, RequestsTruthful, Truthful
  <2>6. Numbered(row.order) /\ Cardinality(PaymentsOf(row.order)) \in Nat
    BY <1>1, <2>1, <2>4, <2>5, PaymentsOfFinite
  <2>7. n \notin (0..Cardinality(PaymentsOf(row.order))) \ {1}
    <3>1. <<row.order, n>> \notin {payments[p].ref : p \in PaymentsOf(row.order)}
      BY <1>6, <2>4 DEF RefTaken, PaymentsOf
    <3>. QED BY <2>6, <3>1 DEF Numbered
  <2>8. n = Cardinality(PaymentsOf(row.order)) + 1 /\ n \in Nat
    BY <2>5, <2>6, <2>7
  <2>9. PaymentsOf(row.order) # {}
    <3>1. Cardinality(PaymentsOf(row.order)) # 0
      BY <2>5, <2>6
    <3>. QED BY <3>1, FS_EmptySet
  <2>10. \A q \in Orders \ {row.order} : order'[q] # "none" => order[q] # "none"
    BY <1>6 DEF CreateAttempt
  <2>11. Numbered(row.order)'
    BY <1>2, <2>4, <2>6, <2>8, <2>9, NextNumberFits
  <2>. QED BY <1>4, <2>4, <2>10, <2>11
<1>7. Goal
  BY <1>3, <1>5, <1>6, WhatHappensToAttempts
<1>. QED BY <1>7 DEF AttemptsNumberedInOrder, Numbered

\* Ids are handed out in increasing order, also by concurrent inserts.
LEMMA UnusedIdsStayFree ==
  ASSUME StaffKeepTheRecords, TypeOK, PlacedInv, UnusedIdsAreFree, Next
  PROVE  UnusedIdsAreFree'
<1>. USE DEF UnusedIdsAreFree, Exists
<1>1. ASSUME NEW row, Insert(row)
      PROVE  UnusedIdsAreFree'
  BY <1>1 DEF Insert, TypeOK, PaymentIds
<1>2. CASE KeepsAttempts
  BY <1>2 DEF KeepsAttempts
<1>. QED BY <1>1, <1>2, WhatHappensToAttempts DEF Checkout, CreateAttempt

\* A row is only told to be successful along with its order, and pending when
\* its charge is open, from however old a snapshot.
LEMMA RowsStayTruthful ==
  ASSUME StaffKeepTheRecords, TypeOK, PlacedInv, TruthInv, Next
  PROVE  SuccessfulIsPaid' /\ PendingHasCharge'
<1>. DEFINE Row(p) ==
       /\ payments'[p].status = "successful" => order'[payments'[p].order] = "paid"
       /\ payments'[p].status = "pending" => charge'[payments'[p].ref] # "none"
<1>1. \A p \in PaymentIds :
        /\ payments[p].status = "successful" => order[payments[p].order] = "paid"
        /\ payments[p].status = "pending" => charge[payments[p].ref] # "none"
  BY DEF TruthInv, AttemptsTellTheTruth, SuccessfulIsPaid, PendingHasCharge
<1>2. /\ \A o \in Orders : order[o] = "paid" => order'[o] = "paid"
      /\ \A ref \in Refs : charge[ref] # "none" => charge'[ref] # "none"
  <2>1. \A o \in Orders : order[o] = "paid" => order'[o] = "paid"
    BY WhatHappensToOrders DEF TypeOK, Checkout, Settle
  <2>. QED BY <2>1, AttemptsAccumulate DEF TruthInv
\* a row that is not touched
<1>3. ASSUME NEW p \in PaymentIds, payments'[p] = payments[p]
      PROVE  Row(p)
  <2>1. CASE payments[p] = NoRow
    BY <1>3, <2>1 DEF NoRow
  <2>2. CASE payments[p] # NoRow
    <3>1. payments[p].order \in Orders /\ payments[p].ref \in Refs
      BY <2>2 DEF TypeOK, Rows
    <3>. QED BY <1>1, <1>2, <1>3, <3>1
  <2>. QED BY <2>1, <2>2
<1>4. ASSUME UNCHANGED payments
      PROVE  \A p \in PaymentIds : Row(p)
  BY <1>3, <1>4
<1>5. ASSUME NEW p \in PaymentIds, NEW o \in Orders, Settle(p, o), payments[p].order = o
      PROVE  \A q \in PaymentIds : Row(q)
  <2>1. payments'[p].status = "successful" /\ payments'[p].order = o /\ order'[o] = "paid"
    BY <1>5 DEF Settle, Exists, TypeOK, Rows, NoRow
  <2>2. \A q \in PaymentIds \ {p} : payments'[q] = payments[q]
    BY <1>5 DEF Settle, TypeOK
  <2>. QED BY <1>3, <2>1, <2>2
<1>6. ASSUME NEW row, Insert(row), row.status = "initializing"
      PROVE  \A q \in PaymentIds : Row(q)
  <2>1. payments'[nextId] = row /\ \A q \in PaymentIds \ {nextId} : payments'[q] = payments[q]
    BY <1>6 DEF Insert, TypeOK
  <2>. QED BY <1>3, <1>6, <2>1
<1>7. ASSUME NEW r \in Requests, MarkPaid(r)
      PROVE  \A p \in PaymentIds : Row(p)
  <2>1. /\ job[r].id \in PaymentIds /\ job[r].order \in Orders
        /\ payments[job[r].id].order = job[r].order
    BY <1>7 DEF MarkPaid, TypeOK, RequestsOK, Jobs, TruthInv, RequestsTruthful, Truthful, Names
  <2>. QED BY <1>4, <1>5, <1>7, <2>1 DEF MarkPaid
<1>8. ASSUME NEW h \in Hooks, WebhookCommit(h)
      PROVE  \A p \in PaymentIds : Row(p)
  <2>1. /\ hook[h].id \in PaymentIds /\ hook[h].order \in Orders
        /\ payments[hook[h].id].order = hook[h].order
    BY <1>8 DEF WebhookCommit, TypeOK, Deliveries, TruthInv, DeliveriesTruthful
  <2>. QED BY <1>4, <1>5, <1>8, <2>1 DEF WebhookCommit
<1>9. ASSUME NEW r \in Requests, WriteStatus(r)
      PROVE  \A p \in PaymentIds : Row(p)
  <2>1. /\ job[r].id \in PaymentIds /\ job[r].ref \in Refs
        /\ Names(job[r].id, job[r].order, job[r].ref)
        /\ job[r].status = "pending" => charge[job[r].ref] # "none"
    BY <1>9 DEF WriteStatus, TypeOK, RequestsOK, Jobs, TruthInv, RequestsTruthful, Truthful
  <2>2. CASE payments' = [payments EXCEPT ![job[r].id].status = job[r].status]
    <3>1. /\ payments'[job[r].id].status = job[r].status
          /\ payments'[job[r].id].ref = job[r].ref
      BY <2>1, <2>2 DEF TypeOK, Names, Exists, Rows, NoRow
    <3>2. \A q \in PaymentIds \ {job[r].id} : payments'[q] = payments[q]
      BY <2>2 DEF TypeOK
    <3>3. job[r].status # "successful"
      BY <1>9 DEF WriteStatus
    <3>4. Row(job[r].id)
      BY <1>2, <2>1, <3>1, <3>3
    <3>. QED BY <1>3, <3>2, <3>4
  <2>. QED BY <1>4, <1>9, <2>2 DEF WriteStatus
<1>10. ASSUME NEW r \in Requests, NEW o \in Orders, Checkout(r, o)
       PROVE  \A p \in PaymentIds : Row(p)
  BY <1>6, <1>10 DEF Checkout
<1>11. ASSUME NEW r \in Requests, CreateAttempt(r)
       PROVE  \A p \in PaymentIds : Row(p)
  BY <1>4, <1>6, <1>11 DEF CreateAttempt
<1>12. ASSUME Admin
       PROVE  \A p \in PaymentIds : Row(p)
  <2>1. ASSUME NEW p \in PaymentIds, NEW row \in Rows, AdminUpdate(p, row)
        PROVE  \A q \in PaymentIds : Row(q)
    <3>1. /\ payments'[p] = row /\ row.order = payments[p].order /\ row.ref = payments[p].ref
          /\ row.status \in AdminStatuses \cup {payments[p].status}
          /\ row.order \in Orders /\ row.ref \in Refs
          /\ \A q \in PaymentIds \ {p} : payments'[q] = payments[q]
      BY <2>1 DEF AdminUpdate, StaffKeepTheRecords, TypeOK, Rows
    <3>2. Row(p)
      BY <1>1, <1>2, <3>1 DEF StaffKeepTheRecords
    <3>. QED BY <1>3, <3>1, <3>2
  <2>. QED BY <1>12, <2>1 DEF Admin, AdminCreate, AdminDelete, StaffKeepTheRecords
<1>13. \A p \in PaymentIds : Row(p)
  BY <1>4, <1>7, <1>8, <1>9, <1>10, <1>11, <1>12
  DEF Next, Request, Retry, LoadAttempt, ChargeAccepted, ChargeUnclear, CheckLost,
      CheckAnswered, CheckRejected, SaveBankAccount, StatusWriteFails, CountAttempts,
      RequestDies, WebhookReceived, WebhookIgnored, DeliveryDies, CustomerPays, ChargeExpires
<1>. QED BY <1>13 DEF SuccessfulIsPaid, PendingHasCharge

\* Charges are opened under the references of rows, and rows stay.
LEMMA ChargesStayKnown ==
  ASSUME StaffKeepTheRecords, TypeOK, PlacedInv, TruthInv, Next
  PROVE  ChargeHasPayment'
<1>1. ASSUME NEW ref \in Refs, charge'[ref] # "none"
      PROVE  RefTaken(ref)
  <2>1. CASE charge[ref] # "none"
    BY <2>1 DEF TruthInv, AttemptsTellTheTruth, ChargeHasPayment
  <2>2. CASE \E r \in Requests : pc[r] = "post" /\ job[r].ref = ref
    <3>1. PICK r \in Requests : pc[r] = "post" /\ job[r].ref = ref
      BY <2>2
    <3>2. job[r].id \in PaymentIds /\ Names(job[r].id, job[r].order, ref)
      BY <3>1 DEF TypeOK, RequestsOK, TruthInv, RequestsTruthful, Truthful
    <3>. QED BY <3>2 DEF RefTaken, Names
  <2>. QED BY <1>1, <2>1, <2>2 DEF Next, Request, Checkout, Retry, LoadAttempt,
        ChargeAccepted, ChargeUnclear, CheckLost, CheckAnswered, CheckRejected,
        SaveBankAccount, MarkPaid, WriteStatus, StatusWriteFails, CountAttempts, CreateAttempt,
        RequestDies, WebhookReceived, WebhookCommit, DeliveryDies, WebhookIgnored,
        CustomerPays, ChargeExpires, Admin, AdminCreate, AdminUpdate, AdminDelete, TypeOK
<1>2. ASSUME NEW ref \in Refs, RefTaken(ref)
      PROVE  RefTaken(ref)'
  BY <1>2, AttemptsAccumulate DEF TruthInv, RefTaken, Exists
<1>. QED BY <1>1, <1>2 DEF ChargeHasPayment

\* A delivery under way settles a row that is there, with the row's own order.
LEMMA DeliveriesStayTruthful ==
  ASSUME StaffKeepTheRecords, TypeOK, PlacedInv, TruthInv, Next
  PROVE  DeliveriesTruthful'
<1>. USE DEF DeliveriesTruthful, Exists
<1>1. ASSUME NEW p \in PaymentIds, payments[p] # NoRow
      PROVE  payments'[p] # NoRow /\ payments'[p].order = payments[p].order
  BY <1>1, AttemptsAccumulate DEF TruthInv
<1>2. \A h \in Hooks : hook[h] # NoDelivery =>
        payments'[hook[h].id] # NoRow /\ payments'[hook[h].id].order = hook[h].order
  BY <1>1 DEF TruthInv, TypeOK, Deliveries
<1>3. ASSUME NEW h \in Hooks, NEW ref \in Refs, WebhookReceived(h, ref)
      PROVE  DeliveriesTruthful'
  BY <1>1, <1>2, <1>3 DEF WebhookReceived, TypeOK
<1>4. ASSUME NEW h \in Hooks, WebhookCommit(h) \/ DeliveryDies(h)
      PROVE  DeliveriesTruthful'
  BY <1>2, <1>4 DEF WebhookCommit, DeliveryDies, TypeOK
<1>5. CASE UNCHANGED hook
  BY <1>2, <1>5
<1>. QED BY <1>3, <1>4, <1>5 DEF Next, Request, Checkout, Retry, LoadAttempt,
        ChargeAccepted, ChargeUnclear, CheckLost, CheckAnswered, CheckRejected,
        SaveBankAccount, MarkPaid, WriteStatus, StatusWriteFails, CountAttempts, CreateAttempt,
        RequestDies, WebhookIgnored, CustomerPays, ChargeExpires, Admin, AdminCreate,
        AdminUpdate, AdminDelete

\* What a snapshot proves it goes on proving, because attempts accumulate: a
\* request may be overtaken by anything and still write the truth.
LEMMA RequestsStayTruthful ==
  ASSUME StaffKeepTheRecords, TypeOK, PlacedInv, TruthInv, Next
  PROVE  RequestsTruthful'
<1>. DEFINE CountNext(o) == Cardinality({p \in PaymentIds : payments'[p] # NoRow
                                                          /\ payments'[p].order = o})
            Later(step, j) ==
              /\ step \in {"load", "post", "check", "bank", "write"} =>
                   /\ payments'[j.id] # NoRow
                   /\ payments'[j.id].order = j.order /\ payments'[j.id].ref = j.ref
              /\ step \in {"bank", "write"} /\ j.status = "pending" => charge'[j.ref] # "none"
              /\ step # "idle" /\ j.from = "reconcile" => j.number \in 2..(CountNext(j.order) + 1)
              /\ step \in {"create", "insert"} => j.from = "reconcile"
            Goal == \A r \in Requests : Later(pc'[r], job'[r])
<1>1. ASSUME NEW r \in Requests, pc[r] # "idle"
      PROVE  /\ job[r] \in Jobs /\ job[r].order \in Orders /\ job[r].ref \in Refs
             /\ job[r].number \in Nat
             /\ pc[r] \notin {"create", "insert"} => job[r].id \in PaymentIds
  BY <1>1 DEF TypeOK, RequestsOK, Jobs
<1>2. ASSUME NEW p \in PaymentIds, payments[p] # NoRow
      PROVE  /\ payments'[p] # NoRow
             /\ payments'[p].order = payments[p].order /\ payments'[p].ref = payments[p].ref
  BY <1>2, AttemptsAccumulate DEF TruthInv
<1>3. ASSUME NEW o \in Orders
      PROVE  /\ Cardinality(PaymentsOf(o)) \in Nat /\ CountNext(o) \in Nat
             /\ Cardinality(PaymentsOf(o)) <= CountNext(o)
             /\ UNCHANGED payments => CountNext(o) = Cardinality(PaymentsOf(o))
  <2>. DEFINE later == {p \in PaymentIds : payments'[p] # NoRow /\ payments'[p].order = o}
  <2>1. PaymentsOf(o) \subseteq later
    BY <1>2 DEF PaymentsOf, Exists
  <2>2. IsFiniteSet(PaymentIds)
    <3>1. 1 \in Int /\ MaxPayments \in Int
      BY PaymentsAssumption
    <3>. QED BY <3>1, FS_Interval DEF PaymentIds
  <2>3. IsFiniteSet(later)
    BY <2>2, FS_Subset
  <2>4. Cardinality(later) \in Nat
    BY <2>3, FS_CardinalityType
  <2>5. Cardinality(PaymentsOf(o)) <= Cardinality(later)
    BY <2>1, <2>3, FS_Subset
  <2>6. UNCHANGED payments => later = PaymentsOf(o)
    BY DEF PaymentsOf, Exists
  <2>. QED BY <2>4, <2>5, <2>6, PaymentsOfFinite
<1>. HIDE DEF CountNext
\* a request that stands still
<1>4. ASSUME NEW r \in Requests
      PROVE  Later(pc[r], job[r])
  <2>1. Truthful(pc[r], job[r])
    BY DEF TruthInv, RequestsTruthful
  <2>2. ASSUME pc[r] # "idle", job[r].from = "reconcile"
        PROVE  job[r].number \in 2..(CountNext(job[r].order) + 1)
    <3>1. job[r].number \in 2..(Cardinality(PaymentsOf(job[r].order)) + 1)
      BY <2>1, <2>2 DEF Truthful
    <3>. QED BY <1>1, <1>3, <2>2, <3>1
  <2>3. ASSUME pc[r] \in {"bank", "write"}, job[r].status = "pending"
        PROVE  charge'[job[r].ref] # "none"
    BY <1>1, <2>1, <2>3, AttemptsAccumulate DEF Truthful, TruthInv
  <2>4. ASSUME pc[r] \in {"load", "post", "check", "bank", "write"}
        PROVE  /\ payments'[job[r].id] # NoRow
               /\ payments'[job[r].id].order = job[r].order
               /\ payments'[job[r].id].ref = job[r].ref
    BY <1>1, <1>2, <2>1, <2>4 DEF Truthful, Names, Exists
  <2>. QED BY <2>1, <2>2, <2>3, <2>4 DEF Truthful
<1>. HIDE DEF Later
<1>5. ASSUME NEW r \in Requests, NEW step, NEW j, Goto(r, step, j), Later(step, j)
      PROVE  Goal
  BY <1>4, <1>5 DEF Goto, TypeOK, RequestsOK
<1>6. ASSUME NEW r \in Requests, Return(r)
      PROVE  Goal
  BY <1>5, <1>6 DEF Return, Later
<1>7. ASSUME NEW r \in Requests, Request(r)
      PROVE  Goal
  <2>. DEFINE With(s) == [job[r] EXCEPT !.status = s]
  <2>1. pc[r] # "idle" /\ job[r] \in Jobs
    BY <1>1, <1>7 DEF Request, LoadAttempt, ChargeAccepted, ChargeUnclear, CheckLost,
       CheckAnswered, CheckRejected, SaveBankAccount, MarkPaid, WriteStatus,
       StatusWriteFails, CountAttempts, CreateAttempt, RequestDies
  <2>2. \A s : /\ With(s).id = job[r].id /\ With(s).order = job[r].order
               /\ With(s).ref = job[r].ref /\ With(s).from = job[r].from
               /\ With(s).number = job[r].number /\ With(s).status = s
    BY <2>1 DEF Jobs
  <2>. HIDE DEF With
  <2>3. ASSUME NEW s, NEW step \in {"bank", "write"}, Goto(r, step, With(s)),
               pc[r] \in {"post", "check", "bank", "write"},
               s = "pending" => charge'[job[r].ref] # "none"
        PROVE  Goal
    <3>1. Later(step, With(s))
      BY <1>4, <2>1, <2>2, <2>3 DEF Later
    <3>. QED BY <1>5, <2>3, <3>1
  <2>4. CASE LoadAttempt(r)
    <3>1. CASE /\ Exists(job[r].id)
               /\ Goto(r, "post", SnapshotOf(job[r].id, "initialize", 0))
      <4>1. job[r].id \in PaymentIds
        BY <1>1, <2>1, <2>4 DEF LoadAttempt
      <4>2. Later("post", SnapshotOf(job[r].id, "initialize", 0))
        BY <1>2, <3>1, <4>1 DEF SnapshotOf, Exists, Later
      <4>. QED BY <1>5, <3>1, <4>2
    <3>. QED BY <1>6, <2>4, <3>1 DEF LoadAttempt
  <2>5. CASE ChargeAccepted(r)
    <3>1. charge'[job[r].ref] # "none"
      BY <1>1, <2>1, <2>5 DEF ChargeAccepted, TypeOK
    <3>. QED BY <2>3, <2>5, <3>1 DEF ChargeAccepted, With
  <2>6. CASE ChargeUnclear(r)
    <3>1. PICK s \in {"initializing", "failed"} : Goto(r, "write", With(s))
      BY <2>6 DEF ChargeUnclear, With
    <3>. QED BY <2>3, <2>6, <3>1 DEF ChargeUnclear
  <2>7. CASE CheckAnswered(r)
    <3>1. charge'[job[r].ref] # "none"
      BY <2>7 DEF CheckAnswered
    <3>2. Goto(r, "bank", With("successful")) \/ Goto(r, "bank", With("pending"))
      BY <2>7 DEF CheckAnswered, With
    <3>. QED BY <2>3, <2>7, <3>1, <3>2 DEF CheckAnswered
  <2>8. CASE CheckRejected(r)
    BY <2>3, <2>8 DEF CheckRejected, With
  <2>9. CASE SaveBankAccount(r)
    <3>1. CASE Goto(r, "write", job[r])
      <4>1. Later("write", job[r])
        BY <1>4, <2>9 DEF SaveBankAccount, Later
      <4>. QED BY <1>5, <3>1, <4>1
    <3>. QED BY <1>6, <2>3, <2>9, <3>1 DEF SaveBankAccount, With
  <2>10. CASE WriteStatus(r)
    <3>1. CASE job[r].from = "reconcile" /\ Goto(r, "create", job[r])
      <4>1. Later("create", job[r])
        BY <1>4, <2>10, <3>1 DEF WriteStatus, Later
      <4>. QED BY <1>5, <3>1, <4>1
    <3>. QED BY <1>6, <2>10, <3>1 DEF WriteStatus
  <2>11. CASE StatusWriteFails(r)
    BY <2>3, <2>11 DEF StatusWriteFails, With
  <2>12. CASE CountAttempts(r)
    <3>1. CASE Goto(r, "insert", job[r])
      <4>1. Later("insert", job[r])
        BY <1>4, <2>12 DEF CountAttempts, Later
      <4>. QED BY <1>5, <3>1, <4>1
    <3>. QED BY <1>6, <2>12, <3>1 DEF CountAttempts
  <2>13. CASE CreateAttempt(r)
    <3>. DEFINE row == [order |-> job[r].order, ref |-> <<job[r].order, job[r].number>>,
                        amount |-> Total[job[r].order], status |-> "initializing"]
                next == [from |-> "initialize", id |-> nextId, order |-> job[r].order,
                         ref |-> row.ref, amount |-> row.amount, number |-> 0,
                         status |-> row.status]
    <3>1. CASE Insert(row) /\ Goto(r, "load", next)
      <4>1. payments'[nextId] = row /\ row # NoRow
        BY <3>1 DEF Insert, TypeOK, NoRow
      <4>2. next.id = nextId /\ next.order = row.order /\ next.ref = row.ref
            /\ next.from = "initialize" /\ next.status = "initializing"
        OBVIOUS
      <4>. HIDE DEF row, next
      <4>3. Later("load", next)
        BY <4>1, <4>2 DEF Later
      <4>. QED BY <1>5, <3>1, <4>3
    <3>. QED BY <1>6, <2>13, <3>1 DEF CreateAttempt
  <2>. QED BY <1>6, <1>7, <2>4, <2>5, <2>6, <2>7, <2>8, <2>9, <2>10, <2>11, <2>12, <2>13
       DEF Request, CheckLost, MarkPaid, RequestDies
<1>8. ASSUME NEW r \in Requests, NEW o \in Orders, Checkout(r, o)
      PROVE  Goal
  <2>. DEFINE row == [order |-> o, ref |-> <<o, 0>>, amount |-> Total[o],
                      status |-> "initializing"]
              next == [from |-> "initialize", id |-> nextId, order |-> o, ref |-> <<o, 0>>,
                       amount |-> Total[o], number |-> 0, status |-> "initializing"]
  <2>1. Insert(row) /\ Goto(r, "load", next)
    BY <1>8 DEF Checkout
  <2>2. payments'[nextId] = row /\ row # NoRow
    BY <2>1 DEF Insert, TypeOK, NoRow
  <2>3. next.id = nextId /\ next.order = row.order /\ next.ref = row.ref
        /\ next.from = "initialize" /\ next.status = "initializing"
    OBVIOUS
  <2>. HIDE DEF row, next
  <2>4. Later("load", next)
    BY <2>2, <2>3 DEF Later
  <2>. QED BY <1>5, <2>1, <2>4
<1>9. ASSUME NEW r \in Requests, NEW o \in Orders, Retry(r, o)
      PROVE  Goal
  <2>. DEFINE number == Cardinality(PaymentsOf(o)) + 1
              due == [from |-> "reconcile", id |-> 0, order |-> o, ref |-> <<o, 0>>,
                      amount |-> Total[o], number |-> number, status |-> "failed"]
  <2>1. PaymentsOf(o) # {}
    <3>1. 0 \in (0..Cardinality(PaymentsOf(o))) \ {1}
      BY <1>3
    <3>2. <<o, 0>> \in {payments[p].ref : p \in PaymentsOf(o)}
      BY <1>9, <3>1 DEF Retry, TruthInv, AttemptsTellTheTruth, AttemptsNumberedInOrder
    <3>. QED BY <3>2
  <2>2. number \in 2..(CountNext(o) + 1)
    <3>1. Cardinality(PaymentsOf(o)) # 0
      BY <2>1, PaymentsOfFinite, FS_EmptySet
    <3>. QED BY <1>3, <1>9, <3>1 DEF Retry
  <2>3. ASSUME NEW p \in PaymentIds, IsLatest(p, o),
               Goto(r, "check", SnapshotOf(p, "reconcile", number))
        PROVE  Goal
    <3>1. payments[p] # NoRow /\ payments[p].order = o
      BY <2>3 DEF IsLatest, PaymentsOf, Exists
    <3>2. Later("check", SnapshotOf(p, "reconcile", number))
      BY <1>2, <2>2, <3>1 DEF SnapshotOf, Later
    <3>. QED BY <1>5, <2>3, <3>2
  <2>4. CASE Goto(r, "create", due)
    <3>1. due.order = o /\ due.number = number /\ due.from = "reconcile"
      OBVIOUS
    <3>. HIDE DEF due, number
    <3>2. Later("create", due)
      BY <2>2, <3>1 DEF Later
    <3>. QED BY <1>5, <2>4, <3>2
  <2>. QED BY <1>9, <2>3, <2>4 DEF Retry
<1>10. Goal
  BY <1>4, <1>7, <1>8, <1>9 DEF Next, WebhookReceived, WebhookIgnored,
     WebhookCommit, DeliveryDies, CustomerPays, ChargeExpires, Admin, AdminCreate,
     AdminUpdate, AdminDelete
<1>. QED BY <1>10 DEF RequestsTruthful, Truthful, Names, Exists, PaymentsOf, Later, CountNext

\* While staff leave to the server what only Paystack can say, the tables and
\* the requests in flight agree on what there is.
LEMMA TruthStays ==
  ASSUME StaffKeepTheRecords
  PROVE  Spec => []TruthInv
<1>1. StaffKeepTheBooks
  BY DEF StaffKeepTheRecords, StaffKeepTheBooks
<1>2. Init => TruthInv
  BY PaymentsAssumption
  DEF Init, TruthInv, UnusedIdsAreFree, RequestsTruthful, Truthful, DeliveriesTruthful,
      AttemptsTellTheTruth, SuccessfulIsPaid, PendingHasCharge, ChargeHasPayment,
      AttemptsNumberedInOrder, Exists, NoRow
<1>3. TypeOK /\ PlacedInv /\ TruthInv /\ [Next]_vars => TruthInv'
  <2>1. ASSUME TypeOK, PlacedInv, TruthInv, Next
        PROVE  TruthInv'
    <3>1. UnusedIdsAreFree'
      BY <2>1, StaffKeepTheRecords, UnusedIdsStayFree DEF TruthInv
    <3>2. AttemptsTellTheTruth'
      BY <2>1, StaffKeepTheRecords, RowsStayTruthful, ChargesStayKnown, AttemptsStayNumbered
      DEF AttemptsTellTheTruth
    <3>. QED BY <2>1, <3>1, <3>2, StaffKeepTheRecords, RequestsStayTruthful,
            DeliveriesStayTruthful DEF TruthInv
  <2>2. CASE UNCHANGED vars
    <3>. USE <2>2 DEF vars, Exists, PaymentsOf
    <3>1. (UnusedIdsAreFree <=> UnusedIdsAreFree') /\ (DeliveriesTruthful <=> DeliveriesTruthful')
      BY DEF UnusedIdsAreFree, DeliveriesTruthful
    <3>2. RequestsTruthful <=> RequestsTruthful'
      BY DEF RequestsTruthful, Truthful, Names
    <3>3. /\ SuccessfulIsPaid <=> SuccessfulIsPaid'
          /\ PendingHasCharge <=> PendingHasCharge'
          /\ ChargeHasPayment <=> ChargeHasPayment'
      BY DEF SuccessfulIsPaid, PendingHasCharge, ChargeHasPayment, RefTaken
    <3>4. AttemptsNumberedInOrder <=> AttemptsNumberedInOrder'
      BY DEF AttemptsNumberedInOrder
    <3>. QED BY <3>1, <3>2, <3>3, <3>4 DEF TruthInv, AttemptsTellTheTruth
  <2>. QED BY <2>1, <2>2
<1>. QED BY <1>1, <1>2, <1>3, TypeCorrect, PlacedStays, PTL DEF Spec

\* However requests, retries and webhooks on them overtake each other, the
\* attempts say what is so: successful with a paid order, pending with an open
\* charge, numbered in the order they came, and none unknown to the server.
THEOREM AttemptsAreTruthful ==
  ASSUME StaffKeepTheRecords
  PROVE  Spec => []AttemptsTellTheTruth
<1>1. TruthInv => AttemptsTellTheTruth
  BY DEF TruthInv
<1>. QED BY <1>1, StaffKeepTheRecords, TruthStays, PTL

\* Only a request that finds the order unpaid goes on to open a charge for it.
\* Its snapshot names the row's own order, so nothing but TypeOK is needed.
THEOREM PaidOrdersAreNotCharged == Spec => NoChargeForPaidOrder
<1>. DEFINE Unpaid ==
       \A r \in Requests :
         pc'[r] = "post" /\ pc[r] # "post" => order[job'[r].order] # "paid"
<1>1. TypeOK /\ [Next]_vars => [Unpaid]_vars
  <2>1. ASSUME TypeOK, NEW r \in Requests, NEW step, NEW j, Goto(r, step, j), step # "post"
        PROVE  Unpaid
    BY <2>1 DEF Goto, TypeOK, RequestsOK
  <2>2. ASSUME TypeOK, NEW r \in Requests, LoadAttempt(r)
        PROVE  Unpaid
    <3>1. CASE Return(r)
      BY <2>1, <2>2, <3>1 DEF Return
    <3>2. CASE /\ order[payments[job[r].id].order] # "paid"
               /\ Goto(r, "post", SnapshotOf(job[r].id, "initialize", 0))
      BY <2>2, <3>2 DEF Goto, SnapshotOf, TypeOK, RequestsOK
    <3>. QED BY <2>2, <3>1, <3>2 DEF LoadAttempt
  <2>3. ASSUME TypeOK, NEW r \in Requests, Request(r)
        PROVE  Unpaid
    BY <2>1, <2>2, <2>3 DEF Request, Return, ChargeAccepted, ChargeUnclear, CheckLost,
       CheckAnswered, CheckRejected, SaveBankAccount, MarkPaid, WriteStatus,
       StatusWriteFails, CountAttempts, CreateAttempt, RequestDies
  <2>4. CASE UNCHANGED pc
    BY <2>4
  <2>5. ASSUME TypeOK, NEW r \in Requests, NEW o \in Orders, Checkout(r, o) \/ Retry(r, o)
        PROVE  Unpaid
    BY <2>1, <2>5 DEF Checkout, Retry
  <2>. QED BY <2>3, <2>4, <2>5 DEF Next, vars, WebhookReceived, WebhookIgnored,
       WebhookCommit, DeliveryDies, CustomerPays, ChargeExpires, Admin, AdminCreate,
       AdminUpdate, AdminDelete
<1>. QED BY <1>1, TypeCorrect, PTL DEF Spec, NoChargeForPaidOrder

=============================================================================
