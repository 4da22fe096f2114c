---------------------------- MODULE Announcements ----------------------------
(***************************************************************************)
(* An announcement and its e-mails (src/src/announcements/                 *)
(* announcements.service.ts, announcement-dispatch.service.ts).  A request *)
(* creates it, to be published at once or at a time; publishing writes a   *)
(* recipient row for every user of the audience, chunk by chunk; in every  *)
(* process of the backend a cron job publishes what is due, claims a batch *)
(* of pending recipients (FOR UPDATE SKIP LOCKED), e-mails them one by one *)
(* and closes the announcement when nobody is left; staff may cancel it.   *)
(* Apart from the claim nothing runs in a transaction: every read and      *)
(* every write below is a step of its own.                                 *)
(***************************************************************************)
EXTENDS Integers, FiniteSets

CONSTANTS
  Users,        \* the audience
  Workers,      \* processes running the cron job
  Requests,     \* HTTP requests
  ChunkSize,    \* FANOUT_CHUNK_SIZE
  BatchSize,    \* DISPATCH_BATCH_SIZE
  MaxAttempts,  \* MAX_ATTEMPTS
  MayCancel,    \* whether staff cancel announcements
  MaxCrashes    \* bound: cycles cut short by a crash or a database error

ASSUME AnnouncementsAssumption ==
  /\ {ChunkSize, BatchSize, MaxAttempts} \subseteq Nat \ {0}
  /\ MayCancel \in BOOLEAN
  /\ MaxCrashes \in Nat
  /\ Workers \cap Requests = {}

VARIABLES
  status,       \* announcements.status, "none" before it is created
  schedule,     \* published at once (also before it is created), later, or due by now
  recipients,   \* announcement_recipients, one per user at most (unique)
  emails,       \* e-mails a user was sent
  pc, job,      \* where a worker or a request stands, and what it has read
  crashes

vars == <<status, schedule, recipients, emails, pc, job, crashes>>

Actors == Workers \cup Requests
Statuses == {"none", "draft", "scheduled", "sending", "sent", "partially_failed", "cancelled"}
NoRow == [status |-> "none"]
Rows == [status: {"pending", "processing", "sent", "failed"}, attempts: 0..MaxAttempts, due: BOOLEAN]
NoJob == [at |-> "none"]
Todos == [todo: SUBSET Users]
Jobs ==
  [idle |-> {NoJob}, publish |-> {NoJob}, fanout |-> Todos,
   withdraw |-> {NoJob}, cancel |-> {NoJob},
   claim |-> {NoJob}, send |-> Todos, mark |-> [todo: SUBSET Users, user: Users, ok: BOOLEAN],
   remaining |-> {NoJob}, count |-> {NoJob}, close |-> [failed: BOOLEAN]]
Steps == DOMAIN Jobs

TypeOK ==
  /\ status \in Statuses
  /\ schedule \in {"now", "later", "due"}
  /\ recipients \in [Users -> Rows \cup {NoRow}]
  /\ emails \in [Users -> Nat]
  /\ pc \in [Actors -> Steps]
  /\ \A a \in Actors : job[a] \in Jobs[pc[a]]
  /\ crashes \in 0..MaxCrashes

Init ==
  /\ status = "none" /\ schedule = "now"
  /\ recipients = [u \in Users |-> NoRow]
  /\ emails = [u \in Users |-> 0]
  /\ pc = [a \in Actors |-> "idle"]
  /\ job = [a \in Actors |-> NoJob]
  /\ crashes = 0

Goto(a, step, knows) ==
  /\ pc' = [pc EXCEPT ![a] = step]
  /\ job' = [job EXCEPT ![a] = knows]
Return(a) == Goto(a, "idle", NoJob)

With(s) == {u \in Users : recipients[u].status \in s}

-----------------------------------------------------------------------------
(* Creation, publishing, cancellation                                      *)

Create(r) ==
  /\ r \in Requests /\ pc[r] = "idle" /\ status = "none"
  /\ \/ status' = "draft" /\ Goto(r, "publish", NoJob) /\ UNCHANGED schedule
     \/ status' = "scheduled" /\ schedule' = "later" /\ UNCHANGED <<pc, job>>
  /\ UNCHANGED <<recipients, emails, crashes>>

DueComes ==
  /\ schedule = "later"
  /\ schedule' = "due"
  /\ UNCHANGED <<status, recipients, emails, pc, job, crashes>>

\* publish looks at the status and resolves the audience; published or
\* cancelled already is an error, which ends a worker's whole cycle
Publish(a) ==
  /\ pc[a] = "publish"
  /\ IF status \in {"draft", "scheduled"} THEN Goto(a, "fanout", [todo |-> Users])
                                          ELSE Return(a)
  /\ UNCHANGED <<status, schedule, recipients, emails, crashes>>

\* (faulty Queue: an upsert that starts recipients over)
QueueAnew(chunk) ==
  recipients' = [u \in Users |->
    IF u \in chunk THEN [status |-> "pending", attempts |-> 0, due |-> TRUE] ELSE recipients[u]]

\* createMany, skipping those who have a row
Queue(chunk) ==
  recipients' = [u \in Users |->
    IF u \in chunk /\ recipients[u] = NoRow
      THEN [status |-> "pending", attempts |-> 0, due |-> TRUE] ELSE recipients[u]]

FanOut(a) ==
  /\ pc[a] = "fanout" /\ job[a].todo # {}
  /\ \E chunk \in SUBSET job[a].todo :
       /\ Cardinality(chunk) = ChunkSize \/ chunk = job[a].todo
       /\ Cardinality(chunk) <= ChunkSize
       /\ Queue(chunk)
       /\ Goto(a, "fanout", [todo |-> job[a].todo \ chunk])
  /\ UNCHANGED <<status, schedule, emails, crashes>>

\* the announcement is sending, whatever became of it meanwhile; an audience
\* of nobody is sent at once
Published(a) ==
  /\ pc[a] = "fanout" /\ job[a].todo = {}
  /\ status' = IF Users = {} THEN "sent" ELSE "sending"
  /\ IF a \in Workers THEN Goto(a, "claim", NoJob) ELSE Return(a)
  /\ UNCHANGED <<schedule, recipients, emails, crashes>>

\* cancel: look at the status, delete the pending recipients, set the status
Cancel(r) ==
  /\ MayCancel /\ r \in Requests /\ pc[r] = "idle"
  /\ status \notin {"none", "sent", "cancelled"}
  /\ Goto(r, "withdraw", NoJob)
  /\ UNCHANGED <<status, schedule, recipients, emails, crashes>>
Withdraw(r) ==
  /\ pc[r] = "withdraw"
  /\ recipients' = [u \in Users |->
       IF recipients[u].status = "pending" THEN NoRow ELSE recipients[u]]
  /\ Goto(r, "cancel", NoJob)
  /\ UNCHANGED <<status, schedule, emails, crashes>>
Cancelled(r) ==
  /\ pc[r] = "cancel"
  /\ status' = "cancelled"
  /\ Return(r)
  /\ UNCHANGED <<schedule, recipients, emails, crashes>>

-----------------------------------------------------------------------------
(* The dispatch cycle                                                      *)

\* one cycle at a time in a process; what is scheduled and due comes first
Tick(w) ==
  /\ w \in Workers /\ pc[w] = "idle"
  /\ Goto(w, IF status = "scheduled" /\ schedule = "due" THEN "publish" ELSE "claim", NoJob)
  /\ UNCHANGED <<status, schedule, recipients, emails, crashes>>

Claimable == {u \in With({"pending"}) : recipients[u].due}

\* Rows another claim has locked are skipped, so fewer than a batch may come.
ClaimBatch(w) ==
  /\ pc[w] = "claim"
  /\ \E batch \in SUBSET Claimable :
       /\ Cardinality(batch) <= BatchSize
       /\ Claimable # {} => batch # {}
       /\ recipients' = [u \in Users |->
            IF u \in batch THEN [recipients[u] EXCEPT !.status = "processing"] ELSE recipients[u]]
       /\ IF batch = {} THEN Return(w) ELSE Goto(w, "send", [todo |-> batch])
  /\ UNCHANGED <<status, schedule, emails, crashes>>

\* the e-mail goes out, or sending it fails, or it goes out and the answer is lost
Send(w) ==
  /\ pc[w] = "send" /\ job[w].todo # {}
  /\ \E u \in job[w].todo, out \in BOOLEAN, ok \in BOOLEAN :
       /\ ok => out
       /\ emails' = [emails EXCEPT ![u] = IF out THEN @ + 1 ELSE @]
       /\ Goto(w, "mark", [todo |-> job[w].todo \ {u}, user |-> u, ok |-> ok])
  /\ UNCHANGED <<status, schedule, recipients, crashes>>

\* (faulty Failed: retried once more than allowed)
FailedLate(row) ==
  LET attempts == row.attempts + 1
  IN [status |-> IF attempts > MaxAttempts THEN "failed" ELSE "pending",
      attempts |-> attempts, due |-> attempts > MaxAttempts]

\* (faulty Failed: the claim is not given back)
FailedKeepsClaim(row) ==
  LET attempts == row.attempts + 1
  IN [status |-> IF attempts >= MaxAttempts THEN "failed" ELSE "processing",
      attempts |-> attempts, due |-> FALSE]

\* one attempt more; pending again after a backoff, or failed for good
Failed(row) ==
  LET attempts == row.attempts + 1
      final == attempts >= MaxAttempts
  IN [status |-> IF final THEN "failed" ELSE "pending", attempts |-> attempts, due |-> final]

\* The result is written to the row, which only its claimer touches.  When the
\* write of a success fails, that counts as a failed attempt.
Mark(w) ==
  /\ pc[w] = "mark"
  /\ LET u == job[w].user
         row == recipients[u]
     IN \/ /\ job[w].ok
           /\ recipients' = [recipients EXCEPT ![u].status = "sent"]
           /\ UNCHANGED crashes
        \/ /\ ~job[w].ok
           /\ recipients' = [recipients EXCEPT ![u] = Failed(row)]
           /\ UNCHANGED crashes
        \/ /\ job[w].ok /\ crashes < MaxCrashes
           /\ recipients' = [recipients EXCEPT ![u] = Failed(row)]
           /\ crashes' = crashes + 1
  /\ Goto(w, "send", [todo |-> job[w].todo])
  /\ UNCHANGED <<status, schedule, emails>>

\* the backoff of a recipient ends
RetryComesDue(u) ==
  /\ recipients[u].status = "pending" /\ ~recipients[u].due
  /\ recipients' = [recipients EXCEPT ![u].due = TRUE]
  /\ UNCHANGED <<status, schedule, emails, pc, job, crashes>>

\* finalizeIfComplete: three reads and a write
BatchDone(w) ==
  /\ pc[w] = "send" /\ job[w].todo = {}
  /\ Goto(w, "remaining", NoJob)
  /\ UNCHANGED <<status, schedule, recipients, emails, crashes>>
Remaining(w) ==
  /\ pc[w] = "remaining"
  /\ IF With({"pending", "processing"}) = {} THEN Goto(w, "count", NoJob) ELSE Return(w)
  /\ UNCHANGED <<status, schedule, recipients, emails, crashes>>
CountResults(w) ==
  /\ pc[w] = "count"
  /\ Goto(w, "close", [failed |-> With({"failed"}) # {}])
  /\ UNCHANGED <<status, schedule, recipients, emails, crashes>>
Close(w) ==
  /\ pc[w] = "close"
  /\ status' = IF job[w].failed THEN "partially_failed" ELSE "sent"
  /\ Return(w)
  /\ UNCHANGED <<schedule, recipients, emails, crashes>>

\* a process or a request goes away, or a statement of it fails
Dies(a) ==
  /\ pc[a] # "idle" /\ crashes < MaxCrashes
  /\ crashes' = crashes + 1
  /\ Return(a)
  /\ UNCHANGED <<status, schedule, recipients, emails>>

-----------------------------------------------------------------------------
Step(a) ==
  \/ Publish(a) \/ FanOut(a) \/ Published(a)
  \/ Withdraw(a) \/ Cancelled(a)
  \/ ClaimBatch(a) \/ Send(a) \/ Mark(a)
  \/ BatchDone(a) \/ Remaining(a) \/ CountResults(a) \/ Close(a)

Next ==
  \/ DueComes
  \/ \E r \in Requests : Create(r) \/ Cancel(r)
  \/ \E w \in Workers : Tick(w)
  \/ \E a \in Actors : Step(a) \/ Dies(a)
  \/ \E u \in Users : RetryComesDue(u)

Spec == Init /\ [][Next]_vars

\* cron fires every ten seconds, time passes, and what runs goes on running
Fairness ==
  /\ WF_vars(DueComes)
  /\ \A w \in Workers : WF_vars(Tick(w))
  /\ \A a \in Actors : WF_vars(Step(a))
  /\ \A u \in Users : WF_vars(RetryComesDue(u))

FairSpec == Spec /\ Fairness

-----------------------------------------------------------------------------
(* Safety                                                                  *)

InHand(w) ==
  CASE pc[w] = "send" -> job[w].todo
    [] pc[w] = "mark" -> job[w].todo \cup {job[w].user}
    [] OTHER -> {}

\* A recipient is e-mailed by one process at a time: no two cycles have
\* claimed the same one, and whoever is claimed is marked so.
ClaimedByOne ==
  /\ \A w \in Workers : \A u \in InHand(w) : recipients[u].status = "processing"
  /\ \A w, v \in Workers : w # v => InHand(w) \cap InHand(v) = {}

\* The row tells what happened: a sent recipient was e-mailed, and one is
\* given up only after all attempts, never before and never tried again.
RowsTellTheTruth ==
  \A u \in Users :
    /\ recipients[u].status = "sent" => emails[u] > 0
    /\ recipients[u] # NoRow =>
         (recipients[u].status = "failed" <=> recipients[u].attempts = MaxAttempts)

\* Recipients are in the hands of one process at most, and say what became of them.
RecipientsAreTracked == ClaimedByOne /\ RowsTellTheTruth

(* What a step may never do                                                *)

\* Whoever got the announcement does not get it again, also when it is
\* published by two processes, retried or cancelled.
SentOnceAndForAll ==
  [][\A u \in Users : recipients[u].status = "sent" =>
       recipients'[u] = recipients[u] /\ emails'[u] = emails[u]]_vars

(* Liveness                                                                *)

\* Whoever is queued is e-mailed, given up after the last attempt, or taken
\* out by a cancellation, unless a process died on the way.
QueuedIsDelivered ==
  \A u \in Users :
    recipients[u].status \in {"pending", "processing"}
      ~> recipients[u].status \in {"sent", "failed", "none"} \/ crashes > 0

-----------------------------------------------------------------------------
(* Refinement                                                              *)

State == [u \in Users |-> recipients[u].status]
Tries == [u \in Users |-> IF recipients[u] = NoRow THEN 0 ELSE recipients[u].attempts]
Hands == [w \in Workers |-> InHand(w)]
Outcomes == [w \in Workers |->
  IF pc[w] = "mark" THEN [user |-> job[w].user, ok |-> job[w].ok] ELSE [user |-> "none"]]
Promise == INSTANCE Outbox WITH
  state <- State, tries <- Tries, mailed <- emails,
  hands <- Hands, outcome <- Outcomes, lost <- crashes

\* However processes publish, claim, retry and die, and staff cancel, a recipient
\* is in one hand at a time and e-mailed once in it; who got the announcement, or
\* was given up, is left alone for good.
RecipientsAreHandled == Promise!Spec
=============================================================================
