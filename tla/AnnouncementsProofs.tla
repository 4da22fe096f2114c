------------------------- MODULE AnnouncementsProofs -------------------------
(***************************************************************************)
(* Theorems about Announcements, for any audience, processes, requests,    *)
(* chunk and batch sizes, and number of attempts and crashes.              *)
(***************************************************************************)
EXTENDS Announcements, TLAPS

\* The rows tell what became of the recipients.
Tables ==
  /\ status \in Statuses
  /\ schedule \in {"now", "later", "due"}
  /\ recipients \in [Users -> Rows \cup {NoRow}]
  /\ emails \in [Users -> Nat]
  /\ crashes \in 0..MaxCrashes
  /\ RowsTellTheTruth

\* Only the processes of the cron job come to these steps.
Dispatching == {"claim", "send", "mark", "remaining", "count", "close"}

\* The recipient whose result is to be written is in the batch no longer, and
\* was e-mailed if the result is a success.
JobFits(a, s, j) ==
  /\ j \in Jobs[s]
  /\ s \in Dispatching => a \in Workers
  /\ s = "mark" => j.user \notin j.todo /\ (j.ok => emails[j.user] > 0)

AtWork ==
  /\ pc \in [Actors -> Steps]
  /\ job = [a \in Actors |-> job[a]]
  /\ \A a \in Actors : JobFits(a, pc[a], job[a])
  /\ ClaimedByOne

IInv == Tables /\ AtWork

\* The strengthened invariant is typed.
LEMMA InvariantImpliesType == IInv => TypeOK
BY DEF IInv, Tables, AtWork, JobFits, TypeOK

-----------------------------------------------------------------------------
(* Steps of processes and requests                                         *)

LEMMA StepsAre ==
  Steps = {"idle", "publish", "fanout", "withdraw", "cancel",
           "claim", "send", "mark", "remaining", "count", "close"}
BY DEF Steps, Jobs

LEMMA JobsAre ==
  /\ Jobs["fanout"] = Todos /\ Jobs["send"] = Todos
  /\ Jobs["mark"] = [todo: SUBSET Users, user: Users, ok: BOOLEAN]
  /\ Jobs["close"] = [failed: BOOLEAN]
  /\ Jobs["idle"] = {NoJob} /\ Jobs["publish"] = {NoJob}
  /\ Jobs["withdraw"] = {NoJob} /\ Jobs["cancel"] = {NoJob}
  /\ Jobs["claim"] = {NoJob} /\ Jobs["remaining"] = {NoJob} /\ Jobs["count"] = {NoJob}
BY DEF Jobs

\* Whom a step has in hand.
Held(s, j) ==
  CASE s = "send" -> j.todo
    [] s = "mark" -> j.todo \cup {j.user}
    [] OTHER -> {}

LEMMA InHandIsHeld == \A w : InHand(w) = Held(pc[w], job[w])
BY DEF InHand, Held

\* Nobody's e-mails are taken back.
EmailsStay == \A u \in Users : emails[u] > 0 => emails'[u] > 0

LEMMA JobsStay ==
  ASSUME EmailsStay, NEW a, NEW s \in Steps, NEW j, JobFits(a, s, j),
         pc'[a] = s, job'[a] = j
  PROVE  JobFits(a, pc[a], job[a])'
<1>1. s = "mark" => j.user \in Users
  BY JobsAre DEF JobFits
<1>. QED BY <1>1 DEF JobFits, EmailsStay

LEMMA JobAt ==
  ASSUME IInv, NEW a \in Actors
  PROVE  pc[a] \in Steps /\ job[a] \in Jobs[pc[a]] /\ JobFits(a, pc[a], job[a])
BY DEF IInv, AtWork, JobFits

\* A step keeps the invariant if it leaves alone what the other processes have
\* in hand, ...
LEMMA GotoKeepsIInv ==
  ASSUME IInv, Tables', EmailsStay, NEW a \in Actors, NEW s \in Steps, NEW j, Goto(a, s, j),
         JobFits(a, pc[a], job[a])',
         \A w \in Workers \ {a} : \A u \in InHand(w) : recipients'[u].status = "processing",
         \A u \in Held(s, j) : recipients'[u].status = "processing",
         \A w \in Workers \ {a} : Held(s, j) \cap InHand(w) = {}
  PROVE  IInv'
<1>1. /\ pc' \in [Actors -> Steps]
      /\ job' = [b \in Actors |-> job'[b]]
      /\ pc'[a] = s /\ job'[a] = j
      /\ \A b \in Actors \ {a} : pc'[b] = pc[b] /\ job'[b] = job[b]
  BY DEF IInv, AtWork, Goto
<1>2. ASSUME NEW b \in Actors PROVE JobFits(b, pc[b], job[b])'
  <2>1. CASE b # a
    BY <1>1, <2>1, JobAt, JobsStay
  <2>. QED BY <2>1
<1>3. \A w \in Workers \ {a} : InHand(w)' = InHand(w)
  BY <1>1 DEF InHand, Actors
<1>4. InHand(a)' = Held(s, j)
  BY <1>1 DEF InHand, Held
<1>5. ClaimedByOne'
  <2>1. ASSUME NEW w \in Workers, NEW u \in InHand(w)' PROVE recipients'[u].status = "processing"
    BY <1>3, <1>4
  <2>2. ASSUME NEW w \in Workers, NEW v \in Workers, w # v PROVE InHand(w)' \cap InHand(v)' = {}
    <3>1. InHand(w) \cap InHand(v) = {}
      BY <2>2 DEF IInv, AtWork, ClaimedByOne
    <3>. QED BY <1>3, <1>4, <2>2, <3>1
  <2>. QED BY <2>1, <2>2 DEF ClaimedByOne
<1>. QED BY <1>1, <1>2, <1>5 DEF IInv, AtWork

\* ... so with nobody in hand it must only leave the claimed rows alone.
ClaimsStay == \A u \in Users : recipients[u].status = "processing" => recipients'[u] = recipients[u]

LEMMA InHandAre ==
  ASSUME IInv, NEW w \in Workers
  PROVE  /\ InHand(w) \in SUBSET Users
         /\ \A u \in InHand(w) : recipients[u].status = "processing"
<1>1. job[w] \in Jobs[pc[w]] /\ w \in Actors
  BY JobAt DEF Actors
<1>2. InHand(w) \in SUBSET Users
  <2>1. CASE pc[w] = "send"
    BY <1>1, <2>1, JobsAre DEF InHand, Todos
  <2>2. CASE pc[w] = "mark"
    BY <1>1, <2>2, JobsAre DEF InHand
  <2>3. CASE pc[w] \notin {"send", "mark"}
    BY <2>3 DEF InHand
  <2>. QED BY <2>1, <2>2, <2>3
<1>. QED BY <1>2 DEF IInv, AtWork, ClaimedByOne

LEMMA FreeGotoKeepsIInv ==
  ASSUME IInv, Tables', EmailsStay, ClaimsStay, NEW a \in Actors,
         NEW s \in Steps \ {"send", "mark"}, NEW j \in Jobs[s], Goto(a, s, j),
         s \in Dispatching => a \in Workers
  PROVE  IInv'
<1>1. Held(s, j) = {}
  BY DEF Held
<1>2. pc'[a] = s /\ job'[a] = j
  BY DEF IInv, AtWork, Goto
<1>3. JobFits(a, pc[a], job[a])'
  BY <1>2 DEF JobFits
<1>4. \A w \in Workers \ {a} : \A u \in InHand(w) : recipients'[u].status = "processing"
  BY InHandAre DEF ClaimsStay
<1>. QED BY <1>1, <1>3, <1>4, GotoKeepsIInv

LEMMA ReturnKeepsIInv ==
  ASSUME IInv, Tables', EmailsStay, ClaimsStay, NEW a \in Actors, Return(a)
  PROVE  IInv'
BY JobsAre, StepsAre, FreeGotoKeepsIInv DEF Return, Dispatching

\* ... and so if it stands still.
LEMMA StillKeepsIInv ==
  ASSUME IInv, Tables', EmailsStay, ClaimsStay, UNCHANGED <<pc, job>>
  PROVE  IInv'
<1>1. ASSUME NEW b \in Actors PROVE JobFits(b, pc[b], job[b])'
  BY JobAt, JobsStay
<1>2. \A w \in Workers : InHand(w)' = InHand(w)
  BY DEF InHand
<1>3. ClaimedByOne'
  <2>1. \A w \in Workers : \A u \in InHand(w) : recipients'[u].status = "processing"
    BY InHandAre DEF ClaimsStay
  <2>. QED BY <1>2, <2>1 DEF IInv, AtWork, ClaimedByOne
<1>. QED BY <1>1, <1>3 DEF IInv, AtWork

LEMMA QuietTables ==
  ASSUME IInv, UNCHANGED <<recipients, emails>>,
         status' \in Statuses, schedule' \in {"now", "later", "due"}, crashes' \in 0..MaxCrashes
  PROVE  Tables' /\ EmailsStay /\ ClaimsStay
BY DEF IInv, Tables, RowsTellTheTruth, EmailsStay, ClaimsStay

-----------------------------------------------------------------------------
(* Creation, publishing, cancellation                                      *)

LEMMA InitInvariant == Init => IInv
<1>. SUFFICES ASSUME Init PROVE IInv
  OBVIOUS
<1>1. Tables
  BY AnnouncementsAssumption DEF Init, Tables, Statuses, RowsTellTheTruth, NoRow
<1>2. \A w \in Workers : InHand(w) = {}
  BY DEF Init, InHand, Actors
<1>3. ClaimedByOne
  BY <1>2 DEF ClaimedByOne
<1>. QED BY <1>1, <1>3, StepsAre, JobsAre
       DEF Init, IInv, AtWork, JobFits, Dispatching

LEMMA CreateKeepsIInv ==
  ASSUME IInv, NEW r \in Requests, Create(r)
  PROVE  IInv'
<1>1. status' \in Statuses /\ schedule' \in {"now", "later", "due"}
      /\ crashes' \in 0..MaxCrashes /\ UNCHANGED <<recipients, emails>> /\ r \in Actors
  BY DEF Create, IInv, Tables, Statuses, Actors
<1>2. Tables' /\ EmailsStay /\ ClaimsStay
  BY <1>1, QuietTables
<1>3. CASE Goto(r, "publish", NoJob)
  BY <1>1, <1>2, <1>3, JobsAre, StepsAre, FreeGotoKeepsIInv DEF Dispatching
<1>4. CASE UNCHANGED <<pc, job>>
  BY <1>2, <1>4, StillKeepsIInv
<1>. QED BY <1>3, <1>4 DEF Create

LEMMA DueComesKeepsIInv ==
  ASSUME IInv, DueComes
  PROVE  IInv'
<1>1. Tables' /\ EmailsStay /\ ClaimsStay
  BY QuietTables DEF DueComes, IInv, Tables
<1>. QED BY <1>1, StillKeepsIInv DEF DueComes

\* Steps that only read, and go on with nobody in hand.
LEMMA ReadingKeepsIInv ==
  ASSUME IInv, UNCHANGED <<recipients, emails, schedule>>, status' \in Statuses,
         crashes' \in 0..MaxCrashes, NEW a \in Actors,
         NEW s \in Steps \ {"send", "mark"}, NEW j \in Jobs[s], Goto(a, s, j),
         s \in Dispatching => a \in Workers
  PROVE  IInv'
<1>1. Tables' /\ EmailsStay /\ ClaimsStay
  BY QuietTables DEF IInv, Tables
<1>. QED BY <1>1, FreeGotoKeepsIInv

LEMMA ReturningKeepsIInv ==
  ASSUME IInv, UNCHANGED <<recipients, emails, schedule>>, status' \in Statuses,
         crashes' \in 0..MaxCrashes, NEW a \in Actors, Return(a)
  PROVE  IInv'
BY JobsAre, StepsAre, ReadingKeepsIInv DEF Return, Dispatching

LEMMA StatusAndCrashes == IInv => status \in Statuses /\ crashes \in 0..MaxCrashes
BY DEF IInv, Tables

LEMMA PublishKeepsIInv ==
  ASSUME IInv, NEW a \in Actors, Publish(a)
  PROVE  IInv'
<1>1. [todo |-> Users] \in Jobs["fanout"]
  BY JobsAre DEF Todos
<1>2. status' \in Statuses /\ crashes' \in 0..MaxCrashes
      /\ UNCHANGED <<recipients, emails, schedule>>
  BY StatusAndCrashes DEF Publish
<1>3. CASE Goto(a, "fanout", [todo |-> Users])
  BY <1>1, <1>2, <1>3, StepsAre, ReadingKeepsIInv DEF Dispatching
<1>4. CASE Return(a)
  BY <1>2, <1>4, ReturningKeepsIInv
<1>. QED BY <1>3, <1>4 DEF Publish

\* A row is queued only for who has none.
LEMMA FanOutKeepsIInv ==
  ASSUME IInv, NEW a \in Actors, FanOut(a)
  PROVE  IInv'
<1>1. job[a] \in Todos
  BY JobAt, JobsAre DEF FanOut
<1>2. PICK chunk \in SUBSET job[a].todo :
        Queue(chunk) /\ Goto(a, "fanout", [todo |-> job[a].todo \ chunk])
  BY DEF FanOut
<1>. DEFINE new == [status |-> "pending", attempts |-> 0, due |-> TRUE]
<1>3. new \in Rows /\ new # NoRow /\ NoRow.status = "none"
  BY AnnouncementsAssumption DEF Rows, NoRow
<1>4. \A u \in Users : recipients'[u] = IF u \in chunk /\ recipients[u] = NoRow
                                          THEN new ELSE recipients[u]
  BY <1>2 DEF Queue
<1>5. recipients' \in [Users -> Rows \cup {NoRow}]
  BY <1>2, <1>3 DEF Queue, IInv, Tables
<1>6. UNCHANGED <<status, schedule, emails, crashes>>
  BY DEF FanOut
<1>7. Tables'
  <2>1. MaxAttempts # 0
    BY AnnouncementsAssumption
  <2>2. RowsTellTheTruth'
    BY <1>3, <1>4, <1>6, <2>1 DEF IInv, Tables, RowsTellTheTruth
  <2>. QED BY <1>5, <1>6, <2>2 DEF IInv, Tables
<1>8. EmailsStay /\ ClaimsStay
  BY <1>3, <1>4, <1>6 DEF EmailsStay, ClaimsStay
<1>9. [todo |-> job[a].todo \ chunk] \in Jobs["fanout"]
  BY <1>1, JobsAre DEF Todos
<1>. QED BY <1>2, <1>7, <1>8, <1>9, StepsAre, FreeGotoKeepsIInv DEF Dispatching

LEMMA PublishedKeepsIInv ==
  ASSUME IInv, NEW a \in Actors, Published(a)
  PROVE  IInv'
<1>1. status' \in Statuses /\ crashes' \in 0..MaxCrashes
      /\ UNCHANGED <<recipients, emails, schedule>>
  BY StatusAndCrashes DEF Published, Statuses
<1>2. CASE a \in Workers /\ Goto(a, "claim", NoJob)
  BY <1>1, <1>2, JobsAre, StepsAre, ReadingKeepsIInv
<1>3. CASE Return(a)
  BY <1>1, <1>3, ReturningKeepsIInv
<1>. QED BY <1>2, <1>3 DEF Published

LEMMA CancelKeepsIInv ==
  ASSUME IInv, NEW r \in Requests, Cancel(r)
  PROVE  IInv'
<1>1. r \in Actors /\ Goto(r, "withdraw", NoJob)
      /\ UNCHANGED <<status, schedule, recipients, emails, crashes>>
  BY DEF Cancel, Actors
<1>. QED BY <1>1, StatusAndCrashes, JobsAre, StepsAre, ReadingKeepsIInv DEF Dispatching

\* Whoever is claimed is not withdrawn.
LEMMA WithdrawKeepsIInv ==
  ASSUME IInv, NEW r \in Actors, Withdraw(r)
  PROVE  IInv'
<1>1. \A u \in Users : recipients'[u] = IF recipients[u].status = "pending"
                                          THEN NoRow ELSE recipients[u]
  BY DEF Withdraw
<1>2. recipients' \in [Users -> Rows \cup {NoRow}]
  BY DEF Withdraw, IInv, Tables
<1>3. UNCHANGED <<status, schedule, emails, crashes>> /\ Goto(r, "cancel", NoJob)
  BY DEF Withdraw
<1>4. RowsTellTheTruth'
  BY <1>1, <1>3 DEF IInv, Tables, RowsTellTheTruth, NoRow
<1>5. Tables' /\ EmailsStay /\ ClaimsStay
  BY <1>1, <1>2, <1>3, <1>4 DEF IInv, Tables, EmailsStay, ClaimsStay
<1>. QED BY <1>3, <1>5, JobsAre, StepsAre, FreeGotoKeepsIInv DEF Dispatching

LEMMA CancelledKeepsIInv ==
  ASSUME IInv, NEW r \in Actors, Cancelled(r)
  PROVE  IInv'
<1>1. status' \in Statuses /\ UNCHANGED <<schedule, recipients, emails, crashes>> /\ Return(r)
  BY DEF Cancelled, Statuses
<1>. QED BY <1>1, StatusAndCrashes, ReturningKeepsIInv

-----------------------------------------------------------------------------
(* The dispatch cycle                                                      *)

LEMMA TickKeepsIInv ==
  ASSUME IInv, NEW w \in Workers, Tick(w)
  PROVE  IInv'
<1>1. w \in Actors /\ UNCHANGED <<status, schedule, recipients, emails, crashes>>
  BY DEF Tick, Actors
<1>2. Goto(w, "publish", NoJob) \/ Goto(w, "claim", NoJob)
  BY DEF Tick
<1>. QED BY <1>1, <1>2, StatusAndCrashes, JobsAre, StepsAre, ReadingKeepsIInv

\* The batch was pending, so nobody has it in hand.
LEMMA ClaimBatchKeepsIInv ==
  ASSUME IInv, NEW w \in Actors, ClaimBatch(w)
  PROVE  IInv'
<1>1. w \in Workers
  BY JobAt DEF ClaimBatch, JobFits, Dispatching
<1>2. PICK batch \in SUBSET Claimable :
        /\ recipients' = [u \in Users |->
             IF u \in batch THEN [recipients[u] EXCEPT !.status = "processing"] ELSE recipients[u]]
        /\ IF batch = {} THEN Return(w) ELSE Goto(w, "send", [todo |-> batch])
  BY DEF ClaimBatch
<1>3. UNCHANGED <<status, schedule, emails, crashes>>
  BY DEF ClaimBatch
<1>4. ASSUME NEW u \in batch
      PROVE  /\ u \in Users /\ recipients[u].status = "pending" /\ recipients[u] \in Rows
             /\ recipients'[u] \in Rows /\ recipients'[u].status = "processing"
             /\ recipients'[u].attempts = recipients[u].attempts
  <2>1. u \in Users /\ recipients[u].status = "pending"
    BY DEF Claimable, With
  <2>2. recipients[u] \in Rows
    BY <2>1 DEF IInv, Tables, NoRow
  <2>3. recipients'[u] = [recipients[u] EXCEPT !.status = "processing"]
    BY <1>2, <2>1
  <2>. QED BY <2>1, <2>2, <2>3 DEF Rows
<1>5. \A u \in Users \ batch : recipients'[u] = recipients[u]
  BY <1>2
<1>6. Tables'
  <2>1. recipients' \in [Users -> Rows \cup {NoRow}]
    <3>1. \A u \in Users : recipients'[u] \in Rows \cup {NoRow}
      BY <1>4, <1>5 DEF IInv, Tables
    <3>. QED BY <1>2, <3>1
  <2>2. RowsTellTheTruth'
    <3>1. \A u \in batch : recipients[u] # NoRow
      BY <1>4 DEF NoRow
    <3>. QED BY <1>3, <1>4, <1>5, <3>1 DEF IInv, Tables, RowsTellTheTruth
  <2>. QED BY <1>3, <2>1, <2>2 DEF IInv, Tables
<1>7. EmailsStay /\ ClaimsStay
  BY <1>3, <1>4, <1>5 DEF EmailsStay, ClaimsStay
<1>8. CASE Return(w)
  BY <1>6, <1>7, <1>8, ReturnKeepsIInv
<1>9. CASE Goto(w, "send", [todo |-> batch])
  <2>1. batch \in SUBSET Users
    BY <1>4
  <2>2. Held("send", [todo |-> batch]) = batch
    BY DEF Held
  <2>3. pc'[w] = "send" /\ job'[w] = [todo |-> batch]
    BY <1>9 DEF IInv, AtWork, Goto
  <2>4. JobFits(w, pc[w], job[w])'
    BY <1>1, <2>1, <2>3, JobsAre DEF JobFits, Todos
  <2>5. \A v \in Workers : \A u \in InHand(v) :
          u \notin batch /\ recipients'[u].status = "processing"
    BY <1>4, <1>5, InHandAre
  <2>. QED BY <1>4, <1>6, <1>7, <1>9, <2>2, <2>4, <2>5, StepsAre, GotoKeepsIInv
<1>. QED BY <1>2, <1>8, <1>9

\* A success was preceded by an e-mail.
LEMMA SendKeepsIInv ==
  ASSUME IInv, NEW w \in Actors, Send(w)
  PROVE  IInv'
<1>1. w \in Workers /\ job[w] \in Todos
  BY JobAt, JobsAre DEF Send, JobFits, Dispatching
<1>2. PICK u \in job[w].todo, out \in BOOLEAN, ok \in BOOLEAN :
        /\ ok => out
        /\ emails' = [emails EXCEPT ![u] = IF out THEN @ + 1 ELSE @]
        /\ Goto(w, "mark", [todo |-> job[w].todo \ {u}, user |-> u, ok |-> ok])
  BY DEF Send
<1>. DEFINE rest == job[w].todo \ {u}
            j == [todo |-> rest, user |-> u, ok |-> ok]
<1>3. u \in Users /\ rest \in SUBSET Users
  BY <1>1 DEF Todos
<1>4. UNCHANGED <<status, schedule, recipients, crashes>>
  BY DEF Send
<1>5. \A v \in Users : emails[v] \in Nat /\ emails'[v] \in Nat /\ emails'[v] >= emails[v]
  BY <1>2 DEF IInv, Tables
<1>6. emails' \in [Users -> Nat]
  BY <1>2, <1>5 DEF IInv, Tables
<1>7. EmailsStay /\ (ok => emails'[u] > 0)
  BY <1>2, <1>3, <1>5 DEF EmailsStay, IInv, Tables
<1>8. Tables'
  BY <1>4, <1>6, <1>7 DEF IInv, Tables, RowsTellTheTruth, EmailsStay
<1>9. InHand(w) = job[w].todo
  BY DEF InHand, Send
<1>10. Held("mark", j) = InHand(w)
  BY <1>9 DEF Held
<1>11. pc'[w] = "mark" /\ job'[w] = j
  BY <1>2 DEF IInv, AtWork, Goto
<1>12. JobFits(w, pc[w], job[w])'
  BY <1>1, <1>3, <1>7, <1>11, JobsAre DEF JobFits
<1>13. /\ \A v \in Workers : \A x \in InHand(v) : recipients'[x].status = "processing"
       /\ \A v \in Workers \ {w} : InHand(w) \cap InHand(v) = {}
  BY <1>1, <1>4 DEF IInv, AtWork, ClaimedByOne
<1>. QED BY <1>1, <1>2, <1>7, <1>8, <1>10, <1>12, <1>13, StepsAre, GotoKeepsIInv

\* The result goes to a row that nobody else has in hand.
LEMMA MarkKeepsIInv ==
  ASSUME IInv, NEW w \in Actors, Mark(w)
  PROVE  IInv'
<1>. DEFINE j == job[w]
            u == j.user
            k == [todo |-> j.todo]
<1>1. /\ w \in Workers /\ j.todo \in SUBSET Users /\ u \in Users
      /\ u \notin j.todo /\ (j.ok => emails[u] > 0)
  <2>1. pc[w] = "mark" /\ job[w] \in Jobs["mark"] /\ JobFits(w, "mark", job[w])
    BY JobAt DEF Mark
  <2>2. job[w] \in [todo: SUBSET Users, user: Users, ok: BOOLEAN]
    BY <2>1, JobsAre
  <2>. QED BY <2>1, <2>2 DEF JobFits, Dispatching
<1>2. InHand(w) = j.todo \cup {u}
  BY DEF InHand, Mark
<1>3. /\ recipients[u].status = "processing" /\ recipients[u] \in Rows
      /\ recipients[u].attempts \in 0..MaxAttempts /\ recipients[u].attempts # MaxAttempts
  <2>1. recipients[u].status = "processing"
    BY <1>1, <1>2, InHandAre
  <2>2. recipients[u] # NoRow /\ recipients[u] \in Rows
    BY <1>1, <2>1 DEF IInv, Tables, NoRow
  <2>. QED BY <1>1, <2>1, <2>2 DEF IInv, Tables, RowsTellTheTruth, Rows
<1>4. PICK row : /\ recipients' = [recipients EXCEPT ![u] = row]
                 /\ row \in Rows
                 /\ row.status = "sent" => emails[u] > 0
                 /\ row.status = "failed" <=> row.attempts = MaxAttempts
  <2>1. CASE j.ok /\ recipients' = [recipients EXCEPT ![u].status = "sent"]
    <3>. DEFINE x == [recipients[u] EXCEPT !.status = "sent"]
    <3>1. x \in Rows /\ x.status = "sent" /\ x.attempts = recipients[u].attempts
      BY <1>3 DEF Rows
    <3>2. recipients' = [recipients EXCEPT ![u] = x]
      BY <2>1
    <3>3. emails[u] > 0
      BY <1>1, <2>1
    <3>. HIDE DEF x, u
    <3>4. x.status = "failed" <=> x.attempts = MaxAttempts
      BY <1>3, <3>1
    <3>. WITNESS x
    <3>. QED BY <3>1, <3>2, <3>3, <3>4
  <2>2. CASE recipients' = [recipients EXCEPT ![u] = Failed(recipients[u])]
    <3>. DEFINE n == recipients[u].attempts
                x == Failed(recipients[u])
    <3>1. MaxAttempts \in Nat /\ n \in Nat /\ n + 1 \in 0..MaxAttempts
      BY <1>3, AnnouncementsAssumption
    <3>2. /\ x.status = IF n + 1 = MaxAttempts THEN "failed" ELSE "pending"
          /\ x.attempts = n + 1 /\ x \in Rows
      BY <3>1 DEF Failed, Rows
    <3>. HIDE DEF x, n, u
    <3>3. x.status # "sent" /\ (x.status = "failed" <=> x.attempts = MaxAttempts)
      BY <3>2
    <3>4. recipients' = [recipients EXCEPT ![u] = x]
      BY <2>2 DEF x
    <3>. WITNESS x
    <3>. QED BY <3>2, <3>3, <3>4
  <2>. QED BY <2>1, <2>2 DEF Mark
<1>5. UNCHANGED <<status, schedule, emails>> /\ crashes' \in 0..MaxCrashes /\ Goto(w, "send", k)
  <2>1. crashes \in 0..MaxCrashes /\ MaxCrashes \in Nat
    BY AnnouncementsAssumption, StatusAndCrashes
  <2>. QED BY <2>1 DEF Mark
<1>. HIDE DEF u
<1>6. \A x \in Users : recipients'[x] = IF x = u THEN row ELSE recipients[x]
  BY <1>1, <1>4 DEF IInv, Tables
<1>7. Tables'
  <2>1. recipients' \in [Users -> Rows \cup {NoRow}]
    BY <1>1, <1>4 DEF IInv, Tables
  <2>2. RowsTellTheTruth'
    BY <1>4, <1>5, <1>6 DEF IInv, Tables, RowsTellTheTruth
  <2>. QED BY <1>5, <2>1, <2>2 DEF IInv, Tables
<1>8. EmailsStay
  BY <1>5 DEF EmailsStay
<1>9. Held("send", k) = j.todo
  BY DEF Held
<1>10. pc'[w] = "send" /\ job'[w] = k
  BY <1>5 DEF IInv, AtWork, Goto
<1>11. JobFits(w, pc[w], job[w])'
  BY <1>1, <1>10, JobsAre DEF JobFits, Todos
<1>12. /\ \A x \in j.todo : recipients'[x].status = "processing"
       /\ \A v \in Workers \ {w} : \A x \in InHand(v) : recipients'[x].status = "processing"
       /\ \A v \in Workers \ {w} : j.todo \cap InHand(v) = {}
  <2>1. \A v \in Workers \ {w} : InHand(w) \cap InHand(v) = {}
    BY <1>1 DEF IInv, AtWork, ClaimedByOne
  <2>2. \A x \in j.todo : x \in InHand(w) /\ x \in Users /\ x # u
    BY <1>1, <1>2
  <2>3. \A v \in Workers \ {w} : \A x \in InHand(v) : x \in Users /\ x # u
    BY <1>2, <2>1, InHandAre
  <2>4. \A x \in j.todo : recipients'[x].status = "processing"
    BY <1>1, <1>6, <2>2, InHandAre
  <2>5. \A v \in Workers \ {w} : \A x \in InHand(v) : recipients'[x].status = "processing"
    BY <1>6, <2>3, InHandAre
  <2>. QED BY <1>2, <2>1, <2>4, <2>5
<1>. QED BY <1>5, <1>7, <1>8, <1>9, <1>11, <1>12, StepsAre, GotoKeepsIInv

LEMMA RetryComesDueKeepsIInv ==
  ASSUME IInv, NEW u \in Users, RetryComesDue(u)
  PROVE  IInv'
<1>. DEFINE row == [recipients[u] EXCEPT !.due = TRUE]
<1>1. /\ recipients[u].status = "pending" /\ recipients' = [recipients EXCEPT ![u] = row]
      /\ UNCHANGED <<status, schedule, emails, crashes, pc, job>>
  BY DEF RetryComesDue
<1>2. recipients[u] \in Rows /\ recipients[u] # NoRow
  BY <1>1 DEF IInv, Tables, NoRow
<1>3. row \in Rows /\ row.status = "pending" /\ row.attempts = recipients[u].attempts
  BY <1>1, <1>2 DEF Rows
<1>. HIDE DEF row
<1>4. \A x \in Users : recipients'[x] = IF x = u THEN row ELSE recipients[x]
  BY <1>1 DEF IInv, Tables
<1>5. RowsTellTheTruth'
  BY <1>1, <1>2, <1>3, <1>4 DEF IInv, Tables, RowsTellTheTruth
<1>6. Tables' /\ EmailsStay /\ ClaimsStay
  BY <1>1, <1>3, <1>4, <1>5 DEF IInv, Tables, EmailsStay, ClaimsStay
<1>. QED BY <1>1, <1>6, StillKeepsIInv

\* The reads that close an announcement.
LEMMA FinalizeKeepsIInv ==
  ASSUME IInv, NEW w \in Actors, BatchDone(w) \/ Remaining(w) \/ CountResults(w) \/ Close(w)
  PROVE  IInv'
<1>1. w \in Workers
  BY JobAt DEF BatchDone, Remaining, CountResults, Close, JobFits, Dispatching
<1>2. status' \in Statuses /\ UNCHANGED <<schedule, recipients, emails, crashes>>
  BY StatusAndCrashes DEF BatchDone, Remaining, CountResults, Close, Statuses
<1>3. \/ Goto(w, "remaining", NoJob) \/ Goto(w, "count", NoJob)
      \/ Goto(w, "close", [failed |-> With({"failed"}) # {}])
      \/ Return(w)
  BY DEF BatchDone, Remaining, CountResults, Close
<1>4. [failed |-> With({"failed"}) # {}] \in Jobs["close"]
  BY JobsAre
<1>5. CASE Return(w)
  BY <1>2, <1>5, StatusAndCrashes, ReturningKeepsIInv
<1>6. CASE Goto(w, "close", [failed |-> With({"failed"}) # {}])
  BY <1>1, <1>2, <1>4, <1>6, StatusAndCrashes, StepsAre, ReadingKeepsIInv
<1>7. CASE Goto(w, "remaining", NoJob) \/ Goto(w, "count", NoJob)
  BY <1>1, <1>2, <1>7, StatusAndCrashes, JobsAre, StepsAre, ReadingKeepsIInv
<1>. QED BY <1>3, <1>5, <1>6, <1>7

\* Whoever dies lets go of its batch; the rows stay claimed.
LEMMA DiesKeepsIInv ==
  ASSUME IInv, NEW a \in Actors, Dies(a)
  PROVE  IInv'
<1>1. crashes' \in 0..MaxCrashes
  BY StatusAndCrashes, AnnouncementsAssumption DEF Dies
<1>. QED BY <1>1, StatusAndCrashes, ReturningKeepsIInv DEF Dies

-----------------------------------------------------------------------------
(* The theorems                                                            *)

LEMMA NextKeepsIInv == IInv /\ [Next]_vars => IInv'
<1>. SUFFICES ASSUME IInv, [Next]_vars PROVE IInv'
  OBVIOUS
<1>1. ASSUME NEW a \in Actors, Step(a) PROVE IInv'
  BY <1>1, PublishKeepsIInv, FanOutKeepsIInv, PublishedKeepsIInv, WithdrawKeepsIInv,
     CancelledKeepsIInv, ClaimBatchKeepsIInv, SendKeepsIInv, MarkKeepsIInv, FinalizeKeepsIInv
     DEF Step
<1>2. CASE UNCHANGED vars
  <2>1. Tables' /\ EmailsStay /\ ClaimsStay
    BY <1>2, QuietTables DEF vars, IInv, Tables
  <2>. QED BY <1>2, <2>1, StillKeepsIInv DEF vars
<1>. QED BY <1>1, <1>2, DueComesKeepsIInv, CreateKeepsIInv, CancelKeepsIInv, TickKeepsIInv,
       DiesKeepsIInv, RetryComesDueKeepsIInv DEF Next

LEMMA Invariant == Spec => []IInv
BY InitInvariant, NextKeepsIInv, PTL DEF Spec

\* The announcement, its rows and what processes and requests have read have the
\* shape they should, and no row is tried more often than allowed.
THEOREM TypeCorrect == Spec => []TypeOK
BY Invariant, InvariantImpliesType, PTL

\* However many processes claim, e-mail, retry and die, and whatever is published
\* or cancelled meanwhile, no two have the same recipient in hand, and the rows
\* tell the truth about who was e-mailed and who was given up.
THEOREM RecipientsTracked == Spec => []RecipientsAreTracked
<1>1. IInv => RecipientsAreTracked
  BY DEF IInv, Tables, AtWork, RecipientsAreTracked
<1>. QED BY <1>1, Invariant, PTL

\* A recipient who was e-mailed is in nobody's hands, and a row that is there is
\* not queued again.
LEMMA SentStays ==
  ASSUME IInv, [Next]_vars, NEW u \in Users, recipients[u].status = "sent"
  PROVE  recipients'[u] = recipients[u] /\ emails'[u] = emails[u]
<1>1. recipients[u] # NoRow /\ \A w \in Workers : u \notin InHand(w)
  BY InHandAre DEF NoRow
<1>2. ASSUME NEW a \in Actors, Step(a)
      PROVE  recipients'[u] = recipients[u] /\ emails'[u] = emails[u]
  <2>1. CASE FanOut(a)
    BY <1>1, <2>1 DEF FanOut, Queue
  <2>2. CASE Withdraw(a)
    BY <2>2 DEF Withdraw
  <2>3. CASE ClaimBatch(a)
    <3>1. u \notin Claimable
      BY DEF Claimable, With
    <3>. QED BY <2>3, <3>1 DEF ClaimBatch
  <2>4. CASE Send(a)
    <3>1. a \in Workers /\ InHand(a) = job[a].todo
      BY <2>4, JobAt DEF Send, JobFits, Dispatching, InHand
    <3>2. u \notin job[a].todo
      BY <1>1, <3>1
    <3>. QED BY <2>4, <3>2 DEF Send, IInv, Tables
  <2>5. CASE Mark(a)
    <3>1. a \in Workers /\ InHand(a) = job[a].todo \cup {job[a].user}
      BY <2>5, JobAt DEF Mark, JobFits, Dispatching, InHand
    <3>2. u # job[a].user
      BY <1>1, <3>1
    <3>. QED BY <2>5, <3>2 DEF Mark, IInv, Tables
  <2>6. CASE Publish(a) \/ Published(a) \/ Cancelled(a) \/ BatchDone(a) \/ Remaining(a)
             \/ CountResults(a) \/ Close(a)
    BY <2>6 DEF Publish, Published, Cancelled, BatchDone, Remaining, CountResults, Close
  <2>. QED BY <1>2, <2>1, <2>2, <2>3, <2>4, <2>5, <2>6 DEF Step
<1>3. ASSUME NEW x \in Users, RetryComesDue(x)
      PROVE  recipients'[u] = recipients[u] /\ emails'[u] = emails[u]
  BY <1>3 DEF RetryComesDue, IInv, Tables
<1>4. CASE DueComes \/ (\E r \in Requests : Create(r) \/ Cancel(r)) \/ (\E w \in Workers : Tick(w))
           \/ (\E a \in Actors : Dies(a)) \/ UNCHANGED vars
  BY <1>4 DEF DueComes, Create, Cancel, Tick, Dies, vars
<1>. QED BY <1>2, <1>3, <1>4 DEF Next

\* Whoever got the announcement does not get it again, in whatever order two
\* processes publish, claim and retry, staff cancel, and processes die.
THEOREM SentForGood == Spec => SentOnceAndForAll
<1>1. IInv /\ [Next]_vars =>
        [\A u \in Users : recipients[u].status = "sent" =>
           recipients'[u] = recipients[u] /\ emails'[u] = emails[u]]_vars
  BY SentStays
<1>. QED BY <1>1, Invariant, PTL DEF Spec, SentOnceAndForAll

-----------------------------------------------------------------------------
(* The outbox                                                              *)

\* What is known of a recipient, in the words of the outbox.
LEMMA RowsAre ==
  ASSUME IInv, NEW u \in Users
  PROVE  /\ State[u] = recipients[u].status
         /\ recipients[u].status = "none" <=> recipients[u] = NoRow
         /\ Tries[u] = IF recipients[u] = NoRow THEN 0 ELSE recipients[u].attempts
         /\ recipients[u] # NoRow => recipients[u] \in Rows
<1>1. recipients[u] \in Rows \cup {NoRow} /\ NoRow.status = "none"
  BY DEF IInv, Tables, NoRow
<1>. QED BY <1>1 DEF State, Tries, Rows

\* Whoever goes on holds what its next step holds, ...
LEMMA HandsFollow ==
  ASSUME IInv, NEW w \in Workers, NEW s, NEW j, Goto(w, s, j)
  PROVE  /\ Hands' = [Hands EXCEPT ![w] = Held(s, j)]
         /\ s = "mark" => Outcomes' = [Outcomes EXCEPT ![w] = [user |-> j.user, ok |-> j.ok]]
         /\ s # "mark" => Outcomes' = [Outcomes EXCEPT ![w] = Promise!Nothing]
<1>1. w \in Actors
  BY DEF Actors
<1>2. pc'[w] = s /\ job'[w] = j
      /\ \A v \in Workers \ {w} : pc'[v] = pc[v] /\ job'[v] = job[v]
  BY <1>1 DEF IInv, AtWork, Goto, Actors
<1>3. InHand(w)' = Held(s, j) /\ \A v \in Workers \ {w} : InHand(v)' = InHand(v)
  BY <1>2 DEF InHand, Held
<1>. QED BY <1>2, <1>3 DEF Hands, Outcomes, Promise!Nothing

\* ... and a request holds nobody.
LEMMA RequestsHoldNobody ==
  ASSUME IInv, NEW a \in Actors \ Workers, NEW s, NEW j, Goto(a, s, j)
  PROVE  UNCHANGED <<Hands, Outcomes>>
<1>1. \A v \in Workers : pc'[v] = pc[v] /\ job'[v] = job[v]
  BY DEF Goto, IInv, AtWork, Actors
<1>2. \A v \in Workers : InHand(v)' = InHand(v)
  BY <1>1 DEF InHand
<1>. QED BY <1>1, <1>2 DEF Hands, Outcomes

LEMMA HandsAre ==
  ASSUME NEW w \in Workers
  PROVE  /\ Hands[w] = InHand(w)
         /\ pc[w] = "mark" => Outcomes[w] = [user |-> job[w].user, ok |-> job[w].ok]
         /\ pc[w] # "mark" => Outcomes[w] = Promise!Nothing
BY DEF Hands, Outcomes, Promise!Nothing

LEMMA RecipientsStay ==
  ASSUME UNCHANGED recipients
  PROVE  UNCHANGED <<State, Tries>>
BY DEF State, Tries

\* A step of somebody with nobody in hand, that goes on with nobody, is none of
\* the outbox.
LEMMA NobodyIsTouched ==
  ASSUME IInv, UNCHANGED <<recipients, emails, crashes>>,
         NEW a \in Actors, NEW s, NEW j, Goto(a, s, j),
         Held(pc[a], job[a]) = {}, pc[a] # "mark", Held(s, j) = {}, s # "mark"
  PROVE  UNCHANGED Promise!outbox
<1>1. UNCHANGED <<Hands, Outcomes>>
  <2>1. CASE a \in Workers
    <3>1. Hands[a] = {} /\ Outcomes[a] = Promise!Nothing
      BY <2>1, HandsAre, InHandIsHeld
    <3>2. /\ Hands' = [Hands EXCEPT ![a] = {}]
          /\ Outcomes' = [Outcomes EXCEPT ![a] = Promise!Nothing]
      BY <2>1, HandsFollow
    <3>3. Hands = [w \in Workers |-> Hands[w]] /\ Outcomes = [w \in Workers |-> Outcomes[w]]
      BY DEF Hands, Outcomes
    <3>. QED BY <3>1, <3>2, <3>3
  <2>2. CASE a \notin Workers
    BY <2>2, RequestsHoldNobody
  <2>. QED BY <2>1, <2>2
<1>. QED BY <1>1, RecipientsStay DEF Promise!outbox

\* Who is queued had no row.
LEMMA FanOutsQueue ==
  ASSUME IInv, NEW a \in Actors, FanOut(a)
  PROVE  \E S \in SUBSET Users : Promise!Queue(S)
<1>1. PICK chunk \in SUBSET job[a].todo :
        Queue(chunk) /\ Goto(a, "fanout", [todo |-> job[a].todo \ chunk])
  BY DEF FanOut
<1>2. /\ UNCHANGED <<emails, crashes>> /\ pc[a] = "fanout"
  BY DEF FanOut
<1>. DEFINE S == {u \in Users : u \in chunk /\ recipients[u] = NoRow}
            new == [status |-> "pending", attempts |-> 0, due |-> TRUE]
<1>3. \A u \in Users : recipients'[u] = IF u \in S THEN new ELSE recipients[u]
  BY <1>1 DEF Queue
<1>4. new.status = "pending" /\ new.attempts = 0 /\ new # NoRow
  BY DEF NoRow
<1>. HIDE DEF S, new
<1>5. S \in SUBSET Users /\ \A u \in S : recipients[u] = NoRow
  BY DEF S
<1>6. S \subseteq Promise!In("none")
  BY <1>5, RowsAre DEF Promise!In
<1>7. State' = [u \in Users |-> IF u \in S THEN "pending" ELSE State[u]]
  BY <1>3, <1>4 DEF State
<1>8. Tries' = Tries
  BY <1>3, <1>4, <1>5 DEF Tries
<1>9. UNCHANGED <<Hands, Outcomes>>
  <2>1. \A w \in Workers : InHand(w)' = InHand(w) /\ (pc'[w] = "mark" <=> pc[w] = "mark")
                           /\ (pc[w] = "mark" => job'[w] = job[w])
    BY <1>1, <1>2 DEF Goto, InHand, IInv, AtWork, Actors
  <2>. QED BY <2>1 DEF Hands, Outcomes
<1>10. Promise!Queue(S)
  BY <1>2, <1>6, <1>7, <1>8, <1>9 DEF Promise!Queue
<1>. QED BY <1>5, <1>10

LEMMA WithdrawalsWithdraw ==
  ASSUME IInv, NEW a \in Actors, Withdraw(a)
  PROVE  Promise!Withdraw
<1>1. /\ \A u \in Users : recipients'[u] = IF recipients[u].status = "pending"
                                             THEN NoRow ELSE recipients[u]
      /\ UNCHANGED <<emails, crashes>> /\ pc[a] = "withdraw" /\ Goto(a, "cancel", NoJob)
  BY DEF Withdraw
<1>2. \A u \in Users : u \in Promise!In("pending") <=> recipients[u].status = "pending"
  BY RowsAre DEF Promise!In
<1>3. NoRow.status = "none"
  BY DEF NoRow
<1>4. State' = [u \in Users |-> IF u \in Promise!In("pending") THEN "none" ELSE State[u]]
  BY <1>1, <1>2, <1>3 DEF State
<1>5. Tries' = [u \in Users |-> IF u \in Promise!In("pending") THEN 0 ELSE Tries[u]]
  BY <1>1, <1>2 DEF Tries
<1>6. UNCHANGED <<Hands, Outcomes>>
  <2>1. \A w \in Workers : InHand(w)' = InHand(w) /\ (pc'[w] = "mark" <=> pc[w] = "mark")
                           /\ (pc[w] = "mark" => job'[w] = job[w])
    BY <1>1 DEF Goto, InHand, IInv, AtWork, Actors
  <2>. QED BY <2>1 DEF Hands, Outcomes
<1>. QED BY <1>1, <1>4, <1>5, <1>6 DEF Promise!Withdraw

\* Who is claimed waited for it.
LEMMA ClaimsTake ==
  ASSUME IInv, NEW w \in Actors, ClaimBatch(w)
  PROVE  w \in Workers /\ \E S \in SUBSET Users : Promise!Take(w, S)
<1>1. w \in Workers /\ pc[w] = "claim"
  BY JobAt DEF ClaimBatch, JobFits, Dispatching
<1>2. PICK batch \in SUBSET Claimable :
        /\ recipients' = [u \in Users |->
             IF u \in batch THEN [recipients[u] EXCEPT !.status = "processing"] ELSE recipients[u]]
        /\ IF batch = {} THEN Return(w) ELSE Goto(w, "send", [todo |-> batch])
  BY DEF ClaimBatch
<1>3. UNCHANGED <<emails, crashes>>
  BY DEF ClaimBatch
<1>4. ASSUME NEW u \in batch
      PROVE  /\ u \in Users /\ recipients[u].status = "pending" /\ u \in Promise!In("pending")
             /\ recipients'[u].status = "processing"
             /\ recipients[u] # NoRow /\ recipients'[u] # NoRow
             /\ recipients'[u].attempts = recipients[u].attempts
  <2>1. u \in Users /\ recipients[u].status = "pending"
    BY DEF Claimable, With
  <2>2. recipients[u] \in Rows /\ recipients[u] # NoRow
    BY <2>1, RowsAre
  <2>3. recipients'[u] = [recipients[u] EXCEPT !.status = "processing"]
    BY <1>2, <2>1
  <2>. QED BY <2>1, <2>2, <2>3, RowsAre DEF Rows, Promise!In, NoRow
<1>5. \A u \in Users \ batch : recipients'[u] = recipients[u]
  BY <1>2
<1>6. batch \in SUBSET Users /\ batch \subseteq Promise!In("pending")
  BY <1>4
<1>7. State' = [u \in Users |-> IF u \in batch THEN "processing" ELSE State[u]]
  BY <1>4, <1>5 DEF State
<1>8. Tries' = Tries
  BY <1>4, <1>5 DEF Tries
<1>9. Hands[w] = {} /\ Outcomes[w] = Promise!Nothing
  BY <1>1, HandsAre, InHandIsHeld DEF Held
<1>10. /\ Hands' = [Hands EXCEPT ![w] = batch]
       /\ Outcomes' = [Outcomes EXCEPT ![w] = Promise!Nothing]
  <2>1. CASE batch = {}
    BY <1>1, <1>2, <2>1, HandsFollow DEF Return, Held
  <2>2. CASE batch # {}
    <3>1. Held("send", [todo |-> batch]) = batch
      BY DEF Held
    <3>. QED BY <1>1, <1>2, <2>2, <3>1, HandsFollow
  <2>. QED BY <2>1, <2>2
<1>11. Outcomes' = Outcomes
  BY <1>9, <1>10 DEF Outcomes
<1>12. Promise!Take(w, batch)
  BY <1>3, <1>6, <1>7, <1>8, <1>9, <1>10, <1>11 DEF Promise!Take
<1>. QED BY <1>1, <1>6, <1>12

\* Only who is in hand is e-mailed.
LEMMA SendsMail ==
  ASSUME IInv, NEW w \in Actors, Send(w)
  PROVE  w \in Workers /\ \E u \in Users : Promise!Mail(w, u)
<1>1. w \in Workers /\ job[w] \in Todos /\ pc[w] = "send"
  BY JobAt, JobsAre DEF Send, JobFits, Dispatching
<1>2. PICK u \in job[w].todo, out \in BOOLEAN, ok \in BOOLEAN :
        /\ ok => out
        /\ emails' = [emails EXCEPT ![u] = IF out THEN @ + 1 ELSE @]
        /\ Goto(w, "mark", [todo |-> job[w].todo \ {u}, user |-> u, ok |-> ok])
  BY DEF Send
<1>. DEFINE j == [todo |-> job[w].todo \ {u}, user |-> u, ok |-> ok]
<1>3. UNCHANGED <<recipients, crashes>>
  BY DEF Send
<1>4. Hands[w] = job[w].todo /\ Outcomes[w] = Promise!Nothing
  BY <1>1, HandsAre, InHandIsHeld DEF Held
<1>5. u \in Users /\ State[u] = "processing"
  <2>1. u \in InHand(w)
    BY <1>1, InHandIsHeld DEF Held
  <2>. QED BY <1>1, <2>1, InHandAre, RowsAre
<1>6. Held("mark", j) = Hands[w] /\ j.user = u /\ j.ok = ok
  BY <1>4 DEF Held
<1>. HIDE DEF j
<1>7. Goto(w, "mark", j)
  BY <1>2 DEF j
<1>8. /\ Hands' = [Hands EXCEPT ![w] = Held("mark", j)]
      /\ Outcomes' = [Outcomes EXCEPT ![w] = [user |-> j.user, ok |-> j.ok]]
  BY <1>1, <1>7, HandsFollow
<1>9. Hands' = Hands
  BY <1>6, <1>8 DEF Hands
<1>10. UNCHANGED <<State, Tries>>
  BY <1>3, RecipientsStay
<1>11. Promise!Mail(w, u)
  BY <1>2, <1>3, <1>4, <1>5, <1>6, <1>8, <1>9, <1>10 DEF Promise!Mail
<1>. QED BY <1>1, <1>5, <1>11

\* A result is recorded once, of who was e-mailed last; a success is recorded
\* as a failure only if the write of it failed.
LEMMA MarksAreDone ==
  ASSUME IInv, NEW w \in Actors, Mark(w)
  PROVE  w \in Workers /\ \E u \in Users : Promise!Sent(w, u) \/ Promise!Missed(w, u)
<1>. DEFINE j == job[w]
            u == j.user
            k == [todo |-> j.todo]
<1>1. /\ w \in Workers /\ j.todo \in SUBSET Users /\ u \in Users /\ j.ok \in BOOLEAN
      /\ u \notin j.todo /\ pc[w] = "mark"
  <2>1. pc[w] = "mark" /\ job[w] \in Jobs["mark"] /\ JobFits(w, "mark", job[w])
    BY JobAt DEF Mark
  <2>2. job[w] \in [todo: SUBSET Users, user: Users, ok: BOOLEAN]
    BY <2>1, JobsAre
  <2>. QED BY <2>1, <2>2 DEF JobFits, Dispatching
<1>2. Hands[w] = j.todo \cup {u} /\ Outcomes[w] = [user |-> u, ok |-> j.ok]
  BY <1>1, HandsAre, InHandIsHeld DEF Held
<1>3. Outcomes[w] # Promise!Nothing /\ Outcomes[w].user = u /\ Outcomes[w].ok = j.ok
  <2>1. DOMAIN Promise!Nothing = {"user"} /\ DOMAIN Outcomes[w] = {"user", "ok"}
    BY <1>2 DEF Promise!Nothing
  <2>. QED BY <1>2, <2>1
<1>4. State[u] = "processing" /\ recipients[u] \in Rows /\ recipients[u] # NoRow
      /\ recipients[u].status = "processing"
  BY <1>1, <1>2, HandsAre, InHandAre, RowsAre DEF NoRow
<1>5. /\ recipients[u].attempts \in 0..MaxAttempts /\ recipients[u].attempts # MaxAttempts
      /\ Tries[u] = recipients[u].attempts
  BY <1>1, <1>4, RowsAre DEF IInv, Tables, RowsTellTheTruth, Rows
<1>6. Goto(w, "send", k) /\ UNCHANGED emails
  BY DEF Mark
<1>. HIDE DEF u
<1>7. Promise!Done(w, u)
  <2>1. Held("send", k) = Hands[w] \ {u}
    BY <1>1, <1>2 DEF Held
  <2>2. /\ Hands' = [Hands EXCEPT ![w] = Hands[w] \ {u}]
        /\ Outcomes' = [Outcomes EXCEPT ![w] = Promise!Nothing]
    BY <1>1, <1>6, <2>1, HandsFollow
  <2>. QED BY <1>2, <1>3, <1>4, <1>6, <2>2 DEF Promise!Done
<1>8. ASSUME NEW row, recipients' = [recipients EXCEPT ![u] = row], row # NoRow
      PROVE  /\ State' = [State EXCEPT ![u] = row.status]
             /\ Tries' = [Tries EXCEPT ![u] = row.attempts]
  <2>1. \A x \in Users : recipients'[x] = IF x = u THEN row ELSE recipients[x]
    BY <1>8 DEF IInv, Tables
  <2>2. State' = [x \in Users |-> IF x = u THEN row.status ELSE State[x]]
    BY <2>1 DEF State
  <2>3. Tries' = [x \in Users |-> IF x = u THEN row.attempts ELSE Tries[x]]
    BY <1>8, <2>1 DEF Tries
  <2>4. DOMAIN State = Users /\ DOMAIN Tries = Users
    BY DEF State, Tries
  <2>. QED BY <2>2, <2>3, <2>4
<1>9. CASE /\ j.ok /\ recipients' = [recipients EXCEPT ![u].status = "sent"]
           /\ UNCHANGED crashes
  <2>. DEFINE x == [recipients[u] EXCEPT !.status = "sent"]
  <2>1. x.status = "sent" /\ x.attempts = recipients[u].attempts /\ x # NoRow
    BY <1>4 DEF Rows, NoRow
  <2>2. recipients' = [recipients EXCEPT ![u] = x]
    BY <1>9
  <2>. HIDE DEF x
  <2>3. State' = [State EXCEPT ![u] = "sent"] /\ Tries' = [Tries EXCEPT ![u] = Tries[u]]
    BY <1>5, <1>8, <2>1, <2>2
  <2>4. Tries' = Tries
    BY <2>3 DEF Tries
  <2>5. Promise!Sent(w, u)
    BY <1>3, <1>7, <1>9, <2>3, <2>4 DEF Promise!Sent
  <2>. QED BY <1>1, <2>5
<1>10. CASE /\ recipients' = [recipients EXCEPT ![u] = Failed(recipients[u])]
            /\ crashes' = IF j.ok THEN crashes + 1 ELSE crashes
  <2>. DEFINE n == recipients[u].attempts
              x == Failed(recipients[u])
  <2>1. MaxAttempts \in Nat /\ n \in Nat /\ n + 1 \in 0..MaxAttempts /\ n < MaxAttempts
    BY <1>5, AnnouncementsAssumption
  <2>2. /\ x.status = IF n + 1 = MaxAttempts THEN "failed" ELSE "pending"
        /\ x.attempts = n + 1 /\ x # NoRow
    BY <2>1 DEF Failed, NoRow
  <2>3. recipients' = [recipients EXCEPT ![u] = x]
    BY <1>10
  <2>4. Tries[u] = n
    BY <1>5
  <2>. HIDE DEF x, n
  <2>5. /\ Tries' = [Tries EXCEPT ![u] = Tries[u] + 1]
        /\ State' = [State EXCEPT ![u] = x.status]
    BY <1>8, <2>2, <2>3, <2>4
  <2>6. Tries'[u] = n + 1
    BY <1>1, <2>4, <2>5 DEF Tries
  <2>7. State' = [State EXCEPT ![u] = IF Tries'[u] = MaxAttempts THEN "failed" ELSE "pending"]
    BY <2>2, <2>5, <2>6
  <2>8. Promise!Missed(w, u)
    BY <1>3, <1>7, <1>10, <2>1, <2>4, <2>5, <2>7 DEF Promise!Missed
  <2>. QED BY <1>1, <2>8
<1>. QED BY <1>1, <1>9, <1>10 DEF Mark, u

\* Who dies lets go, at the price of a failure.
LEMMA DeathsFail ==
  ASSUME IInv, NEW a \in Actors, Dies(a)
  PROVE  Promise!Fail
<1>1. Goto(a, "idle", NoJob) /\ crashes' = crashes + 1 /\ UNCHANGED <<recipients, emails>>
  BY DEF Dies, Return
<1>2. (\E w \in Workers : Promise!Drop(w)) \/ UNCHANGED <<Hands, Outcomes>>
  <2>1. CASE a \in Workers
    <3>1. /\ Hands' = [Hands EXCEPT ![a] = {}]
          /\ Outcomes' = [Outcomes EXCEPT ![a] = Promise!Nothing]
      BY <1>1, <2>1, HandsFollow DEF Held
    <3>. QED BY <2>1, <3>1 DEF Promise!Drop
  <2>2. CASE a \notin Workers
    BY <1>1, <2>2, RequestsHoldNobody
  <2>. QED BY <2>1, <2>2
<1>. QED BY <1>1, <1>2, RecipientsStay DEF Promise!Fail

\* Reading, publishing and closing touch nobody.
LEMMA TheRestTouchesNobody ==
  ASSUME IInv, NEW a \in Actors,
         \/ Publish(a) \/ Published(a) \/ Cancelled(a)
         \/ BatchDone(a) \/ Remaining(a) \/ CountResults(a) \/ Close(a)
         \/ (a \in Requests /\ (Create(a) \/ Cancel(a))) \/ (a \in Workers /\ Tick(a))
  PROVE  UNCHANGED Promise!outbox
<1>1. UNCHANGED <<recipients, emails, crashes>>
  BY DEF Publish, Published, Cancelled, BatchDone, Remaining, CountResults, Close, Create,
     Cancel, Tick
<1>2. Held(pc[a], job[a]) = {} /\ pc[a] # "mark"
  BY DEF Publish, Published, Cancelled, BatchDone, Remaining, CountResults, Close, Create,
     Cancel, Tick, Held
<1>3. \/ \E s \in {"publish", "claim", "idle", "withdraw", "remaining", "count"} :
           Goto(a, s, NoJob)
      \/ Goto(a, "fanout", [todo |-> Users])
      \/ Goto(a, "close", [failed |-> With({"failed"}) # {}])
      \/ UNCHANGED <<pc, job>>
  BY DEF Publish, Published, Cancelled, BatchDone, Remaining, CountResults, Close, Create,
     Cancel, Tick, Return
<1>4. ASSUME NEW s \in {"publish", "claim", "idle", "withdraw", "remaining", "count", "fanout",
                        "close"}, NEW j
      PROVE  Held(s, j) = {} /\ s # "mark"
  BY DEF Held
<1>5. CASE UNCHANGED <<pc, job>>
  <2>1. UNCHANGED <<Hands, Outcomes>>
    BY <1>5 DEF Hands, Outcomes, InHand
  <2>. QED BY <1>1, <2>1, RecipientsStay DEF Promise!outbox
<1>6. ASSUME NEW s \in {"publish", "claim", "idle", "withdraw", "remaining", "count", "fanout",
                        "close"}, NEW j, Goto(a, s, j)
      PROVE  UNCHANGED Promise!outbox
  BY <1>1, <1>2, <1>4, <1>6, NobodyIsTouched
<1>. QED BY <1>3, <1>5, <1>6

LEMMA StepIsOfOutbox ==
  ASSUME IInv, [Next]_vars
  PROVE  [Promise!Next]_(Promise!outbox)
<1>1. ASSUME NEW a \in Actors, Step(a) PROVE [Promise!Next]_(Promise!outbox)
  <2>1. CASE FanOut(a) \/ Withdraw(a)
    BY <2>1, FanOutsQueue, WithdrawalsWithdraw DEF Promise!Next
  <2>2. CASE ClaimBatch(a) \/ Send(a) \/ Mark(a)
    BY <2>2, ClaimsTake, SendsMail, MarksAreDone DEF Promise!Next
  <2>3. CASE \/ Publish(a) \/ Published(a) \/ Cancelled(a)
             \/ BatchDone(a) \/ Remaining(a) \/ CountResults(a) \/ Close(a)
    BY <2>3, TheRestTouchesNobody
  <2>. QED BY <1>1, <2>1, <2>2, <2>3 DEF Step
<1>2. ASSUME NEW a \in Actors, Dies(a) PROVE Promise!Next
  BY <1>2, DeathsFail DEF Promise!Next
<1>3. ASSUME NEW r \in Requests, Create(r) \/ Cancel(r) PROVE UNCHANGED Promise!outbox
  BY <1>3, TheRestTouchesNobody DEF Actors
<1>4. ASSUME NEW w \in Workers, Tick(w) PROVE UNCHANGED Promise!outbox
  BY <1>4, TheRestTouchesNobody DEF Actors
<1>5. ASSUME NEW u \in Users, RetryComesDue(u) PROVE UNCHANGED Promise!outbox
  <2>1. recipients[u] # NoRow /\ recipients[u] \in Rows
    BY <1>5, RowsAre DEF RetryComesDue, NoRow
  <2>2. \A x \in Users : /\ recipients'[x].status = recipients[x].status
                         /\ recipients'[x] = NoRow <=> recipients[x] = NoRow
                         /\ recipients[x] # NoRow =>
                              recipients'[x].attempts = recipients[x].attempts
    BY <1>5, <2>1 DEF RetryComesDue, IInv, Tables, Rows, NoRow
  <2>3. UNCHANGED <<State, Tries>>
    BY <2>2 DEF State, Tries
  <2>4. UNCHANGED <<Hands, Outcomes, emails, crashes>>
    BY <1>5 DEF RetryComesDue, Hands, Outcomes, InHand
  <2>. QED BY <2>3, <2>4 DEF Promise!outbox
<1>6. CASE DueComes \/ UNCHANGED vars
  <2>1. UNCHANGED <<recipients, emails, crashes, pc, job>>
    BY <1>6 DEF DueComes, vars
  <2>. QED BY <2>1, RecipientsStay DEF Promise!outbox, Hands, Outcomes, InHand
<1>. QED BY <1>1, <1>2, <1>3, <1>4, <1>5, <1>6 DEF Next

\* The dispatch implements the outbox: a recipient is queued once, taken by one
\* process at a time, e-mailed at most once while in hand, sent or given up for
\* good, and left unattended only by a failure.
THEOREM AnnouncementsImplementOutbox == Spec => RecipientsAreHandled
<1>1. Init => Promise!Init
  <2>. SUFFICES ASSUME Init PROVE Promise!Init
    OBVIOUS
  <2>1. State = [u \in Users |-> "none"] /\ Tries = [u \in Users |-> 0]
    BY DEF Init, State, Tries, NoRow
  <2>2. /\ Hands = [w \in Workers |-> {}]
        /\ Outcomes = [w \in Workers |-> Promise!Nothing]
    BY DEF Init, Hands, Outcomes, InHand, Promise!Nothing, Actors
  <2>. QED BY <2>1, <2>2 DEF Init, Promise!Init
<1>2. IInv /\ [Next]_vars => [Promise!Next]_(Promise!outbox)
  BY StepIsOfOutbox
<1>. QED BY <1>1, <1>2, Invariant, PTL DEF Spec, RecipientsAreHandled, Promise!Spec
=============================================================================
