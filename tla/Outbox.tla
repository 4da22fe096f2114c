------------------------------- MODULE Outbox -------------------------------
(***************************************************************************)
(* What e-mailing an announcement promises, without chunks, statements and *)
(* who runs when: a recipient waits, is taken by one process, is e-mailed  *)
(* at most once while it is in hand, and then is done for good or waits    *)
(* for its next attempt.  Only a failure leaves one unattended: what a     *)
(* process had in hand when it died nobody takes again.  Module            *)
(* Announcements implements it.                                            *)
(***************************************************************************)
EXTENDS Integers

CONSTANTS Users, Workers, MaxAttempts

VARIABLES
  state,   \* what is known of a user: "none", "pending", "processing", "sent", "failed"
  tries,   \* attempts that failed since the user was queued
  mailed,  \* e-mails a user was sent
  hands,   \* the users each process has taken and is not done with
  outcome, \* of the e-mail each process is at
  lost     \* how many processes and writes failed

outbox == <<state, tries, mailed, hands, outcome, lost>>

Nothing == [user |-> "none"]
In(s) == {u \in Users : state[u] = s}

Init ==
  /\ state = [u \in Users |-> "none"]
  /\ tries = [u \in Users |-> 0]
  /\ mailed = [u \in Users |-> 0]
  /\ hands = [w \in Workers |-> {}]
  /\ outcome = [w \in Workers |-> Nothing]
  /\ lost = 0

Queue(S) ==
  /\ S \subseteq In("none")
  /\ state' = [u \in Users |-> IF u \in S THEN "pending" ELSE state[u]]
  /\ UNCHANGED <<tries, mailed, hands, outcome, lost>>

\* only who waits can be withdrawn, and starts over when queued again
Withdraw ==
  /\ state' = [u \in Users |-> IF u \in In("pending") THEN "none" ELSE state[u]]
  /\ tries' = [u \in Users |-> IF u \in In("pending") THEN 0 ELSE tries[u]]
  /\ UNCHANGED <<mailed, hands, outcome, lost>>

Take(w, S) ==
  /\ hands[w] = {} /\ S \subseteq In("pending")
  /\ state' = [u \in Users |-> IF u \in S THEN "processing" ELSE state[u]]
  /\ hands' = [hands EXCEPT ![w] = S]
  /\ UNCHANGED <<tries, mailed, outcome, lost>>

\* an e-mail may go out although its sender is told that it did not
Mail(w, u) ==
  /\ u \in hands[w] /\ state[u] = "processing" /\ outcome[w] = Nothing
  /\ \E out \in BOOLEAN, ok \in BOOLEAN :
       /\ ok => out
       /\ mailed' = [mailed EXCEPT ![u] = IF out THEN @ + 1 ELSE @]
       /\ outcome' = [outcome EXCEPT ![w] = [user |-> u, ok |-> ok]]
  /\ UNCHANGED <<state, tries, hands, lost>>

Done(w, u) ==
  /\ outcome[w] # Nothing /\ outcome[w].user = u
  /\ u \in hands[w] /\ state[u] = "processing"
  /\ hands' = [hands EXCEPT ![w] = @ \ {u}]
  /\ outcome' = [outcome EXCEPT ![w] = Nothing]
  /\ UNCHANGED mailed
Sent(w, u) ==
  /\ Done(w, u) /\ outcome[w].ok
  /\ state' = [state EXCEPT ![u] = "sent"]
  /\ UNCHANGED <<tries, lost>>
Missed(w, u) ==
  /\ Done(w, u)
  /\ lost' = IF outcome[w].ok THEN lost + 1 ELSE lost
  /\ tries[u] < MaxAttempts
  /\ tries' = [tries EXCEPT ![u] = @ + 1]
  /\ state' = [state EXCEPT ![u] = IF tries'[u] = MaxAttempts THEN "failed" ELSE "pending"]

\* a process dies, and so may somebody who has no recipients
Drop(w) ==
  /\ hands' = [hands EXCEPT ![w] = {}]
  /\ outcome' = [outcome EXCEPT ![w] = Nothing]
Fail ==
  /\ lost' = lost + 1
  /\ (\E w \in Workers : Drop(w)) \/ UNCHANGED <<hands, outcome>>
  /\ UNCHANGED <<state, tries, mailed>>

Next ==
  \/ \E S \in SUBSET Users : Queue(S)
  \/ Withdraw
  \/ \E w \in Workers, S \in SUBSET Users : Take(w, S)
  \/ \E w \in Workers, u \in Users : Mail(w, u) \/ Sent(w, u) \/ Missed(w, u)
  \/ Fail

Spec == Init /\ [][Next]_outbox
=============================================================================
