------------------------------ MODULE Accounts ------------------------------
(***************************************************************************)
(* Accounts and the links mailed for them (src/src/auth/auth.service.ts):  *)
(* registration, verification of the address, setting a password by link,  *)
(* and sign-in by password, Google or the code of an order.  No operation  *)
(* but the last is a transaction: each statement takes effect alone, on    *)
(* what earlier ones read.  What is refused without a write is no step.    *)
(* A password is there or not, and a refresh token is what it says of the  *)
(* account and of the password then set (module Sessions has the rest).    *)
(***************************************************************************)
EXTENDS Naturals, FiniteSets

CONSTANTS
  Requests,  \* requests served at the same time; a served one is reused
  Emails,
  Subs,      \* Google accounts
  MaxLinks   \* bound: links that are stored or being mailed

VARIABLES
  users,     \* users, by their unique e-mail
  google,    \* user_auth_providers: the account a Google account signs in to
  links,     \* email_verification_tokens and password_setup_tokens
  sessions,  \* live refresh_tokens
  cut,       \* accounts with a request that died over a link or a revocation
  pc, job    \* where a request stands, and what it has read

vars == <<users, google, links, sessions, cut, pc, job>>

Ids == 1..MaxLinks
NoUser == [exists |-> FALSE]
Nobody == "nobody"

AccountsAssumption == MaxLinks \in Nat /\ Nobody \notin Emails

NoLink == [kind |-> "none"]
NoJob == [at |-> "none"]
Kinds == {"verify", "setup"}

UserRows == [exists: {TRUE}, password: BOOLEAN, verified: BOOLEAN,
          providers: SUBSET {"password", "google"}]
LinkRows == [kind: Kinds, email: Emails, mailed: BOOLEAN, expired: BOOLEAN]
\* what a request has read, by its step
About == [email: Emails]
ToSend == [email: Emails, kind: Kinds]
ToMail == [email: Emails, kind: Kinds, link: Ids]
ToSet == [email: Emails, user: UserRows]
ByGoogle == [email: Emails, sub: Subs]
ToLink == [email: Emails, sub: Subs, user: UserRows]
Jobs ==
  [idle |-> {NoJob}, register |-> About, verify |-> About, revoke |-> About, signin |-> About,
   replace |-> ToSend, create |-> ToSend, mail |-> ToMail, set |-> ToSet,
   google |-> ByGoogle, add |-> ByGoogle, link |-> ToLink]
Steps == DOMAIN Jobs

TypeOK ==
  /\ users \in [Emails -> UserRows \cup {NoUser}]
  /\ google \in [Subs -> Emails \cup {Nobody}]
  /\ links \in [Ids -> LinkRows \cup {NoLink}]
  /\ sessions \subseteq [email: Emails, old: BOOLEAN]
  /\ cut \subseteq Emails
  /\ pc \in [Requests -> Steps]
  /\ \A r \in Requests : job[r] \in Jobs[pc[r]]

Init ==
  /\ users = [e \in Emails |-> NoUser]
  /\ google = [s \in Subs |-> Nobody]
  /\ links = [i \in Ids |-> NoLink]
  /\ sessions = {} /\ cut = {}
  /\ pc = [r \in Requests |-> "idle"]
  /\ job = [r \in Requests |-> NoJob]

Goto(r, step, knows) ==
  /\ pc' = [pc EXCEPT ![r] = step]
  /\ job' = [job EXCEPT ![r] = knows]
Return(r) == Goto(r, "idle", NoJob)

LinksOf(kind, e) == {i \in Ids : links[i].kind = kind /\ links[i].email = e}
Without(ids) == [i \in Ids |-> IF i \in ids THEN NoLink ELSE links[i]]

-----------------------------------------------------------------------------
(* Registration and the links                                              *)

Register(r, e) ==
  /\ pc[r] = "idle"
  /\ \/ users[e] = NoUser /\ Goto(r, "register", [email |-> e])
     \/ /\ users[e] # NoUser /\ ~users[e].password
        /\ Goto(r, "replace", [email |-> e, kind |-> "setup"])
  /\ UNCHANGED <<users, google, links, sessions, cut>>

\* the e-mail is unique: the row of another registration makes this one fail
Registered(r) ==
  /\ pc[r] = "register"
  /\ LET e == job[r].email
     IN IF users[e] # NoUser THEN Return(r) /\ UNCHANGED users
        ELSE /\ users' = [users EXCEPT ![e] = [exists |-> TRUE, password |-> TRUE,
                            verified |-> FALSE, providers |-> {"password"}]]
             /\ Goto(r, "replace", [email |-> e, kind |-> "verify"])
  /\ UNCHANGED <<google, links, sessions, cut>>

Resend(r, e) ==
  /\ pc[r] = "idle" /\ users[e] # NoUser
  /\ ~users[e].verified
  /\ Goto(r, "replace", [email |-> e, kind |-> "verify"])
  /\ UNCHANGED <<users, google, links, sessions, cut>>

ForgetPassword(r, e) ==
  /\ pc[r] = "idle" /\ users[e] # NoUser
  /\ Goto(r, "replace", [email |-> e, kind |-> "setup"])
  /\ UNCHANGED <<users, google, links, sessions, cut>>

\* a new link is sent in three statements: the earlier ones are deleted, ...
DeleteLinks(r) ==
  /\ pc[r] = "replace"
  /\ links' = Without(LinksOf(job[r].kind, job[r].email))
  /\ Goto(r, "create", job[r])
  /\ UNCHANGED <<users, google, sessions, cut>>

\* ... it is stored ...
Fresh(i) == links[i] = NoLink /\ \A r \in Requests : pc[r] = "mail" => job[r].link # i

CreateLink(r) ==
  /\ pc[r] = "create"
  /\ \E i \in Ids :
       /\ Fresh(i) /\ \A k \in Ids : Fresh(k) => i <= k
       /\ links' = [links EXCEPT ![i] = [kind |-> job[r].kind, email |-> job[r].email,
                                         mailed |-> FALSE, expired |-> FALSE]]
       /\ Goto(r, "mail", [email |-> job[r].email, kind |-> job[r].kind, link |-> i])
  /\ UNCHANGED <<users, google, sessions, cut>>

\* (faulty MailLink: the other links are deleted here and not before)
DeleteLinksLast(r) ==
  /\ pc[r] = "mail"
  /\ LET j == job[r]
         left == Without(LinksOf(j.kind, j.email) \ {j.link})
     IN links' = IF left[j.link] = NoLink THEN left ELSE [left EXCEPT ![j.link].mailed = TRUE]
  /\ Return(r)
  /\ UNCHANGED <<users, google, sessions, cut>>

\* ... and mailed, whether or not another request has deleted it meanwhile
MailLink(r) ==
  /\ pc[r] = "mail"
  /\ LET i == job[r].link
     IN links' = IF links[i] = NoLink THEN links ELSE [links EXCEPT ![i].mailed = TRUE]
  /\ Return(r)
  /\ UNCHANGED <<users, google, sessions, cut>>

LinkExpires(i) ==
  /\ links[i] # NoLink /\ ~links[i].expired
  /\ links' = [links EXCEPT ![i].expired = TRUE]
  /\ UNCHANGED <<users, google, sessions, cut, pc, job>>

\* the link a request comes with was mailed, is stored and has not expired
Followed(kind, e) == \E i \in LinksOf(kind, e) : links[i].mailed /\ ~links[i].expired

-----------------------------------------------------------------------------
(* Verification, passwords and sign-in                                     *)

VerifyEmail(r, e) ==
  /\ pc[r] = "idle"
  /\ Followed("verify", e)
  /\ Goto(r, "verify", [email |-> e])
  /\ UNCHANGED <<users, google, links, sessions, cut>>

\* the row is written by its id, whatever became of the link
Verified(r) ==
  /\ pc[r] = "verify"
  /\ LET e == job[r].email
     IN /\ users' = [users EXCEPT ![e].verified = TRUE]
        /\ links' = Without(LinksOf("verify", e))
        /\ Goto(r, "signin", [email |-> e])
  /\ UNCHANGED <<google, sessions, cut>>

\* the account is read with the link, and the password takes time to hash
SetPassword(r, e) ==
  /\ pc[r] = "idle"
  /\ Followed("setup", e)
  /\ Goto(r, "set", [email |-> e, user |-> users[e]])
  /\ UNCHANGED <<users, google, links, sessions, cut>>

\* (faulty PasswordSet: the date of verification is written as it was read)
PasswordSetOnly(r) ==
  /\ pc[r] = "set"
  /\ LET e == job[r].email
         u == job[r].user
     IN /\ users' = [users EXCEPT ![e] = [exists |-> TRUE, password |-> TRUE,
             verified |-> u.verified, providers |-> u.providers \cup {"password"}]]
        /\ links' = Without(LinksOf("setup", e))
        /\ sessions' = {[s EXCEPT !.old = @ \/ s.email = e] : s \in sessions}
        /\ Goto(r, "revoke", [email |-> e])
  /\ UNCHANGED <<google, cut>>

\* who follows a link to set a password has the address, too; the sign-in
\* methods are those read with the link
PasswordSet(r) ==
  /\ pc[r] = "set"
  /\ LET e == job[r].email
     IN /\ users' = [users EXCEPT ![e] = [exists |-> TRUE, password |-> TRUE,
             verified |-> TRUE, providers |-> job[r].user.providers \cup {"password"}]]
        /\ links' = Without(LinksOf("setup", e))
        /\ sessions' = {[s EXCEPT !.old = @ \/ s.email = e] : s \in sessions}
        /\ Goto(r, "revoke", [email |-> e])
  /\ UNCHANGED <<google, cut>>

\* (faulty SessionsRevoked: the sessions of the account are left)
SessionsKept(r) ==
  /\ pc[r] = "revoke"
  /\ Goto(r, "signin", job[r])
  /\ UNCHANGED <<users, google, links, sessions, cut>>

SessionsRevoked(r) ==
  /\ pc[r] = "revoke"
  /\ sessions' = {s \in sessions : s.email # job[r].email}
  /\ Goto(r, "signin", job[r])
  /\ UNCHANGED <<users, google, links, cut>>

\* with the right password
Login(r, e) ==
  /\ pc[r] = "idle" /\ users[e] # NoUser
  /\ users[e].password /\ users[e].verified
  /\ Goto(r, "signin", [email |-> e])
  /\ UNCHANGED <<users, google, links, sessions, cut>>

\* with the code mailed for an order: one transaction
VerifyOrderOtp(r, e) ==
  /\ pc[r] = "idle" /\ users[e] # NoUser
  /\ users' = [users EXCEPT ![e].verified = TRUE]
  /\ Goto(r, "signin", [email |-> e])
  /\ UNCHANGED <<google, links, sessions, cut>>

\* Google vouches for the account and for its address
GoogleLogin(r, s, e) ==
  /\ pc[r] = "idle"
  /\ IF google[s] # Nobody THEN Goto(r, "signin", [email |-> google[s]])
     ELSE Goto(r, "google", [email |-> e, sub |-> s])
  /\ UNCHANGED <<users, google, links, sessions, cut>>

FindGoogleUser(r) ==
  /\ pc[r] = "google"
  /\ LET j == job[r]
     IN IF users[j.email] = NoUser THEN Goto(r, "add", j)
        ELSE Goto(r, "link", [email |-> j.email, sub |-> j.sub, user |-> users[j.email]])
  /\ UNCHANGED <<users, google, links, sessions, cut>>

\* a Google account signs in to one account, and an account has one of them
Linkable(s, e) == google[s] = Nobody /\ \A t \in Subs : google[t] # e

\* the account keeps the sign-in methods it had when it was read
LinkGoogle(r) ==
  /\ pc[r] = "link"
  /\ LET j == job[r]
     IN IF Linkable(j.sub, j.email)
        THEN /\ users' = [users EXCEPT ![j.email] = [exists |-> TRUE, verified |-> TRUE,
                            password |-> users[j.email].password,
                            providers |-> j.user.providers \cup {"google"}]]
             /\ google' = [google EXCEPT ![j.sub] = j.email]
             /\ Goto(r, "signin", [email |-> j.email])
        ELSE Return(r) /\ UNCHANGED <<users, google>>
  /\ UNCHANGED <<links, sessions, cut>>

CreateGoogleUser(r) ==
  /\ pc[r] = "add"
  /\ LET j == job[r]
     IN IF users[j.email] = NoUser /\ google[j.sub] = Nobody
        THEN /\ users' = [users EXCEPT ![j.email] = [exists |-> TRUE, password |-> FALSE,
                            verified |-> TRUE, providers |-> {"google"}]]
             /\ google' = [google EXCEPT ![j.sub] = j.email]
             /\ Goto(r, "signin", [email |-> j.email])
        ELSE Return(r) /\ UNCHANGED <<users, google>>
  /\ UNCHANGED <<links, sessions, cut>>

SignIn(r) ==
  /\ pc[r] = "signin"
  /\ sessions' = sessions \cup {[email |-> job[r].email, old |-> FALSE]}
  /\ Return(r)
  /\ UNCHANGED <<users, google, links, cut>>

\* a statement or the mail fails, or the process dies: what is done stays done
RequestFails(r) ==
  /\ pc[r] # "idle"
  /\ cut' = IF pc[r] \in {"replace", "create", "mail", "revoke"}
            THEN cut \cup {job[r].email} ELSE cut
  /\ Return(r)
  /\ UNCHANGED <<users, google, links, sessions>>

Next ==
  \/ \E r \in Requests, e \in Emails :
       \/ Register(r, e) \/ Resend(r, e) \/ ForgetPassword(r, e) \/ VerifyEmail(r, e)
       \/ SetPassword(r, e) \/ Login(r, e) \/ VerifyOrderOtp(r, e)
       \/ \E s \in Subs : GoogleLogin(r, s, e)
  \/ \E r \in Requests :
       \/ Registered(r) \/ DeleteLinks(r) \/ CreateLink(r) \/ MailLink(r) \/ Verified(r)
       \/ PasswordSet(r) \/ SessionsRevoked(r) \/ FindGoogleUser(r) \/ LinkGoogle(r)
       \/ CreateGoogleUser(r) \/ SignIn(r) \/ RequestFails(r)
  \/ \E i \in Ids : LinkExpires(i)

Spec == Init /\ [][Next]_vars

-----------------------------------------------------------------------------
\* Whoever is signed in has a verified address, although the rows are written
\* from what was read before another request verified them; and the sign-in
\* methods on record exist.
AccountsAreVouchedFor ==
  /\ \A s \in sessions : users[s.email] # NoUser /\ users[s.email].verified
  /\ \A e \in Emails : users[e] # NoUser =>
       /\ "password" \in users[e].providers <=> users[e].password
       /\ "google" \in users[e].providers =>
            users[e].verified /\ \E s \in Subs : google[s] = e

\* An account that is not verified has been mailed a link to verify it that is
\* stored (if expired), or a request will still mail one - however many links
\* are asked for at once, unless one of those requests died.
NobodyIsLockedOut ==
  \A e \in Emails \ cut : users[e] # NoUser /\ ~users[e].verified =>
    \/ \E i \in LinksOf("verify", e) :
         links[i].mailed \/ \E r \in Requests : pc[r] = "mail" /\ job[r].link = i
    \/ \E r \in Requests : /\ pc[r] \in {"replace", "create"}
                           /\ job[r].email = e /\ job[r].kind = "verify"

\* Once a password is set by a link, no session from before it is left, unless
\* the request died over it.
ResetEndsSessions ==
  \A s \in sessions : s.old =>
    s.email \in cut \/ \E r \in Requests : pc[r] = "revoke" /\ job[r].email = s.email
=============================================================================
