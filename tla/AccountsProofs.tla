--------------------------- MODULE AccountsProofs ---------------------------
(***************************************************************************)
(* Theorems about Accounts, for any addresses, Google accounts and         *)
(* concurrent requests, and any number of links.                           *)
(***************************************************************************)
EXTENDS Accounts, TLAPS

Vouched(e) == users[e] # NoUser /\ users[e].verified
Linked(e) == \E s \in Subs : google[s] = e

\* The rows: links are those of accounts, Google accounts sign in to verified
\* ones, and an account without a password has a Google account.
Tables ==
  /\ users \in [Emails -> UserRows \cup {NoUser}]
  /\ google \in [Subs -> Emails \cup {Nobody}]
  /\ links \in [Ids -> LinkRows \cup {NoLink}]
  /\ sessions \subseteq [email: Emails, old: BOOLEAN]
  /\ cut \subseteq Emails
  /\ \A i \in Ids : links[i] # NoLink => users[links[i].email] # NoUser
  /\ \A s \in Subs : google[s] # Nobody => Vouched(google[s])
  /\ \A e \in Emails : users[e] # NoUser /\ ~users[e].password => Linked(e)
  /\ AccountsAreVouchedFor

\* What a request at a step knows, and what stays true of it: the account it
\* read is there; it is verified if a sign-in follows; and the sign-in methods
\* it read are still among those the account has.
Knows(s, j) ==
  /\ s \in {"replace", "create", "mail", "verify", "set", "link"} => users[j.email] # NoUser
  /\ s \in {"revoke", "signin"} => Vouched(j.email)
  /\ s \in {"set", "link"} =>
       /\ "google" \in j.user.providers => Linked(j.email)
       /\ "password" \in j.user.providers \/ Linked(j.email)

JobFits(s, j) == j \in Jobs[s] /\ Knows(s, j)

InHand ==
  /\ pc \in [Requests -> Steps]
  /\ job = [r \in Requests |-> job[r]]
  /\ \A r \in Requests : JobFits(pc[r], job[r])

IInv == Tables /\ InHand

\* The strengthened invariant is typed.
LEMMA InvariantImpliesType == IInv => TypeOK
BY DEF IInv, Tables, InHand, JobFits, TypeOK, Steps

\* Without accounts and with idle requests everything holds.
LEMMA InitInvariant == Init => IInv
<1>. SUFFICES ASSUME Init PROVE IInv
  OBVIOUS
<1>1. Tables
  BY DEF Init, Tables, AccountsAreVouchedFor
<1>2. InHand
  BY DEF Init, InHand, JobFits, Knows, Steps, Jobs
<1>. QED BY <1>1, <1>2 DEF IInv

-----------------------------------------------------------------------------
(* Requests                                                                *)

\* Every request that is not idle is about an address, and a step that ends
\* knows nothing.
LEMMA StepsAre ==
  Steps = {"idle", "register", "replace", "create", "mail", "verify", "set", "revoke",
           "google", "add", "link", "signin"}
BY DEF Steps, Jobs

LEMMA JobsAre ==
  /\ Jobs["idle"] = {NoJob}
  /\ \A s \in {"register", "verify", "revoke", "signin"} : Jobs[s] = About
  /\ \A s \in {"replace", "create"} : Jobs[s] = ToSend
  /\ Jobs["mail"] = ToMail
  /\ Jobs["set"] = ToSet
  /\ \A s \in {"google", "add"} : Jobs[s] = ByGoogle
  /\ Jobs["link"] = ToLink
BY DEF Jobs

LEMMA JobsHaveAddresses ==
  /\ \A s \in Steps \ {"idle"} : \A j \in Jobs[s] : j.email \in Emails
  /\ NoJob \in Jobs["idle"]
<1>1. ASSUME NEW s \in Steps \ {"idle"}, NEW j \in Jobs[s]
      PROVE  j.email \in Emails
  <2>1. \/ j \in About \/ j \in ToSend \/ j \in ToMail \/ j \in ToSet
        \/ j \in ByGoogle \/ j \in ToLink
    BY StepsAre, JobsAre
  <2>. QED BY <2>1 DEF About, ToSend, ToMail, ToSet, ByGoogle, ToLink
<1>. QED BY <1>1, JobsAre

\* Accounts are not deleted, verification is not taken back, and a Google
\* account stays linked.
Grows ==
  /\ \A e \in Emails : users[e] # NoUser => users'[e] # NoUser
  /\ \A e \in Emails : Vouched(e) => Vouched(e)'
  /\ \A e \in Emails : Linked(e) => Linked(e)'

\* As long as the tables grow, what a request knows stays true, ...
LEMMA KnowledgeStays ==
  ASSUME Grows, NEW s \in Steps, NEW j \in Jobs[s], Knows(s, j),
         NEW q \in Requests, pc'[q] = s, job'[q] = j
  PROVE  JobFits(pc[q], job[q])'
<1>1. s # "idle" => j.email \in Emails
  BY JobsHaveAddresses
<1>2. Knows(pc[q], job[q])'
  BY <1>1 DEF Knows, Grows
<1>. QED BY <1>2 DEF JobFits

\* ... so a step keeps the invariant if the request itself knows what it should, ...
LEMMA GotoKeepsIInv ==
  ASSUME IInv, Tables', Grows, NEW r \in Requests, NEW s \in Steps, NEW j \in Jobs[s],
         Goto(r, s, j), Knows(pc[r], job[r])'
  PROVE  IInv'
<1>1. /\ pc' \in [Requests -> Steps]
      /\ job' = [q \in Requests |-> job'[q]]
      /\ pc'[r] = s /\ job'[r] = j
      /\ \A q \in Requests \ {r} : pc'[q] = pc[q] /\ job'[q] = job[q]
  BY DEF IInv, InHand, Goto
<1>2. ASSUME NEW q \in Requests \ {r} PROVE JobFits(pc[q], job[q])'
  <2>1. pc[q] \in Steps /\ job[q] \in Jobs[pc[q]] /\ Knows(pc[q], job[q])
    BY DEF IInv, InHand, JobFits
  <2>. QED BY <1>1, <2>1, KnowledgeStays
<1>3. JobFits(pc[r], job[r])'
  BY <1>1 DEF JobFits
<1>. QED BY <1>1, <1>2, <1>3 DEF IInv, InHand

\* ... or has nothing to know, because it ends ...
LEMMA ReturnKeepsIInv ==
  ASSUME IInv, Tables', Grows, NEW r \in Requests, Return(r)
  PROVE  IInv'
<1>1. pc'[r] = "idle"
  BY DEF IInv, InHand, Return, Goto
<1>2. Knows(pc[r], job[r])'
  BY <1>1 DEF Knows
<1>. QED BY <1>2, JobsHaveAddresses, StepsAre, GotoKeepsIInv DEF Return

\* ... or stands still.
LEMMA StillKeepsIInv ==
  ASSUME IInv, Tables', Grows, UNCHANGED <<pc, job>>
  PROVE  IInv'
<1>1. ASSUME NEW q \in Requests PROVE JobFits(pc[q], job[q])'
  <2>1. pc[q] \in Steps /\ job[q] \in Jobs[pc[q]] /\ Knows(pc[q], job[q])
    BY DEF IInv, InHand, JobFits
  <2>. QED BY <2>1, KnowledgeStays
<1>. QED BY <1>1 DEF IInv, InHand

LEMMA JobAt ==
  ASSUME IInv, NEW r \in Requests
  PROVE  job[r] \in Jobs[pc[r]] /\ Knows(pc[r], job[r])
BY DEF IInv, InHand, JobFits

LEMMA GotoSets ==
  ASSUME IInv, NEW r \in Requests, NEW s, NEW j, Goto(r, s, j)
  PROVE  pc'[r] = s /\ job'[r] = j
BY DEF IInv, InHand, Goto

-----------------------------------------------------------------------------
(* Steps that only read                                                    *)

LEMMA QuietTables ==
  ASSUME Tables, UNCHANGED <<users, google, links, sessions, cut>>
  PROVE  Tables' /\ Grows
BY DEF Tables, Grows, Vouched, Linked, AccountsAreVouchedFor

LEMMA RegisterKeepsIInv ==
  ASSUME IInv, NEW r \in Requests, NEW e \in Emails, Register(r, e)
  PROVE  IInv'
<1>1. Tables' /\ Grows
  BY QuietTables DEF IInv, Register
<1>2. CASE Goto(r, "register", [email |-> e])
  <2>1. [email |-> e] \in Jobs["register"]
    BY JobsAre DEF About
  <2>2. Knows(pc[r], job[r])'
    BY <1>2, GotoSets DEF Knows
  <2>. QED BY <1>1, <1>2, <2>1, <2>2, StepsAre, GotoKeepsIInv
<1>3. CASE users[e] # NoUser /\ Goto(r, "replace", [email |-> e, kind |-> "setup"])
  <2>1. [email |-> e, kind |-> "setup"] \in Jobs["replace"]
    BY JobsAre DEF ToSend, Kinds
  <2>2. Knows(pc[r], job[r])'
    BY <1>3, GotoSets DEF Knows, Register
  <2>. QED BY <1>1, <1>3, <2>1, <2>2, StepsAre, GotoKeepsIInv
<1>. QED BY <1>2, <1>3 DEF Register

LEMMA ToSendKeepsIInv ==
  ASSUME IInv, NEW r \in Requests, NEW e \in Emails, Resend(r, e) \/ ForgetPassword(r, e)
  PROVE  IInv'
<1>1. Tables' /\ Grows
  BY QuietTables DEF IInv, Resend, ForgetPassword
<1>2. PICK k \in Kinds : Goto(r, "replace", [email |-> e, kind |-> k])
  BY DEF Resend, ForgetPassword, Kinds
<1>3. [email |-> e, kind |-> k] \in Jobs["replace"]
  BY JobsAre DEF ToSend
<1>4. Knows(pc[r], job[r])'
  BY <1>2, GotoSets DEF Knows, Resend, ForgetPassword
<1>. QED BY <1>1, <1>2, <1>3, <1>4, StepsAre, GotoKeepsIInv

\* The account of a link that was followed is there.
LEMMA FollowedHasAccount ==
  ASSUME IInv, NEW e \in Emails, NEW k \in Kinds, Followed(k, e)
  PROVE  users[e] # NoUser /\ users[e] \in UserRows
<1>1. users[e] # NoUser
  BY DEF IInv, Tables, Followed, LinksOf, NoLink, Kinds
<1>. QED BY <1>1 DEF IInv, Tables

\* The sign-in methods of an account are those it has.
LEMMA MethodsAreThere ==
  ASSUME IInv, NEW e \in Emails, users[e] # NoUser
  PROVE  /\ "google" \in users[e].providers => Linked(e)
         /\ "password" \in users[e].providers \/ Linked(e)
BY DEF IInv, Tables, AccountsAreVouchedFor, Linked

LEMMA VerifyEmailKeepsIInv ==
  ASSUME IInv, NEW r \in Requests, NEW e \in Emails, VerifyEmail(r, e)
  PROVE  IInv'
<1>1. Tables' /\ Grows
  BY QuietTables DEF IInv, VerifyEmail
<1>2. users[e] # NoUser
  BY FollowedHasAccount DEF VerifyEmail, Kinds
<1>3. [email |-> e] \in Jobs["verify"] /\ Goto(r, "verify", [email |-> e])
  BY JobsAre DEF About, VerifyEmail
<1>4. Knows(pc[r], job[r])'
  BY <1>2, <1>3, GotoSets DEF Knows, VerifyEmail
<1>. QED BY <1>1, <1>3, <1>4, StepsAre, GotoKeepsIInv

LEMMA SetPasswordKeepsIInv ==
  ASSUME IInv, NEW r \in Requests, NEW e \in Emails, SetPassword(r, e)
  PROVE  IInv'
<1>. DEFINE k == [email |-> e, user |-> users[e]]
<1>1. Tables' /\ Grows
  BY QuietTables DEF IInv, SetPassword
<1>2. users[e] # NoUser /\ users[e] \in UserRows
  BY FollowedHasAccount DEF SetPassword, Kinds
<1>3. k \in Jobs["set"] /\ Goto(r, "set", k)
  BY <1>2, JobsAre DEF ToSet, SetPassword
<1>4. Knows(pc[r], job[r])'
  BY <1>2, <1>3, GotoSets, MethodsAreThere DEF Knows, SetPassword, Linked
<1>. QED BY <1>1, <1>3, <1>4, StepsAre, GotoKeepsIInv

LEMMA LoginKeepsIInv ==
  ASSUME IInv, NEW r \in Requests, NEW e \in Emails, Login(r, e)
  PROVE  IInv'
<1>1. Tables' /\ Grows
  BY QuietTables DEF IInv, Login
<1>2. [email |-> e] \in Jobs["signin"] /\ Goto(r, "signin", [email |-> e])
  BY JobsAre DEF About, Login
<1>3. Knows(pc[r], job[r])'
  BY <1>2, GotoSets DEF Knows, Login, Vouched
<1>. QED BY <1>1, <1>2, <1>3, StepsAre, GotoKeepsIInv

LEMMA GoogleLoginKeepsIInv ==
  ASSUME IInv, NEW r \in Requests, NEW s \in Subs, NEW e \in Emails, GoogleLogin(r, s, e)
  PROVE  IInv'
<1>1. Tables' /\ Grows
  BY QuietTables DEF IInv, GoogleLogin
<1>2. CASE google[s] # Nobody
  <2>1. Vouched(google[s]) /\ google[s] \in Emails
    BY <1>2 DEF IInv, Tables
  <2>2. /\ [email |-> google[s]] \in Jobs["signin"]
        /\ Goto(r, "signin", [email |-> google[s]])
    BY <1>2, <2>1, JobsAre DEF GoogleLogin, About
  <2>3. Knows(pc[r], job[r])'
    BY <2>1, <2>2, GotoSets DEF Knows, GoogleLogin, Vouched
  <2>. QED BY <1>1, <2>2, <2>3, StepsAre, GotoKeepsIInv
<1>3. CASE google[s] = Nobody
  <2>1. /\ [email |-> e, sub |-> s] \in Jobs["google"]
        /\ Goto(r, "google", [email |-> e, sub |-> s])
    BY <1>3, JobsAre DEF GoogleLogin, ByGoogle
  <2>2. Knows(pc[r], job[r])'
    BY <2>1, GotoSets DEF Knows
  <2>. QED BY <1>1, <2>1, <2>2, StepsAre, GotoKeepsIInv
<1>. QED BY <1>2, <1>3

LEMMA FindGoogleUserKeepsIInv ==
  ASSUME IInv, NEW r \in Requests, FindGoogleUser(r)
  PROVE  IInv'
<1>. DEFINE j == job[r]
            k == [email |-> j.email, sub |-> j.sub, user |-> users[j.email]]
<1>1. Tables' /\ Grows
  BY QuietTables DEF IInv, FindGoogleUser
<1>2. j \in Jobs["google"] /\ j.email \in Emails /\ j.sub \in Subs
  <2>1. j \in Jobs["google"]
    BY JobAt DEF FindGoogleUser
  <2>. QED BY <2>1, JobsAre DEF ByGoogle
<1>3. CASE users[j.email] = NoUser
  <2>1. j \in Jobs["add"] /\ Goto(r, "add", j)
    BY <1>2, <1>3, JobsAre DEF FindGoogleUser
  <2>2. Knows(pc[r], job[r])'
    BY <2>1, GotoSets DEF Knows
  <2>. QED BY <1>1, <2>1, <2>2, StepsAre, GotoKeepsIInv
<1>4. CASE users[j.email] # NoUser
  <2>1. users[j.email] \in UserRows
    BY <1>2, <1>4 DEF IInv, Tables
  <2>2. k \in Jobs["link"] /\ Goto(r, "link", k)
    BY <1>2, <1>4, <2>1, JobsAre DEF FindGoogleUser, ToLink
  <2>3. Knows(pc[r], job[r])'
    BY <1>2, <1>4, <2>2, GotoSets, MethodsAreThere DEF Knows, FindGoogleUser, Linked
  <2>. QED BY <1>1, <2>2, <2>3, StepsAre, GotoKeepsIInv
<1>. QED BY <1>3, <1>4

-----------------------------------------------------------------------------
(* Steps that write links                                                  *)

\* Links may change as long as they are those of accounts.
LEMMA LinksMayChange ==
  ASSUME Tables, UNCHANGED <<users, google, sessions>>, cut' \subseteq Emails,
         links' \in [Ids -> LinkRows \cup {NoLink}],
         \A i \in Ids : links'[i] # NoLink => users[links'[i].email] # NoUser
  PROVE  Tables' /\ Grows
BY DEF Tables, Grows, Vouched, Linked, AccountsAreVouchedFor

LEMMA DeleteLinksKeepsIInv ==
  ASSUME IInv, NEW r \in Requests, DeleteLinks(r)
  PROVE  IInv'
<1>1. Tables' /\ Grows
  BY LinksMayChange DEF IInv, Tables, DeleteLinks, Without
<1>2. job[r] \in Jobs["replace"] /\ users[job[r].email] # NoUser
  BY JobAt DEF DeleteLinks, Knows
<1>3. job[r] \in Jobs["create"] /\ Goto(r, "create", job[r])
  BY <1>2, JobsAre DEF DeleteLinks
<1>4. Knows(pc[r], job[r])'
  BY <1>2, <1>3, GotoSets DEF Knows, DeleteLinks
<1>. QED BY <1>1, <1>3, <1>4, StepsAre, GotoKeepsIInv

LEMMA CreateLinkKeepsIInv ==
  ASSUME IInv, NEW r \in Requests, CreateLink(r)
  PROVE  IInv'
<1>. DEFINE j == job[r]
<1>1. j \in Jobs["create"] /\ users[j.email] # NoUser
  BY JobAt DEF CreateLink, Knows
<1>2. j.email \in Emails /\ j.kind \in Kinds
  BY <1>1, JobsAre DEF ToSend
<1>3. PICK i \in Ids :
        /\ links' = [links EXCEPT ![i] = [kind |-> j.kind, email |-> j.email,
                                          mailed |-> FALSE, expired |-> FALSE]]
        /\ Goto(r, "mail", [email |-> j.email, kind |-> j.kind, link |-> i])
  BY DEF CreateLink
<1>. DEFINE row == [kind |-> j.kind, email |-> j.email, mailed |-> FALSE, expired |-> FALSE]
<1>4. Tables' /\ Grows
  <2>1. row \in LinkRows /\ row.email = j.email
    BY <1>2 DEF LinkRows
  <2>2. links' \in [Ids -> LinkRows \cup {NoLink}]
    BY <1>3, <2>1 DEF IInv, Tables
  <2>3. \A k \in Ids : links'[k] # NoLink => users[links'[k].email] # NoUser
    BY <1>1, <1>3, <2>1 DEF IInv, Tables
  <2>. QED BY <2>2, <2>3, LinksMayChange DEF IInv, Tables, CreateLink
<1>5. [email |-> j.email, kind |-> j.kind, link |-> i] \in Jobs["mail"]
  BY <1>2, JobsAre DEF ToMail
<1>6. Knows(pc[r], job[r])'
  BY <1>1, <1>3, GotoSets DEF Knows, CreateLink
<1>. QED BY <1>3, <1>4, <1>5, <1>6, StepsAre, GotoKeepsIInv

LEMMA MailLinkKeepsIInv ==
  ASSUME IInv, NEW r \in Requests, MailLink(r)
  PROVE  IInv'
<1>1. job[r].link \in Ids
  <2>1. job[r] \in Jobs["mail"]
    BY JobAt DEF MailLink
  <2>. QED BY <2>1, JobsAre DEF ToMail
<1>2. links' \in [Ids -> LinkRows \cup {NoLink}]
  BY <1>1 DEF IInv, Tables, MailLink, LinkRows
<1>3. \A k \in Ids : links'[k] # NoLink => links[k] # NoLink /\ links'[k].email = links[k].email
  BY <1>1 DEF IInv, Tables, MailLink, LinkRows
<1>4. Tables' /\ Grows
  BY <1>2, <1>3, LinksMayChange DEF IInv, Tables, MailLink
<1>. QED BY <1>4, ReturnKeepsIInv DEF MailLink

LEMMA LinkExpiresKeepsIInv ==
  ASSUME IInv, NEW i \in Ids, LinkExpires(i)
  PROVE  IInv'
<1>1. links' \in [Ids -> LinkRows \cup {NoLink}]
  BY DEF IInv, Tables, LinkExpires, LinkRows
<1>2. \A k \in Ids : links'[k] # NoLink => links[k] # NoLink /\ links'[k].email = links[k].email
  BY DEF IInv, Tables, LinkExpires, LinkRows
<1>3. Tables' /\ Grows
  BY <1>1, <1>2, LinksMayChange DEF IInv, Tables, LinkExpires
<1>. QED BY <1>3, StillKeepsIInv DEF LinkExpires

LEMMA RequestFailsKeepsIInv ==
  ASSUME IInv, NEW r \in Requests, RequestFails(r)
  PROVE  IInv'
<1>1. job[r].email \in Emails
  BY JobAt, JobsHaveAddresses DEF IInv, InHand, RequestFails
<1>2. Tables' /\ Grows
  BY <1>1, LinksMayChange DEF IInv, Tables, RequestFails
<1>. QED BY <1>2, ReturnKeepsIInv DEF RequestFails

-----------------------------------------------------------------------------
(* Steps that write accounts                                               *)

\* A row may be written if it is new or verified, its sign-in methods are
\* those it has, and Google accounts are at most linked to it.
LEMMA AccountMayBeWritten ==
  ASSUME AccountsAssumption, Tables, NEW e \in Emails, NEW u \in UserRows,
         users' = [users EXCEPT ![e] = u],
         users[e] # NoUser => u.verified,
         google' \in [Subs -> Emails \cup {Nobody}],
         \A s \in Subs : google'[s] # google[s] =>
           google[s] = Nobody /\ google'[s] = e /\ u.verified,
         u.password \/ \E s \in Subs : google'[s] = e,
         "password" \in u.providers <=> u.password,
         "google" \in u.providers => u.verified /\ \E s \in Subs : google'[s] = e,
         links' \in [Ids -> LinkRows \cup {NoLink}],
         \A i \in Ids : links'[i] # NoLink => links'[i] = links[i],
         sessions' \subseteq [email: Emails, old: BOOLEAN],
         \A x \in sessions' : \E y \in sessions : y.email = x.email,
         cut' = cut
  PROVE  Tables' /\ Grows
<1>1. u # NoUser
  BY DEF UserRows, NoUser
<1>2. /\ users' \in [Emails -> UserRows \cup {NoUser}]
      /\ users'[e] = u
      /\ \A x \in Emails \ {e} : users'[x] = users[x]
  BY DEF Tables
<1>3. \A x \in Emails : users[x] # NoUser => users'[x] # NoUser
  BY <1>1, <1>2
<1>4. \A x \in Emails : Vouched(x) => Vouched(x)'
  BY <1>1, <1>2 DEF Vouched
<1>5. \A x \in Emails : Linked(x) => Linked(x)'
  BY DEF Linked, AccountsAssumption
<1>6. \A i \in Ids : links'[i] # NoLink => users'[links'[i].email] # NoUser
  <2>1. \A i \in Ids : links[i] # NoLink => links[i].email \in Emails
    BY DEF Tables, LinkRows
  <2>. QED BY <1>3, <2>1 DEF Tables
<1>7. \A s \in Subs : google'[s] # Nobody => Vouched(google[s])'
  <2>1. SUFFICES ASSUME NEW s \in Subs, google'[s] # Nobody
                 PROVE  users'[google'[s]] # NoUser /\ users'[google'[s]].verified
    BY DEF Vouched
  <2>2. CASE google'[s] = google[s]
    BY <1>4, <2>1, <2>2 DEF Tables, Vouched
  <2>3. CASE google'[s] # google[s]
    BY <1>1, <1>2, <2>1, <2>3
  <2>. QED BY <2>2, <2>3
<1>8. \A x \in Emails : users'[x] # NoUser /\ ~users'[x].password => Linked(x)'
  <2>1. SUFFICES ASSUME NEW x \in Emails, users'[x] # NoUser, ~users'[x].password
                 PROVE  Linked(x)'
    OBVIOUS
  <2>2. CASE x = e
    BY <1>2, <2>1, <2>2 DEF Linked
  <2>3. CASE x # e
    BY <1>2, <1>5, <2>1, <2>3 DEF Tables
  <2>. QED BY <2>2, <2>3
<1>9. AccountsAreVouchedFor'
  <2>1. ASSUME NEW x \in sessions'
        PROVE  users'[x.email] # NoUser /\ users'[x.email].verified
    <3>1. PICK y \in sessions : y.email = x.email
      OBVIOUS
    <3>2. Vouched(y.email) /\ y.email \in Emails
      BY DEF Tables, AccountsAreVouchedFor, Vouched
    <3>. QED BY <1>4, <3>1, <3>2 DEF Vouched
  <2>2. ASSUME NEW x \in Emails, users'[x] # NoUser
        PROVE  /\ "password" \in users'[x].providers <=> users'[x].password
               /\ "google" \in users'[x].providers =>
                    users'[x].verified /\ \E s \in Subs : google'[s] = x
    <3>1. CASE x = e
      BY <1>2, <3>1
    <3>2. CASE x # e
      BY <1>2, <1>5, <2>2, <3>2 DEF Tables, AccountsAreVouchedFor, Linked
    <3>. QED BY <3>1, <3>2
  <2>. QED BY <2>1, <2>2 DEF AccountsAreVouchedFor
<1>. QED BY <1>2, <1>3, <1>4, <1>5, <1>6, <1>7, <1>8, <1>9 DEF Tables, Grows

LEMMA RegisteredKeepsIInv ==
  ASSUME AccountsAssumption, IInv, NEW r \in Requests, Registered(r)
  PROVE  IInv'
<1>. DEFINE e == job[r].email
            u == [exists |-> TRUE, password |-> TRUE, verified |-> FALSE,
                  providers |-> {"password"}]
            k == [email |-> e, kind |-> "verify"]
<1>1. e \in Emails
  BY JobAt, JobsHaveAddresses, StepsAre DEF Registered
<1>2. CASE users[e] # NoUser
  <2>1. Tables' /\ Grows
    BY <1>2, QuietTables DEF Registered, IInv
  <2>. QED BY <1>2, <2>1, ReturnKeepsIInv DEF Registered
<1>3. CASE users[e] = NoUser
  <2>1. users' = [users EXCEPT ![e] = u] /\ Goto(r, "replace", k)
    BY <1>3 DEF Registered
  <2>2. u \in UserRows
    BY DEF UserRows
  <2>3. Tables' /\ Grows
    BY <1>1, <1>3, <2>1, <2>2, AccountMayBeWritten DEF IInv, Tables, Registered
  <2>4. k \in Jobs["replace"]
    BY <1>1, JobsAre DEF ToSend, Kinds
  <2>5. users'[e] # NoUser
    BY <1>1, <2>1, <2>2 DEF IInv, Tables, UserRows, NoUser
  <2>6. Knows(pc[r], job[r])'
    BY <2>1, <2>5, GotoSets DEF Knows
  <2>. QED BY <2>1, <2>3, <2>4, <2>6, StepsAre, GotoKeepsIInv
<1>. QED BY <1>2, <1>3

\* An account that verifies its address keeps the rest.
LEMMA VerifiedRow ==
  ASSUME IInv, NEW e \in Emails, users[e] # NoUser,
         NEW u, u = [users[e] EXCEPT !.verified = TRUE]
  PROVE  /\ u \in UserRows /\ u.verified
         /\ u.password \/ Linked(e)
         /\ "password" \in u.providers <=> u.password
         /\ "google" \in u.providers => Linked(e)
<1>1. users[e] \in UserRows
  BY DEF IInv, Tables
<1>2. /\ u \in UserRows /\ u.verified
      /\ u.password = users[e].password /\ u.providers = users[e].providers
  BY <1>1 DEF UserRows
<1>. QED BY <1>2 DEF IInv, Tables, AccountsAreVouchedFor, Linked

LEMMA VerifiedKeepsIInv ==
  ASSUME AccountsAssumption, IInv, NEW r \in Requests, Verified(r)
  PROVE  IInv'
<1>. DEFINE e == job[r].email
            u == [users[e] EXCEPT !.verified = TRUE]
<1>1. e \in Emails /\ users[e] # NoUser
  BY JobAt, JobsHaveAddresses, StepsAre DEF Verified, Knows
<1>2. users' = [users EXCEPT ![e] = u] /\ UNCHANGED <<google, sessions, cut>>
  BY DEF Verified
<1>3. /\ u \in UserRows /\ u.verified
      /\ u.password \/ Linked(e)
      /\ "password" \in u.providers <=> u.password
      /\ "google" \in u.providers => Linked(e)
  BY <1>1, VerifiedRow
<1>4. /\ links' \in [Ids -> LinkRows \cup {NoLink}]
      /\ \A i \in Ids : links'[i] # NoLink => links'[i] = links[i]
  BY DEF IInv, Tables, Verified, Without
<1>5. Tables' /\ Grows
  BY <1>1, <1>2, <1>3, <1>4, AccountMayBeWritten DEF IInv, Tables, Linked
<1>6. [email |-> e] \in Jobs["signin"] /\ Goto(r, "signin", [email |-> e])
  BY <1>1, JobsAre DEF About, Verified
<1>7. users'[e] # NoUser /\ users'[e].verified
  BY <1>1, <1>2, <1>3 DEF IInv, Tables, UserRows, NoUser
<1>8. Knows(pc[r], job[r])'
  BY <1>6, <1>7, GotoSets DEF Knows, Vouched
<1>. QED BY <1>5, <1>6, <1>8, StepsAre, GotoKeepsIInv

LEMMA VerifyOrderOtpKeepsIInv ==
  ASSUME AccountsAssumption, IInv, NEW r \in Requests, NEW e \in Emails, VerifyOrderOtp(r, e)
  PROVE  IInv'
<1>. DEFINE u == [users[e] EXCEPT !.verified = TRUE]
<1>1. users[e] # NoUser
  BY DEF VerifyOrderOtp
<1>2. users' = [users EXCEPT ![e] = u] /\ UNCHANGED <<google, links, sessions, cut>>
  BY DEF VerifyOrderOtp
<1>3. /\ u \in UserRows /\ u.verified
      /\ u.password \/ Linked(e)
      /\ "password" \in u.providers <=> u.password
      /\ "google" \in u.providers => Linked(e)
  BY <1>1, VerifiedRow
<1>4. Tables' /\ Grows
  BY <1>1, <1>2, <1>3, AccountMayBeWritten DEF IInv, Tables, Linked
<1>5. [email |-> e] \in Jobs["signin"] /\ Goto(r, "signin", [email |-> e])
  BY JobsAre DEF About, VerifyOrderOtp
<1>6. users'[e] # NoUser /\ users'[e].verified
  BY <1>1, <1>2, <1>3 DEF IInv, Tables, UserRows, NoUser
<1>7. Knows(pc[r], job[r])'
  BY <1>5, <1>6, GotoSets DEF Knows, Vouched
<1>. QED BY <1>4, <1>5, <1>7, StepsAre, GotoKeepsIInv

LEMMA PasswordSetKeepsIInv ==
  ASSUME AccountsAssumption, IInv, NEW r \in Requests, PasswordSet(r)
  PROVE  IInv'
<1>. DEFINE e == job[r].email
            u == [exists |-> TRUE, password |-> TRUE, verified |-> TRUE,
                  providers |-> job[r].user.providers \cup {"password"}]
<1>1. e \in Emails /\ job[r].user \in UserRows
  <2>1. job[r] \in Jobs["set"]
    BY JobAt DEF PasswordSet
  <2>. QED BY <2>1, JobsAre DEF ToSet
<1>2. "google" \in job[r].user.providers => Linked(e)
  BY JobAt DEF PasswordSet, Knows
<1>3. users' = [users EXCEPT ![e] = u] /\ UNCHANGED <<google, cut>>
  BY DEF PasswordSet
<1>4. /\ u \in UserRows /\ u.verified /\ u.password /\ "password" \in u.providers
      /\ "google" \in u.providers => Linked(e)
  BY <1>1, <1>2 DEF UserRows
<1>5. /\ links' \in [Ids -> LinkRows \cup {NoLink}]
      /\ \A i \in Ids : links'[i] # NoLink => links'[i] = links[i]
  BY DEF IInv, Tables, PasswordSet, Without
<1>6. /\ sessions' \subseteq [email: Emails, old: BOOLEAN]
      /\ \A x \in sessions' : \E y \in sessions : y.email = x.email
  <2>1. ASSUME NEW x \in sessions'
        PROVE  x \in [email: Emails, old: BOOLEAN] /\ \E y \in sessions : y.email = x.email
    <3>1. PICK y \in sessions : x = [y EXCEPT !.old = @ \/ y.email = e]
      BY DEF PasswordSet
    <3>2. y \in [email: Emails, old: BOOLEAN]
      BY DEF IInv, Tables
    <3>. QED BY <3>1, <3>2
  <2>. QED BY <2>1
<1>7. Tables' /\ Grows
  BY <1>1, <1>3, <1>4, <1>5, <1>6, AccountMayBeWritten DEF IInv, Tables, Linked
<1>8. [email |-> e] \in Jobs["revoke"] /\ Goto(r, "revoke", [email |-> e])
  BY <1>1, JobsAre DEF About, PasswordSet
<1>9. users'[e] # NoUser /\ users'[e].verified
  BY <1>1, <1>3, <1>4 DEF IInv, Tables, UserRows, NoUser
<1>10. Knows(pc[r], job[r])'
  BY <1>8, <1>9, GotoSets DEF Knows, Vouched
<1>. QED BY <1>7, <1>8, <1>10, StepsAre, GotoKeepsIInv

LEMMA LinkGoogleKeepsIInv ==
  ASSUME AccountsAssumption, IInv, NEW r \in Requests, LinkGoogle(r)
  PROVE  IInv'
<1>. DEFINE j == job[r]
            e == j.email
            u == [exists |-> TRUE, password |-> users[e].password, verified |-> TRUE,
                  providers |-> j.user.providers \cup {"google"}]
<1>1. e \in Emails /\ j.sub \in Subs /\ j.user \in UserRows
  <2>1. j \in Jobs["link"]
    BY JobAt DEF LinkGoogle
  <2>. QED BY <2>1, JobsAre DEF ToLink
<1>2. users[e] # NoUser /\ ("password" \in j.user.providers \/ Linked(e))
  BY JobAt DEF LinkGoogle, Knows
<1>3. CASE ~Linkable(j.sub, e)
  <2>1. Return(r) /\ UNCHANGED <<users, google, links, sessions, cut>>
    BY <1>3 DEF LinkGoogle
  <2>. QED BY <2>1, QuietTables, ReturnKeepsIInv DEF IInv
<1>4. CASE Linkable(j.sub, e)
  <2>1. /\ users' = [users EXCEPT ![e] = u]
        /\ google' = [google EXCEPT ![j.sub] = e]
        /\ Goto(r, "signin", [email |-> e])
        /\ UNCHANGED <<links, sessions, cut>>
    BY <1>4 DEF LinkGoogle
  <2>2. google[j.sub] = Nobody /\ ~Linked(e)
    BY <1>1, <1>4 DEF Linkable, Linked
  <2>3. users[e] \in UserRows
    BY <1>1, <1>2 DEF IInv, Tables
  <2>4. u \in UserRows /\ u.verified /\ u.password = users[e].password
        /\ u.providers = j.user.providers \cup {"google"}
    BY <1>1, <2>3 DEF UserRows
  <2>5. u.password /\ "password" \in u.providers
    BY <1>1, <1>2, <2>2, <2>4 DEF IInv, Tables
  <2>6. google' \in [Subs -> Emails \cup {Nobody}] /\ google'[j.sub] = e
        /\ \A s \in Subs \ {j.sub} : google'[s] = google[s]
    BY <1>1, <2>1 DEF IInv, Tables
  <2>7. Tables' /\ Grows
    <3>1. /\ \A s \in Subs : google'[s] # google[s] =>
                google[s] = Nobody /\ google'[s] = e /\ u.verified
          /\ \E s \in Subs : google'[s] = e
      BY <1>1, <2>2, <2>4, <2>6
    <3>2. /\ links' \in [Ids -> LinkRows \cup {NoLink}]
          /\ \A i \in Ids : links'[i] # NoLink => links'[i] = links[i]
          /\ sessions' \subseteq [email: Emails, old: BOOLEAN]
          /\ \A x \in sessions' : \E y \in sessions : y.email = x.email
          /\ cut' = cut
      BY <2>1 DEF IInv, Tables
    <3>3. u.password \/ \E s \in Subs : google'[s] = e
      BY <3>1
    <3>4. u \in UserRows /\ u.verified /\ ("password" \in u.providers <=> u.password)
      BY <2>4, <2>5
    <3>. HIDE DEF u, e
    <3>. QED BY <1>1, <2>1, <2>6, <3>1, <3>2, <3>3, <3>4, AccountMayBeWritten DEF IInv
  <2>8. [email |-> e] \in Jobs["signin"]
    BY <1>1, JobsAre DEF About
  <2>9. users'[e] # NoUser /\ users'[e].verified
    BY <1>1, <2>1, <2>4 DEF IInv, Tables, UserRows, NoUser
  <2>10. Knows(pc[r], job[r])'
    BY <2>1, <2>9, GotoSets DEF Knows, Vouched
  <2>. QED BY <2>1, <2>7, <2>8, <2>10, StepsAre, GotoKeepsIInv
<1>. QED BY <1>3, <1>4

LEMMA CreateGoogleUserKeepsIInv ==
  ASSUME AccountsAssumption, IInv, NEW r \in Requests, CreateGoogleUser(r)
  PROVE  IInv'
<1>. DEFINE j == job[r]
            e == j.email
            u == [exists |-> TRUE, password |-> FALSE, verified |-> TRUE,
                  providers |-> {"google"}]
            free == users[e] = NoUser /\ google[j.sub] = Nobody
<1>1. e \in Emails /\ j.sub \in Subs
  <2>1. j \in Jobs["add"]
    BY JobAt DEF CreateGoogleUser
  <2>. QED BY <2>1, JobsAre DEF ByGoogle
<1>2. CASE ~free
  <2>1. Return(r) /\ UNCHANGED <<users, google, links, sessions, cut>>
    BY <1>2 DEF CreateGoogleUser
  <2>. QED BY <2>1, QuietTables, ReturnKeepsIInv DEF IInv
<1>3. CASE free
  <2>1. /\ users' = [users EXCEPT ![e] = u]
        /\ google' = [google EXCEPT ![j.sub] = e]
        /\ Goto(r, "signin", [email |-> e])
        /\ UNCHANGED <<links, sessions, cut>>
    BY <1>3 DEF CreateGoogleUser
  <2>2. u \in UserRows
    BY DEF UserRows
  <2>3. google' \in [Subs -> Emails \cup {Nobody}] /\ google'[j.sub] = e
        /\ \A s \in Subs \ {j.sub} : google'[s] = google[s]
    BY <1>1, <2>1 DEF IInv, Tables
  <2>4. Tables' /\ Grows
    <3>1. /\ \A s \in Subs : google'[s] # google[s] =>
                google[s] = Nobody /\ google'[s] = e /\ u.verified
          /\ \E s \in Subs : google'[s] = e
      BY <1>1, <1>3, <2>3
    <3>2. /\ links' \in [Ids -> LinkRows \cup {NoLink}]
          /\ \A i \in Ids : links'[i] # NoLink => links'[i] = links[i]
          /\ sessions' \subseteq [email: Emails, old: BOOLEAN]
          /\ \A x \in sessions' : \E y \in sessions : y.email = x.email
          /\ cut' = cut
      BY <2>1 DEF IInv, Tables
    <3>3. /\ u.verified
          /\ "password" \in u.providers <=> u.password
      OBVIOUS
    <3>4. users[e] # NoUser => u.verified
      BY <3>3
    <3>. HIDE DEF u, e
    <3>. QED BY <1>1, <2>1, <2>2, <2>3, <3>1, <3>2, <3>3, <3>4, AccountMayBeWritten DEF IInv
  <2>5. [email |-> e] \in Jobs["signin"]
    BY <1>1, JobsAre DEF About
  <2>6. users'[e] # NoUser /\ users'[e].verified
    BY <1>1, <2>1, <2>2 DEF IInv, Tables, UserRows, NoUser
  <2>7. Knows(pc[r], job[r])'
    BY <2>1, <2>6, GotoSets DEF Knows, Vouched
  <2>. QED BY <2>1, <2>4, <2>5, <2>7, StepsAre, GotoKeepsIInv
<1>. QED BY <1>2, <1>3

-----------------------------------------------------------------------------
(* Steps that write sessions                                               *)

LEMMA SessionsMayChange ==
  ASSUME Tables, UNCHANGED <<users, google, links, cut>>,
         sessions' \subseteq [email: Emails, old: BOOLEAN],
         \A x \in sessions' : x \in sessions \/ Vouched(x.email)
  PROVE  Tables' /\ Grows
BY DEF Tables, Grows, Vouched, Linked, AccountsAreVouchedFor

LEMMA SessionsRevokedKeepsIInv ==
  ASSUME IInv, NEW r \in Requests, SessionsRevoked(r)
  PROVE  IInv'
<1>1. Tables' /\ Grows
  BY SessionsMayChange DEF IInv, Tables, SessionsRevoked
<1>2. job[r] \in Jobs["revoke"] /\ Vouched(job[r].email)
  BY JobAt DEF SessionsRevoked, Knows
<1>3. job[r] \in Jobs["signin"] /\ Goto(r, "signin", job[r])
  BY <1>2, JobsAre DEF SessionsRevoked
<1>4. pc'[r] = "signin" /\ job'[r] = job[r] /\ users' = users
  BY <1>3, GotoSets DEF SessionsRevoked
<1>5. Knows(pc[r], job[r])'
  BY <1>2, <1>4 DEF Knows, Vouched
<1>. QED BY <1>1, <1>3, <1>5, StepsAre, GotoKeepsIInv

LEMMA SignInKeepsIInv ==
  ASSUME IInv, NEW r \in Requests, SignIn(r)
  PROVE  IInv'
<1>1. job[r].email \in Emails /\ Vouched(job[r].email)
  BY JobAt, JobsHaveAddresses, StepsAre DEF SignIn, Knows
<1>2. /\ sessions' = sessions \cup {[email |-> job[r].email, old |-> FALSE]}
      /\ UNCHANGED <<users, google, links, cut>>
  BY DEF SignIn
<1>3. /\ sessions' \subseteq [email: Emails, old: BOOLEAN]
      /\ \A x \in sessions' : x \in sessions \/ Vouched(x.email)
  <2>1. ASSUME NEW x \in sessions'
        PROVE  x \in [email: Emails, old: BOOLEAN] /\ (x \in sessions \/ Vouched(x.email))
    <3>1. CASE x \in sessions
      BY <3>1 DEF IInv, Tables
    <3>2. CASE x = [email |-> job[r].email, old |-> FALSE]
      <4>1. x.email = job[r].email /\ x \in [email: Emails, old: BOOLEAN]
        BY <1>1, <3>2
      <4>. QED BY <1>1, <4>1
    <3>. QED BY <1>2, <3>1, <3>2
  <2>. QED BY <2>1
<1>4. Tables' /\ Grows
  BY <1>2, <1>3, SessionsMayChange DEF IInv
<1>. QED BY <1>4, ReturnKeepsIInv DEF SignIn

-----------------------------------------------------------------------------
(* All steps                                                               *)

LEMMA StepKeepsInvariant ==
  ASSUME AccountsAssumption, IInv, [Next]_vars
  PROVE  IInv'
<1>1. CASE UNCHANGED vars
  BY <1>1, QuietTables, StillKeepsIInv DEF vars, IInv
<1>2. ASSUME NEW r \in Requests, NEW e \in Emails,
             \/ Register(r, e) \/ Resend(r, e) \/ ForgetPassword(r, e) \/ VerifyEmail(r, e)
             \/ SetPassword(r, e) \/ Login(r, e) \/ VerifyOrderOtp(r, e)
      PROVE  IInv'
  BY <1>2, RegisterKeepsIInv, ToSendKeepsIInv, VerifyEmailKeepsIInv, SetPasswordKeepsIInv,
     LoginKeepsIInv, VerifyOrderOtpKeepsIInv
<1>3. ASSUME NEW r \in Requests, NEW e \in Emails, NEW s \in Subs, GoogleLogin(r, s, e)
      PROVE  IInv'
  BY <1>3, GoogleLoginKeepsIInv
<1>4. ASSUME NEW r \in Requests,
             \/ Registered(r) \/ DeleteLinks(r) \/ CreateLink(r) \/ MailLink(r) \/ Verified(r)
             \/ PasswordSet(r) \/ SessionsRevoked(r) \/ FindGoogleUser(r) \/ LinkGoogle(r)
             \/ CreateGoogleUser(r) \/ SignIn(r) \/ RequestFails(r)
      PROVE  IInv'
  BY <1>4, RegisteredKeepsIInv, DeleteLinksKeepsIInv, CreateLinkKeepsIInv, MailLinkKeepsIInv,
     VerifiedKeepsIInv, PasswordSetKeepsIInv, SessionsRevokedKeepsIInv,
     FindGoogleUserKeepsIInv, LinkGoogleKeepsIInv, CreateGoogleUserKeepsIInv,
     SignInKeepsIInv, RequestFailsKeepsIInv
<1>5. ASSUME NEW i \in Ids, LinkExpires(i) PROVE IInv'
  BY <1>5, LinkExpiresKeepsIInv
<1>. QED BY <1>1, <1>2, <1>3, <1>4, <1>5 DEF Next

\* What the tables hold and what every request knows, always.
THEOREM Invariant ==
  ASSUME AccountsAssumption
  PROVE  Spec => []IInv
BY InitInvariant, StepKeepsInvariant, PTL DEF Spec

\* The tables and what the requests of auth.service.ts know are always well formed.
THEOREM TypeCorrect ==
  ASSUME AccountsAssumption
  PROVE  Spec => []TypeOK
BY Invariant, InvariantImpliesType, PTL

\* Whoever is signed in has a verified address, and every sign-in method on
\* record exists, however the requests that write an account from what they
\* read before overlap.
THEOREM SignInsAreVouchedFor ==
  ASSUME AccountsAssumption
  PROVE  Spec => []AccountsAreVouchedFor
<1>1. IInv => AccountsAreVouchedFor
  BY DEF IInv, Tables
<1>. QED BY <1>1, Invariant, PTL
-----------------------------------------------------------------------------
(* Sessions and links over several requests                                *)

Others(r) == \A q \in Requests \ {r} : pc'[q] = pc[q] /\ job'[q] = job[q]

LEMMA OthersStandStill ==
  ASSUME IInv, NEW r \in Requests, NEW s, NEW j, Goto(r, s, j)
  PROVE  Others(r)
BY DEF IInv, InHand, Goto, Others

\* A reset is under way for an address, or was broken off.
Resetting(e) == e \in cut \/ \E r \in Requests : pc[r] = "revoke" /\ job[r].email = e

\* What is not about sessions leaves an old session and its reset alone.
LEMMA QuietReset ==
  ASSUME ResetEndsSessions, NEW r \in Requests, Others(r), pc[r] # "revoke", cut \subseteq cut',
         \A x \in sessions' : x.old => x \in sessions \/ Resetting(x.email)'
  PROVE  ResetEndsSessions'
<1>1. \A e : Resetting(e) => Resetting(e)'
  BY DEF Resetting, Others
<1>2. \A x \in sessions : x.old => Resetting(x.email)
  BY DEF ResetEndsSessions, Resetting
<1>. QED BY <1>1, <1>2 DEF ResetEndsSessions, Resetting

LEMMA StepKeepsReset ==
  ASSUME IInv, ResetEndsSessions, [Next]_vars
  PROVE  ResetEndsSessions'
<1>1. CASE UNCHANGED vars
  BY <1>1 DEF vars, ResetEndsSessions
<1>2. ASSUME NEW r \in Requests, NEW e \in Emails, NEW s \in Subs,
             GoogleLogin(r, s, e)
      PROVE  ResetEndsSessions'
  <2>1. Others(r) /\ pc[r] # "revoke" /\ sessions' = sessions /\ cut' = cut
    BY <1>2, OthersStandStill DEF GoogleLogin
  <2>. QED BY <2>1, QuietReset
<1>3. ASSUME NEW r \in Requests, NEW e \in Emails,
             \/ Register(r, e) \/ Resend(r, e) \/ ForgetPassword(r, e) \/ VerifyEmail(r, e)
             \/ SetPassword(r, e) \/ Login(r, e) \/ VerifyOrderOtp(r, e)
      PROVE  ResetEndsSessions'
  <2>1. Others(r) /\ pc[r] # "revoke" /\ sessions' = sessions /\ cut' = cut
    BY <1>3, OthersStandStill
       DEF Register, Resend, ForgetPassword, VerifyEmail, SetPassword, Login, VerifyOrderOtp
  <2>. QED BY <2>1, QuietReset
<1>4. ASSUME NEW r \in Requests,
             \/ Registered(r) \/ DeleteLinks(r) \/ CreateLink(r) \/ MailLink(r) \/ Verified(r)
             \/ FindGoogleUser(r) \/ LinkGoogle(r) \/ CreateGoogleUser(r)
      PROVE  ResetEndsSessions'
  <2>1. Others(r) /\ pc[r] # "revoke" /\ sessions' = sessions /\ cut' = cut
    BY <1>4, OthersStandStill
       DEF Registered, DeleteLinks, CreateLink, MailLink, Verified, FindGoogleUser, LinkGoogle,
           CreateGoogleUser, Return
  <2>. QED BY <2>1, QuietReset
<1>5. ASSUME NEW r \in Requests, PasswordSet(r) PROVE ResetEndsSessions'
  <2>1. /\ Goto(r, "revoke", [email |-> job[r].email]) /\ pc[r] # "revoke" /\ cut' = cut
        /\ sessions' = {[x EXCEPT !.old = @ \/ x.email = job[r].email] : x \in sessions}
    BY <1>5 DEF PasswordSet
  <2>2. Others(r) /\ \A e : e = job[r].email => Resetting(e)'
    BY <2>1, OthersStandStill, GotoSets DEF Resetting
  <2>3. ASSUME NEW x \in sessions', x.old
        PROVE  x \in sessions \/ Resetting(x.email)'
    <3>1. PICK y \in sessions : x = [y EXCEPT !.old = @ \/ y.email = job[r].email]
      BY <2>1
    <3>2. y \in [email: Emails, old: BOOLEAN]
      BY DEF IInv, Tables
    <3>3. CASE y.email = job[r].email
      BY <2>2, <3>1, <3>2, <3>3
    <3>4. CASE y.email # job[r].email
      BY <3>1, <3>2, <3>4
    <3>. QED BY <3>3, <3>4
  <2>. QED BY <2>1, <2>2, <2>3, QuietReset
<1>6. ASSUME NEW r \in Requests, SessionsRevoked(r) PROVE ResetEndsSessions'
  <2>1. Others(r) /\ cut' = cut
    BY <1>6, OthersStandStill DEF SessionsRevoked
  <2>2. \A x \in sessions' : x \in sessions /\ x.email # job[r].email
    BY <1>6 DEF SessionsRevoked
  <2>. QED BY <2>1, <2>2 DEF ResetEndsSessions, Others
<1>7. ASSUME NEW r \in Requests, SignIn(r) PROVE ResetEndsSessions'
  <2>1. Others(r) /\ pc[r] # "revoke" /\ cut' = cut
    BY <1>7, OthersStandStill DEF SignIn, Return
  <2>2. \A x \in sessions' : x.old => x \in sessions
    BY <1>7 DEF SignIn
  <2>. QED BY <2>1, <2>2, QuietReset
<1>8. ASSUME NEW r \in Requests, RequestFails(r) PROVE ResetEndsSessions'
  <2>1. Others(r) /\ cut \subseteq cut' /\ sessions' = sessions
    BY <1>8, OthersStandStill DEF RequestFails, Return
  <2>2. pc[r] = "revoke" => job[r].email \in cut'
    BY <1>8 DEF RequestFails
  <2>. QED BY <2>1, <2>2 DEF ResetEndsSessions, Others
<1>9. ASSUME NEW i \in Ids, LinkExpires(i) PROVE ResetEndsSessions'
  BY <1>9 DEF LinkExpires, ResetEndsSessions
<1>. QED BY <1>1, <1>2, <1>3, <1>4, <1>5, <1>6, <1>7, <1>8, <1>9 DEF Next

\* Once a password is set by a link, no session from before it is left, however
\* many requests reset, sign in and fail at once, unless the request that set
\* the password died before it revoked them.
THEOREM ResetsEndSessions ==
  ASSUME AccountsAssumption
  PROVE  Spec => []ResetEndsSessions
<1>1. Init => ResetEndsSessions
  BY DEF Init, ResetEndsSessions
<1>2. IInv /\ ResetEndsSessions /\ [Next]_vars => ResetEndsSessions'
  BY StepKeepsReset
<1>. QED BY <1>1, <1>2, Invariant, PTL DEF Spec

\* An address that waits to be verified; the link it waits for.
Waits(e) == users[e] # NoUser /\ ~users[e].verified
BeingMailed(i) == \E r \in Requests : pc[r] = "mail" /\ job[r].link = i
Arrives(e) == \E i \in LinksOf("verify", e) : links[i].mailed \/ BeingMailed(i)
Prepared(e) == \E r \in Requests : /\ pc[r] \in {"replace", "create"}
                                   /\ job[r].email = e /\ job[r].kind = "verify"

\* What a request mails is the link it stored, if that is still there.
MailsItsOwn ==
  \A r \in Requests : pc[r] = "mail" /\ links[job[r].link] # NoLink =>
    links[job[r].link].email = job[r].email /\ links[job[r].link].kind = job[r].kind

InReach ==
  /\ \A e \in Emails \ cut : Waits(e) => Arrives(e) \/ Prepared(e)
  /\ MailsItsOwn

LEMMA MailedIsALink ==
  ASSUME IInv, NEW r \in Requests, pc[r] = "mail"
  PROVE  job[r].link \in Ids
<1>1. job[r] \in Jobs["mail"]
  BY JobAt
<1>. QED BY <1>1, JobsAre DEF ToMail

LEMMA InReachMeans == InReach => NobodyIsLockedOut
BY DEF InReach, NobodyIsLockedOut, Waits, Arrives, Prepared, BeingMailed

\* Only a registration adds an address that waits.
LEMMA WaitsOnlyIfItDid ==
  ASSUME IInv, NEW e \in Emails, NEW u, u.verified, users' = [users EXCEPT ![e] = u]
  PROVE  \A x \in Emails : Waits(x)' => Waits(x)
BY DEF IInv, Tables, Waits

\* A request with another purpose leaves the links that are waited for alone.
LEMMA QuietMail ==
  ASSUME IInv, InReach, NEW r \in Requests, Others(r),
         pc[r] \notin {"replace", "create", "mail"}, pc'[r] # "mail", cut \subseteq cut',
         \A e \in Emails : Waits(e)' => Waits(e),
         \A i \in Ids : links'[i] \in {links[i], NoLink},
         \A e \in Emails : Waits(e)' => \A i \in LinksOf("verify", e) : links'[i] = links[i]
  PROVE  InReach'
<1>1. ASSUME NEW e \in Emails \ cut', Waits(e)'
      PROVE  Arrives(e)' \/ Prepared(e)'
  <2>1. Arrives(e) \/ Prepared(e)
    BY <1>1 DEF InReach
  <2>2. CASE Prepared(e)
    BY <2>2 DEF Prepared, Others
  <2>3. CASE Arrives(e)
    <3>1. PICK i \in LinksOf("verify", e) : links[i].mailed \/ BeingMailed(i)
      BY <2>3 DEF Arrives
    <3>2. i \in Ids /\ links'[i] = links[i]
      BY <1>1, <3>1 DEF LinksOf
    <3>3. i \in LinksOf("verify", e)'
      BY <3>1, <3>2 DEF LinksOf
    <3>4. links'[i].mailed \/ \E q \in Requests : pc'[q] = "mail" /\ job'[q].link = i
      BY <3>1, <3>2 DEF BeingMailed, Others
    <3>. QED BY <3>3, <3>4 DEF Arrives, BeingMailed
  <2>. QED BY <2>1, <2>2, <2>3
<1>2. MailsItsOwn'
  <2>1. SUFFICES ASSUME NEW q \in Requests, pc'[q] = "mail", links'[job'[q].link] # NoLink
                 PROVE  /\ links'[job'[q].link].email = job'[q].email
                        /\ links'[job'[q].link].kind = job'[q].kind
    BY DEF MailsItsOwn
  <2>2. pc[q] = "mail" /\ job'[q] = job[q]
    BY <2>1 DEF Others
  <2>3. job[q].link \in Ids
    BY <2>2, MailedIsALink
  <2>. QED BY <2>1, <2>2, <2>3 DEF InReach, MailsItsOwn
<1>. QED BY <1>1, <1>2 DEF InReach

LEMMA RegisteredKeepsReach ==
  ASSUME AccountsAssumption, IInv, InReach, NEW r \in Requests, Registered(r)
  PROVE  InReach'
<1>1. CASE users[job[r].email] # NoUser
  BY <1>1, OthersStandStill, GotoSets, QuietMail DEF Registered, Return, Waits
<1>2. CASE users[job[r].email] = NoUser
  <2>1. PICK a \in Emails : a = job[r].email
    BY JobAt, JobsHaveAddresses, StepsAre DEF Registered
  <2>2. /\ Others(r) /\ pc[r] = "register" /\ pc'[r] = "replace"
        /\ job'[r] = [email |-> a, kind |-> "verify"]
        /\ UNCHANGED <<links, cut>>
        /\ \A x \in Emails \ {a} : users'[x] = users[x]
    BY <1>2, <2>1, OthersStandStill, GotoSets DEF Registered, IInv, Tables
  <2>3. ASSUME NEW e \in Emails \ cut', Waits(e)'
        PROVE  Arrives(e)' \/ Prepared(e)'
    <3>1. CASE e = a
      BY <2>2, <3>1 DEF Prepared
    <3>2. CASE e # a
      <4>1. Arrives(e) \/ Prepared(e)
        BY <2>2, <2>3, <3>2 DEF InReach, Waits
      <4>. QED BY <2>2, <4>1 DEF Arrives, Prepared, BeingMailed, LinksOf, Others
    <3>. QED BY <3>1, <3>2
  <2>4. MailsItsOwn'
    BY <2>2 DEF InReach, MailsItsOwn, Others
  <2>. QED BY <2>3, <2>4 DEF InReach
<1>. QED BY <1>1, <1>2

LEMMA DeleteLinksKeepsReach ==
  ASSUME IInv, InReach, NEW r \in Requests, DeleteLinks(r)
  PROVE  InReach'
<1>1. PICK j : j = job[r]
  OBVIOUS
<1>2. /\ Others(r) /\ pc[r] = "replace" /\ pc'[r] = "create" /\ job'[r] = j
      /\ UNCHANGED <<users, cut>>
  BY <1>1, OthersStandStill, GotoSets DEF DeleteLinks
<1>3. \A i \in Ids : links'[i] = IF links[i].kind = j.kind /\ links[i].email = j.email
                                 THEN NoLink ELSE links[i]
  BY <1>1 DEF DeleteLinks, Without, LinksOf
<1>4. ASSUME NEW e \in Emails \ cut', Waits(e)'
      PROVE  Arrives(e)' \/ Prepared(e)'
  <2>1. Arrives(e) \/ Prepared(e)
    BY <1>2, <1>4 DEF InReach, Waits
  <2>2. CASE j.email = e /\ j.kind = "verify"
    BY <1>2, <2>2 DEF Prepared
  <2>3. CASE ~(j.email = e /\ j.kind = "verify")
    <3>1. Prepared(e) => Prepared(e)'
      BY <1>1, <1>2, <2>3 DEF Prepared, Others
    <3>2. \A i \in LinksOf("verify", e) : i \in Ids /\ links'[i] = links[i]
      BY <1>3, <2>3 DEF LinksOf
    <3>3. \A i : BeingMailed(i) => BeingMailed(i)'
      BY <1>2 DEF BeingMailed, Others
    <3>4. Arrives(e) => Arrives(e)'
      BY <3>2, <3>3 DEF Arrives, LinksOf
    <3>. QED BY <2>1, <3>1, <3>4
  <2>. QED BY <2>2, <2>3
<1>5. MailsItsOwn'
  <2>1. SUFFICES ASSUME NEW q \in Requests, pc'[q] = "mail", links'[job'[q].link] # NoLink
                 PROVE  /\ links'[job'[q].link].email = job'[q].email
                        /\ links'[job'[q].link].kind = job'[q].kind
    BY DEF MailsItsOwn
  <2>2. pc[q] = "mail" /\ job'[q] = job[q]
    BY <1>2, <2>1 DEF Others
  <2>3. job[q].link \in Ids
    BY <2>2, MailedIsALink
  <2>. QED BY <1>3, <2>1, <2>2, <2>3 DEF InReach, MailsItsOwn
<1>. QED BY <1>4, <1>5 DEF InReach

LEMMA CreateLinkKeepsReach ==
  ASSUME IInv, InReach, NEW r \in Requests, CreateLink(r)
  PROVE  InReach'
<1>1. PICK j \in ToSend : j = job[r]
  BY JobAt, JobsAre DEF CreateLink
<1>2. PICK i \in Ids :
        /\ Fresh(i)
        /\ links' = [links EXCEPT ![i] = [kind |-> j.kind, email |-> j.email,
                                          mailed |-> FALSE, expired |-> FALSE]]
        /\ Goto(r, "mail", [email |-> j.email, kind |-> j.kind, link |-> i])
  BY <1>1 DEF CreateLink
<1>3. /\ Others(r) /\ pc[r] = "create" /\ pc'[r] = "mail"
      /\ job'[r] = [email |-> j.email, kind |-> j.kind, link |-> i]
      /\ UNCHANGED <<users, cut>>
  BY <1>2, OthersStandStill, GotoSets DEF CreateLink
<1>4. /\ links'[i] = [kind |-> j.kind, email |-> j.email, mailed |-> FALSE, expired |-> FALSE]
      /\ \A k \in Ids \ {i} : links'[k] = links[k]
      /\ links[i] = NoLink /\ \A q \in Requests : pc[q] = "mail" => job[q].link # i
  BY <1>2 DEF IInv, Tables, Fresh
<1>5. ASSUME NEW e \in Emails \ cut', Waits(e)'
      PROVE  Arrives(e)' \/ Prepared(e)'
  <2>1. Arrives(e) \/ Prepared(e)
    BY <1>3, <1>5 DEF InReach, Waits
  <2>2. CASE j.email = e /\ j.kind = "verify"
    <3>1. i \in LinksOf("verify", e)'
      BY <1>4, <2>2 DEF LinksOf
    <3>2. BeingMailed(i)'
      BY <1>3 DEF BeingMailed
    <3>. QED BY <3>1, <3>2 DEF Arrives
  <2>3. CASE ~(j.email = e /\ j.kind = "verify")
    <3>1. Prepared(e) => Prepared(e)'
      BY <1>1, <1>3, <2>3 DEF Prepared, Others
    <3>2. \A k \in LinksOf("verify", e) : k \in Ids /\ links'[k] = links[k]
      BY <1>4 DEF LinksOf, NoLink
    <3>3. \A k : BeingMailed(k) => BeingMailed(k)'
      BY <1>3 DEF BeingMailed, Others
    <3>4. Arrives(e) => Arrives(e)'
      BY <3>2, <3>3 DEF Arrives, LinksOf
    <3>. QED BY <2>1, <3>1, <3>4
  <2>. QED BY <2>2, <2>3
<1>6. MailsItsOwn'
  <2>1. SUFFICES ASSUME NEW q \in Requests, pc'[q] = "mail", links'[job'[q].link] # NoLink
                 PROVE  /\ links'[job'[q].link].email = job'[q].email
                        /\ links'[job'[q].link].kind = job'[q].kind
    BY DEF MailsItsOwn
  <2>2. CASE q = r
    BY <1>3, <1>4, <2>2
  <2>3. CASE q # r
    <3>1. pc[q] = "mail" /\ job'[q] = job[q] /\ job[q].link \in Ids \ {i}
      <4>1. pc[q] = "mail" /\ job'[q] = job[q]
        BY <1>3, <2>1, <2>3 DEF Others
      <4>. QED BY <1>4, <4>1, MailedIsALink
    <3>. QED BY <1>4, <2>1, <3>1 DEF InReach, MailsItsOwn
  <2>. QED BY <2>2, <2>3
<1>. QED BY <1>5, <1>6 DEF InReach

\* Links that only change in whether they are mailed or expired.
LEMMA SameLinks ==
  ASSUME IInv, MailsItsOwn, NEW r \in Requests, Others(r), pc'[r] # "mail",
         \A i \in Ids : /\ links'[i] = NoLink <=> links[i] = NoLink
                        /\ links'[i].kind = links[i].kind
                        /\ links[i] # NoLink => links'[i].email = links[i].email
  PROVE  MailsItsOwn'
<1>1. SUFFICES ASSUME NEW q \in Requests, pc'[q] = "mail", links'[job'[q].link] # NoLink
               PROVE  /\ links'[job'[q].link].email = job'[q].email
                      /\ links'[job'[q].link].kind = job'[q].kind
  BY DEF MailsItsOwn
<1>2. pc[q] = "mail" /\ job'[q] = job[q]
  BY <1>1 DEF Others
<1>3. job[q].link \in Ids
  BY <1>2, MailedIsALink
<1>. QED BY <1>1, <1>2, <1>3 DEF MailsItsOwn

LEMMA MailLinkKeepsReach ==
  ASSUME IInv, InReach, NEW r \in Requests, MailLink(r)
  PROVE  InReach'
<1>1. PICK i \in Ids : i = job[r].link
  BY MailedIsALink DEF MailLink
<1>2. /\ Others(r) /\ pc[r] = "mail" /\ pc'[r] = "idle" /\ UNCHANGED <<users, cut>>
      /\ links' = IF links[i] = NoLink THEN links ELSE [links EXCEPT ![i].mailed = TRUE]
  BY <1>1, OthersStandStill, GotoSets DEF MailLink, Return
<1>3. \A k \in Ids : /\ links'[k] = NoLink <=> links[k] = NoLink
                     /\ links'[k].kind = links[k].kind
                     /\ links[k] # NoLink => /\ links'[k].email = links[k].email
                                             /\ links[k].mailed => links'[k].mailed
                                             /\ k = i => links'[k].mailed
  BY <1>2 DEF IInv, Tables, LinkRows, NoLink
<1>4. ASSUME NEW e \in Emails \ cut', Waits(e)'
      PROVE  Arrives(e)' \/ Prepared(e)'
  <2>1. Arrives(e) \/ Prepared(e)
    BY <1>2, <1>4 DEF InReach, Waits
  <2>2. CASE Prepared(e)
    BY <1>2, <2>2 DEF Prepared, Others
  <2>3. CASE Arrives(e)
    <3>1. PICK k \in LinksOf("verify", e) : links[k].mailed \/ BeingMailed(k)
      BY <2>3 DEF Arrives
    <3>2. k \in Ids /\ links[k] # NoLink /\ k \in LinksOf("verify", e)'
      BY <1>3, <3>1 DEF LinksOf, NoLink
    <3>3. links'[k].mailed \/ BeingMailed(k)'
      BY <1>1, <1>2, <1>3, <3>1, <3>2 DEF BeingMailed, Others
    <3>. QED BY <3>2, <3>3 DEF Arrives
  <2>. QED BY <2>1, <2>2, <2>3
<1>5. MailsItsOwn'
  BY <1>2, <1>3, SameLinks DEF InReach
<1>. QED BY <1>4, <1>5 DEF InReach

LEMMA RequestFailsKeepsReach ==
  ASSUME IInv, InReach, NEW r \in Requests, RequestFails(r)
  PROVE  InReach'
<1>1. /\ Others(r) /\ pc'[r] = "idle" /\ cut \subseteq cut' /\ UNCHANGED <<users, links>>
      /\ pc[r] \in {"replace", "create", "mail"} => job[r].email \in cut'
  BY OthersStandStill, GotoSets DEF RequestFails, Return
<1>2. ASSUME NEW e \in Emails \ cut', Waits(e)'
      PROVE  Arrives(e)' \/ Prepared(e)'
  <2>1. Arrives(e) \/ Prepared(e)
    BY <1>1, <1>2 DEF InReach, Waits
  <2>2. CASE Prepared(e)
    BY <1>1, <1>2, <2>2 DEF Prepared, Others
  <2>3. CASE Arrives(e)
    <3>1. PICK k \in LinksOf("verify", e) : links[k].mailed \/ BeingMailed(k)
      BY <2>3 DEF Arrives
    <3>2. links[k] # NoLink /\ links[k].email = e
      BY <3>1 DEF LinksOf, NoLink
    <3>3. BeingMailed(k) => BeingMailed(k)'
      BY <1>1, <1>2, <3>2 DEF BeingMailed, Others, InReach, MailsItsOwn
    <3>4. k \in LinksOf("verify", e)' /\ (links'[k].mailed \/ BeingMailed(k)')
      BY <1>1, <3>1, <3>3 DEF LinksOf
    <3>. QED BY <3>4 DEF Arrives
  <2>. QED BY <2>1, <2>2, <2>3
<1>3. MailsItsOwn'
  BY <1>1 DEF InReach, MailsItsOwn, Others
<1>. QED BY <1>2, <1>3 DEF InReach

LEMMA LinkExpiresKeepsReach ==
  ASSUME IInv, InReach, NEW i \in Ids, LinkExpires(i)
  PROVE  InReach'
<1>1. /\ UNCHANGED <<users, cut, pc, job>>
      /\ \A k \in Ids : /\ links'[k] = NoLink <=> links[k] = NoLink
                        /\ links'[k].kind = links[k].kind
                        /\ links[k] # NoLink => /\ links'[k].email = links[k].email
                                                /\ links'[k].mailed = links[k].mailed
  BY DEF LinkExpires, IInv, Tables, LinkRows, NoLink
<1>2. ASSUME NEW e \in Emails \ cut', Waits(e)'
      PROVE  Arrives(e)' \/ Prepared(e)'
  <2>1. Arrives(e) \/ Prepared(e)
    BY <1>1, <1>2 DEF InReach, Waits
  <2>2. Arrives(e) => Arrives(e)'
    BY <1>1 DEF Arrives, LinksOf, BeingMailed, NoLink
  <2>. QED BY <1>1, <2>1, <2>2 DEF Prepared
<1>3. MailsItsOwn'
  <2>1. \A q \in Requests : pc[q] = "mail" => job[q].link \in Ids
    BY MailedIsALink
  <2>. QED BY <1>1, <2>1 DEF InReach, MailsItsOwn
<1>. QED BY <1>2, <1>3 DEF InReach

\* Writers of an account that leave it verified.
LEMMA WritersVerify ==
  ASSUME IInv, NEW r \in Requests,
         \/ Verified(r) \/ PasswordSet(r) \/ LinkGoogle(r) \/ CreateGoogleUser(r)
         \/ \E e \in Emails : VerifyOrderOtp(r, e)
  PROVE  \A e \in Emails : Waits(e)' => Waits(e)
<1>1. CASE Verified(r) \/ \E e \in Emails : VerifyOrderOtp(r, e)
  <2>1. PICK e \in Emails : users[e] # NoUser /\ users' = [users EXCEPT ![e].verified = TRUE]
    BY <1>1, JobAt, JobsHaveAddresses, StepsAre DEF Verified, VerifyOrderOtp, Knows
  <2>2. [users[e] EXCEPT !.verified = TRUE].verified
    BY <2>1, VerifiedRow
  <2>. QED BY <2>1, <2>2, WaitsOnlyIfItDid
<1>2. CASE PasswordSet(r)
  <2>1. PICK e \in Emails : e = job[r].email
    BY <1>2, JobAt, JobsHaveAddresses, StepsAre DEF PasswordSet
  <2>2. \E u : u.verified /\ users' = [users EXCEPT ![e] = u]
    <3>1. users' = [users EXCEPT ![e] = [exists |-> TRUE, password |-> TRUE, verified |-> TRUE,
                      providers |-> job[r].user.providers \cup {"password"}]]
      BY <1>2, <2>1 DEF PasswordSet
    <3>. QED BY <3>1
  <2>. QED BY <2>2, WaitsOnlyIfItDid
<1>3. CASE LinkGoogle(r) \/ CreateGoogleUser(r)
  <2>1. PICK e \in Emails : e = job[r].email
    BY <1>3, JobAt, JobsHaveAddresses, StepsAre DEF LinkGoogle, CreateGoogleUser
  <2>2. CASE UNCHANGED users
    BY <2>2 DEF Waits
  <2>3. CASE users' # users
    <3>1. \E u : u.verified /\ users' = [users EXCEPT ![e] = u]
      <4>1. CASE LinkGoogle(r)
        <5>1. users' = [users EXCEPT ![e] = [exists |-> TRUE, verified |-> TRUE,
                          password |-> users[e].password,
                          providers |-> job[r].user.providers \cup {"google"}]]
          BY <2>1, <2>3, <4>1 DEF LinkGoogle
        <5>. QED BY <5>1
      <4>2. CASE CreateGoogleUser(r)
        <5>1. users' = [users EXCEPT ![e] = [exists |-> TRUE, password |-> FALSE,
                          verified |-> TRUE, providers |-> {"google"}]]
          BY <2>1, <2>3, <4>2 DEF CreateGoogleUser
        <5>. QED BY <5>1
      <4>. QED BY <1>3, <4>1, <4>2
    <3>. QED BY <3>1, WaitsOnlyIfItDid
  <2>. QED BY <2>2, <2>3
<1>. QED BY <1>1, <1>2, <1>3

LEMMA StepKeepsReach ==
  ASSUME AccountsAssumption, IInv, InReach, [Next]_vars
  PROVE  InReach'
<1>1. CASE UNCHANGED vars
  BY <1>1 DEF vars, InReach, Waits, Arrives, Prepared, BeingMailed, LinksOf, MailsItsOwn
<1>2. ASSUME NEW r \in Requests, NEW e \in Emails,
             \/ Register(r, e) \/ Resend(r, e) \/ ForgetPassword(r, e) \/ VerifyEmail(r, e)
             \/ SetPassword(r, e) \/ Login(r, e)
      PROVE  InReach'
  <2>1. Others(r) /\ pc[r] = "idle" /\ pc'[r] # "mail" /\ UNCHANGED <<users, links, cut>>
    BY <1>2, OthersStandStill, GotoSets
       DEF Register, Resend, ForgetPassword, VerifyEmail, SetPassword, Login
  <2>. QED BY <2>1, QuietMail DEF Waits
<1>3. ASSUME NEW r \in Requests, NEW e \in Emails, NEW s \in Subs, GoogleLogin(r, s, e)
      PROVE  InReach'
  <2>1. Others(r) /\ pc[r] = "idle" /\ pc'[r] # "mail" /\ UNCHANGED <<users, links, cut>>
    BY <1>3, OthersStandStill, GotoSets DEF GoogleLogin
  <2>. QED BY <2>1, QuietMail DEF Waits
<1>4. ASSUME NEW r \in Requests, FindGoogleUser(r) \/ SessionsRevoked(r) \/ SignIn(r)
      PROVE  InReach'
  <2>1. /\ Others(r) /\ pc[r] \in {"google", "revoke", "signin"} /\ pc'[r] # "mail"
        /\ UNCHANGED <<users, links, cut>>
    BY <1>4, OthersStandStill, GotoSets DEF FindGoogleUser, SessionsRevoked, SignIn, Return
  <2>. QED BY <2>1, QuietMail DEF Waits
<1>5. ASSUME NEW r \in Requests, LinkGoogle(r) \/ CreateGoogleUser(r) PROVE InReach'
  <2>1. /\ Others(r) /\ pc[r] \in {"link", "add"} /\ pc'[r] # "mail"
        /\ UNCHANGED <<links, cut>>
    BY <1>5, OthersStandStill, GotoSets DEF LinkGoogle, CreateGoogleUser, Return
  <2>. QED BY <1>5, <2>1, WritersVerify, QuietMail
<1>6. ASSUME NEW r \in Requests, NEW e \in Emails, VerifyOrderOtp(r, e) PROVE InReach'
  <2>1. Others(r) /\ pc[r] = "idle" /\ pc'[r] # "mail" /\ UNCHANGED <<links, cut>>
    BY <1>6, OthersStandStill, GotoSets DEF VerifyOrderOtp
  <2>. QED BY <1>6, <2>1, WritersVerify, QuietMail
<1>7. ASSUME NEW r \in Requests, Verified(r) PROVE InReach'
  <2>1. PICK a \in Emails : a = job[r].email /\ users[a] # NoUser
    BY <1>7, JobAt, JobsHaveAddresses, StepsAre DEF Verified, Knows
  <2>2. Others(r) /\ pc[r] = "verify" /\ pc'[r] # "mail" /\ cut' = cut
    BY <1>7, OthersStandStill, GotoSets DEF Verified
  <2>3. ~Waits(a)'
    <3>1. [users[a] EXCEPT !.verified = TRUE].verified
      BY <2>1, VerifiedRow
    <3>. QED BY <1>7, <2>1, <3>1 DEF Verified, Waits, IInv, Tables
  <2>4. \A i \in Ids : \/ links'[i] = links[i]
                       \/ links'[i] = NoLink /\ links[i].email = a
    BY <1>7, <2>1 DEF Verified, Without, LinksOf
  <2>5. ASSUME NEW e \in Emails, Waits(e)', NEW i \in LinksOf("verify", e)
        PROVE  links'[i] = links[i]
    BY <2>3, <2>4, <2>5 DEF LinksOf
  <2>. QED BY <1>7, <2>2, <2>4, <2>5, WritersVerify, QuietMail
<1>8. ASSUME NEW r \in Requests, PasswordSet(r) PROVE InReach'
  <2>1. Others(r) /\ pc[r] = "set" /\ pc'[r] # "mail" /\ cut' = cut
    BY <1>8, OthersStandStill, GotoSets DEF PasswordSet
  <2>2. \A i \in Ids : \/ links'[i] = links[i]
                       \/ links'[i] = NoLink /\ links[i].kind = "setup"
    BY <1>8 DEF PasswordSet, Without, LinksOf
  <2>3. \A e : \A i \in LinksOf("verify", e) : links'[i] = links[i]
    BY <2>2 DEF LinksOf
  <2>. QED BY <1>8, <2>1, <2>2, <2>3, WritersVerify, QuietMail
<1>9. ASSUME NEW r \in Requests,
             \/ Registered(r) \/ DeleteLinks(r) \/ CreateLink(r) \/ MailLink(r)
             \/ RequestFails(r)
      PROVE  InReach'
  BY <1>9, RegisteredKeepsReach, DeleteLinksKeepsReach, CreateLinkKeepsReach,
     MailLinkKeepsReach, RequestFailsKeepsReach
<1>10. ASSUME NEW i \in Ids, LinkExpires(i) PROVE InReach'
  BY <1>10, LinkExpiresKeepsReach
<1>. QED BY <1>1, <1>2, <1>3, <1>4, <1>5, <1>6, <1>7, <1>8, <1>9, <1>10 DEF Next

\* An account that waits to be verified has been, or will be, mailed a link that
\* is stored, however many requests for links overlap, unless one of them died:
\* whoever is mailed a link that a later request deleted is mailed that one.
THEOREM EveryoneCanVerify ==
  ASSUME AccountsAssumption
  PROVE  Spec => []NobodyIsLockedOut
<1>1. Init => InReach
  BY DEF Init, InReach, Waits, MailsItsOwn
<1>2. AccountsAssumption /\ IInv /\ InReach /\ [Next]_vars => InReach'
  BY StepKeepsReach
<1>. QED BY <1>1, <1>2, Invariant, InReachMeans, PTL DEF Spec
=============================================================================
