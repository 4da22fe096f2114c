--------------------------- MODULE SessionsProofs ---------------------------
(***************************************************************************)
(* Theorems about Sessions, for any users, concurrent requests and number  *)
(* of tokens: every session has at most one token that works, and its      *)
(* tokens form a chain.                                                    *)
(***************************************************************************)
EXTENDS Sessions, TLAPS

Steps == {"idle", "rotate", "rotating", "revoke", "revoking", "signin"}

\* The table of tokens: ids are given in order, a family is known by a token
\* not later than its members, and the two safety properties.
Table ==
  /\ tokens \in [TokenIds -> Tokens \cup {NoToken}]
  /\ nextToken \in 1..(MaxTokens + 1)
  /\ \A t \in TokenIds : Issued(t) <=> t < nextToken
  /\ \A t \in TokenIds : Issued(t) => tokens[t].family <= t
  /\ OneLiveTokenPerFamily
  /\ RotationIsAChain

\* What a request at a step knows: tokens that were issued, the live one when
\* it rotates, and the user when a sign-in follows.
JobFits(s, j) ==
  /\ s = "idle" => j = NoJob
  /\ s \in {"rotate", "rotating"} => j \in RotateJobs /\ Issued(j.token)
  /\ s = "rotating" => Live(j.token)
  /\ s \in {"revoke", "revoking", "signin"} =>
       /\ j \in RevokeJobs
       /\ \A t \in j.seen : Issued(t)
       /\ j.signIn \/ s = "signin" => j.where.scope = "user"

Rotates(r, t) == pc[r] = "rotating" /\ job[r].token = t

\* No two requests hold the row of one token.
InHand ==
  /\ pc \in [Requests -> Steps]
  /\ DOMAIN job = Requests /\ job = [r \in Requests |-> job[r]]
  /\ \A r \in Requests : JobFits(pc[r], job[r])
  /\ \A r, q \in Requests, t \in TokenIds : Rotates(r, t) /\ Rotates(q, t) => r = q

IInv == Table /\ InHand

\* The strengthened invariant is typed.
LEMMA InvariantImpliesType == IInv => TypeOK
BY DEF IInv, Table, InHand, JobFits, TypeOK, Steps

\* Without tokens and with idle requests everything holds.
LEMMA InitInvariant == Init => IInv
<1>. SUFFICES ASSUME Init PROVE IInv
  OBVIOUS
<1>1. Table
  BY SessionsAssumption
     DEF Init, Table, TokenIds, Issued, Live, OneLiveTokenPerFamily, RotationIsAChain
<1>2. InHand
  BY DEF Init, InHand, JobFits, Steps, Rotates
<1>. QED BY <1>1, <1>2 DEF IInv

\* A step of one request leaves the others' knowledge true, if no token
\* disappears and those of rotations under way stay live.
LEMMA GotoKeepsInHand ==
  ASSUME InHand, NEW r \in Requests, NEW s \in Steps, NEW j,
         Goto(r, s, j), JobFits(s, j),
         \A t \in TokenIds : Issued(t) => Issued(t)',
         \A q \in Requests, t \in TokenIds : Rotates(q, t)' /\ Live(t) => Live(t)',
         \A q \in Requests \ {r}, t \in TokenIds :
           s = "rotating" /\ j.token = t => ~Rotates(q, t)
  PROVE  InHand'
<1>1. /\ pc' \in [Requests -> Steps]
      /\ pc'[r] = s /\ job'[r] = j
      /\ DOMAIN job' = Requests /\ job' = [q \in Requests |-> job'[q]]
      /\ \A q \in Requests \ {r} : pc'[q] = pc[q] /\ job'[q] = job[q]
  BY DEF InHand, Goto
<1>2. ASSUME NEW q \in Requests PROVE JobFits(pc'[q], job'[q])
  BY <1>1 DEF InHand
<1>3. ASSUME NEW q \in Requests PROVE JobFits(pc[q], job[q])'
  <2>. DEFINE k == job'[q]
  <2>1. ASSUME pc'[q] \in {"revoke", "revoking", "signin"}, NEW t \in k.seen
        PROVE  Issued(t)'
    <3>1. k \in RevokeJobs /\ Issued(t)
      BY <1>2, <2>1 DEF JobFits
    <3>2. t \in TokenIds
      BY <2>1, <3>1 DEF RevokeJobs
    <3>. QED BY <3>1, <3>2
  <2>2. pc'[q] \in {"rotate", "rotating"} => Issued(job[q].token)'
    <3>1. SUFFICES ASSUME pc'[q] \in {"rotate", "rotating"} PROVE Issued(job[q].token)'
      OBVIOUS
    <3>2. k \in RotateJobs /\ Issued(k.token)
      BY <1>2, <3>1 DEF JobFits
    <3>3. k.token \in TokenIds
      BY <3>2 DEF RotateJobs
    <3>. QED BY <3>2, <3>3 DEF Issued
  <2>3. pc'[q] = "rotating" => Live(job[q].token)'
    <3>1. SUFFICES ASSUME pc'[q] = "rotating" PROVE Live(job[q].token)'
      OBVIOUS
    <3>2. k \in RotateJobs /\ Live(k.token)
      BY <1>2, <3>1 DEF JobFits
    <3>3. PICK t \in TokenIds : t = k.token
      BY <3>2 DEF RotateJobs
    <3>4. Rotates(q, t)' /\ Live(t)
      BY <3>1, <3>2, <3>3 DEF Rotates
    <3>5. Live(t)'
      BY <3>4
    <3>. QED BY <3>3, <3>5 DEF Live, Issued
  <2>. QED BY <1>2, <2>1, <2>2, <2>3 DEF JobFits
<1>4. ASSUME NEW q \in Requests, NEW p \in Requests, NEW t \in TokenIds,
             Rotates(q, t)', Rotates(p, t)'
      PROVE  q = p
  BY <1>1, <1>4 DEF InHand, Rotates
<1>. QED BY <1>1, <1>3, <1>4 DEF InHand

\* The same for a request that ends.
LEMMA ReturnKeepsInHand ==
  ASSUME InHand, NEW r \in Requests, Return(r),
         \A t \in TokenIds : Issued(t) => Issued(t)',
         \A q \in Requests, t \in TokenIds : Rotates(q, t)' /\ Live(t) => Live(t)'
  PROVE  InHand'
<1>1. JobFits("idle", NoJob)
  BY DEF JobFits
<1>. QED BY <1>1, GotoKeepsInHand DEF Return, Steps

\* Requests that stand still know what they knew.
LEMMA StillInHand ==
  ASSUME InHand, UNCHANGED <<pc, job>>,
         \A t \in TokenIds : Issued(t) => Issued(t)',
         \A t \in TokenIds : Live(t) => Live(t)'
  PROVE  InHand'
<1>1. ASSUME NEW q \in Requests PROVE JobFits(pc[q], job[q])'
  <2>1. JobFits(pc[q], job[q])
    BY DEF InHand
  <2>2. ASSUME pc[q] \in {"revoke", "revoking", "signin"}, NEW t \in job[q].seen
        PROVE  Issued(t)'
    BY <2>1, <2>2 DEF JobFits, RevokeJobs
  <2>3. pc[q] \in {"rotate", "rotating"} => Issued(job[q].token)'
    BY <2>1 DEF JobFits, RotateJobs
  <2>4. pc[q] = "rotating" => Live(job[q].token)'
    BY <2>1 DEF JobFits, RotateJobs
  <2>. QED BY <2>1, <2>2, <2>3, <2>4 DEF JobFits
<1>. QED BY <1>1 DEF InHand, Rotates
-----------------------------------------------------------------------------
(* The table of tokens                                                     *)

\* A sign-in starts a family of its own.
LEMMA IssueKeepsTable ==
  ASSUME Table, NEW u \in Users, NEW n \in TokenIds, n = nextToken,
         tokens' = [tokens EXCEPT ![n] = Fresh(u, n)],
         nextToken' = n + 1
  PROVE  /\ Table'
         /\ \A t \in TokenIds : (Issued(t) => Issued(t)') /\ (Live(t) => Live(t)')
<1>. USE SessionsAssumption DEF TokenIds
<1>1. /\ tokens'[n] = Fresh(u, n)
      /\ \A t \in TokenIds \ {n} : tokens'[t] = tokens[t]
      /\ ~Issued(n)
  BY DEF Table
<1>2. Fresh(u, n) \in Tokens /\ Fresh(u, n) # NoToken
  BY DEF Fresh, Tokens, NoToken
<1>3. \A t \in TokenIds \ {n} : (Issued(t)' <=> Issued(t)) /\ (Live(t)' <=> Live(t))
  BY <1>1 DEF Issued, Live
<1>4. Issued(n)' /\ Live(n)'
  BY <1>1, <1>2 DEF Issued, Live, Fresh
<1>5. /\ tokens' \in [TokenIds -> Tokens \cup {NoToken}]
      /\ nextToken' \in 1..(MaxTokens + 1)
  BY <1>2 DEF Table
<1>6. \A t \in TokenIds : Issued(t)' <=> t < nextToken'
  BY <1>3, <1>4 DEF Table
<1>7. \A t \in TokenIds : Issued(t)' => tokens'[t].family <= t
  BY <1>1, <1>3, <1>4 DEF Table, Fresh
<1>8. OneLiveTokenPerFamily'
  <2>1. ASSUME NEW t \in TokenIds, t # n, Live(t)
        PROVE  tokens[t].family # n
    BY <2>1 DEF Table, Live
  <2>. QED BY <1>1, <1>3, <2>1 DEF Table, OneLiveTokenPerFamily, Fresh
<1>9. RotationIsAChain'
  <2>1. ASSUME NEW t \in TokenIds, Issued(t)', tokens'[t].replacedBy # 0
        PROVE  /\ t # n /\ Issued(t)
               /\ tokens[t].replacedBy \in TokenIds \ {n} /\ Issued(tokens[t].replacedBy)
    <3>1. t # n /\ Issued(t) /\ tokens'[t] = tokens[t]
      BY <1>1, <1>3, <2>1 DEF Fresh
    <3>2. tokens[t] \in Tokens
      BY <3>1 DEF Table, Issued
    <3>3. tokens[t].replacedBy \in TokenIds /\ Issued(tokens[t].replacedBy)
      BY <2>1, <3>1, <3>2 DEF Table, RotationIsAChain, Tokens
    <3>. QED BY <1>1, <3>1, <3>3
  <2>2. ASSUME NEW t \in TokenIds, Issued(t)', tokens'[t].family # t
        PROVE  \E p \in TokenIds : Issued(p)' /\ tokens'[p].replacedBy = t
    <3>1. t # n /\ Issued(t) /\ tokens[t].family # t
      BY <1>1, <1>3, <2>2 DEF Fresh
    <3>2. PICK p \in TokenIds : Issued(p) /\ tokens[p].replacedBy = t
      BY <3>1 DEF Table, RotationIsAChain
    <3>. QED BY <1>1, <1>3, <3>2
  <2>3. ASSUME NEW t \in TokenIds, Issued(t)', tokens'[t].replacedBy # 0,
               NEW s \in TokenIds, s = tokens'[t].replacedBy
        PROVE  /\ Issued(s)' /\ s > t
               /\ tokens'[s].user = tokens'[t].user /\ tokens'[s].family = tokens'[t].family
               /\ tokens'[t].revoked
    BY <1>1, <1>3, <2>1, <2>3 DEF Table, RotationIsAChain
  <2>4. ASSUME NEW t \in TokenIds, Issued(t)', tokens'[t].replacedBy # 0
        PROVE  tokens'[t].replacedBy \in TokenIds
    BY <1>1, <2>1, <2>4
  <2>. QED BY <2>2, <2>3, <2>4 DEF RotationIsAChain, Issued
<1>. QED BY <1>3, <1>4, <1>5, <1>6, <1>7, <1>8, <1>9 DEF Table

\* Revoking tokens, or letting them expire, changes neither families nor chains.
LEMMA EndingKeepsTable ==
  ASSUME Table, UNCHANGED nextToken,
         tokens' \in [TokenIds -> Tokens \cup {NoToken}],
         \A t \in TokenIds :
           /\ Issued(t)' <=> Issued(t)
           /\ Live(t)' => Live(t)
           /\ Issued(t) => /\ tokens'[t].user = tokens[t].user
                           /\ tokens'[t].family = tokens[t].family
                           /\ tokens'[t].replacedBy = tokens[t].replacedBy
  PROVE  Table'
<1>1. OneLiveTokenPerFamily'
  BY DEF Table, OneLiveTokenPerFamily, Live
<1>2. RotationIsAChain'
  <2>1. ASSUME NEW t \in TokenIds, Issued(t), tokens[t].replacedBy # 0
        PROVE  /\ tokens[t].replacedBy \in TokenIds /\ Issued(tokens[t].replacedBy)
               /\ tokens'[t].revoked
    BY <2>1, SessionsAssumption DEF Table, RotationIsAChain, Live, Tokens, TokenIds, NoToken, Issued
  <2>. QED BY <2>1 DEF Table, RotationIsAChain
<1>. QED BY <1>1, <1>2 DEF Table

\* A rotation ends the live token of a family and appends the next one.
LEMMA RotationKeepsTable ==
  ASSUME Table, NEW t \in TokenIds, Live(t), NEW n \in TokenIds, n = nextToken,
         tokens' = [tokens EXCEPT
           ![t].revoked = TRUE, ![t].replacedBy = n,
           ![n] = Fresh(tokens[t].user, tokens[t].family)],
         nextToken' = n + 1
  PROVE  /\ Table'
         /\ \A s \in TokenIds : Issued(s) => Issued(s)'
         /\ \A s \in TokenIds : Live(s) /\ s # t => Live(s)'
<1>. USE SessionsAssumption DEF TokenIds
<1>1. t # n /\ ~Issued(n) /\ Issued(t) /\ tokens[t] \in Tokens /\ tokens[t].replacedBy = 0
  <2>1. t # n /\ ~Issued(n) /\ Issued(t)
    BY DEF Table, Live
  <2>2. tokens[t] \in Tokens
    BY <2>1 DEF Table, Issued
  <2>. QED BY <2>1, <2>2 DEF Table, RotationIsAChain, Live
<1>2. /\ tokens'[n] = Fresh(tokens[t].user, tokens[t].family)
      /\ tokens'[t] = [tokens[t] EXCEPT !.revoked = TRUE, !.replacedBy = n]
      /\ \A s \in TokenIds \ {t, n} : tokens'[s] = tokens[s]
      /\ DOMAIN tokens' = TokenIds /\ tokens' = [s \in TokenIds |-> tokens'[s]]
  BY <1>1 DEF Table
<1>3. tokens'[n] \in Tokens /\ tokens'[n] # NoToken /\ ~tokens'[n].revoked
  BY <1>1, <1>2 DEF Fresh, Tokens, NoToken
<1>4. /\ tokens'[t] \in Tokens /\ tokens'[t] # NoToken /\ tokens'[t].revoked
      /\ tokens'[t].replacedBy = n
      /\ tokens'[t].user = tokens[t].user /\ tokens'[t].family = tokens[t].family
  BY <1>1, <1>2 DEF Tokens, NoToken
<1>5. \A s \in TokenIds \ {t, n} : (Issued(s)' <=> Issued(s)) /\ (Live(s)' <=> Live(s))
  BY <1>2 DEF Issued, Live
<1>6. Issued(n)' /\ Live(n)' /\ Issued(t)' /\ ~Live(t)'
  BY <1>3, <1>4 DEF Issued, Live
<1>7. /\ tokens' \in [TokenIds -> Tokens \cup {NoToken}]
      /\ nextToken' \in 1..(MaxTokens + 1)
  BY <1>2, <1>3, <1>4 DEF Table
<1>8. \A s \in TokenIds : Issued(s)' <=> s < nextToken'
  BY <1>1, <1>5, <1>6 DEF Table
<1>9. \A s \in TokenIds : Issued(s)' => tokens'[s].family <= s
  <2>1. tokens'[n].family <= n
    BY <1>1, <1>2 DEF Table, Fresh, Tokens
  <2>. QED BY <1>1, <1>2, <1>4, <1>5, <2>1 DEF Table
<1>10. OneLiveTokenPerFamily'
  <2>1. ASSUME NEW s \in TokenIds \ {t, n}, Live(s)
        PROVE  tokens[s].family # tokens[t].family
    BY <2>1 DEF Table, OneLiveTokenPerFamily
  <2>2. tokens'[n].family = tokens[t].family
    BY <1>2 DEF Fresh
  <2>3. ASSUME NEW s \in TokenIds, NEW q \in TokenIds, Live(s)', Live(q)',
               tokens'[s].family = tokens'[q].family
        PROVE  s = q
    BY <1>2, <1>5, <1>6, <2>1, <2>2, <2>3 DEF Table, OneLiveTokenPerFamily
  <2>. QED BY <2>3 DEF OneLiveTokenPerFamily
<1>11. RotationIsAChain'
  <2>1. ASSUME NEW s \in TokenIds \ {t, n}, Issued(s), tokens[s].replacedBy # 0
        PROVE  /\ tokens[s].replacedBy \in TokenIds \ {n}
               /\ Issued(tokens[s].replacedBy)
    <3>1. tokens[s] \in Tokens
      BY <2>1 DEF Table, Issued
    <3>2. tokens[s].replacedBy \in TokenIds /\ Issued(tokens[s].replacedBy)
      BY <2>1, <3>1 DEF Table, RotationIsAChain, Tokens
    <3>. QED BY <1>1, <3>2
  <2>2. ASSUME NEW s \in TokenIds, Issued(s)', tokens'[s].replacedBy # 0,
               NEW q \in TokenIds, q = tokens'[s].replacedBy
        PROVE  /\ Issued(q)' /\ q > s
               /\ tokens'[q].user = tokens'[s].user /\ tokens'[q].family = tokens'[s].family
               /\ tokens'[s].revoked
    <3>1. s # n
      BY <1>2, <2>2 DEF Fresh
    <3>2. CASE s = t
      <4>1. q = n /\ n > t
        BY <1>1, <1>4, <2>2, <3>2 DEF Table
      <4>. QED BY <1>2, <1>4, <1>6, <3>2, <4>1 DEF Fresh
    <3>3. CASE s # t
      <4>1. Issued(s) /\ tokens'[s] = tokens[s] /\ q = tokens[s].replacedBy
        BY <1>2, <1>5, <2>2, <3>1, <3>3
      <4>2. q \in TokenIds \ {n} /\ Issued(q)
        BY <2>1, <2>2, <3>1, <3>3, <4>1
      <4>3. /\ q > s /\ tokens[q].user = tokens[s].user
            /\ tokens[q].family = tokens[s].family /\ tokens[s].revoked
        BY <2>2, <4>1 DEF Table, RotationIsAChain
      <4>4. Issued(q)' /\ tokens'[q].user = tokens[q].user /\ tokens'[q].family = tokens[q].family
        BY <1>2, <1>4, <1>5, <1>6, <4>2
      <4>. QED BY <4>1, <4>3, <4>4
    <3>. QED BY <3>2, <3>3
  <2>3. ASSUME NEW s \in TokenIds, Issued(s)', tokens'[s].replacedBy # 0
        PROVE  tokens'[s].replacedBy \in TokenIds
    <3>1. tokens'[s] \in Tokens
      BY <1>7, <2>3 DEF Issued
    <3>. QED BY <2>3, <3>1 DEF Tokens
  <2>4. ASSUME NEW s \in TokenIds, Issued(s)', tokens'[s].family # s
        PROVE  \E p \in TokenIds : Issued(p)' /\ tokens'[p].replacedBy = s
    <3>1. CASE s = n
      BY <1>4, <1>6, <3>1
    <3>2. CASE s # n
      <4>1. Issued(s) /\ tokens[s].family # s
        BY <1>1, <1>2, <1>4, <1>5, <2>4, <3>2
      <4>2. PICK p \in TokenIds : Issued(p) /\ tokens[p].replacedBy = s
        BY <4>1 DEF Table, RotationIsAChain
      <4>3. p # t /\ p # n
        BY <1>1, <4>2
      <4>. QED BY <1>2, <1>5, <4>2, <4>3
    <3>. QED BY <3>1, <3>2
  <2>. QED BY <2>2, <2>3, <2>4 DEF RotationIsAChain, Issued
<1>. QED BY <1>1, <1>5, <1>6, <1>7, <1>8, <1>9, <1>10, <1>11 DEF Table
-----------------------------------------------------------------------------
(* The steps                                                               *)

\* A step that leaves the two variables of the table alone leaves the table right.
LEMMA TableStands == ASSUME Table, UNCHANGED <<tokens, nextToken>> PROVE Table'
BY DEF Table, Issued, Live, OneLiveTokenPerFamily, RotationIsAChain

\* A request that only moves on, to anything but the hold of a row.
LEMMA MovingOn ==
  ASSUME IInv, NEW r \in Requests, NEW s \in Steps \ {"rotating"}, NEW j,
         Goto(r, s, j), JobFits(s, j), UNCHANGED <<tokens, nextToken>>
  PROVE  IInv'
<1>1. Table'
  BY TableStands DEF IInv
<1>2. /\ \A t \in TokenIds : Issued(t) => Issued(t)'
      /\ \A t \in TokenIds : Live(t) => Live(t)'
  BY DEF Issued, Live
<1>3. InHand'
  BY <1>2, GotoKeepsInHand DEF IInv
<1>. QED BY <1>1, <1>3 DEF IInv

\* Deciding to revoke, of a scope that exists.
LEMMA RevokeKeepsInvariant ==
  ASSUME IInv, NEW r \in Requests, NEW scope, NEW of, NEW signIn \in BOOLEAN,
         [scope |-> scope, of |-> of] \in Scopes, signIn => scope = "user",
         Revoke(r, scope, of, signIn), UNCHANGED <<tokens, nextToken>>
  PROVE  IInv'
<1>. DEFINE j == [where |-> [scope |-> scope, of |-> of], signIn |-> signIn, seen |-> {}]
<1>1. JobFits("revoke", j)
  BY DEF JobFits, RevokeJobs
<1>2. Goto(r, "revoke", j)
  BY DEF Revoke
<1>. HIDE DEF j
<1>. QED BY <1>1, <1>2, MovingOn DEF Steps

\* The UPDATE notes live tokens, so issued ones.
LEMMA RevokeStartKeeps == ASSUME IInv, NEW r \in Requests, RevokeStart(r) PROVE IInv'
<1>. DEFINE j == [job[r] EXCEPT !.seen = {t \in TokenIds : Live(t) /\ InScope(t, job[r].where)}]
<1>1. JobFits("revoke", job[r])
  BY DEF RevokeStart, IInv, InHand
<1>2. JobFits("revoking", j)
  BY <1>1 DEF JobFits, RevokeJobs, Live
<1>3. Goto(r, "revoking", j) /\ UNCHANGED <<tokens, nextToken>>
  BY DEF RevokeStart
<1>. HIDE DEF j
<1>. QED BY <1>2, <1>3, MovingOn DEF Steps

\* The rows a rotation holds are not among those revoked.
LEMMA RevokeFinishKeeps == ASSUME IInv, NEW r \in Requests, RevokeFinish(r) PROVE IInv'
<1>. DEFINE seen == job[r].seen
<1>1. JobFits("revoking", job[r]) /\ pc[r] = "revoking"
  BY DEF RevokeFinish, IInv, InHand
<1>2. /\ seen \subseteq TokenIds /\ \A t \in seen : Issued(t)
      /\ job[r] \in RevokeJobs
  BY <1>1 DEF JobFits, RevokeJobs
<1>3. \A t \in TokenIds : Issued(t) => tokens[t] \in Tokens
  BY DEF IInv, Table, Issued
<1>4. /\ \A t \in seen : tokens'[t] = [tokens[t] EXCEPT !.revoked = TRUE]
      /\ \A t \in TokenIds \ seen : tokens'[t] = tokens[t]
      /\ nextToken' = nextToken
  BY <1>2 DEF RevokeFinish
<1>5. \A t \in seen : tokens'[t] \in Tokens /\ tokens'[t] # NoToken /\ tokens'[t].revoked
  BY <1>2, <1>3, <1>4 DEF Tokens, NoToken
<1>6. tokens' \in [TokenIds -> Tokens \cup {NoToken}]
  <2>1. tokens' = [t \in TokenIds |->
          IF t \in seen THEN [tokens[t] EXCEPT !.revoked = TRUE] ELSE tokens[t]]
    BY DEF RevokeFinish
  <2>2. \A t \in TokenIds : tokens'[t] \in Tokens \cup {NoToken}
    BY <1>4, <1>5 DEF IInv, Table
  <2>. QED BY <2>1, <2>2
<1>7. ASSUME NEW t \in TokenIds
      PROVE  /\ Issued(t)' <=> Issued(t)
             /\ Live(t)' => Live(t)
             /\ t \notin seen => (Live(t)' <=> Live(t))
             /\ Issued(t) => /\ tokens'[t].user = tokens[t].user
                             /\ tokens'[t].family = tokens[t].family
                             /\ tokens'[t].replacedBy = tokens[t].replacedBy
  <2>1. CASE t \in seen
    <3>1. Issued(t) /\ Issued(t)' /\ ~Live(t)'
      BY <1>2, <1>5, <2>1 DEF Issued, Live
    <3>2. tokens'[t] = [tokens[t] EXCEPT !.revoked = TRUE] /\ tokens[t] \in Tokens
      BY <1>2, <1>3, <1>4, <2>1
    <3>3. /\ tokens'[t].user = tokens[t].user
          /\ tokens'[t].family = tokens[t].family
          /\ tokens'[t].replacedBy = tokens[t].replacedBy
      BY <3>2 DEF Tokens
    <3>. QED BY <2>1, <3>1, <3>3
  <2>2. CASE t \notin seen
    BY <1>4, <2>2 DEF Issued, Live
  <2>. QED BY <2>1, <2>2
<1>8. Table'
  BY <1>4, <1>6, <1>7, EndingKeepsTable DEF IInv
<1>9. ASSUME NEW q \in Requests, NEW t \in TokenIds, Rotates(q, t)', Live(t)
      PROVE  Live(t)'
  <2>1. q # r /\ Rotates(q, t)
    BY <1>9 DEF RevokeFinish, Return, Goto, Rotates, IInv, InHand
  <2>2. t \notin seen
    BY <2>1 DEF RevokeFinish, Locked, Rotates
  <2>. QED BY <1>7, <1>9, <2>2
<1>10. InHand'
  <2>1. CASE job[r].signIn
    <3>. DEFINE j == [job[r] EXCEPT !.seen = {}]
    <3>1. JobFits("signin", j)
      BY <1>1, <2>1 DEF JobFits, RevokeJobs
    <3>2. Goto(r, "signin", j)
      BY <2>1 DEF RevokeFinish
    <3>. HIDE DEF j
    <3>. QED BY <1>7, <1>9, <3>1, <3>2, GotoKeepsInHand DEF IInv, Steps
  <2>2. CASE ~job[r].signIn
    <3>1. Return(r)
      BY <2>2 DEF RevokeFinish
    <3>. QED BY <1>7, <1>9, <3>1, ReturnKeepsInHand DEF IInv
  <2>. QED BY <2>1, <2>2
<1>. QED BY <1>8, <1>10 DEF IInv

\* Setting a password ends in a sign-in of the same user.
LEMMA PasswordIsSetKeeps == ASSUME IInv, NEW r \in Requests, PasswordIsSet(r) PROVE IInv'
<1>1. job[r].where.of \in Users
  BY DEF PasswordIsSet, IInv, InHand, JobFits, RevokeJobs, Scopes
<1>2. PICK n \in TokenIds, u \in Users : n = nextToken /\ u = job[r].where.of
  BY <1>1 DEF PasswordIsSet
<1>3. /\ Table'
      /\ \A t \in TokenIds : (Issued(t) => Issued(t)') /\ (Live(t) => Live(t)')
  BY <1>2, IssueKeepsTable DEF PasswordIsSet, IInv
<1>4. InHand'
  BY <1>3, ReturnKeepsInHand DEF PasswordIsSet, IInv
<1>. QED BY <1>3, <1>4 DEF IInv

\* A row is held by one rotation, and only while its token is live.
LEMMA RotateKeeps == ASSUME IInv, NEW r \in Requests, Rotate(r) PROVE IInv'
<1>1. JobFits("rotate", job[r])
  BY DEF Rotate, IInv, InHand
<1>2. PICK t \in TokenIds : t = job[r].token /\ Issued(t)
  BY <1>1 DEF JobFits, RotateJobs
<1>3. tokens[t] \in Tokens
  BY <1>2 DEF IInv, Table, Issued
<1>4. CASE Live(t)
  <2>1. JobFits("rotating", job[r]) /\ Goto(r, "rotating", job[r])
    BY <1>1, <1>2, <1>4 DEF Rotate, JobFits
  <2>2. Table' /\ UNCHANGED tokens
    BY TableStands DEF Rotate, IInv
  <2>3. \A q \in Requests \ {r}, s \in TokenIds : job[r].token = s => ~Rotates(q, s)
    BY DEF Rotate, Locked, Rotates
  <2>4. \A s \in TokenIds : (Issued(s) => Issued(s)') /\ (Live(s) => Live(s)')
    BY <2>2 DEF Issued, Live
  <2>5. InHand'
    BY <2>1, <2>3, <2>4, GotoKeepsInHand DEF IInv, Steps
  <2>. QED BY <2>2, <2>5 DEF IInv
<1>5. CASE ~Live(t)
  <2>1. [scope |-> "family", of |-> tokens[t].family] \in Scopes
    BY <1>3 DEF Tokens, Scopes
  <2>2. Revoke(r, "family", tokens[t].family, FALSE) /\ UNCHANGED <<tokens, nextToken>>
    BY <1>2, <1>5 DEF Rotate
  <2>. QED BY <2>1, <2>2, RevokeKeepsInvariant
<1>. QED BY <1>4, <1>5

\* The commit replaces the token the rotation held.
LEMMA RotateCommitKeeps == ASSUME IInv, NEW r \in Requests, RotateCommit(r) PROVE IInv'
<1>1. JobFits("rotating", job[r]) /\ pc[r] = "rotating"
  BY DEF RotateCommit, IInv, InHand
<1>2. PICK t \in TokenIds, n \in TokenIds : t = job[r].token /\ Live(t) /\ n = nextToken
  BY <1>1 DEF RotateCommit, JobFits, RotateJobs
<1>3. /\ Table'
      /\ \A s \in TokenIds : Issued(s) => Issued(s)'
      /\ \A s \in TokenIds : Live(s) /\ s # t => Live(s)'
  BY <1>2, RotationKeepsTable DEF RotateCommit, IInv
<1>4. ASSUME NEW q \in Requests, NEW s \in TokenIds, Rotates(q, s)', Live(s)
      PROVE  Live(s)'
  <2>1. q # r /\ Rotates(q, s)
    BY <1>4 DEF RotateCommit, Return, Goto, Rotates, IInv, InHand
  <2>2. s # t
    BY <1>1, <1>2, <2>1 DEF IInv, InHand, Rotates
  <2>. QED BY <1>3, <1>4, <2>2
<1>5. InHand'
  BY <1>3, <1>4, ReturnKeepsInHand DEF RotateCommit, IInv
<1>. QED BY <1>3, <1>5 DEF IInv

\* Expiry is not looked at by the table.
LEMMA ExpiryKeeps == ASSUME IInv, NEW t \in TokenIds, TokenExpires(t) PROVE IInv'
<1>1. tokens[t] \in Tokens
  BY DEF TokenExpires, IInv, Table, Issued
<1>2. /\ tokens'[t] = [tokens[t] EXCEPT !.expired = TRUE]
      /\ \A s \in TokenIds \ {t} : tokens'[s] = tokens[s]
      /\ DOMAIN tokens' = TokenIds /\ tokens' = [s \in TokenIds |-> tokens'[s]]
  BY DEF TokenExpires, IInv, Table
<1>3. /\ tokens'[t] \in Tokens /\ tokens'[t] # NoToken
      /\ tokens'[t].user = tokens[t].user /\ tokens'[t].family = tokens[t].family
      /\ tokens'[t].replacedBy = tokens[t].replacedBy /\ tokens'[t].revoked = tokens[t].revoked
  BY <1>1, <1>2 DEF Tokens, NoToken
<1>4. tokens' \in [TokenIds -> Tokens \cup {NoToken}]
  BY <1>2, <1>3 DEF IInv, Table
<1>5. \A s \in TokenIds : (Issued(s)' <=> Issued(s)) /\ (Live(s)' <=> Live(s))
  BY <1>2, <1>3 DEF TokenExpires, Issued, Live
<1>6. \A s \in TokenIds : /\ tokens'[s].user = tokens[s].user
                          /\ tokens'[s].family = tokens[s].family
                          /\ tokens'[s].replacedBy = tokens[s].replacedBy
  BY <1>2, <1>3
<1>7. Table'
  BY <1>4, <1>5, <1>6, EndingKeepsTable DEF TokenExpires, IInv
<1>8. InHand'
  BY <1>5, StillInHand DEF TokenExpires, IInv
<1>. QED BY <1>7, <1>8 DEF IInv

\* A sign-in is an issued token.
LEMMA SignInKeeps == ASSUME IInv, NEW u \in Users, SignIn(u) PROVE IInv'
<1>1. PICK n \in TokenIds : n = nextToken
  BY DEF SignIn
<1>2. /\ Table'
      /\ \A t \in TokenIds : (Issued(t) => Issued(t)') /\ (Live(t) => Live(t)')
  BY <1>1, IssueKeepsTable DEF SignIn, IInv
<1>3. InHand'
  BY <1>2, StillInHand DEF SignIn, IInv
<1>. QED BY <1>2, <1>3 DEF IInv

\* Refreshing starts a revocation or a rotation.
LEMMA RefreshKeeps ==
  ASSUME IInv, NEW r \in Requests, NEW t \in TokenIds, Refresh(r, t) PROVE IInv'
<1>1. tokens[t] \in Tokens /\ UNCHANGED <<tokens, nextToken>> /\ Issued(t)
  BY DEF Refresh, IInv, Table, Issued
<1>2. CASE Revoke(r, "family", tokens[t].family, FALSE)
  <2>1. [scope |-> "family", of |-> tokens[t].family] \in Scopes
    BY <1>1 DEF Tokens, Scopes
  <2>. QED BY <1>1, <1>2, <2>1, RevokeKeepsInvariant
<1>3. CASE Revoke(r, "token", t, FALSE)
  <2>1. [scope |-> "token", of |-> t] \in Scopes
    BY DEF Scopes
  <2>. QED BY <1>1, <1>3, <2>1, RevokeKeepsInvariant
<1>4. CASE Goto(r, "rotate", [token |-> t])
  <2>1. JobFits("rotate", [token |-> t])
    BY <1>1 DEF JobFits, RotateJobs
  <2>. QED BY <1>1, <1>4, <2>1, MovingOn DEF Steps
<1>. QED BY <1>2, <1>3, <1>4 DEF Refresh

\* So do logging out and setting a password, of a token or a user.
LEMMA SignOutKeeps ==
  ASSUME IInv, NEW r \in Requests,
         \/ \E t \in TokenIds : Logout(r, t)
         \/ \E u \in Users : LogoutAll(r, u) \/ SetPassword(r, u)
  PROVE  IInv'
<1>1. ASSUME NEW t \in TokenIds, Logout(r, t) PROVE IInv'
  <2>1. [scope |-> "token", of |-> t] \in Scopes
    BY DEF Scopes
  <2>. QED BY <1>1, <2>1, RevokeKeepsInvariant DEF Logout
<1>2. ASSUME NEW u \in Users, LogoutAll(r, u) \/ SetPassword(r, u) PROVE IInv'
  <2>1. [scope |-> "user", of |-> u] \in Scopes
    BY DEF Scopes
  <2>. QED BY <1>2, <2>1, RevokeKeepsInvariant DEF LogoutAll, SetPassword
<1>. QED BY <1>1, <1>2

\* A request that dies leaves its row unchanged and unlocked.
LEMMA RequestDiesKeeps == ASSUME IInv, NEW r \in Requests, RequestDies(r) PROVE IInv'
<1>1. JobFits("idle", NoJob)
  BY DEF JobFits
<1>. QED BY <1>1, MovingOn DEF RequestDies, Return, Steps

\* The invariant is inductive.
LEMMA StepKeepsInvariant == IInv /\ [Next]_vars => IInv'
<1>. SUFFICES ASSUME IInv, [Next]_vars PROVE IInv'
  OBVIOUS
<1>1. ASSUME NEW r \in Requests, Step(r) \/ RequestDies(r) PROVE IInv'
  BY <1>1, RevokeStartKeeps, RevokeFinishKeeps, PasswordIsSetKeeps, RotateKeeps,
     RotateCommitKeeps, RequestDiesKeeps DEF Step
<1>2. ASSUME NEW r \in Requests, NEW t \in TokenIds, Refresh(r, t) \/ Logout(r, t) PROVE IInv'
  BY <1>2, RefreshKeeps, SignOutKeeps
<1>3. ASSUME NEW r \in Requests, NEW u \in Users, LogoutAll(r, u) \/ SetPassword(r, u) PROVE IInv'
  BY <1>3, SignOutKeeps
<1>4. ASSUME NEW u \in Users, SignIn(u) PROVE IInv'
  BY <1>4, SignInKeeps
<1>5. ASSUME NEW t \in TokenIds, TokenExpires(t) PROVE IInv'
  BY <1>5, ExpiryKeeps
<1>6. CASE UNCHANGED vars
  <2>1. Table'
    BY <1>6, TableStands DEF IInv, vars
  <2>2. InHand'
    BY <1>6, StillInHand DEF IInv, vars, Issued, Live
  <2>. QED BY <2>1, <2>2 DEF IInv
<1>. QED BY <1>1, <1>2, <1>3, <1>4, <1>5, <1>6 DEF Next

-----------------------------------------------------------------------------
\* The strengthened invariant holds in every reachable state.
THEOREM Invariant == Spec => []IInv
BY InitInvariant, StepKeepsInvariant, PTL DEF Spec

\* The tokens table and what the requests of auth.service.ts know are always
\* well formed.
THEOREM TypeCorrect == Spec => []TypeOK
BY Invariant, InvariantImpliesType, PTL

\* However many requests refresh, sign out or set passwords at once, a session
\* never has two tokens that work: the rotation revokes under the row's lock.
THEOREM OneLiveToken == Spec => []OneLiveTokenPerFamily
<1>1. IInv => OneLiveTokenPerFamily
  BY DEF IInv, Table
<1>. QED BY <1>1, Invariant, PTL

\* A token is replaced once, by a later token of the same user and family, and
\* every token but a sign-in's has a predecessor.
THEOREM TokensFormChains == Spec => []RotationIsAChain
<1>1. IInv => RotationIsAChain
  BY DEF IInv, Table
<1>. QED BY <1>1, Invariant, PTL
=============================================================================
