------------------------------ MODULE Sessions ------------------------------
(***************************************************************************)
(* Refresh tokens (src/src/auth/auth.service.ts: refresh, logout,          *)
(* logoutAll, setPassword, buildAuthResponse).  A sign-in starts a family  *)
(* of tokens; a refresh replaces the family's live token by a new one; a   *)
(* token presented after it was replaced ends the family.                  *)
(*                                                                         *)
(* Every UPDATE runs at READ COMMITTED: it takes the rows that match when  *)
(* it starts (RevokeStart), waits for those another transaction is         *)
(* changing, and changes the ones that still match (RevokeFinish).  A row  *)
(* committed in between is not looked at.                                  *)
(***************************************************************************)
EXTENDS Integers, FiniteSets

CONSTANTS
  Users,
  Requests,   \* concurrent HTTP requests
  MaxTokens   \* bound: refresh tokens ever issued

ASSUME SessionsAssumption == MaxTokens \in Nat

VARIABLES
  tokens,     \* refresh_tokens
  nextToken,  \* ids are random and never given twice; here in increasing order
  pc, job     \* where a request stands, and what it knows

vars == <<tokens, nextToken, pc, job>>

TokenIds == 1..MaxTokens
NoToken == [user |-> "none"]
\* a family is known by the token its sign-in issued
Tokens == [user: Users, family: TokenIds, revoked: BOOLEAN, expired: BOOLEAN,
           replacedBy: 0..MaxTokens]

NoJob == [at |-> "none"]
RotateJobs == [token: TokenIds]
Scopes == [scope: {"family", "token"}, of: TokenIds] \cup [scope: {"user"}, of: Users]
RevokeJobs == [where: Scopes, signIn: BOOLEAN, seen: SUBSET TokenIds]

TypeOK ==
  /\ tokens \in [TokenIds -> Tokens \cup {NoToken}]
  /\ nextToken \in 1..(MaxTokens + 1)
  /\ pc \in [Requests -> {"idle", "rotate", "rotating", "revoke", "revoking", "signin"}]
  /\ \A r \in Requests :
       job[r] \in CASE pc[r] = "idle" -> {NoJob}
                    [] pc[r] \in {"rotate", "rotating"} -> RotateJobs
                    [] pc[r] \in {"revoke", "revoking", "signin"} -> RevokeJobs

Init ==
  /\ tokens = [t \in TokenIds |-> NoToken]
  /\ nextToken = 1
  /\ pc = [r \in Requests |-> "idle"]
  /\ job = [r \in Requests |-> NoJob]

Goto(r, step, knows) ==
  /\ pc' = [pc EXCEPT ![r] = step]
  /\ job' = [job EXCEPT ![r] = knows]
Return(r) == Goto(r, "idle", NoJob)

Issued(t) == tokens[t] # NoToken
Live(t) == Issued(t) /\ ~tokens[t].revoked
Fresh(u, family) ==
  [user |-> u, family |-> family, revoked |-> FALSE, expired |-> FALSE, replacedBy |-> 0]

-----------------------------------------------------------------------------
(* Sign-in                                                                 *)

\* buildAuthResponse, after login, verifyEmail, googleLogin or verifyOrderOtp
SignIn(u) ==
  /\ nextToken \in TokenIds
  /\ tokens' = [tokens EXCEPT ![nextToken] = Fresh(u, nextToken)]
  /\ nextToken' = nextToken + 1
  /\ UNCHANGED <<pc, job>>

TokenExpires(t) ==
  /\ Issued(t) /\ ~tokens[t].expired
  /\ tokens' = [tokens EXCEPT ![t].expired = TRUE]
  /\ UNCHANGED <<nextToken, pc, job>>

-----------------------------------------------------------------------------
(* Revocation                                                              *)

\* (faulty Revoke: always by family)
RevokeFamily(r, scope, of, signIn) ==
  Goto(r, "revoke", [where |-> [scope |-> "family", of |-> of], signIn |-> signIn, seen |-> {}])

\* an UPDATE ... SET revoked_at = now() of the tokens of a scope
Revoke(r, scope, of, signIn) ==
  Goto(r, "revoke", [where |-> [scope |-> scope, of |-> of], signIn |-> signIn, seen |-> {}])

InScope(t, where) ==
  CASE where.scope = "family" -> tokens[t].family = where.of
    [] where.scope = "user" -> tokens[t].user = where.of
    [] where.scope = "token" -> t = where.of

RevokeStart(r) ==
  /\ pc[r] = "revoke"
  /\ Goto(r, "revoking",
          [job[r] EXCEPT !.seen = {t \in TokenIds : Live(t) /\ InScope(t, job[r].where)}])
  /\ UNCHANGED <<tokens, nextToken>>

\* the row is locked by a rotation that has not committed
Locked(t, r) == \E q \in Requests \ {r} : pc[q] = "rotating" /\ job[q].token = t

RevokeFinish(r) ==
  /\ pc[r] = "revoking"
  /\ \A t \in job[r].seen : ~Locked(t, r)
  /\ tokens' = [t \in TokenIds |->
       IF t \in job[r].seen THEN [tokens[t] EXCEPT !.revoked = TRUE] ELSE tokens[t]]
  /\ IF job[r].signIn THEN Goto(r, "signin", [job[r] EXCEPT !.seen = {}]) ELSE Return(r)
  /\ UNCHANGED nextToken

\* logout with the token of the cookie; logoutAll; and setPassword, which
\* revokes every token of the user and then signs in
Logout(r, t) ==
  /\ pc[r] = "idle" /\ Issued(t)
  /\ Revoke(r, "token", t, FALSE)
  /\ UNCHANGED <<tokens, nextToken>>
LogoutAll(r, u) ==
  /\ pc[r] = "idle"
  /\ Revoke(r, "user", u, FALSE)
  /\ UNCHANGED <<tokens, nextToken>>
SetPassword(r, u) ==
  /\ pc[r] = "idle"
  /\ Revoke(r, "user", u, TRUE)
  /\ UNCHANGED <<tokens, nextToken>>
PasswordIsSet(r) ==
  /\ pc[r] = "signin"
  /\ nextToken \in TokenIds
  /\ tokens' = [tokens EXCEPT ![nextToken] = Fresh(job[r].where.of, nextToken)]
  /\ nextToken' = nextToken + 1
  /\ Return(r)

-----------------------------------------------------------------------------
(* Rotation                                                                *)

\* refresh reads the token: a revoked one ends its family, an expired one is
\* revoked, and a live one is rotated
Refresh(r, t) ==
  /\ pc[r] = "idle" /\ Issued(t)
  /\ \/ tokens[t].revoked /\ Revoke(r, "family", tokens[t].family, FALSE)
     \/ ~tokens[t].revoked /\ tokens[t].expired /\ Revoke(r, "token", t, FALSE)
     \/ ~tokens[t].revoked /\ ~tokens[t].expired /\ Goto(r, "rotate", [token |-> t])
  /\ UNCHANGED <<tokens, nextToken>>

\* (faulty Rotate: not looking at revokedAt again)
RotateAnyway(r) ==
  /\ pc[r] = "rotate" /\ ~Locked(job[r].token, r)
  /\ Goto(r, "rotating", job[r])
  /\ UNCHANGED <<tokens, nextToken>>

\* the transaction revokes the token if it is still live, and holds its row;
\* a request that finds it revoked (count 0) ends the family
Rotate(r) ==
  /\ pc[r] = "rotate" /\ ~Locked(job[r].token, r)
  /\ LET t == job[r].token
     IN IF Live(t) THEN Goto(r, "rotating", job[r])
        ELSE Revoke(r, "family", tokens[t].family, FALSE)
  /\ UNCHANGED <<tokens, nextToken>>

\* (faulty RotateCommit: the new token starts a family of its own)
RotateIntoNewFamily(r) ==
  /\ pc[r] = "rotating" /\ nextToken \in TokenIds
  /\ LET t == job[r].token
     IN tokens' = [tokens EXCEPT ![t].revoked = TRUE, ![t].replacedBy = nextToken,
                                 ![nextToken] = Fresh(tokens[t].user, nextToken)]
  /\ nextToken' = nextToken + 1
  /\ Return(r)

\* the replacement is stored and the transaction commits
RotateCommit(r) ==
  /\ pc[r] = "rotating"
  /\ nextToken \in TokenIds
  /\ LET t == job[r].token
     IN tokens' = [tokens EXCEPT
          ![t].revoked = TRUE, ![t].replacedBy = nextToken,
          ![nextToken] = Fresh(tokens[t].user, tokens[t].family)]
  /\ nextToken' = nextToken + 1
  /\ Return(r)

\* the process goes away, or the statement fails: an open transaction is
\* rolled back
RequestDies(r) ==
  /\ pc[r] # "idle"
  /\ Return(r)
  /\ UNCHANGED <<tokens, nextToken>>

-----------------------------------------------------------------------------
Step(r) ==
  \/ RevokeStart(r) \/ RevokeFinish(r) \/ PasswordIsSet(r)
  \/ Rotate(r) \/ RotateCommit(r)

Next ==
  \/ \E r \in Requests : Step(r) \/ RequestDies(r)
  \/ \E r \in Requests, t \in TokenIds : Refresh(r, t) \/ Logout(r, t)
  \/ \E r \in Requests, u \in Users : LogoutAll(r, u) \/ SetPassword(r, u)
  \/ \E u \in Users : SignIn(u)
  \/ \E t \in TokenIds : TokenExpires(t)

Spec == Init /\ [][Next]_vars

-----------------------------------------------------------------------------
(* Safety                                                                  *)

\* However often and from wherever a session is refreshed, it has one token
\* that works.
OneLiveTokenPerFamily ==
  \A t, s \in TokenIds :
    Live(t) /\ Live(s) /\ tokens[t].family = tokens[s].family => t = s

\* The tokens of a family form a chain from its sign-in: a token is replaced
\* once, by a later token of the same user and family, and only the last of
\* the chain may be live.
RotationIsAChain ==
  /\ \A t \in TokenIds : Issued(t) /\ tokens[t].replacedBy # 0 =>
       LET s == tokens[t].replacedBy
       IN /\ Issued(s) /\ s > t
          /\ tokens[s].user = tokens[t].user /\ tokens[s].family = tokens[t].family
          /\ tokens[t].revoked
  /\ \A t \in TokenIds : Issued(t) /\ tokens[t].family # t =>
       \E p \in TokenIds : Issued(p) /\ tokens[p].replacedBy = t
=============================================================================
