--------------------------- MODULE CheckoutProofs ---------------------------
(***************************************************************************)
(* Theorems about Checkout, for any customers, wishlists, items, requests  *)
(* and limits, and any number of codes, tokens and orders.                 *)
(***************************************************************************)
EXTENDS Checkout, FiniteSetTheorems, TLAPS

\* The rows: ids that were not given yet are free, and the orders there are
\* keep to what a coupon, a code and a wishlist are good for.
Tables ==
  /\ challenges \in [ChallengeIds -> Challenges \cup {NoChallenge}]
  /\ nextChallenge \in 1..(MaxChallenges + 1)
  /\ nextToken \in 1..(MaxTokens + 1)
  /\ wishlists \in [Wishlists -> WishlistRows \cup {NoWishlist}]
  /\ orders \in [OrderIds -> OrderRows \cup {NoOrder}]
  /\ nextOrder \in 1..(MaxOrders + 1)
  /\ \A h \in ChallengeIds : h >= nextChallenge => challenges[h] = NoChallenge
  /\ \A o \in OrderIds : o >= nextOrder => orders[o] = NoOrder
  /\ CouponWithinLimits
  /\ OneOrderEach

\* What an open order transaction knows from its snapshot: the code it uses was
\* the customer's and not consumed, the wishlist was its owner's and not
\* converted, and the redemptions it counted left the coupon one more.
Knows(s, j) ==
  s = "commit" =>
    LET x == j.order
    IN /\ x.challenge # 0 =>
            /\ j.seenChallenge.email = x.customer /\ j.seenChallenge # NoChallenge
            /\ ~j.seenChallenge.consumed
       /\ x.wishlist # "none" => j.seenOrder = 0 /\ x.customer = Owner[x.wishlist]
       /\ \A o \in j.seenRedeemed : orders[o] # NoOrder
       /\ x.redeemed =>
            /\ Cardinality(j.seenRedeemed) < UsageLimit
            /\ Cardinality({o \in j.seenRedeemed : orders[o].customer = x.customer})
                 < PerCustomerLimit

JobFits(s, j) == j \in Jobs[s] /\ Knows(s, j)

InHand ==
  /\ pc \in [Requests -> Steps]
  /\ job = [r \in Requests |-> job[r]]
  /\ \A r \in Requests : JobFits(pc[r], job[r])

IInv == Tables /\ InHand

\* The strengthened invariant is typed.
LEMMA InvariantImpliesType == IInv => TypeOK
BY DEF IInv, Tables, InHand, JobFits, TypeOK

-----------------------------------------------------------------------------
(* Requests                                                                *)

LEMMA StepsAre == Steps = {"idle", "verify", "edit", "write", "commit"}
BY DEF Steps, Jobs

LEMMA JobsAre ==
  /\ Jobs["idle"] = {NoJob} /\ Jobs["verify"] = VerifyJobs /\ Jobs["edit"] = EditJobs
  /\ Jobs["write"] = LineJobs /\ Jobs["commit"] = OrderJobs
BY DEF Jobs

\* Orders are neither changed nor deleted.
Grows == \A o \in OrderIds : orders[o] # NoOrder => orders'[o] = orders[o]

\* As long as orders stay, so does what a request knows, ...
LEMMA KnowledgeStays ==
  ASSUME Grows, NEW s \in Steps, NEW j \in Jobs[s], Knows(s, j),
         NEW q \in Requests, pc'[q] = s, job'[q] = j
  PROVE  JobFits(pc[q], job[q])'
<1>1. CASE s = "commit"
  <2>1. j.seenRedeemed \subseteq OrderIds
    BY <1>1, JobsAre DEF OrderJobs
  <2>2. \A o \in j.seenRedeemed : orders[o] # NoOrder /\ orders'[o] = orders[o]
    BY <1>1, <2>1 DEF Knows, Grows
  <2>3. {o \in j.seenRedeemed : orders'[o].customer = j.order.customer}
          = {o \in j.seenRedeemed : orders[o].customer = j.order.customer}
    BY <2>2
  <2>4. Knows(pc[q], job[q])'
    BY <1>1, <2>2, <2>3 DEF Knows
  <2>. QED BY <2>4 DEF JobFits
<1>2. CASE s # "commit"
  BY <1>2 DEF JobFits, Knows
<1>. QED BY <1>1, <1>2

\* ... so a step keeps the invariant if the request itself knows what it should, ...
LEMMA GotoKeepsIInv ==
  ASSUME IInv, Tables', Grows, NEW r \in Requests, NEW s \in Steps, NEW j \in Jobs[s],
         Goto(r, s, j), Knows(pc[r], job[r])'
  PROVE  IInv'
<1>1. /\ pc' \in [Requests -> Steps]
      /\ job' = [q \in Requests |-> job'[q]]
      /\ pc'[r] = s /\ job'[r] = j
      /\ \A q \in Requests \ {r} : pc'[q] = pc[q] /\ job'[q] = job[q]
  BY DEF IInv, InHand, Goto
<1>2. ASSUME NEW q \in Requests \ {r} PROVE JobFits(pc[q], job[q])'
  <2>1. pc[q] \in Steps /\ job[q] \in Jobs[pc[q]] /\ Knows(pc[q], job[q])
    BY DEF IInv, InHand, JobFits
  <2>. QED BY <1>1, <2>1, KnowledgeStays
<1>3. JobFits(pc[r], job[r])'
  BY <1>1 DEF JobFits
<1>. QED BY <1>1, <1>2, <1>3 DEF IInv, InHand

\* ... which is nothing before it begins its transaction, or when it ends, ...
LEMMA NothingToKnow ==
  ASSUME IInv, NEW r \in Requests, NEW s, s # "commit", NEW j, Goto(r, s, j)
  PROVE  Knows(pc[r], job[r])'
BY DEF IInv, InHand, Goto, Knows

LEMMA ReturnKeepsIInv ==
  ASSUME IInv, Tables', Grows, NEW r \in Requests, Return(r)
  PROVE  IInv'
BY NothingToKnow, JobsAre, StepsAre, GotoKeepsIInv DEF Return

\* ... or when it stands still.
LEMMA StillKeepsIInv ==
  ASSUME IInv, Tables', Grows, UNCHANGED <<pc, job>>
  PROVE  IInv'
<1>1. ASSUME NEW q \in Requests PROVE JobFits(pc[q], job[q])'
  <2>1. pc[q] \in Steps /\ job[q] \in Jobs[pc[q]] /\ Knows(pc[q], job[q])
    BY DEF IInv, InHand, JobFits
  <2>. QED BY <2>1, KnowledgeStays
<1>. QED BY <1>1 DEF IInv, InHand

LEMMA JobAt ==
  ASSUME IInv, NEW r \in Requests
  PROVE  job[r] \in Jobs[pc[r]] /\ Knows(pc[r], job[r])
BY DEF IInv, InHand, JobFits

-----------------------------------------------------------------------------
(* What may change as long as the orders do not                            *)

LEMMA RedemptionsStay ==
  ASSUME orders' = orders, CouponWithinLimits
  PROVE  CouponWithinLimits'
<1>1. Redeemed' = Redeemed /\ \A c \in Customers : RedeemedBy(c)' = RedeemedBy(c)
  BY DEF Redeemed, RedeemedBy
<1>. QED BY <1>1 DEF CouponWithinLimits

\* The codes may change, if one that was consumed stays so, and its customer's.
LEMMA ChallengesMayChange ==
  ASSUME Tables, UNCHANGED <<wishlists, orders, nextOrder>>,
         challenges' \in [ChallengeIds -> Challenges \cup {NoChallenge}],
         nextChallenge' \in 1..(MaxChallenges + 1),
         nextToken' \in 1..(MaxTokens + 1),
         \A h \in ChallengeIds : h >= nextChallenge' => challenges'[h] = NoChallenge,
         \A h \in ChallengeIds : challenges[h] # NoChallenge /\ challenges[h].consumed =>
           challenges'[h].email = challenges[h].email /\ challenges'[h].consumed
  PROVE  Tables' /\ Grows
<1>1. OneOrderPerChallenge'
  <2>1. ASSUME NEW o \in OrderIds, orders[o] # NoOrder, orders[o].challenge # 0
        PROVE  LET h == orders[o].challenge
               IN challenges'[h].email = orders[o].customer /\ challenges'[h].consumed
    <3>. DEFINE h == orders[o].challenge
    <3>1. orders[o].customer \in Customers /\ h \in ChallengeIds
      BY <2>1 DEF Tables, OrderRows, ChallengeIds
    <3>2. challenges[h].email = orders[o].customer /\ challenges[h].consumed
      BY <2>1 DEF Tables, OneOrderEach, OneOrderPerChallenge
    <3>3. challenges[h] # NoChallenge
      BY <3>1, <3>2, CheckoutAssumption DEF NoChallenge
    <3>. QED BY <3>1, <3>2, <3>3
  <2>. QED BY <2>1 DEF Tables, OneOrderEach, OneOrderPerChallenge
<1>2. OneOrderPerWishlist'
  BY DEF Tables, OneOrderEach, OneOrderPerWishlist
<1>. QED BY <1>1, <1>2, RedemptionsStay DEF Tables, Grows, OneOrderEach

\* Wishlists may be edited or deleted, but the order they became is not.
LEMMA WishlistsMayChange ==
  ASSUME Tables, UNCHANGED <<challenges, nextChallenge, nextToken, orders, nextOrder>>,
         wishlists' \in [Wishlists -> WishlistRows \cup {NoWishlist}],
         \A w \in Wishlists : wishlists'[w] # NoWishlist =>
           wishlists[w] # NoWishlist /\ wishlists'[w].order = wishlists[w].order
  PROVE  Tables' /\ Grows
<1>1. OneOrderPerChallenge'
  BY DEF Tables, OneOrderEach, OneOrderPerChallenge
<1>2. OneOrderPerWishlist'
  BY DEF Tables, OneOrderEach, OneOrderPerWishlist, OrderRows
<1>. QED BY <1>1, <1>2, RedemptionsStay DEF Tables, Grows, OneOrderEach

LEMMA QuietTables ==
  ASSUME Tables,
         UNCHANGED <<challenges, nextChallenge, nextToken, wishlists, orders, nextOrder>>
  PROVE  Tables' /\ Grows
BY WishlistsMayChange DEF Tables

\* Without codes and orders, and with idle requests, everything holds.
LEMMA InitInvariant ==
  ASSUME Init
  PROVE  IInv
<1>1. OneOrderEach
  BY DEF Init, OneOrderEach, OneOrderPerChallenge, OneOrderPerWishlist
<1>2. CouponWithinLimits
  <2>1. Redeemed = {} /\ \A c \in Customers : RedeemedBy(c) = {}
    BY DEF Init, Redeemed, RedeemedBy
  <2>. QED BY <2>1, FS_EmptySet, CheckoutAssumption DEF CouponWithinLimits
<1>3. wishlists \in [Wishlists -> WishlistRows \cup {NoWishlist}]
  BY CheckoutAssumption DEF Init, WishlistRows, Contents
<1>4. Tables
  BY <1>1, <1>2, <1>3, CheckoutAssumption DEF Init, Tables
<1>5. InHand
  BY StepsAre, JobsAre DEF Init, InHand, JobFits, Knows
<1>. QED BY <1>4, <1>5 DEF IInv

-----------------------------------------------------------------------------
(* Codes                                                                   *)

LEMMA RequestOrderOtpKeepsIInv ==
  ASSUME IInv, NEW c \in Customers, RequestOrderOtp(c)
  PROVE  IInv'
<1>. DEFINE row == [email |-> c, attempts |-> 0, expired |-> FALSE, token |-> 0,
                    tokenExpired |-> FALSE, consumed |-> FALSE]
<1>1. row \in Challenges
  BY CheckoutAssumption DEF Challenges
<1>2. /\ \A h \in ChallengeIds :
           \/ h = nextChallenge /\ challenges'[h] = row
           \/ h # nextChallenge /\ challenges'[h] = challenges[h]
           \/ h # nextChallenge /\ challenges'[h] = NoChallenge /\ h \in Pending(c)
      /\ challenges' = [h \in ChallengeIds |-> challenges'[h]]
  BY DEF RequestOrderOtp
<1>3. challenges' \in [ChallengeIds -> Challenges \cup {NoChallenge}]
  BY <1>1, <1>2 DEF IInv, Tables
<1>4. nextChallenge' = nextChallenge + 1 /\ nextChallenge \in ChallengeIds
  BY DEF RequestOrderOtp
<1>5. nextChallenge' \in 1..(MaxChallenges + 1)
  BY <1>4, CheckoutAssumption DEF ChallengeIds
<1>6. \A h \in ChallengeIds : h >= nextChallenge' => challenges'[h] = NoChallenge
  BY <1>2, <1>4 DEF IInv, Tables, ChallengeIds
<1>7. \A h \in ChallengeIds : challenges[h] # NoChallenge /\ challenges[h].consumed =>
        challenges'[h].email = challenges[h].email /\ challenges'[h].consumed
  <2>1. challenges[nextChallenge] = NoChallenge
    BY <1>4 DEF IInv, Tables, ChallengeIds
  <2>. QED BY <1>2, <2>1 DEF Pending
<1>8. Tables' /\ Grows
  BY <1>3, <1>4, <1>5, <1>6, <1>7, ChallengesMayChange DEF IInv, Tables, RequestOrderOtp
<1>. QED BY <1>8, StillKeepsIInv DEF RequestOrderOtp

\* A row that is there may be written as long as its customer stays, and so
\* does its consumption.
LEMMA ChallengeMayBeWritten ==
  ASSUME Tables, NEW h \in ChallengeIds, NEW row \in Challenges,
         challenges[h] # NoChallenge, challenges' = [challenges EXCEPT ![h] = row],
         row.email = challenges[h].email, challenges[h].consumed => row.consumed,
         nextToken' \in 1..(MaxTokens + 1),
         UNCHANGED <<nextChallenge, wishlists, orders, nextOrder>>
  PROVE  Tables' /\ Grows
<1>1. /\ challenges' \in [ChallengeIds -> Challenges \cup {NoChallenge}]
      /\ challenges'[h] = row
      /\ \A g \in ChallengeIds \ {h} : challenges'[g] = challenges[g]
  BY DEF Tables
<1>2. \A g \in ChallengeIds : g >= nextChallenge' => challenges'[g] = NoChallenge
  BY <1>1 DEF Tables
<1>3. \A g \in ChallengeIds : challenges[g] # NoChallenge /\ challenges[g].consumed =>
        challenges'[g].email = challenges[g].email /\ challenges'[g].consumed
  BY <1>1
<1>. QED BY <1>1, <1>2, <1>3, ChallengesMayChange DEF Tables

LEMMA VerifyOrderOtpKeepsIInv ==
  ASSUME IInv, NEW r \in Requests, NEW c \in Customers, VerifyOrderOtp(r, c)
  PROVE  IInv'
<1>1. PICK h \in OpenToVerify(c) : Goto(r, "verify", [challenge |-> h])
  BY DEF VerifyOrderOtp
<1>2. [challenge |-> h] \in Jobs["verify"]
  BY JobsAre DEF VerifyJobs, OpenToVerify, Pending
<1>3. Tables' /\ Grows
  BY QuietTables DEF IInv, VerifyOrderOtp
<1>. QED BY <1>1, <1>2, <1>3, NothingToKnow, StepsAre, GotoKeepsIInv

LEMMA WrongOtpKeepsIInv ==
  ASSUME IInv, NEW r \in Requests, WrongOtp(r)
  PROVE  IInv'
<1>. DEFINE h == job[r].challenge
            row == [challenges[h] EXCEPT !.attempts = @ + 1]
<1>1. h \in ChallengeIds
  <2>1. job[r] \in Jobs["verify"]
    BY JobAt DEF WrongOtp
  <2>. QED BY <2>1, JobsAre DEF VerifyJobs
<1>2. Tables' /\ Grows
  <2>1. CASE challenges[h] = NoChallenge
    BY <2>1, QuietTables DEF WrongOtp, IInv
  <2>2. CASE challenges[h] # NoChallenge
    <3>1. challenges[h] \in Challenges
      BY <1>1, <2>2 DEF IInv, Tables
    <3>2. row \in Challenges /\ row.email = challenges[h].email
          /\ row.consumed = challenges[h].consumed
      BY <3>1 DEF Challenges
    <3>3. challenges' = [challenges EXCEPT ![h] = row]
      BY <2>2 DEF WrongOtp
    <3>4. UNCHANGED <<nextChallenge, nextToken, wishlists, orders, nextOrder>>
      BY DEF WrongOtp
    <3>. HIDE DEF row
    <3>. QED BY <1>1, <2>2, <3>2, <3>3, <3>4, ChallengeMayBeWritten DEF IInv, Tables
  <2>. QED BY <2>1, <2>2
<1>. QED BY <1>2, ReturnKeepsIInv DEF WrongOtp

LEMMA RightOtpKeepsIInv ==
  ASSUME IInv, NEW r \in Requests, RightOtp(r)
  PROVE  IInv'
<1>. DEFINE h == job[r].challenge
            row == [challenges[h] EXCEPT !.token = nextToken, !.tokenExpired = FALSE]
<1>1. h \in ChallengeIds
  <2>1. job[r] \in Jobs["verify"]
    BY JobAt DEF RightOtp
  <2>. QED BY <2>1, JobsAre DEF VerifyJobs
<1>2. Tables' /\ Grows
  <2>1. CASE challenges[h] = NoChallenge
    BY <2>1, QuietTables DEF RightOtp, IInv
  <2>2. CASE challenges[h] # NoChallenge
    <3>1. challenges[h] \in Challenges
      BY <1>1, <2>2 DEF IInv, Tables
    <3>2. nextToken \in 1..MaxTokens /\ nextToken' \in 1..(MaxTokens + 1)
      BY <2>2, CheckoutAssumption DEF RightOtp, IInv, Tables
    <3>3. row \in Challenges /\ row.email = challenges[h].email
          /\ row.consumed = challenges[h].consumed
      <4>1. nextToken \in 0..MaxTokens
        BY <3>2, CheckoutAssumption
      <4>. QED BY <3>1, <4>1 DEF Challenges
    <3>4. challenges' = [challenges EXCEPT ![h] = row]
      BY <2>2 DEF RightOtp
    <3>5. UNCHANGED <<nextChallenge, wishlists, orders, nextOrder>>
      BY DEF RightOtp
    <3>. HIDE DEF row
    <3>. QED BY <1>1, <2>2, <3>2, <3>3, <3>4, <3>5, ChallengeMayBeWritten DEF IInv
  <2>. QED BY <2>1, <2>2
<1>. QED BY <1>2, ReturnKeepsIInv DEF RightOtp

LEMMA ExpiryKeepsIInv ==
  ASSUME IInv, NEW h \in ChallengeIds, OtpExpires(h) \/ TokenExpires(h)
  PROVE  IInv'
<1>1. challenges[h] # NoChallenge /\ challenges[h] \in Challenges
  BY DEF IInv, Tables, OtpExpires, TokenExpires
<1>2. PICK row \in Challenges :
        /\ challenges' = [challenges EXCEPT ![h] = row]
        /\ row.email = challenges[h].email /\ row.consumed = challenges[h].consumed
  <2>. DEFINE x == [challenges[h] EXCEPT !.expired = TRUE]
              y == [challenges[h] EXCEPT !.tokenExpired = TRUE]
  <2>1. /\ x \in Challenges /\ x.email = challenges[h].email
        /\ x.consumed = challenges[h].consumed
    BY <1>1 DEF Challenges
  <2>2. /\ y \in Challenges /\ y.email = challenges[h].email
        /\ y.consumed = challenges[h].consumed
    BY <1>1 DEF Challenges
  <2>3. \/ challenges' = [challenges EXCEPT ![h] = x]
        \/ challenges' = [challenges EXCEPT ![h] = y]
    BY DEF OtpExpires, TokenExpires
  <2>. HIDE DEF x, y
  <2>. QED BY <2>1, <2>2, <2>3
<1>3. UNCHANGED <<nextChallenge, nextToken, wishlists, orders, nextOrder, pc, job>>
  BY DEF OtpExpires, TokenExpires
<1>4. Tables' /\ Grows
  BY <1>1, <1>2, <1>3, ChallengeMayBeWritten DEF IInv, Tables
<1>. QED BY <1>3, <1>4, StillKeepsIInv

-----------------------------------------------------------------------------
(* Wishlists                                                               *)

LEMMA OpenWishlistKeepsIInv ==
  ASSUME IInv, NEW r \in Requests, NEW w \in Wishlists, NEW kind \in Kinds,
         OpenWishlist(r, w, kind)
  PROVE  IInv'
<1>. DEFINE k == [kind |-> kind, wishlist |-> w, items |-> wishlists[w].items]
<1>1. wishlists[w] \in WishlistRows
  BY DEF IInv, Tables, OpenWishlist, Editable
<1>2. k \in Jobs["edit"]
  BY <1>1, JobsAre DEF EditJobs, WishlistRows
<1>3. Tables' /\ Grows
  BY QuietTables DEF IInv, OpenWishlist
<1>4. Goto(r, "edit", k)
  BY DEF OpenWishlist
<1>. QED BY <1>2, <1>3, <1>4, NothingToKnow, StepsAre, GotoKeepsIInv

LEMMA CheckLineKeepsIInv ==
  ASSUME IInv, NEW r \in Requests, CheckLine(r)
  PROVE  IInv'
<1>1. job[r].wishlist \in Wishlists
  <2>1. job[r] \in Jobs["edit"]
    BY JobAt DEF CheckLine
  <2>. QED BY <2>1, JobsAre DEF EditJobs
<1>2. PICK i \in Items \cup {"none"}, j \in Items \cup {"none"} :
        Goto(r, "write", [wishlist |-> job[r].wishlist, from |-> i, to |-> j])
  BY DEF CheckLine
<1>3. [wishlist |-> job[r].wishlist, from |-> i, to |-> j] \in Jobs["write"]
  BY <1>1, JobsAre DEF LineJobs
<1>4. Tables' /\ Grows
  BY QuietTables DEF IInv, CheckLine
<1>. QED BY <1>2, <1>3, <1>4, NothingToKnow, StepsAre, GotoKeepsIInv

LEMMA WriteLineKeepsIInv ==
  ASSUME IInv, NEW r \in Requests, WriteLine(r)
  PROVE  IInv'
<1>. DEFINE w == job[r].wishlist
            i == job[r].from
            j == job[r].to
            items == wishlists[w].items
            Gone == wishlists[w] = NoWishlist \/ (i # "none" /\ items[i] = 0)
            left == [k \in Items |->
                       items[k] + (IF k = j THEN 1 ELSE 0) - (IF k = i THEN 1 ELSE 0)]
<1>1. w \in Wishlists /\ i \in Items \cup {"none"} /\ j \in Items \cup {"none"}
  <2>1. job[r] \in Jobs["write"]
    BY JobAt DEF WriteLine
  <2>. QED BY <2>1, JobsAre DEF LineJobs
<1>2. Tables' /\ Grows
  <2>1. CASE Gone
    BY <2>1, QuietTables DEF WriteLine, IInv
  <2>2. CASE ~Gone
    <3>1. wishlists[w] \in WishlistRows /\ items \in Contents
      BY <1>1, <2>2 DEF IInv, Tables, WishlistRows
    <3>2. left \in Contents
      <4>1. j # "none" => items[j] < MaxLines \/ i = j
        BY <2>2 DEF WriteLine
      <4>2. ASSUME NEW k \in Items
            PROVE  items[k] + (IF k = j THEN 1 ELSE 0) - (IF k = i THEN 1 ELSE 0)
                     \in 0..MaxLines
        <5>1. items[k] \in 0..MaxLines /\ k # "none"
          BY <3>1, CheckoutAssumption DEF Contents
        <5>2. k = i => items[k] # 0
          BY <2>2, <5>1
        <5>3. k = j => items[k] < MaxLines \/ i = j
          BY <4>1, <5>1
        <5>. QED BY <5>1, <5>2, <5>3, CheckoutAssumption
      <4>. QED BY <4>2 DEF Contents
    <3>3. wishlists' = [wishlists EXCEPT ![w].items = left]
      BY <2>2 DEF WriteLine
    <3>. HIDE DEF left
    <3>4. [wishlists[w] EXCEPT !.items = left] \in WishlistRows
      BY <3>1, <3>2 DEF WishlistRows
    <3>5. [wishlists[w] EXCEPT !.items = left].order = wishlists[w].order
      BY <3>1 DEF WishlistRows
    <3>6. wishlists' \in [Wishlists -> WishlistRows \cup {NoWishlist}]
      BY <1>1, <3>3, <3>4 DEF IInv, Tables
    <3>7. ASSUME NEW v \in Wishlists, wishlists'[v] # NoWishlist
          PROVE  wishlists[v] # NoWishlist /\ wishlists'[v].order = wishlists[v].order
      BY <1>1, <2>2, <3>3, <3>5, <3>7 DEF IInv, Tables
    <3>. QED BY <3>6, <3>7, WishlistsMayChange DEF IInv, WriteLine
  <2>. QED BY <2>1, <2>2
<1>. QED BY <1>2, ReturnKeepsIInv DEF WriteLine

LEMMA DeleteWishlistKeepsIInv ==
  ASSUME IInv, NEW r \in Requests, DeleteWishlist(r)
  PROVE  IInv'
<1>1. job[r].wishlist \in Wishlists
  <2>1. job[r] \in Jobs["edit"]
    BY JobAt DEF DeleteWishlist
  <2>. QED BY <2>1, JobsAre DEF EditJobs
<1>2. Tables' /\ Grows
  BY <1>1, WishlistsMayChange DEF IInv, Tables, DeleteWishlist
<1>. QED BY <1>2, ReturnKeepsIInv DEF DeleteWishlist

-----------------------------------------------------------------------------
(* The order transaction                                                   *)

\* The redemptions counted are those of orders there are, and finitely many.
LEMMA RedeemedAre ==
  /\ Redeemed \subseteq OrderIds /\ \A o \in Redeemed : orders[o] # NoOrder
  /\ IsFiniteSet(Redeemed)
<1>1. Redeemed \subseteq OrderIds /\ \A o \in Redeemed : orders[o] # NoOrder
  BY DEF Redeemed
<1>2. IsFiniteSet(OrderIds)
  BY FS_Interval, CheckoutAssumption DEF OrderIds
<1>. QED BY <1>1, <1>2, FS_Subset

\* A transaction that begins knows what it should, if it was let in with a code
\* of the customer's that is not consumed, or a wishlist that is not converted.
LEMMA BeginOrderKeepsIInv ==
  ASSUME IInv, NEW r \in Requests, NEW c \in Customers,
         NEW h \in 0..MaxChallenges, NEW w \in Wishlists \cup {"none"}, NEW items \in Contents,
         BeginOrder(r, c, h, w, items),
         h # 0 => /\ h \in ChallengeIds /\ challenges[h] # NoChallenge
                  /\ challenges[h].email = c /\ ~challenges[h].consumed,
         w # "none" => Editable(w) /\ c = Owner[w]
  PROVE  IInv'
<1>1. PICK redeemed \in BOOLEAN :
        /\ redeemed => CouponLeft(c)
        /\ Goto(r, "commit",
             [order |-> [customer |-> c, challenge |-> h, wishlist |-> w,
                         items |-> items, redeemed |-> redeemed],
              seenChallenge |-> IF h = 0 THEN NoChallenge ELSE challenges[h],
              seenOrder |-> IF w = "none" THEN 0 ELSE wishlists[w].order,
              seenRedeemed |-> Redeemed])
  BY DEF BeginOrder
<1>. DEFINE x == [customer |-> c, challenge |-> h, wishlist |-> w,
                  items |-> items, redeemed |-> redeemed]
            seen == IF h = 0 THEN NoChallenge ELSE challenges[h]
            became == IF w = "none" THEN 0 ELSE wishlists[w].order
            k == [order |-> x, seenChallenge |-> seen, seenOrder |-> became,
                  seenRedeemed |-> Redeemed]
<1>2. UNCHANGED <<challenges, nextChallenge, nextToken, wishlists, orders, nextOrder>>
  BY DEF BeginOrder
<1>3. Tables' /\ Grows
  BY <1>2, QuietTables DEF IInv
<1>4. x \in OrderRows
  BY DEF OrderRows
<1>5. seen \in Challenges \cup {NoChallenge} /\ became \in 0..MaxOrders
  <2>1. seen \in Challenges \cup {NoChallenge}
    BY DEF IInv, Tables
  <2>2. w # "none" => wishlists[w] \in WishlistRows
    BY DEF IInv, Tables, Editable
  <2>. QED BY <2>1, <2>2, CheckoutAssumption DEF WishlistRows
<1>6. k \in Jobs["commit"]
  BY <1>4, <1>5, RedeemedAre, JobsAre DEF OrderJobs
<1>7. Goto(r, "commit", k)
  BY <1>1
<1>8. Knows(pc[r], job[r])'
  <2>1. pc'[r] = "commit" /\ job'[r] = k
    BY <1>7 DEF IInv, InHand, Goto
  <2>2. x.challenge # 0 =>
          /\ seen.email = x.customer /\ seen # NoChallenge /\ ~seen.consumed
    OBVIOUS
  <2>3. x.wishlist # "none" => became = 0 /\ x.customer = Owner[x.wishlist]
    BY DEF Editable
  <2>4. \A o \in Redeemed : orders'[o] # NoOrder
    BY <1>2, RedeemedAre
  <2>5. x.redeemed =>
          /\ Cardinality(Redeemed) < UsageLimit
          /\ Cardinality({o \in Redeemed : orders'[o].customer = x.customer})
               < PerCustomerLimit
    <3>1. {o \in Redeemed : orders'[o].customer = c} = RedeemedBy(c)
      BY <1>2 DEF RedeemedBy
    <3>. QED BY <1>1, <3>1 DEF CouponLeft
  <2>. HIDE DEF x, seen, became
  <2>6. /\ job'[r].order = x /\ job'[r].seenChallenge = seen
        /\ job'[r].seenOrder = became /\ job'[r].seenRedeemed = Redeemed
    BY <2>1
  <2>. QED BY <2>1, <2>2, <2>3, <2>4, <2>5, <2>6 DEF Knows
<1>. QED BY <1>3, <1>6, <1>7, <1>8, StepsAre, GotoKeepsIInv

LEMMA OrderWithAccountKeepsIInv ==
  ASSUME IInv, NEW r \in Requests, NEW c \in Customers, OrderWithAccount(r, c)
  PROVE  IInv'
<1>1. PICK items \in Contents : BeginOrder(r, c, 0, "none", items)
  BY DEF OrderWithAccount, OrderedItems
<1>2. 0 \in 0..MaxChallenges
  BY CheckoutAssumption
<1>. QED BY <1>1, <1>2, BeginOrderKeepsIInv

LEMMA OrderWithTokenKeepsIInv ==
  ASSUME IInv, NEW r \in Requests, NEW c \in Customers, NEW t \in 1..MaxTokens,
         OrderWithToken(r, c, t)
  PROVE  IInv'
<1>1. PICK h \in ChallengeIds, items \in Contents :
        Usable(challenges[h], c, t) /\ BeginOrder(r, c, h, "none", items)
  BY DEF OrderWithToken, OrderedItems
<1>2. challenges[h].email = c /\ ~challenges[h].consumed
  BY <1>1 DEF Usable
<1>3. challenges[h] # NoChallenge
  BY <1>2, CheckoutAssumption DEF NoChallenge
<1>4. h \in 0..MaxChallenges
  BY CheckoutAssumption DEF ChallengeIds
<1>. QED BY <1>1, <1>2, <1>3, <1>4, BeginOrderKeepsIInv

LEMMA ConvertWishlistKeepsIInv ==
  ASSUME IInv, NEW r \in Requests, ConvertWishlist(r)
  PROVE  IInv'
<1>. DEFINE w == job[r].wishlist
<1>1. w \in Wishlists /\ job[r].items \in Contents
  <2>1. job[r] \in Jobs["edit"]
    BY JobAt DEF ConvertWishlist
  <2>. QED BY <2>1, JobsAre DEF EditJobs
<1>2. CASE Editable(w) /\ BeginOrder(r, Owner[w], 0, w, job[r].items)
  <2>1. PICK i \in Contents : i = job[r].items
    BY <1>1
  <2>2. PICK v \in Wishlists : v = w
    BY <1>1
  <2>3. Owner[v] \in Customers /\ 0 \in 0..MaxChallenges
    BY CheckoutAssumption
  <2>. QED BY <1>2, <2>1, <2>2, <2>3, BeginOrderKeepsIInv
<1>3. CASE /\ Return(r)
           /\ UNCHANGED <<challenges, nextChallenge, nextToken, wishlists, orders, nextOrder>>
  BY <1>3, QuietTables, ReturnKeepsIInv DEF IInv
<1>. QED BY <1>2, <1>3 DEF ConvertWishlist

\* What a transaction that may commit finds: its code is still not consumed, its
\* wishlist not converted, and the coupon has one more.
LEMMA SerializableMeans ==
  ASSUME IInv, NEW r \in Requests, pc[r] = "commit", Serializable(job[r])
  PROVE  LET x == job[r].order
         IN /\ x \in OrderRows
            /\ x.challenge # 0 =>
                 /\ x.challenge \in ChallengeIds /\ challenges[x.challenge] \in Challenges
                 /\ challenges[x.challenge].email = x.customer
                 /\ ~challenges[x.challenge].consumed
            /\ x.wishlist # "none" =>
                 /\ x.wishlist \in Wishlists /\ wishlists[x.wishlist] \in WishlistRows
                 /\ wishlists[x.wishlist].order = 0 /\ x.customer = Owner[x.wishlist]
            /\ x.redeemed => CouponLeft(x.customer)
<1>. DEFINE x == job[r].order
            h == x.challenge
            w == x.wishlist
<1>1. job[r] \in OrderJobs /\ Knows("commit", job[r])
  BY JobAt, JobsAre
<1>2. x \in OrderRows /\ x.customer \in Customers
  BY <1>1 DEF OrderJobs, OrderRows
<1>3. ASSUME h # 0
      PROVE  /\ h \in ChallengeIds /\ challenges[h] \in Challenges
             /\ challenges[h].email = x.customer /\ ~challenges[h].consumed
  <2>1. h \in ChallengeIds
    BY <1>2, <1>3, CheckoutAssumption DEF OrderRows, ChallengeIds
  <2>2. /\ job[r].seenChallenge.email = x.customer /\ ~job[r].seenChallenge.consumed
    BY <1>1, <1>3 DEF Knows
  <2>3. SameRow(challenges[h], job[r].seenChallenge)
    BY <1>3 DEF Serializable
  <2>4. challenges[h].email = x.customer
    BY <2>2, <2>3 DEF SameRow
  <2>5. challenges[h] # NoChallenge
    BY <1>2, <2>4, CheckoutAssumption DEF NoChallenge
  <2>6. challenges[h].consumed = job[r].seenChallenge.consumed
    BY <2>3, <2>5 DEF SameRow
  <2>. QED BY <2>1, <2>2, <2>4, <2>5, <2>6 DEF IInv, Tables
<1>4. ASSUME w # "none"
      PROVE  /\ w \in Wishlists /\ wishlists[w] \in WishlistRows
             /\ wishlists[w].order = 0 /\ x.customer = Owner[w]
  <2>1. w \in Wishlists
    BY <1>2, <1>4 DEF OrderRows
  <2>. QED BY <1>1, <1>4, <2>1 DEF Knows, Serializable, IInv, Tables
<1>5. ASSUME x.redeemed PROVE CouponLeft(x.customer)
  <2>1. Redeemed = job[r].seenRedeemed
    BY <1>5 DEF Serializable
  <2>2. RedeemedBy(x.customer) = {o \in job[r].seenRedeemed : orders[o].customer = x.customer}
    BY <2>1 DEF RedeemedBy
  <2>. QED BY <1>1, <1>5, <2>1, <2>2 DEF Knows, CouponLeft
<1>. QED BY <1>2, <1>3, <1>4, <1>5

\* An order adds one to the redemptions it counts among, if it redeems.
LEMMA RedemptionsCount ==
  ASSUME NEW n \in OrderIds, orders[n] = NoOrder,
         NEW x \in OrderRows, orders \in [OrderIds -> OrderRows \cup {NoOrder}],
         orders' = [orders EXCEPT ![n] = x]
  PROVE  /\ Cardinality(Redeemed) \in Nat
         /\ Cardinality(Redeemed') = Cardinality(Redeemed) + (IF x.redeemed THEN 1 ELSE 0)
         /\ \A c \in Customers :
              /\ Cardinality(RedeemedBy(c)) \in Nat
              /\ Cardinality(RedeemedBy(c)') = Cardinality(RedeemedBy(c)) +
                   (IF x.redeemed /\ c = x.customer THEN 1 ELSE 0)
<1>1. x # NoOrder /\ x.customer \in Customers /\ x.redeemed \in BOOLEAN
  BY CheckoutAssumption DEF OrderRows, NoOrder
<1>2. orders'[n] = x /\ \A o \in OrderIds \ {n} : orders'[o] = orders[o]
  OBVIOUS
<1>3. n \notin Redeemed /\ IsFiniteSet(Redeemed) /\ Cardinality(Redeemed) \in Nat
  BY RedeemedAre, FS_CardinalityType DEF Redeemed
<1>4. ASSUME NEW c \in Customers
      PROVE  IsFiniteSet(RedeemedBy(c)) /\ Cardinality(RedeemedBy(c)) \in Nat
  <2>1. RedeemedBy(c) \in SUBSET Redeemed
    BY DEF RedeemedBy
  <2>. QED BY <1>3, <2>1, FS_Subset, FS_CardinalityType
<1>5. Redeemed' = IF x.redeemed THEN Redeemed \cup {n} ELSE Redeemed
  BY <1>1, <1>2, <1>3 DEF Redeemed
<1>6. \A c \in Customers :
        RedeemedBy(c)' = IF x.redeemed /\ c = x.customer THEN RedeemedBy(c) \cup {n}
                                                         ELSE RedeemedBy(c)
  BY <1>1, <1>2, <1>3, <1>5 DEF RedeemedBy, Redeemed
<1>7. \A c \in Customers : n \notin RedeemedBy(c)
  BY <1>3 DEF RedeemedBy
<1>8. Cardinality(Redeemed') = Cardinality(Redeemed) + (IF x.redeemed THEN 1 ELSE 0)
  <2>1. CASE x.redeemed
    <3>1. Redeemed' = Redeemed \cup {n}
      BY <1>5, <2>1
    <3>2. Cardinality(Redeemed \cup {n}) = Cardinality(Redeemed) + 1
      BY <1>3, FS_AddElement
    <3>. QED BY <2>1, <3>1, <3>2
  <2>2. CASE ~x.redeemed
    BY <1>3, <1>5, <2>2
  <2>. QED BY <1>1, <2>1, <2>2
<1>9. ASSUME NEW c \in Customers
      PROVE  Cardinality(RedeemedBy(c)') = Cardinality(RedeemedBy(c)) +
               (IF x.redeemed /\ c = x.customer THEN 1 ELSE 0)
  BY <1>4, <1>6, <1>7, FS_AddElement
<1>. QED BY <1>3, <1>4, <1>8, <1>9

\* One redemption more is within the limits when the coupon had one left.
LEMMA OneMoreRedemption ==
  ASSUME CouponWithinLimits, NEW n \in OrderIds, orders[n] = NoOrder,
         NEW x \in OrderRows, orders \in [OrderIds -> OrderRows \cup {NoOrder}],
         orders' = [orders EXCEPT ![n] = x], x.redeemed => CouponLeft(x.customer)
  PROVE  CouponWithinLimits'
<1>1. /\ Cardinality(Redeemed) <= UsageLimit
      /\ \A c \in Customers : Cardinality(RedeemedBy(c)) <= PerCustomerLimit
  BY DEF CouponWithinLimits
<1>2. x.redeemed => /\ Cardinality(Redeemed) < UsageLimit
                    /\ Cardinality(RedeemedBy(x.customer)) < PerCustomerLimit
  BY DEF CouponLeft
<1>3. UsageLimit \in Nat /\ PerCustomerLimit \in Nat
  BY CheckoutAssumption
<1>4. /\ Cardinality(Redeemed) \in Nat
      /\ Cardinality(Redeemed') = Cardinality(Redeemed) + (IF x.redeemed THEN 1 ELSE 0)
      /\ \A c \in Customers :
           /\ Cardinality(RedeemedBy(c)) \in Nat
           /\ Cardinality(RedeemedBy(c)') = Cardinality(RedeemedBy(c)) +
                (IF x.redeemed /\ c = x.customer THEN 1 ELSE 0)
  BY RedemptionsCount
<1>5. Cardinality(Redeemed') <= UsageLimit
  BY <1>1, <1>2, <1>3, <1>4
<1>6. ASSUME NEW c \in Customers PROVE Cardinality(RedeemedBy(c)') <= PerCustomerLimit
  <2>1. CASE x.redeemed /\ c = x.customer
    BY <1>2, <1>3, <1>4, <2>1
  <2>2. CASE ~(x.redeemed /\ c = x.customer)
    BY <1>1, <1>3, <1>4, <2>2
  <2>. QED BY <2>1, <2>2
<1>. QED BY <1>5, <1>6 DEF CouponWithinLimits

\* All of the order or nothing: either way the tables keep what they promise.
LEMMA CommitOrderKeepsIInv ==
  ASSUME IInv, NEW r \in Requests, CommitOrder(r)
  PROVE  IInv'
<1>. DEFINE x == job[r].order
            h == x.challenge
            w == x.wishlist
            n == nextOrder
<1>1. Tables' /\ Grows
  <2>1. CASE ~(nextOrder \in OrderIds /\ Serializable(job[r]))
    BY <2>1, QuietTables DEF IInv, CommitOrder
  <2>2. CASE nextOrder \in OrderIds /\ Serializable(job[r])
    <3>1. /\ orders' = [orders EXCEPT ![n] = x]
          /\ nextOrder' = n + 1
          /\ challenges' = IF h = 0 THEN challenges
                           ELSE [challenges EXCEPT ![h].consumed = TRUE]
          /\ wishlists' = IF w = "none" THEN wishlists
                          ELSE [wishlists EXCEPT ![w].order = n]
          /\ UNCHANGED <<nextChallenge, nextToken>>
      BY <2>2 DEF CommitOrder
    <3>2. /\ x \in OrderRows
          /\ h # 0 => /\ h \in ChallengeIds /\ challenges[h] \in Challenges
                      /\ challenges[h].email = x.customer /\ ~challenges[h].consumed
          /\ w # "none" => /\ w \in Wishlists /\ wishlists[w] \in WishlistRows
                           /\ wishlists[w].order = 0 /\ x.customer = Owner[w]
          /\ x.redeemed => CouponLeft(x.customer)
      BY <2>2, SerializableMeans DEF CommitOrder
    <3>. HIDE DEF x
    <3>3. orders[n] = NoOrder /\ n \in 1..MaxOrders /\ n \in Nat
      BY <2>2 DEF IInv, Tables, OrderIds
    <3>4. /\ orders' \in [OrderIds -> OrderRows \cup {NoOrder}]
          /\ orders'[n] = x /\ \A o \in OrderIds \ {n} : orders'[o] = orders[o]
      BY <2>2, <3>1, <3>2 DEF IInv, Tables
    <3>5. CouponWithinLimits'
      BY <2>2, <3>1, <3>2, <3>3, OneMoreRedemption DEF IInv, Tables
    <3>6. Grows
      BY <3>3, <3>4 DEF Grows
    <3>7. nextOrder' \in 1..(MaxOrders + 1) /\ \A o \in OrderIds :
            o >= nextOrder' => orders'[o] = NoOrder
      BY <3>1, <3>3, <3>4, CheckoutAssumption DEF IInv, Tables, OrderIds
    <3>8. /\ challenges' \in [ChallengeIds -> Challenges \cup {NoChallenge}]
          /\ \A g \in ChallengeIds : g # h => challenges'[g] = challenges[g]
          /\ h # 0 => challenges'[h].email = x.customer /\ challenges'[h].consumed
          /\ \A g \in ChallengeIds : challenges[g] = NoChallenge => challenges'[g] = NoChallenge
      <4>1. CASE h = 0
        BY <3>1, <4>1 DEF IInv, Tables
      <4>2. CASE h # 0
        <5>. DEFINE row == [challenges[h] EXCEPT !.consumed = TRUE]
        <5>1. row \in Challenges /\ row.email = x.customer /\ row.consumed
          BY <3>2, <4>2 DEF Challenges
        <5>2. challenges' = [challenges EXCEPT ![h] = row]
          BY <3>1, <4>2
        <5>3. challenges[h] # NoChallenge
          BY <3>2, <4>2, CheckoutAssumption DEF Challenges, NoChallenge
        <5>. HIDE DEF row
        <5>. QED BY <3>2, <4>2, <5>1, <5>2, <5>3 DEF IInv, Tables
      <4>. QED BY <4>1, <4>2
    <3>9. /\ wishlists' \in [Wishlists -> WishlistRows \cup {NoWishlist}]
          /\ \A v \in Wishlists : v # w => wishlists'[v] = wishlists[v]
          /\ w # "none" => wishlists'[w].order = n
      <4>1. CASE w = "none"
        BY <3>1, <4>1 DEF IInv, Tables
      <4>2. CASE w # "none"
        <5>. DEFINE row == [wishlists[w] EXCEPT !.order = n]
        <5>1. row \in WishlistRows /\ row.order = n
          <6>1. n \in 0..MaxOrders
            BY <3>3
          <6>. QED BY <3>2, <4>2, <6>1 DEF WishlistRows
        <5>2. wishlists' = [wishlists EXCEPT ![w] = row]
          BY <3>1, <4>2
        <5>. HIDE DEF row
        <5>. QED BY <3>2, <4>2, <5>1, <5>2 DEF IInv, Tables
      <4>. QED BY <4>1, <4>2
    <3>10. OneOrderPerChallenge'
      <4>1. \A o \in OrderIds : orders[o] # NoOrder /\ h # 0 => orders[o].challenge # h
        BY <3>2 DEF IInv, Tables, OneOrderEach, OneOrderPerChallenge
      <4>2. \A o \in OrderIds : orders[o] # NoOrder /\ orders[o].challenge # 0 =>
              orders[o].challenge \in ChallengeIds
        BY CheckoutAssumption DEF IInv, Tables, OrderRows, ChallengeIds
      <4>3. ASSUME NEW o \in OrderIds, orders'[o] # NoOrder, orders'[o].challenge # 0
            PROVE  LET g == orders'[o].challenge
                   IN /\ challenges'[g].email = orders'[o].customer /\ challenges'[g].consumed
                      /\ \A p \in OrderIds :
                           orders'[p] # NoOrder /\ orders'[p].challenge = g => p = o
        <5>1. CASE o = n
          BY <3>4, <3>8, <4>1, <4>3, <5>1
        <5>2. CASE o # n
          <6>. DEFINE g == orders[o].challenge
          <6>1. orders'[o] = orders[o] /\ g # h /\ g \in ChallengeIds
            BY <3>4, <4>1, <4>2, <4>3, <5>2
          <6>2. /\ challenges[g].email = orders[o].customer /\ challenges[g].consumed
                /\ \A p \in OrderIds : orders[p] # NoOrder /\ orders[p].challenge = g => p = o
            BY <4>3, <6>1 DEF IInv, Tables, OneOrderEach, OneOrderPerChallenge
          <6>. QED BY <3>4, <3>8, <6>1, <6>2
        <5>. QED BY <5>1, <5>2
      <4>. QED BY <4>3 DEF OneOrderPerChallenge
    <3>11. OneOrderPerWishlist'
      <4>1. \A o \in OrderIds : orders[o] # NoOrder /\ w # "none" => orders[o].wishlist # w
        <5>1. w # "none" => wishlists[w] # NoWishlist
          BY <3>2 DEF NoWishlist, WishlistRows
        <5>2. \A o \in OrderIds : o # 0
          BY DEF OrderIds
        <5>. QED BY <3>2, <5>1, <5>2 DEF IInv, Tables, OneOrderEach, OneOrderPerWishlist
      <4>2. \A o \in OrderIds :
              orders[o] # NoOrder => orders[o].wishlist \in Wishlists \cup {"none"}
        BY DEF IInv, Tables, OrderRows
      <4>3. ASSUME NEW o \in OrderIds, orders'[o] # NoOrder, orders'[o].wishlist # "none"
            PROVE  LET v == orders'[o].wishlist
                   IN /\ orders'[o].customer = Owner[v]
                      /\ wishlists'[v] # NoWishlist => wishlists'[v].order = o
        <5>1. CASE o = n
          BY <3>2, <3>4, <3>9, <4>3, <5>1
        <5>2. CASE o # n
          <6>. DEFINE v == orders[o].wishlist
          <6>1. orders'[o] = orders[o] /\ v # w /\ v \in Wishlists
            BY <3>4, <4>1, <4>2, <4>3, <5>2
          <6>2. orders[o].customer = Owner[v]
                /\ (wishlists[v] # NoWishlist => wishlists[v].order = o)
            BY <4>3, <6>1 DEF IInv, Tables, OneOrderEach, OneOrderPerWishlist
          <6>. QED BY <3>9, <6>1, <6>2
        <5>. QED BY <5>1, <5>2
      <4>. QED BY <4>3 DEF OneOrderPerWishlist
    <3>12. \A g \in ChallengeIds : g >= nextChallenge' => challenges'[g] = NoChallenge
      BY <3>1, <3>8 DEF IInv, Tables
    <3>13. nextChallenge' \in 1..(MaxChallenges + 1) /\ nextToken' \in 1..(MaxTokens + 1)
      BY <3>1 DEF IInv, Tables
    <3>. QED BY <3>4, <3>5, <3>6, <3>7, <3>8, <3>9, <3>10, <3>11, <3>12, <3>13
           DEF Tables, OneOrderEach
  <2>. QED BY <2>1, <2>2
<1>. QED BY <1>1, ReturnKeepsIInv DEF CommitOrder

-----------------------------------------------------------------------------
(* The theorems                                                            *)

LEMMA NextKeepsIInv == IInv /\ [Next]_vars => IInv'
<1>. SUFFICES ASSUME IInv, [Next]_vars PROVE IInv'
  OBVIOUS
<1>1. ASSUME NEW r \in Requests, Request(r) PROVE IInv'
  <2>1. CASE RequestDies(r)
    BY <2>1, QuietTables, ReturnKeepsIInv DEF IInv, RequestDies
  <2>2. ASSUME NEW w \in Wishlists, NEW kind \in Kinds, OpenWishlist(r, w, kind) PROVE IInv'
    BY <2>2, OpenWishlistKeepsIInv
  <2>3. ASSUME NEW c \in Customers, VerifyOrderOtp(r, c) \/ OrderWithAccount(r, c) PROVE IInv'
    BY <2>3, VerifyOrderOtpKeepsIInv, OrderWithAccountKeepsIInv
  <2>4. ASSUME NEW c \in Customers, NEW t \in 1..MaxTokens, OrderWithToken(r, c, t) PROVE IInv'
    BY <2>4, OrderWithTokenKeepsIInv
  <2>. QED BY <1>1, <2>1, <2>2, <2>3, <2>4, WrongOtpKeepsIInv, RightOtpKeepsIInv,
         CheckLineKeepsIInv, WriteLineKeepsIInv, DeleteWishlistKeepsIInv,
         ConvertWishlistKeepsIInv, CommitOrderKeepsIInv DEF Request
<1>2. ASSUME NEW c \in Customers, RequestOrderOtp(c) PROVE IInv'
  BY <1>2, RequestOrderOtpKeepsIInv
<1>3. ASSUME NEW h \in ChallengeIds, OtpExpires(h) \/ TokenExpires(h) PROVE IInv'
  BY <1>3, ExpiryKeepsIInv
<1>4. CASE UNCHANGED vars
  BY <1>4, QuietTables, StillKeepsIInv DEF IInv, vars
<1>. QED BY <1>1, <1>2, <1>3, <1>4 DEF Next

LEMMA Invariant == Spec => []IInv
BY InitInvariant, NextKeepsIInv, PTL DEF Spec

\* The tables and what the requests have read have the shape they should.
THEOREM TypeCorrect == Spec => []TypeOK
BY Invariant, InvariantImpliesType, PTL

\* However many checkouts count the redemptions of a coupon at once, what is
\* committed is within both of its limits.
THEOREM CouponsAreLimited == Spec => []CouponWithinLimits
<1>1. IInv => CouponWithinLimits
  BY DEF IInv, Tables
<1>. QED BY <1>1, Invariant, PTL

\* No verified code and no wishlist becomes two orders, whatever requests verify,
\* edit, delete, convert or order meanwhile.
THEOREM OneOrderOnly == Spec => []OneOrderEach
<1>1. IInv => OneOrderEach
  BY DEF IInv, Tables
<1>. QED BY <1>1, Invariant, PTL

\* What is left of a challenge that can no longer be used.
LEMMA SpentStays ==
  ASSUME IInv, [Next]_vars, NEW h \in ChallengeIds, h < nextChallenge,
         challenges[h] = NoChallenge \/ challenges[h].consumed
  PROVE  challenges'[h] = NoChallenge \/ challenges'[h].consumed
<1>1. /\ challenges \in [ChallengeIds -> Challenges \cup {NoChallenge}]
      /\ nextChallenge \in Nat /\ h \in Nat
  BY CheckoutAssumption DEF IInv, Tables, ChallengeIds
<1>2. challenges[h] # NoChallenge => challenges[h] \in Challenges /\ challenges[h].consumed
  BY <1>1
<1>3. ASSUME NEW c \in Customers, RequestOrderOtp(c)
      PROVE  challenges'[h] = NoChallenge \/ challenges'[h] = challenges[h]
  <2>1. PICK spared :
          challenges' = [g \in ChallengeIds |->
            IF g = nextChallenge
              THEN [email |-> c, attempts |-> 0, expired |-> FALSE, token |-> 0,
                    tokenExpired |-> FALSE, consumed |-> FALSE]
              ELSE IF g \in Pending(c) \ spared THEN NoChallenge ELSE challenges[g]]
    BY <1>3 DEF RequestOrderOtp
  <2>2. h # nextChallenge
    BY <1>1
  <2>. QED BY <2>1, <2>2
<1>4. ASSUME NEW r \in Requests, Request(r)
      PROVE  challenges'[h] = NoChallenge \/ challenges'[h].consumed
  <2>1. CASE WrongOtp(r)
    BY <1>1, <1>2, <2>1 DEF WrongOtp, Challenges
  <2>2. CASE RightOtp(r)
    BY <1>1, <1>2, <2>2 DEF RightOtp, Challenges
  <2>3. CASE CommitOrder(r)
    <3>. DEFINE g == job[r].order.challenge
    <3>1. \/ UNCHANGED challenges
          \/ g \in ChallengeIds /\ challenges[g] \in Challenges
             /\ challenges' = [challenges EXCEPT ![g].consumed = TRUE]
      BY <2>3, SerializableMeans DEF CommitOrder
    <3>. HIDE DEF g
    <3>. QED BY <1>1, <1>2, <3>1 DEF Challenges
  <2>4. CASE CheckLine(r) \/ WriteLine(r) \/ DeleteWishlist(r) \/ RequestDies(r)
    BY <2>4 DEF CheckLine, WriteLine, DeleteWishlist, RequestDies
  <2>5. CASE ConvertWishlist(r)
    BY <2>5 DEF ConvertWishlist, BeginOrder
  <2>6. ASSUME NEW w \in Wishlists, NEW kind \in Kinds, OpenWishlist(r, w, kind)
        PROVE  UNCHANGED challenges
    BY <2>6 DEF OpenWishlist
  <2>7. ASSUME NEW c \in Customers, VerifyOrderOtp(r, c) \/ OrderWithAccount(r, c)
        PROVE  UNCHANGED challenges
    BY <2>7 DEF VerifyOrderOtp, OrderWithAccount, BeginOrder
  <2>8. ASSUME NEW c \in Customers, NEW t \in 1..MaxTokens, OrderWithToken(r, c, t)
        PROVE  UNCHANGED challenges
    BY <2>8 DEF OrderWithToken, BeginOrder
  <2>. QED BY <1>4, <2>1, <2>2, <2>3, <2>4, <2>5, <2>6, <2>7, <2>8 DEF Request
<1>5. ASSUME NEW g \in ChallengeIds, OtpExpires(g) \/ TokenExpires(g)
      PROVE  challenges'[h] = NoChallenge \/ challenges'[h].consumed
  BY <1>1, <1>2, <1>5 DEF OtpExpires, TokenExpires, Challenges
<1>6. CASE UNCHANGED vars
  BY <1>6 DEF vars
<1>. QED BY <1>2, <1>3, <1>4, <1>5, <1>6 DEF Next

\* No later guess, right code, resent code, expiry or rolled back order makes a
\* token good again that bought an order or whose challenge was deleted.
THEOREM SpentForGood == Spec => SpentTokenStaysSpent
<1>1. IInv /\ [Next]_vars =>
        [\A h \in ChallengeIds :
           h < nextChallenge /\ (challenges[h] = NoChallenge \/ challenges[h].consumed) =>
             (challenges[h] = NoChallenge)' \/ challenges'[h].consumed]_vars
  BY SpentStays
<1>. QED BY <1>1, Invariant, PTL DEF Spec, SpentTokenStaysSpent
-----------------------------------------------------------------------------
(* The orders are purchases: a commit that passes the validation finds what *)
(* it was decided on as it was, so it takes all at that moment.  Everything *)
(* else sends a code, deletes a wishlist, or changes nothing of the stock.  *)

\* A code that was not sent has no row, so only the row counts.
LEMMA ValidIs ==
  ASSUME Tables, Tables'
  PROVE  /\ Valid = [h \in ChallengeIds |-> Valid[h]]
         /\ Valid' = [h \in ChallengeIds |-> Valid'[h]]
         /\ \A h \in ChallengeIds :
              /\ Valid[h] = IF challenges[h] # NoChallenge /\ ~challenges[h].consumed
                            THEN challenges[h].email ELSE "none"
              /\ Valid'[h] = IF challenges'[h] # NoChallenge /\ ~challenges'[h].consumed
                             THEN challenges'[h].email ELSE "none"
<1>1. \A h \in ChallengeIds :
        /\ challenges[h] # NoChallenge => h < nextChallenge
        /\ challenges'[h] # NoChallenge => h < nextChallenge'
  BY CheckoutAssumption DEF Tables, ChallengeIds, NoChallenge
<1>. QED BY <1>1, Zenon DEF Valid, ChallengeIds, NoChallenge

LEMMA OpenIs ==
  ASSUME Tables, Tables'
  PROVE  \A w :
           /\ w \in Open <=> w \in Wishlists /\ wishlists[w] # NoWishlist /\ wishlists[w].order = 0
           /\ w \in Open' <=> w \in Wishlists /\ wishlists'[w] # NoWishlist /\ wishlists'[w].order = 0
<1>1. DOMAIN wishlists = Wishlists /\ DOMAIN wishlists' = Wishlists
  BY DEF Tables
<1>. QED BY <1>1 DEF Open, Editable, NoWishlist

LEMMA StockStays ==
  ASSUME UNCHANGED <<nextChallenge, orders>>, Valid' = Valid, Open' = Open
  PROVE  UNCHANGED Promise!stock
<1>1. Redeemed' = Redeemed /\ \A c \in Customers : RedeemedBy(c)' = RedeemedBy(c)
  BY DEF Redeemed, RedeemedBy
<1>. QED BY <1>1 DEF Promise!stock

LEMMA NothingIsTaken ==
  ASSUME UNCHANGED <<nextChallenge, challenges, wishlists, orders>>
  PROVE  UNCHANGED Promise!stock
<1>1. Valid' = Valid /\ Open' = Open
  BY DEF Valid, Open, Editable
<1>. QED BY <1>1, StockStays

LEMMA CodesAreSent ==
  ASSUME Tables, Tables', NEW c \in Customers, RequestOrderOtp(c)
  PROVE  Promise!Send(c)
<1>. DEFINE n == nextChallenge
            void == {h \in ChallengeIds : Valid[h] = c /\ h # n /\ challenges'[h] = NoChallenge}
<1>1. /\ n \in ChallengeIds /\ n \in Nat /\ n' = n + 1
      /\ UNCHANGED <<wishlists, orders>>
  BY CheckoutAssumption DEF RequestOrderOtp, ChallengeIds
<1>2. /\ challenges'[n] # NoChallenge
      /\ challenges'[n].email = c /\ ~challenges'[n].consumed
      /\ \A h \in ChallengeIds \ {n} :
           \/ challenges'[h] = challenges[h]
           \/ challenges'[h] = NoChallenge /\ challenges[h].email = c /\ ~challenges[h].consumed
  BY <1>1, CheckoutAssumption DEF RequestOrderOtp, Pending, NoChallenge
<1>3. \A h \in ChallengeIds :
        challenges[h].email = c => challenges[h] # NoChallenge
  BY CheckoutAssumption DEF NoChallenge
<1>4. \A h \in ChallengeIds :
        Valid'[h] = IF h = n THEN c ELSE IF h \in void THEN "none" ELSE Valid[h]
  BY <1>1, <1>2, <1>3, ValidIs
<1>5. Valid' = [h \in ChallengeIds |->
                  IF h = n THEN c ELSE IF h \in void THEN "none" ELSE Valid[h]]
  BY <1>4, ValidIs DEF ChallengeIds
<1>6. void \in SUBSET {g \in ChallengeIds : Valid[g] = c}
  OBVIOUS
<1>7. Open' = Open /\ Redeemed' = Redeemed /\ \A d \in Customers : RedeemedBy(d)' = RedeemedBy(d)
  BY <1>1 DEF Open, Editable, Redeemed, RedeemedBy
<1>8. (n - 1) + 1 = n /\ n' - 1 = (n - 1) + 1
  BY <1>1
<1>. HIDE DEF void
<1>. QED BY <1>1, <1>5, <1>6, <1>7, <1>8 DEF Promise!Send

\* A row that is written by its id, however old the reading, keeps its customer
\* and whether it was consumed.
LEMMA WrittenRowsStayValid ==
  ASSUME Tables, Tables', NEW h \in ChallengeIds, challenges[h] # NoChallenge,
         challenges'[h] # NoChallenge, challenges'[h].email = challenges[h].email,
         challenges'[h].consumed = challenges[h].consumed,
         \A g \in ChallengeIds \ {h} : challenges'[g] = challenges[g]
  PROVE  Valid' = Valid
<1>1. \A g \in ChallengeIds : Valid'[g] = Valid[g]
  BY ValidIs
<1>. QED BY <1>1, ValidIs DEF ChallengeIds

LEMMA GuessesTakeNothing ==
  ASSUME IInv, Tables', NEW r \in Requests, WrongOtp(r) \/ RightOtp(r)
  PROVE  UNCHANGED Promise!stock
<1>. DEFINE h == job[r].challenge
<1>1. h \in ChallengeIds
  <2>1. job[r] \in Jobs["verify"]
    BY JobAt DEF WrongOtp, RightOtp
  <2>. QED BY <2>1, JobsAre DEF VerifyJobs
<1>2. UNCHANGED <<nextChallenge, wishlists, orders>>
  BY DEF WrongOtp, RightOtp
<1>3. Open' = Open
  BY <1>2 DEF Open, Editable
<1>4. CASE challenges[h] = NoChallenge
  BY <1>2, <1>4, NothingIsTaken DEF WrongOtp, RightOtp
<1>5. CASE challenges[h] # NoChallenge
  <2>1. /\ challenges[h] \in Challenges
        /\ challenges \in [ChallengeIds -> Challenges \cup {NoChallenge}]
    BY <1>1, <1>5 DEF IInv, Tables
  <2>2. /\ challenges'[h].email = challenges[h].email
        /\ challenges'[h].consumed = challenges[h].consumed
        /\ challenges'[h].email \in Customers
        /\ \A g \in ChallengeIds \ {h} : challenges'[g] = challenges[g]
    BY <1>1, <1>5, <2>1 DEF WrongOtp, RightOtp, Challenges
  <2>3. challenges'[h] # NoChallenge
    BY <2>2, CheckoutAssumption DEF NoChallenge
  <2>. QED BY <1>1, <1>2, <1>3, <1>5, <2>2, <2>3, WrittenRowsStayValid, StockStays DEF IInv
<1>. QED BY <1>4, <1>5

LEMMA ExpiryTakesNothing ==
  ASSUME IInv, Tables', NEW h \in ChallengeIds, OtpExpires(h) \/ TokenExpires(h)
  PROVE  UNCHANGED Promise!stock
<1>1. UNCHANGED <<nextChallenge, wishlists, orders>> /\ challenges[h] # NoChallenge
  BY DEF OtpExpires, TokenExpires
<1>2. Open' = Open
  BY <1>1 DEF Open, Editable
<1>3. challenges[h] \in Challenges /\ challenges \in [ChallengeIds -> Challenges \cup {NoChallenge}]
  BY <1>1 DEF IInv, Tables
<1>4. /\ challenges'[h].email = challenges[h].email
      /\ challenges'[h].consumed = challenges[h].consumed
      /\ challenges'[h].email \in Customers
      /\ \A g \in ChallengeIds \ {h} : challenges'[g] = challenges[g]
  BY <1>3 DEF OtpExpires, TokenExpires, Challenges
<1>5. challenges'[h] # NoChallenge
  BY <1>4, CheckoutAssumption DEF NoChallenge
<1>. QED BY <1>1, <1>2, <1>4, <1>5, WrittenRowsStayValid, StockStays DEF IInv

LEMMA LinesTakeNothing ==
  ASSUME IInv, Tables', NEW r \in Requests, WriteLine(r)
  PROVE  UNCHANGED Promise!stock
<1>. DEFINE w == job[r].wishlist
<1>1. w \in Wishlists
  <2>1. job[r] \in Jobs["write"]
    BY JobAt DEF WriteLine
  <2>. QED BY <2>1, JobsAre DEF LineJobs
<1>2. UNCHANGED <<nextChallenge, challenges, orders>>
  BY DEF WriteLine
<1>3. Valid' = Valid
  BY <1>2 DEF Valid
<1>4. CASE UNCHANGED wishlists
  BY <1>2, <1>4, NothingIsTaken
<1>5. CASE wishlists' # wishlists
  <2>1. PICK items : wishlists' = [wishlists EXCEPT ![w].items = items]
    BY <1>5 DEF WriteLine
  <2>2. wishlists[w] # NoWishlist
    BY <1>5 DEF WriteLine
  <2>3. wishlists[w] \in WishlistRows /\ wishlists \in [Wishlists -> WishlistRows \cup {NoWishlist}]
    BY <1>1, <2>2 DEF IInv, Tables
  <2>4. wishlists'[w].order = wishlists[w].order /\ DOMAIN wishlists'[w] = {"items", "order"}
    BY <1>1, <2>1, <2>3 DEF WishlistRows
  <2>5. wishlists'[w] # NoWishlist
    BY <2>4 DEF NoWishlist
  <2>6. \A v \in Wishlists \ {w} : wishlists'[v] = wishlists[v]
    BY <2>1, <2>3
  <2>7. \A v : v \in Open' <=> v \in Open
    BY <1>1, <2>2, <2>4, <2>5, <2>6, OpenIs DEF IInv
  <2>. QED BY <1>2, <1>3, <2>7, StockStays
<1>. QED BY <1>4, <1>5

LEMMA WishlistsAreDeleted ==
  ASSUME IInv, Tables', NEW r \in Requests, DeleteWishlist(r)
  PROVE  \/ UNCHANGED Promise!stock
         \/ \E w \in Wishlists : Promise!Delete(w)
<1>1. PICK w : w = job[r].wishlist /\ w \in Wishlists
  <2>1. job[r] \in Jobs["edit"]
    BY JobAt DEF DeleteWishlist
  <2>. QED BY <2>1, JobsAre DEF EditJobs
<1>2. UNCHANGED <<nextChallenge, challenges, orders>>
  BY DEF DeleteWishlist
<1>3. Valid' = Valid /\ Redeemed' = Redeemed /\ \A c \in Customers : RedeemedBy(c)' = RedeemedBy(c)
  BY <1>2 DEF Valid, Redeemed, RedeemedBy
<1>4. wishlists'[w] = NoWishlist /\ \A v \in Wishlists \ {w} : wishlists'[v] = wishlists[v]
  BY <1>1 DEF DeleteWishlist, IInv, Tables
<1>5. Open' = Open \ {w}
  BY <1>4, OpenIs DEF IInv
<1>6. CASE w \in Open
  <2>1. Promise!Delete(w)
    BY <1>2, <1>3, <1>5, <1>6 DEF Promise!Delete
  <2>. QED BY <1>1, <2>1
<1>7. CASE w \notin Open
  BY <1>2, <1>3, <1>5, <1>7, StockStays
<1>. QED BY <1>6, <1>7
\* A commit that goes through sells what the transaction has in hand.
LEMMA CommitsAreSales ==
  ASSUME IInv, Tables', NEW r \in Requests, CommitOrder(r)
  PROVE  \/ UNCHANGED Promise!stock
         \/ /\ orders' # orders
            /\ \E n \in OrderIds, x \in Promise!OrderRows : Promise!Sell(n, x)
<1>1. CASE ~(nextOrder \in OrderIds /\ Serializable(job[r]))
  BY <1>1, NothingIsTaken DEF CommitOrder
<1>2. CASE nextOrder \in OrderIds /\ Serializable(job[r])
  <2>1. PICK x, n, h, w :
          /\ x = job[r].order /\ n = nextOrder /\ h = x.challenge /\ w = x.wishlist
          /\ x \in OrderRows
          /\ h # 0 => /\ h \in ChallengeIds /\ challenges[h] \in Challenges
                      /\ challenges[h].email = x.customer /\ ~challenges[h].consumed
          /\ w # "none" => /\ w \in Wishlists /\ wishlists[w] \in WishlistRows
                           /\ wishlists[w].order = 0 /\ x.customer = Owner[w]
          /\ x.redeemed => CouponLeft(x.customer)
    BY <1>2, SerializableMeans DEF CommitOrder
  <2>2. /\ orders' = [orders EXCEPT ![n] = x]
        /\ challenges' = IF h = 0 THEN challenges
                         ELSE [challenges EXCEPT ![h].consumed = TRUE]
        /\ wishlists' = IF w = "none" THEN wishlists ELSE [wishlists EXCEPT ![w].order = n]
        /\ UNCHANGED nextChallenge
    BY <1>2, <2>1 DEF CommitOrder
  <2>3. n \in OrderIds /\ n \in Nat /\ n # 0 /\ orders[n] = NoOrder
        /\ orders \in [OrderIds -> OrderRows \cup {NoOrder}]
    BY <1>2, <2>1, CheckoutAssumption DEF IInv, Tables, OrderIds
  <2>4. x \in Promise!OrderRows /\ x.customer \in Customers /\ x.redeemed \in BOOLEAN
        /\ h \in 0..MaxChallenges /\ w \in Wishlists \cup {"none"}
    BY <2>1, CheckoutAssumption DEF OrderRows, Promise!OrderRows, ChallengeIds
  <2>5. orders' # orders
    <3>1. x # NoOrder
      BY <2>4, CheckoutAssumption DEF NoOrder
    <3>. QED BY <2>2, <2>3, <3>1
  \* the code is taken
  <2>6. h # 0 => Valid[h] = x.customer
    <3>1. h # 0 => challenges[h] # NoChallenge
      BY <2>1, <2>4, CheckoutAssumption DEF NoChallenge
    <3>. QED BY <2>1, <3>1, ValidIs DEF IInv
  <2>7. Valid' = [g \in ChallengeIds |-> IF g = h THEN "none" ELSE Valid[g]]
    <3>1. \A g \in ChallengeIds : Valid'[g] = IF g = h THEN "none" ELSE Valid[g]
      <4>1. CASE h = 0
        <5>1. \A g \in ChallengeIds : g # h
          BY <4>1, CheckoutAssumption DEF ChallengeIds
        <5>. QED BY <2>2, <4>1, <5>1, ValidIs DEF IInv
      <4>2. CASE h # 0
        <5>1. /\ challenges'[h].consumed
              /\ \A g \in ChallengeIds \ {h} : challenges'[g] = challenges[g]
          BY <2>1, <2>2, <4>2 DEF IInv, Tables, Challenges
        <5>. QED BY <5>1, ValidIs DEF IInv
      <4>. QED BY <4>1, <4>2
    <3>. QED BY <3>1, ValidIs DEF IInv, ChallengeIds
  \* the wishlist is taken
  <2>8. w # "none" => w \in Open /\ x.customer = Owner[w]
    <3>1. w # "none" => wishlists[w] # NoWishlist
      <4>1. w # "none" => DOMAIN wishlists[w] = {"items", "order"}
        BY <2>1 DEF WishlistRows
      <4>. QED BY <4>1 DEF NoWishlist
    <3>. QED BY <2>1, <3>1, OpenIs DEF IInv
  <2>9. Open' = Open \ {w}
    <3>1. CASE w = "none"
      <4>1. w \notin Wishlists
        BY <3>1, CheckoutAssumption
      <4>. QED BY <2>2, <3>1, <4>1, OpenIs DEF IInv
    <3>2. CASE w # "none"
      <4>1. /\ wishlists'[w].order = n
            /\ \A v \in Wishlists \ {w} : wishlists'[v] = wishlists[v]
        BY <2>1, <2>2, <3>2 DEF IInv, Tables, WishlistRows
      <4>2. \A v : v \in Open' <=> v \in Open /\ v # w
        BY <2>3, <4>1, OpenIs DEF IInv
      <4>. QED BY <4>2
    <3>. QED BY <3>1, <3>2
  \* the redemption is taken
  <2>10. /\ Cardinality(Redeemed) \in Nat
         /\ Cardinality(Redeemed') = Cardinality(Redeemed) + (IF x.redeemed THEN 1 ELSE 0)
         /\ \A c \in Customers :
              /\ Cardinality(RedeemedBy(c)) \in Nat
              /\ Cardinality(RedeemedBy(c)') = Cardinality(RedeemedBy(c)) +
                   (IF x.redeemed /\ c = x.customer THEN 1 ELSE 0)
    BY <2>1, <2>2, <2>3, RedemptionsCount
  <2>11. UsageLimit \in Nat /\ PerCustomerLimit \in Nat
    BY CheckoutAssumption
  <2>. DEFINE left == UsageLimit - Cardinality(Redeemed)
              leftOf == [c \in Customers |-> PerCustomerLimit - Cardinality(RedeemedBy(c))]
  <2>12. x.redeemed => left > 0 /\ leftOf[x.customer] > 0
    BY <2>1, <2>4, <2>10, <2>11 DEF CouponLeft
  <2>13. left' = IF x.redeemed THEN left - 1 ELSE left
    BY <2>10, <2>11
  <2>14. leftOf' = IF x.redeemed THEN [leftOf EXCEPT ![x.customer] = @ - 1] ELSE leftOf
    <3>1. \A c \in Customers :
            PerCustomerLimit - Cardinality(RedeemedBy(c)') =
              (PerCustomerLimit - Cardinality(RedeemedBy(c)))
                - (IF x.redeemed /\ c = x.customer THEN 1 ELSE 0)
      BY <2>10, <2>11
    <3>. QED BY <2>4, <2>10, <2>11, <3>1
  <2>15. Promise!NoOrder = NoOrder
    BY DEF Promise!NoOrder, NoOrder
  <2>16. nextChallenge' - 1 = nextChallenge - 1
    BY <2>2
  <2>17. Promise!Sell(n, x)
    <3>. HIDE DEF left, leftOf
    <3>1. /\ orders[n] = Promise!NoOrder
          /\ x.challenge # 0 => Valid[x.challenge] = x.customer
          /\ x.wishlist # "none" => x.wishlist \in Open /\ x.customer = Owner[x.wishlist]
          /\ Valid' = [g \in ChallengeIds |-> IF g = x.challenge THEN "none" ELSE Valid[g]]
          /\ Open' = Open \ {x.wishlist}
      BY <2>1, <2>3, <2>6, <2>7, <2>8, <2>9, <2>15
    <3>. USE DEF left, leftOf
    <3>. QED BY <2>2, <2>12, <2>13, <2>14, <2>16, <3>1 DEF Promise!Sell
  <2>. QED BY <2>3, <2>4, <2>5, <2>17
<1>. QED BY <1>1, <1>2

LEMMA StepIsOfPurchases ==
  ASSUME IInv, Tables', [Next]_vars
  PROVE  [Promise!Next]_(Promise!stock)
<1>1. ASSUME NEW r \in Requests, Request(r) PROVE [Promise!Next]_(Promise!stock)
  <2>1. CASE WrongOtp(r) \/ RightOtp(r)
    BY <2>1, GuessesTakeNothing
  <2>2. CASE WriteLine(r)
    BY <2>2, LinesTakeNothing
  <2>3. CASE DeleteWishlist(r)
    BY <2>3, WishlistsAreDeleted DEF Promise!Next
  <2>4. CASE CommitOrder(r)
    BY <2>4, CommitsAreSales DEF Promise!Next
  <2>5. CASE CheckLine(r) \/ ConvertWishlist(r) \/ RequestDies(r)
    <3>1. UNCHANGED <<nextChallenge, challenges, wishlists, orders>>
      BY <2>5 DEF CheckLine, ConvertWishlist, BeginOrder, RequestDies
    <3>. QED BY <3>1, NothingIsTaken
  <2>6. ASSUME NEW w \in Wishlists, NEW kind \in Kinds, OpenWishlist(r, w, kind)
        PROVE  UNCHANGED Promise!stock
    BY <2>6, NothingIsTaken DEF OpenWishlist
  <2>7. ASSUME NEW c \in Customers, VerifyOrderOtp(r, c) \/ OrderWithAccount(r, c)
        PROVE  UNCHANGED Promise!stock
    BY <2>7, NothingIsTaken DEF VerifyOrderOtp, OrderWithAccount, BeginOrder
  <2>8. ASSUME NEW c \in Customers, NEW t \in 1..MaxTokens, OrderWithToken(r, c, t)
        PROVE  UNCHANGED Promise!stock
    BY <2>8, NothingIsTaken DEF OrderWithToken, BeginOrder
  <2>. QED BY <1>1, <2>1, <2>2, <2>3, <2>4, <2>5, <2>6, <2>7, <2>8 DEF Request
<1>2. ASSUME NEW c \in Customers, RequestOrderOtp(c) PROVE [Promise!Next]_(Promise!stock)
  BY <1>2, CodesAreSent DEF IInv, Promise!Next
<1>3. ASSUME NEW h \in ChallengeIds, OtpExpires(h) \/ TokenExpires(h)
      PROVE  [Promise!Next]_(Promise!stock)
  BY <1>3, ExpiryTakesNothing
<1>4. CASE UNCHANGED vars
  BY <1>4, NothingIsTaken DEF vars
<1>. QED BY <1>1, <1>2, <1>3, <1>4 DEF Next

\* The checkout implements the purchases: whatever transactions count, codes are
\* verified and wishlists edited at once, each order takes at one moment the code,
\* the wishlist and the redemption it is made with, which were there to be taken.
THEOREM CheckoutImplementsPurchases == Spec => OrdersArePurchases
<1>1. Init => Promise!Init
  <2>. SUFFICES ASSUME Init PROVE Promise!Init
    OBVIOUS
  <2>1. Valid = [h \in ChallengeIds |-> "none"]
    BY DEF Init, Valid
  <2>2. Open \in SUBSET Wishlists
    BY DEF Init, Open
  <2>3. Redeemed = {} /\ \A c \in Customers : RedeemedBy(c) = {}
    BY DEF Init, Redeemed, RedeemedBy
  <2>4. UsageLimit - Cardinality(Redeemed) = UsageLimit
    BY <2>3, FS_EmptySet, CheckoutAssumption
  <2>5. [c \in Customers |-> PerCustomerLimit - Cardinality(RedeemedBy(c))]
          = [c \in Customers |-> PerCustomerLimit]
    BY <2>3, FS_EmptySet, CheckoutAssumption
  <2>. QED BY <2>1, <2>2, <2>4, <2>5 DEF Init, Promise!Init, Promise!NoOrder, NoOrder
<1>2. IInv /\ IInv' /\ [Next]_vars => [Promise!Next]_(Promise!stock)
  BY StepIsOfPurchases DEF IInv
<1>. QED BY <1>1, <1>2, Invariant, PTL DEF Spec, OrdersArePurchases, Promise!Spec
=============================================================================
