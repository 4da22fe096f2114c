------------------------------ MODULE Checkout ------------------------------
(***************************************************************************)
(* How an order comes into being (src/src/orders/orders.service.ts,        *)
(* create; src/src/wishlists/wishlists.service.ts; the order OTP of        *)
(* src/src/auth/auth.service.ts).  A customer orders with an account, with *)
(* an order token obtained against a one-time code, or by converting a     *)
(* wishlist, and may redeem a coupon of limited use.                       *)
(*                                                                         *)
(* The order is created in one SERIALIZABLE transaction: it works on a     *)
(* snapshot, and commits only when no row it writes and no set of rows it  *)
(* counted has been changed by a transaction that committed meanwhile.     *)
(* The handlers around it (code verification, wishlist edits) run at READ  *)
(* COMMITTED and write by id what they decided from an earlier read.       *)
(***************************************************************************)
EXTENDS Integers, FiniteSets

CONSTANTS
  Customers,         \* users, known by their email
  Wishlists,
  Owner,             \* [Wishlists -> Customers]
  Items,             \* what a wishlist line is for: an offering, or a product and unit
  Requests,          \* concurrent HTTP requests
  UsageLimit,        \* coupon.usageLimit
  PerCustomerLimit,  \* coupon.perCustomerLimit
  MaxOtpAttempts,    \* ORDER_OTP_MAX_ATTEMPTS
  MaxChallenges,     \* bound: one-time codes ever sent
  MaxTokens,         \* bound: order tokens ever issued
  MaxOrders,         \* bound: orders ever created
  MaxLines           \* bound: lines of a wishlist for one item

ASSUME CheckoutAssumption ==
  /\ Owner \in [Wishlists -> Customers]
  /\ "none" \notin Customers \cup Wishlists \cup Items
  /\ {UsageLimit, PerCustomerLimit, MaxOtpAttempts} \subseteq Nat
  /\ {MaxChallenges, MaxTokens, MaxOrders, MaxLines} \subseteq Nat /\ MaxLines >= 1

VARIABLES
  challenges,     \* order_otp_challenges
  nextChallenge,  \* ids, and with them createdAt, are given in increasing order
  nextToken,      \* order tokens are random and never issued twice
  wishlists,      \* the wishlists with their items
  orders,         \* the orders, each with the redemption created with it
  nextOrder,
  pc, job         \* where a request stands, and what it has read

vars == <<challenges, nextChallenge, nextToken, wishlists, orders, nextOrder, pc, job>>

ChallengeIds == 1..MaxChallenges
OrderIds == 1..MaxOrders
Contents == [Items -> 0..MaxLines]  \* how many lines there are for each item

NoChallenge == [email |-> "none"]
Challenges == [email: Customers, attempts: Nat, expired: BOOLEAN,
               token: 0..MaxTokens, tokenExpired: BOOLEAN, consumed: BOOLEAN]
NoWishlist == [order |-> "none"]
WishlistRows == [items: Contents, order: 0..MaxOrders]
NoOrder == [customer |-> "none"]
OrderRows == [customer: Customers, challenge: 0..MaxChallenges,
              wishlist: Wishlists \cup {"none"}, items: Contents, redeemed: BOOLEAN]

Kinds == {"add", "update", "remove", "delete", "convert"}

NoJob == [at |-> "none"]
VerifyJobs == [challenge: ChallengeIds]
EditJobs == [kind: Kinds, wishlist: Wishlists, items: Contents]
LineJobs == [wishlist: Wishlists, from: Items \cup {"none"}, to: Items \cup {"none"}]
\* an open order transaction: the order it is going to create, and what its
\* snapshot holds of the rows it will write and of the redemptions it counted
OrderJobs == [order: OrderRows, seenChallenge: Challenges \cup {NoChallenge},
              seenOrder: 0..MaxOrders, seenRedeemed: SUBSET OrderIds]
Jobs ==
  [idle |-> {NoJob}, verify |-> VerifyJobs, edit |-> EditJobs, write |-> LineJobs,
   commit |-> OrderJobs]
Steps == DOMAIN Jobs

TypeOK ==
  /\ challenges \in [ChallengeIds -> Challenges \cup {NoChallenge}]
  /\ nextChallenge \in 1..(MaxChallenges + 1)
  /\ nextToken \in 1..(MaxTokens + 1)
  /\ wishlists \in [Wishlists -> WishlistRows \cup {NoWishlist}]
  /\ orders \in [OrderIds -> OrderRows \cup {NoOrder}]
  /\ nextOrder \in 1..(MaxOrders + 1)
  /\ pc \in [Requests -> Steps]
  /\ \A r \in Requests : job[r] \in Jobs[pc[r]]

Init ==
  /\ challenges = [c \in ChallengeIds |-> NoChallenge]
  /\ nextChallenge = 1
  /\ nextToken = 1
  /\ wishlists \in [Wishlists -> [items: [Items -> {0, 1}], order: {0}]]
  /\ orders = [o \in OrderIds |-> NoOrder]
  /\ nextOrder = 1
  /\ pc = [r \in Requests |-> "idle"]
  /\ job = [r \in Requests |-> NoJob]

Goto(r, step, snapshot) ==
  /\ pc' = [pc EXCEPT ![r] = step]
  /\ job' = [job EXCEPT ![r] = snapshot]
Return(r) == Goto(r, "idle", NoJob)

-----------------------------------------------------------------------------
(* The order token                                                         *)

Pending(c) == {h \in ChallengeIds : challenges[h].email = c /\ ~challenges[h].consumed}

\* requestOrderOtp: delete the customer's unconsumed challenges and create
\* one, in a transaction.  The delete does not see the challenges concurrent
\* requests are about to commit, so the newest may survive it.
RequestOrderOtp(c) ==
  /\ nextChallenge \in ChallengeIds
  /\ \E first \in ChallengeIds :
       LET spared == {h \in Pending(c) : h >= first}
       IN challenges' = [h \in ChallengeIds |->
            IF h = nextChallenge
              THEN [email |-> c, attempts |-> 0, expired |-> FALSE, token |-> 0,
                    tokenExpired |-> FALSE, consumed |-> FALSE]
              ELSE IF h \in Pending(c) \ spared THEN NoChallenge ELSE challenges[h]]
  /\ nextChallenge' = nextChallenge + 1
  /\ UNCHANGED <<nextToken, wishlists, orders, nextOrder, pc, job>>

\* verifyOrderOtp reads the newest challenge that is still open to a guess
OpenToVerify(c) ==
  {h \in Pending(c) : ~challenges[h].expired /\ challenges[h].attempts < MaxOtpAttempts}

VerifyOrderOtp(r, c) ==
  /\ pc[r] = "idle"
  /\ \E h \in OpenToVerify(c) :
       /\ \A g \in OpenToVerify(c) : g <= h
       /\ Goto(r, "verify", [challenge |-> h])
  /\ UNCHANGED <<challenges, nextChallenge, nextToken, wishlists, orders, nextOrder>>

\* a wrong code is counted; the row may be gone by now (503)
WrongOtp(r) ==
  /\ pc[r] = "verify"
  /\ LET h == job[r].challenge
     IN challenges' = IF challenges[h] = NoChallenge THEN challenges
                      ELSE [challenges EXCEPT ![h].attempts = @ + 1]
  /\ Return(r)
  /\ UNCHANGED <<nextChallenge, nextToken, wishlists, orders, nextOrder>>

\* (faulty RightOtp: writes a fresh challenge)
RightOtpAfresh(r) ==
  /\ pc[r] = "verify" /\ nextToken <= MaxTokens
  /\ challenges' = [challenges EXCEPT ![job[r].challenge] =
       IF @ = NoChallenge THEN @
       ELSE [@ EXCEPT !.token = nextToken, !.tokenExpired = FALSE, !.consumed = FALSE]]
  /\ nextToken' = nextToken + 1
  /\ Return(r)
  /\ UNCHANGED <<nextChallenge, wishlists, orders, nextOrder>>

\* the right code stores a new order token, in place of an earlier one, on
\* whatever the row has become
RightOtp(r) ==
  /\ pc[r] = "verify"
  /\ LET h == job[r].challenge
     IN IF challenges[h] = NoChallenge
          THEN UNCHANGED <<challenges, nextToken>>
          ELSE /\ nextToken <= MaxTokens
               /\ challenges' = [challenges EXCEPT ![h].token = nextToken,
                                                   ![h].tokenExpired = FALSE]
               /\ nextToken' = nextToken + 1
  /\ Return(r)
  /\ UNCHANGED <<nextChallenge, wishlists, orders, nextOrder>>

\* ten minutes for a code, thirty for a token
OtpExpires(h) ==
  /\ challenges[h] # NoChallenge /\ ~challenges[h].expired
  /\ challenges' = [challenges EXCEPT ![h].expired = TRUE]
  /\ UNCHANGED <<nextChallenge, nextToken, wishlists, orders, nextOrder, pc, job>>
TokenExpires(h) ==
  /\ challenges[h] # NoChallenge /\ challenges[h].token # 0 /\ ~challenges[h].tokenExpired
  /\ challenges' = [challenges EXCEPT ![h].tokenExpired = TRUE]
  /\ UNCHANGED <<nextChallenge, nextToken, wishlists, orders, nextOrder, pc, job>>

-----------------------------------------------------------------------------
(* Wishlists                                                               *)

Editable(w) == wishlists[w] # NoWishlist /\ wishlists[w].order = 0

\* getEditableWishlist, at the start of every edit and of a conversion: a
\* converted wishlist can no longer be modified (409)
OpenWishlist(r, w, kind) ==
  /\ pc[r] = "idle"
  /\ Editable(w)
  /\ Goto(r, "edit", [kind |-> kind, wishlist |-> w, items |-> wishlists[w].items])
  /\ UNCHANGED <<challenges, nextChallenge, nextToken, wishlists, orders, nextOrder>>

\* ensureItemDoesNotExist: what is added, or what a line is changed to, has no
\* other line yet.  No index of the database repeats this check.
CheckLine(r) ==
  /\ pc[r] = "edit" /\ job[r].kind \in {"add", "update", "remove"}
  /\ LET w == job[r].wishlist
         LinesOf(i) == IF wishlists[w] = NoWishlist THEN 0 ELSE wishlists[w].items[i]
         Write(i, j) == Goto(r, "write", [wishlist |-> w, from |-> i, to |-> j])
     IN \/ job[r].kind = "add" /\ \E j \in Items : LinesOf(j) = 0 /\ Write("none", j)
        \/ job[r].kind = "update" /\ \E i, j \in Items :
             LinesOf(i) > 0 /\ LinesOf(j) = (IF i = j THEN 1 ELSE 0) /\ Write(i, j)
        \/ job[r].kind = "remove" /\ \E i \in Items : Write(i, "none")
  /\ UNCHANGED <<challenges, nextChallenge, nextToken, wishlists, orders, nextOrder>>

\* (faulty WriteLine: a line that is gone is taken out once more)
WriteLineGone(r) ==
  /\ pc[r] = "write" /\ job[r].from # "none" /\ wishlists[job[r].wishlist] # NoWishlist
  /\ wishlists' = [wishlists EXCEPT ![job[r].wishlist].items[job[r].from] = @ - 1]
  /\ Return(r)
  /\ UNCHANGED <<challenges, nextChallenge, nextToken, orders, nextOrder>>

\* The line is written by its id, or added to the wishlist of that id; nothing
\* happens when line or wishlist is gone (404, 500).
WriteLine(r) ==
  /\ pc[r] = "write"
  /\ LET w == job[r].wishlist
         i == job[r].from
         j == job[r].to
         items == wishlists[w].items
         Gone == wishlists[w] = NoWishlist \/ (i # "none" /\ items[i] = 0)
     IN IF Gone THEN UNCHANGED wishlists
        ELSE /\ j # "none" => items[j] < MaxLines \/ i = j
             /\ wishlists' = [wishlists EXCEPT ![w].items = [k \in Items |->
                  items[k] + (IF k = j THEN 1 ELSE 0) - (IF k = i THEN 1 ELSE 0)]]
  /\ Return(r)
  /\ UNCHANGED <<challenges, nextChallenge, nextToken, orders, nextOrder>>

DeleteWishlist(r) ==
  /\ pc[r] = "edit" /\ job[r].kind = "delete"
  /\ wishlists' = [wishlists EXCEPT ![job[r].wishlist] = NoWishlist]
  /\ Return(r)
  /\ UNCHANGED <<challenges, nextChallenge, nextToken, orders, nextOrder>>

-----------------------------------------------------------------------------
(* The order transaction                                                   *)

Redeemed == {o \in OrderIds : orders[o] # NoOrder /\ orders[o].redeemed}
RedeemedBy(c) == {o \in Redeemed : orders[o].customer = c}

\* calculateCouponDiscount: both limits, against the redemptions there are
CouponLeft(c) ==
  /\ Cardinality(Redeemed) < UsageLimit
  /\ Cardinality(RedeemedBy(c)) < PerCustomerLimit

\* The transaction begins: the snapshot its reads see.  A coupon that is not
\* left is refused (400); one that loses to a promotion is not redeemed.
BeginOrder(r, c, h, w, items) ==
  \E redeemed \in BOOLEAN :
    /\ redeemed => CouponLeft(c)
    /\ Goto(r, "commit",
         [order |-> [customer |-> c, challenge |-> h, wishlist |-> w,
                     items |-> items, redeemed |-> redeemed],
          seenChallenge |-> IF h = 0 THEN NoChallenge ELSE challenges[h],
          seenOrder |-> IF w = "none" THEN 0 ELSE wishlists[w].order,
          seenRedeemed |-> Redeemed])
    /\ UNCHANGED <<challenges, nextChallenge, nextToken, wishlists, orders, nextOrder>>

OrderedItems == {items \in Contents : \E i \in Items : items[i] # 0}

OrderWithAccount(r, c) ==
  /\ pc[r] = "idle"
  /\ \E items \in OrderedItems : BeginOrder(r, c, 0, "none", items)

\* the token's challenge must be verified, unexpired and not consumed (401)
Usable(row, c, t) ==
  row.email = c /\ row.token = t /\ ~row.tokenExpired /\ ~row.consumed

OrderWithToken(r, c, t) ==
  /\ pc[r] = "idle"
  /\ \E h \in ChallengeIds, items \in OrderedItems :
       Usable(challenges[h], c, t) /\ BeginOrder(r, c, h, "none", items)

\* convert resolves the items it read and starts the transaction with them; an
\* empty wishlist is refused (400).  The wishlist, when it is there, must not
\* be converted yet in the snapshot either (409).
ConvertWishlist(r) ==
  /\ pc[r] = "edit" /\ job[r].kind = "convert"
  /\ LET w == job[r].wishlist
     IN \/ /\ Editable(w) /\ job[r].items \in OrderedItems
           /\ BeginOrder(r, Owner[w], 0, w, job[r].items)
        \/ /\ ~Editable(w) \/ job[r].items \notin OrderedItems
           /\ Return(r)
           /\ UNCHANGED <<challenges, nextChallenge, nextToken, wishlists, orders, nextOrder>>

\* the passing of time is no change of a row
SameRow(x, y) ==
  /\ x.email = y.email
  /\ x # NoChallenge => <<x.attempts, x.token, x.consumed>> = <<y.attempts, y.token, y.consumed>>

\* (faulty Serializable: READ COMMITTED, where the updates still look at the
\* rows they write)
ReadCommitted(j) ==
  /\ j.order.challenge # 0 => ~challenges[j.order.challenge].consumed
  /\ j.order.wishlist # "none" =>
       wishlists[j.order.wishlist] # NoWishlist /\ wishlists[j.order.wishlist].order = 0

\* Nothing this transaction writes, and no redemption it counted before adding
\* one of its own, was changed since the snapshot; PostgreSQL aborts it
\* otherwise (P2034, answered 409).
Serializable(j) ==
  /\ j.order.challenge # 0 => SameRow(challenges[j.order.challenge], j.seenChallenge)
  /\ j.order.wishlist # "none" =>
       /\ wishlists[j.order.wishlist] # NoWishlist
       /\ wishlists[j.order.wishlist].order = j.seenOrder
  /\ j.order.redeemed => Redeemed = j.seenRedeemed

\* (faulty CommitOrder: the token is not consumed)
CommitOrderOnly(r) ==
  /\ pc[r] = "commit"
  /\ nextOrder \in OrderIds /\ Serializable(job[r])
  /\ orders' = [orders EXCEPT ![nextOrder] = job[r].order]
  /\ nextOrder' = nextOrder + 1
  /\ Return(r)
  /\ UNCHANGED <<challenges, nextChallenge, nextToken, wishlists>>

\* the order with its items, payment and redemption, the token consumed, the
\* wishlist converted: all of it or nothing
CommitOrder(r) ==
  /\ pc[r] = "commit"
  /\ LET x == job[r].order
     IN IF nextOrder \in OrderIds /\ Serializable(job[r])
          THEN /\ orders' = [orders EXCEPT ![nextOrder] = x]
               /\ nextOrder' = nextOrder + 1
               /\ challenges' = IF x.challenge = 0 THEN challenges
                                ELSE [challenges EXCEPT ![x.challenge].consumed = TRUE]
               /\ wishlists' = IF x.wishlist = "none" THEN wishlists
                               ELSE [wishlists EXCEPT ![x.wishlist].order = nextOrder]
          ELSE UNCHANGED <<orders, nextOrder, challenges, wishlists>>
  /\ Return(r)
  /\ UNCHANGED <<nextChallenge, nextToken>>

\* the process goes away, or the transaction times out (P2028): rolled back
RequestDies(r) ==
  /\ pc[r] # "idle"
  /\ Return(r)
  /\ UNCHANGED <<challenges, nextChallenge, nextToken, wishlists, orders, nextOrder>>

-----------------------------------------------------------------------------
Request(r) ==
  \/ WrongOtp(r) \/ RightOtp(r)
  \/ CheckLine(r) \/ WriteLine(r) \/ DeleteWishlist(r) \/ ConvertWishlist(r)
  \/ CommitOrder(r) \/ RequestDies(r)
  \/ \E w \in Wishlists, kind \in Kinds : OpenWishlist(r, w, kind)
  \/ \E c \in Customers : VerifyOrderOtp(r, c) \/ OrderWithAccount(r, c)
  \/ \E c \in Customers, t \in 1..MaxTokens : OrderWithToken(r, c, t)

Next ==
  \/ \E r \in Requests : Request(r)
  \/ \E c \in Customers : RequestOrderOtp(c)
  \/ \E h \in ChallengeIds : OtpExpires(h) \/ TokenExpires(h)

Spec == Init /\ [][Next]_vars

-----------------------------------------------------------------------------
(* Safety                                                                  *)

\* A coupon is never redeemed more often than its limits allow, in all and by
\* each customer, however many checkouts count the redemptions at once.
CouponWithinLimits ==
  /\ Cardinality(Redeemed) <= UsageLimit
  /\ \A c \in Customers : Cardinality(RedeemedBy(c)) <= PerCustomerLimit

\* A verified code is good for one order, of the customer it was sent to:
\* whatever is verified again, sent again or retried meanwhile, no two orders
\* come from one challenge, and the one that was used is still there, consumed.
OneOrderPerChallenge ==
  \A o \in OrderIds : orders[o] # NoOrder /\ orders[o].challenge # 0 =>
    LET h == orders[o].challenge
    IN /\ challenges[h].email = orders[o].customer /\ challenges[h].consumed
       /\ \A p \in OrderIds : orders[p] # NoOrder /\ orders[p].challenge = h => p = o

\* A wishlist becomes one order, the one it names, of its owner.
OneOrderPerWishlist ==
  \A o \in OrderIds : orders[o] # NoOrder /\ orders[o].wishlist # "none" =>
    LET w == orders[o].wishlist
    IN /\ orders[o].customer = Owner[w]
       /\ wishlists[w] # NoWishlist => wishlists[w].order = o

\* Neither a verified code nor a wishlist is ordered twice.
OneOrderEach == OneOrderPerChallenge /\ OneOrderPerWishlist

(* What a step may never do                                                *)

\* A token stops working for good: once its challenge is consumed or the
\* challenge row is deleted, no order can be made with it.
SpentTokenStaysSpent ==
  [][\A h \in ChallengeIds :
       h < nextChallenge /\ (challenges[h] = NoChallenge \/ challenges[h].consumed) =>
         (challenges[h] = NoChallenge)' \/ challenges'[h].consumed]_vars

\* A converted wishlist is neither edited nor deleted.
ConvertedWishlistIsFinal ==
  [][\A w \in Wishlists :
       wishlists[w] # NoWishlist /\ wishlists[w].order # 0 =>
         wishlists'[w] = wishlists[w]]_vars

(* Refinement                                                              *)

Valid == [h \in ChallengeIds |->
  IF h < nextChallenge /\ challenges[h] # NoChallenge /\ ~challenges[h].consumed
  THEN challenges[h].email ELSE "none"]
Open == {w \in DOMAIN wishlists : Editable(w)}
Promise == INSTANCE Purchases WITH
  Codes <- ChallengeIds, Numbers <- OrderIds, Goods <- Contents,
  sent <- nextChallenge - 1, valid <- Valid, open <- Open,
  left <- UsageLimit - Cardinality(Redeemed),
  leftOf <- [c \in Customers |-> PerCustomerLimit - Cardinality(RedeemedBy(c))]

\* However transactions, codes and edits overtake each other, orders come into
\* being as if one at a time, each taking the code, the wishlist and the
\* redemption it is made with, and nothing that was taken is ever there again.
OrdersArePurchases == Promise!Spec
=============================================================================
