# Ojaboy backend: specifications, model checking and proofs

This directory holds TLA+ specifications of the Ojaboy backend, a NestJS
service over PostgreSQL (Prisma) that sells market produce: customers look at
prices, collect wishlists, place orders and pay by bank transfer through
Paystack; staff maintain the catalogue, the prices, the commercial rules, the
support desk and the announcements.

Several instances of the server may run at once, each handles many requests,
and every `await` between two database calls is a point at which any other
request, of any instance, may run. That is what the models are about: what
remains true when the steps of several handlers interleave, when a process goes
away between two steps, and when a provider answers late, twice or not at all.

In this file a path like `payments/payments.service.ts` is below `src/src/`;
`docs/...` and `prisma/...` are below `src/`.

Contents: 1 inventory - 2 how the code becomes a model - 3 modules - 4 runs -
5 fairness - 6 proofs - 7 what the code does not promise - 8 findings -
9 not modelled - 10 plan.

## 1. Inventory

| component | state | operations | interacts with |
|---|---|---|---|
| payments | payments, bank transfer accounts, webhook log | initialize, retry, reconcile, webhook, staff create/update/delete | Paystack, orders, mail |
| orders | orders, items, coupon redemptions, feedback | quote, create, status changes (one, many), feedback | addresses, prices, coupons, payments, wishlists, notifications, mail |
| wishlists | wishlists, wishlist items | create, add/update/remove item, delete, convert | orders, prices |
| auth | users, refresh tokens, order OTP challenges, setup and verification tokens | register, verify, login, Google login, refresh, logout, set password, order OTP | mail |
| announcements | announcements, recipients | create, schedule, publish, dispatch (cron), cancel | users, mail |
| prices | buy prices, bulk price jobs | make, edit, activate, delete, calculate, bulk job | market prices, catalogue |
| market-prices | market prices | record, correct, delete, bulk upload | price alerts, market analysis |
| price-alerts | alerts, notifications | create, edit, delete, evaluate a recorded price | market prices |
| market-analysis | daily snapshots, items, benchmarks | daily job, benchmarks | market prices |
| support-tickets | tickets, assignments, messages, notifications | open, reply, reassign, status | users, orders |
| addresses | addresses (one default) | create, update, remove, set default | logistics, orders |
| commerce-config | service fee rules (one active), coupons, promotions | create, activate, toggle | orders |
| catalogue | products, variants, manufacturers, brands, packages, offerings | create, update, spreadsheet upload | market prices, prices |
| logistics | delivery zones and areas, market delivery and route costs | create, update, remove | addresses, orders |
| price units | units; in each process the last reading of them | create, update, remove, refresh, resolve a code | market prices, prices, alerts, wishlists |
| products, categories, markets | reference data | create, read, update, delete | prices, orders |
| users, access-control, notifications, mail, agent-chatbox | users, roles; notification rows; nothing | role changes; mark read; send; forward | everything |

What is hard in each, and what makes it right:

- **payments**. One order is paid through a sequence of attempts. Requests act
  on a snapshot and write after a network call; the webhook settles the same
  rows meanwhile; Paystack repeats, delays and loses answers; the process may
  die between charge and write. Right means: an order is paid exactly when its
  exact total arrived under one of its references, payment, order and bank
  account agree, no charge is opened that no row knows of, concurrent retries
  create one attempt, and money that arrived is eventually recorded.
- **orders and wishlists**. Limits and one-time rights (coupon, verified code,
  wishlist) are checked by reading and spent by writing. Right means: none is
  spent twice or beyond its limit, however many checkouts overlap.
- **order status**. Staff move orders through their statuses, one or many at a
  time, from what they read; the notification and the e-mail follow, and may
  fail without failing the request. Right means: every change is told once, as
  it was and in order, and feedback is for what was delivered.
- **auth, accounts**. An account is written by five ways to sign in, each from
  what it read before hashing a password, calling Google or mailing a link, and
  links are replaced in three statements. Right means: whoever is signed in has
  a verified address, no account is left without a link to verify it, and a
  password that is reset ends the sessions before it.
- **auth, sessions**. A refresh token is rotated by whoever presents it, and
  the same one may be presented twice at once. Right means: a session has one
  working token and its history is a chain.
- **announcements**. Several processes publish, claim, send and close. Right
  means: nobody is e-mailed by two processes at once, nobody who got the
  announcement gets it again, results are recorded truthfully, and everybody
  queued is served.
- **prices**. Replacing the active price is two statements; bulk jobs are
  driven by repeated calls that may overlap. Right means: an offering never
  loses its price to a replacement, and a job row always adds up and ends.
- **price strategies**. A price is worked out from whatever staff have observed:
  of other units, other grades, at zero ("not known yet"). Right means: the
  result is what its strategy says, the same in bulk, and not lower for a dearer
  market.
- **commerce-config**. One fee rule is active; making or activating one is two
  statements. Right means: there is no moment without a rule once there was one.
- **price units**. A code is resolved by what the process read last, and recorded
  by id. Right means: a process knows of every change it has answered for, and
  what is recorded is in a unit that is there and had the code it was asked by.
- **texts and wishes**. A customer writes "2 bags of rice", or keeps a product on
  a wishlist that is sold in two qualities by now; what is not certain must be
  asked back. Right means: no amount of money and no offering is guessed.
- **totals**. Discounts compete, are capped and rounded, and a fee is taken of
  what is left. Right means: the total is the sum of what the bill shows, and a
  coupon never makes an order dearer.
- **catalogue**. A sheet is validated against one reading of the catalogue, by
  names without case and blanks, and written after another, by names as they
  are spelled. Right means: no row ends under another product, variant, brand or
  package than it names.
- **addresses**. The default is moved by several statements, and an order saves
  addresses of its own. Right means: a default is an address that was found to
  have coverage, and is not lost by the way.
- **support tickets, alerts, analysis**. Reads outside transactions decide
  later writes. Right means: load is spread evenly, the history explains the
  assignee, an alert is told of once per trigger and only of later prices, a
  published analysis is the work of one request.

`PROJECT.json` lists the hazards one by one, each at its line, with the
properties that would catch it or the reason why none does.

## 2. How the code becomes a model

**Requests.** A request is an element of `Requests` with a program counter `pc`
and a record `job` that holds what it has read and will write from. An `await`
on the database or on a provider ends a step; what lies between two awaits is
one action. A handler that refuses without writing (400, 403, 404, 409) is a
guard that is not met, or an action that only ends the request where it had
already started. `RequestDies` may end a request between any two steps: a
crash, a recycled instance, a timeout.

**Transactions at READ COMMITTED** (`$transaction` without options, and single
statements). A statement sees what was committed when it starts and, for rows
another transaction is changing, waits and looks at them again. Where that
matters the statement is two steps, the rows it found and their change (for
example `RevokeStart`, `RevokeFinish`; `Make`, `Made`). Where it does not, a
transaction is its reads and its commit, or one step.

**SERIALIZABLE transactions** (`orders.create` only) are a snapshot when they
begin and a validation when they commit: nothing the transaction writes and no
redemption it counted may have changed (`Serializable` in Checkout). This is
coarser than PostgreSQL's dependency tracking, which may abort more.

**Locks.** `pg_advisory_xact_lock` is held until the transaction ends
(SupportTickets). In `createRetryPaymentAttempt` the lock is written in a
`WITH` list that the statement never refers to; PostgreSQL does not evaluate
such a `SELECT`, so the model takes no lock there (finding 1). `FOR UPDATE SKIP
LOCKED` lets a claim take any part of what is claimable.

**Unique indexes** are guards of the inserts they refuse: the provider
reference, the analysis date, one recipient row a user.

**Time** is an action: a code, a token, a schedule, a backoff may fall due at
any moment. Ids are given in increasing order, and so is `createdAt`.

**Data** is what the properties tell apart: a name, a message, an address is a
model value or absent. Money in Payments is a member of a small set with one
currency. A price in BuyPrices is an offering and a flag.

## 3. Modules

| module | models | state | actions |
|---|---|---|---|
| `Payments` | `payments/payments.service.ts` | orders' payment status, payments, bank accounts, webhook log; Paystack's charges and receipts (external) | `Checkout`, `LoadAttempt`, `ChargeAccepted`, `ChargeUnclear` (initialize); `Retry`, `Check*`, `CountAttempts`, `CreateAttempt`; `SaveBankAccount`, `MarkPaid`, `WriteStatus`, `StatusWriteFails`; `Webhook*`; `Admin*`; `CustomerPays`, `ChargeExpires` |
| `Ledger` | what Payments promises (abstract) | order status, funded orders | `Place`, `Receive`, `Settle` |
| `PaymentsProofs` | theorems about Payments | | |
| `Checkout` | `orders/orders.service.ts` (create), `wishlists/wishlists.service.ts`, the order OTP of `auth/auth.service.ts` | challenges, wishlists, orders with redemptions | `RequestOrderOtp`, `VerifyOrderOtp`, `RightOtp`, `WrongOtp`; `OpenWishlist`, `CheckLine`, `WriteLine`, `DeleteWishlist`, `ConvertWishlist`; `OrderWithAccount`, `OrderWithToken`, `CommitOrder` |
| `Purchases` | what Checkout promises (abstract) | what each code is good for, open wishlists, redemptions left, orders | `Send`, `Delete`, `Sell` |
| `CheckoutProofs` | theorems about Checkout | | |
| `Sessions` | refresh tokens in `auth/auth.service.ts` | refresh tokens | `SignIn`, `Refresh`, `Rotate`, `RotateCommit`, `Logout`, `LogoutAll`, `SetPassword`, `RevokeStart`, `RevokeFinish` |
| `SessionsProofs` | theorems about Sessions | | |
| `Accounts` | the rest of `auth/auth.service.ts` | users, Google accounts, links, sessions | `Register`/`Registered`; `Resend`, `ForgetPassword`; `DeleteLinks`, `CreateLink`, `MailLink`; `VerifyEmail`/`Verified`; `SetPassword`/`PasswordSet`, `SessionsRevoked`; `Login`, `VerifyOrderOtp`; `GoogleLogin`, `FindGoogleUser`, `LinkGoogle`, `CreateGoogleUser`; `SignIn` |
| `AccountsProofs` | theorems about Accounts | | |
| `OrderStatus` | `orders/orders.service.ts` (status, feedback), `notifications/notifications.service.ts` | status of orders, feedback, notifications, e-mails | `UpdateStatus`, `BulkUpdateStatus`, `StatusWritten`; `CreateOrderStatusNotification`, `SendOrderStatusEmail`; `CreateFeedback`/`FeedbackCreated`; `CreateNotification` |
| `Announcements` | `announcements/*.service.ts` | announcement, recipients, e-mails sent | `Create`, `Publish`, `FanOut`, `Published`, `Cancel`..., `Tick`, `ClaimBatch`, `Send`, `Mark`, `Remaining`, `CountResults`, `Close`, `Dies` |
| `Outbox` | what Announcements promises (abstract) | what is known of each user, what each process has in hand, failures | `Queue`, `Withdraw`, `Take`, `Mail`, `Sent`, `Missed`, `Fail` |
| `AnnouncementsProofs` | theorems about Announcements | | |
| `BuyPrices` | `prices/prices.service.ts`, `prices/bulk-price-jobs.service.ts` | prices, one bulk job | `Make`/`Made`, `MakeInactive`, `Activate`, `Update`, `Switch`/`Switched`, `Remove`; `NextBatch`, `Calculated`, `Persisted`, `BatchRecorded`, `BatchFails` |
| `BuyPricesProofs` | theorems about BuyPrices | | |
| `SupportTickets` | `support-tickets/support-tickets.service.ts`, role removal in `access-control` | tickets, assignment history, notifications, staff, advisory lock | `Open`, `Assign`, `Opened`, `Reply`/`Replied`, `Reassign`/`Reassigned`, `ChangeStatus`..., `Demote` |
| `PriceAlerts` | `price-alerts/price-alerts.service.ts`, evaluated from `market-prices` | alerts, notifications | `Create`, `Update`, `Remove` with their writes; `Report`, `Trigger`, `Notify`, `Evaluated` |
| `MarketAnalysis` | `market-analysis/market-analysis.service.ts` | snapshots with items, observations | `RunDaily`, `CreateSnapshot`, `Retake`, `ReadBenchmarks`, `Calculate`, `DeleteItems`, `ReplaceItems`, `RecordFailure`, `Observe` |
| `Pricing` | the calculation of `prices/prices.service.ts` | market prices | `Observe`, `Correct`, `Delete`, and the operators `CalculateStrategy`, `CalculateBulk` |
| `CommerceConfig` | `commerce-config/commerce-config.service.ts` | fee rules, coupons and promotions, as far as they are active | `CreateServiceFeeRule`/`ServiceFeeRuleCreated`, `ActivateServiceFeeRule`/`ServiceFeeRuleActivated`, `CreateInactiveRule`, `Create`, `Toggle`/`Toggled` |
| `PriceUnits` | `price-units/price-units.service.ts` | the table after each change, the reading each process keeps, what was recorded by a code | `Put`, `Remove`, `GetLookup`, `Refresh`/`Refreshed`, `RequireByCode`/`Record`, `RequestFails`, `Restart` |
| `MCServices` | SupportTickets, PriceAlerts, MarketAnalysis, Accounts, OrderStatus, Pricing, CommerceConfig and PriceUnits side by side | a behaviour is of one service | |
| `ServicesProofs` | theorems about CommerceConfig, MarketAnalysis, PriceAlerts, SupportTickets, PriceUnits, OrderStatus and Pricing | | |
| `Quotes` | `calculateQuote` of `orders/orders.service.ts` and all it calls | one quote, as far as it has got | `QuoteItems`, `CalculatePromotion`, `CalculateCoupon`, `CalculateServiceFee`, `CalculateDelivery` |
| `Imports` | `catalogue/*.service.ts`, `market-prices/market-prices-bulk.service.ts` | parts, offerings, market prices | `Analyze`/`Import`, `AnalyzePrices`/`ImportPrices`, `CreatePart`, `CheckOffering`/`CreateOffering` |
| `Delivery` | `addresses/addresses.service.ts`, zones and areas of `logistics` | zones, areas, a customer's addresses | `Create`, `Choose`, `Insert`; `OrderAddress`, `OrderWithAddress`; `SetDefault`, `ClearDefaults`, `BecomesDefault`; `Remove`, `FindReplacement`, `Delete`; `Put...`, `Remove...` |
| `OrderText` | `orders/order-quote-normalizer.service.ts`, and the part of `calculateQuote` that looks its result up | prices, products, one written line | `Read`, `GetCatalog`, `GetActiveProducts`, `Normalize`, `ResolveChoice`, `Quote`; `PricesChange`, `ProductsChange` |
| `WishlistPrices` | `resolveItems` of `wishlists/wishlists.service.ts` | active prices, one item | `ResolveItems`, `ChooseOffering`, `OrderItem`, `SwitchPrice` |
| `MCCatalogue` | instances of Imports, Quotes, OrderText, Delivery, WishlistPrices | a behaviour is of one of them | |
| `MCCheckout` | Checkout twice, with wishlists and a coupon and with order tokens, and MCCatalogue | a behaviour is of one scenario | |
| `Samples` | the catalogue, texts, baskets and discounts of those two | | |
| `CatalogueProofs` | theorems about Delivery, OrderText, WishlistPrices, Quotes and Imports, and about MCCheckout as a whole | | |

`MCPayments`, `MCSessions`, `MCBuyPrices`, `MCAnnouncements` and `Samples` only give
constants their values. `ServicesProofs` and `CatalogueProofs` extend `MCServices`
and `MCCheckout`, where the services and their properties have their names; their
theorems are about the specification of each module alone (`F!Spec`, `C!Q!Spec`),
but for `ServicesTypeCorrect`, `CheckoutsTypeCorrect` and `CheckoutsAreSafe`, which
are about all of them together, and hold for any value of its constants. A definition whose comment begins with "(faulty X:"
is a plausible wrong version of X; no action uses it, and the mutants of
`PROJECT.json` put it in X's place to see that a property notices.

How the components meet. Checkout ends where Payments begins: `CommitOrder`
creates order and first attempt in one transaction, and `Payments!Checkout` is
that commit. Payments keeps only `paymentStatus` of an order, OrderStatus only
`status`, which no payment changes, Checkout only who ordered and what was spent.
Sessions starts where a password, a code or Google has been verified, which is
`SignIn` of Accounts: there a session is only whether it is older than the
password, in Sessions it is a family of tokens. VerifyOrderOtp is in two modules:
Checkout has the code and its token, Accounts what it makes of the account. A
recorded market price feeds PriceAlerts (at once) and MarketAnalysis (by its date); the two share no state, hence no joint module.
Quotes and the address part of Delivery are called by the checkout, which reads
them inside its own SERIALIZABLE transaction; elsewhere a quote reads settings
that staff change between its reads, so `Quotes` lets every read find any
settings, and what it shows does not depend on which. Its amounts play no role
in Checkout, hence they are separate modules. What Imports writes to the market
prices is what PriceAlerts never sees: an upload evaluates no alert.

Correspondences a reader may look for:

- `Payments`: `job` is the `payment` object `initializePaymentAttempt` and
  `reconcilePaymentAttempt` pass along; the reference `<<o, 0>>` is `order_<o>`
  and `<<o, n>>` is `order_<o>_attempt_<n>`; `number` is `attemptNumber`,
  computed from the payments read at the start and compared with the count later.
  A charge answer is one of: accepted, unclear without a charge, unclear with
  one (timeout, 5xx, unreadable).
- `Checkout`: a wishlist line is counted per item because nothing keeps two
  lines of one item apart but the check in `CheckLine`; `seen...` is what the
  snapshot of the order transaction holds.
- `Sessions`: the `updateMany` in the rotation (`revokedAt: null`) decides who
  rotates; `rotating` is the open transaction that holds the row.
- `Announcements`: `job.todo` of a worker is the batch it claimed and has not
  written yet; `due` stands for `nextAttemptAt <= now`.
- `Quotes`: an amount is an integer of kobo, a quantity of hundredths, and
  `Share` is `roundMoney` of a product. The code computes with JavaScript
  numbers; that a product may come out a hair below one half, and round down, is
  not modelled.
- `OrderText`: a text is a sequence of clean words; what the code does by
  characters is done by words (one text contains another), or given (`Likeness`).
  `text` is what the handler and the page between two calls know of the line.
- `Imports`: `Key` is the comparison key (no case, blanks, hyphens,
  underscores), given as a function on a few spellings. A part is its name and
  one `detail` that stands for the other columns. A row with `Absent` in a cell
  is a row without a variant, a brand, a manufacturer or a price.
- `Delivery`: an area `covers` the places whose text matches its name or
  aliases. The same address, to an order, is one of the same `place`.
- `Accounts`: a user is a row with a password or not, a date of verification or
  not, and `authProviders`. `job.user` is the row a handler read with the link or
  the Google account. `mailed` tells a link that is stored from one the address
  has got; `cut` collects the addresses of requests that died half-way.
- `OrderStatus`: `changes`, `untold` and `mixed` are history: what was written,
  of what nobody was told because something failed, and which orders two
  requests were on at once. A task of a request is a notification or an e-mail
  it still has to send; those of several orders are sent in any order.
- `Pricing`: the table is a function from days to observations (no two at the
  same time), so "the newest" is the largest day; the queries, sorted arrays and reductions of the
  code are sets of days, ranks among them and sums over them. A question is the body
  of a request; what is not given is `Absent`, which is where the code takes a default.
- `WishlistPrices`: `seen` is the reading of the prices a decision was made on.
- `PriceUnits`: `tables` is the table after every change, so that a reading is the
  number of the change it has seen; `known` is the last change a process has
  answered for, `mixed` the processes two of whose refreshes overlapped.
- `BuyPrices`: `processed` and `results` in `job` are what the call read, and
  what it writes the job row from.

## 4. Runs

Properties are checked by TLC on the instances below. States are distinct
states; every passing run explores its state space completely.

| run | instance | shows |
|---|---|---|
| `payments` (0.5 M states) | one order, two requests, one webhook delivery at a time, two amounts, three attempts | `PaidIsBacked`, `AttemptsTellTheTruth` (`SuccessfulIsPaid`, `PendingHasCharge`, `ChargeHasPayment`, `AttemptsNumberedInOrder`), `NoChargeForPaidOrder`, and that all of it implements `Ledger` |
| `payments_live` | the same with one request and two attempts, under fairness | `MoneyReceivedSettlesOrder` |
| `payments_staff` (2.1 M) | two orders, one request, staff create payments, move them between orders and delete them | `SettledAccountIsPaid`, `OrderPaidWithItsPayment` survive whatever staff do between the read and the write of a settlement |
| `retry_unlocked` | two requests, three attempts | finding 1 |
| `checkout` (1.5 M) | with a wishlist and a coupon: two customers, three requests, three orders; or with codes: one customer, two challenges, two tokens, two requests; or two requests and: sheets of up to three rows of three, two of them one row in two spellings, one with variant and brand; four baskets, three promotions, four coupons, three fee rules; thirteen lines as customers write them, five products, seven prices, two changes meanwhile; an item of a wishlist and any set of active prices of two products, some without an offering, switched meanwhile; a zone, an area, a place and two addresses | `CouponWithinLimits`, `OneOrderEach` (a wishlist, a challenge), and that all of it implements `Purchases`; `NoRowGoesToAnother`; `QuoteIsRight` (`QuoteAddsUp`, `CouponNeverHurts`); `NothingIsGuessed`; `DefaultIsSupported`, `DefaultLostByDeletion` |
| `wishlist_final` | one wishlist, two requests | finding 2 |
| `sessions` (3.2 M) | two users, three tokens, three requests | `OneLiveTokenPerFamily`, `RotationIsAChain` |
| `announcements` (1.0 M) | two processes, two users, one request, chunks of one, batches of two, two attempts, one crash or lost write | `RecipientsAreTracked` (`ClaimedByOne`, `RowsTellTheTruth`), and that all of it implements `Outbox`; under fairness `QueuedIsDelivered` |
| `prices` (1.7 M) | two offerings, two requests, a generating job of two targets, four prices | `NoOfferingLosesItsPrice`, `JobAddsUp` |
| `prices_jobs` (77 k) | three targets in batches of two (the last one short), two callers, under fairness | `JobEnds` |
| `services` (1.3 M) | three requests: two staff and four tickets, or one user with two alerts and three moments, or two dates and two benchmarks; two requests: an address with two Google accounts and two links, or two orders with two changes, or three fee rules and a coupon, or one process with two units and two changes of them; or thirteen questions about up to three observed prices | `TicketsAreAssigned` (`LoadIsBalanced`, `HistoryExplainsAssignee`); `ToldOncePerTrigger`, `TriggersMoveForward`; `CompletedIsOneAnalysis`; `AccountsAreVouchedFor`, `NobodyIsLockedOut`, `ResetEndsSessions`; `StatusIsAccountedFor`; `PricedAsDefined` (`CalculatedAsDefined`, `BulkAgreesWithSingle`, `DearerNeverCheaper`); `FeesFollowOneRule`; `UnitsAreCurrent` (`LookupsAreCurrent`, `RecordedAsAsked`) |
| `imported_sku` | two requests, sheets of two of the three rows above | finding 3 |

Each module's `TypeOK` is checked in one run, and each property has a mutant, a
plausible mistake in the code that TLC finds through it.

**Why the bounds are enough.** The races are between two requests about the
same rows, so two requests on one object meet in every order; a third is there
where a third actor matters (a revocation beside two refreshes, an edit beside
two checkouts). Three attempts are the first number at which "the next
attempt" can be missed or made twice. A coupon of two uses with one per
customer separates the two limits. Three tokens make a chain with a middle.
Two moments more than `Never` distinguish "later" from "again", a third an
order between them. Chunks of one and batches of two make publication and
claiming take several steps. A sheet of two rows has two rows to disagree, with
each other and with the catalogue; two spellings of one key are what it takes to
be found and not found. The baskets and discounts are chosen at the edges: a
product that rounds, a discount above the subtotal, a tie, a cap, a minimum that
is met exactly and one that is missed. Two addresses are a default and its
replacement. The written lines are one of each kind that the code tells apart
(a marked amount, no number, a sized package, a misspelt or an unknown unit, a
name that fits two products), and two changes are a price and a product. Two
Google accounts meet at one address; two links are the replaced one and its
successor, of either kind. Two changes of status are what overlaps, or follows
upon another; three prices are the fewest with a median between, and the
observed ones have two markets, two units, three grades and no known amount
among them. Three fee rules are two that replace the third at once. Two units,
of which the migration inserts one, are what it takes to reuse a code; one
process is enough, because to it a change made by another is a change of its own
whose request died before it read the table anew.
Where the argument does not depend on the bound
at all, it is proved (section 6). Bounds named in the modules: `MaxAttempt`,
`MaxPayments`, `MaxChallenges`, `MaxTokens`, `MaxOrders`, `MaxLines`,
`MaxPrices`, `MaxTickets`, `MaxAlerts`, `MaxDate`, `MaxPrice`, `MaxCrashes`,
`MaxRows`, `MaxChanges`, `MaxAddresses`, `MaxLinks`, `MaxNotices`, `MaxDay`,
`MaxEdits`, `MaxRules`, `MaxWrites`, `MaxRecords`.
`UsageLimit`, `MaxOtpAttempts`, `BatchSize`, `ChunkSize`, `MaxAttempts` are
parameters of the code, given small values.

**Deadlock** is checked except where the system really stops: in `prices_jobs`
the job is over, in `prices` the bound on prices is reached, in `services` a
request is served once, or the bounds on links, changes,
days, rules, units and what is recorded in them are reached, in `checkout` and
`imported_sku` a quote or a written line is done with, in `retry_unlocked` nobody pays and the attempts run out.

**Symmetry** is used for requests (and orders) in runs without liveness
properties; requests differ in nothing. `services` uses none.

## 5. Fairness

- *Payments*: strong fairness of some delivery of a webhook for a reference
  that has been paid, and of its commit. Paystack repeats a delivery until it is
  answered with 200, and a process does not die at the same point for ever.
  Nothing is assumed of customers, staff, retries or of Paystack's answers.
- *Announcements*: weak fairness of the cron tick (every ten seconds, one cycle
  at a time in a process), of time (a schedule or a backoff falls due) and of
  each step of an actor that runs. Sending may fail every time; attempts are
  limited. Nothing takes a claimed row back after a crash, so
  `QueuedIsDelivered` excepts behaviours with one.
- *BuyPrices*: a request goes on or dies (weak); the caller of a job calls
  again and again, and not every call dies at the same step (strong). The code
  has no driver of its own: without such a caller the job does not end.

## 6. Proofs

Checked by TLAPS for every value of the constants that the named assumptions of
the modules admit: any number of orders, requests, deliveries, amounts, users and
tokens, any bounds. Every property that `PROJECT.json` lists is stated by a theorem
except those named at the end of this section.

The proofs are built alike. A property of the tables is not inductive, because a
request writes from what it read steps before. The invariant is therefore the
tables and, for every request, what it knows at the step it stands at
(`InHand`, `...Fits`, `Knows`); a lemma says which changes of the tables leave such
knowledge true (`KnowledgeStays`, `...StaysFit`), a few say what a request does that
goes on, ends or dies, and each action then owes only the tables it writes and what
its own request goes on with.

**Payments** (`PaymentsProofs`)

- `TypeCorrect`. The only lemma that is not routine is `PaymentsOfCount`: an
  order never has more payments than rows were created (finite cardinality), so
  an attempt number stays in its type.
- `SettledAccounts`: a settled bank account belongs to a paid order, whatever
  staff do. It is inductive with types alone, since `Settle` writes both.
- `OrdersTurnPaidWithAPayment`: an order turns paid only in a step that turns a
  payment successful. It holds because `payment.update` fails, and with it the
  transaction, when the row is gone.
- `PaidOrdersAreBacked`, under `StaffKeepTheBooks`: staff change statuses and
  delete payments, but do not create payments by hand or edit order, reference
  or amount. (With such edits the property is false: a payment moved to another
  order settles that one.) `PaidIsBacked` is not inductive: a settlement acts on
  a snapshot taken long before. The invariant `BackedInv` adds what every
  holder of a snapshot knows: rows name an order, one of its references and its
  total (`RowsAgree`); so do requests, and one that is about to record success
  saw the charge succeed (`RequestsAgree`); a delivery under way is about money
  that arrived in full (`DeliveriesAgree`). That receipts are never taken back
  (`ReceivedStays`) makes old snapshots good enough.
- `PaymentsImplementLedger`, under the same assumption: every step is a step of
  `Ledger` or leaves it alone. It needs `BackedInv` for "settled against money
  that arrived", and `PlacedInv` (nothing exists of an order before it is placed)
  for "placed once, funded after".

**Sessions** (`SessionsProofs`)

- `TypeCorrect`, `OneLiveToken`, `TokensFormChains` follow from one invariant,
  `IInv == Table /\ InHand`. `Table` is about the rows: ids are given in order,
  a family is named by a token not later than its members, one live token a
  family, chains. `InHand` is about requests: whoever has passed the
  conditional update holds the row of a live token, and no two hold the same.
  The second part is what makes rotation safe: a request that read the token
  live before another rotated it finds it revoked when the row is free.

**Accounts** (`AccountsProofs`), from `AccountsAssumption`: the bound on links is a
number, and the model value for "no account" is no address.

- `TypeCorrect` and `SignInsAreVouchedFor` follow from `IInv == Tables /\ InHand`.
  That a session is of a verified account is not inductive: `SignIn` acts on what
  an earlier statement established. `InHand` is what a request knows at each step
  (`Knows`): the account it read exists; it is verified if a sign-in follows; and
  the sign-in methods it read are still among those the account has. `Tables` adds
  that a Google account signs in to a verified account, and that an account
  without a password has one. What makes old knowledge good enough is `Grows`:
  accounts are not deleted, a verification is not taken back, a Google account
  stays linked. `KnowledgeStays` says so once, `GotoKeepsIInv` and
  `ReturnKeepsIInv` turn it into the step of a request, and each action then owes
  only its own tables and what its request goes on with.
- `ResetsEndSessions` is inductive with these types: an old session is that of an
  address whose reset is still to revoke, or was cut short.
- `EveryoneCanVerify` needs `MailsItsOwn`: the link a request is about to mail is
  the one it stored, or gone - an id is not given to another link in between.

**Checkout** (`CheckoutProofs`), from `IInv == Tables /\ InHand`.

- `CouponsAreLimited` and `OneOrderOnly`: an open order transaction knows of its
  snapshot that the redemptions it counted leave one more, that its code was not
  consumed and its wishlist not converted (`Knows`). What makes that good enough at
  the commit is the validation (`SerializableMeans`): the counted set is still the
  set, so the limit is met after one is added (`OneMoreRedemption`, by
  cardinality). Without the validation the step of `CommitOrder` cannot be proved,
  nor is it true.
- `SpentForGood`: ids are not given twice, and nothing that is written to a
  challenge, however old the reading it was decided by, unsets `consumed`.
- `CheckoutImplementsPurchases`: a code is good for the customer it was sent to until
  it is consumed or deleted, a wishlist is open until it is converted or deleted, and
  of the coupon is left what was not redeemed. The transaction is a `Sell` at its
  commit, with what it read as it began: by `SerializableMeans` that is there still.
  The commit takes it all at once (`CommitsAreSales`); everything else takes nothing
  (`GuessesTakeNothing`, `LinesTakeNothing`), deletes an open wishlist, or sends a code
  that voids earlier ones of the same customer (`CodesAreSent`). A verification writes
  by id, and may find its challenge consumed or gone: what it writes does not make the
  code good again.

**Announcements** (`AnnouncementsProofs`), from `IInv == Tables /\ AtWork`.

- `RecipientsTracked`: that no two processes hold a recipient (`ClaimedByOne`) needs
  that what a process holds is claimed in the table (`RowsTellTheTruth`), and that
  the recipient whose result is being written has left the batch (`JobFits`).
  `FOR UPDATE SKIP LOCKED` enters as: a claim takes what is not claimed.
- `SentForGood`: a row that is "sent" is nobody's to write.
- `AnnouncementsImplementOutbox`: a recipient waits, is taken, e-mailed once while in
  hand, and then sent, given up or back in the queue. Only `FanOut`, `Withdraw`,
  `ClaimBatch`, `Send`, `Mark` and `Dies` are steps of the outbox; the reads, the status
  and the schedule are none of its business (`TheRestTouchesNobody`). `IInv` is needed
  where a result is written: the row is claimed still, and by this process. That
  `crashes` is mapped to the failures of the outbox says that nobody is left in the
  hands of no one, and no success recorded as a failure, unless something failed.

**BuyPrices** (`BuyPricesProofs`), from `IInv == Tables /\ InHand`.

- `BulkJobsAddUp`: a call that overlaps another writes the job row from its own
  reading. The row adds up all the same, because what was read is a prefix of the
  targets, in order (`Knows`), and each write replaces all of it.
- `OnlyOutdatedEditsLosePrices`, for all edits: where an offering is left without an
  active price, that was deleted, or the step is an edit that moves it or sets it
  inactive (`Given`), or an edit that deactivated it for a price that is not any more
  what was read of it before the transaction (`Misled`, `Outdated`). Section 7 says
  how that happens. That an update which sets a price inactive replaces none is part
  of what a request knows (`Knows`).
- `OfferingsKeepAPrice`, under `"update" \notin Edits`, which is the case the run
  checks, follows: an activation knows which offering its price is for, and without
  updates that stays so (`ActivationsKeepPrices`).

**Payments, attempts** (also `PaymentsProofs`).

- `AttemptsAreTruthful`, under `StaffKeepTheRecords`: staff change the status of
  payments, and not to pending or successful. `TruthInv` adds to the property what a
  snapshot still proves when it is written: the row is there under the same
  reference, its charge is open if pending is to be written, and the number of an
  attempt is at most one ahead of the payments there are (by cardinality:
  `AddAttempt`, `NextNumberFits`). With other edits it is false.
- `PaidOrdersAreNotCharged` needs types only, and no assumption about staff.

**Services** (`ServicesProofs`); each theorem has an invariant of its own.

- `FeesFollowOne` (`FeesInv`): a request that will commit deactivates all that is
  active, unless some request committed while another was at it (`Outdates`).
- `CompletedIsOne` (`AnalysisInv`): the items a request is about to insert are its
  own and are of every benchmark. So none that it did not delete can stay beside
  them: the unique index would refuse it. The set of benchmarks is finite.
- `ToldOnce`, `TriggersGoForward` (`AlertsInv`): the count of an alert lies between
  what was told or is being told and that plus what failed, as cardinalities; a
  request has an alert once at most among those it found due, and tells of none
  twice.
- `TicketsAreShared` (`TicketsInv`): while nothing but openings has happened, whoever
  is about to be assigned has no more than anybody, since one request holds the
  lock; whoever a request knows as assignee *had* the ticket (`Had`), which no
  later reassignment undoes, and that is what the history needs (`Explained`).
- `UnitsStayCurrent` (`UnitsInv`): a request that keeps a reading has one that has
  seen its own change, and all its process answered for unless two refreshes met.
- `StatusesAreTold` (`StatusInv`): a change has a task until it is told, and no two
  tasks are of one change; an order that no two requests were on at once has one
  task at most, so its changes are told in order, and the status that was read of
  it is its status still.

- `ServicesTypeCorrect`: the composed run types every service. A step is of one service,
  and along it the invariant above of that service is kept (`AlertsInvKept`, ...); of
  Accounts it is that of `AccountsProofs`. Only tickets need one fact more, that the
  advisory lock is held by a request or by nobody (`LockStaysHeld`).

**Pricing** (`PricesAreAsDefined`, also `ServicesProofs`). The invariant is no more than
`P!TypeOK`: the property is about what the operators return for every table of
observations and every question, and the substance is in lemmas about them.

- A strategy reads no row that names no known unit (`KnownSuffices`), and of the rest
  only those found for its question (`StrategyReadsFound`).
- Sums and ranks are over finite sets of days. A total is a recursive function of the
  last day counted; that it does not depend on the order and grows with its
  terms (`TotalGrows`, `TotalOfSame`) is proved from a smallest day where it would not, in
  place of an induction rule. An average lies between the least and the greatest of
  what was averaged (`AverageBetween`) through the rounding of `Average`, and so does a
  median (`MedianInTheMiddle`), of an even number of prices too.
- That no price falls where a market asks more (`NeverCheaper`) then is monotony,
  strategy by strategy: `MedianGrows` through `RankedGrows` (the k-th price of the dearer
  table is not less than the k-th of the other), `AverageGrows`, and least and newest.
- `BulkAgrees`: every target of a bulk question is answered as the single question
  about it would be (`TargetAnswered`).

**Catalogue** (`CatalogueProofs`)

- `DefaultsAreSupported` (`AddressInv`): a request that makes an address the default
  found it supported, and numbers are not given twice, so it is so or gone when it is
  written. `DefaultsLostByDeletion` goes through the steps that write addresses.
- `NothingGuessed`: what a line or an item is taken for follows from the catalogue
  that was read for it (`TextInv`, `WishInv`). The substance is in lemmas about the
  operators: what the unit that is not known makes of a line (`UnknownUnitIsSeen`),
  which price is left when there are rivals (`PriceCandidates`), and what an item with and
  without an offering resolves to (`WishForAnOffering`, `WishForAnyOffering`).
- `QuotesAreRight`: `PricedRightly` from `DiscountsResolved` (whatever stacks or
  competes, the discounts add up and are not less than the promotion alone) and
  `FeeGrows` (a fee of less is not more, through rounding, minimum and maximum).
  That the subtotal is a number needs a fold over a finite set (`SumOfNats`); it is
  proved without an induction rule, from a smallest subset that would be without a
  sum.
- `RowsStayPut` (`ImportInv`): a request that writes holds a sheet that is valid
  against the catalogue it analyzed (`ValidAgainst`). If that is the catalogue it
  writes to, and no two SKUs in it differ in spelling alone, then the offering a row
  finds is the one it was compared with, or one that an earlier row of the sheet,
  with the same parts, created.

- `CheckoutsTypeCorrect` and `CheckoutsAreSafe`: the whole of `MCCheckout`, the
  specification its runs check. A step of it is one of each service or leaves that
  service alone (`CheckoutSteps`), so what is proved of a service holds of the whole
  (`CheckoutsServe`). The two instances of Checkout, with wishlists and without
  tokens and the reverse, satisfy `CheckoutAssumption` (`WishlistAssumed`,
  `TokenAssumed`), so the inductive invariant of `CheckoutProofs`, instantiated with
  their constants, holds of each (`CheckoutsInv`); without wishlists no coupon is
  left, which is what the common limits need (`OrdersAreLimited`). The shape of what
  each service keeps is proved beside it: what an item or a line of text is decided
  to be is one of the outcomes (`WishOutcomes`, `TextOutcomes`), a quote's totals are
  numbers (`QuoteTotals`), and what a sheet writes fits the tables, whatever spelling
  was kept for a row (`SpelledIs`, `SheetWrites`).

The assumptions say what the code and its DTOs guarantee, and TLC evaluates them in
the runs: tables and sets of requests are finite where something is counted,
percentages are within 100, the values that stand for "none" are not names, and
Key in Imports is any function. `WishlistPrices` assumes that its set of items has,
with an item, the items that name an offering there is of that product and unit,
because matching an item is confirming one of those.

**Only model-checked**: liveness (`MoneyReceivedSettlesOrder`, `QueuedIsDelivered`,
`JobEnds`), which needs `ENABLED`; and the three violations, which are
counterexamples. Every safety invariant and every action property that a passing
run checks is stated by a theorem.

## 7. What the code does not promise

Modelling showed that these do not hold. Where neither code nor docs promise
them they are no findings; no run states them, and the properties that are
stated are the ones that remain.

- A paid order may be left without a successful payment: an answer that is
  older than the webhook writes pending or failed over successful
  (`payments.service.ts:140`, `:303`). The order stays paid; only a repeated
  webhook repairs the row.
- An order can be charged twice: an attempt that is written off while its charge
  is open is followed by another, and a customer may pay both.
- Deleting a payment makes the next retry ask for a reference that is taken.
- A wishlist can get two lines of one item, and an order made from it may lack a
  line that was added, or have one that was removed, during the conversion.
- Ending a session family or all sessions of a user may miss a replacement that
  is committed while the update waits.
- An announcement cancelled during publication is sent all the same; one that is
  closed during publication stays "sending" for good; the claimed rows of a
  process that died are never tried again.
- An overlapping call puts a completed bulk job back to processing or failed.
- Two active prices of one offering are possible, and so are duplicate alerts,
  two default addresses and two active service fee rules (when two activations
  overlap; `FeesFollowOneRule` says what remains): each is read, then
  written, at READ COMMITTED without an index. `NoOfferingLosesItsPrice` is
  checked with making, activating and deleting; an `update` that leaves
  `isActive` alone decides from a read before its transaction, and if its price
  was replaced meanwhile it deactivates the replacement and stays inactive; and an
  edit of a price that another update moves meanwhile deactivates the prices of the
  offering it was read with. `OnlyOutdatedEditsLosePrices` proves that nothing else
  does this.
- A customer may be left without a default address: one that is deleted while it
  becomes the default is not replaced. A default may be in a zone that was
  removed or switched off since; quotes refuse it then.
- A quote looks up whether a price is active, but not whether its product is,
  nor whether the product of an amount is (`orders.service.ts:1174`): what was
  withdrawn since the text was read, or is quoted by its id, is quoted all the
  same. An unknown unit of three words falls through to an amount of money, and
  so does a number before a bare product: "1/2 rice" is rice for 50 kobo.
- A sheet that spells a SKU, a product or a package in another way than the
  catalogue is valid, and creates it a second time
  (`catalogue-bulk.service.ts:943`). Among twins, the analysis looks at the one
  the query returns last.
- A second SKU for a combination without variant or brand is accepted when it
  comes by a sheet or by two requests at once: nulls are distinct to the index,
  while `catalogue.service.ts:405` would refuse it ("A product offering with the
  same product, variant, brand, and package already exists").
- A market price that is uploaded twice, or twice at once, is stored twice:
  migration 20260702130113 dropped the unique indexes that `skipDuplicates`
  relies on. `pricesSkipped` of the result stays zero.
- A reply by staff writes back the status it read, and may undo a resolution.
- Two overlapping changes of a status may each tell the customer of the status
  they read, which the other has replaced (`NotesTellTheStory` excepts such
  orders). Feedback that was checked while an order was delivered is stored after
  staff took that back (`docs/customer-order-endpoints.md:87` asks for a delivered
  order): `FeedbackFollowsDelivery` says that it was delivered at some time.
- The sign-in methods of an account (`authProviders`) may lack Google after a
  password was set by a link while Google was linked: it is written as it was
  read. Google sign-in goes on working, it looks at `user_auth_providers`.
- When two requests for a link overlap, the one mailed last may be dead, because
  the other request deleted it; the one mailed first then works. A registration
  or a resend that dies after deleting and before mailing leaves no link; the
  customer must ask again.
- A login whose password was compared before a reset signs in after it, and a
  reset that dies between its statements leaves the sessions. `ResetEndsSessions`
  says what remains.
- When two changes of the units overlap, the refresh of the older reading may be
  kept last, and the process goes on resolving codes by it until the next change
  or restart; the other processes do so after every change that is not theirs.
  `UnitsAreCurrent` excepts the first, and holds each process only to the changes
  it has answered for itself. What is recorded meanwhile is in a unit that was
  active under the code in that reading, never in one that is gone (foreign key).
- Two overlapping toggles of a coupon or a promotion act as one.
- With a fixed `logisticsBuffer`, the hybrid strategy chooses the market by one
  cost of delivery and adds another, so a dearer market may lead to a cheaper
  price; `DearerNeverCheaper` excepts that. One target that cannot be priced
  refuses the whole bulk calculation.
- A second request that took a failed analysis date may overwrite the completed
  analysis of the first, or mark it failed; a date whose request died stays
  processing. (`docs/catalogue-variants-and-market-analysis-plan.md:496` asks for
  a job that is "idempotent and concurrency-safe"; the plan below returns to it.)

## 8. Findings

1. `retry_unlocked` (`payments/payments.service.ts:393`): the advisory lock of
   `createRetryPaymentAttempt` is never taken. Two retries pass the count and
   the second fails on the unique reference instead of being told to wait. The
   test at `payments.service.spec.ts:327` is titled "creates retry attempts using an
   advisory lock query that returns a scalar". Run `payments` shows that the
   unique index alone keeps the attempts in order.
2. `wishlist_final` (`wishlists/wishlists.service.ts:166`): edits look at
   `convertedAt` and write later, so a wishlist converted in between is edited
   or deleted, while `docs/wishlist-endpoints.md:106` says "A converted wishlist
   cannot be edited or deleted."
3. `imported_sku` (`catalogue/catalogue-bulk.service.ts:706`): the analysis
   compares ids, and a variant or brand that does not exist yet has none, like a
   row without one. A sheet may thus give the SKU of an offering without variant
   a new variant: it is valid, and its price is stored for the offering without.
   The upload's own template (`:241`) says that "offeringSku uniquely identifies
   the exact product + variant + brand + package combination." Run `checkout`
   shows what remains: no row goes to an offering of another part.

## 9. Not modelled

- Pure I/O and presentation: mail templates, listings, filters, pagination,
  uploads of attachments, the signature check of the webhook, the parsing of
  spreadsheets (a row is what has been parsed).
- Single-row create, read, update and delete of reference data (products,
  categories, markets, delivery and route costs), updates and
  deactivation of catalogue rows, and marking notifications as read: one
  statement each, guarded by unique indexes. `updateOffering` reads before it writes, and two of them at
  once may combine a product with a variant of another; no property of the
  project depends on it.
- Which settings staff can make of service fees, coupons and promotions is an
  assumption of Quotes (`QuotesAssumption`, from the checks of the DTOs).
  CommerceConfig models only which of them are active.
- The names, aliases and package types by which sheets and written lines find a
  unit (`price-unit-lookup.ts`): OrderText and Imports get the unit as it was
  found. `UnitIsActive` of Pricing is what the reading of its process says.
- How a number is spelled in a written line, and the edit distance of two words:
  both are given (`Lines`, `Likeness`). Binary floating point.
- Guards, throttling, configuration, and the connection pool of five.

Abstractions inside the modelled parts: one currency in Payments, one bank
account a payment; codes are right or wrong; staff choose among the statuses of a
constant; benchmarks are not edited and a median is one number; a demotion
happens by role change only; requests about tickets, alerts and the analysis are
served once; one customer has all addresses, because customers share none; a
password is there or not, a credential is right or the request is no step.

## 10. Plan

Done, in this order: Payments (the money), its proofs and the refinement of
Ledger; Checkout; Sessions and its proofs; Announcements; BuyPrices; the first
three services behind `MCServices`; Quotes, Imports, Delivery and OrderText behind
`MCCatalogue`; Accounts and its proofs, OrderStatus, Pricing, CommerceConfig and
PriceUnits in `MCServices`; WishlistPrices in `MCCatalogue`; the proofs of Checkout,
Announcements and BuyPrices, of the attempts in Payments, of the services and of
the catalogue; the refinements of Purchases and Outbox.

Next, extending the model:

1. Updates and deactivation in the catalogue (`catalogue.service.ts`,
   `products.service.ts`), where two updates may combine what neither checked.
2. A run of MarketAnalysis alone that states "a completed analysis stays as it
   is" against the line of the plan document quoted in section 7.

An abstract specification worth stating, with the proof that it is implemented: a
bulk job as a cursor that BuyPrices implements up to overlapping calls. The
invariant of section 6 is what such a proof needs.
