SPECIFICATION MCSpec
CONSTANTS
  Scenarios = {"wishlist", "token", "imports", "quotes", "text", "delivery", "wishes"}
  c1 = c1
  Pair = {x1, x2}
  Customers = {c1, c2}
  Wishlists = {w1}
  Owner <- MCOwner
  Items = {i1}
  MaxLines = 1
  Requests = {r1, r2, r3}
  UsageLimit = 2
  PerCustomerLimit = 1
  MaxOtpAttempts = 1
  MaxChallenges = 2
  MaxTokens = 2
  MaxOrders = 3
  Absent = "absent"
  Key <- SampleKey
  Rows <- SampleRows
  Baskets <- SampleBaskets
  Promotions <- SamplePromotions
  Coupons <- SampleCoupons
  FeeRules <- SampleFeeRules
  Lines <- SampleLines
  Products <- SampleProducts
  Name <- SampleName
  Units <- SampleUnits
  Aliases <- SampleAliases
  Sized <- SampleSized
  PriceList <- SamplePriceList
  Likeness <- SampleLikeness
  Offers <- SampleOffers
  Wishes <- SampleWishes
  MaxRows = 3
  Fallback = 5
  ZoneCosts = {0, 50}
  MaxChanges = 2
  Zones = {z1}
  Areas = {a1}
  Places = {p1}
  MaxAddresses = 2
SYMMETRY Sym
CHECK_DEADLOCK FALSE
INVARIANT MCTypeOK
INVARIANT CouponWithinLimits
INVARIANT OneOrderEach
PROPERTY OrdersArePurchases
INVARIANT QuoteIsRight
 
INVARIANT DefaultIsSupported
PROPERTY NoRowGoesToAnother
PROPERTY DefaultLostByDeletion
