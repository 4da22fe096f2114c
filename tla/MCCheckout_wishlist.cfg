SPECIFICATION MCSpec
CONSTANTS
  Scenarios = {"wishlist"}
  c1 = c1
  Pair = {x1, x2}
  Customers = {c1}
  Wishlists = {w1}
  Owner <- MCOwner
  Items = {i1}
  MaxLines = 1
  Requests = {r1, r2}
  UsageLimit = 1
  PerCustomerLimit = 1
  MaxOtpAttempts = 1
  MaxChallenges = 0
  MaxTokens = 0
  MaxOrders = 1
  Absent = "absent"
  Key <- SampleKey
  Rows <- SampleRows
  Baskets <- SampleBaskets
  Promotions <- SamplePromotions
  Coupons <- SampleCoupons
  FeeRules <- SampleFeeRules
  Lines <- SampleLines
  Products <- SampleProducts
  Name <- SampleName
  Units <- SampleUnits
  Aliases <- SampleAliases
  Sized <- SampleSized
  PriceList <- SamplePriceList
  Likeness <- SampleLikeness
  Offers <- SampleOffers
  Wishes <- SampleWishes
  MaxRows = 2
  Fallback = 5
  ZoneCosts = {0, 50}
  MaxChanges = 2
  Zones = {z1}
  Areas = {a1}
  Places = {p1}
  MaxAddresses = 2
SYMMETRY Sym
PROPERTY ConvertedWishlistIsFinal
