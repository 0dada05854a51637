SPECIFICATION PartsSpec
CONSTANTS
  r1 = r1
  r2 = r2
  s1 = s1
  s2 = s2
  s3 = s3
  s4 = s4
  license1 = license1
  blog = blog
  shop = shop
  other = other
  domain1 = domain1
  domain2 = domain2
  Requests = {r1, r2}
  Users = {user1}
  Members = {user1}
  Posts = {post1}
  price1 = price1
  price2 = price2
  mail1 = mail1
  mail2 = mail2
  Sites = {s1, s2, s3}
  SeedSites = {}
  Licenses = {license1}
  ActivationOps = {"activate"}
  MaxActivations <- MCMaxActivations
  TrialsEnabled = {TRUE, FALSE}
  MaxTime = 1
  Horizon = 2
  Urls = {blog, shop, other}
  DomainOf <- MCDomainOf
  AdUrls = {blog}
  MaxAds = 4
  Plans = {"monthly"}
  Prices = {price1, price2}
  NoPrice = NoPrice
  AmountOf <- MCAmountOf
  EnvPrice <- MCEnvPrice
  Graces = {1, 2}
  Customers <- MCCustomers
  NoSite = NoSite
  PublicSite = PublicSite
  MaxWindow = 2
  MaxSessions = 2
  AdSites = {s1, s2, s3, s4}
  NumAds = 3
  AdOwner <- MCAdOwner
  MaxCopies = 2
  Sources = {s1, s2}
  Weights = {0, 3}
  AdTime = 1
SYMMETRY RequestSymmetry
VIEW View
CONSTRAINTS
  AloneInLastWindow
  SessionsLeft
INVARIANTS
  OverLimitIsConcurrent
  LostRacesCanRetry
  DuplicateAdsAreConcurrent
  BarsTakeHold
  KeysNameOneRequest
  LoopMeetsRotation
  OutsidersWaitOneLap
PROPERTIES
  FlagsHold
  OperatorSettingsStay
CHECK_DEADLOCK FALSE
