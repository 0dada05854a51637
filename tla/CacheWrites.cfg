SPECIFICATION MCSpec
CONSTANTS
  s1 = s1
  s2 = s2
  h1 = h1
  h2 = h2
  Sites = {s1, s2}
  NumAds = 1
  SiteOf <- MCSiteOf
  MaxCopies = 1
  Handlers = {h1}
  MaxTime = 1
  MaxNow = 1
  MaxWrites = 2
INVARIANT WritesInvalidateImmediately
