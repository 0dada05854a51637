SPECIFICATION Spec
CONSTANTS
  l1 = l1
  l2 = l2
  w1 = w1
  w2 = w2
  Subs = {l1, l2}
  CustomerOf <- MCCustomerOf
  Sites = {1, 2}
  HomeOf <- MCHomeOf
  Bound <- MCBound
  Syncs = {w1, w2}
  MaxVersion <- MCMaxVersion
  MaxFailures = 1
SYMMETRY SyncSymmetry
INVARIANTS
  SiteFollowsLicenses
  CyclesHaveAFirstSync
  AnsweredIsInEffect
PROPERTIES
  ImplementsLedger
  SanctionsSurviveBilling
