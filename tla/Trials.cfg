SPECIFICATION FairSpec
CONSTANTS
  s1 = s1
  s2 = s2
  l1 = l1
  l2 = l2
  r1 = r1
  r2 = r2
  Sites = {s1}
  SeedSites = {s1}
  Licenses = {l1}
  Requests = {r1, r2}
  Ops = {"startTrial", "validate", "activate", "optIn", "extendTrial", "grantPro"}
  MaxActivations <- MCMaxActivations
  TrialsEnabled = {TRUE, FALSE}
  MaxTime = 2
  Horizon = 3
CONSTRAINT ExploredOverlaps
INVARIANTS
  OneTrialPerSite
PROPERTIES
  TrialsOverwriteNothing
  LapsedAccessIsMarked
