SPECIFICATION Spec
CONSTANTS
  s1 = s1
  s2 = s2
  l1 = l1
  l2 = l2
  r1 = r1
  r2 = r2
  Sites = {s1}
  SeedSites = {}
  Licenses = {l1}
  Requests = {r1}
  Ops = {"activate"}
  MaxActivations <- MCMaxActivations
  TrialsEnabled = {TRUE, FALSE}
  MaxTime = 2
  Horizon = 3
PROPERTIES
  AdmittedOnValidLicenses
