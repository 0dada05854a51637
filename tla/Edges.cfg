SPECIFICATION Spec
CONSTANTS
  client1 = client1
  client2 = client2
  client3 = client3
  tab1 = tab1
  tab2 = tab2
  server1 = server1
  server2 = server2
  proc1 = proc1
  proc2 = proc2
  Keys = {client1, client2, client3}
  Limit = 2
  Window = 2
  SweepEvery = 3
  MaxBuckets = 2
  Servers = {server1, server2}
  NumTitles = 3
  Retries = 2
  MaxRestarts = 1
  MaxOutages = 1
  Tabs = {tab1, tab2}
  MaxToken = 2
  Terms = {"a", "ab", "ac"}
  TooShort = {"a"}
  MaxTypes = 4
  MaxEdits = 3
  Procs = {proc1, proc2}
  FreshTTL = 1
  StaleTTL = 2
  LockTTL = 1
  NotAfters = {{}, {1}}
  Waits = {1}
  Processes = {proc1, proc2}
  Statuses = {"active", "suspended", "none"}
  MaxLeft = 1
INVARIANTS
  BurstsAreBounded
  SeedsComplete
  OneRefresher
PROPERTIES
  RefusalsEnd
  ServersListen
  RedirectionsEnd
  LastTermIsSearched
  PagesCatchUp
  RefreshesGoOn
  EntitlementsArrive
CHECK_DEADLOCK FALSE
