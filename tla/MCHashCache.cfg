SPECIFICATION FairSpec
CONSTANTS
  Clients = {wow, copy}
  Paths = {common}
  Contents = {good, bad, long}
  good = good
  bad = bad
  long = long
  SizeOf <- Sizes
  CoarseClock = FALSE
  MaxWrites = 4
  NoFile = NoFile
  NoEntry = NoEntry
  NoReport = NoReport
  NoJob = NoJob
INVARIANTS TypeOK CacheHonest
PROPERTY VerdictsSettle
