SPECIFICATION FairSpec
CONSTANTS
  t1 = t1
  t2 = t2
  Tokens = {t1, t2}
  TTLs = {0, 2, 10, 14}
  Sec = 2
  MinDate <- Earliest
  MaxDate = 9
  MaxDelta = 12
  MaxTime = 5
  MaxCrashes = 2
INVARIANTS
  ServedUpgraded
PROPERTIES
  SessionsKept
  EventuallyServes
