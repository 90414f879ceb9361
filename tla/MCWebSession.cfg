SPECIFICATION FairSpec
CONSTANTS
  a = a
  b = b
  t1 = t1
  t2 = t2
  Tabs = {a, b}
  Tokens = {t1, t2}
  MaxCalls = 2
INVARIANTS
  TypeOK
  SpinnerHasRequest
PROPERTIES
  SignedOutForCause
  TabOpens
