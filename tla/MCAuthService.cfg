SPECIFICATION Spec
CONSTANTS
  w1 = w1
  w2 = w2
  w3 = w3
  t1 = t1
  t2 = t2
  t3 = t3
  alice = alice
  bob = bob
  Requests = {w1, w2}
  Tokens = {t1, t2}
  Names = {alice, bob}
  TTL = 2
  Sec = 2
  MaxTime = 5
  MaxChanges = 2
SYMMETRY Symmetry
INVARIANTS
  TypeOK
  SingleAdmin
  OldSessionsExplained
PROPERTIES
  SessionsEndOnce
  StartupSparesValid
