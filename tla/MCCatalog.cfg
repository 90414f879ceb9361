SPECIFICATION FairSpec
CONSTANTS
  w1 = w1
  w2 = w2
  home = home
  work = work
  Requests = {w1, w2}
  Names = {home, work}
  MaxSources = 2
  MaxCombineds = 2
  MaxConnections = 2
INVARIANTS
  TypeOK
  LockHeldInTransaction
  MembersExist
  NamesUnique
  MembersAsAsked
PROPERTY LockReleased
