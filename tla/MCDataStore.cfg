SPECIFICATION FairSpec
CONSTANTS
  w1 = w1
  w2 = w2
  Tabs = {0, 2}
  Writers = {w1, w2}
  MaxWrites = 2
INVARIANTS
  TypeOK
  StaleExplained
PROPERTIES
  NeverBackwards
  WaitSettles
