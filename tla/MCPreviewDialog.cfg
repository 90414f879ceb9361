SPECIFICATION FairDialogSpec
CONSTANT MaxLoads = 5
INVARIANTS
  ShowsLatest
PROPERTIES
  DialogSettles
