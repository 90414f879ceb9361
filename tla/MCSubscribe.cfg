SPECIFICATION Spec
CONSTANTS
  r1 = r1
  w1 = w1
  home = home
  QueryError = QueryError
  Readers = {r1}
  Writers = {w1}
  Names = {home}
  MaxSources = 2
  MaxCombineds = 2
  MaxConnections = 2
  Singles = {2}
  Concurrency = 1
  MaxNodes = 1
  Sections = {"proxy-groups"}
INVARIANTS
  MembersFetched
  VerdictExplained
  ClashServed
