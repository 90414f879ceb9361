SPECIFICATION Spec
CONSTANTS
  r1 = r1
  r2 = r2
  r3 = r3
  f1 = f1
  f2 = f2
  s1 = s1
  s2 = s2
  s3 = s3
  QueryError = QueryError
  Reqs = {r1, r2}
  Previews = {r2}
  Refreshers = {f1}
  Sources = {s1, s2, s3}
  Singles = {s3}
  Selects <- AnyRows
  Concurrency = 2
  MaxNodes = 2
SYMMETRY RemoteSymmetry
INVARIANTS
  TypeOK
  PermitsConserved
  NothingOutlivesTheRequest
  RowsAccounted
  RefusedWhenAllFailed
