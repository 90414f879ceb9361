SPECIFICATION FairSpec
CONSTANTS
  r1 = r1
  r2 = r2
  r3 = r3
  f1 = f1
  f2 = f2
  s1 = s1
  s2 = s2
  s3 = s3
  QueryError = QueryError
  Reqs = {r1, r2, r3}
  Previews = {}
  Refreshers = {}
  Sources = {s1, s2}
  Singles = {s2}
  Selects <- OneWideRequest
  Concurrency = 1
  MaxNodes = 1
PROPERTIES
  NoStarvation
  RequestsAnswered
