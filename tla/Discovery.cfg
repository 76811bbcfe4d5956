\* Three searches on two slots; all three find i1, and a stop may come.
SPECIFICATION FairSpec
CONSTANTS
  s1 = s1
  s2 = s2
  s3 = s3
  i1 = i1
  i2 = i2
  sneakers = sneakers
  runners = runners
  vintage = vintage
  NoSearch = NoSearch
  Searches = {s1, s2, s3}
  Items = {i1, i2}
  Results <- MCResults
  Name <- MCName
  Concurrency = 2
INVARIANTS
  TypeOK
  BoundedConcurrency
  NeverStuck
  Attribution
  FoundByNames
  CompleteBatch
  ErrorReported
  HealthIsOutcome
PROPERTIES
  RoundSpec
  RunReturns
\* The worker ends after a stop.
CHECK_DEADLOCK FALSE
