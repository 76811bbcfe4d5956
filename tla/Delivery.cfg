\* Every failure once, in any order; Discord never accepts i2.
SPECIFICATION FairSpec
CONSTANTS
  NoItem = NoItem
  Items = {i1, i2}
  Unsendable = {i2}
  Qualified = FALSE
  Attributed = TRUE
  MaxFaults = 1
  MaxStops = 1
  MaxCrashes = 1
  MaxLapses = 1
INVARIANTS
  TypeOK
  NoUnexplainedDuplicate
  Backed
  SilenceAccounted
  AuditHonest
PROPERTIES
  EventuallyTold
  StopEnds
  LedgerSpec
