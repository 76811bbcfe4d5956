\* A search is deleted while the worker polls it; no call fails.
SPECIFICATION Spec
CONSTANTS
  Clients = {c1}
  Idle = Idle
  i1 = i1
  sneakers = sneakers
  runners = runners
  Names = {sneakers, runners}
  URLs <- MCURLs
  FirstRows <- MCRows
  MaxID = 3
  MaxWrites = 1
  Items = {i1}
  NoItem = NoItem
  NoAttempt = NoAttempt
  Finds <- MCFinds
  LegacyFinds = {i1}
  MaxFaults = 0
PROPERTIES
  AlertsAreRecorded
