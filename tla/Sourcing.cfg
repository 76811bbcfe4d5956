\* Two searches, edited, paused, deleted and replaced while they are polled.
SPECIFICATION FairSpec
CONSTANTS
  Clients = {c1}
  Idle = Idle
  i1 = i1
  sneakers = sneakers
  runners = runners
  Names = {sneakers, runners}
  URLs <- MCURLs
  FirstRows <- MCRows
  MaxID = 3
  MaxWrites = 2
  Items = {i1}
  NoItem = NoItem
  NoAttempt = NoAttempt
  Finds <- MCFinds
  LegacyFinds = {i1}
  MaxFaults = 1
INVARIANTS
  TypeOK
  PollNamesDistinct
  HealthOfPoll
  PollSurfaces
  RecordedOrReason
PROPERTIES
  ToggleFlips
  EventuallySurfaced
  HealthCatchesUp
