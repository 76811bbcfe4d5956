\* No service ever fails: the only event is one SIGTERM.
SPECIFICATION Spec
CONSTANTS
  NoItem = NoItem
  Items = {i1, i2}
  Unsendable = {}
  Qualified = FALSE
  Attributed = TRUE
  MaxFaults = 0
  MaxStops = 1
  MaxCrashes = 0
  MaxLapses = 0
SYMMETRY ListingSymmetry
INVARIANTS
  FailedSendReleasesClaim
