\* One call fails or loses its answer; the worker runs on.
SPECIFICATION Spec
CONSTANTS
  NoItem = NoItem
  Items = {i1, i2}
  Unsendable = {}
  Qualified = FALSE
  Attributed = TRUE
  MaxFaults = 1
  MaxStops = 0
  MaxCrashes = 0
  MaxLapses = 0
SYMMETRY ListingSymmetry
INVARIANTS
  NeverSentTwice
