\* Every sheet of at most ten rows: enough to trim one at each end.
SPECIFICATION Spec
CONSTANTS
  Rows <- MCComparable
  Listings <- MCListings
  ResaleRules <- MCRules
  MinimumProfit = 1300
  MaxRows = 10
INVARIANTS
  EstimateIsMedian
  QualifiedPaysOff
PROPERTIES
  OneSaleNeverDecides
\* A full sheet takes no more rows.
CHECK_DEADLOCK FALSE
