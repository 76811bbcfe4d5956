\* Eight sales under the target's own name.
SPECIFICATION Spec
CONSTANTS
  Rows <- MCRows
  Listings <- MCListings
  ResaleRules <- MCRules
  MinimumProfit = 1300
  MaxRows = 8
INVARIANTS
  OwnNameCounts
\* A full sheet takes no more rows.
CHECK_DEADLOCK FALSE
