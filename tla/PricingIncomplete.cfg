\* A row without its last, optional cell.
SPECIFICATION Spec
CONSTANTS
  Rows <- MCRows
  Listings <- MCListings
  ResaleRules <- MCRules
  MinimumProfit = 1300
  MaxRows = 1
INVARIANTS
  IncompleteRowsCount
\* A full sheet takes no more rows.
CHECK_DEADLOCK FALSE
