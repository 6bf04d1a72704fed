SPECIFICATION Spec
CONSTANTS
  Columns <- SomeColumns
  Counts = {1, 2, 3}
  MaxWidths = {0, 1, 5, 7, 8, 9, 10, 12, 15, 25}
INVARIANTS
  Fitted
  OutliersGoFirst
CHECK_DEADLOCK FALSE
