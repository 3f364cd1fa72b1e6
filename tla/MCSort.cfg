SPECIFICATION SortSpec
CONSTANTS
  Sorts = {x, y}
  MaxRecords = 2
INVARIANT
  TempFileCreated
CHECK_DEADLOCK FALSE
