SPECIFICATION PSpec
CONSTANTS
  a = a
  b = b
  DataSize = 7
  SlotSize = 1
  Bytes <- MCBytes
  Lengths <- MCLengths
  NoRecord = NoRecord
INVARIANTS
  SpaceAccounted
  Compacted
PROPERTY
  ImplementsPage
