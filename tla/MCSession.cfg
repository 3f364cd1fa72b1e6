SPECIFICATION Spec
CONSTANTS
  Bits = 5
  Junk = {9}
  RelNames = {"R", "S"}
  InitRels <- MCInitRels
  UnixFiles <- MCUnixFiles
  Commands <- MCCommands
  MAXATTRS = 3
  MAXNODE = 16
  MAXCHAR = 20
  MAXSTRINGLEN = 2
  JoinMethod = "NL"
  Numbered <- MCNumbered
  MaxTuples = 2
INVARIANTS
  SelectExact
  JoinExact
  DeleteExact
  InsertReadable
  CommandScope
  RefusedIsHarmless
  ArraysInBounds
PROPERTIES
  RepeatAccepted
  CommandEnds
CHECK_DEADLOCK FALSE
