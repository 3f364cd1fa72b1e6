SPECIFICATION Spec
CONSTANTS
  r1 = r1
  r2 = r2
  r3 = r3
  long = long
  Heaps = {}
  Scans = {s1}
  Inserts = {i1}
  Deleters = {s1}
  Markers = {}
  Rescanners = {s1}
  Records <- MCRecords
  Length <- MCLength
  Matches <- MCMatches
  NoRecord = NoRecord
  DataSize = 4
  SlotSize = 1
  NumBufs = 4
  MaxPages = 4
INVARIANT
  ScanComplete
