SPECIFICATION Spec
CONSTANTS
  r1 = r1
  r2 = r2
  r3 = r3
  long = long
  Heaps = {}
  Scans = {s1, s2}
  Inserts = {i1}
  Deleters = {s1}
  Markers = {}
  Rescanners = {}
  Records <- MCRecords
  Length <- MCLength
  Matches <- MCMatches
  NoRecord = NoRecord
  DataSize = 4
  SlotSize = 1
  NumBufs = 3
  MaxPages = 4
SYMMETRY MCSymmetry
INVARIANTS
  PinsExact
  ChangeAnnounced
  ChainExact
  RecCntExact
  ScanComplete
  ScanOnce
