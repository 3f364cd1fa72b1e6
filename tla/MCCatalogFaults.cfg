SPECIFICATION Spec
CONSTANTS
  a = a
  b = b
  long = long
  UserRels = {r1}
  Temp = Temp
  Attrs = {a, long}
  TooLong = {long}
  AttrLists <- MCFaultLists
  MaxEntries = 3
  MaxPages <- MCAttrPages
  Crashes = TRUE
  Faults = TRUE
  NoSchema = NoSchema
INVARIANTS
  
  
  ListedOnce
