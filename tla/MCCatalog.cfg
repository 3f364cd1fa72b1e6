SPECIFICATION Spec
CONSTANTS
  a = a
  b = b
  long = long
  UserRels = {r1, r2}
  Temp = Temp
  Attrs = {a, b}
  TooLong = {}
  AttrLists <- MCAttrLists
  MaxEntries = 3
  MaxPages <- MCOnePage
  Crashes = FALSE
  Faults = FALSE
  NoSchema = NoSchema
INVARIANTS
  CatalogsAgree
PROPERTY
  ImplementsRelations
