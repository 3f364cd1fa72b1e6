SPECIFICATION FSpec
CONSTANTS
  MaxPages = 5
  Data = {zero, v}
  Zero = zero
  NoContent = NoContent
INVARIANTS
  FreeListExact
PROPERTY
  ImplementsFile
