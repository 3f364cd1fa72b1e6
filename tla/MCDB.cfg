SPECIFICATION Spec
CONSTANTS
  Names = {n1, n2}
  Files = {f1, f2, f3}
  Handles = {h1, h2, h3}
  NoFile = NoFile
  MaxOpen = 4
  Faults = TRUE
INVARIANTS
  TableExact
  HeldIsCounted
  OpenExists
