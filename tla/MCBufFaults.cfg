SPECIFICATION Spec
VIEW MCView
CONSTANTS
  f1 = f1
  f2 = f2
  NumBufs = 2
  Files <- MCFiles
  Pages <- MCPages
  NoPage = NoPage
  Contents = {zero}
  Zero = zero
  NoContent = NoContent
  MaxPin = 2
  IoFaults = TRUE
INVARIANTS
  HashSound
  SweepIsLoop
PROPERTY
  PinnedFrameKept
