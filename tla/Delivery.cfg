\* Two jobs at a time, in one second or two.
SPECIFICATION Spec
CONSTANTS
  Jobs = {j1, j2}
  Seconds = 2
  MaxRuns = 2
  MaxEdits = 1
  None = None
  Blank = Blank
INVARIANTS
  SealedIsWhole
  ShippedAsTested
  ExitTellsDelivery
CHECK_DEADLOCK FALSE
SYMMETRY Symmetric
