SPECIFICATION Spec
CONSTANTS
  Threads = {t1, t2}
  Main = main
  Endpoints = {"mint", "envelope"}
  ScansFail = FALSE
  Interrupts = FALSE
  MaxRequests = 2
  Absent = Absent
  Empty = Empty
  Torn = Torn
INVARIANT
  MintIsPersisted
