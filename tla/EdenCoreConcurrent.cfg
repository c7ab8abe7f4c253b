SPECIFICATION Spec
CONSTANTS
  Threads = {t1, t2}
  Main = main
  Endpoints = {"run", "verify", "telemetry"}
  ScansFail = TRUE
  Interrupts = TRUE
  MaxRequests = 2
  Absent = Absent
  Empty = Empty
  Torn = Torn
SYMMETRY Symmetric
INVARIANTS
  CountersCoherent
  NoLostCount
PROPERTIES
  ImplementsTable
