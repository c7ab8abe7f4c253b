SPECIFICATION FairSpec
CONSTANTS
  Threads = {t1}
  Main = main
  Endpoints <- Everything
  ScansFail = TRUE
  Interrupts = TRUE
  MaxRequests = 3
  Absent = Absent
  Empty = Empty
  Torn = Torn
INVARIANTS
  StateCurrent
PROPERTIES
  RequestsAnswered
