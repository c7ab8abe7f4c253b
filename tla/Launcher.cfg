SPECIFICATION FairSpec
CONSTANTS
  Shells = {s1}
  Pids = {p1, p2, p3}
  Commands = {"start", "stop", "launch", "restart", "status"}
  Foreground = TRUE
  Abandonment = TRUE
  MaxCommands = 4
  MaxFaults = 2
  Absent = Absent
  Blank = Blank
INVARIANTS
  NoOrphan
  OnlineUnlessRival
PROPERTIES
  SpawnedServes
CHECK_DEADLOCK FALSE
