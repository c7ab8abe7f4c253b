SPECIFICATION Spec
CONSTANTS
  Shells = {s1}
  Pids = {p1, p2, p3}
  Commands = {"start"}
  Foreground = TRUE
  Abandonment = FALSE
  MaxCommands = 2
  MaxFaults = 0
  Absent = Absent
  Blank = Blank
SYMMETRY Symmetric
INVARIANTS
  OnlineIsRecorded
CHECK_DEADLOCK FALSE
