SPECIFICATION Spec
CONSTANTS
  Shells = {s1, s2}
  Pids = {p1, p2, p3}
  Commands = {"start", "stop", "restart"}
  Foreground = TRUE
  Abandonment = TRUE
  MaxCommands = 3
  MaxFaults = 2
  Absent = Absent
  Blank = Blank
SYMMETRY Symmetric
PROPERTIES
  UnrelatedUntouched
CHECK_DEADLOCK FALSE
