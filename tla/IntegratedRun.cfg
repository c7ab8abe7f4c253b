\* Every payload of two profiles and two candidates; a Marble edited twice.
SPECIFICATION Spec
CONSTANTS
  NaN = NaN
  None = None
  Payloads <- MCPayloads
  MaxEdits = 2
INVARIANTS
  ScheduleIsBest
  SelectionIsBest
  VerdictTracksContent
