SPECIFICATION SpecExperiments
CONSTANTS
  Tasks = {t1, t2}
  MaxRequests = 3
  MaxRuns = 2
  None = None
  Trials <- MCTrials
  MaxSamples = 2
  WindowRequests = 2
  N = 3
  Workers = {w1, w2}
  Attempts = 2
  TrialRequests = 4
  Shares = {0, 1, 2, 3}
  Sections <- MCSections
  Wrong = Wrong
  Broken = Broken
INVARIANTS
  ArmsAlike
  CallsReported
  LogMatchesRecords
  SamplesWhole
  ResultsOfOneRun
  BillAccounted
  ManifestFixesRecords
  ReuseAsBuilt
  PositionsBalanced
PROPERTY
  ExperimentsEnd
CHECK_DEADLOCK FALSE
