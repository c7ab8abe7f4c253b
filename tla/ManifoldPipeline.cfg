SPECIFICATION FairSpec
CONSTANTS
  Keys = {k1, k2}
  Payloads = {p1, p2}
  MaxSeq = 1
  MaxCrashes = 1
  NoLine = NoLine
  NoSession = NoSession
  MaxSealed = 2
  MaxDamaged = 1
  MaxResent = 1
INVARIANTS
  ObservedAsSealed
PROPERTIES
  SealedIsObserved
