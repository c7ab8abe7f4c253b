SPECIFICATION FairSpec
CONSTANTS
  Keys = {k1, k2}
  Payloads = {p1}
  MaxSeq = 1
  MaxCrashes = 2
  NoLine = NoLine
INVARIANTS
  ChainIntact
  HandoffInOrder
  HandoffBacked
  LogAccounted
  DamageIsOneLine
PROPERTIES
  EvidenceGrows
  FreshFrameHandedOver
  ImplementsDelivery
