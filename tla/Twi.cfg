SPECIFICATION FairSpec
CONSTANTS
  BufLen = 2
INVARIANTS
  TypeOK
  BusReleased
PROPERTIES
  WriteTruthful
  ReadTruthful
  MessageWhole
  CallsReturn
CHECK_DEADLOCK FALSE
