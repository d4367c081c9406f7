SPECIFICATION FairSpec
CONSTANTS
  TxSize = 3
  MaxBytes = 6
  LineFast = FALSE
INVARIANTS
  TypeOK
  IrqHasData
  RoomHonoured
  CompletionSeen
PROPERTIES
  FlushSendsAll
  ImplementsChannel
  CallsReturn
  AllSent
