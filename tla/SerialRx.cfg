SPECIFICATION Spec
CONSTANTS
  RxSize = 3
  MaxBytes = 7
  HwDepth = 3
INVARIANTS
  TypeOK
PROPERTIES
  ImplementsLossyStream
