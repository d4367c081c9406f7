SPECIFICATION Spec
CONSTANTS
  Ticks = 6
  TickUs = 4
  MsUs = 20
  FractUnit = 2
  CountMod = 4
  MicrosMod = 96
  Uint16 = 48
  HalfMod = 2
  Delays = {0, 1, 3}
  MaxLate = 3
  MaxTurn = 1
  MaxNow = 36
INVARIANTS
  TypeOK
  NoDrift
  DelayNotLong
PROPERTIES
  MicrosInside
  MillisInside
  DelayNotShort
