SPECIFICATION Spec
CONSTANTS
  Requests <- MCRequests
  Steal = 20
  Delays = {0, 20}
  Spans = {5}
  Phases = {0, 40}
  MaxLength = 150
INVARIANTS
  TypeOK
  TimeoutKept
PROPERTIES
  WholePulse
  ZeroMeans
