SPECIFICATION Spec
CONSTANTS
  FirstAngle = 98
  LastAngle = 101
  Echoes = {580, 25000}
  Timeout = 100
  Capacity = 65
  PulseTimes = {1, 2, 3}
INVARIANTS
  TypeOK
  UpToDate
PROPERTIES
  RecordsTruthful
  ImplementsSweep
