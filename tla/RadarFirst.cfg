SPECIFICATION Spec
CONSTANTS
  FirstAngle = 98
  LastAngle = 101
  Echoes = {5900}
  Timeout = 100
  Capacity = 65
  PulseTimes = {1, 2, 3}
PROPERTIES
  EachDegree
