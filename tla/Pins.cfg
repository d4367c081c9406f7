SPECIFICATION Spec
CONSTANTS
  Pins = {p3, p9, p10, p12}
  PwmPins = {p9, p10}
  HandlerPins = {p12}
  Values = {0, 100, 200, 255}
INVARIANTS
  TypeOK
  AsLastCalled
