SPECIFICATION ObjectSpec
CONSTANTS
  Limits <- MCLimits
  Values <- MCValues
INVARIANTS
  ObjectTypeOK
  ReadBack
  AngleOnLine
