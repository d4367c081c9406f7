SPECIFICATION FairSpec
CONSTANTS
  ServoCount = 1
  Wrap = 16
  REFRESH_INTERVAL = 10
  Widths = {3, 4}
  Margin = 2
  MaxLate = 1
  IsrLag = 1
  ByteSize = 4
PROPERTY DetachStops
