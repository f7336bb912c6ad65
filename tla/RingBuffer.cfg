CONSTANTS
  Capacity = 4
  Value = {s1, s2, s3}
  NoValue = none
SPECIFICATION RingSpec
PROPERTY ImplementsBoundedLog
