SPECIFICATION StorageFairSpec
CONSTANTS
  f = f
  c1 = c1
  Files <- OneFile
  Clients <- OneClient
  Sizes = {2}
  HighWaterMark = 2
CHECK_DEADLOCK FALSE
PROPERTIES
  UploadsEnd
