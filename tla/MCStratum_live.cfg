\* Any one fault, and no share that could end workio: the process goes on.
CONSTANTS
  m1 = m1
  Miners = {m1}
  OptRetries = 1
  MaxX1 = 2
  MaxJob = 2
  MaxX2 = 1
  MaxRx = 2
  MaxShares = 0
  Budget = 1
SPECIFICATION FairSpec
PROPERTIES
  KeepsUp
