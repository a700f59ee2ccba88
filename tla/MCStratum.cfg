\* One miner and one share, with any one fault.
CONSTANTS
  m1 = m1
  Miners = {m1}
  OptRetries = 1
  MaxX1 = 2
  MaxJob = 2
  MaxX2 = 1
  MaxRx = 2
  MaxShares = 1
  Budget = 1
SPECIFICATION Spec
INVARIANTS
  UnitsDistinct
  TargetOfJob
  HandshakePaired
  AgreesWhenQuiet
  CountsShares
\* The process ends once workio has given up.
CHECK_DEADLOCK FALSE
