\* A solution is submitted again after a failed call.
CONSTANTS
  m1 = m1
  m2 = m2
  v1 = v1
  v2 = v2
  Miners = {m1}
  Vars = {v1}
  MaxTip = 1
  MaxQueue = 1
  OptRetries <- Forever
  WantLongpoll = FALSE
  AllowGetwork = FALSE
  LongpollDecodes = TRUE
SPECIFICATION Spec
PROPERTIES
  StaleDiscardSound
