\* Every failure: fallback to getwork, undecodable pushes, few retries.
CONSTANTS
  m1 = m1
  m2 = m2
  v1 = v1
  v2 = v2
  Miners = {m1}
  Vars = {v1}
  MaxTip = 1
  MaxQueue = 1
  OptRetries = 1
  WantLongpoll = TRUE
  AllowGetwork = TRUE
  LongpollDecodes = FALSE
SPECIFICATION Spec
INVARIANTS
  TypeOK
  OneRequest
  LongpollHandshake
  LongpollIdKnown
\* The process ends once workio has given up.
CHECK_DEADLOCK FALSE
