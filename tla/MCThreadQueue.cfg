\* One queue as the program uses it: one thread pops. Waits may return early.
CONSTANTS
  p1 = p1
  d1 = d1
  d2 = d2
  Poppers = {p1}
  Data = {d1, d2}
  NULL = NULL
  Spurious = TRUE
  MaxPush = 5
SPECIFICATION Spec
INVARIANTS
  TypeOK
  FifoOrder
  NoLostWakeup
PROPERTIES
  NullHasReason
\* Callers may stop pushing.
CHECK_DEADLOCK FALSE
