\* A target whose most significant word is zero.
CONSTANTS
  N = 1
  Digit = 4
  Gap = 2
  MaxSpan = 2
  MaxWork = 1
  Words = 2
  Base = 2
  Target <- LowTarget
SPECIFICATION Spec
INVARIANTS
  NoSolutionMissed
CHECK_DEADLOCK FALSE
