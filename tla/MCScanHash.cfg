\* Two threads share 16 nonces; numbers of two binary words.
CONSTANTS
  N = 2
  Digit = 4
  Gap = 2
  MaxSpan = 2
  MaxWork = 2
  Words = 2
  Base = 2
  Target <- MidTarget
SPECIFICATION Spec
INVARIANTS
  SolutionSound
  MissedOnlyAtTop
  NoDoubleHash
CHECK_DEADLOCK FALSE
