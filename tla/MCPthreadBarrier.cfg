\* Three threads, four rounds; a phase counter of two values wraps in them.
CONSTANTS
  t1 = t1
  t2 = t2
  t3 = t3
  Threads = {t1, t2, t3}
  PhaseMod = 2
  MaxRounds = 4
SPECIFICATION FairSpec
INVARIANTS
  NobodyEarly
PROPERTIES
  IsABarrier
  ReleasedLeaves
\* Every thread stops after MaxRounds rounds.
CHECK_DEADLOCK FALSE
