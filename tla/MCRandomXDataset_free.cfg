\* Three threads and one change of epoch: a dataset is released in use.
CONSTANTS
  t1 = t1
  t2 = t2
  t3 = t3
  Threads = {t1, t2, t3}
  FirstSeed = 1
  MaxSeed = 2
SPECIFICATION Spec
INVARIANTS
  NoUseAfterFree
