\* Two threads through epoch changes at any time, and the benchmark.
CONSTANTS
  t1 = t1
  t2 = t2
  Threads = {t1, t2}
  FirstSeed = 1
  MaxSeed = 3
SPECIFICATION FairSpec
INVARIANTS
  TypeOK
  NoUseAfterFree
  ScanHasVm
  HashesWithOwnKey
  VmOnCompleteDataset
PROPERTIES
  FirstThreadBuilds
  EventuallyOwnKey
  BenchmarkEnds
