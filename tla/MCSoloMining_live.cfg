\* Miners keep up with the node, without assuming anything of long polls.
CONSTANTS
  m1 = m1
  m2 = m2
  v1 = v1
  v2 = v2
  Miners = {m1}
  Vars = {v1}
  MaxTip = 2
  MaxQueue = 1
  OptRetries <- Forever
  WantLongpoll = TRUE
  AllowGetwork = FALSE
  LongpollDecodes = TRUE
SPECIFICATION FairSpec
INVARIANTS
  NoMissedBlock
  NoDanglingWork
  OldScanInterrupted
PROPERTIES
  FetchNeverRegresses
  KeepsUp
