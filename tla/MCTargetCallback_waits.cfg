CONSTANTS
  t1 = t1
  t2 = t2
  n1 = n1
  n2 = n2
  d1 = d1
  d2 = d2
  Threads = {t1, t2}
  Names = {n1, n2}
  Data = {d1, d2}
  NoData = NoData
  WaitNames <- SoleWaitNames
  AnyLists <- SoleAnyLists
  Timeouts = {1}
  ClearNames = {n2}
  DurMax = 7
  MaxNow = 3
  MaxNotify = 2
SPECIFICATION FairSpec
INVARIANTS ArgsAsDelivered NoLostWakeup
PROPERTIES EveryWaitEnds
