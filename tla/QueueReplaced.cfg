SPECIFICATION FairSpec
CONSTANTS
  Threads = {t1, t2}
  NoThread = NoThread
  Priority <- MixedPriority
  Length <- MixedLength
  MaximumPacketSize = 15
  MaxBinds = 2
  MaxResets = 1
CHECK_DEADLOCK FALSE
INVARIANTS
  RemovedWereConfirmed
