SPECIFICATION FairRingSpec
CONSTANTS
  ARRAYSIZE = 4
  DnsThreads = {t1, t2, t3}
  Jobs = {a, b}
  NoJob = NoJob
INVARIANTS RingTypeOK NoLostWakeup
PROPERTIES IsFifo QueueAdvances
CHECK_DEADLOCK FALSE
