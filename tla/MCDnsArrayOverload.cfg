SPECIFICATION FairRingSpec
CONSTANTS
  ARRAYSIZE = 4
  DnsThreads = {t1, t2, t3}
  Jobs = {a, b}
  NoJob = NoJob
INVARIANT SurvivesOverload
CHECK_DEADLOCK FALSE
