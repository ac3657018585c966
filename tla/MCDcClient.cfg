SPECIFICATION LiveSpec
CONSTANTS
  d1 = d1
  d2 = d2
  d3 = d3
  Domains = {d1, d2, d3}
  Length <- MCLength
  Batches <- MCBatches
  TCP_OR_UDP = 1
  HEAD_LENGTH = 3
  WORD = 2
  Wild = Wild
INVARIANTS ClientTypeOK AnsweredRight NoMixup DeathNeedsSwallowing
PROPERTY CallReturns
CHECK_DEADLOCK FALSE
