SPECIFICATION Spec
CONSTANTS
  t1 = t1
  t2 = t2
  Threads = {t1, t2}
  SMALL = 1
  BIG = 1
  BIGGEST_CAP = 2
  chunks_num = 2
  DEFAULT_EXTRA = 1
  HALVINGS = 3
  COUNT_MOD = 4
  Sizes = {2, 3, 200, 258}
  MaxCalls = 5
  MaxChunks = 6
INVARIANTS MmTypeOK ListsSound UseExact NothingLeaks
SYMMETRY MCSymmetry
CHECK_DEADLOCK FALSE
