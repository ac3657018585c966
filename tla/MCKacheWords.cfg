SPECIFICATION Spec
CONSTANTS
  x = x
  y = y
  z = z
  s = s
  w1 = w1
  w2 = w2
  r1 = r1
  Names <- MCNames
  TrieNames = {z}
  HashVals = {0}
  BKDRHash <- MCHash
  First4 <- MCFirst4
  Chars = {"a", "b", "c"}
  TIME_OUT = 0
  MaxTime = 2
  Storers = {w1, w2}
  Seekers = {r1}
  NoName = NoName
  Answers <- MCAnswers
INVARIANTS AcceptedIsRecent ForeignNeedsCollision SlotKeyMatches
SYMMETRY MCSymmetry
CHECK_DEADLOCK FALSE
