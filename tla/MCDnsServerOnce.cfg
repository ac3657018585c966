SPECIFICATION Spec
CONSTANTS
  t1 = t1
  t2 = t2
  w1 = w1
  w2 = w2
  x = x
  y = y
  z = z
  c1 = c1
  c2 = c2
  m1 = m1
  ARRAYSIZE = 3
  DnsThreads = {t1, t2}
  NoJob = NoJob
  Jobs <- MCJobs
  Conns = {c1, c2}
  NoConn = NoConn
  MaxFd = 1
  SentKinds = {"full"}
  Names <- MCNames
  TrieNames <- MCTrieNames
  HashVals <- MCHashVals
  BKDRHash <- MCHash
  First4 <- MCFirst4
  Chars = {"a", "b", "c", "d"}
  TIME_OUT = 0
  MaxTime = 1
  MAXNAMES = 2
  NoAnswer = NoAnswer
  Workers = {w1, w2}
  NoReq = NoReq
  Request <- MCRequest
  Datagrams = {}
  NoDatagram = NoDatagram
  DatagramNames <- MCDatagramNames
  DatagramKinds = {"ok", "badmagic", "zero"}
INVARIANT SecondReplyOnce
CHECK_DEADLOCK FALSE
SYMMETRY MCSymmetry
