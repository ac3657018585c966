SPECIFICATION LiveSpec
CONSTANTS
  t1 = t1
  t2 = t2
  w1 = w1
  w2 = w2
  x = x
  y = y
  z = z
  c1 = c1
  c2 = c2
  m1 = m1
  ARRAYSIZE = 4
  DnsThreads = {t1, t2}
  NoJob = NoJob
  Jobs <- MCJobs
  Conns = {c1}
  NoConn = NoConn
  MaxFd = 1
  SentKinds = {"full", "overlong", "truncated", "short", "badmagic", "zero", "tiny", "empty"}
  Names <- MCNames
  TrieNames <- MCTrieNames
  HashVals <- MCHashVals
  BKDRHash <- UdpHash
  First4 <- MCFirst4
  Chars = {"a", "b", "c", "d"}
  TIME_OUT = 0
  MaxTime = 1
  MAXNAMES = 2
  NoAnswer = NoAnswer
  Workers = {w1}
  NoReq = NoReq
  Request <- MCRequest
  Datagrams = {m1}
  NoDatagram = NoDatagram
  DatagramNames <- MCDatagramNames
  DatagramKinds = {"ok", "badmagic", "zero"}
PROPERTIES RequestsComplete  
CHECK_DEADLOCK FALSE
