CONSTANTS
  t0 = t0 t1 = t1 u = u a = a
  short = short long = long
  Ranks = {0, 1}
  Tags = {9, 17}
  Channels <- MCChannels
  Payloads = {short, long}
  SizeOf <- MCSizeOf
  Threads = {t0, t1, u}
  AsyncThreads = {a}
  RankOf <- MCRankOf
  Workloads <- MCWorkloads
SPECIFICATION FairSpec
INVARIANTS ReceivesInOrder SynchronousSend
PROPERTY MatchedSendReturns
CHECK_DEADLOCK FALSE
