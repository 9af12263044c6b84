SPECIFICATION FairPair
CONSTANTS
  Confs <- PairConfs
  QueueSize = 1
  FrameSize <- TextIsLong
  OutBufferMax = 1
  ReadTimeout = 1
  ClosingTime = 1
  MaxIn = 0
  MaxCmd = 2
  Sends = {"Ping", "Close"}
  sSends = {"Text", "Close"}
  Window = 1
INVARIANTS EndToEnd EofMeansNoClose OneCloser
PROPERTIES EndsTogether
