SPECIFICATION FairSpec
CONSTANTS
  Confs <- MixedConfs
  QueueSize = 1
  OutBufferMax = 2
  InBufferMax = 1
  ReadTimeout = 1
  ShakeTimeout = 1
  ClosingTime = 1
  MaxIn = 3
  MaxCmd = 1
INVARIANTS TypeOK InboundExact OpenAfterHandshake PongsMatch
PROPERTIES RefinesHandler Terminates
