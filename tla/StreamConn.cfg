SPECIFICATION FairSpec
CONSTANTS
  Confs <- MixedConfs
  QueueSize = 2
  FrameSize <- TextIsLong
  OutBufferMax = 2
  ReadTimeout = 2
  ClosingTime = 2
  MaxIn = 2
  MaxCmd = 2
INVARIANTS TypeOK InboundExact OutboundExact PongsMatch DrainedAll Backpressure
PROPERTIES RefinesHandler Terminates
