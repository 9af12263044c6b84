SPECIFICATION Spec
CONSTANTS
  Confs <- FramedConfs
  QueueSize = 2
  FrameSize <- TextIsLong
  OutBufferMax = 2
  ReadTimeout = 2
  ClosingTime = 2
  MaxIn = 1
  MaxCmd = 3
INVARIANT ClosingBounded
