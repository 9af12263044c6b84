SPECIFICATION Spec
CONSTANTS
  Confs <- MixedConfs
  QueueSize = 1
  OutBufferMax = 2
  InBufferMax = 1
  ReadTimeout = 1
  ShakeTimeout = 1
  ClosingTime = 1
  MaxIn = 2
  MaxCmd = 2
INVARIANTS DataExact HandshakeFirst CloseOnce DrainedAll
