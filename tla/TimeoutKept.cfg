SPECIFICATION Spec
CONSTANTS
  Calls <- LoopCalls
  DefaultTimeout = 4
  MicrosPerMilli = 3
  Drawn = 1
  MaxCmd = 2
INVARIANT TimeoutKept
