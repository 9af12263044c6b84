SPECIFICATION FairSpec
CONSTANTS
  Calls <- AllCalls
  DefaultTimeout = 4
  MicrosPerMilli = 3
  Drawn = 1
  MaxCmd = 2
INVARIANTS TimeoutExact AsAsked
PROPERTIES Ends
