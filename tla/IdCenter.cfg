SPECIFICATION FairSpec
CONSTANTS
  Threads = {t1, t2, t3}
  MaxId = 2
  MaxCalls = 8
INVARIANTS TypeOK NowBounded IssuedBound
PROPERTIES CallsReturn
