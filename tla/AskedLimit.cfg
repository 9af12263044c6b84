SPECIFICATION Spec
CONSTANTS
  Kinds = {"tcp"}
  Limits = {1, 2}
  DefaultMax = 3
  W = 3
  ServerId = 1
  MaxSockets = 5
INVARIANT AskedLimit
