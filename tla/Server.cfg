SPECIFICATION Spec
CONSTANTS
  Kinds = {"tcp", "ws", "kcp"}
  Limits = {1, 2}
  DefaultMax = 3
  W = 3
  ServerId = 1
  MaxSockets = 5
INVARIANTS TypeOK CountExact LimitKept IdsApart
PROPERTIES NoneTurnedAway
