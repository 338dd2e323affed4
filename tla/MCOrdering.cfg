SPECIFICATION PartsSpec
CONSTANTS
  Parts = {"solo", "solo timed", "leader", "timed", "ageing", "follower", "raft", "raft elections", "raft crash", "raft snapshots", "raft timed"}
  n1 = n1  n2 = n2
  Node = {n1, n2}
  Tx <- OneAccount
  BatchSize = 1
  IsTimed = FALSE
  SnapCount = 9
  MaxLog = 4
  MaxElect = 1
  MaxCrash = 0
  SliceSize = 2
  CommitCap = 1
  Period = 2
INVARIANTS SoloOrders PoolSound OrderedOnce ChainsAgree
SYMMETRY Alike
CHECK_DEADLOCK FALSE
