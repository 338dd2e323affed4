SPECIFICATION PartsSpec
CONSTANTS
  Parts = {"raft again"}
  n1 = n1  n2 = n2
  Node = {n1, n2}
  Tx <- OneAccount
  BatchSize = 1
  IsTimed = FALSE
  SnapCount = 9
  MaxLog = 4
  MaxElect = 1
  MaxCrash = 0
  SliceSize = 2
  CommitCap = 1
  Period = 2
INVARIANT NeverTwice
SYMMETRY Alike
CHECK_DEADLOCK FALSE
