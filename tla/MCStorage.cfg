SPECIFICATION PartsSpec
CONSTANTS
  Parts = {"ledger", "journal", "block", "keeping", "following", "agree", "money", "proofs", "logs"}
  b1 = b1  b2 = b2  k1 = k1  k2 = k2  sender = sender  n1 = n1  n2 = n2
  s1 = s1  u = u  v = v  w = w  a1 = a1  a2 = a2  a3 = a3  a4 = a4  stranger = stranger
  A = A  B = B  t1 = t1  t2 = t2
  Block = {b1, b2}
  Busy = {b1}
  Window = 2
  CrashPoints <- SafePoint
  MaxHeight = 5
  MaxCrashes = 2
  MaxRollbacks = 2
  SegmentSize = 2
  MaxSnapshotFiles = 2
  Elsewhere = Elsewhere
  Services = {s1}
  Accounts = {u, v, w}
  Validators = {a1, a2, a3, a4}
  Admins = {v, w}
  Capacity = 2
  GasNormalTx = 1
  GasBVMTx = 3
  GasFailedTx = 1
INVARIANTS StoresAgree JournalsComplete  LogReopens ReplicasAgree PaidAndChecked LogsExact
CHECK_DEADLOCK FALSE
