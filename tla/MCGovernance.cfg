SPECIFICATION PartsSpec
CONSTANTS
  Parts = {"strategies", "depth", "rules", "services"}
  s1 = s1  a1 = a1  n1 = n1  x1 = x1  x2 = x2  c1 = c1  r1 = r1  r2 = r2
  v1 = v1  m1 = m1  m2 = m2  k1 = k1  Nil = Nil
  Supers = {s1}
  Word = 64
  Chain = {c1}
  Account = {x1, x2}
  ChainName = {m1, m2}
  Rule = {r1, r2}
  Service = {v1}
  ServiceName = {k1}
  ChainOf <- OneChain
  DefaultRule = r1
  ZeroModules = {}
  WithdrawLocked = FALSE
  None = Nil
  MaxProposals = 4
INVARIANTS GovernanceAlive UnderWay LocksHeld ChainIsDefinite ResumedWithChain
CHECK_DEADLOCK FALSE
