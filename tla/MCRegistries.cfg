SPECIFICATION PartsSpec
CONSTANTS
  Parts = {"dapps", "transfers", "domains", "expiry", "consensus", "audit"}
  s1 = s1  x1 = x1  x2 = x2  n1 = n1  n2 = n2  k1 = k1  k2 = k2
  d1 = d1  t1 = t1  v1 = v1  p1 = p1  p2 = p2  p3 = p3  q1 = q1  e1 = e1  e2 = e2
  Nil = Nil
  None = Nil
  Supers = {s1}
  Word = 64
  Account = {x1, x2}
  Name = {n1, n2}
  Contract = {k1, k2}
  ZeroPermitted = FALSE
  MaxProposals = 3
  MaxDapps = 2
INVARIANTS DappsAddUp   NodesServe
 
CHECK_DEADLOCK FALSE
