SPECIFICATION PartsSpec
CONSTANTS
  Parts = {"filters", "cft", "bft", "piers", "blocks", "rounds", "newcomer"}
  p1 = p1  p2 = p2  c1 = c1
  v1 = v1  v2 = v2  v3 = v3  v4 = v4
  m1 = m1  m2 = m2  m3 = m3
  a = a  b = b  a1 = a1  a2 = a2
  Remote = Remote  NoFeed = NoFeed  NoStream = NoStream
  r1 = r1  r2 = r2  NoOne = NoOne
  Filters = {p2, c1}
  Pushed = {c1}
  TypeOf <- Wanted
  MaxEvents = 3
INVARIANTS NothingLost SyncedChain NoBlockLost 
 
CHECK_DEADLOCK FALSE
