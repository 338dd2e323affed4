SPECIFICATION PartsSpec
CONSTANTS
  Parts = {"timeouts", "solo", "cft", "bft", "piers", "blocks", "events", "signing"}
  hub = hub  svcA = svcA  svcB = svcB
  v1 = v1  v2 = v2  v3 = v3  v4 = v4  v5 = v5
  m1 = m1  m2 = m2  m3 = m3
  chainA = chainA  chainB = chainB  a1 = a1  r1 = r1
  Remote = Remote  NoFeed = NoFeed  NoStream = NoStream
  p2 = p2  c1 = c1  q1 = q1  NoOne = NoOne
PROPERTIES TimeoutFires BlocksComeOut  CallsReturn
CHECK_DEADLOCK FALSE
