SPECIFICATION PartsSpec
CONSTANTS
  Parts = {"broker", "hubs", "services", "ratings"}
  hub = hub  otherHub = otherHub
  a = a  b = b  u = u  w = w  x = x  y = y
  h1 = h1  a1 = a1  a2 = a2
  x1 = x1  x2 = x2  x3 = x3
  HubService = {h1}
  AppService = {a1, a2}
  Unordered = {a2}
  ByEVM = FALSE
  MaxIndex = 3
INVARIANTS CountersAgree  RatingsExact
CHECK_DEADLOCK FALSE
