SPECIFICATION UsedSpec
CONSTANTS
  hub = hub  otherHub = otherHub
  a = a  b = b  u = u  w = w  x = x  y = y
  Service <- MCService
  HubOf <- MCHubOf
  BxhId = hub
  BxhService = {w}
  Ordered <- MCOrdered
  NotifyFlags <- MCNotifyFlags
  Channel <- MCChannel
  Index = {1, 2, 3}
  TimeoutHeight <- Timeouts
  Switchable = {b, otherHub}
  MaxUint64 = 5
  MaxHeight = 3
  MaxRequests = 3
INVARIANTS
  CounterConsistency
  ChannelNotWedged
  VerdictsAgree
PROPERTIES
  KeepsPromise
