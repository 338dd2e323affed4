SPECIFICATION Spec
CONSTANTS
  src1 = src1
  dst1 = dst1
  dst2 = dst2
  g1 = g1
  g2 = g2
  Group = {g1}
  Channel <- MCChannel
  Children <- OneGroup
  TimeoutHeight = {2}
  Switchable = {}
  NotifySrc <- MCNotifySrc
  NotifyDst <- MCNotifyDst
  MaxUint64 = 5
  MaxHeight = 3
INVARIANTS
  SuccessUndone
CHECK_DEADLOCK FALSE
