SPECIFICATION BmacFairSpec
CONSTANTS
  TxTask = {tx1}
  NoPacket = none
  Packet = {p1}
  Prio <- MacAbove
  QueueSlots = 6
  MaxReserves = 1
  ReservePeriod = 2
  ReserveCount = 1

PROPERTIES SenderReturns
