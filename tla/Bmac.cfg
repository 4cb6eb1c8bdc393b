SPECIFICATION BmacFairSpec
CONSTANTS
  TxTask = {tx1}
  NoPacket = none
  Packet = {p1}
  Prio <- UsersAbove
  QueueSlots = 6
  MaxReserves = 1
  ReservePeriod = 2
  ReserveCount = 1
INVARIANTS BmacTypeOK ReserveBound
PROPERTIES HandOver EachPacketOnce ReceivedIsTaken SenderReturns EnabledMacRuns
