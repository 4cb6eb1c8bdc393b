SPECIFICATION TdmaFairSpec
CONSTANTS
  NUM_NODES = 3
  PKT_LEN = 4
  Node <- Nodes
  Networks <- ChainAndTriangle
  Packet <- Packets
  NoFrame = none
  HopTime = 1
  SlotLen = 4
  SetupTime = 2
INVARIANTS TdmaTypeOK PathIsRoute ListenersAreRelays NoSlotError
PROPERTIES DataArrives StartupEnds
