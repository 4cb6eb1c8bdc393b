SPECIFICATION SlipFairSpec
CONSTANTS
  MAX_RX_UART_BUF = 4
  WaitsForSignal = TRUE
  QueueSlots = 2
  Frame <- Marks
  max_len = 2
  TooMany = 6
  MaxLost = 7
  LineLost = 1
  MaxSent = 9
INVARIANTS SlipTypeOK LossIsBounded
PROPERTIES ImplementsChannel FramesKeepComing
