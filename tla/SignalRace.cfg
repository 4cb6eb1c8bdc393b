SPECIFICATION Spec
CONSTANTS
  NumTasks = 2
  QueueSlots = 4
  Prio <- PrioById
  Period <- TimedPeriod
  Offset <- None
  Reserve <- None
  Signals = {1}
  BootSignals = {1}
  Sems = {}
  SemCount <- OneEach
  SemCeiling <- Highest
  MaxWakeup = 7
  TimePad = 2
  PowerDown = TRUE
  SleepWakeup = 3
  TimerWrap = 11
  StartCompare = 8
  SectionTicks = 1
  Calls <- RaceCalls
  TickArgs = {}
  PeriodArgs = {}
  WaitMasks <- RaceMasks
  IsrSignals = {}
INVARIANTS NothingPending
