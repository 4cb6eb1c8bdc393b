SPECIFICATION MutexSpec
CONSTANTS
  NumTasks = 2
  QueueSlots = 4
  Prio <- PrioById
  Period <- TimedPeriod
  Offset <- None
  Reserve <- None
  Signals = {}
  BootSignals = {}
  Sems = {0}
  SemCount <- OneEach
  SemCeiling <- Highest
  MaxWakeup = 7
  TimePad = 2
  PowerDown = FALSE
  SleepWakeup = 3
  TimerWrap = 11
  StartCompare = 8
  SectionTicks = 1
  Calls <- MutexCalls
  TickArgs = {}
  PeriodArgs = {}
  WaitMasks = {}
  IsrSignals = {}
INVARIANTS MutualExclusion
