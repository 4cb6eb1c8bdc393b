SPECIFICATION FairSpec
CONSTANTS
  NumTasks = 2
  QueueSlots = 4
  Prio <- PrioById
  Period <- TimedPeriod
  Offset <- TimedOffset
  Reserve <- TimedReserve
  Signals = {}
  BootSignals = {}
  Sems = {}
  SemCount <- OneEach
  SemCeiling <- Highest
  MaxWakeup = 7
  TimePad = 2
  PowerDown = TRUE
  SleepWakeup = 3
  TimerWrap = 11
  StartCompare = 8
  SectionTicks = 1
  Calls <- TimedCalls
  TickArgs = {3}
  PeriodArgs = {2}
  WaitMasks = {}
  IsrSignals = {}
INVARIANTS TypeOK IdleIsLast CompareAhead ReadyIsQueuedOnce HighestReadyRuns
PROPERTIES SuspendedWakesUp
