SPECIFICATION FairSpec
CONSTANTS
  NumTasks = 2
  QueueSlots = 4
  Prio <- PrioById
  Period <- MixedPeriod
  Offset <- None
  Reserve <- None
  Signals = {1}
  BootSignals = {1}
  Sems = {}
  SemCount <- OneEach
  SemCeiling <- Highest
  MaxWakeup = 7
  TimePad = 2
  PowerDown = FALSE
  SleepWakeup = 3
  TimerWrap = 11
  StartCompare = 8
  SectionTicks = 1
  Calls <- MixedCalls
  TickArgs = {}
  PeriodArgs = {}
  WaitMasks <- RaceMasks
  IsrSignals = {1}
INVARIANTS IdleIsLast CompareAhead
PROPERTIES SignalledReturns WaitsLikeEventWait
