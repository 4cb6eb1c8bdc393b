SPECIFICATION FairAccountingSpec
CONSTANTS
  NumTasks = 2
  QueueSlots = 4
  Prio <- PrioById
  Period <- HogPeriod
  Offset <- TimedOffset
  Reserve <- TimedReserve
  Signals = {}
  BootSignals = {}
  Sems = {}
  SemCount <- OneEach
  SemCeiling <- Highest
  MaxWakeup = 7
  TimePad = 2
  PowerDown = TRUE
  SleepWakeup = 3
  TimerWrap = 11
  StartCompare = 8
  SectionTicks = 0
  Calls <- HogCalls
  TickArgs = {3}
  PeriodArgs = {2}
  WaitMasks = {}
  IsrSignals = {}
INVARIANTS NoTickLost BudgetHeld PeriodKept
PROPERTIES ReadyTaskRuns
