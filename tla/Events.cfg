SPECIFICATION FairSpec
CONSTANTS
  NumTasks = 2
  QueueSlots = 4
  Prio <- PrioById
  Period <- EventPeriod
  Offset <- None
  Reserve <- None
  Signals = {1}
  BootSignals = {1}
  Sems = {0}
  SemCount <- OneEach
  SemCeiling <- Highest
  MaxWakeup = 5
  TimePad = 2
  PowerDown = FALSE
  SleepWakeup = 2
  TimerWrap = 8
  StartCompare = 6
  SectionTicks = 1
  Calls <- EventCalls
  TickArgs = {3}
  PeriodArgs = {}
  WaitMasks <- EventMasks
  IsrSignals = {}
INVARIANTS SignalledIsDue NothingPending WaitReturnsOneSignal NoStrandedWaiter ValueInRange
PROPERTIES PostedReturns
