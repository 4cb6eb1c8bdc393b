------------------------------ MODULE TaskSets ------------------------------
(***************************************************************************)
(* Small applications for the MC modules: priorities, periods, reserves    *)
(* and the calls the program of each task makes.                           *)
(***************************************************************************)
EXTENDS NrkTCB

None == [t \in Task |-> 0]
PrioById == [t \in Task |-> t]            \* task 2 outranks task 1
OneEach == [s \in Sems |-> 1]             \* binary semaphores
Highest == [s \in Sems |-> NumTasks]      \* the ceiling of a mutex all tasks use

\* The value x1, x2 or x3 for tasks 1, 2 and 3, and idle for the idle task.
ByTask(idle, x1, x2, x3) ==
  [t \in Task |-> CASE t = 1 -> x1 [] t = 2 -> x2 [] t = 3 -> x3 [] OTHER -> idle]

\* Two tasks that use every timed wait; task 2 has a reserve of 2 in 4 ticks.
TimedPeriod == ByTask(0, 5, 4, 0)
TimedOffset == ByTask(0, 0, 3, 0)
TimedReserve == ByTask(0, 0, 2, 0)
TimedCalls ==
  ByTask({}, WaitCall \cup {"set_next_wakeup", "terminate"}, {"next_period"}, {})

\* Task 2 waits for signals, with a timeout, and for a semaphore; task 1, which it
\* outranks, raises them and posts it.
EventPeriod == ByTask(0, 5, 0, 0)
EventMasks == {{1}, {WakeupSignal, 1}}
EventCalls ==
  ByTask({}, {"next_period", "event_signal", "sem_post"},
         {"signal_register", "set_next_wakeup", "event_wait", "sem_pend"}, {})

\* The signals come from task 2 while task 1 waits.
RaceMasks == {{1}}
RaceCalls ==
  ByTask({}, {"signal_register", "event_wait"},
         {"next_period", "event_signal"}, {})

\* Signals from task 1 and from interrupt handlers, while task 1 also creates
\* and deletes signals and task 2 registers, unregisters and waits for them.
MixedPeriod == ByTask(0, 4, 0, 0)
MixedCalls ==
  ByTask({}, {"signal_create", "signal_delete", "event_signal", "next_period"},
         {"signal_register", "signal_unregister", "event_wait"}, {})

\* Two tasks that share a semaphore and wait for their period inside and
\* outside of it.
MutexCalls == ByTask({}, {"sem_pend", "sem_post", "next_period"},
                         {"sem_pend", "sem_post", "next_period"}, {})

\* A task that never gives up the processor of its own accord, above one that
\* waits for its period.
HogPeriod == ByTask(0, 4, 6, 0)
HogCalls == ByTask({}, WaitCall, {"next_period"}, {})

=============================================================================
