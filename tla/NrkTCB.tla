------------------------------- MODULE NrkTCB -------------------------------
(***************************************************************************)
(* The data of the kernel: what a task set is (the fields of nrk_task_type *)
(* an application fills in), the task control blocks, the OS tick timer    *)
(* and the state of the processor.  All times are in OS ticks.             *)
(***************************************************************************)
EXTENDS Naturals, Integers, FiniteSets, ReadyQueue

CONSTANTS
  NumTasks,        \* tasks the application activates, IDs 1 .. NumTasks
  Prio,            \* task_prio, a function on Task
  Period,          \* period, 0 when the task has none
  Offset,          \* offset of the first release
  Reserve,         \* cpu_reserve, 0 when the reserve is disabled
  Signals,         \* signal numbers the application uses, 1 .. 31 in the code
  Sems,            \* indices into nrk_sem_list
  SemCount,        \* count each semaphore is created with
  SemCeiling,      \* its resource_ceiling
  MaxWakeup,       \* MAX_SCHED_WAKEUP_TIME, 250
  TimePad,         \* TIME_PAD, 2
  PowerDown,       \* FALSE when NRK_NO_POWER_DOWN is defined
  SleepWakeup,     \* NRK_SLEEP_WAKEUP_TIME, 3 on the FireFly 3
  TimerWrap,       \* values of the 8-bit counter TCNT2, 256
  StartCompare,    \* OCR2A as _nrk_setup_timer leaves it, 254
  SectionTicks,    \* ticks that can elapse in one short interrupt-free section
  Calls,           \* the kernel calls each task's program makes
  TickArgs,        \* arguments of the timed waits, in ticks
  PeriodArgs,      \* arguments of nrk_wait_until_next_n_periods
  WaitMasks,       \* masks passed to nrk_event_wait
  BootSignals,     \* signals main creates before nrk_start
  IsrSignals       \* signals that interrupt handlers raise

Idle == 0                       \* NRK_IDLE_TASK_ID
UserTask == 1..NumTasks
Task == 0..NumTasks
WakeupSignal == 0               \* nrk_wakeup_signal, created first by nrk_init
Far == 60000                    \* next_wake before any task lowered it

ASSUME TaskAssumption ==
  /\ NumTasks \in Nat
  /\ Prio \in [Task -> Nat] /\ Prio[Idle] = 0
  /\ \A t \in UserTask : Prio[t] > 0
  /\ Period \in [Task -> Nat] /\ Offset \in [Task -> Nat]
  /\ Reserve \in [Task -> Nat]
  /\ Period[Idle] = 0 /\ Offset[Idle] = 0 /\ Reserve[Idle] = 0

ASSUME SignalAssumption ==
  /\ Signals \subseteq Nat \ {WakeupSignal}
  /\ Sems \subseteq Nat
  /\ SemCount \in [Sems -> Nat] /\ SemCeiling \in [Sems -> Nat]

ASSUME ProgramAssumption ==
  /\ TickArgs \subseteq Nat /\ PeriodArgs \subseteq Nat
  /\ \A m \in WaitMasks : m \subseteq Signals \cup {WakeupSignal}
  /\ BootSignals \subseteq Signals /\ IsrSignals \subseteq Signals

ASSUME TimerAssumption ==
  /\ {MaxWakeup, TimePad, SleepWakeup, TimerWrap, StartCompare, SectionTicks}
       \subseteq Nat
  /\ PowerDown \in BOOLEAN
  /\ 0 < TimePad
  /\ SleepWakeup + 2 * SectionTicks < MaxWakeup
  /\ TimePad + 1 < MaxWakeup
  /\ MaxWakeup <= StartCompare
  /\ StartCompare + 1 < TimerWrap
  /\ MaxWakeup + SleepWakeup < Far

-----------------------------------------------------------------------------

VARIABLES
  task_state, suspend_flag, event_suspend, nw_flag,
  active_signal_mask, registered_signal_mask,
  next_wakeup, next_period, cpu_remaining, num_periods,
  elevated_prio_flag, task_prio_ceil,
  readyQ,             \* _head_node .. as a sequence
  nrk_cur_task,       \* task_ID of nrk_cur_task_TCB
  nrk_signal_list,    \* created signals, _nrk_signal_list
  sem_value           \* nrk_sem_list[].value

\* The processor, the OS tick timer and the control points of the program.
VARIABLES
  os_timer,           \* TCNT2
  ocr2a,              \* compare register OCR2A
  compare_irq,        \* compare match flag OCF2A: the scheduler interrupt
  int_enabled,        \* the I bit of SREG
  prev_timer_val,     \* _nrk_prev_timer_val
  cpu_state,          \* _nrk_cpu_state
  section_ticks,      \* ticks elapsed in the current short section
  mode,               \* which part of the kernel the processor executes
  task_ID,            \* loop variable of _nrk_scheduler, of main while booting
  next_wake,          \* local of _nrk_scheduler
  pc,                 \* control point of each task
  op,                 \* the blocking call a task is in
  arg,                \* its argument: ticks, periods or a semaphore
  loaded              \* register holding sem_value between load and store

blockVars  == <<event_suspend, nw_flag, active_signal_mask>>
timingVars == <<next_wakeup, next_period, cpu_remaining, num_periods>>
ceilVars   == <<elevated_prio_flag, task_prio_ceil>>
tcbVars    == <<task_state, suspend_flag, blockVars, registered_signal_mask,
                timingVars, ceilVars>>
timerVars  == <<os_timer, ocr2a, compare_irq, int_enabled, prev_timer_val,
                cpu_state, section_ticks>>
passVars   == <<mode, task_ID, next_wake, nrk_cur_task>>
callVars   == <<pc, op, arg, loaded>>
objectVars == <<nrk_signal_list, sem_value>>
vars       == <<tcbVars, timerVars, passVars, callVars, objectVars, readyQ>>

-----------------------------------------------------------------------------

\* RUNNING and WAITING of nrk_task.h are never assigned; UNUSED is task_ID -1.
TaskState == {"UNUSED", "READY", "SUSPENDED", "EVENT_SUSPENDED", "FINISHED"}

SIG_EVENT  == 1                 \* SIG_EVENT_SUSPENDED
RSRC_EVENT == 2                 \* RSRC_EVENT_SUSPENDED

\* Masks are the sets of their bits.  nrk_sem_pend stores a semaphore index in
\* active_signal_mask, so an index is a mask too.
Mask(n) == {b \in 0..7 : (n \div (2^b)) % 2 = 1}
SignalBit == {WakeupSignal} \cup Signals \cup 0..7

\* Control points of a task:
\*   "user"    in the application          "marked"  in nrk_event_wait or
\*   "section" in a wait's interrupt-free            nrk_sem_pend, event noted
\*             section, suspend_flag set   "idle"    about to call nrk_idle
\*   "asleep"  the processor sleeps        "check"   tests suspend_flag
\*   "take"    nrk_sem_pend decrements     "store"   value loaded, not stored
\*   "posting" nrk_sem_post saw value < count, interrupts still on
\*   "removed" nrk_terminate_task left the queue, state not yet FINISHED
PC == {"user", "marked", "section", "idle", "asleep", "check", "take",
       "store", "posting", "removed"}

WaitCall == {"next_period", "n_periods", "wait_ticks", "until_ticks", "wait",
             "until_nw"}
BlockCall ==
  WaitCall \cup {"event", "event_nw", "pend", "post", "terminate", "none"}

\* The type invariant, one part for each group of variables: every field of a
\* task control block, the queue, the timer registers, the locals of a pass and
\* those of a blocking call stay within their types.
TaskTypeOK ==
  /\ task_state \in [Task -> TaskState]
  /\ suspend_flag \in [Task -> BOOLEAN]
  /\ event_suspend \in [Task -> 0..3]
  /\ nw_flag \in [Task -> BOOLEAN]
  /\ active_signal_mask \in [Task -> SUBSET SignalBit]
  /\ registered_signal_mask \in [Task -> SUBSET SignalBit]
  /\ elevated_prio_flag \in [Task -> BOOLEAN]
  /\ task_prio_ceil \in [Task -> Nat]

TimingTypeOK ==
  /\ next_wakeup \in [Task -> Nat]
  /\ next_period \in [Task -> Nat]
  /\ cpu_remaining \in [Task -> Nat]
  /\ num_periods \in [Task -> Nat \ {0}]

QueueTypeOK == readyQ \in Seq(Task)

ObjectTypeOK ==
  /\ nrk_signal_list \subseteq SignalBit
  /\ sem_value \in [Sems -> Int]

TimerTypeOK ==
  /\ os_timer \in 0..TimerWrap-1
  /\ ocr2a \in 0..TimerWrap-1
  /\ compare_irq \in BOOLEAN
  /\ int_enabled \in BOOLEAN
  /\ prev_timer_val \in Nat
  /\ cpu_state \in {"ACTIVE", "IDLE", "SLEEP"}
  /\ section_ticks \in 0..SectionTicks

PassTypeOK ==
  /\ mode \in {"boot", "task", "scan", "dispatch"}
  /\ task_ID \in 0..NumTasks+1
  /\ next_wake \in Nat
  /\ nrk_cur_task \in Task

CallTypeOK ==
  /\ pc \in [Task -> PC]
  /\ op \in [Task -> BlockCall]
  /\ arg \in [Task -> Nat]
  /\ loaded \in [Task -> Int]

\* No call, interrupt or pass takes a variable of the kernel out of its type.
TypeOK ==
  /\ TaskTypeOK /\ TimingTypeOK /\ QueueTypeOK /\ ObjectTypeOK
  /\ TimerTypeOK /\ PassTypeOK /\ CallTypeOK

=============================================================================
