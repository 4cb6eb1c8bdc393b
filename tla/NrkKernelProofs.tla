-------------------------- MODULE NrkKernelProofs --------------------------
(***************************************************************************)
(* For every task set, priority assignment, timer setting and application  *)
(* program: the variables of the kernel keep their types, the idle task    *)
(* stays at the end of the ready queue, and the counter of the OS tick     *)
(* timer stays below its compare value.                                    *)
(*                                                                         *)
(* The invariant IInv adds to the first two what keeps them true: nothing  *)
(* ever suspends the idle task, and a task inside a semaphore call holds   *)
(* the index of a semaphore.  One lemma per action shows that it preserves *)
(* IInv.                                                                   *)
(***************************************************************************)
EXTENDS NrkKernel, ReadyQueueProofs

\* The idle task cannot leave the ready queue: it makes no blocking call, and
\* no signal or semaphore counts it among its waiters.
IdleSafe ==
  /\ task_state[Idle] = "READY"
  /\ ~suspend_flag[Idle]
  /\ event_suspend[Idle] = 0
  /\ registered_signal_mask[Idle] = {}

\* What the steps inside nrk_sem_pend and nrk_sem_post know of their argument.
SemArg ==
  \A t \in Task :
    /\ op[t] \in {"pend", "post"} => arg[t] \in Sems
    /\ pc[t] \in {"take", "store"} => op[t] = "pend"
    /\ pc[t] = "posting" => op[t] = "post"

QueueOK == readyQ \in Seq(Task) /\ IdleEnds(readyQ)

IInv ==
  /\ TaskTypeOK /\ TimingTypeOK /\ ObjectTypeOK /\ TimerTypeOK /\ PassTypeOK
  /\ CallTypeOK /\ QueueOK /\ IdleSafe /\ SemArg

-----------------------------------------------------------------------------

\* The IDs of tasks, the idle task set apart.
LEMMA Tasks ==
  /\ Task \in SUBSET Nat /\ Idle \in Task /\ UserTask \subseteq Task
  /\ \A t \in UserTask : t # Idle
  /\ \A t \in Task : t # Idle => t \in UserTask
BY TaskAssumption DEF Task, UserTask, Idle

\* The parameters of a task set.
LEMMA PeriodTypes ==
  /\ Period \in [Task -> Nat] /\ Offset \in [Task -> Nat]
  /\ Reserve \in [Task -> Nat]
BY TaskAssumption

\* The settings of the timer.
LEMMA Times ==
  /\ MaxWakeup \in Nat /\ TimePad \in Nat /\ SleepWakeup \in Nat
  /\ TimerWrap \in Nat \ {0} /\ StartCompare \in Nat /\ SectionTicks \in Nat
  /\ StartCompare + 1 < TimerWrap
BY TimerAssumption

\* The remainder of an 8-bit register, also of a negative number.
LEMMA ModRange ==
  ASSUME NEW a \in Int, NEW n \in Nat \ {0}
  PROVE  a % n \in 0..n-1
OBVIOUS

\* The two queue operations on a user task keep the idle task last.
LEMMA QueueAfterAdd ==
  ASSUME NEW q \in Seq(Task), IdleEnds(q), NEW t \in UserTask,
         NEW elevated, NEW ceil
  PROVE  /\ AddToReadyQ(q, t, Prio, elevated, ceil) \in Seq(Task)
         /\ IdleEnds(AddToReadyQ(q, t, Prio, elevated, ceil))
<1>1. t \in Task /\ t # 0 /\ Task \in SUBSET Nat
  BY Tasks DEF Idle
<1>2. Prio \in [Task -> Nat] /\ Prio[0] < Prio[t]
  BY TaskAssumption, <1>1 DEF Idle
<1> QED
  BY <1>1, <1>2, AddKeepsIdleLast

LEMMA QueueAfterRem ==
  ASSUME NEW q \in Seq(Task), IdleEnds(q), NEW t \in UserTask
  PROVE  /\ RemFromReadyQ(q, t) \in Seq(Task)
         /\ IdleEnds(RemFromReadyQ(q, t))
<1>1. t \in Task /\ t # 0 /\ Task \in SUBSET Nat
  BY Tasks DEF Idle
<1> QED
  BY <1>1, RemKeepsIdleLast

USE DEF vars, tcbVars, timerVars, passVars, callVars, objectVars, blockVars,
        timingVars, ceilVars

\* The head of the queue is a task.
LEMMA IdleHead ==
  ASSUME QueueOK
  PROVE  Head(readyQ) \in Task
BY DEF QueueOK, IdleEnds

-----------------------------------------------------------------------------

\* The steps of the timer and of the boot.
LEMMA TickKeeps ==
  ASSUME IInv, Tick
  PROVE  IInv'
<1> USE DEF IInv, Tick
<1>1. TimerTypeOK'
  <2>1. os_timer' \in 0..TimerWrap-1
    BY Times, ModRange DEF TimerTypeOK
  <2>2. section_ticks' \in 0..SectionTicks
    BY Times DEF TimerTypeOK
  <2>3. compare_irq' \in BOOLEAN
    BY DEF TimerTypeOK
  <2> QED
    BY <2>1, <2>2, <2>3 DEF TimerTypeOK
<1>2. (TaskTypeOK /\ TimingTypeOK /\ ObjectTypeOK /\ PassTypeOK /\ CallTypeOK
       /\ QueueOK /\ IdleSafe /\ SemArg)'
  BY DEF TaskTypeOK, TimingTypeOK, ObjectTypeOK, PassTypeOK, CallTypeOK,
         QueueOK, IdleSafe, SemArg
<1> QED
  BY <1>1, <1>2

LEMMA ActivateKeeps ==
  ASSUME IInv, NEW t \in UserTask, Activate(t)
  PROVE  IInv'
<1> USE DEF IInv, Activate
<1>1. TaskTypeOK'
  BY Tasks DEF TaskTypeOK, TaskState
<1>2. TimingTypeOK'
  <2>1. Period[t] + Offset[t] \in Nat
    BY Tasks, PeriodTypes
  <2>2. next_period' \in [Task -> Nat]
    BY <2>1, Tasks DEF TimingTypeOK
  <2> QED
    BY <2>2, Tasks, PeriodTypes DEF TimingTypeOK
<1>3. PassTypeOK'
  BY TaskAssumption DEF PassTypeOK, UserTask
<1>4. QueueOK'
  BY Tasks, QueueAfterAdd DEF QueueOK
<1>5. IdleSafe'
  BY Tasks DEF IdleSafe, TaskTypeOK
<1>6. (ObjectTypeOK /\ TimerTypeOK /\ CallTypeOK /\ SemArg)'
  BY DEF ObjectTypeOK, TimerTypeOK, CallTypeOK, SemArg
<1> QED
  BY <1>1, <1>2, <1>3, <1>4, <1>5, <1>6

LEMMA StartKeeps ==
  ASSUME IInv, Start
  PROVE  IInv'
<1> USE DEF IInv, Start
<1>1. TimerTypeOK'
  BY Times DEF TimerTypeOK
<1>2. PassTypeOK'
  BY IdleHead DEF PassTypeOK, QueueOK
<1>3. (TaskTypeOK /\ TimingTypeOK /\ ObjectTypeOK /\ CallTypeOK /\ QueueOK
       /\ IdleSafe /\ SemArg)'
  BY DEF TaskTypeOK, TimingTypeOK, ObjectTypeOK, CallTypeOK, QueueOK, IdleSafe,
         SemArg
<1> QED
  BY <1>1, <1>2, <1>3

-----------------------------------------------------------------------------

\* The waits.
LEMMA BlockingWaitKeeps ==
  ASSUME IInv, NEW t \in UserTask, BlockingWait(t)
  PROVE  IInv'
<1> USE DEF IInv, BlockingWait
<1>1. TaskTypeOK'
  BY Tasks DEF TaskTypeOK, BeginWait
<1>2. TimingTypeOK'
  BY Tasks DEF TimingTypeOK, BeginWait, CallTypeOK
<1>3. TimerTypeOK'
  <2>1. section_ticks' \in 0..SectionTicks
    BY Times DEF BeginWait
  <2> QED
    BY <2>1 DEF TimerTypeOK, BeginWait
<1>4. CallTypeOK'
  BY Tasks DEF CallTypeOK, BeginWait, PC
<1>5. IdleSafe'
  BY Tasks DEF IdleSafe, BeginWait, TaskTypeOK
<1>6. SemArg'
  BY Tasks DEF SemArg, BeginWait, CallTypeOK
<1>7. (ObjectTypeOK /\ PassTypeOK /\ QueueOK)'
  BY DEF ObjectTypeOK, PassTypeOK, QueueOK, BeginWait
<1> QED
  BY <1>1, <1>2, <1>3, <1>4, <1>5, <1>6, <1>7

LEMMA WaitKeeps ==
  ASSUME IInv, NEW t \in UserTask, Wait(t)
  PROVE  IInv'
<1> USE DEF IInv, Wait
<1>1. TaskTypeOK'
  BY Tasks DEF TaskTypeOK, BeginWait
<1>2. TimingTypeOK'
  BY Tasks, ProgramAssumption DEF TimingTypeOK, BeginWait, WaitCall
<1>3. TimerTypeOK'
  <2>1. section_ticks' \in 0..SectionTicks
    BY Times DEF BeginWait
  <2> QED
    BY <2>1 DEF TimerTypeOK, BeginWait
<1>4. CallTypeOK'
  BY Tasks, ProgramAssumption
  DEF CallTypeOK, BeginWait, PC, WaitCall, BlockCall
<1>5. IdleSafe'
  BY Tasks DEF IdleSafe, BeginWait, TaskTypeOK
<1>6. SemArg'
  BY Tasks DEF SemArg, BeginWait, CallTypeOK, WaitCall
<1>7. (ObjectTypeOK /\ PassTypeOK /\ QueueOK)'
  BY DEF ObjectTypeOK, PassTypeOK, QueueOK, BeginWait
<1> QED
  BY <1>1, <1>2, <1>3, <1>4, <1>5, <1>6, <1>7

LEMMA ArmWaitKeeps ==
  ASSUME IInv, NEW t \in UserTask, ArmWait(t)
  PROVE  IInv'
<1> USE DEF IInv, ArmWait
<1>1. TimingTypeOK'
  BY Tasks DEF TimingTypeOK, CallTypeOK, TimerTypeOK
<1>2. TimerTypeOK'
  BY Times, ModRange DEF TimerTypeOK, BringForward, SetNextWakeup
<1>3. CallTypeOK'
  BY Tasks DEF CallTypeOK, PC
<1>4. SemArg'
  BY Tasks DEF SemArg, CallTypeOK
<1>5. (TaskTypeOK /\ ObjectTypeOK /\ PassTypeOK /\ QueueOK /\ IdleSafe)'
  BY DEF TaskTypeOK, ObjectTypeOK, PassTypeOK, QueueOK, IdleSafe
<1> QED
  BY <1>1, <1>2, <1>3, <1>4, <1>5

LEMMA EnterIdleKeeps ==
  ASSUME IInv, NEW t \in UserTask, EnterIdle(t)
  PROVE  IInv'
<1> USE DEF IInv, EnterIdle
<1>1. CallTypeOK'
  BY Tasks DEF CallTypeOK, PC
<1>2. SemArg'
  BY Tasks DEF SemArg, CallTypeOK
<1>3. (TaskTypeOK /\ TimingTypeOK /\ ObjectTypeOK /\ TimerTypeOK
       /\ PassTypeOK /\ QueueOK /\ IdleSafe)'
  BY DEF TaskTypeOK, TimingTypeOK, ObjectTypeOK, TimerTypeOK, PassTypeOK,
         QueueOK, IdleSafe
<1> QED
  BY <1>1, <1>2, <1>3

LEMMA CheckFlagKeeps ==
  ASSUME IInv, NEW t \in UserTask, CheckFlag(t)
  PROVE  IInv'
<1> USE DEF IInv, CheckFlag
<1>1. CallTypeOK'
  BY Tasks DEF CallTypeOK, PC, BlockCall, Return
<1>2. SemArg'
  BY Tasks DEF SemArg, CallTypeOK, Return
<1>3. (TaskTypeOK /\ TimingTypeOK /\ ObjectTypeOK /\ TimerTypeOK
       /\ PassTypeOK /\ QueueOK /\ IdleSafe)'
  BY DEF TaskTypeOK, TimingTypeOK, ObjectTypeOK, TimerTypeOK, PassTypeOK,
         QueueOK, IdleSafe, Return
<1> QED
  BY <1>1, <1>2, <1>3

-----------------------------------------------------------------------------

\* The other calls of nrk_task.c, and the idle task.
LEMMA SetNextWakeupCallKeeps ==
  ASSUME IInv, NEW t \in UserTask, SetNextWakeupCall(t)
  PROVE  IInv'
<1> USE DEF IInv, SetNextWakeupCall
<1>1. TimingTypeOK'
  BY Tasks, ProgramAssumption DEF TimingTypeOK, TimerTypeOK
<1>2. TimerTypeOK'
  BY DEF TimerTypeOK
<1>3. (TaskTypeOK /\ ObjectTypeOK /\ PassTypeOK /\ CallTypeOK /\ QueueOK
       /\ IdleSafe /\ SemArg)'
  BY DEF TaskTypeOK, ObjectTypeOK, PassTypeOK, CallTypeOK, QueueOK, IdleSafe,
         SemArg
<1> QED
  BY <1>1, <1>2, <1>3

LEMMA TerminateRemoveKeeps ==
  ASSUME IInv, NEW t \in UserTask, TerminateRemove(t)
  PROVE  IInv'
<1> USE DEF IInv, TerminateRemove
<1>1. CallTypeOK'
  BY Tasks DEF CallTypeOK, PC
<1>2. QueueOK'
  BY QueueAfterRem DEF QueueOK
<1>3. SemArg'
  BY Tasks DEF SemArg, CallTypeOK
<1>4. (TaskTypeOK /\ TimingTypeOK /\ ObjectTypeOK /\ TimerTypeOK
       /\ PassTypeOK /\ IdleSafe)'
  BY DEF TaskTypeOK, TimingTypeOK, ObjectTypeOK, TimerTypeOK, PassTypeOK,
         IdleSafe
<1> QED
  BY <1>1, <1>2, <1>3, <1>4

LEMMA TerminateFinishKeeps ==
  ASSUME IInv, NEW t \in UserTask, TerminateFinish(t)
  PROVE  IInv'
<1> USE DEF IInv, TerminateFinish
<1>1. TaskTypeOK'
  BY Tasks DEF TaskTypeOK, TaskState
<1>2. CallTypeOK'
  BY Tasks DEF CallTypeOK, PC, BlockCall
<1>3. IdleSafe'
  BY Tasks DEF IdleSafe, TaskTypeOK
<1>4. SemArg'
  BY Tasks DEF SemArg, CallTypeOK
<1>5. (TimingTypeOK /\ ObjectTypeOK /\ TimerTypeOK /\ PassTypeOK /\ QueueOK)'
  BY DEF TimingTypeOK, ObjectTypeOK, TimerTypeOK, PassTypeOK, QueueOK
<1> QED
  BY <1>1, <1>2, <1>3, <1>4, <1>5

LEMMA IdleTaskKeeps ==
  ASSUME IInv, IdleTask
  PROVE  IInv'
<1> USE DEF IInv, IdleTask
<1>1. TimerTypeOK'
  BY DEF TimerTypeOK
<1>2. CallTypeOK'
  BY Tasks DEF CallTypeOK, PC
<1>3. SemArg'
  BY Tasks DEF SemArg, CallTypeOK
<1>4. (TaskTypeOK /\ TimingTypeOK /\ ObjectTypeOK /\ PassTypeOK /\ QueueOK
       /\ IdleSafe)'
  BY DEF TaskTypeOK, TimingTypeOK, ObjectTypeOK, PassTypeOK, QueueOK, IdleSafe
<1> QED
  BY <1>1, <1>2, <1>3, <1>4

-----------------------------------------------------------------------------

\* The signals.
LEMMA SignalCreateKeeps ==
  ASSUME IInv, NEW t \in UserTask, SignalCreate(t)
  PROVE  IInv'
<1> USE DEF IInv, SignalCreate
<1>1. ObjectTypeOK'
  BY DEF ObjectTypeOK, SignalBit
<1>2. (TaskTypeOK /\ TimingTypeOK /\ TimerTypeOK /\ PassTypeOK /\ CallTypeOK
       /\ QueueOK /\ IdleSafe /\ SemArg)'
  BY DEF TaskTypeOK, TimingTypeOK, TimerTypeOK, PassTypeOK, CallTypeOK,
         QueueOK, IdleSafe, SemArg
<1> QED
  BY <1>1, <1>2

LEMMA SignalDeleteKeeps ==
  ASSUME IInv, NEW t \in UserTask, SignalDelete(t)
  PROVE  IInv'
<1> USE DEF IInv, SignalDelete
<1>1. TaskTypeOK'
  BY DEF TaskTypeOK, Resumed, Unblocked, TaskState
<1>2. ObjectTypeOK'
  BY DEF ObjectTypeOK
<1>3. TimerTypeOK'
  BY DEF TimerTypeOK
<1>4. IdleSafe'
  BY Tasks DEF IdleSafe, TaskTypeOK, Resumed, Unblocked
<1>5. (TimingTypeOK /\ PassTypeOK /\ CallTypeOK /\ QueueOK /\ SemArg)'
  BY DEF TimingTypeOK, PassTypeOK, CallTypeOK, QueueOK, SemArg
<1> QED
  BY <1>1, <1>2, <1>3, <1>4, <1>5

LEMMA SignalRegisterKeeps ==
  ASSUME IInv, NEW t \in UserTask, SignalRegister(t)
  PROVE  IInv'
<1> USE DEF IInv, SignalRegister
<1>1. TaskTypeOK'
  BY Tasks DEF TaskTypeOK, SignalBit
<1>2. IdleSafe'
  BY Tasks DEF IdleSafe, TaskTypeOK
<1>3. (TimingTypeOK /\ ObjectTypeOK /\ TimerTypeOK /\ PassTypeOK
       /\ CallTypeOK /\ QueueOK /\ SemArg)'
  BY DEF TimingTypeOK, ObjectTypeOK, TimerTypeOK, PassTypeOK, CallTypeOK,
         QueueOK, SemArg
<1> QED
  BY <1>1, <1>2, <1>3

LEMMA SignalUnregisterKeeps ==
  ASSUME IInv, NEW t \in UserTask, SignalUnregister(t)
  PROVE  IInv'
<1> USE DEF IInv, SignalUnregister
<1>1. TaskTypeOK'
  BY Tasks DEF TaskTypeOK
<1>2. IdleSafe'
  BY Tasks DEF IdleSafe, TaskTypeOK
<1>3. (TimingTypeOK /\ ObjectTypeOK /\ TimerTypeOK /\ PassTypeOK
       /\ CallTypeOK /\ QueueOK /\ SemArg)'
  BY DEF TimingTypeOK, ObjectTypeOK, TimerTypeOK, PassTypeOK, CallTypeOK,
         QueueOK, SemArg
<1> QED
  BY <1>1, <1>2, <1>3

LEMMA EventSignalKeeps ==
  ASSUME IInv, NEW t \in UserTask, EventSignal(t)
  PROVE  IInv'
<1> USE DEF IInv, EventSignal
<1>1. TaskTypeOK'
  BY Tasks
  DEF TaskTypeOK, RaiseSignal, Due, Resumed, Unblocked, TaskState, SignalBit
<1>2. TimingTypeOK'
  BY Tasks DEF TimingTypeOK, RaiseSignal, Due
<1>3. ObjectTypeOK'
  BY DEF ObjectTypeOK, RaiseSignal
<1>4. TimerTypeOK'
  BY DEF TimerTypeOK, RaiseSignal
<1>5. IdleSafe'
  BY Tasks
  DEF IdleSafe, TaskTypeOK, RaiseSignal, Due, Resumed, Unblocked,
      SignalWaiters, SemWaitersTakenFor, SIG_EVENT, RSRC_EVENT
<1>6. (PassTypeOK /\ CallTypeOK /\ QueueOK /\ SemArg)'
  BY DEF PassTypeOK, CallTypeOK, QueueOK, SemArg, RaiseSignal
<1> QED
  BY <1>1, <1>2, <1>3, <1>4, <1>5, <1>6

LEMMA IsrSignalKeeps ==
  ASSUME IInv, IsrSignal
  PROVE  IInv'
<1> USE DEF IInv, IsrSignal
<1>1. TaskTypeOK'
  BY Tasks, ProgramAssumption
  DEF TaskTypeOK, RaiseSignal, Due, Resumed, Unblocked, TaskState, SignalBit
<1>2. TimingTypeOK'
  BY Tasks DEF TimingTypeOK, RaiseSignal, Due
<1>3. ObjectTypeOK'
  BY DEF ObjectTypeOK, RaiseSignal
<1>4. TimerTypeOK'
  BY DEF TimerTypeOK, RaiseSignal
<1>5. CallTypeOK'
  BY DEF CallTypeOK, PassTypeOK, PC
<1>6. IdleSafe'
  BY Tasks
  DEF IdleSafe, TaskTypeOK, RaiseSignal, Due, Resumed, Unblocked,
      SignalWaiters, SemWaitersTakenFor, SIG_EVENT, RSRC_EVENT
<1>7. SemArg'
  BY DEF SemArg, CallTypeOK, PassTypeOK
<1>8. (PassTypeOK /\ QueueOK)'
  BY DEF PassTypeOK, QueueOK, RaiseSignal
<1> QED
  BY <1>1, <1>2, <1>3, <1>4, <1>5, <1>6, <1>7, <1>8

LEMMA EventWaitKeeps ==
  ASSUME IInv, NEW t \in UserTask, EventWait(t)
  PROVE  IInv'
<1> USE DEF IInv, EventWait
<1>1. TaskTypeOK'
  BY Tasks, ProgramAssumption DEF TaskTypeOK, SIG_EVENT, SignalBit
<1>2. CallTypeOK'
  BY Tasks DEF CallTypeOK, PC, BlockCall
<1>3. IdleSafe'
  BY Tasks DEF IdleSafe, TaskTypeOK
<1>4. SemArg'
  BY Tasks DEF SemArg, CallTypeOK
<1>5. (TimingTypeOK /\ ObjectTypeOK /\ TimerTypeOK /\ PassTypeOK /\ QueueOK)'
  BY DEF TimingTypeOK, ObjectTypeOK, TimerTypeOK, PassTypeOK, QueueOK
<1> QED
  BY <1>1, <1>2, <1>3, <1>4, <1>5

-----------------------------------------------------------------------------

\* The semaphores.
LEMMA SemPendFreeKeeps ==
  ASSUME IInv, NEW t \in UserTask, NEW s \in Sems, SemPendFree(t, s)
  PROVE  IInv'
<1> USE DEF IInv, SemPendFree
<1>1. TaskTypeOK'
  BY Tasks, SignalAssumption DEF TaskTypeOK, Raise
<1>2. ObjectTypeOK'
  BY DEF ObjectTypeOK
<1>3. TimerTypeOK'
  BY DEF TimerTypeOK
<1>4. (TimingTypeOK /\ PassTypeOK /\ CallTypeOK /\ QueueOK /\ IdleSafe
       /\ SemArg)'
  BY DEF TimingTypeOK, PassTypeOK, CallTypeOK, QueueOK, IdleSafe, SemArg
<1> QED
  BY <1>1, <1>2, <1>3, <1>4

LEMMA SemPendBlockKeeps ==
  ASSUME IInv, NEW t \in UserTask, NEW s \in Sems, SemPendBlock(t, s)
  PROVE  IInv'
<1> USE DEF IInv, SemPendBlock
<1>1. TaskTypeOK'
  BY Tasks DEF TaskTypeOK, SIG_EVENT, RSRC_EVENT, Mask, SignalBit
<1>2. TimerTypeOK'
  BY DEF TimerTypeOK
<1>3. CallTypeOK'
  BY Tasks, SignalAssumption DEF CallTypeOK, PC, BlockCall
<1>4. IdleSafe'
  BY Tasks DEF IdleSafe, TaskTypeOK
<1>5. SemArg'
  BY Tasks DEF SemArg, CallTypeOK
<1>6. (TimingTypeOK /\ ObjectTypeOK /\ PassTypeOK /\ QueueOK)'
  BY DEF TimingTypeOK, ObjectTypeOK, PassTypeOK, QueueOK
<1> QED
  BY <1>1, <1>2, <1>3, <1>4, <1>5, <1>6

LEMMA SemTakeLoadKeeps ==
  ASSUME IInv, NEW t \in UserTask, SemTakeLoad(t)
  PROVE  IInv'
<1> USE DEF IInv, SemTakeLoad
<1>1. CallTypeOK'
  BY Tasks DEF CallTypeOK, PC, ObjectTypeOK, SemArg, At
<1>2. SemArg'
  BY Tasks DEF SemArg, CallTypeOK, At
<1>3. (TaskTypeOK /\ TimingTypeOK /\ ObjectTypeOK /\ TimerTypeOK
       /\ PassTypeOK /\ QueueOK /\ IdleSafe)'
  BY DEF TaskTypeOK, TimingTypeOK, ObjectTypeOK, TimerTypeOK, PassTypeOK,
         QueueOK, IdleSafe
<1> QED
  BY <1>1, <1>2, <1>3

LEMMA SemTakeStoreKeeps ==
  ASSUME IInv, NEW t \in UserTask, SemTakeStore(t)
  PROVE  IInv'
<1> USE DEF IInv, SemTakeStore
<1>1. TaskTypeOK'
  BY Tasks, SignalAssumption DEF TaskTypeOK, Raise, SemArg, At
<1>2. ObjectTypeOK'
  BY Tasks DEF ObjectTypeOK, SemArg, CallTypeOK, At
<1>3. TimerTypeOK'
  BY DEF TimerTypeOK
<1>4. CallTypeOK'
  BY Tasks DEF CallTypeOK, PC, BlockCall, Return
<1>5. SemArg'
  BY Tasks DEF SemArg, CallTypeOK, Return
<1>6. (TimingTypeOK /\ PassTypeOK /\ QueueOK /\ IdleSafe)'
  BY DEF TimingTypeOK, PassTypeOK, QueueOK, IdleSafe
<1> QED
  BY <1>1, <1>2, <1>3, <1>4, <1>5, <1>6

LEMMA SemPostKeeps ==
  ASSUME IInv, NEW t \in UserTask, NEW s \in Sems, SemPost(t, s)
  PROVE  IInv'
<1> USE DEF IInv, SemPost
<1>1. CallTypeOK'
  BY Tasks, SignalAssumption DEF CallTypeOK, PC, BlockCall
<1>2. SemArg'
  BY Tasks DEF SemArg, CallTypeOK
<1>3. (TaskTypeOK /\ TimingTypeOK /\ ObjectTypeOK /\ TimerTypeOK
       /\ PassTypeOK /\ QueueOK /\ IdleSafe)'
  BY DEF TaskTypeOK, TimingTypeOK, ObjectTypeOK, TimerTypeOK, PassTypeOK,
         QueueOK, IdleSafe
<1> QED
  BY <1>1, <1>2, <1>3

LEMMA SemReleaseKeeps ==
  ASSUME IInv, NEW t \in UserTask, SemRelease(t)
  PROVE  IInv'
<1> USE DEF IInv, SemRelease
<1>1. TaskTypeOK'
  BY Tasks DEF TaskTypeOK, Resumed, Unblocked, TaskState
<1>2. TimingTypeOK'
  BY DEF TimingTypeOK, Due
<1>3. ObjectTypeOK'
  BY Tasks DEF ObjectTypeOK, SemArg, CallTypeOK, At
<1>4. TimerTypeOK'
  BY DEF TimerTypeOK
<1>5. CallTypeOK'
  BY Tasks DEF CallTypeOK, PC, BlockCall, Return
<1>6. IdleSafe'
  BY Tasks DEF IdleSafe, TaskTypeOK, Resumed, Unblocked, SemWaiters, RSRC_EVENT
<1>7. SemArg'
  BY Tasks DEF SemArg, CallTypeOK, Return
<1>8. (PassTypeOK /\ QueueOK)'
  BY DEF PassTypeOK, QueueOK
<1> QED
  BY <1>1, <1>2, <1>3, <1>4, <1>5, <1>6, <1>7, <1>8

-----------------------------------------------------------------------------

\* The scheduler pass.
LEMMA SchedBeginKeeps ==
  ASSUME IInv, SchedBegin
  PROVE  IInv'
<1> USE DEF IInv, SchedBegin
<1>1. nrk_cur_task \in Task
  BY DEF PassTypeOK
<1>2. /\ ~suspend_flag[Idle]
      /\ (nrk_cur_task # Idle => nrk_cur_task \in UserTask)
  BY <1>1, Tasks DEF IdleSafe
<1>3. TaskTypeOK'
  BY <1>1 DEF TaskTypeOK, ParkState, RSRC_EVENT, TaskState
<1>4. TimingTypeOK'
  BY <1>1 DEF TimingTypeOK, TimerTypeOK, Monus
<1>5. TimerTypeOK'
  <2>1. ocr2a' \in 0..TimerWrap-1
    BY Times, ModRange DEF SetNextWakeup
  <2>2. section_ticks' \in 0..SectionTicks
    BY Times
  <2> QED
    BY <2>1, <2>2 DEF TimerTypeOK
<1>6. PassTypeOK'
  BY TaskAssumption DEF PassTypeOK, Far
<1>7. CallTypeOK'
  BY <1>1 DEF CallTypeOK, PC
<1>8. QueueOK'
  BY <1>1, <1>2, QueueAfterRem DEF QueueOK, Charged
<1>9. IdleSafe'
  BY <1>1, <1>2, Tasks DEF IdleSafe, TaskTypeOK, Charged
<1>10. (ObjectTypeOK /\ SemArg)'
  BY <1>1 DEF ObjectTypeOK, SemArg, CallTypeOK
<1> QED
  BY <1>3, <1>4, <1>5, <1>6, <1>7, <1>8, <1>9, <1>10

\* The drifting next_period never becomes negative.
LEMMA AgedPeriodType ==
  ASSUME NEW np \in Nat, NEW period \in Nat, NEW prev \in Nat
  PROVE  AgedPeriod(np, period, prev) \in Nat
<1>1. period # 0 => prev % period \in Nat
  BY ModRange
<1> QED
  BY <1>1 DEF AgedPeriod

LEMMA SchedScanKeeps ==
  ASSUME IInv, SchedScan
  PROVE  IInv'
<1> USE DEF IInv, SchedScan
<1> DEFINE
  t == task_ID
  ages == t # Idle /\ task_state[t] # "FINISHED"
  nw == IF ages THEN Monus(next_wakeup[t], prev_timer_val) ELSE next_wakeup[t]
  np == IF ages THEN AgedPeriod(next_period[t], Period[t], prev_timer_val)
                ELSE next_period[t]
  skipped == Period[t] * (num_periods[t] - 1)
<1>1. t \in Task /\ (t # Idle => t \in UserTask)
  BY Tasks
<1>2. nw \in Nat
  BY <1>1 DEF TimingTypeOK, TimerTypeOK, Monus
<1>3. np \in Nat
  <2>1. next_period[t] \in Nat /\ Period[t] \in Nat /\ prev_timer_val \in Nat
    BY <1>1, PeriodTypes DEF TimingTypeOK, TimerTypeOK
  <2> QED
    BY <2>1, AgedPeriodType
<1>4. skipped \in Nat
  <2>1. Period[t] \in Nat /\ num_periods[t] \in Nat \ {0}
    BY <1>1, PeriodTypes DEF TimingTypeOK
  <2> QED
    BY <2>1
<1>5. /\ next_wakeup' \in [Task -> Nat]
      /\ next_period' \in [Task -> Nat]
      /\ next_wake' \in Nat
  <2> HIDE DEF skipped, np, nw
  <2> QED
    BY <1>1, <1>2, <1>3, <1>4, Times
    DEF TimingTypeOK, PassTypeOK, Least, skipped, np, nw
<1>6. TimingTypeOK'
  BY <1>1, <1>5, PeriodTypes DEF TimingTypeOK, OnWakeup
<1>7. TaskTypeOK'
  <2>1. task_state' \in [Task -> TaskState]
    BY <1>1 DEF TaskTypeOK, TaskState
  <2>2. active_signal_mask' \in [Task -> SUBSET SignalBit]
    BY <1>1 DEF TaskTypeOK, OnWakeup, SignalBit
  <2>3. event_suspend' \in [Task -> 0..3]
    BY <1>1 DEF TaskTypeOK, OnWakeup
  <2>4. suspend_flag' \in [Task -> BOOLEAN] /\ nw_flag' \in [Task -> BOOLEAN]
    BY <1>1 DEF TaskTypeOK, OnWakeup
  <2> QED
    BY <2>1, <2>2, <2>3, <2>4 DEF TaskTypeOK
<1>8. PassTypeOK'
  BY <1>1, <1>5, TaskAssumption DEF PassTypeOK, Task
<1>9. QueueOK'
  BY <1>1, QueueAfterAdd DEF QueueOK, IdleSafe
<1>10. IdleSafe'
  BY <1>1, Tasks DEF IdleSafe, TaskTypeOK, OnWakeup
<1>11. (ObjectTypeOK /\ TimerTypeOK /\ CallTypeOK /\ SemArg)'
  BY DEF ObjectTypeOK, TimerTypeOK, CallTypeOK, SemArg
<1> QED
  BY <1>6, <1>7, <1>8, <1>9, <1>10, <1>11

\* The time to the next pass is a number of ticks.
LEMMA TaskWakeupType ==
  ASSUME TimingTypeOK, NEW t \in Task, NEW nw \in Nat
  PROVE  TaskWakeup(t, nw) \in Nat
<1>1. IdleWakeup(nw) \in Nat
  BY Times, TimerAssumption DEF IdleWakeup, Least
<1>2. cpu_remaining[t] \in Nat
  BY DEF TimingTypeOK
<1> QED
  BY <1>1, <1>2, Times DEF TaskWakeup, Least

LEMMA SchedDispatchKeeps ==
  ASSUME IInv, SchedDispatch
  PROVE  IInv'
<1> USE DEF IInv, SchedDispatch
<1> DEFINE at == NextPass(TaskWakeup(Head(readyQ), next_wake))
<1>1. Head(readyQ) \in Task
  BY IdleHead
<1>2. at \in Nat
  BY <1>1, TaskWakeupType DEF NextPass, PassTypeOK, TimerTypeOK
<1>3. /\ at % TimerWrap \in Nat
      /\ (at + TimerWrap - 1) % TimerWrap \in 0..TimerWrap-1
  <2> HIDE DEF at
  <2>1. at \in Int /\ at + TimerWrap - 1 \in Int
    BY <1>2, Times
  <2>2. at % TimerWrap \in 0..TimerWrap-1
    BY <2>1, Times, ModRange
  <2>3. (at + TimerWrap - 1) % TimerWrap \in 0..TimerWrap-1
    BY <2>1, Times, ModRange
  <2> QED
    BY <2>2, <2>3
<1>4. TimerTypeOK'
  BY <1>3, Times DEF TimerTypeOK, SetNextWakeup
<1>5. PassTypeOK'
  BY <1>1, TaskAssumption DEF PassTypeOK, Far
<1>6. (TaskTypeOK /\ TimingTypeOK /\ ObjectTypeOK /\ CallTypeOK /\ QueueOK
       /\ IdleSafe /\ SemArg)'
  BY DEF TaskTypeOK, TimingTypeOK, ObjectTypeOK, CallTypeOK, QueueOK, IdleSafe,
         SemArg
<1> QED
  BY <1>4, <1>5, <1>6

-----------------------------------------------------------------------------

\* The initial states and all steps together.
LEMMA InitOK ==
  ASSUME Init
  PROVE  IInv
<1> USE DEF IInv, Init
<1>1. TaskTypeOK
  BY Tasks DEF TaskTypeOK, TaskState
<1>2. TimingTypeOK
  BY DEF TimingTypeOK
<1>3. ObjectTypeOK
  <2>1. nrk_signal_list \subseteq SignalBit
    BY ProgramAssumption DEF SignalBit
  <2>2. sem_value \in [Sems -> Int]
    BY SignalAssumption
  <2> QED
    BY <2>1, <2>2 DEF ObjectTypeOK
<1>4. TimerTypeOK
  <2>1. 0 \in 0..TimerWrap-1 /\ 0 \in 0..SectionTicks
    BY Times
  <2> QED
    BY <2>1 DEF TimerTypeOK
<1>5. PassTypeOK
  BY Tasks, TaskAssumption DEF PassTypeOK, Far
<1>6. CallTypeOK
  BY DEF CallTypeOK, PC, BlockCall, WaitCall
<1>7. QueueOK
  <2>1. readyQ = <<Idle>>
    BY QueueSlotsAssumption DEF AddToReadyQ
  <2> QED
    BY <2>1, Tasks DEF QueueOK, IdleEnds, Idle
<1>8. IdleSafe
  BY Tasks DEF IdleSafe
<1>9. SemArg
  BY DEF SemArg
<1> QED
  BY <1>1, <1>2, <1>3, <1>4, <1>5, <1>6, <1>7, <1>8, <1>9

LEMMA NextOK ==
  ASSUME IInv, [Next]_vars
  PROVE  IInv'
<1>1. CASE Tick
  BY <1>1, TickKeeps
<1>2. CASE Scheduler
  BY <1>2, SchedBeginKeeps, SchedScanKeeps, SchedDispatchKeeps DEF Scheduler
<1>3. CASE Start \/ IdleTask \/ IsrSignal
  BY <1>3, StartKeeps, IdleTaskKeeps, IsrSignalKeeps
<1>4. ASSUME NEW t \in UserTask,
             Activate(t) \/ SemTakeStore(t) \/ SemRelease(t)
      PROVE  IInv'
  BY <1>4, ActivateKeeps, SemTakeStoreKeeps, SemReleaseKeeps
<1>5. ASSUME NEW t \in UserTask, InWait(t)
      PROVE  IInv'
  BY <1>5, BlockingWaitKeeps, ArmWaitKeeps, EnterIdleKeeps, CheckFlagKeeps,
     TerminateFinishKeeps, SemTakeLoadKeeps DEF InWait
<1>6. ASSUME NEW t \in UserTask, TaskCall(t)
      PROVE  IInv'
  BY <1>6, WaitKeeps, SetNextWakeupCallKeeps, TerminateRemoveKeeps,
     SignalCreateKeeps, SignalDeleteKeeps, SignalRegisterKeeps,
     SignalUnregisterKeeps, EventSignalKeeps, EventWaitKeeps DEF TaskCall
<1>7. ASSUME NEW t \in UserTask, SemCall(t)
      PROVE  IInv'
  BY <1>7, SemPendFreeKeeps, SemPendBlockKeeps, SemPostKeeps DEF SemCall
<1>8. CASE UNCHANGED vars
  BY <1>8 DEF IInv, TaskTypeOK, TimingTypeOK, ObjectTypeOK, TimerTypeOK,
              PassTypeOK, CallTypeOK, QueueOK, IdleSafe, SemArg
<1> QED
  BY <1>1, <1>2, <1>3, <1>4, <1>5, <1>6, <1>7, <1>8 DEF Next

\* Every state the kernel reaches satisfies IInv.
THEOREM KernelInvariant == Spec => []IInv
<1> QED
  BY InitOK, NextOK, PTL DEF Spec

\* Type correctness: no call, signal, pass or tick takes a variable of the
\* kernel out of its type; a queue holds tasks only, the timer registers
\* stay in eight bits, event_suspend and the wait masks name what exists.
THEOREM TypesHold == Spec => []TypeOK
<1>1. IInv => TypeOK
  BY DEF IInv, TypeOK, QueueTypeOK, QueueOK
<1> QED
  BY <1>1, KernelInvariant, PTL

\* The idle task is always in the ready queue, once and at its end, so
\* nrk_get_high_ready_task_ID never reads through a NULL head and the walk of
\* nrk_add_to_readyQ never runs off the list.
THEOREM IdleStaysLast == Spec => []IdleIsLast
<1>1. IInv => IdleIsLast
  BY DEF IInv, QueueOK, IdleEnds, IdleIsLast, Idle
<1> QED
  BY <1>1, KernelInvariant, PTL

-----------------------------------------------------------------------------
(* The counter of the OS tick timer stays below its compare value.  That   *)
(* rests on how long a compare match can wait for the scheduler.  Only a   *)
(* short interrupt-free section or the way out of power-down holds it      *)
(* back, so a pass starts, and ends, within MAX_SCHED_WAKEUP_TIME ticks of *)
(* the match.  nrk_set_next_wakeup breaks that when it refuses a time,     *)
(* for it returns with interrupts off: programs that make it do so are     *)
(* excluded.                                                               *)

\* No program asks nrk_set_next_wakeup for a time within TIME_PAD.
WakeupsAccepted ==
  \A t \in UserTask :
    "set_next_wakeup" \in Calls[t] => \A n \in TickArgs : TimePad < n

\* Between passes interrupts are off exactly in the section of a wait.
SectionOnly ==
  /\ \A t \in Task : pc[t] = "section" =>
       mode = "task" /\ t = nrk_cur_task /\ ~int_enabled
  /\ mode = "task" /\ pc[nrk_cur_task] # "section" => int_enabled

\* How long ago a compare match that was not yet served can be.
IrqIsFresh ==
  mode = "task" /\ compare_irq =>
    /\ pc[nrk_cur_task] = "section" => os_timer <= section_ticks
    /\ \/ os_timer <= SectionTicks
       \/ os_timer < SleepWakeup

\* The counter and its compare value during a pass, and before nrk_start.
PassTimer ==
  /\ mode = "boot" => ~compare_irq
  /\ mode = "scan" => section_ticks = 0
  /\ mode \in {"scan", "dispatch"} =>
       /\ ~compare_irq
       /\ ocr2a = MaxWakeup - 1
       /\ \/ os_timer <= SectionTicks + section_ticks
          \/ os_timer < SleepWakeup + section_ticks

TimerInv == SectionOnly /\ IrqIsFresh /\ PassTimer /\ CompareAhead

-----------------------------------------------------------------------------

\* A remainder below the modulus, and one step around it.
LEMMA ModSmall ==
  ASSUME NEW n \in Nat, NEW a \in 0..n-1
  PROVE  a % n = a
OBVIOUS

LEMMA ModShift ==
  ASSUME NEW n \in Nat, NEW a \in 1..n
  PROVE  (a + n - 1) % n = a - 1
OBVIOUS

\* The order of the timer's settings.
LEMMA TimerOrder ==
  /\ 0 < TimePad
  /\ SleepWakeup + 2 * SectionTicks < MaxWakeup
  /\ MaxWakeup <= StartCompare /\ StartCompare + 1 < TimerWrap
BY TimerAssumption

\* A step of the running task that leaves the timer alone and enters no
\* interrupt-free section.
LEMMA QuietStep ==
  ASSUME TimerInv, IInv, mode = "task", pc[nrk_cur_task] # "section",
         UNCHANGED <<os_timer, ocr2a, compare_irq, section_ticks, mode,
                     nrk_cur_task>>,
         int_enabled',
         \A u \in Task : pc'[u] = "section" => pc[u] = "section"
  PROVE  TimerInv'
<1>1. nrk_cur_task \in Task
  BY DEF IInv, PassTypeOK
<1> QED
  BY <1>1 DEF TimerInv, SectionOnly, IrqIsFresh, PassTimer, CompareAhead, Live

\* One tick.
LEMMA TickTimer ==
  ASSUME TimerInv, IInv, Tick
  PROVE  TimerInv'
<1> USE DEF Tick
<1>1. os_timer \in 0..TimerWrap-1 /\ ocr2a \in 0..TimerWrap-1
  BY DEF IInv, TimerTypeOK
<1>2. section_ticks \in 0..SectionTicks /\ section_ticks' \in Nat
      /\ section_ticks <= section_ticks'
  BY Times DEF IInv, TimerTypeOK
<1>3. UNCHANGED <<pc, mode, nrk_cur_task, int_enabled, ocr2a>>
  OBVIOUS
<1>4. CASE os_timer = ocr2a
  <2>1. mode = "task"
    BY <1>1, <1>2, <1>4, Times, TimerOrder DEF TimerInv, PassTimer, InShortSection
  <2>2. os_timer' = 0 /\ mode' = "task"
    BY <1>4, <2>1
  <2>3. SectionOnly'
    BY <1>3 DEF TimerInv, SectionOnly
  <2>4. (IrqIsFresh /\ PassTimer /\ CompareAhead)'
    BY <1>1, <1>2, <1>3, <2>2, Times
    DEF IrqIsFresh, PassTimer, CompareAhead, Live
  <2> QED
    BY <2>3, <2>4 DEF TimerInv
<1>5. CASE os_timer # ocr2a
  <2>1. compare_irq' = compare_irq
    BY <1>5
  <2>2. CASE mode = "task"
    <3>1. os_timer + 1 <= ocr2a /\ os_timer + 1 \in 0..TimerWrap-1
      BY <1>1, <1>5, <2>2, Times DEF TimerInv, CompareAhead, Live
    <3>2. os_timer' = os_timer + 1
      BY <1>5, <3>1, Times, ModSmall
    <3>3. IrqIsFresh'
      <4>1. CASE pc[nrk_cur_task] = "section"
        BY <1>1, <1>2, <2>1, <2>2, <3>2, <4>1, Times
        DEF TimerInv, IrqIsFresh, InShortSection, IInv, TimerTypeOK
      <4>2. CASE pc[nrk_cur_task] # "section"
        <5>1. InterruptTaken => WakingUp
          BY <2>2, <4>2 DEF InShortSection
        <5>2. compare_irq => os_timer + 1 < SleepWakeup
          BY <2>2, <4>2, <5>1
          DEF TimerInv, SectionOnly, InterruptTaken, WakingUp
        <5> QED
          BY <1>1, <1>3, <2>1, <3>2, <4>2, <5>2, Times DEF IrqIsFresh
      <4> QED
        BY <4>1, <4>2
    <3>4. SectionOnly'
      BY <1>3 DEF TimerInv, SectionOnly
    <3>5. (PassTimer /\ CompareAhead)'
      BY <1>3, <2>2, <3>1, <3>2 DEF PassTimer, CompareAhead, Live
    <3> QED
      BY <3>3, <3>4, <3>5 DEF TimerInv
  <2>3. CASE mode = "dispatch"
    <3>1. section_ticks' = section_ticks + 1 /\ section_ticks < SectionTicks
      BY <2>3 DEF InShortSection
    <3>2. os_timer + 1 \in 0..TimerWrap-1
      BY <1>1, <1>2, <2>3, <3>1, Times, TimerOrder DEF TimerInv, PassTimer
    <3>3. os_timer' = os_timer + 1
      BY <1>5, <3>2, Times, ModSmall
    <3>4. SectionOnly'
      BY <1>3 DEF TimerInv, SectionOnly
    <3>5. PassTimer'
      BY <1>1, <1>2, <1>3, <2>1, <2>3, <3>1, <3>3, Times
      DEF TimerInv, PassTimer
    <3>6. (IrqIsFresh /\ CompareAhead)'
      BY <1>3, <2>3 DEF IrqIsFresh, CompareAhead, Live
    <3> QED
      BY <3>4, <3>5, <3>6 DEF TimerInv
  <2> QED
    BY <2>2, <2>3
<1> QED
  BY <1>4, <1>5

\* The pass begins within the bound of IrqIsFresh.
LEMMA BeginTimer ==
  ASSUME TimerInv, IInv, SchedBegin
  PROVE  TimerInv'
<1> USE DEF SchedBegin
<1>1. nrk_cur_task \in Task /\ pc \in [Task -> PC]
  BY DEF IInv, PassTypeOK, CallTypeOK
<1>2. pc[nrk_cur_task] # "section"
  BY <1>1 DEF InterruptTaken, TimerInv, SectionOnly
<1>3. SectionOnly'
  BY <1>1, <1>2 DEF TimerInv, SectionOnly
<1>4. ocr2a' = MaxWakeup - 1
  <2>1. MaxWakeup \in 1..TimerWrap
    BY Times, TimerOrder
  <2> QED
    BY <2>1, Times, ModShift DEF SetNextWakeup
<1>5. PassTimer'
  BY <1>1, <1>2, <1>4, Times
  DEF TimerInv, PassTimer, IrqIsFresh, InterruptTaken, IInv, TimerTypeOK
<1> QED
  BY <1>3, <1>5 DEF TimerInv, IrqIsFresh, CompareAhead, Live

\* The loop over the tasks does not touch the timer.
LEMMA ScanTimer ==
  ASSUME TimerInv, IInv, SchedScan
  PROVE  TimerInv'
<1> USE DEF SchedScan
<1>1. UNCHANGED <<pc, nrk_cur_task, os_timer, ocr2a, compare_irq, int_enabled,
                  section_ticks>>
  OBVIOUS
<1>2. mode = "scan" /\ mode' \in {"scan", "dispatch"}
  OBVIOUS
<1>3. SectionOnly'
  BY <1>1, <1>2 DEF TimerInv, SectionOnly
<1>4. PassTimer'
  BY <1>1, <1>2 DEF TimerInv, PassTimer
<1>5. (IrqIsFresh /\ CompareAhead)'
  BY <1>2 DEF IrqIsFresh, CompareAhead, Live
<1> QED
  BY <1>3, <1>4, <1>5 DEF TimerInv

\* No time a pass computes lies beyond MAX_SCHED_WAKEUP_TIME.
LEMMA WakeupBound ==
  ASSUME TimingTypeOK, NEW t \in Task, NEW nw \in Nat
  PROVE  TaskWakeup(t, nw) <= MaxWakeup
<1>1. IdleWakeup(nw) <= MaxWakeup
  BY Times, TimerOrder DEF IdleWakeup, Least
<1>2. cpu_remaining[t] \in Nat
  BY DEF TimingTypeOK
<1> QED
  BY <1>1, <1>2, Times DEF TaskWakeup, Least

\* The pass sets the compare value ahead of the counter.
LEMMA DispatchTimer ==
  ASSUME TimerInv, IInv, SchedDispatch
  PROVE  TimerInv'
<1> USE DEF SchedDispatch
<1> DEFINE due == TaskWakeup(Head(readyQ), next_wake)
           at == NextPass(due)
<1>1. due \in Nat /\ due <= MaxWakeup
  BY IdleHead, TaskWakeupType, WakeupBound DEF IInv, PassTypeOK
<1>2. os_timer \in Nat /\ os_timer + 1 <= MaxWakeup
  BY Times, TimerOrder DEF TimerInv, PassTimer, IInv, TimerTypeOK
<1>3. at \in 1..TimerWrap /\ os_timer <= at - 1
  <2> HIDE DEF due
  <2> QED
    BY <1>1, <1>2, Times, TimerOrder DEF NextPass
<1>4. ocr2a' = at - 1
  <2>1. ocr2a' = (at + TimerWrap - 1) % TimerWrap
    BY DEF SetNextWakeup
  <2> HIDE DEF at
  <2> QED
    BY <1>3, <2>1, Times, ModShift
<1>5. os_timer' <= ocr2a' /\ mode' = "task" /\ int_enabled' /\ ~compare_irq'
  BY <1>3, <1>4 DEF TimerInv, PassTimer
<1>6. \A t \in Task : pc'[t] # "section"
  <2>1. pc' = pc /\ mode = "dispatch"
    OBVIOUS
  <2> QED
    BY <2>1 DEF TimerInv, SectionOnly
<1> QED
  BY <1>5, <1>6 DEF TimerInv, SectionOnly, IrqIsFresh, PassTimer, CompareAhead, Live

\* A wait enters its section, in which no compare match is old.
LEMMA BeginWaitTimer ==
  ASSUME TimerInv, IInv, NEW t \in UserTask, NEW p \in {"user", "marked"},
         At(t, p), NEW call, NEW n, BeginWait(t, call, n)
  PROVE  TimerInv'
<1>1. t \in Task /\ t = nrk_cur_task /\ mode = "task" /\ pc[t] # "section"
      /\ pc \in [Task -> PC]
  BY Tasks DEF At, IInv, CallTypeOK
<1>2. ~compare_irq
  BY <1>1 DEF At, InterruptTaken, TimerInv, SectionOnly
<1>3. UNCHANGED <<os_timer, ocr2a, compare_irq, mode, nrk_cur_task>>
      /\ ~int_enabled' /\ pc' = [pc EXCEPT ![t] = "section"]
  BY DEF BeginWait
<1>4. SectionOnly'
  BY <1>1, <1>3 DEF TimerInv, SectionOnly
<1>5. (IrqIsFresh /\ PassTimer /\ CompareAhead)'
  BY <1>1, <1>2, <1>3 DEF TimerInv, IrqIsFresh, PassTimer, CompareAhead, Live
<1> QED
  BY <1>4, <1>5 DEF TimerInv

\* ... and leaves it with a compare value that is not behind the counter.
LEMMA ArmWaitTimer ==
  ASSUME TimerInv, IInv, NEW t \in UserTask, ArmWait(t)
  PROVE  TimerInv'
<1> USE DEF ArmWait
<1> DEFINE near == os_timer + TimePad
<1>1. t \in Task /\ t = nrk_cur_task /\ pc \in [Task -> PC]
  BY Tasks DEF IInv, CallTypeOK
<1>2. os_timer \in 0..TimerWrap-1 /\ ocr2a \in 0..TimerWrap-1
  BY DEF IInv, TimerTypeOK
<1>3. os_timer' <= ocr2a'
  <2>1. CASE near <= GetNextWakeup /\ BringForward(near)
    <3>1. GetNextWakeup <= TimerWrap - 1
      BY <1>2, Times, ModRange DEF GetNextWakeup
    <3>2. near \in 1..TimerWrap
      BY <1>2, <2>1, <3>1, Times, TimerOrder, ModRange DEF GetNextWakeup
    <3>3. ocr2a' = near - 1
      <4>1. ocr2a' = (near + TimerWrap - 1) % TimerWrap
        BY <2>1 DEF BringForward, SetNextWakeup
      <4> HIDE DEF near
      <4> QED
        BY <3>2, <4>1, Times, ModShift
    <3> QED
      BY <1>2, <3>3, Times, TimerOrder
  <2>2. CASE UNCHANGED ocr2a
    BY <2>2 DEF TimerInv, CompareAhead, Live
  <2> QED
    BY <2>1, <2>2
<1>4. /\ pc'[t] = "idle" /\ mode' = "task" /\ nrk_cur_task' = t
      /\ int_enabled'
  <2>1. int_enabled'
    OBVIOUS
  <2> QED
    BY <1>1, <2>1
<1>5. \A u \in Task : pc'[u] # "section"
  BY <1>1, <1>4 DEF TimerInv, SectionOnly
<1>6. IrqIsFresh'
  BY <1>1, <1>4, <1>5 DEF TimerInv, IrqIsFresh
<1> QED
  BY <1>3, <1>4, <1>5, <1>6
  DEF TimerInv, SectionOnly, PassTimer, CompareAhead, Live

\* A task outside the sections of its waits runs with interrupts on.
LEMMA AtIsOpen ==
  ASSUME TimerInv, NEW t \in Task, NEW p \in PC \ {"section"}, At(t, p)
  PROVE  /\ mode = "task" /\ nrk_cur_task = t /\ pc[nrk_cur_task] # "section"
         /\ int_enabled
BY DEF At, TimerInv, SectionOnly

-----------------------------------------------------------------------------

\* Every other step is quiet.
LEMMA OtherTimer ==
  ASSUME TimerInv, IInv, WakeupsAccepted, NEW t \in UserTask,
         \/ EnterIdle(t) \/ CheckFlag(t) \/ TerminateFinish(t)
         \/ SemTakeLoad(t) \/ SemTakeStore(t) \/ SemRelease(t)
         \/ TaskCall(t) /\ ~Wait(t)
         \/ SemCall(t)
  PROVE  TimerInv'
<1>1. t \in Task /\ pc \in [Task -> PC]
  BY Tasks DEF IInv, CallTypeOK
<1>2. \E p \in PC \ {"section"} : At(t, p)
  BY DEF EnterIdle, CheckFlag, TerminateFinish, SemTakeLoad, SemTakeStore,
         SemRelease, TaskCall, SemCall, SetNextWakeupCall, TerminateRemove,
         SignalCreate, SignalDelete, SignalRegister, SignalUnregister,
         EventSignal, EventWait, SemPendFree, SemPendBlock, SemPost, MayCall, PC
<1>3. /\ mode = "task" /\ nrk_cur_task = t /\ pc[nrk_cur_task] # "section"
      /\ int_enabled
  BY <1>1, <1>2, AtIsOpen
<1>4. UNCHANGED <<os_timer, ocr2a, compare_irq, section_ticks, mode,
                  nrk_cur_task>>
  BY DEF EnterIdle, CheckFlag, TerminateFinish, SemTakeLoad, SemTakeStore,
         SemRelease, TaskCall, SemCall, SetNextWakeupCall, TerminateRemove,
         SignalCreate, SignalDelete, SignalRegister, SignalUnregister,
         EventSignal, EventWait, SemPendFree, SemPendBlock, SemPost, RaiseSignal
<1>5. int_enabled'
  <2>1. CASE SetNextWakeupCall(t)
    <3>1. PICK n \in TickArgs :
            /\ "set_next_wakeup" \in Calls[t]
            /\ ~(n <= TimePad) => int_enabled' = TRUE
      BY <2>1 DEF SetNextWakeupCall, MayCall
    <3>2. TimePad < n /\ n \in Nat
      BY <3>1, ProgramAssumption DEF WakeupsAccepted
    <3>3. int_enabled' = TRUE
      BY <3>1, <3>2, Times
    <3> QED
      BY <3>3
  <2>2. CASE ~SetNextWakeupCall(t)
    BY <1>3, <2>2
    DEF EnterIdle, CheckFlag, TerminateFinish, SemTakeLoad, SemTakeStore,
        SemRelease, TaskCall, SemCall, TerminateRemove,
        SignalCreate, SignalDelete, SignalRegister, SignalUnregister,
        EventSignal, EventWait, SemPendFree, SemPendBlock, SemPost, RaiseSignal
  <2> QED
    BY <2>1, <2>2
<1>6. \A u \in Task : pc'[u] = "section" => pc[u] = "section"
  BY <1>1
  DEF EnterIdle, CheckFlag, TerminateFinish, SemTakeLoad, SemTakeStore,
      SemRelease, TaskCall, SemCall, SetNextWakeupCall, TerminateRemove,
      SignalCreate, SignalDelete, SignalRegister, SignalUnregister,
      EventSignal, EventWait, SemPendFree, SemPendBlock, SemPost, Return
<1> QED
  BY <1>3, <1>4, <1>5, <1>6, QuietStep

\* The idle task and interrupt handlers.
LEMMA IdleTimer ==
  ASSUME TimerInv, IInv, IdleTask \/ IsrSignal
  PROVE  TimerInv'
<1>1. nrk_cur_task \in Task /\ Idle \in Task /\ pc \in [Task -> PC]
  BY Tasks DEF IInv, PassTypeOK, CallTypeOK
<1>2. UNCHANGED <<os_timer, ocr2a, compare_irq, section_ticks, mode,
                  nrk_cur_task>>
  BY DEF IdleTask, IsrSignal, RaiseSignal
<1>3. mode = "task" /\ pc[nrk_cur_task] # "section"
  BY <1>1 DEF IdleTask, IsrSignal, At, TimerInv, SectionOnly
<1>4. int_enabled'
  <2>1. CASE IdleTask
    BY <1>3, <2>1 DEF IdleTask, TimerInv, SectionOnly
  <2>2. CASE IsrSignal
    BY <2>2 DEF IsrSignal, RaiseSignal
  <2> QED
    BY <2>1, <2>2
<1>5. \A u \in Task : pc'[u] = "section" => pc[u] = "section"
  BY <1>1 DEF IdleTask, IsrSignal
<1> QED
  BY <1>2, <1>3, <1>4, <1>5, QuietStep

\* Boot.
LEMMA BootTimer ==
  ASSUME TimerInv, IInv, Start \/ \E t \in UserTask : Activate(t)
  PROVE  TimerInv'
<1>1. mode = "boot" /\ pc' = pc /\ compare_irq' = compare_irq /\ mode' # "scan"
      /\ mode' # "dispatch"
  BY DEF Start, Activate
<1>2. ~compare_irq /\ \A t \in Task : pc[t] # "section"
  BY <1>1 DEF TimerInv, PassTimer, SectionOnly
<1>3. mode' = "boot" \/ (mode' = "task" /\ os_timer' <= ocr2a' /\ int_enabled')
  <2>1. CASE Start
    BY <2>1, Times DEF Start
  <2>2. CASE \E t \in UserTask : Activate(t)
    BY <1>1, <2>2 DEF Activate
  <2> QED
    BY <2>1, <2>2
<1> QED
  BY <1>1, <1>2, <1>3
  DEF TimerInv, SectionOnly, IrqIsFresh, PassTimer, CompareAhead, Live

\* The initial states and all steps together.
LEMMA TimerInit ==
  ASSUME Init
  PROVE  TimerInv
BY DEF Init, TimerInv, SectionOnly, IrqIsFresh, PassTimer, CompareAhead, Live

LEMMA TimerStep ==
  ASSUME TimerInv, IInv, WakeupsAccepted, [Next]_vars
  PROVE  TimerInv'
<1>1. CASE Tick
  BY <1>1, TickTimer
<1>2. CASE Scheduler
  BY <1>2, BeginTimer, ScanTimer, DispatchTimer DEF Scheduler
<1>3. CASE Start \/ \E t \in UserTask : Activate(t)
  BY <1>3, BootTimer
<1>4. CASE IdleTask \/ IsrSignal
  BY <1>4, IdleTimer
<1>5. ASSUME NEW t \in UserTask, Wait(t) \/ BlockingWait(t)
      PROVE  TimerInv'
  BY <1>5, BeginWaitTimer DEF Wait, BlockingWait, MayCall
<1>6. ASSUME NEW t \in UserTask, ArmWait(t)
      PROVE  TimerInv'
  BY <1>6, ArmWaitTimer
<1>7. ASSUME NEW t \in UserTask,
             \/ EnterIdle(t) \/ CheckFlag(t) \/ TerminateFinish(t)
             \/ SemTakeLoad(t) \/ SemTakeStore(t) \/ SemRelease(t)
             \/ TaskCall(t) /\ ~Wait(t)
             \/ SemCall(t)
      PROVE  TimerInv'
  BY <1>7, OtherTimer
<1>8. CASE UNCHANGED vars
  BY <1>8
  DEF TimerInv, SectionOnly, IrqIsFresh, PassTimer, CompareAhead, Live
<1> QED
  BY <1>1, <1>2, <1>3, <1>4, <1>5, <1>6, <1>7, <1>8 DEF Next, InWait

\* The counter is never past its compare value between passes, so the next
\* pass comes when it was asked for and not only after the counter wraps: for
\* every task set whose programs respect TIME_PAD.
THEOREM CompareStaysAhead ==
  ASSUME WakeupsAccepted
  PROVE  Spec => []CompareAhead
<1>1. Init => TimerInv
  BY TimerInit
<1>2. TimerInv /\ IInv /\ IInv' /\ [Next]_vars => TimerInv'
  BY TimerStep, WakeupsAccepted
<1>3. TimerInv => CompareAhead
  BY DEF TimerInv
<1> QED
  BY <1>1, <1>2, <1>3, KernelInvariant, PTL DEF Spec

=============================================================================
