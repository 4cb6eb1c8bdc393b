------------------------- MODULE NrkAccountingProofs -------------------------
(***************************************************************************)
(* What the kernel accounts for, for every task set and every setting of   *)
(* the timer: no pass loses or invents a tick (NoTickLost), a reserve      *)
(* bounds the time of its task (BudgetHeld), and the periods of a task     *)
(* follow one another without a shift (PeriodKept).                        *)
(*                                                                         *)
(* The first two hold as long as no tick falls into an interrupt-free      *)
(* section of the kernel, for a tick between the pass's reading of the     *)
(* counter and its writing of the compare value is charged to nobody; and  *)
(* as long as nrk_set_next_wakeup refuses no time, as for CompareAhead.    *)
(* BudgetHeld and PeriodKept are about one task each and whatever the      *)
(* others do: Balance relates what a task has used, what it has left and   *)
(* what the next pass will charge to it; OnPhase relates its next_period,  *)
(* the time charged and what the pass under way has yet to take off.       *)
(***************************************************************************)
EXTENDS NrkAccounting, NrkKernelProofs

\* What the next pass will charge is the cycle the counter is in, or, once its
\* match has come, the cycle it has just ended.
CycleIsCharged ==
  /\ unaccounted \in Nat
  /\ mode # "task" => unaccounted = 0
  /\ mode = "task" /\ ~compare_irq =>
       /\ unaccounted = 0
       /\ prev_timer_val # 0 => prev_timer_val = ocr2a + 1
  /\ mode = "task" /\ compare_irq =>
       /\ pc[nrk_cur_task] # "section"
       /\ prev_timer_val # 0 => prev_timer_val = unaccounted

\* Only the idle task powers the processor down, and only for a cycle that is
\* longer than the way out of power-down.
SleepIsLong ==
  /\ ~PowerDown => cpu_state # "SLEEP"
  /\ mode = "boot" \/ (mode = "task" /\ nrk_cur_task # Idle)
       => cpu_state = "ACTIVE"
  /\ pc[Idle] = "asleep" =>
       /\ mode = "task" /\ nrk_cur_task = Idle
       /\ cpu_state = "SLEEP" => SleepWakeup <= ocr2a

ClockInv == CycleIsCharged /\ SleepIsLong

-----------------------------------------------------------------------------

USE DEF vars, tcbVars, timerVars, passVars, callVars, objectVars, blockVars,
        timingVars, ceilVars

\* The steps of the kernel are those of NrkKernel.
LEMMA AccountingIsNext ==
  ASSUME [AccountingNext]_accountingVars
  PROVE  [Next]_vars
BY DEF AccountingNext, accountingVars, Elapse, Account, Replenish, Next,
       Scheduler

\* A tick ends at most one cycle before the next pass.
LEMMA ElapseClock ==
  ASSUME SectionTicks = 0, ClockInv, TimerInv, IInv, Elapse
  PROVE  ClockInv'
<1> USE DEF Elapse, Tick
<1>1. os_timer \in Nat /\ ocr2a \in Nat /\ section_ticks = 0
  BY Times DEF IInv, TimerTypeOK
<1>2. mode = "task" /\ ~InShortSection
  BY <1>1 DEF InShortSection
<1>3. int_enabled
  BY <1>2 DEF TimerInv, SectionOnly, InShortSection
<1>4. UNCHANGED <<mode, nrk_cur_task, pc, prev_timer_val, ocr2a, cpu_state>>
  OBVIOUS
<1>5. SleepIsLong'
  BY <1>4 DEF ClockInv, SleepIsLong
<1>6. CycleIsCharged'
  <2>1. CASE compare_irq
    <3>1. WakingUp
      BY <1>2, <1>3, <2>1 DEF InterruptTaken
    <3>2. nrk_cur_task \in Task
      BY DEF IInv, PassTypeOK
    <3>3. SleepWakeup <= ocr2a /\ os_timer + 1 < SleepWakeup
      BY <1>2, <3>1, <3>2 DEF WakingUp, ClockInv, SleepIsLong
    <3>4. os_timer # ocr2a
      BY <1>1, <3>3, Times
    <3> QED
      BY <1>2, <1>4, <2>1, <3>4 DEF ClockInv, CycleIsCharged, IInv, PassTypeOK
  <2>2. CASE ~compare_irq
    BY <1>1, <1>2, <1>4, <2>2 DEF ClockInv, CycleIsCharged, InShortSection
  <2> QED
    BY <2>1, <2>2
<1> QED
  BY <1>5, <1>6 DEF ClockInv

\* The pass accounts for the cycle whose match began it.
LEMMA AccountClock ==
  ASSUME ClockInv, TimerInv, IInv, Account
  PROVE  ClockInv'
<1> USE DEF Account, SchedBegin
<1>1. nrk_cur_task \in Task /\ Idle \in Task /\ pc \in [Task -> PC]
  BY Tasks DEF IInv, PassTypeOK, CallTypeOK
<1>2. mode = "task" /\ compare_irq /\ mode' = "scan" /\ nrk_cur_task' = nrk_cur_task
  BY DEF InterruptTaken
<1>3. unaccounted' = 0
  <2>1. prev_timer_val \in Nat
    BY DEF IInv, TimerTypeOK
  <2> QED
    BY <1>2, <2>1 DEF ClockInv, CycleIsCharged
<1>4. pc'[Idle] # "asleep"
  BY <1>1, <1>2 DEF ClockInv, SleepIsLong
<1> QED
  BY <1>2, <1>3, <1>4 DEF ClockInv, CycleIsCharged, SleepIsLong

\* The end of the pass charges the next one with the cycle it sets up.
LEMMA DispatchClock ==
  ASSUME ClockInv, TimerInv, IInv, SectionTicks = 0, SchedDispatch,
         UNCHANGED unaccounted
  PROVE  ClockInv'
<1> USE DEF SchedDispatch
<1> DEFINE due == TaskWakeup(Head(readyQ), next_wake)
           at == NextPass(due)
<1>1. due \in Nat /\ due <= MaxWakeup
  BY IdleHead, TaskWakeupType, WakeupBound DEF IInv, PassTypeOK
<1>2. os_timer \in Nat /\ os_timer + 1 <= MaxWakeup
  BY Times, TimerOrder DEF TimerInv, PassTimer, IInv, TimerTypeOK
<1>3. at \in 1..TimerWrap-1
  <2> HIDE DEF due
  <2> QED
    BY <1>1, <1>2, Times, TimerOrder DEF NextPass
<1>4. prev_timer_val' = at /\ ocr2a' = at - 1
  <2>1. /\ ocr2a' = (at + TimerWrap - 1) % TimerWrap
        /\ prev_timer_val' = at % TimerWrap
    BY DEF SetNextWakeup
  <2>2. \A a \in 1..TimerWrap-1 :
          (a + TimerWrap - 1) % TimerWrap = a - 1 /\ a % TimerWrap = a
    BY Times, ModShift, ModSmall
  <2> HIDE DEF at
  <2> QED
    BY <1>3, <2>1, <2>2
<1>5. prev_timer_val' = ocr2a' + 1
  <2> HIDE DEF at
  <2> QED
    BY <1>3, <1>4, Times
<1>6. mode = "dispatch" /\ mode' = "task" /\ compare_irq' = compare_irq /\ pc' = pc
  OBVIOUS
<1>7. ~compare_irq /\ unaccounted = 0 /\ pc[Idle] # "asleep"
  BY <1>6 DEF TimerInv, PassTimer, ClockInv, CycleIsCharged, SleepIsLong
<1>8. nrk_cur_task' # Idle => cpu_state' = "ACTIVE"
  OBVIOUS
<1> QED
  BY <1>5, <1>6, <1>7, <1>8 DEF ClockInv, CycleIsCharged, SleepIsLong

\* A step of a task that leaves the clock alone.
LEMMA QuietClock ==
  ASSUME ClockInv, IInv, NEW t \in UserTask, mode = "task", nrk_cur_task = t,
         UNCHANGED <<ocr2a, compare_irq, prev_timer_val, cpu_state, mode,
                     nrk_cur_task, unaccounted>>,
         \A u \in Task \ {t} : pc'[u] = pc[u],
         compare_irq => pc'[t] # "section"
  PROVE  ClockInv'
<1>1. Idle \in Task \ {t}
  BY Tasks
<1> QED
  BY <1>1 DEF ClockInv, CycleIsCharged, SleepIsLong

\* A wait enters its section only when no match is to be served,
LEMMA BeginWaitClock ==
  ASSUME ClockInv, TimerInv, IInv, NEW t \in UserTask,
         NEW p \in {"user", "marked"}, At(t, p), NEW call, NEW n,
         BeginWait(t, call, n), UNCHANGED unaccounted
  PROVE  ClockInv'
<1>1. t \in Task /\ p \in PC \ {"section"} /\ pc \in [Task -> PC]
  BY Tasks DEF IInv, CallTypeOK, PC
<1>2. ~compare_irq
  BY <1>1, AtIsOpen DEF At, InterruptTaken
<1>3. UNCHANGED <<ocr2a, compare_irq, prev_timer_val, cpu_state, mode,
                  nrk_cur_task>>
      /\ pc' = [pc EXCEPT ![t] = "section"]
  BY DEF BeginWait
<1> QED
  BY <1>1, <1>2, <1>3, QuietClock DEF At

\* ... and brings the pass forward together with what the pass will charge.
LEMMA ArmWaitClock ==
  ASSUME ClockInv, TimerInv, IInv, NEW t \in UserTask, ArmWait(t),
         UNCHANGED unaccounted
  PROVE  ClockInv'
<1> USE DEF ArmWait
<1> DEFINE near == os_timer + TimePad
<1>1. t \in Task /\ Idle \in Task /\ t # Idle /\ pc \in [Task -> PC]
  BY Tasks DEF IInv, CallTypeOK
<1>2. ~compare_irq /\ unaccounted = 0
  BY DEF ClockInv, CycleIsCharged
<1>3. prev_timer_val' # 0 => prev_timer_val' = ocr2a' + 1
  <2>1. CASE near <= GetNextWakeup /\ BringForward(near)
    <3>1. os_timer \in Nat /\ ocr2a \in Nat
      BY DEF IInv, TimerTypeOK
    <3>2. near \in 1..TimerWrap
      BY <2>1, <3>1, Times, TimerOrder, ModRange DEF GetNextWakeup
    <3>3. prev_timer_val' = near
          /\ ocr2a' = (near + TimerWrap - 1) % TimerWrap
      BY <2>1 DEF BringForward, SetNextWakeup
    <3> HIDE DEF near
    <3> QED
      BY <3>2, <3>3, Times, ModShift
  <2>2. CASE UNCHANGED <<prev_timer_val, ocr2a>>
    BY <1>2, <2>2 DEF ClockInv, CycleIsCharged
  <2> QED
    BY <2>1, <2>2
<1>4. /\ mode' = "task" /\ nrk_cur_task' = t /\ compare_irq' = compare_irq
      /\ cpu_state' = cpu_state /\ pc'[Idle] = pc[Idle]
  BY <1>1
<1>5. cpu_state = "ACTIVE" /\ pc[Idle] # "asleep"
  BY <1>1 DEF ClockInv, SleepIsLong
<1> QED
  BY <1>1, <1>2, <1>3, <1>4, <1>5 DEF ClockInv, CycleIsCharged, SleepIsLong

\* What remains of the calls of the tasks.
LEMMA OtherClock ==
  ASSUME ClockInv, IInv, NEW t \in UserTask, UNCHANGED unaccounted,
         \/ EnterIdle(t) \/ CheckFlag(t) \/ TerminateFinish(t) \/ SemTakeLoad(t)
         \/ TaskCall(t) /\ ~Wait(t)
  PROVE  ClockInv'
<1>1. t \in Task /\ pc \in [Task -> PC]
  BY Tasks DEF IInv, CallTypeOK
<1>2. mode = "task" /\ nrk_cur_task = t
  BY DEF EnterIdle, CheckFlag, TerminateFinish, SemTakeLoad, TaskCall,
         SetNextWakeupCall, TerminateRemove, SignalCreate, SignalDelete,
         SignalRegister, SignalUnregister, EventSignal, EventWait, MayCall, At
<1>3. UNCHANGED <<ocr2a, compare_irq, prev_timer_val, cpu_state, mode,
                  nrk_cur_task>>
  BY DEF EnterIdle, CheckFlag, TerminateFinish, SemTakeLoad, TaskCall,
         SetNextWakeupCall, TerminateRemove, SignalCreate, SignalDelete,
         SignalRegister, SignalUnregister, EventSignal, EventWait, RaiseSignal
<1>4. \A u \in Task \ {t} : pc'[u] = pc[u]
  BY <1>1
  DEF EnterIdle, CheckFlag, TerminateFinish, SemTakeLoad, TaskCall,
      SetNextWakeupCall, TerminateRemove, SignalCreate, SignalDelete,
      SignalRegister, SignalUnregister, EventSignal, EventWait, Return
<1>5. pc'[t] = "section" => pc[t] = "section"
  BY <1>1
  DEF EnterIdle, CheckFlag, TerminateFinish, SemTakeLoad, TaskCall,
      SetNextWakeupCall, TerminateRemove, SignalCreate, SignalDelete,
      SignalRegister, SignalUnregister, EventSignal, EventWait, Return
<1>6. compare_irq => pc'[t] # "section"
  BY <1>2, <1>5 DEF ClockInv, CycleIsCharged
<1> QED
  BY <1>2, <1>3, <1>4, <1>6, QuietClock

\* The idle task powers down for a long cycle only.
LEMMA IdleClock ==
  ASSUME ClockInv, TimerInv, IInv, IdleTask, UNCHANGED unaccounted
  PROVE  ClockInv'
<1> USE DEF IdleTask
<1>1. Idle \in Task /\ pc \in [Task -> PC] /\ ocr2a \in 0..TimerWrap-1
  BY Tasks DEF IInv, CallTypeOK, TimerTypeOK
<1>2. mode = "task" /\ nrk_cur_task = Idle /\ pc[Idle] = "user"
  BY DEF At
<1>3. cpu_state' = "SLEEP" => PowerDown /\ SleepWakeup < GetNextWakeup
  BY <1>1, Times, ModRange DEF ClockInv, SleepIsLong, GetNextWakeup
<1>4. SleepWakeup < GetNextWakeup => SleepWakeup <= ocr2a
  <2>1. CASE ocr2a + 1 < TimerWrap
    BY <1>1, <2>1, Times, ModSmall DEF GetNextWakeup
  <2>2. CASE ocr2a = TimerWrap - 1
    BY <1>1, <2>2, Times, TimerOrder
  <2> QED
    BY <1>1, <2>1, <2>2, Times
<1>5. SleepIsLong'
  BY <1>1, <1>2, <1>3, <1>4 DEF ClockInv, SleepIsLong
<1>6. CycleIsCharged'
  BY <1>1, <1>2 DEF ClockInv, CycleIsCharged
<1> QED
  BY <1>5, <1>6 DEF ClockInv

\* Boot.
LEMMA BootClock ==
  ASSUME ClockInv, TimerInv, IInv, UNCHANGED unaccounted,
         Start \/ \E t \in UserTask : Activate(t)
  PROVE  ClockInv'
<1>1. /\ mode = "boot" /\ pc' = pc /\ compare_irq' = compare_irq
      /\ cpu_state' = cpu_state
      /\ mode' \in {"boot", "task"}
      /\ mode' = "task" => prev_timer_val' = 0
  BY DEF Start, Activate
<1>2. ~compare_irq /\ unaccounted = 0 /\ cpu_state = "ACTIVE"
      /\ pc[Idle] # "asleep"
  BY <1>1 DEF TimerInv, PassTimer, ClockInv, CycleIsCharged, SleepIsLong
<1> QED
  BY <1>1, <1>2 DEF ClockInv, CycleIsCharged, SleepIsLong

\* The loop of the pass leaves the clock alone.
LEMMA ReplenishClock ==
  ASSUME ClockInv, Replenish
  PROVE  ClockInv'
<1>1. /\ mode = "scan" /\ mode' \in {"scan", "dispatch"}
      /\ UNCHANGED <<pc, unaccounted, cpu_state, nrk_cur_task>>
  BY DEF Replenish, SchedScan
<1> QED
  BY <1>1 DEF ClockInv, CycleIsCharged, SleepIsLong

-----------------------------------------------------------------------------

\* All steps together.
LEMMA ClockInit ==
  ASSUME AccountingInit
  PROVE  ClockInv
BY Tasks
DEF AccountingInit, Init, ClockInv, CycleIsCharged, SleepIsLong

LEMMA ClockStep ==
  ASSUME SectionTicks = 0, ClockInv, TimerInv, IInv,
         [AccountingNext]_accountingVars
  PROVE  ClockInv'
<1>1. CASE Elapse
  BY <1>1, ElapseClock
<1>2. CASE Account
  BY <1>2, AccountClock
<1>3. CASE Replenish
  BY <1>3, ReplenishClock
<1>4. CASE SchedDispatch /\ UNCHANGED unaccounted
  BY <1>4, DispatchClock
<1>5. CASE UNCHANGED unaccounted /\ (Start \/ \E t \in UserTask : Activate(t))
  BY <1>5, BootClock
<1>6. CASE IdleTask /\ UNCHANGED unaccounted
  BY <1>6, IdleClock
<1>7. ASSUME NEW t \in UserTask, Wait(t) \/ BlockingWait(t),
             UNCHANGED unaccounted
      PROVE  ClockInv'
  BY <1>7, BeginWaitClock DEF Wait, BlockingWait, MayCall
<1>8. ASSUME NEW t \in UserTask, ArmWait(t), UNCHANGED unaccounted
      PROVE  ClockInv'
  BY <1>8, ArmWaitClock
<1>9. ASSUME NEW t \in UserTask, UNCHANGED unaccounted,
             \/ EnterIdle(t) \/ CheckFlag(t) \/ TerminateFinish(t)
             \/ SemTakeLoad(t)
             \/ TaskCall(t) /\ ~Wait(t)
      PROVE  ClockInv'
  BY <1>9, OtherClock
<1>10. CASE UNCHANGED accountingVars
  BY <1>10 DEF accountingVars, ClockInv, CycleIsCharged, SleepIsLong
<1> QED
  BY <1>1, <1>2, <1>3, <1>4, <1>5, <1>6, <1>7, <1>8, <1>9, <1>10
  DEF AccountingNext, InWait

\* After every pass the kernel's clock and the remaining time of every wait
\* have taken in exactly the ticks that went by, whatever the tasks called in
\* between, however often a wait brought the pass forward and however long the
\* processor took to wake up: if no tick falls into an interrupt-free section.
THEOREM NoTickIsLost ==
  ASSUME SectionTicks = 0, WakeupsAccepted
  PROVE  AccountingSpec => []NoTickLost
<1>1. AccountingInit => Init /\ IInv /\ TimerInv /\ ClockInv
  BY InitOK, TimerInit, ClockInit DEF AccountingInit
<1>2. IInv /\ TimerInv /\ ClockInv /\ [AccountingNext]_accountingVars
        => IInv' /\ TimerInv' /\ ClockInv'
  BY NextOK, TimerStep, ClockStep, AccountingIsNext
<1>3. ClockInv => NoTickLost
  BY DEF ClockInv, CycleIsCharged, NoTickLost
<1> QED
  BY <1>1, <1>2, <1>3, PTL DEF AccountingSpec

-----------------------------------------------------------------------------

\* Task t has a node in queue q; it has no two.
Holds(q, t) == \E i \in 1..Len(q) : q[i] = t
NotTwice(q, t) == \A i, j \in 1..Len(q) : q[i] = t /\ q[j] = t => i = j

\* nrk_rem_from_readyQ takes out the only node of its task and no other task's.
LEMMA RemoveNode ==
  ASSUME NEW q \in Seq(Task), NEW t \in Task, NotTwice(q, t), NEW u \in Task
  PROVE  /\ NotTwice(RemFromReadyQ(q, u), t)
         /\ Holds(RemFromReadyQ(q, u), t) => t # u /\ Holds(q, t)
<1> DEFINE nodes == {i \in 1..Len(q) : q[i] = u}
<1>1. CASE nodes = {}
  BY <1>1 DEF RemFromReadyQ, Holds
<1>2. CASE nodes # {}
  <2>1. Min(nodes) \in nodes
    <3>1. nodes \subseteq Nat
      OBVIOUS
    <3> HIDE DEF nodes
    <3> QED
      BY <1>2, <3>1, MinIsFirst
  <2>2. PICK at \in 1..Len(q) : at = Min(nodes) /\ q[at] = u
    BY <2>1
  <2>3. RemFromReadyQ(q, u) = RemoveAt(q, at)
    BY <1>2, <2>2 DEF RemFromReadyQ
  <2> DEFINE r == RemoveAt(q, at)
             from(k) == IF k < at THEN k ELSE k + 1
  <2>4. /\ Len(q) \in Nat /\ Len(r) = Len(q) - 1
        /\ \A k \in 1..Len(q) - 1 : r[k] = IF k < at THEN q[k] ELSE q[k+1]
    BY RemoveAtElements
  <2> HIDE DEF r
  <2>5. ASSUME NEW k \in 1..Len(r)
        PROVE  from(k) \in 1..Len(q) /\ from(k) # at /\ r[k] = q[from(k)]
    BY <2>4
  <2>6. \A i, j \in 1..Len(r) : from(i) = from(j) => i = j
    BY <2>4
  <2> HIDE DEF from
  <2>7. NotTwice(r, t)
    BY <2>5, <2>6 DEF NotTwice
  <2>8. Holds(r, t) => t # u /\ Holds(q, t)
    BY <2>2, <2>5 DEF NotTwice, Holds
  <2> QED
    BY <2>3, <2>7, <2>8 DEF r
<1> QED
  BY <1>1, <1>2

\* nrk_add_to_readyQ gives its task one node, if that, and no other task one.
LEMMA AddNode ==
  ASSUME NEW q \in Seq(Task), IdleEnds(q), NEW t \in UserTask, NotTwice(q, t),
         NEW u \in UserTask, u = t => ~Holds(q, t), NEW elevated, NEW ceil
  PROVE  /\ NotTwice(AddToReadyQ(q, u, Prio, elevated, ceil), t)
         /\ Holds(AddToReadyQ(q, u, Prio, elevated, ceil), t)
              => t = u \/ Holds(q, t)
<1> DEFINE stops == StopNodes(q, u, Prio, elevated, ceil)
<1>1. Len(q) \in Nat \ {0} /\ q[Len(q)] = 0
  BY DEF IdleEnds
<1>2. Len(q) \in stops
  BY <1>1, TaskAssumption DEF StopNodes, GoesBefore, Idle
<1>3. stops \subseteq 1..Len(q)
  BY DEF StopNodes
<1>4. PICK at \in 1..Len(q) : at = Min(stops)
  BY <1>2, <1>3, MinIsFirst
<1>5. AddToReadyQ(q, u, Prio, elevated, ceil) \in {q, InsertAt(q, at, u)}
  BY <1>1, <1>2, <1>4 DEF AddToReadyQ
<1> DEFINE r == InsertAt(q, at, u)
           from(k) == IF k < at THEN k ELSE k - 1
<1>6. /\ Len(r) = Len(q) + 1
      /\ \A k \in 1..Len(q) + 1 :
           r[k] = IF k < at THEN q[k] ELSE IF k = at THEN u ELSE q[k-1]
  BY InsertAtElements, Tasks
<1> HIDE DEF r
<1>7. ASSUME NEW k \in 1..Len(r), k # at
      PROVE  from(k) \in 1..Len(q) /\ r[k] = q[from(k)]
  BY <1>1, <1>6, <1>7
<1>8. r[at] = u /\ at \in 1..Len(r)
  BY <1>1, <1>6
<1>9. \A i, j \in 1..Len(r) : i # at /\ j # at /\ from(i) = from(j) => i = j
  BY <1>1, <1>6
<1> HIDE DEF from
<1>10. NotTwice(r, t)
  BY <1>7, <1>8, <1>9 DEF NotTwice, Holds
<1>11. Holds(r, t) => t = u \/ Holds(q, t)
  BY <1>7, <1>8 DEF Holds
<1> QED
  BY <1>5, <1>10, <1>11 DEF r

-----------------------------------------------------------------------------

\* The program of task t neither waits for events nor terminates, and nobody deletes
\* a signal that it registered.
Undisturbed(t) ==
  /\ "event_wait" \notin Calls[t] /\ "terminate" \notin Calls[t]
  /\ "signal_register" \in Calls[t] =>
       \A u \in UserTask : "signal_delete" \notin Calls[u]

Runs(t) == mode = "task" /\ nrk_cur_task = t

\* Then only the passes suspend it,
TimedOnly(t) ==
  /\ event_suspend[t] = 0
  /\ "signal_register" \notin Calls[t] => registered_signal_mask[t] = {}
  /\ op[t] \in WaitCall \cup {"none"}
  /\ pc[t] \in {"user", "section", "idle", "asleep", "check"}
  /\ task_state[t] \in {"UNUSED", "READY", "SUSPENDED"}
  /\ pc[t] = "user" => op[t] = "none"
  /\ pc[t] = "section" => Runs(t) /\ ~int_enabled /\ suspend_flag[t]
  /\ suspend_flag[t] => Runs(t) \/ task_state[t] = "SUSPENDED"

\* ... and it has one node at most, and none while it is suspended.
OnceQueued(t) ==
  /\ NotTwice(readyQ, t)
  /\ Holds(readyQ, t) \/ Runs(t) => task_state[t] = "READY"
  /\ mode = "boot" => (t >= task_ID => task_state[t] = "UNUSED")

TimedOK(t) == TimedOnly(t) /\ OnceQueued(t)

\* The types the steps below need.
LEMMA TimedTypes ==
  ASSUME IInv, NEW t \in UserTask
  PROVE  /\ t \in Task /\ t # Idle /\ Idle \in Task /\ Reserve[t] \in Nat
         /\ t \in 1..NumTasks /\ NumTasks \in Nat
         /\ readyQ \in Seq(Task) /\ IdleEnds(readyQ)
         /\ task_state \in [Task -> TaskState] /\ suspend_flag \in [Task -> BOOLEAN]
         /\ event_suspend \in [Task -> 0..3]
         /\ registered_signal_mask \in [Task -> SUBSET SignalBit]
         /\ cpu_remaining \in [Task -> Nat] /\ next_wakeup \in [Task -> Nat]
         /\ next_period \in [Task -> Nat] /\ num_periods \in [Task -> Nat \ {0}]
         /\ pc \in [Task -> PC] /\ op \in [Task -> BlockCall]
         /\ nrk_cur_task \in Task /\ task_ID \in 0..NumTasks+1
         /\ os_timer \in 0..TimerWrap-1 /\ ocr2a \in 0..TimerWrap-1
         /\ prev_timer_val \in Nat /\ next_wake \in Nat
BY Tasks, TaskAssumption
DEF UserTask, IInv, QueueOK, TaskTypeOK, TimingTypeOK, CallTypeOK, PassTypeOK,
    TimerTypeOK

\* A step that leaves alone all that TimedOK speaks of.
LEMMA TimedStays ==
  ASSUME NEW t \in UserTask, TimedOK(t),
         UNCHANGED <<mode, nrk_cur_task, readyQ, task_ID>>,
         task_state'[t] = task_state[t], suspend_flag'[t] = suspend_flag[t],
         event_suspend'[t] = event_suspend[t],
         registered_signal_mask'[t] = registered_signal_mask[t],
         op'[t] = op[t], pc'[t] = pc[t],
         pc[t] = "section" => int_enabled' = int_enabled
  PROVE  TimedOK(t)'
BY DEF TimedOK, TimedOnly, OnceQueued, Runs

\* The pass suspends the task that ran when it asked for it or has used its
\* reserve up, and then takes its node away.
LEMMA AccountTimed ==
  ASSUME IInv, NEW t \in UserTask, TimedOK(t), Account
  PROVE  /\ TimedOK(t)'
         /\ Holds(readyQ', t) => Holds(readyQ, t)
         /\ nrk_cur_task = t /\ Reserve[t] # 0 =>
              /\ cpu_remaining'[t] = Monus(cpu_remaining[t], prev_timer_val)
              /\ Holds(readyQ', t) => cpu_remaining'[t] # 0
         /\ nrk_cur_task # t => cpu_remaining'[t] = cpu_remaining[t]
<1> USE DEF Account, SchedBegin
<1>0. /\ t \in Task /\ t # Idle /\ Reserve[t] \in Nat
      /\ readyQ \in Seq(Task) /\ task_state \in [Task -> TaskState]
      /\ event_suspend \in [Task -> 0..3] /\ cpu_remaining \in [Task -> Nat]
      /\ pc \in [Task -> PC] /\ nrk_cur_task \in Task
      /\ prev_timer_val \in Nat
  BY TimedTypes
<1> DEFINE c == nrk_cur_task
           parks == suspend_flag[c] /\ task_state[c] # "FINISHED"
           parked == IF parks THEN ParkState(c) ELSE task_state[c]
           charged == Charged(c, parked)
           left == Monus(cpu_remaining[c], prev_timer_val)
           depleted == charged /\ left = 0
           queue == IF parks THEN RemFromReadyQ(readyQ, c) ELSE readyQ
<1>1. /\ mode = "task" /\ InterruptTaken /\ mode' = "scan"
      /\ UNCHANGED <<registered_signal_mask, op, nrk_cur_task, suspend_flag>>
      /\ task_state' = [task_state EXCEPT ![c] =
                          IF depleted THEN "SUSPENDED" ELSE parked]
      /\ cpu_remaining' = [cpu_remaining EXCEPT ![c] = IF charged THEN left ELSE @]
      /\ readyQ' = IF depleted THEN RemFromReadyQ(queue, c) ELSE queue
  OBVIOUS
<1>2. /\ event_suspend'[t] = 0
      /\ pc'[t] \in {"user", "section", "idle", "asleep", "check"}
      /\ pc'[t] \in {"user", "section"} => pc'[t] = pc[t]
  BY <1>0 DEF TimedOK, TimedOnly
<1>3. c = t =>
        /\ parked = (IF suspend_flag[t] THEN "SUSPENDED" ELSE task_state[t])
        /\ parks <=> suspend_flag[t]
        /\ charged <=> Reserve[t] # 0
  BY <1>0 DEF TimedOK, TimedOnly, ParkState, RSRC_EVENT, Charged
<1> HIDE DEF parks, parked, charged, left, depleted, queue
<1>4. /\ NotTwice(queue, t)
      /\ Holds(queue, t) => Holds(readyQ, t) /\ (c = t => ~parks)
      /\ queue \in Seq(Task)
  <2>1. CASE parks
    <3>1. c \in UserTask
      BY <1>0, <2>1, Tasks DEF parks, IInv, IdleSafe
    <3>2. RemFromReadyQ(readyQ, c) \in Seq(Task)
      BY <3>1, QueueAfterRem DEF IInv, QueueOK
    <3> QED
      BY <1>0, <2>1, <3>2, RemoveNode DEF queue, TimedOK, OnceQueued
  <2>2. CASE ~parks
    BY <1>0, <2>2 DEF queue, TimedOK, OnceQueued
  <2> QED
    BY <2>1, <2>2
<1>5. /\ NotTwice(readyQ', t)
      /\ Holds(readyQ', t) => Holds(readyQ, t) /\ (c = t => ~parks /\ ~depleted)
  BY <1>0, <1>1, <1>4, RemoveNode
<1>6. ~Runs(t)' /\ mode' # "boot"
  BY <1>1 DEF Runs
<1>7. task_state'[t] \in {"UNUSED", "READY", "SUSPENDED"}
      /\ (Holds(readyQ', t) => task_state'[t] = "READY")
  BY <1>0, <1>1, <1>3, <1>5 DEF TimedOK, TimedOnly, OnceQueued
<1>8. pc'[t] # "section"
  BY <1>1, <1>2 DEF InterruptTaken, TimedOK, TimedOnly
<1>9. suspend_flag'[t] => task_state'[t] = "SUSPENDED"
  BY <1>0, <1>1, <1>3 DEF TimedOK, TimedOnly, Runs
<1>10. TimedOnly(t)'
  BY <1>1, <1>2, <1>7, <1>8, <1>9 DEF TimedOK, TimedOnly
<1>11. OnceQueued(t)'
  BY <1>5, <1>6, <1>7 DEF OnceQueued
<1>12. c = t /\ Reserve[t] # 0 =>
         cpu_remaining'[t] = left /\ (left = 0 => depleted)
  BY <1>0, <1>1, <1>3 DEF depleted
<1>13. c # t => cpu_remaining'[t] = cpu_remaining[t]
  BY <1>0, <1>1
<1> QED
  BY <1>5, <1>10, <1>11, <1>12, <1>13 DEF TimedOK, left

\* The task whose turn it is in the loop is due.
Wakes(t) ==
  t = task_ID /\ task_state[t] = "SUSPENDED"
    /\ Monus(next_wakeup[t], prev_timer_val) = 0

\* The loop queues a task that is due, its periods counted, and gives whoever is
\* due its reserve.
LEMMA ReplenishTimed ==
  ASSUME IInv, NEW t \in UserTask, TimedOK(t), Replenish
  PROVE  /\ TimedOK(t)'
         /\ Holds(readyQ', t) => Holds(readyQ, t) \/ Wakes(t)
         /\ cpu_remaining'[t] = IF Wakes(t) THEN Reserve[t] ELSE cpu_remaining[t]
         /\ used'[t] = IF Wakes(t) THEN 0 ELSE used[t]
<1> USE DEF Replenish, SchedScan
<1>0. /\ t \in Task /\ t # Idle
      /\ readyQ \in Seq(Task) /\ task_state \in [Task -> TaskState]
      /\ event_suspend \in [Task -> 0..3] /\ cpu_remaining \in [Task -> Nat]
      /\ pc \in [Task -> PC] /\ IdleEnds(readyQ)
      /\ suspend_flag \in [Task -> BOOLEAN]
  BY TimedTypes
<1> DEFINE c == task_ID
           nw == IF c # Idle /\ task_state[c] # "FINISHED"
                 THEN Monus(next_wakeup[c], prev_timer_val) ELSE next_wakeup[c]
           wakes == task_state[c] = "SUSPENDED" /\ nw = 0
           runs == wakes /\ num_periods[c] = 1
<1>1. /\ mode = "scan" /\ c \in Task /\ mode' \in {"scan", "dispatch"}
      /\ UNCHANGED <<registered_signal_mask, op, pc, nrk_cur_task>>
      /\ suspend_flag' = [suspend_flag EXCEPT ![c] = FALSE]
      /\ event_suspend' = [event_suspend EXCEPT ![c] = OnWakeup(wakes, @, 0)]
      /\ task_state' = [task_state EXCEPT ![c] = IF runs THEN "READY" ELSE @]
      /\ cpu_remaining' =
           [cpu_remaining EXCEPT ![c] = OnWakeup(wakes, @, Reserve[c])]
      /\ readyQ' = IF runs
                   THEN AddToReadyQ(readyQ, c, Prio, elevated_prio_flag,
                                    task_prio_ceil)
                   ELSE readyQ
  OBVIOUS
<1>2. used'[t] = IF Wakes(t) THEN 0 ELSE used[t]
  BY <1>0 DEF Wakes
<1>3. runs => wakes /\ c \in UserTask
  <2>1. task_state[Idle] = "READY"
    BY DEF IInv, IdleSafe
  <2> QED
    BY <1>1, <2>1, Tasks
<1>4. /\ wakes => task_state[c] = "SUSPENDED"
      /\ c = t => (wakes <=> Wakes(t))
  BY <1>0 DEF Wakes
<1> HIDE DEF wakes, runs
<1>5. ~Runs(t) /\ ~Runs(t)' /\ mode' # "boot"
  BY <1>1 DEF Runs
<1>6. TimedOnly(t)'
  <2>1. pc[t] # "section" /\ (suspend_flag'[t] => suspend_flag[t] /\ c # t)
    BY <1>0, <1>1, <1>5 DEF TimedOK, TimedOnly
  <2>2. suspend_flag'[t] => task_state'[t] = "SUSPENDED"
    BY <1>0, <1>1, <1>5, <2>1 DEF TimedOK, TimedOnly
  <2> QED
    BY <1>0, <1>1, <2>1, <2>2 DEF TimedOK, TimedOnly, OnWakeup
<1>7. /\ NotTwice(readyQ', t)
      /\ Holds(readyQ', t) => Holds(readyQ, t) \/ (c = t /\ runs)
  <2>1. NotTwice(readyQ, t) /\ (Holds(readyQ, t) => task_state[t] = "READY")
    BY DEF TimedOK, OnceQueued
  <2>2. CASE runs
    <3>1. c \in UserTask /\ (c = t => ~Holds(readyQ, t))
      BY <1>3, <1>4, <2>1, <2>2
    <3> QED
      BY <1>0, <1>1, <2>1, <2>2, <3>1, AddNode
  <2>3. CASE ~runs
    BY <1>1, <2>1, <2>3
  <2> QED
    BY <2>2, <2>3
<1>8. Holds(readyQ', t) => task_state'[t] = "READY"
  BY <1>0, <1>1, <1>7 DEF TimedOK, OnceQueued
<1>9. OnceQueued(t)'
  BY <1>5, <1>7, <1>8 DEF OnceQueued
<1>10. cpu_remaining'[t] = IF Wakes(t) THEN Reserve[t] ELSE cpu_remaining[t]
  BY <1>0, <1>1, <1>4 DEF OnWakeup, Wakes
<1> QED
  BY <1>2, <1>3, <1>4, <1>6, <1>7, <1>9, <1>10 DEF TimedOK

\* A task with a node runs next when it is at the head of the queue.
LEMMA DispatchTimed ==
  ASSUME IInv, NEW t \in UserTask, TimedOK(t), SchedDispatch
  PROVE  /\ TimedOK(t)'
         /\ Runs(t)' => Holds(readyQ, t)
<1> USE DEF SchedDispatch
<1>0. readyQ \in Seq(Task) /\ readyQ # <<>>
  BY TimedTypes DEF IdleEnds
<1>1. /\ mode = "dispatch" /\ mode' = "task" /\ nrk_cur_task' = Head(readyQ)
      /\ UNCHANGED <<readyQ, task_state, suspend_flag, event_suspend,
                     registered_signal_mask, op, pc>>
  OBVIOUS
<1>2. ~Runs(t)
  BY <1>1 DEF Runs
<1>3. Runs(t)' => Holds(readyQ, t)
  BY <1>0, <1>1 DEF Runs, Holds
<1>4. TimedOnly(t)'
  BY <1>1, <1>2 DEF TimedOK, TimedOnly
<1>5. OnceQueued(t)'
  BY <1>1, <1>3 DEF TimedOK, OnceQueued
<1> QED
  BY <1>3, <1>4, <1>5 DEF TimedOK

\* Boot.
LEMMA StartTimed ==
  ASSUME IInv, NEW t \in UserTask, TimedOK(t), Start
  PROVE  TimedOK(t)'
<1> USE DEF Start
<1>0. readyQ \in Seq(Task) /\ readyQ # <<>>
  BY TimedTypes DEF IdleEnds
<1>1. /\ mode = "boot" /\ mode' = "task" /\ nrk_cur_task' = Head(readyQ)
      /\ UNCHANGED <<readyQ, task_state, suspend_flag, event_suspend,
                     registered_signal_mask, op, pc>>
  OBVIOUS
<1>2. ~Runs(t) /\ (Runs(t)' => Holds(readyQ, t))
  BY <1>0, <1>1 DEF Runs, Holds
<1>3. TimedOnly(t)'
  BY <1>1, <1>2 DEF TimedOK, TimedOnly
<1>4. OnceQueued(t)'
  BY <1>1, <1>2 DEF TimedOK, OnceQueued
<1> QED
  BY <1>3, <1>4 DEF TimedOK

LEMMA ActivateTimed ==
  ASSUME IInv, NEW t \in UserTask, TimedOK(t), NEW u \in UserTask, Activate(u)
  PROVE  /\ TimedOK(t)'
         /\ Holds(readyQ', t) => Holds(readyQ, t) \/ u = t
<1>0. /\ t \in Task /\ t # Idle
      /\ readyQ \in Seq(Task) /\ task_state \in [Task -> TaskState]
      /\ suspend_flag \in [Task -> BOOLEAN] /\ IdleEnds(readyQ)
      /\ t \in 1..NumTasks /\ NumTasks \in Nat /\ task_ID \in 0..NumTasks+1
  BY TimedTypes
<1>1. /\ mode = "boot" /\ mode' = "boot" /\ task_ID = u /\ task_ID' = u + 1
      /\ UNCHANGED <<event_suspend, registered_signal_mask, op, pc>>
      /\ suspend_flag' = [suspend_flag EXCEPT ![u] = FALSE]
      /\ task_state' = [task_state EXCEPT ![u] =
                          IF Offset[u] = 0 THEN "READY" ELSE "SUSPENDED"]
      /\ readyQ' = IF Offset[u] = 0
                   THEN AddToReadyQ(readyQ, u, Prio, elevated_prio_flag,
                                    task_prio_ceil)
                   ELSE readyQ
  BY DEF Activate
<1>2. ~Runs(t) /\ ~Runs(t)'
  BY <1>1 DEF Runs
<1>3. u = t => ~Holds(readyQ, t)
  BY <1>0, <1>1 DEF TimedOK, OnceQueued
<1>4. /\ NotTwice(readyQ', t)
      /\ Holds(readyQ', t) => Holds(readyQ, t) \/ (u = t /\ Offset[u] = 0)
  BY <1>0, <1>1, <1>3, AddNode DEF TimedOK, OnceQueued
<1>5. TimedOnly(t)'
  BY <1>0, <1>1, <1>2 DEF TimedOK, TimedOnly
<1>6. t >= task_ID' => t # u /\ t >= task_ID
  BY <1>0, <1>1
<1>7. OnceQueued(t)'
  BY <1>0, <1>1, <1>2, <1>4, <1>6 DEF TimedOK, OnceQueued
<1> QED
  BY <1>4, <1>5, <1>7 DEF TimedOK

\* The wait of a task, its own or another's.
LEMMA BeginWaitTimed ==
  ASSUME IInv, NEW t \in UserTask, TimedOK(t),
         NEW u \in UserTask, NEW p, At(u, p), p # "section",
         NEW call, NEW n, BeginWait(u, call, n), u = t => call \in WaitCall
  PROVE  TimedOK(t)'
<1>0. /\ t \in Task /\ pc \in [Task -> PC] /\ op \in [Task -> BlockCall]
      /\ suspend_flag \in [Task -> BOOLEAN]
  BY TimedTypes
<1>1. /\ UNCHANGED <<mode, nrk_cur_task, readyQ, task_state, event_suspend,
                     registered_signal_mask, task_ID>>
      /\ pc' = [pc EXCEPT ![u] = "section"] /\ op' = [op EXCEPT ![u] = call]
      /\ suspend_flag' = [suspend_flag EXCEPT ![u] = TRUE]
      /\ int_enabled' = FALSE
  BY DEF BeginWait
<1>2. mode = "task" /\ nrk_cur_task = u
  BY DEF At
<1>3. CASE u = t
  <2>1. TimedOnly(t)'
    BY <1>0, <1>1, <1>2, <1>3 DEF TimedOK, TimedOnly, Runs
  <2> QED
    BY <1>1, <2>1 DEF TimedOK, OnceQueued, Runs
<1>4. CASE u # t
  <2>1. pc[t] # "section"
    BY <1>2, <1>4 DEF TimedOK, TimedOnly, Runs
  <2> QED
    BY <1>0, <1>1, <1>4, <2>1, TimedStays
<1> QED
  BY <1>3, <1>4

LEMMA WaitTimed ==
  ASSUME IInv, NEW t \in UserTask, TimedOK(t),
         NEW u \in UserTask, Wait(u) \/ BlockingWait(u)
  PROVE  TimedOK(t)'
<1>1. CASE Wait(u)
  BY <1>1, BeginWaitTimed DEF Wait, MayCall
<1>2. CASE BlockingWait(u)
  <2>1. u # t
    BY <1>2 DEF BlockingWait, At, TimedOK, TimedOnly
  <2> QED
    BY <1>2, <2>1, BeginWaitTimed DEF BlockingWait
<1> QED
  BY <1>1, <1>2

LEMMA ArmWaitTimed ==
  ASSUME IInv, NEW t \in UserTask, TimedOK(t), NEW u \in UserTask, ArmWait(u)
  PROVE  TimedOK(t)'
<1>0. t \in Task /\ pc \in [Task -> PC]
  BY TimedTypes
<1>1. /\ UNCHANGED <<mode, nrk_cur_task, readyQ, task_state, event_suspend,
                     registered_signal_mask, task_ID, op, suspend_flag>>
      /\ pc' = [pc EXCEPT ![u] = "idle"]
      /\ mode = "task" /\ nrk_cur_task = u /\ pc[u] = "section"
  BY DEF ArmWait
<1>2. CASE u = t
  <2>1. op[t] \in WaitCall \cup {"none"} /\ pc'[t] = "idle"
    BY <1>0, <1>1, <1>2 DEF TimedOK, TimedOnly
  <2>2. TimedOnly(t)'
    BY <1>1, <1>2, <2>1 DEF TimedOK, TimedOnly, Runs
  <2> QED
    BY <1>1, <2>2 DEF TimedOK, OnceQueued, Runs
<1>3. CASE u # t
  <2>1. pc[t] # "section"
    BY <1>1, <1>3 DEF TimedOK, TimedOnly, Runs
  <2> QED
    BY <1>0, <1>1, <1>3, <2>1, TimedStays
<1> QED
  BY <1>2, <1>3

LEMMA IdleTimed ==
  ASSUME IInv, NEW t \in UserTask, TimedOK(t), IdleTask
  PROVE  TimedOK(t)'
<1>0. t \in Task /\ t # Idle /\ pc \in [Task -> PC]
  BY TimedTypes
<1> QED
  BY <1>0, TimedStays DEF IdleTask

\* The other steps of the tasks: a signal finds no such task waiting.
LEMMA CallTimed ==
  ASSUME IInv, NEW t \in UserTask, Undisturbed(t), TimedOK(t), NEW u \in UserTask,
         \/ EnterIdle(u) \/ CheckFlag(u) \/ TerminateFinish(u) \/ SemTakeLoad(u)
         \/ TaskCall(u) /\ ~Wait(u)
  PROVE  /\ TimedOK(t)'
         /\ Holds(readyQ', t) => Holds(readyQ, t)
<1>0. /\ t \in Task /\ u \in Task /\ pc \in [Task -> PC] /\ op \in [Task -> BlockCall]
      /\ readyQ \in Seq(Task) /\ task_state \in [Task -> TaskState]
      /\ event_suspend \in [Task -> 0..3]
      /\ registered_signal_mask \in [Task -> SUBSET SignalBit]
  BY TimedTypes, Tasks
<1>1. UNCHANGED <<mode, nrk_cur_task, task_ID, suspend_flag>>
  BY DEF EnterIdle, CheckFlag, TerminateFinish, SemTakeLoad, TaskCall,
         SetNextWakeupCall, TerminateRemove, SignalCreate, SignalDelete,
         SignalRegister, SignalUnregister, EventSignal, EventWait, RaiseSignal
<1>2. pc[t] # "section"
  <2>1. Runs(u) /\ pc[u] # "section"
    BY DEF EnterIdle, CheckFlag, TerminateFinish, SemTakeLoad, TaskCall,
           SetNextWakeupCall, TerminateRemove, SignalCreate, SignalDelete,
           SignalRegister, SignalUnregister, EventSignal, EventWait, MayCall, At,
           Runs
  <2> QED
    BY <2>1 DEF TimedOK, TimedOnly, Runs
<1>3. TimedOnly(t)
  BY DEF TimedOK
<1>4. CASE TerminateRemove(u)
  <2>1. u # t
    BY <1>4 DEF TerminateRemove, MayCall, Undisturbed
  <2>2. /\ readyQ' = RemFromReadyQ(readyQ, u) /\ pc'[t] = pc[t]
        /\ UNCHANGED <<task_state, event_suspend, registered_signal_mask, op>>
    BY <1>0, <1>4, <2>1 DEF TerminateRemove
  <2>3. TimedOnly(t)'
    BY <1>1, <1>2, <1>3, <2>2 DEF TimedOnly, Runs
  <2>4. NotTwice(readyQ', t) /\ (Holds(readyQ', t) => Holds(readyQ, t))
    BY <1>0, <2>2, RemoveNode DEF TimedOK, OnceQueued
  <2>5. OnceQueued(t)'
    BY <1>1, <2>2, <2>4 DEF TimedOK, OnceQueued, Runs
  <2> QED
    BY <2>3, <2>4, <2>5 DEF TimedOK
<1>5. CASE EnterIdle(u) \/ CheckFlag(u)
  <2>1. /\ UNCHANGED <<readyQ, event_suspend, registered_signal_mask, task_state>>
        /\ op'[t] \in WaitCall \cup {"none"}
        /\ pc'[t] \in {"user", "idle", "asleep", "check"}
        /\ pc'[t] = "user" => op'[t] = "none"
    <3>1. CASE EnterIdle(u)
      BY <1>0, <1>2, <1>3, <3>1 DEF EnterIdle, TimedOnly
    <3>2. CASE CheckFlag(u)
      BY <1>0, <1>2, <1>3, <3>2 DEF CheckFlag, Return, TimedOnly, WaitCall
    <3> QED
      BY <1>5, <3>1, <3>2
  <2>2. TimedOnly(t)'
    BY <1>1, <1>3, <2>1 DEF TimedOnly, Runs
  <2>3. OnceQueued(t)'
    BY <1>1, <2>1 DEF TimedOK, OnceQueued, Runs
  <2> QED
    BY <2>1, <2>2, <2>3 DEF TimedOK
<1>6. CASE TerminateFinish(u) \/ SemTakeLoad(u)
  <2>1. u # t
    BY <1>3, <1>6 DEF TerminateFinish, SemTakeLoad, At, TimedOnly
  <2>2. /\ UNCHANGED <<readyQ, event_suspend, registered_signal_mask>>
        /\ task_state'[t] = task_state[t] /\ op'[t] = op[t] /\ pc'[t] = pc[t]
    BY <1>0, <1>6, <2>1 DEF TerminateFinish, SemTakeLoad
  <2> QED
    BY <1>1, <1>2, <2>2, TimedStays
<1>7. CASE \/ SetNextWakeupCall(u) \/ SignalCreate(u) \/ SignalRegister(u)
           \/ SignalUnregister(u)
  <2>1. /\ UNCHANGED <<readyQ, event_suspend, task_state, op, pc>>
        /\ registered_signal_mask'[t] # registered_signal_mask[t] =>
             "signal_register" \in Calls[t] \/ registered_signal_mask[t] # {}
    BY <1>0, <1>7
    DEF SetNextWakeupCall, SignalCreate, SignalRegister, SignalUnregister, MayCall
  <2>2. TimedOnly(t)'
    BY <1>1, <1>2, <1>3, <2>1 DEF TimedOnly, Runs
  <2>3. OnceQueued(t)'
    BY <1>1, <2>1 DEF TimedOK, OnceQueued, Runs
  <2> QED
    BY <2>1, <2>2, <2>3 DEF TimedOK
<1>8. CASE SignalDelete(u)
  <2>1. PICK s \in Signals :
          LET waiters == {v \in Task : registered_signal_mask[v] = {s}} IN
          /\ "signal_delete" \in Calls[u]
          /\ event_suspend' = Unblocked(waiters)
          /\ task_state' = Resumed(waiters)
          /\ registered_signal_mask' =
               [v \in Task |-> registered_signal_mask[v] \ {s}]
          /\ UNCHANGED <<readyQ, op, pc>>
    BY <1>8 DEF SignalDelete, MayCall
  <2>2. registered_signal_mask[t] = {}
    BY <1>3, <2>1 DEF TimedOnly, Undisturbed
  <2>3. /\ event_suspend'[t] = event_suspend[t] /\ task_state'[t] = task_state[t]
        /\ registered_signal_mask'[t] = registered_signal_mask[t]
    BY <1>0, <2>1, <2>2 DEF Unblocked, Resumed
  <2> QED
    BY <1>1, <1>2, <2>1, <2>3, TimedStays
<1>9. CASE EventSignal(u)
  <2>1. PICK s : RaiseSignal(s) /\ UNCHANGED callVars
    BY <1>9 DEF EventSignal
  <2>2. t \notin SignalWaiters(s) \cup SemWaitersTakenFor(s)
    BY <1>3 DEF TimedOnly, SignalWaiters, SemWaitersTakenFor, SIG_EVENT, RSRC_EVENT
  <2>3. /\ event_suspend'[t] = event_suspend[t] /\ task_state'[t] = task_state[t]
        /\ UNCHANGED <<registered_signal_mask, readyQ, op, pc>>
    BY <1>0, <2>1, <2>2 DEF RaiseSignal, Unblocked, Resumed
  <2> QED
    BY <1>1, <1>2, <2>3, TimedStays
<1>10. CASE EventWait(u)
  <2>1. u # t
    BY <1>10 DEF EventWait, MayCall, Undisturbed
  <2>2. /\ UNCHANGED <<readyQ, task_state, registered_signal_mask>>
        /\ event_suspend'[t] = event_suspend[t] /\ op'[t] = op[t] /\ pc'[t] = pc[t]
    BY <1>0, <1>10, <2>1 DEF EventWait
  <2> QED
    BY <1>1, <1>2, <2>2, TimedStays
<1> QED
  BY <1>4, <1>5, <1>6, <1>7, <1>8, <1>9, <1>10 DEF TaskCall

LEMMA TimedInit ==
  ASSUME AccountingInit, NEW t \in UserTask
  PROVE  TimedOK(t) /\ ~Holds(readyQ, t)
<1>1. t \in Task /\ t # Idle /\ readyQ = <<Idle>>
  <2>1. 0 < QueueSlots
    BY QueueSlotsAssumption
  <2> QED
    BY <2>1, Tasks, TaskAssumption, QueueSlotsAssumption
    DEF AccountingInit, Init, AddToReadyQ
<1>2. NotTwice(readyQ, t) /\ ~Holds(readyQ, t)
  <2>1. Len(readyQ) = 1 /\ readyQ[1] # t
    BY <1>1
  <2> QED
    BY <2>1 DEF NotTwice, Holds
<1>3. TimedOnly(t)
  BY <1>1 DEF AccountingInit, Init, TimedOnly
<1>4. task_state[t] = "UNUSED" /\ ~Runs(t)
  BY <1>1 DEF AccountingInit, Init, Runs
<1> QED
  BY <1>2, <1>3, <1>4 DEF TimedOK, OnceQueued

\* All steps together.
LEMMA TimedStep ==
  ASSUME IInv, NEW t \in UserTask, Undisturbed(t), TimedOK(t),
         [AccountingNext]_accountingVars
  PROVE  TimedOK(t)'
<1>1. CASE Elapse
  BY <1>1, TimedStays DEF Elapse, Tick
<1>2. CASE Account
  BY <1>2, AccountTimed
<1>3. CASE Replenish
  BY <1>3, ReplenishTimed
<1>4. CASE SchedDispatch
  BY <1>4, DispatchTimed
<1>5. CASE Start
  BY <1>5, StartTimed
<1>6. ASSUME NEW u \in UserTask, Activate(u)
      PROVE  TimedOK(t)'
  BY <1>6, ActivateTimed
<1>7. CASE IdleTask
  BY <1>7, IdleTimed
<1>8. ASSUME NEW u \in UserTask, Wait(u) \/ BlockingWait(u)
      PROVE  TimedOK(t)'
  BY <1>8, WaitTimed
<1>9. ASSUME NEW u \in UserTask, ArmWait(u)
      PROVE  TimedOK(t)'
  BY <1>9, ArmWaitTimed
<1>10. ASSUME NEW u \in UserTask,
              \/ EnterIdle(u) \/ CheckFlag(u) \/ TerminateFinish(u)
              \/ SemTakeLoad(u)
              \/ TaskCall(u) /\ ~Wait(u)
       PROVE  TimedOK(t)'
  BY <1>10, CallTimed
<1>11. CASE UNCHANGED accountingVars
  BY <1>11, TimedStays DEF accountingVars
<1> QED
  BY <1>1, <1>2, <1>3, <1>4, <1>5, <1>6, <1>7, <1>8, <1>9, <1>10, <1>11
  DEF AccountingNext, InWait

-----------------------------------------------------------------------------

\* Whoever has a reserve waits for time only, and does not terminate: a pass that
\* finds the reserve used up inside nrk_event_wait or nrk_terminate_task suspends
\* the task on its way out of the queue.  TIME_PAD is not longer than the lateness
\* of a pass.
ReserveRespected ==
  /\ \A t \in UserTask : Reserve[t] # 0 => Undisturbed(t)
  /\ TimePad <= Lateness

\* What a task has used and what it has left are its reserve, up to what the next
\* pass will charge to it; and a task in the queue has something left.
Balance(t) ==
  /\ used[t] \in Nat /\ used[t] <= Reserve[t] + Lateness
  /\ mode = "boot" => used[t] = 0
  /\ cpu_remaining[t] <= Reserve[t]
  /\ Holds(readyQ, t) /\ ~Runs(t) => cpu_remaining[t] # 0
  /\ ~Runs(t) =>
       cpu_remaining[t] = 0 \/ used[t] + cpu_remaining[t] <= Reserve[t]
  /\ Runs(t) /\ prev_timer_val = 0 => used[t] = 0
  /\ Runs(t) /\ prev_timer_val # 0 /\ ~compare_irq =>
       /\ used[t] + cpu_remaining[t] <= Reserve[t] + os_timer
       /\ used[t] + (ocr2a + 1) <= Reserve[t] + Lateness + os_timer
  /\ Runs(t) /\ prev_timer_val # 0 /\ compare_irq =>
       used[t] + cpu_remaining[t] <= Reserve[t] + prev_timer_val

BudgetInv == \A t \in UserTask : Reserve[t] # 0 => TimedOK(t) /\ Balance(t)

\* A step that leaves the time, the budget and the nodes of the task alone.
LEMMA BalanceStays ==
  ASSUME NEW t \in UserTask, Balance(t),
         UNCHANGED <<used, mode, nrk_cur_task, os_timer, ocr2a, compare_irq,
                     prev_timer_val>>,
         Holds(readyQ', t) => Holds(readyQ, t),
         cpu_remaining'[t] = cpu_remaining[t]
  PROVE  Balance(t)'
BY DEF Balance, Runs

\* A tick goes by in the task that runs, before its compare match.
LEMMA ElapseBudget ==
  ASSUME SectionTicks = 0, ClockInv, TimerInv, IInv,
         NEW t \in UserTask, Balance(t), Elapse
  PROVE  Balance(t)'
<1> USE DEF Elapse, Tick
<1>0. /\ t \in Task /\ t # Idle /\ Reserve[t] \in Nat
      /\ os_timer \in 0..TimerWrap-1 /\ ocr2a \in 0..TimerWrap-1
      /\ prev_timer_val \in Nat /\ cpu_remaining[t] \in Nat
  BY TimedTypes
<1>1. UNCHANGED <<mode, nrk_cur_task, prev_timer_val, ocr2a, cpu_remaining,
                  readyQ>>
  OBVIOUS
<1>2. mode = "task" /\ ~InShortSection
  <2>1. section_ticks = 0
    BY Times DEF IInv, TimerTypeOK
  <2> QED
    BY <2>1 DEF InShortSection
<1>3. CASE ~Runs(t) \/ prev_timer_val = 0
  <2>1. used'[t] = used[t]
    BY <1>0, <1>2, <1>3 DEF Runs
  <2> QED
    BY <1>1, <1>2, <1>3, <2>1 DEF Balance, Runs
<1>4. CASE Runs(t) /\ prev_timer_val # 0
  <2>1. used[t] \in Nat /\ used'[t] \in Nat /\ used'[t] <= used[t] + 1
    <3>1. used'[t] = Least(used[t] + 1, UsedBound(t)) \/ used'[t] = used[t]
      OBVIOUS
    <3> QED
      BY <1>0, <3>1 DEF Least, UsedBound, Lateness, Balance
  <2>2. ~compare_irq
    <3>1. int_enabled
      BY <1>2 DEF TimerInv, SectionOnly, InShortSection
    <3>2. cpu_state = "ACTIVE"
      BY <1>0, <1>4 DEF Runs, ClockInv, SleepIsLong
    <3> QED
      BY <1>2, <3>1, <3>2 DEF InterruptTaken, WakingUp
  <2>3. prev_timer_val = ocr2a + 1 /\ os_timer <= ocr2a
    BY <1>2, <1>4, <2>2
    DEF ClockInv, CycleIsCharged, TimerInv, CompareAhead, Live
  <2>4. /\ used[t] + cpu_remaining[t] <= Reserve[t] + os_timer
        /\ used[t] + (ocr2a + 1) <= Reserve[t] + Lateness + os_timer
        /\ cpu_remaining[t] <= Reserve[t]
    BY <1>4, <2>2 DEF Balance
  <2>5. Runs(t)' /\ mode' # "boot"
    BY <1>1, <1>2, <1>4 DEF Runs
  <2>6. CASE os_timer = ocr2a
    <3>1. os_timer' = 0 /\ compare_irq'
      BY <2>6
    <3>2. used'[t] + cpu_remaining[t] <= Reserve[t] + prev_timer_val
          /\ used'[t] <= Reserve[t] + Lateness
      BY <1>0, <2>1, <2>3, <2>4, <2>6 DEF Lateness
    <3> QED
      BY <1>1, <1>4, <2>1, <2>4, <2>5, <3>1, <3>2 DEF Balance
  <2>7. CASE os_timer # ocr2a
    <3>1. os_timer + 1 \in 0..TimerWrap-1
      BY <1>0, <2>3, <2>7, Times
    <3>2. os_timer' = os_timer + 1 /\ compare_irq' = compare_irq
      BY <2>7, <3>1, Times, ModSmall
    <3>3. /\ used'[t] + cpu_remaining[t] <= Reserve[t] + os_timer'
          /\ used'[t] + (ocr2a + 1) <= Reserve[t] + Lateness + os_timer'
          /\ used'[t] <= Reserve[t] + Lateness
      BY <1>0, <2>1, <2>3, <2>4, <2>7, <3>2 DEF Lateness
    <3> QED
      BY <1>1, <1>4, <2>1, <2>2, <2>4, <2>5, <3>2, <3>3 DEF Balance
  <2> QED
    BY <2>6, <2>7
<1> QED
  BY <1>3, <1>4

\* The pass charges the task that ran.
LEMMA AccountBudget ==
  ASSUME IInv, NEW t \in UserTask, Reserve[t] # 0, TimedOK(t), Balance(t), Account
  PROVE  Balance(t)'
<1>0. /\ Reserve[t] \in Nat /\ cpu_remaining[t] \in Nat /\ prev_timer_val \in Nat
  BY TimedTypes
<1>1. mode = "task" /\ mode' = "scan" /\ used' = used /\ compare_irq
  BY DEF Account, SchedBegin, InterruptTaken
<1>2. ~Runs(t)' /\ mode' # "boot"
  BY <1>1 DEF Runs
<1>3. CASE nrk_cur_task # t
  <2>1. ~Runs(t) /\ cpu_remaining'[t] = cpu_remaining[t]
        /\ (Holds(readyQ', t) => Holds(readyQ, t))
    BY <1>3, AccountTimed DEF Runs
  <2> QED
    BY <1>1, <1>2, <2>1 DEF Balance
<1>4. CASE nrk_cur_task = t
  <2> DEFINE left == Monus(cpu_remaining[t], prev_timer_val)
  <2>1. Runs(t) /\ cpu_remaining'[t] = left
        /\ (Holds(readyQ', t) => left # 0)
    BY <1>1, <1>4, AccountTimed DEF Runs
  <2>2. left = 0 \/ used[t] + left <= Reserve[t]
    BY <1>0, <1>1, <2>1 DEF Balance, Monus
  <2>3. left <= cpu_remaining[t] /\ left \in Nat
    BY <1>0 DEF Monus
  <2> HIDE DEF left
  <2> QED
    BY <1>0, <1>1, <1>2, <2>1, <2>2, <2>3 DEF Balance
<1> QED
  BY <1>3, <1>4

\* The loop gives a task its reserve back when it counts anew.
LEMMA ReplenishBudget ==
  ASSUME IInv, NEW t \in UserTask, Reserve[t] # 0, TimedOK(t), Balance(t), Replenish
  PROVE  Balance(t)'
<1>0. Reserve[t] \in Nat
  BY TimedTypes
<1>1. ~Runs(t) /\ ~Runs(t)' /\ mode' # "boot"
  BY DEF Replenish, SchedScan, Runs
<1>2. /\ Holds(readyQ', t) => Holds(readyQ, t) \/ Wakes(t)
      /\ cpu_remaining'[t] = IF Wakes(t) THEN Reserve[t] ELSE cpu_remaining[t]
      /\ used'[t] = IF Wakes(t) THEN 0 ELSE used[t]
  BY ReplenishTimed
<1> QED
  BY <1>0, <1>1, <1>2 DEF Balance, Lateness

\* The next pass comes when the reserve of the task that runs ends, or in two
\* ticks when that is too soon.
LEMMA DispatchBudget ==
  ASSUME ClockInv, TimerInv, IInv, SectionTicks = 0,
         NEW t \in UserTask, Reserve[t] # 0, TimedOK(t), Balance(t),
         SchedDispatch, UNCHANGED used
  PROVE  Balance(t)'
<1> USE DEF SchedDispatch
<1> DEFINE due == TaskWakeup(Head(readyQ), next_wake)
           at == NextPass(due)
<1>0. /\ t \in Task /\ t # Idle /\ Reserve[t] \in Nat
      /\ os_timer \in Nat /\ next_wake \in Nat /\ cpu_remaining[t] \in Nat
  BY TimedTypes
<1>1. due \in Nat /\ due <= MaxWakeup
  BY IdleHead, TaskWakeupType, WakeupBound DEF IInv, PassTypeOK
<1>2. os_timer + 1 <= MaxWakeup
  BY <1>0, Times, TimerOrder DEF TimerInv, PassTimer, IInv, TimerTypeOK
<1>3. at \in 1..TimerWrap-1
  <2> HIDE DEF due
  <2> QED
    BY <1>0, <1>1, <1>2, Times, TimerOrder DEF NextPass
<1>4. prev_timer_val' = at /\ ocr2a' = at - 1
  <2>1. /\ ocr2a' = (at + TimerWrap - 1) % TimerWrap
        /\ prev_timer_val' = at % TimerWrap
    BY DEF SetNextWakeup
  <2>2. \A a \in 1..TimerWrap-1 :
          (a + TimerWrap - 1) % TimerWrap = a - 1 /\ a % TimerWrap = a
    BY Times, ModShift, ModSmall
  <2> HIDE DEF at
  <2> QED
    BY <1>3, <2>1, <2>2
<1>5. /\ mode = "dispatch" /\ mode' = "task" /\ nrk_cur_task' = Head(readyQ)
      /\ UNCHANGED <<os_timer, compare_irq, cpu_remaining, used, readyQ>>
  OBVIOUS
<1>6. ~compare_irq /\ ~Runs(t)
  BY <1>5 DEF TimerInv, PassTimer, Runs
<1>7. CASE Head(readyQ) # t
  BY <1>5, <1>6, <1>7 DEF Balance, Runs
<1>8. CASE Head(readyQ) = t
  <2>1. Holds(readyQ, t) /\ Runs(t)'
    BY <1>5, <1>8, DispatchTimed DEF Runs
  <2>2. /\ cpu_remaining[t] # 0 /\ used[t] + cpu_remaining[t] <= Reserve[t]
        /\ used[t] \in Nat
    BY <1>6, <2>1 DEF Balance
  <2>3. due <= cpu_remaining[t]
    BY <1>0, <1>8, Times DEF TaskWakeup, Least
  <2> HIDE DEF due
  <2>4. at = os_timer + 2 \/ at = due
    BY DEF NextPass
  <2> HIDE DEF at
  <2>5. ocr2a' + 1 = at /\ prev_timer_val' # 0
    BY <1>3, <1>4, Times
  <2>6. /\ used[t] + cpu_remaining[t] <= Reserve[t] + os_timer
        /\ used[t] + (ocr2a' + 1) <= Reserve[t] + Lateness + os_timer
        /\ used[t] <= Reserve[t] + Lateness
    BY <1>0, <1>1, <2>2, <2>3, <2>4, <2>5 DEF Lateness
  <2> QED
    BY <1>5, <1>6, <2>1, <2>2, <2>5, <2>6 DEF Balance
<1> QED
  BY <1>7, <1>8

\* Boot gives every task its reserve.
LEMMA BootBudget ==
  ASSUME IInv, NEW t \in UserTask, Reserve[t] # 0, TimedOK(t), Balance(t),
         UNCHANGED used, Start \/ \E u \in UserTask : Activate(u)
  PROVE  Balance(t)'
<1>0. t \in Task /\ Reserve[t] \in Nat /\ cpu_remaining \in [Task -> Nat]
  BY TimedTypes
<1>1. CASE Start
  <2>1. mode = "boot" /\ mode' = "task" /\ prev_timer_val' = 0
        /\ UNCHANGED <<cpu_remaining, readyQ>>
    BY <1>1 DEF Start
  <2> QED
    BY <2>1 DEF Balance, Runs
<1>2. ASSUME NEW u \in UserTask, Activate(u)
      PROVE  Balance(t)'
  <2>1. /\ mode = "boot" /\ mode' = "boot"
        /\ cpu_remaining' = [cpu_remaining EXCEPT ![u] = Reserve[u]]
    BY <1>2 DEF Activate
  <2>2. Holds(readyQ', t) => Holds(readyQ, t) \/ u = t
    BY <1>2, ActivateTimed
  <2>3. ~Runs(t) /\ ~Runs(t)' /\ used[t] = 0
    BY <2>1 DEF Runs, Balance
  <2>4. cpu_remaining'[t] = IF u = t THEN Reserve[t] ELSE cpu_remaining[t]
    BY <1>0, <2>1
  <2> QED
    BY <1>0, <2>1, <2>2, <2>3, <2>4 DEF Balance
<1> QED
  BY <1>1, <1>2

\* A wait that brings the next pass forward has it charge only that time.
LEMMA ArmWaitBudget ==
  ASSUME TimePad <= Lateness, ClockInv, IInv, NEW t \in UserTask, Reserve[t] # 0,
         Balance(t), NEW u \in UserTask, ArmWait(u), UNCHANGED used
  PROVE  Balance(t)'
<1> USE DEF ArmWait
<1> DEFINE near == os_timer + TimePad
<1>0. /\ Reserve[t] \in Nat /\ os_timer \in Nat /\ ocr2a \in 0..TimerWrap-1
      /\ cpu_remaining[t] \in Nat
  BY TimedTypes
<1>1. /\ mode = "task" /\ nrk_cur_task = u
      /\ UNCHANGED <<mode, nrk_cur_task, os_timer, compare_irq, cpu_remaining,
                     readyQ>>
  OBVIOUS
<1>2. CASE UNCHANGED <<prev_timer_val, ocr2a>>
  BY <1>1, <1>2, BalanceStays
<1>3. CASE near <= GetNextWakeup /\ BringForward(near)
  <2>1. near \in 1..TimerWrap /\ near <= ocr2a + 1
    <3>1. \A a \in 1..TimerWrap : a % TimerWrap <= a /\ a % TimerWrap < TimerWrap
      BY Times
    <3>2. GetNextWakeup <= ocr2a + 1 /\ GetNextWakeup < TimerWrap
      BY <1>0, <3>1, Times DEF GetNextWakeup
    <3> QED
      BY <1>0, <1>3, <3>2, Times, TimerOrder, ModRange DEF GetNextWakeup
  <2>2. prev_timer_val' = near /\ ocr2a' = near - 1
    <3>1. prev_timer_val' = near
          /\ ocr2a' = (near + TimerWrap - 1) % TimerWrap
      BY <1>3 DEF BringForward, SetNextWakeup
    <3> HIDE DEF near
    <3> QED
      BY <2>1, <3>1, Times, ModShift
  <2>3. ~compare_irq
    BY <1>1 DEF ClockInv, CycleIsCharged
  <2>4. CASE u # t
    BY <1>1, <2>4 DEF Balance, Runs
  <2>5. CASE u = t
    <3>1. Runs(t) /\ Runs(t)' /\ used[t] \in Nat
          /\ cpu_remaining[t] <= Reserve[t]
      BY <1>1, <2>5 DEF Runs, Balance
    <3>2. /\ used[t] + cpu_remaining[t] <= Reserve[t] + os_timer
          /\ used[t] + near <= Reserve[t] + Lateness + os_timer
      <4>1. CASE prev_timer_val = 0
        BY <1>0, <3>1, <4>1, Times DEF Balance, Lateness
      <4>2. CASE prev_timer_val # 0
        <5>1. /\ used[t] + cpu_remaining[t] <= Reserve[t] + os_timer
              /\ used[t] + (ocr2a + 1) <= Reserve[t] + Lateness + os_timer
          BY <2>3, <3>1, <4>2 DEF Balance
        <5> HIDE DEF near
        <5> QED
          BY <1>0, <2>1, <3>1, <5>1 DEF Lateness
      <4> QED
        BY <4>1, <4>2
    <3>3. ocr2a' + 1 = near /\ near # 0
      BY <2>1, <2>2, Times
    <3> HIDE DEF near
    <3> QED
      BY <1>1, <2>2, <2>3, <3>1, <3>2, <3>3 DEF Balance
  <2> QED
    BY <2>4, <2>5
<1> QED
  BY <1>2, <1>3

\* Every other call leaves the account alone.
LEMMA CallBudget ==
  ASSUME IInv, NEW t \in UserTask, Undisturbed(t), TimedOK(t), Balance(t),
         UNCHANGED used, NEW u \in UserTask,
         \/ EnterIdle(u) \/ CheckFlag(u) \/ TerminateFinish(u) \/ SemTakeLoad(u)
         \/ TaskCall(u) /\ ~Wait(u)
  PROVE  Balance(t)'
<1>1. UNCHANGED <<mode, nrk_cur_task, os_timer, ocr2a, compare_irq,
                  prev_timer_val, cpu_remaining>>
  BY DEF EnterIdle, CheckFlag, TerminateFinish, SemTakeLoad, TaskCall,
         SetNextWakeupCall, TerminateRemove, SignalCreate, SignalDelete,
         SignalRegister, SignalUnregister, EventSignal, EventWait, RaiseSignal
<1>2. Holds(readyQ', t) => Holds(readyQ, t)
  BY CallTimed
<1> QED
  BY <1>1, <1>2, BalanceStays

\* All steps together.
LEMMA BudgetInit ==
  ASSUME AccountingInit
  PROVE  BudgetInv
<1> SUFFICES ASSUME NEW t \in UserTask, Reserve[t] # 0
             PROVE  TimedOK(t) /\ Balance(t)
  BY DEF BudgetInv
<1>1. t \in Task /\ Reserve[t] \in Nat
  BY Tasks, TaskAssumption
<1>2. TimedOK(t) /\ ~Holds(readyQ, t)
  BY TimedInit
<1>3. Balance(t)
  BY <1>1, <1>2 DEF AccountingInit, Init, Balance, Runs, Lateness
<1> QED
  BY <1>2, <1>3

LEMMA BudgetStep ==
  ASSUME SectionTicks = 0, ReserveRespected, BudgetInv, ClockInv, TimerInv, IInv,
         [AccountingNext]_accountingVars
  PROVE  BudgetInv'
<1> SUFFICES ASSUME NEW t \in UserTask, Reserve[t] # 0
             PROVE  TimedOK(t)' /\ Balance(t)'
  BY DEF BudgetInv
<1>0. TimedOK(t) /\ Balance(t) /\ Undisturbed(t) /\ TimePad <= Lateness
  BY DEF BudgetInv, ReserveRespected
<1>1. Balance(t)'
  <2>1. CASE Elapse
    BY <1>0, <2>1, ElapseBudget
  <2>2. CASE Account
    BY <1>0, <2>2, AccountBudget
  <2>3. CASE Replenish
    BY <1>0, <2>3, ReplenishBudget
  <2>4. CASE SchedDispatch /\ UNCHANGED used
    BY <1>0, <2>4, DispatchBudget
  <2>5. CASE UNCHANGED used /\ (Start \/ \E u \in UserTask : Activate(u))
    BY <1>0, <2>5, BootBudget
  <2>6. CASE UNCHANGED used
               /\ (IdleTask \/ \E u \in UserTask : Wait(u) \/ BlockingWait(u))
    BY <1>0, <2>6, BalanceStays DEF IdleTask, Wait, BlockingWait, BeginWait
  <2>7. ASSUME NEW u \in UserTask, ArmWait(u), UNCHANGED used
        PROVE  Balance(t)'
    BY <1>0, <2>7, ArmWaitBudget
  <2>8. ASSUME NEW u \in UserTask, UNCHANGED used,
               \/ EnterIdle(u) \/ CheckFlag(u) \/ TerminateFinish(u)
               \/ SemTakeLoad(u)
               \/ TaskCall(u) /\ ~Wait(u)
        PROVE  Balance(t)'
    BY <1>0, <2>8, CallBudget
  <2>9. CASE UNCHANGED accountingVars
    BY <1>0, <2>9, BalanceStays DEF accountingVars
  <2> QED
    BY <2>1, <2>2, <2>3, <2>4, <2>5, <2>6, <2>7, <2>8, <2>9
    DEF AccountingNext, InWait
<1> QED
  BY <1>0, <1>1, TimedStep

\* A reserve bounds the time of its task: between two replenishments the task runs
\* at most its cpu_reserve, plus the two ticks by which a pass may come late,
\* whatever it and the other tasks wait for and however often they bring the pass
\* forward.
THEOREM ReserveIsKept ==
  ASSUME SectionTicks = 0, WakeupsAccepted, ReserveRespected
  PROVE  AccountingSpec => []BudgetHeld
<1>1. AccountingInit => Init /\ IInv /\ TimerInv /\ ClockInv /\ BudgetInv
  BY InitOK, TimerInit, ClockInit, BudgetInit DEF AccountingInit
<1>2. IInv /\ TimerInv /\ ClockInv /\ BudgetInv /\ [AccountingNext]_accountingVars
        => IInv' /\ TimerInv' /\ ClockInv' /\ BudgetInv'
  BY NextOK, TimerStep, ClockStep, BudgetStep, AccountingIsNext
<1>3. BudgetInv => BudgetHeld
  BY DEF BudgetInv, Balance, BudgetHeld
<1> QED
  BY <1>1, <1>2, <1>3, PTL DEF AccountingSpec

-----------------------------------------------------------------------------

\* The pass under way has yet to take its time off the next_period of task t.
Pending(t) == mode = "scan" /\ t >= task_ID

Multiple(n, x) == \E k \in Int : x = n * k

\* A program that waits for several periods at a time neither waits for events nor
\* terminates, and leaves its wait to the kernel; and once a task has terminated
\* no signal suspends it again.
PeriodsRespected ==
  \A t \in Periodic :
    /\ "n_periods" \in Calls[t] =>
         Undisturbed(t) /\ "set_next_wakeup" \notin Calls[t]
    /\ "terminate" \in Calls[t] =>
         /\ "event_wait" \notin Calls[t]
         /\ "signal_register" \in Calls[t] =>
              \A u \in UserTask : "signal_delete" \notin Calls[u]

\* The next period of the task begins a multiple of its period after its offset.
OnPhase(t) ==
  LET begins == next_period[t] + elapsed[t] - Offset[t] IN
  /\ next_period[t] # 0
  /\ Pending(t) => /\ next_period[t] >= prev_timer_val
                   /\ Multiple(Period[t], begins - prev_timer_val)
  /\ ~Pending(t) => Multiple(Period[t], begins)

PhaseOK(t) ==
  /\ elapsed[t] \in Nat
  /\ mode = "boot" => elapsed[t] = 0
  /\ t \notin overtaken /\ task_state[t] # "FINISHED" /\ (mode = "boot" => t < task_ID)
       => OnPhase(t)

\* A terminated task stays terminated; and only nrk_wait_until_next_n_periods makes a
\* task wait for more than one period.
StaysFinished(t) ==
  /\ pc[t] = "removed" \/ task_state[t] = "FINISHED" => "terminate" \in Calls[t]
  /\ "terminate" \in Calls[t] =>
       /\ event_suspend[t] = 0
       /\ "signal_register" \notin Calls[t] => registered_signal_mask[t] = {}
  /\ pc[t] = "marked" => op[t] \in {"event", "event_nw", "terminate"}
  /\ "n_periods" \notin Calls[t] => num_periods[t] = 1

\* Such a task wakes up exactly when its next period begins, and then goes on
\* waiting for the rest of them.
WakesOnPhase(t) ==
  /\ num_periods[t] # 1 =>
       /\ op[t] = "n_periods"
       /\ \/ suspend_flag[t] /\ Runs(t)
          \/ task_state[t] = "SUSPENDED" /\ next_wakeup[t] = next_period[t]
  /\ task_state[t] = "READY" =>
       \/ next_wakeup[t] \in {0, next_period[t]}
       \/ suspend_flag[t] /\ op[t] \in {"wait_ticks", "until_ticks", "wait"}

SkipsOK(t) == "n_periods" \in Calls[t] =>
                TimedOK(t) /\ (t \notin overtaken => WakesOnPhase(t))

PeriodInv == \A t \in Periodic : PhaseOK(t) /\ StaysFinished(t) /\ SkipsOK(t)

\* Multiples add up, and what the modulo operator takes away is one.
LEMMA DivMod ==
  ASSUME NEW n \in Nat \ {0}, NEW x \in Int
  PROVE  x = n * (x \div n) + (x % n) /\ x \div n \in Int /\ x % n \in 0..n-1
OBVIOUS

LEMMA MultipleSum ==
  ASSUME NEW n \in Nat, NEW x \in Int, NEW y \in Int,
         Multiple(n, x), Multiple(n, y)
  PROVE  Multiple(n, x + y)
<1>1. PICK k \in Int, l \in Int : x = n * k /\ y = n * l
  BY DEF Multiple
<1>2. x + y = n * (k + l)
  BY <1>1
<1>3. k + l \in Int
  OBVIOUS
<1> QED
  BY <1>2, <1>3 DEF Multiple

LEMMA MultipleMod ==
  ASSUME NEW n \in Nat \ {0}, NEW x \in Int
  PROVE  Multiple(n, (x % n) - x)
<1>1. x = n * (x \div n) + (x % n) /\ x \div n \in Int /\ x % n \in Int
  BY DivMod
<1> DEFINE k == x \div n
           r == x % n
<1> HIDE DEF k, r
<1>2. r - x = n * (-k)
  BY <1>1 DEF k, r
<1>3. -k \in Int
  BY <1>1 DEF k
<1> QED
  BY <1>2, <1>3 DEF Multiple, r

LEMMA MultipleIsZero ==
  ASSUME NEW n \in Nat \ {0}, NEW x \in Int, Multiple(n, x)
  PROVE  x % n = 0
<1> DEFINE q == x \div n
           r == x % n
<1>1. x = n * q + r /\ q \in Int /\ r \in 0..n-1
  BY DivMod
<1> HIDE DEF q, r
<1>2. PICK k \in Int : x = n * k
  BY DEF Multiple
<1>3. \A d \in Int : d >= 1 => n * d >= n
  OBVIOUS
<1>4. r = n * (k - q) /\ n * (q - k) = -r
  BY <1>1, <1>2
<1>5. ~(k - q >= 1) /\ ~(q - k >= 1)
  BY <1>1, <1>3, <1>4
<1>6. k - q = 0
  BY <1>1, <1>5
<1>7. r = n * 0
  BY <1>4, <1>6
<1> QED
  BY <1>7 DEF r

-----------------------------------------------------------------------------

\* The types the steps below need.
LEMMA PeriodicTypes ==
  ASSUME IInv, NEW t \in Periodic
  PROVE  /\ t \in UserTask /\ t \in Task /\ t # Idle
         /\ Period[t] \in Nat \ {0} /\ Offset[t] \in Nat
<1>1. t \in UserTask /\ Period[t] # 0
  BY DEF Periodic
<1>2. t \in Task /\ t # Idle
  BY <1>1, Tasks
<1> QED
  BY <1>1, <1>2, TaskAssumption

\* A step that leaves alone all that StaysFinished speaks of.
LEMMA FinishedStays ==
  ASSUME NEW t \in Task, StaysFinished(t),
         task_state'[t] = task_state[t], event_suspend'[t] = event_suspend[t],
         registered_signal_mask'[t] = registered_signal_mask[t],
         op'[t] = op[t], pc'[t] = pc[t], num_periods'[t] = num_periods[t]
  PROVE  StaysFinished(t)'
BY DEF StaysFinished

\* The passes and the boot.
LEMMA PassFinished ==
  ASSUME IInv, NEW t \in Periodic, StaysFinished(t),
         \/ Account \/ Replenish \/ SchedDispatch \/ Start
         \/ \E u \in UserTask : Activate(u)
  PROVE  StaysFinished(t)'
<1>0. /\ t \in Task /\ t # Idle /\ pc \in [Task -> PC] /\ op \in [Task -> BlockCall]
      /\ task_state \in [Task -> TaskState] /\ event_suspend \in [Task -> 0..3]
      /\ num_periods \in [Task -> Nat \ {0}] /\ nrk_cur_task \in Task
  <2>1. t \in UserTask
    BY PeriodicTypes
  <2> QED
    BY <2>1, TimedTypes
<1>1. CASE Account
  <2> USE <1>1 DEF Account, SchedBegin
  <2>1. /\ UNCHANGED <<registered_signal_mask, op, num_periods>>
        /\ event_suspend'[t] \in {0, event_suspend[t]}
        /\ pc'[t] \in {pc[t], "user", "check"}
    BY <1>0
  <2>2. task_state'[t] = "FINISHED" => task_state[t] = "FINISHED"
    BY <1>0 DEF ParkState
  <2> QED
    BY <1>0, <2>1, <2>2 DEF StaysFinished
<1>2. CASE Replenish
  <2> USE <1>2 DEF Replenish, SchedScan
  <2>1. /\ UNCHANGED <<registered_signal_mask, op, pc>>
        /\ event_suspend'[t] \in {0, event_suspend[t]}
        /\ num_periods'[t] \in {1, num_periods[t]}
    BY <1>0 DEF OnWakeup
  <2>2. task_state'[t] = "FINISHED" => task_state[t] = "FINISHED"
    BY <1>0
  <2> QED
    BY <1>0, <2>1, <2>2 DEF StaysFinished
<1>3. CASE SchedDispatch \/ Start
  BY <1>0, <1>3, FinishedStays DEF SchedDispatch, Start
<1>4. ASSUME NEW u \in UserTask, Activate(u)
      PROVE  StaysFinished(t)'
  <2>1. /\ UNCHANGED <<event_suspend, registered_signal_mask, op, pc>>
        /\ num_periods'[t] \in {1, num_periods[t]}
        /\ task_state'[t] = "FINISHED" => task_state[t] = "FINISHED"
    BY <1>0, <1>4 DEF Activate
  <2> QED
    BY <2>1 DEF StaysFinished
<1> QED
  BY <1>1, <1>2, <1>3, <1>4

\* The waits.
LEMMA WaitFinished ==
  ASSUME IInv, NEW t \in Periodic, StaysFinished(t), NEW u \in UserTask,
         Wait(u) \/ BlockingWait(u) \/ ArmWait(u)
  PROVE  StaysFinished(t)'
<1>0. /\ t \in Task /\ pc \in [Task -> PC] /\ op \in [Task -> BlockCall]
      /\ num_periods \in [Task -> Nat \ {0}]
  <2>1. t \in UserTask
    BY PeriodicTypes
  <2> QED
    BY <2>1, TimedTypes
<1>1. ASSUME NEW call, NEW n, BeginWait(u, call, n),
             u = t /\ call = "n_periods" => "n_periods" \in Calls[t]
      PROVE  StaysFinished(t)'
  <2>1. UNCHANGED <<task_state, event_suspend, registered_signal_mask>>
    BY <1>1 DEF BeginWait
  <2>2. CASE u = t
    <3>1. pc'[t] = "section"
      BY <1>0, <1>1, <2>2 DEF BeginWait
    <3>2. "n_periods" \notin Calls[t] => num_periods'[t] = 1
      BY <1>0, <1>1, <2>2 DEF BeginWait, StaysFinished
    <3> QED
      BY <2>1, <3>1, <3>2 DEF StaysFinished
  <2>3. CASE u # t
    BY <1>0, <1>1, <2>1, <2>3, FinishedStays DEF BeginWait
  <2> QED
    BY <2>2, <2>3
<1>2. CASE Wait(u)
  BY <1>1, <1>2 DEF Wait
<1>3. CASE BlockingWait(u)
  BY <1>1, <1>3 DEF BlockingWait, At, StaysFinished
<1>4. CASE ArmWait(u)
  <2>1. /\ UNCHANGED <<task_state, event_suspend, registered_signal_mask, op,
                       num_periods>>
        /\ pc'[t] \in {"idle", pc[t]}
    BY <1>0, <1>4 DEF ArmWait
  <2> QED
    BY <2>1 DEF StaysFinished
<1> QED
  BY <1>2, <1>3, <1>4

\* The other steps of the tasks.
LEMMA CallFinished ==
  ASSUME IInv, PeriodsRespected, NEW t \in Periodic, StaysFinished(t),
         NEW u \in UserTask,
         \/ EnterIdle(u) \/ CheckFlag(u) \/ TerminateFinish(u) \/ SemTakeLoad(u)
         \/ TaskCall(u) /\ ~Wait(u)
  PROVE  /\ StaysFinished(t)'
         /\ task_state[t] = "FINISHED" => task_state'[t] = "FINISHED"
<1>0. /\ t \in Task /\ u \in Task /\ pc \in [Task -> PC] /\ op \in [Task -> BlockCall]
      /\ task_state \in [Task -> TaskState] /\ event_suspend \in [Task -> 0..3]
      /\ registered_signal_mask \in [Task -> SUBSET SignalBit]
  <2>1. t \in UserTask
    BY PeriodicTypes
  <2> QED
    BY <2>1, TimedTypes, Tasks
<1>1. UNCHANGED num_periods
  BY DEF EnterIdle, CheckFlag, TerminateFinish, SemTakeLoad, TaskCall,
         SetNextWakeupCall, TerminateRemove, SignalCreate, SignalDelete,
         SignalRegister, SignalUnregister, EventSignal, EventWait, RaiseSignal
<1>2. CASE EnterIdle(u) \/ CheckFlag(u) \/ SemTakeLoad(u)
  <2>1. /\ UNCHANGED <<task_state, event_suspend, registered_signal_mask>>
        /\ \/ pc'[t] = pc[t] /\ op'[t] = op[t]
           \/ pc'[t] \in {"asleep", "idle", "take", "user", "store"}
    BY <1>0, <1>2 DEF EnterIdle, CheckFlag, SemTakeLoad, Return
  <2> QED
    BY <1>1, <2>1 DEF StaysFinished
<1>3. CASE TerminateRemove(u)
  <2>1. /\ UNCHANGED <<task_state, event_suspend, registered_signal_mask, op>>
        /\ \/ pc'[t] = pc[t]
           \/ pc'[t] = "removed" /\ "terminate" \in Calls[t]
    BY <1>0, <1>3 DEF TerminateRemove, MayCall
  <2> QED
    BY <1>1, <2>1 DEF StaysFinished
<1>4. CASE TerminateFinish(u)
  <2>1. UNCHANGED <<event_suspend, registered_signal_mask>>
    BY <1>4 DEF TerminateFinish
  <2>2. CASE u = t
    <3>1. /\ "terminate" \in Calls[t] /\ task_state'[t] = "FINISHED"
          /\ pc'[t] = "marked" /\ op'[t] = "terminate"
      BY <1>0, <1>4, <2>2 DEF TerminateFinish, At, StaysFinished
    <3> QED
      BY <1>1, <2>1, <3>1 DEF StaysFinished
  <2>3. CASE u # t
    BY <1>0, <1>1, <1>4, <2>1, <2>3, FinishedStays DEF TerminateFinish
  <2> QED
    BY <2>2, <2>3
<1>5. CASE \/ SetNextWakeupCall(u) \/ SignalCreate(u) \/ SignalRegister(u)
           \/ SignalUnregister(u)
  <2>1. /\ UNCHANGED <<task_state, event_suspend, op, pc>>
        /\ registered_signal_mask'[t] # registered_signal_mask[t] =>
             "signal_register" \in Calls[t] \/ registered_signal_mask[t] # {}
    BY <1>0, <1>5
    DEF SetNextWakeupCall, SignalCreate, SignalRegister, SignalUnregister, MayCall
  <2> QED
    BY <1>1, <2>1 DEF StaysFinished
<1>6. CASE SignalDelete(u)
  <2>1. PICK s \in Signals :
          LET waiters == {v \in Task : registered_signal_mask[v] = {s}} IN
          /\ "signal_delete" \in Calls[u]
          /\ event_suspend' = Unblocked(waiters)
          /\ task_state' = Resumed(waiters)
          /\ registered_signal_mask' =
               [v \in Task |-> registered_signal_mask[v] \ {s}]
          /\ UNCHANGED <<op, pc>>
    BY <1>6 DEF SignalDelete, MayCall
  <2>2. /\ event_suspend'[t] \in {0, event_suspend[t]}
        /\ task_state'[t] \in {"SUSPENDED", task_state[t]}
        /\ registered_signal_mask[t] = {} =>
             registered_signal_mask'[t] = {} /\ task_state'[t] = task_state[t]
    BY <1>0, <2>1 DEF Unblocked, Resumed
  <2>3. "terminate" \in Calls[t] => registered_signal_mask[t] = {}
    BY <2>1 DEF StaysFinished, PeriodsRespected
  <2> QED
    BY <1>1, <2>1, <2>2, <2>3 DEF StaysFinished
<1>7. CASE EventSignal(u)
  <2>1. PICK s : RaiseSignal(s) /\ UNCHANGED callVars
    BY <1>7 DEF EventSignal
  <2>2. event_suspend[t] = 0 => t \notin SignalWaiters(s) \cup SemWaitersTakenFor(s)
    BY DEF SignalWaiters, SemWaitersTakenFor, SIG_EVENT, RSRC_EVENT
  <2>3. /\ event_suspend'[t] \in {0, event_suspend[t]}
        /\ task_state'[t] \in {"SUSPENDED", task_state[t]}
        /\ event_suspend[t] = 0 => task_state'[t] = task_state[t]
        /\ UNCHANGED <<registered_signal_mask, op, pc>>
    BY <1>0, <2>1, <2>2 DEF RaiseSignal, Unblocked, Resumed
  <2> QED
    BY <1>1, <2>3 DEF StaysFinished
<1>8. CASE EventWait(u)
  <2>1. UNCHANGED <<task_state, registered_signal_mask>>
    BY <1>8 DEF EventWait
  <2>2. CASE u = t
    <3>1. /\ "terminate" \notin Calls[t]
          /\ op'[t] \in {"event", "event_nw"}
      BY <1>0, <1>8, <2>2 DEF EventWait, MayCall, PeriodsRespected
    <3> QED
      BY <1>0, <1>1, <1>8, <2>1, <2>2, <3>1 DEF EventWait, StaysFinished
  <2>3. CASE u # t
    BY <1>0, <1>1, <1>8, <2>1, <2>3, FinishedStays DEF EventWait
  <2> QED
    BY <2>1, <2>2, <2>3
<1> QED
  BY <1>2, <1>3, <1>4, <1>5, <1>6, <1>7, <1>8 DEF TaskCall

-----------------------------------------------------------------------------

\* A step that leaves alone all that WakesOnPhase speaks of.
LEMMA WakesStay ==
  ASSUME NEW t \in Task, WakesOnPhase(t), UNCHANGED <<mode, nrk_cur_task>>,
         task_state'[t] = task_state[t], suspend_flag'[t] = suspend_flag[t],
         op'[t] = op[t], num_periods'[t] = num_periods[t],
         next_wakeup'[t] = next_wakeup[t], next_period'[t] = next_period[t]
  PROVE  WakesOnPhase(t)'
BY DEF WakesOnPhase, Runs

\* A task that is parked waits for its next period, unless it asked for a time.
LEMMA AccountWakes ==
  ASSUME IInv, NEW t \in UserTask, TimedOK(t), WakesOnPhase(t), Account
  PROVE  WakesOnPhase(t)'
<1> USE DEF Account, SchedBegin
<1>0. /\ t \in Task /\ task_state \in [Task -> TaskState]
      /\ event_suspend \in [Task -> 0..3] /\ next_wakeup \in [Task -> Nat]
  BY TimedTypes
<1>1. /\ mode = "task" /\ ~Runs(t)'
      /\ UNCHANGED <<op, num_periods, next_period, suspend_flag>>
  BY DEF Runs
<1>2. event_suspend[t] = 0 /\ task_state[t] # "FINISHED"
  BY DEF TimedOK, TimedOnly
<1>3. CASE nrk_cur_task # t
  <2>1. ~Runs(t) /\ task_state'[t] = task_state[t] /\ next_wakeup'[t] = next_wakeup[t]
    BY <1>0, <1>3 DEF Runs
  <2> QED
    BY <1>1, <2>1 DEF WakesOnPhase
<1>4. CASE nrk_cur_task = t /\ suspend_flag[t]
  <2>1. ParkState(t) = "SUSPENDED"
    BY <1>2 DEF ParkState, RSRC_EVENT
  <2>2. task_state'[t] = "SUSPENDED"
    BY <1>0, <1>2, <1>4, <2>1
  <2>3. next_wakeup'[t] = IF next_wakeup[t] = 0 THEN next_period[t]
                                                ELSE next_wakeup[t]
    BY <1>0, <1>2, <1>4
  <2>4. task_state[t] = "READY"
    BY <1>1, <1>4 DEF TimedOK, OnceQueued, Runs
  <2>5. num_periods[t] # 1 => op[t] = "n_periods" /\ next_wakeup'[t] = next_period[t]
    BY <2>3, <2>4 DEF WakesOnPhase
  <2> QED
    BY <1>1, <2>2, <2>5 DEF WakesOnPhase
<1>5. CASE nrk_cur_task = t /\ ~suspend_flag[t]
  <2>1. /\ task_state'[t] \in {"SUSPENDED", task_state[t]}
        /\ next_wakeup'[t] = next_wakeup[t]
    BY <1>0, <1>5
  <2>2. Runs(t) /\ task_state[t] = "READY"
    BY <1>1, <1>5 DEF TimedOK, OnceQueued, Runs
  <2>3. num_periods[t] = 1 /\ next_wakeup[t] \in {0, next_period[t]}
    BY <1>5, <2>2 DEF WakesOnPhase
  <2> QED
    BY <1>1, <2>1, <2>3 DEF WakesOnPhase
<1> QED
  BY <1>3, <1>4, <1>5

\* The pass takes the same time off both, or gives the next period to both.
LEMMA ReplenishWakes ==
  ASSUME IInv, NEW t \in Periodic, TimedOK(t), WakesOnPhase(t), Replenish,
         task_ID = t => next_period[t] >= prev_timer_val
  PROVE  WakesOnPhase(t)'
<1> USE DEF Replenish, SchedScan
<1>0. /\ t \in UserTask /\ t \in Task /\ t # Idle /\ Period[t] \in Nat \ {0}
      /\ task_state \in [Task -> TaskState] /\ suspend_flag \in [Task -> BOOLEAN]
      /\ next_wakeup \in [Task -> Nat] /\ next_period \in [Task -> Nat]
      /\ num_periods \in [Task -> Nat \ {0}] /\ prev_timer_val \in Nat
  <2>1. t \in UserTask
    BY PeriodicTypes
  <2> QED
    BY <2>1, PeriodicTypes, TimedTypes
<1>1. ~Runs(t) /\ ~Runs(t)' /\ UNCHANGED op
  BY DEF Runs
<1>2. /\ num_periods[t] # 1 =>
           /\ op[t] = "n_periods" /\ task_state[t] = "SUSPENDED"
           /\ next_wakeup[t] = next_period[t]
      /\ task_state[t] = "READY" => next_wakeup[t] \in {0, next_period[t]}
  BY <1>1 DEF WakesOnPhase, TimedOK, TimedOnly
<1>3. CASE task_ID # t
  <2>1. /\ task_state'[t] = task_state[t] /\ num_periods'[t] = num_periods[t]
        /\ next_wakeup'[t] = next_wakeup[t] /\ next_period'[t] = next_period[t]
    BY <1>0, <1>3
  <2> QED
    BY <1>1, <1>2, <2>1 DEF WakesOnPhase
<1>4. CASE task_ID = t
  <2> DEFINE nw == Monus(next_wakeup[t], prev_timer_val)
             np == AgedPeriod(next_period[t], Period[t], prev_timer_val)
             wakes == task_state[t] = "SUSPENDED" /\ nw = 0
  <2>1. task_state[t] # "FINISHED"
    BY DEF TimedOK, TimedOnly
  <2>2. /\ task_state'[t] = IF wakes /\ num_periods[t] = 1 THEN "READY"
                                                         ELSE task_state[t]
        /\ num_periods'[t] = IF wakes THEN 1 ELSE num_periods[t]
        /\ wakes /\ num_periods[t] = 1 => next_wakeup'[t] = np
        /\ wakes \/ next_wakeup'[t] = nw
        /\ next_period'[t] = np \/ (wakes /\ num_periods[t] # 1)
    BY <1>0, <1>4, <2>1 DEF OnWakeup
  <2>3. /\ np = IF next_period[t] > prev_timer_val
                THEN next_period[t] - prev_timer_val ELSE Period[t]
        /\ next_wakeup[t] = next_period[t] /\ nw # 0 => nw = np
        /\ next_wakeup[t] = 0 => nw = 0
        /\ next_wakeup[t] = next_period[t] /\ nw = 0 => nw = 0
    BY <1>0, <1>4 DEF AgedPeriod, Monus
  <2> HIDE DEF nw, np
  <2>4. CASE wakes
    BY <1>1, <2>2, <2>4 DEF WakesOnPhase
  <2>5. CASE ~wakes
    <3>1. /\ task_state'[t] = task_state[t] /\ num_periods'[t] = num_periods[t]
          /\ next_wakeup'[t] = nw /\ next_period'[t] = np
      BY <2>2, <2>5
    <3>2. num_periods[t] # 1 => nw = np
      BY <1>2, <2>3, <2>5
    <3>3. task_state[t] = "READY" => nw \in {0, np}
      BY <1>2, <2>3
    <3> QED
      BY <1>1, <1>2, <3>1, <3>2, <3>3 DEF WakesOnPhase
  <2> QED
    BY <2>4, <2>5
<1> QED
  BY <1>3, <1>4

\* The end of the pass and the boot.
LEMMA BootWakes ==
  ASSUME IInv, NEW t \in Periodic, TimedOK(t), WakesOnPhase(t),
         SchedDispatch \/ Start \/ \E u \in UserTask : Activate(u)
  PROVE  WakesOnPhase(t)'
<1>0. /\ t \in Task /\ task_state \in [Task -> TaskState]
      /\ suspend_flag \in [Task -> BOOLEAN] /\ next_period \in [Task -> Nat]
      /\ next_wakeup \in [Task -> Nat] /\ num_periods \in [Task -> Nat \ {0}]
  <2>1. t \in UserTask
    BY PeriodicTypes
  <2> QED
    BY <2>1, TimedTypes
<1>1. CASE SchedDispatch \/ Start
  <2>1. /\ ~Runs(t)
        /\ UNCHANGED <<task_state, suspend_flag, next_wakeup, next_period,
                       num_periods, op>>
    BY <1>1 DEF SchedDispatch, Start, Runs
  <2>2. num_periods[t] # 1 =>
          /\ op[t] = "n_periods" /\ task_state[t] = "SUSPENDED"
          /\ next_wakeup[t] = next_period[t]
    BY <2>1 DEF WakesOnPhase
  <2>3. task_state[t] = "READY" =>
          \/ next_wakeup[t] \in {0, next_period[t]}
          \/ suspend_flag[t] /\ op[t] \in {"wait_ticks", "until_ticks", "wait"}
    BY DEF WakesOnPhase
  <2> QED
    BY <2>1, <2>2, <2>3 DEF WakesOnPhase
<1>2. ASSUME NEW u \in UserTask, Activate(u)
      PROVE  WakesOnPhase(t)'
  <2>1. ~Runs(t) /\ ~Runs(t)' /\ op' = op
    BY <1>2 DEF Activate, Runs
  <2>2. CASE u = t
    <3>1. num_periods'[t] = 1 /\ next_wakeup'[t] = Offset[t]
          /\ (task_state'[t] = "READY" => Offset[t] = 0)
      BY <1>0, <1>2, <2>2 DEF Activate
    <3> QED
      BY <3>1 DEF WakesOnPhase
  <2>3. CASE u # t
    <3>1. task_state'[t] = task_state[t] /\ suspend_flag'[t] = suspend_flag[t]
      BY <1>0, <1>2, <2>3 DEF Activate
    <3>2. /\ num_periods'[t] = num_periods[t] /\ next_wakeup'[t] = next_wakeup[t]
          /\ next_period'[t] = next_period[t]
      BY <1>0, <1>2, <2>3 DEF Activate
    <3>3. UNCHANGED <<mode, nrk_cur_task>>
      BY <1>2 DEF Activate
    <3> QED
      BY <1>0, <2>1, <3>1, <3>2, <3>3, WakesStay
  <2> QED
    BY <2>2, <2>3
<1> QED
  BY <1>1, <1>2

\* A wait begins when the last one is over.
LEMMA WaitWakes ==
  ASSUME IInv, NEW t \in Periodic, TimedOK(t), WakesOnPhase(t), NEW u \in UserTask,
         Wait(u) \/ BlockingWait(u) \/ ArmWait(u)
  PROVE  WakesOnPhase(t)'
<1>0. /\ t \in UserTask /\ t \in Task /\ op \in [Task -> BlockCall]
      /\ pc \in [Task -> PC] /\ suspend_flag \in [Task -> BOOLEAN]
      /\ next_wakeup \in [Task -> Nat] /\ num_periods \in [Task -> Nat \ {0}]
  <2>1. t \in UserTask
    BY PeriodicTypes
  <2> QED
    BY <2>1, TimedTypes
<1>1. ASSUME NEW call, NEW n, BeginWait(u, call, n), u # t
      PROVE  WakesOnPhase(t)'
  BY <1>0, <1>1, WakesStay DEF BeginWait
<1>2. CASE Wait(u)
  <2>1. PICK call \in WaitCall : \E n : MayCall(u, call) /\ BeginWait(u, call, n)
    BY <1>2 DEF Wait
  <2>2. CASE u = t
    <3>1. Runs(t) /\ op[t] = "none"
      BY <2>1, <2>2 DEF MayCall, At, Runs, TimedOK, TimedOnly
    <3>2. num_periods[t] = 1
      BY <3>1 DEF WakesOnPhase
    <3>3. /\ UNCHANGED <<mode, nrk_cur_task, task_state, next_wakeup, next_period>>
          /\ suspend_flag'[t] = TRUE /\ op'[t] = call
          /\ num_periods'[t] # 1 => call = "n_periods"
      BY <1>0, <2>1, <2>2, <3>2 DEF BeginWait
    <3>4. Runs(t)' /\ (task_state[t] = "READY" => next_wakeup[t] \in {0, next_period[t]})
      BY <3>1, <3>3 DEF WakesOnPhase, Runs
    <3> QED
      BY <3>3, <3>4 DEF WakesOnPhase
  <2> QED
    BY <1>1, <2>1, <2>2
<1>3. CASE BlockingWait(u)
  <2>1. u # t
    BY <1>3 DEF BlockingWait, At, TimedOK, TimedOnly
  <2> QED
    BY <1>1, <1>3, <2>1 DEF BlockingWait
<1>4. CASE ArmWait(u)
  <2>1. UNCHANGED <<mode, nrk_cur_task, task_state, suspend_flag, op, num_periods,
                    next_period>>
    BY <1>4 DEF ArmWait
  <2>2. CASE u = t
    <3>1. Runs(t) /\ suspend_flag[t] /\ op[t] \in WaitCall \cup {"none"}
      BY <1>4, <2>2 DEF ArmWait, TimedOK, TimedOnly
    <3>2. \/ next_wakeup'[t] = next_wakeup[t]
          \/ op[t] \in {"wait_ticks", "until_ticks", "wait"}
      BY <1>0, <1>4, <2>2, <3>1 DEF ArmWait, WaitCall
    <3>3. Runs(t)'
      BY <2>1, <3>1 DEF Runs
    <3>4. task_state[t] = "READY"
      BY <3>1 DEF TimedOK, OnceQueued
    <3>5. num_periods[t] # 1 => op[t] = "n_periods"
      BY DEF WakesOnPhase
    <3>6. \/ next_wakeup'[t] \in {0, next_period[t]}
          \/ op[t] \in {"wait_ticks", "until_ticks", "wait"}
      BY <3>2, <3>4 DEF WakesOnPhase
    <3> QED
      BY <2>1, <3>1, <3>3, <3>5, <3>6 DEF WakesOnPhase
  <2>3. CASE u # t
    <3>1. next_wakeup'[t] = next_wakeup[t]
      BY <1>0, <1>4, <2>3 DEF ArmWait
    <3> QED
      BY <1>0, <2>1, <3>1, WakesStay
  <2> QED
    BY <2>2, <2>3
<1> QED
  BY <1>2, <1>3, <1>4

\* The other steps of the tasks: no signal wakes such a task.
LEMMA CallWakes ==
  ASSUME IInv, NEW t \in Periodic, TimedOK(t), WakesOnPhase(t), Undisturbed(t),
         "set_next_wakeup" \notin Calls[t], NEW u \in UserTask,
         \/ EnterIdle(u) \/ CheckFlag(u) \/ TerminateFinish(u) \/ SemTakeLoad(u)
         \/ TaskCall(u) /\ ~Wait(u)
  PROVE  WakesOnPhase(t)'
<1>0. /\ t \in UserTask /\ t \in Task /\ u \in Task /\ op \in [Task -> BlockCall]
      /\ task_state \in [Task -> TaskState] /\ next_wakeup \in [Task -> Nat]
      /\ registered_signal_mask \in [Task -> SUBSET SignalBit]
  <2>1. t \in UserTask
    BY PeriodicTypes
  <2> QED
    BY <2>1, TimedTypes, Tasks
<1>1. UNCHANGED <<mode, nrk_cur_task, suspend_flag, num_periods, next_period>>
  BY DEF EnterIdle, CheckFlag, TerminateFinish, SemTakeLoad, TaskCall,
         SetNextWakeupCall, TerminateRemove, SignalCreate, SignalDelete,
         SignalRegister, SignalUnregister, EventSignal, EventWait, RaiseSignal
<1>2. TimedOnly(t)
  BY DEF TimedOK
<1>3. CASE CheckFlag(u)
  <2>1. UNCHANGED <<task_state, next_wakeup>>
    BY <1>3 DEF CheckFlag
  <2>2. CASE u = t /\ ~suspend_flag[t]
    <3>1. Runs(t) /\ task_state[t] = "READY"
      BY <1>3, <2>2 DEF CheckFlag, At, Runs, TimedOK, OnceQueued
    <3>2. num_periods[t] = 1 /\ next_wakeup[t] \in {0, next_period[t]}
      BY <2>2, <3>1 DEF WakesOnPhase
    <3> QED
      BY <1>1, <2>1, <3>2 DEF WakesOnPhase
  <2>3. CASE ~(u = t /\ ~suspend_flag[t])
    <3>1. op'[t] = op[t]
      BY <1>0, <1>3, <2>3 DEF CheckFlag, Return
    <3> QED
      BY <1>0, <1>1, <2>1, <3>1, WakesStay
  <2> QED
    BY <2>2, <2>3
<1>4. CASE \/ EnterIdle(u) \/ TerminateFinish(u) \/ SemTakeLoad(u)
           \/ TerminateRemove(u) \/ SetNextWakeupCall(u) \/ SignalCreate(u)
           \/ SignalRegister(u) \/ SignalUnregister(u) \/ EventWait(u)
  <2>1. TerminateFinish(u) \/ SetNextWakeupCall(u) \/ EventWait(u) => u # t
    BY <1>2 DEF TerminateFinish, SetNextWakeupCall, EventWait, MayCall, At,
                Undisturbed, TimedOnly
  <2>2. /\ task_state'[t] = task_state[t] /\ next_wakeup'[t] = next_wakeup[t]
        /\ op'[t] = op[t]
    BY <1>0, <1>4, <2>1
    DEF EnterIdle, TerminateFinish, SemTakeLoad, TerminateRemove,
        SetNextWakeupCall, SignalCreate, SignalRegister, SignalUnregister,
        EventWait
  <2> QED
    BY <1>0, <1>1, <2>2, WakesStay
<1>5. CASE SignalDelete(u)
  <2>1. PICK s \in Signals :
          /\ "signal_delete" \in Calls[u]
          /\ task_state' = Resumed({v \in Task : registered_signal_mask[v] = {s}})
          /\ UNCHANGED <<next_wakeup, op>>
    BY <1>5 DEF SignalDelete, MayCall
  <2>2. registered_signal_mask[t] = {}
    BY <1>2, <2>1 DEF TimedOnly, Undisturbed
  <2>3. task_state'[t] = task_state[t]
    BY <1>0, <2>1, <2>2 DEF Resumed
  <2> QED
    BY <1>0, <1>1, <2>1, <2>3, WakesStay
<1>6. CASE EventSignal(u)
  <2>1. PICK s : RaiseSignal(s) /\ UNCHANGED callVars
    BY <1>6 DEF EventSignal
  <2>2. t \notin SignalWaiters(s) \cup SemWaitersTakenFor(s)
    BY <1>2 DEF TimedOnly, SignalWaiters, SemWaitersTakenFor, SIG_EVENT, RSRC_EVENT
  <2>3. /\ task_state'[t] = task_state[t] /\ next_wakeup'[t] = next_wakeup[t]
        /\ op' = op
    BY <1>0, <2>1, <2>2 DEF RaiseSignal, Due, Resumed
  <2> QED
    BY <1>0, <1>1, <2>3, WakesStay
<1> QED
  BY <1>3, <1>4, <1>5, <1>6 DEF TaskCall

-----------------------------------------------------------------------------

\* A step that leaves alone all that PhaseOK speaks of.
LEMMA PhaseStays ==
  ASSUME NEW t \in Periodic, PhaseOK(t),
         UNCHANGED <<mode, task_ID, elapsed, overtaken>>,
         mode = "scan" => prev_timer_val' = prev_timer_val,
         next_period'[t] = next_period[t],
         task_state[t] = "FINISHED" => task_state'[t] = "FINISHED"
  PROVE  PhaseOK(t)'
<1>1. Pending(t)' <=> Pending(t)
  BY DEF Pending
<1>2. Pending(t) => prev_timer_val' = prev_timer_val
  BY DEF Pending
<1>3. OnPhase(t) => OnPhase(t)'
  BY <1>1, <1>2 DEF OnPhase
<1> QED
  BY <1>3 DEF PhaseOK

\* The time of the pass is charged, and is now to be taken off the next_period.
LEMMA AccountPhase ==
  ASSUME IInv, NEW t \in Periodic, PhaseOK(t), Account
  PROVE  PhaseOK(t)'
<1> USE DEF Account, SchedBegin
<1>0. /\ t \in UserTask /\ t \in Task /\ Period[t] \in Nat \ {0} /\ Offset[t] \in Nat
      /\ task_state \in [Task -> TaskState] /\ next_period \in [Task -> Nat]
      /\ prev_timer_val \in Nat /\ nrk_cur_task \in Task /\ t \in Nat
  <2>1. t \in UserTask /\ t \in Task
    BY PeriodicTypes
  <2> QED
    BY <2>1, PeriodicTypes, TimedTypes, Tasks
<1>1. /\ mode = "task" /\ mode' = "scan" /\ task_ID' = 0
      /\ UNCHANGED <<next_period, prev_timer_val>>
      /\ elapsed'[t] = (elapsed[t] + prev_timer_val) % Period[t]
      /\ t \notin overtaken' => t \notin overtaken /\ next_period[t] >= prev_timer_val
      /\ elapsed[t] \in Nat
  BY <1>0 DEF PhaseOK
<1>2. elapsed'[t] \in Nat
  BY <1>0, <1>1
<1>3. task_state'[t] # "FINISHED" => task_state[t] # "FINISHED"
  BY <1>0 DEF ParkState, Charged
<1>4. ~Pending(t) /\ Pending(t)'
  BY <1>0, <1>1 DEF Pending
<1>5. ASSUME OnPhase(t)
      PROVE  Multiple(Period[t], next_period'[t] + elapsed'[t] - Offset[t]
                                   - prev_timer_val)
  <2> DEFINE e == elapsed[t] + prev_timer_val
             d == (e % Period[t]) - e
             x == next_period[t] + elapsed[t] - Offset[t]
  <2>1. e \in Int /\ x \in Int /\ next_period[t] \in Nat
    BY <1>0, <1>1
  <2>2. Multiple(Period[t], x)
    BY <1>4, <1>5 DEF OnPhase
  <2>3. Multiple(Period[t], d)
    <3> HIDE DEF e
    <3> QED
      BY <1>0, <2>1, MultipleMod
  <2>4. d \in Int
    BY <1>0, <2>1
  <2>5. Multiple(Period[t], x + d)
    <3> HIDE DEF x, d
    <3> QED
      BY <1>0, <2>1, <2>2, <2>3, <2>4, MultipleSum
  <2>6. x + d = next_period'[t] + elapsed'[t] - Offset[t] - prev_timer_val
    BY <1>0, <1>1, <1>2, <2>1
  <2> QED
    BY <2>5, <2>6
<1>6. ASSUME t \notin overtaken', OnPhase(t)
      PROVE  OnPhase(t)'
  <2>1. next_period[t] # 0 /\ next_period[t] >= prev_timer_val
    BY <1>1, <1>6 DEF OnPhase
  <2> QED
    BY <1>0, <1>1, <1>2, <1>4, <1>5, <1>6, <2>1 DEF OnPhase
<1> QED
  BY <1>1, <1>2, <1>3, <1>6 DEF PhaseOK

\* The pass takes it off, starts the next period with what is left, or lets the
\* task pass over whole periods.
LEMMA ReplenishPhase ==
  ASSUME IInv, NEW t \in Periodic, PhaseOK(t), StaysFinished(t), SkipsOK(t), Replenish
  PROVE  PhaseOK(t)'
<1> USE DEF Replenish, SchedScan
<1>0. /\ t \in UserTask /\ t \in Task /\ t # Idle /\ Period[t] \in Nat \ {0}
      /\ Offset[t] \in Nat /\ t \in 1..NumTasks /\ NumTasks \in Nat
      /\ task_ID \in 0..NumTasks+1
      /\ task_state \in [Task -> TaskState] /\ next_wakeup \in [Task -> Nat]
      /\ next_period \in [Task -> Nat] /\ num_periods \in [Task -> Nat \ {0}]
      /\ prev_timer_val \in Nat
  <2>1. t \in UserTask
    BY PeriodicTypes
  <2> QED
    BY <2>1, PeriodicTypes, TimedTypes
<1>1. /\ mode = "scan" /\ mode' \in {"scan", "dispatch"}
      /\ UNCHANGED <<elapsed, overtaken, prev_timer_val>>
      /\ task_ID' = task_ID + 1 /\ (task_ID # NumTasks => mode' = "scan")
  OBVIOUS
<1>2. task_state'[t] # "FINISHED" => task_state[t] # "FINISHED"
  BY <1>0
<1>3. elapsed[t] \in Nat
  BY DEF PhaseOK
<1>4. CASE task_ID # t
  <2>1. Pending(t)' <=> Pending(t)
    <3>1. t >= task_ID + 1 <=> t >= task_ID
      BY <1>0, <1>4
    <3>2. t >= task_ID => task_ID # NumTasks
      BY <1>0, <1>4
    <3> QED
      BY <1>1, <3>1, <3>2 DEF Pending
  <2>2. next_period'[t] = next_period[t]
    BY <1>0, <1>4
  <2>3. OnPhase(t) => OnPhase(t)'
    BY <1>1, <2>1, <2>2 DEF OnPhase
  <2> QED
    BY <1>1, <1>2, <2>3 DEF PhaseOK
<1>5. CASE task_ID = t
  <2> SUFFICES ASSUME t \notin overtaken, task_state[t] # "FINISHED", OnPhase(t)
               PROVE  OnPhase(t)'
    BY <1>1, <1>2 DEF PhaseOK
  <2> DEFINE prev == prev_timer_val
             np == AgedPeriod(next_period[t], Period[t], prev)
             nw == Monus(next_wakeup[t], prev)
             skips == task_state[t] = "SUSPENDED" /\ nw = 0 /\ num_periods[t] # 1
             skipped == Period[t] * (num_periods[t] - 1)
             x == next_period[t] + elapsed[t] - Offset[t] - prev
  <2>1. Pending(t) /\ ~Pending(t)'
    BY <1>0, <1>1, <1>5 DEF Pending
  <2>2. next_period[t] >= prev /\ Multiple(Period[t], x)
    <3>1. next_period[t] >= prev
      BY <2>1 DEF OnPhase
    <3>2. Multiple(Period[t], x)
      BY <1>0, <1>3, <2>1 DEF OnPhase
    <3> QED
      BY <3>1, <3>2
  <2>3. next_period'[t] = IF skips THEN skipped ELSE np
    BY <1>0, <1>5
  <2>4. np = IF next_period[t] > prev THEN next_period[t] - prev ELSE Period[t]
    BY <1>0, <2>2 DEF AgedPeriod
  <2>5. skips => next_period[t] = prev
    <3> SUFFICES ASSUME skips
                 PROVE  next_period[t] = prev
      OBVIOUS
    <3>1. "n_periods" \in Calls[t]
      BY DEF StaysFinished
    <3>2. WakesOnPhase(t)
      BY <3>1 DEF SkipsOK
    <3>3. next_wakeup[t] = next_period[t]
      BY <1>1, <3>2 DEF WakesOnPhase, Runs
    <3>4. Monus(next_wakeup[t], prev) = 0
      OBVIOUS
    <3>5. \A a, b \in Nat : a >= b /\ Monus(a, b) = 0 => a = b
      BY DEF Monus
    <3>6. next_period[t] \in Nat /\ next_period[t] >= prev
      BY <1>0, <2>2
    <3> HIDE DEF skips, nw, np, x
    <3> QED
      BY <1>0, <3>3, <3>4, <3>5, <3>6
  <2>6. next_period'[t] # 0
        /\ Multiple(Period[t], next_period'[t] + elapsed[t] - Offset[t])
    <3>1. CASE ~skips /\ next_period[t] > prev
      <4>1. next_period'[t] = next_period[t] - prev
        BY <2>3, <2>4, <3>1
      <4>2. next_period'[t] # 0 /\ next_period'[t] + elapsed[t] - Offset[t] = x
        BY <1>0, <1>3, <3>1, <4>1
      <4> QED
        BY <2>2, <4>2
    <3>2. CASE skips \/ next_period[t] = prev
      <4>1. next_period[t] = prev
        BY <2>5, <3>2
      <4>2. PICK k \in Int : next_period'[t] = Period[t] * k /\ k >= 1
        <5>1. CASE skips
          BY <1>0, <2>3, <5>1
        <5>2. CASE ~skips
          <6>1. next_period'[t] = Period[t] * 1
            BY <1>0, <2>3, <2>4, <4>1, <5>2
          <6> QED
            BY <6>1
        <5> QED
          BY <5>1, <5>2
      <4>3. next_period'[t] \in Int /\ next_period'[t] >= Period[t]
        BY <1>0, <4>2
      <4>4. Multiple(Period[t], next_period'[t])
        BY <4>2 DEF Multiple
      <4>5. x = elapsed[t] - Offset[t]
        BY <1>0, <1>3, <4>1
      <4>6. x \in Int
        BY <1>0, <1>3, <4>5
      <4>7. Multiple(Period[t], next_period'[t] + x)
        <5> HIDE DEF x
        <5> QED
          BY <1>0, <2>2, <4>3, <4>4, <4>6, MultipleSum
      <4>8. next_period'[t] + x = next_period'[t] + elapsed[t] - Offset[t]
        BY <1>0, <1>3, <4>3, <4>5
      <4> QED
        BY <1>0, <4>3, <4>7, <4>8
    <3> QED
      BY <1>0, <2>2, <3>1, <3>2
  <2> QED
    BY <1>1, <2>1, <2>6 DEF OnPhase
<1> QED
  BY <1>4, <1>5

\* The first period begins at the offset of the task.
LEMMA ActivatePhase ==
  ASSUME IInv, NEW t \in Periodic, PhaseOK(t), NEW u \in UserTask, Activate(u),
         UNCHANGED <<elapsed, overtaken>>
  PROVE  PhaseOK(t)'
<1>0. /\ t \in UserTask /\ t \in Task /\ Period[t] \in Nat \ {0} /\ Offset[t] \in Nat
      /\ t \in 1..NumTasks /\ NumTasks \in Nat /\ task_ID \in 0..NumTasks+1
      /\ task_state \in [Task -> TaskState] /\ next_period \in [Task -> Nat]
  <2>1. t \in UserTask
    BY PeriodicTypes
  <2> QED
    BY <2>1, PeriodicTypes, TimedTypes
<1>1. /\ mode = "boot" /\ mode' = "boot" /\ task_ID = u /\ task_ID' = u + 1
      /\ ~Pending(t) /\ ~Pending(t)' /\ elapsed[t] = 0
  BY DEF Activate, Pending, PhaseOK
<1>2. CASE u = t
  <2>1. next_period'[t] = Period[t] + Offset[t]
    BY <1>0, <1>2 DEF Activate
  <2>2. next_period'[t] # 0 /\ next_period'[t] + 0 - Offset[t] = Period[t] * 1
    BY <1>0, <2>1
  <2>3. OnPhase(t)'
    BY <1>1, <2>2 DEF OnPhase, Multiple
  <2> QED
    BY <1>1, <2>3 DEF PhaseOK
<1>3. CASE u # t
  <2>1. next_period'[t] = next_period[t] /\ task_state'[t] = task_state[t]
    BY <1>0, <1>3 DEF Activate
  <2>2. t < task_ID' => t < task_ID
    BY <1>0, <1>1, <1>3
  <2>3. OnPhase(t) => OnPhase(t)'
    BY <1>1, <2>1 DEF OnPhase
  <2> QED
    BY <1>1, <2>1, <2>2, <2>3 DEF PhaseOK
<1> QED
  BY <1>2, <1>3

\* No pass is under way before or after.
LEMMA DispatchPhase ==
  ASSUME IInv, NEW t \in Periodic, PhaseOK(t), SchedDispatch \/ Start,
         UNCHANGED <<elapsed, overtaken>>
  PROVE  PhaseOK(t)'
<1>0. t \in 1..NumTasks /\ NumTasks \in Nat
  <2>1. t \in UserTask
    BY PeriodicTypes
  <2> QED
    BY <2>1, TimedTypes
<1>1. /\ mode \in {"dispatch", "boot"} /\ mode' = "task"
      /\ mode = "boot" => t < task_ID
      /\ UNCHANGED <<task_state, next_period>>
  BY <1>0 DEF SchedDispatch, Start
<1>2. ~Pending(t) /\ ~Pending(t)'
  BY <1>1 DEF Pending
<1>3. OnPhase(t) => OnPhase(t)'
  BY <1>1, <1>2 DEF OnPhase
<1> QED
  BY <1>1, <1>3 DEF PhaseOK

-----------------------------------------------------------------------------

\* All steps together.
LEMMA FinishedStep ==
  ASSUME IInv, PeriodsRespected, NEW t \in Periodic, StaysFinished(t),
         [AccountingNext]_accountingVars
  PROVE  StaysFinished(t)'
<1>0. t \in UserTask /\ t \in Task /\ t # Idle /\ pc \in [Task -> PC]
  <2>1. t \in UserTask
    BY PeriodicTypes
  <2> QED
    BY <2>1, TimedTypes
<1>1. CASE Elapse \/ UNCHANGED accountingVars
  BY <1>0, <1>1, FinishedStays DEF Elapse, Tick, accountingVars
<1>2. CASE \/ Account \/ Replenish \/ SchedDispatch \/ Start
           \/ \E u \in UserTask : Activate(u)
  BY <1>2, PassFinished
<1>3. CASE IdleTask
  BY <1>0, <1>3, FinishedStays DEF IdleTask
<1>4. ASSUME NEW u \in UserTask, Wait(u) \/ BlockingWait(u) \/ ArmWait(u)
      PROVE  StaysFinished(t)'
  BY <1>4, WaitFinished
<1>5. ASSUME NEW u \in UserTask,
             \/ EnterIdle(u) \/ CheckFlag(u) \/ TerminateFinish(u)
             \/ SemTakeLoad(u)
             \/ TaskCall(u) /\ ~Wait(u)
      PROVE  StaysFinished(t)'
  BY <1>5, CallFinished
<1> QED
  BY <1>1, <1>2, <1>3, <1>4, <1>5 DEF AccountingNext, InWait

LEMMA SkipsStep ==
  ASSUME IInv, PeriodsRespected, NEW t \in Periodic, SkipsOK(t), PhaseOK(t),
         [AccountingNext]_accountingVars
  PROVE  SkipsOK(t)'
<1> SUFFICES ASSUME "n_periods" \in Calls[t]
             PROVE  TimedOK(t)' /\ (t \notin overtaken' => WakesOnPhase(t)')
  BY DEF SkipsOK
<1>0. /\ t \in UserTask /\ t \in Task /\ t # Idle
      /\ Undisturbed(t) /\ "set_next_wakeup" \notin Calls[t]
  BY PeriodicTypes DEF PeriodsRespected
<1>1. TimedOK(t) /\ (t \notin overtaken => WakesOnPhase(t))
  BY DEF SkipsOK
<1>2. TimedOK(t)'
  BY <1>0, <1>1, TimedStep
<1>3. t \notin overtaken' => t \notin overtaken
  BY DEF AccountingNext, accountingVars, Elapse, Account, Replenish
<1>4. ASSUME t \notin overtaken', WakesOnPhase(t)
      PROVE  WakesOnPhase(t)'
  <2>1. CASE Elapse \/ IdleTask \/ UNCHANGED accountingVars
    BY <1>0, <1>4, <2>1, WakesStay DEF Elapse, Tick, IdleTask, accountingVars
  <2>2. CASE Account
    BY <1>0, <1>1, <1>4, <2>2, AccountWakes
  <2>3. CASE Replenish
    <3>1. task_ID = t => next_period[t] >= prev_timer_val
      <4>1. mode = "scan" /\ task_state[t] # "FINISHED" /\ t \in Nat
        BY <1>0, <1>1, <2>3, Tasks DEF Replenish, SchedScan, TimedOK, TimedOnly
      <4> QED
        BY <1>3, <1>4, <4>1 DEF PhaseOK, OnPhase, Pending
    <3> QED
      BY <1>1, <1>4, <2>3, <3>1, ReplenishWakes
  <2>4. CASE SchedDispatch \/ Start \/ \E u \in UserTask : Activate(u)
    BY <1>1, <1>4, <2>4, BootWakes
  <2>5. ASSUME NEW u \in UserTask, Wait(u) \/ BlockingWait(u) \/ ArmWait(u)
        PROVE  WakesOnPhase(t)'
    BY <1>1, <1>4, <2>5, WaitWakes
  <2>6. ASSUME NEW u \in UserTask,
               \/ EnterIdle(u) \/ CheckFlag(u) \/ TerminateFinish(u)
               \/ SemTakeLoad(u)
               \/ TaskCall(u) /\ ~Wait(u)
        PROVE  WakesOnPhase(t)'
    BY <1>0, <1>1, <1>4, <2>6, CallWakes
  <2> QED
    BY <2>1, <2>2, <2>3, <2>4, <2>5, <2>6 DEF AccountingNext, InWait
<1> QED
  BY <1>1, <1>2, <1>3, <1>4

LEMMA PhaseStep ==
  ASSUME IInv, PeriodsRespected, NEW t \in Periodic,
         PhaseOK(t), StaysFinished(t), SkipsOK(t), [AccountingNext]_accountingVars
  PROVE  PhaseOK(t)'
<1>1. CASE \/ Elapse \/ UNCHANGED accountingVars
           \/ IdleTask /\ UNCHANGED <<elapsed, overtaken>>
  <2>1. UNCHANGED <<mode, task_ID, elapsed, overtaken, prev_timer_val, next_period,
                    task_state>>
    BY <1>1 DEF Elapse, Tick, IdleTask, accountingVars
  <2> QED
    BY <2>1, PhaseStays
<1>2. CASE Account
  BY <1>2, AccountPhase
<1>3. CASE Replenish
  BY <1>3, ReplenishPhase
<1>4. CASE (SchedDispatch \/ Start) /\ UNCHANGED <<elapsed, overtaken>>
  BY <1>4, DispatchPhase
<1>5. ASSUME NEW u \in UserTask, Activate(u), UNCHANGED <<elapsed, overtaken>>
      PROVE  PhaseOK(t)'
  BY <1>5, ActivatePhase
<1>6. ASSUME NEW u \in UserTask, Wait(u) \/ BlockingWait(u) \/ ArmWait(u),
             UNCHANGED <<elapsed, overtaken>>
      PROVE  PhaseOK(t)'
  <2>1. UNCHANGED <<mode, task_ID, next_period, task_state>> /\ mode = "task"
    BY <1>6 DEF Wait, BlockingWait, ArmWait, BeginWait, MayCall, At
  <2> QED
    BY <1>6, <2>1, PhaseStays
<1>7. ASSUME NEW u \in UserTask, UNCHANGED <<elapsed, overtaken>>,
             \/ EnterIdle(u) \/ CheckFlag(u) \/ TerminateFinish(u)
             \/ SemTakeLoad(u)
             \/ TaskCall(u) /\ ~Wait(u)
      PROVE  PhaseOK(t)'
  <2>1. UNCHANGED <<mode, task_ID, next_period, prev_timer_val>>
    BY <1>7
    DEF EnterIdle, CheckFlag, TerminateFinish, SemTakeLoad, TaskCall,
        SetNextWakeupCall, TerminateRemove, SignalCreate, SignalDelete,
        SignalRegister, SignalUnregister, EventSignal, EventWait, RaiseSignal
  <2>2. task_state[t] = "FINISHED" => task_state'[t] = "FINISHED"
    BY <1>7, CallFinished
  <2> QED
    BY <1>7, <2>1, <2>2, PhaseStays
<1> QED
  BY <1>1, <1>2, <1>3, <1>4, <1>5, <1>6, <1>7 DEF AccountingNext, InWait

LEMMA PeriodInit ==
  ASSUME AccountingInit
  PROVE  PeriodInv
<1> SUFFICES ASSUME NEW t \in Periodic
             PROVE  PhaseOK(t) /\ StaysFinished(t) /\ SkipsOK(t)
  BY DEF PeriodInv
<1>0. t \in UserTask /\ t \in Task /\ t # Idle /\ t \in 1..NumTasks /\ NumTasks \in Nat
  BY PeriodicTypes, TimedTypes, InitOK DEF AccountingInit
<1>1. PhaseOK(t)
  <2>1. elapsed[t] = 0 /\ ~(t < task_ID) /\ mode = "boot"
    BY <1>0 DEF AccountingInit, Init
  <2> QED
    BY <2>1 DEF PhaseOK
<1>2. /\ task_state[t] = "UNUSED" /\ pc[t] = "user" /\ event_suspend[t] = 0
      /\ registered_signal_mask[t] = {} /\ num_periods[t] = 1
  BY <1>0 DEF AccountingInit, Init
<1> QED
  BY <1>0, <1>1, <1>2, TimedInit DEF StaysFinished, SkipsOK, WakesOnPhase

\* The periods of a task follow one another without a shift: as long as no pass
\* comes later than its next_period, every period begins a whole number of periods
\* after its offset, whatever the tasks wait for and however many periods they
\* skip.  Nothing is assumed of the timer: ticks may be lost in interrupt-free
\* sections, the periods then follow the time the kernel accounts for.
THEOREM PeriodsFollow ==
  ASSUME PeriodsRespected
  PROVE  AccountingSpec => []PeriodKept
<1>1. AccountingInit => Init /\ IInv /\ PeriodInv
  BY InitOK, PeriodInit DEF AccountingInit
<1>2. ASSUME IInv, PeriodInv, [AccountingNext]_accountingVars
      PROVE  PeriodInv'
  <2> SUFFICES ASSUME NEW t \in Periodic
               PROVE  (PhaseOK(t) /\ StaysFinished(t) /\ SkipsOK(t))'
    BY DEF PeriodInv
  <2>1. PhaseOK(t) /\ StaysFinished(t) /\ SkipsOK(t)
    BY <1>2 DEF PeriodInv
  <2> QED
    BY <1>2, <2>1, PhaseStep, FinishedStep, SkipsStep
<1>3. IInv /\ PeriodInv /\ [AccountingNext]_accountingVars => IInv' /\ PeriodInv'
  BY <1>2, NextOK, AccountingIsNext
<1>4. ASSUME IInv, PeriodInv
      PROVE  PeriodKept
  <2> SUFFICES ASSUME mode = "dispatch", NEW t \in Periodic \ overtaken,
                      task_state[t] # "FINISHED"
               PROVE  (next_period[t] + elapsed[t] - Offset[t]) % Period[t] = 0
    BY DEF PeriodKept
  <2>0. /\ t \in Periodic /\ Period[t] \in Nat \ {0} /\ Offset[t] \in Nat
        /\ next_period[t] \in Nat
    <3>1. t \in Periodic /\ t \in UserTask /\ t \in Task
      BY <1>4, PeriodicTypes
    <3> QED
      BY <1>4, <3>1, PeriodicTypes, TimedTypes
  <2>1. OnPhase(t) /\ elapsed[t] \in Nat /\ ~Pending(t)
    BY <1>4, <2>0 DEF PeriodInv, PhaseOK, Pending
  <2> DEFINE x == next_period[t] + elapsed[t] - Offset[t]
  <2>2. x \in Int
    BY <2>0, <2>1
  <2>3. Multiple(Period[t], x)
    BY <2>1 DEF OnPhase
  <2> HIDE DEF x
  <2>4. x % Period[t] = 0
    BY <2>0, <2>2, <2>3, MultipleIsZero
  <2> QED
    BY <2>4 DEF x
<1>5. IInv /\ PeriodInv => PeriodKept
  BY <1>4
<1> QED
  BY <1>1, <1>3, <1>5, PTL DEF AccountingSpec

=============================================================================
