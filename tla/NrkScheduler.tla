---------------------------- MODULE NrkScheduler ----------------------------
(***************************************************************************)
(* The OS tick timer and _nrk_scheduler.                                   *)
(*                                                                         *)
(* Timer 2 counts up to OCR2A, returns to 0 and raises the compare match   *)
(* flag; the interrupt runs the scheduler.  One run, a pass, is split at   *)
(* the points where it changes the task it looks at: SchedBegin (the task  *)
(* that ran), SchedScan (one iteration of the loop over the TCBs) and      *)
(* SchedDispatch (the choice of the next task and of the next interrupt).  *)
(* Interrupts are off from SchedBegin to SchedDispatch, so nothing but the *)
(* counter moves in between.                                               *)
(***************************************************************************)
EXTENDS NrkTCB

\* Fault: the comparison before the subtraction is missing.
Minus(a, b) == a - b

Monus(a, b) == IF a >= b THEN a - b ELSE 0
Least(a, b) == IF a <= b THEN a ELSE b

-----------------------------------------------------------------------------

InterruptTaken == compare_irq /\ int_enabled

\* Sections with interrupts off that last far less than a tick.
InShortSection ==
  \/ mode = "dispatch"
  \/ mode = "task" /\ pc[nrk_cur_task] = "section"

\* A CPU that powered down needs SleepWakeup-1 ticks to serve an interrupt.
WakingUp ==
  cpu_state = "SLEEP" /\ pc[nrk_cur_task] = "asleep"
    /\ os_timer + 1 < SleepWakeup

\* One OS tick.  In a pass the counter is read only by SchedDispatch, so a
\* tick of the pass is taken just before it.
Tick ==
  /\ mode \in {"task", "dispatch"}
  /\ IF InShortSection
     THEN section_ticks < SectionTicks /\ section_ticks' = section_ticks + 1
     ELSE (InterruptTaken => WakingUp) /\ UNCHANGED section_ticks
  /\ IF os_timer = ocr2a
     THEN os_timer' = 0 /\ compare_irq' = TRUE
     ELSE os_timer' = (os_timer + 1) % TimerWrap /\ UNCHANGED compare_irq
  /\ UNCHANGED <<ocr2a, int_enabled, prev_timer_val, cpu_state, tcbVars,
                 passVars, callVars, objectVars, readyQ>>

GetNextWakeup == (ocr2a + 1) % TimerWrap
SetNextWakeup(nw) == ocr2a' = (nw + TimerWrap - 1) % TimerWrap

-----------------------------------------------------------------------------

\* Fault: reserves are not charged.
NeverCharged(t, state) == FALSE

\* The time since the last pass is taken off the reserve of the task that ran.
Charged(t, state) == Reserve[t] # 0 /\ t # Idle /\ state # "FINISHED"

\* The state a task that asked to be suspended is parked in.
ParkState(t) ==
  IF \/ event_suspend[t] = RSRC_EVENT
     \/ event_suspend[t] > 0 /\ ~nw_flag[t]
  THEN "EVENT_SUSPENDED" ELSE "SUSPENDED"

\* The compare match interrupt: the entry of _nrk_scheduler up to its loop.
SchedBegin ==
  LET t == nrk_cur_task
      parks == suspend_flag[t] /\ task_state[t] # "FINISHED"
      plain == parks /\ event_suspend[t] = 0
      parked == IF parks THEN ParkState(t) ELSE task_state[t]
      charged == Charged(t, parked)
      left == Monus(cpu_remaining[t], prev_timer_val)
      depleted == charged /\ left = 0
      queue == IF parks THEN RemFromReadyQ(readyQ, t) ELSE readyQ
  IN
  /\ mode = "task" /\ InterruptTaken
  /\ compare_irq' = FALSE /\ int_enabled' = FALSE
  /\ SetNextWakeup(MaxWakeup)
  /\ section_ticks' = 0
  /\ next_wake' = Far /\ mode' = "scan" /\ task_ID' = 0
  /\ task_state' = [task_state EXCEPT ![t] =
                      IF depleted THEN "SUSPENDED" ELSE parked]
  /\ event_suspend' = [event_suspend EXCEPT ![t] = IF plain THEN 0 ELSE @]
  /\ nw_flag' = [nw_flag EXCEPT ![t] = IF plain THEN FALSE ELSE @]
  /\ next_wakeup' = [next_wakeup EXCEPT ![t] =
                       IF plain /\ @ = 0 THEN next_period[t] ELSE @]
  /\ cpu_remaining' = [cpu_remaining EXCEPT ![t] = IF charged THEN left ELSE @]
  /\ readyQ' = IF depleted THEN RemFromReadyQ(queue, t) ELSE queue
  /\ pc' = [pc EXCEPT ![t] = IF @ # "asleep" THEN @
                             ELSE IF t = Idle THEN "user" ELSE "check"]
  /\ UNCHANGED <<suspend_flag, active_signal_mask, registered_signal_mask,
                 next_period, num_periods, ceilVars, os_timer, prev_timer_val,
                 cpu_state, nrk_cur_task, op, arg, loaded, objectVars>>

\* Fault: a pass that comes exactly at the end of a period counts as late.
AgedEarly(np, period, prev) ==
  IF np > prev THEN np - prev ELSE IF period > prev THEN period - prev ELSE period

\* next_period after the time prev has been charged to the task.  A task
\* without a period divides by zero here; the AVR's division then returns
\* the dividend.
AgedPeriod(np, period, prev) ==
  LET rest == IF np >= prev THEN np - prev
              ELSE IF period > prev THEN period - prev
              ELSE IF period = 0 THEN prev ELSE prev % period
  IN  IF rest = 0 THEN period ELSE rest

\* Fault: what a wait left behind survives the wakeup.
KeepOld(wakes, old, new) == old

\* A field that is set when its task wakes up.
OnWakeup(wakes, old, new) == IF wakes THEN new ELSE old

\* One iteration of the loop over the task control blocks.
SchedScan ==
  LET t == task_ID
      ages == t # Idle /\ task_state[t] # "FINISHED"
      nw == IF ages THEN Monus(next_wakeup[t], prev_timer_val) ELSE next_wakeup[t]
      np == IF ages THEN AgedPeriod(next_period[t], Period[t], prev_timer_val)
                    ELSE next_period[t]
      suspended == task_state[t] = "SUSPENDED"
      wakes == suspended /\ nw = 0
      runs == wakes /\ num_periods[t] = 1
      skips == wakes /\ num_periods[t] # 1
      skipped == Period[t] * (num_periods[t] - 1)
      wakeup == IF wakes /\ Period[t] = 0 THEN MaxWakeup
                ELSE IF runs THEN np
                ELSE IF skips THEN skipped ELSE nw
  IN
  /\ mode = "scan" /\ t \in Task
  /\ suspend_flag' = [suspend_flag EXCEPT ![t] = FALSE]
  /\ active_signal_mask' = [active_signal_mask EXCEPT ![t] =
       OnWakeup(wakes /\ event_suspend[t] > 0 /\ nw_flag[t], @, {WakeupSignal})]
  /\ event_suspend' = [event_suspend EXCEPT ![t] = OnWakeup(wakes, @, 0)]
  /\ nw_flag' = [nw_flag EXCEPT ![t] = OnWakeup(wakes, @, FALSE)]
  /\ next_wakeup' = [next_wakeup EXCEPT ![t] = wakeup]
  /\ next_period' = [next_period EXCEPT ![t] = IF skips THEN skipped ELSE np]
  /\ num_periods' = [num_periods EXCEPT ![t] = OnWakeup(wakes, @, 1)]
  /\ cpu_remaining' = [cpu_remaining EXCEPT ![t] = OnWakeup(wakes, @, Reserve[t])]
  /\ task_state' = [task_state EXCEPT ![t] = IF runs THEN "READY" ELSE @]
  /\ readyQ' = IF runs
               THEN AddToReadyQ(readyQ, t, Prio, elevated_prio_flag, task_prio_ceil)
               ELSE readyQ
  /\ next_wake' = IF suspended /\ wakeup # 0 THEN Least(next_wake, wakeup)
                                              ELSE next_wake
  /\ task_ID' = t + 1
  /\ mode' = IF t = NumTasks THEN "dispatch" ELSE "scan"
  /\ UNCHANGED <<registered_signal_mask, ceilVars, timerVars, nrk_cur_task,
                 callVars, objectVars>>

-----------------------------------------------------------------------------

\* How long the idle task may run before the next pass, leaving the time the
\* processor needs to come out of power-down.
IdleWakeup(nw) ==
  IF ~PowerDown THEN Least(nw, MaxWakeup)
  ELSE IF nw <= SleepWakeup THEN nw
  ELSE IF nw - SleepWakeup < MaxWakeup
       THEN IF nw - SleepWakeup < SleepWakeup THEN SleepWakeup - 1
                                              ELSE nw - SleepWakeup
  ELSE IF nw > SleepWakeup + MaxWakeup THEN MaxWakeup
  ELSE MaxWakeup - SleepWakeup

\* Fault: the next pass does not come when the reserve of the task ends.
WakeupOfOthers(t, nw) ==
  IF t = Idle THEN IdleWakeup(nw) ELSE Least(nw, MaxWakeup)

\* How long task t may run before the next pass.
TaskWakeup(t, nw) ==
  IF t = Idle THEN IdleWakeup(nw)
  ELSE IF Reserve[t] # 0 /\ cpu_remaining[t] < MaxWakeup
       THEN Least(nw, cpu_remaining[t])
  ELSE Least(nw, MaxWakeup)

\* Fault: the counter may already be past the next wakeup.
Unchecked(due) == due

\* When the moment of the next pass has already gone by, it comes two ticks
\* from now.
NextPass(due) == IF os_timer + 1 >= due THEN os_timer + 2 ELSE due

\* The end of the pass: the head of the queue runs, and the timer is set to
\* the end of its time.
SchedDispatch ==
  LET t == Head(readyQ)
      at == NextPass(TaskWakeup(t, next_wake))
  IN
  /\ mode = "dispatch"
  /\ nrk_cur_task' = t
  /\ prev_timer_val' = at % TimerWrap
  /\ SetNextWakeup(at)
  /\ cpu_state' = IF t # Idle THEN "ACTIVE" ELSE cpu_state
  /\ int_enabled' = TRUE
  /\ mode' = "task" /\ task_ID' = 0 /\ next_wake' = Far /\ section_ticks' = 0
  /\ UNCHANGED <<os_timer, compare_irq, tcbVars, callVars, objectVars, readyQ>>

=============================================================================
