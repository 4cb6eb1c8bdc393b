------------------------------- MODULE NrkTask -------------------------------
(***************************************************************************)
(* The start of the system and the calls a task makes on itself: the waits *)
(* of nrk_task.c, nrk_set_next_wakeup and nrk_terminate_task, and the loop *)
(* of the idle task.                                                       *)
(*                                                                         *)
(* Every wait has the same shape.  With interrupts off it sets the         *)
(* suspend_flag (BeginWait), reads the timer and asks for a pass TIME_PAD  *)
(* ticks from now (ArmWait); a tick may fall between the two.  Then, with  *)
(* interrupts on, it sleeps in _nrk_wait_for_scheduler until a pass has    *)
(* cleared the flag (EnterIdle, CheckFlag).                                *)
(***************************************************************************)
EXTENDS NrkScheduler

\* The processor executes task t, no interrupt is about to be served and t is
\* at control point p.
At(t, p) ==
  mode = "task" /\ nrk_cur_task = t /\ pc[t] = p /\ ~InterruptTaken

\* A blocking call returns to the application; its locals are gone.
Return(t) ==
  /\ pc' = [pc EXCEPT ![t] = "user"]
  /\ op' = [op EXCEPT ![t] = "none"] /\ arg' = [arg EXCEPT ![t] = 0]

MayCall(t, c) == At(t, "user") /\ c \in Calls[t]

-----------------------------------------------------------------------------

\* nrk_activate_task, called by main for each task in turn before nrk_start;
\* nrk_TCB_init numbers the tasks in that order.
Activate(t) ==
  /\ mode = "boot" /\ task_ID = t /\ t \in UserTask
  /\ task_ID' = t + 1
  /\ task_state' = [task_state EXCEPT ![t] =
                      IF Offset[t] = 0 THEN "READY" ELSE "SUSPENDED"]
  /\ suspend_flag' = [suspend_flag EXCEPT ![t] = FALSE]
  /\ next_wakeup' = [next_wakeup EXCEPT ![t] = Offset[t]]
  /\ next_period' = [next_period EXCEPT ![t] = Period[t] + Offset[t]]
  /\ cpu_remaining' = [cpu_remaining EXCEPT ![t] = Reserve[t]]
  /\ num_periods' = [num_periods EXCEPT ![t] = 1]
  /\ readyQ' = IF Offset[t] = 0
               THEN AddToReadyQ(readyQ, t, Prio, elevated_prio_flag, task_prio_ceil)
               ELSE readyQ
  /\ UNCHANGED <<blockVars, registered_signal_mask, ceilVars, timerVars, mode,
                 next_wake, nrk_cur_task, callVars, objectVars>>

\* nrk_start.  _nrk_setup_timer loads OCR2A and resets the counter, and with
\* it _nrk_prev_timer_val.
Start ==
  /\ mode = "boot" /\ task_ID = NumTasks + 1
  /\ nrk_cur_task' = Head(readyQ)
  /\ ocr2a' = StartCompare /\ os_timer' = 0 /\ prev_timer_val' = 0
  /\ int_enabled' = TRUE
  /\ mode' = "task" /\ task_ID' = 0
  /\ UNCHANGED <<tcbVars, readyQ, compare_irq, cpu_state, section_ticks,
                 next_wake, callVars, objectVars>>

-----------------------------------------------------------------------------

\* Interrupts off, suspend_flag set, and what the call stores besides.
BeginWait(t, call, n) ==
  /\ int_enabled' = FALSE /\ section_ticks' = 0
  /\ suspend_flag' = [suspend_flag EXCEPT ![t] = TRUE]
  /\ nw_flag' = [nw_flag EXCEPT ![t] = @ \/ call \in {"until_nw", "event_nw"}]
  /\ num_periods' = [num_periods EXCEPT ![t] =
       IF call \in {"next_period", "wait", "terminate"} THEN 1
       ELSE IF call = "n_periods" THEN (IF n = 0 THEN 1 ELSE n)
       ELSE @]
  /\ pc' = [pc EXCEPT ![t] = "section"]
  /\ op' = [op EXCEPT ![t] = call] /\ arg' = [arg EXCEPT ![t] = n]
  /\ UNCHANGED <<task_state, event_suspend, active_signal_mask,
                 registered_signal_mask, next_wakeup, next_period,
                 cpu_remaining, ceilVars, readyQ, os_timer, ocr2a, compare_irq,
                 prev_timer_val, cpu_state, passVars, loaded, objectVars>>

\* A wait the application calls itself.
Wait(t) ==
  \E call \in WaitCall \cap Calls[t] :
    \E n \in CASE call \in {"wait_ticks", "until_ticks", "wait"} -> TickArgs
               [] call = "n_periods" -> PeriodArgs
               [] OTHER -> {0} :
      MayCall(t, call) /\ BeginWait(t, call, n)

\* The wait inside nrk_event_wait, nrk_sem_pend and nrk_terminate_task.
BlockingWait(t) == At(t, "marked") /\ BeginWait(t, op[t], arg[t])

\* Fault: the pass comes early but is still charged the time of the late one.
ForwardTimer(near) == SetNextWakeup(near) /\ UNCHANGED prev_timer_val

\* The next pass is brought forward, and is to account for that time only.
BringForward(near) == SetNextWakeup(near) /\ prev_timer_val' = near

\* The timer is read, the wakeup stored and the next pass brought forward.
ArmWait(t) ==
  LET near == os_timer + TimePad
      early == os_timer < MaxWakeup - TimePad /\ near <= GetNextWakeup
  IN
  /\ mode = "task" /\ nrk_cur_task = t /\ pc[t] = "section"
  /\ next_wakeup' = [next_wakeup EXCEPT ![t] =
       CASE op[t] \in {"wait_ticks", "wait"} -> arg[t] + os_timer
         [] op[t] = "until_ticks"            -> arg[t]
         [] op[t] \in {"event", "pend"}      -> 0
         [] OTHER                            -> @]
  /\ IF early THEN BringForward(near) ELSE UNCHANGED <<prev_timer_val, ocr2a>>
  /\ int_enabled' = TRUE /\ section_ticks' = 0
  /\ pc' = [pc EXCEPT ![t] = "idle"]
  /\ UNCHANGED <<task_state, suspend_flag, blockVars, registered_signal_mask,
                 next_period, cpu_remaining, num_periods, ceilVars, readyQ,
                 os_timer, compare_irq, cpu_state, passVars, op, arg, loaded,
                 objectVars>>

\* nrk_idle: the processor halts until an interrupt.
EnterIdle(t) ==
  /\ At(t, "idle")
  /\ pc' = [pc EXCEPT ![t] = "asleep"]
  /\ UNCHANGED <<tcbVars, readyQ, timerVars, passVars, op, arg, loaded,
                 objectVars>>

\* The loop condition of _nrk_wait_for_scheduler.
CheckFlag(t) ==
  /\ At(t, "check")
  /\ IF suspend_flag[t]
     THEN pc' = [pc EXCEPT ![t] = "idle"] /\ UNCHANGED <<op, arg>>
     ELSE IF op[t] = "pend"
     THEN pc' = [pc EXCEPT ![t] = "take"] /\ UNCHANGED <<op, arg>>
     ELSE Return(t)
  /\ UNCHANGED <<tcbVars, readyQ, timerVars, passVars, loaded, objectVars>>

-----------------------------------------------------------------------------

\* nrk_set_next_wakeup.  For a time within TIME_PAD it returns NRK_ERROR and
\* leaves the interrupts off.
SetNextWakeupCall(t) ==
  \E n \in TickArgs :
    /\ MayCall(t, "set_next_wakeup")
    /\ IF n <= TimePad
       THEN int_enabled' = FALSE /\ UNCHANGED next_wakeup
       ELSE /\ int_enabled' = TRUE
            /\ next_wakeup' = [next_wakeup EXCEPT ![t] = n + os_timer]
    /\ UNCHANGED <<task_state, suspend_flag, blockVars, registered_signal_mask,
                   next_period, cpu_remaining, num_periods, ceilVars, readyQ,
                   os_timer, ocr2a, compare_irq, prev_timer_val, cpu_state,
                   section_ticks, passVars, callVars, objectVars>>

\* nrk_terminate_task: out of the queue, then FINISHED, then a wait.  The
\* interrupts are on, so a pass may run between the first two.
TerminateRemove(t) ==
  /\ MayCall(t, "terminate")
  /\ readyQ' = RemFromReadyQ(readyQ, t)
  /\ pc' = [pc EXCEPT ![t] = "removed"]
  /\ UNCHANGED <<tcbVars, timerVars, passVars, op, arg, loaded, objectVars>>

TerminateFinish(t) ==
  /\ At(t, "removed")
  /\ task_state' = [task_state EXCEPT ![t] = "FINISHED"]
  /\ pc' = [pc EXCEPT ![t] = "marked"]
  /\ op' = [op EXCEPT ![t] = "terminate"] /\ arg' = [arg EXCEPT ![t] = 0]
  /\ UNCHANGED <<suspend_flag, blockVars, registered_signal_mask, timingVars,
                 ceilVars, readyQ, timerVars, passVars, loaded, objectVars>>

\* nrk_idle_task: a light sleep when the next pass is near, else power-down,
\* unless the build forbids it.
IdleTask ==
  /\ At(Idle, "user")
  /\ cpu_state' = IF GetNextWakeup <= SleepWakeup THEN "IDLE"
                   ELSE IF PowerDown THEN "SLEEP" ELSE cpu_state
  /\ pc' = [pc EXCEPT ![Idle] = "asleep"]
  /\ UNCHANGED <<tcbVars, readyQ, os_timer, ocr2a, compare_irq, int_enabled,
                 prev_timer_val, section_ticks, passVars, op, arg, loaded,
                 objectVars>>

=============================================================================
