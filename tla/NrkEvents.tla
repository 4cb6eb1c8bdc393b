------------------------------ MODULE NrkEvents ------------------------------
(***************************************************************************)
(* Signals and counting semaphores, nrk_events.c.                          *)
(*                                                                         *)
(* Both block a task with event_suspend and active_signal_mask, noted      *)
(* before the wait's interrupt-free section begins (control point          *)
(* "marked"), so other tasks and interrupt handlers can run in between.    *)
(***************************************************************************)
EXTENDS NrkTask

\* Fault: the time a woken task still had to wait is left standing.
NotDue(woken) == next_wakeup

\* Fault: a woken task stays EVENT_SUSPENDED.
NotResumed(woken) == task_state

\* What a signal or a post does to the tasks it wakes.
Due(woken) == [u \in Task |-> IF u \in woken THEN 0 ELSE next_wakeup[u]]
Resumed(woken) ==
  [u \in Task |-> IF u \in woken THEN "SUSPENDED" ELSE task_state[u]]
Unblocked(woken) == [u \in Task |-> IF u \in woken THEN 0 ELSE event_suspend[u]]

\* The bits SIG(0) .. SIG(s).
UpTo(s) == {b \in SignalBit : b <= s}

-----------------------------------------------------------------------------

\* nrk_signal_create: the lowest free bit.
SignalCreate(t) ==
  \E s \in Signals \cup {WakeupSignal} :
    /\ MayCall(t, "signal_create")
    /\ s \notin nrk_signal_list
    /\ \A r \in Signals \cup {WakeupSignal} : r < s => r \in nrk_signal_list
    /\ nrk_signal_list' = nrk_signal_list \cup {s}
    /\ UNCHANGED <<tcbVars, readyQ, timerVars, passVars, callVars, sem_value>>

\* nrk_signal_delete.  SIG(x) is not parenthesised, so ~SIG(x) is (~1) << x and
\* the list loses every signal up to x.
SignalDelete(t) ==
  \E s \in Signals :
    LET waiters == {u \in Task : registered_signal_mask[u] = {s}} IN
    /\ MayCall(t, "signal_delete")
    /\ s \in nrk_signal_list
    /\ event_suspend' = Unblocked(waiters)
    /\ task_state' = Resumed(waiters)
    /\ registered_signal_mask' = [u \in Task |-> registered_signal_mask[u] \ {s}]
    /\ active_signal_mask' = [u \in Task |->
         IF u \in waiters THEN {} ELSE active_signal_mask[u] \ {s}]
    /\ nrk_signal_list' = nrk_signal_list \ UpTo(s)
    /\ int_enabled' = TRUE
    /\ UNCHANGED <<suspend_flag, nw_flag, timingVars, ceilVars, readyQ, os_timer,
                   ocr2a, compare_irq, prev_timer_val, cpu_state, section_ticks,
                   passVars, callVars, sem_value>>

\* nrk_signal_register; the wakeup signal is registered like any other.
SignalRegister(t) ==
  \E s \in Signals \cup {WakeupSignal} :
    /\ MayCall(t, "signal_register")
    /\ s \in nrk_signal_list
    /\ registered_signal_mask' = [registered_signal_mask EXCEPT ![t] = @ \cup {s}]
    /\ UNCHANGED <<task_state, suspend_flag, blockVars, timingVars, ceilVars,
                   readyQ, timerVars, passVars, callVars, objectVars>>

\* nrk_signal_unregister
SignalUnregister(t) ==
  \E s \in registered_signal_mask[t] :
    /\ MayCall(t, "signal_unregister")
    /\ registered_signal_mask' = [registered_signal_mask EXCEPT ![t] = @ \ {s}]
    /\ active_signal_mask' = [active_signal_mask EXCEPT ![t] = @ \ {s}]
    /\ UNCHANGED <<task_state, suspend_flag, event_suspend, nw_flag, timingVars,
                   ceilVars, readyQ, timerVars, passVars, callVars, objectVars>>

-----------------------------------------------------------------------------

\* The tasks nrk_event_signal wakes: those waiting for a set of signals that
\* holds s, and those whose semaphore index happens to equal SIG(s).
SignalWaiters(s) ==
  {u \in Task : event_suspend[u] = SIG_EVENT /\ s \in active_signal_mask[u]}
SemWaitersTakenFor(s) ==
  {u \in Task : event_suspend[u] = RSRC_EVENT /\ active_signal_mask[u] = {s}}

\* The interrupt-free loop of nrk_event_signal.
RaiseSignal(s) ==
  LET woken == SignalWaiters(s) \cup SemWaitersTakenFor(s) IN
  /\ task_state' = Resumed(woken)
  /\ next_wakeup' = Due(woken)
  /\ event_suspend' = Unblocked(woken)
  /\ active_signal_mask' = [u \in Task |->
       IF u \in SignalWaiters(s) THEN {s}
       ELSE IF u \in SemWaitersTakenFor(s) THEN {} ELSE active_signal_mask[u]]
  /\ int_enabled' = TRUE
  /\ UNCHANGED <<suspend_flag, nw_flag, registered_signal_mask, next_period,
                 cpu_remaining, num_periods, ceilVars, readyQ, os_timer, ocr2a,
                 compare_irq, prev_timer_val, cpu_state, section_ticks, passVars,
                 objectVars>>

\* nrk_event_signal called by a task: the scheduler is not run.  A program
\* raises the signals of its own, not the kernel's wakeup signal.
EventSignal(t) ==
  \E s \in nrk_signal_list \cap Signals :
    MayCall(t, "event_signal") /\ RaiseSignal(s) /\ UNCHANGED callVars

\* nrk_event_signal called by an interrupt handler, which also ends the sleep
\* of the task it interrupts.
IsrSignal ==
  \E s \in IsrSignals \cap nrk_signal_list :
    /\ mode = "task" /\ int_enabled
    /\ RaiseSignal(s)
    /\ pc' = [pc EXCEPT ![nrk_cur_task] =
                IF @ # "asleep" THEN @
                ELSE IF nrk_cur_task = Idle THEN "user" ELSE "check"]
    /\ UNCHANGED <<op, arg, loaded>>

\* nrk_event_wait up to its wait.  Without a registered signal in the mask it
\* returns 0 and changes nothing.
EventWait(t) ==
  \E m \in WaitMasks :
    /\ MayCall(t, "event_wait")
    /\ m \cap registered_signal_mask[t] # {}
    /\ active_signal_mask' = [active_signal_mask EXCEPT ![t] = m]
    /\ event_suspend' = [event_suspend EXCEPT ![t] = SIG_EVENT]
    /\ pc' = [pc EXCEPT ![t] = "marked"]
    /\ op' = [op EXCEPT ![t] = IF WakeupSignal \in m THEN "event_nw" ELSE "event"]
    /\ arg' = [arg EXCEPT ![t] = 0]
    /\ UNCHANGED <<task_state, suspend_flag, nw_flag, registered_signal_mask,
                   timingVars, ceilVars, readyQ, timerVars, passVars, loaded,
                   objectVars>>

-----------------------------------------------------------------------------

\* The caller now runs at the ceiling of the semaphore it took.
Raise(t, s) ==
  /\ task_prio_ceil' = [task_prio_ceil EXCEPT ![t] = SemCeiling[s]]
  /\ elevated_prio_flag' = [elevated_prio_flag EXCEPT ![t] = TRUE]

\* nrk_sem_pend that finds the semaphore free.
SemPendFree(t, s) ==
  /\ MayCall(t, "sem_pend") /\ sem_value[s] # 0
  /\ sem_value' = [sem_value EXCEPT ![s] = @ - 1]
  /\ Raise(t, s)
  /\ int_enabled' = TRUE
  /\ UNCHANGED <<task_state, suspend_flag, blockVars, registered_signal_mask,
                 timingVars, readyQ, os_timer, ocr2a, compare_irq,
                 prev_timer_val, cpu_state, section_ticks, passVars, callVars,
                 nrk_signal_list>>

\* nrk_sem_pend that finds it taken: the semaphore is noted, interrupts are
\* enabled again, and only then does the wait begin.
SemPendBlock(t, s) ==
  /\ MayCall(t, "sem_pend") /\ sem_value[s] = 0
  /\ event_suspend' = [event_suspend EXCEPT ![t] =
                         IF @ \in {SIG_EVENT, 3} THEN 3 ELSE RSRC_EVENT]
  /\ active_signal_mask' = [active_signal_mask EXCEPT ![t] = Mask(s)]
  /\ int_enabled' = TRUE
  /\ pc' = [pc EXCEPT ![t] = "marked"]
  /\ op' = [op EXCEPT ![t] = "pend"] /\ arg' = [arg EXCEPT ![t] = s]
  /\ UNCHANGED <<task_state, suspend_flag, nw_flag, registered_signal_mask,
                 timingVars, ceilVars, readyQ, os_timer, ocr2a, compare_irq,
                 prev_timer_val, cpu_state, section_ticks, passVars, loaded,
                 objectVars>>

\* After the wait nrk_sem_pend decrements the value without looking at it
\* again, with interrupts on: the load and the store are two steps.
SemTakeLoad(t) ==
  /\ At(t, "take")
  /\ loaded' = [loaded EXCEPT ![t] = sem_value[arg[t]]]
  /\ pc' = [pc EXCEPT ![t] = "store"]
  /\ UNCHANGED <<tcbVars, readyQ, timerVars, passVars, op, arg, objectVars>>

SemTakeStore(t) ==
  /\ At(t, "store")
  /\ sem_value' = [sem_value EXCEPT ![arg[t]] = loaded[t] - 1]
  /\ loaded' = [loaded EXCEPT ![t] = 0]
  /\ Raise(t, arg[t])
  /\ int_enabled' = TRUE
  /\ Return(t)
  /\ UNCHANGED <<task_state, suspend_flag, blockVars, registered_signal_mask,
                 timingVars, readyQ, os_timer, ocr2a, compare_irq,
                 prev_timer_val, cpu_state, section_ticks, passVars,
                 nrk_signal_list>>

\* Fault: the test against the count lets a full semaphore through.
SemPostFull(t, s) ==
  /\ MayCall(t, "sem_post") /\ sem_value[s] <= SemCount[s]
  /\ pc' = [pc EXCEPT ![t] = "posting"]
  /\ op' = [op EXCEPT ![t] = "post"] /\ arg' = [arg EXCEPT ![t] = s]
  /\ UNCHANGED <<tcbVars, readyQ, timerVars, passVars, loaded, objectVars>>

\* nrk_sem_post looks at the value with interrupts on ...
SemPost(t, s) ==
  /\ MayCall(t, "sem_post") /\ sem_value[s] < SemCount[s]
  /\ pc' = [pc EXCEPT ![t] = "posting"]
  /\ op' = [op EXCEPT ![t] = "post"] /\ arg' = [arg EXCEPT ![t] = s]
  /\ UNCHANGED <<tcbVars, readyQ, timerVars, passVars, loaded, objectVars>>

\* Fault: the index of the semaphore is taken for a signal number.
SigWaiters(s) ==
  {u \in Task : event_suspend[u] = RSRC_EVENT /\ active_signal_mask[u] = {s}}

SemWaiters(s) ==
  {u \in Task : event_suspend[u] = RSRC_EVENT /\ active_signal_mask[u] = Mask(s)}

\* ... and then, with interrupts off, increments it and makes every task that
\* waits for the semaphore wake up.
SemRelease(t) ==
  LET s == arg[t]
      woken == SemWaiters(s) IN
  /\ At(t, "posting")
  /\ sem_value' = [sem_value EXCEPT ![s] = @ + 1]
  /\ elevated_prio_flag' = [elevated_prio_flag EXCEPT ![t] = FALSE]
  /\ task_state' = Resumed(woken)
  /\ next_wakeup' = Due(woken)
  /\ event_suspend' = Unblocked(woken)
  /\ active_signal_mask' = [u \in Task |-> IF u \in woken THEN {}
                                           ELSE active_signal_mask[u]]
  /\ int_enabled' = TRUE
  /\ Return(t)
  /\ UNCHANGED <<suspend_flag, nw_flag, registered_signal_mask, next_period,
                 cpu_remaining, num_periods, task_prio_ceil, os_timer, ocr2a,
                 compare_irq, prev_timer_val, cpu_state, section_ticks, readyQ,
                 passVars, loaded, nrk_signal_list>>

=============================================================================
