------------------------------ MODULE NrkKernel ------------------------------
(***************************************************************************)
(* The Nano-RK kernel: boot, the timer and the scheduler, and a set of     *)
(* tasks whose programs make any sequence of the calls that Calls gives    *)
(* them, at any moment.                                                    *)
(***************************************************************************)
EXTENDS NrkEvents

\* After nrk_init, and main has created its signals and semaphores: the idle
\* task is alone in the ready queue.
Init ==
  /\ task_state = [t \in Task |-> IF t = Idle THEN "READY" ELSE "UNUSED"]
  /\ suspend_flag = [t \in Task |-> FALSE]
  /\ event_suspend = [t \in Task |-> 0]
  /\ nw_flag = [t \in Task |-> FALSE]
  /\ active_signal_mask = [t \in Task |-> {}]
  /\ registered_signal_mask = [t \in Task |-> {}]
  /\ next_wakeup = [t \in Task |-> 0]
  /\ next_period = [t \in Task |-> 0]
  /\ cpu_remaining = [t \in Task |-> 0]
  /\ num_periods = [t \in Task |-> 1]
  /\ elevated_prio_flag = [t \in Task |-> FALSE]
  /\ task_prio_ceil = [t \in Task |-> 0]
  /\ readyQ = AddToReadyQ(<<>>, Idle, Prio, elevated_prio_flag, task_prio_ceil)
  /\ nrk_cur_task = Idle
  /\ nrk_signal_list = {WakeupSignal} \cup BootSignals
  /\ sem_value = SemCount
  /\ os_timer = 0 /\ ocr2a = 0 /\ compare_irq = FALSE /\ int_enabled = FALSE
  /\ prev_timer_val = 0 /\ cpu_state = "ACTIVE" /\ section_ticks = 0
  /\ mode = "boot" /\ task_ID = 1 /\ next_wake = Far
  /\ pc = [t \in Task |-> "user"]
  /\ op = [t \in Task |-> "none"]
  /\ arg = [t \in Task |-> 0]
  /\ loaded = [t \in Task |-> 0]

\* The scheduler pass.
Scheduler == SchedBegin \/ SchedScan \/ SchedDispatch

\* What goes on inside a blocking call once a task has made it.
InWait(t) ==
  \/ BlockingWait(t) \/ ArmWait(t) \/ EnterIdle(t) \/ CheckFlag(t)
  \/ TerminateFinish(t) \/ SemTakeLoad(t)

\* The calls of nrk_task.c and the signal calls of nrk_events.c.
TaskCall(t) ==
  \/ Wait(t) \/ SetNextWakeupCall(t) \/ TerminateRemove(t)
  \/ SignalCreate(t) \/ SignalDelete(t)
  \/ SignalRegister(t) \/ SignalUnregister(t)
  \/ EventSignal(t) \/ EventWait(t)

SemCall(t) ==
  \E s \in Sems : SemPendFree(t, s) \/ SemPendBlock(t, s) \/ SemPost(t, s)

Next ==
  \/ Tick \/ Scheduler \/ Start \/ IdleTask \/ IsrSignal
  \/ \E t \in UserTask :
       \/ Activate(t) \/ InWait(t) \/ SemTakeStore(t) \/ SemRelease(t)
       \/ TaskCall(t) \/ SemCall(t)

Spec == Init /\ [][Next]_vars

\* The timer counts, and the processor goes on executing kernel code whenever
\* it is in it: a task whose steps passes interrupt again and again still gets
\* on, for a tick is a thousand instructions long.  Nothing is assumed of the
\* application: a task may compute for ever, and an interrupt handler need not
\* raise its signal.
Fairness ==
  /\ WF_vars(Tick) /\ WF_vars(Scheduler) /\ WF_vars(Start) /\ WF_vars(IdleTask)
  /\ \A t \in UserTask :
       SF_vars(Activate(t) \/ InWait(t) \/ SemTakeStore(t) \/ SemRelease(t))

FairSpec == Spec /\ Fairness

-----------------------------------------------------------------------------

Live == mode = "task"

\* The idle task stays at the very end of the ready queue, once.  The head
\* that nrk_get_high_ready_task_ID reads without a test is then never NULL,
\* and neither is the node nrk_add_to_readyQ inserts before.
IdleIsLast ==
  /\ readyQ # <<>>
  /\ \A i \in 1..Len(readyQ) : readyQ[i] = Idle <=> i = Len(readyQ)

\* The counter never runs past its compare value, where the next interrupt
\* would come only after it wraps: every place that writes OCR2A while the
\* counter runs (a wait, a late pass, the idle task's deadline) leaves it ahead.
CompareAhead == Live => os_timer <= ocr2a

\* Between passes a task is in the ready queue exactly when it is READY, and
\* then in one node: nrk_add_to_readyQ does not look for a node the task
\* already has, and nrk_rem_from_readyQ removes only the first.
ReadyIsQueuedOnce ==
  Live => \A t \in UserTask :
            Occurrences(readyQ, t) =
              IF task_state[t] = "READY" /\ pc[t] # "removed" THEN 1 ELSE 0

\* Application code of a task runs only when no READY task outranks it, however
\* the waits, the reserves and the wakeups of all tasks fell.  The larger task_prio
\* outranks, as nrk_add_to_readyQ and the idle task with its 0 have it; the comment
\* at nrk_task.h:60, "0 == highest, 63 == lowest", says the opposite.
HighestReadyRuns ==
  Live /\ nrk_cur_task \in UserTask /\ pc[nrk_cur_task] = "user" =>
    \A t \in Task : task_state[t] = "READY" => Prio[t] <= Prio[nrk_cur_task]

\* A signal or a post that reaches a blocked task makes it due at the very
\* next pass: a task that is still SUSPENDED in its blocking call although the
\* event it waited for was taken from it has no time left to wait.
SignalledIsDue ==
  \A t \in UserTask :
    task_state[t] = "SUSPENDED" /\ op[t] \in {"event", "event_nw", "pend"}
      /\ event_suspend[t] = 0 => next_wakeup[t] = 0

\* Back in the application, a task waits for nothing: nrk_event_signal and
\* nrk_sem_post suspend whatever task event_suspend names, running or not.
NothingPending ==
  \A t \in UserTask : pc[t] = "user" => event_suspend[t] = 0

\* nrk_event_wait returns exactly one signal, the one that ended the wait, and
\* the wakeup signal only to a task that waited for it too.
WaitReturnsOneSignal ==
  \A t \in UserTask :
    At(t, "check") /\ ~suspend_flag[t] /\ op[t] \in {"event", "event_nw"} =>
      /\ Cardinality(active_signal_mask[t]) = 1
      /\ WakeupSignal \in active_signal_mask[t] => op[t] = "event_nw"

\* No task is parked on a semaphore that could be taken.
NoStrandedWaiter ==
  \A t \in UserTask, s \in Sems :
    /\ task_state[t] = "EVENT_SUSPENDED" /\ event_suspend[t] = RSRC_EVENT
    /\ arg[t] = s
    => sem_value[s] <= 0

\* The value of a semaphore stays between 0 and its count, although
\* nrk_sem_pend and nrk_sem_post both test it at one time and change it at
\* another, with passes and the calls of other tasks in between.
ValueInRange == \A s \in Sems : sem_value[s] \in 0..SemCount[s]

-----------------------------------------------------------------------------

Waits == INSTANCE EventWait

\* Task t as the modules beside the kernel see it.
Blocking(t) ==
  [task_state |-> task_state[t],
   event |-> IF event_suspend[t] = SIG_EVENT THEN "signal" ELSE Waits!NoEvent,
   nodes |-> Occurrences(readyQ, t)]

\* EventWait says all there is to say of a task that waits for time and for signals:
\* a pass parks it just when it asked for that and wakes it just when it is suspended
\* and due, and whatever else is done to it, while it waits, computes or is between
\* the two, is to note an event or to be signalled.  As long as no signal is deleted.
WaitsLikeEventWait ==
  [][mode # "boot" /\ nrk_signal_list' = nrk_signal_list =>
       \A t \in UserTask :
         LET b == Blocking(t)
             due == task_ID = t /\ next_wakeup[t] <= prev_timer_val
         IN
         CASE mode = "task" /\ mode' = "scan" ->
                Blocking(t)' = IF suspend_flag[t] THEN Waits!Parked(b) ELSE b
           [] mode = "scan" ->
                Blocking(t)' = IF due THEN Waits!Woken(b, Len(readyQ) < QueueSlots) ELSE b
           [] OTHER ->
                Blocking(t)' \in {b, Waits!Noted(b, "signal"),
                                  Waits!Signalled(b, "signal")}]_vars

-----------------------------------------------------------------------------

\* A task that waits for time wakes up, whatever the other tasks do.
SuspendedWakesUp ==
  \A t \in UserTask : task_state[t] = "SUSPENDED" ~> task_state[t] = "READY"

\* The reserve of a task protects the tasks below it: a READY task gets the
\* processor, or is no longer READY, even though the tasks above it never give
\* it up themselves.
ReadyTaskRuns ==
  \A t \in UserTask :
    Live /\ task_state[t] = "READY" ~> nrk_cur_task = t \/ task_state[t] # "READY"

\* Once its signal has come, a task returns from nrk_event_wait, even when the
\* signal came between the moment the task noted the event and its wait.
SignalledReturns ==
  \A t \in UserTask :
    op[t] \in {"event", "event_nw"} /\ event_suspend[t] = 0 ~> op[t] = "none"

\* Once the semaphore it waits for has been posted, a task returns from
\* nrk_sem_pend.
PostedReturns ==
  \A t \in UserTask : op[t] = "pend" /\ event_suspend[t] = 0 ~> op[t] = "none"

=============================================================================
