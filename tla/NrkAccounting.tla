---------------------------- MODULE NrkAccounting ----------------------------
(***************************************************************************)
(* What the kernel accounts for against what really happened.  A pass adds *)
(* _nrk_prev_timer_val to nrk_system_time, takes it off every task's       *)
(* next_wakeup and next_period and charges it to the task that ran,        *)
(* whatever the counter did.                                               *)
(***************************************************************************)
EXTENDS NrkKernel

VARIABLES
  unaccounted,   \* ticks of the timer cycles that ended since the first pass,
                 \* less the ticks the passes accounted for
  used,          \* ticks each task with a reserve ran since the scheduler last
                 \* gave it its full cpu_reserve; the first cycle after nrk_start
                 \* is left out, for which the first pass charges nothing
  elapsed,       \* time charged since the start, modulo the period of the task
  overtaken      \* tasks whose next_period a pass came too late for

accountingVars == <<vars, unaccounted, used, elapsed, overtaken>>

Periodic == {t \in UserTask : Period[t] # 0}

AccountingInit ==
  /\ Init
  /\ unaccounted = 0 /\ used = [t \in UserTask |-> 0]
  /\ elapsed = [t \in Periodic |-> 0] /\ overtaken = {}

\* A pass can come two ticks late; used counts one tick further, to UsedBound.
Lateness == 2
UsedBound(t) == Reserve[t] + Lateness + 1

\* A tick really goes by, during which the running task has the processor.
Elapse ==
  /\ Tick
  /\ unaccounted' = unaccounted + (IF os_timer = ocr2a THEN ocr2a + 1 ELSE 0)
  /\ used' = [t \in UserTask |->
       IF mode = "task" /\ t = nrk_cur_task /\ Reserve[t] # 0 /\ prev_timer_val # 0
       THEN Least(used[t] + 1, UsedBound(t)) ELSE used[t]]
  /\ UNCHANGED <<elapsed, overtaken>>

\* The update of nrk_system_time at the start of the pass.  Time begins with
\* the first pass, which finds the 0 that _nrk_os_timer_reset stored.
Account ==
  /\ SchedBegin
  /\ unaccounted' = IF prev_timer_val = 0 THEN 0 ELSE unaccounted - prev_timer_val
  /\ elapsed' = [t \in Periodic |-> (elapsed[t] + prev_timer_val) % Period[t]]
  /\ overtaken' = overtaken \cup {t \in Periodic : next_period[t] < prev_timer_val}
  /\ UNCHANGED used

\* SchedScan replenishes the reserve of every task it wakes.
Replenish ==
  /\ SchedScan
  /\ used' = [t \in UserTask |->
       IF t = task_ID /\ task_state[t] = "SUSPENDED"
            /\ Monus(next_wakeup[t], prev_timer_val) = 0 THEN 0 ELSE used[t]]
  /\ UNCHANGED <<unaccounted, elapsed, overtaken>>

AccountingNext ==
  \/ Elapse \/ Account \/ Replenish
  \/ /\ \/ SchedDispatch \/ Start \/ IdleTask
        \/ \E t \in UserTask : Activate(t) \/ InWait(t) \/ TaskCall(t)
     /\ UNCHANGED <<unaccounted, used, elapsed, overtaken>>

AccountingSpec == AccountingInit /\ [][AccountingNext]_accountingVars
FairAccountingSpec == AccountingSpec /\ Fairness

-----------------------------------------------------------------------------

\* No pass loses a tick and none invents one: after it, exactly the ticks that
\* went by are in the clock and off the remaining time of every wait.
NoTickLost == mode = "dispatch" => unaccounted = 0

\* A task with a reserve runs at most that long between two replenishments,
\* plus the ticks by which a pass can come late.
BudgetHeld ==
  \A t \in UserTask : Reserve[t] # 0 => used[t] <= Reserve[t] + Lateness

\* The periods of a task start at its offset and follow one another without a
\* shift, whatever waits it and the others make in between and however many
\* periods it skips, as long as no pass comes later than its next_period and no
\* nrk_set_next_wakeup cuts a wait for several periods short.
PeriodKept ==
  mode = "dispatch" =>
    \A t \in Periodic \ overtaken :
      task_state[t] # "FINISHED" =>
        (next_period[t] + elapsed[t] - Offset[t]) % Period[t] = 0

=============================================================================
