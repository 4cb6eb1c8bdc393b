------------------------------ MODULE NrkMutex ------------------------------
(***************************************************************************)
(* Tasks that use semaphores as the examples and the network stack do: a   *)
(* task pends a semaphore it does not hold and posts one it holds.  holds  *)
(* is what the tasks themselves know: the semaphores nrk_sem_pend returned *)
(* from and nrk_sem_post did not yet release.                              *)
(***************************************************************************)
EXTENDS NrkKernel

VARIABLE holds

MutexInit == Init /\ holds = [t \in UserTask |-> {}]

\* nrk_sem_pend and nrk_sem_post, called in turn.
Take(t) ==
  \/ \E s \in Sems \ holds[t] :
       \/ SemPendFree(t, s) /\ holds' = [holds EXCEPT ![t] = @ \cup {s}]
       \/ SemPendBlock(t, s) /\ UNCHANGED holds
  \/ SemTakeStore(t) /\ holds' = [holds EXCEPT ![t] = @ \cup {arg[t]}]

Release(t) ==
  \/ \E s \in holds[t] : SemPost(t, s) /\ UNCHANGED holds
  \/ SemRelease(t) /\ holds' = [holds EXCEPT ![t] = @ \ {arg[t]}]

MutexNext ==
  \/ \E t \in UserTask : Take(t) \/ Release(t)
  \/ /\ \/ Tick \/ Scheduler \/ Start \/ IdleTask
        \/ \E t \in UserTask : Activate(t) \/ InWait(t) \/ TaskCall(t)
     /\ UNCHANGED holds

MutexSpec == MutexInit /\ [][MutexNext]_<<vars, holds>>

-----------------------------------------------------------------------------

\* A semaphore created with count n is held by at most n tasks.
MutualExclusion ==
  \A s \in Sems : Cardinality({t \in UserTask : s \in holds[t]}) <= SemCount[s]

=============================================================================
