--------------------------- MODULE ReadyQueueSpec ---------------------------
(***************************************************************************)
(* What the kernel relies on in its ready queue: a sequence that only the  *)
(* two operators of ReadyQueue change, behind an idle task that stays.     *)
(***************************************************************************)
EXTENDS ReadyQueue

CONSTANTS User,      \* the tasks that come and go
          Priority,  \* of every task, and 0 of the idle task
          Ceiling    \* of the semaphore a task may hold

VARIABLE queue

\* elevated_prio_flag when the tasks in holders hold a semaphore.
Elevated(holders) == [t \in {0} \cup User |-> t \in holders]

QInit == queue = <<0>>

QNext ==
  \/ \E t \in User, holders \in SUBSET User :
       queue' = AddToReadyQ(queue, t, Priority, Elevated(holders), Ceiling)
  \/ \E t \in User : queue' = RemFromReadyQ(queue, t)

QSpec == QInit /\ [][QNext]_queue

=============================================================================
