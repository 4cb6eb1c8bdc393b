------------------------------ MODULE EventWait ------------------------------
(***************************************************************************)
(* What a wait, a signal and a pass do to one task: the fields of its task *)
(* control block, and the nodes it has in the ready queue, that decide     *)
(* whether it goes on.  For the modules that stand beside the kernel; that *)
(* the kernel modules treat a task like this is WaitsLikeEventWait.        *)
(***************************************************************************)
EXTENDS Naturals

\* Instead of the event a task has noted: event_suspend is 0.
NoEvent == "none"

TaskState == {"READY", "SUSPENDED", "EVENT_SUSPENDED"}

Runnable == [task_state |-> "READY", event |-> NoEvent, nodes |-> 1]

\* The task is in the ready queue, whatever its state.
Queued(b) == b.nodes > 0

\* nrk_event_wait, its first half: interrupts are on.
Noted(b, e) == [task_state |-> b.task_state, event |-> e, nodes |-> b.nodes]

\* The wait, and the pass it asks for.  Without an event it is a wait for time.
Parked(b) ==
  [task_state |-> IF b.event = NoEvent THEN "SUSPENDED" ELSE "EVENT_SUSPENDED",
   event |-> b.event,
   nodes |-> IF b.nodes = 0 THEN 0 ELSE b.nodes - 1]

\* nrk_event_signal looks at the event only: the task need not be parked.
Signalled(b, e) ==
  IF b.event = e
  THEN [task_state |-> "SUSPENDED", event |-> NoEvent, nodes |-> b.nodes] ELSE b

\* A pass that finds no time left to wait.  It adds a node, whether or not the task
\* has one, unless the pool is empty.
Woken(b, room) ==
  IF b.task_state = "SUSPENDED"
  THEN [task_state |-> "READY", event |-> NoEvent,
        nodes |-> IF room THEN b.nodes + 1 ELSE b.nodes]
  ELSE b

=============================================================================
