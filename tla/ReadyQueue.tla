----------------------------- MODULE ReadyQueue -----------------------------
(***************************************************************************)
(* The ready queue of the Nano-RK kernel as a sequence of task IDs, head   *)
(* first.  The kernel keeps it as a doubly linked list carved out of the   *)
(* array _nrk_readyQ; module ReadyList models those nodes and is checked   *)
(* to implement the two operators below.                                   *)
(*                                                                         *)
(* A larger task_prio is more urgent: the walk stops at the first node     *)
(* whose priority is smaller, and the idle task has priority 0.            *)
(***************************************************************************)
EXTENDS Naturals, Sequences, SequencesExt

CONSTANT QueueSlots     \* nodes of _nrk_readyQ, NRK_MAX_TASKS + 1 in the code

ASSUME QueueSlotsAssumption == QueueSlots \in Nat \ {0}

-----------------------------------------------------------------------------

\* Fault: a smaller number is more urgent, as nrk_task.h says it is.
SmallerFirst(t, n, prio, elevated, ceil) == prio[n] = 0 \/ prio[t] < prio[n]

\* The walk of nrk_add_to_readyQ stops at a node holding task n when task t
\* goes in front of it: n holds a semaphore with a lower ceiling than t's
\* priority, t holds one with a ceiling above n, or t outranks n.
GoesBefore(t, n, prio, elevated, ceil) ==
  \/ elevated[n] /\ ceil[n] < prio[t]
  \/ elevated[t] /\ prio[n] < ceil[t]
  \/ prio[n] < prio[t]

StopNodes(q, t, prio, elevated, ceil) ==
  {i \in 1..Len(q) : GoesBefore(t, q[i], prio, elevated, ceil)}

\* Fault: the node goes behind the one the walk stopped at.
AddBehind(q, t, prio, elevated, ceil) ==
  LET stops == StopNodes(q, t, prio, elevated, ceil)
  IN  IF q = <<>> \/ stops = {} THEN <<t>> ELSE InsertAt(q, Min(stops) + 1, t)

\* nrk_add_to_readyQ.  A full queue drops the task without telling anyone.
\* When the walk runs off the end of a queue that is not empty, the code
\* dereferences NextNode = NULL and the list is lost: the empty sequence
\* stands for that outcome, and IdleIsLast shows that it never happens.
AddToReadyQ(q, t, prio, elevated, ceil) ==
  LET stops == StopNodes(q, t, prio, elevated, ceil)
  IN  IF Len(q) >= QueueSlots THEN q
      ELSE IF q = <<>> THEN <<t>>
      ELSE IF stops = {} THEN <<>>
      ELSE InsertAt(q, Min(stops), t)

\* Fault: the search starts behind the head.
RemBehindHead(q, t) ==
  LET nodes == {i \in 2..Len(q) : q[i] = t}
  IN  IF nodes = {} THEN q ELSE RemoveAt(q, Min(nodes))

\* nrk_rem_from_readyQ unlinks the first node that holds t, if there is one.
RemFromReadyQ(q, t) ==
  LET nodes == {i \in 1..Len(q) : q[i] = t}
  IN  IF nodes = {} THEN q ELSE RemoveAt(q, Min(nodes))

Occurrences(q, t) == Cardinality({i \in 1..Len(q) : q[i] = t})

=============================================================================
