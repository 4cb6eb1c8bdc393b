--------------------------- MODULE NrkQueueProofs ---------------------------
(***************************************************************************)
(* The ready queue, the running task, signals and semaphores, for every    *)
(* task set in which a task is woken by tasks below it.                    *)
(*                                                                         *)
(* The kernel keeps who is READY twice, in task_state and in the queue,    *)
(* and who waits three times, in suspend_flag, in event_suspend and in the *)
(* control point of the task.  QueueInv relates the first pair, OK the     *)
(* others, and OrderInv says who runs: while a task that noted an event is *)
(* not parked yet, nobody whose signal it waits for.  None is inductive    *)
(* without the others.  A lemma for each action shows that it keeps all    *)
(* three.  SemInv, which builds on them, relates the value of a semaphore  *)
(* to what the tasks inside its calls know of it.                          *)
(***************************************************************************)
EXTENDS NrkKernelProofs, FiniteSetTheorems

\* Task t has a node in queue q; no task has two.
Holds(q, t) == \E i \in 1..Len(q) : q[i] = t
Distinct(q) == \A i, j \in 1..Len(q) : q[i] = q[j] => i = j

\* A queue that holds no task twice and t not at all has a node to spare.
LEMMA RoomForOne ==
  ASSUME NEW q \in Seq(Task), Distinct(q), NEW t \in Task, ~Holds(q, t)
  PROVE  Len(q) <= NumTasks
<1> DEFINE S == 1..Len(q)
           T == Task \ {t}
<1>1. IsFiniteSet(S) /\ Cardinality(S) = Len(q)
  <2>1. Len(q) \in Nat
    OBVIOUS
  <2>2. /\ IsFiniteSet(1..Len(q))
        /\ Cardinality(1..Len(q)) = IF 1 > Len(q) THEN 0 ELSE Len(q) - 1 + 1
    BY <2>1, FS_Interval
  <2> QED
    BY <2>1, <2>2
<1>2. IsFiniteSet(Task) /\ Cardinality(Task) = NumTasks + 1
  BY FS_Interval, TaskAssumption DEF Task
<1>3. IsFiniteSet(T) /\ Cardinality(T) = NumTasks
  <2>1. IsFiniteSet(Task \ {t}) /\ Cardinality(Task \ {t}) = Cardinality(Task) - 1
    BY <1>2, FS_RemoveElement
  <2> QED
    BY <1>2, <2>1, TaskAssumption
<1>4. ASSUME Len(q) > NumTasks
      PROVE  FALSE
  <2>1. \A f \in [S -> T] : \E x, y \in S : x # y /\ f[x] = f[y]
    <3>1. Cardinality(T) < Cardinality(S)
      BY <1>1, <1>3, <1>4, TaskAssumption
    <3> HIDE DEF S, T
    <3> QED
      BY <1>1, <1>3, <3>1, FS_PigeonHole
  <2>2. [i \in S |-> q[i]] \in [S -> T]
    BY DEF Holds
  <2>3. PICK x, y \in S : x # y /\ [i \in S |-> q[i]][x] = [i \in S |-> q[i]][y]
    BY <2>1, <2>2
  <2> QED
    BY <2>3 DEF Distinct
<1> QED
  BY <1>4, TaskAssumption

\* A task that is queued once is not queued after nrk_rem_from_readyQ, and the
\* others stay where they were.
LEMMA RemoveOne ==
  ASSUME NEW q \in Seq(Task), Distinct(q), NEW t \in Task
  PROVE  /\ Distinct(RemFromReadyQ(q, t))
         /\ \A u \in Task : Holds(RemFromReadyQ(q, t), u) <=> u # t /\ Holds(q, u)
<1> DEFINE nodes == {i \in 1..Len(q) : q[i] = t}
<1>1. CASE nodes = {}
  BY <1>1 DEF RemFromReadyQ, Holds
<1>2. CASE nodes # {}
  <2>1. Min(nodes) \in nodes
    <3>1. nodes \subseteq Nat
      OBVIOUS
    <3> HIDE DEF nodes
    <3> QED  BY <1>2, <3>1, MinIsFirst
  <2>2. PICK at \in 1..Len(q) : at = Min(nodes) /\ q[at] = t
    BY <2>1
  <2>3. RemFromReadyQ(q, t) = RemoveAt(q, at)
    BY <1>2, <2>2 DEF RemFromReadyQ
  <2> DEFINE r == RemoveAt(q, at)
  <2>4. /\ r \in Seq(Task) /\ Len(r) = Len(q) - 1
        /\ \A k \in 1..Len(q) - 1 : r[k] = IF k < at THEN q[k] ELSE q[k+1]
    BY RemoveAtElements
  <2> HIDE DEF r
  <2>5. Distinct(r)
    <3> SUFFICES ASSUME NEW i \in 1..Len(r), NEW j \in 1..Len(r), i < j
                 PROVE  r[i] # r[j]
      BY <2>4 DEF Distinct
    <3> DEFINE x == IF i < at THEN i ELSE i + 1
               y == IF j < at THEN j ELSE j + 1
    <3>1. /\ x \in 1..Len(q) /\ y \in 1..Len(q) /\ x < y
          /\ r[i] = q[x] /\ r[j] = q[y]
      BY <2>4
    <3> HIDE DEF x, y
    <3>2. q[x] = q[y] => x = y
      BY <3>1 DEF Distinct
    <3>3. x # y
      BY <3>1
    <3> QED
      BY <3>1, <3>2, <3>3
  <2>6. ASSUME NEW u \in Task
        PROVE  Holds(r, u) <=> u # t /\ Holds(q, u)
    <3>1. ASSUME NEW k \in 1..Len(r), r[k] = u
          PROVE  u # t /\ Holds(q, u)
      <4>1. PICK i \in 1..Len(q) : q[i] = u /\ i # at
        BY <2>4, <3>1
      <4> QED
        BY <4>1, <2>2 DEF Distinct, Holds
    <3>2. ASSUME NEW i \in 1..Len(q), q[i] = u, u # t
          PROVE  Holds(r, u)
      <4>1. CASE i < at
        BY <4>1, <2>4, <3>2 DEF Holds
      <4>2. CASE i > at
        <5>1. i - 1 \in 1..Len(r) /\ r[i - 1] = u
          BY <4>2, <2>4, <3>2
        <5> QED
          BY <5>1 DEF Holds
      <4> QED
        BY <4>1, <4>2, <3>2, <2>2
    <3> QED
      BY <3>1, <3>2 DEF Holds
  <2> QED
    BY <2>3, <2>5, <2>6 DEF r
<1> QED
  BY <1>1, <1>2

\* nrk_add_to_readyQ gives a task that is not queued one node.
LEMMA AddOne ==
  ASSUME NEW q \in Seq(Task), IdleEnds(q), Distinct(q),
         NEW t \in UserTask, ~Holds(q, t), NumTasks < QueueSlots,
         NEW elevated, NEW ceil
  PROVE  /\ Distinct(AddToReadyQ(q, t, Prio, elevated, ceil))
         /\ \A u \in Task : Holds(AddToReadyQ(q, t, Prio, elevated, ceil), u)
                              <=> u = t \/ Holds(q, u)
<1> DEFINE stops == StopNodes(q, t, Prio, elevated, ceil)
<1>1. Len(q) \in Nat \ {0} /\ q[Len(q)] = 0
  BY DEF IdleEnds
<1>2. Len(q) \in stops
  BY <1>1, TaskAssumption DEF StopNodes, GoesBefore, Idle
<1>3. stops \subseteq 1..Len(q)
  BY DEF StopNodes
<1>4. PICK at \in 1..Len(q) : at = Min(stops)
  BY <1>2, <1>3, MinIsFirst
<1>5. Len(q) < QueueSlots
  BY RoomForOne, Tasks, TaskAssumption, QueueSlotsAssumption
<1>6. AddToReadyQ(q, t, Prio, elevated, ceil) = InsertAt(q, at, t)
  BY <1>1, <1>2, <1>4, <1>5, QueueSlotsAssumption DEF AddToReadyQ
<1> DEFINE r == InsertAt(q, at, t)
<1>7. /\ r \in Seq(Task) /\ Len(r) = Len(q) + 1
      /\ \A k \in 1..Len(q) + 1 :
           r[k] = IF k < at THEN q[k] ELSE IF k = at THEN t ELSE q[k-1]
  BY InsertAtElements, Tasks
<1> HIDE DEF r
<1>8. Distinct(r)
  <2> SUFFICES ASSUME NEW i \in 1..Len(r), NEW j \in 1..Len(r), i < j, r[i] = r[j]
               PROVE  FALSE
    BY <1>7 DEF Distinct
  <2>1. \A k \in 1..Len(q) : q[k] # t
    BY DEF Holds
  <2>2. CASE j < at
    BY <1>7, <2>2 DEF Distinct
  <2>3. CASE j = at
    BY <1>7, <2>1, <2>3
  <2>4. CASE at < j /\ i = at
    <3>1. r[i] = t /\ r[j] = q[j - 1] /\ j - 1 \in 1..Len(q)
      BY <1>7, <2>4
    <3> QED
      BY <2>1, <3>1
  <2>5. CASE at < j /\ i < at
    <3>1. r[i] = q[i] /\ r[j] = q[j - 1] /\ j - 1 \in 1..Len(q) /\ i \in 1..Len(q)
      BY <1>7, <2>5
    <3>2. \A x, y \in 1..Len(q) : q[x] = q[y] => x = y
      BY DEF Distinct
    <3>3. i = j - 1
      BY <3>1, <3>2
    <3> QED
      BY <2>5, <3>3
  <2>6. CASE at < i
    <3>1. /\ r[i] = q[i - 1] /\ i - 1 \in 1..Len(q)
          /\ r[j] = q[j - 1] /\ j - 1 \in 1..Len(q)
      BY <1>7, <2>6
    <3>2. \A x, y \in 1..Len(q) : q[x] = q[y] => x = y
      BY DEF Distinct
    <3>3. i - 1 = j - 1
      BY <3>1, <3>2
    <3> QED
      BY <3>3
  <2> QED
    BY <2>2, <2>3, <2>4, <2>5, <2>6, <1>7
<1>9. ASSUME NEW u \in Task
      PROVE  Holds(r, u) <=> u = t \/ Holds(q, u)
  <2>1. r[at] = t /\ at \in 1..Len(r)
    BY <1>7
  <2>2. ASSUME NEW k \in 1..Len(r), r[k] = u, u # t
        PROVE  Holds(q, u)
    <3>1. k < at \/ k > at
      BY <1>7, <2>1, <2>2
    <3> QED
      BY <1>7, <2>2, <3>1 DEF Holds
  <2>3. ASSUME NEW i \in 1..Len(q), q[i] = u
        PROVE  Holds(r, u)
    <3>1. i \in 1..Len(r) /\ i + 1 \in 1..Len(r) /\ (r[i] = u \/ r[i + 1] = u)
      BY <1>7, <2>3
    <3> QED
      BY <3>1 DEF Holds
  <2> QED
    BY <2>1, <2>2, <2>3 DEF Holds
<1> QED
  BY <1>6, <1>8, <1>9 DEF r

-----------------------------------------------------------------------------

\* The more urgent task stands before the less urgent one.
Sorted(q) == \A i, j \in 1..Len(q) : i < j => Prio[q[j]] <= Prio[q[i]]

\* A task that leaves the queue leaves the others in their order.
LEMMA RemoveSorted ==
  ASSUME NEW q \in Seq(Task), Sorted(q), NEW t \in Task
  PROVE  Sorted(RemFromReadyQ(q, t))
<1> DEFINE nodes == {i \in 1..Len(q) : q[i] = t}
<1>1. CASE nodes = {}
  BY <1>1 DEF RemFromReadyQ
<1>2. CASE nodes # {}
  <2>1. Min(nodes) \in nodes
    <3>1. nodes \subseteq Nat
      OBVIOUS
    <3> HIDE DEF nodes
    <3> QED
      BY <1>2, <3>1, MinIsFirst
  <2>2. PICK at \in 1..Len(q) : at = Min(nodes)
    BY <2>1
  <2>3. RemFromReadyQ(q, t) = RemoveAt(q, at)
    BY <1>2, <2>2 DEF RemFromReadyQ
  <2> DEFINE r == RemoveAt(q, at)
  <2>4. /\ r \in Seq(Task) /\ Len(r) = Len(q) - 1
        /\ \A k \in 1..Len(q) - 1 : r[k] = IF k < at THEN q[k] ELSE q[k+1]
    BY RemoveAtElements
  <2> HIDE DEF r
  <2>5. ASSUME NEW i \in 1..Len(r), NEW j \in 1..Len(r), i < j
        PROVE  Prio[r[j]] <= Prio[r[i]]
    <3> DEFINE x == IF i < at THEN i ELSE i + 1
               y == IF j < at THEN j ELSE j + 1
    <3>1. /\ x \in 1..Len(q) /\ y \in 1..Len(q) /\ x < y
          /\ r[i] = q[x] /\ r[j] = q[y]
      BY <2>4, <2>5
    <3> QED
      BY <3>1 DEF Sorted
  <2> QED
    BY <2>3, <2>5 DEF r, Sorted
<1> QED
  BY <1>1, <1>2

\* A task that enters it stands behind those that are as urgent as it is, as long
\* as whoever holds a semaphore has its ceiling for a priority anyway.
LEMMA AddSorted ==
  ASSUME NEW q \in Seq(Task), IdleEnds(q), Sorted(q), NEW t \in UserTask,
         NEW elevated \in [Task -> BOOLEAN], NEW ceil,
         \A u \in Task : elevated[u] => ceil[u] = Prio[u]
  PROVE  Sorted(AddToReadyQ(q, t, Prio, elevated, ceil))
<1> DEFINE stops == StopNodes(q, t, Prio, elevated, ceil)
<1>1. CASE Len(q) >= QueueSlots
  BY <1>1 DEF AddToReadyQ
<1>2. CASE Len(q) < QueueSlots
  <2> DEFINE behind == {i \in 1..Len(q) : Prio[q[i]] < Prio[t]}
  <2>1. stops = behind
    <3>1. ASSUME NEW i \in 1..Len(q)
          PROVE  GoesBefore(t, q[i], Prio, elevated, ceil) <=> Prio[q[i]] < Prio[t]
      <4>1. q[i] \in Task /\ t \in Task
        BY Tasks
      <4> QED
        BY <4>1 DEF GoesBefore
    <3> QED
      BY <3>1 DEF StopNodes
  <2> HIDE DEF stops
  <2>2. Len(q) \in stops /\ q # <<>>
    <3>1. Len(q) \in 1..Len(q) /\ q[Len(q)] = 0 /\ q # <<>>
      BY DEF IdleEnds
    <3> QED
      BY <2>1, <3>1, TaskAssumption DEF Idle
  <2>3. /\ Min(stops) \in stops
        /\ \A i \in stops : Min(stops) <= i
    <3>1. stops \subseteq Nat /\ stops # {}
      BY <2>1, <2>2
    <3> QED
      BY <3>1, MinIsFirst
  <2>4. PICK at \in 1..Len(q) : at = Min(stops) /\ at \in stops
    BY <2>1, <2>3
  <2>5. AddToReadyQ(q, t, Prio, elevated, ceil) = InsertAt(q, at, t)
    BY <1>2, <2>2, <2>4, QueueSlotsAssumption DEF AddToReadyQ, stops
  <2> DEFINE r == InsertAt(q, at, t)
  <2>6. /\ r \in Seq(Task) /\ Len(r) = Len(q) + 1
        /\ \A k \in 1..Len(q) + 1 :
             r[k] = IF k < at THEN q[k] ELSE IF k = at THEN t ELSE q[k-1]
    BY InsertAtElements, Tasks
  <2>7. /\ \A i \in 1..Len(q) : i < at => Prio[t] <= Prio[q[i]]
        /\ \A i \in 1..Len(q) : at <= i => Prio[q[i]] <= Prio[t]
    <3>1. Prio[t] \in Nat /\ \A i \in 1..Len(q) : Prio[q[i]] \in Nat
      <4>1. Prio \in [Task -> Nat] /\ t \in Task
        BY TaskAssumption, Tasks
      <4> HIDE DEF behind
      <4> QED
        BY <4>1
    <3>2. \A i \in 1..Len(q) : i < at => ~(Prio[q[i]] < Prio[t])
      BY <2>1, <2>3, <2>4
    <3>3. \A i \in 1..Len(q) : at <= i => Prio[q[i]] <= Prio[q[at]]
      BY <3>1 DEF Sorted
    <3>4. Prio[q[at]] < Prio[t]
      BY <2>1, <2>4
    <3>5. ASSUME NEW i \in 1..Len(q), i < at
          PROVE  Prio[t] <= Prio[q[i]]
      BY <3>1, <3>2, <3>5
    <3>6. ASSUME NEW i \in 1..Len(q), at <= i
          PROVE  Prio[q[i]] <= Prio[t]
      BY <3>1, <3>3, <3>4, <3>6
    <3> QED
      BY <3>5, <3>6
  <2> HIDE DEF r
  <2>8. ASSUME NEW i \in 1..Len(r), NEW j \in 1..Len(r), i < j
        PROVE  Prio[r[j]] <= Prio[r[i]]
    <3>1. CASE i = at
      <4>1. r[i] = t /\ r[j] = q[j - 1] /\ j - 1 \in 1..Len(q) /\ at <= j - 1
        BY <2>6, <2>8, <3>1
      <4> QED
        BY <2>7, <4>1
    <3>2. CASE j = at
      <4>1. r[j] = t /\ r[i] = q[i] /\ i \in 1..Len(q) /\ i < at
        BY <2>6, <2>8, <3>2
      <4> QED
        BY <2>7, <4>1
    <3>3. CASE i # at /\ j # at
      <4> DEFINE x == IF i < at THEN i ELSE i - 1
                 y == IF j < at THEN j ELSE j - 1
      <4>1. /\ x \in 1..Len(q) /\ y \in 1..Len(q) /\ x < y
            /\ r[i] = q[x] /\ r[j] = q[y]
        BY <2>6, <2>8, <3>3
      <4> QED
        BY <4>1 DEF Sorted
    <3> QED
      BY <3>1, <3>2, <3>3
  <2> QED
    BY <2>5, <2>8 DEF r, Sorted
<1> QED
  BY <1>1, <1>2, QueueSlotsAssumption

-----------------------------------------------------------------------------

\* The calls that block on an event, and where a task is in a wait when its
\* suspend_flag may be set.
EventOp == {"event", "event_nw"}
BlockOp == EventOp \cup {"pend"}
Waiting == {"section", "idle", "asleep", "check"}

\* A task is woken from below: who raises signals has a lower priority than who
\* waits for them, who posts than who pends, and no interrupt handler raises a
\* signal that somebody waits for.  No program deletes a signal, which would
\* suspend whoever registered it.  A task that may wait for an event or terminate
\* has no reserve, for it could lose it on its way into the wait.  The ceiling of a
\* semaphore is the priority of who pends, and its index is no signal's mask.  The
\* pool of nodes has one for the idle task as well.
WokenFromBelow ==
  /\ \A t \in UserTask :
       /\ "signal_delete" \notin Calls[t]
       /\ Calls[t] \cap {"event_wait", "sem_pend", "terminate"} # {} => Reserve[t] = 0
       /\ "event_wait" \in Calls[t] => \A m \in WaitMasks : m \cap IsrSignals = {}
       /\ "sem_pend" \in Calls[t] =>
            \A s \in Sems : SemCeiling[s] = Prio[t] /\ \A r \in Signals : Mask(s) # {r}
  /\ \A t, u \in UserTask :
       /\ t # u
       /\ \/ "event_signal" \in Calls[t] /\ "event_wait" \in Calls[u]
          \/ "sem_post" \in Calls[t] /\ "sem_pend" \in Calls[u]
       => Prio[t] < Prio[u]
  /\ NumTasks < QueueSlots

\* Who should be in the queue.
Queued(t) == task_state[t] = "READY" /\ pc[t] # "removed"

\* At every step, those of a pass included, the queue holds the READY tasks.
QueueInv == Distinct(readyQ) /\ \A t \in UserTask : Holds(readyQ, t) <=> Queued(t)

\* Which call a task is in, given its control point, and that its program makes it.
CallOK(t) ==
  /\ pc[t] \in {"user", "removed"} => op[t] = "none"
  /\ pc[t] = "marked" => op[t] \in BlockOp \cup {"terminate"}
  /\ op[t] \in BlockOp => pc[t] \in Waiting \cup {"marked", "take", "store"}
  /\ op[t] = "terminate" => pc[t] \in Waiting \cup {"marked"}
  /\ op[t] \in EventOp => "event_wait" \in Calls[t]
  /\ op[t] = "pend" => "sem_pend" \in Calls[t]
  /\ op[t] = "post" => "sem_post" \in Calls[t]

\* How far a task can be, given its state: what keeps the passes, which go by the
\* flag and the state, in step with the calls, which go by the control point.
FlowOK(t) ==
  /\ suspend_flag[t] =>
       /\ pc[t] \in Waiting /\ t = nrk_cur_task
       /\ mode \in {"task", "scan"} /\ (mode = "scan" => t >= task_ID)
  /\ pc[t] \in {"marked", "take", "store"} => task_state[t] \in {"READY", "FINISHED"}
  /\ pc[t] = "removed" => task_state[t] = "READY" /\ Reserve[t] = 0
  /\ task_state[t] = "FINISHED" <=> op[t] = "terminate"
  /\ task_state[t] = "UNUSED" => pc[t] = "user"
  /\ mode = "task" /\ nrk_cur_task = t =>
       /\ task_state[t] \in {"READY", "FINISHED"}
       /\ task_state[t] = "FINISHED" /\ pc[t] # "marked" => suspend_flag[t]
  /\ mode # "task" => ~(suspend_flag[t] /\ task_state[t] = "READY")
  /\ mode = "boot" => pc[t] = "user" /\ (t >= task_ID => task_state[t] = "UNUSED")

\* A task waits for an event from the moment it notes it until the event, or the
\* timeout, makes it due; until then it is parked, or runs on towards being parked.
BlockOK(t) ==
  /\ event_suspend[t] \in {0, SIG_EVENT, RSRC_EVENT}
  /\ event_suspend[t] = SIG_EVENT => op[t] \in EventOp
  /\ event_suspend[t] = RSRC_EVENT => op[t] = "pend"
  /\ task_state[t] = "EVENT_SUSPENDED" =>
       op[t] \in {"event", "pend"} /\ event_suspend[t] # 0
  /\ op[t] \in {"event", "pend"} /\ task_state[t] = "SUSPENDED" => event_suspend[t] = 0
  /\ op[t] \in BlockOp /\ (pc[t] = "marked" \/ suspend_flag[t]) => event_suspend[t] # 0
  /\ op[t] \in BlockOp /\ pc[t] # "marked" /\ task_state[t] = "READY" /\ ~suspend_flag[t]
       => event_suspend[t] = 0
  /\ op[t] \in BlockOp /\ event_suspend[t] = 0 /\ task_state[t] = "SUSPENDED"
       => next_wakeup[t] = 0

\* nw_flag and num_periods are left over from a wait only until it ends.
WaitOK(t) ==
  /\ nw_flag[t] => op[t] \in {"until_nw", "event_nw"}
  /\ op[t] = "event_nw" /\ event_suspend[t] # 0 /\ pc[t] # "marked" => nw_flag[t]
  /\ num_periods[t] # 1 => op[t] = "n_periods"
  /\ nw_flag[t] \/ num_periods[t] # 1 => suspend_flag[t] \/ task_state[t] = "SUSPENDED"

\* What a task waits for, and which signal ended its wait.
MaskOK(t) ==
  /\ event_suspend[t] = SIG_EVENT =>
       /\ active_signal_mask[t] \in WaitMasks
       /\ WakeupSignal \in active_signal_mask[t] <=> op[t] = "event_nw"
  /\ event_suspend[t] = RSRC_EVENT => active_signal_mask[t] = Mask(arg[t])
  /\ op[t] \in EventOp /\ event_suspend[t] = 0 =>
       \E s : active_signal_mask[t] = {s} /\ (s = WakeupSignal => op[t] = "event_nw")

OK(t) == CallOK(t) /\ FlowOK(t) /\ BlockOK(t) /\ WaitOK(t) /\ MaskOK(t)

TasksOK == \A t \in UserTask : OK(t)

\* Whoever holds a semaphore has its ceiling for a priority, the queue is in the
\* order of the priorities, and between passes its head runs, unless it is about to
\* terminate.
OrderInv ==
  /\ Sorted(readyQ)
  /\ \A t \in Task : elevated_prio_flag[t] => task_prio_ceil[t] = Prio[t]
  /\ mode = "task" /\ (nrk_cur_task \in UserTask => Queued(nrk_cur_task))
       => nrk_cur_task = Head(readyQ)

KInv == IInv /\ QueueInv /\ TasksOK /\ OrderInv

USE DEF vars, tcbVars, timerVars, passVars, callVars, objectVars, blockVars,
        timingVars, ceilVars

\* The types the steps below need.
LEMMA FlowTypes ==
  ASSUME KInv
  PROVE  /\ readyQ \in Seq(Task) /\ IdleEnds(readyQ)
         /\ task_state \in [Task -> TaskState] /\ suspend_flag \in [Task -> BOOLEAN]
         /\ event_suspend \in [Task -> 0..3] /\ nw_flag \in [Task -> BOOLEAN]
         /\ active_signal_mask \in [Task -> SUBSET SignalBit]
         /\ elevated_prio_flag \in [Task -> BOOLEAN] /\ task_prio_ceil \in [Task -> Nat]
         /\ next_wakeup \in [Task -> Nat] /\ num_periods \in [Task -> Nat \ {0}]
         /\ pc \in [Task -> PC] /\ op \in [Task -> BlockCall] /\ arg \in [Task -> Nat]
         /\ nrk_cur_task \in Task /\ task_ID \in 0..NumTasks+1 /\ prev_timer_val \in Nat
         /\ ~suspend_flag[Idle] /\ event_suspend[Idle] = 0 /\ task_state[Idle] = "READY"
         /\ \A t \in Task :
              /\ pc[t] \in {"take", "store"} => op[t] = "pend"
              /\ pc[t] = "posting" => op[t] = "post"
              /\ op[t] \in {"pend", "post"} => arg[t] \in Sems
BY DEF KInv, IInv, QueueOK, TaskTypeOK, TimingTypeOK, CallTypeOK, PassTypeOK,
       TimerTypeOK, IdleSafe, SemArg

\* The task at the head of the queue is READY.
LEMMA HeadIsQueued ==
  ASSUME KInv, Head(readyQ) \in UserTask
  PROVE  Queued(Head(readyQ))
<1>1. readyQ # <<>> /\ Head(readyQ) = readyQ[1] /\ 1 \in 1..Len(readyQ)
  BY FlowTypes DEF IdleEnds
<1> QED
  BY <1>1 DEF KInv, QueueInv, Holds

\* A running user task whose state allows it is above every other task that the
\* queue holds.
LEMMA RunsAbove ==
  ASSUME KInv, mode = "task", NEW t \in UserTask, nrk_cur_task = t, Queued(t),
         NEW u \in UserTask, Queued(u)
  PROVE  Prio[u] <= Prio[t]
<1>1. t = readyQ[1] /\ 1 \in 1..Len(readyQ)
  BY FlowTypes DEF KInv, OrderInv, IdleEnds
<1>2. PICK i \in 1..Len(readyQ) : readyQ[i] = u
  BY DEF KInv, QueueInv, Holds
<1>3. Prio[u] \in Nat
  BY TaskAssumption, Tasks
<1>4. CASE i = 1
  BY <1>1, <1>2, <1>3, <1>4
<1>5. CASE 1 < i
  BY <1>1, <1>2, <1>5 DEF KInv, OrderInv, Sorted
<1> QED
  BY <1>4, <1>5

-----------------------------------------------------------------------------

\* Nothing that OK says of a task has changed.
Same(t) ==
  /\ UNCHANGED <<mode, nrk_cur_task, task_ID>>
  /\ pc'[t] = pc[t] /\ op'[t] = op[t] /\ arg'[t] = arg[t]
  /\ task_state'[t] = task_state[t] /\ suspend_flag'[t] = suspend_flag[t]
  /\ event_suspend'[t] = event_suspend[t] /\ nw_flag'[t] = nw_flag[t]
  /\ active_signal_mask'[t] = active_signal_mask[t]
  /\ next_wakeup'[t] = next_wakeup[t] /\ num_periods'[t] = num_periods[t]

LEMMA SameIsOK ==
  ASSUME NEW t \in UserTask, OK(t), Same(t)
  PROVE  OK(t)'
<1>1. CallOK(t)'
  BY DEF OK, CallOK, Same
<1>2. FlowOK(t)'
  BY DEF OK, FlowOK, Same
<1>3. BlockOK(t)'
  BY DEF OK, BlockOK, Same
<1>4. WaitOK(t)'
  BY DEF OK, WaitOK, Same
<1>5. MaskOK(t)'
  BY DEF OK, MaskOK, Same
<1> QED
  BY <1>1, <1>2, <1>3, <1>4, <1>5 DEF OK

\* A step that changes neither the queue nor a task's state, and takes no task to
\* or from "removed".
LEMMA QueueStays ==
  ASSUME KInv, UNCHANGED <<readyQ, task_state>>,
         \A u \in UserTask : pc'[u] = "removed" <=> pc[u] = "removed"
  PROVE  QueueInv'
BY DEF KInv, QueueInv, Queued

LEMMA OrderStays ==
  ASSUME KInv,
         UNCHANGED <<readyQ, task_state, elevated_prio_flag, task_prio_ceil, mode,
                     nrk_cur_task>>,
         \A u \in UserTask : pc'[u] = "removed" <=> pc[u] = "removed"
  PROVE  OrderInv'
BY DEF KInv, OrderInv, Sorted, Queued

\* A step that concerns no task.
LEMMA NobodyStep ==
  ASSUME KInv,
         UNCHANGED <<readyQ, task_state, elevated_prio_flag, task_prio_ceil, mode,
                     nrk_cur_task>>,
         \A u \in UserTask : Same(u)
  PROVE  QueueInv' /\ TasksOK' /\ OrderInv'
<1>1. \A u \in UserTask : pc'[u] = pc[u]
  BY DEF Same
<1>2. QueueInv'
  BY <1>1, QueueStays
<1>3. TasksOK'
  BY SameIsOK DEF KInv, TasksOK
<1> QED
  BY <1>1, <1>2, <1>3, OrderStays

\* A step that concerns one task and leaves its state alone.
LEMMA OwnStep ==
  ASSUME KInv, NEW t \in UserTask,
         UNCHANGED <<readyQ, task_state, elevated_prio_flag, task_prio_ceil, mode,
                     nrk_cur_task>>,
         \A u \in UserTask \ {t} : Same(u),
         pc'[t] = "removed" <=> pc[t] = "removed",
         OK(t)'
  PROVE  QueueInv' /\ TasksOK' /\ OrderInv'
<1>1. \A u \in UserTask : pc'[u] = "removed" <=> pc[u] = "removed"
  BY DEF Same
<1>2. QueueInv' /\ OrderInv'
  BY <1>1, QueueStays, OrderStays
<1>3. TasksOK'
  BY SameIsOK DEF KInv, TasksOK
<1> QED
  BY <1>2, <1>3

-----------------------------------------------------------------------------

\* The counter, the idle task and the creation of signals concern no task.
LEMMA TickOK ==
  ASSUME KInv, Tick
  PROVE  QueueInv' /\ TasksOK' /\ OrderInv'
BY NobodyStep DEF Tick, Same

LEMMA IdleTaskOK ==
  ASSUME KInv, IdleTask
  PROVE  QueueInv' /\ TasksOK' /\ OrderInv'
BY NobodyStep, FlowTypes, Tasks DEF IdleTask, At, Same

LEMMA SignalSetOK ==
  ASSUME KInv, NEW t \in UserTask, SignalCreate(t) \/ SignalRegister(t)
  PROVE  QueueInv' /\ TasksOK' /\ OrderInv'
BY NobodyStep, FlowTypes DEF SignalCreate, SignalRegister, MayCall, Same

\* The wait begins: the flag is set.
LEMMA BlockingWaitOK ==
  ASSUME KInv, WokenFromBelow, NEW t \in UserTask, BlockingWait(t)
  PROVE  QueueInv' /\ TasksOK' /\ OrderInv'
<1> USE FlowTypes, Tasks
<1>0. OK(t)
  BY DEF KInv, TasksOK
<1>1. \A u \in UserTask \ {t} : Same(u)
  BY DEF BlockingWait, BeginWait, At, Same
<1>2. CallOK(t)'
  BY <1>0 DEF BlockingWait, BeginWait, At, OK, CallOK, Waiting, BlockOp, EventOp
<1>3. FlowOK(t)'
  <2>1. /\ mode = "task" /\ nrk_cur_task = t /\ pc[t] = "marked"
        /\ pc'[t] = "section" /\ op'[t] = op[t] /\ suspend_flag'[t] = TRUE
        /\ UNCHANGED <<mode, nrk_cur_task, task_ID, task_state>>
    BY DEF BlockingWait, BeginWait, At
  <2> QED
    BY <1>0, <2>1 DEF OK, FlowOK, Waiting
<1>4. BlockOK(t)'
  BY <1>0 DEF BlockingWait, BeginWait, At, OK, CallOK, BlockOK, Waiting, BlockOp,
     EventOp
<1>5. WaitOK(t)'
  BY <1>0 DEF BlockingWait, BeginWait, At, OK, CallOK, WaitOK, Waiting, BlockOp,
     EventOp
<1>6. MaskOK(t)'
  BY <1>0 DEF BlockingWait, BeginWait, At, OK, CallOK, MaskOK, Waiting, BlockOp,
     EventOp
<1>7. OK(t)'
  BY <1>2, <1>3, <1>4, <1>5, <1>6 DEF OK
<1>8. pc'[t] = "removed" <=> pc[t] = "removed"
  BY DEF BlockingWait, BeginWait, At
<1> QED
  BY <1>1, <1>7, <1>8, OwnStep DEF BlockingWait, BeginWait, At

\* The same, called by the application.
LEMMA WaitStepOK ==
  ASSUME KInv, WokenFromBelow, NEW t \in UserTask, Wait(t)
  PROVE  QueueInv' /\ TasksOK' /\ OrderInv'
<1> USE FlowTypes, Tasks
<1>0. OK(t)
  BY DEF KInv, TasksOK
<1>1. \A u \in UserTask \ {t} : Same(u)
  BY DEF Wait, BeginWait, MayCall, At, WaitCall, Same
<1>2. CallOK(t)'
  BY <1>0 DEF Wait, BeginWait, MayCall, At, WaitCall, OK, CallOK, Waiting, BlockOp,
     EventOp
<1>3. FlowOK(t)'
  <2>1. /\ mode = "task" /\ nrk_cur_task = t /\ pc[t] = "user"
        /\ pc'[t] = "section" /\ op'[t] \in WaitCall /\ suspend_flag'[t] = TRUE
        /\ UNCHANGED <<mode, nrk_cur_task, task_ID, task_state>>
    BY DEF Wait, BeginWait, MayCall, At
  <2> QED
    BY <1>0, <2>1 DEF OK, CallOK, FlowOK, Waiting, WaitCall
<1>4. BlockOK(t)'
  BY <1>0 DEF Wait, BeginWait, MayCall, At, WaitCall, OK, CallOK, BlockOK, Waiting,
     BlockOp, EventOp
<1>5. WaitOK(t)'
  BY <1>0 DEF Wait, BeginWait, MayCall, At, WaitCall, OK, CallOK, WaitOK, Waiting,
     BlockOp, EventOp
<1>6. MaskOK(t)'
  BY <1>0 DEF Wait, BeginWait, MayCall, At, WaitCall, OK, CallOK, FlowOK, BlockOK,
     WaitOK, MaskOK, Waiting, BlockOp, EventOp, SIG_EVENT, RSRC_EVENT
<1>7. OK(t)'
  BY <1>2, <1>3, <1>4, <1>5, <1>6 DEF OK
<1>8. pc'[t] = "removed" <=> pc[t] = "removed"
  BY DEF Wait, BeginWait, MayCall, At, WaitCall
<1> QED
  BY <1>1, <1>7, <1>8, OwnStep DEF Wait, BeginWait, MayCall, At, WaitCall

\* The end of the section.
LEMMA ArmWaitOK ==
  ASSUME KInv, WokenFromBelow, NEW t \in UserTask, ArmWait(t)
  PROVE  QueueInv' /\ TasksOK' /\ OrderInv'
<1> USE FlowTypes, Tasks
<1>0. OK(t)
  BY DEF KInv, TasksOK
<1>1. \A u \in UserTask \ {t} : Same(u)
  BY DEF ArmWait, Same
<1>2. CallOK(t)'
  BY <1>0 DEF ArmWait, OK, CallOK, Waiting, BlockOp, EventOp
<1>3. FlowOK(t)'
  BY <1>0 DEF ArmWait, OK, CallOK, FlowOK, Waiting, BlockOp, EventOp
<1>4. BlockOK(t)'
  BY <1>0 DEF ArmWait, OK, CallOK, BlockOK, Waiting, BlockOp, EventOp
<1>5. WaitOK(t)'
  BY <1>0 DEF ArmWait, OK, CallOK, WaitOK, Waiting, BlockOp, EventOp
<1>6. MaskOK(t)'
  BY <1>0 DEF ArmWait, OK, CallOK, MaskOK, Waiting, BlockOp, EventOp
<1>7. OK(t)'
  BY <1>2, <1>3, <1>4, <1>5, <1>6 DEF OK
<1>8. pc'[t] = "removed" <=> pc[t] = "removed"
  BY DEF ArmWait
<1> QED
  BY <1>1, <1>7, <1>8, OwnStep DEF ArmWait

\* The sleep.
LEMMA EnterIdleOK ==
  ASSUME KInv, WokenFromBelow, NEW t \in UserTask, EnterIdle(t)
  PROVE  QueueInv' /\ TasksOK' /\ OrderInv'
<1> USE FlowTypes, Tasks
<1>0. OK(t)
  BY DEF KInv, TasksOK
<1>1. \A u \in UserTask \ {t} : Same(u)
  BY DEF EnterIdle, At, Same
<1>2. CallOK(t)'
  BY <1>0 DEF EnterIdle, At, OK, CallOK, Waiting, BlockOp, EventOp
<1>3. FlowOK(t)'
  BY <1>0 DEF EnterIdle, At, OK, CallOK, FlowOK, Waiting, BlockOp, EventOp
<1>4. BlockOK(t)'
  BY <1>0 DEF EnterIdle, At, OK, CallOK, BlockOK, Waiting, BlockOp, EventOp
<1>5. WaitOK(t)'
  BY <1>0 DEF EnterIdle, At, OK, CallOK, WaitOK, Waiting, BlockOp, EventOp
<1>6. MaskOK(t)'
  BY <1>0 DEF EnterIdle, At, OK, CallOK, MaskOK, Waiting, BlockOp, EventOp
<1>7. OK(t)'
  BY <1>2, <1>3, <1>4, <1>5, <1>6 DEF OK
<1>8. pc'[t] = "removed" <=> pc[t] = "removed"
  BY DEF EnterIdle, At
<1> QED
  BY <1>1, <1>7, <1>8, OwnStep DEF EnterIdle, At

\* The flag is tested: the wait is over when it is clear, and with it the event.
LEMMA CheckFlagOK ==
  ASSUME KInv, WokenFromBelow, NEW t \in UserTask, CheckFlag(t)
  PROVE  QueueInv' /\ TasksOK' /\ OrderInv'
<1> USE FlowTypes, Tasks
<1>0. OK(t)
  BY DEF KInv, TasksOK
<1>1. \A u \in UserTask \ {t} : Same(u)
  BY DEF CheckFlag, At, Return, Same
<1>2. CallOK(t)'
  BY <1>0 DEF CheckFlag, At, Return, OK, CallOK, Waiting, BlockOp, EventOp
<1>3. FlowOK(t)'
  BY <1>0 DEF CheckFlag, At, Return, OK, CallOK, FlowOK, Waiting, BlockOp, EventOp
<1>4. BlockOK(t)'
  BY <1>0 DEF CheckFlag, At, Return, OK, CallOK, FlowOK, BlockOK, WaitOK, MaskOK,
     Waiting, BlockOp, EventOp, SIG_EVENT, RSRC_EVENT
<1>5. WaitOK(t)'
  BY <1>0 DEF CheckFlag, At, Return, OK, CallOK, FlowOK, BlockOK, WaitOK, MaskOK,
     Waiting, BlockOp, EventOp, SIG_EVENT, RSRC_EVENT
<1>6. MaskOK(t)'
  BY <1>0 DEF CheckFlag, At, Return, OK, CallOK, FlowOK, BlockOK, WaitOK, MaskOK,
     Waiting, BlockOp, EventOp, SIG_EVENT, RSRC_EVENT
<1>7. OK(t)'
  BY <1>2, <1>3, <1>4, <1>5, <1>6 DEF OK
<1>8. pc'[t] = "removed" <=> pc[t] = "removed"
  BY DEF CheckFlag, At, Return
<1> QED
  BY <1>1, <1>7, <1>8, OwnStep DEF CheckFlag, At, Return

\* nrk_set_next_wakeup stores a time.
LEMMA SetNextWakeupOK ==
  ASSUME KInv, WokenFromBelow, NEW t \in UserTask, SetNextWakeupCall(t)
  PROVE  QueueInv' /\ TasksOK' /\ OrderInv'
<1> USE FlowTypes, Tasks
<1>0. OK(t)
  BY DEF KInv, TasksOK
<1>1. \A u \in UserTask \ {t} : Same(u)
  BY DEF SetNextWakeupCall, MayCall, At, Same
<1>2. CallOK(t)'
  BY <1>0 DEF SetNextWakeupCall, MayCall, At, OK, CallOK, Waiting, BlockOp, EventOp
<1>3. FlowOK(t)'
  BY <1>0 DEF SetNextWakeupCall, MayCall, At, OK, CallOK, FlowOK, Waiting, BlockOp,
     EventOp
<1>4. BlockOK(t)'
  BY <1>0 DEF SetNextWakeupCall, MayCall, At, OK, CallOK, BlockOK, Waiting, BlockOp,
     EventOp
<1>5. WaitOK(t)'
  BY <1>0 DEF SetNextWakeupCall, MayCall, At, OK, CallOK, WaitOK, Waiting, BlockOp,
     EventOp
<1>6. MaskOK(t)'
  BY <1>0 DEF SetNextWakeupCall, MayCall, At, OK, CallOK, MaskOK, Waiting, BlockOp,
     EventOp
<1>7. OK(t)'
  BY <1>2, <1>3, <1>4, <1>5, <1>6 DEF OK
<1>8. pc'[t] = "removed" <=> pc[t] = "removed"
  BY DEF SetNextWakeupCall, MayCall, At
<1> QED
  BY <1>1, <1>7, <1>8, OwnStep DEF SetNextWakeupCall, MayCall, At

\* nrk_signal_unregister is called by a task that waits for nothing.
LEMMA SignalUnregisterOK ==
  ASSUME KInv, WokenFromBelow, NEW t \in UserTask, SignalUnregister(t)
  PROVE  QueueInv' /\ TasksOK' /\ OrderInv'
<1> USE FlowTypes, Tasks
<1>0. OK(t)
  BY DEF KInv, TasksOK
<1>1. \A u \in UserTask \ {t} : Same(u)
  BY DEF SignalUnregister, MayCall, At, Same
<1>2. CallOK(t)'
  BY <1>0 DEF SignalUnregister, MayCall, At, OK, CallOK, Waiting, BlockOp, EventOp
<1>3. FlowOK(t)'
  BY <1>0 DEF SignalUnregister, MayCall, At, OK, CallOK, FlowOK, Waiting, BlockOp,
     EventOp
<1>4. BlockOK(t)'
  BY <1>0 DEF SignalUnregister, MayCall, At, OK, CallOK, BlockOK, Waiting, BlockOp,
     EventOp
<1>5. WaitOK(t)'
  BY <1>0 DEF SignalUnregister, MayCall, At, OK, CallOK, WaitOK, Waiting, BlockOp,
     EventOp
<1>6. MaskOK(t)'
  BY <1>0 DEF SignalUnregister, MayCall, At, OK, CallOK, FlowOK, BlockOK, WaitOK,
     MaskOK, Waiting, BlockOp, EventOp, SIG_EVENT, RSRC_EVENT
<1>7. OK(t)'
  BY <1>2, <1>3, <1>4, <1>5, <1>6 DEF OK
<1>8. pc'[t] = "removed" <=> pc[t] = "removed"
  BY DEF SignalUnregister, MayCall, At
<1> QED
  BY <1>1, <1>7, <1>8, OwnStep DEF SignalUnregister, MayCall, At

\* The event is noted.
LEMMA EventWaitOK ==
  ASSUME KInv, WokenFromBelow, NEW t \in UserTask, EventWait(t)
  PROVE  QueueInv' /\ TasksOK' /\ OrderInv'
<1> USE FlowTypes, Tasks
<1>0. OK(t)
  BY DEF KInv, TasksOK
<1>1. \A u \in UserTask \ {t} : Same(u)
  BY DEF EventWait, MayCall, At, Same
<1>2. CallOK(t)'
  BY <1>0 DEF EventWait, MayCall, At, OK, CallOK, Waiting, BlockOp, EventOp
<1>3. FlowOK(t)'
  BY <1>0 DEF EventWait, MayCall, At, OK, CallOK, FlowOK, Waiting, BlockOp, EventOp
<1>4. BlockOK(t)'
  BY <1>0 DEF EventWait, MayCall, At, OK, CallOK, FlowOK, BlockOK, WaitOK, MaskOK,
     Waiting, BlockOp, EventOp, SIG_EVENT, RSRC_EVENT
<1>5. WaitOK(t)'
  BY <1>0 DEF EventWait, MayCall, At, OK, CallOK, WaitOK, Waiting, BlockOp, EventOp
<1>6. MaskOK(t)'
  BY <1>0 DEF EventWait, MayCall, At, OK, CallOK, FlowOK, BlockOK, WaitOK, MaskOK,
     Waiting, BlockOp, EventOp, SIG_EVENT, RSRC_EVENT
<1>7. OK(t)'
  BY <1>2, <1>3, <1>4, <1>5, <1>6 DEF OK
<1>8. pc'[t] = "removed" <=> pc[t] = "removed"
  BY DEF EventWait, MayCall, At
<1> QED
  BY <1>1, <1>7, <1>8, OwnStep DEF EventWait, MayCall, At

\* So is the semaphore.
LEMMA SemPendBlockOK ==
  ASSUME KInv, WokenFromBelow, NEW t \in UserTask, NEW s \in Sems, SemPendBlock(t, s)
  PROVE  QueueInv' /\ TasksOK' /\ OrderInv'
<1> USE FlowTypes, Tasks
<1>0. OK(t)
  BY DEF KInv, TasksOK
<1>1. \A u \in UserTask \ {t} : Same(u)
  BY DEF SemPendBlock, MayCall, At, Same
<1>2. CallOK(t)'
  BY <1>0 DEF SemPendBlock, MayCall, At, OK, CallOK, Waiting, BlockOp, EventOp
<1>3. FlowOK(t)'
  BY <1>0 DEF SemPendBlock, MayCall, At, OK, CallOK, FlowOK, Waiting, BlockOp, EventOp
<1>4. BlockOK(t)'
  BY <1>0 DEF SemPendBlock, MayCall, At, OK, CallOK, FlowOK, BlockOK, WaitOK,
     MaskOK, Waiting, BlockOp, EventOp, SIG_EVENT, RSRC_EVENT
<1>5. WaitOK(t)'
  BY <1>0 DEF SemPendBlock, MayCall, At, OK, CallOK, WaitOK, Waiting, BlockOp, EventOp
<1>6. MaskOK(t)'
  BY <1>0 DEF SemPendBlock, MayCall, At, OK, CallOK, FlowOK, BlockOK, WaitOK,
     MaskOK, Waiting, BlockOp, EventOp, SIG_EVENT, RSRC_EVENT
<1>7. OK(t)'
  BY <1>2, <1>3, <1>4, <1>5, <1>6 DEF OK
<1>8. pc'[t] = "removed" <=> pc[t] = "removed"
  BY DEF SemPendBlock, MayCall, At
<1> QED
  BY <1>1, <1>7, <1>8, OwnStep DEF SemPendBlock, MayCall, At

\* The value is loaded.
LEMMA SemTakeLoadOK ==
  ASSUME KInv, WokenFromBelow, NEW t \in UserTask, SemTakeLoad(t)
  PROVE  QueueInv' /\ TasksOK' /\ OrderInv'
<1> USE FlowTypes, Tasks
<1>0. OK(t)
  BY DEF KInv, TasksOK
<1>1. \A u \in UserTask \ {t} : Same(u)
  BY DEF SemTakeLoad, At, Same
<1>2. CallOK(t)'
  BY <1>0 DEF SemTakeLoad, At, OK, CallOK, Waiting, BlockOp, EventOp
<1>3. FlowOK(t)'
  BY <1>0 DEF SemTakeLoad, At, OK, CallOK, FlowOK, Waiting, BlockOp, EventOp
<1>4. BlockOK(t)'
  BY <1>0 DEF SemTakeLoad, At, OK, CallOK, BlockOK, Waiting, BlockOp, EventOp
<1>5. WaitOK(t)'
  BY <1>0 DEF SemTakeLoad, At, OK, CallOK, WaitOK, Waiting, BlockOp, EventOp
<1>6. MaskOK(t)'
  BY <1>0 DEF SemTakeLoad, At, OK, CallOK, MaskOK, Waiting, BlockOp, EventOp
<1>7. OK(t)'
  BY <1>2, <1>3, <1>4, <1>5, <1>6 DEF OK
<1>8. pc'[t] = "removed" <=> pc[t] = "removed"
  BY DEF SemTakeLoad, At
<1> QED
  BY <1>1, <1>7, <1>8, OwnStep DEF SemTakeLoad, At

\* The first half of nrk_sem_post.
LEMMA SemPostOK ==
  ASSUME KInv, WokenFromBelow, NEW t \in UserTask, NEW s \in Sems, SemPost(t, s)
  PROVE  QueueInv' /\ TasksOK' /\ OrderInv'
<1> USE FlowTypes, Tasks
<1>0. OK(t)
  BY DEF KInv, TasksOK
<1>1. \A u \in UserTask \ {t} : Same(u)
  BY DEF SemPost, MayCall, At, Same
<1>2. CallOK(t)'
  BY <1>0 DEF SemPost, MayCall, At, OK, CallOK, Waiting, BlockOp, EventOp
<1>3. FlowOK(t)'
  BY <1>0 DEF SemPost, MayCall, At, OK, CallOK, FlowOK, Waiting, BlockOp, EventOp
<1>4. BlockOK(t)'
  BY <1>0 DEF SemPost, MayCall, At, OK, CallOK, BlockOK, Waiting, BlockOp, EventOp
<1>5. WaitOK(t)'
  BY <1>0 DEF SemPost, MayCall, At, OK, CallOK, WaitOK, Waiting, BlockOp, EventOp
<1>6. MaskOK(t)'
  BY <1>0 DEF SemPost, MayCall, At, OK, CallOK, FlowOK, BlockOK, WaitOK, MaskOK,
     Waiting, BlockOp, EventOp, SIG_EVENT, RSRC_EVENT
<1>7. OK(t)'
  BY <1>2, <1>3, <1>4, <1>5, <1>6 DEF OK
<1>8. pc'[t] = "removed" <=> pc[t] = "removed"
  BY DEF SemPost, MayCall, At
<1> QED
  BY <1>1, <1>7, <1>8, OwnStep DEF SemPost, MayCall, At

\* Whoever takes a semaphore runs at its own priority.
LEMMA SemPendFreeOK ==
  ASSUME KInv, WokenFromBelow, NEW t \in UserTask, NEW s \in Sems, SemPendFree(t, s)
  PROVE  QueueInv' /\ TasksOK' /\ OrderInv'
<1> USE FlowTypes, Tasks
<1>1. /\ UNCHANGED <<readyQ, task_state, mode, nrk_cur_task, pc>>
      /\ \A u \in UserTask : Same(u)
  BY DEF SemPendFree, Same
<1>2. SemCeiling[s] = Prio[t]
  BY DEF SemPendFree, MayCall, WokenFromBelow
<1>3. QueueInv'
  BY <1>1, QueueStays
<1>4. TasksOK'
  BY <1>1, SameIsOK DEF KInv, TasksOK
<1>5. \A u \in Task : elevated_prio_flag'[u] => task_prio_ceil'[u] = Prio[u]
  BY <1>2 DEF SemPendFree, Raise, KInv, OrderInv
<1>6. OrderInv'
  BY <1>1, <1>5 DEF KInv, OrderInv, Sorted, Queued
<1> QED
  BY <1>3, <1>4, <1>6

\* So it does when it had to wait; its event is gone by then.
LEMMA SemTakeStoreOK ==
  ASSUME KInv, WokenFromBelow, NEW t \in UserTask, SemTakeStore(t)
  PROVE  QueueInv' /\ TasksOK' /\ OrderInv'
<1> USE FlowTypes, Tasks
<1>0. OK(t) /\ pc[t] = "store" /\ op[t] = "pend" /\ arg[t] \in Sems
  BY DEF KInv, TasksOK, SemTakeStore, At
<1>1. \A u \in UserTask \ {t} : Same(u)
  BY DEF SemTakeStore, At, Return, Same
<1>2. CallOK(t)'
  BY <1>0 DEF SemTakeStore, At, Return, OK, CallOK, Waiting, BlockOp, EventOp
<1>3. FlowOK(t)'
  BY <1>0 DEF SemTakeStore, At, Return, OK, CallOK, FlowOK, Waiting, BlockOp, EventOp
<1>4. BlockOK(t)'
  BY <1>0 DEF SemTakeStore, At, Return, OK, CallOK, FlowOK, BlockOK, Waiting, BlockOp,
     EventOp, SIG_EVENT, RSRC_EVENT
<1>5. WaitOK(t)'
  BY <1>0 DEF SemTakeStore, At, Return, OK, CallOK, WaitOK, Waiting, BlockOp, EventOp
<1>6. MaskOK(t)'
  BY <1>0, <1>4 DEF SemTakeStore, At, Return, BlockOK, MaskOK, BlockOp, EventOp,
     SIG_EVENT, RSRC_EVENT
<1>7. OK(t)'
  BY <1>2, <1>3, <1>4, <1>5, <1>6 DEF OK
<1>8. /\ UNCHANGED <<readyQ, task_state, mode, nrk_cur_task>>
      /\ \A u \in UserTask : pc'[u] = "removed" <=> pc[u] = "removed"
  BY <1>0 DEF SemTakeStore, Return
<1>9. QueueInv'
  BY <1>8, QueueStays
<1>10. TasksOK'
  BY <1>1, <1>7, SameIsOK DEF KInv, TasksOK
<1>11. SemCeiling[arg[t]] = Prio[t]
  BY <1>0 DEF OK, CallOK, WokenFromBelow
<1>12. \A u \in Task : elevated_prio_flag'[u] => task_prio_ceil'[u] = Prio[u]
  BY <1>11 DEF SemTakeStore, Raise, KInv, OrderInv
<1>13. OrderInv'
  BY <1>8, <1>12 DEF KInv, OrderInv, Sorted, Queued
<1> QED
  BY <1>9, <1>10, <1>13

-----------------------------------------------------------------------------

\* The task that raises a signal or posts a semaphore is READY and queued.
LEMMA CallerIsQueued ==
  ASSUME KInv, NEW t \in UserTask, mode = "task", nrk_cur_task = t,
         pc[t] \in {"user", "posting"}
  PROVE  Queued(t) /\ event_suspend[t] = 0
<1> USE FlowTypes, Tasks
<1>0. OK(t)
  BY DEF KInv, TasksOK
<1>1. op[t] \notin BlockOp \cup {"terminate"}
  BY <1>0 DEF OK, CallOK, BlockOp, EventOp
<1>2. task_state[t] = "READY"
  BY <1>0, <1>1 DEF OK, FlowOK
<1>3. event_suspend[t] = 0
  BY <1>0, <1>1 DEF OK, BlockOK, BlockOp, EventOp
<1> QED
  BY <1>2, <1>3 DEF Queued

\* A task above it that waits for an event is parked by then.
LEMMA WaiterIsParked ==
  ASSUME KInv, NEW t \in UserTask, mode = "task", nrk_cur_task = t, Queued(t),
         NEW u \in UserTask, Prio[t] < Prio[u], event_suspend[u] # 0
  PROVE  task_state[u] \in {"SUSPENDED", "EVENT_SUSPENDED"}
<1> USE FlowTypes, Tasks
<1>0. OK(u)
  BY DEF KInv, TasksOK
<1>1. op[u] \in BlockOp
  BY <1>0 DEF OK, BlockOK, BlockOp, EventOp
<1>2. pc[u] \notin {"user", "removed"} /\ op[u] # "terminate"
  BY <1>0, <1>1 DEF OK, CallOK, BlockOp, EventOp, Waiting
<1>3. ~Queued(u)
  <2>1. Prio[t] \in Nat /\ Prio[u] \in Nat
    BY TaskAssumption
  <2>2. Queued(u) => Prio[u] <= Prio[t]
    BY RunsAbove
  <2> HIDE FlowTypes, Tasks
  <2> QED
    BY <2>1, <2>2
<1>4. task_state[u] \notin {"READY", "FINISHED", "UNUSED"}
  BY <1>0, <1>2, <1>3 DEF OK, FlowOK, Queued
<1>5. task_state[u] \in TaskState
  OBVIOUS
<1> QED
  BY <1>4, <1>5 DEF TaskState

\* A parked task whose event has come is due, and nothing else of it changes.
Woken(u) ==
  /\ UNCHANGED <<mode, nrk_cur_task, task_ID>>
  /\ pc'[u] = pc[u] /\ op'[u] = op[u] /\ arg'[u] = arg[u]
  /\ suspend_flag'[u] = suspend_flag[u] /\ nw_flag'[u] = nw_flag[u]
  /\ num_periods'[u] = num_periods[u]
  /\ task_state'[u] = "SUSPENDED" /\ event_suspend'[u] = 0 /\ next_wakeup'[u] = 0
  /\ op[u] \in EventOp => \E s \in Signals : active_signal_mask'[u] = {s}

LEMMA WokenIsOK ==
  ASSUME KInv, mode = "task", NEW u \in UserTask, Woken(u), u # nrk_cur_task,
         task_state[u] \in {"SUSPENDED", "EVENT_SUSPENDED"}
  PROVE  OK(u)'
<1> USE FlowTypes, Tasks
<1>0. OK(u)
  BY DEF KInv, TasksOK
<1>1. pc[u] \notin {"marked", "take", "store", "removed"}
  BY <1>0 DEF OK, FlowOK
<1>2. CallOK(u)'
  BY <1>0 DEF OK, CallOK, Woken
<1>3. FlowOK(u)'
  BY <1>0, <1>1 DEF OK, FlowOK, Woken
<1>4. BlockOK(u)'
  BY <1>0, <1>1 DEF OK, FlowOK, BlockOK, Woken, SIG_EVENT, RSRC_EVENT
<1>5. WaitOK(u)'
  BY <1>0 DEF OK, WaitOK, Woken
<1>6. MaskOK(u)'
  <2>1. event_suspend'[u] \notin {SIG_EVENT, RSRC_EVENT}
    BY DEF Woken, SIG_EVENT, RSRC_EVENT
  <2>2. CASE op[u] \in EventOp
    <3>1. PICK s \in Signals : active_signal_mask'[u] = {s}
      BY <2>2 DEF Woken
    <3>2. s # WakeupSignal
      BY SignalAssumption
    <3> QED
      BY <2>1, <3>1, <3>2 DEF MaskOK
  <2>3. CASE op[u] \notin EventOp
    BY <2>1, <2>3 DEF MaskOK, Woken
  <2> QED
    BY <2>2, <2>3
<1> QED
  BY <1>2, <1>3, <1>4, <1>5, <1>6 DEF OK

\* Waking parked tasks does not concern the queue.
LEMMA WakingStep ==
  ASSUME KInv, mode = "task", UNCHANGED <<readyQ, mode, nrk_cur_task>>,
         NEW woken \in SUBSET UserTask, task_state' = Resumed(woken),
         \A u \in woken : /\ task_state[u] \in {"SUSPENDED", "EVENT_SUSPENDED"}
                          /\ u # nrk_cur_task /\ Woken(u),
         \A u \in UserTask \ woken : OK(u)',
         \A u \in UserTask : pc'[u] = "removed" <=> pc[u] = "removed",
         \A u \in Task : elevated_prio_flag'[u] => task_prio_ceil'[u] = Prio[u]
  PROVE  QueueInv' /\ TasksOK' /\ OrderInv'
<1> USE FlowTypes, Tasks
<1>1. \A u \in UserTask : Queued(u)' <=> Queued(u)
  BY DEF Resumed, Queued
<1>2. QueueInv'
  BY <1>1 DEF KInv, QueueInv
<1>3. OrderInv'
  BY <1>1 DEF KInv, OrderInv, Sorted
<1>4. TasksOK'
  BY WokenIsOK DEF TasksOK
<1> QED
  BY <1>2, <1>3, <1>4

\* No semaphore has the index that is the mask of a signal: a signal wakes nobody
\* who waits for a semaphore.
LEMMA NoSemTaken ==
  ASSUME KInv, WokenFromBelow, NEW s \in Signals
  PROVE  SemWaitersTakenFor(s) = {}
<1> SUFFICES ASSUME NEW u \in Task, event_suspend[u] = RSRC_EVENT,
                    active_signal_mask[u] = {s}
             PROVE  FALSE
  BY DEF SemWaitersTakenFor
<1>1. u \in UserTask
  BY FlowTypes, Tasks DEF RSRC_EVENT
<1>2. OK(u)
  BY <1>1 DEF KInv, TasksOK
<1>3. Mask(arg[u]) = {s} /\ op[u] = "pend"
  BY <1>2 DEF OK, BlockOK, MaskOK
<1>4. arg[u] \in Sems /\ "sem_pend" \in Calls[u]
  BY <1>1, <1>2, <1>3, FlowTypes, Tasks DEF OK, CallOK
<1>5. \A r \in Signals : Mask(arg[u]) # {r}
  BY <1>1, <1>4 DEF WokenFromBelow
<1> QED
  BY <1>3, <1>5

\* A signal raised by a task finds tasks that wait for it, all above the caller.
LEMMA EventSignalOK ==
  ASSUME KInv, WokenFromBelow, NEW t \in UserTask, EventSignal(t)
  PROVE  QueueInv' /\ TasksOK' /\ OrderInv'
<1> USE FlowTypes, Tasks
<1>1. PICK s \in nrk_signal_list \cap Signals :
        MayCall(t, "event_signal") /\ RaiseSignal(s) /\ UNCHANGED callVars
  BY DEF EventSignal
<1> DEFINE woken == SignalWaiters(s) \cup SemWaitersTakenFor(s)
<1>2. mode = "task" /\ nrk_cur_task = t /\ Queued(t) /\ event_suspend[t] = 0
  BY <1>1, CallerIsQueued DEF MayCall, At
<1>3. ASSUME NEW u \in woken
      PROVE  /\ u \in UserTask /\ u # t /\ u \in SignalWaiters(s)
             /\ task_state[u] \in {"SUSPENDED", "EVENT_SUSPENDED"}
  <2>1. u \in Task /\ event_suspend[u] # 0
    <3>1. u \in Task /\ event_suspend[u] \in {SIG_EVENT, RSRC_EVENT}
      BY DEF SignalWaiters, SemWaitersTakenFor
    <3>2. SIG_EVENT # 0 /\ RSRC_EVENT # 0
      BY DEF SIG_EVENT, RSRC_EVENT
    <3> QED
      BY <3>1, <3>2
  <2>2. u \in UserTask /\ u # t
    BY <1>2, <2>1
  <2>3. OK(u)
    BY <2>2 DEF KInv, TasksOK
  <2>4. u \notin SemWaitersTakenFor(s)
    BY NoSemTaken
  <2>5. u \in SignalWaiters(s)
    BY <2>4
  <2>6. "event_wait" \in Calls[u]
    BY <2>3, <2>5 DEF OK, CallOK, BlockOK, SignalWaiters
  <2>7. Prio[t] < Prio[u]
    BY <1>1, <2>2, <2>6 DEF MayCall, WokenFromBelow
  <2> QED
    BY <1>2, <2>1, <2>2, <2>5, <2>7, WaiterIsParked
<1>4. \A u \in woken : Woken(u)
  BY <1>1, <1>3 DEF RaiseSignal, Woken, Resumed, Unblocked, Due
<1>5. ASSUME NEW u \in UserTask \ woken
      PROVE  OK(u)'
  <2>1. Same(u)
    BY <1>1 DEF RaiseSignal, Same, Resumed, Unblocked, Due
  <2> QED
    BY <2>1, SameIsOK DEF KInv, TasksOK
<1>6. /\ UNCHANGED <<readyQ, mode, nrk_cur_task, pc, elevated_prio_flag,
                     task_prio_ceil>>
      /\ task_state' = Resumed(woken)
  BY <1>1 DEF RaiseSignal
<1>7. woken \in SUBSET UserTask
  BY <1>3
<1>8. \A u \in Task : elevated_prio_flag'[u] => task_prio_ceil'[u] = Prio[u]
  BY <1>6 DEF KInv, OrderInv
<1> HIDE DEF woken
<1> QED
  BY <1>2, <1>3, <1>4, <1>5, <1>6, <1>7, <1>8, WakingStep

\* A signal raised by an interrupt handler finds nobody.
LEMMA IsrSignalOK ==
  ASSUME KInv, WokenFromBelow, IsrSignal
  PROVE  QueueInv' /\ TasksOK' /\ OrderInv'
<1> USE FlowTypes, Tasks
<1>1. PICK s \in IsrSignals \cap nrk_signal_list :
        /\ mode = "task" /\ RaiseSignal(s) /\ UNCHANGED <<op, arg, loaded>>
        /\ pc' = [pc EXCEPT ![nrk_cur_task] =
                    IF @ # "asleep" THEN @
                    ELSE IF nrk_cur_task = Idle THEN "user" ELSE "check"]
  BY DEF IsrSignal
<1>2. SignalWaiters(s) = {} /\ SemWaitersTakenFor(s) = {}
  <2>1. SemWaitersTakenFor(s) = {}
    BY NoSemTaken, ProgramAssumption
  <2>2. ASSUME NEW u \in SignalWaiters(s)
        PROVE  FALSE
    <3>1. u \in UserTask /\ event_suspend[u] = SIG_EVENT /\ s \in active_signal_mask[u]
      BY DEF SignalWaiters, SIG_EVENT
    <3>2. OK(u)
      BY <3>1 DEF KInv, TasksOK
    <3>3. active_signal_mask[u] \in WaitMasks
      BY <3>1, <3>2 DEF OK, MaskOK
    <3>4. "event_wait" \in Calls[u]
      BY <3>1, <3>2 DEF OK, CallOK, BlockOK
    <3> QED
      BY <3>1, <3>3, <3>4 DEF WokenFromBelow
  <2> QED
    BY <2>1, <2>2
<1>3. UNCHANGED <<task_state, next_wakeup, event_suspend, active_signal_mask,
                  suspend_flag, nw_flag, num_periods, elevated_prio_flag,
                  task_prio_ceil, readyQ, mode, nrk_cur_task, task_ID, op, arg>>
  BY <1>1, <1>2 DEF RaiseSignal, Resumed, Due, Unblocked
<1>4. ASSUME NEW t \in UserTask, t = nrk_cur_task
      PROVE  QueueInv' /\ TasksOK' /\ OrderInv'
  <2>0. OK(t)
    BY DEF KInv, TasksOK
  <2>1. \A u \in UserTask \ {t} : Same(u)
    BY <1>1, <1>3, <1>4 DEF Same
  <2>2. pc'[t] = IF pc[t] = "asleep" THEN "check" ELSE pc[t]
    BY <1>1, <1>4
  <2>3. CallOK(t)'
    BY <2>0, <2>2, <1>3 DEF OK, CallOK, Waiting
  <2>4. FlowOK(t)'
    BY <2>0, <2>2, <1>3 DEF OK, FlowOK, Waiting
  <2>5. BlockOK(t)'
    BY <2>0, <2>2, <1>3 DEF OK, BlockOK
  <2>6. WaitOK(t)'
    BY <2>0, <2>2, <1>3 DEF OK, WaitOK
  <2>7. MaskOK(t)'
    BY <2>0, <1>3 DEF OK, MaskOK
  <2>8. OK(t)'
    BY <2>3, <2>4, <2>5, <2>6, <2>7 DEF OK
  <2>9. pc'[t] = "removed" <=> pc[t] = "removed"
    BY <2>2
  <2> QED
    BY <1>3, <2>1, <2>8, <2>9, OwnStep
<1>5. CASE nrk_cur_task = Idle
  BY <1>1, <1>3, <1>5, NobodyStep DEF Same
<1> QED
  BY <1>4, <1>5

\* A post wakes whoever waits for the semaphore, and returns.
LEMMA SemReleaseOK ==
  ASSUME KInv, WokenFromBelow, NEW t \in UserTask, SemRelease(t)
  PROVE  QueueInv' /\ TasksOK' /\ OrderInv'
<1> USE FlowTypes, Tasks
<1> DEFINE woken == SemWaiters(arg[t])
<1>1. mode = "task" /\ nrk_cur_task = t /\ pc[t] = "posting" /\ op[t] = "post"
  BY DEF SemRelease, At
<1>2. Queued(t) /\ event_suspend[t] = 0 /\ OK(t)
  BY <1>1, CallerIsQueued DEF KInv, TasksOK
<1>3. ASSUME NEW u \in woken
      PROVE  /\ u \in UserTask /\ u # t /\ op[u] = "pend"
             /\ task_state[u] \in {"SUSPENDED", "EVENT_SUSPENDED"}
  <2>1. u \in UserTask /\ u # t /\ event_suspend[u] = RSRC_EVENT
    <3>1. u \in Task /\ event_suspend[u] = RSRC_EVENT
      BY DEF SemWaiters
    <3>2. RSRC_EVENT # 0
      BY DEF RSRC_EVENT
    <3> QED
      BY <1>2, <3>1, <3>2
  <2>2. OK(u)
    BY <2>1 DEF KInv, TasksOK
  <2>3. op[u] = "pend" /\ "sem_pend" \in Calls[u]
    BY <2>1, <2>2 DEF OK, CallOK, BlockOK
  <2>4. Prio[t] < Prio[u]
    BY <1>1, <1>2, <2>1, <2>3 DEF OK, CallOK, WokenFromBelow
  <2>5. event_suspend[u] # 0
    BY <2>1 DEF RSRC_EVENT
  <2> QED
    BY <1>1, <1>2, <2>1, <2>3, <2>4, <2>5, WaiterIsParked
<1>4. ASSUME NEW u \in woken
      PROVE  Woken(u)
  BY <1>3 DEF SemRelease, Return, Woken, Resumed, Unblocked, Due, EventOp
<1>5. ASSUME NEW u \in UserTask \ woken
      PROVE  OK(u)'
  <2>1. CASE u # t
    <3>1. Same(u)
      BY <2>1 DEF SemRelease, Return, Same, Resumed, Unblocked, Due
    <3> QED
      BY <3>1, SameIsOK DEF KInv, TasksOK
  <2>2. CASE u = t
    <3>1. /\ UNCHANGED <<mode, nrk_cur_task, task_ID, suspend_flag, nw_flag,
                         num_periods>>
          /\ pc'[t] = "user" /\ op'[t] = "none"
          /\ task_state'[t] = task_state[t] /\ event_suspend'[t] = 0
      BY <1>2, <2>2 DEF SemRelease, Return, Resumed, Unblocked
    <3>2. CallOK(t)'
      BY <1>1, <3>1 DEF CallOK, BlockOp, EventOp
    <3>3. FlowOK(t)'
      BY <1>1, <1>2, <3>1 DEF OK, FlowOK, Queued, Waiting
    <3>4. BlockOK(t)'
      BY <1>2, <3>1 DEF BlockOK, BlockOp, EventOp, SIG_EVENT, RSRC_EVENT, Queued
    <3>5. WaitOK(t)'
      BY <1>1, <1>2, <3>1 DEF OK, WaitOK
    <3>6. MaskOK(t)'
      BY <3>1 DEF MaskOK, EventOp, SIG_EVENT, RSRC_EVENT
    <3> QED
      BY <2>2, <3>2, <3>3, <3>4, <3>5, <3>6 DEF OK
  <2> QED
    BY <2>1, <2>2
<1>6. /\ UNCHANGED <<readyQ, mode, nrk_cur_task>>
      /\ task_state' = Resumed(woken)
      /\ \A u \in UserTask : pc'[u] = "removed" <=> pc[u] = "removed"
  BY <1>1 DEF SemRelease, Return
<1>7. woken \in SUBSET UserTask
  BY <1>3
<1>8. \A u \in Task : elevated_prio_flag'[u] => task_prio_ceil'[u] = Prio[u]
  BY DEF SemRelease, KInv, OrderInv
<1> HIDE DEF woken
<1> QED
  BY <1>1, <1>3, <1>4, <1>5, <1>6, <1>7, <1>8, WakingStep

-----------------------------------------------------------------------------

\* A task that terminates leaves the queue first ...
LEMMA TerminateRemoveOK ==
  ASSUME KInv, WokenFromBelow, NEW t \in UserTask, TerminateRemove(t)
  PROVE  QueueInv' /\ TasksOK' /\ OrderInv'
<1> USE FlowTypes, Tasks
<1>1. /\ mode = "task" /\ nrk_cur_task = t /\ pc[t] = "user" /\ Reserve[t] = 0
      /\ pc' = [pc EXCEPT ![t] = "removed"] /\ readyQ' = RemFromReadyQ(readyQ, t)
      /\ UNCHANGED <<tcbVars, passVars, op, arg>>
  BY DEF TerminateRemove, MayCall, At, WokenFromBelow
<1>2. OK(t) /\ Queued(t)
  BY <1>1, CallerIsQueued DEF KInv, TasksOK
<1>3. QueueInv'
  BY <1>1, RemoveOne DEF KInv, QueueInv, Queued
<1>4. OrderInv'
  <2>1. Sorted(readyQ')
    BY <1>1, RemoveSorted DEF KInv, OrderInv
  <2>2. nrk_cur_task' = t /\ ~Queued(t)'
    BY <1>1 DEF Queued
  <2> QED
    BY <1>1, <2>1, <2>2 DEF KInv, OrderInv
<1>5. CallOK(t)'
  BY <1>1, <1>2 DEF OK, CallOK, BlockOp, EventOp
<1>6. FlowOK(t)'
  BY <1>1, <1>2 DEF OK, FlowOK, Queued, Waiting
<1>7. BlockOK(t)'
  BY <1>1, <1>2 DEF OK, CallOK, BlockOK
<1>8. WaitOK(t)' /\ MaskOK(t)'
  BY <1>1, <1>2 DEF OK, CallOK, WaitOK, MaskOK
<1>9. \A u \in UserTask \ {t} : Same(u)
  BY <1>1 DEF Same
<1>10. TasksOK'
  BY <1>5, <1>6, <1>7, <1>8, <1>9, SameIsOK DEF KInv, TasksOK, OK
<1> QED
  BY <1>3, <1>4, <1>10

\* ... and is FINISHED afterwards.
LEMMA TerminateFinishOK ==
  ASSUME KInv, WokenFromBelow, NEW t \in UserTask, TerminateFinish(t)
  PROVE  QueueInv' /\ TasksOK' /\ OrderInv'
<1> USE FlowTypes, Tasks
<1>1. /\ mode = "task" /\ nrk_cur_task = t /\ pc[t] = "removed"
      /\ pc' = [pc EXCEPT ![t] = "marked"] /\ op' = [op EXCEPT ![t] = "terminate"]
      /\ arg' = [arg EXCEPT ![t] = 0]
      /\ task_state' = [task_state EXCEPT ![t] = "FINISHED"]
      /\ UNCHANGED <<suspend_flag, blockVars, timingVars, ceilVars, readyQ, passVars>>
  BY DEF TerminateFinish, At
<1>2. OK(t) /\ op[t] = "none" /\ ~suspend_flag[t]
  BY <1>1 DEF KInv, TasksOK, OK, CallOK, FlowOK, Waiting
<1>3. QueueInv'
  BY <1>1 DEF KInv, QueueInv, Queued
<1>4. OrderInv'
  BY <1>1 DEF KInv, OrderInv, Sorted, Queued
<1>5. CallOK(t)'
  BY <1>1 DEF CallOK, Waiting, BlockOp, EventOp
<1>6. FlowOK(t)'
  BY <1>1, <1>2 DEF FlowOK
<1>7. BlockOK(t)'
  BY <1>1, <1>2 DEF OK, BlockOK, BlockOp, EventOp
<1>8. WaitOK(t)' /\ MaskOK(t)'
  BY <1>1, <1>2 DEF OK, BlockOK, WaitOK, MaskOK, EventOp, SIG_EVENT, RSRC_EVENT
<1>9. \A u \in UserTask \ {t} : Same(u)
  BY <1>1 DEF Same
<1>10. TasksOK'
  BY <1>5, <1>6, <1>7, <1>8, <1>9, SameIsOK DEF KInv, TasksOK, OK
<1> QED
  BY <1>3, <1>4, <1>10

\* A step of main or of a pass that leaves a task alone.
LEMMA PassedOver ==
  ASSUME NEW t \in UserTask, OK(t), FlowOK(t)',
         pc'[t] = pc[t], op'[t] = op[t], arg'[t] = arg[t],
         task_state'[t] = task_state[t], suspend_flag'[t] = suspend_flag[t],
         event_suspend'[t] = event_suspend[t], nw_flag'[t] = nw_flag[t],
         active_signal_mask'[t] = active_signal_mask[t],
         next_wakeup'[t] = next_wakeup[t], num_periods'[t] = num_periods[t]
  PROVE  OK(t)'
<1>1. CallOK(t)'
  BY DEF OK, CallOK
<1>2. BlockOK(t)'
  BY DEF OK, BlockOK
<1>3. WaitOK(t)' /\ MaskOK(t)'
  BY DEF OK, WaitOK, MaskOK
<1> QED
  BY <1>1, <1>2, <1>3 DEF OK

\* main activates each task once, before any is queued.
LEMMA ActivateOK ==
  ASSUME KInv, WokenFromBelow, NEW t \in UserTask, Activate(t)
  PROVE  QueueInv' /\ TasksOK' /\ OrderInv'
<1> USE FlowTypes, Tasks
<1>1. /\ mode = "boot" /\ task_ID = t /\ task_ID' = t + 1
      /\ task_state' = [task_state EXCEPT ![t] =
                          IF Offset[t] = 0 THEN "READY" ELSE "SUSPENDED"]
      /\ suspend_flag' = [suspend_flag EXCEPT ![t] = FALSE]
      /\ next_wakeup' = [next_wakeup EXCEPT ![t] = Offset[t]]
      /\ num_periods' = [num_periods EXCEPT ![t] = 1]
      /\ UNCHANGED <<blockVars, ceilVars, mode, nrk_cur_task, callVars>>
  BY DEF Activate
<1>2. OK(t) /\ task_state[t] = "UNUSED" /\ pc[t] = "user" /\ op[t] = "none"
  BY <1>1 DEF KInv, TasksOK, OK, FlowOK, CallOK
<1>3. ~Holds(readyQ, t)
  BY <1>2 DEF KInv, QueueInv, Queued
<1>4. QueueInv' /\ Sorted(readyQ')
  <2>1. CASE Offset[t] = 0
    <3>1. readyQ' = AddToReadyQ(readyQ, t, Prio, elevated_prio_flag, task_prio_ceil)
      BY <2>1 DEF Activate
    <3>2. /\ Distinct(readyQ')
          /\ \A u \in Task : Holds(readyQ', u) <=> u = t \/ Holds(readyQ, u)
      BY <1>3, <3>1, AddOne DEF KInv, QueueInv, WokenFromBelow
    <3>3. Sorted(readyQ')
      BY <3>1, AddSorted DEF KInv, OrderInv
    <3> QED
      BY <1>1, <1>2, <2>1, <3>2, <3>3 DEF KInv, QueueInv, Queued
  <2>2. CASE Offset[t] # 0
    <3>1. readyQ' = readyQ
      BY <2>2 DEF Activate
    <3>2. \A u \in UserTask : Queued(u)' <=> Queued(u)
      BY <1>1, <1>2, <2>2 DEF Queued
    <3> QED
      BY <3>1, <3>2 DEF KInv, QueueInv, OrderInv
  <2> QED
    BY <2>1, <2>2
<1>5. OrderInv'
  BY <1>1, <1>4 DEF KInv, OrderInv
<1>6. ASSUME NEW u \in UserTask
      PROVE  FlowOK(u)'
  <2>1. FlowOK(u) /\ (u >= t + 1 => u # t /\ u >= t)
    BY DEF KInv, TasksOK, OK, UserTask
  <2> QED
    BY <1>1, <1>2, <2>1 DEF FlowOK
<1>7. ASSUME NEW u \in UserTask \ {t}
      PROVE  OK(u)'
  BY <1>1, <1>6, PassedOver DEF KInv, TasksOK
<1>8. OK(t)'
  <2>1. CallOK(t)'
    BY <1>1, <1>2 DEF OK, CallOK
  <2>2. BlockOK(t)'
    BY <1>1, <1>2 DEF OK, BlockOK, BlockOp, EventOp, SIG_EVENT, RSRC_EVENT
  <2>3. WaitOK(t)' /\ MaskOK(t)'
    BY <1>1, <1>2 DEF OK, WaitOK, MaskOK
  <2> QED
    BY <1>6, <2>1, <2>2, <2>3 DEF OK
<1> QED
  BY <1>4, <1>5, <1>7, <1>8 DEF TasksOK

\* A task gets the processor from the queue, when the system starts and at the end
\* of a pass.
LEMMA DispatchOK ==
  ASSUME KInv, Start \/ SchedDispatch
  PROVE  QueueInv' /\ TasksOK' /\ OrderInv'
<1> USE FlowTypes, Tasks
<1>1. /\ mode \in {"boot", "dispatch"} /\ mode' = "task"
      /\ nrk_cur_task' = Head(readyQ) /\ UNCHANGED <<tcbVars, readyQ, callVars>>
  BY DEF Start, SchedDispatch
<1>2. QueueInv'
  BY <1>1, QueueStays
<1>3. OrderInv'
  BY <1>1 DEF KInv, OrderInv, Sorted
<1>4. ASSUME NEW u \in UserTask
      PROVE  FlowOK(u)'
  <2>1. FlowOK(u)
    BY DEF KInv, TasksOK, OK
  <2>2. nrk_cur_task' = u => task_state[u] = "READY"
    BY <1>1, HeadIsQueued DEF Queued
  <2> QED
    BY <1>1, <2>1, <2>2 DEF FlowOK
<1>5. TasksOK'
  BY <1>1, <1>4, PassedOver DEF KInv, TasksOK
<1> QED
  BY <1>2, <1>3, <1>5

\* A pass takes the task that ran out of the queue when it parks it, or when its
\* reserve is used up.
LEMMA SchedBeginOK ==
  ASSUME KInv, WokenFromBelow, SchedBegin
  PROVE  QueueInv' /\ TasksOK' /\ OrderInv'
<1> USE FlowTypes, Tasks
<1>0. PICK t \in Task : t = nrk_cur_task
  OBVIOUS
<1> USE <1>0
<1> DEFINE parks == suspend_flag[t] /\ task_state[t] # "FINISHED"
           plain == parks /\ event_suspend[t] = 0
           depleted == /\ Charged(t, IF parks THEN ParkState(t) ELSE task_state[t])
                       /\ Monus(cpu_remaining[t], prev_timer_val) = 0
           once == IF parks THEN RemFromReadyQ(readyQ, t) ELSE readyQ
<1>1. /\ mode = "task" /\ mode' = "scan" /\ task_ID' = 0 /\ task_ID' <= t
      /\ UNCHANGED <<nrk_cur_task, suspend_flag>>
      /\ UNCHANGED <<active_signal_mask, num_periods, ceilVars, op, arg>>
      /\ \A u \in UserTask :
           /\ pc'[u] = IF u = t /\ pc[u] = "asleep" THEN "check" ELSE pc[u]
           /\ u # t => /\ task_state'[u] = task_state[u] /\ nw_flag'[u] = nw_flag[u]
                       /\ event_suspend'[u] = event_suspend[u]
                       /\ next_wakeup'[u] = next_wakeup[u]
  <2>1. 0 <= t
    BY DEF Task
  <2> QED
    BY <2>1 DEF SchedBegin
<1>2. /\ task_state'[t] = IF depleted THEN "SUSPENDED"
                          ELSE IF parks THEN ParkState(t) ELSE task_state[t]
      /\ event_suspend'[t] = IF plain THEN 0 ELSE event_suspend[t]
      /\ nw_flag'[t] = IF plain THEN FALSE ELSE nw_flag[t]
      /\ ~plain => next_wakeup'[t] = next_wakeup[t]
  BY DEF SchedBegin
<1>3. readyQ' = IF depleted THEN RemFromReadyQ(once, t) ELSE once
  BY DEF SchedBegin
<1>4. parks => t \in UserTask
  BY DEF Idle
<1>5. depleted => t \in UserTask /\ Reserve[t] # 0 /\ task_state[t] # "FINISHED"
  BY DEF Charged, ParkState
<1>6. ParkState(t) \in {"SUSPENDED", "EVENT_SUSPENDED"}
  BY DEF ParkState
<1> HIDE DEF parks, depleted
<1>7. ASSUME t \in UserTask, depleted
      PROVE  /\ op[t] \notin BlockOp \cup {"terminate"} /\ event_suspend[t] = 0
             /\ pc[t] \notin {"marked", "take", "store", "removed"}
  <2>0. OK(t)
    BY <1>7 DEF KInv, TasksOK
  <2>1. op[t] \notin BlockOp
    BY <1>5, <1>7, <2>0 DEF OK, CallOK, BlockOp, EventOp, WokenFromBelow
  <2>2. op[t] # "terminate"
    BY <1>5, <1>7, <2>0 DEF OK, FlowOK
  <2>3. event_suspend[t] = 0
    BY <2>0, <2>1 DEF OK, BlockOK, BlockOp
  <2>4. pc[t] \notin {"marked", "take", "store"}
    BY <2>0, <2>1, <2>2 DEF OK, CallOK, BlockOp
  <2>5. pc[t] # "removed"
    BY <1>5, <1>7, <2>0 DEF OK, FlowOK
  <2> QED
    BY <2>1, <2>2, <2>3, <2>4, <2>5
<1>8. ASSUME t \in UserTask, parks
      PROVE  pc[t] \in Waiting /\ task_state[t] = "READY" /\ op[t] # "terminate"
  BY <1>1, <1>8 DEF KInv, TasksOK, OK, FlowOK, parks
<1>9. QueueInv'
  <2>1. /\ Distinct(once) /\ once \in Seq(Task)
        /\ \A u \in Task : Holds(once, u) <=> Holds(readyQ, u) /\ (parks => u # t)
    BY <1>4, RemoveOne, QueueAfterRem DEF KInv, QueueInv
  <2>2. /\ Distinct(readyQ')
        /\ \A u \in Task : Holds(readyQ', u)
                             <=> Holds(readyQ, u) /\ (parks \/ depleted => u # t)
    BY <1>3, <2>1, RemoveOne
  <2>3. ASSUME NEW u \in UserTask
        PROVE  Queued(u)' <=> Queued(u) /\ (parks \/ depleted => u # t)
    <3>1. pc'[u] = "removed" <=> pc[u] = "removed"
      BY <1>1
    <3>2. u = t /\ (parks \/ depleted) => task_state'[t] # "READY"
      BY <1>2, <1>6
    <3>3. u # t \/ ~(parks \/ depleted) => task_state'[u] = task_state[u]
      BY <1>1, <1>2
    <3> QED
      BY <3>1, <3>2, <3>3 DEF Queued
  <2> QED
    BY <2>2, <2>3 DEF KInv, QueueInv
<1>10. OrderInv'
  <2>1. Sorted(once) /\ once \in Seq(Task)
    BY <1>4, RemoveSorted, QueueAfterRem DEF KInv, OrderInv
  <2>2. Sorted(RemFromReadyQ(once, t))
    BY <2>1, RemoveSorted
  <2> HIDE DEF once
  <2> QED
    BY <1>1, <1>3, <2>1, <2>2 DEF KInv, OrderInv
<1>11. ASSUME NEW u \in UserTask, u # t
       PROVE  OK(u)'
  <2>1. FlowOK(u) /\ ~suspend_flag[u]
    BY <1>11 DEF KInv, TasksOK, OK, FlowOK
  <2>2. FlowOK(u)'
    BY <1>1, <1>11, <2>1 DEF FlowOK
  <2> QED
    BY <1>1, <1>11, <2>2, PassedOver DEF KInv, TasksOK
<1>12. ASSUME t \in UserTask
       PROVE  OK(t)'
  <2>0. OK(t)
    BY <1>12 DEF KInv, TasksOK
  <2>1. CallOK(t)'
    BY <1>1, <1>12, <2>0 DEF OK, CallOK, Waiting
  <2>2. FlowOK(t)'
    <3>1. CASE parks \/ depleted
      <4>1. /\ task_state'[t] \in {"SUSPENDED", "EVENT_SUSPENDED"}
            /\ pc[t] \notin {"marked", "take", "store", "removed"}
            /\ op[t] # "terminate"
        BY <1>2, <1>6, <1>7, <1>8, <1>12, <3>1 DEF Waiting
      <4> QED
        BY <1>1, <1>12, <2>0, <4>1 DEF OK, FlowOK, Waiting
    <3>2. CASE ~(parks \/ depleted)
      BY <1>1, <1>2, <1>12, <2>0, <3>2 DEF OK, FlowOK, Waiting, parks
    <3> QED
      BY <3>1, <3>2
  <2>3. BlockOK(t)' /\ WaitOK(t)' /\ MaskOK(t)'
    <3>1. CASE depleted
      <4>1. op[t] \notin BlockOp /\ event_suspend'[t] = 0
            /\ task_state'[t] = "SUSPENDED" /\ (nw_flag'[t] => nw_flag[t])
        BY <1>2, <1>7, <1>12, <3>1
      <4>2. BlockOK(t)' /\ MaskOK(t)'
        BY <1>1, <4>1 DEF BlockOK, MaskOK, BlockOp, EventOp, SIG_EVENT, RSRC_EVENT
      <4>3. WaitOK(t)'
        BY <1>1, <2>0, <4>1 DEF OK, WaitOK
      <4> QED
        BY <4>2, <4>3
    <3>2. CASE plain /\ ~depleted
      <4>1. op[t] \notin BlockOp
        BY <1>8, <1>12, <2>0, <3>2 DEF OK, BlockOK, parks
      <4>2. task_state'[t] = "SUSPENDED" /\ ~nw_flag'[t] /\ event_suspend'[t] = 0
        BY <1>2, <3>2 DEF ParkState, RSRC_EVENT
      <4>3. BlockOK(t)' /\ MaskOK(t)'
        BY <1>1, <4>1, <4>2 DEF BlockOK, MaskOK, BlockOp, EventOp, SIG_EVENT,
           RSRC_EVENT
      <4>4. WaitOK(t)'
        BY <1>1, <2>0, <4>2 DEF OK, WaitOK
      <4> QED
        BY <4>3, <4>4
    <3>3. CASE parks /\ ~plain /\ ~depleted
      <4>1. /\ op[t] \in BlockOp /\ event_suspend[t] \in {SIG_EVENT, RSRC_EVENT}
            /\ pc[t] # "marked"
        BY <1>8, <1>12, <2>0, <3>3 DEF OK, BlockOK, BlockOp, EventOp, Waiting
      <4>2. /\ event_suspend'[t] = event_suspend[t] /\ nw_flag'[t] = nw_flag[t]
            /\ next_wakeup'[t] = next_wakeup[t]
            /\ task_state'[t] = ParkState(t)
        BY <1>2, <3>3
      <4>3. IF op[t] = "event_nw"
            THEN nw_flag[t] /\ ParkState(t) = "SUSPENDED"
            ELSE ParkState(t) = "EVENT_SUSPENDED" /\ ~nw_flag[t]
        <5>1. op[t] = "event_nw" => nw_flag[t] /\ event_suspend[t] = SIG_EVENT
          BY <2>0, <4>1 DEF OK, WaitOK, BlockOK, SIG_EVENT, RSRC_EVENT
        <5>2. op[t] # "event_nw" => ~nw_flag[t]
          BY <2>0, <4>1 DEF OK, WaitOK, BlockOp, EventOp
        <5> QED
          BY <4>1, <5>1, <5>2 DEF ParkState, SIG_EVENT, RSRC_EVENT
      <4>4. num_periods[t] = 1
        BY <2>0, <4>1 DEF OK, WaitOK, BlockOp, EventOp
      <4>5. BlockOK(t)'
        BY <1>1, <2>0, <4>1, <4>2, <4>3 DEF OK, BlockOK, BlockOp, EventOp, SIG_EVENT,
           RSRC_EVENT
      <4>6. WaitOK(t)'
        BY <1>1, <2>0, <4>1, <4>2, <4>3, <4>4 DEF OK, WaitOK
      <4>7. MaskOK(t)'
        BY <1>1, <2>0, <4>2 DEF OK, MaskOK
      <4> QED
        BY <4>5, <4>6, <4>7
    <3>4. CASE ~parks /\ ~depleted
      <4>1. /\ event_suspend'[t] = event_suspend[t] /\ nw_flag'[t] = nw_flag[t]
            /\ next_wakeup'[t] = next_wakeup[t]
            /\ task_state'[t] = task_state[t]
            /\ pc'[t] = "marked" <=> pc[t] = "marked"
        BY <1>1, <1>2, <1>12, <3>4
      <4>2. BlockOK(t)'
        BY <1>1, <2>0, <4>1 DEF OK, BlockOK
      <4>3. WaitOK(t)'
        BY <1>1, <2>0, <4>1 DEF OK, WaitOK
      <4>4. MaskOK(t)'
        BY <1>1, <2>0, <4>1 DEF OK, MaskOK
      <4> QED
        BY <4>2, <4>3, <4>4
    <3> QED
      BY <3>1, <3>2, <3>3, <3>4
  <2> QED
    BY <2>1, <2>2, <2>3 DEF OK
<1> QED
  BY <1>9, <1>10, <1>11, <1>12 DEF TasksOK

\* A task that a pass wakes was not queued.
LEMMA SchedScanOK ==
  ASSUME KInv, WokenFromBelow, SchedScan
  PROVE  QueueInv' /\ TasksOK' /\ OrderInv'
<1> USE FlowTypes, Tasks
<1>0. PICK t \in Task : t = task_ID
  BY DEF SchedScan
<1> USE <1>0
<1> DEFINE wakes == task_state[t] = "SUSPENDED"
                      /\ (IF t # Idle /\ task_state[t] # "FINISHED"
                          THEN Monus(next_wakeup[t], prev_timer_val)
                          ELSE next_wakeup[t]) = 0
           runs == wakes /\ num_periods[t] = 1
<1>1. /\ t \in Task /\ mode = "scan" /\ mode' \in {"scan", "dispatch"}
      /\ suspend_flag' = [suspend_flag EXCEPT ![t] = FALSE]
      /\ task_state' = [task_state EXCEPT ![t] = IF runs THEN "READY" ELSE @]
      /\ event_suspend' = [event_suspend EXCEPT ![t] = IF wakes THEN 0 ELSE @]
      /\ nw_flag' = [nw_flag EXCEPT ![t] = IF wakes THEN FALSE ELSE @]
      /\ num_periods' = [num_periods EXCEPT ![t] = IF wakes THEN 1 ELSE @]
      /\ active_signal_mask' = [active_signal_mask EXCEPT ![t] =
           IF wakes /\ event_suspend[t] > 0 /\ nw_flag[t] THEN {WakeupSignal} ELSE @]
      /\ \A u \in UserTask \ {t} : next_wakeup'[u] = next_wakeup[u]
      /\ UNCHANGED <<ceilVars, nrk_cur_task, callVars>>
  BY DEF SchedScan, OnWakeup
<1>2. readyQ' = IF runs
                THEN AddToReadyQ(readyQ, t, Prio, elevated_prio_flag, task_prio_ceil)
                ELSE readyQ
  BY DEF SchedScan
<1>3. wakes => t \in UserTask
  BY <1>1
<1>4. next_wakeup[t] = 0 /\ t \in UserTask /\ task_state[t] = "SUSPENDED" => wakes
  BY DEF Monus
<1> HIDE DEF wakes
<1>5. wakes => task_state[t] = "SUSPENDED"
  BY DEF wakes
<1>6. QueueInv' /\ Sorted(readyQ')
  <2>1. CASE ~runs
    BY <1>1, <1>2, <2>1, QueueStays DEF KInv, OrderInv
  <2>2. CASE runs
    <3>1. t \in UserTask /\ task_state[t] = "SUSPENDED" /\ ~Holds(readyQ, t)
      BY <1>3, <1>5, <2>2 DEF KInv, QueueInv, Queued
    <3>2. pc[t] # "removed"
      BY <3>1 DEF KInv, TasksOK, OK, FlowOK
    <3>3. readyQ' = AddToReadyQ(readyQ, t, Prio, elevated_prio_flag, task_prio_ceil)
      BY <1>2, <2>2
    <3>4. /\ Distinct(readyQ')
          /\ \A u \in Task : Holds(readyQ', u) <=> u = t \/ Holds(readyQ, u)
      BY <3>1, <3>3, AddOne DEF KInv, QueueInv, WokenFromBelow
    <3>5. Sorted(readyQ')
      BY <3>1, <3>3, AddSorted DEF KInv, OrderInv
    <3>6. \A u \in UserTask : Queued(u)' <=> u = t \/ Queued(u)
      BY <1>1, <2>2, <3>1, <3>2 DEF Queued
    <3> QED
      BY <3>4, <3>5, <3>6 DEF KInv, QueueInv
  <2> QED
    BY <2>1, <2>2
<1>7. OrderInv'
  BY <1>1, <1>6 DEF KInv, OrderInv
<1>8. ASSUME NEW u \in UserTask, u # t
      PROVE  OK(u)'
  <2>1. FlowOK(u)
    BY DEF KInv, TasksOK, OK
  <2>2. u >= t => mode' = "scan" /\ u >= task_ID'
    <3>1. task_ID' = t + 1 /\ mode' = IF t = NumTasks THEN "dispatch" ELSE "scan"
      BY DEF SchedScan
    <3> QED
      BY <1>8, <3>1, TaskAssumption DEF UserTask, Task
  <2>3. suspend_flag[u] => mode' = "scan" /\ u >= task_ID'
    BY <1>1, <2>1, <2>2 DEF FlowOK
  <2>4. FlowOK(u)'
    BY <1>1, <1>8, <2>1, <2>3 DEF FlowOK
  <2> QED
    BY <1>1, <1>8, <2>4, PassedOver DEF KInv, TasksOK
<1>9. ASSUME t \in UserTask
      PROVE  OK(t)'
  <2>0. OK(t)
    BY <1>9 DEF KInv, TasksOK
  <2>1. CallOK(t)'
    BY <1>1, <2>0 DEF OK, CallOK
  <2>2. FlowOK(t)'
    BY <1>1, <1>5, <1>9, <2>0 DEF OK, FlowOK
  <2>3. CASE wakes
    <3>1. /\ event_suspend'[t] = 0 /\ ~nw_flag'[t] /\ num_periods'[t] = 1
          /\ op[t] \in BlockOp => num_periods[t] = 1 /\ task_state'[t] = "READY"
          /\ pc[t] # "marked" /\ ~suspend_flag'[t]
      BY <1>1, <1>5, <1>9, <2>0, <2>3
      DEF OK, FlowOK, WaitOK, BlockOp, EventOp
    <3>2. BlockOK(t)'
      <4>1. task_state'[t] # "EVENT_SUSPENDED"
        BY <1>1, <1>5, <1>9, <2>3
      <4> QED
        BY <1>1, <3>1, <4>1 DEF BlockOK, BlockOp, EventOp, SIG_EVENT, RSRC_EVENT
    <3>3. WaitOK(t)'
      BY <1>1, <3>1 DEF WaitOK
    <3>4. MaskOK(t)'
      <4>1. CASE op[t] \in EventOp /\ event_suspend[t] # 0
        <5>1. op[t] = "event_nw" /\ event_suspend[t] > 0 /\ nw_flag[t]
          BY <1>5, <2>0, <2>3, <3>1, <4>1 DEF OK, BlockOK, WaitOK, EventOp, SIG_EVENT,
             RSRC_EVENT
        <5>2. active_signal_mask'[t] = {WakeupSignal} /\ op'[t] = op[t]
          BY <1>1, <1>9, <2>3, <5>1
        <5>3. event_suspend'[t] \notin {SIG_EVENT, RSRC_EVENT}
          BY <3>1 DEF SIG_EVENT, RSRC_EVENT
        <5> QED
          BY <5>1, <5>2, <5>3 DEF MaskOK
      <4>2. CASE op[t] \in EventOp /\ event_suspend[t] = 0
        <5>1. active_signal_mask'[t] = active_signal_mask[t]
          BY <1>1, <4>2
        <5> QED
          BY <1>1, <2>0, <3>1, <4>2, <5>1 DEF OK, MaskOK, SIG_EVENT, RSRC_EVENT
      <4>3. CASE op[t] \notin EventOp
        BY <1>1, <3>1, <4>3 DEF MaskOK, SIG_EVENT, RSRC_EVENT
      <4> QED
        BY <4>1, <4>2, <4>3
    <3> QED
      BY <2>1, <2>2, <3>2, <3>3, <3>4 DEF OK
  <2>4. CASE ~wakes
    <3>1. /\ task_state'[t] = task_state[t] /\ event_suspend'[t] = event_suspend[t]
          /\ nw_flag'[t] = nw_flag[t] /\ num_periods'[t] = num_periods[t]
          /\ active_signal_mask'[t] = active_signal_mask[t] /\ ~suspend_flag'[t]
          /\ UNCHANGED <<pc, op, arg>>
      BY <1>1, <1>9, <2>4
    <3>2. suspend_flag[t] =>
            task_state[t] \in {"SUSPENDED", "EVENT_SUSPENDED", "FINISHED"}
      BY <1>1, <1>9, <2>0 DEF OK, FlowOK, TaskState, Waiting
    <3>3. BlockOK(t)'
      <4>1. ~(op[t] \in BlockOp /\ event_suspend[t] = 0
              /\ task_state[t] = "SUSPENDED")
        BY <1>4, <1>9, <2>0, <2>4 DEF OK, BlockOK
      <4>2. task_state[t] = "READY" => ~suspend_flag[t]
        BY <3>2
      <4> QED
        BY <2>0, <3>1, <4>1, <4>2 DEF OK, BlockOK
    <3>4. WaitOK(t)'
      <4>1. nw_flag[t] \/ num_periods[t] # 1 => task_state[t] = "SUSPENDED"
        BY <2>0, <3>2 DEF OK, WaitOK, FlowOK, BlockOK
      <4> QED
        BY <2>0, <3>1, <4>1 DEF OK, WaitOK
    <3>5. MaskOK(t)'
      BY <2>0, <3>1 DEF OK, MaskOK
    <3> QED
      BY <2>1, <2>2, <3>3, <3>4, <3>5 DEF OK
  <2> QED
    BY <2>3, <2>4
<1> QED
  BY <1>6, <1>7, <1>8, <1>9 DEF TasksOK

-----------------------------------------------------------------------------

\* main finds only the idle task in the queue.
LEMMA InitKInv ==
  ASSUME Init
  PROVE  KInv
<1> USE Tasks DEF Init
<1>1. readyQ = <<Idle>>
  BY QueueSlotsAssumption DEF AddToReadyQ
<1>2. QueueInv
  BY <1>1 DEF QueueInv, Queued, Distinct, Holds, Idle
<1>3. TasksOK
  BY DEF TasksOK, OK, CallOK, FlowOK, BlockOK, WaitOK, MaskOK, Waiting, BlockOp,
     EventOp, SIG_EVENT, RSRC_EVENT
<1>4. OrderInv
  <2>1. Sorted(readyQ)
    BY <1>1 DEF Sorted
  <2>2. mode # "task" /\ \A t \in Task : ~elevated_prio_flag[t]
    OBVIOUS
  <2> QED
    BY <2>1, <2>2 DEF OrderInv
<1> QED
  BY <1>2, <1>3, <1>4, InitOK DEF KInv

\* Every step keeps the invariant.
LEMMA NextKInv ==
  ASSUME KInv, WokenFromBelow, [Next]_vars
  PROVE  KInv'
<1>1. IInv'
  BY NextOK DEF KInv
<1>2. CASE Tick \/ Scheduler \/ Start \/ IdleTask \/ IsrSignal
  BY <1>1, <1>2, TickOK, SchedBeginOK, SchedScanOK, DispatchOK, IdleTaskOK,
     IsrSignalOK
  DEF Scheduler, KInv
<1>3. ASSUME NEW t \in UserTask,
             Activate(t) \/ SemTakeStore(t) \/ SemRelease(t) \/ InWait(t)
      PROVE  KInv'
  BY <1>1, <1>3, ActivateOK, SemTakeStoreOK, SemReleaseOK, BlockingWaitOK, ArmWaitOK,
     EnterIdleOK, CheckFlagOK, TerminateFinishOK, SemTakeLoadOK DEF InWait, KInv
<1>4. ASSUME NEW t \in UserTask, TaskCall(t)
      PROVE  KInv'
  <2>1. ~SignalDelete(t)
    BY DEF SignalDelete, MayCall, WokenFromBelow
  <2> QED
    BY <1>1, <1>4, <2>1, WaitStepOK, SetNextWakeupOK, TerminateRemoveOK, SignalSetOK,
       SignalUnregisterOK, EventSignalOK, EventWaitOK DEF TaskCall, KInv
<1>5. ASSUME NEW t \in UserTask, SemCall(t)
      PROVE  KInv'
  BY <1>1, <1>5, SemPendFreeOK, SemPendBlockOK, SemPostOK DEF SemCall, KInv
<1>6. CASE UNCHANGED vars
  <2>1. \A u \in UserTask : Same(u)
    BY <1>6 DEF Same
  <2> QED
    BY <1>1, <1>6, <2>1, NobodyStep DEF KInv
<1> QED
  BY <1>2, <1>3, <1>4, <1>5, <1>6 DEF Next

\* The three parts are an invariant of the kernel.
LEMMA KernelInv ==
  ASSUME WokenFromBelow
  PROVE  Spec => []KInv
<1>1. KInv /\ [Next]_vars => KInv'
  BY NextKInv
<1> QED
  BY <1>1, InitKInv, PTL DEF Spec

\* Counting the nodes of a task in a queue that holds none twice.
LEMMA OneNode ==
  ASSUME NEW q \in Seq(Task), Distinct(q), NEW t \in Task
  PROVE  Occurrences(q, t) = IF Holds(q, t) THEN 1 ELSE 0
<1>1. CASE Holds(q, t)
  <2>1. PICK i \in 1..Len(q) : q[i] = t
    BY <1>1 DEF Holds
  <2>2. {j \in 1..Len(q) : q[j] = t} = {i}
    BY <2>1 DEF Distinct
  <2> QED
    BY <1>1, <2>2, FS_Singleton DEF Occurrences
<1>2. CASE ~Holds(q, t)
  <2>1. {j \in 1..Len(q) : q[j] = t} = {}
    BY <1>2 DEF Holds
  <2> QED
    BY <1>2, <2>1, FS_EmptySet DEF Occurrences
<1> QED
  BY <1>1, <1>2

\* The ready queue holds each READY task in exactly one node and no other, however
\* ticks, passes and the calls of other tasks interleave, when a task is woken only by
\* tasks below it: nrk_add_to_readyQ, which never looks whether the task already has a
\* node, is only called for tasks without one, and no task is forgotten.
THEOREM QueueHoldsReady ==
  ASSUME WokenFromBelow
  PROVE  Spec => []ReadyIsQueuedOnce
<1>1. KInv => ReadyIsQueuedOnce
  BY FlowTypes, OneNode, Tasks DEF KInv, QueueInv, Queued, ReadyIsQueuedOnce
<1> QED
  BY <1>1, KernelInv, PTL

\* A task that a signal or a post has woken is due at the very next pass, and stays
\* so until that pass has come to it.  Whoever wakes it is below it, so it was parked
\* then: a signal between the note and the wait, which leaves it suspended for a period
\* (run SignalRace), is excluded and not covered.
THEOREM EventMakesDue ==
  ASSUME WokenFromBelow
  PROVE  Spec => []SignalledIsDue
<1>1. KInv => SignalledIsDue
  BY DEF KInv, TasksOK, OK, BlockOK, BlockOp, EventOp, SignalledIsDue
<1> QED
  BY <1>1, KernelInv, PTL

\* A task that is back in the application waits for no event any more, so that no
\* later signal or post suspends it under the scheduler's feet: when no signal can
\* come between its note and its wait, as whoever signals is below it.  Where one can,
\* this is what goes wrong (run SignalRace).
THEOREM NothingLeftPending ==
  ASSUME WokenFromBelow
  PROVE  Spec => []NothingPending
<1>1. KInv => NothingPending
  BY DEF KInv, TasksOK, OK, CallOK, BlockOK, BlockOp, EventOp, NothingPending,
     SIG_EVENT, RSRC_EVENT
<1> QED
  BY <1>1, KernelInv, PTL

\* nrk_event_wait returns one signal, the one that ended the wait, and the wakeup
\* signal only to a task that asked for a timeout: when whoever signals is below the
\* task, so that the signal finds it parked.  After a signal between the note and the
\* wait, which is excluded here, a later call returns without any.
THEOREM OneSignalReturned ==
  ASSUME WokenFromBelow
  PROVE  Spec => []WaitReturnsOneSignal
<1>1. ASSUME KInv
      PROVE  WaitReturnsOneSignal
  <2> SUFFICES ASSUME NEW t \in UserTask, At(t, "check"), ~suspend_flag[t],
                      op[t] \in EventOp
               PROVE  /\ Cardinality(active_signal_mask[t]) = 1
                      /\ WakeupSignal \in active_signal_mask[t] => op[t] = "event_nw"
    BY DEF WaitReturnsOneSignal, EventOp
  <2>0. OK(t)
    BY <1>1 DEF KInv, TasksOK
  <2>1. task_state[t] = "READY"
    BY <2>0 DEF OK, FlowOK, At, EventOp
  <2>2. event_suspend[t] = 0
    BY <2>0, <2>1 DEF OK, BlockOK, BlockOp, At
  <2>3. PICK s : /\ active_signal_mask[t] = {s}
                 /\ s = WakeupSignal => op[t] = "event_nw"
    BY <2>0, <2>2 DEF OK, MaskOK
  <2> QED
    BY <2>3, FS_Singleton
<1> QED
  BY <1>1, KernelInv, PTL

-----------------------------------------------------------------------------

\* No program terminates a task: one that a pass interrupts on its way out of
\* nrk_terminate_task is READY for ever, though no longer queued.
NoTermination == \A t \in UserTask : "terminate" \notin Calls[t]

\* No task is leaving the queue for ever.
Remains == \A t \in UserTask : pc[t] # "removed"

LEMMA NextRemains ==
  ASSUME KInv, NoTermination, Remains, [Next]_vars
  PROVE  Remains'
<1> USE FlowTypes, Tasks
<1>1. CASE Tick \/ Scheduler \/ Start \/ IdleTask \/ IsrSignal
  BY <1>1 DEF Remains, Tick, Scheduler, SchedBegin, SchedScan, SchedDispatch, Start,
     IdleTask, IsrSignal
<1>2. ASSUME NEW t \in UserTask,
             Activate(t) \/ SemTakeStore(t) \/ SemRelease(t) \/ InWait(t)
      PROVE  Remains'
  BY <1>2 DEF Remains, Activate, SemTakeStore, SemRelease, Return, InWait,
     BlockingWait, BeginWait, ArmWait, EnterIdle, CheckFlag, TerminateFinish,
     SemTakeLoad
<1>3. ASSUME NEW t \in UserTask, TaskCall(t)
      PROVE  Remains'
  <2>1. ~TerminateRemove(t)
    BY DEF NoTermination, TerminateRemove, MayCall
  <2> QED
    BY <1>3, <2>1 DEF Remains, TaskCall, Wait, BeginWait, SetNextWakeupCall,
       SignalCreate, SignalDelete, SignalRegister, SignalUnregister,
       EventSignal, RaiseSignal, EventWait
<1>4. ASSUME NEW t \in UserTask, SemCall(t)
      PROVE  Remains'
  BY <1>4 DEF Remains, SemCall, SemPendFree, SemPendBlock, SemPost
<1>5. CASE UNCHANGED vars
  BY <1>5 DEF Remains
<1> QED
  BY <1>1, <1>2, <1>3, <1>4, <1>5 DEF Next

\* Application code runs only in the most urgent of the READY tasks: a pass that
\* wakes a task hands it the processor at once when it outranks the task that ran,
\* and no call of a task, nor the ceiling of a semaphore it holds, leaves the
\* processor with a task that another READY one outranks.
THEOREM UrgentTaskRuns ==
  ASSUME WokenFromBelow, NoTermination
  PROVE  Spec => []HighestReadyRuns
<1>1. Init => Remains
  BY Tasks DEF Init, Remains
<1>2. KInv /\ Remains /\ [Next]_vars => Remains'
  BY NextRemains
<1>3. ASSUME KInv, Remains
      PROVE  HighestReadyRuns
  <2> SUFFICES ASSUME mode = "task", nrk_cur_task \in UserTask,
                      pc[nrk_cur_task] = "user",
                      NEW t \in Task, task_state[t] = "READY"
               PROVE  Prio[t] <= Prio[nrk_cur_task]
    BY DEF HighestReadyRuns, Live
  <2>1. CASE t = Idle
    BY <2>1, TaskAssumption, Tasks
  <2>2. CASE t \in UserTask
    <3>1. Queued(t) /\ Queued(nrk_cur_task)
      BY <1>3, <2>2, CallerIsQueued DEF Remains, Queued
    <3> QED
      BY <1>3, <2>2, <3>1, RunsAbove
  <2> QED
    BY <2>1, <2>2, Tasks
<1> QED
  BY <1>1, <1>2, <1>3, KernelInv, PTL DEF Spec

-----------------------------------------------------------------------------

\* One task pends and one posts, and no two semaphores have the same mask.  Two
\* tasks that pend can both find the same unit, and two that post can both find
\* the same room: each tests the value at one time and changes it at another.
OnePender ==
  /\ \A t, u \in UserTask :
       /\ "sem_pend" \in Calls[t] \cap Calls[u] => t = u
       /\ "sem_post" \in Calls[t] \cap Calls[u] => t = u
  /\ \A q, r \in Sems : Mask(q) = Mask(r) => q = r

\* What a task that tested the value of its semaphore still knows of it.
SemOK(t) ==
  /\ event_suspend[t] = RSRC_EVENT => sem_value[arg[t]] = 0
  /\ op[t] = "pend" /\ event_suspend[t] = 0 => sem_value[arg[t]] > 0
  /\ pc[t] = "store" => loaded[t] = sem_value[arg[t]]
  /\ pc[t] = "posting" => sem_value[arg[t]] < SemCount[arg[t]]

SemInv == ValueInRange /\ \A t \in UserTask : SemOK(t)

\* A step takes nobody any further in a pend or a post.
SemSame(t) ==
  /\ op'[t] = "pend" => /\ op[t] = "pend" /\ arg'[t] = arg[t]
                        /\ event_suspend'[t] = event_suspend[t]
  /\ pc'[t] = "store" => pc[t] = "store" /\ loaded'[t] = loaded[t]
  /\ pc'[t] = "posting" => pc[t] = "posting" /\ arg'[t] = arg[t]

LEMMA SemStays ==
  ASSUME KInv, KInv', NEW t \in UserTask, SemOK(t), SemSame(t),
         sem_value'[arg[t]] = sem_value[arg[t]]
  PROVE  SemOK(t)'
<1> USE DEF SemSame
<1>1. OK(t)'
  BY DEF KInv, TasksOK
<1>2. event_suspend'[t] = RSRC_EVENT => op'[t] = "pend"
  BY <1>1 DEF OK, BlockOK
<1>3. pc'[t] = "store" => op'[t] = "pend"
  BY FlowTypes, Tasks DEF KInv, IInv, SemArg
<1> QED
  BY <1>2, <1>3 DEF SemOK

\* Only the task that pends can be blocked on a semaphore, or about to take one.
LEMMA OnlyPender ==
  ASSUME KInv, OnePender, NEW t \in UserTask, "sem_pend" \in Calls[t],
         NEW u \in UserTask, u # t
  PROVE  op[u] # "pend" /\ event_suspend[u] # RSRC_EVENT /\ pc[u] # "store"
<1>1. OK(u)
  BY DEF KInv, TasksOK
<1>2. op[u] # "pend"
  BY <1>1 DEF OK, CallOK, OnePender
<1> QED
  BY <1>1, <1>2, FlowTypes, Tasks DEF OK, BlockOK

\* Steps that change no value and take nobody any further.
LEMMA SemUntouched ==
  ASSUME KInv, KInv', SemInv, UNCHANGED sem_value,
         \A t \in UserTask : SemSame(t)
  PROVE  SemInv'
<1>1. ValueInRange'
  BY DEF SemInv, ValueInRange
<1> QED
  BY <1>1, SemStays DEF SemInv

\* A signal ends no wait for a semaphore.
LEMMA SignalSparesPender ==
  ASSUME KInv, WokenFromBelow, NEW s \in Signals, NEW t \in UserTask, op[t] = "pend"
  PROVE  Unblocked(SignalWaiters(s) \cup SemWaitersTakenFor(s))[t] = event_suspend[t]
<1>1. OK(t)
  BY DEF KInv, TasksOK
<1>2. t \notin SignalWaiters(s)
  BY <1>1 DEF OK, BlockOK, EventOp, SignalWaiters
<1> QED
  BY <1>2, NoSemTaken, Tasks DEF Unblocked

\* A pass, the counter, main and the interrupt handlers are among them: a pass
\* makes no task due whose semaphore has not been posted.
LEMMA SystemSem ==
  ASSUME KInv, KInv', WokenFromBelow, SemInv,
         Tick \/ Scheduler \/ Start \/ IdleTask \/ IsrSignal
         \/ \E t \in UserTask : Activate(t)
  PROVE  SemInv'
<1> USE FlowTypes, Tasks
<1>1. UNCHANGED sem_value
  BY DEF Tick, Scheduler, SchedBegin, SchedScan, SchedDispatch, Start, IdleTask,
     IsrSignal, RaiseSignal, Activate
<1> SUFFICES ASSUME NEW t \in UserTask
             PROVE  SemSame(t)
  BY <1>1, SemUntouched
<1>2. CASE Tick \/ Start \/ SchedDispatch \/ IdleTask \/ \E u \in UserTask : Activate(u)
  BY <1>2 DEF Tick, Start, SchedDispatch, IdleTask, Activate, SemSame
<1>3. CASE SchedBegin
  <2>1. event_suspend'[t] = event_suspend[t] /\ pc'[t] \in {pc[t], "check"}
    BY <1>3 DEF SchedBegin
  <2> QED
    BY <1>3, <2>1 DEF SchedBegin, SemSame
<1>4. CASE SchedScan
  <2>1. OK(t)
    BY DEF KInv, TasksOK
  <2>2. task_state[t] = "SUSPENDED" /\ op[t] = "pend" => event_suspend[t] = 0
    BY <2>1 DEF OK, BlockOK
  <2>3. \/ event_suspend'[t] = event_suspend[t]
        \/ task_state[t] = "SUSPENDED" /\ event_suspend'[t] = 0
    BY <1>4 DEF SchedScan, OnWakeup
  <2> QED
    BY <1>4, <2>2, <2>3 DEF SchedScan, SemSame
<1>5. CASE IsrSignal
  <2>1. PICK s \in IsrSignals \cap nrk_signal_list :
          /\ event_suspend' = Unblocked(SignalWaiters(s) \cup SemWaitersTakenFor(s))
          /\ UNCHANGED <<op, arg, loaded>>
    BY <1>5 DEF IsrSignal, RaiseSignal
  <2>2. pc'[t] = pc[t] \/ pc'[t] \in {"user", "check"}
    BY <1>5 DEF IsrSignal
  <2>3. op[t] = "pend" => event_suspend'[t] = event_suspend[t]
    BY <2>1, SignalSparesPender, ProgramAssumption
  <2> QED
    BY <2>1, <2>2, <2>3 DEF SemSame
<1> QED
  BY <1>2, <1>3, <1>4, <1>5 DEF Scheduler

\* So are the calls that do not concern semaphores, and the waits.
LEMMA CallSem ==
  ASSUME KInv, KInv', WokenFromBelow, SemInv, NEW t \in UserTask,
         \/ TaskCall(t)
         \/ BlockingWait(t) \/ ArmWait(t) \/ EnterIdle(t) \/ CheckFlag(t)
         \/ TerminateFinish(t)
  PROVE  SemInv'
<1> USE FlowTypes, Tasks
<1>0. ~SignalDelete(t)
  BY DEF SignalDelete, MayCall, WokenFromBelow
<1>1. CASE EventSignal(t)
  <2>1. PICK s \in nrk_signal_list \cap Signals :
          /\ event_suspend' = Unblocked(SignalWaiters(s) \cup SemWaitersTakenFor(s))
          /\ UNCHANGED <<callVars, sem_value>>
    BY <1>1 DEF EventSignal, RaiseSignal
  <2>2. \A u \in UserTask : SemSame(u)
    BY <2>1, SignalSparesPender DEF SemSame
  <2> QED
    BY <2>1, <2>2, SemUntouched
<1>2. CASE \/ BlockingWait(t) \/ ArmWait(t) \/ EnterIdle(t) \/ CheckFlag(t)
           \/ TerminateFinish(t)
  <2>1. UNCHANGED <<sem_value, event_suspend, loaded>>
    BY <1>2 DEF BlockingWait, BeginWait, ArmWait, EnterIdle, CheckFlag,
       TerminateFinish
  <2>2. \A u \in UserTask \ {t} : pc'[u] = pc[u] /\ op'[u] = op[u] /\ arg'[u] = arg[u]
    BY <1>2 DEF BlockingWait, BeginWait, ArmWait, EnterIdle, CheckFlag, Return,
       TerminateFinish
  <2>3. /\ pc'[t] \notin {"store", "posting"}
        /\ op'[t] = "pend" => op[t] = "pend" /\ arg'[t] = arg[t]
    BY <1>2 DEF BlockingWait, BeginWait, ArmWait, EnterIdle, CheckFlag, Return,
       TerminateFinish
  <2> QED
    BY <2>1, <2>2, <2>3, SemUntouched DEF SemSame
<1>3. CASE \/ Wait(t) \/ SetNextWakeupCall(t) \/ TerminateRemove(t)
           \/ SignalCreate(t) \/ SignalRegister(t) \/ SignalUnregister(t)
           \/ EventWait(t)
  <2>1. UNCHANGED <<sem_value, loaded>>
    BY <1>3 DEF Wait, BeginWait, SetNextWakeupCall, TerminateRemove, SignalCreate,
       SignalRegister, SignalUnregister, EventWait
  <2>2. \A u \in UserTask \ {t} :
          /\ op'[u] = op[u] /\ arg'[u] = arg[u] /\ pc'[u] = pc[u]
          /\ event_suspend'[u] = event_suspend[u]
    BY <1>3 DEF Wait, BeginWait, SetNextWakeupCall, TerminateRemove, SignalCreate,
       SignalRegister, SignalUnregister, EventWait
  <2>3. pc[t] = "user" /\ op[t] = "none"
    <3>1. pc[t] = "user"
      BY <1>3 DEF Wait, SetNextWakeupCall, TerminateRemove, SignalCreate,
         SignalRegister, SignalUnregister, EventWait, MayCall, At
    <3> QED
      BY <3>1 DEF KInv, TasksOK, OK, CallOK
  <2>4. op'[t] # "pend" /\ pc'[t] \notin {"store", "posting"}
    BY <1>3, <2>3 DEF Wait, BeginWait, WaitCall, SetNextWakeupCall, TerminateRemove,
       SignalCreate, SignalRegister, SignalUnregister, EventWait
  <2> QED
    BY <2>1, <2>2, <2>4, SemUntouched DEF SemSame
<1> QED
  BY <1>0, <1>1, <1>2, <1>3 DEF TaskCall

\* nrk_sem_pend: it finds the semaphore free ...
LEMMA SemPendFreeSem ==
  ASSUME KInv, KInv', OnePender, SemInv, NEW t \in UserTask, NEW s \in Sems,
         SemPendFree(t, s)
  PROVE  SemInv'
<1> USE FlowTypes, Tasks
<1>1. /\ sem_value' = [sem_value EXCEPT ![s] = @ - 1] /\ sem_value[s] # 0
      /\ "sem_pend" \in Calls[t] /\ pc[t] = "user"
      /\ UNCHANGED <<event_suspend, callVars>>
  BY DEF SemPendFree, MayCall, At
<1>2. sem_value \in [Sems -> Int] /\ SemCount \in [Sems -> Nat]
  BY SignalAssumption DEF KInv, IInv, ObjectTypeOK
<1>3. ValueInRange'
  BY <1>1, <1>2 DEF SemInv, ValueInRange
<1>4. SemOK(t)'
  <2>1. op[t] = "none" /\ event_suspend[t] # RSRC_EVENT
    BY <1>1 DEF KInv, TasksOK, OK, CallOK, BlockOK
  <2> QED
    BY <1>1, <2>1 DEF SemOK
<1>5. ASSUME NEW u \in UserTask, u # t
      PROVE  SemOK(u)'
  <2>1. op[u] # "pend" /\ event_suspend[u] # RSRC_EVENT /\ pc[u] # "store"
    BY <1>1, <1>5, OnlyPender
  <2>2. pc[u] = "posting" => sem_value'[arg[u]] < SemCount[arg[u]]
    <3>1. SemOK(u) /\ (pc[u] = "posting" => arg[u] \in Sems)
      BY DEF SemInv
    <3>2. SUFFICES ASSUME pc[u] = "posting"
                   PROVE  sem_value'[arg[u]] < SemCount[arg[u]]
      OBVIOUS
    <3>3. PICK a \in Sems : a = arg[u]
      BY <3>1, <3>2
    <3>4. sem_value[a] < SemCount[a] /\ sem_value[a] \in Int /\ SemCount[a] \in Nat
      BY <1>2, <3>1, <3>2, <3>3 DEF SemOK
    <3>5. sem_value'[a] = IF a = s THEN sem_value[s] - 1 ELSE sem_value[a]
      BY <1>1, <1>2
    <3> HIDE FlowTypes, Tasks
    <3> QED
      BY <3>3, <3>4, <3>5
  <2> QED
    BY <1>1, <2>1, <2>2 DEF SemOK
<1> QED
  BY <1>3, <1>4, <1>5 DEF SemInv

\* ... or taken, and notes that ...
LEMMA SemPendBlockSem ==
  ASSUME KInv, KInv', SemInv, NEW t \in UserTask, NEW s \in Sems, SemPendBlock(t, s)
  PROVE  SemInv'
<1> USE FlowTypes, Tasks
<1>1. /\ sem_value[s] = 0 /\ pc'[t] = "marked" /\ op'[t] = "pend" /\ arg'[t] = s
      /\ event_suspend'[t] # 0
      /\ UNCHANGED <<loaded, sem_value>>
      /\ \A u \in UserTask \ {t} : SemSame(u)
  BY DEF SemPendBlock, SemSame, RSRC_EVENT
<1>2. SemOK(t)'
  BY <1>1 DEF SemOK
<1> QED
  BY <1>1, <1>2, SemStays DEF SemInv, ValueInRange

\* ... and comes back once the semaphore has been posted.
LEMMA SemTakeLoadSem ==
  ASSUME KInv, KInv', SemInv, NEW t \in UserTask, SemTakeLoad(t)
  PROVE  SemInv'
<1> USE FlowTypes, Tasks
<1>1. /\ pc'[t] = "store" /\ loaded'[t] = sem_value[arg[t]]
      /\ UNCHANGED <<op, arg, event_suspend, sem_value>>
      /\ \A u \in UserTask \ {t} : SemSame(u)
  BY DEF SemTakeLoad, SemSame, CallTypeOK, KInv, IInv
<1>2. SemOK(t)'
  BY <1>1 DEF SemInv, SemOK
<1> QED
  BY <1>1, <1>2, SemStays DEF SemInv, ValueInRange

\* What it then stores is one less than the value, for nobody has changed it.
LEMMA SemTakeStoreSem ==
  ASSUME KInv, KInv', OnePender, SemInv, NEW t \in UserTask, SemTakeStore(t)
  PROVE  SemInv'
<1> USE FlowTypes, Tasks
<1> DEFINE s == arg[t]
<1>1. /\ sem_value' = [sem_value EXCEPT ![s] = loaded[t] - 1] /\ pc[t] = "store"
      /\ pc'[t] = "user" /\ op'[t] = "none" /\ op[t] = "pend" /\ s \in Sems
      /\ UNCHANGED event_suspend
      /\ \A u \in UserTask \ {t} : pc'[u] = pc[u] /\ op'[u] = op[u] /\ arg'[u] = arg[u]
  BY DEF SemTakeStore, At, Return
<1>2. sem_value \in [Sems -> Int] /\ SemCount \in [Sems -> Nat]
  BY SignalAssumption DEF KInv, IInv, ObjectTypeOK
<1>3. OK(t) /\ SemOK(t)
  BY DEF KInv, TasksOK, SemInv
<1>4. event_suspend[t] = 0
  BY <1>1, <1>3 DEF OK, FlowOK, BlockOK, BlockOp, Waiting
<1>5. loaded[t] = sem_value[s] /\ sem_value[s] > 0
  BY <1>1, <1>3, <1>4 DEF SemOK
<1> HIDE DEF s
<1>6. ValueInRange'
  <2> HIDE FlowTypes, Tasks
  <2>1. \A a \in Sems : sem_value[a] \in 0..SemCount[a]
    BY DEF SemInv, ValueInRange
  <2>2. \A a \in Sems : sem_value'[a] = IF a = s THEN sem_value[s] - 1 ELSE sem_value[a]
    BY <1>1, <1>2, <1>5
  <2> QED
    BY <1>1, <1>2, <1>5, <2>1, <2>2 DEF ValueInRange
<1>7. SemOK(t)'
  BY <1>1, <1>4 DEF SemOK, RSRC_EVENT
<1>8. ASSUME NEW u \in UserTask, u # t
      PROVE  SemOK(u)'
  <2>1. "sem_pend" \in Calls[t]
    BY <1>1, <1>3 DEF OK, CallOK
  <2>2. op[u] # "pend" /\ event_suspend[u] # RSRC_EVENT /\ pc[u] # "store"
    BY <1>8, <2>1, OnlyPender
  <2>3. pc[u] = "posting" => sem_value'[arg[u]] < SemCount[arg[u]]
    <3>1. SemOK(u) /\ (pc[u] = "posting" => arg[u] \in Sems)
      BY DEF SemInv
    <3>2. SUFFICES ASSUME pc[u] = "posting"
                   PROVE  sem_value'[arg[u]] < SemCount[arg[u]]
      OBVIOUS
    <3>3. PICK a \in Sems : a = arg[u]
      BY <3>1, <3>2
    <3>4. sem_value[a] < SemCount[a] /\ sem_value[a] \in Int /\ SemCount[a] \in Nat
      BY <1>2, <3>1, <3>2, <3>3 DEF SemOK
    <3>5. sem_value'[a] = IF a = s THEN sem_value[s] - 1 ELSE sem_value[a]
      BY <1>1, <1>2, <1>5
    <3> HIDE FlowTypes, Tasks
    <3> QED
      BY <3>3, <3>4, <3>5
  <2> QED
    BY <1>1, <1>8, <2>2, <2>3 DEF SemOK
<1> QED
  BY <1>6, <1>7, <1>8 DEF SemInv

\* nrk_sem_post sees room ...
LEMMA SemPostSem ==
  ASSUME KInv, KInv', SemInv, NEW t \in UserTask, NEW s \in Sems, SemPost(t, s)
  PROVE  SemInv'
<1> USE FlowTypes, Tasks
<1>1. /\ sem_value[s] < SemCount[s] /\ pc'[t] = "posting" /\ op'[t] = "post"
      /\ arg'[t] = s /\ UNCHANGED <<sem_value, event_suspend>> /\ pc[t] = "user"
      /\ \A u \in UserTask \ {t} : SemSame(u)
  BY DEF SemPost, SemSame, MayCall, At
<1>2. event_suspend[t] # RSRC_EVENT
  BY <1>1 DEF KInv, TasksOK, OK, CallOK, BlockOK
<1>3. SemOK(t)'
  BY <1>1, <1>2 DEF SemOK
<1> QED
  BY <1>1, <1>3, SemStays DEF SemInv, ValueInRange

\* ... which is still there when it adds one, and then nobody waits for the
\* semaphore any more.
LEMMA SemReleaseSem ==
  ASSUME KInv, KInv', WokenFromBelow, OnePender, SemInv, NEW t \in UserTask,
         SemRelease(t)
  PROVE  SemInv'
<1> USE FlowTypes, Tasks
<1> DEFINE s == arg[t]
<1>1. /\ sem_value' = [sem_value EXCEPT ![s] = @ + 1] /\ pc[t] = "posting"
      /\ pc'[t] = "user" /\ op'[t] = "none" /\ op[t] = "post" /\ s \in Sems
      /\ mode = "task" /\ nrk_cur_task = t
      /\ event_suspend' = Unblocked(SemWaiters(s)) /\ UNCHANGED loaded
      /\ \A u \in UserTask \ {t} : pc'[u] = pc[u] /\ op'[u] = op[u] /\ arg'[u] = arg[u]
  BY DEF SemRelease, At, Return
<1>2. sem_value \in [Sems -> Int] /\ SemCount \in [Sems -> Nat]
  BY SignalAssumption DEF KInv, IInv, ObjectTypeOK
<1>3. OK(t) /\ Queued(t) /\ event_suspend[t] = 0
  BY <1>1, CallerIsQueued DEF KInv, TasksOK
<1>4. sem_value[s] < SemCount[s]
  BY <1>1 DEF SemInv, SemOK
<1>5. ValueInRange'
  BY <1>1, <1>2, <1>4 DEF SemInv, ValueInRange
<1>6. "sem_post" \in Calls[t]
  BY <1>1, <1>3 DEF OK, CallOK
<1> HIDE DEF s
<1>7. SemOK(t)'
  BY <1>1, <1>3 DEF SemOK, Unblocked, RSRC_EVENT
<1>8. ASSUME NEW u \in UserTask, u # t
      PROVE  SemOK(u)'
  <2>0. OK(u) /\ SemOK(u)
    BY DEF KInv, TasksOK, SemInv
  <2>1. pc[u] # "posting"
    BY <1>6, <1>8, <2>0 DEF OK, CallOK, OnePender
  <2>2. pc[u] # "store"
    <3> SUFFICES ASSUME pc[u] = "store"  PROVE FALSE
      OBVIOUS
    <3>1. Queued(u) /\ "sem_pend" \in Calls[u]
      BY <2>0 DEF OK, CallOK, FlowOK, Queued
    <3>2. Prio[t] < Prio[u]
      BY <1>6, <1>8, <3>1 DEF WokenFromBelow
    <3>3. Prio[u] <= Prio[t] /\ Prio[t] \in Nat /\ Prio[u] \in Nat
      BY <1>1, <1>3, <3>1, RunsAbove, TaskAssumption
    <3> HIDE FlowTypes, Tasks
    <3> QED
      BY <3>2, <3>3
  <2>3. CASE op[u] = "pend" /\ arg[u] = s
    <3>1. event_suspend'[u] # RSRC_EVENT
      <4>1. event_suspend[u] = RSRC_EVENT => u \in SemWaiters(s)
        BY <2>0, <2>3 DEF OK, MaskOK, SemWaiters
      <4> QED
        BY <1>1, <4>1 DEF Unblocked, RSRC_EVENT
    <3>2. sem_value'[arg'[u]] > 0
      <4>1. sem_value[s] \in 0..SemCount[s] /\ SemCount[s] \in Nat
        BY <1>1, <1>2 DEF SemInv, ValueInRange
      <4>2. sem_value'[s] = sem_value[s] + 1 /\ arg'[u] = s
        BY <1>1, <1>2, <1>8, <2>3
      <4> QED
        BY <4>1, <4>2
    <3> QED
      BY <1>1, <1>8, <2>1, <2>2, <3>1, <3>2 DEF SemOK
  <2>4. CASE op[u] = "pend" /\ arg[u] # s
    <3>1. arg[u] \in Sems
      BY <2>4
    <3>2. u \notin SemWaiters(s)
      BY <1>1, <2>0, <2>4, <3>1 DEF OK, MaskOK, SemWaiters, OnePender
    <3>3. event_suspend'[u] = event_suspend[u] /\ sem_value'[arg[u]] = sem_value[arg[u]]
      BY <1>1, <1>2, <2>4, <3>1, <3>2 DEF Unblocked
    <3> QED
      BY <1>1, <1>8, <2>0, <2>1, <2>2, <3>3 DEF SemOK
  <2>5. CASE op[u] # "pend"
    <3>1. event_suspend'[u] # RSRC_EVENT
      BY <1>1, <2>0, <2>5 DEF OK, BlockOK, Unblocked, RSRC_EVENT
    <3> QED
      BY <1>1, <1>8, <2>1, <2>2, <2>5, <3>1 DEF SemOK
  <2> QED
    BY <2>3, <2>4, <2>5
<1> QED
  BY <1>5, <1>7, <1>8 DEF SemInv

-----------------------------------------------------------------------------

\* The semaphores are free at the start, and every step keeps their invariant.
LEMMA SemaphoreInv ==
  ASSUME WokenFromBelow, OnePender
  PROVE  Spec => []SemInv
<1>1. Init => SemInv
  BY Tasks, SignalAssumption DEF Init, SemInv, SemOK, ValueInRange, RSRC_EVENT
<1>2. ASSUME KInv, KInv', SemInv, [Next]_vars
      PROVE  SemInv'
  <2>1. CASE \/ Tick \/ Scheduler \/ Start \/ IdleTask \/ IsrSignal
             \/ \E t \in UserTask : Activate(t)
    BY <1>2, <2>1, SystemSem
  <2>2. ASSUME NEW t \in UserTask,
               InWait(t) \/ SemTakeStore(t) \/ SemRelease(t) \/ TaskCall(t)
        PROVE  SemInv'
    BY <1>2, <2>2, CallSem, SemTakeLoadSem, SemTakeStoreSem, SemReleaseSem DEF InWait
  <2>3. ASSUME NEW t \in UserTask, SemCall(t)
        PROVE  SemInv'
    BY <1>2, <2>3, SemPendFreeSem, SemPendBlockSem, SemPostSem DEF SemCall
  <2>4. CASE UNCHANGED vars
    BY <1>2, <2>4, SemUntouched DEF SemSame
  <2> QED
    BY <1>2, <2>1, <2>2, <2>3, <2>4 DEF Next
<1> QED
  BY <1>1, <1>2, KernelInv, PTL DEF Spec

\* Although nrk_sem_pend and nrk_sem_post both test the value at one time and change
\* it at another, it stays between 0 and the count, when one task pends and one below
\* it posts: a pass may come between any two of these steps, and the poster be left
\* between its own, but it never runs while the other is between its own.
THEOREM SemValueInRange ==
  ASSUME WokenFromBelow, OnePender
  PROVE  Spec => []ValueInRange
<1>1. SemInv => ValueInRange
  BY DEF SemInv
<1> QED
  BY <1>1, SemaphoreInv, PTL

\* Nobody stays parked on a semaphore that could be taken, when one task pends and one
\* below it posts: the post finds the parked task by its mask in the same section that
\* raises the value.  No post can come between the test in nrk_sem_pend and the wait of
\* the task above; that case is excluded.
THEOREM NobodyStranded ==
  ASSUME WokenFromBelow, OnePender
  PROVE  Spec => []NoStrandedWaiter
<1>1. SemInv => NoStrandedWaiter
  BY SignalAssumption DEF SemInv, SemOK, ValueInRange, NoStrandedWaiter
<1> QED
  BY <1>1, SemaphoreInv, PTL

=============================================================================
