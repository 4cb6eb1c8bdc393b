------------------------------ MODULE ReadyList ------------------------------
(***************************************************************************)
(* The ready queue as nrk_task.c keeps it: the nodes of _nrk_readyQ, each  *)
(* either on the doubly linked list of ready tasks or on the free list,    *)
(* which reuses the same links.  A pointer is the index of a node, or NULL.*)
(* Adding and removing are one step each, as they are in the scheduler,    *)
(* which runs with interrupts off.                                         *)
(***************************************************************************)
EXTENDS ReadyQueue

CONSTANTS User,      \* the tasks that come and go
          Priority,  \* of every task, and 0 of the idle task
          Ceiling    \* of the semaphore a task may hold

NULL == 0
Node == 1..QueueSlots

\* The idle task is none of them, and the pool is larger than its one node.
ASSUME ListAssumption == QueueSlots > 1 /\ 0 \notin User

VARIABLES
  node_task,     \* task_ID of a node
  next, prev,    \* Next and Prev of a node
  head,          \* _head_node
  free           \* _free_node

listVars == <<node_task, next, prev, head, free>>

\* The links nrk_init lays, once it has activated the idle task.
ListInit ==
  /\ node_task = [n \in Node |-> 0]
  /\ next = [n \in Node |-> IF n \in {1, QueueSlots} THEN NULL ELSE n + 1]
  /\ prev = [n \in Node |-> n - 1]
  /\ head = 1 /\ free = 2

\* The node k links behind n.
Behind(link, n) ==
  LET walk[k \in 0..QueueSlots] ==
        IF k = 0 THEN n ELSE IF walk[k-1] = NULL THEN NULL ELSE link[walk[k-1]]
  IN  walk

\* The nodes of a list, in order.
NodesFrom(link, n) ==
  LET walk == Behind(link, n)
  IN  [i \in 1..Cardinality({k \in 0..QueueSlots : walk[k] # NULL}) |-> walk[i-1]]

\* elevated_prio_flag when the tasks in holders hold a semaphore.
Elevated(holders) == [t \in {0} \cup User |-> t \in holders]

\* The first node on the ready list for which a test holds, or NULL.
FirstNode(Test(_)) ==
  LET nodes == NodesFrom(next, head)
      hits == {i \in DOMAIN nodes : Test(nodes[i])}
  IN  IF hits = {} THEN NULL ELSE nodes[Min(hits)]

-----------------------------------------------------------------------------

\* Fault: the node in front of the new one keeps its old link.
LinkOneWay(cur, at) ==
  /\ next' = [next EXCEPT ![cur] = at]
  /\ prev' = [prev EXCEPT ![cur] = prev[at], ![at] = cur]

\* Node cur goes in front of node at, which is not the head.
LinkBefore(cur, at) ==
  /\ next' = [next EXCEPT ![cur] = at, ![prev[at]] = cur]
  /\ prev' = [prev EXCEPT ![cur] = prev[at], ![at] = cur]

\* nrk_add_to_readyQ
AddNode(t, elevated) ==
  LET Stops(n) == GoesBefore(t, node_task[n], Priority, elevated, Ceiling)
      at == FirstNode(Stops)
  IN
  /\ free # NULL /\ at # NULL
  /\ node_task' = [node_task EXCEPT ![free] = t]
  /\ free' = next[free]
  /\ IF at = head
     THEN /\ next' = [next EXCEPT ![free] = head]
          /\ prev' = [prev EXCEPT ![free] = NULL, ![head] = free]
          /\ head' = free
     ELSE LinkBefore(free, at) /\ UNCHANGED head

\* Fault: a node unlinked while the free list is empty is forgotten.
FreeIfAny(cur) == IF free = NULL THEN NULL ELSE cur

\* The node becomes the first of the free list.
FreeList(cur) == cur

\* nrk_rem_from_readyQ
RemNode(t) ==
  LET Holds(n) == node_task[n] = t
      cur == FirstNode(Holds)
      rest == next[cur]
  IN
  /\ head # NULL /\ cur # NULL
  /\ head' = IF cur = head THEN rest ELSE head
  /\ next' = IF cur = head THEN [next EXCEPT ![cur] = free]
             ELSE [next EXCEPT ![prev[cur]] = rest, ![cur] = free]
  /\ prev' = [n \in Node |->
       IF n = cur THEN NULL
       ELSE IF n = rest THEN IF cur = head THEN NULL ELSE prev[cur]
       ELSE IF n = free THEN cur ELSE prev[n]]
  /\ free' = FreeList(cur)
  /\ UNCHANGED node_task

ListNext ==
  \/ \E t \in User, holders \in SUBSET User : AddNode(t, Elevated(holders))
  \/ \E t \in User : RemNode(t)

ListSpec == ListInit /\ [][ListNext]_listVars

-----------------------------------------------------------------------------

\* The tasks on the ready list, in order.
ReadyTasks ==
  LET nodes == NodesFrom(next, head) IN [i \in DOMAIN nodes |-> node_task[nodes[i]]]

Queue == INSTANCE ReadyQueueSpec WITH queue <- ReadyTasks

\* The list read from its head is the queue of module ReadyQueue: each call does
\* to it what the operator of the same name says, and nothing else does.
ImplementsQueue == Queue!QSpec

\* Every node is on exactly one of the two lists: none is lost, however many
\* calls fill and empty the queue.
NoNodeLost ==
  LET ready == Range(NodesFrom(next, head))
      freed == Range(NodesFrom(next, free))
  IN  ready \cup freed = Node /\ ready \cap freed = {}

\* The ready list reads the same backwards, so that unlinking a node through
\* its Prev unlinks it from the list it is on.
LinksAgree ==
  /\ prev[head] = NULL
  /\ \A n \in Range(NodesFrom(next, head)) : next[n] # NULL => prev[next[n]] = n

=============================================================================
