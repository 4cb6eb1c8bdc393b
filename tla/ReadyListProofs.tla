--------------------------- MODULE ReadyListProofs ---------------------------
(***************************************************************************)
(* The linked list of nrk_task.c is the queue that the rest of the kernel  *)
(* takes it for, whatever the number of nodes, the tasks and their         *)
(* priorities.                                                             *)
(***************************************************************************)
EXTENDS ReadyList, ReadyQueueProofs, FiniteSetTheorems

\* Following the links from node n visits the nodes of c, each once, and ends.
IsChain(link, n, c) ==
  /\ n = IF c = <<>> THEN NULL ELSE c[1]
  /\ \A i \in 1..Len(c) : link[c[i]] = IF i = Len(c) THEN NULL ELSE c[i+1]
  /\ \A i, j \in 1..Len(c) : c[i] = c[j] => i = j

\* A chain is no longer than the pool.
LEMMA ChainLength ==
  ASSUME NEW c \in Seq(Node), \A i, j \in 1..Len(c) : c[i] = c[j] => i = j
  PROVE  Len(c) <= QueueSlots
<1> DEFINE S == 1..Len(c)
<1>1. IsFiniteSet(S) /\ Cardinality(S) = Len(c)
  <2>1. Len(c) \in Nat
    OBVIOUS
  <2>2. /\ IsFiniteSet(1..Len(c))
        /\ Cardinality(1..Len(c)) = IF 1 > Len(c) THEN 0 ELSE Len(c) - 1 + 1
    BY <2>1, FS_Interval
  <2> QED
    BY <2>1, <2>2
<1>2. IsFiniteSet(Node) /\ Cardinality(Node) = QueueSlots
  BY FS_Interval, QueueSlotsAssumption DEF Node
<1>3. ASSUME Len(c) > QueueSlots
      PROVE  FALSE
  <2>1. \A f \in [S -> Node] : \E x, y \in S : x # y /\ f[x] = f[y]
    <3>1. Cardinality(Node) < Cardinality(S)
      BY <1>1, <1>2, <1>3, QueueSlotsAssumption
    <3> HIDE DEF S
    <3> QED
      BY <1>1, <1>2, <3>1, FS_PigeonHole
  <2>2. c \in [S -> Node]
    OBVIOUS
  <2> QED
    BY <2>1, <2>2
<1> QED
  BY <1>3, QueueSlotsAssumption

\* Behind visits a chain.
LEMMA WalkChain ==
  ASSUME NEW link, NEW n, NEW c \in Seq(Node), IsChain(link, n, c)
  PROVE  Behind(link, n)
           = [k \in 0..QueueSlots |-> IF k < Len(c) THEN c[k+1] ELSE NULL]
<1> DEFINE w == [k \in 0..QueueSlots |-> IF k < Len(c) THEN c[k+1] ELSE NULL]
           Step(f) == [k \in 0..QueueSlots |->
                         IF k = 0 THEN n
                         ELSE IF f[k-1] = NULL THEN NULL ELSE link[f[k-1]]]
<1>1. w = Step(w)
  <2>1. w[0] = n
    BY QueueSlotsAssumption DEF IsChain
  <2>2. ASSUME NEW k \in 1..QueueSlots
        PROVE  w[k] = IF w[k-1] = NULL THEN NULL ELSE link[w[k-1]]
    <3>1. k - 1 \in 0..QueueSlots /\ k \in 0..QueueSlots
      BY QueueSlotsAssumption
    <3>2. CASE k < Len(c)
      <4>1. k \in 1..Len(c) /\ k # Len(c) /\ k + 1 \in 1..Len(c)
        BY <3>1, <3>2
      <4>2. w[k] = c[k+1] /\ w[k-1] = c[k]
        BY <3>1, <3>2, <4>1
      <4>3. c[k] \in Node
        BY <4>1
      <4>4. c[k] # NULL
        BY <4>3, QueueSlotsAssumption DEF Node, NULL
      <4> QED
        BY <4>1, <4>2, <4>4 DEF IsChain
    <3>3. CASE k = Len(c)
      BY <3>1, <3>3 DEF IsChain, Node, NULL
    <3>4. CASE k > Len(c)
      BY <3>1, <3>4
    <3> QED
      BY <3>2, <3>3, <3>4
  <2>3. \A k \in 0..QueueSlots : w[k] = Step(w)[k]
    <3>1. \A k \in 0..QueueSlots : k = 0 \/ k \in 1..QueueSlots
      BY QueueSlotsAssumption
    <3> HIDE DEF w
    <3> QED
      BY <2>1, <2>2, <3>1
  <2>4. w = [k \in 0..QueueSlots |-> w[k]]
    OBVIOUS
  <2> HIDE DEF w
  <2> QED
    BY <2>3, <2>4
<1>2. ASSUME NEW f, f = Step(f)
      PROVE  f = w
  <2> DEFINE D == {k \in 0..QueueSlots : f[k] # w[k]}
  <2>1. ASSUME D # {}
        PROVE  FALSE
    <3>1. Min(D) \in D /\ \A k \in D : Min(D) <= k
      <4>1. D \subseteq Nat
        BY QueueSlotsAssumption
      <4> HIDE DEF D
      <4> QED
        BY <2>1, <4>1, MinIsFirst
    <3>2. PICK m \in 0..QueueSlots : f[m] # w[m] /\ \A k \in D : m <= k
      BY <3>1
    <3> HIDE DEF w
    <3>3. m # 0
      BY <1>1, <1>2, <3>2, QueueSlotsAssumption
    <3>4. m - 1 \in 0..QueueSlots /\ f[m - 1] = w[m - 1]
      BY <3>2, <3>3, QueueSlotsAssumption
    <3> QED
      BY <1>1, <1>2, <3>2, <3>3, <3>4
  <2>2. \A k \in 0..QueueSlots : f[k] = w[k]
    BY <2>1
  <2>3. DOMAIN f = 0..QueueSlots /\ f = [k \in 0..QueueSlots |-> f[k]]
    BY <1>2
  <2> QED
    BY <2>2, <2>3
<1>3. Behind(link, n) = CHOOSE f : f = Step(f)
  BY DEF Behind
<1> HIDE DEF w, Step
<1>4. Behind(link, n) = w
  BY <1>1, <1>2, <1>3
<1> QED
  BY <1>4 DEF w

\* So NodesFrom reads a chain off the links.
LEMMA ReadChain ==
  ASSUME NEW link, NEW n, NEW c \in Seq(Node), IsChain(link, n, c)
  PROVE  NodesFrom(link, n) = c
<1> DEFINE w == [k \in 0..QueueSlots |-> IF k < Len(c) THEN c[k+1] ELSE NULL]
           S == {k \in 0..QueueSlots : w[k] # NULL}
<1>1. Behind(link, n) = w
  BY WalkChain
<1>2. Len(c) \in Nat /\ Len(c) <= QueueSlots
  BY ChainLength DEF IsChain
<1>3. S = 0..Len(c)-1
  BY <1>2, QueueSlotsAssumption DEF Node, NULL
<1>4. Cardinality(S) = Len(c)
  <2>1. Cardinality(0..Len(c)-1) = IF 0 > Len(c)-1 THEN 0 ELSE Len(c)-1 - 0 + 1
    BY <1>2, FS_Interval
  <2> HIDE DEF S
  <2> QED
    BY <1>2, <1>3, <2>1
<1>5. NodesFrom(link, n) = [i \in 1..Len(c) |-> w[i-1]]
  <2>1. NodesFrom(link, n) = [i \in 1..Cardinality(S) |-> w[i-1]]
    BY <1>1 DEF NodesFrom
  <2> HIDE DEF w, S
  <2> QED
    BY <1>4, <2>1
<1>6. ASSUME NEW i \in 1..Len(c)
      PROVE  w[i-1] = c[i]
  <2>1. i - 1 \in 0..QueueSlots /\ i - 1 < Len(c) /\ i - 1 + 1 = i
    BY <1>2, QueueSlotsAssumption
  <2>2. \A k \in 0..QueueSlots : k < Len(c) => w[k] = c[k+1]
    OBVIOUS
  <2> HIDE DEF w
  <2>3. w[i-1] = c[i - 1 + 1]
    BY <2>1, <2>2
  <2> QED
    BY <2>1, <2>3
<1>7. c = [i \in 1..Len(c) |-> c[i]]
  OBVIOUS
<1>8. [i \in 1..Len(c) |-> w[i-1]] = [i \in 1..Len(c) |-> c[i]]
  BY <1>6
<1> HIDE DEF w, S
<1> QED
  BY <1>5, <1>7, <1>8

-----------------------------------------------------------------------------

\* Node n is on the list whose nodes are those of c.
On(c, n) == \E i \in 1..Len(c) : c[i] = n

\* The two lists: the nodes of r are ready, those of f free, every node is one or
\* the other; Prev runs against Next on the ready list, and the idle task is at
\* its end.
Shape(r, f) ==
  /\ node_task \in [Node -> {0} \cup User]
  /\ next \in [Node -> Node \cup {NULL}] /\ prev \in [Node -> Node \cup {NULL}]
  /\ IsChain(next, head, r) /\ IsChain(next, free, f)
  /\ \A n \in Node : On(r, n) <=> ~On(f, n)
  /\ \A i \in 1..Len(r) : prev[r[i]] = IF i = 1 THEN NULL ELSE r[i-1]
  /\ r # <<>> /\ node_task[r[Len(r)]] = 0

\* The list at every moment.
ListInv == \E r, f \in Seq(Node) : Shape(r, f)

\* The tasks of a list of nodes.
TasksOf(tasks, c) == [i \in 1..Len(c) |-> tasks[c[i]]]

\* What the operators of ReadyList read off the links.
LEMMA ListRead ==
  ASSUME NEW r \in Seq(Node), NEW f \in Seq(Node), Shape(r, f)
  PROVE  /\ NodesFrom(next, head) = r /\ NodesFrom(next, free) = f
         /\ ReadyTasks = TasksOf(node_task, r)
         /\ r # <<>> /\ head = r[1] /\ 1 \in 1..Len(r) /\ head \in Node
         /\ free # NULL => f # <<>> /\ free = f[1] /\ 1 \in 1..Len(f) /\ free \in Node
<1>1. NodesFrom(next, head) = r /\ NodesFrom(next, free) = f
  BY ReadChain DEF Shape
<1>2. ReadyTasks = TasksOf(node_task, r)
  BY <1>1 DEF ReadyTasks, TasksOf
<1>3. r # <<>> /\ head = r[1] /\ 1 \in 1..Len(r) /\ head \in Node
  BY DEF Shape, IsChain
<1>4. free # NULL => f # <<>> /\ free = f[1] /\ 1 \in 1..Len(f) /\ free \in Node
  BY DEF Shape, IsChain
<1> QED
  BY <1>1, <1>2, <1>3, <1>4

\* What nrk_init lays out: the idle task's node, and the others free.
LEMMA InitShape ==
  ASSUME ListInit
  PROVE  ListInv /\ ReadyTasks = <<0>>
<1> DEFINE r == <<1>>
           f == [i \in 1..QueueSlots-1 |-> i + 1]
<1>1. r \in Seq(Node) /\ f \in Seq(Node) /\ Len(f) = QueueSlots - 1 /\ Len(r) = 1
  BY QueueSlotsAssumption, ListAssumption DEF Node
<1>2. IsChain(next, head, r)
  BY QueueSlotsAssumption, ListAssumption DEF ListInit, IsChain, Node
<1>3. IsChain(next, free, f)
  <2>1. f # <<>> /\ f[1] = 2
    BY <1>1, QueueSlotsAssumption, ListAssumption
  <2>2. ASSUME NEW i \in 1..QueueSlots-1
        PROVE  next[f[i]] = IF i = QueueSlots - 1 THEN NULL ELSE f[i+1]
    <3>1. f[i] = i + 1 /\ i + 1 \in Node /\ i + 1 # 1
      BY QueueSlotsAssumption DEF Node
    <3>2. next[i+1] = IF i + 1 = QueueSlots THEN NULL ELSE i + 1 + 1
      BY <3>1 DEF ListInit
    <3> QED
      BY <3>1, <3>2, QueueSlotsAssumption
  <2>3. \A i, j \in 1..QueueSlots-1 : f[i] = f[j] => i = j
    OBVIOUS
  <2> HIDE DEF f
  <2> QED
    BY <1>1, <2>1, <2>2, <2>3 DEF ListInit, IsChain
<1>4. ASSUME NEW n \in Node
      PROVE  On(r, n) <=> ~On(f, n)
  <2>1. On(r, n) <=> n = 1
    BY <1>1 DEF On
  <2>2. On(f, n) <=> n # 1
    <3>1. n # 1 => n - 1 \in 1..QueueSlots-1 /\ f[n - 1] = n
      BY QueueSlotsAssumption DEF Node
    <3>2. \A i \in 1..QueueSlots-1 : f[i] # 1
      OBVIOUS
    <3> HIDE DEF f
    <3> QED
      BY <1>1, <3>1, <3>2 DEF On
  <2> QED
    BY <2>1, <2>2
<1>5. /\ node_task \in [Node -> {0} \cup User]
      /\ next \in [Node -> Node \cup {NULL}] /\ prev \in [Node -> Node \cup {NULL}]
  BY QueueSlotsAssumption DEF ListInit, Node, NULL
<1>6. /\ \A i \in 1..Len(r) : prev[r[i]] = IF i = 1 THEN NULL ELSE r[i-1]
      /\ r # <<>> /\ node_task[r[Len(r)]] = 0
  BY <1>1, QueueSlotsAssumption DEF ListInit, Node, NULL
<1> HIDE DEF r, f
<1>7. Shape(r, f)
  BY <1>2, <1>3, <1>4, <1>5, <1>6 DEF Shape
<1>8. TasksOf(node_task, r) = <<0>>
  BY QueueSlotsAssumption DEF TasksOf, ListInit, Node, r
<1> QED
  BY <1>1, <1>7, <1>8, ListRead DEF ListInv

-----------------------------------------------------------------------------

\* The node at which nrk_add_to_readyQ stops is the one the queue says.
LEMMA AddAt ==
  ASSUME NEW r \in Seq(Node), NEW f \in Seq(Node), Shape(r, f),
         NEW t \in User, NEW elevated, AddNode(t, elevated)
  PROVE  LET q == TasksOf(node_task, r)
             stops == StopNodes(q, t, Priority, elevated, Ceiling)
         IN  \E k \in 1..Len(r) :
               /\ stops # {} /\ k = Min(stops) /\ f # <<>> /\ free = f[1]
               /\ node_task' = [node_task EXCEPT ![f[1]] = t]
               /\ free' = next[f[1]]
               /\ k = 1 => /\ next' = [next EXCEPT ![f[1]] = r[1]]
                           /\ prev' = [prev EXCEPT ![f[1]] = NULL, ![r[1]] = f[1]]
                           /\ head' = f[1]
               /\ k # 1 => /\ next' = [next EXCEPT ![f[1]] = r[k], ![r[k-1]] = f[1]]
                           /\ prev' = [prev EXCEPT ![f[1]] = r[k-1], ![r[k]] = f[1]]
                           /\ head' = head
<1> DEFINE Stops(n) == GoesBefore(t, node_task[n], Priority, elevated, Ceiling)
           hits == {i \in 1..Len(r) : Stops(r[i])}
           at == IF hits = {} THEN NULL ELSE r[Min(hits)]
           q == TasksOf(node_task, r)
           stops == StopNodes(q, t, Priority, elevated, Ceiling)
<1>1. FirstNode(Stops) = at
  <2>1. NodesFrom(next, head) = r /\ DOMAIN r = 1..Len(r)
    BY ListRead
  <2> QED
    BY <2>1 DEF FirstNode
<1>2. stops = hits
  BY DEF StopNodes, TasksOf
<1>3. /\ free # NULL /\ at # NULL
      /\ node_task' = [node_task EXCEPT ![free] = t]
      /\ free' = next[free]
      /\ at = head => /\ next' = [next EXCEPT ![free] = head]
                      /\ prev' = [prev EXCEPT ![free] = NULL, ![head] = free]
                      /\ head' = free
      /\ at # head => LinkBefore(free, at) /\ UNCHANGED head
  BY <1>1 DEF AddNode
<1>4. hits # {}
  BY <1>3
<1>5. PICK k \in 1..Len(r) : k = Min(hits) /\ at = r[k]
  <2>1. hits \subseteq Nat
    OBVIOUS
  <2>2. Min(hits) \in hits
    <3> HIDE DEF hits
    <3> QED
      BY <1>4, <2>1, MinIsFirst
  <2> QED
    BY <1>4, <2>2
<1>6. f # <<>> /\ free = f[1] /\ head = r[1] /\ 1 \in 1..Len(r)
  BY <1>3, ListRead
<1>7. at = head <=> k = 1
  BY <1>5, <1>6 DEF Shape, IsChain
<1>8. k # 1 => prev[at] = r[k-1]
  BY <1>5 DEF Shape
<1> HIDE DEF at, hits, stops
<1>9. k # 1 => /\ next' = [next EXCEPT ![f[1]] = r[k], ![r[k-1]] = f[1]]
               /\ prev' = [prev EXCEPT ![f[1]] = r[k-1], ![r[k]] = f[1]]
               /\ head' = head
  BY <1>3, <1>5, <1>6, <1>7, <1>8 DEF LinkBefore
<1>10. stops # {} /\ k = Min(stops)
  BY <1>2, <1>4, <1>5
<1> USE DEF stops
<1> QED
  BY <1>3, <1>6, <1>7, <1>9, <1>10

\* The position behind one that is not the last.
LEMMA NextIndex ==
  \A n \in Nat : \A i \in 1..n : i # n => i + 1 \in 1..n
OBVIOUS

\* The list after nrk_add_to_readyQ: the first free node stands before node k.
LEMMA AddShape ==
  ASSUME NEW r \in Seq(Node), NEW f \in Seq(Node), Shape(r, f),
         NEW t \in User, NEW k \in 1..Len(r), f # <<>>, free = f[1],
         node_task' = [node_task EXCEPT ![f[1]] = t],
         free' = next[f[1]],
         k = 1 => /\ next' = [next EXCEPT ![f[1]] = r[1]]
                  /\ prev' = [prev EXCEPT ![f[1]] = NULL, ![r[1]] = f[1]]
                  /\ head' = f[1],
         k # 1 => /\ next' = [next EXCEPT ![f[1]] = r[k], ![r[k-1]] = f[1]]
                  /\ prev' = [prev EXCEPT ![f[1]] = r[k-1], ![r[k]] = f[1]]
                  /\ head' = head
  PROVE  /\ Shape(InsertAt(r, k, f[1]), Tail(f))'
         /\ TasksOf(node_task', InsertAt(r, k, f[1])) = InsertAt(TasksOf(node_task, r), k, t)
         /\ InsertAt(r, k, f[1]) \in Seq(Node) /\ Tail(f) \in Seq(Node)
         /\ Len(r) < QueueSlots
<1> DEFINE new == f[1]
           r2 == InsertAt(r, k, new)
           f2 == Tail(f)
<1>1. new \in Node /\ 1 \in 1..Len(f) /\ Len(f) \in Nat /\ Len(r) \in Nat
  OBVIOUS
<1>2. \A i \in 1..Len(r) : r[i] # new /\ r[i] \in Node
  BY <1>1 DEF Shape, On
<1>3. \A i, j \in 1..Len(r) : r[i] = r[j] => i = j
  BY DEF Shape, IsChain
<1> HIDE DEF new
<1>4. /\ r2 \in Seq(Node) /\ Len(r2) = Len(r) + 1
      /\ \A i \in 1..Len(r) + 1 :
           r2[i] = IF i < k THEN r[i] ELSE IF i = k THEN new ELSE r[i-1]
  BY <1>1, InsertAtElements
<1>5. /\ f2 \in Seq(Node) /\ Len(f2) = Len(f) - 1
      /\ \A i \in 1..Len(f) - 1 : f2[i] = f[i+1]
  OBVIOUS
<1>6. \A i, j \in 1..Len(f) : f[i] = f[j] => i = j
  BY DEF Shape, IsChain
<1> HIDE DEF r2, f2
<1>7. /\ node_task' \in [Node -> {0} \cup User]
      /\ next' \in [Node -> Node \cup {NULL}] /\ prev' \in [Node -> Node \cup {NULL}]
  <2>1. r[1] \in Node /\ r[k] \in Node /\ (k # 1 => r[k-1] \in Node)
    BY <1>1
  <2> QED
    BY <1>1, <2>1 DEF Shape, new
<1>8. \A n \in Node : n # new /\ (k # 1 => n # r[k-1]) => next'[n] = next[n]
  BY DEF Shape, new
<1>9. /\ next'[new] = r[k] /\ (k # 1 => next'[r[k-1]] = new)
      /\ head' = IF k = 1 THEN new ELSE r[1]
  <2>1. CASE k = 1
    BY <1>1, <2>1 DEF Shape, new
  <2>2. CASE k # 1
    <3>1. k - 1 \in 1..Len(r) /\ r[k-1] \in Node /\ r[k-1] # new
      BY <1>1, <1>2, <2>2
    <3> QED
      BY <1>1, <2>2, <3>1 DEF Shape, IsChain, new
  <2> QED
    BY <2>1, <2>2
<1>10. \A i, j \in 1..Len(r2) : r2[i] = r2[j] => i = j
  <2>0. Len(r2) \in Nat
    BY <1>1, <1>4
  <2> SUFFICES ASSUME NEW i \in 1..Len(r2), NEW j \in 1..Len(r2), i < j, r2[i] = r2[j]
               PROVE  FALSE
    BY <2>0
  <2>1. CASE i = k
    <3>1. j \in 1..Len(r) + 1 /\ ~(j < k) /\ j # k /\ j - 1 \in 1..Len(r)
      BY <1>1, <1>4, <2>0, <2>1
    <3>2. r2[i] = new /\ r2[j] = r[j-1]
      BY <1>4, <2>1, <3>1
    <3> QED
      BY <1>2, <3>1, <3>2
  <2>2. CASE j = k
    <3>1. i \in 1..Len(r) /\ r2[i] = r[i] /\ r2[j] = new
      BY <1>1, <1>4, <2>0, <2>2
    <3> QED
      BY <1>2, <3>1
  <2>3. CASE i # k /\ j # k
    <3> DEFINE x == IF i < k THEN i ELSE i - 1
               y == IF j < k THEN j ELSE j - 1
    <3>1. x \in 1..Len(r) /\ y \in 1..Len(r) /\ x < y /\ r2[i] = r[x] /\ r2[j] = r[y]
      BY <1>4, <2>3
    <3>2. x = y
      BY <1>3, <3>1
    <3> QED
      BY <3>1, <3>2
  <2> QED
    BY <2>1, <2>2, <2>3
<1>11. IsChain(next', head', r2)
  <2>1. head' = IF r2 = <<>> THEN NULL ELSE r2[1]
    BY <1>4, <1>9
  <2>2. ASSUME NEW i \in 1..Len(r2)
        PROVE  next'[r2[i]] = IF i = Len(r2) THEN NULL ELSE r2[i+1]
    <3>1. CASE i = k
      BY <1>4, <1>9, <3>1
    <3>2. CASE i = k - 1
      BY <1>4, <1>9, <3>2
    <3>3. CASE i < k - 1
      <4>1. r2[i] = r[i] /\ r2[i+1] = r[i+1] /\ i \in 1..Len(r) /\ i # Len(r)
        BY <1>4, <3>3
      <4>2. next'[r[i]] = next[r[i]]
        <5>1. k - 1 \in 1..Len(r) /\ r[i] # r[k-1]
          BY <1>3, <3>3, <4>1
        <5> QED
          BY <1>2, <1>8, <4>1, <5>1
      <4>3. next[r[i]] = r[i+1]
        BY <4>1 DEF Shape, IsChain
      <4> QED
        BY <1>4, <4>1, <4>2, <4>3
    <3>4. CASE i > k
      <4>1. /\ r2[i] = r[i-1] /\ i - 1 \in 1..Len(r)
            /\ i # Len(r2) => i - 1 # Len(r) /\ r2[i+1] = r[i]
            /\ i = Len(r2) => i - 1 = Len(r)
        <5>1. r2[i] = r[i-1] /\ i - 1 \in 1..Len(r)
          <6>1. i \in 1..Len(r) + 1 /\ ~(i < k) /\ i # k
            BY <1>1, <1>4, <3>4
          <6>2. r2[i] = r[i-1]
            BY <1>4, <6>1
          <6> QED
            BY <1>1, <3>4, <6>1, <6>2
        <5>2. Len(r2) = Len(r) + 1
          BY <1>4
        <5>3. i # Len(r2) => i + 1 \in 1..Len(r)+1 /\ ~(i + 1 < k) /\ i + 1 # k
          <6>1. i \in 1..Len(r) + 1
            BY <5>2
          <6>2. i # Len(r) + 1 => i + 1 \in 1..Len(r) + 1
            <7>1. Len(r) + 1 \in Nat
              BY <1>1
            <7> QED
              BY <6>1, <7>1, NextIndex
          <6>3. ~(i + 1 < k) /\ i + 1 # k
            BY <3>4, <6>1
          <6> QED
            BY <5>2, <6>2, <6>3
        <5>4. i + 1 - 1 = i
          OBVIOUS
        <5>5. ASSUME i # Len(r2)
              PROVE  r2[i+1] = r[i+1-1]
          <6>1. i + 1 \in 1..Len(r) + 1 /\ ~(i + 1 < k) /\ i + 1 # k
            BY <5>3, <5>5
          <6> QED
            BY <1>4, <6>1
        <5>6. i = Len(r2) <=> i - 1 = Len(r)
          BY <1>1, <5>2
        <5> QED
          BY <5>1, <5>4, <5>5, <5>6
      <4>2. next'[r[i-1]] = next[r[i-1]]
        <5>1. k # 1 => k - 1 \in 1..Len(r) /\ r[i-1] # r[k-1]
          BY <1>3, <3>4, <4>1
        <5> QED
          BY <1>2, <1>8, <4>1, <5>1
      <4>3. next[r[i-1]] = IF i - 1 = Len(r) THEN NULL ELSE r[i-1+1]
        BY <4>1 DEF Shape, IsChain
      <4>4. i - 1 + 1 = i
        OBVIOUS
      <4> QED
        BY <4>1, <4>2, <4>3, <4>4
    <3> QED
      BY <3>1, <3>2, <3>3, <3>4
  <2> QED
    BY <1>10, <2>1, <2>2 DEF IsChain
<1>12. IsChain(next', free', f2)
  <2>1. free' = IF f2 = <<>> THEN NULL ELSE f2[1]
    <3>1. next[f[1]] = IF 1 = Len(f) THEN NULL ELSE f[1+1]
      BY <1>1 DEF Shape, IsChain
    <3>2. f2 = <<>> <=> Len(f) = 1
      BY <1>1, <1>5
    <3> QED
      BY <1>1, <1>5, <3>1, <3>2
  <2>2. ASSUME NEW i \in 1..Len(f2)
        PROVE  next'[f2[i]] = IF i = Len(f2) THEN NULL ELSE f2[i+1]
    <3>1. f2[i] = f[i+1] /\ i + 1 \in 1..Len(f) /\ f[i+1] \in Node
      BY <1>5
    <3>2. f[i+1] # new
      BY <1>1, <1>6, <3>1 DEF new
    <3>3. k # 1 => f[i+1] # r[k-1]
      <4>1. On(f, f[i+1])
        BY <3>1 DEF On
      <4>2. k # 1 => k - 1 \in 1..Len(r)
        OBVIOUS
      <4> QED
        BY <3>1, <4>1, <4>2 DEF Shape, On
    <3>4. next'[f[i+1]] = next[f[i+1]]
      BY <1>8, <3>1, <3>2, <3>3
    <3>5. next[f[i+1]] = IF i + 1 = Len(f) THEN NULL ELSE f[i+1+1]
      BY <3>1 DEF Shape, IsChain
    <3>6. i # Len(f2) => f2[i+1] = f[i+1+1]
      BY <1>5
    <3> QED
      BY <1>1, <1>5, <3>1, <3>4, <3>5, <3>6
  <2>3. ASSUME NEW i \in 1..Len(f2), NEW j \in 1..Len(f2), f2[i] = f2[j]
        PROVE  i = j
    <3>1. i + 1 \in 1..Len(f) /\ j + 1 \in 1..Len(f) /\ f[i+1] = f[j+1]
      BY <1>1, <1>5, <2>3
    <3> QED
      BY <1>6, <3>1
  <2> QED
    BY <2>1, <2>2, <2>3 DEF IsChain
<1>13. ASSUME NEW n \in Node
       PROVE  On(r2, n) <=> ~On(f2, n)
  <2>1. On(r2, n) <=> n = new \/ On(r, n)
    <3>1. r2[k] = new /\ k \in 1..Len(r2)
      BY <1>4
    <3>2. ASSUME NEW i \in 1..Len(r2), r2[i] = n, n # new
          PROVE  On(r, n)
      <4>1. i # k
        BY <3>1, <3>2
      <4> QED
        BY <1>4, <3>2, <4>1 DEF On
    <3>3. ASSUME NEW i \in 1..Len(r), r[i] = n
          PROVE  On(r2, n)
      <4>1. i \in 1..Len(r2) /\ i + 1 \in 1..Len(r2) /\ (r2[i] = n \/ r2[i+1] = n)
        BY <1>4, <3>3
      <4> QED
        BY <4>1 DEF On
    <3> QED
      BY <3>1, <3>2, <3>3 DEF On
  <2>2. On(f2, n) <=> n # new /\ On(f, n)
    <3>1. ASSUME NEW i \in 1..Len(f2), f2[i] = n
          PROVE  n # new /\ On(f, n)
      <4>1. f[i+1] = n /\ i + 1 \in 1..Len(f) /\ i + 1 # 1
        BY <1>1, <1>5, <3>1
      <4> QED
        BY <1>1, <1>6, <4>1 DEF On, new
    <3>2. ASSUME NEW i \in 1..Len(f), f[i] = n, n # new
          PROVE  On(f2, n)
      <4>1. i - 1 \in 1..Len(f2) /\ f2[i-1] = f[i-1+1] /\ i - 1 + 1 = i
        BY <1>1, <1>5, <3>2 DEF new
      <4> QED
        BY <3>2, <4>1 DEF On
    <3> QED
      BY <3>1, <3>2 DEF On
  <2> QED
    BY <2>1, <2>2 DEF Shape
<1>14. ASSUME NEW i \in 1..Len(r2)
       PROVE  prev'[r2[i]] = IF i = 1 THEN NULL ELSE r2[i-1]
  <2>1. /\ prev'[new] = IF k = 1 THEN NULL ELSE r[k-1]
        /\ prev'[r[k]] = new
        /\ \A n \in Node : n # new /\ n # r[k] => prev'[n] = prev[n]
    <3>1. r[k] # new /\ r[k] \in Node
      BY <1>2
    <3>2. prev \in [Node -> Node \cup {NULL}]
      BY DEF Shape
    <3> QED
      BY <1>1, <3>1, <3>2 DEF new
  <2>2. CASE i = k
    BY <1>4, <2>1, <2>2
  <2>3. CASE i = k + 1
    BY <1>4, <2>1, <2>3
  <2>4. CASE i < k
    <3>1. r2[i] = r[i] /\ i \in 1..Len(r) /\ i # k /\ (i # 1 => r2[i-1] = r[i-1])
      BY <1>1, <1>4, <2>4
    <3>2. prev'[r[i]] = prev[r[i]]
      BY <1>2, <1>3, <2>1, <3>1
    <3> QED
      BY <3>1, <3>2 DEF Shape
  <2>5. CASE i > k + 1
    <3>1. r2[i] = r[i-1] /\ i - 1 \in 1..Len(r) /\ i - 1 # k /\ i - 1 # 1
          /\ r2[i-1] = r[i-1-1]
      BY <1>4, <2>5
    <3>2. prev'[r[i-1]] = prev[r[i-1]]
      BY <1>2, <1>3, <2>1, <3>1
    <3> QED
      BY <2>5, <3>1, <3>2 DEF Shape
  <2> QED
    BY <2>2, <2>3, <2>4, <2>5
<1>15. r2 # <<>> /\ node_task'[r2[Len(r2)]] = 0
  <2>1. r2 # <<>> /\ r2[Len(r2)] = r[Len(r)]
    BY <1>4
  <2>2. r[Len(r)] # new /\ r[Len(r)] \in Node
    BY <1>2
  <2> QED
    BY <2>1, <2>2 DEF Shape, new
<1>16. Shape(r2, f2)'
  BY <1>7, <1>11, <1>12, <1>13, <1>14, <1>15 DEF Shape
<1>17. TasksOf(node_task', r2) = InsertAt(TasksOf(node_task, r), k, t)
  <2> DEFINE q == TasksOf(node_task, r)
             q2 == InsertAt(q, k, t)
  <2>1. q \in Seq({0} \cup User) /\ Len(q) = Len(r) /\ \A i \in 1..Len(r) : q[i] = node_task[r[i]]
    <3>1. node_task \in [Node -> {0} \cup User]
      BY DEF Shape
    <3> QED
      BY <3>1 DEF TasksOf
  <2> HIDE DEF q
  <2>2. k \in 1..Len(q) /\ t \in {0} \cup User
    BY <2>1
  <2>3. /\ q2 \in Seq({0} \cup User) /\ Len(q2) = Len(q) + 1
        /\ \A i \in 1..Len(q) + 1 : q2[i] = IF i < k THEN q[i] ELSE IF i = k THEN t ELSE q[i-1]
    <3> DEFINE S == {0} \cup User
    <3>1. q \in Seq(S) /\ t \in S
      BY <2>1
    <3> HIDE DEF S
    <3>2. /\ InsertAt(q, k, t) \in Seq(S) /\ Len(InsertAt(q, k, t)) = Len(q) + 1
          /\ \A i \in 1..Len(q) + 1 : InsertAt(q, k, t)[i] =
               IF i < k THEN q[i] ELSE IF i = k THEN t ELSE q[i-1]
      BY <2>2, <3>1, InsertAtElements
    <3> QED
      BY <3>2 DEF S
  <2> HIDE DEF q2
  <2>4. ASSUME NEW i \in 1..Len(r2)
        PROVE  node_task'[r2[i]] = q2[i]
    <3>1. node_task'[new] = t /\ \A n \in Node : n # new => node_task'[n] = node_task[n]
      BY <1>1 DEF Shape, new
    <3>2. CASE i = k
      BY <1>4, <2>1, <2>3, <3>1, <3>2
    <3>3. CASE i < k
      <4>1. r2[i] = r[i] /\ i \in 1..Len(r) /\ q2[i] = q[i]
        BY <1>4, <2>1, <2>3, <3>3
      <4> QED
        BY <1>2, <2>1, <3>1, <4>1
    <3>4. CASE i > k
      <4>1. r2[i] = r[i-1] /\ i - 1 \in 1..Len(r) /\ q2[i] = q[i-1]
        BY <1>4, <2>1, <2>3, <3>4
      <4> QED
        BY <1>2, <2>1, <3>1, <4>1
    <3> QED
      BY <3>2, <3>3, <3>4
  <2>5. q2 = [i \in 1..Len(r2) |-> q2[i]]
    BY <1>4, <2>1, <2>3
  <2>6. TasksOf(node_task', r2) = [i \in 1..Len(r2) |-> q2[i]]
    BY <2>4 DEF TasksOf
  <2> QED
    BY <2>5, <2>6 DEF q2, q
<1>18. Len(r) < QueueSlots
  <2>1. Len(r2) <= QueueSlots
    BY <1>4, <1>10, ChainLength
  <2> QED
    BY <1>1, <1>4, <2>1, QueueSlotsAssumption
<1> QED
  BY <1>4, <1>5, <1>16, <1>17, <1>18 DEF r2, f2, new

\* The call does to the queue what AddToReadyQ says.
LEMMA AddStep ==
  ASSUME NEW r \in Seq(Node), NEW f \in Seq(Node), Shape(r, f),
         NEW t \in User, NEW elevated, AddNode(t, elevated)
  PROVE  \E r2, f2 \in Seq(Node) :
           /\ Shape(r2, f2)'
           /\ TasksOf(node_task', r2)
                = AddToReadyQ(TasksOf(node_task, r), t, Priority, elevated, Ceiling)
<1> DEFINE q == TasksOf(node_task, r)
           stops == StopNodes(q, t, Priority, elevated, Ceiling)
           add == AddToReadyQ(q, t, Priority, elevated, Ceiling)
<1>1. PICK k \in 1..Len(r) :
        /\ stops # {} /\ k = Min(stops) /\ f # <<>> /\ free = f[1]
        /\ node_task' = [node_task EXCEPT ![f[1]] = t]
        /\ free' = next[f[1]]
        /\ k = 1 => /\ next' = [next EXCEPT ![f[1]] = r[1]]
                    /\ prev' = [prev EXCEPT ![f[1]] = NULL, ![r[1]] = f[1]]
                    /\ head' = f[1]
        /\ k # 1 => /\ next' = [next EXCEPT ![f[1]] = r[k], ![r[k-1]] = f[1]]
                    /\ prev' = [prev EXCEPT ![f[1]] = r[k-1], ![r[k]] = f[1]]
                    /\ head' = head
  BY AddAt
<1> HIDE DEF stops, add, q
<1>2. /\ Shape(InsertAt(r, k, f[1]), Tail(f))'
      /\ TasksOf(node_task', InsertAt(r, k, f[1])) = InsertAt(TasksOf(node_task, r), k, t)
      /\ InsertAt(r, k, f[1]) \in Seq(Node) /\ Tail(f) \in Seq(Node)
      /\ Len(r) < QueueSlots
  <2>1. /\ f # <<>> /\ free = f[1]
        /\ node_task' = [node_task EXCEPT ![f[1]] = t]
        /\ free' = next[f[1]]
    BY <1>1
  <2>2. k = 1 => /\ next' = [next EXCEPT ![f[1]] = r[1]]
                 /\ prev' = [prev EXCEPT ![f[1]] = NULL, ![r[1]] = f[1]]
                 /\ head' = f[1]
    BY <1>1
  <2>3. k # 1 => /\ next' = [next EXCEPT ![f[1]] = r[k], ![r[k-1]] = f[1]]
                 /\ prev' = [prev EXCEPT ![f[1]] = r[k-1], ![r[k]] = f[1]]
                 /\ head' = head
    BY <1>1
  <2> QED
    BY <2>1, <2>2, <2>3, AddShape
<1>3. Len(q) = Len(r) /\ q # <<>>
  BY DEF TasksOf, Shape, q
<1>4. add = InsertAt(q, k, t)
  BY <1>1, <1>2, <1>3, QueueSlotsAssumption DEF AddToReadyQ, add, stops
<1>5. TasksOf(node_task', InsertAt(r, k, f[1])) = add
  BY <1>2, <1>4 DEF q
<1>6. \E r2, f2 \in Seq(Node) : Shape(r2, f2)' /\ TasksOf(node_task', r2) = add
  BY <1>2, <1>5
<1> QED
  BY <1>6 DEF add, q

-----------------------------------------------------------------------------

\* The node that nrk_rem_from_readyQ unlinks: the first that holds the task, and
\* not the last, which the idle task has.
LEMMA RemAt ==
  ASSUME NEW r \in Seq(Node), NEW f \in Seq(Node), Shape(r, f),
         NEW t \in User, RemNode(t)
  PROVE  LET q == TasksOf(node_task, r)
             nodes == {i \in 1..Len(q) : q[i] = t}
         IN  \E k \in 1..Len(r)-1 :
               /\ nodes # {} /\ k = Min(nodes)
               /\ head' = IF k = 1 THEN r[2] ELSE head
               /\ next' = IF k = 1 THEN [next EXCEPT ![r[k]] = free]
                          ELSE [next EXCEPT ![r[k-1]] = r[k+1], ![r[k]] = free]
               /\ prev' = [n \in Node |->
                    IF n = r[k] THEN NULL
                    ELSE IF n = r[k+1] THEN IF k = 1 THEN NULL ELSE r[k-1]
                    ELSE IF n = free THEN r[k] ELSE prev[n]]
               /\ free' = r[k] /\ node_task' = node_task
<1> DEFINE Holds(n) == node_task[n] = t
           hits == {i \in 1..Len(r) : Holds(r[i])}
           cur == IF hits = {} THEN NULL ELSE r[Min(hits)]
           q == TasksOf(node_task, r)
           nodes == {i \in 1..Len(q) : q[i] = t}
<1>1. FirstNode(Holds) = cur
  <2>1. NodesFrom(next, head) = r /\ DOMAIN r = 1..Len(r)
    BY ListRead
  <2> QED
    BY <2>1 DEF FirstNode
<1>2. nodes = hits
  BY DEF TasksOf
<1>3. /\ cur # NULL
      /\ head' = IF cur = head THEN next[cur] ELSE head
      /\ next' = IF cur = head THEN [next EXCEPT ![cur] = free]
                 ELSE [next EXCEPT ![prev[cur]] = next[cur], ![cur] = free]
      /\ prev' = [n \in Node |->
           IF n = cur THEN NULL
           ELSE IF n = next[cur] THEN IF cur = head THEN NULL ELSE prev[cur]
           ELSE IF n = free THEN cur ELSE prev[n]]
      /\ free' = cur /\ node_task' = node_task
  BY <1>1 DEF RemNode, FreeList
<1>4. hits # {}
  BY <1>3
<1>5. PICK k \in 1..Len(r) : k = Min(hits) /\ k \in hits /\ cur = r[k]
  <2>1. hits \subseteq Nat
    OBVIOUS
  <2>2. Min(hits) \in hits
    <3> HIDE DEF hits
    <3> QED
      BY <1>4, <2>1, MinIsFirst
  <2> QED
    BY <1>4, <2>2
<1>6. k # Len(r) /\ k \in 1..Len(r)-1
  BY <1>5, ListAssumption DEF Shape
<1>7. /\ next[cur] = r[k+1] /\ (cur = head <=> k = 1)
      /\ k # 1 => prev[cur] = r[k-1]
  BY <1>5, <1>6, ListRead DEF Shape, IsChain
<1> HIDE DEF cur, hits, nodes
<1>8. nodes # {} /\ k = Min(nodes)
  BY <1>2, <1>4, <1>5
<1>9. /\ head' = IF k = 1 THEN r[2] ELSE head
      /\ next' = IF k = 1 THEN [next EXCEPT ![r[k]] = free]
                 ELSE [next EXCEPT ![r[k-1]] = r[k+1], ![r[k]] = free]
      /\ free' = r[k] /\ node_task' = node_task
  <2>1. CASE k = 1
    BY <1>3, <1>5, <1>7, <2>1
  <2>2. CASE k # 1
    BY <1>3, <1>5, <1>7, <2>2
  <2> QED
    BY <2>1, <2>2
<1>10. prev' = [n \in Node |->
         IF n = r[k] THEN NULL
         ELSE IF n = r[k+1] THEN IF k = 1 THEN NULL ELSE r[k-1]
         ELSE IF n = free THEN r[k] ELSE prev[n]]
  BY <1>3, <1>5, <1>7
<1> USE DEF nodes
<1> QED
  BY <1>6, <1>8, <1>9, <1>10

\* The list after nrk_rem_from_readyQ: node k is gone, and the first of the free.
LEMMA RemShape ==
  ASSUME NEW r \in Seq(Node), NEW f \in Seq(Node), Shape(r, f),
         NEW k \in 1..Len(r)-1,
         head' = IF k = 1 THEN r[2] ELSE head,
         next' = IF k = 1 THEN [next EXCEPT ![r[k]] = free]
                 ELSE [next EXCEPT ![r[k-1]] = r[k+1], ![r[k]] = free],
         prev' = [n \in Node |->
           IF n = r[k] THEN NULL
           ELSE IF n = r[k+1] THEN IF k = 1 THEN NULL ELSE r[k-1]
           ELSE IF n = free THEN r[k] ELSE prev[n]],
         free' = r[k], node_task' = node_task
  PROVE  /\ Shape(RemoveAt(r, k), <<r[k]>> \o f)'
         /\ TasksOf(node_task', RemoveAt(r, k)) = RemoveAt(TasksOf(node_task, r), k)
         /\ RemoveAt(r, k) \in Seq(Node) /\ <<r[k]>> \o f \in Seq(Node)
<1> DEFINE old == r[k]
           r2 == RemoveAt(r, k)
           f2 == <<old>> \o f
<1>1. /\ k \in 1..Len(r) /\ k + 1 \in 1..Len(r) /\ Len(r) \in Nat /\ Len(f) \in Nat
      /\ old \in Node /\ r[k+1] \in Node
  OBVIOUS
<1>2. \A i, j \in 1..Len(r) : r[i] = r[j] => i = j
  BY DEF Shape, IsChain
<1>3. \A i \in 1..Len(r) : r[i] \in Node /\ (r[i] = old => i = k)
  BY <1>1, <1>2
<1> HIDE DEF old
<1>4. /\ r2 \in Seq(Node) /\ Len(r2) = Len(r) - 1
      /\ \A i \in 1..Len(r) - 1 : r2[i] = IF i < k THEN r[i] ELSE r[i+1]
  BY <1>1, RemoveAtElements
<1>5. /\ f2 \in Seq(Node) /\ Len(f2) = Len(f) + 1 /\ f2[1] = old
      /\ \A i \in 1..Len(f) : f2[i+1] = f[i]
  BY <1>1
<1>6. \A i, j \in 1..Len(f) : f[i] = f[j] => i = j
  BY DEF Shape, IsChain
<1>7. ASSUME NEW i \in 1..Len(f)
      PROVE  f[i] \in Node /\ ~On(r, f[i])
  <2>1. f[i] \in Node /\ On(f, f[i])
    BY DEF On
  <2> QED
    BY <2>1 DEF Shape
<1>8. free = (IF f = <<>> THEN NULL ELSE f[1]) /\ free \in Node \cup {NULL}
  <2>1. free = (IF f = <<>> THEN NULL ELSE f[1])
    BY DEF Shape, IsChain
  <2> QED
    BY <2>1
<1> HIDE DEF r2, f2
<1>9. /\ next' \in [Node -> Node \cup {NULL}]
      /\ next'[old] = free /\ (k # 1 => next'[r[k-1]] = r[k+1])
      /\ \A n \in Node : n # old /\ (k # 1 => n # r[k-1]) => next'[n] = next[n]
  <2>1. next \in [Node -> Node \cup {NULL}]
    BY DEF Shape
  <2>2. CASE k = 1
    BY <1>1, <1>8, <2>1, <2>2 DEF old
  <2>3. CASE k # 1
    <3>1. k - 1 \in 1..Len(r) /\ r[k-1] \in Node /\ r[k-1] # old
      BY <1>1, <1>3, <2>3
    <3> QED
      BY <1>1, <1>8, <2>1, <2>3, <3>1 DEF old
  <2> QED
    BY <2>2, <2>3
<1>10. \A i, j \in 1..Len(r2) : r2[i] = r2[j] => i = j
  <2> SUFFICES ASSUME NEW i \in 1..Len(r2), NEW j \in 1..Len(r2), i < j, r2[i] = r2[j]
               PROVE  FALSE
    <3>1. Len(r2) \in Nat
      BY <1>4
    <3> QED
      BY <3>1
  <2> DEFINE x == IF i < k THEN i ELSE i + 1
             y == IF j < k THEN j ELSE j + 1
  <2>1. x \in 1..Len(r) /\ y \in 1..Len(r) /\ x < y /\ r2[i] = r[x] /\ r2[j] = r[y]
    BY <1>1, <1>4
  <2>2. x = y
    BY <1>2, <2>1
  <2> QED
    BY <2>1, <2>2
<1>11. IsChain(next', head', r2)
  <2>1. head' = IF r2 = <<>> THEN NULL ELSE r2[1]
    <3>1. r2 # <<>> /\ r2[1] = IF k = 1 THEN r[2] ELSE r[1]
      BY <1>1, <1>4
    <3> QED
      BY <3>1, ListRead
  <2>2. ASSUME NEW i \in 1..Len(r2)
        PROVE  next'[r2[i]] = IF i = Len(r2) THEN NULL ELSE r2[i+1]
    <3>1. CASE i < k - 1
      <4>1. r2[i] = r[i] /\ r2[i+1] = r[i+1] /\ i \in 1..Len(r) /\ i # Len(r)
            /\ i # k /\ i # Len(r2) /\ k - 1 \in 1..Len(r)
        <5>1. Len(r2) = Len(r) - 1
          BY <1>4
        <5>2. /\ i \in 1..Len(r) - 1 /\ i + 1 \in 1..Len(r) - 1 /\ i < k /\ i + 1 < k
              /\ i \in 1..Len(r) /\ i # Len(r) /\ i # Len(r2) /\ k - 1 \in 1..Len(r)
          BY <1>1, <3>1, <5>1
        <5>3. r2[i] = r[i] /\ r2[i+1] = r[i+1]
          BY <1>4, <5>2
        <5>4. i # k
          BY <5>2
        <5> QED
          BY <5>2, <5>3, <5>4
      <4>2. next'[r[i]] = next[r[i]]
        BY <1>2, <1>3, <1>9, <3>1, <4>1
      <4> QED
        BY <4>1, <4>2 DEF Shape, IsChain
    <3>2. CASE i = k - 1
      <4>1. r2[i] = r[k-1] /\ r2[i+1] = r[k+1] /\ k # 1 /\ i # Len(r2)
        BY <1>1, <1>4, <3>2
      <4> QED
        BY <1>9, <4>1
    <3>3. CASE i > k - 1
      <4>1. /\ r2[i] = r[i+1] /\ i + 1 \in 1..Len(r)
            /\ i + 1 # k /\ (k # 1 => k - 1 \in 1..Len(r) /\ i + 1 # k - 1)
            /\ i = Len(r2) <=> i + 1 = Len(r)
        BY <1>1, <1>4, <3>3
      <4>2. i # Len(r2) => r2[i+1] = r[i+1+1]
        BY <1>1, <1>4, <3>3
      <4>3. next'[r[i+1]] = next[r[i+1]]
        <5>1. r[i+1] # old /\ (k # 1 => r[i+1] # r[k-1])
          BY <1>2, <1>3, <4>1
        <5> QED
          BY <1>3, <1>9, <4>1, <5>1
      <4>4. next[r[i+1]] = IF i + 1 = Len(r) THEN NULL ELSE r[i+1+1]
        BY <4>1 DEF Shape, IsChain
      <4> QED
        BY <4>1, <4>2, <4>3, <4>4
    <3> QED
      BY <1>1, <1>4, <3>1, <3>2, <3>3
  <2> QED
    BY <1>10, <2>1, <2>2 DEF IsChain
<1>12. IsChain(next', free', f2)
  <2>1. free' = f2[1] /\ f2 # <<>>
    BY <1>1, <1>5 DEF old
  <2>2. ASSUME NEW i \in 1..Len(f2)
        PROVE  next'[f2[i]] = IF i = Len(f2) THEN NULL ELSE f2[i+1]
    <3>1. CASE i = 1
      <4>1. next'[f2[i]] = free
        BY <1>5, <1>9, <3>1
      <4>2. f = <<>> <=> Len(f2) = 1
        BY <1>1, <1>5
      <4>3. f # <<>> => 1 \in 1..Len(f) /\ f2[1+1] = f[1]
        BY <1>1, <1>5
      <4> QED
        BY <1>8, <3>1, <4>1, <4>2, <4>3
    <3>2. CASE i # 1
      <4> DEFINE j == i - 1
      <4>1. j \in 1..Len(f) /\ j + 1 = i /\ (i = Len(f2) <=> j = Len(f))
        BY <1>1, <1>5, <3>2
      <4>2. f2[i] = f[j] /\ (i # Len(f2) => f2[i+1] = f[j+1])
        <5>1. f2[j+1] = f[j]
          BY <1>5, <4>1
        <5>2. i # Len(f2) => j + 1 \in 1..Len(f) /\ f2[j+1+1] = f[j+1]
          BY <1>1, <1>5, <4>1
        <5> QED
          BY <4>1, <5>1, <5>2
      <4>3. next'[f[j]] = next[f[j]]
        <5>1. \A x \in 1..Len(r) : f[j] # r[x]
          BY <1>7, <4>1 DEF On
        <5>2. f[j] # old /\ (k # 1 => f[j] # r[k-1])
          BY <1>1, <5>1 DEF old
        <5> QED
          BY <1>7, <1>9, <4>1, <5>2
      <4>4. next[f[j]] = IF j = Len(f) THEN NULL ELSE f[j+1]
        BY <4>1 DEF Shape, IsChain
      <4> QED
        BY <4>1, <4>2, <4>3, <4>4
    <3> QED
      BY <3>1, <3>2
  <2>3. ASSUME NEW i \in 1..Len(f2), NEW j \in 1..Len(f2), i < j, f2[i] = f2[j]
        PROVE  FALSE
    <3>1. j - 1 \in 1..Len(f) /\ f2[j] = f[j-1]
      <4>1. j - 1 \in 1..Len(f) /\ j - 1 + 1 = j
        BY <1>1, <1>5, <2>3
      <4> QED
        BY <1>5, <4>1
    <3>2. CASE i = 1
      <4>1. f[j-1] = old
        BY <1>5, <2>3, <3>1, <3>2
      <4> QED
        BY <1>1, <1>7, <3>1, <4>1 DEF On, old
    <3>3. CASE i # 1
      <4>1. i - 1 \in 1..Len(f) /\ i - 1 + 1 = i
        BY <1>1, <1>5, <3>3
      <4>2. f2[i] = f[i-1]
        BY <1>5, <4>1
      <4>3. i - 1 = j - 1
        BY <1>6, <2>3, <3>1, <4>1, <4>2
      <4> QED
        BY <2>3, <4>3
    <3> QED
      BY <3>2, <3>3
  <2>4. \A i, j \in 1..Len(f2) : f2[i] = f2[j] => i = j
    BY <1>1, <1>5, <2>3
  <2> QED
    BY <2>1, <2>2, <2>4 DEF IsChain
<1>13. ASSUME NEW n \in Node
       PROVE  On(r2, n) <=> ~On(f2, n)
  <2>1. On(r2, n) <=> n # old /\ On(r, n)
    <3>1. ASSUME NEW i \in 1..Len(r2), r2[i] = n
          PROVE  n # old /\ On(r, n)
      <4> DEFINE x == IF i < k THEN i ELSE i + 1
      <4>1. x \in 1..Len(r) /\ r[x] = n /\ x # k
        BY <1>1, <1>4, <3>1
      <4> QED
        BY <1>3, <4>1 DEF On
    <3>2. ASSUME NEW i \in 1..Len(r), r[i] = n, n # old
          PROVE  On(r2, n)
      <4> DEFINE x == IF i < k THEN i ELSE i - 1
      <4>1. i # k
        BY <3>2 DEF old
      <4>2. x \in 1..Len(r2) /\ r2[x] = n
        BY <1>1, <1>4, <3>2, <4>1
      <4> QED
        BY <4>2 DEF On
    <3> QED
      BY <3>1, <3>2 DEF On
  <2>2. On(f2, n) <=> n = old \/ On(f, n)
    <3>1. ASSUME NEW i \in 1..Len(f2), f2[i] = n, n # old
          PROVE  On(f, n)
      <4>1. i - 1 \in 1..Len(f) /\ i - 1 + 1 = i
        BY <1>1, <1>5, <3>1
      <4>2. f2[i] = f[i-1]
        BY <1>5, <4>1
      <4> QED
        BY <3>1, <4>1, <4>2 DEF On
    <3>2. ASSUME NEW i \in 1..Len(f), f[i] = n
          PROVE  On(f2, n)
      <4>1. i + 1 \in 1..Len(f2) /\ f2[i+1] = n
        BY <1>1, <1>5, <3>2
      <4> QED
        BY <4>1 DEF On
    <3>3. 1 \in 1..Len(f2) /\ f2[1] = old
      BY <1>1, <1>5
    <3> QED
      BY <3>1, <3>2, <3>3 DEF On
  <2>3. On(r, n) <=> ~On(f, n)
    BY DEF Shape
  <2>4. On(r, old)
    BY <1>1 DEF On, old
  <2> QED
    BY <2>1, <2>2, <2>3, <2>4
<1>14. ASSUME NEW i \in 1..Len(r2)
       PROVE  prev'[r2[i]] = IF i = 1 THEN NULL ELSE r2[i-1]
  <2>1. \A x \in 1..Len(r) : r[x] # free
    <3>1. f # <<>> => 1 \in 1..Len(f)
      OBVIOUS
    <3>2. f # <<>> => ~On(r, free)
      BY <1>7, <1>8, <3>1
    <3>3. f = <<>> => free \notin Node
      BY <1>8 DEF Node, NULL
    <3> QED
      BY <1>3, <3>2, <3>3 DEF On
  <2>2. CASE i < k
    <3>1. r2[i] = r[i] /\ i \in 1..Len(r) /\ i # k /\ i # k + 1
          /\ (i # 1 => r2[i-1] = r[i-1])
      BY <1>1, <1>4, <2>2
    <3>2. r[i] # r[k] /\ r[i] # r[k+1] /\ r[i] # free /\ r[i] \in Node
      BY <1>1, <1>2, <1>3, <2>1, <3>1
    <3>3. prev'[r[i]] = prev[r[i]]
      BY <3>2
    <3> QED
      BY <3>1, <3>3 DEF Shape
  <2>3. CASE i = k
    <3>1. r2[i] = r[k+1] /\ (i # 1 => r2[i-1] = r[k-1])
      BY <1>1, <1>4, <2>3
    <3>2. r[k+1] # r[k]
      BY <1>1, <1>2
    <3>3. prev'[r[k+1]] = IF k = 1 THEN NULL ELSE r[k-1]
      BY <1>1, <3>2
    <3> QED
      BY <2>3, <3>1, <3>3
  <2>4. CASE i > k
    <3>1. r2[i] = r[i+1] /\ i + 1 \in 1..Len(r) /\ i + 1 # k /\ i + 1 # k + 1
          /\ i # 1 /\ i + 1 # 1 /\ r2[i-1] = r[i] /\ i + 1 - 1 = i
      BY <1>1, <1>4, <2>4
    <3>2. r[i+1] # r[k] /\ r[i+1] # r[k+1] /\ r[i+1] # free /\ r[i+1] \in Node
      BY <1>1, <1>2, <1>3, <2>1, <3>1
    <3>3. prev'[r[i+1]] = prev[r[i+1]]
      BY <3>2
    <3>4. prev[r[i+1]] = r[i+1-1]
      BY <3>1 DEF Shape
    <3> QED
      BY <3>1, <3>3, <3>4
  <2> QED
    BY <1>1, <1>4, <2>2, <2>3, <2>4
<1>15. r2 # <<>> /\ node_task'[r2[Len(r2)]] = 0
  <2>1. r2 # <<>> /\ r2[Len(r2)] = r[Len(r)]
    BY <1>1, <1>4
  <2> QED
    BY <2>1 DEF Shape
<1>16. /\ node_task' \in [Node -> {0} \cup User]
       /\ prev' \in [Node -> Node \cup {NULL}]
  <2>1. k # 1 => r[k-1] \in Node
    OBVIOUS
  <2> QED
    BY <1>1, <2>1 DEF Shape, old
<1>17. Shape(r2, f2)'
  BY <1>9, <1>11, <1>12, <1>13, <1>14, <1>15, <1>16 DEF Shape
<1>18. TasksOf(node_task', r2) = RemoveAt(TasksOf(node_task, r), k)
  <2> DEFINE q == TasksOf(node_task, r)
             q2 == RemoveAt(q, k)
             S == {0} \cup User
  <2>1. q \in Seq(S) /\ Len(q) = Len(r) /\ \A i \in 1..Len(r) : q[i] = node_task[r[i]]
    <3>1. node_task \in [Node -> {0} \cup User]
      BY DEF Shape
    <3> QED
      BY <3>1 DEF TasksOf
  <2> HIDE DEF q, S
  <2>2. /\ q2 \in Seq(S) /\ Len(q2) = Len(q) - 1
        /\ \A i \in 1..Len(q) - 1 : q2[i] = IF i < k THEN q[i] ELSE q[i+1]
    BY <1>1, <2>1, RemoveAtElements
  <2> HIDE DEF q2
  <2>3. ASSUME NEW i \in 1..Len(r2)
        PROVE  node_task'[r2[i]] = q2[i]
    <3> DEFINE x == IF i < k THEN i ELSE i + 1
    <3>1. x \in 1..Len(r) /\ r2[i] = r[x] /\ q2[i] = q[x]
      BY <1>1, <1>4, <2>1, <2>2
    <3> QED
      BY <2>1, <3>1
  <2>4. q2 = [i \in 1..Len(r2) |-> q2[i]]
    BY <1>4, <2>1, <2>2
  <2>5. TasksOf(node_task', r2) = [i \in 1..Len(r2) |-> q2[i]]
    BY <2>3 DEF TasksOf
  <2> QED
    BY <2>4, <2>5 DEF q2, q
<1> QED
  BY <1>4, <1>5, <1>17, <1>18 DEF r2, f2, old

\* The call does to the queue what RemFromReadyQ says.
LEMMA RemStep ==
  ASSUME NEW r \in Seq(Node), NEW f \in Seq(Node), Shape(r, f),
         NEW t \in User, RemNode(t)
  PROVE  \E r2, f2 \in Seq(Node) :
           /\ Shape(r2, f2)'
           /\ TasksOf(node_task', r2) = RemFromReadyQ(TasksOf(node_task, r), t)
<1> DEFINE q == TasksOf(node_task, r)
           nodes == {i \in 1..Len(q) : q[i] = t}
           rem == RemFromReadyQ(q, t)
<1>1. PICK k \in 1..Len(r)-1 :
        /\ nodes # {} /\ k = Min(nodes)
        /\ head' = IF k = 1 THEN r[2] ELSE head
        /\ next' = IF k = 1 THEN [next EXCEPT ![r[k]] = free]
                   ELSE [next EXCEPT ![r[k-1]] = r[k+1], ![r[k]] = free]
        /\ prev' = [n \in Node |->
             IF n = r[k] THEN NULL
             ELSE IF n = r[k+1] THEN IF k = 1 THEN NULL ELSE r[k-1]
             ELSE IF n = free THEN r[k] ELSE prev[n]]
        /\ free' = r[k] /\ node_task' = node_task
  BY RemAt
<1> HIDE DEF nodes, rem, q
<1>2. /\ Shape(RemoveAt(r, k), <<r[k]>> \o f)'
      /\ TasksOf(node_task', RemoveAt(r, k)) = RemoveAt(TasksOf(node_task, r), k)
      /\ RemoveAt(r, k) \in Seq(Node) /\ <<r[k]>> \o f \in Seq(Node)
  <2>1. head' = IF k = 1 THEN r[2] ELSE head
    BY <1>1
  <2>2. next' = IF k = 1 THEN [next EXCEPT ![r[k]] = free]
                ELSE [next EXCEPT ![r[k-1]] = r[k+1], ![r[k]] = free]
    BY <1>1
  <2>3. prev' = [n \in Node |->
          IF n = r[k] THEN NULL
          ELSE IF n = r[k+1] THEN IF k = 1 THEN NULL ELSE r[k-1]
          ELSE IF n = free THEN r[k] ELSE prev[n]]
    BY <1>1
  <2>4. free' = r[k] /\ node_task' = node_task
    BY <1>1
  <2> QED
    BY <2>1, <2>2, <2>3, <2>4, RemShape
<1>3. rem = RemoveAt(q, k)
  BY <1>1 DEF RemFromReadyQ, rem, nodes
<1>4. TasksOf(node_task', RemoveAt(r, k)) = rem
  BY <1>2, <1>3 DEF q
<1>5. \E r2, f2 \in Seq(Node) : Shape(r2, f2)' /\ TasksOf(node_task', r2) = rem
  BY <1>2, <1>4
<1> QED
  BY <1>5 DEF rem, q

-----------------------------------------------------------------------------

\* The operators of the queue are those of the list.
LEMMA SameOperators ==
  /\ \A q, t, elevated : Queue!AddToReadyQ(q, t, Priority, elevated, Ceiling)
                           = AddToReadyQ(q, t, Priority, elevated, Ceiling)
  /\ \A q, t : Queue!RemFromReadyQ(q, t) = RemFromReadyQ(q, t)
<1>1. \A S : Queue!Min(S) = Min(S)
  BY DEF Queue!Min, Min
<1>2. \A q, i, t : Queue!InsertAt(q, i, t) = InsertAt(q, i, t)
  BY DEF Queue!InsertAt, InsertAt
<1>3. \A q, i : Queue!RemoveAt(q, i) = RemoveAt(q, i)
  BY DEF Queue!RemoveAt, RemoveAt
<1>4. \A q, t, elevated : Queue!StopNodes(q, t, Priority, elevated, Ceiling)
                            = StopNodes(q, t, Priority, elevated, Ceiling)
  BY DEF Queue!StopNodes, StopNodes, Queue!GoesBefore, GoesBefore
<1>5. ASSUME NEW q, NEW t, NEW elevated
      PROVE  Queue!AddToReadyQ(q, t, Priority, elevated, Ceiling)
               = AddToReadyQ(q, t, Priority, elevated, Ceiling)
  BY <1>1, <1>2, <1>4 DEF Queue!AddToReadyQ, AddToReadyQ
<1>6. ASSUME NEW q, NEW t
      PROVE  Queue!RemFromReadyQ(q, t) = RemFromReadyQ(q, t)
  BY <1>1, <1>3 DEF Queue!RemFromReadyQ, RemFromReadyQ
<1> QED
  BY <1>5, <1>6

\* Every call keeps the list a list, and is a step of the queue.
LEMMA ListStep ==
  ASSUME ListInv, ListNext
  PROVE  ListInv' /\ Queue!QNext
<1>1. PICK r, f \in Seq(Node) : Shape(r, f)
  BY DEF ListInv
<1>2. ReadyTasks = TasksOf(node_task, r)
  BY <1>1, ListRead
<1>3. ASSUME NEW r2 \in Seq(Node), NEW f2 \in Seq(Node), Shape(r2, f2)'
      PROVE  ReadyTasks' = TasksOf(node_task', r2)
  <2>1. IsChain(next', head', r2)
    BY <1>3 DEF Shape
  <2>2. NodesFrom(next', head') = r2
    BY <2>1, ReadChain
  <2> QED
    BY <2>2 DEF ReadyTasks, TasksOf
<1>4. ASSUME NEW t \in User, NEW holders \in SUBSET User, AddNode(t, Elevated(holders))
      PROVE  ListInv' /\ Queue!QNext
  <2>1. PICK r2, f2 \in Seq(Node) :
          /\ Shape(r2, f2)'
          /\ TasksOf(node_task', r2)
               = AddToReadyQ(TasksOf(node_task, r), t, Priority, Elevated(holders), Ceiling)
    BY <1>1, <1>4, AddStep
  <2>2. Queue!Elevated(holders) = Elevated(holders)
    BY DEF Elevated, Queue!Elevated
  <2>3. ReadyTasks'
          = Queue!AddToReadyQ(ReadyTasks, t, Priority, Queue!Elevated(holders), Ceiling)
    BY <1>2, <1>3, <2>1, <2>2, SameOperators
  <2> QED
    BY <2>1, <2>3 DEF ListInv, Queue!QNext
<1>5. ASSUME NEW t \in User, RemNode(t)
      PROVE  ListInv' /\ Queue!QNext
  <2>1. PICK r2, f2 \in Seq(Node) :
          /\ Shape(r2, f2)'
          /\ TasksOf(node_task', r2) = RemFromReadyQ(TasksOf(node_task, r), t)
    BY <1>1, <1>5, RemStep
  <2>2. ReadyTasks' = Queue!RemFromReadyQ(ReadyTasks, t)
    BY <1>2, <1>3, <2>1, SameOperators
  <2> QED
    BY <2>1, <2>2 DEF ListInv, Queue!QNext
<1> QED
  BY <1>4, <1>5 DEF ListNext

\* A step that leaves the links alone leaves the list alone.
LEMMA ListStutter ==
  ASSUME ListInv, UNCHANGED listVars
  PROVE  ListInv' /\ UNCHANGED ReadyTasks
<1>1. PICK r, f \in Seq(Node) : Shape(r, f)
  BY DEF ListInv
<1>2. Shape(r, f)'
  BY <1>1 DEF Shape, listVars
<1>3. UNCHANGED ReadyTasks
  BY DEF ReadyTasks, listVars
<1> QED
  BY <1>2, <1>3 DEF ListInv

\* The invariant holds in every state.
LEMMA ListHolds == ListSpec => []ListInv
<1>1. ListInit => ListInv
  BY InitShape
<1>2. ListInv /\ [ListNext]_listVars => ListInv'
  BY ListStep, ListStutter
<1> QED
  BY <1>1, <1>2, PTL DEF ListSpec

\* Whatever calls fill and empty the queue, every node of _nrk_readyQ is on the
\* ready list or on the free list and on no more than one of them.
THEOREM NodesAreKept == ListSpec => []NoNodeLost
<1>1. ListInv => NoNodeLost
  <2> SUFFICES ASSUME NEW r \in Seq(Node), NEW f \in Seq(Node), Shape(r, f)
               PROVE  NoNodeLost
    BY DEF ListInv
  <2>1. NodesFrom(next, head) = r /\ NodesFrom(next, free) = f
    BY ListRead
  <2>2. \A n \in Node : On(r, n) <=> ~On(f, n)
    BY DEF Shape
  <2>3. ASSUME NEW c \in Seq(Node)
        PROVE  Range(c) = {n \in Node : On(c, n)}
    BY DEF Range, On
  <2>4. Range(r) = {n \in Node : On(r, n)} /\ Range(f) = {n \in Node : On(f, n)}
    BY <2>3
  <2>5. Range(r) \cup Range(f) = Node /\ Range(r) \cap Range(f) = {}
    BY <2>2, <2>4
  <2> QED
    BY <2>1, <2>5 DEF NoNodeLost
<1> QED
  BY <1>1, ListHolds, PTL

\* Prev leads back along Next on the whole ready list, so that
\* nrk_rem_from_readyQ joins the right two neighbours.
THEOREM BothWaysAlike == ListSpec => []LinksAgree
<1>1. ListInv => LinksAgree
  <2> SUFFICES ASSUME NEW r \in Seq(Node), NEW f \in Seq(Node), Shape(r, f)
               PROVE  LinksAgree
    BY DEF ListInv
  <2>1. NodesFrom(next, head) = r /\ head = r[1] /\ 1 \in 1..Len(r)
    BY ListRead
  <2>2. prev[head] = NULL
    BY <2>1 DEF Shape
  <2>3. ASSUME NEW n \in Range(r), next[n] # NULL
        PROVE  prev[next[n]] = n
    <3>1. PICK i \in 1..Len(r) : n = r[i]
      BY DEF Range
    <3>2. i # Len(r) /\ next[n] = r[i+1]
      BY <2>3, <3>1 DEF Shape, IsChain
    <3>3. i + 1 \in 1..Len(r) /\ i + 1 # 1 /\ i + 1 - 1 = i
      BY <3>2
    <3>4. prev[r[i+1]] = r[i]
      BY <3>3 DEF Shape
    <3> QED
      BY <3>1, <3>2, <3>4
  <2> QED
    BY <2>1, <2>2, <2>3 DEF LinksAgree
<1> QED
  BY <1>1, ListHolds, PTL

\* The doubly linked list is the queue that the scheduler is modelled with: read
\* from _head_node it starts with the idle task alone, and each call of
\* nrk_add_to_readyQ or nrk_rem_from_readyQ does to it what the operator says.
THEOREM ListIsQueue == ListSpec => ImplementsQueue
<1>1. ListInit => Queue!QInit
  BY InitShape DEF Queue!QInit
<1>2. ListInv /\ [ListNext]_listVars => [Queue!QNext]_ReadyTasks
  BY ListStep, ListStutter
<1> QED
  BY <1>1, <1>2, ListHolds, PTL DEF ListSpec, ImplementsQueue, Queue!QSpec

=============================================================================
