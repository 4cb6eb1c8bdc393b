-------------------------- MODULE ReadyQueueProofs --------------------------
(***************************************************************************)
(* What the two operators on the ready queue preserve, for queues of any   *)
(* length: the IDs in it and the idle task at its end.                     *)
(***************************************************************************)
EXTENDS ReadyQueue, WellFoundedInduction, TLAPS

\* q ends in the idle task and holds it nowhere else.
IdleEnds(q) ==
  /\ q # <<>>
  /\ \A i \in 1..Len(q) : q[i] = 0 <=> i = Len(q)

LessThan == {ss \in Nat \X Nat : ss[1] < ss[2]}

-----------------------------------------------------------------------------

\* The order of the natural numbers is well founded.
LEMMA LessThanWellFounded == IsWellFoundedOn(LessThan, Nat)
<1>1. OpToRel(<, Nat) = LessThan
  BY Zenon DEF OpToRel, LessThan
<1> QED  BY <1>1, NatLessThanWellFounded, Zenon

\* A set of positions that is not empty has a smallest one, and Min names it:
\* the node at which the walks of nrk_task.c stop.
LEMMA MinIsFirst ==
  ASSUME NEW S, S \subseteq Nat, S # {}
  PROVE  Min(S) \in S /\ \A y \in S : Min(S) <= y
<1>1. \E x \in S : \A y \in S : ~ (<<y, x>> \in LessThan)
  BY LessThanWellFounded, WFMin, Zenon
<1>2. \A x, y \in Nat : x < y => <<x, y>> \in LessThan
  <2> TAKE x, y \in Nat
  <2>1. <<x, y>> \in Nat \X Nat  OBVIOUS
  <2>2. <<x, y>>[1] = x /\ <<x, y>>[2] = y  OBVIOUS
  <2> QED  BY <2>1, <2>2, Zenon DEF LessThan
<1>3. PICK x \in S : \A y \in S : ~ (<<y, x>> \in LessThan)
  BY <1>1
<1>4. \A y \in S : ~ (y < x)
  BY <1>2, <1>3
<1>5. \A y \in S : x <= y
  BY <1>4
<1> QED  BY <1>5 DEF Min

\* The elements of a sequence after an insertion.
LEMMA InsertAtElements ==
  ASSUME NEW S, NEW q \in Seq(S), NEW i \in 1..Len(q), NEW e \in S
  PROVE  /\ InsertAt(q, i, e) \in Seq(S)
         /\ Len(InsertAt(q, i, e)) = Len(q) + 1
         /\ \A k \in 1..Len(q) + 1 : InsertAt(q, i, e)[k] =
              IF k < i THEN q[k] ELSE IF k = i THEN e ELSE q[k-1]
BY DEF InsertAt

\* The elements of a sequence after a removal.
LEMMA RemoveAtElements ==
  ASSUME NEW S, NEW q \in Seq(S), NEW i \in 1..Len(q)
  PROVE  /\ RemoveAt(q, i) \in Seq(S)
         /\ Len(RemoveAt(q, i)) = Len(q) - 1
         /\ \A k \in 1..Len(q) - 1 : RemoveAt(q, i)[k] =
              IF k < i THEN q[k] ELSE q[k+1]
<1> DEFINE front == SubSeq(q, 1, i-1)
           back == SubSeq(q, i+1, Len(q))
<1>1. /\ front \in Seq(S) /\ Len(front) = i - 1
      /\ \A k \in 1..i-1 : front[k] = q[k]
  OBVIOUS
<1>2. /\ back \in Seq(S) /\ Len(back) = Len(q) - i
      /\ \A k \in 1..Len(q)-i : back[k] = q[i+k]
  OBVIOUS
<1>3. RemoveAt(q, i) = front \o back
  BY DEF RemoveAt
<1> HIDE DEF front, back
<1>4. front \o back \in Seq(S) /\ Len(front \o back) = Len(q) - 1
  BY <1>1, <1>2
<1>5. ASSUME NEW k \in 1..Len(q)-1
      PROVE  (front \o back)[k] = IF k < i THEN q[k] ELSE q[k+1]
  <2>1. (front \o back)[k] = IF k < i THEN front[k] ELSE back[k - i + 1]
    BY <1>1, <1>2
  <2>2. CASE k < i
    BY <1>1, <2>1, <2>2
  <2>3. CASE ~(k < i)
    <3>1. k - i + 1 \in 1..Len(q)-i
      BY <2>3
    <3> QED  BY <1>2, <2>1, <2>3, <3>1
  <2> QED  BY <2>2, <2>3
<1> QED  BY <1>3, <1>4, <1>5

-----------------------------------------------------------------------------

\* nrk_add_to_readyQ puts a task in front of the idle task: every walk ends
\* there, since the idle task has the lowest priority of all.
THEOREM AddKeepsIdleLast ==
  ASSUME NEW S \in SUBSET Nat, NEW q \in Seq(S), IdleEnds(q),
         NEW t \in S, t # 0,
         NEW prio \in [S -> Nat], prio[0] < prio[t],
         NEW elevated, NEW ceil
  PROVE  /\ AddToReadyQ(q, t, prio, elevated, ceil) \in Seq(S)
         /\ IdleEnds(AddToReadyQ(q, t, prio, elevated, ceil))
<1> DEFINE stops == StopNodes(q, t, prio, elevated, ceil)
<1>1. Len(q) \in Nat \ {0} /\ q[Len(q)] = 0
  BY DEF IdleEnds
<1>2. Len(q) \in stops
  BY <1>1 DEF StopNodes, GoesBefore
<1>3. stops \subseteq 1..Len(q)
  BY DEF StopNodes
<1>4. PICK at \in 1..Len(q) : at = Min(stops)
  BY <1>2, <1>3, MinIsFirst
<1>5. AddToReadyQ(q, t, prio, elevated, ceil) \in {q, InsertAt(q, at, t)}
  BY <1>1, <1>2, <1>4 DEF AddToReadyQ
<1>6. /\ InsertAt(q, at, t) \in Seq(S)
      /\ Len(InsertAt(q, at, t)) = Len(q) + 1
      /\ \A k \in 1..Len(q) + 1 : InsertAt(q, at, t)[k] =
           IF k < at THEN q[k] ELSE IF k = at THEN t ELSE q[k-1]
  BY InsertAtElements
<1>7. ASSUME NEW k \in 1..Len(q) + 1
      PROVE  InsertAt(q, at, t)[k] = 0 <=> k = Len(q) + 1
  <2>1. CASE k < at
    BY <1>1, <1>6, <2>1 DEF IdleEnds
  <2>2. CASE k = at
    BY <1>1, <1>6, <2>2
  <2>3. CASE k > at
    <3>1. k - 1 \in 1..Len(q) /\ InsertAt(q, at, t)[k] = q[k-1]
      BY <1>1, <1>6, <2>3
    <3> QED  BY <1>1, <3>1 DEF IdleEnds
  <2> QED  BY <1>1, <2>1, <2>2, <2>3
<1>8. IdleEnds(InsertAt(q, at, t))
  BY <1>1, <1>6, <1>7 DEF IdleEnds
<1> QED  BY <1>5, <1>6, <1>8

\* nrk_rem_from_readyQ of any other task leaves the idle task at the end.
THEOREM RemKeepsIdleLast ==
  ASSUME NEW S \in SUBSET Nat, NEW q \in Seq(S), IdleEnds(q),
         NEW t \in S, t # 0
  PROVE  /\ RemFromReadyQ(q, t) \in Seq(S)
         /\ IdleEnds(RemFromReadyQ(q, t))
<1> DEFINE nodes == {i \in 1..Len(q) : q[i] = t}
<1>1. CASE nodes = {}
  BY <1>1 DEF RemFromReadyQ
<1>2. CASE nodes # {}
  <2>1. Min(nodes) \in nodes
    <3>1. nodes \subseteq Nat
      OBVIOUS
    <3> HIDE DEF nodes
    <3> QED  BY <1>2, <3>1, MinIsFirst
  <2>2. PICK at \in 1..Len(q) : at = Min(nodes)
    BY <2>1
  <2>3. at # Len(q)
    BY <2>1, <2>2 DEF IdleEnds
  <2>4. RemFromReadyQ(q, t) = RemoveAt(q, at)
    BY <1>2, <2>2 DEF RemFromReadyQ
  <2>5. /\ RemoveAt(q, at) \in Seq(S)
        /\ Len(RemoveAt(q, at)) = Len(q) - 1
        /\ \A k \in 1..Len(q) - 1 :
             RemoveAt(q, at)[k] = IF k < at THEN q[k] ELSE q[k+1]
    BY RemoveAtElements
  <2>6. ASSUME NEW k \in 1..Len(q) - 1
        PROVE  RemoveAt(q, at)[k] = 0 <=> k = Len(q) - 1
    BY <2>3, <2>5 DEF IdleEnds
  <2>7. IdleEnds(RemoveAt(q, at))
    BY <2>3, <2>5, <2>6 DEF IdleEnds
  <2> QED  BY <2>4, <2>5, <2>7
<1> QED  BY <1>1, <1>2

=============================================================================
