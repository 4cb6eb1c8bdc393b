----------------------------- MODULE BmacProofs -----------------------------
(***************************************************************************)
(* The hand-over of the two buffers of B-MAC, for any number of senders,   *)
(* any packets and any reserve, and for the priorities under which it      *)
(* holds: the receiver above the MAC task, and the sender above it.        *)
(***************************************************************************)
EXTENDS Bmac, TLAPS

Points == MacPC \cup RxPC \cup SwitchPC \cup TxPC \cup {"marked"}
RsvRecord == [active : BOOLEAN, period_ticks : Nat, left : Nat, set_access : Nat,
              cur_access : Nat]
TcbRecord == [task_state : TaskState, event : Signals \cup {NoEvent}, nodes : Nat]

\* The tasks are distinct.
LEMMA Names ==
  /\ {Mac, Rx, Switch} \subseteq Task /\ TxTask \subseteq Task
  /\ Task = TxTask \cup {Mac, Rx, Switch}
  /\ {Mac, Rx, Switch} \cap TxTask = {} /\ Idle \notin Task /\ Scheduler \notin Task
  /\ Mac # Rx /\ Mac # Switch /\ Rx # Switch
BY BmacAssumption DEF Task, Mac, Rx, Switch, Idle, Scheduler

\* Nothing that happens to a task takes a node from it, except its own wait.
LEMMA BlockSteps ==
  ASSUME NEW b \in TcbRecord, NEW s \in Signals, NEW room
  PROVE  /\ Noted(b, s) \in TcbRecord /\ (Queued(b) => Queued(Noted(b, s)))
         /\ Parked(b) \in TcbRecord
         /\ Woken(b, room) \in TcbRecord /\ (Queued(b) => Queued(Woken(b, room)))
         /\ Woken(Signalled(b, s), room) \in TcbRecord
         /\ Queued(b) => Queued(Woken(Signalled(b, s), room))
<1>1. /\ Noted(b, s) \in TcbRecord /\ (Queued(b) => Queued(Noted(b, s)))
      /\ Parked(b) \in TcbRecord
  BY DEF TcbRecord, Noted, Parked, Queued, TaskState
<1>2. ASSUME NEW d \in TcbRecord
      PROVE  Woken(d, room) \in TcbRecord /\ (Queued(d) => Queued(Woken(d, room)))
  BY DEF TcbRecord, Woken, Queued, TaskState
<1>3. Signalled(b, s) \in TcbRecord /\ (Queued(b) => Queued(Signalled(b, s)))
  BY DEF TcbRecord, Signalled, Queued, TaskState
<1> QED
  BY <1>1, <1>2, <1>3

\* An update keeps the record of a reserve.
LEMMA Replenished ==
  ASSUME NEW r \in RsvRecord
  PROVE  Updated(r) \in RsvRecord
BY DEF RsvRecord, Updated

\* Every operation on the reserves leaves reserves; one on a slot that does not
\* exist changes nothing.
LEMMA ReserveSteps ==
  ASSUME ReserveTypeOK, NEW i
  PROVE  /\ i \in ReserveId /\ UpdateReserve(i) => ReserveTypeOK'
         /\ TakeAccess(i) => ReserveTypeOK'
         /\ i \in ReserveId /\ CreateAndSet(i, ReservePeriod, ReserveCount)
              => ReserveTypeOK'
<1>1. /\ nrk_reserve \in [ReserveId -> RsvRecord]
      /\ i \in ReserveId => nrk_reserve[i] \in RsvRecord
  BY DEF ReserveTypeOK, RsvRecord
<1>2. i \in ReserveId /\ UpdateReserve(i) => ReserveTypeOK'
  BY <1>1, Replenished DEF UpdateReserve, ReserveTypeOK, RsvRecord
<1>3. TakeAccess(i) => ReserveTypeOK'
  <2>1. CASE i \in ReserveId
    <3>1. [nrk_reserve[i] EXCEPT !.cur_access = @ + 1] \in RsvRecord
      BY <1>1, <2>1 DEF RsvRecord
    <3> QED
      BY <1>1, <2>1, <3>1 DEF TakeAccess, ReserveTypeOK, RsvRecord
  <2>2. CASE i \notin ReserveId
    <3> DEFINE r == [nrk_reserve[i] EXCEPT !.cur_access = @ + 1]
    <3>1. [nrk_reserve EXCEPT ![i] = r] = nrk_reserve
      <4> HIDE DEF r
      <4> QED BY <1>1, <2>2
    <3> QED
      BY <1>1, <2>2, <3>1 DEF TakeAccess, ReserveTypeOK
  <2> QED
    BY <2>1, <2>2
<1>4. i \in ReserveId /\ CreateAndSet(i, ReservePeriod, ReserveCount) => ReserveTypeOK'
  BY <1>1, BmacAssumption DEF CreateAndSet, ReserveTypeOK, RsvRecord
<1> QED
  BY <1>2, <1>3, <1>4

\* A tick keeps the reserves.
LEMMA ReservesAge ==
  ASSUME ReserveTypeOK, AgeReserves
  PROVE  ReserveTypeOK'
<1>1. \A j \in ReserveId :
        [nrk_reserve[j] EXCEPT !.left = IF @ = 0 THEN 0 ELSE @ - 1] \in RsvRecord
  BY DEF ReserveTypeOK, RsvRecord
<1> QED
  BY <1>1 DEF AgeReserves, ReserveTypeOK, RsvRecord

\* The processor, the radio, the buffers and the reserve, each by itself.
ProcessorOK ==
  /\ running \in Task \cup {Idle, Scheduler}
  /\ pc \in [Task -> Points] /\ tcb \in [Task -> TcbRecord]
RadioOK == {rx_ready, receiving} \subseteq BOOLEAN /\ frame \in Packet \cup {NoPacket}
BuffersOK ==
  /\ {rx_buf_empty, unread, tx_data_ready, owed} \subseteq BOOLEAN
  /\ {rx_buf, held} \subseteq Packet \cup {NoPacket}
  /\ tx_payload \in TxTask \cup {Idle}
SettingsOK == {is_enabled, cca_active} \subseteq BOOLEAN
AllowanceOK ==
  /\ tx_reserve \in ReserveId \cup {NoReserve} /\ ReserveTypeOK
  /\ grants \in [Grant -> 0..ReservePeriod]

\* Together they are the type invariant.
LEMMA TypeParts ==
  /\ BmacTypeOK <=> ProcessorOK /\ RadioOK /\ BuffersOK /\ SettingsOK /\ AllowanceOK
  /\ BmacTypeOK' <=> ProcessorOK' /\ RadioOK' /\ BuffersOK' /\ SettingsOK' /\ AllowanceOK'
BY DEF BmacTypeOK, ProcessorOK, RadioOK, BuffersOK, SettingsOK, AllowanceOK,
   Points, TcbRecord

-----------------------------------------------------------------------------

\* What a step of task u does to the processor and to the tasks: it moves u on, and
\* takes a node from nobody, unless u gives up the processor.
Acts(u) ==
  /\ running = u /\ running' \in {u, Scheduler}
  /\ tcb' \in [Task -> TcbRecord]
  /\ \E q \in Points : pc' = [pc EXCEPT ![u] = q]
  /\ \A v \in Task : v # u \/ running' = u =>
       (Queued(tcb[v]) => Queued(tcb'[v]))

\* The four kinds of step are of this form.
LEMMA Moves ==
  ASSUME ProcessorOK, NEW u \in Task, NEW p, NEW q \in Points, NEW s \in Signals
  PROVE  /\ Goes(u, p, q) /\ UNCHANGED tcb => Acts(u)
         /\ Goes(u, p, q) /\ Signal(s) => Acts(u)
         /\ Notes(u, p, s) => Acts(u)
         /\ Blocks(u, p, q) => Acts(u)
<1> USE DEF ProcessorOK
<1>1. Goes(u, p, q) /\ UNCHANGED tcb => Acts(u)
  BY DEF Goes, Acts
<1>2. Goes(u, p, q) /\ Signal(s) => Acts(u)
  <2> SUFFICES ASSUME Goes(u, p, q), Signal(s) PROVE Acts(u)
    OBVIOUS
  <2>1. ASSUME NEW v \in Task
        PROVE  tcb'[v] \in TcbRecord /\ (Queued(tcb[v]) => Queued(tcb'[v]))
    BY BlockSteps DEF Signal
  <2>2. tcb' = [v \in Task |-> tcb'[v]]
    BY DEF Signal
  <2> QED
    BY <2>1, <2>2 DEF Goes, Acts
<1>3. Notes(u, p, s) => Acts(u)
  <2> SUFFICES ASSUME Notes(u, p, s) PROVE Acts(u)
    OBVIOUS
  <2>1. tcb' = [tcb EXCEPT ![u] = Noted(tcb[u], s)] /\ Goes(u, p, "marked")
    BY DEF Notes
  <2>2. Noted(tcb[u], s) \in TcbRecord /\ (Queued(tcb[u]) => Queued(Noted(tcb[u], s)))
    BY BlockSteps
  <2>3. "marked" \in Points
    BY DEF Points
  <2> QED
    BY <2>1, <2>2, <2>3 DEF Goes, Acts
<1>4. Blocks(u, p, q) => Acts(u)
  <2> SUFFICES ASSUME Blocks(u, p, q) PROVE Acts(u)
    OBVIOUS
  <2>1. Parked(tcb[u]) \in TcbRecord
    BY BlockSteps
  <2>2. u # Scheduler
    BY Names
  <2> QED
    BY <2>1, <2>2 DEF Blocks, Acts
<1> QED
  BY <1>1, <1>2, <1>3, <1>4

\* Every step of a task does that: of the MAC task,
LEMMA MacActs ==
  ASSUME ProcessorOK, MacStep
  PROVE  Acts(Mac)
<1> USE Names, Moves DEF Points, MacPC, RxPC, SwitchPC, TxPC, Signals
<1>1. CASE MacTop
  BY <1>1 DEF MacTop
<1>2. CASE MacOff
  BY <1>2 DEF MacOff
<1>3. CASE \E busy \in BOOLEAN : Listen(busy)
  BY <1>3 DEF Listen
<1>4. CASE ReadFrame
  BY <1>4 DEF ReadFrame
<1>5. CASE ReadNothing
  BY <1>5 DEF ReadNothing
<1>6. CASE Stored
  BY <1>6 DEF Stored
<1>7. CASE Announce
  BY <1>7 DEF Announce
<1>8. CASE SendOrSleep
  BY <1>8 DEF SendOrSleep
<1>9. CASE ChannelBusy
  BY <1>9 DEF ChannelBusy
<1>10. CASE ChannelClear
  BY <1>10 DEF ChannelClear
<1>11. CASE Transmit
  BY <1>11 DEF Transmit
<1>12. CASE Sent
  BY <1>12 DEF Sent
<1>13. CASE Done
  BY <1>13 DEF Done
<1>14. CASE Sleep
  BY <1>14 DEF Sleep
<1> QED
  BY <1>1, <1>2, <1>3, <1>4, <1>5, <1>6, <1>7, <1>8, <1>9, <1>10, <1>11, <1>12, <1>13,
     <1>14 DEF MacStep

\* of the receiving task,
LEMMA RxActs ==
  ASSUME ProcessorOK, RxStep
  PROVE  Acts(Rx)
<1> USE Names, Moves DEF Points, MacPC, RxPC, SwitchPC, TxPC, Signals
<1>1. CASE RxTest
  BY <1>1 DEF RxTest
<1>2. CASE RxWait
  BY <1>2 DEF RxWait
<1>3. CASE RxGet
  BY <1>3 DEF RxGet
<1>4. CASE RxRelease
  BY <1>4 DEF RxRelease
<1> QED
  BY <1>1, <1>2, <1>3, <1>4 DEF RxStep

\* of the task that switches the MAC off and on,
LEMMA SwitchActs ==
  ASSUME ProcessorOK, SwitchStep
  PROVE  Acts(Switch)
<1> USE Names, Moves DEF Points, MacPC, RxPC, SwitchPC, TxPC, Signals
<1>1. CASE Disable
  BY <1>1 DEF Disable
<1>2. CASE Enable
  BY <1>2 DEF Enable
<1>3. CASE Leave
  BY <1>3 DEF Leave
<1> QED
  BY <1>1, <1>2, <1>3 DEF SwitchStep

\* and of a sender.
LEMMA TxActs ==
  ASSUME ProcessorOK, NEW t \in TxTask, TxStep(t)
  PROVE  Acts(t)
<1> USE Names, Moves DEF Points, MacPC, RxPC, SwitchPC, TxPC, Signals
<1>1. CASE TxTest(t)
  BY <1>1 DEF TxTest
<1>2. CASE TxConsume(t)
  BY <1>2 DEF TxConsume
<1>3. CASE TxTake(t)
  BY <1>3 DEF TxTake
<1>4. CASE TxArm(t)
  BY <1>4 DEF TxArm
<1>5. CASE TxFill(t)
  BY <1>5 DEF TxFill
<1>6. CASE TxWait(t)
  BY <1>6 DEF TxWait
<1>7. CASE TxReturn(t)
  BY <1>7 DEF TxReturn
<1>8. CASE TxNonblocking(t)
  BY <1>8 DEF TxNonblocking
<1>9. CASE TxFillNonblocking(t)
  BY <1>9 DEF TxFillNonblocking
<1>10. CASE TxReserveSet(t)
  BY <1>10 DEF TxReserveSet
<1>11. CASE TxReserveGet(t)
  BY <1>11 DEF TxReserveGet
<1>12. CASE SetCca(t)
  BY <1>12 DEF SetCca
<1> QED
  BY <1>1, <1>2, <1>3, <1>4, <1>5, <1>6, <1>7, <1>8, <1>9, <1>10, <1>11, <1>12 DEF TxStep

-----------------------------------------------------------------------------

\* A step of a task keeps the types of the processor.
LEMMA ActsTypes ==
  ASSUME ProcessorOK, NEW u \in Task, Acts(u)
  PROVE  ProcessorOK'
BY DEF Acts, ProcessorOK

\* The steps of the MAC task keep the types.
LEMMA MacTypes ==
  ASSUME BmacTypeOK, MacStep
  PROVE  BmacTypeOK'
<1> USE TypeParts DEF RadioOK, BuffersOK, SettingsOK, AllowanceOK, ReserveTypeOK,
        Goes, Notes, Blocks, ReceiverOff, rfVars, rxVars, txVars, rsvVars, setVars
<1>0. ProcessorOK'
  BY MacActs, ActsTypes, Names
<1>1. CASE MacTop
  BY <1>1, <1>0 DEF MacTop
<1>2. CASE MacOff
  BY <1>2, <1>0 DEF MacOff
<1>3. CASE \E busy \in BOOLEAN : Listen(busy)
  BY <1>3, <1>0 DEF Listen
<1>4. CASE ReadFrame
  BY <1>4, <1>0 DEF ReadFrame
<1>5. CASE ReadNothing
  BY <1>5, <1>0 DEF ReadNothing
<1>6. CASE Stored
  BY <1>6, <1>0 DEF Stored
<1>7. CASE Announce
  BY <1>7, <1>0 DEF Announce
<1>8. CASE SendOrSleep
  BY <1>8, <1>0 DEF SendOrSleep
<1>9. CASE ChannelBusy
  BY <1>9, <1>0 DEF ChannelBusy
<1>10. CASE ChannelClear
  BY <1>10, <1>0 DEF ChannelClear
<1>11. CASE Transmit
  BY <1>11, <1>0 DEF Transmit
<1>12. CASE Sent
  BY <1>12, <1>0 DEF Sent
<1>13. CASE Done
  BY <1>13, <1>0 DEF Done
<1>14. CASE Sleep
  BY <1>14, <1>0 DEF Sleep
<1> QED
  BY <1>1, <1>2, <1>3, <1>4, <1>5, <1>6, <1>7, <1>8, <1>9, <1>10, <1>11, <1>12, <1>13,
     <1>14 DEF MacStep

\* So do the steps of the receiving task ...
LEMMA RxTypes ==
  ASSUME BmacTypeOK, RxStep
  PROVE  BmacTypeOK'
<1> USE TypeParts DEF RadioOK, BuffersOK, SettingsOK, AllowanceOK, ReserveTypeOK,
        Goes, Notes, Blocks, ReceiverOff, rfVars, rxVars, txVars, rsvVars, setVars
<1>0. ProcessorOK'
  BY RxActs, ActsTypes, Names
<1>1. CASE RxTest
  BY <1>1, <1>0 DEF RxTest
<1>2. CASE RxWait
  BY <1>2, <1>0 DEF RxWait
<1>3. CASE RxGet
  BY <1>3, <1>0 DEF RxGet
<1>4. CASE RxRelease
  BY <1>4, <1>0 DEF RxRelease
<1> QED
  BY <1>1, <1>2, <1>3, <1>4 DEF RxStep

\* ... and of the task that switches.
LEMMA SwitchTypes ==
  ASSUME BmacTypeOK, SwitchStep
  PROVE  BmacTypeOK'
<1> USE TypeParts DEF RadioOK, BuffersOK, SettingsOK, AllowanceOK, ReserveTypeOK,
        Goes, Notes, Blocks, ReceiverOff, rfVars, rxVars, txVars, rsvVars, setVars
<1>0. ProcessorOK'
  BY SwitchActs, ActsTypes, Names
<1>1. CASE Disable
  BY <1>1, <1>0 DEF Disable
<1>2. CASE Enable
  BY <1>2, <1>0 DEF Enable
<1>3. CASE Leave
  BY <1>3, <1>0 DEF Leave
<1> QED
  BY <1>1, <1>2, <1>3 DEF SwitchStep

\* So do the steps of a sender: those that use the reserve ...
LEMMA ReserveTypes ==
  ASSUME BmacTypeOK, NEW t \in TxTask,
         TxConsume(t) \/ TxTake(t) \/ TxReserveSet(t) \/ TxReserveGet(t)
  PROVE  BmacTypeOK'
<1> USE Names, TypeParts
<1>1. ProcessorOK'
  BY TxActs, ActsTypes DEF TxStep
<1>2. RadioOK' /\ BuffersOK' /\ SettingsOK'
  BY DEF TxConsume, TxTake, TxReserveSet, TxReserveGet, RadioOK, BuffersOK,
     SettingsOK, rfVars, rxVars, txVars, setVars
<1>3. ReserveTypeOK'
  BY ReserveSteps DEF TxConsume, TxTake, TxReserveSet, TxReserveGet, AllowanceOK,
     NoReserve
<1>4. tx_reserve' \in ReserveId \cup {NoReserve}
  BY DEF TxConsume, TxTake, TxReserveSet, TxReserveGet, AllowanceOK
<1>5. grants' \in [Grant -> 0..ReservePeriod]
  <2>1. CASE TxTake(t)
    BY <2>1, BmacAssumption DEF TxTake, Granted, Grant, AllowanceOK
  <2>2. CASE ~TxTake(t)
    BY <2>2 DEF TxConsume, TxReserveSet, TxReserveGet, AllowanceOK
  <2> QED
    BY <2>1, <2>2
<1> QED
  BY <1>1, <1>2, <1>3, <1>4, <1>5 DEF AllowanceOK

\* ... and the others.
LEMMA TxTypes ==
  ASSUME BmacTypeOK, NEW t \in TxTask, TxStep(t)
  PROVE  BmacTypeOK'
<1> USE Names, TypeParts
    DEF Goes, Notes, Blocks, RadioOK, BuffersOK, SettingsOK, AllowanceOK, ReserveTypeOK,
        rfVars, rxVars, txVars, rsvVars, setVars
<1>0. ProcessorOK'
  BY TxActs, ActsTypes
<1>1. CASE TxTest(t)
  BY <1>1, <1>0 DEF TxTest
<1>2. CASE TxArm(t)
  BY <1>2, <1>0 DEF TxArm
<1>3. CASE TxFill(t)
  BY <1>3, <1>0 DEF TxFill
<1>4. CASE TxWait(t)
  BY <1>4, <1>0 DEF TxWait
<1>5. CASE TxReturn(t)
  BY <1>5, <1>0 DEF TxReturn
<1>6. CASE TxNonblocking(t)
  BY <1>6, <1>0 DEF TxNonblocking
<1>7. CASE TxFillNonblocking(t)
  BY <1>7, <1>0 DEF TxFillNonblocking
<1>8. CASE SetCca(t)
  BY <1>8, <1>0 DEF SetCca
<1> QED
  BY <1>1, <1>2, <1>3, <1>4, <1>5, <1>6, <1>7, <1>8, ReserveTypes DEF TxStep

\* The types hold at the start ...
LEMMA InitTypes == BmacInit => BmacTypeOK
<1> SUFFICES ASSUME BmacInit PROVE BmacTypeOK
  OBVIOUS
<1> USE DEF BmacInit
<1>1. ProcessorOK
  BY Names DEF ProcessorOK, Points, MacPC, RxPC, SwitchPC, TxPC, TcbRecord, Runnable,
     TaskState
<1>2. RadioOK /\ BuffersOK /\ SettingsOK
  BY DEF RadioOK, BuffersOK, SettingsOK
<1>3. AllowanceOK
  BY BmacAssumption DEF AllowanceOK, ReserveInit, ReserveTypeOK, Grant
<1> QED
  BY <1>1, <1>2, <1>3, TypeParts

\* A pass that wakes task t gives it a node and takes none from anybody.
LEMMA WakeUpKeeps ==
  ASSUME ProcessorOK, NEW t \in Task, WakeUp(t)
  PROVE  /\ ProcessorOK' /\ running' = Scheduler /\ UNCHANGED pc
         /\ \A v \in Task : Queued(tcb[v]) => Queued(tcb'[v])
<1> DEFINE b == Woken(tcb[t], Room)
<1>1. tcb' = [tcb EXCEPT ![t] = b] /\ running' = Scheduler /\ UNCHANGED pc
  BY DEF WakeUp
<1>2. tcb[t] \in TcbRecord /\ "rx" \in Signals
  BY DEF ProcessorOK, Signals
<1>3. b \in TcbRecord /\ (Queued(tcb[t]) => Queued(b))
  BY <1>2, BlockSteps
<1> QED
  BY <1>1, <1>3 DEF ProcessorOK

\* ... and every step keeps them.
LEMMA NextTypes ==
  ASSUME BmacTypeOK, [BmacNext]_bmacVars
  PROVE  BmacTypeOK'
<1> USE TypeParts
<1>1. CASE Pass
  BY <1>1 DEF Pass, ProcessorOK, RadioOK, BuffersOK, SettingsOK, AllowanceOK,
     ReserveTypeOK, rfVars, rxVars, txVars, rsvVars, setVars
<1>2. CASE Tick
  <2>1. ReserveTypeOK'
    BY <1>2, ReservesAge DEF Tick, AllowanceOK
  <2>2. grants' \in [Grant -> 0..ReservePeriod]
    BY <1>2, BmacAssumption DEF Tick, Grant, AllowanceOK
  <2>3. tx_reserve' = tx_reserve /\ ProcessorOK' /\ RadioOK' /\ BuffersOK' /\ SettingsOK'
    BY <1>2 DEF Tick, ProcessorOK, RadioOK, BuffersOK, SettingsOK, rfVars, rxVars,
       txVars, rsvVars, setVars
  <2> QED
    BY <2>1, <2>2, <2>3 DEF AllowanceOK
<1>3. CASE RxEnd
  BY <1>3 DEF RxEnd, ProcessorOK, RadioOK, BuffersOK, SettingsOK, AllowanceOK,
     ReserveTypeOK, rfVars, rxVars, txVars, rsvVars, setVars
<1>4. ASSUME NEW t \in Task, WakeUp(t)
      PROVE  BmacTypeOK'
  BY <1>4, WakeUpKeeps DEF WakeUp, RadioOK, BuffersOK, SettingsOK, AllowanceOK,
     ReserveTypeOK, rfVars, rxVars, txVars, rsvVars, setVars
<1>5. CASE UNCHANGED bmacVars
  BY <1>5 DEF bmacVars, ProcessorOK, RadioOK, BuffersOK, SettingsOK, AllowanceOK,
     ReserveTypeOK, rfVars, rxVars, txVars, rsvVars, setVars
<1> QED
  BY <1>1, <1>2, <1>3, <1>4, <1>5, MacTypes, RxTypes, SwitchTypes, TxTypes DEF BmacNext

\* The tasks, the radio, the buffers and the reserve keep their types, for any
\* senders, priorities, packets and reserves.
THEOREM BmacTypesHold == BmacSpec => []BmacTypeOK
BY InitTypes, NextTypes, PTL DEF BmacSpec

-----------------------------------------------------------------------------

\* The task that runs is in the queue.
RunsQueued == running \in Task => Queued(tcb[running])

LEMMA RunsNext ==
  ASSUME ProcessorOK, RunsQueued, [BmacNext]_bmacVars
  PROVE  RunsQueued'
<1> USE Names DEF ProcessorOK, RunsQueued
<1>1. ASSUME NEW u \in Task, Acts(u)
      PROVE  RunsQueued'
  BY <1>1 DEF Acts
<1>2. CASE Pass
  BY <1>2 DEF Pass
<1>3. ASSUME NEW t \in Task, WakeUp(t)
      PROVE  RunsQueued'
  BY <1>3 DEF WakeUp
<1>4. CASE Tick \/ RxEnd \/ UNCHANGED bmacVars
  BY <1>4 DEF Tick, RxEnd, bmacVars
<1> QED
  BY <1>1, <1>2, <1>3, <1>4, MacActs, RxActs, SwitchActs, TxActs DEF BmacNext

\* Task high is out of the queue only at one of the points stops, and is at one of them
\* while low runs: with high above low, this is kept if high gives up the processor
\* there only.
StopsAt(high, low, stops) ==
  /\ ~Queued(tcb[high]) => pc[high] \in stops
  /\ running = low => pc[high] \in stops

LEMMA StopsNext ==
  ASSUME NEW high \in Task, NEW low \in Task, NEW stops, Prio[high] > Prio[low],
         ProcessorOK, RunsQueued, StopsAt(high, low, stops), [BmacNext]_bmacVars,
         Acts(high) => Queued(tcb'[high]) \/ pc'[high] \in stops
  PROVE  StopsAt(high, low, stops)'
<1> USE Names DEF ProcessorOK, StopsAt
<1>0. high # low
  BY BmacAssumption
<1>1. ASSUME NEW u \in Task, Acts(u)
      PROVE  StopsAt(high, low, stops)'
  <2>1. CASE u = high
    <3>1. Queued(tcb'[high]) \/ pc'[high] \in stops
      BY <1>1, <2>1
    <3>2. running' # low
      BY <1>0, <1>1, <2>1 DEF Acts
    <3> QED
      BY <3>1, <3>2
  <2>2. CASE u # high
    <3>1. pc'[high] = pc[high] /\ (Queued(tcb[high]) => Queued(tcb'[high]))
      BY <1>1, <2>2 DEF Acts
    <3>2. running' = low => running = low
      BY <1>1 DEF Acts
    <3> QED
      BY <3>1, <3>2
  <2> QED
    BY <2>1, <2>2
<1>2. CASE Pass
  <2>1. running' = low => ~Queued(tcb[high])
    <3> SUFFICES ASSUME running' = low, Queued(tcb[high]) PROVE FALSE
      OBVIOUS
    <3>1. Prio[high] <= Prio[low]
      BY <1>2 DEF Pass
    <3> QED
      BY <3>1, BmacAssumption
  <2> QED
    BY <1>2, <2>1 DEF Pass
<1>3. ASSUME NEW t \in Task, WakeUp(t)
      PROVE  StopsAt(high, low, stops)'
  BY <1>3, WakeUpKeeps
<1>4. CASE Tick \/ RxEnd \/ UNCHANGED bmacVars
  BY <1>4 DEF Tick, RxEnd, bmacVars
<1> QED
  BY <1>1, <1>2, <1>3, <1>4, MacActs, RxActs, SwitchActs, TxActs DEF BmacNext

\* The receiving task gives up the processor in bmac_wait_until_rx_pkt only ...
LEMMA RxStops ==
  ASSUME ProcessorOK, RunsQueued, [BmacNext]_bmacVars, Acts(Rx)
  PROVE  Queued(tcb'[Rx]) \/ pc'[Rx] = "get"
<1> USE Names DEF ProcessorOK
<1>0. running = Rx /\ Queued(tcb[Rx]) /\ (running' = Rx => Queued(tcb'[Rx]))
  BY DEF Acts, RunsQueued
<1>1. CASE RxStep
  BY <1>0, <1>1 DEF RxStep, RxTest, RxWait, RxGet, RxRelease, Goes, Notes, Blocks
<1>2. CASE ~RxStep
  <2>1. ASSUME NEW u \in Task, u # Rx, Acts(u)
        PROVE  FALSE
    BY <1>0, <2>1 DEF Acts
  <2>2. UNCHANGED tcb \/ \E t \in Task : WakeUp(t)
    BY <1>2, <2>1, MacActs, SwitchActs, TxActs DEF BmacNext, Pass, Tick, RxEnd, bmacVars
  <2> QED
    BY <1>0, <2>2, WakeUpKeeps
<1> QED
  BY <1>1, <1>2

\* ... and a sender at the end of a call, or of bmac_tx_pkt's wait.
LEMMA TxStops ==
  ASSUME NEW t \in TxTask, TxTask = {t}, ProcessorOK, RunsQueued, [BmacNext]_bmacVars, Acts(t)
  PROVE  Queued(tcb'[t]) \/ pc'[t] \in {"user", "return"}
<1> USE Names DEF ProcessorOK
<1>0. running = t /\ Queued(tcb[t]) /\ (running' = t => Queued(tcb'[t]))
  BY DEF Acts, RunsQueued
<1>1. CASE TxStep(t)
  BY <1>0, <1>1 DEF TxStep, TxTest, TxConsume, TxTake, TxArm, TxFill, TxWait, TxReturn,
     TxNonblocking, TxFillNonblocking, TxReserveSet, TxReserveGet, SetCca, Goes, Notes,
     Blocks
<1>2. CASE ~TxStep(t)
  <2>1. ASSUME NEW u \in Task, u # t, Acts(u)
        PROVE  FALSE
    BY <1>0, <2>1 DEF Acts
  <2>2. UNCHANGED tcb \/ \E u \in Task : WakeUp(u)
    BY <1>2, <2>1, MacActs, SwitchActs, RxActs DEF BmacNext, Pass, Tick, RxEnd, bmacVars
  <2> QED
    BY <1>0, <2>2, WakeUpKeeps
<1> QED
  BY <1>1, <1>2

-----------------------------------------------------------------------------

\* Who has the receive buffer, whatever the priorities: the application holds a
\* packet only between bmac_rx_pkt_get and bmac_rx_pkt_release, and the buffer is
\* then full; it is empty while the MAC task receives into it.
HolderInv ==
  /\ held # NoPacket => pc[Rx] = "release" /\ ~rx_buf_empty
  /\ pc[Mac] \in {"read", "stored"} => rx_buf_empty

\* What the receiving task has seen, when it is above the MAC task: whatever the buffer
\* held before it was empty.  It may be woken with an empty buffer, by the signal for
\* a packet it has already taken or by none; it then finds nothing and gives the
\* buffer back, and the MAC task does not run in between.
SeenOK ==
  /\ rx_buf_empty /\ pc[Mac] # "stored" => ~unread
  /\ pc[Rx] = "release" /\ ~rx_buf_empty => ~unread

ReaderInv == StopsAt(Rx, Mac, {"get"}) /\ SeenOK

BufferInv == HolderInv /\ (Prio[Rx] > Prio[Mac] => ReaderInv)

\* BufferInv holds at the start.
LEMMA BufferInit == BmacInit => BufferInv /\ RunsQueued
BY Names DEF BmacInit, BufferInv, HolderInv, ReaderInv, SeenOK, StopsAt, RunsQueued, Runnable,
   Queued

\* The steps of the MAC task keep HolderInv, and SeenOK while the receiver waits.
LEMMA BufferMac ==
  ASSUME ProcessorOK, HolderInv, MacStep
  PROVE  HolderInv' /\ (SeenOK /\ pc[Rx] = "get" => SeenOK')
<1> USE Names
    DEF HolderInv, SeenOK, ProcessorOK, Goes, Notes, Blocks, rxVars
<1>1. CASE MacTop
  BY <1>1 DEF MacTop
<1>2. CASE MacOff
  BY <1>2 DEF MacOff
<1>3. CASE \E busy \in BOOLEAN : Listen(busy)
  BY <1>3 DEF Listen
<1>4. CASE ReadFrame
  BY <1>4 DEF ReadFrame
<1>5. CASE ReadNothing
  BY <1>5 DEF ReadNothing
<1>6. CASE Stored
  BY <1>6 DEF Stored
<1>7. CASE Announce
  BY <1>7 DEF Announce
<1>8. CASE SendOrSleep
  BY <1>8 DEF SendOrSleep
<1>9. CASE ChannelBusy
  BY <1>9 DEF ChannelBusy
<1>10. CASE ChannelClear
  BY <1>10 DEF ChannelClear
<1>11. CASE Transmit
  BY <1>11 DEF Transmit
<1>12. CASE Sent
  BY <1>12 DEF Sent
<1>13. CASE Done
  BY <1>13 DEF Done
<1>14. CASE Sleep
  BY <1>14 DEF Sleep
<1> QED
  BY <1>1, <1>2, <1>3, <1>4, <1>5, <1>6, <1>7, <1>8, <1>9, <1>10, <1>11, <1>12, <1>13,
     <1>14 DEF MacStep

\* So do the steps of the receiving task.
LEMMA BufferRx ==
  ASSUME ProcessorOK, HolderInv, RxStep
  PROVE  HolderInv' /\ (SeenOK => SeenOK')
<1> USE Names
    DEF HolderInv, SeenOK, ProcessorOK, Goes, Notes, Blocks, rxVars
<1>1. CASE RxTest
  BY <1>1 DEF RxTest
<1>2. CASE RxWait
  BY <1>2 DEF RxWait
<1>3. CASE RxGet
  BY <1>3 DEF RxGet
<1>4. CASE RxRelease
  BY <1>4 DEF RxRelease
<1> QED
  BY <1>1, <1>2, <1>3, <1>4 DEF RxStep

\* Nobody else touches the buffer.
LEMMA BufferOthers ==
  ASSUME ProcessorOK, [BmacNext]_bmacVars, ~MacStep, ~RxStep
  PROVE  UNCHANGED rxVars /\ pc'[Rx] = pc[Rx] /\ pc'[Mac] = pc[Mac]
<1> USE Names DEF ProcessorOK
<1>1. ASSUME NEW u \in Task, u \notin {Rx, Mac}, Acts(u)
      PROVE  pc'[Rx] = pc[Rx] /\ pc'[Mac] = pc[Mac]
  BY <1>1 DEF Acts
<1>2. CASE SwitchStep
  BY <1>1, <1>2, SwitchActs DEF SwitchStep, Disable, Enable, Leave
<1>3. ASSUME NEW t \in TxTask, TxStep(t)
      PROVE  UNCHANGED rxVars /\ pc'[Rx] = pc[Rx] /\ pc'[Mac] = pc[Mac]
  BY <1>1, <1>3, TxActs DEF TxStep, TxTest, TxConsume, TxTake, TxArm, TxFill, TxWait,
     TxReturn, TxNonblocking, TxFillNonblocking, TxReserveSet, TxReserveGet, SetCca
<1>4. CASE Pass \/ Tick \/ RxEnd \/ (\E t \in Task : WakeUp(t)) \/ UNCHANGED bmacVars
  BY <1>4 DEF Pass, Tick, RxEnd, WakeUp, bmacVars
<1> QED
  BY <1>2, <1>3, <1>4 DEF BmacNext

\* Every step keeps BufferInv.
LEMMA BufferNext ==
  ASSUME ProcessorOK, RunsQueued, BufferInv, [BmacNext]_bmacVars
  PROVE  BufferInv'
<1>1. HolderInv /\ HolderInv'
  BY BufferMac, BufferRx, BufferOthers DEF BufferInv, HolderInv, rxVars
<1>2. ASSUME Prio[Rx] > Prio[Mac]
      PROVE  ReaderInv'
  <2>1. StopsAt(Rx, Mac, {"get"}) /\ SeenOK
    BY <1>2 DEF BufferInv, ReaderInv
  <2>2. StopsAt(Rx, Mac, {"get"})'
    BY <1>2, <2>1, Names, RxStops, StopsNext
  <2>3. ASSUME MacStep PROVE SeenOK'
    <3>1. pc[Rx] = "get"
      BY <2>1, <2>3, MacActs DEF StopsAt, Acts
    <3> QED
      BY <1>1, <2>1, <2>3, <3>1, BufferMac
  <2>4. ASSUME RxStep PROVE SeenOK'
    BY <1>1, <2>1, <2>4, BufferRx
  <2>5. ASSUME ~MacStep, ~RxStep PROVE SeenOK'
    BY <2>1, <2>5, BufferOthers DEF SeenOK, rxVars
  <2> QED
    BY <2>2, <2>3, <2>4, <2>5 DEF ReaderInv
<1> QED
  BY <1>1, <1>2 DEF BufferInv

\* No packet overwrites one that the application holds, whatever the priorities; and
\* none is dropped between the radio and bmac_rx_pkt_get when the receiving task is
\* above the MAC task, for any number of senders at any priority.
THEOREM BufferHandedOver == BmacSpec => HandOver
<1>1. BufferInv /\ [BmacNext]_bmacVars
        => [pc[Mac] = "read" /\ pc'[Mac] = "stored" =>
              held = NoPacket /\ (Prio[Rx] > Prio[Mac] => ~unread)]_bmacVars
  BY DEF BufferInv, HolderInv, ReaderInv, SeenOK
<1>2. BmacTypeOK => ProcessorOK
  BY TypeParts
<1> QED
  BY <1>1, <1>2, InitTypes, NextTypes, BufferInit, RunsNext, BufferNext, PTL DEF BmacSpec,
     HandOver

-----------------------------------------------------------------------------

\* Whose the packet to send is, for the only sender t.  Outside the two writes of
\* the sender and between rf_tx_packet and the reset of tx_data_ready, the flag
\* says that a packet is still to be transmitted.
PacketInv(t) ==
  /\ ~tx_data_ready => ~owed
  /\ pc[Mac] \in {"cca", "transmit"} => tx_data_ready /\ owed
  /\ pc[Mac] = "sent" => tx_data_ready /\ ~owed
  /\ pc[t] \in {"take", "arm", "nb_arm"} => ~tx_data_ready
  /\ pc[t] \in {"fill", "nb_fill"} => tx_data_ready /\ ~owed /\ pc[Mac] # "sent"
  /\ tx_data_ready /\ pc[t] \notin {"fill", "nb_fill"} /\ pc[Mac] # "sent" => owed

\* Where a sender gives up the processor, and the MAC task runs.
Stops == {"user", "return"}

\* It holds at the start.
LEMMA PacketInit ==
  ASSUME NEW t \in TxTask
  PROVE  BmacInit => PacketInv(t) /\ StopsAt(t, Mac, Stops) /\ RunsQueued
BY Names DEF BmacInit, PacketInv, StopsAt, Stops, RunsQueued, Runnable, Queued

\* The steps of the MAC task keep PacketInv when the sender is outside its writes.
LEMMA PacketMac ==
  ASSUME NEW t \in TxTask, ProcessorOK, PacketInv(t), MacStep, pc[t] \in Stops
  PROVE  PacketInv(t)'
<1> USE Names
    DEF PacketInv, ProcessorOK, Goes, Notes, Blocks, txVars, Stops
<1>1. CASE MacTop
  BY <1>1 DEF MacTop
<1>2. CASE MacOff
  BY <1>2 DEF MacOff
<1>3. CASE \E busy \in BOOLEAN : Listen(busy)
  BY <1>3 DEF Listen
<1>4. CASE ReadFrame
  BY <1>4 DEF ReadFrame
<1>5. CASE ReadNothing
  BY <1>5 DEF ReadNothing
<1>6. CASE Stored
  BY <1>6 DEF Stored
<1>7. CASE Announce
  BY <1>7 DEF Announce
<1>8. CASE SendOrSleep
  BY <1>8 DEF SendOrSleep
<1>9. CASE ChannelBusy
  BY <1>9 DEF ChannelBusy
<1>10. CASE ChannelClear
  BY <1>10 DEF ChannelClear
<1>11. CASE Transmit
  BY <1>11 DEF Transmit
<1>12. CASE Sent
  BY <1>12 DEF Sent
<1>13. CASE Done
  BY <1>13 DEF Done
<1>14. CASE Sleep
  BY <1>14 DEF Sleep
<1> QED
  BY <1>1, <1>2, <1>3, <1>4, <1>5, <1>6, <1>7, <1>8, <1>9, <1>10, <1>11, <1>12, <1>13,
     <1>14 DEF MacStep

\* The steps of the sender keep PacketInv.
LEMMA PacketTx ==
  ASSUME NEW t \in TxTask, ProcessorOK, PacketInv(t), TxStep(t)
  PROVE  PacketInv(t)'
<1> USE Names
    DEF PacketInv, ProcessorOK, Goes, Notes, Blocks, txVars, Stops
<1>1. CASE TxTest(t)
  BY <1>1 DEF TxTest
<1>2. CASE TxConsume(t)
  BY <1>2 DEF TxConsume
<1>3. CASE TxTake(t)
  BY <1>3 DEF TxTake
<1>4. CASE TxArm(t)
  BY <1>4 DEF TxArm
<1>5. CASE TxFill(t)
  BY <1>5 DEF TxFill
<1>6. CASE TxWait(t)
  BY <1>6 DEF TxWait
<1>7. CASE TxReturn(t)
  BY <1>7 DEF TxReturn
<1>8. CASE TxNonblocking(t)
  BY <1>8 DEF TxNonblocking
<1>9. CASE TxFillNonblocking(t)
  BY <1>9 DEF TxFillNonblocking
<1>10. CASE TxReserveSet(t)
  BY <1>10 DEF TxReserveSet
<1>11. CASE TxReserveGet(t)
  BY <1>11 DEF TxReserveGet
<1>12. CASE SetCca(t)
  BY <1>12 DEF SetCca
<1> QED
  BY <1>1, <1>2, <1>3, <1>4, <1>5, <1>6, <1>7, <1>8, <1>9, <1>10, <1>11, <1>12 DEF TxStep

\* Nobody else touches the packet.
LEMMA PacketOthers ==
  ASSUME NEW t, TxTask = {t}, ProcessorOK, [BmacNext]_bmacVars, ~MacStep, ~TxStep(t)
  PROVE  UNCHANGED txVars /\ pc'[t] = pc[t] /\ pc'[Mac] = pc[Mac]
<1> USE Names DEF ProcessorOK
<1>1. ASSUME NEW u \in Task, u \notin {t, Mac}, Acts(u)
      PROVE  pc'[t] = pc[t] /\ pc'[Mac] = pc[Mac]
  BY <1>1 DEF Acts
<1>2. CASE SwitchStep
  BY <1>1, <1>2, SwitchActs DEF SwitchStep, Disable, Enable, Leave
<1>3. CASE RxStep
  BY <1>1, <1>3, RxActs DEF RxStep, RxTest, RxWait, RxGet, RxRelease
<1>4. CASE Pass \/ Tick \/ RxEnd \/ (\E u \in Task : WakeUp(u)) \/ UNCHANGED bmacVars
  BY <1>4 DEF Pass, Tick, RxEnd, WakeUp, bmacVars
<1> QED
  BY <1>2, <1>3, <1>4 DEF BmacNext

\* The MAC task gets the processor only when the sender above it is parked.
LEMMA PacketNext ==
  ASSUME NEW t, TxTask = {t}, Prio[t] > Prio[Mac], ProcessorOK, RunsQueued,
         PacketInv(t), StopsAt(t, Mac, Stops), [BmacNext]_bmacVars
  PROVE  PacketInv(t)' /\ StopsAt(t, Mac, Stops)'
<1>0. t \in TxTask
  OBVIOUS
<1>1. StopsAt(t, Mac, Stops)'
  BY <1>0, Names, TxStops, StopsNext DEF Stops
<1>2. ASSUME MacStep PROVE PacketInv(t)'
  <2>1. pc[t] \in Stops
    BY <1>2, MacActs DEF StopsAt, Acts
  <2> QED
    BY <1>0, <1>2, <2>1, PacketMac
<1>3. ASSUME TxStep(t) PROVE PacketInv(t)'
  BY <1>0, <1>3, PacketTx
<1>4. ASSUME ~MacStep, ~TxStep(t) PROVE PacketInv(t)'
  BY <1>4, PacketOthers DEF PacketInv, txVars
<1> QED
  BY <1>1, <1>2, <1>3, <1>4

\* With a single sender, above the MAC task, a packet handed over is transmitted
\* before the next one takes its place, and nothing else is transmitted: by
\* either call, with and without a reserve or clear channel assessment, and
\* whatever priorities the others have.
THEOREM EachPacketSentOnce ==
  ASSUME NEW tx, TxTask = {tx}, Prio[tx] > Prio[Mac]
  PROVE  BmacSpec => EachPacketOnce
<1> DEFINE Inv == PacketInv(tx) /\ StopsAt(tx, Mac, Stops) /\ RunsQueued
<1>1. Inv /\ [BmacNext]_bmacVars
        => [/\ \A t \in TxTask : pc[t] \in {"fill", "nb_fill"} /\ pc'[t] # pc[t] => ~owed
            /\ pc[Mac] = "transmit" /\ pc'[Mac] = "sent" => owed]_bmacVars
  BY DEF PacketInv
<1>2. BmacTypeOK => ProcessorOK
  BY TypeParts
<1>3. BmacInit => Inv
  BY PacketInit
<1>4. ProcessorOK /\ Inv /\ [BmacNext]_bmacVars => Inv'
  BY PacketNext, RunsNext
<1> HIDE DEF Inv
<1> QED
  BY <1>1, <1>2, <1>3, <1>4, InitTypes, NextTypes, PTL DEF BmacSpec, EachPacketOnce

-----------------------------------------------------------------------------

\* What the reserve r knows of the accesses granted to the only sender t: those
\* since it was last replenished are the latest cur_access of them, each of the
\* others is at least as old as that replenishment, and all but set_access of the
\* others are older than the one before.
Accounts(r, t) ==
  /\ r.period_ticks = ReservePeriod /\ r.set_access = ReserveCount
  /\ r.left <= ReservePeriod
  /\ r.cur_access <= ReserveCount
  /\ pc[t] = "take" => r.cur_access < ReserveCount
  /\ \A k \in Grant :
       /\ k > r.cur_access => grants[k] + r.left >= ReservePeriod
       /\ k > r.cur_access + ReserveCount => grants[k] = ReservePeriod

\* Before bmac_tx_reserve_set nothing has been granted.
GrantsInv(t) ==
  /\ tx_reserve = NoReserve =>
       pc[t] # "take" /\ \A k \in Grant : grants[k] = ReservePeriod
  /\ tx_reserve # NoReserve => Accounts(nrk_reserve[tx_reserve], t)

\* An update changes nothing before the period is over, and then starts the next.
LEMMA UpdateAccounts ==
  ASSUME AllowanceOK, NEW t \in TxTask, tx_reserve # NoReserve,
         GrantsInv(t), pc[t] # "take",
         UpdateReserve(tx_reserve), UNCHANGED <<grants, tx_reserve>>,
         pc'[t] = "take" => ~Exhausted(tx_reserve)
  PROVE  GrantsInv(t)'
<1> DEFINE r == nrk_reserve[tx_reserve]
<1>1. /\ tx_reserve \in ReserveId /\ r \in RsvRecord
      /\ nrk_reserve \in [ReserveId -> RsvRecord]
      /\ grants \in [Grant -> 0..ReservePeriod]
      /\ ReservePeriod \in Nat /\ ReserveCount \in Nat /\ Grant \subseteq Nat \ {0}
  BY BmacAssumption DEF AllowanceOK, ReserveTypeOK, RsvRecord, Grant
<1>2. Accounts(r, t)
  BY DEF GrantsInv
<1>3. nrk_reserve'[tx_reserve'] = Updated(r)
  BY <1>1 DEF UpdateReserve
<1>4. pc'[t] = "take" => Updated(r).cur_access < Updated(r).set_access
  <2>1. Updated(r) \in RsvRecord
    BY <1>1, Replenished
  <2> QED
    BY <1>1, <2>1 DEF Exhausted, RsvRecord
<1>5. CASE r.left = 0
  <2>1. /\ Updated(r).left = ReservePeriod /\ Updated(r).cur_access = 0
        /\ Updated(r).period_ticks = ReservePeriod /\ Updated(r).set_access = ReserveCount
    BY <1>1, <1>2, <1>5 DEF Updated, RsvRecord, Accounts
  <2>2. \A k \in Grant : k > ReserveCount => grants[k] = ReservePeriod
    BY <1>1, <1>2, <1>5 DEF Accounts, RsvRecord
  <2> DEFINE r2 == Updated(r)
  <2> HIDE DEF r, r2
  <2>3. \A k \in Grant : grants[k] + ReservePeriod >= ReservePeriod
    BY <1>1
  <2>4. \A k \in Grant :
          /\ k > r2.cur_access => grants'[k] + r2.left >= ReservePeriod
          /\ k > r2.cur_access + ReserveCount => grants'[k] = ReservePeriod
    <3>1. UNCHANGED grants /\ r2.left = ReservePeriod /\ r2.cur_access = 0
      BY <2>1 DEF r2
    <3>2. \A k \in Grant : k > 0 + ReserveCount => k > ReserveCount
      BY <1>1
    <3> QED
      BY <2>2, <2>3, <3>1, <3>2
  <2>5. /\ r2.period_ticks = ReservePeriod /\ r2.set_access = ReserveCount
        /\ r2.left <= ReservePeriod /\ r2.cur_access <= ReserveCount
        /\ (pc'[t] = "take" => r2.cur_access < ReserveCount)
    BY <1>1, <1>4, <2>1 DEF r2
  <2>6. (nrk_reserve[tx_reserve])' = r2
    BY <1>3 DEF r2, r
  <2> QED
    BY <2>4, <2>5, <2>6 DEF GrantsInv, Accounts
<1>6. CASE r.left # 0
  BY <1>2, <1>3, <1>4, <1>6 DEF Updated, GrantsInv, Accounts
<1> QED
  BY <1>5, <1>6

\* What the only sender does keeps the account: an access taken is one of those
\* since the replenishment, and none is taken that was not left.
LEMMA GrantsTx ==
  ASSUME ProcessorOK, AllowanceOK, NEW t \in TxTask, GrantsInv(t), TxStep(t)
  PROVE  GrantsInv(t)'
<1> USE Names
<1>0. /\ nrk_reserve \in [ReserveId -> RsvRecord]
      /\ grants \in [Grant -> 0..ReservePeriod]
      /\ ReservePeriod \in Nat /\ ReserveCount \in Nat /\ Grant \subseteq Nat \ {0}
  BY BmacAssumption DEF AllowanceOK, ReserveTypeOK, RsvRecord, Grant
<1>1. CASE TxConsume(t)
  <2>1. /\ tx_reserve # NoReserve /\ pc[t] = "user" /\ UpdateReserve(tx_reserve)
        /\ UNCHANGED <<grants, tx_reserve>>
    BY <1>1 DEF TxConsume, Goes, Blocks
  <2>2. pc'[t] = "take" => ~Exhausted(tx_reserve)
    BY <1>1 DEF TxConsume, Goes, Blocks, ProcessorOK
  <2> QED
    BY <2>1, <2>2, UpdateAccounts
<1>2. CASE TxReserveGet(t)
  <2>1. /\ tx_reserve # NoReserve /\ pc[t] = "user" /\ UpdateReserve(tx_reserve)
        /\ UNCHANGED <<grants, tx_reserve>> /\ pc'[t] # "take"
    BY <1>2 DEF TxReserveGet, Goes, Blocks, ProcessorOK
  <2> QED
    BY <2>1, UpdateAccounts
<1>3. CASE TxTake(t)
  <2> DEFINE r == nrk_reserve[tx_reserve]
             r2 == [r EXCEPT !.cur_access = @ + 1]
  <2>1. pc[t] = "take" /\ pc'[t] = "arm" /\ tx_reserve' = tx_reserve
    BY <1>3 DEF TxTake, Goes, ProcessorOK
  <2>2. tx_reserve \in ReserveId /\ r \in RsvRecord /\ Accounts(r, t) /\ tx_reserve # NoReserve
    BY <1>0, <2>1 DEF GrantsInv, AllowanceOK
  <2>3. nrk_reserve'[tx_reserve] = r2
    BY <1>0, <1>3, <2>2 DEF TxTake, TakeAccess
  <2>4. /\ r2.period_ticks = r.period_ticks /\ r2.set_access = r.set_access
        /\ r2.left = r.left /\ r2.cur_access = r.cur_access + 1
        /\ r.left \in Nat /\ r.cur_access \in Nat
    BY <2>2 DEF RsvRecord
  <2>5. grants' = [k \in Grant |-> IF k = 1 THEN 0 ELSE grants[k - 1]]
    BY <1>3 DEF TxTake, Granted
  <2> HIDE DEF r, r2
  <2>6. ASSUME NEW k \in Grant, k > r.cur_access + 1
        PROVE  /\ k - 1 \in Grant /\ k - 1 > r.cur_access /\ grants'[k] = grants[k - 1]
               /\ k > r.cur_access + 1 + ReserveCount => k - 1 > r.cur_access + ReserveCount
    <3>1. k \in Nat /\ k <= 2 * ReserveCount + 1 /\ r.cur_access \in Nat
      BY <1>0, <2>4 DEF Grant
    <3>2. k - 1 \in Grant /\ k # 1
      BY <1>0, <2>6, <3>1 DEF Grant
    <3>3. grants'[k] = grants[k - 1]
      BY <2>5, <3>2
    <3> QED
      BY <1>0, <2>6, <3>1, <3>2, <3>3
  <2>7. \A k \in Grant :
          /\ k > r2.cur_access => grants'[k] + r2.left >= ReservePeriod
          /\ k > r2.cur_access + ReserveCount => grants'[k] = ReservePeriod
    BY <1>0, <2>2, <2>4, <2>6 DEF Accounts
  <2>8. (nrk_reserve[tx_reserve])' = r2
    BY <2>1, <2>3
  <2>9. r2.cur_access <= ReserveCount
    BY <1>0, <2>1, <2>2, <2>4 DEF Accounts
  <2> QED
    BY <2>1, <2>2, <2>4, <2>7, <2>8, <2>9 DEF GrantsInv, Accounts
<1>4. CASE TxReserveSet(t)
  <2>1. PICK i \in ReserveId : tx_reserve' = i /\ CreateAndSet(i, ReservePeriod, ReserveCount)
    BY <1>4 DEF TxReserveSet
  <2>2. /\ tx_reserve = NoReserve /\ pc'[t] # "take" /\ grants' = grants
        /\ i # NoReserve
    BY <1>4, <2>1 DEF TxReserveSet, Blocks, Goes, ProcessorOK, ReserveId, NoReserve
  <2>3. nrk_reserve'[i] = [active |-> TRUE, period_ticks |-> ReservePeriod,
                           left |-> ReservePeriod, set_access |-> ReserveCount,
                           cur_access |-> 0]
    BY <1>0, <2>1 DEF CreateAndSet
  <2>4. \A k \in Grant : grants[k] = ReservePeriod
    BY <2>2 DEF GrantsInv
  <2> QED
    BY <1>0, <2>1, <2>2, <2>3, <2>4 DEF GrantsInv, Accounts
<1>5. CASE \/ TxTest(t) \/ TxArm(t) \/ TxFill(t) \/ TxWait(t) \/ TxReturn(t)
           \/ TxNonblocking(t) \/ TxFillNonblocking(t) \/ SetCca(t)
  <2>1. UNCHANGED rsvVars /\ pc'[t] # "take"
    BY <1>5 DEF TxTest, TxArm, TxFill, TxWait, TxReturn, TxNonblocking,
       TxFillNonblocking, SetCca, Goes, Notes, Blocks, ProcessorOK
  <2> QED
    BY <2>1 DEF rsvVars, GrantsInv, Accounts
<1> QED
  BY <1>1, <1>2, <1>3, <1>4, <1>5 DEF TxStep

\* A tick makes every access older and brings the replenishment nearer.
LEMMA GrantsTick ==
  ASSUME AllowanceOK, NEW t \in TxTask, GrantsInv(t), Tick
  PROVE  GrantsInv(t)'
<1>0. /\ nrk_reserve \in [ReserveId -> RsvRecord]
      /\ grants \in [Grant -> 0..ReservePeriod]
      /\ ReservePeriod \in Nat /\ ReserveCount \in Nat /\ Grant \subseteq Nat \ {0}
  BY BmacAssumption DEF AllowanceOK, ReserveTypeOK, RsvRecord, Grant
<1>1. UNCHANGED <<pc, tx_reserve>>
  BY DEF Tick
<1>2. \A k \in Grant : /\ grants[k] \in 0..ReservePeriod
                       /\ grants'[k] = IF grants[k] = ReservePeriod THEN ReservePeriod
                                       ELSE grants[k] + 1
  BY <1>0 DEF Tick
<1>3. CASE tx_reserve = NoReserve
  BY <1>1, <1>2, <1>3 DEF GrantsInv
<1>4. CASE tx_reserve # NoReserve
  <2> DEFINE r == nrk_reserve[tx_reserve]
             r2 == [r EXCEPT !.left = IF @ = 0 THEN 0 ELSE @ - 1]
  <2>1. tx_reserve \in ReserveId /\ r \in RsvRecord /\ Accounts(r, t)
    BY <1>0, <1>4 DEF GrantsInv, AllowanceOK
  <2>2. nrk_reserve'[tx_reserve] = r2
    BY <2>1 DEF Tick, AgeReserves
  <2>3. /\ r2.period_ticks = r.period_ticks /\ r2.set_access = r.set_access
        /\ r2.cur_access = r.cur_access
        /\ r2.left = IF r.left = 0 THEN 0 ELSE r.left - 1
        /\ r.left \in Nat /\ r.cur_access \in Nat
    BY <2>1 DEF RsvRecord
  <2> HIDE DEF r, r2
  <2>4. \A k \in Grant :
          /\ k > r2.cur_access => grants'[k] + r2.left >= ReservePeriod
          /\ k > r2.cur_access + ReserveCount => grants'[k] = ReservePeriod
    BY <1>0, <1>2, <2>1, <2>3 DEF Accounts
  <2>5. (nrk_reserve[tx_reserve])' = r2
    BY <1>1, <2>2
  <2>6. r2.left <= ReservePeriod
    BY <1>0, <2>1, <2>3 DEF Accounts
  <2> QED
    BY <1>1, <1>4, <2>1, <2>3, <2>4, <2>5, <2>6 DEF GrantsInv, Accounts
<1> QED
  BY <1>3, <1>4

\* Nobody else touches the reserve.
LEMMA GrantsNext ==
  ASSUME NEW t, TxTask = {t}, ProcessorOK, AllowanceOK, GrantsInv(t),
         [BmacNext]_bmacVars
  PROVE  GrantsInv(t)'
<1> USE Names
<1>1. CASE UNCHANGED rsvVars /\ pc'[t] = pc[t]
  BY <1>1 DEF rsvVars, GrantsInv, Accounts
<1>2. CASE MacStep
  <2>1. UNCHANGED rsvVars
    BY <1>2 DEF MacStep, MacTop, MacOff, Listen, ReadFrame, ReadNothing, Stored,
       Announce, SendOrSleep, ChannelBusy, ChannelClear, Transmit, Sent, Done, Sleep
  <2>2. pc'[t] = pc[t]
    BY <1>2, MacActs DEF Acts, ProcessorOK
  <2> QED
    BY <1>1, <2>1, <2>2
<1>3. CASE RxStep \/ SwitchStep
  <2>1. UNCHANGED rsvVars
    BY <1>3 DEF RxStep, RxTest, RxWait, RxGet, RxRelease, SwitchStep, Disable, Enable,
       Leave
  <2>2. pc'[t] = pc[t]
    BY <1>3, RxActs, SwitchActs DEF Acts, ProcessorOK
  <2> QED
    BY <1>1, <2>1, <2>2
<1>4. CASE Pass \/ RxEnd \/ (\E u \in Task : WakeUp(u)) \/ UNCHANGED bmacVars
  <2>1. UNCHANGED rsvVars /\ pc' = pc
    BY <1>4 DEF Pass, RxEnd, WakeUp, bmacVars
  <2> QED
    BY <1>1, <2>1
<1> QED
  BY <1>2, <1>3, <1>4, GrantsTick, GrantsTx DEF BmacNext

\* With a single sender that uses it, the transmit reserve lets no more than twice
\* its count through in any period: whatever the count and the period, however the
\* use and the lazy replenishment of the reserve interleave with the MAC task, and
\* whatever the priorities.
THEOREM ReserveIsBounded ==
  ASSUME NEW tx, TxTask = {tx}
  PROVE  BmacSpec => []ReserveBound
<1>1. BmacInit => GrantsInv(tx)
  BY Names, BmacAssumption DEF BmacInit, GrantsInv, NoReserve, Mac, Rx
<1>2. BmacTypeOK => ProcessorOK /\ AllowanceOK
  BY TypeParts
<1>3. ProcessorOK /\ AllowanceOK /\ GrantsInv(tx) /\ [BmacNext]_bmacVars => GrantsInv(tx)'
  BY GrantsNext
<1>4. ASSUME AllowanceOK, GrantsInv(tx)
      PROVE  ReserveBound
  <2>1. 2 * ReserveCount + 1 \in Grant /\ ReserveCount \in Nat
    BY BmacAssumption DEF Grant
  <2>2. CASE tx_reserve = NoReserve
    BY <1>4, <2>1, <2>2 DEF GrantsInv, ReserveBound
  <2>3. CASE tx_reserve # NoReserve
    <3>1. nrk_reserve[tx_reserve] \in RsvRecord
      BY <1>4, <2>3 DEF AllowanceOK, ReserveTypeOK, RsvRecord
    <3>2. nrk_reserve[tx_reserve].cur_access \in Nat
      BY <3>1 DEF RsvRecord
    <3> QED
      BY <1>4, <2>1, <2>3, <3>2 DEF GrantsInv, Accounts, ReserveBound
  <2> QED
    BY <2>2, <2>3
<1>5. AllowanceOK /\ GrantsInv(tx) => ReserveBound
  BY <1>4
<1> QED
  BY <1>1, <1>2, <1>3, <1>5, InitTypes, NextTypes, PTL DEF BmacSpec

=============================================================================
