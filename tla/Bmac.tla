-------------------------------- MODULE Bmac --------------------------------
(***************************************************************************)
(* B-MAC, net/bmac/rf231_soc/bmac.c, between the radio and the tasks of an *)
(* application (projects/networking/basic_bmac).  There is one receive     *)
(* buffer, which belongs to the MAC task while rx_buf_empty is 1 and to    *)
(* the application otherwise, and one packet to send, which belongs to the *)
(* MAC task while tx_data_ready is 1.  Nothing else protects them.         *)
(*                                                                         *)
(* A step ends where a task of higher priority can take the processor.     *)
(* The priorities decide who can interrupt whom: with the MAC task on top, *)
(* as its BMAC_TASK_PRIORITY of 20 puts it in the example, it runs between *)
(* any two lines of the application.                                       *)
(***************************************************************************)
EXTENDS NrkReserve, EventWait, Functions

CONSTANTS
  TxTask,                       \* tasks that send
  Prio,                         \* task priorities
  QueueSlots,                   \* nodes of the ready queue
  Packet, NoPacket,             \* what the radio receives; none
  ReservePeriod, ReserveCount   \* of the transmit reserve

Mac == "bmac_task"
Rx == "rx_task"
Switch == "switch_task"         \* switches the MAC off and on
Idle == "idle"
Task == TxTask \cup {Mac, Rx, Switch}
Scheduler == "scheduler"        \* runs between a wait and the task after it
NoReserve == -1
Signals == {"rx", "tx_done", "enable"}

ASSUME BmacAssumption ==
  /\ {Mac, Rx, Switch, Idle, Scheduler} \cap TxTask = {}
  /\ Prio \in [Task -> Nat] /\ QueueSlots \in Nat
  /\ NoPacket \notin Packet
  /\ ReservePeriod \in Nat \ {0} /\ ReserveCount \in Nat

VARIABLES
  running,                      \* what the processor executes
  pc, tcb,                      \* control point of a task; see EventWait
  is_enabled, cca_active,
  rx_buf_empty, rx_buf,         \* rx_buf is what pPayload points to
  rx_ready, frame, receiving,   \* the radio: frame ready, its payload, receiver on
  tx_data_ready, tx_payload,    \* bmac_rfTxInfo.pPayload: whose buffer
  tx_reserve

\* History: the packet the application holds, whether the last one received was
\* never looked at, whether a packet handed over is still to be transmitted, and
\* how many ticks ago each of the last accesses was granted, the latest first; an
\* age of ReservePeriod stands for any greater one and for none at all.
VARIABLES held, unread, owed, grants

rfVars  == <<rx_ready, frame, receiving>>
rxVars  == <<rx_buf_empty, rx_buf, held, unread>>
txVars  == <<tx_data_ready, tx_payload, owed>>
rsvVars == <<tx_reserve, nrk_reserve, grants>>
setVars == <<is_enabled, cca_active>>
bmacVars == <<running, pc, tcb, rfVars, rxVars, txVars, rsvVars, setVars>>

MacPC == {"top", "off", "listen", "read", "stored", "announce", "send", "cca",
          "transmit", "sent", "done", "sleep"}
RxPC == {"test", "register", "get", "release"}
SwitchPC == {"disable", "enable"}
TxPC == {"user", "take", "arm", "fill", "wait", "return", "nb_arm", "nb_fill"}

\* One access more than two periods may have.
Grant == 1..2 * ReserveCount + 1

\* The tasks, the radio, the two buffers and the reserve stay within their types.
BmacTypeOK ==
  /\ running \in Task \cup {Idle, Scheduler}
  /\ pc \in [Task -> MacPC \cup RxPC \cup SwitchPC \cup TxPC \cup {"marked"}]
  /\ tcb \in [Task -> [task_state : TaskState, event : Signals \cup {NoEvent},
                       nodes : Nat]]
  /\ {is_enabled, cca_active, rx_buf_empty, rx_ready, receiving, tx_data_ready,
      unread, owed} \subseteq BOOLEAN
  /\ {rx_buf, frame, held} \subseteq Packet \cup {NoPacket}
  /\ tx_payload \in TxTask \cup {Idle}
  /\ tx_reserve \in ReserveId \cup {NoReserve} /\ ReserveTypeOK
  /\ grants \in [Grant -> 0..ReservePeriod]

\* After bmac_init and the first bmac_rx_pkt_set_buffer.
BmacInit ==
  /\ running = Scheduler
  /\ pc = [t \in Task |-> CASE t = Mac -> "top" [] t = Rx -> "test"
                             [] t = Switch -> "disable" [] OTHER -> "user"]
  /\ tcb = [t \in Task |-> Runnable]
  /\ is_enabled = TRUE /\ cca_active = TRUE
  /\ rx_buf_empty = TRUE /\ rx_buf = NoPacket
  /\ rx_ready = FALSE /\ frame = NoPacket /\ receiving = FALSE
  /\ tx_data_ready = FALSE /\ tx_payload = Idle
  /\ tx_reserve = NoReserve /\ ReserveInit
  /\ held = NoPacket /\ unread = FALSE /\ owed = FALSE
  /\ grants = [k \in Grant |-> ReservePeriod]

-----------------------------------------------------------------------------

\* A pass gives the processor to a queued task of the highest priority; among
\* equals the one that has it keeps it.
Pass ==
  LET queued == {t \in Task : Queued(tcb[t])}
      best == {t \in queued : \A u \in queued : Prio[u] <= Prio[t]} IN
  /\ \/ running \in best /\ running' = running
     \/ running \notin best /\ running' \in best
     \/ best = {} /\ running' = Idle
  /\ UNCHANGED <<pc, tcb, rfVars, rxVars, txVars, rsvVars, setVars>>

\* The free list has a node.
Room == FoldFunction(+, 0, [t \in Task |-> tcb[t].nodes]) + 1 < QueueSlots

\* A pass finds that a timed wait is over.
WakeUp(t) ==
  /\ tcb[t].task_state = "SUSPENDED"
  /\ tcb' = [tcb EXCEPT ![t] = Woken(@, Room)]
  /\ running' = Scheduler
  /\ UNCHANGED <<pc, rfVars, rxVars, txVars, rsvVars, setVars>>

\* Task t executes at control point p and goes on at q.
Goes(t, p, q) ==
  /\ running = t /\ pc[t] = p
  /\ pc' = [pc EXCEPT ![t] = q]
  /\ UNCHANGED running

\* The same, noting that it will wait for s: other tasks can still run before it does.
Notes(t, p, s) ==
  Goes(t, p, "marked") /\ tcb' = [tcb EXCEPT ![t] = Noted(@, s)]

\* A wait, for what was noted or for time.  It goes on when it is dispatched again,
\* at once if it has another node.
Blocks(t, p, q) ==
  /\ running = t /\ pc[t] = p
  /\ pc' = [pc EXCEPT ![t] = q]
  /\ tcb' = [tcb EXCEPT ![t] = Parked(@)]
  /\ running' = Scheduler

\* nrk_event_signal.  Whom it makes due is woken by the next pass, before which no
\* other task runs.
Signal(s) ==
  tcb' = [t \in Task |-> IF tcb[t].event = s THEN Woken(Signalled(tcb[t], s), Room)
                                              ELSE tcb[t]]

-----------------------------------------------------------------------------

\* The top of bmac_nw_task's loop.  A disabled MAC waits for bmac_enable_signal.
MacTop ==
  /\ \/ is_enabled /\ Goes(Mac, "top", "listen")
     \/ ~is_enabled /\ Goes(Mac, "top", "off")
  /\ UNCHANGED <<tcb, rfVars, rxVars, txVars, rsvVars, setVars>>

MacOff ==
  /\ Notes(Mac, "off", "enable") \/ Blocks(Mac, "marked", "top")
  /\ UNCHANGED <<rfVars, rxVars, txVars, rsvVars, setVars>>

\* With an empty buffer, _bmac_channel_check, and on a busy channel the wait of
\* _bmac_rx with the receiver on; with a full one, the signal again.
Listen(busy) ==
  /\ IF rx_buf_empty /\ busy
     THEN Blocks(Mac, "listen", "read") /\ receiving' = TRUE
     ELSE /\ Goes(Mac, "listen", "send")
          /\ IF rx_buf_empty THEN UNCHANGED tcb ELSE Signal("rx")
          /\ UNCHANGED receiving
  /\ UNCHANGED <<rx_ready, frame, rxVars, txVars, rsvVars, setVars>>

\* TRX24_RX_END: a frame is complete.  Until it has been read the frame buffer
\* is protected and takes no other.
RxEnd ==
  \E p \in Packet :
    /\ receiving /\ ~rx_ready
    /\ rx_ready' = TRUE /\ frame' = p
    /\ UNCHANGED <<running, pc, tcb, receiving, rxVars, txVars, rsvVars, setVars>>

\* rf_rx_off
ReceiverOff == receiving' = FALSE /\ rx_ready' = FALSE /\ UNCHANGED frame

\* rf_rx_packet_nonblock copies the frame to the buffer ...
ReadFrame ==
  /\ rx_ready /\ Goes(Mac, "read", "stored")
  /\ rx_buf' = frame /\ unread' = TRUE
  /\ rx_ready' = FALSE
  /\ UNCHANGED <<tcb, frame, receiving, rx_buf_empty, held, txVars, rsvVars,
                 setVars>>

\* ... or there is none, or one that is too long.
ReadNothing ==
  /\ Goes(Mac, "read", "send") /\ ReceiverOff
  /\ UNCHANGED <<tcb, rxVars, txVars, rsvVars, setVars>>

\* Fault: the buffer is not marked full.
StoredUnmarked ==
  /\ Goes(Mac, "stored", "announce") /\ ReceiverOff
  /\ UNCHANGED <<tcb, rxVars, txVars, rsvVars, setVars>>

Stored ==
  /\ Goes(Mac, "stored", "announce")
  /\ rx_buf_empty' = FALSE /\ ReceiverOff
  /\ UNCHANGED <<tcb, rx_buf, held, unread, txVars, rsvVars, setVars>>

Announce ==
  /\ Goes(Mac, "announce", "send") /\ Signal("rx")
  /\ UNCHANGED <<rfVars, rxVars, txVars, rsvVars, setVars>>

\* _bmac_tx, when there is something to send: a random wait, the channel, and
\* again while it is busy; or at once without clear channel assessment.
SendOrSleep ==
  /\ \/ ~tx_data_ready /\ Goes(Mac, "send", "sleep") /\ UNCHANGED tcb
     \/ tx_data_ready /\ cca_active /\ Blocks(Mac, "send", "cca")
     \/ tx_data_ready /\ ~cca_active /\ Goes(Mac, "send", "transmit") /\ UNCHANGED tcb
  /\ UNCHANGED <<rfVars, rxVars, txVars, rsvVars, setVars>>

ChannelBusy ==
  /\ Blocks(Mac, "cca", "cca")
  /\ UNCHANGED <<rfVars, rxVars, txVars, rsvVars, setVars>>

ChannelClear ==
  /\ Goes(Mac, "cca", "transmit")
  /\ UNCHANGED <<tcb, rfVars, rxVars, txVars, rsvVars, setVars>>

\* rf_tx_packet and its repetitions.
Transmit ==
  /\ Goes(Mac, "transmit", "sent")
  /\ owed' = FALSE
  /\ UNCHANGED <<tcb, rfVars, rxVars, tx_data_ready, tx_payload, rsvVars, setVars>>

Sent ==
  /\ Goes(Mac, "sent", "done")
  /\ tx_data_ready' = FALSE
  /\ UNCHANGED <<tcb, rfVars, rxVars, tx_payload, owed, rsvVars, setVars>>

\* Fault: the sender is not told.
DoneSilent ==
  /\ Goes(Mac, "done", "sleep")
  /\ UNCHANGED <<tcb, rfVars, rxVars, txVars, rsvVars, setVars>>

Done ==
  /\ Goes(Mac, "done", "sleep") /\ Signal("tx_done")
  /\ UNCHANGED <<rfVars, rxVars, txVars, rsvVars, setVars>>

\* rf_power_down and the wait for the next check.
Sleep ==
  /\ Blocks(Mac, "sleep", "top") /\ ReceiverOff
  /\ UNCHANGED <<rxVars, txVars, rsvVars, setVars>>

MacStep ==
  \/ MacTop \/ MacOff \/ \E busy \in BOOLEAN : Listen(busy)
  \/ ReadFrame \/ ReadNothing \/ Stored \/ Announce
  \/ SendOrSleep \/ ChannelBusy \/ ChannelClear \/ Transmit \/ Sent \/ Done \/ Sleep

-----------------------------------------------------------------------------

\* bmac_wait_until_rx_pkt: a look at the buffer, then the wait for the signal.
RxTest ==
  /\ \/ ~rx_buf_empty /\ Goes(Rx, "test", "get")
     \/ rx_buf_empty /\ Goes(Rx, "test", "register")
  /\ UNCHANGED <<tcb, rfVars, rxVars, txVars, rsvVars, setVars>>

\* Fault: it waits for the signal of the sender.
RxWaitOther ==
  /\ Notes(Rx, "register", "tx_done") \/ Blocks(Rx, "marked", "get")
  /\ UNCHANGED <<rfVars, rxVars, txVars, rsvVars, setVars>>

RxWait ==
  /\ Notes(Rx, "register", "rx") \/ Blocks(Rx, "marked", "get")
  /\ UNCHANGED <<rfVars, rxVars, txVars, rsvVars, setVars>>

\* bmac_rx_pkt_get: the packet, or NULL when there is none.
RxGet ==
  /\ Goes(Rx, "get", "release")
  /\ IF rx_buf_empty THEN UNCHANGED <<held, unread>>
                     ELSE held' = rx_buf /\ unread' = FALSE
  /\ UNCHANGED <<tcb, rfVars, rx_buf_empty, rx_buf, txVars, rsvVars, setVars>>

\* bmac_rx_pkt_release
RxRelease ==
  /\ Goes(Rx, "release", "test")
  /\ rx_buf_empty' = TRUE /\ held' = NoPacket
  /\ UNCHANGED <<tcb, rfVars, rx_buf, unread, txVars, rsvVars, setVars>>

RxStep == RxTest \/ RxWait \/ RxGet \/ RxRelease

-----------------------------------------------------------------------------

\* bmac_disable takes the power from the receiver wherever the MAC task is.
Disable ==
  /\ Blocks(Switch, "disable", "enable")
  /\ is_enabled' = FALSE /\ receiving' = FALSE
  /\ UNCHANGED <<rx_ready, frame, rxVars, txVars, rsvVars, cca_active>>

\* Fault: the MAC task is not told.
EnableSilent ==
  /\ Goes(Switch, "enable", "disable")
  /\ is_enabled' = TRUE
  /\ UNCHANGED <<tcb, rfVars, rxVars, txVars, rsvVars, cca_active>>

\* bmac_enable
Enable ==
  /\ Goes(Switch, "enable", "disable") /\ Signal("enable")
  /\ is_enabled' = TRUE
  /\ UNCHANGED <<rfVars, rxVars, txVars, rsvVars, cca_active>>

\* The task that switches need not do so.
Leave ==
  /\ Blocks(Switch, "disable", "disable")
  /\ UNCHANGED <<rfVars, rxVars, txVars, rsvVars, setVars>>

SwitchStep == Disable \/ Enable \/ Leave

-----------------------------------------------------------------------------

\* bmac_tx_pkt.  With tx_data_ready set it returns NRK_ERROR and changes
\* nothing; without a reserve it goes straight to the buffer.
TxTest(t) ==
  /\ ~tx_data_ready /\ tx_reserve = NoReserve /\ Goes(t, "user", "arm")
  /\ UNCHANGED <<tcb, rfVars, rxVars, txVars, rsvVars, setVars>>

Granted == grants' = [k \in Grant |-> IF k = 1 THEN 0 ELSE grants[k - 1]]

\* Fault: the access is granted but not counted.
TxTakeFree(t) ==
  /\ Goes(t, "take", "arm")
  /\ Granted
  /\ UNCHANGED <<tcb, rfVars, rxVars, txVars, tx_reserve, nrk_reserve, setVars>>

\* With a reserve, nrk_reserve_consume: updated with interrupts off, tested with
\* interrupts on.  An exhausted reserve refuses the packet.
TxConsume(t) ==
  /\ ~tx_data_ready /\ tx_reserve # NoReserve
  /\ \/ Exhausted(tx_reserve) /\ Blocks(t, "user", "user")
     \/ ~Exhausted(tx_reserve) /\ Goes(t, "user", "take") /\ UNCHANGED tcb
  /\ UpdateReserve(tx_reserve)
  /\ UNCHANGED <<rfVars, rxVars, txVars, tx_reserve, grants, setVars>>

TxTake(t) ==
  /\ Goes(t, "take", "arm")
  /\ TakeAccess(tx_reserve)
  /\ Granted
  /\ UNCHANGED <<tcb, rfVars, rxVars, txVars, tx_reserve, setVars>>

\* tx_data_ready is set first, and then the packet.
TxArm(t) ==
  /\ \/ Goes(t, "arm", "fill") \/ Goes(t, "nb_arm", "nb_fill")
  /\ tx_data_ready' = TRUE
  /\ UNCHANGED <<tcb, rfVars, rxVars, tx_payload, owed, rsvVars, setVars>>

TxFill(t) ==
  /\ Goes(t, "fill", "wait")
  /\ tx_payload' = t /\ owed' = TRUE
  /\ UNCHANGED <<tcb, rfVars, rxVars, tx_data_ready, rsvVars, setVars>>

TxWait(t) ==
  /\ Notes(t, "wait", "tx_done") \/ Blocks(t, "marked", "return")
  /\ UNCHANGED <<rfVars, rxVars, txVars, rsvVars, setVars>>

\* Back from bmac_tx_pkt, or refused by it, or with something else to do, the
\* task waits for its next period.
TxReturn(t) ==
  /\ Blocks(t, "return", "user") \/ Blocks(t, "user", "user")
  /\ UNCHANGED <<rfVars, rxVars, txVars, rsvVars, setVars>>

\* Fault: the packet before need not have been sent.
TxNonblockingAlways(t) ==
  /\ Goes(t, "user", "nb_arm")
  /\ UNCHANGED <<tcb, rfVars, rxVars, txVars, rsvVars, setVars>>

\* bmac_tx_pkt_nonblocking
TxNonblocking(t) ==
  /\ ~tx_data_ready /\ Goes(t, "user", "nb_arm")
  /\ UNCHANGED <<tcb, rfVars, rxVars, txVars, rsvVars, setVars>>

TxFillNonblocking(t) ==
  /\ Blocks(t, "nb_fill", "user")
  /\ tx_payload' = t /\ owed' = TRUE
  /\ UNCHANGED <<rfVars, rxVars, tx_data_ready, rsvVars, setVars>>

\* bmac_tx_reserve_set, called once.
TxReserveSet(t) ==
  /\ tx_reserve = NoReserve /\ Blocks(t, "user", "user")
  /\ \E i \in ReserveId :
       FreeReserve(i) /\ tx_reserve' = i /\ CreateAndSet(i, ReservePeriod, ReserveCount)
  /\ UNCHANGED <<rfVars, rxVars, txVars, grants, setVars>>

\* bmac_tx_reserve_get, which updates the reserve too.
TxReserveGet(t) ==
  /\ tx_reserve # NoReserve /\ Blocks(t, "user", "user")
  /\ UpdateReserve(tx_reserve)
  /\ UNCHANGED <<rfVars, rxVars, txVars, tx_reserve, grants, setVars>>

\* bmac_set_cca_active
SetCca(t) ==
  /\ Blocks(t, "user", "user") /\ cca_active' = ~cca_active
  /\ UNCHANGED <<rfVars, rxVars, txVars, rsvVars, is_enabled>>

TxStep(t) ==
  \/ TxTest(t) \/ TxConsume(t) \/ TxTake(t) \/ TxArm(t) \/ TxFill(t) \/ TxWait(t)
  \/ TxReturn(t) \/ TxNonblocking(t) \/ TxFillNonblocking(t)
  \/ TxReserveSet(t) \/ TxReserveGet(t) \/ SetCca(t)

-----------------------------------------------------------------------------

\* A tick of the clock.
Tick ==
  /\ AgeReserves
  /\ grants' = [k \in Grant |-> IF grants[k] = ReservePeriod THEN grants[k] ELSE grants[k] + 1]
  /\ UNCHANGED <<running, pc, tcb, rfVars, rxVars, txVars, tx_reserve, setVars>>

BmacNext ==
  \/ Pass \/ Tick \/ RxEnd \/ MacStep \/ RxStep \/ SwitchStep
  \/ \E t \in Task : WakeUp(t)
  \/ \E t \in TxTask : TxStep(t)

BmacSpec == BmacInit /\ [][BmacNext]_bmacVars

\* Passes come, timed waits end, the channel is found clear at last, and the
\* processor is not overloaded: again and again every task has finished its
\* work and the idle task runs.
BmacFairness ==
  /\ WF_bmacVars(Pass) /\ \A t \in Task : WF_bmacVars(WakeUp(t))
  /\ SF_bmacVars(ChannelClear)
  /\ []<>(running = Idle)

BmacFairSpec == BmacSpec /\ BmacFairness

-----------------------------------------------------------------------------

\* The buffer is written only when the application does not hold the packet in
\* it, so that no packet changes under its reader; and when the receiver outranks
\* the MAC task, only when it has seen the packet before: none is dropped between
\* reception and bmac_rx_pkt_get.
HandOver ==
  [][pc[Mac] = "read" /\ pc'[Mac] = "stored" =>
       held = NoPacket /\ (Prio[Rx] > Prio[Mac] => ~unread)]_bmacVars

\* A packet handed over is not replaced by another before it has been
\* transmitted, and nothing is transmitted that was not handed over.
EachPacketOnce ==
  [][/\ \A t \in TxTask : pc[t] \in {"fill", "nb_fill"} /\ pc'[t] # pc[t] => ~owed
     /\ pc[Mac] = "transmit" /\ pc'[Mac] = "sent" => owed]_bmacVars

\* In any ReservePeriod ticks at most twice ReserveCount packets are let
\* through: the reserve is replenished late, never early.
ReserveBound == grants[2 * ReserveCount + 1] = ReservePeriod

\* A packet in the buffer reaches the application, as long as the MAC stays enabled.
ReceivedIsTaken == unread ~> ~unread \/ ~is_enabled

\* bmac_tx_pkt returns.
SenderReturns ==
  \A t \in TxTask : pc[t] = "return" ~> pc[t] # "return" \/ ~is_enabled

\* A MAC task that was disabled runs again once it has been enabled for good.
EnabledMacRuns == is_enabled ~> pc[Mac] = "listen" \/ ~is_enabled

=============================================================================
