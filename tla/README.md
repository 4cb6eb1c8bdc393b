# Nano-RK in TLA+

TLA+ models of the Nano-RK real-time kernel in this repository (the CMU 18-748 team 13 tree: the
kernel, its network libraries and the team's flooding TDMA application), TLC configurations that
check them on small task sets and networks, and proofs that TLAPS checks for every task set.

Paths below are those of the repository: the kernel is in `src/kernel`, the network libraries in
`src/net`, the applications in `projects`. The processor is the ATmega128RFA1 of the FireFly 3 node
(`src/kernel/hal/atmega128rfa1`).

## 1. The system

Nano-RK is a preemptive fixed-priority kernel for one 8-bit processor. There is no tick interrupt
every tick: timer 2 counts OS ticks (about 1 ms) up to a compare register, and the compare-match
interrupt runs `_nrk_scheduler`, one *pass*. A pass charges the time since the last one to the
clock, to the reserve of the task that ran and to the waiting time of every task, moves the tasks
whose time has come to the ready queue, takes the head of the queue, and sets the compare register
to the moment something can change next.

| component | state | operations | interacts through |
|---|---|---|---|
| scheduler (`nrk_scheduler.c`) | the TCBs, `_nrk_prev_timer_val`, `nrk_cur_task_TCB` | one pass | reads and clears what the waits left in the TCB; calls the ready queue; writes the timer |
| ready queue (`nrk_task.c:60-222`) | nodes `_nrk_readyQ`, `_head_node`, `_free_node` | `nrk_add_to_readyQ`, `nrk_rem_from_readyQ` | called by the pass, by activation and by `nrk_terminate_task` |
| task calls (`nrk_task.c`) | `suspend_flag`, `next_wakeup`, `num_periods`, `nw_flag` | seven waits, `nrk_set_next_wakeup`, `nrk_terminate_task`, `nrk_activate_task` | bring the next pass forward by writing OCR2A and `_nrk_prev_timer_val` |
| signals and semaphores (`nrk_events.c`) | `_nrk_signal_list`, masks, `event_suspend`, `nrk_sem_list` | create, delete, register, unregister, `nrk_event_signal`, `nrk_event_wait`, `nrk_sem_pend`, `nrk_sem_post` | change other tasks' TCBs; `nrk_event_signal` is also called from interrupt handlers |
| OS tick timer (`hal/.../nrk_timer.c`) | TCNT2, OCR2A, OCF2A | read, set the compare register, reset | raises the scheduler interrupt |
| idle task (`nrk_idle_task.c`) | `_nrk_cpu_state` | light sleep or power-down | the latency of power-down enters the pass's choice of the next wakeup |
| initialisation (`nrk.c`) | | `nrk_init`, `nrk_start` | |
| access reserves (`nrk_reserve.c`) | `_nrk_reserve`: `period_ticks`, `set_time`, `set_access`, `cur_access` | create, delete, set, get, consume | called by tasks and by `bmac_tx_pkt`; replenished when used |
| software watchdogs (`nrk_sw_wdt.c`) | `sw_wdts` | init, start, stop, update, check | checked in every pass |
| time arithmetic (`nrk_time.c`) | `nrk_system_time` | add, sub, conversions to ticks | used by the waits |
| B-MAC (`net/bmac/rf231_soc`) | one receive buffer (`rx_buf_empty`), one packet to send (`tx_data_ready`), `is_enabled`, `cca_active`, the transmit reserve | the MAC task; `bmac_tx_pkt`, `bmac_tx_pkt_nonblocking`, `bmac_wait_until_rx_pkt`, `bmac_rx_pkt_get`, `bmac_rx_pkt_release`, enable, disable | three signals between the MAC task and the tasks of the application; the radio's end-of-frame interrupt |
| SLIP (`net/slip`, `platform/firefly3_usb/source/ulib.c`) | ring `uart_rx_buf`, the position in a frame | `slip_tx`, `slip_rx`, `getc0`, the receive interrupt | the interrupt signals the task that reads |
| flooding (`net/flash`) | receive buffer, `flash_pkt_received`, `auto_re_tx`, millisecond timer | `flash_enable`, `flash_tx_pkt`, `flash_set_retransmit`, radio callbacks | interrupt handlers set what `flash_enable` polls; the user's callback edits the packet before it is sent on |
| pulse synchronisation (`net/pulse_sync`) | ring of sample points, sums, skew | add a point, flood, convert times | runs on flash |
| flooding TDMA (`projects/demos/748_flooding_tdma`) | the node's `time_slots`, the root's `shortest_paths`, `time_synchronized` | sync, startup phases 1 and 2, main loop, callbacks | runs on flash; root and nodes share only the air and a synchronised clock |
| network stack, other protocols, drivers, display | see section 8 | | |

What is hard here is that the parts write each other's state at moments nobody ordered. A task's
wait, a signal from another task, a signal from an interrupt handler and a pass may fall in any
order around the few instructions of a call; the counter goes on while the kernel computes the next
compare value from it; time is charged by what the compare register said and not by what went by.
Above the kernel it is much the same: B-MAC and SLIP test a flag and then wait for a signal that
leaves nothing behind when nobody waits, and the nodes of the TDMA network change phase by their own
clock while a flood is still on its way. `PROJECT.json` lists the hazards, each with its line and
with the properties that watch it, or why none does; section 9 names further ones.

For each part, what makes it correct:

* ready queue: the idle task is the last node, every READY task has one node, no node is lost, the
  two directions of the links agree, the order is that of the priorities;
* scheduler: the READY task of highest priority runs; a suspended task wakes up; time is charged
  once; the period does not drift; the reserve is a bound; the compare value is ahead of the counter;
* signals: a signal that ends a wait makes the task due at once; the wait returns one signal; nothing
  is left pending for the next one; a delete deletes one signal;
* semaphores: at most `count` holders; the ceiling protects the holder; no waiter is left on a free
  semaphore;
* access reserves: between two replenishments no more accesses than were granted;
* B-MAC: the receive buffer is written only when the application is done with it; a packet handed over
  is transmitted once; nobody waits for a signal that has gone by;
* SLIP: frames come out as they went in, and after a lost byte the receiver finds the next one;
* flooding TDMA: what the root has learnt of a slot is a route; the relays on it listen in that slot
  and nobody else; what a node sends arrives in its slot; the startup ends.

## 2. Modules

| module | models |
|---|---|
| `ReadyQueue` | the queue as a sequence: where the walk of `nrk_add_to_readyQ` stops, what the two calls return |
| `ReadyQueueSpec` | a queue that only those two operators change: the abstract specification |
| `ReadyList` | the nodes, links and free list of `_nrk_readyQ`; implements `ReadyQueueSpec` (`ImplementsQueue`) |
| `NrkTCB` | constants (a task set, the timer's settings, the programs), variables, types |
| `NrkScheduler` | the tick, and the pass in three kinds of step: `SchedBegin`, `SchedScan` once per TCB, `SchedDispatch` |
| `NrkTask` | boot, the waits, `nrk_set_next_wakeup`, `nrk_terminate_task`, the idle task |
| `NrkEvents` | signals and semaphores |
| `NrkKernel` | composes them: `Init`, `Next`, `Spec`, fairness, and the properties |
| `NrkMutex` | the kernel with programs that pend and post in turn; who holds what |
| `NrkAccounting` | the kernel beside the ticks that really went by, the use of each reserve and the phase of each period |
| `NrkReserve` | access reserves; used by `Bmac` |
| `EventWait` | what a wait, a signal and a pass do to one task and to its nodes in the ready queue; used by `Bmac` and `Uart`, and by `NrkKernel`, which checks that its tasks are treated so (`WaitsLikeEventWait`) |
| `Bmac` | the MAC task, its radio, a receiving task, sending tasks and one that switches the MAC off and on, under priorities |
| `Uart` | the ring of the serial receive interrupt, `getc0`, and the task that reads; used by `Slip` |
| `Slip` | `slip_tx` and `slip_rx` at the two ends of a line; implements `FrameChannel` (`ImplementsChannel`) |
| `FrameChannel` | what the two promise together: the abstract specification |
| `Flash` | flooding and the radio under it, on every node of a network; used by `Tdma` |
| `Tdma` | root and nodes of the flooding TDMA application |
| `TaskSets` | the small applications of the runs: periods, offsets, reserves, calls |
| `MCKernel`, `MCMutex`, `MCAccounting`, `MCReadyList`, `MCBmac`, `MCSlip`, `MCTdma` | give the constants values for TLC |
| `ReadyQueueProofs`, `ReadyListProofs`, `NrkKernelProofs`, `NrkAccountingProofs`, `NrkQueueProofs`, `BmacProofs`, `SlipProofs`, `TdmaProofs` | the theorems |

`NrkMutex` and `NrkAccounting` add history variables to the kernel and leave its actions as they
are; so do the last variables of `Bmac` and `Slip`. The protocol modules stand beside the kernel
modules and not on them: composing the two would multiply their state spaces. What they need of the
kernel is what becomes of a task that waits for a signal, and `EventWait` says it in four operators:
the task notes the event (`Noted`), the pass parks it (`Parked`), a signal finds it by the event it
has noted, parked or not (`Signalled`), and a pass makes it READY and adds a node (`Woken`). A
signal between the first two therefore does to a task of `Bmac` and `Slip` what it does in run
`SignalRace`: the task waits for time instead of the signal, gets a second node, and a later wait
returns at once. That this is all there is to it is a property of the kernel modules,
`WaitsLikeEventWait`, checked in run `Mixed`, where signals come from a task and from handlers at
every point: every step of the kernel does to the state, the event and the nodes of each task one of
these four things or nothing, the pass exactly `Parked` and `Woken`. `Bmac` has the kernel's
priorities besides, and neither has its timer.

### State

Variables have the names of the C variables and TCB fields (`task_state`, `suspend_flag`,
`event_suspend`, `nw_flag`, `active_signal_mask`, `next_wakeup`, ...), as functions on `Task`, the
task IDs with 0 for the idle task. A signal mask is the set of its bits. The pointers of the queue
are abstracted to the sequence `readyQ`, which the theorem `ListIsQueue` justifies. `pc[t]` is the control
point of task t inside a call, `op` and `arg` its call and argument, `loaded` the register of
`value--`. `mode` tells what the processor executes: boot, a task, or the scan or the dispatch of a
pass.

### Atomicity

A step ends wherever another actor can get in between:

* a pass runs with interrupts off; it is cut per TCB for readability, and only the counter moves
  meanwhile (`Tick` in mode "dispatch", just before the counter is read);
* a wait sets its flags with interrupts off (`BeginWait`), reads the timer and writes the compare
  register (`ArmWait`), and enables interrupts; ticks may fall between those two, so the compare
  match may come while it cannot be served;
* `nrk_event_wait` and `nrk_sem_pend` note what they wait for and begin the wait in two steps
  ("marked"), in the protocol modules as in the kernel: everything else may run in between;
* `value--` after the wait of `nrk_sem_pend` is a load and a store, and `nrk_sem_post` tests before
  it disables interrupts: two steps each;
* `nrk_terminate_task` takes the task out of the queue, marks it FINISHED and waits: three steps;
* an interrupt handler may raise a signal whenever interrupts are on.

In the protocol modules:

* `Bmac`: a step ends at every line where a task of higher priority can take the processor and
  change something: between the test of a flag and the wait, between the two halves of the wait,
  between `tx_data_ready = 1` and the payload, between the frame in the buffer and `rx_buf_empty =
  0`, between the test and the count of `nrk_reserve_consume`;
* `Slip`: one step per byte on the line, per byte read, per look at the ring, two per wait and one
  for the pass that ends it: the receive interrupt may come between any two, whether the ring has
  room or not;
* `Tdma`: a callback, a transmission and a decision at the top of a loop are one step each; within a
  tick the nodes act in any order, and a flooded frame takes up to `HopTime` ticks per hop. A frame the
  sender has not read may be overwritten by what it sends, as in the shared frame buffer of the radio.

The removal from the linked list inside `nrk_terminate_task`, which the code does with interrupts on,
is one step: half a list is not represented.

### Time

A tick increments the counter; at the compare value it returns to 0 and sets the compare flag (CTC
mode). While the flag is set and interrupts are on, the pass is the next thing that happens, except
that a processor in power-down first spends up to `SleepWakeup - 1` ticks waking up. In a section
with interrupts off at most `SectionTicks` ticks elapse. Counter and compare register wrap at
`TimerWrap`, the width of the 8-bit register in the code.

`Bmac` has ticks for the reserve only: its timed waits end at any moment. `Slip` has no time. In `Tdma`
a tick is a fraction of a slot and all nodes see the same slot: synchronised clocks are assumed, not
shown. A tick happens when no node has anything left to do at this moment (`Settled`).

## 3. Runs

| run | asks | result |
|---|---|---|
| `Timed` | two tasks making every timed wait, `nrk_set_next_wakeup` and `nrk_terminate_task`, one with a reserve: `TypeOK`, `IdleIsLast`, `CompareAhead`, `ReadyIsQueuedOnce`, `HighestReadyRuns`, `SuspendedWakesUp` | hold |
| `Events` | a task waits for a signal, with a timeout and without, or for a semaphore, which a task below it raises and posts: `SignalledIsDue`, `NothingPending`, `WaitReturnsOneSignal`, `NoStrandedWaiter`, `ValueInRange`, `PostedReturns` | hold |
| `Mixed` | signals from a task and from interrupt handlers at every point of the call, signals created and deleted meanwhile: `IdleIsLast`, `CompareAhead`, `SignalledReturns`, `WaitsLikeEventWait` | hold |
| `Accounting` | no tick inside an interrupt-free section, a task that never gives up the processor: `NoTickLost`, `BudgetHeld`, `PeriodKept`, `ReadyTaskRuns` | hold |
| `ReadyList` | the linked list implements the sequence: `ImplementsQueue`, `NoNodeLost`, `LinksAgree` | hold |
| `Bmac` | the MAC task below a sender and a receiver and above the task that switches it off and on, with a transmit reserve: `BmacTypeOK`, `ReserveBound`, `HandOver`, `EachPacketOnce`, `ReceivedIsTaken`, `SenderReturns`, `EnabledMacRuns` | hold |
| `Slip` | frames made of the marks of the protocol over a line that loses a byte, into a ring that may be overrun, with waits that may return without a byte: `SlipTypeOK`, `LossIsBounded`, `ImplementsChannel`, `FramesKeepComing` | hold |
| `Tdma` | root and two nodes from power-on into the main loop, with timeouts and a root that comes late: `TdmaTypeOK`, `PathIsRoute`, `ListenersAreRelays`, `NoSlotError`, `DataArrives`, `StartupEnds` | hold |
| `SignalRace` | the signal comes from a task above the waiter, as in `projects/examples/signals`: `NothingPending` | violated |
| `MutexExclusion` | `MutualExclusion` of a semaphore with count 1 | violated |
| `BmacSend` | every task of the application below the MAC task, as in `projects/networking/basic_bmac`: `SenderReturns` | violated |
| `TdmaRelays` | `RelaysListen`: the relays of a route listen in its slot | violated |

The violations are findings about the code; each is described with its lines in `PROJECT.json`.

* **SignalRace.** `nrk_event_wait` notes the event and only then begins its wait. A signal in between
  resets `event_suspend`, so the pass takes the wait for a plain one and parks the task until its
  next period; the signal is late but not lost (`SignalledReturns` holds). It also marks a task
  SUSPENDED that is in the ready queue, and the wakeup adds a second node, which no wait removes: in
  a later `nrk_event_wait` the task is still queued, runs, and returns with no signal. `nrk_sem_pend`
  has the same gap, and there the value becomes negative.
* **MutexExclusion.** A task that a post woke decrements the value without testing it.
* **BmacSend.** `bmac_tx_pkt` sets `tx_data_ready` six lines before it waits for the signal that the
  packet has been sent. A MAC task of higher priority sends and signals in between; the sender waits
  for ever. With the sender above the MAC task, run `Bmac`, the same property holds.
* **TdmaRelays.** A leaf leaves phase 2 when its `flash_enable` returns, which may be after the first
  message of the root's main loop has come. That message has a 1 where phase 2 expects the number of a
  slot: the leaf sets its table entry for slot 1 to OFF, and if it is a relay of slot 1 the data of
  node 1 never reaches the root.

### Bounds

The runs use `MaxWakeup = 7`, `StartCompare = 8`, `TimerWrap = 11`, `SleepWakeup = 3`, `TimePad = 2`
in place of 250, 254, 256, 3 and 2. The order of these constants is the one the code depends on and
is stated in `TimerAssumption`; the values are small enough that every counter value is reached, and
large enough that each branch of `IdleWakeup`, `TaskWakeup` and `NextPass` is taken. Periods are
between 4 and 7 ticks, so passes come early, on time and late. Both builds are covered: `PowerDown`
is FALSE in `Events`, `Mixed` and `MutexExclusion`, as with NRK_NO_POWER_DOWN, which the flooding
TDMA application defines, and TRUE elsewhere. `Events` has two kinds of blocking call and a smaller
timer to pay for them (`MaxWakeup = 5`, `StartCompare = 6`, `TimerWrap = 8`, `SleepWakeup = 2`).
`SectionTicks` is 1, or 0 in `Accounting`, where `NoTickLost` fails otherwise (section 4). Two tasks
suffice for the waits: the third participant is the idle task. `ReadyList` has every queue of three
tasks and the idle task, with every set of semaphore holders, on a pool small enough to be
exhausted. No state constraint is used: time wraps with the counter, and waiting times are bounded
by the periods and arguments.

`Bmac` has one sender, one receiver and one packet value, which is enough to tell a packet that is
read from one that is not; its reserve grants one access in two ticks, so that exhaustion and
replenishment meet every step of a transmission. The queue has a node for each of the five tasks,
the idle one among them, and one more (`QueueSlots = 6`, NRK_MAX_TASKS + 1 of the code). In run
`Bmac` (`UsersAbove`) the sender and the receiver, who wait for the MAC task, are above it, and the
task that enables it is below, so that no signal can come between a test and its wait: the
properties are those the protocol has when the priorities close its gaps. Run `BmacSend`
(`MacAbove`) has the priorities of `projects/networking/basic_bmac`, where they are open; section 4
says what is lost there. `Slip` has a ring of 4 bytes, so that it wraps many times within a frame
(the code's has 16), and the frames `<<193>>` (a START) and `<<192, 219>>` (an END and an ESC),
which are stuffed, fill the receiver's buffer (`max_len = 2`) and have different lengths, so that a
lost byte may turn either into the beginning of the other. The line loses a byte of its own anywhere
(`LineLost = 1`). The ring is overrun whenever a byte comes into a full one, which costs its four
bytes. `lost` counts both. Below `TooMany = 6` the channel still promises what `FrameChannel` says,
so that the byte of the line followed by one overrun is within the promise; a read past the end of
the ring counts as `TooMany`, since the whole ring then looks full of bytes nobody sent. `MaxLost =
7` ends the model: after a read past the end it still goes on, after a second overrun, or a second
such read, it stops. The reading task can get two nodes (`QueueSlots = 2`), which is where a signal
in the gap of its wait leads. `MaxSent = 9` bounds the history of frames under way; while less than
`TooMany` bytes are lost `LossIsBounded` says that there are at most 7. `Tdma` has three nodes in a
chain, where node 2 relays for node 1, and in a triangle, where routes of both lengths compete; a
packet has room for two relays (`PKT_LEN = 4`), a slot four ticks, a hop at most one, the root's
printing at most two. A flood that begins in time just fits into its slot; one that begins late,
behind the root's printing or a listening that ran over from the slot before, may not. What the
properties say of such slots (`late`) was also checked, outside the runs, with slots of three ticks,
which every relayed flood outlasts, and on a chain of four nodes.

Task sets are chosen rather than enumerated. What the properties say about others follows from the
theorems where there is one (section 5).

### Fairness

`Fairness` asks for weak fairness of the tick, of the steps of the pass, of `nrk_start` and of the
idle task: a timer that counts and a processor that goes on executing. Steps of a task inside a
kernel call are strongly fair: a pass may interrupt a call over and over, but a tick is some
thousand instructions long and a step a few of them, so a call that can be continued again and again
is continued. Nothing is assumed of the applications: a task may compute for ever and never make a
call, an interrupt handler may never raise its signal.

`SuspendedWakesUp` depends on it for the tick and the pass; `ReadyTaskRuns` also on the reserve of
the task above, since that task computes for ever if it likes; `SignalledReturns` and
`PostedReturns` on the high priority of the waiter.

`BmacFairness`: passes come and timed waits end (weak fairness of `Pass` and `WakeUp`); a channel
that is checked again and again is found clear at last (strong fairness of `ChannelClear`), without
which the MAC task is right to wait for ever; and `[]<>(running = Idle)`: the processor is not
overloaded, every task gets its work done. The last replaces the fairness of each step of each task,
which a task of low priority under a fixed-priority scheduler does not have. `SlipFairness`: the
receiver executes, passes come, the line carries what is put on it, the sender goes on sending (weak
fairness of `SlipRx`, `Pass`, `PutByte`, `Sender`, until the bound ends the model); it does not say
that bytes are not lost. `TdmaFairSpec`: the nodes do what is due (weak fairness of each node's
steps, a processor that runs) and the clock goes on (strong fairness of `Tick`, which is disabled
whenever a node still has something to do at this moment).

## 4. What the properties do not say

* `ReadyIsQueuedOnce` fails in `Mixed`: a signal that reaches a task between the note and the wait
  suspends it while it stays in the queue, and its wakeup adds a second node. `IdleIsLast` still
  holds there, which is why it is checked.
* `HighestReadyRuns` takes the larger `task_prio` for the more urgent, as the code does:
  `nrk_add_to_readyQ` (`nrk_task.c:77-90`) puts it first, and the idle task, which must be last, has
  0. The comments at `nrk_task.h:60-61` say the opposite, "Task priority (0 == highest, 63 ==
  lowest)". The comments are wrong: with that order the idle task would run before all others and
  the walk of the queue would run off its end.
* `Events` has the waiter above the task that wakes it, so that the gap of `SignalRace` stays
  closed: no signal comes between the note and the wait, no post between the test and the wait of
  `nrk_sem_pend`. Its properties and the theorems of `NrkQueueProofs` say nothing of these; runs
  `Mixed` (`SignalledReturns`) and `SignalRace` do. With the priorities exchanged `SignalledIsDue`
  and `ValueInRange` fail by the same race. `ValueInRange` also fails with two tasks that pend (run
  `MutexExclusion`). Its semaphore has the index 0, which no signal mask equals: `nrk_event_signal`
  compares the two.
* `SIG(x)` lacks parentheses, so `~SIG(x)` is `(~1) << x` and `nrk_signal_delete` also deletes the
  signals below x. `SignalDelete` has that effect; nothing here says it should not. It also suspends
  every task whose only registered signal it was, a task parked on a semaphore included, which then
  takes the semaphore without a post (the value becomes -1).
* Nothing is said of priority ceilings beyond the order of the queue. Raising the ceiling does not move
  the running task, and the walk compares the priority of the new task with that of the holder, so a
  task below the ceiling may be put before the holder.
* `BudgetHeld` allows two ticks more than `cpu_reserve`: `NextPass` postpones a late pass by two.
  A task that waits a single tick has its reserve replenished by the wakeup; `used` counts from
  there, as the kernel does. The cycle that follows `nrk_start` is left out, since its pass charges
  nothing: a task that is ready at the start exceeds its first reserve by up to that cycle.
* The first pass after `nrk_start` charges nothing, whatever time it took (`_nrk_prev_timer_val` is
  0). `NoTickLost` begins after it. It does not hold when a tick can fall into the section of a wait
  (`SectionTicks = 1`): the wait replaces `_nrk_prev_timer_val` by the small value of a counter that
  has just restarted, and the cycle that ended is never charged.
* `PeriodKept` is about tasks none of whose `next_period` a pass came too late for (`overtaken`). After a
  late pass the new `next_period` is computed without the old one, and the period is shifted. It is also
  shifted by `nrk_set_next_wakeup` before `nrk_wait_until_next_n_periods`: the wakeup that was asked for
  starts the count of the periods. The program of `Accounting` does not make that call. Nor does it
  delete a signal that a terminated task has registered, which would suspend that task and so revive it.
* `CompareAhead` fails once `nrk_set_next_wakeup` has refused a time within `TIME_PAD`, because it
  returns with interrupts off and the counter meets the 8-bit limit while a pass is owed. Programs in
  `Timed` and `Mixed` do not make that call with such a time.
* The task of `Timed` that terminates has no reserve. With one, a pass between the removal from the queue
  and the assignment of FINISHED may suspend it for its reserve, and its wakeup queues it again: it is
  then FINISHED and in the queue, uncharged: `ReadyIsQueuedOnce` and `BudgetHeld` fail.
* `ReserveBound` has twice the count on the right: the replenishment is lazy, so a full allowance may be
  used at the end of one period and another at the beginning of the next. Two tasks that consume the
  same reserve may exceed it by one.
* `LossIsBounded` counts the frames that fit into the ring at six bytes each, the one that slip_rx
  is receiving and one for each lost byte. `ImplementsChannel` promises nothing once `TooMany` bytes
  are lost, and must not: when the end of a frame, its checksum and the marks before the next are
  all lost (six bytes), slip_rx takes what follows for the rest of the first frame, and the seven
  bits of the checksum may fit. An overrun of the code's ring loses 16.
* `slip_tx` accepts 128 bytes, and `slip_rx` returns the length as `int8_t`: a frame of 128 bytes
  comes out as -128, which is no length (`AsInt8`). The run has no frame so long; `FramesArrive`
  excludes it by `FitsResult`.
* `HandOver` says that a received packet is not lost only when the receiver is above the MAC task,
  and `ReceivedIsTaken` is checked for that order. In the example the MAC task is above. A signal in
  the gap of `nrk_event_wait` (`nrk_events.c:201-213`) then reaches a receiver that is READY and
  leaves it a second node; a later `bmac_wait_until_rx_pkt` returns at once without a packet,
  `bmac_rx_pkt_get` gives NULL, and if the MAC task stores a packet before `bmac_rx_pkt_release`,
  that call gives it up unread. With `MacAbove` TLC finds this as a violation of the unconditional
  form of `HandOver`. The surplus nodes may also use up the pool of the queue, and then
  `nrk_add_to_readyQ` forgets whoever wakes up.
* Likewise with the MAC task above the sender `EachPacketOnce` fails, not only `SenderReturns`; with
  the task that enables it above the MAC task, an enable between the test and the wait is lost and
  `EnabledMacRuns` fails.
* The liveness of `Bmac` ends when the MAC is disabled: `bmac_disable` leaves a sender waiting until the
  MAC is enabled again, and takes the power from a frame that is being received.
* `FramesKeepComing` is recovery: unless the ring is overrun, bytes are lost or `getc0` reads past
  the end of the ring again and again, frames come out for ever. It does not say how many are lost
  until then. That `getc0` reads past the end takes no lost byte: a signal in the gap of one wait is
  enough for a later one to return early. With the `getc0` of `platform/firefly3` (`WaitsForSignal =
  FALSE`), which waits for the number of the signal and not for its mask and so does not wait, every
  read of an empty ring does so.
* The air of `Flash` is without loss and collision: every radio that is in reach, on and free takes
  every frame (`Hears`, `Reaches`), also when two nodes send at the same time. `DataArrives` and
  `StartupEnds` rest on this; the protocol repeats nothing, so a lost frame is a packet that does
  not arrive.
* `wait_remainder_of_tdma_period` waits for the rest of the slot less 100 us (`node/main.c:151`,
  `root/main.c:142`): when the code after it is quicker than that, the loop comes round once more
  within the slot. `AtTop` abstracts this away; it waits until the slot has changed. In the last 100
  us of a slot a node would listen, or send, once more, and what it sends would be counted in the
  next slot as `NoSlotError` describes for late floods.
* `DataArrives` and `NoSlotError` exempt slots that a flood may have outlasted (`late`): a leaf that
  comes late out of the startup listens into its own slot, sends late in it, and the root counts its
  packet in the next slot, as an error. `DataArrives` also speaks only of slots whose relays listen
  (see `TdmaRelays`), and in which no radio on the way is `Deaf`: `flash_enable` returns on its
  timeout with the receiver on, a flood that ends later fills the frame buffer, and the radio takes
  no other frame until a later call of `flash_enable` has read that one. `PathIsRoute` does not say
  that the route is the shortest: the root keeps the last copy that arrived. A node that misses the
  root's one sync message never joins; `RootBoot` waits until all listen.

## 5. Proofs

TLAPS checks these for every number of tasks, every assignment of priorities, periods, offsets and
reserves, every program, every number of signals and semaphores and every timer setting that
satisfies the assumptions named in `NrkTCB` and `ReadyQueue`; what stands beside the kernel has its
own, named in its module (`FlashAssumption`, `TdmaAssumption`, `PacketAssumption`, ...).

* `ReadyQueueProofs`. `AddKeepsIdleLast` and `RemKeepsIdleLast`: from a queue of any length that ends
  in the idle task and holds it nowhere else, both operations lead to such a queue, whatever tasks
  hold semaphores. The walk stops at the idle node at the latest because every other task outranks
  it; the new node goes in front of the stop.
* `ReadyListProofs`, for every number of nodes, every set of tasks and all priorities and ceilings.
  `ListIsQueue: ListSpec => ImplementsQueue`: the linked list, read from `_head_node`, is the
  sequence of `ReadyQueueSpec`. `NodesAreKept: ListSpec => []NoNodeLost` and `BothWaysAlike:
  ListSpec => []LinksAgree`. The properties speak of what a walk along the links visits, which a
  step changes in the middle. The invariant `ListInv` names the two sequences of nodes instead:
  `Shape(r, f)` says that following Next from `_head_node` visits r and from `_free_node` f, that a
  node is on one of them and not on both, that Prev runs against Next on r, and that the idle task
  is at the end of r. `ReadChain` shows that the walk then reads just r and f off the links
  (`Behind` is a recursive function; that it is the walk takes a least counterexample, `WalkChain`,
  and that it ends within the pool a pigeonhole, `ChainLength`). Each call has two lemmas: at which
  k it acts (`AddAt`, `RemAt`), and that the links it leaves have the shape `InsertAt(r, k, first
  free node)` or `RemoveAt(r, k)` (`AddShape`, `RemShape`). The code writes through the node behind
  the head it unlinks without looking whether there is one: there is, as the idle task stays.
* `NrkKernelProofs`. `KernelInvariant: Spec => []IInv`, and from it `TypesHold` and `IdleStaysLast`.
  `TypeOK /\ IdleIsLast` is not inductive. The idle task could be taken out of the queue if it could
  be suspended: `IdleSafe` says that it is READY, asked for no suspension, waits for no event and has
  no registered signal. A task that stores a semaphore value indexes `sem_value` by its argument:
  `SemArg` says that it is a semaphore. `IInv` is the conjunction. There is a lemma per action, with
  a step for each part the action can disturb.
  `CompareStaysAhead: Spec => []CompareAhead`, for programs that satisfy
  `WakeupsAccepted` (see section 4). The compare value is computed from a counter that keeps running,
  and it can fail to be ahead only if the counter is near the end of its range. The invariant bounds
  how old a compare match can be when its pass starts (`IrqIsFresh`): the counter restarted at the
  match and has since advanced by at most the length of a section or the latency of power-down. So
  the pass ends with the counter below MAX_SCHED_WAKEUP_TIME (`PassTimer`), and that is below the
  width of the register. `SectionOnly` says that interrupts are off nowhere else.
* `NrkAccountingProofs`. `NoTickIsLost: AccountingSpec => []NoTickLost`, under `WakeupsAccepted` and
  `SectionTicks = 0`, the two conditions it needs (section 4). `NoTickLost` speaks of the moment
  after a pass has begun only. The invariant `ClockInv` extends it to every moment
  (`CycleIsCharged`): the ticks not yet accounted for are those of the cycle that ended, if a
  compare match is pending, and otherwise none, and `_nrk_prev_timer_val` is what the pass will
  charge for that cycle. A wait must not overwrite it while a match is pending (no task is in a
  section then), the counter must not run past the compare value (`CompareStaysAhead`), and no
  second match may come while the first is pending; the last takes `SleepIsLong`: a processor that
  is waking up from power-down went to sleep in a cycle longer than its way out of it. The proof has
  one lemma per action, like those of the kernel. `ReserveIsKept: AccountingSpec => []BudgetHeld`,
  under the same two conditions and `ReserveRespected`: a task with a reserve is `Undisturbed` (it
  neither waits for events nor terminates, and nobody deletes a signal it registered), since a pass
  that finds the reserve used up in the middle of such a call suspends the task on its way out of
  the queue; and TIME_PAD is at most the lateness of a pass, the two ticks of `BudgetHeld`. The
  other tasks may do anything. Of the task itself two things are invariant. `TimedOK`: only passes
  and waits suspend it, and it has one node at most and none while suspended, so that a task without
  allowance does not run (the general `KInv` of the queue is not needed and would ask more of the
  other tasks). `Balance`: `used + cpu_remaining` is the reserve, plus, while the task runs, what
  the next pass will charge: the part of the cycle that has gone by, or all of it once its compare
  match is pending. A pass programs the timer for no more than the allowance that is left, but for
  `Lateness` ticks, which bounds `used` before it is charged. `PeriodsFollow: AccountingSpec =>
  []PeriodKept`, under `PeriodsRespected` and nothing about the timer: a task that calls
  `nrk_wait_until_next_n_periods` is `Undisturbed` and makes no `nrk_set_next_wakeup`, and no signal
  can suspend a task that has terminated (section 4). `PhaseOK` follows a task through a pass: until
  the walk has come to it (`Pending`), its `next_period` is still that of before the pass while the
  time of the pass is already charged, and the multiple of the period is off by just that. That
  `next_period` is never 0 between passes is part of it, as a task whose period begins now must be
  given the next one. `SkipsOK` is about the calls that skip periods: such a task wakes up exactly
  when its next period begins (`WakesOnPhase`), as otherwise the new `next_period`, which is
  computed from the number of periods, would count from elsewhere. The run Accounting satisfies the
  conditions of all three theorems.
* `NrkQueueProofs`, for task sets that satisfy `WokenFromBelow`. Its conditions are what section 4
  reports, turned round. Who raises a signal has a lower priority than who waits for it, and no
  interrupt handler raises one that is waited for: otherwise the signal can come between the note
  and the wait and suspend a task that runs. The same for who posts and who pends. No program
  deletes a signal. A task that waits for events or terminates has no reserve: a pass that finds it
  used up suspends the task on its way. The ceiling of a semaphore is the priority of the task that
  pends, and its index is no signal's mask. The queue has a node for every task and the idle one.
  Programs without events satisfy most of this trivially; the runs Timed and Events satisfy all of
  it. These theorems are therefore about the kernel where signals and posts find the task they wake
  parked. They do not show that a signal between the note and the wait is survived; there
  `ReadyIsQueuedOnce`, `NothingPending` and `WaitReturnsOneSignal` fail (`SignalRace`), and
  `SignalledIsDue` with them. The invariant `KInv` has four parts. `IInv` is that of
  `NrkKernelProofs`. `QueueInv` says, at every step of a pass too, that the queue holds exactly the
  READY tasks, each once. A pass decides by `suspend_flag` and the state, a call by the control
  point, a signal by `event_suspend` and the mask; `OK(t)` ties the four together for one task
  (`CallOK` the call and the control point, `FlowOK` the state and the flag, `BlockOK` the event,
  `WaitOK` the flags that a wait leaves behind, `MaskOK` the mask). `OrderInv` says that the queue
  is in the order of the priorities and that between passes its head runs. The last is what makes
  signals safe: the task that raises one is READY and runs, so a task above it that waits is not in
  the queue, hence parked (`RunsAbove`, `WaiterIsParked`), and `WokenIsOK` covers just that case.
  There is a lemma per action. The queue lemmas `AddOne` and `RemoveOne` rest on `RoomForOne`, a
  pigeonhole: a queue that lacks a task has a free node, so the silent return of `nrk_add_to_readyQ`
  on a full pool is never taken. From `KInv`: `QueueHoldsReady: Spec => []ReadyIsQueuedOnce`,
  `EventMakesDue: Spec => []SignalledIsDue`, `NothingLeftPending: Spec => []NothingPending`,
  `OneSignalReturned: Spec => []WaitReturnsOneSignal`; and `UrgentTaskRuns: Spec =>
  []HighestReadyRuns`, in the order of the code (section 4), when no program terminates (a task that
  a pass interrupts inside `nrk_terminate_task` is READY for ever, and not queued). With one task
  that pends, one that posts and masks that tell the semaphores apart (`OnePender`; run
  MutexExclusion shows what two that pend do), `SemInv` gives `SemValueInRange: Spec =>
  []ValueInRange` and `NobodyStranded: Spec => []NoStrandedWaiter`. It says what a task inside a
  call still knows of the value it tested (`SemOK`): 0 while it is blocked, more than 0 once it is
  posted until it has stored its decrement, less than the count between the two halves of
  `nrk_sem_post`. The load and the store of the decrement cannot be split by a post, because the
  task that posts is below and does not run (`RunsAbove` again).
* `BmacProofs`, for every set of packets, every size of the pool and every reserve. `BmacTypesHold:
  BmacSpec => []BmacTypeOK`. The proofs rest on two notions. `Acts(u)` says that a step is one of
  task u, and nobody else's control point moves; each step of the module is one of these, a pass, a
  wakeup, a tick or the radio's (`MacActs` and so on). `RunsQueued`: a task that runs is in the
  queue, with as many nodes as there may be. From them, `StopsAt(high, low, p)`: a task that is
  above another, and gives up the processor only at the points p, is at one of these whenever the
  other runs, for the pass never prefers the other. It holds of a task with surplus nodes as well,
  which is all that the gap in the waits can do to it. `BufferHandedOver: BmacSpec => HandOver`, for
  all priorities and any number of senders. That no packet the application holds is overwritten
  (`HolderInv`) takes none: the application holds one only while `rx_buf_empty` is 0, and the MAC
  task looks at the flag before it receives. That no packet is dropped needs the receiver above the
  MAC task (`HandOver` says it under that condition): it then stops only before `bmac_rx_pkt_get`,
  which it may reach without a packet, but the MAC task cannot store one before the release
  (`ReaderInv`, `SeenOK`). `EachPacketSentOnce: BmacSpec => EachPacketOnce`, for a single sender
  above the MAC task, whatever the other priorities: the MAC task runs only while the sender is
  outside its two writes (`PacketInv`, with `StopsAt` for the sender). With the sender below the MAC
  task, as in the example, the property fails: the MAC task may run between `tx_data_ready = 1` and
  the packet, and send what was never handed over. `ReserveIsBounded: BmacSpec => []ReserveBound`,
  for a single sender at any priority (two that share a reserve may exceed it by one). The invariant
  `Accounts` compares the reserve with the ages of the last accesses: since the last replenishment
  there were `cur_access` of them, the accesses before are at least as old as it, and all but
  `set_access` of these are older than the replenishment before, which is a whole period earlier.
  The test and the count of `nrk_reserve_consume` are two steps, so a sender that has passed the
  test still has an access left ("take").
* `SlipProofs`, for all frames, every size of the ring and of the receiver's buffer. `SlipTypesHold:
  SlipSpec => []SlipTypeOK`, whatever is lost. The other two are about the time up to the first byte
  that is lost on the line, overwritten in a full ring or read where there is none. `FramesArrive`:
  until then, and with that step, every step is a step of `FrameChannel`, that is, `slip_rx` returns
  each frame once, whole and in order. `FramesUnderWay: SlipSpec => [](lost = 0 => LossIsBounded)`:
  none is left behind. Nothing is assumed of the speed of the line or of the waits: a wait may
  return early, and the theorems end where `getc0` then reads past the ring, as they end where the
  ring is overrun. They assume frames of up to 127 bytes, whose length `slip_rx` can return
  (`FitsResult`), and a history that remembers the frames there can be (`MaxSent`, which then bounds
  nothing). What is on the way is in the ring, between a receiver that knows what came before and a
  sender that knows what comes next, and a byte alone tells neither. The invariant (`UnderWay`)
  therefore names for every byte in the ring the point of the call of `slip_tx` that put it there
  (`Point`). `Chain` says that each of these points follows from the one before, up to the sender,
  and `RxKnows` what slip_rx has stored when the byte of a point is the next: from it follow that a
  mark is read where a mark was sent (`WhatIsRead`), that the buffer takes every byte and that the
  checksum fits. Points have a weight, six to the frame plus which of the six bytes every frame has
  comes next; along the chain it grows by at most one a byte, which bounds the frames by the room in
  the ring (`RoomForFrames`). The ring is shown to be a queue (`PutLast`, `TakeFirst`) as long as it
  has room; the chain grows, shrinks and begins a frame (`ChainGrows`, `ChainShrinks`,
  `ChainCalls`), and the receiver takes each byte as the point says (`ReceiverTakes`). `LossIsAStep`
  and `InventsLoses` are the fault itself, which the channel calls a loss.
* `TdmaProofs`, for every number of nodes, every symmetric network and every length of a slot, a
  hop, a packet and the root's printing. `TypesHold: TdmaSpec => []TdmaTypeOK`; a packet is a slot
  number and at most PKT_LEN - 2 leaves (`PacketAssumption`), and that a relay never makes it longer
  is part of the proof. `SlotErrorsAreLate: TdmaSpec => []NoSlotError`, when a hop takes less than a
  slot (HopTime < SlotLen; with HopTime = 3 and SlotLen = 2 TLC finds an error counted after two
  slots). The invariant `SlotInv` gives each packet a deadline (`DeadlineOK`): it is passed on
  within `left` ticks, and if that is beyond the end of the slot `late` has been set by whoever sent
  it. So a packet of another slot than the current one comes with `late` set (`StaleOK`), and an
  error with it (`CountsOK`). `SendersOK` says who sends when; `StartOK` what the network is like
  before the first message. `RoutesAreFound: TdmaSpec => []PathIsRoute` and `NobodyListensInVain:
  TdmaSpec => []ListenersAreRelays`, when a flood fits into a slot (`FloodFits`: a tick of delay and
  HopTime for every leaf) and the relays into a packet (`RouteFits`: PKT_LEN >= NUM_NODES). tdma.h
  has slots of 200 ms, in which flash resends at once, and 9 bytes for 5 nodes. Without room the
  last relays are not written down and `PathIsRoute` fails (PKT_LEN = 2, three nodes); with HopTime
  = 4 and SlotLen = 2 both fail, as a packet of one slot is still on its way in the next. Neither
  property is inductive, nor is anything about the tables alone: what is true of a packet depends on
  how far the startup has come. `StartupInv` therefore goes stage by stage (`Stages`): the slot of
  the sync flood (`FirstOK`: the flood has taken at most HopTime for each node that has sent, and
  they are counted), the slots of the mapping (`MappingOK`), the slot 0 after them (`ClosingOK`) and
  the rest (`AfterOK`); a lemma for each (`FromFirst`, `FromMapping`, ...) says where its steps
  lead. In the mapping, `Trail(n, p)` says that the packet p that n holds has come along distinct
  leaves, each in reach of the one before, that all of them are done with the slot, and that it took
  no more than HopTime for each. Done leaves do not listen, so the next relay is a new one
  (`TrailGrows`); there are no more relays than leaves (`WayIsShort`, a pigeonhole), so there is
  room for it and the flood ends in its slot. `OutsideOK` covers a leaf that the sync flood does not
  reach: nobody in its reach ever sends, so it disturbs nothing. After the mapping a packet has
  either no relays or the route that the root has for its slot, and tables follow (`TablesMade`).

Only model-checked: the properties of the queue, the signals and the semaphores for programs outside
`WokenFromBelow` and `OnePender` that a run has (signals deleted, raised by handlers);
`HighestReadyRuns` for programs that terminate tasks; `BudgetHeld` and `PeriodKept` for programs
outside `ReserveRespected` and `PeriodsRespected`; of TDMA `RelaysListen` and `DataArrives`; of SLIP
`ImplementsChannel` and `LossIsBounded` once a byte has been lost; `WaitsLikeEventWait`; and all
liveness (out of the prover's reach, as is anything with ENABLED, and as is what folds and recursive
definitions compute for every input: `Total` in `Slip`, what the checksum does not notice).

## 6. Running

In this directory, `tlc -config Timed.cfg MCKernel` (the runs of `PROJECT.json` name module and
configuration) and `tlapm NrkKernelProofs.tla`. The longest run takes
two to three minutes on two workers.
`CHECK_DEADLOCK FALSE` appears only in `ReadyList.cfg`: a pool without a free node and a queue with
nothing to remove is an end of that model. The others never stop: time goes by, or bytes keep coming.

Definitions whose comment begins with "Fault:" are not used by any specification; each is a mistake
that the named property would find, listed under `mutants`.

## 7. What is built, and what could follow

Built, in this order: the kernel (queue, pass, waits, signals, semaphores) with its runs and proofs;
the proofs of the clock and of the ready queue; access reserves and B-MAC; the serial line and SLIP;
flash and the flooding TDMA application; the proofs about the linked list, the events, the budgets
and periods, B-MAC, SLIP and TDMA.

What would add most from here: the semaphore calls with several posters and waiters under a
corrected `nrk_sem_pend`; TDMA clocks that drift and are corrected by the sync message. To prove:
`DataArrives` of TDMA, `LossIsBounded` after a lost byte, and `WaitsLikeEventWait`.

## 8. Not modelled

* Context switch, stacks, registers, stack checks, error reporting and the statistics: no property
  here depends on them. `nrk_error_add` may halt the node; the model goes on.
* The bounded context swap: a busy wait at the end of a pass that pads it to a fixed length well
  under a tick and changes no state. The kernel test hooks and the hardware watchdog, compile-time
  options.
* Activating a task again after `nrk_terminate_task`: no program in the repository does it.
* The precision timer and the application timers.
* Software watchdogs, time arithmetic, pulse synchronisation: sequential arithmetic on seconds and
  nanoseconds or on averages, with little control. The run-time statistics: counters nobody reads.
* `nrk_sem_delete` and `nrk_reserve_delete`: no program in the repository calls them.
* In `Flash`, frames with a bad checksum, and the millisecond clock; in `Bmac`, a change of buffer, check
  rate or radio settings while the tasks run, hardware addressing and encryption.
* Device manager and device drivers, and of the radio drivers everything but receiver on and off, the
  frame buffer and the end-of-frame interrupt: hardware access.
* The network stack (`net/networkstack`, `net/rt_chain`) and the protocols `rt_link`, `tdma_asap`,
  `widom`, `dsr`, `pcf_tdma`: large inherited libraries that the team's application does not use.
* The Java display and the host tools.

The models translate the kernel, B-MAC, SLIP, flash and the TDMA application, which are a small part of
the repository by lines: most of its 2224 files are copies of the kernel configuration and platform code
for other boards, examples, the inherited protocols above, and host tools. None of it runs on the nodes
of this team.

## 9. Further hazards

Seen while reading, outside the behaviour modelled here, and without a property:

* `nrk_task.c:414`: a wait converts its time to 16-bit ticks, so that a long wait is shortened.
* `nrk_events.c:306`: `nrk_sem_create` stops one short of NRK_MAX_RESOURCE_CNT; `nrk_sem_delete`
  decrements the count whether the semaphore existed or had waiters.
* `nrk_reserve.c:71`: `nrk_reserve_delete` indexes with a variable it never set and frees with 0 what
  `nrk_reserve_create` looks for as -1; `nrk_reserve.c:56`: the search for a free slot and its marking
  are not atomic.
* `nrk_sw_wdt.c:91`: nanoseconds are added without a carry into the seconds.
* `nrk_driver.c:99`: `nrk_close` accepts the index one past the last driver.
* `net/slip/slip.c:239`: payload beyond `max_len` is dropped without an error.
* `net/bmac/bmac.h:48`: `bmac_rx_pkt_set_buffer` marks the buffer empty whether or not it was read.
* `net/flash/flash.c:82`: a second reception replaces `last_rx_time` before the callback of the first;
  `flash.c:353` and `355`: the clock near the end of a millisecond, and the interrupts it turns on.
* `748_flooding_tdma/node/main.c:151`: the rest of a slot less 100 microseconds wraps when less is left
  (and see section 4).
* `net/pulse_sync/pulse_sync.c:177`: `_samples` has eight bits and grows with every point, also
  beyond MAX_SAMPLES: after 256 points the node counts as not synchronised, and its averages are
  divided by the wrong number.
