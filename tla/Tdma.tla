-------------------------------- MODULE Tdma --------------------------------
(***************************************************************************)
(* Flooding TDMA, projects/demos/748_flooding_tdma: a root and leaf nodes  *)
(* 1, 2, ... that find their routes by flooding.  Slot 0 is the root's,    *)
(* slot s the slot of node s.  After a first sync flood every node floods  *)
(* once in its slot and the relays write themselves into the packet (phase *)
(* 1); the root floods the route of each slot back (phase 2); from then on *)
(* a node relays in the slots its table time_slots says LISTEN.            *)
(*                                                                         *)
(* All nodes read the same slot off their synchronised clocks.             *)
(***************************************************************************)
EXTENDS Flash, SequencesExt

CONSTANTS
  NUM_NODES, PKT_LEN,
  SlotLen,         \* ticks of a slot, TDMA_SLOT_LEN; the timeout is just shorter
  SetupTime        \* ticks the root prints the routes for, at most

Root == 0
Leaf == 1..NUM_NODES-1
Slot == 0..NUM_NODES-1
SYNC == NUM_NODES             \* 255 in the code: the first sync message

ASSUME TdmaAssumption ==
  /\ NUM_NODES \in Nat \ {0, 1} /\ Node = Slot
  /\ PKT_LEN \in Nat /\ PKT_LEN >= 2 /\ SlotLen \in Nat \ {0} /\ SetupTime \in Nat

\* buf[0] and the nodes written behind it; the count in buf[PKT_LEN - 1] is the
\* length of route.
Pkt(id, route) == [id |-> id, route |-> route]
Nothing == Pkt(0, <<>>)
MaxRoute == PKT_LEN - 2

ASSUME PacketAssumption ==
  Packet = [id : 0..NUM_NODES, route : BoundedSeq(Leaf, MaxRoute)]

VARIABLES
  slot, offset,              \* the synchronised time
  phase, act, cycle,         \* of a node: where main is, what it does there, its
                             \* variable cycle
  time_synchronized,
  time_slots,                \* of a leaf: OFF, LISTEN or FLOOD for each slot
  shortest_paths,            \* of the root
  setup,                     \* ticks the root still prints
  correct, failed,           \* of the root: whether it counted a packet in this slot
  late                       \* history: a packet was on the air when a slot ended, or
                             \* may be: that of this slot (2), of the one before (1)

nodeVars == <<phase, act, cycle, time_synchronized>>
tableVars == <<time_slots, shortest_paths>>
rootVars == <<setup, correct, failed>>
tdmaVars == <<flashVars, slot, offset, nodeVars, tableVars, rootVars, late>>

\* The slots, the clocks, the tables and the packets stay within their types.
TdmaTypeOK ==
  /\ FlashTypeOK
  /\ slot \in Slot /\ offset \in 0..SlotLen-1
  /\ phase \in [Node -> {"sync", "phase1", "phase2", "steady"}]
  /\ act \in [Node -> {"decide", "flash", "send", "wait"}] /\ cycle \in [Node -> Slot]
  /\ time_synchronized \in [Leaf -> BOOLEAN]
  /\ time_slots \in [Leaf -> [Slot -> {"OFF", "LISTEN", "FLOOD"}]]
  /\ \A s \in Slot : shortest_paths[s].id \in {0, s}
  /\ \A s \in Slot : Len(shortest_paths[s].route) <= MaxRoute
  /\ setup \in 0..SetupTime /\ {correct, failed} \subseteq BOOLEAN /\ late \in 0..2

TdmaInit ==
  /\ FlashInit
  /\ slot = 0 /\ offset = 0
  /\ phase = [n \in Node |-> "sync"] /\ act = [n \in Node |-> "decide"]
  /\ cycle = [n \in Node |-> 0]
  /\ time_synchronized = [n \in Leaf |-> FALSE]
  /\ time_slots = [n \in Leaf |-> [s \in Slot |-> "OFF"]]
  /\ shortest_paths = [s \in Slot |-> Nothing]
  /\ setup = 0 /\ correct = FALSE /\ failed = FALSE /\ late = 0

-----------------------------------------------------------------------------
(* What a node does at the top of its loop, and after it.                   *)

Timeout == SlotLen - 1

At(n, p, a) == phase[n] = p /\ act[n] = a

\* At the top of the loop of phase p.  wait_remainder_of_tdma_period(cycle) has
\* returned when the slot it was called for is over.
\* The code wakes up 100 us before that, a fraction of a tick, which the model
\* rounds up to the end of the slot.
AtTop(n, p) ==
  phase[n] = p /\ (act[n] = "decide" \/ (act[n] = "wait" /\ cycle[n] # slot))

\* n goes on in phase p with action a; it has read the slot into cycle.
Goes(n, p, a) ==
  /\ phase' = [phase EXCEPT ![n] = p] /\ act' = [act EXCEPT ![n] = a]
  /\ cycle' = [cycle EXCEPT ![n] = slot]

Stays == UNCHANGED <<slot, offset, time_synchronized, setup, correct, failed>>
Unchanged == Stays /\ UNCHANGED late

Enable(n, p) == Goes(n, p, "flash") /\ Listen(n, Timeout)

\* The end of a phase of the startup is seen in slot 0, and waited out.
NextPhase(n) ==
  /\ slot = 0 /\ AtTop(n, "phase1")
  /\ Goes(n, "phase2", "wait")
  /\ Unchanged /\ UNCHANGED <<flashVars, tableVars>>

\* while(!time_synchronized) flash_enable(PKT_LEN, NULL, time_sync_callback);
AwaitSync(n) ==
  /\ At(n, "sync", "decide") /\ n \in Leaf
  /\ IF time_synchronized[n]
     THEN act' = [act EXCEPT ![n] = "wait"] /\ phase' = [phase EXCEPT ![n] = "phase1"]
          /\ cycle' = [cycle EXCEPT ![n] = 0] /\ UNCHANGED flashVars
     ELSE Goes(n, "sync", "flash") /\ Listen(n, NoTimeout)
  /\ Unchanged /\ UNCHANGED tableVars

\* Fault: slot 0 does not end the loop of phase 2.
ListenAlways(n) ==
  /\ \/ AtTop(n, "phase1") /\ slot \notin {0, n}
     \/ AtTop(n, "phase2") /\ n \in Leaf
  /\ Enable(n, phase[n])
  /\ Unchanged /\ UNCHANGED tableVars

\* The slots of phase 1 and phase 2 in which a leaf listens.
ListenInStartup(n) ==
  /\ slot # 0
  /\ \/ AtTop(n, "phase1") /\ slot # n
     \/ AtTop(n, "phase2") /\ n \in Leaf
  /\ Enable(n, phase[n])
  /\ Unchanged /\ UNCHANGED tableVars

\* Something to send in this slot, after a delay: IN_SLOT_TX_DELAY in the startup,
\* the message on the 9600 baud console in the main loop.
PrepareToSend(n) ==
  /\ slot # 0
  /\ \/ AtTop(n, "phase1") /\ slot = n
     \/ AtTop(n, "phase2") /\ n = Root
     \/ AtTop(n, "steady") /\ n \in Leaf /\ time_slots[n][slot] = "FLOOD"
  /\ Goes(n, phase[n], "send")
  /\ Unchanged /\ UNCHANGED <<flashVars, tableVars>>

\* The packet of a slot: the origin's, or the route the root has for it.
Outgoing(n) == IF n = Root THEN shortest_paths[slot] ELSE Pkt(n, <<>>)

\* Who hears this may act on it in the next slot.
NoteLate == late' = IF offset + HopTime < SlotLen THEN late ELSE 2

Flood(n) ==
  /\ act[n] = "send" /\ offset > 0
  /\ Transmit(n, Outgoing(n))
  /\ Goes(n, phase[n], "wait")
  /\ Stays /\ NoteLate /\ UNCHANGED tableVars

\* A leaf has the table complete and enters its main loop.
LeafReady(n) ==
  /\ slot = 0 /\ AtTop(n, "phase2") /\ n \in Leaf
  /\ time_slots' = [time_slots EXCEPT ![n][0] = "LISTEN", ![n][n] = "FLOOD"]
  /\ Goes(n, "steady", "decide")
  /\ Unchanged /\ UNCHANGED <<flashVars, shortest_paths>>

\* OFF: the sensor is read, the radio left alone.  LISTEN: flash_enable.
LeafSlot(n) ==
  /\ AtTop(n, "steady") /\ n \in Leaf
  /\ \/ time_slots[n][slot] = "OFF" /\ Goes(n, "steady", "wait") /\ UNCHANGED flashVars
     \/ time_slots[n][slot] = "LISTEN" /\ Enable(n, "steady")
  /\ Unchanged /\ UNCHANGED tableVars

\* The root starts when all leaves listen: who misses this message stays out.
RootBoot ==
  /\ At(Root, "sync", "decide")
  /\ \A n \in Leaf : flash[n] = "listen"
  /\ SetRetransmit(Root, FALSE) /\ Goes(Root, "sync", "send")
  /\ Unchanged /\ UNCHANGED tableVars

RootSync ==
  /\ At(Root, "sync", "send")
  /\ Transmit(Root, Pkt(SYNC, <<>>)) /\ Goes(Root, "phase1", "wait")
  /\ Unchanged /\ UNCHANGED tableVars

\* The root prints the routes, which may take it past slot 0.
RootReady ==
  /\ slot = 0 /\ AtTop(Root, "phase2")
  /\ Goes(Root, "steady", "decide")
  /\ setup' \in 0..SetupTime
  /\ UNCHANGED <<flashVars, slot, offset, time_synchronized, tableVars, correct, failed, late>>

\* Fault: a route without relays is taken for none, and its slot for unused.
RootSlotSkips ==
  /\ AtTop(Root, "steady") /\ setup = 0
  /\ IF slot = 0 THEN \E id \in {0, 1} : Transmit(Root, Pkt(id, <<>>)) /\ Goes(Root, "steady", "wait")
     ELSE IF shortest_paths[slot].route = <<>> THEN Goes(Root, "steady", "wait") /\ UNCHANGED flashVars
     ELSE Enable(Root, "steady")
  /\ Unchanged /\ UNCHANGED tableVars

\* In slot 0 a sync message or one that is none, elsewhere the root listens.
RootSlot ==
  /\ AtTop(Root, "steady") /\ setup = 0
  /\ \/ /\ slot = 0 /\ Goes(Root, "steady", "wait") /\ NoteLate
        /\ \E id \in {0, 1} : Transmit(Root, Pkt(id, <<>>))
     \/ slot # 0 /\ Enable(Root, "steady") /\ UNCHANGED late
  /\ Stays /\ UNCHANGED tableVars

-----------------------------------------------------------------------------
(* The callbacks, and the return of flash_enable.                           *)

\* Fault: the first relay goes into buf[0].
RelayedLow(n, p) ==
  IF p.route = <<>> THEN Pkt(n, <<Root>>) ELSE [p EXCEPT !.route = Append(@, n)]

\* Fault: the relay is not written down.
RelayedOnly(n, p) == p

\* startup_phase1_callback of a leaf
Relayed(n, p) ==
  IF Len(p.route) >= MaxRoute THEN p ELSE [p EXCEPT !.route = Append(@, n)]

\* Fault: LISTEN and FLOOD are mixed up.
TableSwapped(n, p) ==
  IF n \in Range(p.route) THEN "FLOOD" ELSE IF p.id = n THEN "LISTEN" ELSE "OFF"

\* Fault: a slot is LISTEN until it is known to be somebody else's.
TableOpen(n, p) == IF p.id = n THEN "FLOOD" ELSE "LISTEN"

\* startup_phase2_callback
TableEntry(n, p) ==
  IF n \in Range(p.route) THEN "LISTEN" ELSE IF p.id = n THEN "FLOOD" ELSE "OFF"

\* After flash_enable, phase 1 of a leaf and the main loops wait for the end of
\* the slot; phase 2 of a leaf and phase 1 of the root go on listening.
Returns(n) ==
  act' = [act EXCEPT ![n] =
    IF phase[n] = "steady" \/ (phase[n] = "phase1" /\ n \in Leaf) THEN "wait" ELSE "decide"]

LeafReceives(n) ==
  /\ act[n] = "flash" /\ flash[n] = "received" /\ n \in Leaf
  /\ Handle(n, IF phase[n] = "phase1" THEN Relayed(n, frame[n]) ELSE frame[n])
  /\ time_synchronized' = [time_synchronized EXCEPT ![n] =
       @ \/ (phase[n] \in {"sync", "steady"} /\ frame[n].id = SYNC)]
  /\ time_slots' = IF phase[n] = "phase2" /\ frame[n].id \in Slot
                   THEN [time_slots EXCEPT ![n][frame[n].id] = TableEntry(n, frame[n])]
                   ELSE time_slots
  /\ UNCHANGED <<slot, offset, phase, act, cycle, shortest_paths, rootVars, late>>

LeafResends(n) ==
  /\ act[n] = "flash" /\ n \in Leaf
  /\ Resend(n) /\ Returns(n) /\ NoteLate
  /\ UNCHANGED <<slot, offset, phase, cycle, time_synchronized, tableVars, rootVars>>

NoMessage(n) ==
  /\ act[n] = "flash"
  /\ TimedOut(n) /\ Returns(n)
  /\ UNCHANGED <<slot, offset, phase, cycle, time_synchronized, tableVars, rootVars, late>>

\* startup_phase1_callback of the root: the route of this slot, whatever it had.
RootMapped ==
  /\ At(Root, "phase1", "flash") /\ flash[Root] = "received"
  /\ IF frame[Root].id # slot
     THEN Handle(Root, frame[Root]) /\ UNCHANGED shortest_paths
     ELSE /\ Handle(Root, Nothing)
          /\ shortest_paths' = [shortest_paths EXCEPT ![slot] = frame[Root]]
  /\ Returns(Root)
  /\ UNCHANGED <<slot, offset, phase, cycle, time_synchronized, time_slots, rootVars, late>>

\* node_data_callback
RootCounts ==
  /\ At(Root, "steady", "flash") /\ flash[Root] = "received"
  /\ Handle(Root, frame[Root])
  /\ IF frame[Root].id = slot THEN correct' = TRUE /\ UNCHANGED failed
                              ELSE failed' = TRUE /\ UNCHANGED correct
  /\ Returns(Root)
  /\ UNCHANGED <<slot, offset, phase, cycle, time_synchronized, tableVars, setup, late>>

\* Time goes by when every node is done with what this moment asks of it.
Settled(n) ==
  \/ act[n] = "flash" /\ flash[n] # "idle"
  \/ act[n] = "wait" /\ cycle[n] = slot
  \/ act[n] = "send" /\ offset = 0 /\ phase[n] # "sync"
  \/ n = Root /\ phase[n] = "steady" /\ act[n] = "decide" /\ setup > 0

Tick ==
  /\ \A n \in Node : Settled(n)
  /\ FlashTick
  /\ offset' = (offset + 1) % SlotLen
  /\ IF offset' = 0
     THEN /\ slot' = (slot + 1) % NUM_NODES /\ correct' = FALSE /\ failed' = FALSE
          /\ late' = IF late = 0 THEN 0 ELSE late - 1
     ELSE UNCHANGED <<slot, correct, failed, late>>
  /\ setup' = IF setup > 0 THEN setup - 1 ELSE 0
  /\ UNCHANGED <<nodeVars, tableVars>>

RootStep ==
  RootBoot \/ RootSync \/ RootReady \/ RootSlot \/ RootMapped \/ RootCounts

NodeStep(n) ==
  \/ NextPhase(n) \/ AwaitSync(n) \/ ListenInStartup(n) \/ PrepareToSend(n)
  \/ Flood(n) \/ LeafReady(n) \/ LeafSlot(n) \/ LeafReceives(n) \/ LeafResends(n)
  \/ NoMessage(n)

TdmaNext == Tick \/ RootStep \/ \E n \in Node : NodeStep(n)

TdmaSpec == TdmaInit /\ [][TdmaNext]_tdmaVars

\* Every node does what is due, and time does not stand still.
TdmaFairSpec ==
  /\ TdmaSpec
  /\ WF_tdmaVars(RootStep) /\ \A n \in Node : WF_tdmaVars(NodeStep(n))
  /\ SF_tdmaVars(Tick)

-----------------------------------------------------------------------------

\* What the root has learnt of slot s is a route from node s over distinct relays
\* to the root, each in reach of the one before.
IsRoute(s, route) ==
  LET hops == <<s>> \o route \o <<Root>>
  IN /\ IsInjective(hops)
     /\ \A i \in 1..Len(hops)-1 : <<hops[i], hops[i + 1]>> \in link

PathIsRoute ==
  \A s \in Leaf : shortest_paths[s] # Nothing => IsRoute(s, shortest_paths[s].route)

\* Nobody listens in vain: a leaf listens in a slot only when it is a relay on the
\* route the root has for that slot.
ListenersAreRelays ==
  \A n \in Leaf : phase[n] = "steady" =>
    \A s \in Leaf \ {n} :
      time_slots[n][s] = "LISTEN" => n \in Range(shortest_paths[s].route)

\* The relays of slot s listen in it and no radio on the way is blocked.
Open(s) ==
  /\ shortest_paths[s] # Nothing
  /\ \A n \in Range(shortest_paths[s].route) : time_slots[n][s] = "LISTEN" /\ ~Deaf(n)
  /\ ~Deaf(Root)

\* Where the tables are right and no flood outlasts its slot, what a node sends in
\* its slot is with the root when the slot ends.
DataArrives ==
  [][(slot' # slot /\ slot # 0 /\ \A n \in Node : phase[n] = "steady")
     => (Open(slot) /\ late = 0 => correct)]_tdmaVars

\* The root takes a packet for that of another node's slot only when the flood of
\* the slot before may have outlasted it.
NoSlotError == failed => late > 0

\* The startup ends: every node enters its main loop.
StartupEnds == <>(\A n \in Node : phase[n] = "steady")

\* In every slot the relays of the route the root has for it listen.
RelaysListen ==
  (\A n \in Node : phase[n] = "steady") =>
    \A s \in Leaf : \A n \in Range(shortest_paths[s].route) : time_slots[n][s] = "LISTEN"

=============================================================================
