----------------------------- MODULE TdmaProofs -----------------------------
(***************************************************************************)
(* Flooding TDMA, for every number of nodes, every network, and every      *)
(* length of a slot, a hop and a packet.                                   *)
(*                                                                         *)
(* SlotInv follows a packet through the slots: it has a deadline, and when *)
(* that lies behind the end of the slot, late says so; hence the root      *)
(* counts no packet of another slot but late ones.                         *)
(*                                                                         *)
(* RouteInv adds the startup, stage by stage: the sync flood of the first  *)
(* slot (First), the slots in which the root maps the network (Mapping),   *)
(* the slot 0 after them (Closing) and what follows (After).  At its heart *)
(* is Trail: a packet under way during the mapping has come along distinct *)
(* leaves in reach of each other, all of which are done with the slot, and *)
(* no slower than HopTime for each.  It needs floods that end within their *)
(* slot (FloodFits) and packets with room for all relays (RouteFits).      *)
(***************************************************************************)
EXTENDS Tdma, TLAPS, FiniteSetTheorems

\* The nodes are the slots; the root is none of the leaves.
LEMMA NodeFacts ==
  /\ Node = Slot /\ Node = Leaf \cup {Root} /\ Root \in Node /\ Root \notin Leaf
  /\ \A n \in Leaf : n \in Node /\ n \in Nat /\ n # 0
  /\ \A n \in Node : n \in Nat
  /\ NUM_NODES \in Nat /\ NUM_NODES >= 2 /\ MaxRoute \in Nat /\ MaxRoute = PKT_LEN - 2
  /\ SlotLen \in Nat /\ SlotLen >= 1 /\ Timeout \in Nat /\ HopTime \in Nat
  /\ NoFrame \notin Packet
BY TdmaAssumption, FlashAssumption DEF Slot, Leaf, Root, MaxRoute, Timeout

\* A packet is the number of a slot and a sequence of leaves that fits.
LEMMA PacketFacts ==
  /\ \A p \in Packet : /\ p.id \in 0..NUM_NODES /\ p.route \in Seq(Leaf)
                       /\ Len(p.route) \in Nat /\ Len(p.route) <= MaxRoute
                       /\ p = Pkt(p.id, p.route)
  /\ \A i \in 0..NUM_NODES : \A r \in Seq(Leaf) : Len(r) <= MaxRoute => Pkt(i, r) \in Packet
  /\ \A i \in 0..NUM_NODES : Pkt(i, <<>>) \in Packet
<1>1. Packet = [id : 0..NUM_NODES, route : UNION {[1..m -> Leaf] : m \in 0..MaxRoute}]
  BY PacketAssumption DEF BoundedSeq, SeqOf
<1>2. ASSUME NEW p \in Packet
      PROVE  /\ p.id \in 0..NUM_NODES /\ p.route \in Seq(Leaf)
             /\ Len(p.route) \in Nat /\ Len(p.route) <= MaxRoute
             /\ p = Pkt(p.id, p.route)
  <2>1. p.id \in 0..NUM_NODES /\ p = Pkt(p.id, p.route)
        /\ p.route \in UNION {[1..m -> Leaf] : m \in 0..MaxRoute}
    BY <1>1 DEF Pkt
  <2>2. PICK m \in 0..MaxRoute : p.route \in [1..m -> Leaf]
    BY <2>1
  <2>3. m \in Nat /\ m <= MaxRoute
    BY <2>2, NodeFacts
  <2>4. p.route \in Seq(Leaf) /\ Len(p.route) = m
    BY <2>2, <2>3
  <2> QED
    BY <2>1, <2>3, <2>4
<1>3. ASSUME NEW i \in 0..NUM_NODES, NEW r \in Seq(Leaf), Len(r) <= MaxRoute
      PROVE  Pkt(i, r) \in Packet
  <2>1. Len(r) \in 0..MaxRoute /\ r \in [1..Len(r) -> Leaf]
    BY <1>3, NodeFacts
  <2>2. r \in UNION {[1..m -> Leaf] : m \in 0..MaxRoute}
    BY <2>1
  <2> QED
    BY <1>1, <2>2 DEF Pkt
<1>4. <<>> \in Seq(Leaf) /\ Len(<<>>) <= MaxRoute
  BY NodeFacts
<1> QED
  BY <1>2, <1>3, <1>4

\* A relay keeps the origin of a packet and adds itself where there is room.
LEMMA RelayedFacts ==
  ASSUME NEW n \in Leaf, NEW p \in Packet
  PROVE  /\ Relayed(n, p) \in Packet /\ Relayed(n, p).id = p.id
         /\ Len(p.route) < MaxRoute => Relayed(n, p).route = Append(p.route, n)
<1>1. /\ p.id \in 0..NUM_NODES /\ p.route \in Seq(Leaf) /\ Len(p.route) \in Nat
      /\ Len(p.route) <= MaxRoute /\ p = Pkt(p.id, p.route)
  BY PacketFacts
<1>2. CASE Len(p.route) >= MaxRoute
  BY <1>1, <1>2, NodeFacts DEF Relayed
<1>3. CASE Len(p.route) < MaxRoute
  <2> DEFINE r == Append(p.route, n)
  <2>1. r \in Seq(Leaf) /\ Len(r) <= MaxRoute
    BY <1>1, <1>3, NodeFacts
  <2>2. Relayed(n, p) = Pkt(p.id, r)
    <3>1. Relayed(n, p) = [p EXCEPT !.route = Append(@, n)]
      BY <1>1, <1>3, NodeFacts DEF Relayed
    <3>2. p = [id |-> p.id, route |-> p.route]
      BY <1>1 DEF Pkt
    <3>3. [p EXCEPT !.route = r] = [id |-> p.id, route |-> r]
      <4> HIDE DEF r
      <4> QED BY <3>2
    <3> QED
      BY <3>1, <3>3 DEF Pkt
  <2>3. Pkt(p.id, r) \in Packet
    BY <1>1, <2>1, PacketFacts
  <2> QED
    BY <2>2, <2>3 DEF Pkt
<1> QED
  BY <1>1, <1>2, <1>3, NodeFacts

\* A node that has a packet its flash_enable will read, or send on, and that packet.
Live(n) == flash[n] \in {"received", "resend"}
Held(n) == IF flash[n] = "received" THEN frame[n] ELSE flash_buf[n]

\* The air, the nodes, the tables and the clock, each by itself.
AirOK ==
  /\ link \in Networks
  /\ rx_on \in [Node -> BOOLEAN] /\ auto_re_tx \in [Node -> BOOLEAN]
  /\ frame \in [Node -> Packet \cup {NoFrame}]
  /\ flash_buf \in [Node -> Packet \cup {NoFrame}]
  /\ flash \in [Node -> {"idle", "listen", "received", "resend"}]
  /\ left \in [Node -> Nat \cup {NoTimeout}]
  /\ \A n \in Node : Live(n) => Held(n) \in Packet
NodesOK ==
  /\ phase \in [Node -> {"sync", "phase1", "phase2", "steady"}]
  /\ act \in [Node -> {"decide", "flash", "send", "wait"}] /\ cycle \in [Node -> Slot]
  /\ time_synchronized \in [Leaf -> BOOLEAN]
TablesOK ==
  /\ time_slots \in [Leaf -> [Slot -> {"OFF", "LISTEN", "FLOOD"}]]
  /\ shortest_paths \in [Slot -> Packet]
  /\ \A s \in Slot : shortest_paths[s].id \in {0, s}
ClockOK ==
  /\ slot \in Slot /\ offset \in 0..SlotLen-1
  /\ setup \in 0..SetupTime /\ {correct, failed} \subseteq BOOLEAN /\ late \in 0..2

TypeInv == AirOK /\ NodesOK /\ TablesOK /\ ClockOK

\* The parts together are the type invariant that the runs check.
LEMMA TypeImplied == TypeInv => TdmaTypeOK
BY PacketFacts DEF TypeInv, TdmaTypeOK, FlashTypeOK, AirOK, NodesOK, TablesOK, ClockOK

\* What flash and the radio do keeps the air well-formed.
LEMMA AirListen ==
  ASSUME AirOK, NEW n \in Node, NEW t \in Nat \cup {NoTimeout}, Listen(n, t)
  PROVE  AirOK'
BY DEF AirOK, Listen, Live, Held

\* ... the end of a timeout, ...
LEMMA AirTimedOut ==
  ASSUME AirOK, NEW n \in Node, TimedOut(n)
  PROVE  AirOK'
BY DEF AirOK, TimedOut, Live, Held

\* ... a transmission: whoever it wakes has the packet in its frame buffer, ...
LEMMA AirReaches ==
  ASSUME AirOK, NEW m \in Node, NEW p \in Packet, Reaches(m, p), flash[m] # "received",
         UNCHANGED <<link, rx_on, flash_buf, auto_re_tx>>
  PROVE  AirOK'
<1> DEFINE woken(n) == Hears(m, n) /\ flash[n] = "listen"
<1>1. PICK mine \in {frame[m], NoFrame} :
        frame' = [n \in Node |-> IF n = m THEN mine ELSE IF Hears(m, n) THEN p ELSE frame[n]]
  BY DEF Reaches
<1>2. /\ flash' = [n \in Node |-> IF woken(n) THEN "received" ELSE
                                  IF n = m THEN "idle" ELSE flash[n]]
      /\ left' = [n \in Node |-> IF woken(n) THEN HopTime ELSE
                                 IF n = m THEN NoTimeout ELSE left[n]]
  BY DEF Reaches
<1>3. frame' \in [Node -> Packet \cup {NoFrame}]
  BY <1>1 DEF AirOK
<1>4. flash' \in [Node -> {"idle", "listen", "received", "resend"}]
  BY <1>2 DEF AirOK
<1>5. left' \in [Node -> Nat \cup {NoTimeout}]
  BY <1>2, NodeFacts DEF AirOK
<1>6. ~Hears(m, m)
  BY FlashAssumption DEF AirOK, Hears
<1>7. ASSUME NEW n \in Node, Live(n)' PROVE Held(n)' \in Packet
  <2>1. CASE woken(n)
    <3>1. n # m
      BY <1>6, <2>1
    <3> QED
      BY <1>1, <1>2, <2>1, <3>1 DEF Held
  <2>2. CASE ~woken(n)
    <3>1. n # m /\ flash'[n] = flash[n] /\ Live(n)
      BY <1>2, <1>7, <2>2 DEF Live
    <3>2. CASE flash[n] = "received"
      <4>1. frame[n] \in Packet
        BY <3>1, <3>2 DEF AirOK, Held
      <4>2. ~Hears(m, n)
        BY <4>1, NodeFacts DEF Hears
      <4> QED
        BY <1>1, <3>1, <3>2, <4>1, <4>2 DEF Held
    <3>3. CASE flash[n] # "received"
      BY <3>1, <3>3 DEF AirOK, Held
    <3> QED
      BY <3>2, <3>3
  <2> QED
    BY <2>1, <2>2
<1> QED
  BY <1>3, <1>4, <1>5, <1>7 DEF AirOK

\* ... one of a node that is not in flash_enable, ...
LEMMA AirTransmit ==
  ASSUME AirOK, NEW m \in Node, NEW p \in Packet, Transmit(m, p)
  PROVE  AirOK'
BY AirReaches DEF Transmit

\* ... the read of a frame, after which it is in flash_buf, ...
LEMMA AirHandle ==
  ASSUME AirOK, NEW n \in Node, NEW p \in Packet, Handle(n, p)
  PROVE  AirOK'
<1>1. /\ flash[n] = "received"
      /\ flash_buf' = [flash_buf EXCEPT ![n] = p]
      /\ frame' = [frame EXCEPT ![n] = NoFrame]
      /\ rx_on' = [rx_on EXCEPT ![n] = FALSE]
      /\ flash' = [flash EXCEPT ![n] = IF auto_re_tx[n] THEN "resend" ELSE "idle"]
      /\ left' = [left EXCEPT ![n] = IF auto_re_tx[n] THEN @ ELSE NoTimeout]
      /\ UNCHANGED <<link, auto_re_tx>>
  BY DEF Handle
<1>2. ASSUME NEW k \in Node, Live(k)' PROVE Held(k)' \in Packet
  BY <1>1, <1>2 DEF AirOK, Live, Held
<1> QED
  BY <1>1, <1>2 DEF AirOK

\* ... the transmission of what was read, ...
LEMMA AirResend ==
  ASSUME AirOK, NEW n \in Node, Resend(n)
  PROVE  AirOK'
<1>1. flash_buf[n] \in Packet
  BY DEF AirOK, Resend, Live, Held
<1> QED
  BY <1>1, AirReaches DEF Resend

\* ... a tick, ...
LEMMA AirTick ==
  ASSUME AirOK, FlashTick
  PROVE  AirOK'
<1>1. left' \in [Node -> Nat \cup {NoTimeout}]
  BY DEF AirOK, FlashTick, NoTimeout
<1> QED
  BY <1>1 DEF AirOK, FlashTick, Live, Held

\* ... and a step that leaves flash alone.
LEMMA AirSame ==
  ASSUME AirOK, UNCHANGED flashVars
  PROVE  AirOK'
BY DEF AirOK, flashVars, Live, Held

-----------------------------------------------------------------------------

\* flash_enable is active exactly while a node is in it; only the leaves send on
\* what they receive.
ModesOK ==
  /\ \A n \in Node : act[n] = "flash" <=> flash[n] # "idle"
  /\ \A n \in Leaf : auto_re_tx[n] = TRUE
  /\ auto_re_tx[Root] = FALSE \/ (phase[Root] = "sync" /\ act[Root] = "decide")
  /\ flash[Root] # "resend"

BaseInv == TypeInv /\ ModesOK

\* It is so at the beginning, ...
LEMMA BaseInit == TdmaInit => BaseInv
<1> SUFFICES ASSUME TdmaInit PROVE BaseInv
  OBVIOUS
<1>1. AirOK
  BY DEF TdmaInit, FlashInit, AirOK, Live
<1>2. 0 \in Slot /\ 0 \in 0..SlotLen-1 /\ 0 \in 0..SetupTime
  BY NodeFacts, TdmaAssumption DEF Slot
<1>5. NodesOK
  BY <1>2 DEF TdmaInit, NodesOK
<1>6. ClockOK
  <2>1. slot \in Slot /\ offset \in 0..SlotLen-1 /\ setup \in 0..SetupTime /\ late \in 0..2
    BY <1>2 DEF TdmaInit
  <2>2. {correct, failed} \subseteq BOOLEAN
    BY DEF TdmaInit
  <2> QED
    BY <2>1, <2>2 DEF ClockOK
<1>3. TablesOK
  <2>1. Nothing \in Packet /\ Nothing.id = 0
    BY PacketFacts, NodeFacts DEF Nothing, Pkt
  <2> QED
    BY <2>1 DEF TdmaInit, TablesOK
<1>4. ModesOK
  BY NodeFacts DEF TdmaInit, FlashInit, ModesOK
<1> QED
  BY <1>1, <1>5, <1>6, <1>3, <1>4 DEF BaseInv, TypeInv

\* A packet that is read, or sent, is a packet.
LEMMA HeldPackets ==
  ASSUME TypeInv
  PROVE  /\ \A n \in Node : flash[n] = "received" => frame[n] \in Packet
         /\ \A n \in Node : flash[n] = "resend" => flash_buf[n] \in Packet
         /\ \A n \in Node : Outgoing(n) \in Packet
         /\ Pkt(SYNC, <<>>) \in Packet /\ Pkt(0, <<>>) \in Packet /\ Pkt(1, <<>>) \in Packet
         /\ Nothing \in Packet
<1>1. \A n \in Node : Outgoing(n) \in Packet
  <2>1. \A n \in Node : n \in 0..NUM_NODES
    BY NodeFacts DEF Slot
  <2> QED
    BY <2>1, PacketFacts DEF TypeInv, TablesOK, ClockOK, Outgoing
<1>2. SYNC \in 0..NUM_NODES /\ 0 \in 0..NUM_NODES /\ 1 \in 0..NUM_NODES
  BY NodeFacts DEF SYNC
<1> QED
  BY <1>1, <1>2, PacketFacts DEF TypeInv, AirOK, Live, Held, Nothing

\* The air stays well-formed.
LEMMA AirNext ==
  ASSUME TypeInv, [TdmaNext]_tdmaVars
  PROVE  AirOK'
<1> USE NodeFacts DEF TypeInv
<1>1. CASE Tick
  BY <1>1, AirTick DEF Tick
<1>2. CASE RootBoot
  BY <1>2 DEF RootBoot, SetRetransmit, AirOK, Live, Held
<1>3. CASE RootSync
  BY <1>3, AirTransmit, HeldPackets DEF RootSync
<1>4. CASE RootReady
  BY <1>4, AirSame DEF RootReady
<1>5. CASE RootSlot
  BY <1>5, AirTransmit, AirListen, HeldPackets DEF RootSlot, Enable
<1>6. CASE RootMapped
  BY <1>6, AirHandle, HeldPackets DEF RootMapped, Handle
<1>7. CASE RootCounts
  BY <1>7, AirHandle, HeldPackets DEF RootCounts, Handle
<1>8. ASSUME NEW n \in Node, NodeStep(n) PROVE AirOK'
  <2>1. CASE NextPhase(n) \/ PrepareToSend(n) \/ LeafReady(n)
    BY <2>1, AirSame DEF NextPhase, PrepareToSend, LeafReady
  <2>2. CASE AwaitSync(n)
    BY <2>2, AirSame, AirListen DEF AwaitSync
  <2>3. CASE ListenInStartup(n)
    BY <2>3, AirListen DEF ListenInStartup, Enable
  <2>4. CASE Flood(n)
    BY <2>4, AirTransmit, HeldPackets DEF Flood
  <2>5. CASE LeafSlot(n)
    BY <2>5, AirSame, AirListen DEF LeafSlot, Enable
  <2>6. CASE LeafReceives(n)
    BY <2>6, AirHandle, HeldPackets, RelayedFacts DEF LeafReceives
  <2>7. CASE LeafResends(n)
    BY <2>7, AirResend DEF LeafResends
  <2>8. CASE NoMessage(n)
    BY <2>8, AirTimedOut DEF NoMessage
  <2> QED
    BY <1>8, <2>1, <2>2, <2>3, <2>4, <2>5, <2>6, <2>7, <2>8 DEF NodeStep
<1>9. CASE UNCHANGED tdmaVars
  BY <1>9, AirSame DEF tdmaVars
<1> QED
  BY <1>1, <1>2, <1>3, <1>4, <1>5, <1>6, <1>7, <1>8, <1>9 DEF TdmaNext, RootStep

\* So do the variables of the nodes, ...
LEMMA NodesNext ==
  ASSUME TypeInv, [TdmaNext]_tdmaVars
  PROVE  NodesOK'
<1> USE NodeFacts DEF TypeInv, NodesOK, ClockOK, Goes, Returns, Stays, Unchanged
<1>1. CASE Tick
  BY <1>1 DEF Tick, nodeVars
<1>2. CASE RootBoot
  BY <1>2 DEF RootBoot
<1>7. CASE RootSync
  BY <1>7 DEF RootSync
<1>8. CASE RootReady
  BY <1>8 DEF RootReady
<1>3. CASE RootSlot
  BY <1>3 DEF RootSlot, Enable
<1>4. CASE RootMapped \/ RootCounts
  BY <1>4 DEF RootMapped, RootCounts
<1>5. ASSUME NEW n \in Node, NodeStep(n) PROVE NodesOK'
  <2>1. CASE NextPhase(n)
    BY <2>1 DEF NextPhase
  <2>9. CASE PrepareToSend(n)
    BY <2>9 DEF PrepareToSend
  <2>10. CASE LeafReady(n)
    <3>1. Goes(n, "steady", "decide") /\ UNCHANGED time_synchronized
      BY <2>10 DEF LeafReady
    <3> QED
      BY <3>1
  <2>2. CASE AwaitSync(n)
    <3>1. 0 \in Slot /\ UNCHANGED time_synchronized
      BY <2>2 DEF AwaitSync, Slot
    <3>2. CASE time_synchronized[n]
      BY <2>2, <3>1, <3>2 DEF AwaitSync
    <3>3. CASE ~time_synchronized[n]
      BY <2>2, <3>1, <3>3 DEF AwaitSync
    <3> QED
      BY <3>2, <3>3
  <2>3. CASE ListenInStartup(n)
    BY <2>3 DEF ListenInStartup, Enable
  <2>4. CASE Flood(n)
    BY <2>4 DEF Flood
  <2>5. CASE LeafSlot(n)
    BY <2>5 DEF LeafSlot, Enable
  <2>6. CASE LeafReceives(n)
    BY <2>6 DEF LeafReceives
  <2>7. CASE LeafResends(n)
    BY <2>7 DEF LeafResends
  <2>8. CASE NoMessage(n)
    BY <2>8 DEF NoMessage
  <2> QED
    BY <1>5, <2>1, <2>2, <2>3, <2>4, <2>5, <2>6, <2>7, <2>8, <2>9, <2>10 DEF NodeStep
<1>6. CASE UNCHANGED tdmaVars
  BY <1>6 DEF tdmaVars, nodeVars
<1> QED
  BY <1>1, <1>2, <1>3, <1>4, <1>5, <1>6, <1>7, <1>8 DEF TdmaNext, RootStep

\* ... the tables, ...
LEMMA TablesNext ==
  ASSUME TypeInv, [TdmaNext]_tdmaVars
  PROVE  TablesOK'
<1> USE NodeFacts DEF TypeInv, tableVars
<1>1. CASE RootMapped
  BY <1>1, HeldPackets DEF RootMapped, TablesOK, ClockOK
<1>2. ASSUME NEW n \in Node, LeafReady(n) PROVE TablesOK'
  BY <1>2 DEF LeafReady, TablesOK, Slot, Leaf
<1>3. ASSUME NEW n \in Node, LeafReceives(n) PROVE TablesOK'
  BY <1>3 DEF LeafReceives, TablesOK, TableEntry
<1>4. CASE UNCHANGED tableVars
  BY <1>4 DEF TablesOK
<1>5. CASE Tick \/ UNCHANGED tdmaVars
  BY <1>4, <1>5 DEF Tick, tdmaVars
<1>6. CASE RootBoot \/ RootSync \/ RootReady \/ RootSlot \/ RootCounts
  BY <1>4, <1>6 DEF RootBoot, RootSync, RootReady, RootSlot, RootCounts
<1>7. ASSUME NEW n \in Node, NodeStep(n), ~LeafReady(n), ~LeafReceives(n)
      PROVE  TablesOK'
  BY <1>4, <1>7 DEF NodeStep, NextPhase, AwaitSync, ListenInStartup, PrepareToSend, Flood,
     LeafSlot, LeafResends, NoMessage
<1> QED
  BY <1>1, <1>2, <1>3, <1>5, <1>6, <1>7 DEF TdmaNext, RootStep

\* ... and the clock.
LEMMA ClockNext ==
  ASSUME TypeInv, [TdmaNext]_tdmaVars
  PROVE  ClockOK'
<1> USE DEF TypeInv, ClockOK, rootVars
<1>1. CASE Tick
  <2>1. slot' \in Slot
    <3>1. (slot + 1) % NUM_NODES \in 0..NUM_NODES-1
      BY NodeFacts DEF Slot
    <3> QED
      BY <1>1, <3>1 DEF Tick, Slot
  <2>2. offset' \in 0..SlotLen-1
    <3>1. (offset + 1) % SlotLen \in 0..SlotLen-1
      BY NodeFacts
    <3> QED
      BY <1>1, <3>1 DEF Tick
  <2>3. setup' \in 0..SetupTime
    BY <1>1, TdmaAssumption DEF Tick
  <2>4. {correct', failed'} \subseteq BOOLEAN
    <3>1. CASE offset' = 0
      BY <1>1, <3>1 DEF Tick
    <3>2. CASE offset' # 0
      BY <1>1, <3>2 DEF Tick
    <3> QED
      BY <3>1, <3>2
  <2>5. late' \in 0..2
    BY <1>1 DEF Tick
  <2> QED
    BY <2>1, <2>2, <2>3, <2>4, <2>5
<1>2. CASE RootReady
  <2>1. UNCHANGED <<slot, offset, correct, failed, late>> /\ setup' \in 0..SetupTime
    BY <1>2 DEF RootReady
  <2> QED
    BY <2>1
<1>3. CASE RootBoot \/ RootSync \/ RootSlot \/ RootMapped
  <2>1. UNCHANGED <<slot, offset, setup, correct, failed>>
    BY <1>3 DEF RootBoot, RootSync, RootSlot, RootMapped, Stays, Unchanged
  <2>2. UNCHANGED late \/ NoteLate
    BY <1>3 DEF RootBoot, RootSync, RootSlot, RootMapped, Unchanged
  <2>3. late' \in 0..2
    BY <2>2 DEF NoteLate
  <2> QED
    BY <2>1, <2>3
<1>6. CASE RootCounts
  <2>1. CASE frame[Root].id = slot
    BY <1>6, <2>1 DEF RootCounts
  <2>2. CASE frame[Root].id # slot
    BY <1>6, <2>2 DEF RootCounts
  <2> QED
    BY <2>1, <2>2
<1>4. ASSUME NEW n \in Node, NodeStep(n) PROVE ClockOK'
  <2>1. UNCHANGED <<slot, offset, setup, correct, failed>>
    BY <1>4 DEF NodeStep, NextPhase, AwaitSync, ListenInStartup, PrepareToSend, Flood,
       LeafReady, LeafSlot, LeafReceives, LeafResends, NoMessage, Stays, Unchanged
  <2>2. UNCHANGED late \/ NoteLate
    BY <1>4 DEF NodeStep, NextPhase, AwaitSync, ListenInStartup, PrepareToSend, Flood,
       LeafReady, LeafSlot, LeafReceives, LeafResends, NoMessage, Unchanged
  <2>3. late' \in 0..2
    BY <2>2 DEF NoteLate
  <2> QED
    BY <2>1, <2>3
<1>5. CASE UNCHANGED tdmaVars
  BY <1>5 DEF tdmaVars
<1> QED
  BY <1>1, <1>2, <1>3, <1>4, <1>5, <1>6 DEF TdmaNext, RootStep

\* flash_enable is active where the node is in it.
LEMMA ModesNext ==
  ASSUME TypeInv, ModesOK, [TdmaNext]_tdmaVars
  PROVE  ModesOK'
<1> USE NodeFacts DEF TypeInv, AirOK, NodesOK, ModesOK, Goes, Enable, Listen
<1>1. CASE Tick
  BY <1>1 DEF Tick, nodeVars, FlashTick
<1>2. CASE RootBoot
  BY <1>2 DEF RootBoot, SetRetransmit, At
<1>3. CASE RootSync
  BY <1>3 DEF RootSync, Transmit, Reaches, At
<1>4. CASE RootReady
  BY <1>4 DEF RootReady, flashVars, AtTop
<1>5. CASE RootSlot
  BY <1>5 DEF RootSlot, Transmit, Reaches, AtTop
<1>6. CASE RootMapped
  BY <1>6 DEF RootMapped, Handle, At, Returns
<1>7. CASE RootCounts
  BY <1>7 DEF RootCounts, Handle, At, Returns
<1>8. ASSUME NEW n \in Node, NodeStep(n) PROVE ModesOK'
  <2>1. CASE NextPhase(n)
    BY <2>1 DEF NextPhase, AtTop, flashVars
  <2>2. CASE AwaitSync(n)
    BY <2>2 DEF AwaitSync, At, flashVars
  <2>3. CASE ListenInStartup(n)
    BY <2>3 DEF ListenInStartup, AtTop
  <2>4. CASE PrepareToSend(n)
    BY <2>4 DEF PrepareToSend, AtTop, flashVars
  <2>5. CASE Flood(n)
    BY <2>5 DEF Flood, Transmit, Reaches
  <2>6. CASE LeafReady(n)
    BY <2>6 DEF LeafReady, AtTop, flashVars
  <2>7. CASE LeafSlot(n)
    BY <2>7 DEF LeafSlot, AtTop, flashVars
  <2>8. CASE LeafReceives(n)
    BY <2>8 DEF LeafReceives, Handle
  <2>9. CASE LeafResends(n)
    BY <2>9 DEF LeafResends, Resend, Reaches, Returns
  <2>10. CASE NoMessage(n)
    BY <2>10 DEF NoMessage, TimedOut, Returns
  <2> QED
    BY <1>8, <2>1, <2>2, <2>3, <2>4, <2>5, <2>6, <2>7, <2>8, <2>9, <2>10 DEF NodeStep
<1>9. CASE UNCHANGED tdmaVars
  BY <1>9 DEF tdmaVars, nodeVars, flashVars
<1> QED
  BY <1>1, <1>2, <1>3, <1>4, <1>5, <1>6, <1>7, <1>8, <1>9 DEF TdmaNext, RootStep

\* A step keeps all of it, ...
LEMMA BaseNext == BaseInv /\ [TdmaNext]_tdmaVars => BaseInv'
<1> SUFFICES ASSUME BaseInv, [TdmaNext]_tdmaVars PROVE BaseInv'
  OBVIOUS
<1> QED
  BY AirNext, NodesNext, TablesNext, ClockNext, ModesNext DEF BaseInv, TypeInv

\* ... and so does every behaviour.
LEMMA BaseHolds == TdmaSpec => []BaseInv
BY BaseInit, BaseNext, PTL DEF TdmaSpec

\* The types: whatever the network, the numbers of nodes, hops and ticks.
THEOREM TypesHold == TdmaSpec => []TdmaTypeOK
<1>1. BaseInv => TdmaTypeOK
  BY TypeImplied DEF BaseInv
<1> QED
  BY <1>1, BaseHolds, PTL

-----------------------------------------------------------------------------
(* What a step does to the packets under way.                               *)

\* What m sends wakes n.
Woken(m, n) == Hears(m, n) /\ flash[n] = "listen"

\* A transmission wakes the listening nodes that hear it and leaves the others what
\* they have.
LEMMA ReachesFacts ==
  ASSUME AirOK, NEW m \in Node, NEW p \in Packet, Reaches(m, p), flash[m] # "received",
         UNCHANGED <<link, rx_on, flash_buf, auto_re_tx>>, NEW n \in Node
  PROVE  /\ Woken(m, n) => /\ n # m /\ Live(n)' /\ Held(n)' = p
                           /\ flash'[n] = "received" /\ left'[n] = HopTime
         /\ ~Woken(m, n) /\ n # m =>
              /\ flash'[n] = flash[n] /\ left'[n] = left[n]
              /\ Live(n) => Live(n)' /\ Held(n)' = Held(n)
              /\ frame'[n] = frame[n] \/ Hears(m, n)
         /\ flash'[m] = "idle" /\ ~Live(m)'
<1>1. PICK mine \in {frame[m], NoFrame} :
        frame' = [k \in Node |-> IF k = m THEN mine ELSE IF Hears(m, k) THEN p ELSE frame[k]]
  BY DEF Reaches
<1>2. /\ flash' = [k \in Node |-> IF Woken(m, k) THEN "received" ELSE
                                  IF k = m THEN "idle" ELSE flash[k]]
      /\ left' = [k \in Node |-> IF Woken(m, k) THEN HopTime ELSE
                                 IF k = m THEN NoTimeout ELSE left[k]]
  BY DEF Reaches, Woken
<1>3. ~Woken(m, m)
  BY FlashAssumption DEF AirOK, Hears, Woken
<1>4. Woken(m, n) => /\ n # m /\ Live(n)' /\ Held(n)' = p
                     /\ flash'[n] = "received" /\ left'[n] = HopTime
  <2> SUFFICES ASSUME Woken(m, n)
      PROVE /\ n # m /\ Live(n)' /\ Held(n)' = p
            /\ flash'[n] = "received" /\ left'[n] = HopTime
    OBVIOUS
  <2>1. n # m
    BY <1>3
  <2>2. flash'[n] = "received" /\ left'[n] = HopTime
    BY <1>2
  <2>3. frame'[n] = p
    BY <1>1, <2>1 DEF Woken
  <2> QED
    BY <2>1, <2>2, <2>3 DEF Live, Held
<1>5. ASSUME ~Woken(m, n), n # m
      PROVE  /\ flash'[n] = flash[n] /\ left'[n] = left[n]
             /\ Live(n) => Live(n)' /\ Held(n)' = Held(n)
             /\ frame'[n] = frame[n] \/ Hears(m, n)
  <2>1. flash'[n] = flash[n] /\ left'[n] = left[n]
    BY <1>2, <1>5
  <2>2. frame'[n] = frame[n] \/ Hears(m, n)
    BY <1>1, <1>5
  <2>3. flash[n] = "received" => ~Hears(m, n)
    BY NodeFacts DEF AirOK, Live, Held, Hears
  <2> QED
    BY <2>1, <2>2, <2>3 DEF Live, Held
<1>6. flash'[m] = "idle" /\ ~Live(m)'
  BY <1>2, <1>3 DEF Live
<1> QED
  BY <1>4, <1>5, <1>6

\* A node that is woken hears a packet of the one that sends.
Hearing(k) ==
  \E m \in Node :
    /\ Woken(m, k) /\ m # k /\ flash'[k] = "received" /\ left'[k] = HopTime
    /\ \/ Flood(m) /\ Held(k)' = Outgoing(m)
       \/ LeafResends(m) /\ Held(k)' = flash_buf[m]
       \/ m = Root /\ RootSync /\ Held(k)' = Pkt(SYNC, <<>>)
       \/ /\ m = Root /\ RootSlot /\ slot = 0 /\ Goes(Root, "steady", "wait") /\ NoteLate
          /\ \E id \in {0, 1} : Held(k)' = Pkt(id, <<>>)
    /\ UNCHANGED <<slot, offset>>

\* A packet stays where it is, ...
Keeping(k) ==
  /\ Live(k) /\ flash'[k] = flash[k] /\ Held(k)' = Held(k) /\ left'[k] = left[k]
  /\ UNCHANGED <<slot, offset>> /\ (UNCHANGED late \/ NoteLate)

\* ... ages, ...
Ageing(k) ==
  /\ Tick /\ Live(k) /\ flash'[k] = flash[k] /\ Held(k)' = Held(k)
  /\ left[k] # 0 /\ left'[k] = IF left[k] = NoTimeout THEN NoTimeout ELSE left[k] - 1

\* ... or is read and edited, to be sent on.
Editing(k) ==
  /\ k \in Leaf /\ LeafReceives(k) /\ flash[k] = "received" /\ Live(k)
  /\ flash'[k] = "resend" /\ left'[k] = left[k]
  /\ Held(k)' = IF phase[k] = "phase1" THEN Relayed(k, Held(k)) ELSE Held(k)
  /\ UNCHANGED <<slot, offset, late>>

\* The radio of k is not touched.
SameRadio(k) ==
  /\ flash'[k] = flash[k] /\ frame'[k] = frame[k] /\ flash_buf'[k] = flash_buf[k]
  /\ left'[k] = left[k]

\* What the radio of a node holds is kept by a step that does not touch it.
LEMMA SameKeeps ==
  ASSUME NEW k \in Node, Live(k)', SameRadio(k), UNCHANGED <<slot, offset>>,
         UNCHANGED late \/ NoteLate
  PROVE  Keeping(k)
BY DEF SameRadio, Keeping, Live, Held

\* The packets under way after a transmission.
LEMMA SentOrKept ==
  ASSUME AirOK, NEW m \in Node, NEW p \in Packet, Reaches(m, p), flash[m] # "received",
         UNCHANGED <<link, rx_on, flash_buf, auto_re_tx, slot, offset>>,
         UNCHANGED late \/ NoteLate, NEW k \in Node, Live(k)'
  PROVE  \/ Keeping(k)
         \/ Woken(m, k) /\ m # k /\ flash'[k] = "received" /\ left'[k] = HopTime /\ Held(k)' = p
<1>1. k # m
  BY ReachesFacts
<1>2. CASE Woken(m, k)
  BY <1>2, ReachesFacts
<1>3. CASE ~Woken(m, k)
  <2>1. flash'[k] = flash[k] /\ left'[k] = left[k] /\ (Live(k) => Held(k)' = Held(k))
    BY <1>1, <1>3, ReachesFacts
  <2> QED
    BY <2>1 DEF Keeping, Live
<1> QED
  BY <1>2, <1>3

\* A packet that is under way after a step was under way before, or has been heard.
LEMMA LiveAfter ==
  ASSUME BaseInv, [TdmaNext]_tdmaVars, NEW k \in Node, Live(k)'
  PROVE  Keeping(k) \/ Ageing(k) \/ Editing(k) \/ Hearing(k)
<1> USE NodeFacts DEF BaseInv, TypeInv
<1>1. CASE Tick
  <2>1. flash' = flash /\ frame' = frame /\ flash_buf' = flash_buf
        /\ left[k] # 0 /\ left'[k] = IF left[k] = NoTimeout THEN NoTimeout ELSE left[k] - 1
    BY <1>1 DEF Tick, FlashTick
  <2> QED
    BY <1>1, <2>1 DEF Ageing, Live, Held
<1>2. CASE RootBoot \/ RootReady
  BY <1>2, SameKeeps DEF RootBoot, RootReady, SetRetransmit, flashVars, SameRadio, Stays,
     Unchanged
<1>3. CASE RootSync
  <2>1. /\ Transmit(Root, Pkt(SYNC, <<>>))
        /\ UNCHANGED <<slot, offset, late>>
    BY <1>3 DEF RootSync, Stays, Unchanged
  <2> QED
    BY <1>3, <2>1, HeldPackets, SentOrKept DEF Transmit, Hearing
<1>4. CASE RootSlot
  <2>1. UNCHANGED <<slot, offset>>
    BY <1>4 DEF RootSlot, Stays
  <2>2. CASE slot = 0
    <3>1. /\ Goes(Root, "steady", "wait") /\ NoteLate
          /\ \E id \in {0, 1} : Transmit(Root, Pkt(id, <<>>))
      BY <1>4, <2>2 DEF RootSlot
    <3>2. PICK id \in {0, 1} : Transmit(Root, Pkt(id, <<>>))
      BY <3>1
    <3>3. Pkt(id, <<>>) \in Packet
      BY HeldPackets
    <3> QED
      BY <1>4, <2>1, <2>2, <3>1, <3>2, <3>3, SentOrKept DEF Transmit, Hearing
  <2>3. CASE slot # 0
    <3>1. Listen(Root, Timeout) /\ UNCHANGED late
      BY <1>4, <2>3 DEF RootSlot, Enable
    <3>2. k # Root
      BY <3>1 DEF Listen, Live, AirOK
    <3>3. SameRadio(k)
      BY <3>1, <3>2 DEF Listen, SameRadio, AirOK
    <3> QED
      BY <2>1, <3>1, <3>3, SameKeeps
  <2> QED
    BY <2>2, <2>3
<1>5. CASE RootMapped \/ RootCounts
  <2>1. PICK e \in Packet : Handle(Root, e)
    BY <1>5, HeldPackets DEF RootMapped, RootCounts, Handle
  <2>2. auto_re_tx[Root] = FALSE
    BY <1>5 DEF RootMapped, RootCounts, At, ModesOK
  <2>3. k # Root
    BY <2>1, <2>2 DEF Handle, Live, AirOK
  <2>4. SameRadio(k)
    BY <2>1, <2>3 DEF Handle, SameRadio, AirOK
  <2> QED
    BY <1>5, <2>4, SameKeeps DEF RootMapped, RootCounts, rootVars
<1>6. ASSUME NEW n \in Node, NodeStep(n)
      PROVE  Keeping(k) \/ Ageing(k) \/ Editing(k) \/ Hearing(k)
  <2>1. CASE NextPhase(n) \/ PrepareToSend(n) \/ LeafReady(n)
    BY <2>1, SameKeeps DEF NextPhase, PrepareToSend, LeafReady, flashVars, SameRadio, Stays,
       Unchanged
  <2>2. CASE AwaitSync(n) \/ ListenInStartup(n) \/ LeafSlot(n)
    <3>1. UNCHANGED <<slot, offset, late>>
      BY <2>2 DEF AwaitSync, ListenInStartup, LeafSlot, Stays, Unchanged
    <3>2. UNCHANGED flashVars \/ \E t \in Nat \cup {NoTimeout} : Listen(n, t)
      BY <2>2 DEF AwaitSync, ListenInStartup, LeafSlot, Enable
    <3>3. CASE UNCHANGED flashVars
      BY <3>1, <3>3, SameKeeps DEF flashVars, SameRadio
    <3>4. CASE \E t \in Nat \cup {NoTimeout} : Listen(n, t)
      <4>1. k # n
        BY <3>4 DEF Listen, Live, AirOK
      <4>2. SameRadio(k)
        BY <3>4, <4>1 DEF Listen, SameRadio, AirOK
      <4> QED
        BY <3>1, <4>2, SameKeeps
    <3> QED
      BY <3>2, <3>3, <3>4
  <2>3. CASE Flood(n)
    <3>1. Transmit(n, Outgoing(n)) /\ UNCHANGED <<slot, offset>> /\ NoteLate
      BY <2>3 DEF Flood, Stays
    <3> QED
      BY <2>3, <3>1, HeldPackets, SentOrKept DEF Transmit, Hearing
  <2>4. CASE LeafReceives(n)
    <3> DEFINE e == IF phase[n] = "phase1" THEN Relayed(n, frame[n]) ELSE frame[n]
    <3>1. Handle(n, e) /\ n \in Leaf /\ UNCHANGED <<slot, offset, late>>
      BY <2>4 DEF LeafReceives, rootVars
    <3>2. CASE k = n
      <4>1. flash[n] = "received" /\ Held(n) = frame[n] /\ Live(n)
        BY <3>1 DEF Handle, Held, Live
      <4>2. flash'[n] = "resend" /\ left'[n] = left[n] /\ flash_buf'[n] = e
        BY <3>1 DEF Handle, AirOK, ModesOK
      <4>3. Held(n)' = e
        BY <4>2 DEF Held
      <4> QED
        BY <2>4, <3>1, <3>2, <4>1, <4>2, <4>3 DEF Editing
    <3>3. CASE k # n
      <4>1. SameRadio(k)
        <5> HIDE DEF e
        <5> QED BY <3>1, <3>3 DEF Handle, SameRadio, AirOK
      <4> QED
        BY <3>1, <4>1, SameKeeps
    <3> QED
      BY <3>2, <3>3
  <2>5. CASE LeafResends(n)
    <3>1. Resend(n) /\ UNCHANGED <<slot, offset>> /\ NoteLate
      BY <2>5 DEF LeafResends, rootVars
    <3>2. flash_buf[n] \in Packet
      BY <3>1, HeldPackets DEF Resend
    <3> QED
      BY <2>5, <3>1, <3>2, SentOrKept DEF Resend, Hearing
  <2>6. CASE NoMessage(n)
    <3>1. TimedOut(n) /\ UNCHANGED <<slot, offset, late>>
      BY <2>6 DEF NoMessage, rootVars
    <3>2. k # n
      BY <3>1 DEF TimedOut, Live, AirOK
    <3>3. SameRadio(k)
      BY <3>1, <3>2 DEF TimedOut, SameRadio, AirOK
    <3> QED
      BY <3>1, <3>3, SameKeeps
  <2> QED
    BY <1>6, <2>1, <2>2, <2>3, <2>4, <2>5, <2>6 DEF NodeStep
<1>7. CASE UNCHANGED tdmaVars
  BY <1>7, SameKeeps DEF tdmaVars, flashVars, SameRadio
<1> QED
  BY <1>1, <1>2, <1>3, <1>4, <1>5, <1>6, <1>7 DEF TdmaNext, RootStep

-----------------------------------------------------------------------------
(* The slot of a packet.                                                    *)

\* Until the root sends the sync message no time passes: the leaves begin to listen.
StartOK ==
  phase[Root] = "sync" =>
    /\ slot = 0 /\ offset = 0 /\ act[Root] \in {"decide", "send"}
    /\ \A n \in Leaf : /\ phase[n] = "sync" /\ time_synchronized[n] = FALSE
                       /\ frame[n] = NoFrame
                       /\ flash[n] = "idle" => act[n] = "decide"
                       /\ flash[n] # "idle" =>
                            flash[n] = "listen" /\ left[n] = NoTimeout /\ rx_on[n] = TRUE
    /\ act[Root] = "send" => \A n \in Leaf : flash[n] = "listen"

\* No node is ever put back into the first phase.
LEMMA SyncIsFirst ==
  ASSUME BaseInv, [TdmaNext]_tdmaVars, NEW n \in Node, phase'[n] = "sync"
  PROVE  phase[n] = "sync"
<1> USE NodeFacts DEF BaseInv, TypeInv, NodesOK, Goes, Enable
<1>1. CASE Tick \/ UNCHANGED tdmaVars
  BY <1>1 DEF Tick, tdmaVars, nodeVars
<1>2. CASE RootBoot \/ RootSync
  BY <1>2 DEF RootBoot, RootSync, At
<1>5. CASE RootReady \/ RootSlot
  BY <1>5 DEF RootReady, RootSlot
<1>3. CASE RootMapped \/ RootCounts
  BY <1>3 DEF RootMapped, RootCounts
<1>4. ASSUME NEW k \in Node, NodeStep(k) PROVE phase[n] = "sync"
  <2>1. CASE NextPhase(k) \/ LeafReady(k)
    BY <2>1 DEF NextPhase, LeafReady
  <2>2. CASE AwaitSync(k)
    BY <2>2 DEF AwaitSync, At
  <2>3. CASE ListenInStartup(k) \/ PrepareToSend(k) \/ LeafSlot(k) \/ Flood(k)
    BY <2>3 DEF ListenInStartup, PrepareToSend, LeafSlot, Flood
  <2>4. CASE LeafReceives(k) \/ LeafResends(k) \/ NoMessage(k)
    BY <2>4 DEF LeafReceives, LeafResends, NoMessage
  <2> QED
    BY <1>4, <2>1, <2>2, <2>3, <2>4 DEF NodeStep
<1> QED
  BY <1>1, <1>2, <1>3, <1>4, <1>5 DEF TdmaNext, RootStep

\* The nodes begin before the sync message, ...
LEMMA StartInit == TdmaInit => StartOK
BY NodeFacts DEF TdmaInit, FlashInit, StartOK

\* ... and no step but that of the root leaves this stage.
LEMMA StartNext ==
  ASSUME BaseInv, StartOK, [TdmaNext]_tdmaVars
  PROVE  StartOK'
<1> SUFFICES ASSUME phase'[Root] = "sync"
             PROVE  StartOK'
  BY DEF StartOK
<1>1. phase[Root] = "sync"
  BY SyncIsFirst, NodeFacts
<1> USE NodeFacts DEF BaseInv, TypeInv, ModesOK, NodesOK, AirOK, Goes, StartOK
<1>2. CASE Tick
  BY <1>1, <1>2 DEF Tick, Settled
<1>3. CASE RootBoot
  BY <1>1, <1>3 DEF RootBoot, Unchanged, Stays, At, SetRetransmit
<1>4. CASE RootSync \/ RootReady \/ RootSlot \/ RootMapped \/ RootCounts
  BY <1>1, <1>4 DEF RootSync, RootReady, RootSlot, RootMapped, RootCounts, AtTop, At
<1>5. ASSUME NEW n \in Node, NodeStep(n) PROVE StartOK'
  <2>1. CASE n = Root
    BY <1>1, <1>5, <2>1 DEF NodeStep, NextPhase, AwaitSync, ListenInStartup, PrepareToSend,
       Flood, LeafReady, LeafSlot, LeafReceives, LeafResends, NoMessage, AtTop
  <2>2. CASE n \in Leaf
    <3>1. AwaitSync(n)
      BY <1>1, <1>5, <2>2 DEF NodeStep, NextPhase, ListenInStartup, PrepareToSend,
         Flood, LeafReady, LeafSlot, LeafReceives, LeafResends, NoMessage, AtTop,
         Handle, Resend, TimedOut, NoTimeout
    <3>2. Goes(n, "sync", "flash") /\ Listen(n, NoTimeout) /\ Unchanged /\ flash[n] = "idle"
      BY <1>1, <2>2, <3>1 DEF AwaitSync, At
    <3> QED
      BY <1>1, <2>2, <3>2 DEF Listen, Unchanged, Stays
  <2> QED
    BY <2>1, <2>2
<1>6. CASE UNCHANGED tdmaVars
  BY <1>1, <1>6 DEF tdmaVars, nodeVars, flashVars
<1> QED
  BY <1>2, <1>3, <1>4, <1>5, <1>6 DEF TdmaNext, RootStep

\* Who is about to send does so in the slot that is his, the root in the slots whose
\* routes it distributes; only a node's own slot is FLOOD in its table.
SendersOK ==
  /\ \A n \in Node : act[n] = "send" /\ phase[n] # "sync" /\ SlotLen > 1 =>
       /\ slot # 0
       /\ n \in Leaf => slot = n
       /\ n = Root => phase[n] = "phase2"
  /\ \A n \in Leaf : act[n] = "send" => phase[n] # "sync"
  /\ \A n \in Leaf : \A s \in Slot : time_slots[n][s] = "FLOOD" => s = n

\* Nobody is about to send at first; ...
LEMMA SendersInit == TdmaInit => SendersOK
<1> SUFFICES ASSUME TdmaInit PROVE SendersOK
  OBVIOUS
<1>1. \A n \in Node : act[n] = "decide"
  BY DEF TdmaInit
<1>2. \A n \in Leaf : \A s \in Slot : time_slots[n][s] = "OFF"
  BY DEF TdmaInit
<1> QED
  BY <1>1, <1>2, NodeFacts DEF SendersOK

\* ... who is, has seen in the slot and in its table that it may.
LEMMA SendersNext ==
  ASSUME BaseInv, SendersOK, StartOK, [TdmaNext]_tdmaVars
  PROVE  SendersOK'
<1> DEFINE Sender(n) == act[n] = "send" /\ phase[n] # "sync" /\ SlotLen > 1 =>
              slot # 0 /\ (n \in Leaf => slot = n) /\ (n = Root => phase[n] = "phase2")
<1> USE NodeFacts DEF BaseInv, TypeInv, NodesOK
<1>1. \A n \in Leaf : \A s \in Slot : time_slots'[n][s] = "FLOOD" => s = n
  <2>1. CASE UNCHANGED tableVars \/ UNCHANGED time_slots
    BY <2>1 DEF SendersOK, tableVars
  <2>2. ASSUME NEW n \in Node, LeafReady(n)
        PROVE  \A k \in Leaf : \A s \in Slot : time_slots'[k][s] = "FLOOD" => s = k
    BY <2>2 DEF LeafReady, SendersOK, TablesOK
  <2>3. ASSUME NEW n \in Node, LeafReceives(n)
        PROVE  \A k \in Leaf : \A s \in Slot : time_slots'[k][s] = "FLOOD" => s = k
    BY <2>3 DEF LeafReceives, SendersOK, TablesOK, TableEntry
  <2> QED
    BY <2>1, <2>2, <2>3 DEF TdmaNext, RootStep, NodeStep, Tick, RootBoot, RootSync, RootReady,
       RootSlot, RootMapped, RootCounts, NextPhase, AwaitSync, ListenInStartup, PrepareToSend,
       Flood, LeafSlot, LeafResends, NoMessage, tdmaVars, tableVars
<1>2. /\ \A n \in Node : Sender(n)'
      /\ \A n \in Leaf : act'[n] = "send" => phase'[n] # "sync"
  <2> USE DEF Goes, Enable, Returns
  <2>0. /\ \A n \in Node : Sender(n)
        /\ \A n \in Leaf : act[n] = "send" => phase[n] # "sync"
    BY DEF SendersOK
  <2>1. CASE Tick
    <3>1. UNCHANGED <<phase, act>>
      BY <2>1 DEF Tick, nodeVars
    <3>2. ASSUME NEW n \in Node, act[n] = "send", phase[n] # "sync", SlotLen > 1
          PROVE  slot' = slot
      <4>1. offset = 0
        BY <2>1, <3>2 DEF Tick, Settled
      <4>2. offset' = 1
        BY <2>1, <3>2, <4>1 DEF Tick
      <4> QED
        BY <2>1, <4>2 DEF Tick
    <3> QED
      BY <2>0, <3>1, <3>2
  <2>2. CASE RootBoot
    BY <2>0, <2>2 DEF RootBoot, Unchanged, Stays
  <2>3. CASE RootSync \/ RootReady \/ RootSlot
    BY <2>0, <2>3 DEF RootSync, RootReady, RootSlot, Unchanged, Stays
  <2>4. CASE RootMapped \/ RootCounts
    BY <2>0, <2>4 DEF RootMapped, RootCounts
  <2>5. ASSUME NEW n \in Node, NodeStep(n)
        PROVE  /\ \A k \in Node : Sender(k)'
               /\ \A k \in Leaf : act'[k] = "send" => phase'[k] # "sync"
    <3>1. CASE NextPhase(n) \/ LeafReady(n) \/ LeafSlot(n) \/ Flood(n) \/ ListenInStartup(n)
      BY <2>0, <3>1 DEF NextPhase, LeafReady, LeafSlot, Flood, ListenInStartup, Unchanged, Stays
    <3>2. CASE AwaitSync(n)
      BY <2>0, <3>2 DEF AwaitSync, Unchanged, Stays
    <3>3. CASE PrepareToSend(n)
      <4>1. /\ slot # 0 /\ slot' = slot /\ Goes(n, phase[n], "send")
            /\ n \in Leaf => slot = n /\ phase[n] # "sync"
            /\ n = Root => phase[n] = "phase2"
        BY <3>3 DEF PrepareToSend, AtTop, SendersOK, Unchanged, Stays, ClockOK, Slot, Leaf, Root
      <4> QED
        BY <2>0, <4>1
    <3>4. CASE LeafReceives(n) \/ LeafResends(n) \/ NoMessage(n)
      BY <2>0, <3>4 DEF LeafReceives, LeafResends, NoMessage
    <3> QED
      BY <2>5, <3>1, <3>2, <3>3, <3>4 DEF NodeStep
  <2>6. CASE UNCHANGED tdmaVars
    BY <2>0, <2>6 DEF tdmaVars, nodeVars
  <2> QED
    BY <2>1, <2>2, <2>3, <2>4, <2>5, <2>6 DEF TdmaNext, RootStep
<1> QED
  BY <1>1, <1>2 DEF SendersOK

\* A packet is passed on within HopTime ticks; when that may be after the end of the
\* slot, late says so.
DeadlineOK ==
  \A n \in Node : Live(n) =>
    /\ left[n] \in 0..HopTime
    /\ offset + left[n] >= SlotLen => late = 2

\* Nothing is under way at first; ...
LEMMA DeadlineInit == TdmaInit => DeadlineOK
BY DEF TdmaInit, FlashInit, DeadlineOK, Live

\* ... a packet under way has a deadline, and late is set by whoever sends it too late.
LEMMA DeadlineNext ==
  ASSUME HopTime < SlotLen, BaseInv, StartOK, DeadlineOK, [TdmaNext]_tdmaVars
  PROVE  DeadlineOK'
<1> SUFFICES ASSUME NEW n \in Node, Live(n)'
             PROVE  /\ left'[n] \in 0..HopTime
                    /\ offset' + left'[n] >= SlotLen => late' = 2
  BY DEF DeadlineOK
<1> USE NodeFacts DEF BaseInv, TypeInv, ClockOK, DeadlineOK
<1>1. CASE Keeping(n)
  BY <1>1 DEF Keeping, NoteLate
<1>2. CASE Ageing(n)
  <2>1. left[n] \in 1..HopTime /\ left'[n] = left[n] - 1
    BY <1>2 DEF Ageing, NoTimeout
  <2>2. CASE offset + 1 = SlotLen
    <3>1. offset' = 0
      BY <1>2, <2>2 DEF Ageing, Tick
    <3> QED
      BY <2>1, <3>1
  <2>3. CASE offset + 1 # SlotLen
    <3>1. offset' = offset + 1
      BY <1>2, <2>3 DEF Ageing, Tick
    <3>2. late' = late
      BY <1>2, <3>1 DEF Ageing, Tick
    <3> QED
      BY <1>2, <2>1, <3>1, <3>2 DEF Ageing
  <2> QED
    BY <2>2, <2>3
<1>3. CASE Editing(n)
  BY <1>3 DEF Editing
<1>4. CASE Hearing(n)
  <2>1. PICK m \in Node :
          /\ left'[n] = HopTime /\ UNCHANGED <<slot, offset>>
          /\ Flood(m) \/ LeafResends(m) \/ RootSync \/ NoteLate
    BY <1>4 DEF Hearing
  <2>2. CASE RootSync
    <3>1. offset = 0
      BY <2>2 DEF RootSync, At, StartOK
    <3> QED
      BY <2>1, <3>1
  <2>3. CASE ~RootSync
    <3>1. NoteLate
      BY <2>1, <2>3 DEF Flood, LeafResends
    <3> QED
      BY <2>1, <3>1 DEF NoteLate
  <2> QED
    BY <2>2, <2>3
<1> QED
  BY <1>1, <1>2, <1>3, <1>4, LiveAfter

\* The root has sent its message of this slot 0.
RootHasSent == slot = 0 /\ act[Root] = "wait" /\ cycle[Root] = 0

\* A packet under way in slot 0, or once the root counts, is of this slot unless a flood
\* may have outlasted the one before; but for the messages of the root in slot 0.
StaleOK ==
  \A n \in Node : Live(n) /\ (phase[Root] = "steady" \/ slot = 0) /\ ~RootHasSent
    => Held(n).id = slot \/ late > 0

\* The root counts no packet of another slot but late ones.
CountsOK == failed = TRUE => late > 0

SlotInv == BaseInv /\ StartOK /\ SendersOK /\ DeadlineOK /\ StaleOK /\ CountsOK

\* Nothing is stale and nothing counted at first; ...
LEMMA StaleInit == TdmaInit => StaleOK /\ CountsOK
BY DEF TdmaInit, FlashInit, StaleOK, CountsOK, Live

\* Before the root sends nothing is under way.
LEMMA NothingBefore ==
  ASSUME BaseInv, StartOK, phase[Root] = "sync"
  PROVE  \A n \in Node : ~Live(n)
BY NodeFacts DEF BaseInv, ModesOK, StartOK, Live

\* Within a slot the root does not go back behind the point where it has sent, and begins
\* to count only in slot 0.
LEMMA RootMoves ==
  ASSUME BaseInv, StartOK, SendersOK, [TdmaNext]_tdmaVars, ~Tick,
         phase'[Root] = "steady" \/ slot' = 0, ~RootHasSent'
  PROVE  /\ slot' = slot /\ late' >= late
         /\ phase[Root] = "sync" \/ ((phase[Root] = "steady" \/ slot = 0) /\ ~RootHasSent)
<1> USE NodeFacts DEF BaseInv, TypeInv, ClockOK, NodesOK, Goes
<1>1. slot' = slot
  BY DEF TdmaNext, RootStep, NodeStep, RootBoot, RootSync, RootReady,
     RootSlot, RootMapped, RootCounts, NextPhase, AwaitSync, ListenInStartup, PrepareToSend,
     Flood, LeafReady, LeafSlot, LeafReceives, LeafResends, NoMessage, tdmaVars, Stays, Unchanged
<1>2. late' >= late
  <2>1. UNCHANGED late \/ NoteLate
    BY DEF TdmaNext, RootStep, NodeStep, RootBoot, RootSync, RootReady, rootVars,
       RootSlot, RootMapped, RootCounts, NextPhase, AwaitSync, ListenInStartup, PrepareToSend,
       Flood, LeafReady, LeafSlot, LeafReceives, LeafResends, NoMessage, tdmaVars, Unchanged
  <2> QED
    BY <2>1 DEF NoteLate
<1>3. phase[Root] = "sync" \/ ((phase[Root] = "steady" \/ slot = 0) /\ ~RootHasSent)
  <2>1. CASE RootBoot \/ RootSync
    BY <2>1 DEF RootBoot, RootSync, At
  <2>2. CASE RootReady \/ RootSlot
    BY <1>1, <2>2 DEF RootReady, RootSlot, AtTop, RootHasSent, Enable
  <2>3. CASE RootMapped \/ RootCounts
    BY <1>1, <2>3 DEF RootMapped, RootCounts, At, RootHasSent
  <2>4. ASSUME NEW n \in Node, NodeStep(n), n # Root
        PROVE  (phase[Root] = "steady" \/ slot = 0) /\ ~RootHasSent
    <3>1. phase'[Root] = phase[Root] /\ act'[Root] = act[Root] /\ cycle'[Root] = cycle[Root]
      BY <2>4 DEF NodeStep, NextPhase, AwaitSync, ListenInStartup, PrepareToSend,
         Flood, LeafReady, LeafSlot, LeafReceives, LeafResends, NoMessage, Enable, Returns
    <3> QED
      BY <1>1, <3>1 DEF RootHasSent
  <2>5. ASSUME NodeStep(Root)
        PROVE  (phase[Root] = "steady" \/ slot = 0) /\ ~RootHasSent
    <3>1. CASE NextPhase(Root)
      BY <1>1, <3>1 DEF NextPhase, RootHasSent
    <3>2. CASE ListenInStartup(Root) \/ PrepareToSend(Root)
      BY <1>1, <3>2 DEF ListenInStartup, PrepareToSend, AtTop, Enable
    <3>3. CASE Flood(Root)
      <4>1. act[Root] = "send" /\ phase'[Root] = phase[Root] /\ offset > 0
        BY <3>3 DEF Flood
      <4>2. CASE phase[Root] = "sync"
        BY <4>1, <4>2 DEF StartOK
      <4>3. CASE phase[Root] # "sync"
        <5>1. SlotLen > 1
          BY <4>1
        <5> QED
          BY <1>1, <4>1, <4>3, <5>1 DEF SendersOK
      <4> QED
        BY <4>2, <4>3
    <3>4. CASE NoMessage(Root)
      BY <1>1, <3>4 DEF NoMessage, RootHasSent
    <3> QED
      BY <2>5, <3>1, <3>2, <3>3, <3>4 DEF NodeStep, AwaitSync, LeafReady, LeafSlot, LeafReceives,
         LeafResends
  <2>6. CASE UNCHANGED tdmaVars
    BY <2>6 DEF tdmaVars, nodeVars, RootHasSent
  <2> QED
    BY <2>1, <2>2, <2>3, <2>4, <2>5, <2>6 DEF TdmaNext, RootStep
<1> QED
  BY <1>1, <1>2, <1>3

\* What is under way is of this slot unless it came over the end of the last: the
\* deadline had set late, and it stays set for one slot more.
LEMMA StaleNext ==
  ASSUME SlotInv, [TdmaNext]_tdmaVars
  PROVE  StaleOK'
<1> SUFFICES ASSUME NEW n \in Node, Live(n)', phase'[Root] = "steady" \/ slot' = 0,
                    ~RootHasSent'
             PROVE  Held(n)'.id = slot' \/ late' > 0
  BY DEF StaleOK
<1> USE NodeFacts DEF SlotInv
<1>1. CASE Tick
  <2>1. phase' = phase /\ act' = act /\ cycle' = cycle
    BY <1>1 DEF Tick, nodeVars
  <2>2. Ageing(n)
    BY <1>1, LiveAfter DEF Keeping, Editing, Hearing, Ageing, Live, Held, Tick, FlashTick
  <2>3. left[n] \in 1..HopTime
    BY <2>2 DEF DeadlineOK, Ageing
  <2>4. CASE offset + 1 = SlotLen
    <3>1. offset' = 0 /\ offset + left[n] >= SlotLen
      BY <1>1, <2>3, <2>4 DEF Tick, BaseInv, TypeInv, ClockOK
    <3>2. late = 2
      BY <2>2, <3>1 DEF DeadlineOK, Ageing
    <3> QED
      BY <1>1, <3>1, <3>2 DEF Tick
  <2>5. CASE offset + 1 # SlotLen
    <3>1. offset' = offset + 1 /\ offset' # 0
      BY <1>1, <2>5 DEF Tick, BaseInv, TypeInv, ClockOK
    <3>2. slot' = slot /\ late' = late
      BY <1>1, <3>1 DEF Tick
    <3> QED
      BY <2>1, <2>2, <3>2 DEF StaleOK, Ageing, RootHasSent
  <2> QED
    BY <2>4, <2>5
<1>2. CASE ~Tick
  <2>1. /\ slot' = slot /\ late' >= late
        /\ phase[Root] = "sync" \/ ((phase[Root] = "steady" \/ slot = 0) /\ ~RootHasSent)
    BY <1>2, RootMoves
  <2>2. \A k \in Node : Live(k) => Held(k).id = slot \/ late > 0
    BY <2>1, NothingBefore DEF StaleOK
  <2>3. late > 0 => late' > 0
    <3>1. late \in Int /\ late' \in Int
      BY BaseNext DEF BaseInv, TypeInv, ClockOK
    <3> QED
      BY <2>1, <3>1
  <2>4. CASE Keeping(n)
    BY <2>1, <2>2, <2>3, <2>4 DEF Keeping
  <2>5. CASE Editing(n)
    <3>1. Held(n) \in Packet
      BY <2>5 DEF Editing, BaseInv, TypeInv, AirOK
    <3>2. Held(n)'.id = Held(n).id
      BY <2>5, <3>1, RelayedFacts DEF Editing
    <3> QED
      BY <2>1, <2>2, <2>3, <2>5, <3>2 DEF Editing
  <2>6. CASE Hearing(n)
    <3>1. PICK m \in Node :
            /\ Woken(m, n) /\ m # n
            /\ \/ Flood(m) /\ Held(n)' = Outgoing(m)
               \/ LeafResends(m) /\ Held(n)' = flash_buf[m]
               \/ m = Root /\ RootSync
               \/ m = Root /\ slot = 0 /\ Goes(Root, "steady", "wait")
      BY <2>6 DEF Hearing
    <3>2. CASE Flood(m) /\ Held(n)' = Outgoing(m)
      <4>1. act[m] = "send" /\ offset > 0 /\ Goes(m, phase[m], "wait")
        BY <3>2 DEF Flood
      <4>2. SlotLen > 1
        BY <4>1 DEF BaseInv, TypeInv, ClockOK
      <4>3. CASE m \in Leaf
        <5>1. slot = m
          BY <4>1, <4>2, <4>3 DEF SendersOK
        <5>2. m # Root
          BY <4>3
        <5> QED
          BY <2>1, <3>2, <5>1, <5>2 DEF Outgoing, Pkt
      <4>4. CASE m = Root
        <5>1. phase[Root] # "sync"
          BY <4>1, <4>4 DEF StartOK
        <5>2. slot # 0 /\ phase[Root] = "phase2"
          BY <4>1, <4>2, <4>4, <5>1 DEF SendersOK
        <5> QED
          BY <2>1, <5>2
      <4> QED
        BY <4>3, <4>4
    <3>3. CASE LeafResends(m) /\ Held(n)' = flash_buf[m]
      <4>1. Live(m) /\ Held(m) = flash_buf[m]
        BY <3>3 DEF LeafResends, Resend, Live, Held
      <4> QED
        BY <2>1, <2>2, <2>3, <3>3, <4>1
    <3>4. CASE RootSync \/ (slot = 0 /\ Goes(Root, "steady", "wait"))
      <4>1. slot = 0 /\ act'[Root] = "wait" /\ cycle'[Root] = 0
        BY <3>4 DEF RootSync, Goes, At, StartOK, BaseInv, TypeInv, NodesOK
      <4> QED
        BY <2>1, <4>1 DEF RootHasSent
    <3> QED
      BY <3>1, <3>2, <3>3, <3>4
  <2>7. ~Ageing(n)
    BY <1>2 DEF Ageing
  <2> QED
    BY <2>4, <2>5, <2>6, <2>7, LiveAfter
<1> QED
  BY <1>1, <1>2

\* So what the root counts in another slot than its own came late.
LEMMA CountsNext ==
  ASSUME SlotInv, [TdmaNext]_tdmaVars
  PROVE  CountsOK'
<1> USE NodeFacts DEF SlotInv, BaseInv, TypeInv, ClockOK, CountsOK
<1>1. CASE Tick
  <2>1. CASE offset' = 0
    BY <1>1, <2>1 DEF Tick
  <2>2. CASE offset' # 0
    BY <1>1, <2>2 DEF Tick
  <2> QED
    BY <2>1, <2>2
<1>2. CASE RootCounts
  <2>1. Live(Root) /\ Held(Root) = frame[Root] /\ phase[Root] = "steady" /\ ~RootHasSent
    BY <1>2 DEF RootCounts, Handle, Live, Held, At, RootHasSent
  <2>2. frame[Root].id = slot \/ late > 0
    BY <2>1 DEF StaleOK
  <2>3. late' = late
    BY <1>2 DEF RootCounts
  <2>4. CASE frame[Root].id = slot
    <3>1. failed' = failed
      BY <1>2, <2>4 DEF RootCounts
    <3> QED
      BY <2>3, <3>1
  <2>5. CASE frame[Root].id # slot
    BY <2>2, <2>3, <2>5
  <2> QED
    BY <2>4, <2>5
<1>3. CASE ~Tick /\ ~RootCounts
  <2>1. failed' = failed
    BY <1>3 DEF TdmaNext, RootStep, NodeStep, RootBoot, RootSync, RootReady, rootVars,
       RootSlot, RootMapped, NextPhase, AwaitSync, ListenInStartup, PrepareToSend,
       Flood, LeafReady, LeafSlot, LeafReceives, LeafResends, NoMessage, tdmaVars, Unchanged, Stays
  <2>2. UNCHANGED late \/ NoteLate
    BY <1>3 DEF TdmaNext, RootStep, NodeStep, RootBoot, RootSync, RootReady, rootVars,
       RootSlot, RootMapped, NextPhase, AwaitSync, ListenInStartup, PrepareToSend,
       Flood, LeafReady, LeafSlot, LeafReceives, LeafResends, NoMessage, tdmaVars, Unchanged
  <2>3. CASE UNCHANGED late
    BY <2>1, <2>3
  <2>4. CASE NoteLate
    <3>1. late' = late \/ late' = 2
      BY <2>4 DEF NoteLate
    <3> QED
      BY <2>1, <3>1
  <2> QED
    BY <2>2, <2>3, <2>4
<1> QED
  BY <1>1, <1>2, <1>3

\* The root never counts a packet of another slot in the current one unless a flood may
\* have outlasted its slot: in any network and with any timing, as long as one hop takes
\* less than a slot.
THEOREM SlotErrorsAreLate ==
  ASSUME HopTime < SlotLen
  PROVE  TdmaSpec => []NoSlotError
<1>1. TdmaInit => SlotInv
  BY BaseInit, StartInit, SendersInit, DeadlineInit, StaleInit DEF SlotInv
<1>2. SlotInv /\ [TdmaNext]_tdmaVars => SlotInv'
  BY BaseNext, StartNext, SendersNext, DeadlineNext, StaleNext, CountsNext DEF SlotInv
<1>3. SlotInv => NoSlotError
  BY DEF SlotInv, CountsOK, NoSlotError
<1> QED
  BY <1>1, <1>2, <1>3, PTL DEF TdmaSpec

-----------------------------------------------------------------------------
(* The startup, when a flood fits into a slot and every relay into a packet.*)

\* A flood begins one tick into a slot and takes a hop per node at most; a packet has room
\* for every leaf but its origin.
FloodFits == 1 + (NUM_NODES - 1) * HopTime < SlotLen
RouteFits == PKT_LEN >= NUM_NODES

\* A node that has sent nothing yet.
Silent(m) ==
  /\ phase[m] = "sync"
  /\ m \in Leaf => ~(act[m] = "decide" /\ time_synchronized[m] = TRUE)

\* A leaf that still listens for the sync message hears whatever is sent in its reach, and
\* nothing has been sent there.
Outside(n) == phase[n] = "sync" /\ flash[n] = "listen"

OutsideOK ==
  \A n \in Leaf : Outside(n) =>
    /\ rx_on[n] = TRUE /\ frame[n] = NoFrame /\ left[n] = NoTimeout
    /\ time_synchronized[n] = FALSE
    /\ \A m \in Node : <<m, n>> \in link => Silent(m)

\* Where the leaves are while the sync message floods, ...
SyncPkt == Pkt(SYNC, <<>>)
LeafFirst(n) ==
  \/ Outside(n)
  \/ /\ phase[n] = "sync" /\ flash[n] = "received" /\ frame[n] = SyncPkt
     /\ time_synchronized[n] = FALSE
  \/ /\ phase[n] = "sync" /\ flash[n] = "resend" /\ flash_buf[n] = SyncPkt
     /\ time_synchronized[n] = TRUE
  \/ phase[n] = "sync" /\ act[n] = "decide" /\ time_synchronized[n] = TRUE
  \/ phase[n] = "phase1" /\ act[n] = "wait" /\ cycle[n] = 0

Sent == {n \in Node : ~Silent(n)}
First == phase[Root] = "phase1" /\ act[Root] = "wait" /\ slot = 0
FirstOK ==
  /\ cycle[Root] = 0
  /\ \A n \in Leaf : LeafFirst(n)
  /\ \A n \in Leaf : Live(n) => offset + left[n] <= Cardinality(Sent) * HopTime

\* ... while the root learns the routes, ...
LeafMapping(n) ==
  \/ Outside(n)
  \/ /\ phase[n] = "phase1"
     /\ act[n] = "wait" => cycle[n] = slot \/ offset = 0
     /\ act[n] = "flash" => cycle[n] = slot /\ slot # n
     /\ flash[n] = "listen" => left[n] + offset = SlotLen - 1
     /\ act[n] = "send" => slot = n /\ offset <= 1 /\ cycle[n] = slot
     /\ act[n] # "decide"

\* A leaf that has sent what it had to in this slot.
Done(h) == h \in Leaf /\ phase[h] = "phase1" /\ act[h] = "wait" /\ cycle[h] = slot

\* The nodes a packet has come along are distinct and in reach of each other, and have all
\* sent it; no more time has passed than they took.
Way(s, route) == <<s>> \o route
Trail(n, p) ==
  /\ p.id = slot
  /\ IsInjective(Way(slot, p.route))
  /\ \A i \in 1..Len(p.route) :
       /\ <<Way(slot, p.route)[i], Way(slot, p.route)[i + 1]>> \in link
       /\ Done(Way(slot, p.route)[i])
  /\ \/ /\ flash[n] = "received" /\ Done(Way(slot, p.route)[Len(p.route) + 1])
        /\ <<Way(slot, p.route)[Len(p.route) + 1], n>> \in link
        /\ offset + left[n] <= 1 + (Len(p.route) + 1) * HopTime
     \/ /\ flash[n] = "resend" /\ Way(slot, p.route)[Len(p.route) + 1] = n /\ n \in Leaf
        /\ offset + left[n] <= 1 + Len(p.route) * HopTime

Mapping == phase[Root] = "phase1" /\ slot # 0
MappingOK ==
  /\ \A n \in Leaf : LeafMapping(n)
  /\ act[Root] \in {"wait", "decide", "flash"}
  /\ act[Root] = "wait" => cycle[Root] = 0 /\ offset = 0
  /\ flash[Root] = "listen" => left[Root] \in 0..SlotLen-1
  /\ \A n \in Node : \A p \in Packet : Live(n) /\ Held(n) = p => Trail(n, p)

\* ... in slot 0 after it, in which everybody goes on to phase 2, ...
LeafClosing(n) ==
  \/ Outside(n)
  \/ phase[n] = "phase1" /\ act[n] = "wait" /\ cycle[n] # 0
  \/ phase[n] = "phase2" /\ act[n] = "wait" /\ cycle[n] = 0

Closing ==
  /\ slot = 0
  /\ \/ phase[Root] = "phase1" /\ act[Root] # "wait"
     \/ phase[Root] = "phase2" /\ act[Root] = "wait" /\ cycle[Root] = 0
ClosingOK ==
  /\ \A n \in Node : ~Live(n)
  /\ \A n \in Leaf : LeafClosing(n)
  /\ phase[Root] = "phase1" =>
       /\ act[Root] \in {"decide", "flash"}
       /\ act[Root] = "flash" => left[Root] \in Nat /\ left[Root] + offset <= SlotLen - 2

\* ... and from then on: what is sent on is a route the root has, or has no relays.
After == phase[Root] \in {"phase2", "steady"} /\ ~Closing
AfterOK ==
  /\ \A n \in Leaf : Outside(n) \/ phase[n] \in {"phase2", "steady"}
  /\ phase[Root] = "phase2" => act[Root] \in {"wait", "send"}
  /\ \A n \in Node : Live(n) =>
       Held(n).route = <<>> \/ Held(n).route = shortest_paths[Held(n).id].route

\* Nobody relays before the routes are known, and then along the routes only.
TablesMade ==
  /\ phase[Root] \in {"sync", "phase1"} =>
       \A n \in Leaf : \A s \in Slot : time_slots[n][s] = "OFF"
  /\ \A n \in Leaf : \A s \in Leaf \ {n} :
       time_slots[n][s] = "LISTEN" => n \in Range(shortest_paths[s].route)

PathsMade ==
  \A s \in Slot : shortest_paths[s] # Nothing =>
    s \in Leaf /\ shortest_paths[s].id = s /\ IsRoute(s, shortest_paths[s].route)

StartupInv ==
  /\ OutsideOK
  /\ First => FirstOK
  /\ Mapping => MappingOK
  /\ Closing => ClosingOK
  /\ After => AfterOK

\* At any time the network is in one of these.
LEMMA Stages ==
  ASSUME BaseInv
  PROVE  phase[Root] = "sync" \/ First \/ Mapping \/ Closing \/ After
BY NodeFacts DEF BaseInv, TypeInv, NodesOK, First, Mapping, Closing, After

\* No more leaves than fit are on a way.
LEMMA WayFacts ==
  ASSUME NEW s \in Leaf, NEW r \in Seq(Leaf)
  PROVE  /\ Way(s, r) \in Seq(Leaf) /\ Len(Way(s, r)) = Len(r) + 1
         /\ DOMAIN Way(s, r) = 1..Len(r)+1
         /\ Way(s, r)[1] = s /\ \A i \in 1..Len(r) : Way(s, r)[i + 1] = r[i]
BY DEF Way

\* Nodes that are distinct and leaves are fewer than NUM_NODES.
LEMMA WayIsShort ==
  ASSUME NEW s \in Leaf, NEW r \in Seq(Leaf), IsInjective(Way(s, r))
  PROVE  Len(r) + 2 <= NUM_NODES
<1> DEFINE w == Way(s, r)
           n == Len(r) + 1
<1>1. n \in Nat /\ w \in [1..n -> Leaf]
  BY WayFacts
<1>2. w \in Injection(1..n, Leaf)
  BY <1>1 DEF Injection
<1>3. IsFiniteSet(Leaf) /\ Cardinality(Leaf) = NUM_NODES - 1
  <2>1. 1 \in Int /\ NUM_NODES - 1 \in Int /\ NUM_NODES >= 2
    BY NodeFacts
  <2>2. IsFiniteSet(1..NUM_NODES-1) /\
        Cardinality(1..NUM_NODES-1) = IF 1 > NUM_NODES - 1 THEN 0 ELSE NUM_NODES - 1 - 1 + 1
    BY <2>1, FS_Interval
  <2> QED
    BY <2>1, <2>2 DEF Leaf
<1>4. Cardinality(1..n) = n
  <2>1. Cardinality(1..n) = IF 1 > n THEN 0 ELSE n - 1 + 1
    BY <1>1, FS_Interval
  <2> QED
    BY <1>1, <2>1
<1>5. Cardinality(1..n) <= Cardinality(Leaf)
  BY <1>2, <1>3, FS_Injection
<1> HIDE DEF w
<1> QED
  BY <1>1, <1>3, <1>4, <1>5, NodeFacts

\* A leaf that is not on the way fits as well.
LEMMA WayGrows ==
  ASSUME NEW s \in Leaf, NEW r \in Seq(Leaf), NEW n \in Leaf, IsInjective(Way(s, r)),
         \A i \in 1..Len(r)+1 : Way(s, r)[i] # n
  PROVE  /\ Append(r, n) \in Seq(Leaf) /\ Len(Append(r, n)) = Len(r) + 1
         /\ IsInjective(Way(s, Append(r, n)))
         /\ \A i \in 1..Len(r)+1 : Way(s, Append(r, n))[i] = Way(s, r)[i]
         /\ Way(s, Append(r, n))[Len(r) + 2] = n
<1> DEFINE q == Append(r, n)
<1>1. /\ q \in Seq(Leaf) /\ Len(q) = Len(r) + 1 /\ Len(r) \in Nat
      /\ \A i \in 1..Len(r) : q[i] = r[i]
      /\ q[Len(r) + 1] = n
  OBVIOUS
<1> HIDE DEF q
<1>2. /\ Way(s, q)[1] = s /\ \A i \in 1..Len(r)+1 : Way(s, q)[i + 1] = q[i]
      /\ DOMAIN Way(s, q) = 1..Len(r)+2
      /\ Way(s, r)[1] = s /\ \A i \in 1..Len(r) : Way(s, r)[i + 1] = r[i]
      /\ DOMAIN Way(s, r) = 1..Len(r)+1
  <2>1. Len(q) + 1 = Len(r) + 2 /\ 1..Len(q) = 1..Len(r)+1
    BY <1>1
  <2>2. /\ Way(s, q)[1] = s /\ \A i \in 1..Len(q) : Way(s, q)[i + 1] = q[i]
        /\ DOMAIN Way(s, q) = 1..Len(q)+1
    BY <1>1, WayFacts
  <2>3. DOMAIN Way(s, q) = 1..Len(r)+2
    BY <2>1, <2>2
  <2> QED
    BY <2>1, <2>2, <2>3, WayFacts
<1>3. Way(s, q)[Len(r) + 2] = n
  <2>1. Len(r) + 1 \in 1..Len(r)+1 /\ (Len(r) + 1) + 1 = Len(r) + 2
    BY <1>1
  <2> QED
    BY <1>1, <1>2, <2>1
<1>4. \A i \in 1..Len(r)+1 : Way(s, q)[i] = Way(s, r)[i]
  <2> SUFFICES ASSUME NEW i \in 1..Len(r)+1 PROVE Way(s, q)[i] = Way(s, r)[i]
    OBVIOUS
  <2>1. CASE i = 1
    BY <1>2, <2>1
  <2>2. CASE i # 1
    <3>1. i - 1 \in 1..Len(r) /\ i - 1 \in 1..Len(r)+1 /\ (i - 1) + 1 = i
      BY <1>1, <2>2
    <3> QED
      BY <1>1, <1>2, <3>1
  <2> QED
    BY <2>1, <2>2
<1>5. IsInjective(Way(s, q))
  <2> SUFFICES ASSUME NEW a \in 1..Len(r)+2, NEW b \in 1..Len(r)+2, Way(s, q)[a] = Way(s, q)[b]
               PROVE  a = b
    BY <1>2 DEF IsInjective
  <2>1. (a \in 1..Len(r)+1 \/ a = Len(r) + 2) /\ (b \in 1..Len(r)+1 \/ b = Len(r) + 2)
    BY <1>1
  <2>2. \A i, j \in 1..Len(r)+1 : Way(s, r)[i] = Way(s, r)[j] => i = j
    BY <1>2 DEF IsInjective
  <2> QED
    BY <1>3, <1>4, <2>1, <2>2
<1> QED
  BY <1>1, <1>3, <1>4, <1>5 DEF q

\* Hops take time.
LEMMA Hops ==
  ASSUME NEW j \in Nat, NEW k \in Nat
  PROVE  /\ (j + 1) * HopTime = j * HopTime + HopTime
         /\ j <= k => j * HopTime <= k * HopTime
         /\ j * HopTime \in Nat
BY NodeFacts

\* Only the sync message of the root and the first packet a leaf passes on break silence,
\* and it does not come back.
LEMMA SilenceEnds ==
  ASSUME BaseInv, SendersOK, OutsideOK, [TdmaNext]_tdmaVars, NEW m \in Node
  PROVE  /\ Silent(m)' => Silent(m)
         /\ Silent(m) /\ ~Silent(m)' =>
              (m = Root /\ RootSync) \/ (m \in Leaf /\ LeafResends(m) /\ phase[m] = "sync")
<1> USE NodeFacts DEF BaseInv, TypeInv, NodesOK, Goes, Enable, Silent
<1>1. CASE Tick \/ UNCHANGED tdmaVars
  BY <1>1 DEF Tick, tdmaVars, nodeVars
<1>2. CASE RootSync
  BY <1>2 DEF RootSync, Stays, Unchanged, At
<1>3. CASE RootBoot
  BY <1>3 DEF RootBoot, Stays, Unchanged, At
<1>4. CASE RootReady
  BY <1>4 DEF RootReady, AtTop
<1>6. CASE RootSlot
  BY <1>6 DEF RootSlot, Stays, AtTop
<1>7. CASE RootMapped \/ RootCounts
  BY <1>7 DEF RootMapped, RootCounts, At, Returns
<1>5. ASSUME NEW k \in Node, NodeStep(k)
      PROVE  /\ Silent(m)' => Silent(m)
             /\ Silent(m) /\ ~Silent(m)' => m \in Leaf /\ LeafResends(m) /\ phase[m] = "sync"
  <2>1. CASE NextPhase(k) \/ LeafReady(k)
    BY <2>1 DEF NextPhase, LeafReady, AtTop, Stays, Unchanged
  <2>2. CASE AwaitSync(k)
    <3>1. k \in Leaf /\ phase[k] = "sync" /\ act[k] = "decide" /\ UNCHANGED time_synchronized
      BY <2>2 DEF AwaitSync, At, Stays, Unchanged
    <3>2. CASE time_synchronized[k]
      BY <2>2, <3>1, <3>2 DEF AwaitSync
    <3>3. CASE ~time_synchronized[k]
      BY <2>2, <3>1, <3>3 DEF AwaitSync
    <3> QED
      BY <3>2, <3>3
  <2>3. CASE ListenInStartup(k) \/ PrepareToSend(k) \/ LeafSlot(k)
    BY <2>3 DEF ListenInStartup, PrepareToSend, LeafSlot, AtTop, Stays, Unchanged
  <2>4. CASE Flood(k)
    BY <2>4 DEF Flood, Stays, SendersOK
  <2>5. CASE LeafReceives(k)
    BY <2>5 DEF LeafReceives, Handle, ModesOK
  <2>6. CASE LeafResends(k)
    BY <2>6 DEF LeafResends, Returns
  <2>7. CASE NoMessage(k)
    <3>1. flash[k] = "listen" /\ left[k] = 0 /\ act[k] = "flash"
      BY <2>7 DEF NoMessage, TimedOut
    <3>2. k \in Leaf => phase[k] # "sync"
      BY <3>1 DEF OutsideOK, Outside, NoTimeout
    <3> QED
      BY <2>7, <3>1, <3>2 DEF NoMessage, Returns
  <2> QED
    BY <1>5, <2>1, <2>2, <2>3, <2>4, <2>5, <2>6, <2>7 DEF NodeStep
<1> QED
  BY <1>1, <1>2, <1>3, <1>4, <1>5, <1>6, <1>7 DEF TdmaNext, RootStep

\* Once the root has sent, a leaf waits for its sync message in flash_enable, or has it.
LEMMA SyncedAtTop ==
  ASSUME BaseInv, SendersOK, StartOK, StartupInv, NEW n \in Leaf,
         phase[Root] # "sync", phase[n] = "sync", act[n] = "decide"
  PROVE  time_synchronized[n] = TRUE
<1> USE NodeFacts DEF BaseInv, ModesOK
<1>1. flash[n] = "idle"
  BY DEF TypeInv, AirOK
<1>2. CASE First
  BY <1>1, <1>2 DEF StartupInv, FirstOK, LeafFirst, Outside
<1>3. CASE Mapping
  BY <1>1, <1>3 DEF StartupInv, MappingOK, LeafMapping, Outside
<1>4. CASE Closing
  BY <1>1, <1>4 DEF StartupInv, ClosingOK, LeafClosing, Outside
<1>5. CASE After
  BY <1>1, <1>5 DEF StartupInv, AfterOK, Outside
<1> QED
  BY <1>2, <1>3, <1>4, <1>5, Stages

\* A leaf that waits for the sync message has heard nothing, since nobody in its reach
\* has sent; a node that sends is heard, and the leaf waits no more.
LEMMA OutsideNext ==
  ASSUME BaseInv, SendersOK, StartOK, StartupInv, [TdmaNext]_tdmaVars
  PROVE  OutsideOK'
<1> SUFFICES ASSUME NEW n \in Leaf, Outside(n)'
             PROVE  /\ rx_on'[n] = TRUE /\ frame'[n] = NoFrame /\ left'[n] = NoTimeout
                    /\ time_synchronized'[n] = FALSE
                    /\ \A m \in Node : <<m, n>> \in link' => Silent(m)'
  BY DEF OutsideOK
<1> USE NodeFacts DEF BaseInv, TypeInv
<1>1. phase[n] = "sync"
  BY SyncIsFirst DEF Outside
<1>2. link' = link
  BY DEF TdmaNext, RootStep, NodeStep, Tick, RootBoot, RootSync, RootReady,
     RootSlot, RootMapped, RootCounts, NextPhase, AwaitSync, ListenInStartup, PrepareToSend,
     Flood, LeafReady, LeafSlot, LeafReceives, LeafResends, NoMessage, tdmaVars, flashVars,
     FlashTick, SetRetransmit, Transmit, Handle, Listen, Enable, Resend, TimedOut
<1>3. CASE flash[n] # "listen"
  <2>1. /\ AwaitSync(n) /\ Listen(n, NoTimeout) /\ Goes(n, "sync", "flash")
        /\ time_synchronized[n] # TRUE
    <3>1. UNCHANGED flash => FALSE
      BY <1>3 DEF Outside
    <3>2. ASSUME NEW m \in Node, NEW p \in Packet, Reaches(m, p) PROVE FALSE
      BY <1>3, <3>2 DEF Reaches, Outside
    <3>3. ASSUME NEW m \in Node, NEW t, Listen(m, t) PROVE m = n
      BY <1>3, <3>3 DEF Listen, Outside, AirOK
    <3>4. ASSUME NEW m \in Node, NEW e, Handle(m, e) PROVE FALSE
      BY <1>3, <3>4 DEF Handle, Outside, AirOK
    <3>5. ASSUME NEW m \in Node, TimedOut(m) PROVE FALSE
      BY <1>3, <3>5 DEF TimedOut, Outside, AirOK
    <3>6. n # Root
      BY NodeFacts
    <3>7. ~RootStep
      <4>1. ~RootBoot /\ ~RootReady
        BY <3>1 DEF RootBoot, RootReady, SetRetransmit, flashVars
      <4>2. ~RootSync
        BY <3>2, HeldPackets DEF RootSync, Transmit
      <4>3. ~RootSlot
        BY <3>2, <3>3, <3>6, HeldPackets DEF RootSlot, Transmit, Enable
      <4>4. ~RootMapped /\ ~RootCounts
        BY <3>4 DEF RootMapped, RootCounts
      <4> QED
        BY <4>1, <4>2, <4>3, <4>4 DEF RootStep
    <3>8. ~Tick /\ ~UNCHANGED tdmaVars
      BY <3>1 DEF Tick, FlashTick, tdmaVars, flashVars
    <3>9. PICK k \in Node : NodeStep(k)
      BY <3>7, <3>8 DEF TdmaNext
    <3>10. AwaitSync(k) /\ k = n
      <4>1. ~NextPhase(k) /\ ~PrepareToSend(k) /\ ~LeafReady(k)
        BY <3>1 DEF NextPhase, PrepareToSend, LeafReady, flashVars
      <4>2. ~Flood(k)
        BY <3>2, HeldPackets DEF Flood, Transmit
      <4>3. ~LeafResends(k)
        BY <3>2, HeldPackets DEF LeafResends, Resend
      <4>4. ~LeafReceives(k) /\ ~NoMessage(k)
        BY <3>4, <3>5 DEF LeafReceives, NoMessage
      <4>5. ~ListenInStartup(k) /\ ~LeafSlot(k)
        BY <1>1, <3>1, <3>3 DEF ListenInStartup, LeafSlot, Enable, AtTop, flashVars
      <4>6. AwaitSync(k)
        BY <3>9, <4>1, <4>2, <4>3, <4>4, <4>5 DEF NodeStep
      <4> QED
        BY <3>1, <3>3, <4>6 DEF AwaitSync, flashVars
    <3>11. ~time_synchronized[n]
      BY <3>1, <3>10 DEF AwaitSync, flashVars
    <3> QED
      BY <3>10, <3>11 DEF AwaitSync
  <2>2. phase[Root] = "sync"
    <3>1. act[n] = "decide"
      BY <2>1 DEF AwaitSync, At
    <3> QED
      BY <1>1, <2>1, <3>1, SyncedAtTop
  <2>3. /\ rx_on'[n] = TRUE /\ frame'[n] = NoFrame /\ left'[n] = NoTimeout
        /\ time_synchronized' = time_synchronized /\ time_synchronized[n] = FALSE
    BY <2>1, <2>2 DEF Listen, AwaitSync, Unchanged, Stays, StartOK, AirOK
  <2>4. \A m \in Node : Silent(m)
    BY <2>2 DEF StartOK, Silent
  <2>5. \A m \in Node : Silent(m)'
    BY <2>1, <2>3, <2>4 DEF Silent, Goes, NodesOK
  <2> QED
    BY <2>3, <2>5
<1>4. CASE flash[n] = "listen"
  <2>1. /\ rx_on[n] = TRUE /\ frame[n] = NoFrame /\ left[n] = NoTimeout
        /\ time_synchronized[n] = FALSE
        /\ \A m \in Node : <<m, n>> \in link => Silent(m)
    BY <1>1, <1>4 DEF StartupInv, OutsideOK, Outside
  <2>2. \A m \in Node : <<m, n>> \in link => Hears(m, n)
    BY <2>1 DEF Hears
  <2>3. ASSUME NEW m \in Node, NEW p \in Packet, Reaches(m, p), m # n
        PROVE  <<m, n>> \notin link /\ frame'[n] = frame[n] /\ left'[n] = left[n]
    <3>1. ~Hears(m, n)
      BY <1>4, <2>3 DEF Reaches, Outside
    <3> QED
      BY <2>2, <2>3, <3>1 DEF Reaches
  <2> HIDE DEF TypeInv
  <2>4. act[n] = "flash"
    BY <1>4 DEF ModesOK
  <2>5. \A m \in Node : <<m, n>> \in link => Silent(m)'
    <3> SUFFICES ASSUME NEW m \in Node, <<m, n>> \in link, ~Silent(m)' PROVE FALSE
      OBVIOUS
    <3>1. (m = Root /\ RootSync) \/ (m \in Leaf /\ LeafResends(m))
      BY <2>1, SilenceEnds DEF StartupInv
    <3>2. m # n
      BY <1>4, <3>1 DEF LeafResends, Resend
    <3>3. \E p \in Packet : Reaches(m, p)
      BY <3>1, HeldPackets DEF RootSync, Transmit, LeafResends, Resend
    <3> QED
      BY <2>3, <3>2, <3>3
  <2>6. /\ rx_on'[n] = TRUE /\ frame'[n] = NoFrame /\ left'[n] = NoTimeout
        /\ time_synchronized'[n] = FALSE
    <3> USE DEF TypeInv, AirOK, NodesOK
    <3>1. CASE Tick
      BY <2>1, <3>1 DEF Tick, FlashTick, nodeVars
    <3>2. CASE RootBoot \/ RootReady
      BY <2>1, <3>2 DEF RootBoot, RootReady, SetRetransmit, flashVars, Stays, Unchanged
    <3>3. CASE RootSync
      <4>1. Reaches(Root, Pkt(SYNC, <<>>)) /\ UNCHANGED <<rx_on, time_synchronized>>
        BY <3>3 DEF RootSync, Transmit, Stays, Unchanged
      <4> QED
        BY <2>1, <2>3, <4>1, HeldPackets
    <3>4. CASE RootSlot
      <4>1. /\ UNCHANGED time_synchronized
            /\ (\E p \in Packet : Reaches(Root, p) /\ UNCHANGED rx_on) \/ Listen(Root, Timeout)
        BY <3>4, HeldPackets DEF RootSlot, Transmit, Stays, Unchanged, Enable
      <4> QED
        BY <2>1, <2>3, <4>1 DEF Listen
    <3>5. CASE RootMapped \/ RootCounts
      <4>1. UNCHANGED time_synchronized /\ \E e \in Packet : Handle(Root, e)
        BY <3>5, HeldPackets DEF RootMapped, RootCounts, Handle
      <4> QED
        BY <2>1, <4>1 DEF Handle
    <3>6. ASSUME NEW k \in Node, NodeStep(k)
          PROVE  /\ rx_on'[n] = TRUE /\ frame'[n] = NoFrame /\ left'[n] = NoTimeout
                 /\ time_synchronized'[n] = FALSE
      <4>1. CASE NextPhase(k) \/ PrepareToSend(k) \/ LeafReady(k)
        BY <2>1, <4>1 DEF NextPhase, PrepareToSend, LeafReady, flashVars, Stays, Unchanged
      <4>2. CASE AwaitSync(k) \/ ListenInStartup(k) \/ LeafSlot(k)
        <5>1. /\ UNCHANGED time_synchronized
              /\ UNCHANGED flashVars \/ (k # n /\ \E t \in Int : Listen(k, t))
          BY <1>1, <2>4, <4>2 DEF AwaitSync, ListenInStartup, LeafSlot, Enable, Stays, Unchanged,
             At, AtTop, NoTimeout
        <5> QED
          BY <2>1, <5>1 DEF flashVars, Listen
      <4>3. CASE Flood(k) \/ LeafResends(k)
        <5>1. UNCHANGED <<time_synchronized, rx_on>> /\ \E p \in Packet : Reaches(k, p)
          BY <4>3, HeldPackets DEF Flood, LeafResends, Transmit, Resend, Stays
        <5>2. k # n
          BY <1>4, <4>3 DEF Flood, LeafResends, Transmit, Resend
        <5> QED
          BY <2>1, <2>3, <5>1, <5>2
      <4>4. CASE LeafReceives(k)
        <5>1. k # n
          BY <1>4, <4>4 DEF LeafReceives
        <5>2. \E e : Handle(k, e)
          BY <4>4 DEF LeafReceives
        <5> QED
          BY <2>1, <4>4, <5>1, <5>2 DEF LeafReceives, Handle
      <4>5. CASE NoMessage(k)
        BY <2>1, <4>5 DEF NoMessage, TimedOut, NoTimeout
      <4> QED
        BY <3>6, <4>1, <4>2, <4>3, <4>4, <4>5 DEF NodeStep
    <3>7. CASE UNCHANGED tdmaVars
      BY <2>1, <3>7 DEF tdmaVars, flashVars, nodeVars
    <3> QED
      BY <3>1, <3>2, <3>3, <3>4, <3>5, <3>6, <3>7 DEF TdmaNext, RootStep
  <2> QED
    BY <1>2, <2>5, <2>6
<1> QED
  BY <1>3, <1>4

\* Some of the nodes are not more than all.
LEMMA NodeSets ==
  ASSUME NEW S \in SUBSET Node
  PROVE  /\ IsFiniteSet(S) /\ Cardinality(S) \in Nat
         /\ \A n \in Node \ S : Cardinality(S \cup {n}) = Cardinality(S) + 1
         /\ \A n \in Node \ S : Cardinality(S) <= NUM_NODES - 1
         /\ \A T \in SUBSET S : Cardinality(T) <= Cardinality(S)
         /\ \A n \in S : Cardinality(S) >= 1
<1>1. IsFiniteSet(Node) /\ Cardinality(Node) = NUM_NODES
  <2>1. NUM_NODES - 1 \in Int /\ 0 \in Int /\ NUM_NODES >= 2 /\ NUM_NODES \in Nat
    BY NodeFacts
  <2>2. IsFiniteSet(0..NUM_NODES-1) /\
        Cardinality(0..NUM_NODES-1) = IF 0 > NUM_NODES - 1 THEN 0 ELSE NUM_NODES - 1 - 0 + 1
    BY <2>1, FS_Interval
  <2> QED
    BY <2>1, <2>2, NodeFacts DEF Slot
<1>2. IsFiniteSet(S) /\ Cardinality(S) \in Nat
  BY <1>1, FS_Subset, FS_CardinalityType
<1>3. \A n \in Node \ S : Cardinality(S \cup {n}) = Cardinality(S) + 1
  BY <1>2, FS_AddElement
<1>4. ASSUME NEW n \in Node \ S PROVE Cardinality(S) <= NUM_NODES - 1
  <2>1. S \cup {n} \in SUBSET Node
    BY <1>4
  <2>2. Cardinality(S \cup {n}) <= NUM_NODES
    BY <1>1, <2>1, FS_Subset
  <2> QED
    BY <1>2, <1>3, <1>4, <2>2, NodeFacts
<1>5. \A T \in SUBSET S : Cardinality(T) <= Cardinality(S)
  BY <1>2, FS_Subset
<1>6. ASSUME NEW n \in S PROVE Cardinality(S) >= 1
  <2>1. {n} \in SUBSET S
    BY <1>6
  <2>2. Cardinality({n}) = 1
    BY FS_Singleton
  <2> QED
    BY <1>2, <1>5, <2>1, <2>2
<1> QED
  BY <1>2, <1>3, <1>4, <1>5, <1>6

\* The root sends the sync message when all leaves listen.
LEMMA FromBoot ==
  ASSUME SlotInv, StartupInv, phase[Root] = "sync", [TdmaNext]_tdmaVars
  PROVE  phase'[Root] = "sync" \/ (First' /\ FirstOK')
<1> USE NodeFacts DEF SlotInv, BaseInv, TypeInv
<1>1. CASE RootSync
  <2>1. /\ Reaches(Root, SyncPkt) /\ UNCHANGED <<link, rx_on, flash_buf, auto_re_tx>>
        /\ Goes(Root, "phase1", "wait") /\ slot = 0 /\ offset = 0 /\ flash[Root] = "idle"
        /\ UNCHANGED <<slot, offset, time_synchronized>>
        /\ SyncPkt \in Packet
    BY <1>1, HeldPackets DEF RootSync, Transmit, At, Unchanged, Stays, StartOK, SyncPkt
  <2>2. \A n \in Leaf : Outside(n)
    BY <1>1 DEF RootSync, At, StartOK, Outside
  <2>3. phase'[Root] = "phase1" /\ act'[Root] = "wait" /\ cycle'[Root] = 0 /\ slot' = 0
    BY <2>1 DEF Goes, NodesOK
  <2>4. ASSUME NEW n \in Leaf PROVE LeafFirst(n)' /\ (Live(n)' => left'[n] = HopTime)
    <3>1. /\ phase[n] = "sync" /\ flash[n] = "listen" /\ rx_on[n] = TRUE /\ frame[n] = NoFrame
          /\ time_synchronized[n] = FALSE
      BY <2>2 DEF Outside, StartupInv, OutsideOK
    <3>2. phase'[n] = "sync" /\ time_synchronized'[n] = FALSE
      BY <2>1, <3>1 DEF Goes, NodesOK
    <3>3. CASE Woken(Root, n)
      <4>1. flash'[n] = "received" /\ Held(n)' = SyncPkt /\ left'[n] = HopTime
        BY <2>1, <3>3, ReachesFacts
      <4> QED
        BY <3>2, <4>1 DEF LeafFirst, Held
    <3>4. CASE ~Woken(Root, n)
      <4>1. flash'[n] = "listen"
        BY <2>1, <3>1, <3>4, ReachesFacts
      <4> QED
        BY <3>2, <4>1 DEF LeafFirst, Outside, Live
    <3> QED
      BY <3>3, <3>4
  <2>5. Sent' \in SUBSET Node /\ Root \in Sent'
    BY <2>3 DEF Sent, Silent
  <2>6. Cardinality(Sent') \in Nat /\ Cardinality(Sent') >= 1
    BY <2>5, NodeSets
  <2>7. HopTime <= Cardinality(Sent') * HopTime
    <3>1. 1 * HopTime <= Cardinality(Sent') * HopTime
      BY <2>6, Hops
    <3> QED
      BY <3>1
  <2>8. \A n \in Leaf : Live(n)' => offset' + left'[n] <= Cardinality(Sent') * HopTime
    <3>1. offset' = 0
      BY <2>1
    <3> QED
      BY <2>4, <2>7, <3>1
  <2>9. \A n \in Leaf : LeafFirst(n)'
    BY <2>4
  <2> QED
    BY <2>3, <2>8, <2>9 DEF First, FirstOK
<1>2. CASE ~RootSync
  <2> USE DEF Goes, NodesOK
  <2>1. CASE Tick \/ UNCHANGED tdmaVars
    BY <2>1 DEF Tick, tdmaVars, nodeVars
  <2>2. CASE RootBoot \/ RootReady \/ RootSlot \/ RootMapped \/ RootCounts
    BY <2>2 DEF RootBoot, RootReady, RootSlot, RootMapped, RootCounts, At, AtTop
  <2>3. ASSUME NEW n \in Node, NodeStep(n) PROVE phase'[Root] = "sync"
    BY <2>3 DEF NodeStep, NextPhase, AwaitSync, ListenInStartup, PrepareToSend,
       Flood, LeafReady, LeafSlot, LeafReceives, LeafResends, NoMessage, AtTop, Enable
  <2> QED
    BY <1>2, <2>1, <2>2, <2>3 DEF TdmaNext, RootStep
<1> QED
  BY <1>1, <1>2

\* While the sync message floods the leaves pass it on and go over to phase 1, ...
LEMMA FirstSteps ==
  ASSUME SlotInv, StartupInv, First, [TdmaNext]_tdmaVars
  PROVE  \/ Tick \/ UNCHANGED tdmaVars
         \/ \E n \in Leaf : phase[n] = "sync" /\ (AwaitSync(n) \/ LeafReceives(n) \/ LeafResends(n))
<1> USE NodeFacts DEF SlotInv, BaseInv, First
<1>1. cycle[Root] = 0 /\ \A n \in Leaf : LeafFirst(n)
  BY DEF StartupInv, FirstOK
<1>2. ~RootStep
  BY <1>1 DEF RootStep, RootBoot, RootSync, RootReady, RootSlot, RootMapped, RootCounts, At, AtTop
<1>3. ~NodeStep(Root)
  BY <1>1 DEF NodeStep, NextPhase, AwaitSync, ListenInStartup, PrepareToSend,
       Flood, LeafReady, LeafSlot, LeafReceives, LeafResends, NoMessage, AtTop
<1>4. ASSUME NEW n \in Leaf, NodeStep(n)
      PROVE  phase[n] = "sync" /\ (AwaitSync(n) \/ LeafReceives(n) \/ LeafResends(n))
  <2>1. \/ phase[n] = "sync" /\ act[n] # "send"
        \/ phase[n] = "phase1" /\ act[n] = "wait" /\ cycle[n] = 0
    BY <1>1 DEF LeafFirst, Outside, SendersOK, ModesOK
  <2>2. ~NextPhase(n) /\ ~ListenInStartup(n) /\ ~PrepareToSend(n) /\ ~LeafReady(n) /\ ~LeafSlot(n)
    BY <2>1 DEF NextPhase, ListenInStartup, PrepareToSend, LeafReady, LeafSlot, AtTop
  <2>3. ~Flood(n)
    BY <2>1 DEF Flood
  <2>4. ~NoMessage(n)
    <3>1. act[n] = "flash" /\ flash[n] = "listen" => phase[n] = "sync" /\ left[n] = NoTimeout
      BY <2>1 DEF StartupInv, OutsideOK, Outside
    <3> QED
      BY <3>1 DEF NoMessage, TimedOut, NoTimeout
  <2>5. AwaitSync(n) \/ LeafReceives(n) \/ LeafResends(n)
    BY <1>4, <2>2, <2>3, <2>4 DEF NodeStep
  <2> QED
    BY <2>1, <2>5 DEF AwaitSync, At, LeafReceives, LeafResends
<1> QED
  BY <1>2, <1>3, <1>4 DEF TdmaNext

\* The nodes that have sent become more.
LEMMA SentGrows ==
  ASSUME SlotInv, StartupInv, [TdmaNext]_tdmaVars
  PROVE  /\ Sent \in SUBSET Node /\ Sent \subseteq Sent'
         /\ Cardinality(Sent) \in Nat /\ Cardinality(Sent') \in Nat
         /\ Cardinality(Sent) * HopTime <= Cardinality(Sent') * HopTime
         /\ Cardinality(Sent) * HopTime \in Nat
         /\ \A n \in Sent' \ Sent :
              Cardinality(Sent) * HopTime + HopTime <= Cardinality(Sent') * HopTime
<1>1. Sent \in SUBSET Node /\ Sent' \in SUBSET Node
  BY DEF Sent
<1>2. Sent \subseteq Sent'
  BY SilenceEnds DEF Sent, SlotInv, StartupInv
<1>3. /\ Cardinality(Sent) \in Nat /\ Cardinality(Sent') \in Nat
      /\ Cardinality(Sent) <= Cardinality(Sent')
  BY <1>1, <1>2, NodeSets
<1>4. ASSUME NEW n \in Sent' \ Sent
      PROVE  Cardinality(Sent) * HopTime + HopTime <= Cardinality(Sent') * HopTime
  <2>1. n \in Node \ Sent /\ Sent \cup {n} \in SUBSET Sent'
    BY <1>1, <1>2, <1>4
  <2>2. Cardinality(Sent \cup {n}) = Cardinality(Sent) + 1
    BY <1>1, <2>1, NodeSets
  <2>3. Cardinality(Sent \cup {n}) <= Cardinality(Sent')
    BY <1>1, <2>1, NodeSets
  <2>4. Cardinality(Sent) + 1 <= Cardinality(Sent')
    BY <2>2, <2>3
  <2>5. Cardinality(Sent) + 1 \in Nat
    BY <1>3
  <2>6. (Cardinality(Sent) + 1) * HopTime <= Cardinality(Sent') * HopTime
    BY <1>3, <2>4, <2>5, Hops
  <2>7. (Cardinality(Sent) + 1) * HopTime = Cardinality(Sent) * HopTime + HopTime
    BY <1>3, Hops
  <2> QED
    BY <2>6, <2>7
<1> QED
  BY <1>1, <1>2, <1>3, <1>4, Hops

\* ... until the slot is over, when nobody sends any more.
LEMMA FirstTicks ==
  ASSUME FloodFits, SlotInv, StartupInv, First, Tick
  PROVE  (First' /\ FirstOK') \/ (Mapping' /\ MappingOK')
<1> USE NodeFacts DEF SlotInv, BaseInv, TypeInv, First, ClockOK
<1>1. /\ cycle[Root] = 0 /\ \A n \in Leaf : LeafFirst(n)
      /\ \A n \in Leaf : Live(n) => offset + left[n] <= Cardinality(Sent) * HopTime
  BY DEF StartupInv, FirstOK
<1>2. UNCHANGED <<phase, act, cycle, time_synchronized, flash, frame, flash_buf>>
  BY DEF Tick, FlashTick, nodeVars
<1>3. \A n \in Leaf : LeafFirst(n)'
  BY <1>1, <1>2 DEF LeafFirst, Outside
<1>4. Sent' = Sent
  BY <1>2 DEF Sent, Silent
<1>5. ASSUME NEW n \in Leaf, Live(n)
      PROVE  left[n] \in 1..HopTime /\ left'[n] = left[n] - 1
  BY <1>5 DEF Tick, FlashTick, DeadlineOK, NoTimeout
<1>6. [TdmaNext]_tdmaVars
  BY DEF TdmaNext
<1>7. CASE offset + 1 # SlotLen
  <2>1. offset' = offset + 1 /\ slot' = slot
    BY <1>7 DEF Tick
  <2>2. \A n \in Leaf : Live(n)' => offset' + left'[n] <= Cardinality(Sent') * HopTime
    <3> SUFFICES ASSUME NEW n \in Leaf, Live(n)'
                 PROVE  offset' + left'[n] <= Cardinality(Sent') * HopTime
      OBVIOUS
    <3>1. Live(n)
      BY <1>2 DEF Live
    <3>2. Cardinality(Sent) * HopTime \in Nat
      BY <1>6, SentGrows
    <3>3. offset + left[n] <= Cardinality(Sent) * HopTime
      BY <1>1, <3>1
    <3>4. left[n] \in Nat /\ left'[n] = left[n] - 1
      BY <1>5, <3>1
    <3>5. offset' + left'[n] = offset + left[n]
      BY <2>1, <3>4
    <3> QED
      BY <1>4, <3>3, <3>5
  <2> QED
    BY <1>1, <1>2, <1>3, <2>1, <2>2 DEF FirstOK
<1>8. CASE offset + 1 = SlotLen
  <2>1. offset' = 0 /\ slot' = 1
    BY <1>8 DEF Tick
  <2>2. ASSUME NEW n \in Leaf PROVE ~Live(n)
    <3> SUFFICES ASSUME Live(n) PROVE FALSE
      OBVIOUS
    <3>1. Silent(n)
      BY <1>1 DEF Live, LeafFirst, Outside, Silent, ModesOK
    <3>2. Sent \in SUBSET Node /\ n \in Node \ Sent
      BY <3>1 DEF Sent
    <3>3. Cardinality(Sent) \in Nat /\ Cardinality(Sent) <= NUM_NODES - 1
      BY <3>2, NodeSets
    <3>4. NUM_NODES - 1 \in Nat
      OBVIOUS
    <3>5. Cardinality(Sent) * HopTime <= (NUM_NODES - 1) * HopTime
      BY <3>3, <3>4, Hops
    <3>6. Cardinality(Sent) * HopTime \in Nat /\ (NUM_NODES - 1) * HopTime \in Nat
      BY <3>3, <3>4, Hops
    <3>7. offset + left[n] <= Cardinality(Sent) * HopTime /\ left[n] \in Nat /\ left[n] >= 1
      BY <1>1, <1>5
    <3>8. (NUM_NODES - 1) * HopTime + 1 < SlotLen
      BY <3>6 DEF FloodFits
    <3> QED
      BY <1>8, <3>5, <3>6, <3>7, <3>8
  <2>3. ASSUME NEW n \in Leaf PROVE LeafMapping(n)'
    <3>1. CASE Outside(n)
      BY <1>2, <3>1 DEF LeafMapping, Outside
    <3>2. CASE phase[n] = "phase1" /\ act[n] = "wait"
      <4>1. flash[n] = "idle"
        BY <3>2 DEF ModesOK, AirOK
      <4> QED
        BY <1>2, <2>1, <3>2, <4>1 DEF LeafMapping
    <3>3. Settled(n)
      BY DEF Tick
    <3>4. ~(phase[n] = "sync" /\ act[n] = "decide")
      BY <3>3 DEF Settled
    <3> QED
      BY <1>1, <2>2, <3>1, <3>2, <3>4 DEF LeafFirst, Live
  <2>4. flash[Root] = "idle"
    BY DEF ModesOK, AirOK
  <2>5. \A n \in Node : ~Live(n)'
    BY <1>2, <2>2, <2>4 DEF Live
  <2> QED
    BY <1>1, <1>2, <2>1, <2>3, <2>4, <2>5 DEF Mapping, MappingOK
<1> QED
  BY <1>7, <1>8

\* A leaf that passes the message on.
LEMMA FirstMoves ==
  ASSUME SlotInv, StartupInv, First, NEW n \in Leaf, phase[n] = "sync",
         AwaitSync(n) \/ LeafReceives(n) \/ LeafResends(n)
  PROVE  First' /\ FirstOK'
<1> USE NodeFacts DEF SlotInv, BaseInv, TypeInv, First
<1>1. /\ cycle[Root] = 0 /\ \A k \in Leaf : LeafFirst(k)
      /\ \A k \in Leaf : Live(k) => offset + left[k] <= Cardinality(Sent) * HopTime
  BY DEF StartupInv, FirstOK
<1>2. [TdmaNext]_tdmaVars
  BY DEF TdmaNext, NodeStep
<1>3. /\ UNCHANGED <<slot, offset>>
      /\ \A k \in Node : k # n =>
           /\ phase'[k] = phase[k] /\ act'[k] = act[k] /\ cycle'[k] = cycle[k]
           /\ k \in Leaf => time_synchronized'[k] = time_synchronized[k]
  <2>1. CASE AwaitSync(n)
    <3>1. UNCHANGED <<slot, offset, time_synchronized>>
      BY <2>1 DEF AwaitSync, Unchanged, Stays
    <3>2. CASE time_synchronized[n]
      BY <2>1, <3>1, <3>2 DEF AwaitSync, NodesOK
    <3>3. CASE ~time_synchronized[n]
      BY <2>1, <3>1, <3>3 DEF AwaitSync, NodesOK, Goes
    <3> QED
      BY <3>2, <3>3
  <2>2. CASE LeafReceives(n)
    BY <2>2 DEF LeafReceives, NodesOK
  <2>3. CASE LeafResends(n)
    BY <2>3 DEF LeafResends, Returns, NodesOK
  <2> QED
    BY <2>1, <2>2, <2>3
<1>4. First' /\ cycle'[Root] = 0
  BY <1>1, <1>3
<1>5. AwaitSync(n) => act[n] = "decide" /\ time_synchronized[n] = TRUE
  BY <1>1 DEF AwaitSync, At, LeafFirst, Outside, ModesOK
<1>6. ASSUME NEW k \in Leaf PROVE LeafFirst(k)'
  <2>1. CASE AwaitSync(n)
    <3>1. /\ time_synchronized[n] /\ UNCHANGED flashVars
          /\ phase'[n] = "phase1" /\ act'[n] = "wait" /\ cycle'[n] = 0
      BY <1>5, <2>1 DEF AwaitSync, NodesOK
    <3>2. CASE k = n
      BY <3>1, <3>2 DEF LeafFirst
    <3>3. CASE k # n
      <4>1. LeafFirst(k)
        BY <1>1
      <4> QED
        BY <1>3, <3>1, <3>3, <4>1 DEF LeafFirst, Outside, flashVars
    <3> QED
      BY <3>2, <3>3
  <2>2. CASE LeafReceives(n)
    <3>1. frame[n] = SyncPkt /\ flash[n] = "received" /\ act[n] = "flash"
      BY <1>1, <2>2 DEF LeafReceives, LeafFirst, Outside
    <3>2. Handle(n, SyncPkt) /\ UNCHANGED <<phase, act, cycle>>
      BY <2>2, <3>1 DEF LeafReceives
    <3>3. CASE k = n
      <4>1. time_synchronized'[n] = TRUE
        <5>1. frame[n].id = SYNC
          BY <3>1 DEF SyncPkt, Pkt
        <5> QED
          BY <2>2, <5>1 DEF LeafReceives, NodesOK
      <4> QED
        BY <3>2, <3>3, <4>1 DEF Handle, AirOK, ModesOK, LeafFirst
    <3>4. CASE k # n
      <4>1. LeafFirst(k)
        BY <1>1
      <4>2. flash'[k] = flash[k] /\ frame'[k] = frame[k] /\ flash_buf'[k] = flash_buf[k]
        BY <3>2, <3>4 DEF Handle, AirOK
      <4> QED
        BY <1>3, <3>4, <4>1, <4>2 DEF LeafFirst, Outside
    <3> QED
      BY <3>3, <3>4
  <2>3. CASE LeafResends(n)
    <3>1. /\ flash[n] = "resend" /\ flash_buf[n] = SyncPkt /\ time_synchronized[n] = TRUE
      BY <1>1, <2>3 DEF LeafResends, Resend, LeafFirst, Outside, ModesOK
    <3>2. /\ Reaches(n, SyncPkt)
          /\ UNCHANGED <<link, rx_on, flash_buf, auto_re_tx, time_synchronized, phase>>
          /\ SyncPkt \in Packet
      BY <2>3, <3>1, HeldPackets DEF LeafResends, Resend, SyncPkt
    <3>3. CASE k = n
      <4>1. act'[n] = "decide"
        BY <2>3 DEF LeafResends, Returns, NodesOK
      <4> QED
        BY <3>1, <3>2, <3>3, <4>1 DEF LeafFirst
    <3>4. CASE k # n /\ Woken(n, k)
      <4>1. flash'[k] = "received" /\ Held(k)' = SyncPkt
        BY <3>1, <3>2, <3>4, ReachesFacts
      <4>2. Outside(k)
        BY <1>1, <3>4 DEF Woken, LeafFirst, ModesOK
      <4>3. phase[k] = "sync" /\ time_synchronized[k] = FALSE
        BY <4>2 DEF StartupInv, OutsideOK, Outside
      <4> QED
        BY <3>2, <4>1, <4>3 DEF LeafFirst, Held
    <3>5. CASE k # n /\ ~Woken(n, k)
      <4>1. /\ flash'[k] = flash[k] /\ (Live(k) => Held(k)' = Held(k))
        BY <3>1, <3>2, <3>5, ReachesFacts
      <4>2. LeafFirst(k)
        BY <1>1
      <4>3. CASE Live(k)
        BY <1>3, <3>5, <4>1, <4>2, <4>3 DEF LeafFirst, Outside, Live, Held, ModesOK
      <4>4. CASE ~Live(k)
        BY <1>3, <3>5, <4>1, <4>2, <4>4 DEF LeafFirst, Outside, Live
      <4> QED
        BY <4>3, <4>4
    <3> QED
      BY <3>3, <3>4, <3>5
  <2> QED
    BY <2>1, <2>2, <2>3
<1>7. ASSUME NEW k \in Leaf, Live(k)'
      PROVE  offset' + left'[k] <= Cardinality(Sent') * HopTime
  <2>1. /\ Cardinality(Sent) * HopTime \in Nat /\ Cardinality(Sent') * HopTime \in Nat
        /\ Cardinality(Sent) * HopTime <= Cardinality(Sent') * HopTime
    BY <1>2, SentGrows, Hops
  <2>2. CASE Live(k) /\ left'[k] = left[k]
    <3>1. offset + left[k] <= Cardinality(Sent) * HopTime /\ left[k] \in Nat /\ offset \in Nat
      BY <1>1, <2>2 DEF DeadlineOK, ClockOK
    <3> QED
      BY <1>3, <2>1, <2>2, <3>1
  <2>3. CASE Hearing(k)
    <3>1. PICK m \in Node :
            /\ left'[k] = HopTime
            /\ Flood(m) \/ LeafResends(m) \/ RootSync \/ RootSlot
      BY <2>3 DEF Hearing
    <3>2. ~RootSync /\ ~RootSlot
      BY DEF RootSync, RootSlot, At, AtTop
    <3>3. ~Flood(m)
      <4>1. m \in Leaf => act[m] # "send"
        BY <1>1 DEF LeafFirst, Outside, SendersOK
      <4> QED
        BY <4>1 DEF Flood
    <3>4. m \in Leaf /\ LeafResends(m) /\ flash[m] = "resend" /\ Live(m) /\ act[m] = "flash"
      BY <3>1, <3>2, <3>3 DEF LeafResends, Resend, Live
    <3>5. phase[m] = "sync" /\ time_synchronized[m] = TRUE
      BY <1>1, <3>4 DEF LeafFirst, Outside
    <3>6. m \notin Sent
      BY <3>4, <3>5 DEF Sent, Silent
    <3>7. m \in Sent'
      <4>1. act'[m] = "decide" /\ time_synchronized'[m] = TRUE
        BY <3>4, <3>5 DEF LeafResends, Returns, NodesOK
      <4> QED
        BY <3>4, <4>1 DEF Sent, Silent
    <3>8. Cardinality(Sent) * HopTime + HopTime <= Cardinality(Sent') * HopTime
      BY <1>2, <3>6, <3>7, SentGrows
    <3>9. offset + left[m] <= Cardinality(Sent) * HopTime /\ left[m] \in Nat /\ offset \in Nat
      BY <1>1, <3>4 DEF DeadlineOK, ClockOK
    <3> QED
      BY <1>3, <2>1, <3>1, <3>8, <3>9
  <2>4. ~Ageing(k)
    <3>2. ~Tick
      BY <1>5 DEF Tick, Settled, AwaitSync, LeafReceives, LeafResends, Handle, Resend, FlashTick,
         At, nodeVars, NodesOK, AirOK, ModesOK, Returns
    <3> QED
      BY <3>2 DEF Ageing
  <2>5. Keeping(k) \/ Editing(k) \/ Hearing(k)
    BY <1>2, <1>7, <2>4, LiveAfter
  <2> QED
    BY <2>2, <2>3, <2>5 DEF Keeping, Editing
<1> QED
  BY <1>4, <1>6, <1>7 DEF FirstOK

\* The first stage lasts until its slot is over, and leads to the mapping.
LEMMA FromFirst ==
  ASSUME FloodFits, SlotInv, StartupInv, First, [TdmaNext]_tdmaVars
  PROVE  (First' /\ FirstOK') \/ (Mapping' /\ MappingOK')
<1>1. CASE Tick
  BY <1>1, FirstTicks
<1>2. CASE UNCHANGED tdmaVars
  BY <1>2 DEF StartupInv, First, FirstOK, LeafFirst, Outside, Live, Sent, Silent, SyncPkt,
     tdmaVars, nodeVars, flashVars
<1>3. CASE \E n \in Leaf : phase[n] = "sync" /\ (AwaitSync(n) \/ LeafReceives(n) \/ LeafResends(n))
  BY <1>3, FirstMoves
<1> QED
  BY <1>1, <1>2, <1>3, FirstSteps

\* While the root maps the network it listens, and a leaf does what the slot asks of it.
LEMMA MappingFacts ==
  ASSUME SlotInv, StartupInv, Mapping, NEW n \in Leaf
  PROVE  /\ Outside(n) \/ phase[n] = "phase1"
         /\ act[n] \in {"wait", "flash", "send"}
         /\ act[n] = "wait" => cycle[n] = slot \/ offset = 0
         /\ act[n] = "flash" /\ ~Outside(n) => cycle[n] = slot /\ slot # n
         /\ flash[n] = "listen" /\ ~Outside(n) => left[n] + offset = SlotLen - 1
         /\ act[n] = "send" => slot = n /\ offset <= 1 /\ cycle[n] = slot
         /\ Outside(n) => act[n] = "flash" /\ left[n] = NoTimeout
<1> USE NodeFacts DEF SlotInv, BaseInv, TypeInv
<1>1. LeafMapping(n)
  BY DEF StartupInv, MappingOK
<1>2. Outside(n) => act[n] = "flash" /\ left[n] = NoTimeout
  BY DEF StartupInv, OutsideOK, Outside, ModesOK
<1>3. act[n] \in {"decide", "wait", "flash", "send"}
  BY DEF NodesOK
<1> QED
  BY <1>1, <1>2, <1>3 DEF LeafMapping

\* In the slots of the mapping the root and the leaves that have the time send, listen, and
\* pass on; nobody goes over to another phase.
LEMMA MappingSteps ==
  ASSUME SlotInv, StartupInv, Mapping, [TdmaNext]_tdmaVars
  PROVE  \/ Tick \/ UNCHANGED tdmaVars
         \/ RootMapped \/ ListenInStartup(Root) \/ NoMessage(Root)
         \/ \E n \in Leaf :
              /\ phase[n] = "phase1"
              /\ \/ ListenInStartup(n) \/ PrepareToSend(n) \/ Flood(n)
                 \/ LeafReceives(n) \/ LeafResends(n) \/ NoMessage(n)
<1> USE NodeFacts DEF SlotInv, BaseInv
<1>0. Mapping /\ phase[Root] = "phase1" /\ slot # 0
  BY DEF Mapping
<1>1. ~RootBoot /\ ~RootSync /\ ~RootReady /\ ~RootSlot /\ ~RootCounts
  BY <1>0 DEF RootBoot, RootSync, RootReady, RootSlot, RootCounts, At, AtTop
<1>2. act[Root] \in {"wait", "decide", "flash"}
  BY DEF StartupInv, MappingOK
<1>3. NodeStep(Root) => ListenInStartup(Root) \/ NoMessage(Root)
  <2>1. ~NextPhase(Root) /\ ~AwaitSync(Root) /\ ~LeafReady(Root) /\ ~LeafSlot(Root)
    BY <1>0 DEF NextPhase, AwaitSync, LeafReady, LeafSlot
  <2>2. ~PrepareToSend(Root)
    BY <1>0 DEF PrepareToSend, AtTop, Root
  <2>3. ~Flood(Root) /\ ~LeafReceives(Root) /\ ~LeafResends(Root)
    BY <1>2 DEF Flood, LeafReceives, LeafResends
  <2> QED
    BY <2>1, <2>2, <2>3 DEF NodeStep
<1>4. ASSUME NEW n \in Leaf, NodeStep(n)
      PROVE  /\ phase[n] = "phase1"
             /\ \/ ListenInStartup(n) \/ PrepareToSend(n) \/ Flood(n)
                \/ LeafReceives(n) \/ LeafResends(n) \/ NoMessage(n)
  <2>1. /\ Outside(n) \/ phase[n] = "phase1"
        /\ Outside(n) => /\ phase[n] = "sync" /\ flash[n] = "listen" /\ act[n] = "flash"
                         /\ left[n] = NoTimeout
        /\ act[n] # "decide"
    BY <1>0, MappingFacts DEF Outside
  <2>2. ~NextPhase(n) /\ ~AwaitSync(n) /\ ~LeafReady(n) /\ ~LeafSlot(n)
    BY <1>0, <2>1 DEF NextPhase, AwaitSync, LeafReady, LeafSlot, At, AtTop
  <2>3. CASE phase[n] = "phase1"
    BY <1>4, <2>2, <2>3 DEF NodeStep
  <2>4. CASE phase[n] # "phase1"
    <3>1. ~ListenInStartup(n) /\ ~PrepareToSend(n) /\ ~Flood(n)
      BY <2>1, <2>4 DEF ListenInStartup, PrepareToSend, Flood, AtTop
    <3>2. ~LeafReceives(n) /\ ~LeafResends(n) /\ ~NoMessage(n)
      BY <2>1, <2>4 DEF LeafReceives, LeafResends, Resend, NoMessage, TimedOut, NoTimeout
    <3> QED
      BY <1>4, <2>2, <3>1, <3>2 DEF NodeStep
  <2> QED
    BY <2>3, <2>4
<1> QED
  BY <1>1, <1>3, <1>4 DEF TdmaNext, RootStep

\* A packet under way is on the trail of the slot, and gets there in time.
LEMMA TrailIsShort ==
  ASSUME FloodFits, SlotInv, Mapping, NEW n \in Node, Live(n), Trail(n, Held(n))
  PROVE  /\ slot \in Leaf /\ Held(n) \in Packet /\ Held(n).route \in Seq(Leaf)
         /\ Len(Held(n).route) \in Nat /\ Len(Held(n).route) + 2 <= NUM_NODES
         /\ offset + left[n] < SlotLen
<1> USE NodeFacts DEF SlotInv, BaseInv, TypeInv, ClockOK
<1> DEFINE r == Held(n).route
<1>1. slot \in Leaf
  BY DEF Mapping, Slot, Leaf
<1>2. Held(n) \in Packet
  BY DEF AirOK
<1>3. r \in Seq(Leaf) /\ Len(r) \in Nat
  BY <1>2, PacketFacts
<1>4. Len(r) + 2 <= NUM_NODES
  BY <1>1, <1>3, WayIsShort DEF Trail
<1>5. offset + left[n] <= 1 + (Len(r) + 1) * HopTime
  <2>1. (Len(r) + 1) * HopTime = Len(r) * HopTime + HopTime /\ Len(r) * HopTime \in Nat
    BY <1>3, Hops
  <2>2. \/ offset + left[n] <= 1 + (Len(r) + 1) * HopTime
        \/ offset + left[n] <= 1 + Len(r) * HopTime
    BY DEF Trail
  <2>3. left[n] \in Nat
    BY DEF DeadlineOK
  <2> HIDE DEF r
  <2> QED
    BY <2>1, <2>2, <2>3
<1>6. (Len(r) + 1) * HopTime <= (NUM_NODES - 1) * HopTime
  <2>1. Len(r) + 1 \in Nat /\ NUM_NODES - 1 \in Nat /\ Len(r) + 1 <= NUM_NODES - 1
    BY <1>3, <1>4
  <2> QED
    BY <2>1, Hops
<1>7. /\ (Len(r) + 1) * HopTime \in Nat /\ (NUM_NODES - 1) * HopTime \in Nat
  <2>1. Len(r) + 1 \in Nat /\ NUM_NODES - 1 \in Nat
    BY <1>3
  <2> QED
    BY <2>1, Hops
<1>8. left[n] \in Nat
  BY DEF DeadlineOK
<1>9. 1 + (NUM_NODES - 1) * HopTime < SlotLen
  BY DEF FloodFits
<1>10. offset + left[n] < SlotLen
  <2> HIDE DEF r
  <2> QED
    BY <1>5, <1>6, <1>7, <1>8, <1>9
<1> QED
  BY <1>1, <1>2, <1>3, <1>4, <1>10

\* A slot ends when its flood is over and the leaves have stopped listening.
LEMMA MappingTicks ==
  ASSUME FloodFits, SlotInv, StartupInv, Mapping, Tick
  PROVE  (Mapping' /\ MappingOK') \/ (Closing' /\ ClosingOK')
<1> USE NodeFacts DEF SlotInv, BaseInv, TypeInv, ClockOK
<1>0. phase[Root] = "phase1" /\ slot # 0
  BY DEF Mapping
<1>1. UNCHANGED <<link, phase, act, cycle, time_synchronized, flash, frame, flash_buf>>
  BY DEF Tick, FlashTick, nodeVars
<1>2. /\ \A n \in Node : Settled(n) /\ left[n] # 0
      /\ \A n \in Node : left[n] \in Nat => left'[n] = left[n] - 1 /\ left'[n] \in Nat
  BY DEF Tick, FlashTick, NoTimeout
<1>3. act[Root] = "flash" /\ (flash[Root] = "listen" => left[Root] \in 1..SlotLen-1)
  BY <1>0, <1>2 DEF StartupInv, MappingOK, Settled
<1>4. ASSUME NEW n \in Node, Live(n)
      PROVE  left[n] \in Nat /\ left[n] >= 1 /\ Trail(n, Held(n)) /\ offset + left[n] < SlotLen
  <2>1. left[n] \in Nat /\ left[n] # 0
    BY <1>2, <1>4 DEF DeadlineOK
  <2>2. Trail(n, Held(n))
    BY <1>4 DEF StartupInv, MappingOK, AirOK
  <2> QED
    BY <1>4, <2>1, <2>2, TrailIsShort
<1>5. \A n \in Leaf : Outside(n) => Outside(n)'
  BY <1>1 DEF Outside
<1>6. SlotLen > 1
  <2>1. NUM_NODES - 1 \in Nat
    OBVIOUS
  <2>2. (NUM_NODES - 1) * HopTime \in Nat
    BY <2>1, Hops
  <2> QED
    BY <2>2 DEF FloodFits
<1>7. CASE offset + 1 # SlotLen
  <2>1. offset' = offset + 1 /\ slot' = slot
    BY <1>7 DEF Tick
  <2>2. ASSUME NEW n \in Leaf, ~Outside(n) PROVE LeafMapping(n)'
    <3>1. /\ phase[n] = "phase1" /\ act[n] \in {"wait", "flash", "send"}
          /\ act[n] = "flash" => cycle[n] = slot /\ slot # n
          /\ flash[n] = "listen" => left[n] + offset = SlotLen - 1
          /\ act[n] = "send" => slot = n /\ offset <= 1 /\ cycle[n] = slot
      BY <2>2, MappingFacts
    <3>2. act[n] = "wait" => cycle[n] = slot
      BY <1>2 DEF Settled
    <3>3. act[n] = "send" => offset = 0
      BY <1>2, <3>1 DEF Settled
    <3>4. flash[n] = "listen" => left'[n] + offset' = SlotLen - 1
      <4>1. flash[n] = "listen" => left[n] \in Nat
        BY <3>1 DEF AirOK, NoTimeout
      <4> QED
        BY <1>2, <2>1, <3>1, <4>1
    <3>5. act[n] = "send" => offset' <= 1
      BY <2>1, <3>3
    <3> QED
      BY <1>1, <2>1, <3>1, <3>2, <3>3, <3>4, <3>5 DEF LeafMapping
  <2>3. ASSUME NEW n \in Node, NEW p \in Packet, Live(n)', Held(n)' = p PROVE Trail(n, p)'
    <3>1. Live(n) /\ Held(n) = p
      BY <1>1, <2>3 DEF Live, Held
    <3>2. offset' + left'[n] = offset + left[n]
      BY <1>2, <1>4, <2>1, <3>1
    <3>3. Trail(n, p)
      BY <1>4, <3>1
    <3> QED
      BY <1>1, <2>1, <3>1, <3>2, <3>3 DEF Trail, Way, Done
  <2>4. flash'[Root] = "listen" => left'[Root] \in 0..SlotLen-1
    BY <1>1, <1>2, <1>3
  <2>5. \A n \in Leaf : LeafMapping(n)'
    BY <1>5, <2>2 DEF LeafMapping
  <2> QED
    BY <1>0, <1>1, <1>3, <2>1, <2>3, <2>4, <2>5 DEF Mapping, MappingOK
<1>8. CASE offset + 1 = SlotLen
  <2>1. offset' = 0 /\ slot' = (slot + 1) % NUM_NODES
    BY <1>8 DEF Tick
  <2>2. \A n \in Node : ~Live(n)
    BY <1>4, <1>8
  <2>3. ASSUME NEW n \in Leaf, ~Outside(n)
        PROVE  phase[n] = "phase1" /\ act[n] = "wait" /\ cycle[n] = slot /\ flash[n] = "idle"
    <3>1. /\ phase[n] = "phase1" /\ act[n] \in {"wait", "flash", "send"}
          /\ flash[n] = "listen" => left[n] + offset = SlotLen - 1
      BY <2>3, MappingFacts
    <3>2. flash[n] # "listen"
      <4>1. flash[n] = "listen" => left[n] = 0
        BY <1>8, <3>1 DEF AirOK, NoTimeout
      <4> QED
        BY <1>2, <4>1
    <3>3. flash[n] = "idle" /\ act[n] # "flash"
      BY <2>2, <3>2 DEF Live, AirOK, ModesOK
    <3>4. act[n] # "send"
      BY <1>2, <1>6, <1>8, <3>1 DEF Settled
    <3>5. act[n] = "wait"
      BY <3>1, <3>3, <3>4
    <3> QED
      BY <1>2, <3>1, <3>3, <3>5 DEF Settled
  <2>4. flash[Root] = "listen" /\ left'[Root] \in 0..SlotLen-2 /\ left[Root] \in Nat
    <3>1. flash[Root] = "listen"
      BY <1>3, <2>2 DEF Live, AirOK, ModesOK
    <3> QED
      BY <1>2, <1>3, <3>1
  <2>5. \A n \in Node : ~Live(n)'
    BY <1>1, <2>2 DEF Live
  <2>6. CASE slot + 1 = NUM_NODES
    <3>1. slot' = 0
      BY <2>1, <2>6
    <3>2. \A n \in Leaf : LeafClosing(n)'
      BY <1>0, <1>1, <1>5, <2>3 DEF LeafClosing
    <3>3. left'[Root] \in Nat /\ left'[Root] + offset' <= SlotLen - 2
      BY <2>1, <2>4
    <3> QED
      BY <1>0, <1>1, <1>3, <2>5, <3>1, <3>2, <3>3 DEF Closing, ClosingOK
  <2>7. CASE slot + 1 # NUM_NODES
    <3>1. slot' # 0
      <4>1. slot + 1 \in 1..NUM_NODES-1
        BY <2>7 DEF Slot
      <4>2. slot' = slot + 1
        BY <2>1, <4>1
      <4> QED
        BY <4>1, <4>2
    <3>2. \A n \in Leaf : LeafMapping(n)'
      BY <1>1, <1>5, <2>1, <2>3 DEF LeafMapping
    <3>3. left'[Root] \in 0..SlotLen-1
      BY <2>4
    <3> QED
      BY <1>0, <1>1, <1>3, <2>5, <3>1, <3>2, <3>3 DEF Mapping, MappingOK
  <2> QED
    BY <2>6, <2>7
<1> QED
  BY <1>7, <1>8

\* What a step of the mapping that takes no time leaves alone.
SlotSteps(n) ==
  \/ ListenInStartup(n) \/ PrepareToSend(n) \/ Flood(n)
  \/ LeafReceives(n) \/ LeafResends(n) \/ NoMessage(n)

MappingMove ==
  \/ RootMapped \/ ListenInStartup(Root) \/ NoMessage(Root)
  \/ \E n \in Leaf : phase[n] = "phase1" /\ SlotSteps(n)

\* They take no time, and a leaf that is done with the slot stays so.
LEMMA MappingFrame ==
  ASSUME SlotInv, StartupInv, Mapping, MappingMove
  PROVE  /\ UNCHANGED <<link, slot, offset, phase>>
         /\ \A h \in Leaf : Done(h) => Done(h)'
<1> USE NodeFacts DEF SlotInv, BaseInv, TypeInv
<1>1. UNCHANGED <<link, slot, offset>>
  BY DEF MappingMove, SlotSteps, RootMapped, ListenInStartup, NoMessage, PrepareToSend, Flood,
     LeafReceives, LeafResends, Unchanged, Stays, Enable, Listen, Handle, TimedOut, Resend,
     Transmit, flashVars
<1>2. ASSUME NEW n \in Node, Goes(n, phase[n], "flash") \/ Goes(n, phase[n], "send")
                            \/ Goes(n, phase[n], "wait"),
             n \in Leaf => ~Done(n) \/ Goes(n, phase[n], "wait")
      PROVE  UNCHANGED phase /\ \A h \in Leaf : Done(h) => Done(h)'
  BY <1>1, <1>2 DEF Goes, NodesOK, Done
<1>3. ASSUME NEW n \in Node, act[n] = "flash", UNCHANGED <<phase, cycle>>,
             \A h \in Node : h # n => act'[h] = act[h]
      PROVE  UNCHANGED phase /\ \A h \in Leaf : Done(h) => Done(h)'
  BY <1>1, <1>3 DEF Done
<1>4. CASE RootMapped
  <2>1. act[Root] = "flash" /\ UNCHANGED <<phase, cycle>> /\ Returns(Root)
    BY <1>4 DEF RootMapped, At
  <2> QED
    BY <1>1, <1>3, <2>1 DEF Returns, NodesOK
<1>5. CASE ListenInStartup(Root)
  <2>1. Goes(Root, phase[Root], "flash") /\ Root \in Node
    BY <1>5 DEF ListenInStartup, Enable
  <2> QED
    BY <1>1, <1>2, <2>1
<1>6. CASE NoMessage(Root)
  <2>1. act[Root] = "flash" /\ UNCHANGED <<phase, cycle>> /\ Returns(Root)
    BY <1>6 DEF NoMessage
  <2> QED
    BY <1>1, <1>3, <2>1 DEF Returns, NodesOK
<1>7. ASSUME NEW n \in Leaf, phase[n] = "phase1", SlotSteps(n)
      PROVE  UNCHANGED phase /\ \A h \in Leaf : Done(h) => Done(h)'
  <2>1. CASE ListenInStartup(n) \/ PrepareToSend(n)
    <3>1. ~Done(n)
      BY <2>1 DEF ListenInStartup, PrepareToSend, AtTop, Done
    <3> QED
      BY <1>2, <2>1, <3>1 DEF ListenInStartup, PrepareToSend, Enable
  <2>2. CASE Flood(n)
    BY <1>2, <2>2 DEF Flood
  <2>3. CASE LeafReceives(n)
    BY <1>3, <2>3 DEF LeafReceives
  <2>4. CASE LeafResends(n) \/ NoMessage(n)
    BY <1>3, <2>4 DEF LeafResends, NoMessage, Returns, NodesOK
  <2> QED
    BY <1>7, <2>1, <2>2, <2>3, <2>4 DEF SlotSteps
<1> QED
  BY <1>1, <1>4, <1>5, <1>6, <1>7 DEF MappingMove

\* A leaf that still waits for the sync message goes on waiting.
LEMMA StaysOutside ==
  ASSUME SlotInv, StartupInv, Mapping \/ Closing \/ After, [TdmaNext]_tdmaVars,
         NEW n \in Leaf, Outside(n)
  PROVE  Outside(n)'
<1> USE NodeFacts DEF SlotInv, BaseInv, TypeInv
<1>1. /\ phase[n] = "sync" /\ flash[n] = "listen" /\ act[n] = "flash" /\ left[n] = NoTimeout
      /\ \A m \in Node : <<m, n>> \in link => Silent(m)
  BY DEF Outside, StartupInv, OutsideOK, ModesOK
<1>2. \A m \in Node : <<m, n>> \in link => m \in Leaf
  BY <1>1 DEF Silent, Mapping, Closing, After
<1>3. ASSUME NEW m \in Node, NEW p \in Packet, Reaches(m, p), flash[m] # "received",
             UNCHANGED <<link, rx_on, flash_buf, auto_re_tx>>, m # n, <<m, n>> \notin link
      PROVE  flash'[n] = flash[n]
  BY <1>3, ReachesFacts DEF Woken, Hears
<1>4. phase'[n] = "sync"
  <2> USE DEF NodesOK
  <2>1. CASE Tick \/ UNCHANGED tdmaVars
    BY <1>1, <2>1 DEF Tick, tdmaVars, nodeVars
  <2>2. CASE RootStep
    BY <1>1, <2>2 DEF RootStep, RootBoot, RootSync, RootReady, RootSlot, RootMapped, RootCounts,
       Goes, Enable
  <2>3. ASSUME NEW k \in Node, NodeStep(k), k # n PROVE phase'[n] = "sync"
    BY <1>1, <2>3 DEF NodeStep, NextPhase, AwaitSync, ListenInStartup, PrepareToSend, Flood,
       LeafReady, LeafSlot, LeafReceives, LeafResends, NoMessage, Goes, Enable
  <2>4. NodeStep(n) => FALSE
    BY <1>1 DEF NodeStep, NextPhase, AwaitSync, ListenInStartup, PrepareToSend, Flood,
       LeafReady, LeafSlot, LeafReceives, LeafResends, NoMessage, At, AtTop, Resend, TimedOut,
       NoTimeout
  <2> QED
    BY <2>1, <2>2, <2>3, <2>4 DEF TdmaNext
<1>5. flash'[n] = "listen"
  <2> USE DEF AirOK
  <2>1. CASE Tick \/ UNCHANGED tdmaVars
    BY <1>1, <2>1 DEF Tick, FlashTick, tdmaVars, flashVars
  <2>2. CASE RootBoot \/ RootReady \/ RootMapped \/ RootCounts
    BY <1>1, <2>2 DEF RootBoot, RootReady, RootMapped, RootCounts, SetRetransmit, flashVars, Handle
  <2>3. CASE RootSync \/ RootSlot
    <3>1. (\E p \in Packet : Transmit(Root, p)) \/ Listen(Root, Timeout)
      BY <2>3, HeldPackets DEF RootSync, RootSlot, Enable
    <3>2. CASE \E p \in Packet : Transmit(Root, p)
      BY <1>1, <1>2, <1>3, <3>2 DEF Transmit
    <3>3. CASE Listen(Root, Timeout)
      BY <1>1, <3>3 DEF Listen
    <3> QED
      BY <3>1, <3>2, <3>3
  <2>4. ASSUME NEW k \in Node, NodeStep(k), k # n PROVE flash'[n] = "listen"
    <3>1. CASE NextPhase(k) \/ AwaitSync(k) \/ ListenInStartup(k) \/ PrepareToSend(k)
               \/ LeafReady(k) \/ LeafSlot(k) \/ NoMessage(k)
      BY <1>1, <2>4, <3>1 DEF NextPhase, AwaitSync, ListenInStartup, PrepareToSend, LeafReady,
         LeafSlot, NoMessage, flashVars, Enable, Listen, TimedOut
    <3>2. CASE LeafReceives(k)
      BY <1>1, <2>4, <3>2 DEF LeafReceives, Handle
    <3>3. CASE Flood(k)
      <4>1. k = Root \/ (k \in Leaf /\ act[k] = "send")
        BY <3>3 DEF Flood
      <4>2. <<k, n>> \notin link
        BY <1>1, <1>2, <4>1 DEF SendersOK, Silent
      <4> QED
        BY <1>1, <1>3, <2>4, <3>3, <4>2, HeldPackets DEF Flood, Transmit
    <3>4. CASE LeafResends(k)
      <4>1. k \in Leaf /\ Resend(k) /\ act[k] = "flash"
        BY <3>4 DEF LeafResends
      <4>2. CASE phase[k] # "sync"
        BY <1>1, <1>3, <2>4, <4>1, <4>2, HeldPackets DEF Resend, Silent
      <4>3. CASE phase[k] = "sync"
        <5>1. Outside(k)
          BY <4>1, <4>3 DEF StartupInv, MappingOK, LeafMapping, ClosingOK, LeafClosing, AfterOK
        <5> QED
          BY <4>1, <5>1 DEF Outside, Resend
      <4> QED
        BY <4>2, <4>3
    <3> QED
      BY <2>4, <3>1, <3>2, <3>3, <3>4 DEF NodeStep
  <2>5. NodeStep(n) => FALSE
    BY <1>1 DEF NodeStep, NextPhase, AwaitSync, ListenInStartup, PrepareToSend, Flood,
       LeafReady, LeafSlot, LeafReceives, LeafResends, NoMessage, At, AtTop, Resend, TimedOut,
       NoTimeout
  <2> QED
    BY <2>1, <2>2, <2>3, <2>4, <2>5 DEF TdmaNext, RootStep
<1> QED
  BY <1>4, <1>5 DEF Outside

\* A node that only waits, or listens, stays on a trail.
LEMMA TrailKept ==
  ASSUME UNCHANGED <<link, slot, offset>>, \A h \in Leaf : Done(h) => Done(h)',
         NEW n, NEW p, flash'[n] = flash[n], left'[n] = left[n], Trail(n, p)
  PROVE  Trail(n, p)'
BY DEF Trail, Way, Done

\* The first node of a trail.
LEMMA TrailBegins ==
  ASSUME NEW p, p = Pkt(slot, <<>>), slot \in Leaf, UNCHANGED <<link, slot, offset>>,
         NEW n \in Node, Done(slot)', offset <= 1,
         offset \in Nat, <<slot, n>> \in link, flash'[n] = "received", left'[n] = HopTime
  PROVE  Trail(n, p)'
<1>1. p.id = slot /\ p.route = <<>>
  BY DEF Pkt
<1>2. <<>> \in Seq(Leaf) /\ Len(<<>>) = 0
  OBVIOUS
<1>3. Way(slot, <<>>)[1] = slot /\ DOMAIN Way(slot, <<>>) = 1..1
  BY DEF Way
<1>4. IsInjective(Way(slot, <<>>))
  BY <1>3 DEF IsInjective
<1>5. (0 + 1) * HopTime = HopTime
  BY NodeFacts
<1>6. offset' + left'[n] <= 1 + (0 + 1) * HopTime
  BY <1>5, NodeFacts
<1> QED
  BY <1>1, <1>2, <1>3, <1>4, <1>6 DEF Trail

\* A relay that has heard the packet writes itself down.
LEMMA TrailGrows ==
  ASSUME RouteFits, slot \in Leaf, UNCHANGED <<link, slot, offset>>,
         \A h \in Leaf : Done(h) => Done(h)', NEW n \in Leaf, NEW p \in Packet,
         Trail(n, p), act[n] = "flash", flash[n] = "received", flash'[n] = "resend",
         left'[n] = left[n]
  PROVE  Trail(n, Relayed(n, p))'
<1> DEFINE r == p.route
           q == Append(r, n)
<1>1. r \in Seq(Leaf) /\ Len(r) \in Nat
  BY PacketFacts
<1>2. /\ p.id = slot /\ IsInjective(Way(slot, r))
      /\ \A i \in 1..Len(r) :
           <<Way(slot, r)[i], Way(slot, r)[i + 1]>> \in link /\ Done(Way(slot, r)[i])
      /\ Done(Way(slot, r)[Len(r) + 1]) /\ <<Way(slot, r)[Len(r) + 1], n>> \in link
      /\ offset + left[n] <= 1 + (Len(r) + 1) * HopTime
  BY DEF Trail
<1>3. ASSUME NEW i \in 1..Len(r)+1 PROVE Way(slot, r)[i] # n
  <2>1. i \in 1..Len(r) \/ i = Len(r) + 1
    BY <1>1
  <2>2. Done(Way(slot, r)[i])
    BY <1>2, <2>1
  <2> QED
    BY <2>2 DEF Done
<1>4. /\ q \in Seq(Leaf) /\ Len(q) = Len(r) + 1
      /\ IsInjective(Way(slot, q))
      /\ \A i \in 1..Len(r)+1 : Way(slot, q)[i] = Way(slot, r)[i]
      /\ Way(slot, q)[Len(r) + 2] = n
  <2> HIDE DEF r
  <2> QED
    BY <1>1, <1>2, <1>3, WayGrows
<1>5. Len(r) < MaxRoute
  <2> HIDE DEF q, r
  <2>1. Len(q) + 2 <= NUM_NODES
    BY <1>4, WayIsShort
  <2> QED
    BY <1>1, <1>4, <2>1, NodeFacts, TdmaAssumption DEF RouteFits
<1>6. Relayed(n, p).id = slot /\ Relayed(n, p).route = q
  BY <1>2, <1>5, RelayedFacts
<1>7. ASSUME NEW i \in 1..Len(q)
      PROVE  /\ <<Way(slot, q)[i], Way(slot, q)[i + 1]>> \in link
             /\ Done(Way(slot, q)[i])'
  <2> HIDE DEF q, r
  <2>1. i \in 1..Len(r)+1 /\ (i \in 1..Len(r) \/ i = Len(r) + 1)
    BY <1>1, <1>4
  <2>2. CASE i \in 1..Len(r)
    <3>1. i + 1 \in 1..Len(r)+1
      BY <1>1, <2>2
    <3>2. Way(slot, q)[i] = Way(slot, r)[i] /\ Way(slot, q)[i + 1] = Way(slot, r)[i + 1]
      BY <1>4, <2>1, <3>1
    <3>3. Done(Way(slot, r)[i])
      BY <1>2, <2>2
    <3> QED
      BY <1>2, <2>2, <3>2, <3>3 DEF Done
  <2>3. CASE i = Len(r) + 1
    <3>1. i + 1 = Len(r) + 2
      BY <1>1, <2>3
    <3>2. Way(slot, q)[i] = Way(slot, r)[Len(r) + 1] /\ Way(slot, q)[i + 1] = n
      BY <1>4, <2>1, <2>3, <3>1
    <3> QED
      BY <1>2, <3>2 DEF Done
  <2> QED
    BY <2>1, <2>2, <2>3
<1>8. Way(slot, q)[Len(q) + 1] = n
  <2> HIDE DEF q, r
  <2>1. Len(q) + 1 = Len(r) + 2
    BY <1>1, <1>4
  <2> QED
    BY <1>4, <2>1
<1>9. offset' + left'[n] <= 1 + Len(q) * HopTime
  BY <1>2, <1>4
<1> HIDE DEF q, r
<1> QED
  BY <1>4, <1>6, <1>7, <1>8, <1>9 DEF Trail

\* Who hears a relay is the next on the trail.
LEMMA TrailGoesOn ==
  ASSUME slot \in Leaf, UNCHANGED <<link, slot, offset>>,
         \A h \in Leaf : Done(h) => Done(h)', NEW m \in Leaf, NEW n \in Node, NEW p \in Packet,
         Trail(m, p), flash[m] = "resend", Done(m)', left[m] \in Nat, offset \in Nat,
         <<m, n>> \in link, flash'[n] = "received", left'[n] = HopTime
  PROVE  Trail(n, p)'
<1> DEFINE r == p.route
<1>1. r \in Seq(Leaf) /\ Len(r) \in Nat
  BY PacketFacts
<1>2. /\ p.id = slot /\ IsInjective(Way(slot, r))
      /\ \A i \in 1..Len(r) :
           <<Way(slot, r)[i], Way(slot, r)[i + 1]>> \in link /\ Done(Way(slot, r)[i])
      /\ Way(slot, r)[Len(r) + 1] = m
      /\ offset + left[m] <= 1 + Len(r) * HopTime
  BY DEF Trail
<1>3. offset' + left'[n] <= 1 + (Len(r) + 1) * HopTime
  <2>1. (Len(r) + 1) * HopTime = Len(r) * HopTime + HopTime /\ Len(r) * HopTime \in Nat
    BY <1>1, Hops
  <2> HIDE DEF r
  <2> QED
    BY <1>2, <2>1, NodeFacts
<1>4. \A i \in 1..Len(r) : Done(Way(slot, r)[i])'
  <2> SUFFICES ASSUME NEW i \in 1..Len(r) PROVE Done(Way(slot, r)[i])'
    OBVIOUS
  <2>1. Done(Way(slot, r)[i])
    BY <1>2
  <2>2. Way(slot, r)[i] \in Leaf
    BY <2>1 DEF Done
  <2> QED
    BY <2>1, <2>2 DEF Done, Way
<1> HIDE DEF r
<1> QED
  BY <1>2, <1>3, <1>4 DEF Trail, r

\* The leaves after a step of the mapping that takes no time, ...
LEMMA MappingLeaves ==
  ASSUME SlotInv, StartupInv, Mapping, MappingMove, [TdmaNext]_tdmaVars, NEW k \in Leaf
  PROVE  LeafMapping(k)'
<1> USE NodeFacts DEF SlotInv, BaseInv, TypeInv
<1>1. UNCHANGED <<link, slot, offset, phase>>
  BY MappingFrame
<1>2. CASE Outside(k)
  BY <1>2, StaysOutside DEF LeafMapping
<1>3. CASE ~Outside(k)
  <2>1. /\ phase[k] = "phase1" /\ act[k] \in {"wait", "flash", "send"}
        /\ act[k] = "wait" => cycle[k] = slot \/ offset = 0
        /\ act[k] = "flash" => cycle[k] = slot /\ slot # k
        /\ flash[k] = "listen" => left[k] + offset = SlotLen - 1
        /\ act[k] = "send" => slot = k /\ offset <= 1 /\ cycle[k] = slot
    BY <1>3, MappingFacts
  <2>2. SUFFICES ASSUME act'[k] # act[k] \/ cycle'[k] # cycle[k]
                        \/ (flash'[k] = "listen" /\ (flash[k] # "listen" \/ left'[k] # left[k]))
                 PROVE  LeafMapping(k)'
    BY <1>1, <2>1 DEF LeafMapping
  <2>3. ASSUME NEW m \in Node, NEW p \in Packet, Reaches(m, p), flash[m] # "received",
               UNCHANGED <<link, rx_on, flash_buf, auto_re_tx>>
        PROVE  ~(flash'[k] = "listen" /\ (flash[k] # "listen" \/ left'[k] # left[k]))
    BY <2>3, ReachesFacts
  <2>4. CASE RootMapped
    BY <2>2, <2>4 DEF RootMapped, Handle, Returns, NodesOK, AirOK
  <2>5. CASE ListenInStartup(Root) \/ NoMessage(Root)
    BY <2>2, <2>5 DEF ListenInStartup, NoMessage, Enable, Goes, Listen, TimedOut, Returns,
       NodesOK, AirOK
  <2>6. ASSUME NEW n \in Leaf, phase[n] = "phase1", SlotSteps(n)
        PROVE  LeafMapping(k)'
    <3>1. CASE ListenInStartup(n)
      <4>1. k = n
        BY <2>2, <3>1 DEF ListenInStartup, Enable, Goes, Listen, NodesOK, AirOK
      <4>2. act[n] = "wait" /\ cycle[n] # slot /\ slot # n
        BY <2>1, <2>6, <3>1, <4>1 DEF ListenInStartup, AtTop
      <4>3. offset = 0
        BY <2>1, <4>1, <4>2
      <4>4. act'[n] = "flash" /\ cycle'[n] = slot /\ left'[n] = Timeout
        BY <3>1 DEF ListenInStartup, Enable, Goes, Listen, NodesOK, AirOK
      <4>5. left'[n] + offset' = SlotLen - 1
        BY <1>1, <4>3, <4>4 DEF Timeout
      <4> QED
        BY <1>1, <2>1, <4>1, <4>2, <4>4, <4>5 DEF LeafMapping
    <3>2. CASE PrepareToSend(n)
      <4>1. k = n
        BY <2>2, <3>2 DEF PrepareToSend, Goes, NodesOK, flashVars
      <4>2. act[n] = "wait" /\ cycle[n] # slot /\ slot = n
        BY <2>1, <2>6, <3>2, <4>1 DEF PrepareToSend, AtTop
      <4>3. offset = 0
        BY <2>1, <4>1, <4>2
      <4>4. act'[n] = "send" /\ cycle'[n] = slot /\ flash'[n] = flash[n] /\ flash[n] # "listen"
        BY <3>2, <4>2 DEF PrepareToSend, Goes, NodesOK, flashVars, ModesOK
      <4> QED
        BY <1>1, <2>1, <4>1, <4>2, <4>3, <4>4 DEF LeafMapping
    <3>3. CASE Flood(n)
      <4>1. k = n
        BY <2>2, <2>3, <3>3, HeldPackets DEF Flood, Transmit, Goes, NodesOK
      <4>2. act'[n] = "wait" /\ cycle'[n] = slot /\ flash'[n] = "idle"
        BY <3>3, HeldPackets, ReachesFacts DEF Flood, Transmit, Goes, NodesOK
      <4> QED
        BY <1>1, <2>1, <4>1, <4>2 DEF LeafMapping
    <3>4. CASE LeafReceives(n)
      BY <2>2, <3>4 DEF LeafReceives, Handle, AirOK
    <3>5. CASE LeafResends(n)
      <4>1. k = n
        BY <2>2, <2>3, <3>5, HeldPackets DEF LeafResends, Resend, Returns, NodesOK
      <4>2. act'[n] = "wait" /\ cycle'[n] = cycle[n] /\ flash'[n] = "idle" /\ act[n] = "flash"
        BY <2>6, <3>5, HeldPackets, ReachesFacts DEF LeafResends, Resend, Returns, NodesOK
      <4> QED
        BY <1>1, <2>1, <4>1, <4>2 DEF LeafMapping
    <3>6. CASE NoMessage(n)
      <4>1. k = n
        BY <2>2, <3>6 DEF NoMessage, TimedOut, Returns, NodesOK, AirOK
      <4>2. act'[n] = "wait" /\ cycle'[n] = cycle[n] /\ flash'[n] = "idle" /\ act[n] = "flash"
        BY <2>6, <3>6 DEF NoMessage, TimedOut, Returns, NodesOK, AirOK
      <4> QED
        BY <1>1, <2>1, <4>1, <4>2 DEF LeafMapping
    <3> QED
      BY <2>6, <3>1, <3>2, <3>3, <3>4, <3>5, <3>6 DEF SlotSteps
  <2> QED
    BY <2>4, <2>5, <2>6 DEF MappingMove
<1> QED
  BY <1>2, <1>3

\* ... the packets, ...
LEMMA MappingTrails ==
  ASSUME FloodFits, RouteFits, SlotInv, StartupInv, Mapping, MappingMove, [TdmaNext]_tdmaVars,
         NEW k \in Node, NEW p \in Packet, Live(k)', Held(k)' = p
  PROVE  Trail(k, p)'
<1> USE NodeFacts DEF SlotInv, BaseInv, TypeInv, ClockOK
<1>1. UNCHANGED <<link, slot, offset, phase>> /\ \A h \in Leaf : Done(h) => Done(h)'
  BY MappingFrame
<1>2. slot \in Leaf /\ phase[Root] = "phase1" /\ slot # 0 /\ offset \in Nat
  BY DEF Mapping, Slot, Leaf
<1>3. \A n \in Node : Live(n) => Held(n) \in Packet /\ Trail(n, Held(n)) /\ left[n] \in Nat
  BY DEF StartupInv, MappingOK, DeadlineOK, AirOK
<1>4. ~Ageing(k)
  <2>1. CASE RootMapped \/ ListenInStartup(Root) \/ NoMessage(Root)
    BY <2>1 DEF Ageing, Tick, FlashTick, RootMapped, ListenInStartup, NoMessage, Handle, Enable,
       Listen, TimedOut, AirOK, At, AtTop, ModesOK
  <2>2. ASSUME NEW n \in Leaf, SlotSteps(n) PROVE ~Ageing(k)
    <3> SUFFICES ASSUME Tick PROVE FALSE
      BY DEF Ageing
    <3>1. UNCHANGED <<act, flash>> /\ Settled(n)
      BY DEF Tick, FlashTick, nodeVars
    <3>2. ~ListenInStartup(n) /\ ~LeafReceives(n) /\ ~NoMessage(n) /\ ~LeafResends(n)
      BY <3>1, HeldPackets, ReachesFacts DEF ListenInStartup, LeafReceives, NoMessage, LeafResends,
         Enable, Listen, AirOK, Handle, TimedOut, Resend, AtTop, ModesOK
    <3>3. ~PrepareToSend(n) /\ ~Flood(n)
      BY <3>1 DEF PrepareToSend, Flood, Goes, NodesOK, AtTop
    <3> QED
      BY <2>2, <3>2, <3>3 DEF SlotSteps
  <2> QED
    BY <2>1, <2>2 DEF MappingMove
<1>5. CASE Keeping(k)
  <2>1. Trail(k, p) /\ flash'[k] = flash[k] /\ left'[k] = left[k]
    BY <1>3, <1>5 DEF Keeping
  <2> QED
    BY <1>1, <2>1, TrailKept
<1>6. CASE Editing(k)
  <2>1. /\ k \in Leaf /\ Live(k) /\ act[k] = "flash" /\ flash[k] = "received"
        /\ flash'[k] = "resend" /\ left'[k] = left[k]
    BY <1>6 DEF Editing, LeafReceives
  <2>2. phase[k] = "phase1"
    BY <2>1, MappingFacts DEF Outside
  <2>3. PICK q \in Packet : q = Held(k)
    BY <1>3, <2>1
  <2>4. p = Relayed(k, q) /\ Trail(k, q)
    BY <1>3, <1>6, <2>1, <2>2, <2>3 DEF Editing
  <2>5. Trail(k, Relayed(k, q))'
    BY <1>1, <1>2, <2>1, <2>4, TrailGrows
  <2> QED
    BY <2>4, <2>5
<1>7. CASE Hearing(k)
  <2>1. PICK m \in Node :
          /\ Woken(m, k) /\ flash'[k] = "received" /\ left'[k] = HopTime
          /\ \/ Flood(m) /\ Held(k)' = Outgoing(m)
             \/ LeafResends(m) /\ Held(k)' = flash_buf[m]
             \/ RootSync \/ RootSlot
    BY <1>7 DEF Hearing
  <2>2. ~RootSync /\ ~RootSlot
    BY <1>2 DEF RootSync, RootSlot, At, AtTop
  <2>3. <<m, k>> \in link
    BY <2>1 DEF Woken, Hears
  <2>4. CASE Flood(m) /\ Held(k)' = Outgoing(m)
    <3>1. act[m] = "send" /\ act'[m] = "wait" /\ cycle'[m] = slot
      BY <2>4 DEF Flood, Goes, NodesOK
    <3>2. m \in Leaf
      BY <3>1 DEF StartupInv, MappingOK
    <3>3. m = slot /\ offset <= 1 /\ phase[m] = "phase1"
      BY <3>1, <3>2, MappingFacts
    <3>4. Done(slot)'
      BY <1>1, <3>1, <3>2, <3>3 DEF Done
    <3>5. p = Pkt(slot, <<>>)
      BY <2>4, <3>2, <3>3 DEF Outgoing
    <3> QED
      BY <1>1, <1>2, <2>1, <2>3, <3>3, <3>4, <3>5, TrailBegins
  <2>5. CASE LeafResends(m) /\ Held(k)' = flash_buf[m]
    <3>1. /\ m \in Leaf /\ flash[m] = "resend" /\ act[m] = "flash" /\ Live(m)
          /\ Held(m) = flash_buf[m]
      BY <2>5 DEF LeafResends, Resend, Live, Held
    <3>2. phase[m] = "phase1" /\ cycle[m] = slot
      BY <3>1, MappingFacts DEF Outside
    <3>3. Done(m)'
      BY <1>1, <2>5, <3>1, <3>2 DEF Done, LeafResends, Returns, NodesOK
    <3>4. Trail(m, p) /\ left[m] \in Nat
      BY <1>3, <2>5, <3>1
    <3> QED
      BY <1>1, <1>2, <2>1, <2>3, <3>1, <3>3, <3>4, TrailGoesOn
  <2> QED
    BY <2>1, <2>2, <2>4, <2>5
<1> QED
  BY <1>4, <1>5, <1>6, <1>7, LiveAfter

\* ... and the root.
LEMMA MappingMoves ==
  ASSUME FloodFits, RouteFits, SlotInv, StartupInv, Mapping, MappingMove, [TdmaNext]_tdmaVars
  PROVE  Mapping' /\ MappingOK'
<1> USE NodeFacts DEF SlotInv, BaseInv, TypeInv
<1>1. UNCHANGED <<link, slot, offset, phase>>
  BY MappingFrame
<1>2. Mapping'
  BY <1>1 DEF Mapping
<1>3. \A n \in Leaf : LeafMapping(n)'
  BY MappingLeaves
<1>4. \A n \in Node : \A p \in Packet : Live(n)' /\ Held(n)' = p => Trail(n, p)'
  BY MappingTrails
<1>5. /\ act[Root] \in {"wait", "decide", "flash"}
      /\ act[Root] = "wait" => cycle[Root] = 0 /\ offset = 0
      /\ flash[Root] = "listen" => left[Root] \in 0..SlotLen-1
  BY DEF StartupInv, MappingOK
<1>6. /\ act'[Root] \in {"wait", "decide", "flash"}
      /\ act'[Root] = "wait" => cycle'[Root] = 0 /\ offset' = 0
      /\ flash'[Root] = "listen" => left'[Root] \in 0..SlotLen-1
  <2>1. CASE RootMapped
    <3>1. act'[Root] = "decide" /\ flash'[Root] # "listen"
      BY <2>1 DEF RootMapped, Returns, Handle, At, NodesOK, AirOK
    <3> QED
      BY <3>1
  <2>2. CASE ListenInStartup(Root)
    <3>1. act'[Root] = "flash" /\ left'[Root] = Timeout
      BY <2>2 DEF ListenInStartup, Enable, Goes, Listen, NodesOK, AirOK
    <3> QED
      BY <3>1 DEF Timeout
  <2>3. CASE NoMessage(Root)
    <3>1. act'[Root] = "decide" /\ flash'[Root] = "idle"
      BY <1>2, <2>3 DEF NoMessage, TimedOut, Returns, Mapping, NodesOK, AirOK
    <3> QED
      BY <3>1
  <2>4. ASSUME NEW n \in Leaf, SlotSteps(n)
        PROVE  /\ act'[Root] = act[Root] /\ cycle'[Root] = cycle[Root]
               /\ flash'[Root] = "listen" => flash[Root] = "listen" /\ left'[Root] = left[Root]
    <3>1. ASSUME NEW p \in Packet, Reaches(n, p), flash[n] # "received",
                 UNCHANGED <<link, rx_on, flash_buf, auto_re_tx>>
          PROVE  flash'[Root] = "listen" => flash[Root] = "listen" /\ left'[Root] = left[Root]
      BY <3>1, ReachesFacts
    <3>2. CASE ListenInStartup(n) \/ PrepareToSend(n) \/ LeafReceives(n) \/ NoMessage(n)
      BY <3>2 DEF ListenInStartup, PrepareToSend, LeafReceives, NoMessage, Enable, Goes, Listen,
         Handle, TimedOut, Returns, NodesOK, AirOK, flashVars
    <3>3. CASE Flood(n)
      BY <3>1, <3>3, HeldPackets DEF Flood, Transmit, Goes, NodesOK
    <3>4. CASE LeafResends(n)
      BY <3>1, <3>4, HeldPackets DEF LeafResends, Resend, Returns, NodesOK
    <3> QED
      BY <2>4, <3>2, <3>3, <3>4 DEF SlotSteps
  <2> QED
    BY <1>1, <1>5, <2>1, <2>2, <2>3, <2>4 DEF MappingMove
<1> QED
  BY <1>2, <1>3, <1>4, <1>6 DEF MappingOK

\* So the mapping lasts until slot 0 comes back.
LEMMA FromMapping ==
  ASSUME FloodFits, RouteFits, SlotInv, StartupInv, Mapping, [TdmaNext]_tdmaVars
  PROVE  (Mapping' /\ MappingOK') \/ (Closing' /\ ClosingOK')
<1>1. CASE Tick
  BY <1>1, MappingTicks
<1>2. CASE UNCHANGED tdmaVars
  <2>1. MappingOK
    BY DEF StartupInv
  <2> QED
    BY <1>2, <2>1 DEF Mapping, MappingOK, LeafMapping, Outside, Live, Held, Trail, Way, Done,
       tdmaVars, nodeVars, flashVars
<1>3. CASE MappingMove
  BY <1>3, MappingMoves
<1> QED
  BY <1>1, <1>2, <1>3, MappingSteps DEF MappingMove, SlotSteps

-----------------------------------------------------------------------------
(* The end of the startup.                                                  *)

\* In the slot 0 after it nothing happens but that.
LEMMA ClosingSteps ==
  ASSUME SlotInv, StartupInv, Closing, [TdmaNext]_tdmaVars
  PROVE  \/ Tick \/ UNCHANGED tdmaVars
         \/ phase[Root] = "phase1" /\ (NextPhase(Root) \/ NoMessage(Root))
         \/ \E n \in Leaf : phase[n] = "phase1" /\ NextPhase(n)
<1> USE NodeFacts DEF SlotInv, BaseInv
<1>0. /\ slot = 0 /\ \A n \in Node : ~Live(n)
      /\ \A n \in Leaf : LeafClosing(n)
      /\ \/ phase[Root] = "phase1" /\ act[Root] \in {"decide", "flash"}
         \/ phase[Root] = "phase2" /\ act[Root] = "wait" /\ cycle[Root] = 0
  BY DEF Closing, StartupInv, ClosingOK
<1>1. ~RootStep
  BY <1>0 DEF RootStep, RootBoot, RootSync, RootReady, RootSlot, RootMapped, RootCounts, At, AtTop,
     Live
<1>2. NodeStep(Root) => phase[Root] = "phase1" /\ (NextPhase(Root) \/ NoMessage(Root))
  <2>1. ~AwaitSync(Root) /\ ~ListenInStartup(Root) /\ ~PrepareToSend(Root) /\ ~Flood(Root)
    BY <1>0 DEF AwaitSync, ListenInStartup, PrepareToSend, Flood
  <2>2. ~LeafReady(Root) /\ ~LeafSlot(Root) /\ ~LeafReceives(Root) /\ ~LeafResends(Root)
    BY DEF LeafReady, LeafSlot, LeafReceives, LeafResends
  <2>3. NextPhase(Root) \/ NoMessage(Root) => phase[Root] = "phase1"
    BY <1>0 DEF NextPhase, NoMessage, AtTop
  <2> QED
    BY <2>1, <2>2, <2>3 DEF NodeStep
<1>3. ASSUME NEW n \in Leaf, NodeStep(n) PROVE phase[n] = "phase1" /\ NextPhase(n)
  <2>1. \/ phase[n] = "sync" /\ act[n] = "flash" /\ left[n] = NoTimeout
        \/ phase[n] = "phase1" /\ act[n] = "wait" /\ cycle[n] # 0
        \/ phase[n] = "phase2" /\ act[n] = "wait" /\ cycle[n] = 0
    BY <1>0 DEF LeafClosing, Outside, StartupInv, OutsideOK, ModesOK
  <2>2. ~AwaitSync(n) /\ ~ListenInStartup(n) /\ ~PrepareToSend(n) /\ ~Flood(n)
    BY <1>0, <2>1 DEF AwaitSync, ListenInStartup, PrepareToSend, Flood, At
  <2>3. ~LeafReady(n) /\ ~LeafSlot(n)
    BY <1>0, <2>1 DEF LeafReady, LeafSlot, AtTop
  <2>4. ~LeafReceives(n) /\ ~LeafResends(n) /\ ~NoMessage(n)
    BY <1>0, <2>1 DEF LeafReceives, LeafResends, Resend, NoMessage, TimedOut, Live, NoTimeout
  <2>5. NextPhase(n) => phase[n] = "phase1"
    BY DEF NextPhase, AtTop
  <2> QED
    BY <1>3, <2>2, <2>3, <2>4, <2>5 DEF NodeStep
<1> QED
  BY <1>1, <1>2, <1>3 DEF TdmaNext

\* The root and the leaves go over to phase 2 before slot 0 is over.
LEMMA FromClosing ==
  ASSUME FloodFits, SlotInv, StartupInv, Closing, [TdmaNext]_tdmaVars
  PROVE  (Closing' /\ ClosingOK') \/ (After' /\ AfterOK')
<1> USE NodeFacts DEF SlotInv, BaseInv, TypeInv, ClockOK
<1>0. /\ slot = 0 /\ \A n \in Node : ~Live(n)
      /\ \A n \in Leaf : LeafClosing(n)
      /\ \/ phase[Root] = "phase1" /\ act[Root] \in {"decide", "flash"}
         \/ phase[Root] = "phase2" /\ act[Root] = "wait" /\ cycle[Root] = 0
      /\ phase[Root] = "phase1" /\ act[Root] = "flash" =>
           left[Root] \in Nat /\ left[Root] + offset <= SlotLen - 2
  BY DEF Closing, StartupInv, ClosingOK
<1>1. CASE Tick
  <2>1. /\ UNCHANGED <<phase, act, cycle, flash>>
        /\ \A n \in Node : Settled(n) /\ left[n] # 0
        /\ left[Root] \in Nat => left'[Root] = left[Root] - 1
    BY <1>1 DEF Tick, FlashTick, nodeVars, NoTimeout
  <2>2. \A n \in Node : ~Live(n)'
    BY <1>0, <2>1 DEF Live
  <2>3. \A n \in Leaf : LeafClosing(n)'
    BY <1>0, <2>1 DEF LeafClosing, Outside
  <2>4. CASE phase[Root] = "phase1"
    <3>1. act[Root] = "flash"
      BY <1>0, <2>1, <2>4 DEF Settled
    <3>2. left[Root] \in Nat /\ left[Root] >= 1 /\ left[Root] + offset <= SlotLen - 2
      BY <1>0, <2>1, <2>4, <3>1
    <3>3. offset' = offset + 1 /\ slot' = 0
      <4>1. offset + 1 < SlotLen
        BY <3>2
      <4> QED
        BY <1>0, <1>1, <4>1 DEF Tick
    <3>4. left'[Root] \in Nat /\ left'[Root] + offset' <= SlotLen - 2
      BY <2>1, <3>2, <3>3
    <3> QED
      BY <2>1, <2>2, <2>3, <2>4, <3>1, <3>3, <3>4 DEF Closing, ClosingOK
  <2>5. CASE phase[Root] = "phase2" /\ act[Root] = "wait" /\ cycle[Root] = 0
    <3>1. CASE slot' = 0
      BY <2>1, <2>2, <2>3, <2>5, <3>1 DEF Closing, ClosingOK
    <3>2. CASE slot' # 0
      <4>1. ASSUME NEW n \in Leaf PROVE Outside(n)' \/ phase'[n] = "phase2"
        <5>1. Settled(n) /\ LeafClosing(n)
          BY <1>0, <2>1
        <5> QED
          BY <1>0, <2>1, <5>1 DEF Settled, LeafClosing, Outside
      <4> QED
        BY <2>1, <2>2, <2>5, <3>2, <4>1 DEF Closing, After, AfterOK
    <3> QED
      BY <3>1, <3>2
  <2> QED
    BY <1>0, <2>4, <2>5
<1>2. CASE NextPhase(Root)
  <2>1. /\ UNCHANGED <<slot, offset, flash>> /\ Goes(Root, "phase2", "wait")
    BY <1>2 DEF NextPhase, Unchanged, Stays, flashVars
  <2>2. phase'[Root] = "phase2" /\ act'[Root] = "wait" /\ cycle'[Root] = 0
    BY <1>0, <2>1 DEF Goes, NodesOK
  <2>3. \A n \in Leaf : LeafClosing(n)'
    BY <1>0, <2>1 DEF LeafClosing, Outside, Goes, NodesOK
  <2> QED
    BY <1>0, <2>1, <2>2, <2>3 DEF Closing, ClosingOK, Live
<1>3. CASE phase[Root] = "phase1" /\ NoMessage(Root)
  <2>1. UNCHANGED <<slot, offset, phase, cycle>> /\ TimedOut(Root) /\ Returns(Root)
    BY <1>3 DEF NoMessage
  <2>2. act'[Root] = "decide"
    BY <1>3, <2>1 DEF Returns, NodesOK
  <2>3. \A n \in Leaf : LeafClosing(n)'
    BY <1>0, <2>1 DEF LeafClosing, Outside, Returns, TimedOut, NodesOK, AirOK
  <2>4. \A n \in Node : ~Live(n)'
    BY <1>0, <2>1 DEF Live, TimedOut, AirOK
  <2> QED
    BY <1>0, <1>3, <2>1, <2>2, <2>3, <2>4 DEF Closing, ClosingOK
<1>4. ASSUME NEW n \in Leaf, phase[n] = "phase1", NextPhase(n) PROVE Closing' /\ ClosingOK'
  <2>1. /\ UNCHANGED <<slot, offset, flash, left>> /\ Goes(n, "phase2", "wait")
    BY <1>4 DEF NextPhase, Unchanged, Stays, flashVars
  <2>2. phase'[Root] = phase[Root] /\ act'[Root] = act[Root] /\ cycle'[Root] = cycle[Root]
    BY <2>1 DEF Goes, NodesOK
  <2>3. \A k \in Leaf : LeafClosing(k)'
    BY <1>0, <2>1 DEF LeafClosing, Outside, Goes, NodesOK
  <2> QED
    BY <1>0, <2>1, <2>2, <2>3 DEF Closing, ClosingOK, Live
<1>5. CASE UNCHANGED tdmaVars
  BY <1>5 DEF StartupInv, Closing, ClosingOK, LeafClosing, Outside, Live, tdmaVars, nodeVars,
     flashVars
<1> QED
  BY <1>1, <1>2, <1>3, <1>4, <1>5, ClosingSteps

\* From then on the root stays where it is, or enters its main loop.
LEMMA RootStaysAfter ==
  ASSUME SlotInv, StartupInv, After, [TdmaNext]_tdmaVars
  PROVE  /\ phase'[Root] \in {"phase2", "steady"}
         /\ phase'[Root] = "phase2" => phase[Root] = "phase2" /\ act'[Root] \in {"wait", "send"}
         /\ ~Closing'
         /\ shortest_paths' = shortest_paths
<1> USE NodeFacts DEF SlotInv, BaseInv, TypeInv, NodesOK
<1>0. /\ phase[Root] \in {"phase2", "steady"} /\ ~Closing
      /\ phase[Root] = "phase2" => act[Root] \in {"wait", "send"}
  BY DEF After, StartupInv, AfterOK
<1>1. CASE Tick
  <2>1. UNCHANGED <<phase, act, cycle, shortest_paths>> /\ Settled(Root)
    BY <1>1 DEF Tick, nodeVars, tableVars
  <2>2. ~Closing'
    BY <1>0, <2>1 DEF Closing, Settled
  <2> QED
    BY <1>0, <2>1, <2>2
<1>2. CASE RootReady \/ RootSlot
  <2>1. phase'[Root] = "steady" /\ shortest_paths' = shortest_paths
    BY <1>2 DEF RootReady, RootSlot, Goes, Enable, tableVars
  <2> QED
    BY <2>1 DEF Closing
<1>3. CASE RootCounts
  <2>1. phase'[Root] = "steady" /\ shortest_paths' = shortest_paths
    BY <1>3 DEF RootCounts, At, tableVars
  <2> QED
    BY <2>1 DEF Closing
<1>4. ~RootBoot /\ ~RootSync /\ ~RootMapped
  BY <1>0 DEF RootBoot, RootSync, RootMapped, At
<1>5. CASE NodeStep(Root)
  <2>1. CASE PrepareToSend(Root)
    <3>1. act'[Root] = "send" /\ phase'[Root] = phase[Root] /\ shortest_paths' = shortest_paths
      BY <2>1 DEF PrepareToSend, Goes, tableVars
    <3> QED
      BY <1>0, <3>1 DEF Closing
  <2>2. CASE Flood(Root)
    <3>1. /\ act[Root] = "send" /\ act'[Root] = "wait"
          /\ phase'[Root] = phase[Root] /\ cycle'[Root] = slot
          /\ slot' = slot /\ shortest_paths' = shortest_paths /\ offset > 0
      BY <2>2 DEF Flood, Goes, Stays, tableVars
    <3>2. SlotLen > 1
      BY <3>1 DEF ClockOK
    <3>3. slot # 0
      BY <1>0, <3>1, <3>2 DEF SendersOK
    <3> QED
      BY <1>0, <3>1, <3>3 DEF Closing
  <2>3. CASE NoMessage(Root)
    <3>1. phase[Root] = "steady" /\ phase' = phase /\ shortest_paths' = shortest_paths
      BY <1>0, <2>3 DEF NoMessage, tableVars
    <3> QED
      BY <3>1 DEF Closing
  <2>4. ~NextPhase(Root) /\ ~AwaitSync(Root) /\ ~ListenInStartup(Root) /\ ~LeafReady(Root)
    BY <1>0 DEF NextPhase, AwaitSync, ListenInStartup, LeafReady, AtTop
  <2>5. ~LeafSlot(Root) /\ ~LeafReceives(Root) /\ ~LeafResends(Root)
    BY DEF LeafSlot, LeafReceives, LeafResends
  <2> QED
    BY <1>5, <2>1, <2>2, <2>3, <2>4, <2>5 DEF NodeStep
<1>6. ASSUME NEW n \in Leaf, NodeStep(n)
      PROVE  /\ phase'[Root] = phase[Root] /\ act'[Root] = act[Root] /\ cycle'[Root] = cycle[Root]
             /\ slot' = slot /\ shortest_paths' = shortest_paths
  BY <1>6 DEF NodeStep, NextPhase, AwaitSync, ListenInStartup, PrepareToSend, Flood,
     LeafReady, LeafSlot, LeafReceives, LeafResends, NoMessage, Goes, Enable, Returns, Stays,
     Unchanged, tableVars
<1>7. CASE UNCHANGED tdmaVars
  BY <1>0, <1>7 DEF tdmaVars, nodeVars, tableVars, Closing
<1>8. ASSUME NEW n \in Leaf, NodeStep(n)
      PROVE  /\ phase'[Root] \in {"phase2", "steady"}
             /\ phase'[Root] = "phase2" => phase[Root] = "phase2" /\ act'[Root] \in {"wait", "send"}
             /\ ~Closing' /\ shortest_paths' = shortest_paths
  BY <1>0, <1>6, <1>8 DEF Closing
<1> QED
  BY <1>1, <1>2, <1>3, <1>4, <1>5, <1>7, <1>8 DEF TdmaNext, RootStep

\* The leaves stay outside, or in the phases after the mapping.
LEMMA LeavesStayAfter ==
  ASSUME SlotInv, StartupInv, After, [TdmaNext]_tdmaVars, NEW n \in Leaf
  PROVE  Outside(n)' \/ phase'[n] \in {"phase2", "steady"}
<1> USE NodeFacts DEF SlotInv, BaseInv, TypeInv, NodesOK
<1>1. CASE Outside(n)
  BY <1>1, StaysOutside
<1>2. CASE ~Outside(n)
  <2>1. phase[n] \in {"phase2", "steady"}
    BY <1>2 DEF StartupInv, AfterOK
  <2>2. CASE Tick \/ RootStep \/ UNCHANGED tdmaVars
    BY <2>1, <2>2 DEF Tick, RootStep, RootBoot, RootSync, RootReady, RootSlot, RootMapped,
       RootCounts, Goes, Enable, tdmaVars, nodeVars
  <2>3. ASSUME NEW k \in Node, NodeStep(k) PROVE phase'[n] \in {"phase2", "steady"}
    BY <2>1, <2>3 DEF NodeStep, NextPhase, AwaitSync, ListenInStartup, PrepareToSend, Flood,
       LeafReady, LeafSlot, LeafReceives, LeafResends, NoMessage, Goes, Enable, At
  <2> QED
    BY <2>2, <2>3 DEF TdmaNext
<1> QED
  BY <1>1, <1>2

\* A packet under way then has the route the root had for it, or none.
LEMMA FromAfter ==
  ASSUME SlotInv, StartupInv, PathsMade, After, [TdmaNext]_tdmaVars
  PROVE  After' /\ AfterOK'
<1> USE NodeFacts DEF SlotInv, BaseInv, TypeInv
<1> DEFINE Known(p) == p.route = <<>> \/ p.route = shortest_paths[p.id].route
<1>1. shortest_paths' = shortest_paths
  BY RootStaysAfter
<1>2. \A n \in Node : Live(n) => Known(Held(n))
  BY DEF StartupInv, AfterOK
<1>3. ASSUME NEW k \in Node, Live(k)' PROVE Known(Held(k)')
  <2>1. CASE Keeping(k) \/ Ageing(k)
    BY <1>2, <2>1 DEF Keeping, Ageing
  <2>2. CASE Editing(k)
    <3>1. phase[k] # "phase1"
      BY <2>2 DEF Editing, StartupInv, AfterOK, Outside
    <3> QED
      BY <1>2, <2>2, <3>1 DEF Editing
  <2>3. CASE Hearing(k)
    <3>1. PICK m \in Node :
            \/ Flood(m) /\ Held(k)' = Outgoing(m)
            \/ LeafResends(m) /\ Held(k)' = flash_buf[m]
            \/ \E id \in {0, 1, SYNC} : Held(k)' = Pkt(id, <<>>)
      BY <2>3 DEF Hearing
    <3>2. CASE Flood(m) /\ Held(k)' = Outgoing(m)
      <4>1. CASE m = Root
        <5>1. Held(k)' = shortest_paths[slot]
          BY <3>2, <4>1 DEF Outgoing
        <5>2. CASE shortest_paths[slot] = Nothing
          BY <5>1, <5>2 DEF Nothing, Pkt
        <5>3. CASE shortest_paths[slot] # Nothing
          BY <5>1, <5>3 DEF PathsMade, ClockOK
        <5> QED
          BY <5>2, <5>3
      <4>2. CASE m # Root
        BY <3>2, <4>2 DEF Outgoing, Pkt
      <4> QED
        BY <4>1, <4>2
    <3>3. CASE LeafResends(m) /\ Held(k)' = flash_buf[m]
      <4>1. Live(m) /\ Held(m) = flash_buf[m]
        BY <3>3 DEF LeafResends, Resend, Live, Held
      <4> QED
        BY <1>2, <3>3, <4>1
    <3>4. CASE \E id \in {0, 1, SYNC} : Held(k)' = Pkt(id, <<>>)
      BY <3>4 DEF Pkt
    <3> QED
      BY <3>1, <3>2, <3>3, <3>4
  <2> QED
    BY <1>3, <2>1, <2>2, <2>3, LiveAfter
<1>4. \A n \in Leaf : Outside(n)' \/ phase'[n] \in {"phase2", "steady"}
  BY LeavesStayAfter
<1>5. /\ phase'[Root] \in {"phase2", "steady"} /\ ~Closing'
      /\ phase'[Root] = "phase2" => act'[Root] \in {"wait", "send"}
  BY RootStaysAfter
<1> QED
  BY <1>1, <1>3, <1>4, <1>5 DEF After, AfterOK

-----------------------------------------------------------------------------
(* The routes and the tables.                                               *)

\* What the root takes over as a route is one.
LEMMA TrailIsRoute ==
  ASSUME NEW n, n = Root, NEW p \in Packet, slot \in Leaf, Trail(n, p), flash[n] = "received"
  PROVE  p.id = slot /\ IsRoute(slot, p.route)
<1> DEFINE r == p.route
           w == Way(slot, r)
           hops == <<slot>> \o r \o <<Root>>
           m == Len(r) + 1
<1>1. r \in Seq(Leaf) /\ Len(r) \in Nat
  BY PacketFacts
<1>2. /\ p.id = slot /\ IsInjective(w)
      /\ \A i \in 1..Len(r) : <<w[i], w[i + 1]>> \in link
      /\ <<w[m], Root>> \in link
  BY DEF Trail
<1>3. w \in Seq(Leaf) /\ Len(w) = m /\ DOMAIN w = 1..m /\ m \in Nat
  <2> HIDE DEF r
  <2>1. Way(slot, r) \in Seq(Leaf) /\ Len(Way(slot, r)) = Len(r) + 1
        /\ DOMAIN Way(slot, r) = 1..Len(r)+1
    BY <1>1, WayFacts
  <2> QED
    BY <1>1, <2>1
<1>4. hops = w \o <<Root>>
  BY DEF Way
<1>5. /\ Len(hops) = m + 1 /\ DOMAIN hops = 1..m+1
      /\ \A i \in 1..m : hops[i] = w[i]
      /\ hops[m + 1] = Root
  <2> HIDE DEF w, m, hops
  <2>1. w \o <<Root>> \in Seq(Leaf \cup {Root})
    BY <1>3
  <2>2. Len(w \o <<Root>>) = m + 1
    BY <1>3
  <2>3. \A i \in 1..m : (w \o <<Root>>)[i] = w[i]
    BY <1>3
  <2>4. (w \o <<Root>>)[m + 1] = Root
    BY <1>3
  <2>5. DOMAIN (w \o <<Root>>) = 1..m+1
    BY <2>1, <2>2
  <2> QED
    BY <1>4, <2>2, <2>3, <2>4, <2>5
<1>6. \A i \in 1..m : w[i] \in Leaf /\ w[i] # Root
  BY <1>3, NodeFacts
<1> HIDE DEF w, hops
<1>7. IsInjective(hops)
  <2> SUFFICES ASSUME NEW a \in 1..m+1, NEW b \in 1..m+1, hops[a] = hops[b] PROVE a = b
    BY <1>5 DEF IsInjective
  <2>1. (a \in 1..m \/ a = m + 1) /\ (b \in 1..m \/ b = m + 1)
    BY <1>3
  <2>2. \A i, j \in 1..m : w[i] = w[j] => i = j
    BY <1>2, <1>3 DEF IsInjective
  <2> QED
    BY <1>5, <1>6, <2>1, <2>2
<1>8. \A i \in 1..Len(hops)-1 : <<hops[i], hops[i + 1]>> \in link
  <2> SUFFICES ASSUME NEW i \in 1..m PROVE <<hops[i], hops[i + 1]>> \in link
    BY <1>3, <1>5
  <2>1. CASE i = m
    BY <1>2, <1>5, <2>1
  <2>2. CASE i # m
    <3>1. i \in 1..Len(r) /\ i + 1 \in 1..m
      BY <1>1, <2>2
    <3> QED
      BY <1>2, <1>5, <3>1
  <2> QED
    BY <2>1, <2>2
<1> QED
  BY <1>2, <1>7, <1>8 DEF IsRoute, hops, r

\* The root takes over a packet of this slot only, which has come along a trail.
LEMMA PathsNext ==
  ASSUME SlotInv, StartupInv, PathsMade, [TdmaNext]_tdmaVars
  PROVE  PathsMade'
<1> USE NodeFacts DEF SlotInv, BaseInv, TypeInv
<1>1. link' = link
  BY DEF TdmaNext, RootStep, NodeStep, Tick, RootBoot, RootSync, RootReady,
     RootSlot, RootMapped, RootCounts, NextPhase, AwaitSync, ListenInStartup, PrepareToSend,
     Flood, LeafReady, LeafSlot, LeafReceives, LeafResends, NoMessage, tdmaVars, flashVars,
     FlashTick, SetRetransmit, Transmit, Handle, Listen, Enable, Resend, TimedOut
<1>2. CASE UNCHANGED shortest_paths
  BY <1>1, <1>2 DEF PathsMade, IsRoute
<1>3. CASE RootMapped /\ shortest_paths' # shortest_paths
  <2>1. /\ phase[Root] = "phase1" /\ act[Root] = "flash" /\ flash[Root] = "received"
        /\ frame[Root].id = slot
        /\ shortest_paths' = [shortest_paths EXCEPT ![slot] = frame[Root]]
    BY <1>3 DEF RootMapped, At
  <2>2. frame[Root] \in Packet /\ Live(Root) /\ Held(Root) = frame[Root]
    BY <2>1, HeldPackets DEF Live, Held
  <2>3. Mapping
    BY <2>1, <2>2 DEF StartupInv, Mapping, Closing, ClosingOK
  <2>4. slot \in Leaf
    BY <2>3 DEF Mapping, ClockOK, Slot, Leaf
  <2>5. Trail(Root, frame[Root])
    BY <2>2, <2>3 DEF StartupInv, MappingOK
  <2>6. IsRoute(slot, frame[Root].route)
    BY <2>1, <2>2, <2>4, <2>5, TrailIsRoute
  <2>7. ASSUME NEW s \in Slot, shortest_paths'[s] # Nothing
        PROVE  s \in Leaf /\ shortest_paths'[s].id = s /\ IsRoute(s, shortest_paths'[s].route)
    BY <2>1, <2>4, <2>6, <2>7 DEF PathsMade, TablesOK
  <2> QED
    BY <1>1, <2>7 DEF PathsMade, IsRoute
<1>4. UNCHANGED shortest_paths \/ RootMapped
  BY DEF TdmaNext, RootStep, NodeStep, Tick, RootBoot, RootSync, RootReady,
     RootSlot, RootCounts, NextPhase, AwaitSync, ListenInStartup, PrepareToSend,
     Flood, LeafReady, LeafSlot, LeafReceives, LeafResends, NoMessage, tdmaVars, tableVars
<1> QED
  BY <1>2, <1>3, <1>4

\* The tables are filled in after the mapping.
LEMMA TablesLate ==
  ASSUME SlotInv, StartupInv, NEW n \in Leaf,
         LeafReady(n) \/ (LeafReceives(n) /\ phase[n] = "phase2")
  PROVE  After
<1> USE NodeFacts DEF SlotInv, BaseInv
<1>1. /\ phase[n] = "phase2"
      /\ Live(n) \/ (slot = 0 /\ AtTop(n, "phase2"))
  BY DEF LeafReady, AtTop, LeafReceives, Live
<1>2. phase[Root] # "sync"
  BY <1>1 DEF StartOK
<1>3. ~First
  BY <1>1 DEF StartupInv, FirstOK, LeafFirst, Outside
<1>4. ~Mapping
  BY <1>1 DEF StartupInv, MappingOK, LeafMapping, Outside
<1>5. ~Closing
  BY <1>1 DEF StartupInv, ClosingOK, LeafClosing, Outside, AtTop
<1> QED
  BY <1>2, <1>3, <1>4, <1>5, Stages

\* The root does not go back to the mapping, ...
LEMMA RootGoesOn ==
  ASSUME BaseInv, [TdmaNext]_tdmaVars, phase'[Root] \in {"sync", "phase1"}
  PROVE  phase[Root] \in {"sync", "phase1"}
<1> USE NodeFacts DEF BaseInv, TypeInv, NodesOK
<1>1. CASE Tick \/ RootStep \/ UNCHANGED tdmaVars
  BY <1>1 DEF Tick, RootStep, RootBoot, RootSync, RootReady, RootSlot, RootMapped,
     RootCounts, Goes, Enable, At, tdmaVars, nodeVars
<1>2. ASSUME NEW k \in Node, NodeStep(k) PROVE phase[Root] \in {"sync", "phase1"}
  BY <1>2 DEF NodeStep, NextPhase, AwaitSync, ListenInStartup, PrepareToSend, Flood,
     LeafReady, LeafSlot, LeafReceives, LeafResends, NoMessage, Goes, Enable, At, AtTop
<1> QED
  BY <1>1, <1>2 DEF TdmaNext

\* ... so a table changes after it only, and to what the root has sent.
LEMMA TablesMadeNext ==
  ASSUME SlotInv, StartupInv, TablesMade, [TdmaNext]_tdmaVars
  PROVE  TablesMade'
<1> USE NodeFacts DEF SlotInv, BaseInv, TypeInv
<1>1. phase'[Root] \in {"sync", "phase1"} => phase[Root] \in {"sync", "phase1"}
  BY RootGoesOn
<1>2. CASE UNCHANGED tableVars
  BY <1>1, <1>2 DEF TablesMade, tableVars
<1>3. CASE RootMapped
  <2>1. phase[Root] = "phase1" /\ UNCHANGED time_slots
    BY <1>3 DEF RootMapped, At
  <2>2. \A n \in Leaf : \A s \in Slot : time_slots'[n][s] = "OFF"
    BY <2>1 DEF TablesMade
  <2>3. \A n \in Leaf : \A s \in Leaf \ {n} : time_slots'[n][s] # "LISTEN"
    BY <2>2 DEF Slot, Leaf
  <2> QED
    BY <2>2, <2>3 DEF TablesMade
<1>4. ASSUME NEW n \in Leaf, LeafReady(n) PROVE TablesMade'
  <2>1. phase[Root] \notin {"sync", "phase1"}
    BY <1>4, TablesLate DEF After
  <2>2. /\ time_slots' = [time_slots EXCEPT ![n][0] = "LISTEN", ![n][n] = "FLOOD"]
        /\ UNCHANGED shortest_paths
    BY <1>4 DEF LeafReady
  <2>3. ASSUME NEW k \in Leaf, NEW s \in Leaf \ {k}
        PROVE  time_slots'[k][s] = time_slots[k][s]
    BY <2>2, <2>3 DEF TablesOK
  <2> QED
    BY <1>1, <2>1, <2>2, <2>3 DEF TablesMade
<1>5. ASSUME NEW n \in Leaf, LeafReceives(n), phase[n] = "phase2" PROVE TablesMade'
  <2>1. After
    BY <1>5, TablesLate
  <2>2. /\ UNCHANGED shortest_paths
        /\ \/ UNCHANGED time_slots
           \/ /\ frame[n].id \in Slot
              /\ time_slots' = [time_slots EXCEPT ![n][frame[n].id] = TableEntry(n, frame[n])]
    BY <1>5 DEF LeafReceives
  <2>3. frame[n] \in Packet /\ Live(n) /\ Held(n) = frame[n]
    BY <1>5, HeldPackets DEF LeafReceives, Live, Held
  <2>4. frame[n].route = <<>> \/ frame[n].route = shortest_paths[frame[n].id].route
    BY <2>1, <2>3 DEF StartupInv, AfterOK
  <2>5. TableEntry(n, frame[n]) = "LISTEN" => n \in Range(shortest_paths[frame[n].id].route)
    <3>1. Range(<<>>) = {}
      BY DEF Range
    <3> QED
      BY <2>4, <3>1 DEF TableEntry
  <2>6. ASSUME NEW k \in Leaf, NEW s \in Leaf \ {k}, time_slots'[k][s] = "LISTEN"
        PROVE  k \in Range(shortest_paths[s].route)
    BY <2>2, <2>5, <2>6 DEF TablesOK, TablesMade
  <2>7. phase'[Root] \notin {"sync", "phase1"}
    BY <1>1, <2>1 DEF After
  <2> QED
    BY <2>2, <2>6, <2>7 DEF TablesMade
<1>6. \/ UNCHANGED tableVars \/ RootMapped
      \/ \E n \in Leaf : LeafReady(n) \/ (LeafReceives(n) /\ phase[n] = "phase2")
  BY DEF TdmaNext, RootStep, NodeStep, Tick, RootBoot, RootSync, RootReady,
     RootSlot, RootCounts, NextPhase, AwaitSync, ListenInStartup, PrepareToSend,
     Flood, LeafReady, LeafSlot, LeafReceives, LeafResends, NoMessage, tdmaVars, tableVars
<1> QED
  BY <1>2, <1>3, <1>4, <1>5, <1>6

-----------------------------------------------------------------------------

RouteInv == SlotInv /\ StartupInv /\ TablesMade /\ PathsMade

\* At first there are no routes, no tables, and none of the stages.
LEMMA RouteInit ==
  ASSUME TdmaInit
  PROVE  OutsideOK /\ StartupInv /\ TablesMade /\ PathsMade
<1> USE NodeFacts DEF TdmaInit, FlashInit
<1>1. OutsideOK
  BY DEF OutsideOK, Outside
<1>2. ~First /\ ~Mapping /\ ~Closing /\ ~After
  BY DEF First, Mapping, Closing, After
<1>3. TablesMade
  BY DEF TablesMade, Slot, Leaf
<1>4. PathsMade
  BY DEF PathsMade
<1> QED
  BY <1>1, <1>2, <1>3, <1>4 DEF StartupInv

\* The network goes from one stage of the startup to the next, and is in one at a time.
LEMMA StartupNext ==
  ASSUME FloodFits, RouteFits, SlotInv, StartupInv, PathsMade, [TdmaNext]_tdmaVars
  PROVE  StartupInv'
<1>1. OutsideOK'
  BY OutsideNext DEF SlotInv
<1>2. CASE phase[Root] = "sync"
  <2>1. phase'[Root] = "sync" \/ (First' /\ FirstOK')
    BY <1>2, FromBoot
  <2>2. phase'[Root] = "sync" => ~First' /\ ~Mapping' /\ ~Closing' /\ ~After'
    BY DEF First, Mapping, Closing, After
  <2>3. First' => ~Mapping' /\ ~Closing' /\ ~After'
    BY DEF First, Mapping, Closing, After
  <2> QED
    BY <1>1, <2>1, <2>2, <2>3 DEF StartupInv
<1>3. CASE First \/ Mapping \/ Closing \/ After
  <2>1. \/ First' /\ FirstOK'
        \/ Mapping' /\ MappingOK'
        \/ Closing' /\ ClosingOK'
        \/ After' /\ AfterOK'
    BY <1>3, FromFirst, FromMapping, FromClosing, FromAfter
  <2>2. /\ First' => ~Mapping' /\ ~Closing' /\ ~After'
        /\ Mapping' => ~First' /\ ~Closing' /\ ~After'
        /\ Closing' => ~First' /\ ~Mapping' /\ ~After'
        /\ After' => ~First' /\ ~Mapping' /\ ~Closing'
    BY DEF First, Mapping, Closing, After
  <2> QED
    BY <1>1, <2>1, <2>2 DEF StartupInv
<1> QED
  BY <1>2, <1>3, Stages DEF SlotInv

\* A flood that fits into a slot has hops shorter than one.
LEMMA HopFits == FloodFits => HopTime < SlotLen
<1> SUFFICES ASSUME FloodFits PROVE HopTime < SlotLen
  OBVIOUS
<1>1. 1 \in Nat /\ NUM_NODES - 1 \in Nat /\ 1 <= NUM_NODES - 1
  BY NodeFacts
<1>2. 1 * HopTime <= (NUM_NODES - 1) * HopTime /\ (NUM_NODES - 1) * HopTime \in Nat
  BY <1>1, Hops
<1> QED
  BY <1>2, NodeFacts DEF FloodFits

\* All of it holds always.
LEMMA RouteHolds ==
  ASSUME FloodFits, RouteFits
  PROVE  TdmaSpec => []RouteInv
<1>1. TdmaInit => RouteInv
  BY BaseInit, StartInit, SendersInit, DeadlineInit, StaleInit, RouteInit DEF SlotInv, RouteInv
<1>2. RouteInv /\ [TdmaNext]_tdmaVars => RouteInv'
  <2> SUFFICES ASSUME RouteInv, [TdmaNext]_tdmaVars PROVE RouteInv'
    OBVIOUS
  <2>1. SlotInv'
    BY HopFits, BaseNext, StartNext, SendersNext, DeadlineNext, StaleNext, CountsNext
       DEF RouteInv, SlotInv
  <2>2. StartupInv' /\ TablesMade' /\ PathsMade'
    BY StartupNext, TablesMadeNext, PathsNext DEF RouteInv
  <2> QED
    BY <2>1, <2>2 DEF RouteInv
<1> QED
  BY <1>1, <1>2, PTL DEF TdmaSpec

\* What the root has learnt of a slot is a route of the network: distinct relays, each in
\* reach of the one before, from the origin to the root.
THEOREM RoutesAreFound ==
  ASSUME FloodFits, RouteFits
  PROVE  TdmaSpec => []PathIsRoute
<1>1. RouteInv => PathIsRoute
  BY NodeFacts DEF RouteInv, PathsMade, PathIsRoute
<1> QED
  BY <1>1, RouteHolds, PTL

\* A leaf in its main loop listens in no slot but those it is a relay in.
THEOREM NobodyListensInVain ==
  ASSUME FloodFits, RouteFits
  PROVE  TdmaSpec => []ListenersAreRelays
<1>1. RouteInv => ListenersAreRelays
  BY DEF RouteInv, TablesMade, ListenersAreRelays
<1> QED
  BY <1>1, RouteHolds, PTL
=============================================================================
