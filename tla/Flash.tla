------------------------------- MODULE Flash -------------------------------
(***************************************************************************)
(* flash.c on every node of a network: flash_enable listens until a frame  *)
(* comes or its timeout passes, lets a callback of the user edit the       *)
(* buffer, and sends it on, so that a packet floods the network.  Under it *)
(* lies the radio of basic_rf.c: one frame buffer, protected from the      *)
(* arrival of a frame until the frame is read.                             *)
(*                                                                         *)
(* Time goes by in ticks; what a node does between two of them is ordered  *)
(* only by what it waits for.                                              *)
(***************************************************************************)
EXTENDS Integers

CONSTANTS
  Node,
  Networks,      \* what link may be
  Packet,
  NoFrame,
  HopTime        \* ticks a node needs at most to pass on what it received

ASSUME FlashAssumption ==
  /\ Networks \subseteq SUBSET (Node \X Node)
  /\ \A net \in Networks : \A m, n \in Node :
       (<<m, n>> \in net <=> <<n, m>> \in net) /\ <<n, n>> \notin net
  /\ NoFrame \notin Packet /\ HopTime \in Nat

VARIABLES
  link,              \* pairs of nodes in reach of each other; does not change
  rx_on, frame,      \* the radio of a node: its receiver, its frame buffer
  flash,             \* where the node's call of flash_enable is
  left,              \* ticks to its timeout, or to have passed on the frame
  flash_buf,         \* the packet read last, as the callback left it
  auto_re_tx

flashVars == <<link, rx_on, frame, flash, left, flash_buf, auto_re_tx>>

NoTimeout == -1

FlashTypeOK ==
  /\ link \in Networks
  /\ rx_on \in [Node -> BOOLEAN] /\ auto_re_tx \in [Node -> BOOLEAN]
  /\ frame \in [Node -> Packet \cup {NoFrame}]
  /\ flash_buf \in [Node -> Packet \cup {NoFrame}]
  /\ flash \in [Node -> {"idle", "listen", "received", "resend"}]
  /\ left \in [Node -> Nat \cup {NoTimeout}]

FlashInit ==
  /\ link \in Networks
  /\ rx_on = [n \in Node |-> FALSE] /\ frame = [n \in Node |-> NoFrame]
  /\ flash = [n \in Node |-> "idle"] /\ left = [n \in Node |-> NoTimeout]
  /\ flash_buf = [n \in Node |-> NoFrame]
  /\ auto_re_tx = [n \in Node |-> TRUE]

\* flash_enable up to its loop.
Listen(n, timeout) ==
  /\ rx_on' = [rx_on EXCEPT ![n] = TRUE]
  /\ flash' = [flash EXCEPT ![n] = "listen"]
  /\ left' = [left EXCEPT ![n] = timeout]
  /\ UNCHANGED <<link, frame, flash_buf, auto_re_tx>>

\* The timeout: flash_enable returns and leaves the receiver on.
TimedOut(n) ==
  /\ flash[n] = "listen" /\ left[n] = 0
  /\ flash' = [flash EXCEPT ![n] = "idle"]
  /\ left' = [left EXCEPT ![n] = NoTimeout]
  /\ UNCHANGED <<link, rx_on, frame, flash_buf, auto_re_tx>>

\* flash_set_retransmit
SetRetransmit(n, b) ==
  /\ auto_re_tx' = [auto_re_tx EXCEPT ![n] = b]
  /\ UNCHANGED <<link, rx_on, frame, flash, left, flash_buf>>

\* The radio of n takes a frame off the air, which loses none and in which none
\* collide.
Hears(m, n) == <<m, n>> \in link /\ rx_on[n] /\ frame[n] = NoFrame

\* What m sends reaches everybody in reach whose radio can take it.  The handler
\* of the radio sets flash_pkt_received, which only a listening node looks at.  A
\* frame m itself has not read may give way to what it sends.
Reaches(m, p) ==
  LET woken(n) == Hears(m, n) /\ flash[n] = "listen"
  IN /\ \E mine \in {frame[m], NoFrame} :
          frame' = [n \in Node |-> IF n = m THEN mine ELSE IF Hears(m, n) THEN p ELSE frame[n]]
     /\ flash' = [n \in Node |-> IF woken(n) THEN "received" ELSE
                                 IF n = m THEN "idle" ELSE flash[n]]
     /\ left' = [n \in Node |-> IF woken(n) THEN HopTime ELSE
                                IF n = m THEN NoTimeout ELSE left[n]]

\* flash_tx_pkt of a node that is not in flash_enable.
Transmit(m, p) ==
  /\ flash[m] = "idle" /\ Reaches(m, p)
  /\ UNCHANGED <<link, rx_on, flash_buf, auto_re_tx>>

\* The frame is read, the receiver switched off and the callback called, which
\* leaves edited in the buffer.
Handle(n, edited) ==
  /\ flash[n] = "received"
  /\ flash_buf' = [flash_buf EXCEPT ![n] = edited]
  /\ frame' = [frame EXCEPT ![n] = NoFrame]
  /\ rx_on' = [rx_on EXCEPT ![n] = FALSE]
  /\ flash' = [flash EXCEPT ![n] = IF auto_re_tx[n] THEN "resend" ELSE "idle"]
  /\ left' = [left EXCEPT ![n] = IF auto_re_tx[n] THEN @ ELSE NoTimeout]
  /\ UNCHANGED <<link, auto_re_tx>>

Resend(n) ==
  /\ flash[n] = "resend" /\ Reaches(n, flash_buf[n])
  /\ UNCHANGED <<link, rx_on, flash_buf, auto_re_tx>>

\* A tick, when nobody has to act before it.
FlashTick ==
  /\ \A n \in Node : left[n] # 0
  /\ left' = [n \in Node |-> IF left[n] = NoTimeout THEN NoTimeout ELSE left[n] - 1]
  /\ UNCHANGED <<link, rx_on, frame, flash, flash_buf, auto_re_tx>>

\* The radio holds a frame that no call of flash_enable will ever read.
Deaf(n) == frame[n] # NoFrame /\ flash[n] # "received"

=============================================================================
