----------------------------- MODULE SlipProofs -----------------------------
(***************************************************************************)
(* SLIP over the serial line, for all frames, every size of the ring and   *)
(* every number of bytes that the line may lose: the types hold, and up to *)
(* the first loss slip_rx returns what slip_tx was called with.            *)
(*                                                                         *)
(* What is under way is between the receiver and the sender: the bytes in  *)
(* the ring, each put there by a call of slip_tx at some point of its own. *)
(* The invariant names these points.  Each follows from the one before,    *)
(* the last is where the sender is, and the first is what the receiver     *)
(* expects, judged by where it is and by what it has stored.               *)
(***************************************************************************)
EXTENDS Slip, WellFoundedInduction, SequenceTheorems, TLAPS

Point == [buf : Seq(Byte), at : TxLine, i : Nat, checksum : Byte]

\* What holds wherever a call of slip_tx is.
PointOK(x) ==
  /\ x.at # "return" => x.buf \in Frame
  /\ x.at \in {"flush", "start", "size"} => x.i = 0 /\ x.checksum = 0
  /\ x.at \in {"payload", "pair"} => x.i < Len(x.buf)
  /\ x.at = "pair" => Stuffed(x.buf[x.i + 1])
  /\ x.at \in {"checksum", "end"} => x.i = Len(x.buf)
  /\ x.at = "return" => x = Quiet

\* Which of the six bytes that every frame has it comes to next.
Rank(x) ==
  CASE x.at \in {"flush", "return"} -> 0
    [] x.at = "start" -> 1
    [] x.at = "size" -> 2
    [] x.at \in {"payload", "pair"} -> 3
    [] x.at = "checksum" -> 4
    [] x.at = "end" -> 5

-----------------------------------------------------------------------------

\* A frame is a sequence of bytes of one to 128.
LEMMA Frames ==
  ASSUME NEW f \in Frame
  PROVE  /\ f \in Seq(Byte) /\ f # <<>> /\ Len(f) \in 1..128 /\ Len(f) <= max_len
         /\ \A k \in 1..Len(f) : f[k] \in Byte
<1>1. f \in Seq(Byte) /\ f # <<>> /\ Len(f) <= 128 /\ Len(f) <= max_len
  BY SlipAssumption
<1>2. Len(f) \in Nat /\ Len(f) # 0 /\ \A k \in 1..Len(f) : f[k] \in Byte
  BY <1>1
<1>3. Len(f) \in 1..128
  <2>1. \A n \in Nat : n # 0 /\ n <= 128 => n \in 1..128
    OBVIOUS
  <2> QED
    BY <1>1, <1>2, <2>1
<1> QED
  BY <1>1, <1>2, <1>3, Zenon

\* The marks are bytes, and different ones.
LEMMA Marks ==
  /\ {END, START, ESC, ESC_END, ESC_ESC} \subseteq Byte
  /\ END # START /\ END # ESC /\ START # ESC /\ ESC_END # ESC_ESC
BY DEF END, START, ESC, ESC_END, ESC_ESC, Byte

\* Checksums stay bytes, and their last seven bits are bytes below the marks.
LEMMA Sums ==
  ASSUME NEW a \in Byte, NEW b \in Byte
  PROVE  (a + b) % 256 \in Byte
BY DEF Byte

LEMMA SevenBits ==
  ASSUME NEW a \in Byte
  PROVE  a % 128 \in Byte /\ a % 128 < 128
BY DEF Byte

\* A call that goes on at line l of slip_tx.
LEMMA MovedTo ==
  ASSUME NEW x \in Point, NEW l \in TxLine, NEW y, y = [x EXCEPT !.at = l]
  PROVE  y \in Point /\ y.at = l /\ y.buf = x.buf /\ y.i = x.i /\ y.checksum = x.checksum
BY DEF Point

\* The turn of the loop in slip_tx that is done with a payload byte.
LEMMA NextPayloadOK ==
  ASSUME NEW x \in Point, PointOK(x), x.at \in {"payload", "pair"}
  PROVE  /\ NextPayload(x) \in Point /\ PointOK(NextPayload(x))
         /\ NextPayload(x).at \in {"payload", "checksum"} /\ NextPayload(x).buf = x.buf
         /\ NextPayload(x).i = x.i + 1
         /\ NextPayload(x).checksum = (x.checksum + x.buf[x.i + 1]) % 256
<1> DEFINE y == NextPayload(x)
<1>1. x.buf \in Frame /\ x.i \in Nat /\ x.checksum \in Byte /\ x.i < Len(x.buf)
  BY DEF Point, PointOK
<1>2. Len(x.buf) \in 1..128 /\ x.buf \in Seq(Byte) /\ x.i + 1 \in 1..Len(x.buf)
  BY <1>1, Frames
<1>3. x.buf[x.i + 1] \in Byte
  BY <1>1, <1>2, Frames
<1>4. y = [buf |-> x.buf, at |-> IF x.i + 1 < Len(x.buf) THEN "payload" ELSE "checksum",
           i |-> x.i + 1, checksum |-> (x.checksum + x.buf[x.i + 1]) % 256]
  BY DEF NextPayload
<1>5. (x.checksum + x.buf[x.i + 1]) % 256 \in Byte
  BY <1>1, <1>3, Sums
<1> HIDE DEF y
<1>6. y \in Point
  <2>1. y.buf \in Seq(Byte) /\ y.at \in TxLine /\ y.i \in Nat /\ y.checksum \in Byte
    BY <1>1, <1>2, <1>4, <1>5 DEF TxLine
  <2> QED
    BY <1>4, <2>1 DEF Point
<1>7. PointOK(y)
  BY <1>1, <1>2, <1>4 DEF PointOK
<1> QED
  BY <1>4, <1>6, <1>7 DEF y

\* Every step of a call leads to a point of the same call, or to its end; what it
\* puts on the line is a byte.
LEMMA AfterOK ==
  ASSUME NEW x \in Point, PointOK(x), x.at # "return"
  PROVE  /\ After(x) \in Point /\ PointOK(After(x)) /\ ByteOf(x) \in Byte
         /\ x.at = "end" => After(x) = Quiet
         /\ x.at # "end" => After(x).at # "return" /\ After(x).buf = x.buf
                            /\ Rank(After(x)) <= Rank(x) + 1
<1> USE DEF After, ByteOf, Rank
<1>1. x.buf \in Frame /\ x.i \in Nat /\ x.checksum \in Byte /\ x.at \in TxLine
  BY DEF Point, PointOK
<1>2. Len(x.buf) \in 1..128 /\ x.buf \in Seq(Byte)
  BY <1>1, Frames
<1>3. CASE x.at \in {"flush", "start", "size", "checksum"}
  <2>1. PICK l \in TxLine :
          /\ After(x) = [x EXCEPT !.at = l]
          /\ x.at = "flush" => l = "start"
          /\ x.at = "start" => l = "size"
          /\ x.at = "size" => l = "payload"
          /\ x.at = "checksum" => l = "end"
    BY <1>3 DEF TxLine
  <2>2. /\ After(x) \in Point /\ After(x).at = l /\ After(x).buf = x.buf
        /\ After(x).i = x.i /\ After(x).checksum = x.checksum
    <3> HIDE DEF After
    <3> QED
      BY <2>1, MovedTo
  <2>3. ByteOf(x) \in Byte
    <3>1. x.at = "checksum" => ByteOf(x) = x.checksum % 128
      OBVIOUS
    <3>2. x.at = "size" => ByteOf(x) = Len(x.buf)
      OBVIOUS
    <3>3. x.at \in {"flush", "start"} => ByteOf(x) \in {END, START}
      OBVIOUS
    <3>4. 1..128 \subseteq Byte
      BY DEF Byte
    <3>5. x.checksum % 128 \in Byte /\ Len(x.buf) \in Byte /\ {END, START} \subseteq Byte
      <4>1. x.checksum % 128 \in Byte
        BY <1>1, SevenBits
      <4> QED
        BY <1>2, <3>4, <4>1, Marks
    <3>6. ByteOf(x) \in {x.checksum % 128, Len(x.buf), END, START}
      BY <1>3, <3>1, <3>2, <3>3
    <3> HIDE DEF ByteOf, After, Rank
    <3> QED
      BY <3>5, <3>6
  <2> HIDE DEF After, ByteOf, Rank
  <2>4. PointOK(After(x))
    <3>1. x.at = "flush" \/ x.at = "start" => PointOK(After(x))
      BY <1>1, <2>1, <2>2 DEF PointOK
    <3>2. x.at = "size" => PointOK(After(x))
      <4>1. x.at = "size" => After(x).at = "payload" /\ After(x).i < Len(After(x).buf)
        <5>1. \A n \in 1..128 : 0 < n
          OBVIOUS
        <5>2. x.at = "size" => x.i = 0 /\ After(x).at = "payload"
          BY <2>1, <2>2 DEF PointOK
        <5> QED
          BY <1>2, <2>2, <5>1, <5>2
      <4> QED
        BY <1>1, <2>2, <4>1 DEF PointOK
    <3>3. x.at = "checksum" => PointOK(After(x))
      BY <1>1, <2>1, <2>2 DEF PointOK
    <3> QED
      BY <1>3, <3>1, <3>2, <3>3
  <2>5. Rank(After(x)) <= Rank(x) + 1 /\ After(x).at # "return"
    BY <1>3, <2>1, <2>2 DEF Rank
  <2> QED
    BY <1>3, <2>2, <2>3, <2>4, <2>5
<1>4. CASE x.at = "payload" /\ Stuffed(x.buf[x.i + 1])
  <2>1. After(x) = [x EXCEPT !.at = "pair"] /\ ByteOf(x) = ESC
    BY <1>4
  <2>2. /\ After(x) \in Point /\ After(x).at = "pair" /\ After(x).buf = x.buf
        /\ After(x).i = x.i /\ After(x).checksum = x.checksum
    BY <2>1 DEF Point, TxLine
  <2>3. PointOK(After(x))
    BY <1>1, <1>4, <2>2 DEF PointOK
  <2> HIDE DEF After, ByteOf
  <2> QED
    BY <1>4, <2>1, <2>2, <2>3, Marks
<1>5. CASE x.at = "payload" /\ ~Stuffed(x.buf[x.i + 1])
  <2>1. After(x) = NextPayload(x) /\ ByteOf(x) = x.buf[x.i + 1]
    BY <1>5
  <2>2. x.i + 1 \in 1..Len(x.buf)
    BY <1>1, <1>2, <1>5 DEF PointOK
  <2>3. ByteOf(x) \in Byte
    BY <1>1, <2>1, <2>2, Frames
  <2> HIDE DEF After, ByteOf
  <2> QED
    BY <1>5, <2>1, <2>3, NextPayloadOK
<1>6. CASE x.at = "pair"
  <2>1. After(x) = NextPayload(x) /\ ByteOf(x) \in {ESC_END, ESC_ESC}
    BY <1>6
  <2> HIDE DEF After, ByteOf
  <2> QED
    BY <1>6, <2>1, NextPayloadOK, Marks
<1>7. CASE x.at = "end"
  <2>1. After(x) = Quiet /\ ByteOf(x) = END
    BY <1>7
  <2>2. Quiet \in Point /\ PointOK(Quiet)
    BY DEF Quiet, Point, PointOK, NRK_ERROR, TxLine, Byte
  <2> QED
    BY <1>7, <2>1, <2>2, Marks
<1> QED
  BY <1>1, <1>3, <1>4, <1>5, <1>6, <1>7 DEF TxLine

\* A call begins at such a point.
LEMMA CallOK ==
  ASSUME NEW f \in Frame
  PROVE  Call(f) \in Point /\ PointOK(Call(f)) /\ Call(f).at = "flush" /\ Call(f).buf = f
BY Frames DEF Call, Point, PointOK, TxLine, Byte

-----------------------------------------------------------------------------

\* The type invariant, with what holds of the call under way.
TypeInv == SlipTypeOK /\ tx \in Point /\ PointOK(tx)

\* A call under way has its type.
LEMMA CallTyped ==
  ASSUME NEW x \in Point, PointOK(x)
  PROVE  x \in [buf : Frame, at : TxLine, i : 0..128, checksum : Byte] \cup {Quiet}
<1>1. CASE x.at = "return"
  BY <1>1 DEF PointOK
<1>2. CASE x.at # "return"
  <2>1. x.buf \in Frame /\ Len(x.buf) \in 1..128
    BY <1>2, Frames DEF PointOK
  <2>2. x.at \in TxLine /\ x.i \in Nat /\ x.checksum \in Byte
    BY DEF Point
  <2>3. x.i = 0 \/ x.i < Len(x.buf) \/ x.i = Len(x.buf)
    BY <1>2, <2>2 DEF PointOK, TxLine
  <2>4. x.i \in 0..128
    <3>1. \A i \in Nat, n \in 1..128 : i = 0 \/ i < n \/ i = n => i \in 0..128
      OBVIOUS
    <3> QED
      BY <2>1, <2>2, <2>3, <3>1
  <2>5. x = [buf |-> x.buf, at |-> x.at, i |-> x.i, checksum |-> x.checksum]
    BY DEF Point
  <2> QED
    BY <2>1, <2>2, <2>4, <2>5
<1> QED
  BY <1>1, <1>2

\* The next index of the ring is one.
LEMMA Next1InRing ==
  ASSUME NEW i \in Index
  PROVE  Next1(i) \in Index
BY UartAssumption DEF Index, Next1

\* Where SelectInSeq finds a frame it is the first of its kind.
FirstAt(s, r) == SelectInSeq(s, LAMBDA f : f = r)

LEMMA FirstOfIts ==
  ASSUME NEW s \in Seq(Frame), NEW r, Contains(s, r)
  PROVE  /\ FirstAt(s, r) \in 1..Len(s)
         /\ s[FirstAt(s, r)] = r
         /\ \A k \in 1..Len(s) : s[k] = r => FirstAt(s, r) <= k
<1> DEFINE I == {k \in 1..Len(s) : s[k] = r}
<1>1. I # {} /\ I \subseteq Nat
  BY DEF Contains
<1>2. PICK m \in I : \A k \in I : <<k, m>> \notin OpToRel(<, Nat)
  BY <1>1, NatLessThanWellFounded, WFMin
<1>3. \A k \in I : m <= k
  <2> SUFFICES ASSUME NEW k \in I PROVE m <= k
    OBVIOUS
  <2>1. k \in Nat /\ m \in Nat
    BY <1>1
  <2>2. ~(k < m)
    BY <1>2, <2>1 DEF OpToRel
  <2> QED
    BY <2>1, <2>2
<1>4. FirstAt(s, r) = Min(I)
  BY <1>1 DEF FirstAt, SelectInSeq
<1>5. Min(I) \in I /\ \A k \in I : Min(I) <= k
  BY <1>2, <1>3 DEF Min
<1> QED
  BY <1>4, <1>5

\* What slip_rx reads is a byte.
LEMMA TakenTyped ==
  ASSUME UartTypeOK, GetsByte
  PROVE  UartTypeOK' /\ Received \in Byte
BY Next1InRing DEF UartTypeOK, GetsByte, TakeByte, Received

\* What the handler, a wait and a pass make of the reader.
LEMMA ReaderTyped ==
  ASSUME UartTypeOK, NEW e \in {NoEvent, uart_rx_signal}, NEW room \in BOOLEAN,
         room => reader.nodes < QueueSlots
  PROVE  {Signalled(reader, e), Noted(reader, e), Parked(reader), Woken(reader, room)}
           \subseteq [task_state : TaskState, event : {NoEvent, uart_rx_signal},
                     nodes : 0..QueueSlots]
<1>1. /\ reader.task_state \in TaskState /\ reader.event \in {NoEvent, uart_rx_signal}
      /\ reader.nodes \in 0..QueueSlots /\ QueueSlots \in Nat
      /\ reader \in [task_state : TaskState, event : {NoEvent, uart_rx_signal},
                     nodes : 0..QueueSlots]
  BY UartAssumption DEF UartTypeOK
<1>2. reader.nodes # 0 => reader.nodes - 1 \in 0..QueueSlots
  BY <1>1
<1>3. reader.nodes < QueueSlots => reader.nodes + 1 \in 0..QueueSlots
  BY <1>1
<1>4. 0 \in 0..QueueSlots
  BY <1>1
<1>5. {"READY", "SUSPENDED", "EVENT_SUSPENDED"} \subseteq TaskState
  BY DEF TaskState
<1> QED
  BY <1>1, <1>2, <1>3, <1>4, <1>5 DEF Signalled, Noted, Parked, Woken

LEMMA WaitTyped ==
  ASSUME UartTypeOK, NoteSignal \/ Park \/ WakeReader
  PROVE  UartTypeOK'
<1>1. UNCHANGED ringVars
  BY DEF NoteSignal, Park, WakeReader
<1>2. PICK room \in BOOLEAN :
        /\ room => reader.nodes < QueueSlots
        /\ reader' \in {Noted(reader, uart_rx_signal), Parked(reader), Woken(reader, room)}
  <2>1. CASE reader.nodes < QueueSlots
    <3>1. Woken(reader, reader.nodes < QueueSlots) = Woken(reader, TRUE)
      BY <2>1 DEF Woken
    <3> QED
      BY <2>1, <3>1 DEF NoteSignal, Park, WakeReader
  <2>2. CASE ~(reader.nodes < QueueSlots)
    <3>1. Woken(reader, reader.nodes < QueueSlots) = Woken(reader, FALSE)
      BY <2>2 DEF Woken
    <3> QED
      BY <2>2, <3>1 DEF NoteSignal, Park, WakeReader
  <2> QED
    BY <2>1, <2>2
<1>4. reader' \in [task_state : TaskState, event : {NoEvent, uart_rx_signal},
                   nodes : 0..QueueSlots]
  BY <1>2, ReaderTyped DEF uart_rx_signal
<1> QED
  BY <1>1, <1>4 DEF UartTypeOK, ringVars

LEMMA PutTyped ==
  ASSUME UartTypeOK, NEW b \in Byte, RxInterrupt(b)
  PROVE  UartTypeOK'
<1>1. reader' \in [task_state : TaskState, event : {NoEvent, uart_rx_signal},
                   nodes : 0..QueueSlots]
  BY ReaderTyped DEF RxInterrupt
<1> QED
  BY <1>1, Next1InRing DEF RxInterrupt, UartTypeOK

\* The payload bytes that slip_rx stores are bytes within its buffer.
LEMMA StoredTyped ==
  ASSUME SlipTypeOK, NEW b \in Byte, Store(b)
  PROVE  /\ c' \in Byte /\ size' \in Byte /\ checksum' \in Byte
         /\ buf' \in Seq(Byte) /\ Len(buf') <= max_len
         /\ at' \in Line /\ step' \in Step
         /\ UNCHANGED <<tx, result>>
<1>1. (checksum + b) % 256 \in Byte
  <2>1. checksum \in Byte
    BY DEF SlipTypeOK
  <2> QED
    BY <2>1, Sums
<1>2. max_len \in Nat
  BY SlipAssumption
<1>3. CASE Len(buf) < max_len /\ Len(buf) < size
  <2>1. buf' = Append(buf, b) /\ buf \in Seq(Byte)
    BY <1>3 DEF Store, SlipTypeOK
  <2>2. buf' \in Seq(Byte) /\ Len(buf') = Len(buf) + 1
    BY <2>1
  <2>3. Len(buf') <= max_len
    BY <1>2, <1>3, <2>1, <2>2
  <2> QED
    BY <1>1, <1>3, <2>2, <2>3 DEF Store, SlipTypeOK, GoTo, Line, Step
<1>4. CASE ~(Len(buf) < max_len /\ Len(buf) < size)
  BY <1>4 DEF Store, SlipTypeOK, GoTo, Line, Step
<1> QED
  BY <1>3, <1>4

\* History: bytes are lost.
LEMMA LossTyped ==
  ASSUME SlipTypeOK, Ongoing, NEW n \in Nat \ {0}, Lose(n)
  PROVE  /\ lost' \in 0..MaxLost /\ lost' > lost /\ sent' \in Seq(Frame)
         /\ n >= TooMany => lost' >= TooMany
         /\ lost' >= TooMany \/ sent' = sent
<1>1. /\ lost \in Nat /\ lost < MaxLost /\ MaxLost \in Nat /\ TooMany \in Nat
      /\ TooMany <= MaxLost /\ sent \in Seq(Frame)
  BY SlipAssumption DEF SlipTypeOK, Ongoing
<1>2. lost' = IF lost + n < MaxLost THEN lost + n ELSE MaxLost
  BY DEF Lose
<1>3. lost' \in 0..MaxLost /\ lost' > lost /\ (n >= TooMany => lost' >= TooMany)
  BY <1>1, <1>2
<1>4. sent' = sent \/ (sent' = <<>> /\ ~(lost' < TooMany))
  BY DEF Lose
<1>5. sent' \in Seq(Frame)
  <2>1. <<>> \in Seq(Frame)
    OBVIOUS
  <2> QED
    BY <1>1, <1>4, <2>1
<1>6. ~(lost' < TooMany) => lost' >= TooMany
  BY <1>1, <1>3
<1> QED
  BY <1>3, <1>4, <1>5, <1>6

\* A byte is made up.
LEMMA Invented ==
  ASSUME SlipTypeOK, Ongoing, Lose(TooMany)
  PROVE  lost' \in 0..MaxLost /\ lost' > lost /\ lost' >= TooMany /\ sent' \in Seq(Frame)
<1>1. TooMany \in Nat \ {0} /\ TooMany >= TooMany
  BY SlipAssumption
<1> QED
  BY <1>1, LossTyped

\* What slip_rx reads leaves the history typed.
LEMMA ReadTyped ==
  ASSUME SlipTypeOK, Ongoing, Reads
  PROVE  lost' \in 0..MaxLost /\ sent' \in Seq(Frame)
<1>1. CASE Invents
  BY <1>1, Invented DEF Reads
<1>2. CASE ~Invents
  BY <1>2 DEF Reads, SlipTypeOK
<1> QED
  BY <1>1, <1>2

\* What remains of the history when slip_rx returns is a sequence of frames.
LEMMA ReturnedTyped ==
  ASSUME SlipTypeOK, Ongoing, NEW r \in Seq(Byte), SlipReturn(r)
  PROVE  /\ sent' \in Seq(Frame) /\ lost' \in 0..MaxLost /\ result' \in Seq(Byte)
         /\ at' \in Line /\ step' \in Step
         /\ {c', size'} \subseteq Byte /\ checksum' \in Byte /\ buf' = <<>>
         /\ UNCHANGED tx
<1>1. Behind(r) \in Seq(Frame)
  <2>1. CASE r = NRK_ERROR \/ ~Contains(sent, r)
    BY <2>1 DEF Behind, SlipTypeOK
  <2>2. CASE ~(r = NRK_ERROR \/ ~Contains(sent, r))
    <3>1. sent \in Seq(Frame) /\ FirstAt(sent, r) \in 1..Len(sent)
      BY <2>2, FirstOfIts DEF SlipTypeOK
    <3>2. Behind(r) = SubSeq(sent, FirstAt(sent, r) + 1, Len(sent))
      BY <2>2 DEF Behind, FirstAt
    <3>3. /\ FirstAt(sent, r) + 1 \in Int /\ Len(sent) \in Int
          /\ \A k \in FirstAt(sent, r) + 1..Len(sent) : sent[k] \in Frame
      BY <3>1
    <3> QED
      BY <3>2, <3>3, SubSeqProperties
  <2> QED
    BY <2>1, <2>2
<1>2. sent' \in Seq(Frame) /\ lost' \in 0..MaxLost
  <2>1. CASE Invents
    BY <2>1, Invented DEF SlipReturn
  <2>2. CASE ~Invents
    BY <1>1, <2>2 DEF SlipReturn, SlipTypeOK
  <2> QED
    BY <2>1, <2>2
<1>3. 0 \in Byte
  BY DEF Byte
<1> QED
  BY <1>2, <1>3 DEF SlipReturn, GoTo, Line, Step

\* Each step keeps the types.
LEMMA TypesNext ==
  ASSUME TypeInv, [SlipNext]_slipVars
  PROVE  TypeInv'
<1> USE DEF TypeInv
<1>t. UartTypeOK /\ SlipTypeOK /\ tx \in Point /\ PointOK(tx)
  BY DEF SlipTypeOK
<1>1. CASE Ongoing /\ SlipRx
  <2>1. UNCHANGED tx
    BY <1>1 DEF SlipRx, Look, WaitForByte, GetEmpty, GetWait, Hunt, GetSize, Payload, Escape,
                Escaped, EndOfFrame, Malformed, Store, SlipReturn
  <2>2. UartTypeOK' /\ (GetsByte => Received \in Byte)
    <3>1. CASE GetsByte
      BY <1>t, <3>1, TakenTyped
    <3>2. CASE Look \/ GetEmpty
      BY <1>t, <3>2, TakenTyped DEF UartTypeOK, Look, GetEmpty, uartVars
    <3>3. CASE WaitForByte \/ GetWait
      <4>1. NoteSignal \/ Park
        BY <3>3 DEF WaitForByte, GetWait
      <4> QED
        BY <1>t, <4>1, WaitTyped, TakenTyped
    <3> QED
      BY <1>1, <3>1, <3>2, <3>3
      DEF SlipRx, Hunt, GetSize, Payload, Escape, Escaped, EndOfFrame, Malformed, Reads
  <2>3. /\ at' \in Line /\ step' \in Step
        /\ {c', size'} \subseteq Byte /\ checksum' \in Byte
        /\ buf' \in Seq(Byte) /\ Len(buf') <= max_len
        /\ sent' \in Seq(Frame) /\ lost' \in 0..MaxLost /\ result' \in Seq(Byte)
    <3>r. Reads => lost' \in 0..MaxLost /\ sent' \in Seq(Frame)
      BY <1>1, <1>t, ReadTyped
    <3>1. CASE Look \/ WaitForByte
      BY <1>t, <3>1 DEF SlipTypeOK, Look, WaitForByte, Line, Step, Found, Missed, Then, history
    <3>2. CASE GetEmpty \/ GetWait
      BY <1>t, <3>2 DEF SlipTypeOK, GetEmpty, GetWait, Step, history
    <3>3. CASE Hunt
      BY <1>t, <2>2, <3>r, <3>3 DEF SlipTypeOK, Hunt, Reads, GoTo, Line, Step
    <3>4. CASE GetSize
      <4>1. 0 \in Byte /\ <<>> \in Seq(Byte) /\ Len(<<>>) <= max_len
        BY SlipAssumption DEF Byte
      <4> QED
        BY <1>t, <2>2, <3>r, <3>4, <4>1 DEF SlipTypeOK, GetSize, Reads, GoTo, Line, Step
    <3>5. CASE Payload \/ Escaped
      <4>1. PICK b \in Byte : Store(b)
        BY <2>2, <3>5, Marks DEF Payload, Escaped, Reads, Unstuffed
      <4>2. /\ c' \in Byte /\ size' \in Byte /\ checksum' \in Byte
            /\ buf' \in Seq(Byte) /\ Len(buf') <= max_len
            /\ at' \in Line /\ step' \in Step
            /\ UNCHANGED <<tx, result>>
        BY <1>t, <4>1, StoredTyped
      <4>3. Reads /\ result \in Seq(Byte)
        BY <1>t, <3>5 DEF Payload, Escaped, SlipTypeOK
      <4> QED
        BY <3>r, <4>2, <4>3
    <3>6. CASE Escape
      BY <1>t, <3>r, <3>6 DEF SlipTypeOK, Escape, GoTo, Line, Step
    <3>8. CASE EndOfFrame \/ Malformed
      <4>1. PICK r \in Seq(Byte) : SlipReturn(r)
        <5>1. buf \in Seq(Byte) /\ NRK_ERROR \in Seq(Byte)
          BY <1>t DEF NRK_ERROR, SlipTypeOK
        <5>2. EndOfFrame => SlipReturn(buf) \/ SlipReturn(NRK_ERROR)
          BY DEF EndOfFrame
        <5>3. Malformed => SlipReturn(NRK_ERROR)
          BY DEF Malformed
        <5> QED
          BY <3>8, <5>1, <5>2, <5>3
      <4>2. <<>> \in Seq(Byte) /\ Len(<<>>) <= max_len
        BY SlipAssumption
      <4> QED
        BY <1>1, <1>t, <4>1, <4>2, ReturnedTyped
    <3> QED
      BY <1>1, <3>1, <3>2, <3>3, <3>4, <3>5, <3>6, <3>8 DEF SlipRx
  <2> QED
    BY <1>t, <2>1, <2>2, <2>3 DEF SlipTypeOK, PointOK
<1>2. CASE Ongoing /\ (PutByte \/ Overrun)
  <2>1. /\ tx.at # "return" /\ tx' = After(tx) /\ UNCHANGED <<rxVars, result>>
        /\ RxInterrupt(ByteOf(tx)) \/ UNCHANGED uartVars
    BY <1>2 DEF PutByte, Overrun
  <2>2. tx' \in Point /\ PointOK(tx') /\ ByteOf(tx) \in Byte
    BY <1>t, <2>1, AfterOK
  <2>3. UartTypeOK'
    BY <1>t, <2>1, <2>2, PutTyped DEF UartTypeOK, uartVars
  <2>4. lost' \in 0..MaxLost /\ sent' \in Seq(Frame)
    <3>1. Lose(1) \/ Lose(MAX_RX_UART_BUF) \/ UNCHANGED <<sent, lost>>
      BY <1>2 DEF PutByte, Overrun
    <3>2. 1 \in Nat \ {0} /\ MAX_RX_UART_BUF \in Nat \ {0}
      BY UartAssumption
    <3>3. UNCHANGED <<sent, lost>> => lost' \in 0..MaxLost /\ sent' \in Seq(Frame)
      BY <1>t DEF SlipTypeOK
    <3> QED
      BY <1>t, <1>2, <3>1, <3>2, <3>3, LossTyped
  <2>5. tx' \in [buf : Frame, at : TxLine, i : 0..128, checksum : Byte] \cup {Quiet}
    BY <2>2, CallTyped
  <2> QED
    BY <1>t, <2>1, <2>2, <2>3, <2>4, <2>5 DEF SlipTypeOK, rxVars, PointOK
<1>3. CASE \E f \in Frame : SlipTx(f)
  <2>1. PICK f \in Frame : SlipTx(f)
    BY <1>3
  <2>2. tx' = Call(f) /\ UNCHANGED <<uartVars, rxVars, result, lost>>
        /\ (sent' = Append(sent, f) \/ sent' = sent)
    BY <2>1 DEF SlipTx
  <2>3. tx' \in Point /\ PointOK(tx')
    BY <2>2, CallOK
  <2>4. tx' \in [buf : Frame, at : TxLine, i : 0..128, checksum : Byte] \cup {Quiet}
    BY <2>3, CallTyped
  <2>5. UartTypeOK' /\ sent' \in Seq(Frame)
    <3>1. sent \in Seq(Frame) /\ Append(sent, f) \in Seq(Frame)
      BY <1>t, AppendProperties DEF SlipTypeOK
    <3> QED
      BY <1>t, <2>2, <3>1 DEF UartTypeOK, uartVars
  <2> QED
    BY <1>t, <2>2, <2>3, <2>4, <2>5 DEF SlipTypeOK, rxVars, PointOK
<1>4. CASE UNCHANGED slipVars
  BY <1>t, <1>4 DEF slipVars, SlipTypeOK, UartTypeOK, uartVars, rxVars, history, PointOK
<1>5. CASE Pass
  <2>1. WakeReader /\ UNCHANGED <<tx, rxVars, history>>
    BY <1>5 DEF Pass
  <2>2. UartTypeOK'
    BY <1>t, <2>1, WaitTyped
  <2> QED
    BY <1>t, <2>1, <2>2 DEF SlipTypeOK, rxVars, history, PointOK
<1> QED
  BY <1>1, <1>2, <1>3, <1>4, <1>5 DEF SlipNext, Ended, Sender

\* They hold at first.
LEMMA TypesInit ==
  ASSUME SlipInit
  PROVE  TypeInv
<1>1. UartTypeOK
  BY UartAssumption
  DEF SlipInit, UartInit, UartTypeOK, Index, Byte, Runnable, TaskState, NoEvent
<1>2. Quiet \in Point /\ PointOK(Quiet)
  BY DEF Quiet, Point, PointOK, NRK_ERROR, TxLine, Byte
<1>3. 0 \in Byte /\ <<>> \in Seq(Byte) /\ Len(<<>>) <= max_len /\ 0 \in 0..MaxLost
  BY SlipAssumption DEF Byte
<1> QED
  BY <1>1, <1>2, <1>3 DEF SlipInit, SlipTypeOK, TypeInv, Line, Step, NRK_ERROR

\* The types hold, of the ring and of both ends of the line, for all frames of at most
\* 128 bytes, every size of the ring and every number of lost bytes.
THEOREM SlipTypesHold == SlipSpec => []SlipTypeOK
<1>1. SlipInit => TypeInv
  BY TypesInit
<1>2. TypeInv /\ [SlipNext]_slipVars => TypeInv'
  BY TypesNext
<1>3. TypeInv => SlipTypeOK
  BY DEF TypeInv
<1> QED
  BY <1>1, <1>2, <1>3, PTL DEF SlipSpec

-----------------------------------------------------------------------------
(* The ring as a queue.                                                     *)

Count ==
  IF uart_rx_buf_end >= uart_rx_buf_start THEN uart_rx_buf_end - uart_rx_buf_start
  ELSE uart_rx_buf_end - uart_rx_buf_start + MAX_RX_UART_BUF

\* The index of the k-th byte of a ring that is read at s.
Slot(s, k) == IF s + k - 1 < MAX_RX_UART_BUF THEN s + k - 1 ELSE s + k - 1 - MAX_RX_UART_BUF

\* The bytes in the ring, in the order in which they came.
Bytes == [k \in 1..Count |-> uart_rx_buf[Slot(uart_rx_buf_start, k)]]

\* One byte at least stays free.
LEMMA CountInRing ==
  ASSUME UartTypeOK
  PROVE  /\ Count \in Nat /\ Count <= MAX_RX_UART_BUF - 1
         /\ DataReady <=> Count # 0
         /\ DataReady => Received = Bytes[1]
<1>1. /\ MAX_RX_UART_BUF \in Nat /\ MAX_RX_UART_BUF > 0
      /\ uart_rx_buf_start \in 0..MAX_RX_UART_BUF-1 /\ uart_rx_buf_end \in 0..MAX_RX_UART_BUF-1
  BY UartAssumption DEF UartTypeOK, Index
<1>2. Count \in Nat /\ Count <= MAX_RX_UART_BUF - 1 /\ (DataReady <=> Count # 0)
  BY <1>1 DEF Count, DataReady
<1>3. Slot(uart_rx_buf_start, 1) = uart_rx_buf_start
  BY <1>1 DEF Slot
<1>4. DataReady => 1 \in 1..Count
  BY <1>2
<1> QED
  BY <1>2, <1>3, <1>4 DEF Bytes, Received

\* A byte that comes in goes behind the others, as long as the ring has room.
LEMMA PutLast ==
  ASSUME UartTypeOK, NEW b, Next1(uart_rx_buf_end) # uart_rx_buf_start, RxInterrupt(b)
  PROVE  /\ Count' = Count + 1
         /\ Bytes' = [k \in 1..Count + 1 |-> IF k <= Count THEN Bytes[k] ELSE b]
<1> DEFINE M == MAX_RX_UART_BUF  s == uart_rx_buf_start  e == uart_rx_buf_end  n == Count
<1>1. M \in Nat /\ M > 0 /\ s \in 0..M-1 /\ e \in 0..M-1
  BY UartAssumption DEF UartTypeOK, Index
<1>2. s' = s /\ e' = Next1(e) /\ uart_rx_buf' = [uart_rx_buf EXCEPT ![e] = b]
  BY DEF RxInterrupt
<1>3. Count' = Count + 1 /\ Count \in Nat
  BY <1>1, <1>2 DEF Count, Next1
<1>4. n = (IF e >= s THEN e - s ELSE e - s + M) /\ n \in Nat /\ n < M
  BY <1>1 DEF Count
<1>5. \A k \in 1..n + 1 : uart_rx_buf'[Slot(s, k)] = IF k <= n THEN Bytes[k] ELSE b
  <2> SUFFICES ASSUME NEW k \in 1..n + 1
               PROVE  uart_rx_buf'[Slot(s, k)] = IF k <= n THEN Bytes[k] ELSE b
    OBVIOUS
  <2>1. Slot(s, k) \in 0..M-1 /\ (Slot(s, k) = e <=> k = n + 1)
    <3> HIDE DEF M, s, e, n
    <3> QED
      BY <1>1, <1>4 DEF Slot, M
  <2>2. uart_rx_buf \in [0..M-1 -> Byte]
    BY DEF UartTypeOK, Index
  <2>3. k <= n => k \in 1..n
    BY <1>4
  <2>4. k \in Nat /\ (k <= n \/ k = n + 1) /\ ~(k <= n /\ k = n + 1)
    BY <1>4
  <2> QED
    BY <1>2, <2>1, <2>2, <2>3, <2>4 DEF Bytes
<1> QED
  BY <1>2, <1>3, <1>5 DEF Bytes

\* getc0 reads the byte that came first.
LEMMA TakeFirst ==
  ASSUME UartTypeOK, DataReady, TakeByte
  PROVE  Count' = Count - 1 /\ Bytes' = [k \in 1..Count - 1 |-> Bytes[k + 1]]
<1> DEFINE M == MAX_RX_UART_BUF  s == uart_rx_buf_start  e == uart_rx_buf_end  n == Count
<1>1. M \in Nat /\ M > 0 /\ s \in 0..M-1 /\ e \in 0..M-1 /\ s # e
  BY UartAssumption DEF UartTypeOK, Index, DataReady
<1>2. s' = Next1(s) /\ e' = e /\ uart_rx_buf' = uart_rx_buf
  BY DEF TakeByte
<1>3. Count' = Count - 1 /\ Count \in Nat /\ Count <= M - 1
  BY <1>1, <1>2 DEF Count, Next1
<1>4. \A k \in 1..n - 1 : Slot(Next1(s), k) = Slot(s, k + 1) /\ k + 1 \in 1..n
  <2>1. n \in Nat /\ n <= M - 1
    BY <1>3
  <2> HIDE DEF M, s, e, n
  <2> QED
    BY <1>1, <2>1 DEF Slot, Next1, M
<1> QED
  BY <1>2, <1>3, <1>4 DEF Bytes

-----------------------------------------------------------------------------
(* The points that lie between the receiver and the sender.                 *)

\* Point y belongs to the m-th frame of q.
Belongs(m, y, q) ==
  PointOK(y) /\ (y.at # "return" => m <= Len(q) /\ y.buf = q[m])

\* Point y of frame m is followed by y2 of frame m2.
Follows(m, y, m2, y2, q) ==
  /\ y.at # "return"
  /\ y.at # "end" => m2 = m /\ y2 = After(y)
  /\ y.at = "end" => m2 = m + 1 /\ (y2 = Quiet \/ y2 = Call(q[m2]))

\* Six points at least lie between one point of a frame and the same of the next.
Weight(m, y) == 6 * m + Rank(y)

\* The n points of the frames q on the way, the last of them x.
Chain(n, call, pts, q, x) ==
  /\ n \in Nat \ {0}
  /\ call \in [1..n -> Nat \ {0}]
  /\ pts \in [1..n -> Point]
  /\ \A k \in 1..n : Belongs(call[k], pts[k], q)
  /\ \A k \in 1..n - 1 : Follows(call[k], pts[k], call[k + 1], pts[k + 1], q)
  /\ pts[n] = x /\ call[n] = Len(q) + (IF x.at = "return" THEN 1 ELSE 0)
  /\ call[1] = 1
  /\ \A a, b \in 1..n : a <= b =>
       call[a] <= call[b] /\ Weight(call[b], pts[b]) <= Weight(call[a], pts[a]) + (b - a)

\* Ranks and weights are numbers.
LEMMA Weights ==
  ASSUME NEW y \in Point
  PROVE  Rank(y) \in 0..5 /\ \A m \in Nat : Weight(m, y) = 6 * m + Rank(y) /\ Weight(m, y) \in Nat
<1>1. Rank(y) \in 0..5
  BY DEF Rank, Point, TxLine
<1> QED
  BY <1>1 DEF Weight

\* The sender puts a byte on the line.
LEMMA ChainGrows ==
  ASSUME NEW q \in Seq(Frame), NEW n, NEW call, NEW pts, NEW x, x.at # "return",
         Chain(n, call, pts, q, x)
  PROVE  \E call2, pts2 :
           /\ Chain(n + 1, call2, pts2, q, After(x))
           /\ \A k \in 1..n : pts2[k] = pts[k]
<1>0. /\ n \in Nat \ {0} /\ call \in [1..n -> Nat \ {0}] /\ pts \in [1..n -> Point]
      /\ \A k \in 1..n : Belongs(call[k], pts[k], q)
      /\ \A k \in 1..n - 1 : Follows(call[k], pts[k], call[k + 1], pts[k + 1], q)
      /\ pts[n] = x /\ call[n] = Len(q) /\ call[1] = 1
      /\ \A a, b \in 1..n : a <= b =>
           call[a] <= call[b] /\ Weight(call[b], pts[b]) <= Weight(call[a], pts[a]) + (b - a)
  <2>1. call[n] = Len(q) + 0 /\ Len(q) \in Nat
    BY DEF Chain
  <2> QED
    BY <2>1 DEF Chain
<1>1. n \in 1..n /\ x \in Point /\ PointOK(x) /\ x.buf = q[Len(q)]
  <2>1. n \in 1..n
    BY <1>0
  <2> QED
    BY <1>0, <2>1 DEF Belongs
<1>2. PICK m : m = call[n] + (IF x.at = "end" THEN 1 ELSE 0)
  OBVIOUS
<1>3. m \in Nat \ {0} /\ call[n] <= m
  BY <1>0, <1>1, <1>2
<1>4. PICK call2 : call2 = [k \in 1..n + 1 |-> IF k <= n THEN call[k] ELSE m]
  OBVIOUS
<1>5. PICK pts2 : pts2 = [k \in 1..n + 1 |-> IF k <= n THEN pts[k] ELSE After(x)]
  OBVIOUS
<1>6. \A k \in 1..n : call2[k] = call[k] /\ pts2[k] = pts[k]
  BY <1>0, <1>4, <1>5
<1>7. call2[n + 1] = m /\ pts2[n + 1] = After(x)
  BY <1>0, <1>4, <1>5
<1>8. /\ After(x) \in Point /\ PointOK(After(x))
      /\ x.at = "end" => After(x) = Quiet
      /\ x.at # "end" => After(x).at # "return" /\ After(x).buf = x.buf
                         /\ Rank(After(x)) <= Rank(x) + 1
  BY <1>1, AfterOK
<1>9. call2 \in [1..n + 1 -> Nat \ {0}] /\ pts2 \in [1..n + 1 -> Point]
  <2>1. \A k \in 1..n + 1 : (IF k <= n THEN call[k] ELSE m) \in Nat \ {0}
    BY <1>0, <1>3
  <2>2. \A k \in 1..n + 1 : (IF k <= n THEN pts[k] ELSE After(x)) \in Point
    BY <1>0, <1>8
  <2> QED
    BY <1>4, <1>5, <2>1, <2>2
<1>10. Quiet.at = "return"
  BY DEF Quiet
<1>11. Belongs(m, After(x), q)
  BY <1>0, <1>1, <1>2, <1>8, <1>10 DEF Belongs
<1>12. m = Len(q) + (IF After(x).at = "return" THEN 1 ELSE 0)
  BY <1>0, <1>2, <1>8, <1>10
<1>13. Follows(call[n], x, m, After(x), q)
  BY <1>0, <1>2, <1>8 DEF Follows
<1>14. Weight(m, After(x)) <= Weight(call[n], x) + 1
  <2>1. CASE x.at = "end"
    <3>1. Rank(x) = 5 /\ Rank(After(x)) = 0
      BY <1>8, <1>10, <2>1 DEF Rank
    <3>2. m = call[n] + 1 /\ call[n] \in Nat
      BY <1>0, <1>2, <2>1
    <3> QED
      BY <3>1, <3>2 DEF Weight
  <2>2. CASE x.at # "end"
    <3>1. m = call[n] /\ call[n] \in Nat
      BY <1>0, <1>2, <2>2
    <3>2. Rank(x) \in Nat /\ Rank(After(x)) \in Nat
      <4>1. Rank(x) \in 0..5 /\ Rank(After(x)) \in 0..5
        BY <1>1, <1>8, Weights
      <4> QED
        BY <4>1
    <3> QED
      BY <1>8, <2>2, <3>1, <3>2 DEF Weight
  <2> QED
    BY <2>1, <2>2
<1>15. \A a, b \in 1..n + 1 : a <= b =>
         call2[a] <= call2[b] /\ Weight(call2[b], pts2[b]) <= Weight(call2[a], pts2[a]) + (b - a)
  <2> SUFFICES ASSUME NEW a \in 1..n + 1, NEW b \in 1..n + 1, a <= b
               PROVE  /\ call2[a] <= call2[b]
                      /\ Weight(call2[b], pts2[b]) <= Weight(call2[a], pts2[a]) + (b - a)
    OBVIOUS
  <2>1. CASE b <= n
    <3>1. a \in 1..n /\ b \in 1..n
      BY <1>0, <2>1
    <3> QED
      BY <1>0, <1>6, <3>1
  <2>2. CASE a = n + 1
    <3>1. b = n + 1
      BY <1>0, <2>2
    <3>2. m \in Nat /\ Weight(m, After(x)) \in Nat
      BY <1>3, <1>8, Weights
    <3> QED
      BY <1>7, <2>2, <3>1, <3>2
  <2>3. CASE a <= n /\ b = n + 1
    <3>1. a \in 1..n
      BY <1>0, <2>3
    <3>2. call[a] <= call[n] /\ Weight(call[n], x) <= Weight(call[a], pts[a]) + (n - a)
      BY <1>0, <1>1, <3>1
    <3>3. call[a] \in Nat /\ call[n] \in Nat /\ m \in Nat
      BY <1>0, <1>1, <1>3, <3>1
    <3>4. /\ Weight(m, After(x)) \in Nat /\ Weight(call[n], x) \in Nat
          /\ Weight(call[a], pts[a]) \in Nat
      <4>1. pts[a] \in Point
        BY <1>0, <3>1
      <4> QED
        BY <1>1, <1>8, <3>3, <4>1, Weights
    <3>5. \A w1, w2, w3 \in Nat : w1 <= w2 + 1 /\ w2 <= w3 + (n - a) => w1 <= w3 + (n + 1 - a)
      BY <1>0, <3>1
    <3>6. Weight(m, After(x)) <= Weight(call[a], pts[a]) + (b - a)
      <4>1. Weight(m, After(x)) <= Weight(call[a], pts[a]) + (n + 1 - a)
        BY <1>14, <3>2, <3>4, <3>5
      <4>2. n + 1 - a = b - a
        BY <1>0, <2>3
      <4> QED
        BY <4>1, <4>2, Zenon
    <3> QED
      BY <1>3, <1>6, <1>7, <2>3, <3>1, <3>2, <3>3, <3>6
  <2> QED
    BY <1>0, <2>1, <2>2, <2>3
<1>16. \A k \in 1..n + 1 : Belongs(call2[k], pts2[k], q)
  <2>1. \A k \in 1..n + 1 : k \in 1..n \/ k = n + 1
    BY <1>0
  <2> QED
    BY <1>0, <1>6, <1>7, <1>11, <2>1
<1>17. \A k \in 1..n : Follows(call2[k], pts2[k], call2[k + 1], pts2[k + 1], q)
  <2>1. \A k \in 1..n : (k \in 1..n - 1 /\ k + 1 \in 1..n) \/ k = n
    BY <1>0
  <2> QED
    BY <1>0, <1>1, <1>6, <1>7, <1>13, <2>1
<1>18. Chain(n + 1, call2, pts2, q, After(x))
  <2>1. n + 1 \in Nat \ {0} /\ n + 1 - 1 = n /\ 1 \in 1..n
    BY <1>0
  <2> QED
    BY <1>0, <1>6, <1>7, <1>9, <1>12, <1>15, <1>16, <1>17, <2>1 DEF Chain
<1> QED
  BY <1>6, <1>18

\* The receiver takes the first byte, and with the last byte of a frame the frame.
LEMMA ChainShrinks ==
  ASSUME NEW q \in Seq(Frame), NEW n, NEW call, NEW pts, NEW x, n > 1,
         Chain(n, call, pts, q, x), NEW q2,
         pts[1].at # "end" => q2 = q, pts[1].at = "end" => q2 = Tail(q)
  PROVE  /\ pts[1].at = "end" => q # <<>> /\ Head(q) = pts[1].buf
         /\ \E call2, pts2 :
              /\ Chain(n - 1, call2, pts2, q2, x)
              /\ \A k \in 1..n - 1 : pts2[k] = pts[k + 1]
<1>0. /\ n \in Nat \ {0} /\ call \in [1..n -> Nat \ {0}] /\ pts \in [1..n -> Point]
      /\ \A k \in 1..n : Belongs(call[k], pts[k], q)
      /\ \A k \in 1..n - 1 : Follows(call[k], pts[k], call[k + 1], pts[k + 1], q)
      /\ pts[n] = x /\ call[n] = Len(q) + (IF x.at = "return" THEN 1 ELSE 0) /\ call[1] = 1
      /\ \A a, b \in 1..n : a <= b =>
           call[a] <= call[b] /\ Weight(call[b], pts[b]) <= Weight(call[a], pts[a]) + (b - a)
  BY DEF Chain
<1>1. /\ 1 \in 1..n - 1 /\ 1 \in 1..n /\ 2 \in 1..n /\ n \in 1..n
      /\ \A k \in 1..n - 1 : k \in 1..n /\ k + 1 \in 1..n
  BY <1>0
<1>2. /\ pts[1].at # "return" /\ 1 <= Len(q) /\ pts[1].buf = q[1]
      /\ pts[1].at # "end" => call[2] = 1
      /\ pts[1].at = "end" => call[2] = 2
  BY <1>0, <1>1 DEF Belongs, Follows
<1>3. /\ q # <<>> /\ Head(q) = q[1] /\ Tail(q) \in Seq(Frame) /\ Len(Tail(q)) = Len(q) - 1
      /\ \A k \in 1..Len(q) - 1 : Tail(q)[k] = q[k + 1]
  BY <1>2, HeadTailProperties
<1>4. PICK d \in {0, 1} : d = IF pts[1].at = "end" THEN 1 ELSE 0
  OBVIOUS
<1>5. Len(q2) = Len(q) - d /\ \A k \in 1..Len(q) : k - d \in 1..Len(q2) => q2[k - d] = q[k]
  <2>1. CASE d = 1
    <3>1. q2 = Tail(q)
      BY <1>4, <2>1
    <3>2. \A k \in 1..Len(q) : k - 1 \in 1..Len(q) - 1 => Tail(q)[k - 1] = q[(k - 1) + 1]
      BY <1>3
    <3>3. \A k \in 1..Len(q) : (k - 1) + 1 = k
      OBVIOUS
    <3> QED
      BY <1>3, <2>1, <3>1, <3>2, <3>3
  <2>2. CASE d = 0
    <3>1. q2 = q
      BY <1>4, <2>2
    <3>2. Len(q) - 0 = Len(q) /\ \A k \in 1..Len(q) : k - 0 = k
      OBVIOUS
    <3> QED
      BY <2>2, <3>1, <3>2
  <2> QED
    BY <2>1, <2>2
<1>6. PICK call2 : call2 = [k \in 1..n - 1 |-> call[k + 1] - d]
  OBVIOUS
<1>7. PICK pts2 : pts2 = [k \in 1..n - 1 |-> pts[k + 1]]
  OBVIOUS
<1>8. \A k \in 1..n - 1 : call2[k] = call[k + 1] - d /\ pts2[k] = pts[k + 1]
  BY <1>6, <1>7
<1>9. \A k \in 1..n - 1 : call[k + 1] \in Nat /\ call[k + 1] - d \in Nat \ {0}
  <2> SUFFICES ASSUME NEW k \in 1..n - 1
               PROVE  call[k + 1] \in Nat /\ call[k + 1] - d \in Nat \ {0}
    OBVIOUS
  <2>1. 2 <= k + 1 /\ k + 1 \in 1..n
    BY <1>0
  <2>2. call[2] <= call[k + 1] /\ call[k + 1] \in Nat /\ call[2] \in Nat
    BY <1>0, <1>1, <2>1
  <2>3. call[2] = 1 + d
    BY <1>2, <1>4
  <2> QED
    BY <2>2, <2>3
<1>10. call2 \in [1..n - 1 -> Nat \ {0}] /\ pts2 \in [1..n - 1 -> Point]
  BY <1>0, <1>1, <1>6, <1>7, <1>9
<1>11. call2[1] = 1
  BY <1>1, <1>2, <1>4, <1>8
<1>12. pts2[n - 1] = x /\ call2[n - 1] = Len(q2) + (IF x.at = "return" THEN 1 ELSE 0)
  <2>1. n - 1 \in 1..n - 1 /\ n - 1 + 1 = n
    BY <1>0
  <2>2. pts2[n - 1] = x /\ call2[n - 1] = call[n] - d
    BY <1>0, <1>8, <2>1
  <2>3. \A i \in Nat : \A j \in {0, 1} : i + j - d = (i - d) + j
    OBVIOUS
  <2>4. (IF x.at = "return" THEN 1 ELSE 0) \in {0, 1} /\ Len(q) \in Nat
    OBVIOUS
  <2> QED
    BY <1>0, <1>5, <2>2, <2>3, <2>4
<1>13. \A k \in 1..n - 1 : Belongs(call2[k], pts2[k], q2)
  <2> SUFFICES ASSUME NEW k \in 1..n - 1
               PROVE  Belongs(call2[k], pts2[k], q2)
    OBVIOUS
  <2>1. Belongs(call[k + 1], pts[k + 1], q)
    BY <1>0, <1>1
  <2>2. ASSUME call[k + 1] <= Len(q)
        PROVE  call2[k] <= Len(q2) /\ q2[call2[k]] = q[call[k + 1]]
    <3>1. call[k + 1] \in 1..Len(q) /\ call[k + 1] - d \in 1..Len(q2)
      BY <1>5, <1>9, <2>2
    <3> QED
      BY <1>5, <1>8, <3>1
  <2> QED
    BY <1>8, <2>1, <2>2 DEF Belongs
<1>14. \A k \in 1..n - 2 :
         Follows(call2[k], pts2[k], call2[k + 1], pts2[k + 1], q2)
  <2> SUFFICES ASSUME NEW k \in 1..n - 2
               PROVE  Follows(call2[k], pts2[k], call2[k + 1], pts2[k + 1], q2)
    OBVIOUS
  <2>1. k \in 1..n - 1 /\ k + 1 \in 1..n - 1 /\ k + 1 + 1 \in 1..n
    BY <1>0
  <2>2. Follows(call[k + 1], pts[k + 1], call[k + 1 + 1], pts[k + 1 + 1], q)
    BY <1>0, <2>1
  <2>3. /\ call2[k] = call[k + 1] - d /\ pts2[k] = pts[k + 1]
        /\ call2[k + 1] = call[k + 1 + 1] - d /\ pts2[k + 1] = pts[k + 1 + 1]
        /\ call[k + 1] \in Nat /\ call[k + 1 + 1] \in Nat /\ call[k + 1 + 1] - d \in Nat \ {0}
    BY <1>8, <1>9, <2>1
  <2>4. \/ pts[k + 1 + 1].at = "return"
        \/ call[k + 1 + 1] <= Len(q)
    BY <1>0, <2>1 DEF Belongs
  <2>5. ASSUME call[k + 1 + 1] <= Len(q)
        PROVE  q2[call2[k + 1]] = q[call[k + 1 + 1]]
    <3>1. call[k + 1 + 1] \in 1..Len(q) /\ call[k + 1 + 1] - d \in 1..Len(q2)
      BY <1>5, <2>3, <2>5
    <3> QED
      BY <1>5, <2>3, <3>1
  <2>6. Call(q[call[k + 1 + 1]]).at # "return"
    BY DEF Call
  <2>7. call[k + 1 + 1] = call[k + 1] + 1 => call2[k + 1] = call2[k] + 1
    BY <2>3
  <2> QED
    BY <2>2, <2>3, <2>4, <2>5, <2>6, <2>7 DEF Follows
<1>15. \A a, b \in 1..n - 1 : a <= b =>
         call2[a] <= call2[b] /\ Weight(call2[b], pts2[b]) <= Weight(call2[a], pts2[a]) + (b - a)
  <2> SUFFICES ASSUME NEW a \in 1..n - 1, NEW b \in 1..n - 1, a <= b
               PROVE  /\ call2[a] <= call2[b]
                      /\ Weight(call2[b], pts2[b]) <= Weight(call2[a], pts2[a]) + (b - a)
    OBVIOUS
  <2>1. /\ a + 1 \in 1..n /\ b + 1 \in 1..n /\ a + 1 <= b + 1
        /\ (b + 1) - (a + 1) = b - a
    BY <1>0
  <2>2. /\ call[a + 1] <= call[b + 1]
        /\ Weight(call[b + 1], pts[b + 1]) <= Weight(call[a + 1], pts[a + 1]) + (b - a)
    BY <1>0, <2>1
  <2>3. /\ call2[a] = call[a + 1] - d /\ pts2[a] = pts[a + 1]
        /\ call2[b] = call[b + 1] - d /\ pts2[b] = pts[b + 1]
        /\ call[a + 1] \in Nat /\ call[b + 1] \in Nat
        /\ pts[a + 1] \in Point /\ pts[b + 1] \in Point
    BY <1>0, <1>1, <1>8, <1>9
  <2>4. Rank(pts[a + 1]) \in 0..5 /\ Rank(pts[b + 1]) \in 0..5
    BY <2>3, Weights
  <2>5. \A i, j, l \in Nat, r, t \in 0..5 :
          6 * j + t <= (6 * i + r) + l => 6 * (j - d) + t <= (6 * (i - d) + r) + l
    OBVIOUS
  <2>6. b - a \in Nat
    OBVIOUS
  <2>7. Weight(call2[b], pts2[b]) <= Weight(call2[a], pts2[a]) + (b - a)
    BY <2>2, <2>3, <2>4, <2>5, <2>6 DEF Weight
  <2> QED
    BY <2>2, <2>3, <2>7
<1>16. Chain(n - 1, call2, pts2, q2, x)
  <2>1. n - 1 \in Nat \ {0} /\ n - 1 - 1 = n - 2
    BY <1>0
  <2> QED
    BY <1>10, <1>11, <1>12, <1>13, <1>14, <1>15, <2>1 DEF Chain
<1> QED
  BY <1>2, <1>3, <1>8, <1>16

\* slip_tx is called.
LEMMA ChainCalls ==
  ASSUME NEW q \in Seq(Frame), NEW n, NEW call, NEW pts, NEW f \in Frame,
         NEW x, x.at = "return", Chain(n, call, pts, q, x)
  PROVE  \E pts2 :
           /\ Chain(n, call, pts2, Append(q, f), Call(f))
           /\ \A k \in 1..n - 1 : pts2[k] = pts[k]
           /\ pts2[n] = Call(f)
<1>0. /\ n \in Nat \ {0} /\ call \in [1..n -> Nat \ {0}] /\ pts \in [1..n -> Point]
      /\ \A k \in 1..n : Belongs(call[k], pts[k], q)
      /\ \A k \in 1..n - 1 : Follows(call[k], pts[k], call[k + 1], pts[k + 1], q)
      /\ pts[n] = x /\ call[n] = Len(q) + 1 /\ call[1] = 1
      /\ \A a, b \in 1..n : a <= b =>
           call[a] <= call[b] /\ Weight(call[b], pts[b]) <= Weight(call[a], pts[a]) + (b - a)
  BY DEF Chain
<1>1. /\ n \in 1..n /\ \A k \in 1..n : k \in 1..n - 1 \/ k = n
      /\ \A k \in 1..n - 1 : k \in 1..n /\ k + 1 \in 1..n /\ k # n
  BY <1>0
<1>2. x \in Point /\ PointOK(x)
  BY <1>0, <1>1 DEF Belongs
<1>3. x = Quiet
  BY <1>2 DEF PointOK
<1>4. PICK q2 : q2 = Append(q, f)
  OBVIOUS
<1>5. /\ q2 \in Seq(Frame) /\ Len(q2) = Len(q) + 1 /\ q2[Len(q) + 1] = f /\ Len(q) \in Nat
      /\ \A k \in 1..Len(q) : q2[k] = q[k]
  BY <1>4, AppendProperties
<1>6. Call(f) \in Point /\ PointOK(Call(f)) /\ Call(f).at = "flush" /\ Call(f).buf = f
  BY CallOK
<1>7. PICK pts2 : pts2 = [k \in 1..n |-> IF k = n THEN Call(f) ELSE pts[k]]
  OBVIOUS
<1>8. /\ pts2 \in [1..n -> Point] /\ pts2[n] = Call(f)
      /\ \A k \in 1..n - 1 : pts2[k] = pts[k]
  BY <1>0, <1>1, <1>6, <1>7
<1>9. \A k \in 1..n : Belongs(call[k], pts2[k], q2)
  <2>1. Belongs(call[n], pts2[n], q2)
    BY <1>0, <1>5, <1>6, <1>8 DEF Belongs
  <2>2. ASSUME NEW k \in 1..n - 1
        PROVE  Belongs(call[k], pts2[k], q2)
    <3>1. Belongs(call[k], pts[k], q) /\ pts[k].at # "return" /\ call[k] \in Nat \ {0}
      BY <1>0, <1>1 DEF Follows
    <3>2. call[k] <= Len(q) => call[k] \in 1..Len(q) /\ call[k] <= Len(q2)
      BY <1>5, <3>1
    <3> QED
      BY <1>5, <1>8, <3>1, <3>2 DEF Belongs
  <2> QED
    BY <1>1, <2>1, <2>2
<1>10. \A k \in 1..n - 1 : Follows(call[k], pts2[k], call[k + 1], pts2[k + 1], q2)
  <2> SUFFICES ASSUME NEW k \in 1..n - 1
               PROVE  Follows(call[k], pts2[k], call[k + 1], pts2[k + 1], q2)
    OBVIOUS
  <2>1. /\ Follows(call[k], pts[k], call[k + 1], pts[k + 1], q)
        /\ pts[k] \in Point /\ PointOK(pts[k]) /\ pts2[k] = pts[k]
    BY <1>0, <1>1, <1>8 DEF Belongs
  <2>2. CASE k + 1 = n
    <3>1. Quiet.at = "return"
      BY DEF Quiet
    <3>2. pts[k + 1] = Quiet /\ pts2[k + 1] = Call(f) /\ call[k + 1] = Len(q) + 1
      BY <1>0, <1>3, <1>8, <2>2
    <3>3. pts[k].at # "return"
      BY <2>1 DEF Follows
    <3>4. pts[k].at = "end"
      BY <2>1, <3>1, <3>2, <3>3, AfterOK DEF Follows
    <3> QED
      BY <1>5, <2>1, <3>2, <3>3, <3>4 DEF Follows
  <2>3. CASE k + 1 # n
    <3>1. k + 1 \in 1..n - 1
      BY <1>1, <2>3
    <3>2. /\ pts2[k + 1] = pts[k + 1] /\ pts[k + 1].at # "return"
          /\ Belongs(call[k + 1], pts[k + 1], q) /\ call[k + 1] \in Nat \ {0}
      BY <1>0, <1>1, <1>8, <3>1 DEF Follows
    <3>3. call[k + 1] \in 1..Len(q)
      BY <1>5, <3>2 DEF Belongs
    <3>4. q2[call[k + 1]] = q[call[k + 1]]
      BY <1>5, <3>3
    <3> QED
      BY <2>1, <3>2, <3>4 DEF Follows
  <2> QED
    BY <2>2, <2>3
<1>11. \A k \in 1..n : Weight(call[k], pts2[k]) = Weight(call[k], pts[k])
  <2>1. Rank(Call(f)) = Rank(Quiet)
    BY <1>6 DEF Rank, Quiet
  <2> QED
    BY <1>0, <1>1, <1>3, <1>8, <2>1 DEF Weight
<1>12. Chain(n, call, pts2, q2, Call(f))
  <2>1. call[n] = Len(q2) + (IF Call(f).at = "return" THEN 1 ELSE 0)
    BY <1>0, <1>5, <1>6
  <2> QED
    BY <1>0, <1>8, <1>9, <1>10, <1>11, <2>1 DEF Chain
<1> QED
  BY <1>4, <1>8, <1>12

-----------------------------------------------------------------------------
(* The receiver, when the next byte is the one that is put on the line at   *)
(* point y.                                                                 *)

\* What slip_rx has stored of the frame.
HasStored(y) ==
  /\ size = Len(y.buf) /\ checksum = y.checksum
  /\ Len(buf) = y.i /\ \A k \in 1..y.i : buf[k] = y.buf[k]

\* slip_rx is at the line at which it expects that byte.
RxKnows(y) ==
  /\ at \in {"first", "scan", "idle"} => y.at \in {"return", "flush", "start"}
  /\ at = "size" => y.at = "size"
  /\ at \in {"body", "more"} => y.at \in {"payload", "checksum", "end"}
  /\ at = "esc" => y.at = "pair"
  /\ at \in {"body", "more", "esc"} => HasStored(y)
  /\ at \in {"body", "more"} /\ y.at = "end" => c = y.checksum % 128

\* Nothing is expected when nothing is read.
LEMMA ReceiverRests ==
  ASSUME SlipTypeOK, Look \/ WaitForByte \/ GetEmpty \/ GetWait, NEW y, RxKnows(y)
  PROVE  /\ UNCHANGED <<uart_rx_buf, uart_rx_buf_start, uart_rx_buf_end, tx, sent, result, lost>>
         /\ RxKnows(y)'
<1>1. UNCHANGED <<uart_rx_buf, uart_rx_buf_start, uart_rx_buf_end, tx, sent, result, lost,
                  size, checksum, buf, c>>
  BY DEF Look, WaitForByte, GetEmpty, GetWait, NoteSignal, Park, uartVars, ringVars, history
<1>2. at' \in {at, Found[at], Missed[at]} /\ at \in Line
  BY DEF SlipTypeOK, Look, WaitForByte, GetEmpty, GetWait
<1>3. /\ at \in {"first", "scan", "idle"} <=> at' \in {"first", "scan", "idle"}
      /\ at \in {"body", "more"} <=> at' \in {"body", "more"}
      /\ at = "size" <=> at' = "size"
      /\ at = "esc" <=> at' = "esc"
  BY <1>2 DEF Line, Found, Missed
<1>4. HasStored(y) => HasStored(y)'
  BY <1>1 DEF HasStored
<1>5. at' \in {"body", "more", "esc"} => at \in {"body", "more", "esc"}
  BY <1>3
<1> QED
  BY <1>1, <1>3, <1>4, <1>5 DEF RxKnows

\* What is read in the payload: marks are only at the marks.
LEMMA WhatIsRead ==
  ASSUME NEW y \in Point, PointOK(y), y.at \in {"payload", "pair", "checksum", "end"}
  PROVE  /\ ByteOf(y) = END <=> y.at = "end"
         /\ ByteOf(y) = ESC <=> y.at = "payload" /\ Stuffed(y.buf[y.i + 1])
         /\ y.at = "pair" => ByteOf(y) \in DOMAIN Unstuffed
                             /\ Unstuffed[ByteOf(y)] = y.buf[y.i + 1]
         /\ y.at = "payload" /\ ~Stuffed(y.buf[y.i + 1]) => ByteOf(y) = y.buf[y.i + 1]
         /\ y.at = "checksum" => ByteOf(y) = y.checksum % 128
<1>1. CASE y.at = "payload"
  BY <1>1 DEF ByteOf, Stuffed, END, ESC
<1>2. CASE y.at = "pair"
  <2>1. Stuffed(y.buf[y.i + 1])
    BY <1>2 DEF PointOK
  <2> QED
    BY <1>2, <2>1 DEF ByteOf, Stuffed, Unstuffed, END, ESC, ESC_END, ESC_ESC
<1>3. CASE y.at = "checksum"
  <2>1. y.checksum % 128 < 128 /\ y.checksum % 128 \in Byte
    <3>1. y.checksum \in Byte
      BY DEF Point
    <3> QED
      BY <3>1, SevenBits
  <2>2. y.checksum % 128 # END /\ y.checksum % 128 # ESC
    <3>1. \A n \in Byte : n < 128 => n # END /\ n # ESC
      BY DEF END, ESC, Byte
    <3> QED
      BY <2>1, <3>1, Zenon
  <2> QED
    BY <1>3, <2>2 DEF ByteOf
<1>4. CASE y.at = "end"
  BY <1>4, Marks DEF ByteOf
<1> QED
  BY <1>1, <1>2, <1>3, <1>4

\* A payload byte is stored and added up.
LEMMA StoresPayload ==
  ASSUME SlipTypeOK, NEW y \in Point, PointOK(y), y.at \in {"payload", "pair"}, HasStored(y),
         Store(y.buf[y.i + 1])
  PROVE  RxKnows(NextPayload(y))' /\ UNCHANGED result
<1> DEFINE b == y.buf[y.i + 1]  z == NextPayload(y)
<1>1. /\ z.at \in {"payload", "checksum"} /\ z.buf = y.buf /\ z.i = y.i + 1
      /\ z.checksum = (y.checksum + b) % 256
  BY NextPayloadOK
<1>2. y.buf \in Frame /\ y.i \in Nat /\ y.i < Len(y.buf)
  BY DEF Point, PointOK
<1>3. y.buf \in Seq(Byte) /\ Len(y.buf) <= max_len /\ Len(y.buf) \in Nat
  BY <1>2, Frames
<1>4. buf \in Seq(Byte) /\ Len(buf) = y.i /\ size = Len(y.buf) /\ checksum = y.checksum
      /\ \A k \in 1..y.i : buf[k] = y.buf[k]
  BY DEF SlipTypeOK, HasStored
<1>5. Len(buf) < max_len /\ Len(buf) < size
  BY <1>2, <1>3, <1>4, SlipAssumption
<1>6. /\ buf' = Append(buf, b) /\ checksum' = (checksum + b) % 256 /\ at' = "more"
      /\ UNCHANGED <<size, result>>
  BY <1>5 DEF Store, GoTo
<1>7. Len(buf') = y.i + 1 /\ \A k \in 1..y.i + 1 : buf'[k] = y.buf[k]
  <2>1. Len(buf') = Len(buf) + 1 /\ buf'[Len(buf) + 1] = b /\ \A k \in 1..Len(buf) : buf'[k] = buf[k]
    BY <1>4, <1>6
  <2>2. \A k \in 1..y.i + 1 : k \in 1..y.i \/ k = y.i + 1
    BY <1>2
  <2> QED
    BY <1>4, <2>1, <2>2
<1> HIDE DEF b, z
<1>8. HasStored(z)'
  BY <1>1, <1>4, <1>6, <1>7 DEF HasStored
<1>9. RxKnows(z)'
  BY <1>1, <1>6, <1>8 DEF RxKnows
<1> QED
  BY <1>6, <1>9 DEF z

\* slip_rx reads the byte and then expects the next; with the last byte of a frame it
\* returns the frame.
LEMMA ReceiverTakes ==
  ASSUME SlipTypeOK, ~Invents, NEW y \in Point, PointOK(y), y.at # "return", RxKnows(y),
         Received = ByteOf(y), sent # <<>>, Head(sent) = y.buf, Len(y.buf) <= 127,
         Hunt \/ GetSize \/ Payload \/ Escape \/ Escaped \/ EndOfFrame \/ Malformed
  PROVE  /\ UNCHANGED lost
         /\ y.at # "end" => UNCHANGED <<sent, result>> /\ RxKnows(After(y))'
         /\ y.at = "end" => result' = Head(sent) /\ sent' = Tail(sent) /\ at' = "first"
<1>0. UNCHANGED lost /\ (Reads => UNCHANGED sent)
  BY DEF Reads, Hunt, GetSize, Payload, Escape, Escaped, EndOfFrame, Malformed, SlipReturn
<1> SUFFICES /\ y.at # "end" => UNCHANGED <<sent, result>> /\ RxKnows(After(y))'
             /\ y.at = "end" => result' = Head(sent) /\ sent' = Tail(sent) /\ at' = "first"
  BY <1>0
<1>1. y.buf \in Frame /\ y.i \in Nat /\ y.checksum \in Byte /\ y.at \in TxLine
  BY DEF Point, PointOK
<1>2. Len(y.buf) \in 1..128 /\ y.buf \in Seq(Byte)
  BY <1>1, Frames
<1>3. CASE Hunt
  <2>1. y.at \in {"flush", "start"} /\ UNCHANGED <<sent, result>>
    BY <1>0, <1>3 DEF Hunt, RxKnows
  <2>2. CASE y.at = "flush"
    <3>1. at' = "scan"
      BY <1>3, <2>2, Marks DEF Hunt, ByteOf, GoTo
    <3>2. After(y).at = "start"
      BY <2>2, MovedTo DEF After, TxLine
    <3> QED
      BY <2>1, <2>2, <3>1, <3>2 DEF RxKnows
  <2>3. CASE y.at = "start"
    <3>1. at' = "size"
      BY <1>3, <2>3, Marks DEF Hunt, ByteOf, GoTo
    <3>2. After(y).at = "size"
      BY <2>3, MovedTo DEF After, TxLine
    <3> QED
      BY <2>1, <2>3, <3>1, <3>2 DEF RxKnows
  <2> QED
    BY <2>1, <2>2, <2>3
<1>4. CASE GetSize
  <2>1. y.at = "size" /\ UNCHANGED <<sent, result>>
    BY <1>0, <1>4 DEF GetSize, RxKnows
  <2>2. at' = "body" /\ size' = Len(y.buf) /\ checksum' = 0 /\ buf' = <<>>
    BY <1>4, <2>1 DEF GetSize, ByteOf, GoTo
  <2>3. PICK z : z = After(y)
    OBVIOUS
  <2>4. z.at = "payload" /\ z.buf = y.buf /\ z.i = 0 /\ z.checksum = 0
    <3>1. y.i = 0 /\ y.checksum = 0
      BY <2>1 DEF PointOK
    <3>2. z = [y EXCEPT !.at = "payload"]
      BY <2>1, <2>3 DEF After
    <3> QED
      BY <3>1, <3>2, MovedTo DEF TxLine
  <2>5. HasStored(z)'
    BY <2>2, <2>4 DEF HasStored
  <2>6. RxKnows(z)'
    BY <2>2, <2>4, <2>5 DEF RxKnows
  <2> QED
    BY <2>1, <2>3, <2>6
<1>5. CASE Payload
  <2>1. y.at \in {"payload", "checksum", "end"} /\ HasStored(y)
        /\ Received \notin {END, ESC} /\ Store(Received) /\ UNCHANGED sent
    BY <1>0, <1>5 DEF Payload, RxKnows
  <2>2. CASE y.at = "payload"
    <3>1. ~Stuffed(y.buf[y.i + 1]) /\ Received = y.buf[y.i + 1]
      BY <2>1, <2>2, WhatIsRead
    <3>2. After(y) = NextPayload(y)
      BY <2>2, <3>1 DEF After
    <3> QED
      BY <2>1, <2>2, <3>1, <3>2, StoresPayload
  <2>3. CASE y.at = "checksum"
    <3>1. y.i = Len(y.buf) /\ Received = y.checksum % 128
      BY <2>3, WhatIsRead DEF PointOK
    <3>2. ~(Len(buf) < size)
      BY <1>2, <2>1, <3>1 DEF HasStored
    <3>3. at' = "more" /\ c' = y.checksum % 128 /\ UNCHANGED <<size, buf, checksum, sent, result>>
      BY <2>1, <3>1, <3>2 DEF Store, GoTo
    <3>4. PICK z : z = After(y)
      OBVIOUS
    <3>5. z.at = "end" /\ z.buf = y.buf /\ z.i = y.i /\ z.checksum = y.checksum
      BY <2>3, <3>4, MovedTo DEF After, TxLine
    <3>6. HasStored(z)'
      BY <2>1, <3>3, <3>5 DEF HasStored
    <3>7. RxKnows(z)'
      BY <3>3, <3>5, <3>6 DEF RxKnows
    <3> QED
      BY <2>3, <3>3, <3>4, <3>7
  <2> QED
    BY <2>1, <2>2, <2>3, WhatIsRead
<1>6. CASE Escape
  <2>1. y.at \in {"payload", "checksum", "end"} /\ HasStored(y) /\ Received = ESC
        /\ at' = "esc" /\ UNCHANGED <<size, buf, checksum, sent, result>>
    BY <1>0, <1>6 DEF Escape, RxKnows, GoTo
  <2>2. y.at = "payload" /\ Stuffed(y.buf[y.i + 1])
    BY <2>1, WhatIsRead
  <2>3. PICK z : z = After(y)
    OBVIOUS
  <2>4. z.at = "pair" /\ z.buf = y.buf /\ z.i = y.i /\ z.checksum = y.checksum
    BY <2>2, <2>3, MovedTo DEF After, TxLine
  <2>5. HasStored(z)'
    BY <2>1, <2>4 DEF HasStored
  <2>6. RxKnows(z)'
    BY <2>1, <2>4, <2>5 DEF RxKnows
  <2> QED
    BY <2>1, <2>2, <2>3, <2>6
<1>7. CASE Escaped
  <2>1. y.at = "pair" /\ HasStored(y) /\ Store(Unstuffed[Received]) /\ UNCHANGED sent
    BY <1>0, <1>7 DEF Escaped, RxKnows
  <2>2. Unstuffed[Received] = y.buf[y.i + 1]
    BY <2>1, WhatIsRead
  <2>3. After(y) = NextPayload(y)
    BY <2>1 DEF After
  <2> QED
    BY <2>1, <2>2, <2>3, StoresPayload
<1>8. CASE EndOfFrame
  <2>1. y.at \in {"payload", "checksum", "end"} /\ HasStored(y) /\ Received = END
    BY <1>8 DEF EndOfFrame, RxKnows
  <2>2. y.at = "end"
    BY <2>1, WhatIsRead
  <2>3. c = y.checksum % 128 /\ y.i = Len(y.buf)
    BY <1>8, <2>2 DEF EndOfFrame, RxKnows, PointOK
  <2>4. buf = y.buf
    <3>1. buf \in Seq(Byte) /\ Len(buf) = Len(y.buf) /\ \A k \in 1..Len(y.buf) : buf[k] = y.buf[k]
      BY <2>1, <2>3 DEF HasStored, SlipTypeOK
    <3> QED
      BY <1>2, <3>1, SeqEqual, Zenon
  <2>5. /\ buf # <<>> /\ checksum = y.checksum
        /\ AsInt8(Len(buf)) > 0
    <3>1. Len(y.buf) \in 1..127
      <4>1. \A n \in 1..128 : n <= 127 => n \in 1..127
        OBVIOUS
      <4> QED
        BY <1>2, <4>1
    <3>2. \A n \in 1..127 : AsInt8(n) > 0
      BY DEF AsInt8
    <3>3. y.buf # <<>>
      BY <1>1, Frames
    <3> QED
      BY <2>1, <2>4, <3>1, <3>2, <3>3 DEF HasStored
  <2>6. SlipReturn(buf)
    BY <1>8, <2>3, <2>5 DEF EndOfFrame
  <2>7. result' = Head(sent) /\ at' = "first"
    BY <2>4, <2>6 DEF SlipReturn, GoTo
  <2>8. sent' = Tail(sent)
    <3>1. sent \in Seq(Frame) /\ 1 \in 1..Len(sent) /\ Len(sent) \in Nat /\ sent[1] = buf
      BY <2>4 DEF SlipTypeOK
    <3>2. Contains(sent, buf)
      BY <3>1 DEF Contains
    <3>3. FirstAt(sent, buf) = 1
      <4>1. FirstAt(sent, buf) \in 1..Len(sent) /\ FirstAt(sent, buf) <= 1
        BY <3>1, <3>2, FirstOfIts
      <4> QED
        BY <4>1
    <3>4. sent' = SubSeq(sent, FirstAt(sent, buf) + 1, Len(sent))
      BY <2>5, <2>6, <3>2 DEF SlipReturn, Behind, FirstAt, NRK_ERROR
    <3>5. sent' = SubSeq(sent, 2, Len(sent))
      BY <3>3, <3>4
    <3> QED
      BY <3>1, <3>5, TailIsSubSeq
  <2> QED
    BY <2>2, <2>7, <2>8
<1>9. CASE Malformed
  BY <1>9, WhatIsRead DEF Malformed, RxKnows
<1> QED
  BY <1>3, <1>4, <1>5, <1>6, <1>7, <1>8, <1>9

-----------------------------------------------------------------------------
(* Both ends and the line between them.                                     *)

\* Each byte in the ring was put there at its point, and the receiver has stored
\* what came before the first.
UnderWay(call, pts) ==
  /\ Chain(Count + 1, call, pts, sent, tx)
  /\ \A k \in 1..Count : Bytes[k] = ByteOf(pts[k])
  /\ RxKnows(pts[1])

\* slip_rx can return the length of every frame.
FitsResult == \A f \in Frame : Len(f) <= 127

LineInv == TypeInv /\ (lost = 0 => \E call, pts : UnderWay(call, pts))

\* A step of the abstract channel.
ChannelStep == [Channel!ChannelNext]_(Channel!channelVars)

\* What is under way has room in the ring and in the receiver's buffer.
LEMMA RoomForFrames ==
  ASSUME TypeInv, NEW call, NEW pts, UnderWay(call, pts)
  PROVE  /\ Len(sent) <= 1 + (MAX_RX_UART_BUF + 4) \div 6
         /\ tx.at = "return" => Len(sent) <= (MAX_RX_UART_BUF + 4) \div 6
<1>1. /\ UartTypeOK /\ sent \in Seq(Frame) /\ tx \in Point
      /\ MAX_RX_UART_BUF \in Nat /\ Len(sent) \in Nat
  BY UartAssumption DEF TypeInv, SlipTypeOK
<1>2. Count \in Nat /\ Count <= MAX_RX_UART_BUF - 1
  BY <1>1, CountInRing
<1>3. 1 \in 1..Count + 1 /\ Count + 1 \in 1..Count + 1 /\ (Count + 1) - 1 = Count
  BY <1>2
<1>4. /\ pts[1] \in Point /\ pts[Count + 1] = tx /\ call[1] = 1
      /\ call[Count + 1] = Len(sent) + (IF tx.at = "return" THEN 1 ELSE 0)
      /\ Weight(call[Count + 1], tx) <= Weight(1, pts[1]) + Count
  BY <1>3 DEF UnderWay, Chain
<1>5. Rank(tx) \in 0..5 /\ Rank(pts[1]) \in 0..5
  BY <1>1, <1>4, Weights
<1>6. \A l, n, m \in Nat, r, t \in 0..5 :
        6 * l + r <= (6 * 1 + t) + n /\ n <= m - 1 => l <= 1 + (m + 4) \div 6
  <2>1. \A l, n, m \in Nat, r, t \in 0..5 :
          6 * l + r <= (6 * 1 + t) + n /\ n <= m - 1 => 6 * l <= m + 10
    OBVIOUS
  <2>2. \A l, m \in Nat : 6 * l <= m + 10 => l <= 1 + (m + 4) \div 6
    OBVIOUS
  <2> QED
    BY <2>1, <2>2, Zenon
<1>7. \A l, m \in Nat : l + 1 <= 1 + (m + 4) \div 6 => l <= (m + 4) \div 6
  OBVIOUS
<1>8. CASE tx.at = "return"
  <2>1. call[Count + 1] = Len(sent) + 1
    BY <1>4, <1>8
  <2>2. Len(sent) + 1 <= 1 + (MAX_RX_UART_BUF + 4) \div 6
    <3>1. 6 * (Len(sent) + 1) + Rank(tx) <= (6 * 1 + Rank(pts[1])) + Count
      BY <1>4, <2>1 DEF Weight
    <3>2. Len(sent) + 1 \in Nat
      BY <1>1
    <3> QED
      BY <1>1, <1>2, <1>5, <1>6, <3>1, <3>2, Zenon
  <2> QED
    BY <1>1, <1>7, <2>2
<1>9. CASE tx.at # "return"
  <2>1. call[Count + 1] = Len(sent)
    BY <1>1, <1>4, <1>9
  <2>2. 6 * Len(sent) + Rank(tx) <= (6 * 1 + Rank(pts[1])) + Count
    BY <1>4, <2>1 DEF Weight
  <2>3. Len(sent) <= 1 + (MAX_RX_UART_BUF + 4) \div 6
    BY <1>1, <1>2, <1>5, <1>6, <2>2, Zenon
  <2> QED
    BY <1>9, <2>3
<1> QED
  BY <1>8, <1>9

\* A step that loses bytes is one of the channel.
LEMMA LossIsAStep ==
  ASSUME SlipTypeOK, Ongoing,
         \/ Lose(TooMany)
         \/ UNCHANGED result /\ \E n \in Nat \ {0} : Lose(n)
  PROVE  ChannelStep /\ lost' # 0
<1>0. lost \in Nat /\ TooMany \in Nat \ {0}
  BY SlipAssumption DEF SlipTypeOK
<1>1. CASE Lose(TooMany)
  BY <1>0, <1>1, Invented DEF ChannelStep, Channel!ChannelNext, Channel!BreakDown
<1>2. CASE UNCHANGED result /\ \E n \in Nat \ {0} : Lose(n)
  <2>1. PICK n \in Nat \ {0} : Lose(n)
    BY <1>2
  <2>2. lost' \in Nat /\ lost' > lost /\ (lost' >= TooMany \/ sent' = sent)
    BY <2>1, LossTyped
  <2>3. CASE lost' >= TooMany
    BY <1>0, <2>2, <2>3 DEF ChannelStep, Channel!ChannelNext, Channel!BreakDown
  <2>4. CASE sent' = sent
    BY <1>0, <1>2, <2>2, <2>4 DEF ChannelStep, Channel!ChannelNext, Channel!LoseBytes
  <2> QED
    BY <2>2, <2>3, <2>4
<1> QED
  BY <1>1, <1>2

\* What getc0 makes up counts as lost.
LEMMA InventsLoses ==
  ASSUME SlipRx, GetsByte, Invents
  PROVE  Lose(TooMany)
<1>1. step = "take"
  BY DEF GetsByte, Invents
<1>2. ~(Look \/ WaitForByte \/ GetEmpty \/ GetWait)
  BY <1>1 DEF Look, WaitForByte, GetEmpty, GetWait
<1> QED
  BY <1>2 DEF SlipRx, Hunt, GetSize, Payload, Escape, Escaped, EndOfFrame, Malformed, Reads,
              SlipReturn

\* Up to the first loss, each step leads to such points again and is a step of the
\* abstract channel.
LEMMA LineNext ==
  ASSUME MaxSent > (MAX_RX_UART_BUF + 4) \div 6, FitsResult,
         TypeInv, lost = 0, [SlipNext]_slipVars,
         NEW call, NEW pts, UnderWay(call, pts)
  PROVE  ChannelStep /\ (lost' = 0 => \E call2, pts2 : UnderWay(call2, pts2)')
<1>0. /\ UartTypeOK /\ SlipTypeOK /\ sent \in Seq(Frame) /\ tx \in Point /\ PointOK(tx)
      /\ Count \in Nat /\ lost \in Nat /\ Len(sent) \in Nat
  BY CountInRing DEF TypeInv, SlipTypeOK
<1>1. /\ Chain(Count + 1, call, pts, sent, tx) /\ RxKnows(pts[1])
      /\ \A k \in 1..Count : Bytes[k] = ByteOf(pts[k])
  BY DEF UnderWay
<1>2. CASE Look \/ WaitForByte \/ GetEmpty \/ GetWait
  <2>1. /\ UNCHANGED <<uart_rx_buf, uart_rx_buf_start, uart_rx_buf_end, tx, sent, result, lost>>
        /\ RxKnows(pts[1])'
    BY <1>0, <1>1, <1>2, ReceiverRests
  <2>2. Count' = Count /\ Bytes' = Bytes
    BY <2>1 DEF Count, Bytes
  <2>3. UnderWay(call, pts)'
    BY <1>1, <2>1, <2>2 DEF UnderWay
  <2>4. ChannelStep
    BY <2>1 DEF ChannelStep, Channel!channelVars
  <2> QED
    BY <2>3, <2>4
<1>3. CASE /\ ~Invents
           /\ Hunt \/ GetSize \/ Payload \/ Escape \/ Escaped \/ EndOfFrame \/ Malformed
  <2>1. GetsByte /\ UNCHANGED tx
    BY <1>3 DEF Hunt, GetSize, Payload, Escape, Escaped, EndOfFrame, Malformed, Store, SlipReturn,
                Reads
  <2>2. DataReady /\ TakeByte
    BY <1>3, <2>1 DEF GetsByte, Invents
  <2>3. /\ Count # 0 /\ Received = Bytes[1]
        /\ Count' = Count - 1 /\ Bytes' = [k \in 1..Count - 1 |-> Bytes[k + 1]]
    BY <1>0, <2>2, CountInRing, TakeFirst
  <2>4. /\ 1 \in 1..Count /\ 1 \in 1..Count + 1 /\ 1 \in 1..(Count + 1) - 1 /\ Count + 1 > 1
        /\ (Count + 1) - 1 = Count /\ 1 \in Nat
        /\ (Count - 1) + 1 = Count
        /\ \A k \in 1..Count - 1 : k \in 1..Count /\ k + 1 \in 1..Count
    BY <1>0, <2>3
  <2>5. /\ pts[1] \in Point /\ PointOK(pts[1]) /\ pts[1].at # "return"
        /\ Follows(call[1], pts[1], call[2], pts[2], sent)
        /\ Received = ByteOf(pts[1])
    <3>1. pts[1] \in Point /\ Belongs(call[1], pts[1], sent)
      BY <1>1, <2>4 DEF Chain
    <3>2. Follows(call[1], pts[1], call[1 + 1], pts[1 + 1], sent)
      BY <1>1, <2>4 DEF Chain
    <3> QED
      BY <1>1, <2>3, <2>4, <3>1, <3>2 DEF Belongs, Follows
  <2>6. sent # <<>> /\ Head(sent) = pts[1].buf
    <3>1. Belongs(1, pts[1], sent)
      BY <1>1, <2>4 DEF Chain
    <3>2. 1 <= Len(sent) /\ pts[1].buf = sent[1]
      BY <2>5, <3>1 DEF Belongs
    <3> QED
      BY <1>0, <3>2
  <2>7. /\ UNCHANGED lost
        /\ pts[1].at # "end" => UNCHANGED <<sent, result>> /\ RxKnows(After(pts[1]))'
        /\ pts[1].at = "end" => result' = Head(sent) /\ sent' = Tail(sent) /\ at' = "first"
    <3>1. Len(pts[1].buf) <= 127
      BY <2>5 DEF PointOK, FitsResult
    <3> QED
      BY <1>0, <1>1, <1>3, <2>5, <2>6, <3>1, ReceiverTakes
  <2>8. PICK call2, pts2 :
          /\ Chain((Count + 1) - 1, call2, pts2, sent', tx)
          /\ \A k \in 1..(Count + 1) - 1 : pts2[k] = pts[k + 1]
    <3>1. pts[1].at # "end" => sent' = sent
      BY <2>7
    <3>2. pts[1].at = "end" => sent' = Tail(sent)
      BY <2>7
    <3> QED
      BY <1>0, <1>1, <2>4, <3>1, <3>2, ChainShrinks
  <2>9. pts2[1] = pts[2]
    BY <2>4, <2>8
  <2>10. RxKnows(pts2[1])'
    <3>1. CASE pts[1].at # "end"
      <4>1. pts[2] = After(pts[1])
        BY <2>5, <3>1 DEF Follows
      <4> QED
        BY <2>7, <2>9, <3>1, <4>1
    <3>2. CASE pts[1].at = "end"
      <4>1. pts2[1].at \in {"return", "flush"}
        BY <2>5, <2>9, <3>2 DEF Follows, Quiet, Call
      <4>2. at' = "first"
        BY <2>7, <3>2
      <4> QED
        BY <4>1, <4>2 DEF RxKnows
    <3> QED
      BY <3>1, <3>2
  <2>11. \A k \in 1..Count - 1 : Bytes'[k] = ByteOf(pts2[k])
    BY <1>1, <2>3, <2>4, <2>8
  <2>12. UnderWay(call2, pts2)'
    BY <2>1, <2>3, <2>4, <2>8, <2>10, <2>11 DEF UnderWay
  <2>13. ChannelStep
    <3>1. UNCHANGED <<sent, result, lost>> \/ Channel!Return
      BY <2>1, <2>6, <2>7 DEF Channel!Return
    <3> QED
      BY <3>1 DEF ChannelStep, Channel!channelVars, Channel!ChannelNext
  <2> QED
    BY <2>12, <2>13
<1>4. CASE PutByte /\ ~RingFull
  <2>1. /\ tx.at # "return" /\ Next1(uart_rx_buf_end) # uart_rx_buf_start
        /\ RxInterrupt(ByteOf(tx)) /\ tx' = After(tx) /\ UNCHANGED <<rxVars, sent, result, lost>>
    BY <1>4 DEF PutByte, RingFull
  <2>2. /\ Count' = Count + 1
        /\ Bytes' = [k \in 1..Count + 1 |-> IF k <= Count THEN Bytes[k] ELSE ByteOf(tx)]
    BY <1>0, <2>1, PutLast
  <2>3. PICK call2, pts2 :
          /\ Chain((Count + 1) + 1, call2, pts2, sent, After(tx))
          /\ \A k \in 1..Count + 1 : pts2[k] = pts[k]
    BY <1>0, <1>1, <2>1, ChainGrows
  <2>4. \A k \in 1..Count + 1 : Bytes'[k] = ByteOf(pts2[k])
    <3>1. pts[Count + 1] = tx
      BY <1>1 DEF Chain
    <3>2. \A k \in 1..Count + 1 : 
           (k <= Count /\ k \in 1..Count) \/ (k = Count + 1 /\ ~(k <= Count))
      BY <1>0
    <3> QED
      BY <1>1, <2>2, <2>3, <3>1, <3>2
  <2>5. RxKnows(pts2[1])'
    <3>1. pts2[1] = pts[1]
      BY <1>0, <2>3
    <3> QED
      BY <1>1, <2>1, <3>1 DEF RxKnows, HasStored, rxVars
  <2>6. UnderWay(call2, pts2)'
    BY <2>1, <2>2, <2>3, <2>4, <2>5 DEF UnderWay
  <2>7. ChannelStep
    BY <2>1 DEF ChannelStep, Channel!channelVars
  <2> QED
    BY <2>6, <2>7
<1>5. CASE Ongoing /\ (Overrun \/ (PutByte /\ RingFull) \/ (SlipRx /\ GetsByte /\ Invents))
  <2>1. CASE Overrun
    BY <1>0, <1>5, <2>1, LossIsAStep DEF Overrun
  <2>2. CASE PutByte /\ RingFull
    <3>1. MAX_RX_UART_BUF \in Nat \ {0}
      BY UartAssumption
    <3> QED
      BY <1>0, <1>5, <2>2, <3>1, LossIsAStep DEF PutByte
  <2>3. CASE SlipRx /\ GetsByte /\ Invents
    <3>1. Lose(TooMany)
      BY <2>3, InventsLoses
    <3> QED
      BY <1>0, <1>5, <3>1, LossIsAStep
  <2> QED
    BY <1>5, <2>1, <2>2, <2>3
<1>6. CASE \E f \in Frame : SlipTx(f)
  <2>1. PICK f \in Frame : SlipTx(f)
    BY <1>6
  <2>2. tx.at = "return" /\ tx' = Call(f) /\ UNCHANGED <<uartVars, rxVars, result, lost>>
    BY <2>1 DEF SlipTx
  <2>3. Len(sent) < MaxSent
    <3>1. Len(sent) <= (MAX_RX_UART_BUF + 4) \div 6
      BY <2>2, RoomForFrames
    <3>2. MAX_RX_UART_BUF \in Nat /\ MaxSent \in Nat
      BY UartAssumption, SlipAssumption
    <3>3. \A l, m, n \in Nat : l <= (m + 4) \div 6 /\ n > (m + 4) \div 6 => l < n
      OBVIOUS
    <3> QED
      BY <1>0, <3>1, <3>2, <3>3
  <2>4. sent' = Append(sent, f)
    <3>1. lost < TooMany
      BY SlipAssumption
    <3> QED
      BY <2>1, <2>3, <3>1 DEF SlipTx
  <2>5. PICK pts2 :
          /\ Chain(Count + 1, call, pts2, Append(sent, f), Call(f))
          /\ \A k \in 1..(Count + 1) - 1 : pts2[k] = pts[k]
          /\ pts2[Count + 1] = Call(f)
    <3>1. /\ tx.at = "return" /\ Chain(Count + 1, call, pts, sent, tx)
          /\ sent \in Seq(Frame) /\ f \in Frame
      BY <1>0, <1>1, <2>2
    <3> HIDE DEF Chain
    <3>2. PICK n : n = Count + 1
      OBVIOUS
    <3>3. PICK q : q = sent
      OBVIOUS
    <3>4. PICK x : x = tx
      OBVIOUS
    <3>5. x.at = "return" /\ Chain(n, call, pts, q, x) /\ q \in Seq(Frame)
      BY <3>1, <3>2, <3>3, <3>4
    <3>6. \E pts2 :
          /\ Chain(n, call, pts2, Append(q, f), Call(f))
          /\ \A k \in 1..n - 1 : pts2[k] = pts[k]
          /\ pts2[n] = Call(f)
      BY ONLY <3>5, ChainCalls, f \in Frame
    <3> QED
      BY <3>2, <3>3, <3>6, Zenon
  <2>6. Count' = Count /\ Bytes' = Bytes
    BY <2>2 DEF Count, Bytes, uartVars
  <2>7. \A k \in 1..Count : Bytes'[k] = ByteOf(pts2[k])
    <3>1. (Count + 1) - 1 = Count
      BY <1>0
    <3> QED
      BY <1>1, <2>5, <2>6, <3>1
  <2>8. RxKnows(pts2[1])'
    <3>1. CASE Count = 0
      <4>1. pts2[1] = Call(f) /\ pts[1].at = "return"
        <5>1. pts[Count + 1] = tx
          BY <1>1 DEF Chain
        <5> QED
          BY <2>2, <2>5, <3>1, <5>1
      <4>2. at \in {"first", "scan", "idle"}
        BY <1>0, <1>1, <4>1 DEF RxKnows, SlipTypeOK, Line
      <4>3. at' = at
        BY <2>2 DEF rxVars
      <4> QED
        BY <4>1, <4>2, <4>3, CallOK DEF RxKnows
    <3>2. CASE Count # 0
      <4>1. pts2[1] = pts[1]
        BY <1>0, <2>5, <3>2
      <4> QED
        BY <1>1, <2>2, <4>1 DEF RxKnows, HasStored, rxVars
    <3> QED
      BY <3>1, <3>2
  <2>9. UnderWay(call, pts2)'
    BY <2>2, <2>4, <2>5, <2>6, <2>7, <2>8 DEF UnderWay
  <2>10. ChannelStep
    <3>1. Channel!Send(f)
      BY <2>2, <2>4 DEF Channel!Send
    <3> QED
      BY <3>1 DEF ChannelStep, Channel!ChannelNext
  <2> QED
    BY <2>9, <2>10
<1>7. CASE Pass \/ UNCHANGED slipVars
  <2>1. UNCHANGED <<ringVars, tx, rxVars, sent, result, lost>>
    BY <1>7 DEF slipVars, Pass, WakeReader, uartVars, ringVars, history
  <2>2. Count' = Count /\ Bytes' = Bytes
    BY <2>1 DEF Count, Bytes, ringVars
  <2>3. RxKnows(pts[1])'
    BY <1>1, <2>1 DEF RxKnows, HasStored, rxVars
  <2>4. UnderWay(call, pts)'
    BY <1>1, <2>1, <2>2, <2>3 DEF UnderWay
  <2>5. ChannelStep
    BY <2>1 DEF ChannelStep, Channel!channelVars
  <2> QED
    BY <2>4, <2>5
<1>8. Hunt \/ GetSize \/ Payload \/ Escape \/ Escaped \/ EndOfFrame \/ Malformed => GetsByte
  BY DEF Hunt, GetSize, Payload, Escape, Escaped, EndOfFrame, Malformed, Reads
<1> QED
  BY <1>2, <1>3, <1>4, <1>5, <1>6, <1>7, <1>8 DEF SlipNext, SlipRx, Ended, Sender

\* Lost bytes are not forgotten.
LEMMA LostStays ==
  ASSUME SlipTypeOK, lost # 0, [SlipNext]_slipVars
  PROVE  lost' # 0
<1>0. lost \in Nat /\ MAX_RX_UART_BUF \in Nat \ {0} /\ TooMany \in Nat \ {0} /\ 1 \in Nat \ {0}
  BY SlipAssumption, UartAssumption DEF SlipTypeOK
<1>1. \/ UNCHANGED lost
      \/ Ongoing /\ (Lose(1) \/ Lose(MAX_RX_UART_BUF) \/ Lose(TooMany))
  BY DEF SlipNext, Ended, Sender, slipVars, history, SlipRx, Pass, PutByte, Overrun, SlipTx, Look,
         WaitForByte, GetEmpty, GetWait, Hunt, GetSize, Payload, Escape, Escaped, EndOfFrame,
         Malformed, Reads, SlipReturn
<1>2. CASE Ongoing /\ \E n \in Nat \ {0} : Lose(n)
  <2>1. lost' \in 0..MaxLost /\ lost' > lost
    BY <1>2, LossTyped
  <2> QED
    BY <1>0, <2>1
<1> QED
  BY <1>0, <1>1, <1>2

\* Nothing is under way at first.
LEMMA LineInit ==
  ASSUME SlipInit
  PROVE  LineInv
<1>1. TypeInv
  BY TypesInit
<1>3. PICK call : call = [k \in 1..1 |-> 1]
  OBVIOUS
<1>4. PICK pts : pts = [k \in 1..1 |-> Quiet]
  OBVIOUS
<1>5. Count = 0 /\ sent = <<>> /\ tx = Quiet /\ at = "first"
  BY DEF SlipInit, UartInit, Count
<1>6. Quiet \in Point /\ PointOK(Quiet) /\ Quiet.at = "return"
  BY DEF Quiet, Point, PointOK, NRK_ERROR, TxLine, Byte
<1>7. call[1] = 1 /\ pts[1] = Quiet /\ call \in [1..1 -> Nat \ {0}] /\ pts \in [1..1 -> Point]
  BY <1>3, <1>4, <1>6
<1>8. Chain(1, call, pts, <<>>, Quiet)
  <2>1. Len(<<>>) + (IF Quiet.at = "return" THEN 1 ELSE 0) = 1
    BY <1>6
  <2>2. Weight(1, Quiet) \in Nat
    BY <1>6, Weights
  <2>3. \A a \in 1..1 : a = 1
    OBVIOUS
  <2>4. Belongs(1, Quiet, <<>>)
    BY <1>6 DEF Belongs
  <2>5. 1 \in Nat \ {0} /\ 1..1 - 1 = {} /\ Weight(1, Quiet) <= Weight(1, Quiet) + (1 - 1)
    BY <2>2
  <2> QED
    BY <1>7, <2>1, <2>3, <2>4, <2>5 DEF Chain
<1>9. UnderWay(call, pts)
  <2>1. Count + 1 = 1 /\ 1..Count = {}
    BY <1>5
  <2>2. RxKnows(pts[1])
    BY <1>5, <1>6, <1>7 DEF RxKnows
  <2> QED
    BY <1>5, <1>8, <2>1, <2>2 DEF UnderWay
<1> QED
  BY <1>1, <1>9 DEF LineInv

\* Each step keeps the invariant, and is a step of the channel up to the first loss.
LEMMA LineStep ==
  ASSUME MaxSent > (MAX_RX_UART_BUF + 4) \div 6, FitsResult,
         LineInv, [SlipNext]_slipVars
  PROVE  LineInv' /\ (lost = 0 => ChannelStep)
<1>1. TypeInv /\ SlipTypeOK
  BY DEF LineInv, TypeInv
<1>2. TypeInv'
  BY <1>1, TypesNext
<1>3. CASE lost = 0
  <2>1. PICK call, pts : UnderWay(call, pts)
    BY <1>3 DEF LineInv
  <2>2. ChannelStep /\ (lost' = 0 => \E call2, pts2 : UnderWay(call2, pts2)')
    BY <1>1, <1>2, <1>3, <2>1, LineNext
  <2> QED
    BY <1>2, <2>2 DEF LineInv
<1>4. CASE lost # 0
  <2>1. lost' # 0
    BY <1>1, <1>4, LostStays
  <2> QED
    BY <1>2, <1>4, <2>1 DEF LineInv
<1> QED
  BY <1>3, <1>4

\* Frames of up to 127 bytes, whose length slip_rx can return, and a history that remembers
\* as many as can be under way: up to the first byte that is lost, overwritten in the ring
\* or read where there is none, every step of the two ends and the line is a step of the
\* channel, and the fault is one too.  Until then slip_rx returns each frame once, whole and
\* in order, for all frames and every size of the ring, whenever the bytes come and however
\* the two steps of its waits meet the signals.
THEOREM FramesArrive ==
  ASSUME MaxSent > (MAX_RX_UART_BUF + 4) \div 6, FitsResult
  PROVE  SlipSpec =>
           Channel!ChannelInit /\ [][lost = 0 => Channel!ChannelNext]_(Channel!channelVars)
<1>1. SlipInit => LineInv /\ Channel!ChannelInit
  BY LineInit DEF SlipInit, Channel!ChannelInit
<1>2. LineInv /\ [SlipNext]_slipVars =>
        LineInv' /\ [lost = 0 => Channel!ChannelNext]_(Channel!channelVars)
  BY LineStep DEF ChannelStep
<1> QED
  BY <1>1, <1>2, PTL DEF SlipSpec

\* Up to the first lost byte no more frames are under way than the ring has room for, of six
\* bytes each, with the one in the receiver's buffer: none is left behind by slip_rx.
THEOREM FramesUnderWay ==
  ASSUME MaxSent > (MAX_RX_UART_BUF + 4) \div 6, FitsResult
  PROVE  SlipSpec => [](lost = 0 => LossIsBounded)
<1>1. SlipInit => LineInv
  BY LineInit
<1>2. LineInv /\ [SlipNext]_slipVars => LineInv'
  BY LineStep
<1>3. LineInv => (lost = 0 => LossIsBounded)
  <2> SUFFICES ASSUME LineInv, lost = 0
               PROVE  LossIsBounded
    OBVIOUS
  <2>1. PICK call, pts : UnderWay(call, pts)
    BY DEF LineInv
  <2>2. TypeInv /\ MAX_RX_UART_BUF \in Nat /\ Len(sent) \in Nat
    BY UartAssumption DEF LineInv, TypeInv, SlipTypeOK
  <2>3. Len(sent) <= 1 + (MAX_RX_UART_BUF + 4) \div 6
    BY <2>1, <2>2, RoomForFrames
  <2>4. \A l, m \in Nat : l <= 1 + (m + 4) \div 6 => l <= 1 + (m + 4) \div 6 + 0
    OBVIOUS
  <2> QED
    BY <2>2, <2>3, <2>4 DEF LossIsBounded
<1> QED
  BY <1>1, <1>2, <1>3, PTL DEF SlipSpec

=============================================================================
