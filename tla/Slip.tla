-------------------------------- MODULE Slip --------------------------------
(***************************************************************************)
(* slip_tx at one end of a serial line and slip_rx at the other, byte by   *)
(* byte.  The receiver looks whether a byte is there and then waits for    *)
(* the signal of one: a byte that comes in between has signalled nobody,   *)
(* and one that comes between the two halves of nrk_event_wait lets a      *)
(* later wait return without a byte.                                       *)
(***************************************************************************)
EXTENDS Uart, Integers, SequencesExt

CONSTANTS
  Frame,        \* what slip_tx is called with
  max_len,      \* of the buffer slip_rx is called with
  TooMany,      \* lost bytes after which nothing is promised: see FrameChannel
  MaxLost,      \* bound: with so many lost bytes the model ends
  LineLost,     \* bound: with so many lost bytes the line loses none of its own
  MaxSent       \* frames the history remembers: a bound no run reaches

END == 192
START == 193
ESC == 219
ESC_END == 220
ESC_ESC == 221
NRK_ERROR == <<>>   \* instead of a frame

\* Every frame has a payload, at most what slip_tx accepts, and the receiver has
\* room for it.
ASSUME SlipAssumption ==
  /\ {max_len, LineLost, MaxSent} \subseteq Nat /\ TooMany \in Nat \ {0}
  /\ MaxLost \in Nat /\ TooMany <= MaxLost
  /\ \A f \in Frame : f \in Seq(Byte) /\ f # <<>> /\ Len(f) <= 128 /\ Len(f) <= max_len

\* Fault: an ESC in the payload goes as it is.
StuffedEnd(b) == b = END

\* A payload byte that could be taken for a mark goes as a pair.
Stuffed(b) == b \in {END, ESC}

\* Where a call of slip_tx is: at which put_byte, with how much of the payload done.
TxLine == {"flush", "start", "size", "payload", "pair", "checksum", "end", "return"}
Quiet == [buf |-> NRK_ERROR, at |-> "return", i |-> 0, checksum |-> 0]

\* Fault: no END to flush what the receiver has accumulated.
CallUnflushed(f) == [buf |-> f, at |-> "start", i |-> 0, checksum |-> 0]

Call(f) == [buf |-> f, at |-> "flush", i |-> 0, checksum |-> 0]

\* The byte the call x puts on the line next.
ByteOf(x) ==
  CASE x.at \in {"flush", "end"} -> END
    [] x.at = "start" -> START
    [] x.at = "size" -> Len(x.buf)
    [] x.at = "payload" -> IF Stuffed(x.buf[x.i + 1]) THEN ESC ELSE x.buf[x.i + 1]
    [] x.at = "pair" -> IF x.buf[x.i + 1] = END THEN ESC_END ELSE ESC_ESC
    [] x.at = "checksum" -> x.checksum % 128

\* The next turn of the loop over the payload, or its end.
NextPayload(x) ==
  [buf |-> x.buf, at |-> IF x.i + 1 < Len(x.buf) THEN "payload" ELSE "checksum",
   i |-> x.i + 1, checksum |-> (x.checksum + x.buf[x.i + 1]) % 256]

\* And where it goes on.
After(x) ==
  CASE x.at = "flush" -> [x EXCEPT !.at = "start"]
    [] x.at = "start" -> [x EXCEPT !.at = "size"]
    [] x.at = "size" -> [x EXCEPT !.at = "payload"]
    [] x.at = "payload" /\ Stuffed(x.buf[x.i + 1]) -> [x EXCEPT !.at = "pair"]
    [] x.at = "payload" /\ ~Stuffed(x.buf[x.i + 1]) -> NextPayload(x)
    [] x.at = "pair" -> NextPayload(x)
    [] x.at = "checksum" -> [x EXCEPT !.at = "end"]
    [] x.at = "end" -> Quiet

VARIABLES
  tx,                        \* the call of slip_tx under way
  at, step,                  \* line of slip_rx, and whether it looks, reads or waits
  c, size, checksum, buf,
  sent, result, lost         \* history: see FrameChannel

rxVars == <<at, step, c, size, checksum, buf>>
history == <<sent, result, lost>>
slipVars == <<uartVars, tx, rxVars, history>>

\* "first", "scan" and "idle" look for START; "body" and "esc" wait for payload.
Line == {"first", "scan", "idle", "size", "body", "more", "esc"}

\* It looks into the ring, waits, reads a byte, and getc0 may wait as well.
Step == {"look", "note", "wait", "get", "get_note", "get_wait", "take"}

\* The ring, the receiver's variables and its buffer stay within their types.
SlipTypeOK ==
  /\ UartTypeOK
  /\ tx \in [buf : Frame, at : TxLine, i : 0..128, checksum : Byte] \cup {Quiet}
  /\ at \in Line /\ step \in Step
  /\ {c, size} \subseteq Byte /\ checksum \in Byte
  /\ buf \in Seq(Byte) /\ Len(buf) <= max_len
  /\ lost \in 0..MaxLost /\ sent \in Seq(Frame) /\ result \in Seq(Byte)

SlipInit ==
  /\ UartInit
  /\ tx = Quiet
  /\ at = "first" /\ step = "look"
  /\ c = 0 /\ size = 0 /\ checksum = 0 /\ buf = <<>>
  /\ sent = <<>> /\ result = NRK_ERROR /\ lost = 0

-----------------------------------------------------------------------------
(* The sender.  put_byte waits for the line, so that one byte at a time is  *)
(* under way.                                                               *)

SlipTx(f) ==
  /\ tx.at = "return"
  /\ tx' = Call(f)
  /\ sent' = IF Len(sent) < MaxSent /\ lost < TooMany THEN Append(sent, f) ELSE sent
  /\ UNCHANGED <<uartVars, rxVars, result, lost>>

\* History: n more bytes are lost.  After too many what was sent is forgotten.
Lose(n) ==
  /\ lost' = IF lost + n < MaxLost THEN lost + n ELSE MaxLost
  /\ sent' = IF lost' < TooMany THEN sent ELSE <<>>

\* A byte comes into the ring.  Into a full one it comes all the same, and with it
\* the whole ring is lost.
PutByte ==
  /\ tx.at # "return"
  /\ RxInterrupt(ByteOf(tx)) /\ tx' = After(tx)
  /\ IF RingFull THEN Lose(MAX_RX_UART_BUF) ELSE UNCHANGED <<sent, lost>>
  /\ UNCHANGED <<rxVars, result>>

\* The receiver's hardware is overrun while interrupts are off.
Overrun ==
  /\ tx.at # "return" /\ lost < LineLost
  /\ tx' = After(tx) /\ Lose(1)
  /\ UNCHANGED <<uartVars, rxVars, result>>

-----------------------------------------------------------------------------
(* The receiver.                                                            *)

\* Where slip_rx goes on after it found a byte or none.
Found == [l \in Line |-> IF l = "first" THEN "scan" ELSE IF l = "body" THEN "more" ELSE l]
Missed == [l \in Line |-> IF l = "scan" THEN "idle" ELSE IF l = "more" THEN "body" ELSE l]

\* After "first" and "body" it looks again, elsewhere it reads.
Then(l) == IF l \in {"first", "body"} THEN "look" ELSE "get"

Runs == Queued(reader)

\* if or while (nrk_uart_data_ready (...))
Look ==
  /\ Runs /\ step = "look"
  /\ IF DataReady
     THEN at' = Found[at] /\ step' = Then(at)
     ELSE /\ at' = Missed[at]
          /\ step' = IF at \in {"scan", "more"} THEN "look" ELSE "note"
  /\ UNCHANGED <<uartVars, tx, c, size, checksum, buf, history>>

\* nrk_event_wait (SIG (my_uart_rx_signal)) notes the signal, and then waits.
WaitForByte ==
  /\ Runs
  /\ \/ step = "note" /\ NoteSignal /\ step' = "wait" /\ UNCHANGED at
     \/ step = "wait" /\ Park /\ at' = Found[at] /\ step' = Then(at)
  /\ UNCHANGED <<tx, c, size, checksum, buf, history>>

\* getc0 finds the ring empty.
GetEmpty ==
  /\ Runs /\ step = "get" /\ ~DataReady
  /\ step' = IF WaitsForSignal THEN "get_note" ELSE "take"
  /\ UNCHANGED <<uartVars, tx, at, c, size, checksum, buf, history>>

\* Its own wait.
GetWait ==
  /\ Runs
  /\ \/ step = "get_note" /\ NoteSignal /\ step' = "get_wait"
     \/ step = "get_wait" /\ Park /\ step' = "take"
  /\ UNCHANGED <<tx, at, c, size, checksum, buf, history>>

\* It reads without looking again whether there is a byte.
GetsByte ==
  /\ Runs /\ step \in {"get", "take"}
  /\ step = "get" => DataReady
  /\ TakeByte

\* History: past the end of the ring it reads what nobody sent, and whatever is put
\* into the ring from then on comes too late.
Invents == ~DataReady

Reads ==
  /\ GetsByte
  /\ IF Invents THEN Lose(TooMany) ELSE UNCHANGED <<sent, lost>>

GoTo(l, s) == at' = l /\ step' = s

\* Looking for the start of a frame.
Hunt ==
  /\ at \in {"scan", "idle"} /\ Reads
  /\ IF Received = START THEN GoTo("size", "get") ELSE GoTo("scan", "look")
  /\ UNCHANGED <<tx, c, size, checksum, buf, result>>

GetSize ==
  /\ at = "size" /\ Reads
  /\ size' = Received /\ checksum' = 0 /\ buf' = <<>>
  /\ GoTo("body", "look")
  /\ UNCHANGED <<tx, c, result>>

\* Fault: the length that was announced is not looked at.
StoreAny(b) ==
  /\ c' = b
  /\ buf' = Append(buf, b) /\ checksum' = (checksum + b) % 256
  /\ GoTo("more", "look")
  /\ UNCHANGED <<tx, size, result>>

\* default: a byte of the payload, or the checksum behind it.
Store(b) ==
  /\ c' = b
  /\ IF Len(buf) < max_len /\ Len(buf) < size
     THEN buf' = Append(buf, b) /\ checksum' = (checksum + b) % 256
     ELSE UNCHANGED <<buf, checksum>>
  /\ GoTo("more", "look")
  /\ UNCHANGED <<tx, size, result>>

Payload ==
  /\ at = "more" /\ Reads /\ Received \notin {END, ESC}
  /\ Store(Received)

Escape ==
  /\ at = "more" /\ Reads /\ Received = ESC
  /\ GoTo("esc", "look")
  /\ UNCHANGED <<tx, c, size, checksum, buf, result>>

Unstuffed == [b \in {ESC_END, ESC_ESC} |-> IF b = ESC_END THEN END ELSE ESC]

Escaped ==
  /\ at = "esc" /\ Reads /\ Received \in DOMAIN Unstuffed
  /\ Store(Unstuffed[Received])

\* History: what was sent after r.
Behind(r) ==
  IF r = NRK_ERROR \/ ~Contains(sent, r) THEN sent
  ELSE SubSeq(sent, SelectInSeq(sent, LAMBDA f : f = r) + 1, Len(sent))

\* slip_rx returns, its caller looks at the result and calls it again: new locals,
\* of which it reads none before it has written it.
SlipReturn(r) ==
  /\ result' = r
  /\ IF Invents THEN Lose(TooMany) ELSE sent' = Behind(r) /\ UNCHANGED lost
  /\ GoTo("first", "look")
  /\ c' = 0 /\ size' = 0 /\ checksum' = 0 /\ buf' = <<>>
  /\ UNCHANGED tx

\* The length slip_rx returns is an int8_t.  A negative one is no length.
AsInt8(n) == IF n < 128 THEN n ELSE n - 256

\* Fault: the checksum is not cut to the seven bits that slip_tx sends.
EndUnmasked ==
  /\ at = "more" /\ GetsByte /\ Received = END
  /\ SlipReturn(IF buf # <<>> /\ c = checksum THEN buf ELSE NRK_ERROR)

\* last_c is the byte before, the last one that was handled as payload.
EndOfFrame ==
  /\ at = "more" /\ GetsByte /\ Received = END
  /\ SlipReturn(IF AsInt8(Len(buf)) > 0 /\ c = checksum % 128 THEN buf ELSE NRK_ERROR)

Malformed ==
  /\ at = "esc" /\ GetsByte /\ Received \notin DOMAIN Unstuffed
  /\ SlipReturn(NRK_ERROR)

SlipRx ==
  \/ Look \/ WaitForByte \/ GetEmpty \/ GetWait
  \/ Hunt \/ GetSize \/ Payload \/ Escape \/ Escaped \/ EndOfFrame \/ Malformed

\* A pass.
Pass == WakeReader /\ UNCHANGED <<tx, rxVars, history>>

Sender == \E f \in Frame : SlipTx(f)

\* Bound: the end of the model, not of the program.
Ongoing == lost < MaxLost
Ended == ~Ongoing /\ UNCHANGED slipVars

SlipNext ==
  \/ Ongoing /\ (SlipRx \/ Pass \/ PutByte \/ Overrun \/ Sender)
  \/ Ended

\* The receiver runs, passes come, the line carries what is put on it, and the
\* sender sends again and again.
SlipFairness ==
  /\ WF_slipVars(Ongoing /\ SlipRx) /\ WF_slipVars(Ongoing /\ Pass)
  /\ WF_slipVars(Ongoing /\ PutByte) /\ WF_slipVars(Ongoing /\ Sender)

SlipSpec == SlipInit /\ [][SlipNext]_slipVars
SlipFairSpec == SlipSpec /\ SlipFairness

-----------------------------------------------------------------------------

Total(s) == FoldSeq(LAMBDA x, y : x + y, 0, s)

\* The checksum byte is the last byte of what was taken for a payload, and the
\* bytes before it add up to nothing in its seven bits.
Unnoticed(r) == r \in Seq(Byte) /\ r # <<>> /\ Total(Front(r)) % 128 = 0

Channel == INSTANCE FrameChannel WITH Error <- NRK_ERROR

\* While nothing is lost, frames come out of slip_rx as they went into slip_tx.  After
\* a lost byte slip_rx takes nothing for a frame that its checksum could have
\* refused, and returns none twice or behind a later one.
ImplementsChannel == Channel!ChannelSpec

\* A byte is lost, overwritten in the ring, or read where there is none.
Fault ==
  \/ Overrun
  \/ PutByte /\ RingFull
  \/ GetsByte /\ Invents

\* slip_rx finds the next frame again whatever was lost, whatever it made up and
\* however often it waited for a signal that had come: unless faults go on for ever,
\* or beyond the bound, it returns frames for ever.
FramesKeepComing ==
  \/ <>(~Ongoing)
  \/ []<><<Fault>>_slipVars
  \/ []<><<EndOfFrame /\ result' \in Frame>>_slipVars

\* No more frames are under way than the ring has room for, of six bytes each, with
\* the one that is being received; and a lost byte costs no more than the frame it
\* belongs to, a ring that is overrun no more than the frames of its bytes: the next
\* one starts with END and is found again.
LossIsBounded == Len(sent) <= 1 + (MAX_RX_UART_BUF + 4) \div 6 + lost

=============================================================================
