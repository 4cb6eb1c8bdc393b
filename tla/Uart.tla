-------------------------------- MODULE Uart --------------------------------
(***************************************************************************)
(* The buffered serial line of ulib.c: USART0_RX_vect writes what arrives  *)
(* into a ring and signals, getc0 reads it.  Two indices without a count:  *)
(* a writer that catches up with the reader makes the ring look empty, and *)
(* a reader that goes past the writer makes it look full.                  *)
(***************************************************************************)
EXTENDS EventWait

CONSTANTS
  MAX_RX_UART_BUF,
  QueueSlots,         \* nodes of the ready queue that the reading task can get
  WaitsForSignal      \* getc0 waits for SIG(uart_rx_signal), as on firefly3_usb,
                      \* and not for the number of the signal, as on firefly3

ASSUME UartAssumption ==
  /\ {MAX_RX_UART_BUF, QueueSlots} \subseteq Nat \ {0}
  /\ WaitsForSignal \in BOOLEAN

VARIABLES
  uart_rx_buf, uart_rx_buf_start, uart_rx_buf_end,
  reader              \* the task that reads: see EventWait

uartVars == <<uart_rx_buf, uart_rx_buf_start, uart_rx_buf_end, reader>>
ringVars == <<uart_rx_buf, uart_rx_buf_start, uart_rx_buf_end>>

uart_rx_signal == "uart_rx"

Byte == 0..255
Index == 0..MAX_RX_UART_BUF-1

UartTypeOK ==
  /\ uart_rx_buf \in [Index -> Byte]
  /\ {uart_rx_buf_start, uart_rx_buf_end} \subseteq Index
  /\ reader \in [task_state : TaskState, event : {NoEvent, uart_rx_signal},
                  nodes : 0..QueueSlots]

UartInit ==
  /\ uart_rx_buf = [i \in Index |-> 0]
  /\ uart_rx_buf_start = 0 /\ uart_rx_buf_end = 0
  /\ reader = Runnable

Next1(i) == IF i + 1 >= MAX_RX_UART_BUF THEN 0 ELSE i + 1

DataReady == uart_rx_buf_start # uart_rx_buf_end

\* One byte more, and the ring looks empty.
RingFull == Next1(uart_rx_buf_end) = uart_rx_buf_start

\* The handler stores the byte, full or not, and signals.
RxInterrupt(b) ==
  /\ uart_rx_buf' = [uart_rx_buf EXCEPT ![uart_rx_buf_end] = b]
  /\ uart_rx_buf_end' = Next1(uart_rx_buf_end)
  /\ reader' = Signalled(reader, uart_rx_signal)
  /\ UNCHANGED uart_rx_buf_start

\* nrk_event_wait, in two steps, and the pass that ends it.
NoteSignal == reader' = Noted(reader, uart_rx_signal) /\ UNCHANGED ringVars

Park == reader' = Parked(reader) /\ UNCHANGED ringVars

WakeReader ==
  /\ reader.task_state = "SUSPENDED"
  /\ reader' = Woken(reader, reader.nodes < QueueSlots)
  /\ UNCHANGED ringVars

Received == uart_rx_buf[uart_rx_buf_start]

TakeByte ==
  /\ uart_rx_buf_start' = Next1(uart_rx_buf_start)
  /\ UNCHANGED <<uart_rx_buf, uart_rx_buf_end, reader>>

=============================================================================
