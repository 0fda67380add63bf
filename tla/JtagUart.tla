------------------------------ MODULE JtagUart ------------------------------
(***************************************************************************)
(* The interrupt-driven JTAG UART driver (altera_avalon_jtag_uart_*.c,     *)
(* the fast driver without an operating system): one thread of calls to    *)
(* write, read, ioctl and close, the interrupt routine, the alarm that     *)
(* watches for the host, and the device with the host behind it.           *)
(*                                                                         *)
(* The thread and the interrupt routine share two circular buffers.  Every *)
(* read or write of an index they share is a step of its own; a character  *)
(* is the position it has in its stream, so 0, 1, 2, ... is the stream.    *)
(***************************************************************************)
EXTENDS Integers

CONSTANTS
  BUF_LEN,           \* ALTERA_AVALON_JTAG_UART_BUF_LEN
  WRITE_DEPTH,       \* characters in the device's write FIFO
  WRITE_THRESHOLD,   \* the device asks for more at this many or fewer
  READ_DEPTH,        \* characters in the device's read FIFO
  DEFAULT_TIMEOUT,   \* ALTERA_AVALON_JTAG_UART_DEFAULT_TIMEOUT
  INT_MAX,
  Timeouts,          \* arguments of TIOCSTIMEOUT
  MAX_CALL,          \* bound: characters in one call of write or read
  WRITE_LIMIT,       \* bound: characters written
  TYPE_LIMIT,        \* bound: characters typed
  Calls              \* bound: the calls the thread makes

ASSUME UartAssumption ==
  /\ BUF_LEN \in Nat /\ BUF_LEN > 1
  /\ WRITE_DEPTH \in Nat /\ WRITE_THRESHOLD \in Nat /\ WRITE_THRESHOLD < WRITE_DEPTH
  /\ READ_DEPTH \in Nat \ {0}
  /\ INT_MAX \in Nat /\ DEFAULT_TIMEOUT \in 2 .. INT_MAX - 2
  /\ Timeouts \subseteq Nat
  /\ MAX_CALL \in Nat /\ WRITE_LIMIT \in Nat /\ TYPE_LIMIT \in Nat
  /\ Calls \subseteq {"write", "read", "ioctl", "close"}

VARIABLES
  tx_in, tx_out, tx_buf, rx_in, rx_out, rx_buf,   \* the two circular buffers
  irq_enable,       \* the copy of the control register: subset of {"RE", "WE"}
  host_inactive, timeout,
  pc,               \* where the thread is
  count,            \* characters the call has still to write or read
  done,             \* ptr - start, ptr - buffer
  nonblock,         \* flags & O_NONBLOCK
  seen, n,          \* the call's locals: the other side's index, characters to copy
  ret,              \* how the last call ended
  ipc,              \* where the interrupt routine is
  wi, space,    \* its copy of the control register
  avail,            \* RAVAIL of the last character it read
  wfifo, rfifo,     \* device: characters in its FIFOs
  ac,               \* device: the host has polled since the bit was cleared
  connected,        \* the host is there
  sent,             \* history: characters moved to the write FIFO
  accepted,         \* history: characters put into tx_buf
  typed,            \* history: characters the host put into the read FIFO
  delivered,        \* history: characters copied to a caller of read
  intact            \* history: every character moved was the next of its stream

tx == <<tx_in, tx_out, tx_buf>>
rx == <<rx_in, rx_out, rx_buf>>
alarm == <<host_inactive, timeout>>
call == <<count, done, nonblock, seen, n>>
isr == <<ipc, wi, space, avail>>
device == <<wfifo, rfifo, ac, connected>>
streams == <<sent, accepted, typed, delivered, intact>>
vars == <<tx, rx, irq_enable, alarm, pc, call, ret, isr, device, streams>>

Slots == 0 .. BUF_LEN - 1

Used(in, out) == IF in >= out THEN in - out ELSE in + BUF_LEN - out

Least(a, b) == IF a < b THEN a ELSE b

\* The state altera_avalon_jtag_uart_init leaves; alt_alarm_start may fail.
Init ==
  /\ tx_in = 0 /\ tx_out = 0 /\ tx_buf = [s \in Slots |-> 0]
  /\ rx_in = 0 /\ rx_out = 0 /\ rx_buf = [s \in Slots |-> 0]
  /\ irq_enable = {"RE"}
  /\ host_inactive = 0 /\ timeout \in {DEFAULT_TIMEOUT, INT_MAX}
  /\ pc = "idle" /\ count = 0 /\ done = 0 /\ nonblock = FALSE /\ seen = 0 /\ n = 0
  /\ ret = "none"
  /\ ipc = "off" /\ wi = FALSE /\ space = 0 /\ avail = FALSE
  /\ wfifo = 0 /\ rfifo = 0 /\ ac = FALSE /\ connected = TRUE
  /\ sent = 0 /\ accepted = 0 /\ typed = 0 /\ delivered = 0 /\ intact = TRUE

-----------------------------------------------------------------------------
(* altera_avalon_jtag_uart_write.  The thread runs when the interrupt      *)
(* routine does not.                                                       *)

At(label) == pc = label /\ ipc = "off"

WriteCall ==
  /\ At("idle") /\ "write" \in Calls
  /\ \E c \in 1 .. Least(MAX_CALL, WRITE_LIMIT - accepted), nb \in BOOLEAN :
       count' = c /\ nonblock' = nb
  /\ pc' = "w_space" /\ ret' = "none"
  /\ UNCHANGED <<tx, rx, irq_enable, alarm, done, seen, n, isr, device, streams>>

\* A bug to detect: no slot kept free when tx_out is 0.
ContiguousToEnd(in, out) == IF in < out THEN out - 1 - in ELSE BUF_LEN - in

\* Space up to the end of tx_buf, one slot kept free.
Contiguous(in, out) ==
  IF in < out THEN out - 1 - in
  ELSE IF out > 0 THEN BUF_LEN - in ELSE BUF_LEN - 1 - in

\* The inner loop's test and its reading of tx_out.
WriteSpace ==
  /\ At("w_space")
  /\ IF count = 0
       THEN pc' = "w_kick" /\ UNCHANGED <<seen, n>>
       ELSE /\ seen' = tx_out
            /\ n' = Least(Contiguous(tx_in, tx_out), count)
            /\ pc' = IF n' = 0 THEN "w_kick" ELSE "w_copy"
  /\ UNCHANGED <<tx, rx, irq_enable, alarm, count, done, nonblock, ret, isr, device, streams>>

\* memcpy
WriteCopy ==
  /\ At("w_copy")
  /\ tx_buf' = [s \in Slots |-> IF s \in tx_in .. tx_in + n - 1
                                  THEN accepted + (s - tx_in) ELSE tx_buf[s]]
  /\ pc' = "w_publish"
  /\ UNCHANGED <<tx_in, tx_out, rx, irq_enable, alarm, call, ret, isr, device, streams>>

WritePublish ==
  /\ At("w_publish")
  /\ tx_in' = (tx_in + n) % BUF_LEN
  /\ accepted' = accepted + n
  /\ count' = count - n /\ done' = done + n
  /\ pc' = "w_space"
  /\ UNCHANGED <<tx_out, tx_buf, rx, irq_enable, alarm, nonblock, seen, n, ret, isr,
                 device, sent, typed, delivered, intact>>

\* Interrupts are disabled around the update of irq_enable: one step.
WriteKick ==
  /\ At("w_kick")
  /\ irq_enable' = irq_enable \union {"WE"}
  /\ pc' = IF count > 0 /\ ~nonblock THEN "w_spin" ELSE "w_return"
  /\ UNCHANGED <<tx, rx, alarm, call, ret, isr, device, streams>>

\* A bug to detect: the wait has no timeout.
SpinForever ==
  /\ At("w_spin") /\ seen # tx_out
  /\ pc' = "w_check"
  /\ UNCHANGED <<tx, rx, irq_enable, alarm, call, ret, isr, device, streams>>

WriteSpin ==
  /\ At("w_spin")
  /\ seen # tx_out \/ host_inactive >= timeout
  /\ pc' = "w_check"
  /\ UNCHANGED <<tx, rx, irq_enable, alarm, call, ret, isr, device, streams>>

WriteCheck ==
  /\ At("w_check")
  /\ pc' = IF host_inactive # 0 THEN "w_return" ELSE "w_space"
  /\ UNCHANGED <<tx, rx, irq_enable, alarm, call, ret, isr, device, streams>>

\* The locals of a call mean nothing between calls.
Leave ==
  /\ count' = 0 /\ done' = 0 /\ nonblock' = FALSE /\ seen' = 0 /\ n' = 0
  /\ pc' = "idle"

Result == IF done > 0 THEN "ok" ELSE IF nonblock THEN "EWOULDBLOCK" ELSE "EIO"

WriteReturn ==
  /\ At("w_return")
  /\ ret' = Result
  /\ Leave
  /\ UNCHANGED <<tx, rx, irq_enable, alarm, isr, device, streams>>

-----------------------------------------------------------------------------
(* altera_avalon_jtag_uart_read                                            *)

ReadCall ==
  /\ At("idle") /\ "read" \in Calls
  /\ \E c \in 1 .. MAX_CALL, nb \in BOOLEAN : count' = c /\ nonblock' = nb
  /\ pc' = "r_avail" /\ ret' = "none"
  /\ UNCHANGED <<tx, rx, irq_enable, alarm, done, seen, n, isr, device, streams>>

\* Characters up to the end of rx_buf.
Available(in, out) == IF in >= out THEN in - out ELSE BUF_LEN - out

ReadAvail ==
  /\ At("r_avail")
  /\ seen' = rx_in
  /\ n' = Least(Available(rx_in, rx_out), count)
  /\ pc' = IF n' > 0 THEN "r_copy"
           ELSE IF done > 0 THEN "r_enable"
           ELSE IF nonblock THEN "r_return" ELSE "r_spin"
  /\ UNCHANGED <<tx, rx, irq_enable, alarm, count, done, nonblock, ret, isr, device, streams>>

\* memcpy
ReadCopy ==
  /\ At("r_copy")
  /\ intact' = (intact /\ \A j \in 0 .. n - 1 : rx_buf[rx_out + j] = delivered + j)
  /\ delivered' = delivered + n
  /\ count' = count - n /\ done' = done + n
  /\ pc' = "r_publish"
  /\ UNCHANGED <<tx, rx, irq_enable, alarm, nonblock, seen, n, ret, isr, device,
                 sent, accepted, typed>>

ReadPublish ==
  /\ At("r_publish")
  /\ rx_out' = (rx_out + n) % BUF_LEN
  /\ pc' = IF count > 0 THEN "r_avail" ELSE "r_enable"
  /\ UNCHANGED <<tx, rx_in, rx_buf, irq_enable, alarm, call, ret, isr, device, streams>>

ReadSpin ==
  /\ At("r_spin")
  /\ seen # rx_in \/ host_inactive >= timeout
  /\ pc' = "r_check"
  /\ UNCHANGED <<tx, rx, irq_enable, alarm, call, ret, isr, device, streams>>

ReadCheck ==
  /\ At("r_check")
  /\ pc' = IF seen = rx_in THEN "r_return" ELSE "r_avail"
  /\ UNCHANGED <<tx, rx, irq_enable, alarm, call, ret, isr, device, streams>>

\* A bug to detect: irq_enable is assigned, not or-ed into.
EnableOverwrites ==
  /\ At("r_enable")
  /\ irq_enable' = {"RE"}
  /\ pc' = "r_return"
  /\ UNCHANGED <<tx, rx, alarm, call, ret, isr, device, streams>>

\* Something was read, so there is room: interrupts are disabled around it.
ReadEnable ==
  /\ At("r_enable")
  /\ irq_enable' = irq_enable \union {"RE"}
  /\ pc' = "r_return"
  /\ UNCHANGED <<tx, rx, alarm, call, ret, isr, device, streams>>

ReadReturn ==
  /\ At("r_return")
  /\ ret' = Result
  /\ Leave
  /\ UNCHANGED <<tx, rx, irq_enable, alarm, isr, device, streams>>

-----------------------------------------------------------------------------
(* altera_avalon_jtag_uart_ioctl (TIOCSTIMEOUT; TIOCGCONNECTED changes     *)
(* nothing) and altera_avalon_jtag_uart_close.                             *)

SetTimeout ==
  /\ At("idle") /\ "ioctl" \in Calls
  /\ timeout # INT_MAX
  /\ \E t \in Timeouts : timeout' = IF t >= 2 /\ t < INT_MAX THEN t ELSE INT_MAX - 1
  /\ UNCHANGED <<tx, rx, irq_enable, host_inactive, pc, call, ret, isr, device, streams>>

CloseCall ==
  /\ At("idle") /\ "close" \in Calls
  /\ nonblock' \in BOOLEAN
  /\ pc' = "c_wait" /\ ret' = "none"
  /\ UNCHANGED <<tx, rx, irq_enable, alarm, count, done, seen, n, isr, device, streams>>

CloseReturn ==
  /\ At("c_wait")
  /\ LET drained == tx_out = tx_in \/ host_inactive >= timeout
     IN  /\ drained \/ nonblock
         /\ ret' = IF drained THEN "ok" ELSE "EWOULDBLOCK"
  /\ Leave
  /\ UNCHANGED <<tx, rx, irq_enable, alarm, isr, device, streams>>

-----------------------------------------------------------------------------
(* The device: the interrupt conditions of its control register.           *)

ReadIrq == "RE" \in irq_enable /\ rfifo > 0
WriteIrq == "WE" \in irq_enable /\ wfifo <= WRITE_THRESHOLD

-----------------------------------------------------------------------------
(* altera_avalon_jtag_uart_irq                                             *)

IsrEnter ==
  /\ ipc = "off" /\ (ReadIrq \/ WriteIrq)
  /\ ipc' = "control"
  /\ UNCHANGED <<tx, rx, irq_enable, alarm, pc, call, ret, wi, space, avail, device, streams>>

\* One reading of the control register, at the head of the endless loop.
IsrControl ==
  /\ ipc = "control"
  /\ wi' = WriteIrq /\ space' = IF WriteIrq THEN WRITE_DEPTH - wfifo ELSE 0
  /\ avail' = ReadIrq
  /\ ipc' = IF ReadIrq THEN "rx" ELSE IF WriteIrq THEN "tx" ELSE "off"
  /\ UNCHANGED <<tx, rx, irq_enable, alarm, pc, call, ret, device, streams>>

\* A bug to detect: the index is not wrapped before it is compared.
FullUnwrapped == rx_in + 1 = rx_out

Full == (rx_in + 1) % BUF_LEN = rx_out

\* A character moves from the read FIFO to rx_buf.
IsrReceive ==
  /\ ipc = "rx" /\ ~Full /\ rfifo > 0
  /\ rx_buf' = [rx_buf EXCEPT ![rx_in] = typed - rfifo]
  /\ rx_in' = (rx_in + 1) % BUF_LEN
  /\ rfifo' = rfifo - 1
  /\ avail' = (rfifo > 1)
  /\ UNCHANGED <<tx, rx_out, irq_enable, alarm, pc, call, ret, ipc, wi, space,
                 wfifo, ac, connected, streams>>

\* A bug to detect: receive interrupts go off after every service.
ReceiveOnce ==
  /\ ipc = "rx" /\ (Full \/ rfifo = 0)
  /\ irq_enable' = irq_enable \ {"RE"}
  /\ ipc' = IF wi THEN "tx" ELSE "control"
  /\ avail' = FALSE
  /\ UNCHANGED <<tx, rx, alarm, pc, call, ret, wi, space, device, streams>>

\* No room, or a reading with RVALID clear: if the last character read said
\* that there are more, the buffer is full and receive interrupts go off.
IsrReceiveEnds ==
  /\ ipc = "rx" /\ (Full \/ rfifo = 0)
  /\ LET more == Full /\ avail
     IN  irq_enable' = IF more THEN irq_enable \ {"RE"} ELSE irq_enable
  /\ ipc' = IF wi THEN "tx" ELSE "control"
  /\ avail' = FALSE
  /\ UNCHANGED <<tx, rx, alarm, pc, call, ret, wi, space, device, streams>>

\* A character moves from tx_buf to the write FIFO.
IsrTransmit ==
  /\ ipc = "tx" /\ space > 0 /\ tx_out # tx_in
  /\ intact' = (intact /\ tx_buf[tx_out] = sent)
  /\ sent' = sent + 1
  /\ tx_out' = (tx_out + 1) % BUF_LEN
  /\ wfifo' = wfifo + 1
  /\ space' = space - 1
  /\ UNCHANGED <<tx_in, tx_buf, rx, irq_enable, alarm, pc, call, ret, ipc, wi, avail,
                 rfifo, ac, connected, accepted, typed, delivered>>

\* A bug to detect: the transmit interrupt goes off with characters left.
TransmitOnce ==
  /\ ipc = "tx" /\ (space = 0 \/ tx_out = tx_in)
  /\ irq_enable' = irq_enable \ {"WE"}
  /\ ipc' = "control"
  /\ UNCHANGED <<tx, rx, alarm, pc, call, ret, wi, space, avail, device, streams>>

IsrTransmitEnds ==
  /\ ipc = "tx" /\ (space = 0 \/ tx_out = tx_in)
  /\ irq_enable' = IF space > 0 THEN irq_enable \ {"WE"} ELSE irq_enable
  /\ ipc' = "control"
  /\ UNCHANGED <<tx, rx, alarm, pc, call, ret, wi, space, avail, device, streams>>

-----------------------------------------------------------------------------
(* altera_avalon_jtag_uart_timeout, once a second in the timer's interrupt,*)
(* which does not preempt another.                                         *)

\* A bug to detect: the count of silent seconds has no limit.
TickUncapped ==
  /\ ipc = "off" /\ timeout # INT_MAX
  /\ \/ ac /\ ac' = FALSE /\ host_inactive' = 0
     \/ ~ac /\ host_inactive' = host_inactive + 1 /\ UNCHANGED ac
  /\ UNCHANGED <<tx, rx, irq_enable, timeout, pc, call, ret, isr, wfifo, rfifo, connected, streams>>

AlarmTick ==
  /\ ipc = "off" /\ timeout # INT_MAX
  /\ \/ ac /\ ac' = FALSE /\ host_inactive' = 0
     \/ /\ ~ac /\ host_inactive < INT_MAX - 2
        /\ host_inactive' = host_inactive + 1 /\ UNCHANGED ac
  /\ UNCHANGED <<tx, rx, irq_enable, timeout, pc, call, ret, isr, wfifo, rfifo, connected, streams>>

-----------------------------------------------------------------------------
(* The host: it polls the device, takes and types characters, and may go.  *)

HostPolls ==
  /\ connected /\ ~ac
  /\ ac' = TRUE
  /\ UNCHANGED <<tx, rx, irq_enable, alarm, pc, call, ret, isr, wfifo, rfifo, connected, streams>>

HostTakes ==
  /\ connected /\ wfifo > 0
  /\ wfifo' = wfifo - 1 /\ ac' = TRUE
  /\ UNCHANGED <<tx, rx, irq_enable, alarm, pc, call, ret, isr, rfifo, connected, streams>>

HostTypes ==
  /\ connected /\ rfifo < READ_DEPTH /\ typed < TYPE_LIMIT
  /\ rfifo' = rfifo + 1 /\ typed' = typed + 1 /\ ac' = TRUE
  /\ UNCHANGED <<tx, rx, irq_enable, alarm, pc, call, ret, isr, wfifo, connected,
                 sent, accepted, delivered, intact>>

HostLeaves ==
  /\ connected
  /\ connected' = FALSE
  /\ UNCHANGED <<tx, rx, irq_enable, alarm, pc, call, ret, isr, wfifo, rfifo, ac, streams>>

-----------------------------------------------------------------------------
Begin == WriteCall \/ ReadCall \/ SetTimeout \/ CloseCall
Continue ==
  \/ WriteSpace \/ WriteCopy \/ WritePublish \/ WriteKick \/ WriteSpin \/ WriteCheck \/ WriteReturn
  \/ ReadAvail \/ ReadCopy \/ ReadPublish \/ ReadSpin \/ ReadCheck \/ ReadEnable \/ ReadReturn
  \/ CloseReturn
Isr == IsrEnter \/ IsrControl \/ IsrReceive \/ IsrReceiveEnds \/ IsrTransmit \/ IsrTransmitEnds
Host == HostPolls \/ HostTakes \/ HostTypes \/ HostLeaves

Next == Begin \/ Continue \/ Isr \/ AlarmTick \/ Host

Spec == Init /\ [][Next]_vars

\* The processor runs the interrupt routine and the thread, the timer ticks,
\* and a host that stays takes the characters offered to it.
FairSpec ==
  /\ Spec
  /\ WF_vars(Continue) /\ WF_vars(Isr) /\ WF_vars(AlarmTick) /\ WF_vars(HostTakes)

-----------------------------------------------------------------------------
(* Properties                                                              *)

PCs == {"idle", "w_space", "w_copy", "w_publish", "w_kick", "w_spin", "w_check", "w_return",
        "r_avail", "r_copy", "r_publish", "r_spin", "r_check", "r_enable", "r_return", "c_wait"}

BufferTypes ==
  /\ tx_in \in Slots /\ tx_out \in Slots /\ tx_buf \in [Slots -> Nat]
  /\ rx_in \in Slots /\ rx_out \in Slots /\ rx_buf \in [Slots -> Nat]

CallTypes ==
  /\ pc \in PCs /\ count \in Nat /\ done \in Nat /\ nonblock \in BOOLEAN
  /\ seen \in Slots /\ n \in Nat
  /\ ret \in {"none", "ok", "EWOULDBLOCK", "EIO"}

DeviceTypes ==
  /\ irq_enable \subseteq {"RE", "WE"}
  /\ host_inactive \in 0 .. INT_MAX - 2 /\ timeout \in 2 .. INT_MAX
  /\ ipc \in {"off", "control", "rx", "tx"}
  /\ wi \in BOOLEAN /\ space \in 0 .. WRITE_DEPTH /\ avail \in BOOLEAN
  /\ wfifo \in 0 .. WRITE_DEPTH /\ rfifo \in 0 .. READ_DEPTH
  /\ ac \in BOOLEAN /\ connected \in BOOLEAN

StreamTypes ==
  /\ sent \in Nat /\ accepted \in Nat /\ typed \in Nat /\ delivered \in Nat
  /\ intact \in BOOLEAN

\* Every variable has its type and the device's FIFOs stay within their depth,
\* so the interrupt routine never writes a character the device cannot take.
TypeOK == BufferTypes /\ CallTypes /\ DeviceTypes /\ StreamTypes

\* In both directions every character is moved once and in order, whatever
\* the interrupt routine does between two steps of a call.
StreamsIntact == intact

\* Characters waiting in tx_buf have their interrupt enabled, unless the call
\* that put them there is on its way to enable it.
WriteIrqArmed ==
  tx_in # tx_out /\ pc \notin {"w_space", "w_copy", "w_publish", "w_kick"} =>
    "WE" \in irq_enable

\* Receive interrupts are off only while there is something to read, or while
\* the call that read it is on its way to enable them.
ReadIrqArmed ==
  "RE" \notin irq_enable =>
    rx_in # rx_out \/ (done > 0 /\ pc \in {"r_avail", "r_enable"})

\* Neither direction is ever left with its interrupt off and work to do, although
\* the thread and the routine both change the enables.
IrqArmed == WriteIrqArmed /\ ReadIrqArmed

\* A call of write returns: the host takes characters, or goes and times out.
\* (With the longest timeout a host that went is waited for for ever.)
WriteReturns == pc = "w_spin" ~> (pc = "idle" \/ (~connected /\ timeout >= INT_MAX - 1))

\* What write accepted reaches the device, unless the host goes.
AcceptedIsSent ==
  \A k \in 0 .. WRITE_LIMIT - 1 : accepted > k ~> (sent > k \/ ~connected)

\* What the host types reaches rx_buf, unless nobody reads and it fills.
TypedIsReceived ==
  \A k \in 0 .. TYPE_LIMIT - 1 : typed > k ~> (typed - rfifo > k \/ Full)

-----------------------------------------------------------------------------
(* What the two buffers promise: each is a pipe of BUF_LEN - 1 characters. *)

\* The characters in tx_buf, by their position in the stream.
TxQueue == [i \in sent .. accepted - 1 |-> tx_buf[(tx_out + (i - sent)) % BUF_LEN]]

\* Characters taken from rx_buf: a copy counts when rx_out has moved.
Taken == delivered - IF pc = "r_publish" THEN n ELSE 0

RxQueue == [i \in Taken .. typed - rfifo - 1 |-> rx_buf[(rx_out + (i - Taken)) % BUF_LEN]]

TxPipe == INSTANCE Pipe WITH
  CAPACITY <- BUF_LEN - 1, put <- accepted, got <- sent, queue <- TxQueue

RxPipe == INSTANCE Pipe WITH
  CAPACITY <- BUF_LEN - 1, put <- typed - rfifo, got <- Taken, queue <- RxQueue

\* Whatever the thread and the interrupt routine do between each other's
\* steps, the slots from tx_out to tx_in behave as one first-in first-out pipe.
TxIsPipe == TxPipe!Spec

\* The same for the slots from rx_out to rx_in.
RxIsPipe == RxPipe!Spec
=============================================================================
