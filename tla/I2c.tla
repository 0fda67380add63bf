---------------------------------- MODULE I2c ----------------------------------
(***************************************************************************)
(* altera_avalon_i2c.c: calls of master_tx, master_rx and master_tx_rx,    *)
(* polled or with the optional interrupt handler, and of                   *)
(* interrupt_transaction_status, against the core, which executes the      *)
(* commands of its FIFO one after the other.  The waits of the driver are  *)
(* counted: on a slow bus any of them may run out before what it waits for *)
(* has happened, and the driver then disables a core that is busy.         *)
(*                                                                         *)
(* The bytes to write are 1, 2, ..., and the target answers 1, 2, ...      *)
(***************************************************************************)
EXTENDS Integers, Sequences

CONSTANTS
  FIFO_DEPTH,    \* I2C_0_FIFO_DEPTH: commands, and received bytes, in the FIFOs
  RETRIES,       \* times a call is tried again (9999)
  MAX_SIZE,      \* bound: bytes written, and bytes read, by a call
  MAX_SLOW,      \* bound: the same on a slow bus
  MAX_BOTH,      \* bound: bytes written and read together
  MAX_CALLS      \* bound: calls

ASSUME I2cAssumption ==
  /\ FIFO_DEPTH \in Nat \ {0} /\ RETRIES \in Nat
  /\ MAX_SIZE \in Nat \ {0} /\ MAX_CALLS \in Nat
  /\ MAX_SLOW \in Nat /\ MAX_BOTH \in Nat

VARIABLES
  bus,               \* good, or the target refuses, other masters share it, it is slow
  wide,              \* address_mode: addresses have 10 bits
  registered,        \* the optional handler is the device's callback
  calls, op,         \* calls made; the one running, or the last
  pc, retry, leg,    \* the call's place, tries left, the transfer it is at
  queued,            \* commands of the transfer written
  buf,               \* bytes put into the caller's buffer
  status, ret,       \* the transfer's status, the last call's
  saved,             \* saveints of interrupt_transaction_status
  irq_busy, job,     \* IRQ_DATA_t, and the call it belongs to
  ipc,               \* where the interrupt routine is
  en, iser, thd,     \* core: enabled, interrupts enabled, FIFO thresholds
  cmds, cur, phase,  \* core: command FIFO, the command on the bus, the bus
  rxq,               \* core: receive FIFO
  NACK, ARB,         \* core: status bits
  target,            \* history: what the target did since the last START
  late               \* history: a wait ran out never, in this try of a call, or before it

setup == <<bus, wide, registered>>
config == <<setup, late>>
call == <<op, leg, ret, calls>>
irq == <<irq_busy, job>>
flags == <<NACK, ARB>>
bits == <<en, iser, thd>>
line == <<cmds, cur, phase, target>>
vars == <<bus, wide, registered, calls, op, pc, retry, leg, queued, buf, status, ret, saved,
          irq_busy, job, ipc, en, iser, thd, cmds, cur, phase, rxq, NACK, ARB, target,
         late>>

None == [kind |-> "none", tx |-> 0, rx |-> 0, irq |-> FALSE]

\* Bound: a call has something to transfer, and tx_rx something to write.
Requests ==
  [kind : {"tx"}, tx : 1 .. MAX_SIZE, rx : {0}, irq : BOOLEAN]
    \union [kind : {"rx"}, tx : {0}, rx : 1 .. MAX_SIZE, irq : BOOLEAN]
    \union [kind : {"tx_rx"}, tx : 1 .. MAX_SIZE, rx : 0 .. MAX_SIZE, irq : BOOLEAN]

Status == [kind |-> "status", tx |-> 0, rx |-> 0, irq |-> FALSE]

\* The address with the bit for writing or reading; other values are data.
W == -1
R == -2

Commands == [val : -2 .. MAX_SIZE, sta : BOOLEAN, sto : BOOLEAN]

\* The state alt_avalon_i2c_init leaves.
Init ==
  /\ bus \in {"good", "refuses", "shares", "slow"} /\ wide \in BOOLEAN /\ registered = FALSE
  /\ calls = 0 /\ op = None /\ pc = "idle" /\ retry = 0 /\ leg = "write"
  /\ queued = 0 /\ buf = <<>> /\ status = "SUCCESS" /\ ret = "none" /\ saved = {}
  /\ irq_busy = 0 /\ job = None /\ ipc = "off"
  /\ en = FALSE /\ iser = {} /\ thd = [cmd |-> "not full", rx |-> FIFO_DEPTH]
  /\ cmds = <<>> /\ cur = <<>> /\ phase = "idle" /\ rxq = <<>>
  /\ NACK = FALSE /\ ARB = FALSE
  /\ target = [wrote |-> <<>>, answered |-> 0, stopped |-> FALSE]
  /\ late = "never"

-----------------------------------------------------------------------------
(* The core's registers, as the driver reads and writes them               *)

is_busy == phase # "idle" \/ cur # <<>> \/ cmds # <<>>

TX_READY == en /\ IF thd.cmd = "empty" THEN cmds = <<>> ELSE Len(cmds) < FIFO_DEPTH
RX_READY == Len(rxq) >= thd.rx

int_raw_status ==
  {i \in {"TX", "RX"} : IF i = "TX" THEN TX_READY ELSE RX_READY}

int_status == int_raw_status \intersect iser

int_clear == NACK' = FALSE /\ ARB' = FALSE

int_enable(mask) == iser' = iser \union mask

int_disable(mask) == iser' = iser \ mask

check_nack(s) == IF NACK THEN "NACK_ERR" ELSE s

check_arblost(s) == IF ARB THEN "ARB_LOST_ERR" ELSE s

AtRest == cur = <<>> /\ cmds = <<>>

\* A counted wait runs out.
RunOut(when) == bus = "slow" /\ late' = IF late = "never" THEN when ELSE late

-----------------------------------------------------------------------------
(* Steps of the transfers.  A step of a call waits for the interrupt       *)
(* routine to be off.                                                      *)

At(label) == pc = label /\ ipc = "off"

Size == IF leg = "write" THEN op.tx ELSE op.rx
restart == op.kind = "tx_rx" /\ leg = "read"
stop == op.kind = "tx_rx" => leg = "read"

\* Commands of the address, and of the transfer.
Address10 == IF wide THEN 2 ELSE 1
Total == Address10 + Size

End(result) ==
  /\ At("begin")
  /\ status' = result /\ pc' = "end"
  /\ UNCHANGED <<config, call, retry, queued, buf, saved, irq, ipc, bits, line, rxq, flags>>

\* Nothing to transfer.
Nothing == Size = 0 /\ End("SUCCESS")

\* The optional handler is not registered.
BadArg == Size > 0 /\ ~registered /\ End("BAD_ARG")

\* The core was left enabled: somebody else's transaction goes on.
Busy == Size > 0 /\ ~restart /\ en /\ End("BUSY")

\* alt_avalon_i2c_enable, and the status bits are cleared.
enable ==
  /\ At("begin") /\ Size > 0 /\ ~restart /\ ~en
  /\ en' = TRUE
  /\ irq_busy' = IF registered THEN 0 ELSE irq_busy
  /\ job' = None
  /\ int_clear
  /\ queued' = 0 /\ buf' = <<>> /\ pc' = "send"
  /\ UNCHANGED <<config, call, retry, status, saved, ipc, iser, thd, line, rxq>>

\* A RESTART follows a transfer without a STOP.
Resume ==
  /\ At("begin") /\ Size > 0 /\ restart
  /\ queued' = 0 /\ pc' = "send"
  /\ UNCHANGED <<config, call, retry, buf, status, saved, irq, ipc, bits, line, rxq, flags>>

Begin == Nothing \/ Busy \/ enable \/ Resume

BeginIrq == Nothing \/ BadArg \/ (registered /\ (Busy \/ enable \/ Resume))

\* The command that begins a transfer: the address, of two commands if it has 10 bits.
send_address ==
  [val |-> IF leg = "write" THEN W ELSE R, sta |-> restart /\ queued = 0, sto |-> FALSE]

\* The next command: after the address the bytes to write, or as many reads.
Command ==
  IF queued < Address10 THEN send_address
  ELSE [val |-> IF leg = "write" THEN queued - Address10 + 1 ELSE 0,
        sta |-> FALSE, sto |-> queued = Total - 1 /\ stop]

Queue ==
  /\ cmds' = Append(cmds, Command)
  /\ queued' = queued + 1 /\ pc' = "check"
  /\ UNCHANGED <<config, call, retry, buf, status, saved, irq, ipc, bits, cur, phase, target,
                 rxq, flags>>

\* A bug to detect: the command FIFO is not looked at.
WriteBlind == At("send") /\ en /\ Queue

\* alt_avalon_i2c_cmd_write: the FIFO is written when it has room, ...
cmd_write == At("send") /\ TX_READY /\ Queue

\* ... unless the wait for room runs out.  That of the first command of a 10-bit
\* address is forgotten, and the second is written.
SendTimeout ==
  /\ At("send") /\ ~TX_READY /\ RunOut("now")
  /\ IF queued + 1 < Address10 THEN queued' = queued + 1 /\ UNCHANGED <<pc, status>>
     ELSE status' = "TIMEOUT" /\ pc' = "wait" /\ UNCHANGED queued
  /\ UNCHANGED <<setup, call, retry, buf, saved, irq, ipc, bits, line, rxq, flags>>

\* After a command the two errors are looked for.  Those found after the first
\* command of a 10-bit address are forgotten.
Check(more, last) ==
  /\ At("check")
  /\ status' = check_arblost(check_nack("SUCCESS"))
  /\ pc' = IF queued < Address10 THEN "send"
           ELSE IF status' # "SUCCESS" THEN "wait" ELSE IF queued < Total THEN more ELSE last
  /\ UNCHANGED <<config, call, retry, queued, buf, saved, irq, ipc, bits, line, rxq, flags>>

\* A bug to detect: the caller is not told that the wait has run out.
AwaitSilently ==
  /\ At("wait") /\ pc' = "disable"
  /\ IF is_busy THEN RunOut("now") ELSE UNCHANGED late
  /\ UNCHANGED <<setup, call, retry, queued, buf, status, saved, irq, ipc, bits, line, rxq,
                 flags>>

\* The end of a polled transfer, or of one that failed: wait until the core is
\* idle or the count has run out, ...
AwaitIdle ==
  /\ At("wait") /\ pc' = "disable"
  /\ IF is_busy THEN RunOut("now") /\ status' = "TIMEOUT" ELSE UNCHANGED <<late, status>>
  /\ UNCHANGED <<setup, call, retry, queued, buf, saved, irq, ipc, bits, line, rxq, flags>>

\* ... and disable the core.
Release(result) ==
  /\ At("disable")
  /\ status' = result /\ pc' = "end"
  /\ en' = FALSE
  /\ UNCHANGED <<config, call, retry, queued, buf, saved, irq, ipc, iser, thd, line, rxq, flags>>

TakeByte == rxq # <<>> /\ buf' = Append(buf, Head(rxq)) /\ rxq' = Tail(rxq)

\* rx_read_available, between two commands.
rx_read_available ==
  /\ At("drain")
  /\ IF rxq = <<>> THEN pc' = "send" /\ UNCHANGED <<buf, rxq>> ELSE TakeByte /\ pc' = pc
  /\ UNCHANGED <<config, call, retry, queued, status, saved, irq, ipc, bits, line, flags>>

\* rx_read waits for a byte, and times out when no more will come or the bus is slow.
rx_read ==
  /\ At("collect") /\ Len(buf) < Size
  /\ \/ TakeByte /\ UNCHANGED <<pc, status, late>>
     \/ /\ rxq = <<>> /\ status' = "TIMEOUT" /\ pc' = "wait" /\ UNCHANGED <<buf, rxq>>
        /\ IF AtRest THEN UNCHANGED late ELSE RunOut("now")
  /\ UNCHANGED <<setup, call, retry, queued, saved, irq, ipc, bits, line, flags>>

Collected ==
  /\ At("collect") /\ Len(buf) >= Size
  /\ pc' = "wait"
  /\ UNCHANGED <<config, call, retry, queued, buf, status, saved, irq, ipc, bits, line, rxq, flags>>

\* The end of a transfer with interrupts: the status bits are cleared, ...
Clear ==
  /\ At("clear")
  /\ int_clear
  /\ pc' = "arm"
  /\ UNCHANGED <<config, call, retry, queued, buf, status, saved, irq, ipc, bits, line, rxq>>

SetBusy(n, thresholds) ==
  /\ irq_busy' = n /\ job' = op /\ thd' = thresholds

\* A bug to detect: the interrupt is enabled before irq_busy is set.
ArmLate(n, thresholds, mask) ==
  /\ \/ At("arm") /\ pc' = "unmask" /\ int_enable(mask) /\ UNCHANGED <<irq, thd>>
     \/ At("unmask") /\ pc' = "end" /\ SetBusy(n, thresholds) /\ UNCHANGED iser
  /\ UNCHANGED <<config, call, retry, queued, buf, status, saved, ipc, en, line, rxq, flags>>

\* ... irq_busy set, and then the interrupt enabled.
Arm(n, thresholds, mask) ==
  /\ \/ At("arm") /\ pc' = "unmask" /\ SetBusy(n, thresholds) /\ UNCHANGED iser
     \/ At("unmask") /\ pc' = "end" /\ int_enable(mask) /\ UNCHANGED <<irq, thd>>
  /\ UNCHANGED <<config, call, retry, queued, buf, status, saved, ipc, en, line, rxq, flags>>

-----------------------------------------------------------------------------
(* One transfer                                                            *)

\* A bug to detect: a NACK of the last bytes is not looked for.
TransmitUnchecked ==
  /\ leg = "write" /\ ~op.irq
  /\ Begin \/ cmd_write \/ Check("send", IF stop THEN "wait" ELSE "end") \/ Release(status)

master_transmit ==
  /\ leg = "write" /\ ~op.irq
  /\ \/ Begin
     \/ cmd_write \/ Check("send", IF stop THEN "wait" ELSE "end")
     \/ Release(check_nack(status))

master_transmit_using_interrupts ==
  /\ leg = "write" /\ op.irq
  /\ \/ BeginIrq
     \/ cmd_write \/ Check("send", IF stop THEN "clear" ELSE "end")
     \/ Release(status)
     \/ Clear \/ Arm(1, [thd EXCEPT !.cmd = "empty"], {"TX"})

master_receive ==
  /\ leg = "read" /\ ~op.irq
  /\ \/ Begin
     \/ cmd_write \/ Check(IF queued > Address10 THEN "drain" ELSE "send", "collect")
     \/ rx_read_available \/ rx_read \/ Collected
     \/ Release(check_nack(status))

master_receive_using_interrupts ==
  /\ leg = "read" /\ op.irq
  /\ \/ BeginIrq
     \/ cmd_write \/ Check("send", "clear")
     \/ Release(status)
     \/ Clear \/ Arm(2, [thd EXCEPT !.rx = 1], {"RX"})

-----------------------------------------------------------------------------
(* The calls                                                               *)

FirstLeg(r) == IF r.kind = "rx" THEN "read" ELSE "write"

\* Before the first of them, perhaps, the optional handler is registered.
register_optional_irq_handler ==
  /\ At("idle") /\ calls = 0 /\ ~registered
  /\ registered' = TRUE /\ irq_busy' = 0
  /\ UNCHANGED <<bus, wide, late, call, pc, retry, queued, buf, status, saved, job, ipc, bits,
                 line, rxq, flags>>

\* A wait that ran out did so before the try that begins.
Elapse == late' = IF late = "now" THEN "before" ELSE late

Call ==
  /\ At("idle") /\ calls < MAX_CALLS
  /\ op' \in Requests /\ leg' = FirstLeg(op')
  /\ op'.tx + op'.rx <= MAX_BOTH
  /\ bus = "slow" => op'.tx <= MAX_SLOW /\ op'.rx <= MAX_SLOW
  /\ calls' = calls + 1 /\ retry' = RETRIES /\ pc' = "begin" /\ ret' = "none" /\ Elapse
  /\ UNCHANGED <<setup, queued, buf, status, saved, irq, ipc, bits, line, rxq, flags>>

Retryable == status \in {"ARB_LOST_ERR", "NACK_ERR", "BUSY"}

\* A bug to detect: the tries are not counted.
RetryForever ==
  /\ At("end") /\ Retryable
  /\ leg' = FirstLeg(op) /\ pc' = "begin" /\ Elapse
  /\ UNCHANGED <<setup, calls, op, retry, queued, buf, status, ret, saved, irq, ipc, bits, line,
                 rxq, flags>>

\* The call starts anew.
Retry ==
  /\ At("end") /\ Retryable /\ retry > 0
  /\ retry' = retry - 1 /\ leg' = FirstLeg(op) /\ pc' = "begin" /\ Elapse
  /\ UNCHANGED <<setup, calls, op, queued, buf, status, ret, saved, irq, ipc, bits, line,
                 rxq, flags>>

\* tx_rx goes on to receive.
SecondLeg ==
  /\ At("end") /\ ~Retryable /\ leg = "write"
  /\ leg' = "read" /\ pc' = "begin"
  /\ UNCHANGED <<config, calls, op, retry, queued, buf, status, ret, saved, irq, ipc, bits, line,
                 rxq, flags>>

\* The last try has failed, or the last leg has not.  The call's variables are gone.
Return(last) ==
  /\ At("end")
  /\ IF Retryable THEN retry = 0 ELSE leg = last
  /\ ret' = status /\ pc' = "idle"
  /\ retry' = 0 /\ queued' = 0 /\ leg' = "write" /\ status' = "SUCCESS"
  /\ UNCHANGED <<config, calls, op, buf, saved, irq, ipc, bits, line, rxq, flags>>

master_tx == op.kind = "tx" /\ (Retry \/ Return("write"))
master_rx == op.kind = "rx" /\ (Retry \/ Return("read"))
master_tx_rx == op.kind = "tx_rx" /\ (Retry \/ SecondLeg \/ Return("read"))

-----------------------------------------------------------------------------
(* alt_avalon_i2c_interrupt_transaction_status                             *)

\* The enabled interrupts are saved and disabled.
AskStatus ==
  /\ At("idle") /\ registered
  /\ op' = Status /\ saved' = iser /\ int_disable(iser)
  /\ pc' = "asked" /\ ret' = "none"
  /\ UNCHANGED <<config, calls, retry, leg, queued, buf, status, irq, ipc, en, thd, line, rxq,
                 flags>>

\* A NACK ends the transaction of the interrupt handler: wait until the core is
\* idle or the count has run out, ...
AwaitAbort ==
  /\ At("asked") /\ NACK /\ irq_busy # 0 /\ pc' = "abort"
  /\ IF is_busy THEN RunOut("before") /\ ret' = "TIMEOUT" ELSE ret' = "NACK_ERR" /\ UNCHANGED late
  /\ UNCHANGED <<setup, calls, op, retry, leg, queued, buf, status, saved, irq, ipc, bits, line,
                 rxq, flags>>

\* ... take what has been received and disable the core.
AbortJob ==
  /\ At("abort")
  /\ rxq' = <<>> /\ buf' = buf \o rxq
  /\ en' = FALSE /\ irq_busy' = 0
  /\ pc' = "idle" /\ saved' = {}
  /\ UNCHANGED <<config, calls, op, retry, leg, queued, status, ret, job, ipc, iser, thd, line,
                 flags>>

Answer ==
  /\ At("asked") /\ (NACK => irq_busy = 0)
  /\ ret' = check_nack(IF irq_busy # 0 THEN "BUSY" ELSE "SUCCESS")
  /\ int_enable(IF ret' = "BUSY" THEN saved ELSE {})
  /\ pc' = "idle" /\ saved' = {}
  /\ UNCHANGED <<config, calls, op, retry, leg, queued, buf, status, irq, ipc, en, thd, line, rxq,
                 flags>>

-----------------------------------------------------------------------------
(* alt_avalon_i2c_irq and optional_irq_callback, which nothing preempts    *)

step == <<calls, op, pc, retry, leg, queued, status, ret, saved>>
thread == <<config, step>>

\* Interrupts are disabled and the status bits cleared.
IsrEnter ==
  /\ ipc = "off" /\ int_status # {}
  /\ int_disable({"TX", "RX"}) /\ int_clear
  /\ ipc' = IF irq_busy = 2 THEN "read" ELSE "wait"
  /\ UNCHANGED <<thread, buf, irq, en, thd, line, rxq>>

IsrTake ==
  /\ ipc = "read" /\ Len(buf) < job.rx
  /\ TakeByte
  /\ UNCHANGED <<thread, irq, ipc, bits, line, flags>>

\* More bytes are to come, or the transaction is about to end.
IsrEndTake ==
  /\ ipc = "read"
  /\ \/ Len(buf) = job.rx /\ ipc' = "wait" /\ UNCHANGED <<iser, flags>>
     \/ Len(buf) < job.rx /\ rxq = <<>> /\ ipc' = "off" /\ int_enable({"RX"}) /\ int_clear
  /\ UNCHANGED <<thread, buf, irq, en, thd, line, rxq>>

\* The transaction should be done: wait until the core is idle or the count has
\* run out, ...
IsrAwait ==
  /\ ipc = "wait" /\ ipc' = "disable"
  /\ IF is_busy THEN RunOut("before") ELSE UNCHANGED late
  /\ UNCHANGED <<setup, step, buf, irq, bits, line, rxq, flags>>

\* ... and disable the core.
IsrEnd ==
  /\ ipc = "disable" /\ ipc' = "off"
  /\ en' = FALSE /\ irq_busy' = 0
  /\ UNCHANGED <<thread, buf, job, iser, thd, line, rxq, flags>>

-----------------------------------------------------------------------------
(* The core, the bus and the target                                        *)

driver == <<thread, buf, irq, ipc, bits>>

Fetch ==
  /\ cur = <<>> /\ cmds # <<>> /\ ~NACK /\ ~ARB
  /\ cur' = <<Head(cmds)>> /\ cmds' = Tail(cmds)
  /\ UNCHANGED <<driver, phase, target, rxq, flags>>

\* After an error commands are thrown away until the status bits are cleared:
\* the driver writes a command before it looks for the error of an earlier one.
Discard ==
  /\ cmds # <<>> /\ (NACK \/ ARB)
  /\ cmds' = <<>>
  /\ UNCHANGED <<driver, cur, phase, target, rxq, flags>>

Command1 == cur[1]

\* The first byte after a START or a RESTART is an address, and the second if
\* addresses have 10 bits.
Addressing == phase \in {"idle", "address"} \/ Command1.sta

Finish(next) == phase' = (IF Command1.sto THEN "idle" ELSE next) /\ cur' = <<>>

Address ==
  /\ cur # <<>> /\ Addressing
  /\ Finish(IF wide /\ phase # "address" THEN "address"
            ELSE IF Command1.val = W THEN "write" ELSE "read")
  /\ target' = IF phase = "idle" THEN [wrote |-> <<>>, answered |-> 0, stopped |-> FALSE]
                                 ELSE target
  /\ UNCHANGED <<driver, cmds, rxq, flags>>

WriteByte ==
  /\ cur # <<>> /\ ~Addressing /\ phase = "write"
  /\ Finish("write")
  /\ target' = [target EXCEPT !.wrote = Append(@, Command1.val), !.stopped = Command1.sto]
  /\ UNCHANGED <<driver, cmds, rxq, flags>>

\* A byte that finds the FIFO full is discarded.
ReadByte ==
  /\ cur # <<>> /\ ~Addressing /\ phase = "read"
  /\ Finish("read")
  /\ target' = [target EXCEPT !.answered = @ + 1, !.stopped = Command1.sto]
  /\ rxq' = IF Len(rxq) < FIFO_DEPTH THEN Append(rxq, target'.answered) ELSE rxq
  /\ UNCHANGED <<driver, cmds, flags>>

Abandon == phase' = "idle" /\ cur' = <<>> /\ cmds' = <<>> /\ UNCHANGED <<driver, target, rxq>>

\* The target does not acknowledge its address or a byte.
Refuse ==
  /\ cur # <<>> /\ bus \in {"refuses", "slow"} /\ (Addressing \/ phase = "write")
  /\ Abandon /\ NACK' = TRUE /\ UNCHANGED ARB

LoseArbitration ==
  /\ cur # <<>> /\ bus = "shares" /\ (Addressing \/ phase = "write")
  /\ Abandon /\ ARB' = TRUE /\ UNCHANGED NACK

\* A core that is disabled while it is busy may stop where it is, or go on.
Drop ==
  /\ ~en /\ is_busy
  /\ Abandon /\ UNCHANGED flags

-----------------------------------------------------------------------------
Transfer ==
  \/ master_transmit \/ master_transmit_using_interrupts
  \/ master_receive \/ master_receive_using_interrupts
  \/ SendTimeout \/ AwaitIdle

Continue ==
  \/ Transfer \/ master_tx \/ master_rx \/ master_tx_rx
  \/ AwaitAbort \/ AbortJob \/ Answer
Isr == IsrEnter \/ IsrTake \/ IsrEndTake \/ IsrAwait \/ IsrEnd
Core ==
  \/ Fetch \/ Discard \/ Address \/ WriteByte \/ ReadByte \/ Refuse \/ LoseArbitration
  \/ Drop

Next == register_optional_irq_handler \/ Call \/ AskStatus \/ Continue \/ Isr \/ Core

Spec == Init /\ [][Next]_vars

\* The processor runs the calls and the core its clock; an interrupt that is
\* enabled again and again, between two calls that disable it, is taken.
FairSpec == Spec /\ WF_vars(Continue) /\ SF_vars(Isr) /\ WF_vars(Core)

-----------------------------------------------------------------------------
(* Properties                                                              *)

Results == {"SUCCESS", "BAD_ARG", "TIMEOUT", "NACK_ERR", "ARB_LOST_ERR", "BUSY"}

CallTypes ==
  /\ bus \in {"good", "refuses", "shares", "slow"} /\ wide \in BOOLEAN /\ registered \in BOOLEAN
  /\ calls \in 0 .. MAX_CALLS
  /\ op \in Requests \union {None, Status} /\ leg \in {"write", "read"}
  /\ pc \in {"idle", "begin", "send", "check", "drain", "collect", "wait", "clear", "arm",
             "unmask", "disable", "end", "asked", "abort"}
  /\ retry \in 0 .. RETRIES /\ queued \in 0 .. MAX_SIZE + 2
  /\ status \in Results /\ ret \in Results \union {"none"} /\ saved \subseteq {"TX", "RX"}
  /\ late \in {"never", "now", "before"}

DriverTypes ==
  /\ buf \in Seq(Nat)
  /\ irq_busy \in 0 .. 2 /\ job \in Requests \union {None}
  /\ ipc \in {"off", "read", "wait", "disable"}

CoreTypes ==
  /\ en \in BOOLEAN /\ iser \subseteq {"TX", "RX"}
  /\ thd \in [cmd : {"not full", "empty"}, rx : {1, FIFO_DEPTH}]
  /\ cmds \in Seq(Commands) /\ Len(cmds) <= FIFO_DEPTH
  /\ cur \in Seq(Commands) /\ Len(cur) <= 1
  /\ phase \in {"idle", "address", "write", "read"}
  /\ rxq \in Seq(Nat) /\ Len(rxq) <= FIFO_DEPTH
  /\ NACK \in BOOLEAN /\ ARB \in BOOLEAN
  /\ target \in [wrote : Seq(-2 .. MAX_SIZE), answered : Nat, stopped : BOOLEAN]

\* What one call asks for: more only if a wait ran out and left a call's commands
\* and answers to the next.
Bounded ==
  /\ buf \in Seq(1 .. MAX_SIZE) /\ Len(buf) <= MAX_SIZE
  /\ rxq \in Seq(1 .. MAX_SIZE)
  /\ target.wrote \in Seq(1 .. MAX_SIZE) /\ target.answered <= MAX_SIZE

\* Every variable has its type, and neither FIFO has more than it holds; nor has
\* the caller's buffer, if no wait has run out.
TypeOK == CallTypes /\ DriverTypes /\ CoreTypes /\ (late = "never" => Bounded)

\* The target got the bytes of call r, the caller its answers, and the bus is free.
Done(r) ==
  /\ target.wrote = [k \in 1 .. r.tx |-> k]
  /\ buf = [k \in 1 .. r.rx |-> k]
  /\ target.stopped /\ ~is_busy

\* A polled call that answers SUCCESS has transferred every byte, whatever the
\* target refused on the way and however many bytes the FIFO discarded; unless
\* tx_rx had nothing to read, arbitration was lost, or a wait has run out.
PolledSuccess ==
  pc = "idle" /\ ret = "SUCCESS" /\ op.kind \in {"tx", "rx", "tx_rx"} /\ ~op.irq
    /\ bus # "shares" /\ (op.kind = "tx_rx" => op.rx > 0) /\ late = "never"
    => Done(op)

\* When the interrupt routine ends a receive, and no wait has run out, all its
\* bytes are in the buffer.
ReceiveComplete == irq_busy = 2 /\ ipc = "disable" /\ late = "never" => Done(job)

\* Success means that every byte was transferred, polled or with interrupts.
SuccessIsComplete == PolledSuccess /\ ReceiveComplete

\* A call in whose last try a wait ran out does not answer SUCCESS: the core was
\* disabled, perhaps in the middle of a byte.  But tx_rx with nothing to read
\* does, and after the first command of a 10-bit address nobody looks.
LateIsTold ==
  pc = "idle" /\ late = "now" /\ op.kind \in {"tx", "rx", "tx_rx"}
    /\ ~wide /\ (op.kind = "tx_rx" => op.rx > 0)
    => ret # "SUCCESS"

\* An interrupt is enabled if and only if a transaction waits for it, but for
\* the calls that are about to change that and the routine itself.
ArmedIfBusy ==
  ipc = "off" =>
    /\ iser # {} => irq_busy # 0
    /\ irq_busy # 0 => iser # {} \/ pc \in {"unmask", "asked", "abort"}

\* After a call the core is disabled, unless a transaction goes on in the
\* interrupt routine, or tx_rx had nothing to read and left the bus taken, or the
\* call did not get as far as to enable it.
EndsDisabled ==
  pc = "idle" /\ ipc = "off" /\ irq_busy = 0 /\ en =>
    ret \in {"BUSY", "BAD_ARG"} \/ op.kind = "status" \/ (op.kind = "tx_rx" /\ op.rx = 0)

\* What a call or the interrupt routine leaves enabled is what a transaction in
\* progress needs.
EnabledIfNeeded == ArmedIfBusy /\ EndsDisabled

\* Every call returns.
CallReturns == pc # "idle" ~> pc = "idle"

\* On a good bus a transaction of the interrupt routine ends, if the receive
\* FIFO can hold what arrives before its interrupt is enabled.
JobEnds == (irq_busy # 0 /\ bus = "good" /\ job.rx <= FIFO_DEPTH) ~> irq_busy = 0

\* Calls return, and the transactions they leave behind end.
TransfersEnd == CallReturns /\ JobEnds

-----------------------------------------------------------------------------
(* What a comment says, and the program does not do                        *)

\* altera_avalon_i2c.h:1154, SUCCESS of interrupt_transaction_status indicates
\* that the interrupt transaction is successfully completed.
JobSuccess ==
  pc = "idle" /\ op.kind = "status" /\ ret = "SUCCESS" /\ job # None /\ bus # "shares"
    => Done(job)
=============================================================================
