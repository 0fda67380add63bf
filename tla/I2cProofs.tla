------------------------------- MODULE I2cProofs -------------------------------
(***************************************************************************)
(* The types, what the calls, the status request and the interrupt routine *)
(* leave enabled, and that success means that every byte was transferred,  *)
(* for FIFOs of any depth, transfers of any size, any number of tries and  *)
(* any bus.                                                                *)
(***************************************************************************)
EXTENDS I2c, TLAPS

-----------------------------------------------------------------------------
(* The invariant                                                           *)

Calling == pc \notin {"idle", "asked", "abort"}

Shapes ==
  /\ registered \in BOOLEAN /\ en \in BOOLEAN
  /\ iser \subseteq {"TX", "RX"} /\ saved \subseteq {"TX", "RX"}
  /\ irq_busy \in 0 .. 2 /\ leg \in {"write", "read"}
  /\ status \in Results
  /\ ipc \in {"off", "read", "wait", "disable"}
  /\ late \in {"never", "now", "before"}

\* Which call runs, and its leg.
Calls ==
  /\ Calling => op \in Requests
  /\ Calling /\ op.kind = "tx" => leg = "write"
  /\ Calling /\ op.kind = "rx" => leg = "read"
  /\ pc \in {"asked", "abort"} => op = Status

\* An interrupt is enabled only for a transaction, and a transaction has the core.
Armed ==
  /\ iser # {} => irq_busy # 0 /\ ipc = "off"
  /\ irq_busy # 0 => en /\ registered
  /\ irq_busy # 0 /\ ipc = "off" => iser # {} \/ pc \in {"unmask", "asked", "abort"}
  /\ ipc # "off" => irq_busy # 0

\* A status request keeps the enables aside.
Asked ==
  /\ pc \in {"asked", "abort"} => iser = {} /\ ipc = "off" /\ (irq_busy # 0 <=> saved # {})
  /\ pc = "abort" => irq_busy # 0

\* No transaction goes on in the interrupt routine.
Free == irq_busy = 0 /\ iser = {} /\ ipc = "off"

\* The first leg of tx_rx, after which there is no STOP.
Halfway == op.kind = "tx_rx" /\ leg = "write"

\* From enable to the end of a transfer the core is the call's; it may have been
\* disabled since, if a wait ran out.
Owned ==
  /\ pc \in {"send", "check", "drain", "collect", "wait", "disable", "clear", "arm"} => Free
  /\ pc \in {"check", "drain", "collect", "clear", "arm"} => en
  /\ pc \in {"send", "wait", "disable"} => en \/ late # "never"
  /\ pc = "unmask" => en /\ iser = {} /\ irq_busy # 0 /\ ipc = "off"
  /\ pc \in {"send", "check"} /\ op.irq => registered
  /\ pc \in {"clear", "arm", "unmask"} => registered /\ ~Halfway

\* The core stays enabled between the legs of tx_rx, or the first one has failed.
Between ==
  /\ pc \in {"wait", "disable"} /\ Halfway => Retryable \/ (status = "TIMEOUT" /\ late # "never")
  /\ pc = "begin" /\ restart /\ (op.irq => registered) => Free /\ (en \/ late # "never")
  /\ pc = "end" /\ Halfway /\ status = "BAD_ARG" => op.irq /\ ~registered
  /\ pc = "end" /\ Halfway /\ ~Retryable /\ status # "BAD_ARG" =>
       Free /\ IF status = "TIMEOUT" THEN late # "never" ELSE en

\* What a call leaves behind.
Leaves(result) ==
  en /\ irq_busy = 0 => result \in {"BUSY", "BAD_ARG"} \/ (op.kind = "tx_rx" /\ op.rx = 0)

Ended ==
  /\ pc = "end" /\ (Halfway => Retryable) => Leaves(status)
  /\ pc = "idle" /\ op.kind # "status" => Leaves(ret)

IInv == Shapes /\ Calls /\ Armed /\ Asked /\ Owned /\ Between /\ Ended

-----------------------------------------------------------------------------
(* The invariant holds at the start, and every step keeps it               *)

LEMMA RequestKinds ==
  ASSUME NEW r \in Requests
  PROVE  /\ r.kind \in {"tx", "rx", "tx_rx"} /\ r.irq \in BOOLEAN
         /\ r.kind \in {"tx", "tx_rx"} => r.tx > 0
         /\ r.kind = "rx" => r.rx > 0
         /\ FirstLeg(r) = IF r.kind = "rx" THEN "read" ELSE "write"
BY DEF Requests, FirstLeg

LEMMA Initially == Init => IInv
<1> SUFFICES ASSUME Init PROVE IInv
  OBVIOUS
<1>1. /\ registered = FALSE /\ en = FALSE /\ iser = {} /\ saved = {} /\ irq_busy = 0
      /\ leg = "write" /\ status = "SUCCESS" /\ ipc = "off" /\ pc = "idle" /\ late = "never"
  BY DEF Init
<1>2. registered \in BOOLEAN /\ en \in BOOLEAN
  BY <1>1, Zenon
<1>3. Shapes
  BY <1>1, <1>2 DEF Shapes, Results
<1>4. Calls /\ Armed /\ Asked /\ Owned /\ Between /\ Ended
  BY <1>1 DEF Calls, Calling, Armed, Asked, Owned, Between, Ended, Leaves
<1> QED
  BY <1>3, <1>4 DEF IInv

\* Nothing the invariant speaks of but the label, which stays in the same part.
LEMMA Onward ==
  ASSUME IInv, UNCHANGED <<registered, op, leg, saved, irq_busy, ipc, en, iser>>,
         late' \in {"never", "now", "before"}, late # "never" => late' # "never",
         pc \in {"send", "check", "drain", "collect", "wait", "clear"},
         status' \in Results,
         pc' \notin {"send", "wait", "disable"} => en,
         \/ /\ pc' \in {"send", "check", "drain", "collect"}
             /\ (pc' \in {"send", "check"} /\ op.irq => registered)
         \/ /\ pc' \in {"wait", "disable"}
            /\ Halfway => \/ status' \in {"ARB_LOST_ERR", "NACK_ERR", "BUSY"}
                          \/ status' = "TIMEOUT" /\ late' # "never"
         \/ pc' \in {"clear", "arm"} /\ registered /\ ~Halfway
         \/ pc' = "end" /\ Halfway /\ status' = "SUCCESS"
  PROVE  IInv'
<1>1. Shapes' /\ Calls'
  BY DEF IInv, Shapes, Calls, Calling
<1>2. Armed' /\ Asked' /\ Owned'
  BY DEF IInv, Shapes, Armed, Asked, Owned, Free, Halfway
<1>3. Between' /\ Ended'
  BY DEF IInv, Owned, Free, Between, Ended, Halfway, Retryable, Leaves
<1> QED
  BY <1>1, <1>2, <1>3 DEF IInv

\* A transfer that is answered before it begins.
LEMMA EndStep ==
  ASSUME IInv, NEW result \in {"SUCCESS", "BAD_ARG", "BUSY"}, End(result),
         result = "SUCCESS" => Size = 0,
         result = "BAD_ARG" => op.irq /\ ~registered
  PROVE  IInv'
<1>1. /\ UNCHANGED <<late, registered, op, leg, saved, irq_busy, ipc, en, iser>>
      /\ pc = "begin" /\ ipc = "off" /\ pc' = "end" /\ status' = result
  BY DEF End, At, config, setup, call, irq, bits
<1>2. op \in Requests
  BY <1>1 DEF IInv, Calls, Calling
<1>3. Shapes' /\ Calls'
  BY <1>1 DEF IInv, Shapes, Calls, Calling, Results
<1>4. Armed' /\ Asked' /\ Owned'
  BY <1>1 DEF IInv, Armed, Asked, Owned
<1>5. result = "SUCCESS" => op.kind = "tx_rx" /\ op.rx = 0 /\ ~Halfway
  BY <1>1, <1>2, RequestKinds DEF IInv, Shapes, Calls, Calling, Size, Halfway
<1>6. Between' /\ Ended'
  BY <1>1, <1>5 DEF Between, Ended, Halfway, Retryable, Leaves
<1> QED
  BY <1>3, <1>4, <1>6 DEF IInv

LEMMA EnableStep == ASSUME IInv, enable, op.irq => registered PROVE IInv'
<1>1. /\ UNCHANGED <<late, registered, op, leg, saved, ipc, iser, status>>
      /\ pc = "begin" /\ ipc = "off" /\ pc' = "send" /\ ~en /\ en' = TRUE
      /\ irq_busy' = IF registered THEN 0 ELSE irq_busy
  BY DEF enable, At, config, setup, call
<1>2. irq_busy' = 0 /\ iser = {}
  BY <1>1 DEF IInv, Armed
<1>3. en' \in BOOLEAN
  BY <1>1, Zenon
<1>4. Shapes' /\ Calls'
  BY <1>1, <1>2, <1>3 DEF IInv, Shapes, Calls, Calling
<1>5. Armed' /\ Asked' /\ Owned'
  BY <1>1, <1>2 DEF IInv, Armed, Asked, Owned, Free
<1>6. Between' /\ Ended'
  BY <1>1 DEF Between, Ended
<1> QED
  BY <1>4, <1>5, <1>6 DEF IInv

LEMMA ResumeStep == ASSUME IInv, Resume, op.irq => registered PROVE IInv'
<1>1. /\ UNCHANGED <<late, registered, op, leg, saved, irq_busy, ipc, en, iser, status>>
      /\ pc = "begin" /\ pc' = "send" /\ restart
  BY DEF Resume, At, config, setup, call, irq, bits
<1>2. Free /\ (en \/ late # "never")
  BY <1>1 DEF IInv, Between
<1>3. Shapes' /\ Calls'
  BY <1>1 DEF IInv, Shapes, Calls, Calling
<1>4. Armed' /\ Asked' /\ Owned' /\ Between' /\ Ended'
  BY <1>1, <1>2 DEF IInv, Armed, Asked, Owned, Between, Ended, Free
<1> QED
  BY <1>3, <1>4 DEF IInv

LEMMA BeginStep == ASSUME IInv, ~op.irq, Begin PROVE IInv'
<1>1. Nothing => IInv'
  BY EndStep DEF Nothing
<1>2. Busy => IInv'
  BY EndStep DEF Busy
<1> QED
  BY <1>1, <1>2, EnableStep, ResumeStep DEF Begin

LEMMA BeginIrqStep == ASSUME IInv, op.irq, BeginIrq PROVE IInv'
<1>1. Nothing => IInv'
  BY EndStep DEF Nothing
<1>2. Busy => IInv'
  BY EndStep DEF Busy
<1>3. BadArg => IInv'
  BY EndStep DEF BadArg
<1> QED
  BY <1>1, <1>2, <1>3, EnableStep, ResumeStep DEF BeginIrq

LEMMA WriteStep == ASSUME IInv, cmd_write PROVE IInv'
<1>1. /\ UNCHANGED <<late, registered, op, leg, saved, irq_busy, ipc, en, iser, status>>
      /\ pc = "send" /\ pc' = "check" /\ en
  BY DEF cmd_write, Queue, TX_READY, At, config, setup, call, irq, bits
<1>2. /\ late \in {"never", "now", "before"} /\ status \in Results
      /\ op.irq => registered
  BY <1>1 DEF IInv, Shapes, Owned
<1> QED
  BY <1>1, <1>2, Onward

\* A wait runs out.
LEMMA SendTimeoutStep == ASSUME IInv, SendTimeout PROVE IInv'
<1>1. /\ UNCHANGED <<registered, op, leg, saved, irq_busy, ipc, en, iser>> /\ pc = "send"
      /\ \/ pc' = "send" /\ status' = status
         \/ pc' = "wait" /\ status' = "TIMEOUT"
      /\ late' = IF late = "never" THEN "now" ELSE late
  BY DEF SendTimeout, RunOut, At, setup, call, irq, bits
<1>2. /\ status' \in Results /\ late' \in {"never", "now", "before"} /\ late' # "never"
      /\ op.irq => registered
  BY <1>1 DEF IInv, Shapes, Owned, Results
<1> QED
  BY <1>1, <1>2, Onward

LEMMA AwaitStep == ASSUME IInv, AwaitIdle PROVE IInv'
<1>1. /\ UNCHANGED <<registered, op, leg, saved, irq_busy, ipc, en, iser>>
      /\ pc = "wait" /\ pc' = "disable"
      /\ \/ UNCHANGED <<late, status>>
         \/ late' = (IF late = "never" THEN "now" ELSE late) /\ status' = "TIMEOUT"
  BY DEF AwaitIdle, RunOut, At, setup, call, irq, bits
<1>2. /\ status' \in Results /\ late' \in {"never", "now", "before"}
      /\ late # "never" => late' # "never"
      /\ Halfway => \/ status' \in {"ARB_LOST_ERR", "NACK_ERR", "BUSY"}
                    \/ status' = "TIMEOUT" /\ late' # "never"
  BY <1>1 DEF IInv, Shapes, Results, Between, Retryable
<1> QED
  BY <1>1, <1>2, Onward

LEMMA CheckStep ==
  ASSUME IInv, NEW more, NEW last, Check(more, last),
         more \in {"send", "drain"},
         \/ last \in {"wait", "collect"} /\ ~Halfway
         \/ last = "clear" /\ ~Halfway /\ op.irq
         \/ last = "end" /\ Halfway
  PROVE  IInv'
<1>1. /\ UNCHANGED <<late, registered, op, leg, saved, irq_busy, ipc, en, iser>>
      /\ pc = "check" /\ status' \in {"SUCCESS", "NACK_ERR", "ARB_LOST_ERR"}
      /\ \/ pc' = "send"
         \/ status' # "SUCCESS" /\ pc' = "wait"
         \/ status' = "SUCCESS" /\ pc' \in {more, last}
  BY DEF Check, At, config, setup, call, irq, bits, check_nack, check_arblost
<1>2. /\ late \in {"never", "now", "before"} /\ en
      /\ op.irq => registered
  BY <1>1 DEF IInv, Shapes, Owned
<1>3. status' \in Results
  BY <1>1 DEF Results
<1> QED
  BY <1>1, <1>2, <1>3, Onward

LEMMA ReleaseStep ==
  ASSUME IInv, NEW result \in Results, Release(result),
         result = status \/ result = "NACK_ERR"
  PROVE  IInv'
<1>1. /\ UNCHANGED <<late, registered, op, leg, saved, irq_busy, ipc, iser>>
      /\ pc = "disable" /\ pc' = "end" /\ status' = result /\ en' = FALSE
  BY DEF Release, At, config, setup, call, irq
<1>2. en' \in BOOLEAN /\ ~en'
  BY <1>1, Zenon
<1>0. /\ Free
      /\ Halfway => Retryable \/ (status = "TIMEOUT" /\ late # "never")
  BY <1>1 DEF IInv, Owned, Between
<1>3. Shapes' /\ Calls'
  BY <1>1, <1>2 DEF IInv, Shapes, Calls, Calling
<1>4. Armed' /\ Asked' /\ Owned'
  BY <1>1, <1>2 DEF IInv, Armed, Asked, Owned, Free
<1>5. Between' /\ Ended'
  BY <1>0, <1>1, <1>2 DEF Between, Ended, Free, Halfway, Retryable, Leaves
<1> QED
  BY <1>3, <1>4, <1>5 DEF IInv

LEMMA ReadStep ==
  ASSUME IInv, leg = "read", ~op.irq, rx_read_available \/ rx_read \/ Collected
  PROVE  IInv'
<1>1. /\ UNCHANGED <<registered, op, leg, saved, irq_busy, ipc, en, iser>>
      /\ late' \in {late, IF late = "never" THEN "now" ELSE late}
      /\ \/ pc = "drain" /\ pc' \in {"drain", "send"} /\ status' = status
         \/ pc = "collect" /\ pc' \in {"collect", "wait"} /\ status' \in {status, "TIMEOUT"}
  BY DEF RunOut, rx_read_available, rx_read, Collected, At, config, setup, call, irq, bits
<1>2. /\ status' \in Results /\ late' \in {"never", "now", "before"}
      /\ late # "never" => late' # "never"
      /\ en /\ ~Halfway
  BY <1>1 DEF IInv, Shapes, Results, Owned, Halfway
<1> QED
  BY <1>1, <1>2, Onward

LEMMA ClearStep == ASSUME IInv, Clear PROVE IInv'
<1>1. /\ UNCHANGED <<late, registered, op, leg, saved, irq_busy, ipc, en, iser, status>>
      /\ pc = "clear" /\ pc' = "arm"
  BY DEF Clear, At, config, setup, call, irq, bits
<1> QED
  BY <1>1, Onward DEF IInv, Shapes, Owned

LEMMA ArmStep ==
  ASSUME IInv, NEW n \in 1 .. 2, NEW thresholds, NEW mask \in {{"TX"}, {"RX"}},
         Arm(n, thresholds, mask)
  PROVE  IInv'
<1>1. UNCHANGED <<late, registered, op, leg, saved, ipc, en, status>> /\ ipc = "off"
  BY DEF Arm, At, config, setup, call
<1>2. CASE pc = "arm" /\ pc' = "unmask" /\ irq_busy' = n /\ UNCHANGED iser
  <2>1. Shapes' /\ Calls'
    BY <1>1, <1>2 DEF IInv, Shapes, Calls, Calling
  <2>2. Armed' /\ Asked' /\ Owned' /\ Between' /\ Ended'
    BY <1>1, <1>2 DEF IInv, Armed, Asked, Owned, Between, Ended, Free, Halfway
  <2> QED
    BY <2>1, <2>2 DEF IInv
<1>3. CASE pc = "unmask" /\ pc' = "end" /\ iser' = iser \union mask /\ UNCHANGED irq_busy
  <2>1. iser' \subseteq {"TX", "RX"} /\ iser' # {}
    BY <1>3 DEF IInv, Shapes
  <2>2. Shapes' /\ Calls'
    BY <1>1, <1>3, <2>1 DEF IInv, Shapes, Calls, Calling
  <2>3. Armed' /\ Asked' /\ Owned' /\ Between' /\ Ended'
    BY <1>1, <1>3, <2>1 DEF IInv, Armed, Asked, Owned, Between, Ended, Halfway, Leaves
  <2> QED
    BY <2>2, <2>3 DEF IInv
<1> QED
  BY <1>2, <1>3 DEF Arm, At, SetBusy, irq, int_enable

LEMMA TransferStep == ASSUME IInv, Transfer PROVE IInv'
<1>1. /\ status \in Results /\ check_nack(status) \in Results
      /\ check_nack(status) \in {status, "NACK_ERR"}
  BY DEF IInv, Shapes, Results, check_nack
<1>2. Release(status) => IInv'
  BY <1>1, ReleaseStep
<1>3. Release(check_nack(status)) => IInv'
  BY <1>1, ReleaseStep
<1>4. CASE master_transmit
  <2>1. Check("send", IF stop THEN "wait" ELSE "end") => IInv'
    BY <1>4, CheckStep DEF master_transmit, stop, Halfway
  <2> QED
    BY <1>3, <1>4, <2>1, BeginStep, WriteStep DEF master_transmit
<1>5. CASE master_transmit_using_interrupts
  <2>1. Check("send", IF stop THEN "clear" ELSE "end") => IInv'
    BY <1>5, CheckStep DEF master_transmit_using_interrupts, stop, Halfway
  <2>2. Arm(1, [thd EXCEPT !.cmd = "empty"], {"TX"}) => IInv'
    BY ArmStep
  <2> QED
    BY <1>2, <1>5, <2>1, <2>2, BeginIrqStep, WriteStep, ClearStep
       DEF master_transmit_using_interrupts
<1>6. CASE master_receive
  <2>1. Check(IF queued > Address10 THEN "drain" ELSE "send", "collect") => IInv'
    BY <1>6, CheckStep DEF master_receive, Halfway
  <2> QED
    BY <1>3, <1>6, <2>1, BeginStep, WriteStep, ReadStep DEF master_receive
<1>7. CASE master_receive_using_interrupts
  <2>1. Check("send", "clear") => IInv'
    BY <1>7, CheckStep DEF master_receive_using_interrupts, Halfway
  <2>2. Arm(2, [thd EXCEPT !.rx = 1], {"RX"}) => IInv'
    BY ArmStep
  <2> QED
    BY <1>2, <1>7, <2>1, <2>2, BeginIrqStep, WriteStep, ClearStep
       DEF master_receive_using_interrupts
<1> QED
  BY <1>4, <1>5, <1>6, <1>7, SendTimeoutStep, AwaitStep DEF Transfer

LEMMA RegisterStep == ASSUME IInv, register_optional_irq_handler PROVE IInv'
<1>1. /\ UNCHANGED <<late, op, leg, saved, ipc, en, iser, status, pc, ret>>
      /\ pc = "idle" /\ ~registered /\ registered' = TRUE /\ irq_busy' = 0
  BY DEF register_optional_irq_handler, At, call, bits
<1>2. irq_busy = 0 /\ registered' \in BOOLEAN
  BY <1>1, Zenon DEF IInv, Armed
<1>3. Shapes' /\ Calls'
  BY <1>1, <1>2 DEF IInv, Shapes, Calls, Calling
<1>4. Armed' /\ Asked' /\ Owned' /\ Between' /\ Ended'
  BY <1>1, <1>2 DEF IInv, Armed, Asked, Owned, Between, Ended, Leaves
<1> QED
  BY <1>3, <1>4 DEF IInv

LEMMA CallStep == ASSUME IInv, Call PROVE IInv'
<1>1. /\ UNCHANGED <<registered, saved, irq_busy, ipc, en, iser, status>>
      /\ pc = "idle" /\ ipc = "off" /\ pc' = "begin"
      /\ op' \in Requests /\ leg' = FirstLeg(op')
      /\ late' = IF late = "now" THEN "before" ELSE late
  BY DEF Call, Elapse, At, config, setup, irq, bits
<1>2. leg' = IF op'.kind = "rx" THEN "read" ELSE "write"
  BY <1>1, RequestKinds
<1>3. Shapes' /\ Calls'
  BY <1>1, <1>2 DEF IInv, Shapes, Calls, Calling
<1>4. ~restart'
  BY <1>2 DEF restart
<1>5. Armed' /\ Asked' /\ Owned' /\ Between' /\ Ended'
  BY <1>1, <1>4 DEF IInv, Armed, Asked, Owned, Between, Ended
<1> QED
  BY <1>3, <1>5 DEF IInv

LEMMA RetryStep == ASSUME IInv, Retry PROVE IInv'
<1>1. /\ UNCHANGED <<registered, op, saved, irq_busy, ipc, en, iser, status>>
      /\ pc = "end" /\ pc' = "begin" /\ leg' = FirstLeg(op)
      /\ late' = IF late = "now" THEN "before" ELSE late
  BY DEF Retry, Elapse, At, config, setup, irq, bits
<1>2. op \in Requests /\ leg' = IF op.kind = "rx" THEN "read" ELSE "write"
  BY <1>1, RequestKinds DEF IInv, Calls, Calling
<1>3. Shapes' /\ Calls'
  BY <1>1, <1>2 DEF IInv, Shapes, Calls, Calling
<1>4. ~restart'
  BY <1>1, <1>2 DEF restart
<1>5. Armed' /\ Asked' /\ Owned' /\ Between' /\ Ended'
  BY <1>1, <1>4 DEF IInv, Armed, Asked, Owned, Between, Ended
<1> QED
  BY <1>3, <1>5 DEF IInv

LEMMA SecondStep == ASSUME IInv, op.kind = "tx_rx", SecondLeg PROVE IInv'
<1>1. /\ UNCHANGED <<late, registered, op, saved, irq_busy, ipc, en, iser, status>>
      /\ pc = "end" /\ pc' = "begin" /\ leg' = "read" /\ ~Retryable /\ Halfway
  BY DEF SecondLeg, At, config, setup, irq, bits, Halfway
<1>2. Shapes' /\ Calls'
  BY <1>1 DEF IInv, Shapes, Calls, Calling
<1>3. (op.irq => registered) => Free /\ (en \/ late # "never")
  BY <1>1 DEF IInv, Between
<1>4. Armed' /\ Asked' /\ Owned' /\ Between' /\ Ended'
  BY <1>1, <1>3 DEF IInv, Armed, Asked, Owned, Between, Ended, Free
<1> QED
  BY <1>2, <1>4 DEF IInv

LEMMA ReturnStep ==
  ASSUME IInv, NEW last, Return(last), Halfway => last = "read"
  PROVE  IInv'
<1>1. /\ UNCHANGED <<late, registered, op, saved, irq_busy, ipc, en, iser>>
      /\ pc = "end" /\ pc' = "idle" /\ leg' = "write" /\ status' = "SUCCESS" /\ ret' = status
      /\ Halfway => Retryable
  BY DEF Return, At, config, setup, irq, bits, Halfway
<1>2. Shapes' /\ Calls'
  BY <1>1 DEF IInv, Shapes, Calls, Calling, Results
<1>3. Leaves(status)
  BY <1>1 DEF IInv, Ended
<1>4. Armed' /\ Asked' /\ Owned' /\ Between' /\ Ended'
  BY <1>1, <1>3 DEF IInv, Armed, Asked, Owned, Between, Ended, Leaves
<1> QED
  BY <1>2, <1>4 DEF IInv

LEMMA AskStep == ASSUME IInv, AskStatus PROVE IInv'
<1>1. /\ UNCHANGED <<late, registered, leg, irq_busy, ipc, en, status>>
      /\ pc = "idle" /\ ipc = "off" /\ pc' = "asked" /\ op' = Status
      /\ saved' = iser /\ iser' = {}
  BY DEF AskStatus, At, config, setup, irq, int_disable
<1>2. Shapes' /\ Calls'
  BY <1>1 DEF IInv, Shapes, Calls, Calling
<1>3. Armed' /\ Asked' /\ Owned' /\ Between' /\ Ended'
  BY <1>1 DEF IInv, Armed, Asked, Owned, Between, Ended
<1> QED
  BY <1>2, <1>3 DEF IInv

LEMMA AwaitAbortStep == ASSUME IInv, AwaitAbort PROVE IInv'
<1>1. /\ UNCHANGED <<registered, op, leg, saved, irq_busy, ipc, en, iser, status>>
      /\ pc = "asked" /\ pc' = "abort" /\ irq_busy # 0
      /\ late' \in {late, IF late = "never" THEN "before" ELSE late}
  BY DEF AwaitAbort, RunOut, At, setup, irq, bits
<1>2. op.kind = "status"
  BY <1>1 DEF IInv, Calls, Status
<1>3. Shapes' /\ Calls'
  BY <1>1 DEF IInv, Shapes, Calls, Calling
<1>4. Armed' /\ Asked' /\ Owned' /\ Between' /\ Ended'
  BY <1>1, <1>2 DEF IInv, Armed, Asked, Owned, Between, Ended
<1> QED
  BY <1>3, <1>4 DEF IInv

LEMMA AnswerStep == ASSUME IInv, Answer \/ AbortJob PROVE IInv'
<1>1. /\ UNCHANGED <<late, registered, op, leg, ipc, status>>
      /\ pc \in {"asked", "abort"} /\ pc' = "idle" /\ saved' = {} /\ op.kind = "status"
      /\ iser = {} /\ (irq_busy # 0 <=> saved # {}) /\ ipc = "off"
  BY DEF Answer, AbortJob, At, config, setup, IInv, Asked, Calls, Status
<1>2. CASE Answer
  <2>1. iser' = (IF irq_busy # 0 THEN saved ELSE {}) /\ UNCHANGED <<irq_busy, en>>
    BY <1>1, <1>2 DEF Answer, int_enable, check_nack, irq
  <2>2. Shapes' /\ Calls'
    BY <1>1, <2>1 DEF IInv, Shapes, Calls, Calling
  <2>3. Armed' /\ Asked' /\ Owned' /\ Between' /\ Ended'
    BY <1>1, <2>1 DEF IInv, Armed, Asked, Owned, Between, Ended
  <2> QED
    BY <2>2, <2>3 DEF IInv
<1>3. CASE AbortJob
  <2>1. irq_busy' = 0 /\ iser' = {} /\ en' = FALSE
    BY <1>1, <1>3 DEF AbortJob
  <2>2. en' \in BOOLEAN
    BY <2>1, Zenon
  <2>3. Shapes' /\ Calls'
    BY <1>1, <2>1, <2>2 DEF IInv, Shapes, Calls, Calling
  <2>4. Armed' /\ Asked' /\ Owned' /\ Between' /\ Ended'
    BY <1>1, <2>1 DEF IInv, Armed, Asked, Owned, Between, Ended
  <2> QED
    BY <2>3, <2>4 DEF IInv
<1> QED
  BY <1>2, <1>3

LEMMA IsrStep == ASSUME IInv, Isr PROVE IInv'
<1>1. /\ UNCHANGED <<registered, op, leg, saved, pc, status, ret>>
      /\ irq_busy # 0 /\ ~(ipc = "off" /\ iser = {})
      /\ late' \in {late, IF late = "never" THEN "before" ELSE late}
  <2>1. /\ UNCHANGED <<registered, op, leg, saved, pc, status, ret>>
        /\ ipc # "off" \/ int_status # {}
        /\ late' \in {late, IF late = "never" THEN "before" ELSE late}
    BY DEF Isr, IsrEnter, IsrTake, IsrEndTake, IsrAwait, IsrEnd, RunOut, thread, config, setup,
           step
  <2> QED
    BY <2>1 DEF int_status, IInv, Armed
<1>2. pc \notin {"send", "check", "drain", "collect", "wait", "disable", "clear", "arm", "unmask",
                 "asked", "abort"}
  BY <1>1 DEF IInv, Asked, Owned, Free
<1>3. CASE \/ UNCHANGED <<irq_busy, en>> /\ iser' = {} /\ ipc' \in {"read", "wait", "disable"}
           \/ UNCHANGED <<irq_busy, en>> /\ iser' = {"RX"} /\ ipc' = "off"
           \/ irq_busy' = 0 /\ en' = FALSE /\ iser' = {} /\ ipc' = "off"
  <2>1. en' \in BOOLEAN
    BY <1>3, Zenon DEF IInv, Shapes
  <2>2. Shapes' /\ Calls'
    BY <1>1, <1>3, <2>1 DEF IInv, Shapes, Calls, Calling
  <2>3. Armed' /\ Asked' /\ Owned'
    BY <1>1, <1>2, <1>3 DEF IInv, Armed, Asked, Owned, Free
  <2>4. Between' /\ Ended'
    BY <1>1, <1>2, <1>3 DEF IInv, Between, Ended, Free, Halfway, Retryable, Leaves, restart
  <2> QED
    BY <2>2, <2>3, <2>4 DEF IInv
<1>4. iser = {} \/ ipc = "off"
  BY DEF IInv, Armed
<1>5. CASE IsrEnter
  BY <1>3, <1>5 DEF IsrEnter, irq, int_disable, IInv, Shapes
<1>6. CASE IsrTake
  BY <1>3, <1>4, <1>6 DEF IsrTake, irq, bits, IInv, Shapes
<1>7. CASE IsrEndTake
  BY <1>3, <1>4, <1>7 DEF IsrEndTake, irq, int_enable
<1>8. CASE IsrAwait
  BY <1>3, <1>4, <1>8 DEF IsrAwait, irq, bits
<1>9. CASE IsrEnd
  BY <1>3, <1>4, <1>9 DEF IsrEnd
<1> QED
  BY <1>5, <1>6, <1>7, <1>8, <1>9 DEF Isr

\* The core changes nothing the driver keeps.
LEMMA CoreStep == ASSUME IInv, Core \/ UNCHANGED vars PROVE IInv'
<1>1. UNCHANGED <<late, registered, op, leg, saved, irq_busy, ipc, en, iser, status, pc, ret>>
  BY DEF Core, Fetch, Discard, Address, WriteByte, ReadByte, Refuse, LoseArbitration, Drop,
         Abandon, driver, thread, step, config, setup, irq, bits, vars
<1>2. Shapes' /\ Calls' /\ Armed' /\ Asked' /\ Owned'
  BY <1>1 DEF IInv, Shapes, Calls, Calling, Armed, Asked, Owned, Free, Halfway
<1>3. Between' /\ Ended'
  BY <1>1 DEF IInv, Between, Ended, Free, Halfway, Retryable, Leaves, restart
<1> QED
  BY <1>2, <1>3 DEF IInv

LEMMA Inductive == ASSUME IInv, [Next]_vars PROVE IInv'
<1>1. master_tx \/ master_rx \/ master_tx_rx => IInv'
  BY RetryStep, SecondStep, ReturnStep DEF master_tx, master_rx, master_tx_rx, Halfway
<1> QED
  BY <1>1, TransferStep, RegisterStep, CallStep, AskStep, AwaitAbortStep, AnswerStep, IsrStep,
     CoreStep
     DEF Next, Continue

LEMMA Always == Spec => []IInv
BY Initially, Inductive, PTL DEF Spec

-----------------------------------------------------------------------------
(* What the commands of a transaction have done                            *)

A == Address10

\* Commands of the write leg of call r, and of all.
Writing(r) == IF r.kind = "rx" THEN 0 ELSE A + r.tx
Whole(r) == Writing(r) + IF r.rx > 0 THEN A + r.rx ELSE 0

\* The command that follows k others.
Value(r, k) ==
  LET n == k - Writing(r)
  IN  IF k < Writing(r) THEN IF k < A THEN W ELSE k - A + 1 ELSE IF n < A THEN R ELSE 0

Starts(r, k) == r.kind = "tx_rx" /\ k = Writing(r)

Stops(r, k) == (r.kind = "tx" \/ r.rx > 0) /\ k + 1 = Whole(r)

Nth(r, k) == [val |-> Value(r, k), sta |-> Starts(r, k), sto |-> Stops(r, k)]

\* The bus when e commands are done, the bytes written and those answered.
PhaseAt(r, e) ==
  LET n == e - Writing(r)
  IN  IF e < Writing(r) THEN IF e = 0 THEN "idle" ELSE IF e < A THEN "address" ELSE "write"
      ELSE IF n = 0 THEN IF r.kind = "tx_rx" THEN "write" ELSE "idle"
      ELSE IF n < A THEN "address" ELSE IF n < A + r.rx THEN "read" ELSE "idle"

WroteAt(r, e) ==
  IF r.kind = "rx" \/ e < A THEN 0 ELSE IF e < Writing(r) THEN e - A ELSE r.tx

AnsweredAt(r, e) == IF e < Writing(r) + A THEN 0 ELSE e - Writing(r) - A

\* The numbers from 1 to n.
UpTo(n) == [k \in 1 .. n |-> k]

\* The bytes answered are in the buffer and the FIFO, in order, unless some were discarded.
Received(n) ==
  /\ Len(buf) + Len(rxq) <= n
  /\ Len(buf) + Len(rxq) = n =>
       (\A i \in 1 .. Len(buf) : buf[i] = i) /\ (\A i \in 1 .. Len(rxq) : rxq[i] = Len(buf) + i)

Caught(r, e) == Received(AnsweredAt(r, e))

Heard(r, e) ==
  e > 0 => /\ target.wrote = UpTo(WroteAt(r, e))
           /\ target.answered = AnsweredAt(r, e)
           /\ e = Whole(r) /\ ~(r.kind = "tx_rx" /\ r.rx = 0) => target.stopped

\* Of the s commands of r that were written e are done, and the others wait.
Pending(r, s, e) ==
  /\ s = e + Len(cur) + Len(cmds)
  /\ cur # <<>> => cur[1] = Nth(r, e)
  /\ \A i \in 1 .. Len(cmds) : cmds[i] = Nth(r, e + Len(cur) + i - 1)

Intact(r, s, e) ==
  /\ ~NACK /\ ~ARB
  /\ Pending(r, s, e) /\ phase = PhaseAt(r, e)
  /\ Heard(r, e) /\ Caught(r, e)

Carried(r, s) == \E e \in Nat : Intact(r, s, e)

\* An error came before the first read.
Failed == cur = <<>> /\ phase = "idle" /\ rxq = <<>> /\ buf = <<>>

Flagged == NACK \/ ARB

-----------------------------------------------------------------------------
(* The invariant, the data, which holds as long as no wait has run out     *)

Words == [val : Int, sta : BOOLEAN, sto : BOOLEAN]

DataTypes ==
  /\ queued \in Nat /\ buf \in Seq(Int) /\ rxq \in Seq(Int)
  /\ cmds \in Seq(Words) /\ cur \in Seq(Words) /\ Len(cur) <= 1
  /\ target \in [wrote : Seq(Int), answered : Int, stopped : BOOLEAN]
  /\ ARB => bus = "shares"

\* The call that runs has a transaction on the bus.
Going ==
  \/ pc \in {"send", "check", "drain", "collect", "wait", "disable", "clear", "arm"}
  \/ pc = "end" /\ Halfway /\ status = "SUCCESS"
  \/ pc = "begin" /\ restart /\ (op.irq => registered)

\* Commands written.
Sent == IF restart /\ pc # "begin" THEN A + op.tx + queued ELSE queued

GoingOn ==
  Going =>
    \/ Carried(op, Sent)
    \/ Failed /\ IF pc \in {"clear", "arm"} THEN cmds = <<>> ELSE Flagged

\* How far the call is.
Progress ==
  /\ pc = "send" => queued < Total
  /\ pc = "check" => queued \in 1 .. Total
  /\ pc = "drain" => queued < Total
  /\ pc = "collect" => queued = Total /\ status = "SUCCESS"
  /\ pc \in {"drain", "collect"} => leg = "read"
  /\ pc \in {"clear", "arm"} => queued = Total
  /\ pc \in {"send", "check", "drain", "collect", "wait", "disable", "clear", "arm"} => Size > 0
  /\ pc = "end" /\ Halfway => status # "TIMEOUT"
  /\ pc = "end" /\ Going => queued = A + op.tx
  /\ pc = "begin" /\ Going => queued = A + op.tx

Waiting ==
  /\ pc \in {"wait", "disable"} =>
       /\ queued <= Total
       /\ status \in {"SUCCESS", "TIMEOUT", "NACK_ERR", "ARB_LOST_ERR"}
       /\ status = "SUCCESS" => queued = Total /\ ~Halfway /\ (leg = "read" => Len(buf) = op.rx)
       /\ status = "TIMEOUT" => AtRest /\ rxq = <<>>
       /\ status \in {"NACK_ERR", "ARB_LOST_ERR"} => Flagged
  /\ pc \in {"disable", "abort"} => ~is_busy

Job ==
  irq_busy # 0 =>
    /\ job \in Requests
    /\ Carried(job, Whole(job)) \/ (Failed /\ cmds = <<>>)
    /\ irq_busy = 1 => job.kind = "tx"
    /\ irq_busy = 2 => job.rx > 0 /\ (ipc \in {"wait", "disable"} => Len(buf) = job.rx)
    /\ ipc = "disable" => ~is_busy
    /\ ipc = "read" => irq_busy = 2

Rest == ~en => ~is_busy /\ rxq = <<>>

Finished(result) ==
  result = "SUCCESS" /\ ~op.irq /\ bus # "shares" /\ ~(op.kind = "tx_rx" /\ op.rx = 0)
    => Done(op) /\ ~en

Over ==
  /\ pc = "end" /\ ~Halfway => Finished(status)
  /\ pc = "idle" /\ op.kind \in {"tx", "rx", "tx_rx"} => Finished(ret)

Data == DataTypes /\ GoingOn /\ Progress /\ Waiting /\ Job /\ Rest /\ Over

-----------------------------------------------------------------------------
(* Where a command stands in its transaction                               *)

LEMMA RequestTypes ==
  ASSUME NEW r \in Requests
  PROVE  /\ r.tx \in Nat /\ r.rx \in Nat /\ r.irq \in BOOLEAN
         /\ \/ r.kind = "tx" /\ r.tx > 0 /\ r.rx = 0
            \/ r.kind = "rx" /\ r.tx = 0 /\ r.rx > 0
            \/ r.kind = "tx_rx" /\ r.tx > 0
BY I2cAssumption DEF Requests

LEMMA AddressSize == A \in 1 .. 2 /\ A \in Nat /\ (A = 2 <=> wide)
BY DEF A, Address10

LEMMA WholeTypes ==
  ASSUME NEW r \in Requests
  PROVE  /\ Writing(r) \in Nat /\ Whole(r) \in Nat /\ Writing(r) <= Whole(r)
         /\ r.rx > 0 => Whole(r) = Writing(r) + A + r.rx
         /\ r.rx = 0 => Whole(r) = Writing(r)
         /\ r.kind = "rx" => Writing(r) = 0
         /\ r.kind # "rx" => Writing(r) = A + r.tx
BY RequestTypes, AddressSize DEF Writing, Whole

Excused(r) == r.kind = "tx_rx" /\ r.rx = 0

\* The e-th command is one of an address, after a START or a RESTART.
IsAddress(r, e) ==
  /\ PhaseAt(r, e) \in {"idle", "address"} \/ Nth(r, e).sta
  /\ ~Nth(r, e).sto
  /\ PhaseAt(r, e) = "idle" <=> e = 0
  /\ PhaseAt(r, e + 1) = IF wide /\ PhaseAt(r, e) # "address" THEN "address"
                         ELSE IF Nth(r, e).val = W THEN "write" ELSE "read"
  /\ AnsweredAt(r, e) = 0 /\ AnsweredAt(r, e + 1) = 0
  /\ e = 0 => WroteAt(r, e + 1) = 0
  /\ e > 0 => WroteAt(r, e + 1) = WroteAt(r, e)
  /\ e + 1 # Whole(r)

\* It writes a byte.
IsWrite(r, e) ==
  /\ e > 0 /\ PhaseAt(r, e) = "write" /\ ~Nth(r, e).sta
  /\ WroteAt(r, e) \in Nat
  /\ Nth(r, e).val = WroteAt(r, e) + 1 /\ WroteAt(r, e + 1) = WroteAt(r, e) + 1
  /\ PhaseAt(r, e + 1) = IF Nth(r, e).sto THEN "idle" ELSE "write"
  /\ AnsweredAt(r, e) = 0 /\ AnsweredAt(r, e + 1) = 0
  /\ e + 1 = Whole(r) /\ ~Excused(r) => Nth(r, e).sto

\* It reads one.
IsRead(r, e) ==
  /\ e > 0 /\ PhaseAt(r, e) = "read" /\ ~Nth(r, e).sta
  /\ PhaseAt(r, e + 1) = IF Nth(r, e).sto THEN "idle" ELSE "read"
  /\ AnsweredAt(r, e) \in Nat /\ AnsweredAt(r, e + 1) = AnsweredAt(r, e) + 1
  /\ WroteAt(r, e + 1) = WroteAt(r, e)
  /\ e + 1 = Whole(r) => Nth(r, e).sto

LEMMA Fields ==
  ASSUME NEW r, NEW e
  PROVE  /\ Nth(r, e).val = Value(r, e)
         /\ Nth(r, e).sta <=> Starts(r, e)
         /\ Nth(r, e).sto <=> Stops(r, e)
BY Zenon DEF Nth

LEMMA Places ==
  ASSUME NEW r \in Requests, NEW e \in Nat, e < Whole(r)
  PROVE  IsAddress(r, e) \/ IsWrite(r, e) \/ IsRead(r, e)
<1> USE RequestTypes, AddressSize, WholeTypes
<1> DEFINE w == Writing(r)
<1>1. w \in Nat /\ e + 1 \in Nat
  OBVIOUS
<1>2. CASE e < w /\ e < A
  <2>1. r.kind # "rx" /\ w = A + r.tx /\ r.tx > 0
    BY <1>2
  <2>2. Nth(r, e).val = W /\ ~Nth(r, e).sta /\ ~Nth(r, e).sto
    BY <1>2, <2>1, Fields DEF Value, Starts, Stops
  <2>3. PhaseAt(r, e) = (IF e = 0 THEN "idle" ELSE "address")
        /\ PhaseAt(r, e + 1) = (IF e + 1 < A THEN "address" ELSE "write")
    BY <1>2, <2>1 DEF PhaseAt
  <2>4. /\ AnsweredAt(r, e) = 0 /\ AnsweredAt(r, e + 1) = 0
        /\ WroteAt(r, e) = 0 /\ WroteAt(r, e + 1) = 0
    BY <1>2, <2>1 DEF AnsweredAt, WroteAt
  <2>5. e + 1 # Whole(r)
    BY <1>2, <2>1
  <2>6. e = 0 \/ (e = 1 /\ wide)
    BY <1>2
  <2> QED
    BY <1>2, <2>2, <2>3, <2>4, <2>5, <2>6 DEF IsAddress
<1>3. CASE e < w /\ e >= A
  <2>1. r.kind # "rx" /\ w = A + r.tx /\ e > 0
    BY <1>3
  <2>2. /\ Nth(r, e).val = e - A + 1 /\ ~Nth(r, e).sta
        /\ Nth(r, e).sto <=> e + 1 = w /\ r.kind = "tx"
    BY <1>3, <2>1, Fields DEF Value, Starts, Stops
  <2>3. PhaseAt(r, e) = "write"
        /\ PhaseAt(r, e + 1) = (IF e + 1 = w /\ r.kind = "tx" THEN "idle" ELSE "write")
    BY <1>3, <2>1 DEF PhaseAt
  <2>4. /\ AnsweredAt(r, e) = 0 /\ AnsweredAt(r, e + 1) = 0
        /\ WroteAt(r, e) = e - A /\ WroteAt(r, e + 1) = e + 1 - A
    BY <1>3, <2>1 DEF AnsweredAt, WroteAt
  <2>5. e + 1 = Whole(r) /\ ~Excused(r) => e + 1 = w /\ r.kind = "tx"
    BY <1>3, <2>1 DEF Excused
  <2> QED
    BY <1>3, <2>1, <2>2, <2>3, <2>4, <2>5 DEF IsWrite
<1>4. CASE e >= w /\ e < w + A
  <2>1. r.kind # "tx" /\ r.rx > 0 /\ Whole(r) = w + A + r.rx
    BY <1>4
  <2>2. /\ Nth(r, e).val = R /\ ~Nth(r, e).sto
        /\ Nth(r, e).sta <=> r.kind = "tx_rx" /\ e = w
    BY <1>4, <2>1, Fields DEF Value, Starts, Stops
  <2>3. /\ PhaseAt(r, e) = (IF e = w THEN IF r.kind = "tx_rx" THEN "write" ELSE "idle"
                           ELSE "address")
        /\ PhaseAt(r, e + 1) = (IF e + 1 < w + A THEN "address" ELSE "read")
    BY <1>4, <2>1 DEF PhaseAt
  <2>4. /\ AnsweredAt(r, e) = 0 /\ AnsweredAt(r, e + 1) = 0
        /\ WroteAt(r, e) = r.tx /\ WroteAt(r, e + 1) = r.tx
    BY <1>4, <2>1 DEF AnsweredAt, WroteAt
  <2>5. e + 1 # Whole(r) /\ (e = 0 => r.tx = 0)
    BY <1>4, <2>1
  <2>6. e = w \/ (e = w + 1 /\ wide)
    BY <1>4
  <2>7. PhaseAt(r, e) = "idle" <=> e = 0
    BY <1>4, <2>1, <2>3
  <2>8. R # W
    BY DEF R, W
  <2> QED
    BY <1>4, <2>1, <2>2, <2>3, <2>4, <2>5, <2>6, <2>7, <2>8 DEF IsAddress
<1>5. CASE e >= w + A
  <2>1. r.kind # "tx" /\ r.rx > 0 /\ Whole(r) = w + A + r.rx /\ e > 0
    BY <1>5
  <2>2. /\ ~Nth(r, e).sta
        /\ Nth(r, e).sto <=> e + 1 = Whole(r)
    BY <1>5, <2>1, Fields DEF Value, Starts, Stops
  <2>3. PhaseAt(r, e) = "read" /\ PhaseAt(r, e + 1) = (IF e + 1 = Whole(r) THEN "idle" ELSE "read")
    BY <1>5, <2>1 DEF PhaseAt
  <2>4. /\ AnsweredAt(r, e) = e - w - A /\ AnsweredAt(r, e + 1) = e + 1 - w - A
        /\ WroteAt(r, e) = r.tx /\ WroteAt(r, e + 1) = r.tx
    BY <1>5, <2>1 DEF AnsweredAt, WroteAt
  <2> QED
    BY <1>5, <2>1, <2>2, <2>3, <2>4 DEF IsRead
<1> QED
  BY <1>1, <1>2, <1>3, <1>4, <1>5

\* Whoever has the whole transaction executed has it done.
LEMMA AtEnd ==
  ASSUME NEW r \in Requests
  PROVE  /\ Whole(r) > 0
         /\ ~Excused(r) => PhaseAt(r, Whole(r)) = "idle"
         /\ WroteAt(r, Whole(r)) = r.tx /\ AnsweredAt(r, Whole(r)) = r.rx
<1> USE RequestTypes, AddressSize, WholeTypes
<1>1. Whole(r) > 0
  OBVIOUS
<1>2. ~Excused(r) => PhaseAt(r, Whole(r)) = "idle"
  BY DEF PhaseAt, Excused
<1>3. WroteAt(r, Whole(r)) = r.tx
  BY DEF WroteAt
<1>4. AnsweredAt(r, Whole(r)) = r.rx
  BY DEF AnsweredAt
<1> QED
  BY <1>1, <1>2, <1>3, <1>4

LEMMA AnsweredTypes ==
  ASSUME NEW r \in Requests, NEW e \in Nat
  PROVE  /\ AnsweredAt(r, e) \in Nat
         /\ e <= Whole(r) => AnsweredAt(r, e) <= r.rx
         /\ e <= Writing(r) => AnsweredAt(r, e) = 0
BY RequestTypes, AddressSize, WholeTypes DEF AnsweredAt

-----------------------------------------------------------------------------
(* The core carries a transaction on, or it fails before the first read    *)

LEMMA Counting ==
  /\ UpTo(0) = <<>>
  /\ \A n \in Nat : /\ UpTo(n) \in Seq(Int) /\ Len(UpTo(n)) = n
                    /\ \A i \in 1 .. n : UpTo(n)[i] = i
<1>1. ASSUME NEW n \in Nat
      PROVE  UpTo(n) \in Seq(Int) /\ Len(UpTo(n)) = n /\ \A i \in 1 .. n : UpTo(n)[i] = i
  BY DEF UpTo
<1>2. UpTo(0) = <<>>
  BY DEF UpTo
<1> QED
  BY <1>1, <1>2

LEMMA CountOn == ASSUME NEW n \in Nat PROVE Append(UpTo(n), n + 1) = UpTo(n + 1)
<1>1. n + 1 \in Nat
  OBVIOUS
<1>2. UpTo(n) \in Seq(Int) /\ Len(UpTo(n)) = n /\ \A i \in 1 .. n : UpTo(n)[i] = i
  BY Counting
<1>3. /\ UpTo(n + 1) \in Seq(Int) /\ Len(UpTo(n + 1)) = n + 1
      /\ \A i \in 1 .. n + 1 : UpTo(n + 1)[i] = i
  BY <1>1, Counting
<1>4. PICK s \in Seq(Int), t \in Seq(Int) : s = Append(UpTo(n), n + 1) /\ t = UpTo(n + 1)
  BY <1>2, <1>3
<1>5. Len(s) = n + 1 /\ Len(t) = n + 1
  BY <1>2, <1>3, <1>4
<1>6. ASSUME NEW i \in 1 .. n + 1 PROVE s[i] = t[i]
  <2>1. CASE i <= n
    BY <1>2, <1>3, <1>4, <2>1
  <2>2. CASE i = n + 1
    BY <1>2, <1>3, <1>4, <2>2
  <2> QED
    BY <2>1, <2>2
<1>7. s = t
  BY <1>5, <1>6
<1> QED
  BY <1>4, <1>7

\* A sequence that counts from 1 is UpTo.
LEMMA IsUpTo ==
  ASSUME NEW s \in Seq(Int), \A i \in 1 .. Len(s) : s[i] = i
  PROVE  s = UpTo(Len(s))
<1>1. Len(s) \in Nat
  OBVIOUS
<1>2. PICK t \in Seq(Int) : t = UpTo(Len(s)) /\ Len(t) = Len(s) /\ \A i \in 1 .. Len(s) : t[i] = i
  BY <1>1, Counting
<1>3. s = t
  BY <1>2
<1> QED
  BY <1>2, <1>3

LEMMA SizeOf ==
  ASSUME DataTypes
  PROVE  /\ Len(cmds) \in Nat /\ Len(cur) \in 0 .. 1
         /\ cur = <<>> <=> Len(cur) = 0
         /\ cmds = <<>> <=> Len(cmds) = 0
<1>1. cmds \in Seq(Words) /\ cur \in Seq(Words) /\ Len(cur) <= 1
  BY DEF DataTypes
<1>2. \A s \in Seq(Words) : Len(s) \in Nat /\ (s = <<>> <=> Len(s) = 0)
  OBVIOUS
<1>3. PICK n \in Nat : n = Len(cur)
  BY <1>1, <1>2
<1>4. n <= 1
  BY <1>1, <1>3
<1>5. Len(cmds) \in Nat /\ (cmds = <<>> <=> Len(cmds) = 0)
  BY <1>1, <1>2
<1>6. Len(cur) \in Nat /\ (cur = <<>> <=> Len(cur) = 0)
  BY <1>1, <1>2
<1>7. Len(cur) \in 0 .. 1
  BY <1>3, <1>4
<1> QED
  BY <1>5, <1>6, <1>7, Zenon

\* The next command is on the bus and done.
LEMMA Executed ==
  ASSUME DataTypes, NEW r, NEW s \in Nat, NEW e \in Nat, Pending(r, s, e), cur # <<>>,
         UNCHANGED wide, cur' = <<>>, cmds' = cmds
  PROVE  Pending(r, s, e + 1)' /\ e + 1 <= s /\ cur[1] = Nth(r, e)
<1>1. Len(cur) = 1 /\ Len(<<>>) = 0 /\ Len(cmds) \in Nat
  BY SizeOf
<1>2. s = e + 1 + Len(cmds) /\ cur[1] = Nth(r, e)
  BY <1>1 DEF Pending
<1>3. ASSUME NEW i \in 1 .. Len(cmds) PROVE cmds[i] = Nth(r, e + 1 + Len(<<>>) + i - 1)
  <2>1. e + Len(cur) + i - 1 = e + 1 + Len(<<>>) + i - 1
    BY <1>1
  <2>2. cmds[i] = Nth(r, e + Len(cur) + i - 1)
    BY DEF Pending
  <2> QED
    BY <2>1, <2>2
<1>4. Pending(r, s, e + 1)' <=> /\ s = e + 1 + Len(<<>>) + Len(cmds)
                                /\ \A i \in 1 .. Len(cmds) :
                                     cmds[i] = Nth(r, e + 1 + Len(<<>>) + i - 1)'
  BY DEF Pending
<1> QED
  BY <1>1, <1>2, <1>3, <1>4 DEF Pending, Nth, Value, Starts, Stops, Writing, Whole, A, Address10

\* Places do not depend on anything that changes.
LEMMA Steady ==
  ASSUME UNCHANGED wide, NEW r, NEW e
  PROVE  /\ Nth(r, e)' = Nth(r, e) /\ Whole(r)' = Whole(r)
         /\ PhaseAt(r, e)' = PhaseAt(r, e)
         /\ WroteAt(r, e)' = WroteAt(r, e) /\ AnsweredAt(r, e)' = AnsweredAt(r, e)
<1>1. Address10' = Address10
  BY DEF Address10
<1> QED
  BY <1>1 DEF Nth, Value, Starts, Stops, Whole, PhaseAt, WroteAt, AnsweredAt, Writing, A

\* What remains to be shown when the command on the bus is done.
LEMMA CommandDone ==
  ASSUME DataTypes, NEW r \in Requests, NEW s \in Nat, NEW e \in Nat, Intact(r, s, e), cur # <<>>,
         UNCHANGED <<wide, NACK, ARB, buf, cmds>>, cur' = <<>>,
         phase' = PhaseAt(r, e + 1),
         target'.wrote = UpTo(WroteAt(r, e + 1)), target'.answered = AnsweredAt(r, e + 1),
         e + 1 = Whole(r) /\ ~Excused(r) => target'.stopped,
         Caught(r, e + 1)'
  PROVE  Intact(r, s, e + 1)'
<1>1. Pending(r, s, e + 1)'
  BY Executed DEF Intact
<1>2. e + 1 \in Nat
  OBVIOUS
<1>3. Heard(r, e + 1)'
  BY <1>2, Steady DEF Heard, Excused
<1>4. phase' = PhaseAt(r, e + 1)'
  BY <1>2, Steady
<1>5. ~NACK' /\ ~ARB'
  BY Zenon DEF Intact
<1> QED
  BY <1>1, <1>3, <1>4, <1>5 DEF Intact

LEMMA ReceivedNone == ASSUME DataTypes PROVE Received(0) <=> buf = <<>> /\ rxq = <<>>
<1>1. Len(buf) \in Nat /\ Len(rxq) \in Nat /\ (buf = <<>> <=> Len(buf) = 0)
      /\ (rxq = <<>> <=> Len(rxq) = 0)
  <2>1. \A q \in Seq(Int) : Len(q) \in Nat /\ (q = <<>> <=> Len(q) = 0)
    OBVIOUS
  <2> QED
    BY <2>1 DEF DataTypes
<1>2. Received(0) => Len(buf) = 0 /\ Len(rxq) = 0
  BY <1>1 DEF Received
<1>3. Len(buf) = 0 /\ Len(rxq) = 0 => Received(0)
  BY <1>1 DEF Received
<1> QED
  BY <1>1, <1>2, <1>3

\* The command on the bus is the one the place says.
LEMMA OnTheBus ==
  ASSUME DataTypes, NEW r \in Requests, NEW s \in Nat, NEW e \in Nat, Intact(r, s, e),
         s <= Whole(r),
         cur # <<>>
  PROVE  /\ Command1 = Nth(r, e) /\ e < Whole(r)
         /\ \/ Addressing /\ IsAddress(r, e)
            \/ ~Addressing /\ phase = "write" /\ IsWrite(r, e)
            \/ ~Addressing /\ phase = "read" /\ IsRead(r, e)
<1>1. Command1 = Nth(r, e)
  BY DEF Intact, Pending, Command1
<1>2. s = e + Len(cur) + Len(cmds) /\ Len(cur) = 1 /\ Len(cmds) \in Nat
  BY SizeOf DEF Intact, Pending
<1>3. e < Whole(r)
  BY <1>2, WholeTypes
<1>4. phase = PhaseAt(r, e)
  BY DEF Intact
<1>5. CASE IsAddress(r, e)
  BY <1>1, <1>3, <1>4, <1>5 DEF IsAddress, Addressing
<1>6. CASE IsWrite(r, e)
  BY <1>1, <1>3, <1>4, <1>6 DEF IsWrite, Addressing
<1>7. CASE IsRead(r, e)
  BY <1>1, <1>3, <1>4, <1>7 DEF IsRead, Addressing
<1> QED
  BY <1>3, <1>5, <1>6, <1>7, Places

LEMMA AddressDone ==
  ASSUME DataTypes, NEW r \in Requests, NEW s \in Nat, NEW e \in Nat, Intact(r, s, e),
         s <= Whole(r),
         Address
  PROVE  Intact(r, s, e + 1)'
<1>1. /\ cur # <<>> /\ Addressing /\ cur' = <<>>
      /\ phase' = IF Command1.sto THEN "idle"
                  ELSE IF wide /\ phase # "address" THEN "address"
                  ELSE IF Command1.val = W THEN "write" ELSE "read"
      /\ target' = IF phase = "idle" THEN [wrote |-> <<>>, answered |-> 0, stopped |-> FALSE]
                   ELSE target
      /\ UNCHANGED <<wide, NACK, ARB, buf, cmds, rxq>>
  BY DEF Address, Finish, driver, thread, step, config, setup, flags
<1>2. /\ Command1 = Nth(r, e) /\ IsAddress(r, e) /\ phase = PhaseAt(r, e)
  BY <1>1, OnTheBus DEF Intact
<1>3. phase' = PhaseAt(r, e + 1)
  BY <1>1, <1>2 DEF IsAddress
<1>4. target'.wrote = UpTo(WroteAt(r, e + 1)) /\ target'.answered = AnsweredAt(r, e + 1)
  <2>1. CASE e = 0
    BY <1>1, <1>2, <2>1, Counting DEF IsAddress
  <2>2. CASE e > 0
    BY <1>1, <1>2, <2>2 DEF IsAddress, Intact, Heard
  <2> QED
    BY <2>1, <2>2
<1>5. e + 1 # Whole(r)
  BY <1>2 DEF IsAddress
<1>6. Caught(r, e + 1)'
  BY <1>1, <1>2, Steady DEF IsAddress, Intact, Caught, Received
<1> QED
  BY <1>1, <1>3, <1>4, <1>5, <1>6, CommandDone, Zenon
LEMMA WriteDone ==
  ASSUME DataTypes, NEW r \in Requests, NEW s \in Nat, NEW e \in Nat, Intact(r, s, e),
         s <= Whole(r),
         WriteByte
  PROVE  Intact(r, s, e + 1)'
<1>1. /\ cur # <<>> /\ ~Addressing /\ phase = "write" /\ cur' = <<>>
      /\ phase' = IF Command1.sto THEN "idle" ELSE "write"
      /\ target' = [target EXCEPT !.wrote = Append(@, Command1.val), !.stopped = Command1.sto]
      /\ UNCHANGED <<wide, NACK, ARB, buf, cmds, rxq>>
  BY DEF WriteByte, Finish, driver, thread, step, config, setup, flags
<1>2. Command1 = Nth(r, e) /\ IsWrite(r, e)
  BY <1>1, OnTheBus
<1>3. phase' = PhaseAt(r, e + 1)
  BY <1>1, <1>2 DEF IsWrite
<1>4. /\ target'.wrote = Append(target.wrote, Command1.val) /\ target'.answered = target.answered
      /\ target'.stopped = Command1.sto
  BY <1>1, Zenon DEF DataTypes
<1>5. /\ target.wrote = UpTo(WroteAt(r, e)) /\ target.answered = AnsweredAt(r, e)
      /\ WroteAt(r, e) \in Nat /\ Command1.val = WroteAt(r, e) + 1
  BY <1>2 DEF IsWrite, Intact, Heard
<1>6. target'.wrote = UpTo(WroteAt(r, e + 1)) /\ target'.answered = AnsweredAt(r, e + 1)
  BY <1>2, <1>4, <1>5, CountOn DEF IsWrite
<1>7. e + 1 = Whole(r) /\ ~Excused(r) => target'.stopped
  BY <1>2, <1>4 DEF IsWrite
<1>8. Caught(r, e + 1)'
  BY <1>1, <1>2, Steady DEF IsWrite, Intact, Caught, Received
<1> QED
  BY <1>1, <1>3, <1>6, <1>7, <1>8, CommandDone

LEMMA Reception ==
  ASSUME DataTypes, NEW n \in Nat, Received(n), UNCHANGED buf,
         rxq' = IF Len(rxq) < FIFO_DEPTH THEN Append(rxq, n + 1) ELSE rxq
  PROVE  Received(n + 1)'
<1>1. rxq \in Seq(Int) /\ Len(rxq) \in Nat /\ Len(buf) \in Nat
  BY DEF DataTypes
<1>2. CASE Len(rxq) < FIFO_DEPTH
  <2>1. Len(rxq') = Len(rxq) + 1 /\ \A i \in 1 .. Len(rxq) + 1 :
          rxq'[i] = IF i <= Len(rxq) THEN rxq[i] ELSE n + 1
    BY <1>1, <1>2
  <2>2. Len(buf') = Len(buf) /\ Len(buf') + Len(rxq') <= n + 1
    BY <1>1, <2>1 DEF Received
  <2>3. ASSUME Len(buf') + Len(rxq') = n + 1
        PROVE  /\ \A i \in 1 .. Len(buf') : buf'[i] = i
               /\ \A i \in 1 .. Len(rxq') : rxq'[i] = Len(buf') + i
    <3>1. /\ Len(buf) + Len(rxq) = n
          /\ \A i \in 1 .. Len(buf) : buf[i] = i
          /\ \A i \in 1 .. Len(rxq) : rxq[i] = Len(buf) + i
      BY <1>1, <2>1, <2>2, <2>3 DEF Received
    <3>2. ASSUME NEW i \in 1 .. Len(rxq) + 1 PROVE rxq'[i] = Len(buf) + i
      <4>1. CASE i <= Len(rxq)
        BY <1>1, <2>1, <3>1, <4>1
      <4>2. CASE i = Len(rxq) + 1
        BY <1>1, <2>1, <3>1, <4>2
      <4> QED
        BY <1>1, <4>1, <4>2
    <3> QED
      BY <2>1, <2>2, <3>1, <3>2
  <2> QED
    BY <2>2, <2>3 DEF Received
<1>3. CASE ~(Len(rxq) < FIFO_DEPTH)
  BY <1>1, <1>3 DEF Received
<1> QED
  BY <1>2, <1>3

LEMMA ReadDone ==
  ASSUME DataTypes, NEW r \in Requests, NEW s \in Nat, NEW e \in Nat, Intact(r, s, e),
         s <= Whole(r),
         ReadByte
  PROVE  Intact(r, s, e + 1)'
<1>1. /\ cur # <<>> /\ ~Addressing /\ phase = "read" /\ cur' = <<>>
      /\ phase' = IF Command1.sto THEN "idle" ELSE "read"
      /\ target' = [target EXCEPT !.answered = @ + 1, !.stopped = Command1.sto]
      /\ rxq' = IF Len(rxq) < FIFO_DEPTH THEN Append(rxq, target'.answered) ELSE rxq
      /\ UNCHANGED <<wide, NACK, ARB, buf, cmds>>
  BY DEF ReadByte, Finish, driver, thread, step, config, setup, flags
<1>2. Command1 = Nth(r, e) /\ IsRead(r, e)
  BY <1>1, OnTheBus
<1>3. phase' = PhaseAt(r, e + 1)
  BY <1>1, <1>2 DEF IsRead
<1>4. /\ target'.wrote = target.wrote /\ target'.answered = target.answered + 1
      /\ target'.stopped = Command1.sto
  BY <1>1, Zenon DEF DataTypes
<1>5. /\ target.wrote = UpTo(WroteAt(r, e)) /\ target.answered = AnsweredAt(r, e)
      /\ AnsweredAt(r, e) \in Nat /\ AnsweredAt(r, e + 1) = AnsweredAt(r, e) + 1
      /\ WroteAt(r, e + 1) = WroteAt(r, e)
  BY <1>2 DEF IsRead, Intact, Heard
<1>6. target'.wrote = UpTo(WroteAt(r, e + 1)) /\ target'.answered = AnsweredAt(r, e + 1)
  BY <1>4, <1>5
<1>7. e + 1 = Whole(r) /\ ~Excused(r) => target'.stopped
  BY <1>2, <1>4 DEF IsRead
<1>8. Caught(r, e + 1)'
  <2>1. PICK n \in Nat : n = AnsweredAt(r, e)
    BY <1>5
  <2>2. Received(n) /\ rxq' = IF Len(rxq) < FIFO_DEPTH THEN Append(rxq, n + 1) ELSE rxq
    BY <1>1, <1>4, <1>5, <2>1 DEF Intact, Caught
  <2>3. Received(n + 1)'
    BY <1>1, <2>2, Reception
  <2>4. AnsweredAt(r, e + 1)' = n + 1
    BY <1>1, <1>5, <2>1, Steady
  <2> QED
    BY <2>3, <2>4 DEF Caught, Received
<1> QED
  BY <1>1, <1>3, <1>6, <1>7, <1>8, CommandDone

\* A command is taken from the FIFO.
LEMMA Fetched ==
  ASSUME DataTypes, NEW r \in Requests, NEW s \in Nat, NEW e \in Nat, Intact(r, s, e), Fetch
  PROVE  Intact(r, s, e)'
<1>1. /\ cur = <<>> /\ cmds # <<>> /\ cur' = <<Head(cmds)>> /\ cmds' = Tail(cmds)
      /\ UNCHANGED <<wide, NACK, ARB, buf, rxq, phase, target>>
  BY DEF Fetch, driver, thread, step, config, setup, flags
<1>2. cmds \in Seq(Words) /\ Len(cur) = 0 /\ Len(cmds) \in Nat /\ Len(cmds) > 0
  BY <1>1, SizeOf DEF DataTypes
<1>3. /\ Len(cmds') = Len(cmds) - 1 /\ \A i \in 1 .. Len(cmds) - 1 : cmds'[i] = cmds[i + 1]
      /\ Len(cur') = 1 /\ cur'[1] = cmds[1]
  BY <1>1, <1>2
<1>4. s = e + Len(cmds) /\ \A i \in 1 .. Len(cmds) : cmds[i] = Nth(r, e + i - 1)
  BY <1>2 DEF Intact, Pending
<1>6. cur'[1] = Nth(r, e)
  <2>1. cmds[1] = Nth(r, e + 1 - 1) /\ e + 1 - 1 = e
    BY <1>2, <1>4
  <2> QED
    BY <1>3, <2>1
<1>7. ASSUME NEW i \in 1 .. Len(cmds) - 1 PROVE cmds'[i] = Nth(r, e + 1 + i - 1)
  <2>1. i + 1 \in 1 .. Len(cmds) /\ e + (i + 1) - 1 = e + 1 + i - 1
    BY <1>2
  <2>2. cmds[i + 1] = Nth(r, e + (i + 1) - 1)
    BY <1>4, <2>1
  <2> QED
    BY <1>2, <1>3, <2>1, <2>2
<1>8. Pending(r, s, e)'
  <2>1. s = e + 1 + Len(cmds') /\ \A i \in 1 .. Len(cmds') : cmds'[i] = Nth(r, e + 1 + i - 1)
    BY <1>2, <1>3, <1>4, <1>7
  <2>2. s = e + Len(cur') + Len(cmds') /\ cur'[1] = Nth(r, e)
    BY <1>3, <1>6, <2>1
  <2>3. \A i \in 1 .. Len(cmds') : cmds'[i] = Nth(r, e + Len(cur') + i - 1)
    BY <1>3, <2>1
  <2> QED
    BY <1>1, <2>2, <2>3 DEF Pending, Nth, Value, Starts, Stops, Writing, Whole, A, Address10
<1>9. phase' = PhaseAt(r, e)' /\ Heard(r, e)' /\ Caught(r, e)'
  BY <1>1, Steady DEF Intact, Heard, Caught, Received
<1> QED
  BY <1>1, <1>8, <1>9 DEF Intact
\* The target refuses, or arbitration is lost, before a byte was read.
LEMMA Broken ==
  ASSUME DataTypes, NEW r \in Requests, NEW s \in Nat, NEW e \in Nat, Intact(r, s, e),
         s <= Whole(r),
         Refuse \/ LoseArbitration
  PROVE  Failed' /\ Flagged' /\ cmds' = <<>>
<1>1. /\ cur # <<>> /\ (Addressing \/ phase = "write")
      /\ phase' = "idle" /\ cur' = <<>> /\ cmds' = <<>> /\ UNCHANGED <<buf, rxq>>
      /\ NACK' = TRUE \/ ARB' = TRUE
  BY DEF Refuse, LoseArbitration, Drop, Abandon, driver
<1>2. AnsweredAt(r, e) = 0
  BY <1>1, OnTheBus DEF IsAddress, IsWrite
<1>3. buf = <<>> /\ rxq = <<>>
  BY <1>2, ReceivedNone DEF Intact, Caught
<1> QED
  BY <1>1, <1>3 DEF Failed, Flagged

\* What the core does to a transaction that goes on.
LEMMA CoreCarries ==
  ASSUME DataTypes, NEW r \in Requests, NEW s \in Nat, s <= Whole(r), Carried(r, s), Core,
         ~Drop
  PROVE  Carried(r, s)' \/ (Failed' /\ Flagged' /\ cmds' = <<>>)
<1>1. PICK e \in Nat : Intact(r, s, e)
  BY DEF Carried
<1>2. ~Discard
  BY <1>1 DEF Intact, Discard
<1>3. e + 1 \in Nat
  OBVIOUS
<1>4. CASE Fetch
  BY <1>1, <1>4, Fetched DEF Carried
<1>5. CASE Address
  BY <1>1, <1>3, <1>5, AddressDone DEF Carried
<1>6. CASE WriteByte
  BY <1>1, <1>3, <1>6, WriteDone DEF Carried
<1>7. CASE ReadByte
  BY <1>1, <1>3, <1>7, ReadDone DEF Carried
<1>8. CASE Refuse \/ LoseArbitration
  BY <1>1, <1>8, Broken
<1> QED
  BY <1>2, <1>4, <1>5, <1>6, <1>7, <1>8 DEF Core

\* And to one that has failed.
LEMMA CoreFailed ==
  ASSUME Failed, Flagged \/ cmds = <<>>, Core, ~Drop
  PROVE  Failed' /\ Flagged' = Flagged /\ (cmds = <<>> => cmds' = <<>>)
<1>1. cur = <<>>
  BY DEF Failed
<1>2. Discard
  BY <1>1 DEF Core, Fetch, Address, WriteByte, ReadByte, Refuse, LoseArbitration, Flagged
<1> QED
  BY <1>2 DEF Discard, Failed, Flagged, driver, flags

\* Nothing happens at rest.
LEMMA CoreAtRest == ASSUME cur = <<>>, cmds = <<>>, ~Drop PROVE ~Core
BY DEF Core, Fetch, Discard, Address, WriteByte, ReadByte, Refuse, LoseArbitration

Transaction == <<wide, cmds, cur, phase, NACK, ARB, target, buf, rxq>>

\* What a transaction has done does not depend on the call.
LEMMA Kept ==
  ASSUME UNCHANGED Transaction, NEW r, NEW s
  PROVE  (Carried(r, s)' <=> Carried(r, s)) /\ (Failed' <=> Failed) /\ (Flagged' <=> Flagged)
<1>1. ASSUME NEW e PROVE Intact(r, s, e)' <=> Intact(r, s, e)
  BY DEF Transaction, Intact, Pending, Heard, Caught, Received, PhaseAt, WroteAt, AnsweredAt, Whole,
     Nth, Value, Starts, Stops, Writing, A, Address10
<1> QED
  BY <1>1 DEF Carried, Failed, Flagged, Transaction
-----------------------------------------------------------------------------
(* How much of its transaction a call has written                          *)

LEMMA SizeTypes ==
  ASSUME op \in Requests, leg \in {"write", "read"}, queued \in Nat
  PROVE  Size \in Nat /\ Total \in Nat /\ Total = A + Size /\ Sent \in Nat /\ Whole(op) \in Nat
BY RequestTypes, AddressSize, WholeTypes DEF Size, Total, Sent, A

LEMMA SentWithin ==
  ASSUME IInv, DataTypes, Progress, Waiting, late = "never", Going
  PROVE  /\ op \in Requests /\ Sent \in Nat /\ Sent <= Whole(op)
         /\ pc \in {"clear", "arm"} => Sent = Whole(op)
         /\ pc \in {"wait", "disable"} /\ status = "SUCCESS" => Sent = Whole(op)
<1>1. op \in Requests /\ leg \in {"write", "read"} /\ queued \in Nat
  BY DEF IInv, Shapes, Calls, Calling, Going, DataTypes
<1> USE RequestTypes, AddressSize, WholeTypes
<1>2. CASE pc = "begin" \/ pc = "end"
  <2>1. op.kind = "tx_rx" /\ Sent = queued /\ queued = A + op.tx
    BY <1>2 DEF Going, Progress, Sent, restart, Halfway
  <2> QED
    BY <1>1, <1>2, <2>1
<1>3. CASE pc \notin {"begin", "end"}
  <2>1. queued <= Total /\ Size > 0
        /\ (pc \in {"clear", "arm"} \/ (pc \in {"wait", "disable"} /\ status = "SUCCESS")
             => queued = Total)
    BY <1>1, <1>3, SizeTypes DEF Progress, Waiting, Going
  <2>2. pc \in {"clear", "arm"} \/ (pc \in {"wait", "disable"} /\ status = "SUCCESS")
          => ~Halfway
    BY <1>3 DEF Waiting, IInv, Owned
  <2>3. Total = A + Size
    BY <1>1, SizeTypes
  <2>4. CASE leg = "write"
    <3>1. Sent = queued /\ Size = op.tx /\ op.kind # "rx"
      BY <1>3, <2>4 DEF Sent, restart, Size, IInv, Calls, Calling, Going
    <3> QED
      BY <1>1, <2>1, <2>2, <2>3, <2>4, <3>1 DEF Halfway
  <2>5. CASE leg = "read"
    <3>1. /\ Size = op.rx /\ op.kind # "tx"
          /\ Sent = (IF op.kind = "tx_rx" THEN A + op.tx + queued ELSE queued)
      BY <1>1, <1>3, <2>5 DEF Sent, restart, Size, IInv, Calls, Calling, Going
    <3>2. Whole(op) = (IF op.kind = "tx_rx" THEN A + op.tx + A + op.rx ELSE A + op.rx)
      BY <1>1, <2>1, <3>1
    <3> QED
      BY <1>1, <2>1, <2>3, <3>1, <3>2
  <2> QED
    BY <1>1, <2>4, <2>5
<1> QED
  BY <1>2, <1>3

LEMMA NthTypes == ASSUME NEW r \in Requests, NEW k \in Nat PROVE Nth(r, k) \in Words
<1>1. Value(r, k) \in Int
  BY RequestTypes, AddressSize, WholeTypes DEF Value, W, R
<1>2. Starts(r, k) \in BOOLEAN /\ Stops(r, k) \in BOOLEAN
  BY DEF Starts, Stops
<1> QED
  BY <1>1, <1>2, Zenon DEF Nth, Words

LEMMA BoolEq == ASSUME NEW p \in BOOLEAN, NEW q \in BOOLEAN, p <=> q PROVE p = q
OBVIOUS

\* The command a call writes is the next of its transaction.
LEMMA NextCommand ==
  ASSUME IInv, DataTypes, Progress, pc = "send"
  PROVE  Command = Nth(op, Sent)
<1>1. op \in Requests /\ leg \in {"write", "read"} /\ queued \in Nat /\ queued < Total /\ Size > 0
  BY DEF IInv, Shapes, Calls, Calling, DataTypes, Progress
<1> USE RequestTypes, AddressSize, WholeTypes
<1>2. Total = A + Size
  BY <1>1, SizeTypes
<1>3. (leg = "write" => op.kind # "rx") /\ (leg = "read" => op.kind # "tx")
  BY <1>1 DEF IInv, Calls, Calling
<1>4. \/ leg = "read" /\ Sent = Writing(op) + queued
      \/ leg = "write" /\ Sent = queued
  <2>1. CASE leg = "write"
    BY <1>1, <2>1 DEF Sent, restart
  <2>2. CASE leg = "read" /\ op.kind = "rx"
    <3>1. Sent = queued /\ Writing(op) = 0
      BY <2>2, Zenon DEF Sent, restart, Writing
    <3> QED
      BY <1>1, <2>2, <3>1
  <2>3. CASE leg = "read" /\ op.kind = "tx_rx"
    <3>1. Sent = A + op.tx + queued
      BY <1>1, <2>3 DEF Sent, restart
    <3>2. Writing(op) = A + op.tx
      BY <1>1, <2>3
    <3> QED
      BY <2>3, <3>1, <3>2
  <2> QED
    BY <1>1, <1>3, <2>1, <2>2, <2>3
<1>5. Value(op, Sent) = IF queued < A THEN IF leg = "write" THEN W ELSE R
                        ELSE IF leg = "write" THEN queued - A + 1 ELSE 0
  BY <1>1, <1>2, <1>3, <1>4 DEF Value, Size
<1>6. Starts(op, Sent) <=> IF queued < A THEN restart /\ queued = 0 ELSE FALSE
  BY <1>1, <1>2, <1>3, <1>4 DEF Starts, Size, restart
<1>7. Stops(op, Sent) <=> IF queued < A THEN FALSE ELSE queued = Total - 1 /\ stop
  <2>1. CASE leg = "write" /\ op.kind = "tx"
    BY <1>1, <1>2, <1>4, <2>1 DEF Stops, Size, stop
  <2>2. CASE leg = "write" /\ op.kind = "tx_rx"
    BY <1>1, <1>2, <1>4, <2>2 DEF Stops, Size, stop
  <2>3. CASE leg = "read"
    BY <1>1, <1>2, <1>3, <1>4, <2>3 DEF Stops, Size, stop
  <2> QED
    BY <1>1, <1>3, <2>1, <2>2, <2>3
<1>8. Starts(op, Sent) \in BOOLEAN /\ Stops(op, Sent) \in BOOLEAN
      /\ (restart /\ queued = 0) \in BOOLEAN /\ (queued = Total - 1 /\ stop) \in BOOLEAN
  BY Zenon DEF Starts, Stops
<1>9. CASE queued < A
  <2>1. Command = send_address
    BY <1>9 DEF Command, A
  <2>2. Value(op, Sent) = IF leg = "write" THEN W ELSE R
    BY <1>5, <1>9
  <2>3. Starts(op, Sent) = (restart /\ queued = 0)
    <3>1. Starts(op, Sent) <=> (restart /\ queued = 0)
      BY <1>6, <1>9
    <3> QED
      BY <1>8, <3>1, BoolEq, Zenon
  <2>4. Stops(op, Sent) = FALSE
    <3>1. Stops(op, Sent) <=> FALSE
      BY <1>7, <1>9
    <3> QED
      BY <1>8, <3>1, BoolEq, Zenon
  <2> QED
    BY <2>1, <2>2, <2>3, <2>4, Zenon DEF send_address, Nth
<1>10. CASE queued >= A
  <2>1. Command = [val |-> IF leg = "write" THEN queued - A + 1 ELSE 0,
                   sta |-> FALSE, sto |-> queued = Total - 1 /\ stop]
    BY <1>1, <1>10 DEF Command, A
  <2>2. Value(op, Sent) = IF leg = "write" THEN queued - A + 1 ELSE 0
    BY <1>1, <1>5, <1>10
  <2>3. Starts(op, Sent) = FALSE
    <3>1. Starts(op, Sent) <=> FALSE
      BY <1>1, <1>6, <1>10
    <3> QED
      BY <1>8, <3>1, BoolEq, Zenon
  <2>4. Stops(op, Sent) = (queued = Total - 1 /\ stop)
    <3>1. Stops(op, Sent) <=> (queued = Total - 1 /\ stop)
      BY <1>1, <1>7, <1>10
    <3> QED
      BY <1>8, <3>1, BoolEq, Zenon
  <2> QED
    BY <2>1, <2>2, <2>3, <2>4, Zenon DEF Nth
<1> QED
  BY <1>1, <1>9, <1>10

-----------------------------------------------------------------------------
(* The core keeps it                                                       *)

LEMMA CoreLeaves ==
  ASSUME Core
  PROVE  UNCHANGED <<bus, wide, registered, op, leg, ret, pc, queued, status, buf, irq_busy, job,
                     ipc, en>>
BY DEF Core, Fetch, Discard, Address, WriteByte, ReadByte, Refuse, LoseArbitration, Drop, Abandon,
       driver, thread, step, config, setup, call, irq, bits

LEMMA CoreTypesStep == ASSUME DataTypes, Core PROVE DataTypes' /\ (Flagged => Flagged')
<1>1. UNCHANGED <<bus, buf, queued>>
  BY CoreLeaves
<1>2. /\ queued \in Nat /\ buf \in Seq(Int) /\ rxq \in Seq(Int)
      /\ cmds \in Seq(Words) /\ cur \in Seq(Words) /\ Len(cur) <= 1
      /\ target \in [wrote : Seq(Int), answered : Int, stopped : BOOLEAN]
      /\ ARB => bus = "shares"
  BY DEF DataTypes
<1>3. <<>> \in Seq(Words) /\ Len(<<>>) <= 1
  OBVIOUS
<1>4. CASE Fetch
  <2>1. cur' = <<Head(cmds)>> /\ cmds' = Tail(cmds) /\ cmds # <<>>
        /\ UNCHANGED <<rxq, target, NACK, ARB>>
    BY <1>4 DEF Fetch, flags
  <2>2. Head(cmds) \in Words /\ Tail(cmds) \in Seq(Words)
    BY <1>2, <2>1
  <2>3. cur' \in Seq(Words) /\ Len(cur') <= 1
    BY <2>1, <2>2
  <2> QED
    BY <1>1, <1>2, <2>1, <2>2, <2>3 DEF DataTypes, Flagged
<1>5. CASE Discard
  BY <1>1, <1>2, <1>3, <1>5 DEF Discard, flags, DataTypes, Flagged
<1>6. CASE Refuse \/ LoseArbitration
  <2>1. cur' = <<>> /\ cmds' = <<>> /\ UNCHANGED <<target, rxq>>
    BY <1>6 DEF Refuse, LoseArbitration, Drop, Abandon
  <2>2. (NACK' \/ ARB') /\ (ARB' => ARB \/ bus = "shares")
    <3>1. CASE Refuse
      <4>1. NACK' = TRUE /\ ARB' = ARB
        BY <3>1 DEF Refuse
      <4>2. NACK'
        BY <4>1, Zenon
      <4>3. ARB' => ARB
        BY <4>1, SMT
      <4> QED
        BY <4>2, <4>3
    <3>2. CASE LoseArbitration
      <4>1. ARB' = TRUE /\ bus = "shares"
        BY <3>2 DEF LoseArbitration
      <4>2. ARB'
        BY <4>1, Zenon
      <4> QED
        BY <4>1, <4>2
    <3> QED
      BY <1>6, <3>1, <3>2
  <2> QED
    BY <1>1, <1>2, <1>3, <2>1, <2>2 DEF DataTypes, Flagged
<1>7. CASE Address \/ WriteByte \/ ReadByte
  <2>1. cur' = <<>> /\ cur # <<>> /\ UNCHANGED <<cmds, NACK, ARB>>
    BY <1>7 DEF Address, WriteByte, ReadByte, Finish, flags
  <2>2. Command1.val \in Int /\ Command1.sto \in BOOLEAN
    <3>1. cur[1] \in Words
      BY <1>2, <2>1
    <3> QED
      BY <3>1 DEF Words, Command1
  <2>3. target' \in [wrote : Seq(Int), answered : Int, stopped : BOOLEAN]
    <3>1. CASE Address
      <4>1. <<>> \in Seq(Int) /\ 0 \in Int /\ FALSE \in BOOLEAN
        OBVIOUS
      <4> QED
        BY <1>2, <3>1, <4>1 DEF Address
    <3>2. CASE WriteByte
      <4>1. target.wrote \in Seq(Int) /\ Append(target.wrote, Command1.val) \in Seq(Int)
        BY <1>2, <2>2
      <4> QED
        BY <1>2, <2>2, <3>2, <4>1, Zenon DEF WriteByte
    <3>3. CASE ReadByte
      <4>1. target.answered + 1 \in Int
        BY <1>2
      <4> QED
        BY <1>2, <2>2, <3>3, <4>1, Zenon DEF ReadByte
    <3> QED
      BY <1>7, <3>1, <3>2, <3>3
  <2>4. rxq' \in Seq(Int)
    <3>1. CASE Address \/ WriteByte
      BY <1>2, <3>1 DEF Address, WriteByte
    <3>2. CASE ReadByte
      <4>1. target'.answered \in Int
        BY <2>3
      <4> QED
        BY <1>2, <3>2, <4>1 DEF ReadByte
    <3> QED
      BY <1>7, <3>1, <3>2
  <2> QED
    BY <1>1, <1>2, <1>3, <2>1, <2>3, <2>4 DEF DataTypes, Flagged
<1>8. CASE Drop
  BY <1>1, <1>2, <1>3, <1>8 DEF Drop, Abandon, flags, DataTypes, Flagged
<1> QED
  BY <1>4, <1>5, <1>6, <1>7, <1>8 DEF Core

\* What the invariant says of the call depends on nothing else.
LEMMA CallKept ==
  ASSUME UNCHANGED <<wide, registered, op, leg, pc, queued, status>>
  PROVE  /\ Going' <=> Going
         /\ Sent' = Sent /\ Total' = Total /\ Size' = Size /\ A' = A
         /\ Progress' <=> Progress
         /\ Halfway' <=> Halfway
         /\ Retryable' <=> Retryable
BY DEF Going, Sent, Total, Size, A, Address10, Progress, Halfway, Retryable, restart

LEMMA CoreData == ASSUME IInv, Data, late = "never", Core PROVE Data'
<1> USE DEF Data
<1>1. UNCHANGED <<bus, wide, registered, op, leg, ret, pc, queued, status, buf, irq_busy, job,
                  ipc, en>>
  BY CoreLeaves
<1>2. DataTypes' /\ (Flagged => Flagged')
  BY CoreTypesStep
<1>3. Progress'
  BY <1>1, CallKept
<1>0. ~Drop
  BY DEF Drop, Rest
<1>4. ~(cur = <<>> /\ cmds = <<>>)
  BY <1>0, CoreAtRest
<1>5. en /\ en'
  <2>1. en
    BY <1>4 DEF Rest, is_busy
  <2> QED
    BY <1>1, <2>1
<1>6. Rest' /\ Over'
  <2>1. Rest'
    BY <1>5 DEF Rest
  <2>2. Finished(status) => Finished(status)'
    BY <1>1, <1>5 DEF Finished
  <2>3. Finished(ret) => Finished(ret)'
    BY <1>1, <1>5 DEF Finished
  <2> QED
    BY <1>1, <2>1, <2>2, <2>3, CallKept DEF Over, Halfway
<1>7. GoingOn'
  <2> SUFFICES ASSUME Going, Going' PROVE
        \/ Carried(op, Sent)'
        \/ Failed' /\ IF pc \in {"clear", "arm"} THEN cmds' = <<>> ELSE Flagged'
    BY <1>1, CallKept DEF GoingOn
  <2>1. op \in Requests /\ Sent \in Nat /\ Sent <= Whole(op)
    BY SentWithin
  <2>2. PICK r \in Requests, s \in Nat : r = op /\ s = Sent
    BY <2>1
  <2>3. CASE Carried(op, Sent)
    <3>1. Carried(r, s) /\ s <= Whole(r)
      BY <2>1, <2>2, <2>3
    <3>2. Carried(r, s)' \/ (Failed' /\ Flagged' /\ cmds' = <<>>)
      BY <1>0, <3>1, CoreCarries
    <3>3. op' = r /\ Sent' = s
      BY <1>1, <2>2, CallKept
    <3>4. Carried(r, s)' <=> Carried(op, Sent)'
      BY <3>3
    <3> QED
      BY <3>2, <3>4
  <2>4. CASE Failed /\ IF pc \in {"clear", "arm"} THEN cmds = <<>> ELSE Flagged
    BY <1>0, <1>2, <2>4, CoreFailed
  <2> QED
    BY <2>3, <2>4 DEF GoingOn
<1>8. Waiting'
  BY <1>1, <1>2, <1>4, CallKept DEF Waiting, AtRest, Halfway, is_busy
<1>9. Job'
  <2> SUFFICES ASSUME irq_busy # 0 PROVE Carried(job, Whole(job))' \/ (Failed' /\ cmds' = <<>>)
    BY <1>1, <1>4 DEF Job, is_busy
  <2>1. PICK r \in Requests, s \in Nat : r = job /\ s = Whole(job)
    BY WholeTypes DEF Job
  <2>2. CASE Carried(job, Whole(job))
    <3>1. Carried(r, s) /\ s <= Whole(r)
      BY <2>1, <2>2
    <3>2. Carried(r, s)' \/ (Failed' /\ cmds' = <<>>)
      BY <1>0, <3>1, CoreCarries
    <3>3. job' = r /\ Whole(job)' = s
      BY <1>1, <2>1 DEF Whole, Writing, A, Address10
    <3>4. Carried(r, s)' <=> Carried(job, Whole(job))'
      BY <3>3
    <3> QED
      BY <3>2, <3>4
  <2>3. CASE Failed /\ cmds = <<>>
    BY <1>0, <2>3, CoreFailed
  <2> QED
    BY <2>2, <2>3 DEF Job
<1> QED
  BY <1>2, <1>3, <1>6, <1>7, <1>8, <1>9

-----------------------------------------------------------------------------
(* The driver keeps it: what a transaction has done is not touched         *)

LEMMA Alone ==
  ASSUME IInv, late = "never", Going
  PROVE  Free /\ en /\ op \in Requests /\ leg \in {"write", "read"}
BY DEF IInv, Shapes, Owned, Between, Going, Retryable, Free, Halfway, Calls, Calling

LEMMA CarriedOn ==
  ASSUME UNCHANGED Transaction, op \in Requests, Sent \in Nat, Carried(op, Sent), op' = op,
         Sent' = Sent
  PROVE  Carried(op, Sent)'
<1>1. PICK r \in Requests, s \in Nat : r = op /\ s = Sent
  OBVIOUS
<1>2. Carried(r, s)'
  <2>1. Carried(r, s)
    BY <1>1
  <2> QED
    BY <2>1, Kept
<1>3. op' = r /\ Sent' = s
  BY <1>1
<1> QED
  BY <1>2, <1>3

LEMMA JobOn ==
  ASSUME Job, UNCHANGED Transaction, UNCHANGED <<irq_busy, job, ipc>>
  PROVE  Job'
<1> SUFFICES ASSUME irq_busy # 0 PROVE Carried(job, Whole(job))' \/ (Failed' /\ cmds' = <<>>)
  BY DEF Job, Transaction, is_busy
<1>1. PICK r \in Requests, s \in Nat : r = job /\ s = Whole(job)
  BY WholeTypes DEF Job
<1>2. job' = r /\ Whole(job)' = s
  BY <1>1 DEF Whole, Writing, A, Address10, Transaction
<1>3. (Carried(r, s)' <=> Carried(r, s)) /\ (Failed' <=> Failed)
  BY Kept
<1>4. Carried(r, s)' <=> Carried(job, Whole(job))'
  BY <1>2
<1> QED
  BY <1>1, <1>3, <1>4 DEF Job, Transaction

\* A step that changes nothing on the bus.
LEMMA Quiet ==
  ASSUME Data, UNCHANGED Transaction, UNCHANGED <<bus, en, ipc, irq_busy, job>>, queued' \in Nat
  PROVE  DataTypes' /\ Rest' /\ Job'
<1>1. DataTypes'
  BY DEF Data, DataTypes, Transaction
<1>2. Rest'
  BY DEF Data, Rest, is_busy, Transaction
<1> QED
  BY <1>1, <1>2, JobOn DEF Data

\* What a call has answered is not changed by a step of nobody's.
LEMMA AnsweredOn ==
  ASSUME UNCHANGED <<bus, op, en, target, buf, phase, cur, cmds>>, NEW result, Finished(result)
  PROVE  (Finished(result))'
BY DEF Finished, Done, is_busy

LEMMA CallData == ASSUME IInv, Data, late = "never", Call \/ Retry PROVE Data'
<1>1. /\ UNCHANGED Transaction /\ UNCHANGED <<bus, en, ipc, irq_busy, job, queued>>
      /\ pc' = "begin" /\ op' \in Requests /\ leg' = FirstLeg(op')
  BY DEF Call, Retry, At, config, setup, irq, bits, line, flags, Transaction, IInv, Calls, Calling
<1>2. DataTypes' /\ Rest' /\ Job'
  BY <1>1, Quiet DEF Data, DataTypes
<1>3. ~restart'
  BY <1>1, RequestKinds DEF restart
<1> QED
  BY <1>1, <1>2, <1>3 DEF Data, GoingOn, Going, Progress, Waiting, Over

LEMMA SecondData == ASSUME IInv, Data, late = "never", op.kind = "tx_rx", SecondLeg PROVE Data'
<1>1. /\ UNCHANGED Transaction
      /\ UNCHANGED <<bus, en, ipc, irq_busy, job, queued, registered, op, status>>
      /\ pc = "end" /\ pc' = "begin" /\ leg' = "read" /\ ~Retryable /\ leg = "write" /\ Halfway
  BY DEF SecondLeg, At, config, setup, irq, bits, line, flags, Transaction, Halfway
<1>2. DataTypes' /\ Rest' /\ Job'
  BY <1>1, Quiet DEF Data, DataTypes
<1>3. CASE Going'
  <2>1. op.irq => registered
    BY <1>1, <1>3 DEF Going
  <2>2. status = "SUCCESS"
    BY <1>1, <2>1 DEF Data, Progress, IInv, Shapes, Between, Retryable, Results
  <2>3. Going
    BY <1>1, <2>2 DEF Going
  <2>4. Sent = queued /\ Sent' = queued
    BY <1>1 DEF Sent, restart
  <2>5. op \in Requests /\ queued \in Nat
    BY <2>3, Alone DEF Data, DataTypes
  <2>6. Carried(op, Sent) => Carried(op, Sent)'
    BY <1>1, <2>4, <2>5, CarriedOn
  <2>7. GoingOn'
    BY <1>1, <2>3, <2>6, Kept DEF Data, GoingOn
  <2>8. Progress'
    <3>1. queued = A + op.tx /\ A' = A
      BY <1>1, <2>3 DEF Data, Progress, A, Address10, Transaction
    <3> QED
      BY <1>1, <3>1 DEF Progress
  <2> QED
    BY <1>1, <1>2, <2>7, <2>8 DEF Data, Waiting, Over
<1>4. CASE ~Going'
  BY <1>1, <1>2, <1>4 DEF Data, GoingOn, Progress, Waiting, Over
<1> QED
  BY <1>3, <1>4

LEMMA ReturnData ==
  ASSUME IInv, Data, late = "never", NEW last, Return(last), Halfway => last = "read"
  PROVE  Data'
<1>1. /\ UNCHANGED Transaction /\ UNCHANGED <<bus, en, ipc, irq_busy, job, op>>
      /\ pc = "end" /\ pc' = "idle" /\ ret' = status /\ queued' = 0
      /\ Halfway => Retryable
  BY DEF Return, At, config, setup, irq, bits, line, flags, Transaction, Halfway
<1>2. DataTypes' /\ Rest' /\ Job'
  BY <1>1, Quiet DEF Data, DataTypes
<1>3. Finished(status)
  BY <1>1 DEF Data, Over, Finished, Retryable
<1>4. Finished(ret)'
  <2>1. PICK v : v = status
    OBVIOUS
  <2>2. Finished(v)'
    BY <1>1, <1>3, <2>1, AnsweredOn DEF Transaction
  <2> QED
    BY <1>1, <2>1, <2>2 DEF Finished
<1> QED
  BY <1>1, <1>2, <1>4 DEF Data, GoingOn, Going, Progress, Waiting, Over

LEMMA RegisterData == ASSUME IInv, Data, late = "never", register_optional_irq_handler PROVE Data'
<1>1. /\ UNCHANGED Transaction /\ UNCHANGED <<bus, en, ipc, job, op, ret, queued>>
      /\ pc = "idle" /\ pc' = "idle" /\ irq_busy' = 0 /\ ~registered
  BY DEF register_optional_irq_handler, At, call, bits, line, flags, Transaction
<1>2. UNCHANGED irq_busy
  BY <1>1 DEF IInv, Armed
<1>3. DataTypes' /\ Rest' /\ Job'
  BY <1>1, <1>2, Quiet DEF Data, DataTypes
<1>4. Finished(ret) => Finished(ret)'
  BY <1>1 DEF Finished, Done, is_busy, Transaction
<1> QED
  BY <1>1, <1>3, <1>4 DEF Data, GoingOn, Going, Progress, Waiting, Over

LEMMA AskData ==
  ASSUME IInv, Data, late = "never", late' = "never", AskStatus \/ Answer \/ AwaitAbort
  PROVE  Data'
<1>1. /\ UNCHANGED Transaction /\ UNCHANGED <<bus, en, ipc, irq_busy, job, queued>>
      /\ pc' \in {"idle", "asked"} \/ (pc' = "abort" /\ ~is_busy)
      /\ op' = Status
  BY DEF AskStatus, Answer, AwaitAbort, RunOut, At, config, setup, irq, bits, line, flags,
     Transaction, IInv, Calls
<1>2. DataTypes' /\ Rest' /\ Job'
  BY <1>1, Quiet DEF Data, DataTypes
<1> QED
  BY <1>1, <1>2 DEF Data, GoingOn, Going, Progress, Waiting, Over, Status, is_busy, Transaction

LEMMA AbortData == ASSUME IInv, Data, late = "never", AbortJob PROVE Data'
<1>1. /\ UNCHANGED <<bus, queued, cmds, cur, phase, target, NACK, ARB>>
      /\ pc' = "idle" /\ op' = Status /\ irq_busy' = 0 /\ ~is_busy
      /\ rxq' = <<>> /\ buf' = buf \o rxq
  BY DEF AbortJob, At, config, setup, line, flags, IInv, Calls, Data, Waiting
<1>2. DataTypes'
  <2>1. buf' \in Seq(Int) /\ <<>> \in Seq(Int)
    BY <1>1 DEF Data, DataTypes
  <2> QED
    BY <1>1, <2>1 DEF Data, DataTypes
<1>3. Rest' /\ Job'
  BY <1>1 DEF Rest, Job, is_busy
<1> QED
  BY <1>1, <1>2, <1>3 DEF Data, GoingOn, Going, Progress, Waiting, Over, Status

LEMMA EndData ==
  ASSUME IInv, Data, late = "never", NEW result \in {"SUCCESS", "BAD_ARG", "BUSY"}, End(result),
         result = "SUCCESS" => Size = 0
  PROVE  Data'
<1>1. /\ UNCHANGED Transaction /\ UNCHANGED <<bus, en, ipc, irq_busy, job, op, leg, queued>>
      /\ pc = "begin" /\ pc' = "end" /\ status' = result
  BY DEF End, At, config, setup, call, irq, bits, line, flags, Transaction
<1>2. DataTypes' /\ Rest' /\ Job'
  BY <1>1, Quiet DEF Data, DataTypes
<1>3. op \in Requests /\ leg \in {"write", "read"}
  BY <1>1 DEF IInv, Calls, Calling, Shapes
<1>4. result = "SUCCESS" => ~Halfway /\ op.kind = "tx_rx" /\ op.rx = 0
  BY <1>1, <1>3, RequestKinds DEF Size, Halfway, IInv, Calls, Calling
<1>5. ~Going' /\ Over'
  BY <1>1, <1>4 DEF Going, Halfway, Over, Finished
<1> QED
  BY <1>1, <1>2, <1>5 DEF Data, GoingOn, Progress, Waiting

-----------------------------------------------------------------------------
(* A transfer begins, and its commands are written                         *)

LEMMA Fresh ==
  ASSUME NEW r \in Requests
  PROVE  PhaseAt(r, 0) = "idle" /\ AnsweredAt(r, 0) = 0
<1> USE RequestTypes, AddressSize, WholeTypes
<1>1. CASE r.kind = "rx"
  <2>1. Writing(r) = 0
    BY <1>1
  <2> QED
    BY <1>1, <2>1 DEF PhaseAt, AnsweredAt
<1>2. CASE r.kind # "rx"
  <2>1. Writing(r) = A + r.tx /\ Writing(r) > 0
    BY <1>2
  <2> QED
    BY <1>2, <2>1 DEF PhaseAt, AnsweredAt
<1> QED
  BY <1>1, <1>2

LEMMA EnableData == ASSUME IInv, Data, late = "never", enable PROVE Data'
<1>1. /\ UNCHANGED <<bus, wide, op, leg, ipc, registered, cmds, cur, phase, target, rxq>>
      /\ pc = "begin" /\ pc' = "send" /\ Size > 0 /\ ~restart /\ ~en
      /\ queued' = 0 /\ buf' = <<>> /\ NACK' = FALSE /\ ARB' = FALSE
      /\ irq_busy' = IF registered THEN 0 ELSE irq_busy
  BY DEF enable, At, config, setup, call, line, int_clear
<1>2. irq_busy' = 0 /\ op \in Requests /\ leg \in {"write", "read"}
  BY <1>1 DEF IInv, Armed, Calls, Calling, Shapes
<1>3. cmds = <<>> /\ cur = <<>> /\ phase = "idle" /\ rxq = <<>>
  BY <1>1 DEF Data, Rest, is_busy
<1>4. en' = TRUE
  BY DEF enable
<1>5. en' /\ ~NACK' /\ ~ARB'
  BY <1>1, <1>4, Zenon
<1>6. DataTypes'
  <2>1. <<>> \in Seq(Int) /\ 0 \in Nat
    OBVIOUS
  <2> QED
    BY <1>1, <1>5, <2>1 DEF Data, DataTypes
<1>7. PICK r \in Requests : r = op
  BY <1>2
<1>8. Carried(r, 0)'
  <2>1. Pending(r, 0, 0)'
    BY <1>1, <1>3 DEF Pending
  <2>2. phase' = PhaseAt(r, 0)'
    BY <1>1, <1>3, Fresh, Steady
  <2>3. Heard(r, 0)'
    BY DEF Heard
  <2>4. Caught(r, 0)'
    <3>1. AnsweredAt(r, 0)' = 0
      BY <1>1, Fresh, Steady
    <3>2. Received(0)'
      BY <1>1, <1>3, <1>6 DEF Received
    <3> QED
      BY <3>1, <3>2 DEF Caught, Received
  <2> QED
    BY <1>5, <2>1, <2>2, <2>3, <2>4 DEF Carried, Intact
<1>9. GoingOn'
  <2>1. op' = r /\ Sent' = 0
    BY <1>1, <1>7 DEF Sent, restart
  <2>2. Carried(r, 0)' <=> Carried(op, Sent)'
    BY <2>1
  <2> QED
    BY <1>8, <2>2 DEF GoingOn
<1>10. Progress'
  <2>1. Size \in Nat /\ Total \in Nat /\ Total = A + Size /\ A \in Nat
    BY <1>2, SizeTypes, AddressSize DEF Data, DataTypes
  <2>2. Size' = Size /\ Total' = Total
    BY <1>1 DEF Size, Total, Address10
  <2> QED
    BY <1>1, <2>1, <2>2 DEF Progress
<1> QED
  BY <1>1, <1>2, <1>5, <1>6, <1>9, <1>10 DEF Data, Waiting, Job, Rest, Over

LEMMA ResumeData == ASSUME IInv, Data, late = "never", Resume, op.irq => registered PROVE Data'
<1>1. /\ UNCHANGED Transaction
      /\ UNCHANGED <<bus, en, ipc, irq_busy, job, registered, op, leg, status>>
      /\ pc = "begin" /\ pc' = "send" /\ restart /\ Size > 0 /\ queued' = 0
  BY DEF Resume, At, config, setup, call, irq, bits, line, flags, Transaction
<1>2. DataTypes' /\ Rest' /\ Job'
  BY <1>1, Quiet
<1>3. Going
  BY <1>1 DEF Going
<1>4. op \in Requests /\ leg \in {"write", "read"} /\ queued \in Nat
  BY <1>3, Alone DEF Data, DataTypes
<1>5. Sent' = Sent /\ Sent \in Nat
  <2>1. Sent = queued /\ queued = A + op.tx
    BY <1>1, <1>3 DEF Sent, Data, Progress
  <2>2. Sent' = A + op.tx + 0
    BY <1>1 DEF Sent, restart, A, Address10, Transaction
  <2> QED
    BY <1>4, <2>1, <2>2, RequestTypes, AddressSize
<1>6. GoingOn'
  <2>1. Carried(op, Sent) => Carried(op, Sent)'
    BY <1>1, <1>4, <1>5, CarriedOn
  <2> QED
    BY <1>1, <1>3, <2>1, Kept DEF Data, GoingOn
<1>7. Progress'
  <2>1. Size \in Nat /\ Total \in Nat /\ Total = A + Size /\ A \in Nat
    BY <1>4, SizeTypes, AddressSize
  <2>2. Size' = Size /\ Total' = Total
    BY <1>1 DEF Size, Total, Address10, Transaction
  <2> QED
    BY <1>1, <2>1, <2>2 DEF Progress
<1> QED
  BY <1>1, <1>2, <1>6, <1>7 DEF Data, Waiting, Over

\* A command more waits.
LEMMA Queued ==
  ASSUME DataTypes, NEW r \in Requests, NEW s \in Nat, Carried(r, s),
         cmds' = Append(cmds, Nth(r, s)),
         UNCHANGED <<wide, cur, phase, NACK, ARB, target, buf, rxq>>
  PROVE  Carried(r, s + 1)'
<1>1. PICK e \in Nat : Intact(r, s, e)
  BY DEF Carried
<1>2. cmds \in Seq(Words) /\ Nth(r, s) \in Words /\ Len(cmds) \in Nat /\ Len(cur) \in Nat
  BY NthTypes, SizeOf DEF DataTypes
<1>3. /\ Len(cmds') = Len(cmds) + 1
      /\ \A i \in 1 .. Len(cmds) + 1 : cmds'[i] = IF i <= Len(cmds) THEN cmds[i] ELSE Nth(r, s)
  BY <1>2
<1>4. s = e + Len(cur) + Len(cmds)
  BY <1>1 DEF Intact, Pending
<1>5. ASSUME NEW i \in 1 .. Len(cmds) + 1 PROVE cmds'[i] = Nth(r, e + Len(cur) + i - 1)
  <2>1. CASE i <= Len(cmds)
    <3>1. i \in 1 .. Len(cmds)
      BY <1>2, <2>1
    <3>2. cmds[i] = Nth(r, e + Len(cur) + i - 1)
      BY <1>1, <3>1 DEF Intact, Pending
    <3> QED
      BY <1>3, <2>1, <3>2
  <2>2. CASE i = Len(cmds) + 1
    <3>1. e + Len(cur) + i - 1 = s
      BY <1>2, <1>4, <2>2
    <3> QED
      BY <1>2, <1>3, <2>2, <3>1
  <2> QED
    BY <1>2, <2>1, <2>2
<1>6. Pending(r, s + 1, e)'
  <2>1. s + 1 = e + Len(cur') + Len(cmds')
    BY <1>2, <1>3, <1>4
  <2>2. cur' # <<>> => cur'[1] = Nth(r, e)
    BY <1>1 DEF Intact, Pending
  <2>3. \A i \in 1 .. Len(cmds') : cmds'[i] = Nth(r, e + Len(cur') + i - 1)
    BY <1>3, <1>5
  <2> QED
    BY <2>1, <2>2, <2>3 DEF Pending, Nth, Value, Starts, Stops, Writing, Whole, A, Address10
<1>7. phase' = PhaseAt(r, e)' /\ Heard(r, e)' /\ Caught(r, e)'
  BY <1>1, Steady DEF Intact, Heard, Caught, Received
<1>8. ~NACK' /\ ~ARB'
  BY <1>1 DEF Intact
<1> QED
  BY <1>6, <1>7, <1>8 DEF Carried, Intact

LEMMA WriteData == ASSUME IInv, Data, late = "never", cmd_write PROVE Data'
<1>1. /\ UNCHANGED <<bus, wide, cur, phase, NACK, ARB, target, buf, rxq, en, ipc, irq_busy,
                     registered, op, leg, status>>
      /\ pc = "send" /\ pc' = "check" /\ queued' = queued + 1 /\ cmds' = Append(cmds, Command)
  BY DEF cmd_write, Queue, At, config, setup, call, irq, bits, flags
<1>2. Going /\ queued \in Nat /\ queued < Total /\ Size > 0
  BY <1>1 DEF Going, Data, DataTypes, Progress
<1>3. /\ op \in Requests /\ leg \in {"write", "read"}
      /\ Sent \in Nat /\ Total \in Nat /\ A \in Nat /\ irq_busy = 0
  BY <1>2, Alone, SizeTypes, AddressSize DEF Free
<1>4. PICK r \in Requests, s \in Nat : r = op /\ s = Sent
  BY <1>3
<1>5. cmds' = Append(cmds, Nth(r, s)) /\ Nth(r, s) \in Words
  BY <1>1, <1>4, NextCommand, NthTypes DEF Data
<1>6. Sent' = s + 1
  BY <1>1, <1>2, <1>3, <1>4, RequestTypes DEF Sent, restart, A, Address10
<1>7. DataTypes'
  BY <1>1, <1>2, <1>5 DEF Data, DataTypes
<1>8. GoingOn'
  <2>1. CASE Carried(op, Sent)
    <3>1. Carried(r, s)
      BY <1>4, <2>1
    <3>2. Carried(r, s + 1)'
      BY <1>1, <1>5, <3>1, Queued DEF Data
    <3>3. op' = r
      BY <1>1, <1>4
    <3>4. Carried(r, s + 1)' <=> Carried(op, Sent)'
      BY <1>6, <3>3
    <3> QED
      BY <3>2, <3>4 DEF GoingOn
  <2>2. CASE Failed /\ Flagged
    BY <1>1, <2>2 DEF GoingOn, Failed, Flagged
  <2> QED
    BY <1>1, <1>2, <2>1, <2>2 DEF Data, GoingOn
<1>9. Progress'
  <2>1. Size' = Size /\ Total' = Total
    BY <1>1 DEF Size, Total, Address10
  <2> QED
    BY <1>1, <1>2, <1>3, <2>1 DEF Progress
<1>10. Rest' /\ Job'
  BY <1>1, <1>2, <1>3, Alone DEF Rest, Job
<1> QED
  BY <1>1, <1>7, <1>8, <1>9, <1>10 DEF Data, Waiting, Over

\* The errors of a command are looked for.
LEMMA CheckData ==
  ASSUME IInv, Data, late = "never", NEW more, NEW last, Check(more, last),
         more = "send" \/ (more = "drain" /\ leg = "read"),
         \/ last = "wait" /\ leg = "write" /\ ~Halfway
         \/ last = "collect" /\ leg = "read"
         \/ last = "clear"
         \/ last = "end" /\ Halfway
  PROVE  Data'
<1>1. /\ UNCHANGED Transaction
      /\ UNCHANGED <<bus, en, ipc, irq_busy, job, registered, op, leg, queued>>
      /\ pc = "check"
      /\ status' = IF ARB THEN "ARB_LOST_ERR" ELSE IF NACK THEN "NACK_ERR" ELSE "SUCCESS"
      /\ pc' = IF queued < A THEN "send"
               ELSE IF status' # "SUCCESS" THEN "wait" ELSE IF queued < Total THEN more ELSE last
  BY DEF Check, At, config, setup, call, irq, bits, line, flags, Transaction, check_nack,
     check_arblost, A
<1>2. Going /\ queued \in 1 .. Total /\ Size > 0
  BY <1>1 DEF Going, Data, Progress
<1>3. DataTypes' /\ Rest' /\ Job'
  BY <1>1, Quiet DEF Data, DataTypes
<1>4. /\ op \in Requests /\ leg \in {"write", "read"} /\ queued \in Nat
      /\ Sent \in Nat /\ Total \in Nat /\ A \in Nat /\ Size \in Nat /\ Total = A + Size
  BY <1>2, Alone, SizeTypes, AddressSize DEF Data, DataTypes
<1>5. pc' # "begin" /\ Sent' = Sent
  <2>1. pc' \in {"send", "wait", "drain", "collect", "clear", "end"}
    BY <1>1
  <2> QED
    BY <1>1, <2>1 DEF Sent, restart, A, Address10, Transaction
<1>6. /\ Flagged' <=> Flagged
      /\ Flagged <=> status' # "SUCCESS"
      /\ status' \in {"SUCCESS", "NACK_ERR", "ARB_LOST_ERR"}
  BY <1>1 DEF Flagged, Transaction
<1>7. pc' \in {"clear", "end"} => ~Flagged
  BY <1>1, <1>6
<1>8. GoingOn'
  <2>1. CASE Carried(op, Sent)
    BY <1>1, <1>4, <1>5, <2>1, CarriedOn DEF GoingOn
  <2>2. CASE Failed /\ Flagged
    <3>1. pc' \notin {"clear", "arm"}
      BY <1>1, <1>7, <2>2
    <3>2. Failed'
      BY <1>1, <2>2, Kept
    <3> QED
      BY <1>6, <2>2, <3>1, <3>2 DEF GoingOn
  <2> QED
    BY <1>1, <1>2, <2>1, <2>2 DEF Data, GoingOn
<1>9. Size' = Size /\ Total' = Total /\ A' = A /\ (Halfway' <=> Halfway)
  BY <1>1 DEF Size, Total, Address10, A, Halfway, Transaction
<1>10. Progress'
  <2>1. /\ pc' = "send" => queued < Total
        /\ pc' = "drain" => queued < Total /\ leg = "read"
        /\ pc' = "collect" => queued = Total /\ status' = "SUCCESS" /\ leg = "read"
        /\ pc' \in {"clear", "end"} => queued = Total
        /\ pc' = "end" => Halfway
        /\ pc' \in {"send", "wait", "drain", "collect", "clear", "end"}
    BY <1>1, <1>2, <1>4
  <2>2. pc' = "end" => queued = A + op.tx
    BY <1>4, <2>1 DEF Halfway, Size
  <2> QED
    BY <1>1, <1>2, <1>6, <1>9, <2>1, <2>2 DEF Progress
<1>11. Waiting'
  <2>1. CASE pc' = "wait" /\ status' = "SUCCESS"
    <3>1. leg = "write" /\ ~Halfway /\ queued = Total
      BY <1>1, <1>2, <1>4, <2>1
    <3> QED
      BY <1>1, <1>2, <1>4, <1>6, <1>9, <2>1, <3>1 DEF Waiting
  <2>2. CASE pc' = "wait" /\ status' # "SUCCESS"
    BY <1>1, <1>2, <1>4, <1>6, <1>9, <2>2 DEF Waiting
  <2>3. pc' \notin {"disable", "abort"}
    BY <1>1
  <2> QED
    BY <2>1, <2>2, <2>3 DEF Waiting
<1>12. Over'
  <2>1. pc' = "end" => Halfway'
    BY <1>1, <1>9
  <2> QED
    BY <1>1, <2>1 DEF Over
<1> QED
  BY <1>3, <1>8, <1>10, <1>11, <1>12 DEF Data

-----------------------------------------------------------------------------
(* A transfer ends                                                         *)

\* Bytes are in the buffer and the FIFO: as many as the target answered, at most.
LEMMA CarriedBytes ==
  ASSUME DataTypes, NEW r \in Requests, NEW s \in Nat, s <= Whole(r), Carried(r, s)
  PROVE  Len(buf) + Len(rxq) <= r.rx
<1>1. PICK e \in Nat : Intact(r, s, e)
  BY DEF Carried
<1>2. e <= Whole(r)
  <2>1. s = e + Len(cur) + Len(cmds) /\ Len(cur) \in Nat /\ Len(cmds) \in Nat
    BY <1>1, SizeOf DEF Intact, Pending
  <2> QED
    BY <2>1, WholeTypes
<1>3. AnsweredAt(r, e) \in Nat /\ AnsweredAt(r, e) <= r.rx
  BY <1>2, AnsweredTypes
<1>4. Len(buf) + Len(rxq) <= AnsweredAt(r, e)
  BY <1>1 DEF Intact, Caught, Received
<1>5. Len(buf) \in Nat /\ Len(rxq) \in Nat /\ r.rx \in Nat
  BY RequestTypes DEF DataTypes
<1> QED
  BY <1>3, <1>4, <1>5

\* What an idle core has done of a transaction that was written as a whole.
LEMMA WhollyDone ==
  ASSUME DataTypes, NEW r \in Requests, Carried(r, Whole(r)), ~is_busy
  PROVE  /\ ~Flagged /\ Len(buf) + Len(rxq) <= r.rx
         /\ Len(buf) = r.rx => rxq = <<>> /\ (~Excused(r) => Done(r))
<1>1. PICK e \in Nat : Intact(r, Whole(r), e)
  BY DEF Carried
<1>2. phase = "idle" /\ cur = <<>> /\ cmds = <<>>
  BY DEF is_busy
<1>3. e = Whole(r)
  <2>1. Whole(r) = e + Len(cur) + Len(cmds) /\ Len(cur) = 0 /\ Len(cmds) = 0
    BY <1>1, <1>2, SizeOf DEF Intact, Pending
  <2> QED
    BY <2>1
<1>4. AnsweredAt(r, e) = r.rx /\ WroteAt(r, e) = r.tx /\ e > 0 /\ r.rx \in Nat /\ r.tx \in Nat
  BY <1>3, AtEnd, RequestTypes
<1>5. Received(r.rx)
  BY <1>1, <1>4 DEF Intact, Caught
<1>6. target.wrote = UpTo(r.tx) /\ (~Excused(r) => target.stopped)
  BY <1>1, <1>3, <1>4 DEF Intact, Heard, Excused
<1>7. buf \in Seq(Int) /\ Len(buf) \in Nat /\ Len(rxq) \in Nat /\ (Len(rxq) = 0 => rxq = <<>>)
  <2>1. \A q \in Seq(Int) : Len(q) \in Nat /\ (Len(q) = 0 => q = <<>>)
    OBVIOUS
  <2> QED
    BY <2>1 DEF DataTypes
<1>8. ~Flagged /\ Len(buf) + Len(rxq) <= r.rx
  BY <1>1, <1>5 DEF Flagged, Intact, Received
<1>9. ASSUME Len(buf) = r.rx PROVE rxq = <<>> /\ (~Excused(r) => Done(r))
  <2>1. Len(rxq) = 0
    BY <1>4, <1>7, <1>8, <1>9
  <2>2. \A i \in 1 .. Len(buf) : buf[i] = i
    BY <1>4, <1>5, <1>7, <1>9, <2>1 DEF Received
  <2>3. buf = UpTo(r.rx)
    BY <1>7, <1>9, <2>2, IsUpTo
  <2>4. ~Excused(r) => Done(r)
    BY <1>2, <1>6, <2>3 DEF Done, UpTo, is_busy
  <2> QED
    BY <1>7, <2>1, <2>4
<1> QED
  BY <1>8, <1>9

\* The transaction of a call that disables the core, and succeeds unless it failed.
LEMMA Released ==
  ASSUME IInv, Data, late = "never", pc = "disable", ~is_busy
  PROVE  /\ rxq = <<>> /\ op \in Requests
         /\ status = "SUCCESS" => Flagged \/ Done(op)
<1>1. Going
  BY DEF Going
<1>2. op \in Requests /\ Sent \in Nat /\ (status = "SUCCESS" => Sent = Whole(op))
  BY <1>1, SentWithin DEF Data
<1>3. leg \in {"write", "read"} /\ op.rx \in Nat /\ op.kind \in {"tx", "rx", "tx_rx"}
      /\ (op.kind = "tx" => op.rx = 0)
  BY <1>1, <1>2, Alone, RequestTypes
<1>4. CASE Failed /\ Flagged
  BY <1>2, <1>4 DEF Failed
<1>5. CASE Carried(op, Sent)
  <2>1. ~Flagged
    BY <1>5 DEF Carried, Intact, Flagged
  <2>2. status \in {"SUCCESS", "TIMEOUT"}
    BY <2>1 DEF Data, Waiting
  <2>3. CASE status = "TIMEOUT"
    BY <1>2, <2>3 DEF Data, Waiting
  <2>4. CASE status = "SUCCESS"
    <3>1. Carried(op, Whole(op))
      BY <1>2, <1>5, <2>4
    <3>2. Len(buf) + Len(rxq) <= op.rx
          /\ (Len(buf) = op.rx => rxq = <<>> /\ (~Excused(op) => Done(op)))
      BY <1>2, <3>1, WhollyDone DEF Data
    <3>3. ~Halfway /\ (leg = "read" => Len(buf) = op.rx)
      BY <2>4 DEF Data, Waiting
    <3>4. Len(buf) \in Nat /\ Len(rxq) \in Nat
      BY DEF Data, DataTypes
    <3>5. Len(buf) = op.rx
      <4>1. CASE leg = "read"
        BY <3>3, <4>1
      <4>2. CASE leg = "write"
        <5>1. op.kind # "rx"
          BY <4>2 DEF IInv, Calls, Calling
        <5>2. op.rx = 0
          BY <1>3, <3>3, <4>2, <5>1 DEF Halfway
        <5> QED
          BY <3>2, <3>4, <5>2
      <4> QED
        BY <1>3, <4>1, <4>2
    <3>6. ~Excused(op)
      <4>1. Size > 0
        BY DEF Data, Progress
      <4> QED
        BY <1>3, <3>3, <4>1 DEF Excused, Halfway, Size
    <3> QED
      BY <1>2, <3>2, <3>5, <3>6
  <2> QED
    BY <2>2, <2>3, <2>4
<1> QED
  BY <1>1, <1>4, <1>5 DEF Data, GoingOn

LEMMA ReleaseData ==
  ASSUME IInv, Data, late = "never", NEW result, Release(result),
         result = status \/ (result = "NACK_ERR" /\ NACK),
         NACK => op.irq \/ result # "SUCCESS"
  PROVE  Data'
<1>1. /\ UNCHANGED Transaction /\ UNCHANGED <<bus, ipc, irq_busy, job, registered, op, leg, queued>>
      /\ pc = "disable" /\ pc' = "end" /\ ~is_busy /\ status' = result /\ en' = FALSE
  BY DEF Release, At, config, setup, call, irq, line, flags, Transaction, Data, Waiting
<1>2. rxq = <<>> /\ op \in Requests /\ (status = "SUCCESS" => Flagged \/ Done(op))
  BY <1>1, Released
<1>3. ~en'
  BY <1>1, Zenon
<1>4. DataTypes'
  BY <1>1 DEF Data, DataTypes, Transaction
<1>5. Rest'
  BY <1>1, <1>2 DEF Rest, is_busy, Transaction
<1>6. Job'
  BY <1>1, JobOn DEF Data
<1>7. Halfway' <=> Halfway
  BY <1>1 DEF Halfway
<1>8. Halfway => status' \in {"NACK_ERR", "ARB_LOST_ERR", "BUSY"}
  BY <1>1 DEF IInv, Between, Retryable
<1>9. ~Going' /\ Progress'
  BY <1>1, <1>7, <1>8 DEF Going, Progress
<1>10. Finished(status)'
  <2> SUFFICES ASSUME result = "SUCCESS", ~op.irq, bus # "shares" PROVE Done(op)' /\ ~en'
    BY <1>1 DEF Finished
  <2>1. status = "SUCCESS" /\ ~NACK
    OBVIOUS
  <2>2. ~Flagged
    BY <2>1 DEF Flagged, Data, DataTypes
  <2>3. Done(op)
    BY <1>2, <2>1, <2>2
  <2> QED
    BY <1>1, <1>3, <2>3 DEF Done, is_busy, Transaction
<1> QED
  BY <1>1, <1>4, <1>5, <1>6, <1>9, <1>10 DEF Data, GoingOn, Waiting, Over

\* The wait for the core that does not run out.
LEMMA AwaitData == ASSUME IInv, Data, late = "never", late' = "never", AwaitIdle PROVE Data'
<1>1. /\ UNCHANGED Transaction
      /\ UNCHANGED <<bus, en, ipc, irq_busy, job, registered, op, leg, queued, status>>
      /\ pc = "wait" /\ pc' = "disable" /\ ~is_busy
  BY DEF AwaitIdle, RunOut, At, setup, call, irq, bits, line, flags, Transaction
<1>2. Going /\ DataTypes' /\ Rest' /\ Job'
  BY <1>1, Quiet DEF Going, Data, DataTypes
<1>3. op \in Requests /\ Sent \in Nat
  BY <1>2, SentWithin DEF Data
<1>4. /\ Sent' = Sent /\ Total' = Total /\ Size' = Size /\ (Halfway' <=> Halfway)
      /\ is_busy' = is_busy /\ (AtRest' <=> AtRest) /\ (Flagged' <=> Flagged)
  BY <1>1 DEF Sent, Total, Size, Halfway, restart, A, Address10, Transaction, is_busy, AtRest,
     Flagged
<1>5. GoingOn'
  <2>1. Carried(op, Sent) => Carried(op, Sent)'
    BY <1>1, <1>3, <1>4, CarriedOn
  <2> QED
    BY <1>1, <1>2, <2>1, Kept DEF Data, GoingOn
<1>6. Progress'
  BY <1>1, <1>4 DEF Data, Progress
<1>7. Waiting'
  BY <1>1, <1>4 DEF Data, Waiting, Transaction
<1> QED
  BY <1>1, <1>2, <1>5, <1>6, <1>7 DEF Data, Over

-----------------------------------------------------------------------------
(* Bytes are taken from the receive FIFO                                   *)

LEMMA TakenInOrder ==
  ASSUME DataTypes, TakeByte, NEW n, Received(n)
  PROVE  Received(n)'
<1>1. rxq \in Seq(Int) /\ rxq # <<>> /\ Len(rxq) \in Nat /\ Len(rxq) > 0
      /\ buf \in Seq(Int) /\ Len(buf) \in Nat
  <2>1. \A q \in Seq(Int) : Len(q) \in Nat /\ (q # <<>> => Len(q) > 0)
    OBVIOUS
  <2> QED
    BY <2>1 DEF DataTypes, TakeByte
<1>2. /\ Len(rxq') = Len(rxq) - 1 /\ \A i \in 1 .. Len(rxq) - 1 : rxq'[i] = rxq[i + 1]
      /\ Len(buf') = Len(buf) + 1
      /\ \A i \in 1 .. Len(buf) + 1 : buf'[i] = IF i <= Len(buf) THEN buf[i] ELSE rxq[1]
  <2>1. buf' = Append(buf, Head(rxq)) /\ rxq' = Tail(rxq) /\ Head(rxq) = rxq[1] /\ Head(rxq) \in Int
    BY <1>1 DEF TakeByte
  <2> QED
    BY <1>1, <2>1
<1>3. Len(buf') + Len(rxq') = Len(buf) + Len(rxq)
  BY <1>1, <1>2
<1>4. ASSUME Len(buf) + Len(rxq) = n
      PROVE  /\ \A i \in 1 .. Len(buf') : buf'[i] = i
             /\ \A i \in 1 .. Len(rxq') : rxq'[i] = Len(buf') + i
  <2>1. /\ \A i \in 1 .. Len(buf) : buf[i] = i
        /\ \A i \in 1 .. Len(rxq) : rxq[i] = Len(buf) + i
    BY <1>4 DEF Received
  <2>2. ASSUME NEW i \in 1 .. Len(buf) + 1 PROVE buf'[i] = i
    <3>1. CASE i <= Len(buf)
      <4>1. i \in 1 .. Len(buf)
        BY <1>1, <3>1
      <4>2. buf[i] = i
        BY <2>1, <4>1
      <4> QED
        BY <1>2, <3>1, <4>2
    <3>2. CASE i = Len(buf) + 1
      <4>1. rxq[1] = Len(buf) + 1
        BY <1>1, <2>1
      <4> QED
        BY <1>1, <1>2, <3>2, <4>1
    <3> QED
      BY <1>1, <3>1, <3>2
  <2>3. ASSUME NEW i \in 1 .. Len(rxq) - 1 PROVE rxq'[i] = Len(buf) + 1 + i
    <3>1. i + 1 \in 1 .. Len(rxq) /\ rxq'[i] = rxq[i + 1]
      BY <1>1, <1>2
    <3>2. rxq[i + 1] = Len(buf) + (i + 1)
      BY <2>1, <3>1
    <3> QED
      BY <1>1, <3>1, <3>2
  <2> QED
    BY <1>2, <2>2, <2>3
<1> QED
  BY <1>3, <1>4 DEF Received

LEMMA Taken ==
  ASSUME DataTypes, TakeByte, UNCHANGED <<wide, cmds, cur, phase, NACK, ARB, target>>,
         NEW r, NEW s, Carried(r, s)
  PROVE  Carried(r, s)'
<1>1. PICK e \in Nat : Intact(r, s, e)
  BY DEF Carried
<1>2. Caught(r, e)'
  <2>1. PICK n : n = AnsweredAt(r, e)
    OBVIOUS
  <2>2. Received(n)'
    BY <1>1, <2>1, TakenInOrder DEF Intact, Caught
  <2>3. AnsweredAt(r, e)' = n
    BY <2>1, Steady
  <2> QED
    BY <2>2, <2>3 DEF Caught, Received
<1>3. Pending(r, s, e)'
  BY <1>1 DEF Intact, Pending, Nth, Value, Starts, Stops, Writing, Whole, A, Address10
<1>4. phase' = PhaseAt(r, e)' /\ Heard(r, e)' /\ ~NACK' /\ ~ARB'
  BY <1>1, Steady DEF Intact, Heard
<1> QED
  BY <1>2, <1>3, <1>4 DEF Carried, Intact

LEMMA TakenTypes ==
  ASSUME DataTypes, TakeByte, UNCHANGED <<bus, queued, cmds, cur, target, ARB>>
  PROVE  DataTypes'
<1>1. rxq \in Seq(Int) /\ rxq # <<>> /\ buf \in Seq(Int)
  BY DEF DataTypes, TakeByte
<1>2. buf' \in Seq(Int) /\ rxq' \in Seq(Int)
  BY <1>1 DEF TakeByte
<1> QED
  BY <1>2 DEF DataTypes

\* A call takes a byte between two commands, or after the last.
LEMMA TakeData ==
  ASSUME IInv, Data, late = "never", TakeByte, pc \in {"drain", "collect"},
         UNCHANGED <<bus, wide, registered, op, leg, pc, queued, status, irq_busy, ipc, en, cmds,
                     cur, phase, NACK, ARB, target>>
  PROVE  Data'
<1>1. Going /\ DataTypes'
  BY TakenTypes DEF Going, Data
<1>2. /\ op \in Requests /\ Sent \in Nat /\ irq_busy = 0 /\ en
  BY <1>1, Alone, SentWithin DEF Data, Free
<1>3. GoingOn'
  <2>1. ~Failed
    BY DEF Failed, TakeByte
  <2>2. PICK r \in Requests, s \in Nat : r = op /\ s = Sent
    BY <1>2
  <2>3. Carried(r, s)
    BY <1>1, <2>1, <2>2 DEF Data, GoingOn
  <2>4. Carried(r, s)'
    BY <2>3, Taken DEF Data
  <2>5. op' = r /\ Sent' = s
    BY <2>2, CallKept
  <2>6. Carried(r, s)' <=> Carried(op, Sent)'
    BY <2>5
  <2> QED
    BY <2>4, <2>6 DEF GoingOn
<1>4. Progress' /\ Rest' /\ Job'
  BY <1>2, CallKept DEF Data, Rest, Job
<1> QED
  BY <1>1, <1>3, <1>4 DEF Data, Waiting, Over

\* A call goes on to read, or to wait for the end.
LEMMA ReadOn ==
  ASSUME IInv, Data, late = "never", UNCHANGED Transaction,
         UNCHANGED <<bus, registered, op, leg, queued, irq_busy, job, ipc, en>>,
         leg = "read",
         \/ pc = "drain" /\ pc' = "send"
         \/ pc = "collect" /\ pc' = "wait" /\ status' = status /\ Len(buf) = Size
         \/ pc = "collect" /\ pc' = "wait" /\ status' = "TIMEOUT" /\ AtRest /\ rxq = <<>>
  PROVE  Data'
<1>1. Going /\ DataTypes' /\ Rest' /\ Job'
  BY Quiet DEF Going, Data, DataTypes
<1>2. op \in Requests /\ Sent \in Nat /\ Total \in Nat /\ queued \in Nat
  BY <1>1, Alone, SizeTypes DEF Data, DataTypes
<1>3. Sent' = Sent /\ Total' = Total /\ Size' = Size /\ ~Halfway'
  BY DEF Sent, Total, Size, Halfway, restart, A, Address10, Transaction
<1>4. GoingOn'
  <2>1. Carried(op, Sent) => Carried(op, Sent)'
    BY <1>2, <1>3, CarriedOn
  <2> QED
    BY <1>1, <2>1, Kept DEF Data, GoingOn
<1>5. Progress'
  BY <1>1, <1>3 DEF Data, Progress
<1>6. Waiting'
  BY <1>1, <1>2, <1>3 DEF Data, Progress, Waiting, AtRest, Transaction, Size
<1> QED
  BY <1>1, <1>4, <1>5, <1>6 DEF Data, Over

LEMMA ReadData ==
  ASSUME IInv, Data, late = "never", late' = "never", leg = "read",
         rx_read_available \/ rx_read \/ Collected
  PROVE  Data'
<1>1. CASE rx_read_available
  <2>1. /\ pc = "drain"
        /\ UNCHANGED <<bus, wide, registered, op, leg, queued, status, irq_busy, job, ipc, en, cmds,
                       cur, phase, NACK, ARB, target>>
        /\ IF rxq = <<>> THEN pc' = "send" /\ UNCHANGED <<buf, rxq>> ELSE TakeByte /\ pc' = pc
    BY <1>1 DEF rx_read_available, At, config, setup, call, irq, bits, line, flags
  <2>2. CASE rxq = <<>>
    BY <2>1, <2>2, ReadOn DEF Transaction
  <2>3. CASE rxq # <<>>
    BY <2>1, <2>3, TakeData
  <2> QED
    BY <2>2, <2>3
<1>2. CASE rx_read
  <2>1. /\ pc = "collect"
        /\ UNCHANGED <<bus, wide, registered, op, leg, queued, irq_busy, job, ipc, en, cmds,
                       cur, phase, NACK, ARB, target>>
        /\ \/ TakeByte /\ UNCHANGED <<pc, status>>
           \/ /\ rxq = <<>> /\ AtRest /\ status' = "TIMEOUT" /\ pc' = "wait"
              /\ UNCHANGED <<buf, rxq>>
    BY <1>2 DEF rx_read, RunOut, At, config, setup, call, irq, bits, line, flags
  <2>2. CASE TakeByte /\ UNCHANGED <<pc, status>>
    BY <2>1, <2>2, TakeData
  <2>3. CASE rxq = <<>> /\ AtRest /\ status' = "TIMEOUT" /\ pc' = "wait" /\ UNCHANGED <<buf, rxq>>
    BY <2>1, <2>3, ReadOn DEF Transaction
  <2> QED
    BY <2>1, <2>2, <2>3
<1>3. CASE Collected
  <2>1. /\ pc = "collect" /\ pc' = "wait" /\ Len(buf) >= Size /\ UNCHANGED Transaction
        /\ UNCHANGED <<bus, registered, op, leg, queued, status, irq_busy, job, ipc, en>>
    BY <1>3 DEF Collected, At, config, setup, call, irq, bits, line, flags, Transaction
  <2>2. Len(buf) = Size
    <3>1. Going /\ Size > 0 /\ Size = op.rx
      BY <2>1 DEF Going, Data, Progress, Size
    <3>2. /\ op \in Requests /\ Sent \in Nat /\ Sent <= Whole(op) /\ op.rx \in Nat
          /\ Len(buf) \in Nat /\ Len(rxq) \in Nat /\ Len(<<>>) = 0
      BY <3>1, SentWithin, RequestTypes DEF Data, DataTypes
    <3>3. Carried(op, Sent)
      BY <2>1, <3>1, <3>2 DEF Data, GoingOn, Failed
    <3>4. Len(buf) + Len(rxq) <= op.rx
      BY <3>2, <3>3, CarriedBytes DEF Data
    <3> QED
      BY <2>1, <3>1, <3>2, <3>4
  <2> QED
    BY <2>1, <2>2, ReadOn
<1> QED
  BY <1>1, <1>2, <1>3

-----------------------------------------------------------------------------
(* The interrupt routine takes over, and ends                              *)

\* Clearing the status bits does nothing to a transaction without an error, and
\* ends one with an error whose commands are gone.
LEMMA Cleared ==
  ASSUME UNCHANGED <<wide, cmds, cur, phase, target, buf, rxq>>, int_clear, NEW r, NEW s,
         Carried(r, s) \/ (Failed /\ cmds = <<>>)
  PROVE  Carried(r, s)' \/ (Failed' /\ cmds' = <<>>)
<1>1. NACK' = FALSE /\ ARB' = FALSE
  BY DEF int_clear
<1>2. ~NACK' /\ ~ARB'
  BY <1>1, Zenon
<1>3. CASE Failed /\ cmds = <<>>
  BY <1>3 DEF Failed
<1>4. CASE Carried(r, s)
  <2>1. PICK e \in Nat : Intact(r, s, e)
    BY <1>4 DEF Carried
  <2>2. Pending(r, s, e)'
    BY <2>1 DEF Intact, Pending, Nth, Value, Starts, Stops, Writing, Whole, A, Address10
  <2>3. phase' = PhaseAt(r, e)' /\ Heard(r, e)' /\ Caught(r, e)'
    BY <2>1, Steady DEF Intact, Heard, Caught, Received
  <2> QED
    BY <1>2, <2>2, <2>3 DEF Carried, Intact
<1> QED
  BY <1>3, <1>4

LEMMA ClearTypes ==
  ASSUME DataTypes, int_clear, UNCHANGED <<bus, queued, buf, rxq, cmds, cur, target>>
  PROVE  DataTypes'
<1>1. ARB' = FALSE
  BY DEF int_clear
<1>2. ~ARB'
  BY <1>1, Zenon
<1> QED
  BY <1>2 DEF DataTypes

LEMMA ClearData == ASSUME IInv, Data, late = "never", Clear PROVE Data'
<1>1. /\ UNCHANGED <<bus, wide, registered, op, leg, queued, status, irq_busy, job, ipc, en, cmds,
                     cur, phase, target, buf, rxq>>
      /\ int_clear /\ pc = "clear" /\ pc' = "arm"
  BY DEF Clear, At, config, setup, call, irq, bits, line
<1>2. Going /\ DataTypes'
  BY <1>1, ClearTypes DEF Going, Data
<1>3. op \in Requests /\ Sent \in Nat /\ irq_busy = 0 /\ en
  BY <1>2, Alone, SentWithin DEF Data, Free
<1>4. PICK r \in Requests, s \in Nat : r = op /\ s = Sent
  BY <1>3
<1>5. GoingOn'
  <2>1. Carried(r, s) \/ (Failed /\ cmds = <<>>)
    BY <1>1, <1>2, <1>4 DEF Data, GoingOn
  <2>2. Carried(r, s)' \/ (Failed' /\ cmds' = <<>>)
    BY <1>1, <2>1, Cleared
  <2>3. op' = r /\ Sent' = s
    BY <1>1, <1>4 DEF Sent, restart, A, Address10
  <2>4. Carried(r, s)' <=> Carried(op, Sent)'
    BY <2>3
  <2> QED
    BY <1>1, <2>2, <2>4 DEF GoingOn
<1>6. Progress'
  BY <1>1 DEF Data, Progress, Total, Size, Address10
<1> QED
  BY <1>1, <1>2, <1>3, <1>5, <1>6 DEF Data, Waiting, Rest, Job, Over

LEMMA ArmData ==
  ASSUME IInv, Data, late = "never", NEW n, NEW thresholds, NEW mask, Arm(n, thresholds, mask),
  op.irq,
         (n = 1 /\ leg = "write") \/ (n = 2 /\ leg = "read")
  PROVE  Data'
<1>1. UNCHANGED Transaction /\ UNCHANGED <<bus, registered, op, leg, queued, status, ipc, en>>
      /\ ipc = "off"
  BY DEF Arm, At, config, setup, call, bits, line, flags, Transaction
<1>2. DataTypes' /\ Rest'
  BY <1>1 DEF Data, DataTypes, Rest, is_busy, Transaction
<1>3. CASE pc = "arm" /\ pc' = "unmask" /\ irq_busy' = n /\ job' = op
  <2>1. Going
    BY <1>3 DEF Going
  <2>2. op \in Requests /\ Sent \in Nat /\ Sent = Whole(op)
    BY <1>3, <2>1, SentWithin DEF Data
  <2>3. PICK r \in Requests, s \in Nat : r = op /\ s = Sent
    BY <2>2
  <2>4. Carried(job, Whole(job))' \/ (Failed' /\ cmds' = <<>>)
    <3>1. Carried(r, s) \/ (Failed /\ cmds = <<>>)
      BY <1>3, <2>1, <2>3 DEF Data, GoingOn
    <3>2. Carried(r, s)' \/ (Failed' /\ cmds' = <<>>)
      BY <1>1, <3>1, Kept DEF Transaction
    <3>3. job' = r /\ Whole(job)' = s
      BY <1>1, <1>3, <2>2, <2>3 DEF Whole, Writing, A, Address10, Transaction
    <3>4. Carried(r, s)' <=> Carried(job, Whole(job))'
      BY <3>3
    <3> QED
      BY <3>2, <3>4
  <2>5. n = 1 => op.kind = "tx"
    BY <1>3, <2>2, RequestKinds DEF IInv, Calls, Calling, Owned, Halfway
  <2>6. n = 2 => op.rx > 0
    BY <1>3 DEF Data, Progress, Size
  <2>7. Job'
    BY <1>1, <1>3, <2>2, <2>4, <2>5, <2>6 DEF Job
  <2> QED
    BY <1>2, <1>3, <2>7 DEF Data, GoingOn, Going, Progress, Waiting, Over
<1>4. CASE pc = "unmask" /\ pc' = "end" /\ UNCHANGED <<irq_busy, job>>
  <2>1. ~Halfway'
    BY <1>1, <1>4 DEF IInv, Owned, Halfway
  <2>2. Over'
    BY <1>1, <1>4 DEF Over, Finished
  <2>3. Job'
    BY <1>1, <1>4, JobOn DEF Data
  <2> QED
    BY <1>2, <1>4, <2>1, <2>2, <2>3 DEF Data, GoingOn, Going, Progress, Waiting
<1> QED
  BY <1>3, <1>4 DEF Arm, At, SetBusy, irq

\* The transaction that the routine ends.
LEMMA JobDone ==
  ASSUME Data, irq_busy \in 1 .. 2, ipc = "disable"
  PROVE  rxq = <<>> /\ (irq_busy = 2 => Done(job))
<1>1. /\ job \in Requests
      /\ irq_busy = 1 => job.kind = "tx"
      /\ irq_busy = 2 => job.rx > 0 /\ Len(buf) = job.rx
      /\ Carried(job, Whole(job)) \/ (Failed /\ cmds = <<>>)
      /\ ~is_busy
  BY DEF Data, Job
<1>2. Len(buf) \in Nat /\ Len(rxq) \in Nat /\ (Len(rxq) = 0 => rxq = <<>>) /\ Len(<<>>) = 0
  <2>1. \A q \in Seq(Int) : Len(q) \in Nat /\ (Len(q) = 0 => q = <<>>)
    OBVIOUS
  <2> QED
    BY <2>1 DEF Data, DataTypes
<1>3. job.rx \in Nat /\ (job.kind = "tx" => job.rx = 0)
  BY <1>1, RequestTypes
<1>4. CASE Failed /\ cmds = <<>>
  BY <1>1, <1>2, <1>3, <1>4 DEF Failed
<1>5. CASE Carried(job, Whole(job))
  <2>1. Len(buf) + Len(rxq) <= job.rx
        /\ (Len(buf) = job.rx => rxq = <<>> /\ (~Excused(job) => Done(job)))
    BY <1>1, <1>5, WhollyDone DEF Data
  <2> QED
    BY <1>1, <1>2, <1>3, <2>1 DEF Excused
<1> QED
  BY <1>1, <1>4, <1>5

\* The call that runs meanwhile has nothing on the bus, and has answered nothing yet.
LEMMA IsrThread ==
  ASSUME IInv, Data, late = "never", irq_busy # 0, UNCHANGED <<setup, step, cmds, cur, phase>>
  PROVE  GoingOn' /\ Progress' /\ Waiting' /\ Over'
<1>1. UNCHANGED <<bus, wide, registered, op, leg, pc, queued, status, ret>>
  BY DEF step, setup, call
<1>2. ~Going /\ en
  BY Alone DEF Free, IInv, Armed
<1>3. ~Going' /\ Progress'
  BY <1>1, <1>2, CallKept DEF Data
<1>4. GoingOn' /\ Waiting'
  BY <1>1, <1>2, <1>3 DEF Data, GoingOn, Waiting, Going, is_busy
<1>5. Over'
  BY <1>1, <1>2, CallKept DEF Data, Over, Finished
<1> QED
  BY <1>3, <1>4, <1>5

LEMMA IsrData == ASSUME IInv, Data, late = "never", late' = "never", Isr PROVE Data'
<1>1. irq_busy \in 1 .. 2 /\ en
  BY DEF Isr, IsrEnter, IsrTake, IsrEndTake, IsrAwait, IsrEnd, int_status, IInv, Armed, Shapes
<1>2. UNCHANGED <<setup, step, bus, wide, queued, job, cmds, cur, phase, target>>
  BY DEF Isr, IsrEnter, IsrTake, IsrEndTake, IsrAwait, IsrEnd, thread, step, config, setup, irq,
     line
<1>3. GoingOn' /\ Progress' /\ Waiting' /\ Over'
  BY <1>1, <1>2, IsrThread
<1>4. PICK r \in Requests, s \in Nat : r = job /\ s = Whole(job)
  BY <1>1, WholeTypes DEF Data, Job
<1>5. job' = r /\ Whole(job)' = s
  BY <1>2, <1>4 DEF Whole, Writing, A, Address10
<1>6. Carried(r, s)' <=> Carried(job, Whole(job))'
  BY <1>5
<1>7. Carried(r, s) \/ (Failed /\ cmds = <<>>)
  BY <1>1, <1>4 DEF Data, Job
<1>8. CASE IsrEnter
  <2>1. int_clear /\ UNCHANGED <<buf, rxq, irq_busy, en>>
        /\ ipc' = IF irq_busy = 2 THEN "read" ELSE "wait"
    BY <1>8 DEF IsrEnter, irq
  <2>2. DataTypes'
    BY <1>2, <2>1, ClearTypes DEF Data
  <2>3. Carried(r, s)' \/ (Failed' /\ cmds' = <<>>)
    BY <1>2, <1>7, <2>1, Cleared
  <2>4. Job'
    BY <1>1, <1>2, <1>6, <2>1, <2>3 DEF Data, Job
  <2>5. Rest'
    BY <1>1, <2>1 DEF Rest
  <2> QED
    BY <1>3, <2>2, <2>4, <2>5 DEF Data
<1>9. CASE IsrTake
  <2>1. TakeByte /\ UNCHANGED <<NACK, ARB, irq_busy, ipc, en>> /\ ipc = "read"
    BY <1>9 DEF IsrTake, irq, bits, flags
  <2>2. DataTypes'
    BY <1>2, <2>1, TakenTypes DEF Data
  <2>3. ~Failed
    BY <2>1 DEF Failed, TakeByte
  <2>4. Carried(r, s)'
    BY <1>2, <1>7, <2>1, <2>3, Taken DEF Data
  <2>5. Job'
    BY <1>1, <1>2, <1>6, <2>1, <2>4 DEF Data, Job
  <2>6. Rest'
    BY <1>1, <2>1 DEF Rest
  <2> QED
    BY <1>3, <2>2, <2>5, <2>6 DEF Data
<1>10. CASE IsrEndTake
  <2>1. UNCHANGED <<buf, rxq, irq_busy, en>> /\ ipc = "read"
    BY <1>10 DEF IsrEndTake, irq
  <2>2. \/ Len(buf) = job.rx /\ ipc' = "wait" /\ UNCHANGED <<NACK, ARB>>
        \/ ipc' = "off" /\ int_clear
    BY <1>10 DEF IsrEndTake, flags
  <2>3. DataTypes' /\ (Carried(r, s)' \/ (Failed' /\ cmds' = <<>>))
    <3>1. CASE UNCHANGED <<NACK, ARB>>
      <4>1. UNCHANGED Transaction
        BY <1>2, <2>1, <3>1 DEF Transaction
      <4>2. DataTypes'
        BY <1>2, <4>1 DEF Data, DataTypes, Transaction
      <4> QED
        BY <1>7, <4>1, <4>2, Kept DEF Transaction
    <3>2. CASE int_clear
      BY <1>2, <1>7, <2>1, <3>2, Cleared, ClearTypes DEF Data
    <3> QED
      BY <2>2, <3>1, <3>2
  <2>4. Job'
    BY <1>1, <1>2, <1>6, <2>1, <2>2, <2>3 DEF Data, Job
  <2>5. Rest'
    BY <1>1, <2>1 DEF Rest
  <2> QED
    BY <1>3, <2>3, <2>4, <2>5 DEF Data
<1>12. CASE IsrAwait
  <2>1. /\ ipc' = "disable" /\ ~is_busy /\ UNCHANGED <<buf, rxq, NACK, ARB, irq_busy, en>>
        /\ ipc = "wait"
    BY <1>12 DEF IsrAwait, RunOut, irq, bits, flags
  <2>2. UNCHANGED Transaction
    BY <1>2, <2>1 DEF Transaction
  <2>3. DataTypes' /\ is_busy' = is_busy
    BY <1>2, <2>2 DEF Data, DataTypes, Transaction, is_busy
  <2>4. Carried(r, s)' \/ (Failed' /\ cmds' = <<>>)
    BY <1>7, <2>2, Kept DEF Transaction
  <2>5. Job'
    BY <1>1, <1>2, <1>6, <2>1, <2>3, <2>4 DEF Data, Job
  <2>6. Rest'
    BY <1>1, <2>1 DEF Rest
  <2> QED
    BY <1>3, <2>3, <2>5, <2>6 DEF Data
<1>11. CASE IsrEnd
  <2>1. ipc = "disable" /\ irq_busy' = 0 /\ UNCHANGED <<buf, rxq, NACK, ARB>>
    BY <1>11 DEF IsrEnd, flags
  <2>2. rxq = <<>> /\ ~is_busy
    BY <1>1, <2>1, JobDone DEF Data, Job
  <2>3. DataTypes'
    BY <1>2, <2>1 DEF Data, DataTypes
  <2>4. Rest' /\ Job'
    BY <1>2, <2>1, <2>2 DEF Rest, Job, is_busy
  <2> QED
    BY <1>3, <2>3, <2>4 DEF Data
<1> QED
  BY <1>8, <1>9, <1>10, <1>11, <1>12 DEF Isr

-----------------------------------------------------------------------------
(* At the start, and in every step                                         *)

LEMMA DataInitially == Init => Data
<1> SUFFICES ASSUME Init PROVE Data
  OBVIOUS
<1>1. /\ op = None /\ pc = "idle" /\ queued = 0 /\ buf = <<>> /\ irq_busy = 0 /\ cmds = <<>>
      /\ cur = <<>> /\ phase = "idle" /\ rxq = <<>>
      /\ target = [wrote |-> <<>>, answered |-> 0, stopped |-> FALSE]
  BY DEF Init
<1>2. ~ARB
  <2>1. ARB = FALSE
    BY DEF Init
  <2> QED
    BY <2>1, Zenon
<1>3. DataTypes
  <2>1. <<>> \in Seq(Int) /\ <<>> \in Seq(Words) /\ Len(<<>>) <= 1
    OBVIOUS
  <2> QED
    BY <1>1, <1>2, <2>1 DEF DataTypes
<1>4. op.kind = "none"
  BY <1>1 DEF None
<1> QED
  BY <1>1, <1>3, <1>4 DEF Data, GoingOn, Going, Progress, Waiting, Job, Rest, Over, is_busy

LEMMA TransferData == ASSUME IInv, Data, late = "never", late' = "never", Transfer PROVE Data'
<1>1. (~op.irq /\ Begin => Data') /\ (BeginIrq => Data')
  <2>1. Nothing \/ Busy \/ BadArg => Data'
    BY EndData DEF Nothing, Busy, BadArg
  <2> QED
    BY <2>1, EnableData, ResumeData DEF Begin, BeginIrq
<1>2. /\ check_nack(status) = status \/ (check_nack(status) = "NACK_ERR" /\ NACK)
      /\ (NACK => check_nack(status) # "SUCCESS")
  BY DEF check_nack
<1>3. Release(check_nack(status)) => Data'
  BY <1>2, ReleaseData DEF check_nack
<1>4. Release(status) /\ op.irq => Data'
  BY ReleaseData
<1>5. CASE master_transmit
  <2>1. Check("send", IF stop THEN "wait" ELSE "end") => Data'
    BY <1>5, CheckData DEF master_transmit, stop, Halfway
  <2> QED
    BY <1>1, <1>3, <1>5, <2>1, WriteData DEF master_transmit
<1>6. CASE master_transmit_using_interrupts
  <2>1. Check("send", IF stop THEN "clear" ELSE "end") => Data'
    BY <1>6, CheckData DEF master_transmit_using_interrupts, stop, Halfway
  <2>2. Arm(1, [thd EXCEPT !.cmd = "empty"], {"TX"}) => Data'
    BY <1>6, ArmData DEF master_transmit_using_interrupts
  <2> QED
    BY <1>1, <1>4, <1>6, <2>1, <2>2, WriteData, ClearData DEF master_transmit_using_interrupts
<1>7. CASE master_receive
  <2>1. Check(IF queued > Address10 THEN "drain" ELSE "send", "collect") => Data'
    BY <1>7, CheckData DEF master_receive
  <2> QED
    BY <1>1, <1>3, <1>7, <2>1, WriteData, ReadData DEF master_receive
<1>8. CASE master_receive_using_interrupts
  <2>1. Check("send", "clear") => Data'
    BY <1>8, CheckData
  <2>2. Arm(2, [thd EXCEPT !.rx = 1], {"RX"}) => Data'
    BY <1>8, ArmData DEF master_receive_using_interrupts
  <2> QED
    BY <1>1, <1>4, <1>8, <2>1, <2>2, WriteData, ClearData DEF master_receive_using_interrupts
<1>9. ~SendTimeout
  BY DEF SendTimeout, RunOut
<1> QED
  BY <1>5, <1>6, <1>7, <1>8, <1>9, AwaitData DEF Transfer

LEMMA StutterData == ASSUME Data, UNCHANGED vars PROVE Data'
<1>1. /\ UNCHANGED Transaction
      /\ UNCHANGED <<bus, en, ipc, irq_busy, job, registered, op, leg, pc, queued, status, ret>>
  BY DEF vars, Transaction
<1>2. DataTypes' /\ Rest' /\ Job'
  BY <1>1, Quiet DEF Data, DataTypes
<1>3. Progress' /\ (Going' <=> Going) /\ Sent' = Sent
  BY <1>1, CallKept DEF Data, Transaction
<1>4. Waiting' /\ Over'
  BY <1>1 DEF Data, Waiting, Over, Flagged, AtRest, Halfway, Finished, Done, is_busy, Transaction,
     Total, Size, Address10
<1>5. GoingOn'
  <2>1. PICK r, s : r = op /\ s = Sent
    OBVIOUS
  <2>2. (Carried(r, s)' <=> Carried(r, s)) /\ (Failed' <=> Failed) /\ (Flagged' <=> Flagged)
    BY <1>1, Kept
  <2>3. op' = r /\ Sent' = s
    BY <1>1, <1>3, <2>1
  <2>4. Carried(r, s)' <=> Carried(op, Sent)'
    BY <2>3
  <2> QED
    BY <1>1, <1>3, <2>1, <2>2, <2>4 DEF Data, GoingOn, Transaction
<1> QED
  BY <1>2, <1>3, <1>4, <1>5 DEF Data

LEMMA DataInductive ==
  ASSUME IInv, Data, late = "never", late' = "never", [Next]_vars
  PROVE  Data'
<1>1. master_tx \/ master_rx \/ master_tx_rx => Data'
  BY CallData, SecondData, ReturnData DEF master_tx, master_rx, master_tx_rx, Halfway
<1> QED
  BY <1>1, TransferData, RegisterData, CallData, AskData, AbortData, IsrData, CoreData, StutterData
     DEF Next, Continue

\* A wait that has run out stays so.
LEMMA LateStays == ASSUME [Next]_vars, late # "never" PROVE late' # "never"
<1>1. CASE Transfer
  BY <1>1 DEF Transfer, master_transmit, master_transmit_using_interrupts, master_receive,
     master_receive_using_interrupts, Begin, BeginIrq, Nothing, BadArg, Busy, End, enable, Resume,
     cmd_write, Queue, Check, Release, rx_read_available, rx_read, Collected, Clear, Arm,
     SendTimeout, AwaitIdle, RunOut, config
<1>2. CASE Core \/ Isr
  BY <1>2 DEF Core, Fetch, Discard, Address, WriteByte, ReadByte, Refuse, LoseArbitration, Drop,
     Abandon, driver, Isr, IsrEnter, IsrTake, IsrEndTake, IsrAwait, IsrEnd, RunOut, thread, config
<1>3. CASE \/ register_optional_irq_handler \/ Call \/ AskStatus \/ Answer \/ AwaitAbort
           \/ AbortJob \/ master_tx \/ master_rx \/ master_tx_rx \/ UNCHANGED vars
  BY <1>3 DEF register_optional_irq_handler, Call, AskStatus, Answer, AwaitAbort, AbortJob,
     master_tx, master_rx, master_tx_rx, Retry, SecondLeg, Return, Elapse, RunOut, config, vars
<1> QED
  BY <1>1, <1>2, <1>3 DEF Next, Continue

Punctual == late = "never" => Data

LEMMA PunctualAlways == Spec => []Punctual
<1>1. Init => Punctual
  BY DataInitially DEF Punctual
<1>2. IInv /\ Punctual /\ [Next]_vars => Punctual'
  BY DataInductive, LateStays DEF Punctual
<1> QED
  BY <1>1, <1>2, Always, PTL DEF Spec

-----------------------------------------------------------------------------
(* Whoever left the core enabled, it has commands of one transaction       *)

Somebodys == \E r \in Requests : \E s \in Nat : s <= Whole(r) /\ Carried(r, s)

Known == en => Somebodys \/ (Failed /\ (Flagged \/ cmds = <<>>))

Used == late = "never" /\ (Going \/ irq_busy # 0)

LEMMA KnownIfUsed == IInv /\ Data => (Used => Known)
<1> SUFFICES ASSUME IInv, Data, late = "never" PROVE (Going => Known) /\ (irq_busy # 0 => Known)
  BY DEF Used
<1>1. ASSUME Going PROVE Known
  <2>1. op \in Requests /\ Sent \in Nat /\ Sent <= Whole(op)
    BY <1>1, SentWithin DEF Data
  <2>2. Carried(op, Sent) => Somebodys
    BY <2>1 DEF Somebodys
  <2> QED
    BY <1>1, <2>2 DEF Data, GoingOn, Known
<1>2. ASSUME irq_busy # 0 PROVE Known
  <2>1. job \in Requests /\ Whole(job) \in Nat /\ Whole(job) <= Whole(job)
    BY <1>2, WholeTypes DEF Data, Job
  <2>2. Carried(job, Whole(job)) => Somebodys
    BY <2>1 DEF Somebodys
  <2> QED
    BY <1>2, <2>2 DEF Data, Job, Known
<1> QED
  BY <1>1, <1>2

LEMMA KnownIfUsedNext == IInv' /\ Data' => (Used' => Known')
BY KnownIfUsed, PTL

LEMMA CoreKnown == ASSUME IInv, Data, late = "never", Known, Core PROVE Known'
<1>1. UNCHANGED <<wide, en>> /\ Requests' = Requests
  BY CoreLeaves DEF Requests
<1>2. CASE Failed /\ (Flagged \/ cmds = <<>>) /\ en
  BY <1>2, CoreFailed DEF Known, Drop
<1>3. ASSUME NEW r \in Requests, NEW s \in Nat, s <= Whole(r), Carried(r, s), en
      PROVE  Known'
  <2>1. Carried(r, s)' \/ (Failed' /\ Flagged' /\ cmds' = <<>>)
    BY <1>3, CoreCarries DEF Data, Drop
  <2>2. s <= Whole(r)'
    BY <1>1, <1>3, Steady
  <2> QED
    BY <1>1, <2>1, <2>2 DEF Known, Somebodys
<1>4. CASE ~en
  BY <1>1, <1>4 DEF Known
<1> QED
  BY <1>2, <1>3, <1>4 DEF Known, Somebodys

LEMMA StillKnown == ASSUME Known, UNCHANGED Transaction, UNCHANGED en PROVE Known'
<1>1. Requests' = Requests
  BY DEF Requests
<1>2. CASE Failed /\ (Flagged \/ cmds = <<>>)
  <2>2. (Failed' <=> Failed) /\ (Flagged' <=> Flagged)
    BY Kept
  <2> QED
    BY <1>2, <2>2 DEF Known, Transaction
<1>3. ASSUME NEW r \in Requests, NEW s \in Nat, s <= Whole(r), Carried(r, s)
      PROVE  Known'
  <2>1. Carried(r, s)' /\ s <= Whole(r)'
    BY <1>3, Kept, Steady DEF Transaction
  <2> QED
    BY <1>1, <2>1 DEF Known, Somebodys
<1>4. CASE ~en
  BY <1>4 DEF Known
<1> QED
  BY <1>2, <1>3, <1>4 DEF Known, Somebodys

LEMMA TransferLeaves ==
  ASSUME Transfer
  PROVE  (UNCHANGED Transaction /\ UNCHANGED en) \/ Going' \/ en' = FALSE
<1>1. CASE \E result : End(result)
  BY <1>1 DEF End, config, setup, bits, line, flags, call, irq, Transaction
<1>2. CASE enable \/ Resume \/ cmd_write \/ rx_read_available \/ rx_read \/ Collected \/ Clear
  BY <1>2 DEF enable, Resume, cmd_write, Queue, rx_read_available, rx_read, Collected, Clear, Going,
     At
<1>3. CASE \E more, last : Check(more, last)
  BY <1>3 DEF Check, config, setup, bits, line, flags, Transaction
<1>4. CASE \E n, thresholds, mask : Arm(n, thresholds, mask)
  BY <1>4 DEF Arm, config, setup, line, flags, Transaction
<1>5. CASE \E result : Release(result)
  BY <1>5 DEF Release
<1>6. CASE SendTimeout \/ AwaitIdle
  BY <1>6 DEF SendTimeout, AwaitIdle, bits, line, flags, setup, Transaction
<1> QED
  BY <1>1, <1>2, <1>3, <1>4, <1>5, <1>6 DEF Transfer, master_transmit,
     master_transmit_using_interrupts,
     master_receive, master_receive_using_interrupts, Begin, BeginIrq, Nothing, BadArg, Busy

LEMMA KnownStep ==
  ASSUME IInv, Data, late = "never", Known, IInv', Data', late' = "never", [Next]_vars
  PROVE  Known'
<1>1. CASE Core
  BY <1>1, CoreKnown
<1>2. CASE Going' \/ irq_busy' # 0
  BY <1>2, KnownIfUsedNext DEF Used
<1>3. CASE UNCHANGED Transaction /\ UNCHANGED en
  BY <1>3, StillKnown
<1>4. CASE en' = FALSE
  <2>1. ~en'
    BY <1>4, Zenon
  <2> QED
    BY <2>1 DEF Known
<1>5. CASE Transfer
  BY <1>2, <1>3, <1>4, <1>5, TransferLeaves
<1>6. CASE Isr
  <2>1. irq_busy # 0
    BY <1>6 DEF Isr, IsrEnter, IsrTake, IsrEndTake, IsrAwait, IsrEnd, int_status, IInv, Armed
  <2>2. UNCHANGED irq_busy \/ en' = FALSE
    BY <1>6 DEF Isr, IsrEnter, IsrTake, IsrEndTake, IsrAwait, IsrEnd, irq
  <2> QED
    BY <1>2, <1>4, <2>1, <2>2
<1>7. CASE AbortJob
  BY <1>4, <1>7 DEF AbortJob
<1>8. CASE \/ register_optional_irq_handler \/ Call \/ AskStatus \/ Answer \/ AwaitAbort
           \/ UNCHANGED vars \/ master_tx \/ master_rx \/ master_tx_rx
  BY <1>3, <1>8 DEF register_optional_irq_handler, Call, AskStatus, Answer, AwaitAbort, vars,
     master_tx, master_rx, master_tx_rx, Retry, SecondLeg, Return, config, setup, bits, line,
     flags, Transaction
<1> QED
  BY <1>1, <1>5, <1>6, <1>7, <1>8 DEF Next, Continue

-----------------------------------------------------------------------------
(* The types, whether a wait has run out or not                            *)

LEMMA Bounds ==
  ASSUME NEW r \in Requests
  PROVE  r.tx \in 0 .. MAX_SIZE /\ r.rx \in 0 .. MAX_SIZE
BY I2cAssumption DEF Requests

Labels == {"idle", "begin", "send", "check", "drain", "collect", "wait", "clear", "arm",
           "unmask", "disable", "end", "asked", "abort"}

\* How many commands a transfer has written.
Queueing ==
  /\ queued \in Nat
  /\ pc \in {"send", "drain"} => queued < Total
  /\ pc = "check" => queued \in 1 .. Total

LEMMA TransferSize ==
  ASSUME IInv, Calling
  PROVE  Total = A + Size /\ Size \in 0 .. MAX_SIZE /\ A \in 1 .. 2 /\ MAX_SIZE \in Nat
         /\ Total \in Nat
<1>1. op \in Requests /\ leg \in {"write", "read"}
  BY DEF IInv, Shapes, Calls
<1>2. Size \in 0 .. MAX_SIZE /\ MAX_SIZE \in Nat
  BY <1>1, Bounds, I2cAssumption DEF Size
<1> QED
  BY <1>2, AddressSize DEF Total, A

LEMMA TransferQueues ==
  ASSUME IInv, Queueing, Transfer
  PROVE  /\ UNCHANGED <<bus, wide, calls, op, leg, retry, ret>> /\ pc' \in Labels
         /\ Queueing'
<1>0. Calling
  BY DEF Calling, Transfer, master_transmit, master_transmit_using_interrupts, master_receive,
     master_receive_using_interrupts, Begin, BeginIrq, Nothing, BadArg, Busy, End, enable, Resume,
     cmd_write, Queue, Check, Release, rx_read_available, rx_read, Collected, Clear, Arm,
     SendTimeout, AwaitIdle, At
<1>1. /\ Total = A + Size /\ Size \in Nat /\ A \in 1 .. 2 /\ Total \in Nat
      /\ queued \in Nat /\ A = Address10
  BY <1>0, TransferSize DEF Queueing, A
<1>2. UNCHANGED <<wide, op, leg>> => Total' = Total
  BY DEF Total, Address10, Size
<1>3. CASE \E result : End(result) \/ Release(result)
  BY <1>1, <1>2, <1>3 DEF End, Release, config, setup, call, Labels, Queueing
<1>4. CASE enable \/ Resume
  <2>1. /\ UNCHANGED <<bus, wide, calls, op, leg, retry, ret>> /\ pc' = "send" /\ Size > 0
        /\ queued' = 0
    BY <1>4 DEF enable, Resume, config, setup, call
  <2> QED
    BY <1>1, <1>2, <2>1 DEF Labels, Queueing
<1>5. CASE cmd_write
  <2>1. /\ UNCHANGED <<bus, wide, calls, op, leg, retry, ret>> /\ pc = "send" /\ pc' = "check"
        /\ queued' = queued + 1
    BY <1>5 DEF cmd_write, Queue, At, config, setup, call
  <2> QED
    BY <1>1, <1>2, <2>1 DEF Labels, Queueing
<1>6. CASE SendTimeout
  <2>1. /\ UNCHANGED <<bus, wide, calls, op, leg, retry, ret>> /\ pc = "send"
        /\ \/ queued' = queued + 1 /\ pc' = "send" /\ queued + 1 < A
           \/ pc' = "wait" /\ queued' = queued
    BY <1>1, <1>6 DEF SendTimeout, At, setup, call
  <2> QED
    BY <1>1, <1>2, <2>1 DEF Labels, Queueing
<1>7. CASE AwaitIdle \/ Clear
  BY <1>1, <1>2, <1>7 DEF AwaitIdle, Clear, config, setup, call, Labels, Queueing
<1>8. CASE rx_read_available \/ rx_read \/ Collected
  BY <1>1, <1>2, <1>8 DEF rx_read_available, rx_read, Collected, At, config, setup, call, Labels,
     Queueing
<1>9. CASE \E n, thresholds, mask : Arm(n, thresholds, mask)
  BY <1>1, <1>2, <1>9 DEF Arm, config, setup, call, Labels, Queueing
<1>10. CASE \E more \in {"send", "drain"}, last \in {"wait", "clear", "collect", "end"} :
              Check(more, last)
  <2>1. /\ UNCHANGED <<bus, wide, calls, op, leg, retry, ret, queued>> /\ pc = "check"
        /\ \/ pc' = "send" /\ queued < A
           \/ pc' \in {"send", "drain"} /\ queued < Total
           \/ pc' \in {"wait", "clear", "collect", "end"}
    BY <1>1, <1>10 DEF Check, At, config, setup, call
  <2> QED
    BY <1>1, <1>2, <2>1 DEF Labels, Queueing
<1> QED
  BY <1>3, <1>4, <1>5, <1>6, <1>7, <1>8, <1>9, <1>10 DEF Transfer, master_transmit, master_receive,
     master_transmit_using_interrupts, master_receive_using_interrupts, Begin, BeginIrq, Nothing,
     BadArg, Busy

LEMMA Within == ASSUME IInv, Queueing, pc = "send" PROVE queued + 1 \in 0 .. MAX_SIZE + 2
BY TransferSize DEF Queueing, Calling

LEMMA CallTypesStep ==
  ASSUME IInv, IInv', CallTypes, Queueing, [Next]_vars
  PROVE  CallTypes' /\ Queueing'
<1>1. registered' \in BOOLEAN /\ leg' \in {"write", "read"} /\ status' \in Results
      /\ saved' \subseteq {"TX", "RX"} /\ late' \in {"never", "now", "before"}
  BY DEF IInv, Shapes
<1>2. /\ bus \in {"good", "refuses", "shares", "slow"} /\ wide \in BOOLEAN
      /\ calls \in 0 .. MAX_CALLS /\ op \in Requests \union {None, Status} /\ pc \in Labels
      /\ retry \in 0 .. RETRIES /\ queued \in 0 .. MAX_SIZE + 2 /\ status \in Results
      /\ ret \in Results \union {"none"}
  BY DEF CallTypes, Labels, IInv, Shapes
<1>3. MAX_SIZE \in Nat /\ MAX_CALLS \in Nat /\ RETRIES \in Nat /\ 0 \in 0 .. MAX_SIZE + 2
  BY I2cAssumption
<1> SUFFICES /\ UNCHANGED <<bus, wide>>
             /\ calls' \in 0 .. MAX_CALLS /\ op' \in Requests \union {None, Status}
             /\ pc' \in Labels /\ retry' \in 0 .. RETRIES /\ queued' \in 0 .. MAX_SIZE + 2
             /\ ret' \in Results \union {"none"} /\ Queueing'
  <2>1. UNCHANGED <<bus, wide>> =>
          bus' \in {"good", "refuses", "shares", "slow"} /\ wide' \in BOOLEAN
    BY <1>2
  <2> QED
    BY <1>1, <2>1 DEF CallTypes, Labels, Requests, Results, None, Status
<1>4. CASE Core \/ Isr \/ UNCHANGED vars
  <2>1. UNCHANGED <<bus, wide, calls, op, leg, pc, retry, queued, ret>>
    BY <1>4 DEF Core, Fetch, Discard, Address, WriteByte, ReadByte, Refuse, LoseArbitration, Drop,
       Abandon, driver, Isr, IsrEnter, IsrTake, IsrEndTake, IsrAwait, IsrEnd, thread, step, config,
       setup, call, vars
  <2> QED
    BY <1>2, <2>1 DEF Queueing, Total, Address10, Size
<1>5. CASE Transfer
  <2>1. pc' \in Labels /\ UNCHANGED <<bus, wide, calls, op, leg, retry, ret>> /\ Queueing'
    BY <1>5, TransferQueues
  <2>2. queued' \in 0 .. MAX_SIZE + 2
    <3>1. UNCHANGED queued \/ queued' = 0 \/ (queued' = queued + 1 /\ pc = "send")
      BY <1>5 DEF Transfer, master_transmit, master_receive, master_transmit_using_interrupts,
         master_receive_using_interrupts, Begin, BeginIrq, Nothing, BadArg, Busy, End, enable,
         Resume, cmd_write, Queue, Check, Release, rx_read_available, rx_read, Collected, Clear,
         Arm, SendTimeout, AwaitIdle, At
    <3> QED
      BY <1>2, <1>3, <3>1, Within
  <2> QED
    BY <1>2, <2>1, <2>2
<1>6. CASE register_optional_irq_handler \/ Call \/ AskStatus
  BY <1>2, <1>3, <1>6 DEF register_optional_irq_handler, Call, AskStatus, At, config, setup, call,
     Labels, Queueing
<1>7. CASE AwaitAbort \/ AbortJob \/ Answer
  BY <1>2, <1>7 DEF AwaitAbort, AbortJob, Answer, config, setup, Labels, Results, check_nack,
     Queueing
<1>8. CASE Retry \/ SecondLeg \/ \E last : Return(last)
  BY <1>2, <1>3, <1>8 DEF Retry, SecondLeg, Return, config, setup, Labels, Queueing
<1> QED
  BY <1>4, <1>5, <1>6, <1>7, <1>8 DEF Next, Continue, master_tx, master_rx, master_tx_rx

\* What the driver and the core do to the bytes they have received.
LEMMA BytesStep ==
  ASSUME IInv, [Next]_vars
  PROVE  \/ UNCHANGED <<buf, rxq>>
         \/ TakeByte /\ (rx_read_available \/ rx_read \/ IsrTake)
         \/ enable /\ buf' = <<>> /\ UNCHANGED rxq
         \/ AbortJob /\ rxq' = <<>> /\ buf' = buf \o rxq
         \/ ReadByte /\ UNCHANGED buf
<1>1. CASE Core \/ Isr \/ UNCHANGED vars
  BY <1>1 DEF Core, Fetch, Discard, Address, WriteByte, ReadByte, Refuse, LoseArbitration, Drop,
     Abandon, driver, Isr, IsrEnter, IsrTake, IsrEndTake, IsrAwait, IsrEnd, vars
<1>2. CASE Transfer
  BY <1>2 DEF Transfer, master_transmit, master_receive, master_transmit_using_interrupts,
     master_receive_using_interrupts, Begin, BeginIrq, Nothing, BadArg, Busy, End, enable,
     Resume, cmd_write, Queue, Check, Release, rx_read_available, rx_read, Collected, Clear,
     Arm, SendTimeout, AwaitIdle
<1>3. CASE \/ register_optional_irq_handler \/ Call \/ AskStatus \/ Answer \/ AwaitAbort
           \/ AbortJob \/ master_tx \/ master_rx \/ master_tx_rx
  BY <1>3 DEF register_optional_irq_handler, Call, AskStatus, Answer, AwaitAbort, AbortJob,
     master_tx, master_rx, master_tx_rx, Retry, SecondLeg, Return
<1> QED
  BY <1>1, <1>2, <1>3 DEF Next, Continue

LEMMA DriverTypesStep ==
  ASSUME IInv, IInv', DriverTypes, CoreTypes, [Next]_vars
  PROVE  DriverTypes'
<1>1. irq_busy' \in 0 .. 2 /\ ipc' \in {"off", "read", "wait", "disable"}
  BY DEF IInv, Shapes
<1>2. buf \in Seq(Nat) /\ rxq \in Seq(Nat) /\ job \in Requests \union {None}
  BY DEF DriverTypes, CoreTypes
<1>3. buf' \in Seq(Nat)
  <2>1. CASE TakeByte
    <3>1. Head(rxq) \in Nat
      BY <1>2, <2>1 DEF TakeByte
    <3> QED
      BY <1>2, <2>1, <3>1 DEF TakeByte
  <2>2. <<>> \in Seq(Nat) /\ buf \o rxq \in Seq(Nat)
    BY <1>2
  <2> QED
    BY <1>2, <2>1, <2>2, BytesStep
<1>4. job' \in Requests \union {None}
  <2>1. job' \in {job, None} \/ (job' = op /\ Calling)
    <3>1. CASE Core \/ Isr \/ UNCHANGED vars
      BY <3>1 DEF Core, Fetch, Discard, Address, WriteByte, ReadByte, Refuse, LoseArbitration, Drop,
         Abandon, driver, Isr, IsrEnter, IsrTake, IsrEndTake, IsrAwait, IsrEnd, vars, irq
    <3>2. CASE Transfer
      BY <3>2 DEF Transfer, master_transmit, master_receive, master_transmit_using_interrupts,
         master_receive_using_interrupts, Begin, BeginIrq, Nothing, BadArg, Busy, End, enable,
         Resume, cmd_write, Queue, Check, Release, rx_read_available, rx_read, Collected, Clear,
         Arm, SendTimeout, AwaitIdle, irq, SetBusy, At, Calling
    <3>3. CASE \/ register_optional_irq_handler \/ Call \/ AskStatus \/ Answer \/ AwaitAbort
               \/ AbortJob \/ master_tx \/ master_rx \/ master_tx_rx
      BY <3>3 DEF register_optional_irq_handler, Call, AskStatus, Answer, AwaitAbort, AbortJob,
         master_tx, master_rx, master_tx_rx, Retry, SecondLeg, Return, irq
    <3> QED
      BY <3>1, <3>2, <3>3 DEF Next, Continue
  <2> QED
    BY <1>2, <2>1 DEF IInv, Calls
<1>5. (Requests \union {None})' = Requests \union {None}
  BY DEF Requests, None
<1> QED
  BY <1>1, <1>3, <1>4, <1>5 DEF DriverTypes

\* A command that waits has a value in bounds, for the next is written in bounds.
LEMMA CommandTypes == ASSUME IInv, Queueing, pc = "send" PROVE Command \in Commands
<1>1. queued \in Nat /\ queued < Total
  BY DEF Queueing
<1>2. Total = A + Size /\ Size \in 0 .. MAX_SIZE /\ A \in 1 .. 2 /\ MAX_SIZE \in Nat
  BY TransferSize DEF Calling
<1>3. (restart /\ queued = 0) \in BOOLEAN /\ (queued = Total - 1 /\ stop) \in BOOLEAN
      /\ FALSE \in BOOLEAN
  BY Zenon
<1>4. CASE queued < A
  <2>1. Command = send_address
    BY <1>4 DEF Command, A
  <2>2. (IF leg = "write" THEN W ELSE R) \in -2 .. MAX_SIZE
    BY <1>2 DEF W, R
  <2> QED
    BY <1>3, <2>1, <2>2, Zenon DEF send_address, Commands
<1>5. CASE ~(queued < A)
  <2>1. Command = [val |-> IF leg = "write" THEN queued - A + 1 ELSE 0,
                   sta |-> FALSE, sto |-> queued = Total - 1 /\ stop]
    BY <1>5 DEF Command, A
  <2>2. (IF leg = "write" THEN queued - A + 1 ELSE 0) \in -2 .. MAX_SIZE
    BY <1>1, <1>2, <1>5
  <2> QED
    BY <1>3, <2>1, <2>2, Zenon DEF Commands
<1> QED
  BY <1>4, <1>5

LEMMA CoreTypesKept == ASSUME CoreTypes, Core PROVE CoreTypes'
<1>1. /\ cmds \in Seq(Commands) /\ Len(cmds) <= FIFO_DEPTH /\ FIFO_DEPTH \in Nat
      /\ cur \in Seq(Commands) /\ Len(cur) <= 1
      /\ phase \in {"idle", "address", "write", "read"}
      /\ rxq \in Seq(Nat) /\ Len(rxq) <= FIFO_DEPTH
      /\ NACK \in BOOLEAN /\ ARB \in BOOLEAN /\ TRUE \in BOOLEAN
      /\ target \in [wrote : Seq(-2 .. MAX_SIZE), answered : Nat, stopped : BOOLEAN]
      /\ MAX_SIZE \in Nat
  BY I2cAssumption DEF CoreTypes
<1>2. <<>> \in Seq(Commands) /\ Len(<<>>) <= FIFO_DEPTH /\ Len(<<>>) <= 1
      /\ <<>> \in Seq(-2 .. MAX_SIZE)
  BY <1>1
<1> SUFFICES /\ cmds' \in Seq(Commands) /\ Len(cmds') <= FIFO_DEPTH
             /\ cur' \in Seq(Commands) /\ Len(cur') <= 1
             /\ phase' \in {"idle", "address", "write", "read"}
             /\ rxq' \in Seq(Nat) /\ Len(rxq') <= FIFO_DEPTH
             /\ NACK' \in BOOLEAN /\ ARB' \in BOOLEAN
             /\ target' \in [wrote : Seq(-2 .. MAX_SIZE), answered : Nat,
                             stopped : BOOLEAN]
  <2>1. UNCHANGED bits
    BY DEF Core, Fetch, Discard, Address, WriteByte, ReadByte, Refuse, LoseArbitration, Drop,
       Abandon, driver
  <2> QED
    BY <2>1 DEF CoreTypes, Commands, bits
<1>3. CASE Fetch
  <2>1. cmds # <<>> /\ cur' = <<Head(cmds)>> /\ cmds' = Tail(cmds)
        /\ UNCHANGED <<phase, rxq, NACK, ARB, target>>
    BY <1>3 DEF Fetch, flags
  <2>2. Head(cmds) \in Commands /\ Tail(cmds) \in Seq(Commands) /\ Len(Tail(cmds)) <= FIFO_DEPTH
    BY <1>1, <2>1
  <2>3. cur' \in Seq(Commands) /\ Len(cur') <= 1
    BY <2>1, <2>2
  <2> QED
    BY <1>1, <2>1, <2>2, <2>3
<1>4. CASE Discard
  BY <1>1, <1>2, <1>4 DEF Discard, flags
<1>7. CASE Drop
  BY <1>1, <1>2, <1>7 DEF Drop, Abandon, flags
<1>5. CASE Refuse \/ LoseArbitration
  <2>1. phase' = "idle" /\ cur' = <<>> /\ cmds' = <<>> /\ UNCHANGED <<target, rxq>>
    BY <1>5 DEF Refuse, LoseArbitration, Drop, Abandon
  <2>2. NACK' \in {TRUE, NACK} /\ ARB' \in {TRUE, ARB}
    BY <1>5 DEF Refuse, LoseArbitration
  <2>3. NACK' \in BOOLEAN /\ ARB' \in BOOLEAN
    BY <1>1, <2>2
  <2> QED
    BY <1>1, <1>2, <2>1, <2>3
<1>6. CASE Address \/ WriteByte \/ ReadByte
  <2>1. cur # <<>> /\ cur' = <<>> /\ UNCHANGED <<cmds, NACK, ARB>>
        /\ phase' \in {"idle", "address", "write", "read"}
    BY <1>6 DEF Address, WriteByte, ReadByte, Finish, flags
  <2>2. Command1.sto \in BOOLEAN /\ Command1.val \in -2 .. MAX_SIZE
    <3>1. cur[1] \in Commands
      BY <1>1, <2>1
    <3> QED
      BY <3>1 DEF Commands, Command1
  <2>3. CASE Address
    <3>1. 0 \in Nat /\ FALSE \in BOOLEAN
      BY <1>1
    <3>2. target' \in [wrote : Seq(-2 .. MAX_SIZE), answered : Nat, stopped : BOOLEAN]
      BY <1>1, <1>2, <2>3, <3>1 DEF Address
    <3> QED
      BY <1>1, <1>2, <2>1, <2>3, <3>2 DEF Address
  <2>4. CASE WriteByte
    <3>2. target.wrote \in Seq(-2 .. MAX_SIZE)
      BY <1>1
    <3>3. Append(target.wrote, Command1.val) \in Seq(-2 .. MAX_SIZE)
      BY <2>2, <3>2
    <3>4. target' \in [wrote : Seq(-2 .. MAX_SIZE), answered : Nat, stopped : BOOLEAN]
      BY <1>1, <2>2, <2>4, <3>3, Zenon DEF WriteByte
    <3> QED
      BY <1>1, <1>2, <2>1, <2>4, <3>4 DEF WriteByte
  <2>5. CASE ReadByte
    <3>2. target.answered + 1 \in Nat
      BY <1>1
    <3>3. target' \in [wrote : Seq(-2 .. MAX_SIZE), answered : Nat, stopped : BOOLEAN]
      BY <1>1, <2>2, <2>5, <3>2, Zenon DEF ReadByte
    <3>4. target'.answered = target.answered + 1
      BY <1>1, <2>5, Zenon DEF ReadByte
    <3>5. rxq' \in Seq(Nat) /\ Len(rxq') <= FIFO_DEPTH
      <4>1. /\ Append(rxq, target.answered + 1) \in Seq(Nat)
            /\ Len(Append(rxq, target.answered + 1)) = Len(rxq) + 1 /\ Len(rxq) \in Nat
        BY <1>1, <3>2
      <4>2. rxq' = IF Len(rxq) < FIFO_DEPTH THEN Append(rxq, target.answered + 1) ELSE rxq
        BY <2>5, <3>4 DEF ReadByte
      <4>3. CASE Len(rxq) < FIFO_DEPTH
        BY <1>1, <4>1, <4>2, <4>3
      <4>4. CASE ~(Len(rxq) < FIFO_DEPTH)
        BY <1>1, <4>2, <4>4
      <4> QED
        BY <4>3, <4>4
    <3> QED
      BY <1>1, <1>2, <2>1, <3>3, <3>5
  <2> QED
    BY <1>6, <2>3, <2>4, <2>5
<1> QED
  BY <1>3, <1>4, <1>5, <1>6, <1>7 DEF Core

LEMMA TakeShorter ==
  ASSUME TakeByte, rxq \in Seq(Nat), Len(rxq) <= FIFO_DEPTH
  PROVE  rxq' \in Seq(Nat) /\ Len(rxq') <= FIFO_DEPTH
<1>1. rxq # <<>> /\ rxq' = Tail(rxq) /\ FIFO_DEPTH \in Nat
  BY I2cAssumption DEF TakeByte
<1>2. Tail(rxq) \in Seq(Nat) /\ Len(Tail(rxq)) = Len(rxq) - 1 /\ Len(rxq) \in Nat
  BY <1>1
<1> QED
  BY <1>1, <1>2

LEMMA TransferTypes ==
  ASSUME IInv, IInv', Queueing, CoreTypes, Transfer
  PROVE  CoreTypes'
<1>1. en' \in BOOLEAN /\ iser' \subseteq {"TX", "RX"}
  BY DEF IInv, Shapes
<1>2. /\ thd \in [cmd : {"not full", "empty"}, rx : {1, FIFO_DEPTH}]
      /\ cmds \in Seq(Commands) /\ Len(cmds) <= FIFO_DEPTH /\ FIFO_DEPTH \in Nat \ {0}
      /\ cur \in Seq(Commands) /\ Len(cur) <= 1
      /\ phase \in {"idle", "address", "write", "read"}
      /\ rxq \in Seq(Nat) /\ Len(rxq) <= FIFO_DEPTH
      /\ NACK \in BOOLEAN /\ ARB \in BOOLEAN /\ FALSE \in BOOLEAN
      /\ target \in [wrote : Seq(-2 .. MAX_SIZE), answered : Nat, stopped : BOOLEAN]
  BY I2cAssumption DEF CoreTypes
<1>3. CASE UNCHANGED <<thd, line, rxq, flags>>
  BY <1>1, <1>2, <1>3 DEF CoreTypes, Commands, line, flags
<1>4. CASE \E result : End(result) \/ Release(result)
  BY <1>3, <1>4 DEF End, Release, bits
<1>5. CASE Resume \/ Collected \/ SendTimeout \/ AwaitIdle \/ \E more, last : Check(more, last)
  BY <1>3, <1>5 DEF Resume, Collected, SendTimeout, AwaitIdle, Check, bits
<1>6. CASE enable \/ Clear
  <2>1. NACK' = FALSE /\ ARB' = FALSE /\ UNCHANGED <<thd, line, rxq>>
    BY <1>6 DEF enable, Clear, bits, int_clear
  <2>2. NACK' \in BOOLEAN /\ ARB' \in BOOLEAN
    BY <2>1, Zenon
  <2> QED
    BY <1>1, <1>2, <2>1, <2>2 DEF CoreTypes, Commands, line
<1>7. CASE cmd_write
  <2>0. FIFO_DEPTH \in Nat /\ 0 < FIFO_DEPTH
    BY I2cAssumption
  <2>1. /\ cmds' = Append(cmds, Command) /\ TX_READY /\ pc = "send"
        /\ UNCHANGED <<thd, cur, phase, target, rxq, flags>>
    BY <1>7 DEF cmd_write, Queue, At, bits
  <2>2. Command \in Commands /\ Len(cmds) < FIFO_DEPTH
    <3>1. cmds = <<>> => Len(cmds) = 0
      OBVIOUS
    <3>2. Len(cmds) < FIFO_DEPTH
      BY <2>0, <2>1, <3>1 DEF TX_READY
    <3> QED
      BY <2>1, <3>2, CommandTypes
  <2>3. /\ cmds' \in Seq(Commands) /\ Len(cmds') = Len(cmds) + 1 /\ Len(cmds) \in Nat
    <3>1. \A q \in Seq(Commands), c \in Commands :
            /\ Append(q, c) \in Seq(Commands) /\ Len(Append(q, c)) = Len(q) + 1 /\ Len(q) \in Nat
      OBVIOUS
    <3>2. cmds \in Seq(Commands) /\ Command \in Commands
      BY <1>2, <2>2
    <3> QED
      BY <2>1, <3>1, <3>2
  <2>4. Len(cmds') <= FIFO_DEPTH
    BY <2>0, <2>2, <2>3
  <2>5. Commands' = Commands
    BY DEF Commands
  <2> QED
    BY <1>1, <1>2, <2>1, <2>3, <2>4, <2>5 DEF CoreTypes, flags
<1>8. CASE rx_read_available \/ rx_read
  <2>1. UNCHANGED <<thd, line, flags>> /\ (UNCHANGED rxq \/ TakeByte)
    BY <1>8 DEF rx_read_available, rx_read, bits
  <2>2. rxq' \in Seq(Nat) /\ Len(rxq') <= FIFO_DEPTH
    BY <1>2, <2>1, TakeShorter
  <2> QED
    BY <1>1, <1>2, <2>1, <2>2 DEF CoreTypes, Commands, line, flags
<1>9. CASE \/ \E mask : Arm(1, [thd EXCEPT !.cmd = "empty"], mask)
           \/ \E mask : Arm(2, [thd EXCEPT !.rx = 1], mask)
  <2>1. UNCHANGED <<line, rxq, flags>>
    BY <1>9 DEF Arm
  <2>2. thd' \in {thd, [thd EXCEPT !.cmd = "empty"], [thd EXCEPT !.rx = 1]}
    BY <1>9 DEF Arm, SetBusy
  <2>3. /\ [thd EXCEPT !.cmd = "empty"] \in [cmd : {"not full", "empty"}, rx : {1, FIFO_DEPTH}]
        /\ [thd EXCEPT !.rx = 1] \in [cmd : {"not full", "empty"}, rx : {1, FIFO_DEPTH}]
    BY <1>2
  <2> QED
    BY <1>1, <1>2, <2>1, <2>2, <2>3 DEF CoreTypes, Commands, line, flags
<1> QED
  BY <1>4, <1>5, <1>6, <1>7, <1>8, <1>9 DEF Transfer, master_transmit, master_receive,
     master_transmit_using_interrupts, master_receive_using_interrupts, Begin, BeginIrq, Nothing,
     BadArg, Busy

LEMMA OtherTypes ==
  ASSUME IInv, IInv', CoreTypes,
         \/ AbortJob \/ AwaitAbort \/ Isr \/ register_optional_irq_handler \/ Call \/ AskStatus
         \/ Answer \/ master_tx \/ master_rx \/ master_tx_rx \/ UNCHANGED vars
  PROVE  CoreTypes'
<1>1. en' \in BOOLEAN /\ iser' \subseteq {"TX", "RX"}
  BY DEF IInv, Shapes
<1>2. UNCHANGED <<thd, line>>
  BY DEF AbortJob, AwaitAbort, Isr, IsrEnter, IsrTake, IsrEndTake, IsrAwait, IsrEnd,
     register_optional_irq_handler, Call,
     AskStatus, Answer, master_tx, master_rx, master_tx_rx, Retry, SecondLeg, Return, vars, bits,
     line
<1>3. rxq \in Seq(Nat) /\ Len(rxq) <= FIFO_DEPTH
      /\ <<>> \in Seq(Nat) /\ Len(<<>>) <= FIFO_DEPTH
  <2>1. Len(<<>>) = 0 /\ <<>> \in Seq(Nat)
    OBVIOUS
  <2>2. FIFO_DEPTH \in Nat /\ 0 <= FIFO_DEPTH
    BY I2cAssumption
  <2>3. Len(<<>>) <= FIFO_DEPTH
    BY <2>1, <2>2
  <2> QED
    BY <2>1, <2>3 DEF CoreTypes
<1>4. rxq' \in Seq(Nat) /\ Len(rxq') <= FIFO_DEPTH
  <2>1. CASE IsrTake
    BY <1>3, <2>1, TakeShorter DEF IsrTake
  <2>2. CASE ~IsrTake
    <3>1. rxq' = rxq \/ rxq' = <<>>
      BY <2>2 DEF AbortJob, AwaitAbort, Isr, IsrEnter, IsrEndTake, IsrAwait, IsrEnd,
         register_optional_irq_handler, Call,
         AskStatus, Answer, master_tx, master_rx, master_tx_rx, Retry, SecondLeg, Return, vars
    <3> QED
      BY <1>3, <3>1
  <2> QED
    BY <2>1, <2>2
<1>5. NACK' \in BOOLEAN /\ ARB' \in BOOLEAN
  <2>1. NACK' \in {NACK, FALSE} /\ ARB' \in {ARB, FALSE}
    BY DEF AbortJob, AwaitAbort, Isr, IsrEnter, IsrTake, IsrEndTake, IsrAwait, IsrEnd,
       register_optional_irq_handler,
       Call, AskStatus, Answer, master_tx, master_rx, master_tx_rx, Retry, SecondLeg, Return, vars,
       flags, int_clear
  <2>2. NACK \in BOOLEAN /\ ARB \in BOOLEAN
    BY DEF CoreTypes
  <2> QED
    BY <2>1, <2>2
<1> QED
  BY <1>1, <1>2, <1>4, <1>5 DEF CoreTypes, Commands, line

\* The bytes a target gets, and those it answers, are in bounds.
LEMMA ByteBounds ==
  ASSUME Data, late = "never", Known, WriteByte \/ ReadByte
  PROVE  /\ WriteByte => Command1.val \in 1 .. MAX_SIZE
         /\ ReadByte => target.answered + 1 \in 1 .. MAX_SIZE
<1>1. cur # <<>> /\ ~Addressing /\ phase = (IF WriteByte THEN "write" ELSE "read")
  BY DEF WriteByte, ReadByte
<1>2. PICK r \in Requests, s \in Nat : s <= Whole(r) /\ Carried(r, s)
  BY <1>1 DEF Data, Rest, is_busy, Known, Somebodys, Failed
<1>3. PICK e \in Nat : Intact(r, s, e)
  BY <1>2 DEF Carried
<1>4. /\ Command1 = Nth(r, e) /\ e < Whole(r)
      /\ phase = "write" => IsWrite(r, e)
      /\ phase = "read" => IsRead(r, e)
  BY <1>1, <1>2, <1>3, OnTheBus DEF Data
<1>5. r.tx \in 0 .. MAX_SIZE /\ r.rx \in 0 .. MAX_SIZE /\ MAX_SIZE \in Nat
  BY Bounds, I2cAssumption
<1>6. e + 1 \in Nat /\ e + 1 <= Whole(r)
  BY <1>4, WholeTypes
<1>7. CASE WriteByte
  <2>1. WroteAt(r, e) \in Nat /\ Command1.val = WroteAt(r, e) + 1
        /\ WroteAt(r, e + 1) = WroteAt(r, e) + 1
    BY <1>1, <1>4, <1>7 DEF IsWrite
  <2>2. WroteAt(r, e + 1) <= r.tx
    BY <1>6, <2>1, RequestTypes, AddressSize, WholeTypes DEF WroteAt
  <2> QED
    BY <1>1, <1>5, <1>7, <2>1, <2>2 DEF WriteByte, ReadByte
<1>8. CASE ReadByte /\ ~WriteByte
  <2>1. /\ AnsweredAt(r, e) \in Nat /\ AnsweredAt(r, e + 1) = AnsweredAt(r, e) + 1
        /\ target.answered = AnsweredAt(r, e)
    BY <1>1, <1>3, <1>4, <1>8 DEF IsRead, Intact, Heard
  <2>2. AnsweredAt(r, e + 1) <= r.rx
    BY <1>6, AnsweredTypes
  <2> QED
    BY <1>5, <1>8, <2>1, <2>2
<1> QED
  BY <1>7, <1>8

LEMMA TakeRoom ==
  ASSUME Bounded, TakeByte, Len(buf) < MAX_SIZE
  PROVE  /\ buf' \in Seq(1 .. MAX_SIZE) /\ Len(buf') <= MAX_SIZE
         /\ rxq' \in Seq(1 .. MAX_SIZE)
<1>1. /\ buf \in Seq(1 .. MAX_SIZE) /\ rxq \in Seq(1 .. MAX_SIZE) /\ rxq # <<>>
      /\ MAX_SIZE \in Nat /\ Len(buf) <= MAX_SIZE
  BY I2cAssumption DEF Bounded, TakeByte
<1>2. /\ Head(rxq) \in 1 .. MAX_SIZE /\ Tail(rxq) \in Seq(1 .. MAX_SIZE)
      /\ Len(buf) \in Nat
  BY <1>1
<1>3. /\ Append(buf, Head(rxq)) \in Seq(1 .. MAX_SIZE)
      /\ Len(Append(buf, Head(rxq))) = Len(buf) + 1
  BY <1>1, <1>2
<1> QED
  BY <1>1, <1>2, <1>3 DEF TakeByte

\* There is room for the byte a call or the interrupt routine takes.
LEMMA RoomLeft ==
  ASSUME IInv, Data, late = "never", rx_read_available \/ rx_read \/ IsrTake, TakeByte
  PROVE  Len(buf) < MAX_SIZE
<1>1. /\ Len(buf) \in Nat /\ Len(rxq) \in Nat /\ Len(rxq) > 0 /\ MAX_SIZE \in Nat
  <2>1. \A q \in Seq(Int) : Len(q) \in Nat /\ (q # <<>> => Len(q) > 0)
    OBVIOUS
  <2> QED
    BY <2>1, I2cAssumption DEF Data, DataTypes, TakeByte
<1>2. CASE rx_read_available \/ rx_read
  <2>1. Going
    BY <1>2 DEF rx_read_available, rx_read, At, Going
  <2>2. op \in Requests /\ Sent \in Nat /\ Sent <= Whole(op) /\ ~Failed
    BY <2>1, SentWithin DEF Data, Failed, TakeByte
  <2>3. Carried(op, Sent)
    BY <2>1, <2>2 DEF Data, GoingOn
  <2>4. Len(buf) + Len(rxq) <= op.rx /\ op.rx \in 0 .. MAX_SIZE
    BY <2>2, <2>3, CarriedBytes, Bounds DEF Data
  <2> QED
    BY <1>1, <2>4
<1>3. CASE IsrTake
  <2>1. Len(buf) < job.rx /\ job \in Requests
    BY <1>3 DEF IsrTake, IInv, Armed, Data, Job
  <2>2. job.rx \in 0 .. MAX_SIZE
    BY <2>1, Bounds
  <2> QED
    BY <1>1, <2>1, <2>2
<1> QED
  BY <1>2, <1>3

\* A status request that ends a transaction finds at most its bytes.
LEMMA AbortRoom ==
  ASSUME IInv, Data, Bounded, AbortJob
  PROVE  buf' \in Seq(1 .. MAX_SIZE) /\ Len(buf') <= MAX_SIZE
<1>1. /\ buf \in Seq(1 .. MAX_SIZE) /\ rxq \in Seq(1 .. MAX_SIZE) /\ MAX_SIZE \in Nat
      /\ Len(buf) <= MAX_SIZE /\ buf' = buf \o rxq
  BY I2cAssumption DEF Bounded, AbortJob
<1>2. buf' \in Seq(1 .. MAX_SIZE) /\ Len(buf') = Len(buf) + Len(rxq)
      /\ Len(buf) \in Nat /\ Len(rxq) \in Nat /\ Len(<<>>) = 0
  BY <1>1
<1>3. job \in Requests /\ (Carried(job, Whole(job)) \/ (Failed /\ cmds = <<>>))
  BY DEF AbortJob, At, IInv, Asked, Data, Job
<1>4. CASE Carried(job, Whole(job))
  <2>1. Whole(job) \in Nat /\ Whole(job) <= Whole(job)
    BY <1>3, WholeTypes
  <2>2. Len(buf) + Len(rxq) <= job.rx /\ job.rx \in 0 .. MAX_SIZE
    BY <1>3, <1>4, <2>1, CarriedBytes, Bounds DEF Data
  <2> QED
    BY <1>1, <1>2, <2>2
<1>5. CASE Failed
  BY <1>1, <1>2, <1>5 DEF Failed
<1> QED
  BY <1>2, <1>3, <1>4, <1>5

LEMMA BoundedStep ==
  ASSUME IInv, Data, Known, late = "never", Bounded, [Next]_vars
  PROVE  Bounded'
<1>1. /\ buf \in Seq(1 .. MAX_SIZE) /\ Len(buf) <= MAX_SIZE
      /\ rxq \in Seq(1 .. MAX_SIZE) /\ target.wrote \in Seq(1 .. MAX_SIZE)
      /\ target.answered <= MAX_SIZE
      /\ MAX_SIZE \in Nat /\ <<>> \in Seq(1 .. MAX_SIZE) /\ Len(<<>>) = 0
  BY I2cAssumption DEF Bounded
<1>2. /\ buf' \in Seq(1 .. MAX_SIZE) /\ Len(buf') <= MAX_SIZE /\ rxq' \in Seq(1 .. MAX_SIZE)
  <2>1. CASE UNCHANGED <<buf, rxq>>
    BY <1>1, <2>1
  <2>2. CASE TakeByte /\ (rx_read_available \/ rx_read \/ IsrTake)
    BY <2>2, RoomLeft, TakeRoom
  <2>3. CASE enable /\ buf' = <<>> /\ UNCHANGED rxq
    BY <1>1, <2>3
  <2>4. CASE AbortJob /\ rxq' = <<>>
    BY <1>1, <2>4, AbortRoom
  <2>5. CASE ReadByte /\ UNCHANGED buf
    <3>1. target.answered + 1 \in 1 .. MAX_SIZE
      BY <2>5, ByteBounds
    <3>2. target'.answered = target.answered + 1
      BY <2>5, Zenon DEF ReadByte, Data, DataTypes
    <3>3. Append(rxq, target.answered + 1) \in Seq(1 .. MAX_SIZE)
      BY <1>1, <3>1
    <3>4. rxq' \in {rxq, Append(rxq, target.answered + 1)}
      BY <2>5, <3>2 DEF ReadByte
    <3> QED
      BY <1>1, <2>5, <3>3, <3>4
  <2> QED
    BY <2>1, <2>2, <2>3, <2>4, <2>5, BytesStep
<1>3. target'.wrote \in Seq(1 .. MAX_SIZE) /\ target'.answered <= MAX_SIZE
  <2>1. CASE UNCHANGED target
    BY <1>1, <2>1
  <2>2. CASE Address
    <3>1. target' \in {target, [wrote |-> <<>>, answered |-> 0, stopped |-> FALSE]}
      BY <2>2 DEF Address
    <3>2. target' # target => target'.wrote = <<>> /\ target'.answered = 0
      BY <3>1
    <3>3. 0 <= MAX_SIZE
      BY <1>1
    <3> QED
      BY <1>1, <3>2, <3>3
  <2>3. CASE WriteByte
    <3>1. Command1.val \in 1 .. MAX_SIZE
      BY <2>3, ByteBounds
    <3>2. target'.wrote = Append(target.wrote, Command1.val) /\ target'.answered = target.answered
      BY <2>3, Zenon DEF WriteByte, Data, DataTypes
    <3>3. Append(target.wrote, Command1.val) \in Seq(1 .. MAX_SIZE)
      BY <1>1, <3>1
    <3> QED
      BY <1>1, <3>2, <3>3
  <2>4. CASE ReadByte
    <3>1. target.answered + 1 \in 1 .. MAX_SIZE
      BY <2>4, ByteBounds
    <3>2. target'.wrote = target.wrote /\ target'.answered = target.answered + 1
      BY <2>4, Zenon DEF ReadByte, Data, DataTypes
    <3> QED
      BY <1>1, <3>1, <3>2
  <2>5. UNCHANGED target \/ Address \/ WriteByte \/ ReadByte
    <3>1. CASE Core \/ Isr \/ UNCHANGED vars
      BY <3>1 DEF Core, Fetch, Discard, Refuse, LoseArbitration, Drop,
         Abandon, driver, Isr, IsrEnter, IsrTake, IsrEndTake, IsrAwait, IsrEnd, vars, line
    <3>2. CASE Transfer
      BY <3>2 DEF Transfer, master_transmit, master_receive, master_transmit_using_interrupts,
         master_receive_using_interrupts, Begin, BeginIrq, Nothing, BadArg, Busy, End, enable,
         Resume, cmd_write, Queue, Check, Release, rx_read_available, rx_read, Collected, Clear,
         Arm, SendTimeout, AwaitIdle, line
    <3>3. CASE \/ register_optional_irq_handler \/ Call \/ AskStatus \/ Answer \/ AwaitAbort
               \/ AbortJob \/ master_tx \/ master_rx \/ master_tx_rx
      BY <3>3 DEF register_optional_irq_handler, Call, AskStatus, Answer, AwaitAbort, AbortJob,
         master_tx, master_rx, master_tx_rx, Retry, SecondLeg, Return, line
    <3> QED
      BY <3>1, <3>2, <3>3 DEF Next, Continue
  <2> QED
    BY <2>1, <2>2, <2>3, <2>4, <2>5
<1> QED
  BY <1>2, <1>3 DEF Bounded

-----------------------------------------------------------------------------
(* What a call in which a wait ran out answers                             *)

\* A wait ran out in this try of a call that is to tell it.
Ran == late = "now" /\ Calling /\ ~wide /\ (op.kind = "tx_rx" => op.rx > 0)

\* The call is about to fail, or tx_rx goes on and finds the core disabled.
Failing ==
  \/ pc \in {"wait", "disable", "end"} /\ status # "SUCCESS" /\ (pc = "end" => ~en)
  \/ pc \in {"begin", "send"} /\ restart /\ ~en

Told == (Ran => Failing) /\ LateIsTold

\* A step of a transfer.
LEMMA TransferTold == ASSUME IInv, Queueing, Told, Transfer PROVE Told'
<1>1. /\ UNCHANGED <<wide, op, leg>> /\ pc' # "idle" /\ Calling
      /\ late' \in {late, IF late = "never" THEN "now" ELSE late}
  BY DEF Transfer, master_transmit, master_receive, master_transmit_using_interrupts, Calling,
     master_receive_using_interrupts, Begin, BeginIrq, Nothing, BadArg, Busy, End, enable,
     Resume, cmd_write, Queue, Check, Release, rx_read_available, rx_read, Collected, Clear,
     Arm, SendTimeout, AwaitIdle, RunOut, At, config, setup, call
<1> SUFFICES ASSUME Ran' PROVE Failing'
  BY <1>1 DEF Told, LateIsTold
<1>2. CASE SendTimeout \/ AwaitIdle \/ rx_read
  <2>1. \/ pc' \in {"wait", "disable"} /\ status' = "TIMEOUT"
        \/ UNCHANGED <<late, status, pc, en>>
        \/ pc = "wait" /\ pc' = "disable" /\ UNCHANGED <<late, status>>
    BY <1>1, <1>2, AddressSize DEF SendTimeout, AwaitIdle, rx_read, At, bits, A, Queueing, Ran
  <2> QED
    BY <1>1, <2>1 DEF Told, Ran, Failing, restart
<1>3. CASE late' = late /\ ~(SendTimeout \/ AwaitIdle \/ rx_read)
  <2>1. Failing
    BY <1>1, <1>3 DEF Told, Ran, Calling
  <2>2. CASE \E result : Release(result) /\ result \in {status, check_nack(status)}
    <3>1. pc = "disable" /\ pc' = "end" /\ status' \in {status, "NACK_ERR"} /\ en' = FALSE
      BY <2>2 DEF Release, At, check_nack
    <3>2. ~en'
      BY <3>1, Zenon
    <3> QED
      BY <2>1, <3>1, <3>2 DEF Failing
  <2>3. CASE pc = "begin" /\ (Begin \/ BeginIrq)
    <3>1. restart /\ ~en
      BY <2>1, <2>3 DEF Failing
    <3>2. Size # 0
      <4>1. op.kind = "tx_rx" /\ leg = "read" /\ op.rx > 0 /\ op \in Requests
        BY <1>1, <3>1 DEF restart, Ran, IInv, Calls
      <4> QED
        BY <4>1, RequestTypes DEF Size
    <3>3. \/ BadArg /\ pc' = "end" /\ status' = "BAD_ARG" /\ UNCHANGED en
          \/ Resume /\ pc' = "send" /\ UNCHANGED en
      BY <2>3, <3>1, <3>2 DEF Begin, BeginIrq, Nothing, Busy, BadArg, enable, Resume, End, bits
    <3> QED
      BY <1>1, <3>1, <3>3 DEF Failing, restart
  <2>4. \/ \E result : Release(result) /\ result \in {status, check_nack(status)}
        \/ pc = "begin" /\ (Begin \/ BeginIrq)
    BY <1>3, <2>1 DEF Transfer, master_transmit, master_receive, master_transmit_using_interrupts,
       master_receive_using_interrupts, Begin, BeginIrq, Nothing, BadArg, Busy, End, enable,
       Resume, cmd_write, TX_READY, Queue, Check, rx_read_available, Collected, Clear,
       Arm, At, Failing
  <2> QED
    BY <2>2, <2>3, <2>4
<1> QED
  BY <1>1, <1>2, <1>3 DEF Transfer, master_transmit, master_receive,
     master_transmit_using_interrupts, master_receive_using_interrupts, Begin, BeginIrq, Nothing,
     BadArg, Busy, End, enable, Resume, cmd_write, Queue, Check, Release, rx_read_available,
     Collected, Clear, Arm, config

LEMMA ToldStep == ASSUME IInv, Queueing, Told, [Next]_vars PROVE Told'
<1>1. CASE Transfer
  BY <1>1, TransferTold
<1>2. CASE Core \/ Isr \/ UNCHANGED vars
  <2>1. /\ UNCHANGED <<wide, op, leg, pc, status, ret>>
        /\ UNCHANGED en \/ en' = FALSE
        /\ late' \in {late, "before"}
    BY <1>2 DEF Core, Fetch, Discard, Address, WriteByte, ReadByte, Refuse, LoseArbitration, Drop,
       Abandon, driver, Isr, IsrEnter, IsrTake, IsrEndTake, IsrAwait, IsrEnd, RunOut, thread, step,
       config, setup, call, bits, vars
  <2>2. en' => en
    BY <2>1, Zenon
  <2> QED
    BY <2>1, <2>2 DEF Told, Ran, Calling, Failing, restart, LateIsTold
<1>3. CASE Call \/ Retry
  <2>1. pc' = "begin" /\ late' # "now"
    BY <1>3 DEF Call, Retry, Elapse
  <2> QED
    BY <2>1 DEF Told, Ran, LateIsTold
<1>4. CASE SecondLeg /\ op.kind = "tx_rx"
  <2>1. /\ UNCHANGED <<late, wide, op, en, status>> /\ pc = "end" /\ pc' = "begin"
        /\ leg' = "read"
    BY <1>4 DEF SecondLeg, At, config, setup, bits
  <2> QED
    BY <1>4, <2>1 DEF Told, Ran, Calling, Failing, restart, LateIsTold
<1>5. CASE \E last : Return(last)
  <2>1. UNCHANGED <<late, wide, op>> /\ pc = "end" /\ pc' = "idle" /\ ret' = status
    BY <1>5 DEF Return, At, config, setup
  <2> QED
    BY <2>1 DEF Told, Ran, Calling, Failing, LateIsTold
<1>6. CASE register_optional_irq_handler
  <2>1. UNCHANGED <<late, wide, op, ret, pc>> /\ pc = "idle"
    BY <1>6 DEF register_optional_irq_handler, At, call
  <2> QED
    BY <2>1 DEF Told, Ran, Calling, LateIsTold
<1>7. CASE AskStatus \/ AwaitAbort \/ AbortJob \/ Answer
  <2>1. pc' \in {"idle", "asked", "abort"} /\ op'.kind = "status"
    BY <1>7 DEF AskStatus, AwaitAbort, AbortJob, Answer, At, config, setup, IInv, Calls, Status
  <2> QED
    BY <2>1 DEF Told, Ran, Calling, LateIsTold
<1> QED
  BY <1>1, <1>2, <1>3, <1>4, <1>5, <1>6, <1>7 DEF Next, Continue, master_tx, master_rx,
     master_tx_rx

-----------------------------------------------------------------------------
(* At the start, and always                                                *)

Kinds == CallTypes /\ DriverTypes /\ CoreTypes /\ Queueing /\ Told

Bytes == late = "never" => Known /\ Bounded

LEMMA TypedInitially == Init => Kinds /\ Bytes
<1> SUFFICES ASSUME Init PROVE Kinds /\ Bytes
  OBVIOUS
<1>1. /\ registered = FALSE /\ en = FALSE /\ NACK = FALSE /\ ARB = FALSE
      /\ bus \in {"good", "refuses", "shares", "slow"} /\ wide \in BOOLEAN
  BY DEF Init
<1>2. registered \in BOOLEAN /\ en \in BOOLEAN /\ NACK \in BOOLEAN /\ ARB \in BOOLEAN /\ ~en
  BY <1>1, Zenon
<1>3. /\ calls = 0 /\ op = None /\ pc = "idle" /\ retry = 0 /\ leg = "write" /\ queued = 0
      /\ status = "SUCCESS" /\ ret = "none" /\ saved = {} /\ late = "never"
  BY DEF Init
<1>4. CallTypes /\ Queueing /\ Told
  <2>1. 0 \in 0 .. MAX_CALLS /\ 0 \in 0 .. RETRIES /\ 0 \in 0 .. MAX_SIZE + 2 /\ 0 \in Nat
    BY I2cAssumption
  <2> QED
    BY <1>1, <1>2, <1>3, <2>1 DEF CallTypes, Results, Queueing, Told, Ran, LateIsTold
<1>5. /\ <<>> \in Seq(1 .. MAX_SIZE) /\ <<>> \in Seq(Commands) /\ Len(<<>>) = 0
      /\ <<>> \in Seq(Nat) /\ <<>> \in Seq(-2 .. MAX_SIZE)
      /\ MAX_SIZE \in Nat /\ FIFO_DEPTH \in Nat \ {0}
  BY I2cAssumption
<1>6. DriverTypes
  <2>1. buf = <<>> /\ irq_busy = 0 /\ job = None /\ ipc = "off"
    BY DEF Init
  <2> QED
    BY <1>5, <2>1 DEF DriverTypes
<1>7. target \in [wrote : Seq(-2 .. MAX_SIZE), answered : Nat, stopped : BOOLEAN]
  <2>1. 0 \in Nat /\ FALSE \in BOOLEAN
    OBVIOUS
  <2> QED
    BY <1>5, <2>1 DEF Init
<1>8. CoreTypes
  <2>1. /\ iser = {} /\ thd = [cmd |-> "not full", rx |-> FIFO_DEPTH]
        /\ cmds = <<>> /\ cur = <<>> /\ phase = "idle" /\ rxq = <<>>
    BY DEF Init
  <2>2. thd \in [cmd : {"not full", "empty"}, rx : {1, FIFO_DEPTH}]
    BY <2>1
  <2>3. Len(cmds) <= FIFO_DEPTH /\ Len(cur) <= 1 /\ Len(rxq) <= FIFO_DEPTH
    <3>1. Len(cmds) = 0 /\ Len(cur) = 0 /\ Len(rxq) = 0
      BY <1>5, <2>1
    <3>2. FIFO_DEPTH \in Nat /\ 0 <= FIFO_DEPTH
      BY I2cAssumption
    <3> QED
      BY <3>1, <3>2
  <2> QED
    BY <1>2, <1>5, <1>7, <2>1, <2>2, <2>3 DEF CoreTypes
<1>9. Bounded
  <2>1. target.wrote = <<>> /\ target.answered = 0 /\ buf = <<>> /\ rxq = <<>>
    BY DEF Init
  <2>2. 0 <= MAX_SIZE
    BY <1>5
  <2> QED
    BY <1>5, <2>1, <2>2 DEF Bounded
<1> QED
  BY <1>2, <1>4, <1>6, <1>8, <1>9 DEF Kinds, Bytes, Known

LEMMA KindsStep == ASSUME IInv, IInv', Kinds, [Next]_vars PROVE Kinds'
<1>1. CallTypes' /\ Queueing' /\ DriverTypes' /\ Told'
  BY CallTypesStep, DriverTypesStep, ToldStep DEF Kinds
<1>2. CoreTypes'
  BY CoreTypesKept, TransferTypes, OtherTypes DEF Kinds, Next, Continue
<1> QED
  BY <1>1, <1>2 DEF Kinds

LEMMA BytesStepKept ==
  ASSUME IInv, IInv', Punctual, Punctual', Bytes, [Next]_vars
  PROVE  Bytes'
<1> SUFFICES ASSUME late' = "never" PROVE Known' /\ Bounded'
  BY DEF Bytes
<1>1. late = "never" /\ Data /\ Known /\ Bounded
  BY LateStays DEF Bytes, Punctual
<1>2. Data'
  BY <1>1, DataInductive
<1> QED
  BY <1>1, <1>2, KnownStep, BoundedStep

LEMMA TypedAlways == Spec => [](Kinds /\ Bytes)
BY Always, PunctualAlways, TypedInitially, KindsStep, BytesStepKept, PTL DEF Spec

-----------------------------------------------------------------------------
(* The theorems                                                            *)

\* Every variable has its type, whatever a wait that ran out leaves to the next call;
\* and if none has, neither the caller's buffer nor the target gets more bytes than a
\* call may have.
THEOREM I2cTypes == Spec => []TypeOK
<1>1. Kinds /\ Bytes => TypeOK
  BY DEF Kinds, Bytes, TypeOK
<1> QED
  BY <1>1, TypedAlways, PTL

\* Calls, status requests and the interrupt routine change irq_busy and the enables in
\* steps of their own, and yet what is enabled between calls is what a transaction needs,
\* even if a wait has run out.
THEOREM I2cEnabled == Spec => []EnabledIfNeeded
<1>1. IInv => ArmedIfBusy
  BY DEF IInv, Armed, ArmedIfBusy
<1>2. IInv => EndsDisabled
  BY DEF IInv, Ended, Leaves, EndsDisabled
<1> QED
  BY <1>1, <1>2, Always, PTL DEF EnabledIfNeeded

\* A call in whose last try a wait ran out, and which disabled a core that may be busy,
\* does not answer SUCCESS, but for the two exceptions that LateIsTold names.
THEOREM I2cLate == Spec => []LateIsTold
<1>1. Kinds => LateIsTold
  BY DEF Kinds, Told
<1> QED
  BY <1>1, TypedAlways, PTL

\* Whatever the target refuses and the FIFO discards, whichever call follows which and
\* however the steps of the core, the call and the interrupt routine interleave, a polled
\* call answers SUCCESS, and the interrupt routine ends a receive, only if every byte got
\* to the other side in order; as long as no wait has run out.
THEOREM I2cComplete == Spec => []SuccessIsComplete
<1>1. Punctual => PolledSuccess
  BY DEF Punctual, Data, Over, Finished, PolledSuccess
<1>2. Punctual => ReceiveComplete
  <2> SUFFICES ASSUME Punctual, irq_busy = 2, ipc = "disable", late = "never" PROVE Done(job)
    BY DEF ReceiveComplete
  <2>1. Data /\ irq_busy \in 1 .. 2
    BY DEF Punctual
  <2> QED
    BY <2>1, JobDone
<1>3. Punctual => SuccessIsComplete
  BY <1>1, <1>2 DEF SuccessIsComplete
<1> QED
  BY <1>3, PunctualAlways, PTL
================================================================================
