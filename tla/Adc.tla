---------------------------------- MODULE Adc ----------------------------------
(***************************************************************************)
(* The modular ADC: calls of altera_modular_adc.c and of adc.c and         *)
(* joystick.c, which read its samples, the interrupt routine, and the two  *)
(* cores: the sequencer, which converts two channels in turn, and the      *)
(* sample store, which announces each sweep.                               *)
(***************************************************************************)
EXTENDS Integers

CONSTANTS
  WORDS,               \* what a conversion may yield, of 12 bits
  CENTER_X, CENTER_Y,  \* the joystick's rest
  CALLBACKS            \* callback routines, each with a context of the same name

ASSUME AdcAssumption ==
  /\ WORDS \subseteq 0 .. 4095
  /\ CENTER_X \in 0 .. 255 /\ CENTER_Y \in 0 .. 255
  /\ "NULL" \notin CALLBACKS

VARIABLES
  installed,           \* altera_modular_adc_init found an interrupt line
  dev,                 \* alt_modular_adc_dev: callback, its context, the sample store
  run, mode, at,       \* sequencer: running, its mode, the slot it converts next
  slot,                \* sample store: the samples
  irq_status, irq_enable,
  op, arg, pc,         \* the call that runs
  cmd,                 \* the command register as read
  ipc,                 \* where the interrupt routine is
  readings, joystick,  \* adc.c and joystick.c
  asked,               \* history: the mode of the sequencer when the call was made
  calibrated,          \* history: since then
  halted,              \* history: adc_stop has returned, and nothing was started since
  swapping,            \* history: a callback is replaced while interrupts are enabled
  listening,           \* history: the program wants to be called back
  fresh                \* history: a sweep ended after the last callback

sequencer == <<run, mode, at>>
store == <<slot, irq_status, irq_enable>>
stick == <<readings, joystick>>
history == <<asked, calibrated, halted, swapping, listening, fresh>>
vars == <<installed, dev, run, mode, at, slot, irq_status, irq_enable, op, arg, pc, cmd, ipc,
          readings, joystick, asked, calibrated, halted, swapping, listening, fresh>>

NoCmd == [run |-> FALSE, mode |-> "continuous"]

\* The routine is installed if the interrupt is connected; -1 says that it is not.
altera_modular_adc_init(ic_id, irq) == 0 <= ic_id /\ 0 <= irq

\* The state alt_sys_init and adc_init leave: the sequencer runs continuously.
Init ==
  /\ installed \in {altera_modular_adc_init(i, i) : i \in {-1, 0}}
  /\ dev = [callback |-> "NULL", context |-> "NULL", base |-> "none"]
  /\ run = "on" /\ mode = "continuous" /\ at = 0
  /\ slot \in [0 .. 1 -> WORDS] /\ irq_status = FALSE /\ irq_enable = FALSE
  /\ op = "none" /\ arg = "NULL" /\ pc = "idle" /\ cmd = NoCmd
  /\ ipc = "off"
  /\ readings = [i \in 0 .. 1 |-> 0]
  /\ joystick = [x |-> 0, y |-> 0, offset_x |-> 0, offset_y |-> 0]
  /\ asked = "continuous" /\ calibrated = FALSE /\ halted = FALSE
  /\ swapping = FALSE /\ listening = FALSE /\ fresh = FALSE

-----------------------------------------------------------------------------
(* Registers                                                               *)

\* An interrupt is taken before the next step of a call.
Pending == installed /\ irq_status /\ irq_enable

At(label) == pc = label /\ ipc = "off" /\ ~Pending

RUN == run # "off"

\* Writing the command register.  The mode is kept while RUN is set; a sequencer
\* that is told to stop may take a while.
CMD_REG(start, m) ==
  /\ mode' = IF RUN THEN mode ELSE m
  /\ run' = IF start THEN "on" ELSE IF RUN THEN "stopping" ELSE "off"
  /\ at' = IF start /\ ~RUN THEN 0 ELSE at

SEQUENCER_START == CMD_REG(TRUE, mode)

\* The register that was read is written with another mode.
SEQUENCER_MODE(read, m) == CMD_REG(read, m)

IRQ_ENABLE == irq_enable' = TRUE
IRQ_DISABLE == irq_enable' = FALSE
CLEAR_IRQ_STATUS == irq_status' = FALSE

-----------------------------------------------------------------------------
(* Calls of one access                                                     *)

Access == At("idle") /\ UNCHANGED <<op, asked, calibrated>>

adc_start ==
  /\ Access /\ SEQUENCER_START
  /\ halted' = FALSE
  /\ UNCHANGED <<installed, dev, store, arg, pc, cmd, ipc, stick, swapping, listening, fresh>>

adc_interrupt_enable ==
  /\ Access
  /\ IRQ_ENABLE /\ listening' = (dev.callback # "NULL")
  /\ UNCHANGED <<installed, dev, sequencer, slot, irq_status, arg, pc, cmd, ipc, stick,
                 halted, swapping, fresh>>

adc_interrupt_disable ==
  /\ Access
  /\ IRQ_DISABLE /\ listening' = FALSE
  /\ UNCHANGED <<installed, dev, sequencer, slot, irq_status, arg, pc, cmd, ipc, stick,
                 halted, swapping, fresh>>

adc_clear_interrupt_status ==
  /\ Access
  /\ CLEAR_IRQ_STATUS
  /\ UNCHANGED <<installed, dev, sequencer, slot, irq_enable, arg, pc, cmd, ipc, stick,
                 halted, swapping, listening, fresh>>

-----------------------------------------------------------------------------
(* Calls of several                                                        *)

Begin(name, label) ==
  /\ At("idle") /\ pc' = label /\ op' = name
  /\ asked' = mode /\ calibrated' = FALSE
  /\ UNCHANGED <<installed, dev, sequencer, store, cmd, ipc, stick, swapping, fresh>>

\* The next step of a call; a call that returns has no variables any more.
Goto(label) ==
  /\ pc' = label
  /\ IF label = "idle"
     THEN /\ op' = "none" /\ arg' = "NULL" /\ cmd' = NoCmd
          /\ asked' = "continuous" /\ calibrated' = FALSE
     ELSE UNCHANGED <<op, arg, cmd, asked, calibrated>>
  /\ UNCHANGED <<installed, ipc>>

\* The command register is read.
LoadCmd(label) ==
  /\ pc' = label /\ cmd' = [run |-> RUN, mode |-> mode]
  /\ UNCHANGED <<installed, ipc, op, arg, asked, sequencer, calibrated, halted>>

Unaffected == UNCHANGED <<dev, store, stick, swapping, listening, fresh>>

\* A bug to detect: the call does not wait for the sequencer to stop.
StopHasty(label, next) ==
  /\ At(label) /\ Goto(next) /\ CMD_REG(FALSE, mode)
  /\ halted' = (next = "idle")
  /\ Unaffected

\* ALTERA_MODULAR_ADC_SEQUENCER_STOP: RUN is reset, then polled.
SEQUENCER_STOP(label, next) ==
  \/ /\ At(label) /\ Goto("stopping") /\ CMD_REG(FALSE, mode)
     /\ UNCHANGED halted /\ Unaffected
  \/ /\ At("stopping") /\ ~RUN /\ Goto(next)
     /\ halted' = (next = "idle")
     /\ UNCHANGED sequencer /\ Unaffected

adc_stop ==
  \/ Begin("stop", "stop") /\ UNCHANGED <<arg, halted, listening>>
  \/ op = "stop" /\ SEQUENCER_STOP("stop", "idle")

Modes == {"once", "continuous"}

\* adc_set_mode_run_once and adc_set_mode_run_continuously: the register is read and written.
adc_set_mode ==
  \/ Begin("mode", "mode_read") /\ arg' \in Modes /\ UNCHANGED <<halted, listening>>
  \/ /\ At("mode_read") /\ LoadCmd("mode_write") /\ Unaffected
  \/ /\ At("mode_write") /\ Goto("idle") /\ SEQUENCER_MODE(cmd.run, arg)
     /\ UNCHANGED halted /\ Unaffected

\* The end of adc_recalibrate: the register as it was.
Restore == CMD_REG(cmd.run, cmd.mode)

adc_recalibrate ==
  \/ Begin("recalibrate", "backup") /\ UNCHANGED <<arg, halted, listening>>
  \/ /\ At("backup") /\ LoadCmd("stop") /\ Unaffected
  \/ op = "recalibrate" /\ SEQUENCER_STOP("stop", "request")
  \/ /\ At("request") /\ Goto("go") /\ SEQUENCER_MODE(RUN, "recalibrate")
     /\ UNCHANGED halted /\ Unaffected
  \/ /\ At("go") /\ Goto("poll") /\ SEQUENCER_START
     /\ UNCHANGED halted /\ Unaffected
  \/ /\ At("poll") /\ ~RUN /\ Goto("restore")
     /\ UNCHANGED <<sequencer, halted>> /\ Unaffected
  \/ /\ At("restore") /\ Goto("idle") /\ Restore
     /\ halted' = (halted /\ ~cmd.run)
     /\ Unaffected

\* Polls the status until it is set.
adc_wait_for_interrupt ==
  \/ Begin("wait", "wait") /\ UNCHANGED <<arg, halted, listening>>
  \/ /\ At("wait") /\ irq_status /\ Goto("idle")
     /\ UNCHANGED <<sequencer, halted>> /\ Unaffected

-----------------------------------------------------------------------------
(* alt_adc_register_callback                                               *)

BeginRegister ==
  /\ Begin("register", "callback")
  /\ arg' \in CALLBACKS \union {"NULL"}
  /\ listening' = FALSE
  /\ UNCHANGED halted

Register(label, next) ==
  /\ At(label) /\ Goto(next)
  /\ UNCHANGED <<sequencer, slot, stick, halted, fresh>>

SetCallback ==
  /\ Register("callback", "context") /\ dev' = [dev EXCEPT !.callback = arg]
  /\ swapping' = (irq_enable /\ arg # "NULL" /\ arg # dev.callback)
  /\ UNCHANGED <<irq_status, irq_enable, listening>>

SetContext ==
  /\ Register("context", "base") /\ dev' = [dev EXCEPT !.context = arg]
  /\ swapping' = FALSE
  /\ UNCHANGED <<irq_status, irq_enable, listening>>

SetBase ==
  /\ Register("base", IF arg = "NULL" THEN "disable" ELSE "clear")
  /\ dev' = [dev EXCEPT !.base = "store"]
  /\ UNCHANGED <<irq_status, irq_enable, swapping, listening>>

\* A callback is there: the status is cleared, and the interrupt enabled.
Listen ==
  \/ /\ Register("clear", "enable") /\ CLEAR_IRQ_STATUS
     /\ UNCHANGED <<dev, irq_enable, swapping, listening>>
  \/ /\ Register("enable", "idle") /\ IRQ_ENABLE /\ listening' = TRUE
     /\ UNCHANGED <<dev, irq_status, swapping>>

\* There is none: the interrupt is disabled, and the status cleared.
Mute ==
  \/ /\ Register("disable", "clear_muted") /\ IRQ_DISABLE
     /\ UNCHANGED <<dev, irq_status, swapping, listening>>
  \/ /\ Register("clear_muted", "idle") /\ CLEAR_IRQ_STATUS
     /\ UNCHANGED <<dev, irq_enable, swapping, listening>>

\* A bug to detect: the interrupt is enabled before the context is set.
RegisterEarly ==
  \/ BeginRegister
  \/ /\ Register("callback", "context") /\ dev' = [dev EXCEPT !.callback = arg]
     /\ irq_enable' = (arg # "NULL")
     /\ swapping' = (irq_enable /\ arg # "NULL" /\ arg # dev.callback)
     /\ UNCHANGED <<irq_status, listening>>
  \/ SetContext \/ SetBase \/ Listen \/ Mute

alt_adc_register_callback ==
  BeginRegister \/ SetCallback \/ SetContext \/ SetBase \/ Listen \/ Mute

-----------------------------------------------------------------------------
(* adc_read and joystick_read                                              *)

alt_adc_word_read(word, label, next) ==
  /\ At(label) /\ Goto(next)
  /\ readings' = [readings EXCEPT ![word] = slot[word]]
  /\ UNCHANGED <<dev, sequencer, store, joystick, halted, swapping, listening, fresh>>

\* A bug to detect: the readings keep their 12 bits.
Unscaled(w) == w

\* To eight bits.
Scaled(w) == w \div 16

joystick_read ==
  \/ Begin("joystick", "word_0") /\ UNCHANGED <<arg, halted, listening>>
  \/ alt_adc_word_read(0, "word_0", "word_1")
  \/ alt_adc_word_read(1, "word_1", "scale")
  \/ /\ At("scale") /\ Goto("idle")
     /\ readings' = [i \in 0 .. 1 |-> Scaled(readings[i])]
     /\ joystick' = [x |-> readings'[0], y |-> readings'[1],
                     offset_x |-> readings'[0] - CENTER_X, offset_y |-> readings'[1] - CENTER_Y]
     /\ UNCHANGED <<dev, sequencer, store, halted, swapping, listening, fresh>>

-----------------------------------------------------------------------------
(* alt_adc_irq                                                             *)

thread == <<op, arg, pc, cmd, stick, asked, calibrated, halted, swapping, listening>>

IsrEnter ==
  /\ ipc = "off" /\ Pending /\ ipc' = "callback"
  /\ UNCHANGED <<installed, dev, sequencer, store, thread, fresh>>

IsrCallback ==
  /\ ipc = "callback" /\ ipc' = "clear"
  /\ fresh' = (fresh /\ dev.callback = "NULL")
  /\ UNCHANGED <<installed, dev, sequencer, store, thread>>

\* A bug to detect: the routine leaves the interrupt disabled.
IsrDisables ==
  /\ ipc = "clear" /\ ipc' = "off"
  /\ irq_status' = FALSE /\ irq_enable' = FALSE
  /\ UNCHANGED <<installed, dev, sequencer, slot, thread, fresh>>

\* A bug to detect: the routine does not clear the status.
IsrClearsNothing ==
  /\ ipc = "clear" /\ ipc' = "off"
  /\ UNCHANGED <<installed, dev, sequencer, store, thread, fresh>>

\* The status of the store the routine knows is cleared: a sweep that ended after
\* the callback is not announced.
IsrClear ==
  /\ ipc = "clear" /\ ipc' = "off"
  /\ irq_status' = (irq_status /\ dev.base = "none")
  /\ UNCHANGED <<installed, dev, sequencer, slot, irq_enable, thread, fresh>>

-----------------------------------------------------------------------------
(* The cores                                                               *)

\* A sequencer that is to stop does so at the end of a sweep, or before.
Convert ==
  /\ RUN /\ mode # "recalibrate"
  /\ \E w \in WORDS : slot' = [slot EXCEPT ![at] = w]
  /\ at' = 1 - at
  /\ run' = IF at = 1 /\ (mode = "once" \/ run = "stopping") THEN "off" ELSE run
  /\ irq_status' = (irq_status \/ at = 1)
  /\ fresh' = (fresh \/ at = 1)
  /\ UNCHANGED <<installed, dev, mode, irq_enable, thread, ipc>>

Halt ==
  /\ run = "stopping" /\ run' = "off"
  /\ UNCHANGED <<installed, dev, mode, at, store, thread, ipc, fresh>>

Calibrate ==
  /\ RUN /\ mode = "recalibrate"
  /\ run' = "off" /\ calibrated' = TRUE
  /\ UNCHANGED <<installed, dev, mode, at, store, op, arg, pc, cmd, stick, asked, halted,
                 swapping, listening, ipc, fresh>>

-----------------------------------------------------------------------------
Thread ==
  \/ adc_start \/ adc_interrupt_enable \/ adc_interrupt_disable \/ adc_clear_interrupt_status
  \/ adc_stop \/ adc_set_mode \/ adc_recalibrate \/ adc_wait_for_interrupt
  \/ alt_adc_register_callback \/ joystick_read
Isr == IsrEnter \/ IsrCallback \/ IsrClear
Cores == Convert \/ Halt \/ Calibrate

Next == Thread \/ Isr \/ Cores

Spec == Init /\ [][Next]_vars

\* The cores have a clock of their own, and the processor runs the interrupt routine,
\* or else the call.  Interrupts that come again at once may leave a call no time.
FairSpec == Spec /\ WF_vars(pc # "idle" /\ Thread) /\ WF_vars(Isr) /\ WF_vars(Cores)

-----------------------------------------------------------------------------
(* Properties                                                              *)

Labels == {"idle", "stop", "stopping", "mode_read", "mode_write", "backup", "request", "go", "poll",
           "restore", "wait", "callback", "context", "base", "clear", "enable", "disable",
           "clear_muted", "word_0", "word_1", "scale"}

Names == CALLBACKS \union {"NULL"}

Flags == irq_status \in BOOLEAN /\ irq_enable \in BOOLEAN

Ranges ==
  /\ dev \in [callback : Names, context : Names, base : {"none", "store"}]
  /\ run \in {"off", "on", "stopping"} /\ mode \in Modes \union {"recalibrate"} /\ at \in 0 .. 1
  /\ slot \in [0 .. 1 -> WORDS]
  /\ pc \in Labels /\ ipc \in {"off", "callback", "clear"} /\ arg \in Names \union Modes
  /\ readings \in [0 .. 1 -> 0 .. 255 \union WORDS]
  /\ joystick.x \in 0 .. 255 /\ joystick.offset_x \in -CENTER_X .. 255 - CENTER_X
  /\ joystick.y \in 0 .. 255 /\ joystick.offset_y \in -CENTER_Y .. 255 - CENTER_Y

\* Every variable has its type; what adc_read leaves has 8 bits, and the joystick's
\* offsets are those of such readings.
TypeOK == Flags /\ Ranges

\* A callback is called with its own context, unless it replaces another one, or none,
\* while the interrupt is enabled.
OwnContext ==
  [][ipc = "callback" /\ ipc' = "clear" /\ dev.callback # "NULL" =>
       swapping \/ dev.context = dev.callback]_vars

\* After adc_stop has returned no sample changes until the sequencer is started.
StoppedStill == halted => slot' = slot

\* When adc_recalibrate returns the ADC has been recalibrated, and the sequencer has the
\* mode it had.
Recalibrated == op = "recalibrate" /\ pc' = "idle" => calibrated /\ mode' = asked

\* The sequencer is in the state the last call promises.
SequencerObeys == [][StoppedStill /\ Recalibrated]_vars

\* Interrupts may come without end: with the sweeps of a sequencer that runs
\* continuously, or because the routine does not know the store whose status it is to clear.
Interrupted ==
  installed /\ irq_enable /\ (dev.base = "none" \/ (run = "on" /\ mode = "continuous"))

\* A call that no endless interrupts hold up returns, and so does adc_stop when its write
\* is done; adc_wait_for_interrupt only if the sequencer runs continuously.
CallReturns ==
  (pc # "idle" /\ (op = "wait" => run = "on" /\ mode = "continuous"))
    ~> (pc = "idle" \/ Interrupted)

\* While the sequencer runs continuously, the end of a sweep is followed by a callback,
\* although the routine clears the status after it.
Announced ==
  (fresh /\ installed /\ listening /\ run = "on" /\ mode = "continuous")
    ~> (~fresh \/ ~listening \/ run # "on")
=============================================================================
