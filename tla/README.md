# Verification of the Embedded-3 final project

The repository is a game for a DE10-Lite FPGA board: a Nios II program
(`src/Final`) and the drivers it is linked with (`src/altera_*`). A player's box
is moved with a joystick to a finish line while enemies walk towards it; the
display is an LT24 panel behind a pixel buffer DMA, messages go to six
7-segment displays, and the console is a JTAG UART. This directory holds TLA+
models of the program and of its drivers, TLC configurations that check them on
small instances, and proofs, checked by TLAPS, that hold for all instances.

## 1. Inventory

| component | state | operations | interacts with |
|---|---|---|---|
| Game logic: `Final/game.c`, `hello_world.c`, movement in `Final/lcd.c` | `level_count`, `num_enemies`, `end_position`, `level_info`, `xcord`/`ycord`, the player's `x`/`y`, `playing`, `win` | `game_init`, `generate_next_level`, `move_enemies_towards_player`, `player_touching_enemy`, `end_of_level`, `reset_game`, `countdown`, `draw_box_and_follow` | calls the screen, the joystick and the HEX displays; one thread |
| Screen double buffering: `Final/lcd.c`, `..._pixel_buffer_dma.c` | the device's two buffer registers and its pending exchange; the driver's copies of the two addresses | `lcd_init`, `change_back_buffer_address`, `swap_buffers`, `check_swap_buffers_status`, `clear_screen` | the device exchanges the buffers at the end of a refresh, when it likes |
| Drawing: `..._pixel_buffer_dma.c` | bytes of a frame buffer, the loop of `draw_line` | `draw`, `clear_screen`, `draw_box`, `draw_hline`, `draw_vline`, `draw_rectangle`, `draw_line` | called by the game and by `lcd.c` |
| JTAG UART driver: `altera_avalon_jtag_uart_*.c` | two circular buffers, `irq_enable`, `host_inactive`, `timeout` | `write`, `read`, `ioctl`, `close`, the interrupt routine, the once-a-second alarm | thread, interrupt routine and timer share the driver's state; the host behind the device may go |
| SPI driver: `altera_avalon_spi.c` | counters of one command; the core's transmit, shift and receive registers | `alt_avalon_spi_command` | polls a core that shifts at its own pace |
| I2C driver: `altera_avalon_i2c.c` | `irq_busy`, the call's tries and transfer; the core's enable bit, FIFOs, status bits and interrupt enables; the speed's counts | `master_tx`, `master_rx`, `master_tx_rx`, polled or with the interrupt routine; `interrupt_transaction_status`; speed and configuration | call, interrupt routine and core share its registers; no program in the repository opens it |
| Modular ADC driver: `altera_modular_adc.c` | `callback`, its context, the store's base; the sequencer's RUN bit and mode; two sample slots, interrupt status and enable | start, stop, modes, recalibration, waiting, registering a callback; the interrupt routine | sequencer, sample store and interrupt routine run beside every call |
| Joystick: `Final/adc.c`, `Final/joystick.c` | two readings, position and offsets | `adc_init`, `adc_read`, `joystick_read` | reads the two slots once per frame; the game takes the offsets |
| Interval timer driver: `altera_avalon_timer_*` | the system clock's rate, the timestamp timer's base and frequency; two running counters | initialisation, `alt_timestamp_start`, `alt_timestamp`, `alt_timestamp_freq`, the clock's interrupt routine | `alt_tick` drives the UART's alarm |
| HEX displays: `Final/hex_display.c` | two registers | `hex_message` | called by the game |
| Touch position: `Final/lcd.c` | `touch` | `follow_touch`, `isTouching`, `draw_touch` | two SPI commands; nothing calls `draw_touch` |
| System id: `altera_avalon_sysid_qsys.c` | none | `alt_avalon_sysid_qsys_test` | compares the build with the hardware |
| Start, `system.h`, PIO headers, build outputs | constants, register macros, one call per device | `alt_sys_init` | generated |

Where it is hard:

* **Interleaving.** The UART's thread and interrupt routine update the same two
  circular buffers and the same shadow of the control register, with one
  critical section for the register and none for the buffers. The display
  device exchanges its buffers at a moment the program does not choose, while
  the driver has already exchanged its own addresses, and the game draws the next
  frame without waiting for it. The SPI core goes on
  shifting after its status was read. The I2C core executes commands, and a
  target refuses them, long after the driver queued them. The ADC converts, and
  ends a sweep, between any two accesses of its driver; a timer's counter runs
  while its two halves are read.
* **Limits.** Level 5 has more enemies than the arrays; the receive buffer of
  the UART fills while the device still has characters; the SPI core has one
  receive register; the I2C core discards bytes its FIFO has no room for; boxes
  reach past the last column, and a frame buffer has two bytes for each pixel
  however the rows lie.
* **Stale state.** Enemies that cannot be placed keep the coordinates of the
  level before; `win` outlives its game; a byte of an interrupted SPI
  communication waits in the receive register; the interrupt routine clears a
  NACK nobody has looked at; the ADC's routine calls a callback that was replaced
  in part, and clears a status that was set again in the meantime.
* **Time-outs.** Every wait of the I2C driver is counted; when a count runs out the
  core is disabled in the middle of what it does, and what is left in it meets the
  next call.
* **Progress.** The frame loop of the game ends only when enemies close in;
  `write` waits for a host that may be gone; SPI commands leave their loop only
  after receiving; an I2C transaction ends only in an interrupt; stopping and
  recalibrating the ADC wait for a bit without a bound.
* **Numbers.** Coordinates become unsigned, counts of 32 bits are kept in 16, a
  timestamp's counter rolls over, two answers of the touch controller are shifted
  into a position.

`PROJECT.json` lists each hazard at its line with the properties that catch it.

## 2. Modules

| module | models | checked in | proved in |
|---|---|---|---|
| `Game` | game logic | `MCGame`, two runs | `GameProofs` |
| `JtagUart` | UART driver, its device and host | `MCJtagUart`, two runs | `JtagUartProofs` |
| `Pipe` | abstract: a bounded first-in first-out pipe | implemented by each direction of `JtagUart` | `JtagUartProofs` |
| `Display` | the two frame buffers | `MCPanel`; `MCDisplay`, one run | `DisplayProofs` |
| `Screen` | abstract: two sheets, and a viewer of one of them | implemented by `Display` | `DisplayProofs` |
| `Drawing` | which bytes each drawing function writes | `MCPanel`, one run | `DrawingProofs` |
| `Spi` | one SPI command at a time against its core | `MCPanel`, one run | `SpiProofs` |
| `I2c` | I2C calls, the interrupt routine, the core and a target | `MCI2c`, two runs | `I2cProofs` |
| `Adc` | the ADC driver's calls, its interrupt routine, the sequencer and the sample store; the joystick | `MCAdc`, one run | `AdcProofs` |
| `Timer` | the interval timers and their counters | through `Board` | `BoardProofs` |
| `HexDisplay`, `I2cSpeed`, `Touch`, `SysId` | operators: a message's registers, a speed's counts, a touch's position, the identification's test | through `Board` | `BoardProofs` |
| `Board` | the program that uses one of the five small drivers after the start | `MCBoard`, three runs | `BoardProofs` |

The components do not share state in the program except through calls, so each
has a module of its own and what it takes from another is an input: `Game`
leaves drawing out because drawing changes no state of the game, `Display`
has one frame number where `Game` has the picture's content, and `Game` takes a
reading of the joystick where `Adc` says which readings there are. The panel's
three drivers share no state either; `MCPanel` extends `Drawing`, `Display` and
`Spi`, whose variables and specifications have names of their own (`DisplaySpec`,
`SpiSpec`), and a behaviour uses one of them (`use`), which asks all their questions in
one run.

A definition whose comment begins "A bug to detect" is not part of any
specification. It is a plausible mistake in the code that stands behind it;
putting it in the place of the definition that follows makes a property fail
(`mutants` in `PROJECT.json` has the pairs), which shows that the property can.

### Game

The program is one thread, so `pc` names the call of `main` that is next. The
loops over enemies take one step per iteration (`SpawnEnemy`, `MoveEnemy`), all
else one step per call. `mem` is one array for `xcord`, `ycord` and the first
words of `level_info`, in the order the linker placed them (`Final.map`):
writing enemy `k >= MAX_ENEMIES` overwrites the next array, as in the program.
`NAME` stands for what `game_init` leaves in those words, so a level whose words have
another value is displayed "garbled". `overran` records that an enemy has been stored
past its array. `rand()` is any
place; `SpawnGivesUp` is the thousandth failed attempt (`MAX_ATTEMPTS`), possible whenever a
colliding place exists. Joystick readings are inputs of each frame. `touched`,
`finished` and `everWon` are history. The literals 5, 70, 20 of the sources are
the constants `STEP`, `END_START`, `END_STEP` so that small instances exist.

### JtagUart and Pipe

Each read or write of a variable shared by thread and interrupt routine is a
step of its own; the steps of the thread require that the routine is not running
(`At`), the routine may start between any two of them. Code between
`alt_irq_disable_all` and `alt_irq_enable_all` is one step (`WriteKick`,
`ReadEnable`). A character is its position in its stream, so loss, doubling and
reordering all show as a wrong number, and `intact` records that each character
moved was the next one. The device has two FIFOs, its two interrupt conditions
and the bit that says the host has polled; `connected` is the host. The alarm is
a step that does not preempt the routine. The build's `-O0` rereads
`host_inactive` in the waiting loops although it is not volatile
(`altera_avalon_jtag_uart.h:99`), and so do `WriteSpin` and `ReadSpin`. The build
option `IGNORE_FIFO_FULL_ERROR`, with which a full FIFO is no error, is not set and
not modelled.
What is at the calls' interface is an instance of `Pipe`: `TxIsPipe` and
`RxIsPipe` map the slots between the two indices to its queue, wrapped around
the end of the array.

### Display and Screen

`front`, `back` and `swapping` are the device; the two start addresses are the
driver's. `swap_buffers` sets the device's pending bit and exchanges the
driver's addresses at once, `Refresh` is the device doing its part. A buffer's
content is the number of the frame drawn in it and whether it is whole; a frame
is cleared, drawn and swapped in three steps. Refreshes come at any time: nothing in
the game waits for one, and a second exchange asked for in the same refresh is the
same request to the device while the driver's addresses change once more. `rate` is
chosen at the start; "per frame" singles out the behaviours in which the exchange
happens to be done before the next is asked for, and only `DriverFollowsDevice` names
it: it says what a program that waited would get. `ShownIsRecent` and `IsScreen` are
about every behaviour. `Screen` is what the two buffers are to the game without
addresses or a device: two sheets, of which one has the last picture handed over and
the other the next one in the making, and a viewer who changes over to the other sheet
only when asked to. `IsScreen` maps the driver's two buffers to the sheets and says
which of them the device shows; that the viewer may watch the draft is what
`ShownIsWhole` denies and the run `torn` shows.

### Drawing

For each request the set of bytes written, as offsets from the buffer's start;
`draw_line` runs pixel by pixel with its error term. Arguments are signed,
the functions' variables unsigned (`Unsigned`, modulo `WORD`), which is why the
functions' tests for negative numbers are dead. All colour and addressing modes
are constants. `ScreenBytes` are the bytes of the screen's rows, wherever the mode
puts them, and `Buffer` is what `lcd_init` allocates: two bytes for each pixel
(`lcd.c:63`). They are the same set in the 16-bit consecutive mode, which the run has.
In X-Y mode a row begins at the next power of two, 1024 bytes for 320 pixels, and the
last one ends at byte 245400 of 153600; the mode is what the device's registers say,
which is not in the repository, so `WritesInBuffer` promises the allocation only where
16-bit rows follow each other, and the screen's rows in every mode but the 8-bit one.

### Spi

The driver's loop as polling, sending, receiving and the final wait for TMT, and
the core as `Load`, `Shift` and `Idle`, which happen between any two steps.
`status` is the register as last read: it may be old when the loop acts on it.
A byte is its number, the target answers the k-th byte with k.

### I2c

`pc` is the place of a call, `ipc` that of the interrupt routine; as in
`JtagUart` a step of the call requires that the routine is not running (`At`).
There is one operator for each function of the source, and the four transfers
(`master_transmit`, `master_receive`, and the two `..._using_interrupts`) are made
of the same steps in the order of their code: `Begin` with its early returns
and `enable`, `cmd_write` when the FIFO has room, `Check` for the two errors,
`rx_read_available` and `rx_read`, and either `Release` or `Clear` and `Arm`.
`master_tx`, `master_rx` and `master_tx_rx` are what happens when a transfer has
ended: the retries, the second leg, the return. `AskStatus`, `AbortJob` and
`Answer` are `interrupt_transaction_status`, which runs with the interrupts it
found disabled. `irq_busy` and `job` are the handler's `IRQ_DATA_t`. A first leg
without STOP leaves the core enabled; the second starts with a RESTART.
`wide` says that addresses have 10 bits: two commands, of which the errors found
after the first are forgotten (`Check`). `registered` is the device's callback;
a call with interrupts is refused (`BAD_ARG`) before it is set.

Every wait of the driver is counted, and what happens when a count runs out is part
of each: on a slow bus `SendTimeout` (no room in the command FIFO), `rx_read` (no
byte), `AwaitIdle` (the end of a transfer), `AwaitAbort` (a status request) and
`IsrAwait` (the interrupt routine) may go on although what they wait for has not
happened, and the step that follows, `Release`, `AbortJob` or `IsrEnd`, disables a core
that is busy. Looking at the core and disabling it are two steps. `late` is history: no
wait has run out (`"never"`), one did in this try of a call (`"now"`), or in an earlier
one, in the interrupt routine or in a status request (`"before"`).

The core is not in the repository. `Fetch`, `Address`, `WriteByte` and `ReadByte`
execute one command each, `Refuse` and `LoseArbitration` abandon it, set a
status bit and flush the command FIFO. It is assumed that the core throws away
commands written after an error until the status bits are cleared (`Discard`),
because the driver writes a command before it looks for the error of an earlier
one. What a core does that is disabled while it is busy is not documented: it may go
on with its commands, or drop them at any point (`Drop`). `bus` is chosen at
the start: good, with a target that may refuse, shared with other masters, or slow and
with a target that may refuse; a target that may refuse need not. The bytes to write
are 1, 2, ..., and the target answers 1, 2, ..., so that `Done` can say that all came
in order.

After a wait has run out bytes and commands that were left behind may reach the next
call, which looks for neither. `SuccessIsComplete` therefore speaks of behaviours in
which none has (`late = "never"`), and on a slow bus too; `TypeOK` bounds the
caller's buffer under the same condition. What holds in all behaviours is
`EnabledIfNeeded`, and `LateIsTold`: a call in whose last try a wait ran out does not
answer SUCCESS, whichever wait it was and whatever was tried afterwards, except in two
cases the code gets wrong (section 5).

### Adc

Each access to a register or to `dev` is a step; a step of a call requires that
the routine is not running and that no interrupt is pending (`At`), because a
pending one is taken first. `CMD_REG` is the command register: the mode is kept
while RUN is set, which is why the driver stops the sequencer before it changes
the mode, and a sequencer told to stop goes on to the end of a sweep
(`stopping`). `SEQUENCER_STOP` is the macro's write and its polling, used by
`adc_stop` and `adc_recalibrate`. `alt_adc_register_callback` writes callback,
context and base one after the other. The routine calls the callback
(`IsrCallback`) before it clears the status (`IsrClear`), as the code does. The
initial state is the one `alt_sys_init` and `adc_init` leave, with or without a
connected interrupt (`installed`). `joystick_read` includes `adc_read`: two words,
scaled to 8 bits, less the rest position. `asked`, `calibrated`, `halted`,
`swapping`, `listening` and `fresh` are history. `adc_interrupt_enable` writes the
register whatever was registered before: without a callback the routine does not know
the store whose status it is to clear, and is entered again and again
(`Interrupted`).

### Timer, HexDisplay, I2cSpeed, Touch, SysId and Board

`Timer` has the two cores' counters, which count at any time (`Clock`), the
initialisation in `alt_sys_init`'s order for every choice of roles, the interrupt
routine in two steps and the timestamps in one step per register. `Never` stands
for a timer that was not started. The other four are operators, each next to an
independent statement of what its result should be (`IsShown`, `BestPeriod`,
`IsPosition`, `IsInSync`). `HexDisplay` keeps each register as a function from a
byte's shift to a character, and `Board` runs the loop of `hex_message` over them,
one `PlaceCharacter` for each character, since the registers are volatile and show
every step: `ShowMessage` clears them, `place` is the next character, and one
or-ed into a byte with another character in it would be "garbled" (`Or`).
`I2cSpeed` keeps 16 bits of counts computed in 32; the speeds run through the whole
accepted range, from 1 Hz. A timestamp timer that has run full period is loaded again
and stops, which `TimestampIsTime` leaves to `RollOverIsMinusOne`. `Board` composes
the five: they share no state, so a behaviour uses one of them
(`use`) after the start, which is common to all; `TimerSpec`, the timers alone, is
implemented by `Board` (`BoardTimers`).

## 3. Runs

Runs that pass:

| run | question | bounds, and why they are enough |
|---|---|---|
| `chase` | levels, enemies, verdict, the displayed level, end of the chase, with the overrun of the arrays | three levels of 1, 2, 3 enemies on 9 by 11 pixels and arrays of two, in the program's proportion: the last level has more enemies than the arrays hold, and the extra one lands in `ycord` and in the first level's name. Boxes of 2 by 2, the player twice as fast as an enemy. Every direction (each axis slower, centred, faster), collisions on spawning, enemies inherited from the level before, lost and won games and replays with a garbled name occur. The order of sizes the code relies on is `SpeedAssumption` and `GeometryAssumption` |
| `uart_write` | `write`, `TIOCSTIMEOUT`, `close`, a host that goes | buffers of 3, so that wrap-around with the free slot in the middle, at the start and at the end of the array occur; calls longer than the buffer; 5 characters; timeouts below and at the limit |
| `uart_duplex` | both directions at once, a receive buffer that overflows into the device | buffers of 3, a device FIFO of 2, 4 characters typed: more than the driver holds |
| `panel` | `WritesInBuffer`, `ShapesComplete`, `LineDrawn`: where each function draws; `BuffersAgree`, `ShownIsRecent`, `IsScreen`: who has which buffer and what is shown; `NoOverrun`, `Exchanged`, `ReleasedWhenIdle`, `CommandReturns`: a command's bytes, the core's registers, the release of the target | every pair of corners from -1 to 7 on a 6 by 5 screen: inside, on and past each border, all slopes. Twelve frames, levels beginning at any of them, refreshes at any time: each buffer is exchanged several times. Three commands of up to two bytes written and read, merged or not, with or without a stale byte before the first; the core has one byte in each of its three registers at most |
| `i2c` | `EnabledIfNeeded`, `SuccessIsComplete`, `LateIsTold`, `TransfersEnd`: what SUCCESS means, what stays enabled, what a wait that ran out is answered, lost interrupts, retries, ends | two calls of any kind of up to three bytes (`MAX_SIZE`, `MAX_BOTH`) with FIFOs of two, addresses of one and of two commands, so that calls are shorter and longer than the FIFOs and a call meets what the one before left; on a slow bus one byte each way (`MAX_SLOW`), which with its address already makes every wait run out in every place; one retry, which is as good as many since each starts from what the last left; status requests at any time between calls; every kind of bus |
| `adc` | `SequencerObeys`, `OwnContext`, `CallReturns`, `Announced`: what a stopped or recalibrated sequencer does, which callback gets which context, ends of calls, announcements | any sequence of calls, unbounded, the interrupt enabled with or without a callback; the least and the greatest sample; two callbacks, so that one can replace the other; the rest position of `joystick.h` |
| `board` | ticks, timestamps, and `ServicesRight`: the displays, the I2C speed, the touch position and the identification | half words of 3 so that counters roll over, a period of 5, every choice of roles; every string of two letters up to one more than fits; speeds at and beside each border of the accepted range, from 1 Hz, and of the 16-bit counts at 100 MHz; pairs of bytes at the borders of the panel; 16 times of identification |

Runs whose property TLC refutes, each quoting a line of the repository that the
program does not keep (`findings` in `PROJECT.json`):

| run | what the repository says | what happens |
|---|---|---|
| `hidden_enemy` | `game.c:156`: -1 if touching an enemy | an enemy behind one that could not be placed never touches |
| `torn` | `altera_up_avalon_video_pixel_buffer_dma.c:103`: it is important to wait for the exchange before drawing on either buffer | the next frame is cleared and drawn while the device has not taken the last exchange, or after two requests in one refresh: the frame in the making is shown |
| `speed` | `altera_avalon_i2c.h:379`: computes parameters that best match the speed requested | 1 Hz is accepted with SUCCESS, the counts do not fit 16 bits, and the bus gets about 812 Hz |
| `rollover` | `altera_avalon_timer_ts.c:92`: -1 if the timer has run full period | the counter is loaded again when it stops, and `alt_timestamp` returns 0, which `:57` of the same file says |
| `i2c_refused` | `altera_avalon_i2c.h:1154`: SUCCESS indicates that the transaction is successfully completed | a NACK that comes after the last check empties the command FIFO; the interrupt this raises clears the NACK, and the status is SUCCESS |

Deadlock is checked for `Game`, which never stops, and for `Board`. It is not
checked where the bounded number of frames, calls or requests ends the run
(`MCPanel`, `MCDisplay`, `I2c`), for `JtagUart`, where a thread that has
nothing left to call and a host that has gone may leave nothing to do, nor for
`Adc`, where a program that waits for the interrupt of a sequencer at rest waits
for ever.

### Fairness

* `Game`: `WF_vars(Next)`. `main` is the only thread and no interrupt keeps it
  from running for ever.
* `JtagUart`: weak fairness of the thread's steps inside a call (`Continue`, not
  of beginning one), of the interrupt routine, of the timer's tick and of
  `HostTakes`: a host that is connected takes what is offered, but may leave at
  any time, and then nothing is assumed of it. Typing and polling are not fair.
* `Spi`: the processor runs and so does the core's clock.
* `I2c`: weak fairness of the call once it has begun and of the core. Nothing is assumed
  of the counts: a wait on a slow bus may run out or not. The
  interrupt routine has strong fairness: `interrupt_transaction_status` disables
  and enables the interrupts again and again while a program polls it, and a
  pending interrupt is taken in one of the gaps. Lost arbitration and refusals
  are steps of the core, but it may always do the command instead.
* `Adc`: weak fairness of the interrupt routine, of the call that has begun, and of the
  cores, which have a clock. Beginning a call is not fair. Weak fairness does not
  promise that a call gets on between two interrupts: a sweep of two slots may be
  shorter than the way in and out of the routine.
* `Display`, `Drawing`, `Board`: only safety is stated.

### Liveness

Model-checked only. `ChaseTerminates`: a player who stops is caught. `WriteReturns`,
`AcceptedIsSent`, `TypedIsReceived`: calls of `write` return, and characters
move on, unless the host goes, or nobody reads and the buffer is full.
`CommandReturns`: an SPI command ends, unless both lengths are 0, which the
code never leaves (`altera_avalon_spi.c:114`). `TransfersEnd`: an I2C call ends,
since tries are counted (`CallReturns`), and a transaction of the interrupt routine
ends if nothing is wrong with the bus and the receive FIFO holds what is read
(`JobEnds`). `Adc!CallReturns`: a call to the ADC ends, although it waits for RUN
without a bound, unless interrupts that may come without end begin meanwhile
(`Interrupted`: with the sweeps of a sequencer that runs continuously, or because the
routine does not know its store); waiting for the interrupt ends under the same
condition if sweeps go on. So `adc_stop` ends once its write has reached the sequencer,
interrupts or not, if a callback was ever registered.
`Announced`: a sweep that ends while the routine runs, whose status the routine
then clears, is followed by a callback for a later one.

## 4. Theorems

Every theorem is proved for all values of the constants that meet the modules'
`ASSUME`s. Each proof module has an inductive invariant, conjunct by conjunct,
a lemma that the initial states have it, one that each action keeps it, and
short theorems that draw the properties from it.

* **`GameProofs`** — `TypeCorrect`, `MainOrder`, `VerdictSound`, `EnemiesStay`,
  `LevelNamed`. `LevelInv` relates `pc` to `level_count` and the tables.
  `NoEnemyVanishes` needs the most: an enemy exactly on the player in row 0 would
  be sent to row -1. The invariant says that enemies which may still walk in
  this frame are, when the player is in row 0, far enough below (`RowZeroFar`),
  that none walks in row 0 unless it has been walking there beside the player
  (`RowZeroWalked`, `RowZeroLags`, `RowZeroApart`), and carries this through level
  changes, where enemies keep old coordinates. That is where `SpeedAssumption`
  comes in: the player cannot return to row 0 faster than enemies follow.
  `LevelNamed` follows the words of `level_info` through every store past an array
  (`Spilled`): the level's name is right until the first of them, and after it for each
  level whose name such a store does not reach.
* **`JtagUartProofs`** — `UartTypes`, `UartStreams`, `UartArmed`, and the
  refinements `UartTxPipe`, `UartRxPipe`. `Ring` says what the slots between two
  indices of a circular buffer hold; `TxCall` and `RxCall` say what the thread
  knows at each label although the other index moves on (that room only grows
  for a writer, and characters only for a reader); `IsrInv` what the routine
  knows of its reading of the control register. The ring's arithmetic is in
  lemmas (`RingPut`, `RingGet`, `RingKept`) used for both directions.
  `QueueHolds` gives the refinement its queue.
* **`DisplayProofs`** — `DisplayTypes`; `DisplayAgree`, for any refreshes and, in
  its last part, for at least one per frame; `DisplayRecent` and the refinement
  `DisplayIsScreen`, both whenever refreshes come: no frame is left out or handed over
  before it is whole, and the screen is never more than one picture behind.
  `Starting` tells where `lcd_init` is; the invariant says where the two latest frames
  are in terms of the driver's addresses, whichever of them the device shows, so that
  each step is a step of `Screen` or none.
* **`DrawingProofs`** — `DrawingInBuffer`: no function writes outside the screen's
  rows, for any screen, addressing mode and arguments and colours of two bytes or
  more, nor, where 16-bit rows follow each other, outside the allocation
  (`AllocationHolds`). It has no hypothesis: that `clear_screen` in the 8-bit mode goes
  past the rows is said by the property. `DrawingTypes`: the
  loop of `draw_line` has its types. `DrawingLine`: it plots both ends, only
  pixels nearest to the exact line, and one for each step along the longer side.
  Nearness comes from the invariant that `error` is the distance of the current row
  from the line, in units of the shorter side, between minus and plus half of the
  longer one; the rest from `Traced`, which counts the bytes plotted so far
  (`Cardinality(written)`; two pixels share none, `PixelsApart`) and keeps the
  first and, at the end, the last. `DrawingShapes`: boxes and rectangles are the
  pixels they should be, clipped, and `clear_screen` leaves no byte out, in every mode
  (`WordsCover`). `DrawingAssumption` says
  that coordinates are `int`s: numbers of a word, of which half are negative.
* **`SpiProofs`** — `SpiTypes`, `SpiNoOverrun`, `SpiExchanged`, `SpiReleased`. `Flight`: the one
  credit is where the one byte is — with the driver, in the transmit register,
  the shift register or the receive register — so at most one register is full;
  `Counts` and `Data` relate the driver's counters to what the target heard.
  `Drained`: once TMT has been seen, nothing but a new byte can clear it.
* **`I2cProofs`** — `I2cTypes`, `I2cEnabled`, `I2cLate`, `I2cComplete`. `IInv` holds of
  every bus. It says who has the core: from `enable` to the end of a transfer it is the
  call's and no interrupt is enabled (`Owned`); from arming on it is the transaction's
  of the interrupt routine, which has an interrupt enabled unless a status request
  keeps it aside (`Armed`, `Asked`); between the legs of `tx_rx` it stays enabled unless
  the first one failed (`Between`), and every other way out of a call leaves it disabled
  but for the answers named in `Leaves` (`Ended`). `I2cEnabled` needs no more.
  `Told` carries the time-out from the wait to the answer: once a wait has run out,
  the call is on its way to fail, or is the second leg of a `tx_rx` whose core is disabled,
  where nothing it waits for can come (`Failing`).
  `Data` says what the commands have done, for transfers of any size, and holds as long
  as no wait has run out (`Punctual`: `late = "never" => Data`; a wait that runs out
  cannot be forgotten, `LateStays`). `Nth` is the
  k-th command of a transaction and `Intact` relates those written, waiting in the FIFO
  and done to the phase of the bus, the bytes at the target and those in the buffer and
  the receive FIFO, which are in order unless some were discarded; or an error came
  before the first read (`Failed`). `Places` classifies each command, and one lemma
  per action of the core (`AddressDone`, `WriteDone`, `ReadDone`, `Broken`) and of the
  driver carries it on. That SUCCESS is answered only with `queued = Total` and all
  bytes taken (`Waiting`), by a core found idle (`WhollyDone`), gives `I2cComplete`.
  `Queueing` bounds the commands of a call, `Known` says that an enabled core has
  commands of some one transaction, also those that a `tx_rx` with nothing to read left
  behind, and bounds what the types bound.
* **`AdcProofs`** — `AdcTypes`, `AdcOwnContext`, `AdcObeys`. `Locals` ties a call's
  variables to its place; `Held` says that a sequencer is at rest once `adc_stop` has
  returned; `Recalibrating` says at which labels the sequencer has stopped, so that
  the mode written is taken; `Context` says where `dev` has a callback and a
  context that do not belong together, and that nothing can call it there.
* **`BoardProofs`** — `TimerTicks`, `TimerStamps`, `BoardTimers`, `BoardServices`,
  `BoardTypes`. A running timestamp
  timer has counted down from full scale as many clocks as have passed since the
  start (`Counting`), the latch has what the counter was when `alt_timestamp` was
  called (`Latched`), and the two halves of a word make the word (`Halves`).
  `BoardTimers` shows that `Board` implements `TimerSpec`, so both results hold of
  the composition. `Serves` is the invariant of the other drivers: the loop of
  `hex_message` has placed the characters before `place` and nothing else
  (`Looping`; a byte that is blank takes a character whole, `PlaceRight`), and each
  configuration, position and answer is what its function makes of a known input.
  `BoardServices` says of every accepted speed that the bus is not slower than asked,
  and of those whose counts fit that it has the nearest speed; that counts may be below
  0 with a slow clock is in the property (`Positive`), not assumed.
  What those functions make is in lemmas about divisions by any number (`Half`,
  `Scaled`, `DivAtMost`) and about fields that cut (`Wrapped`): `SpeedBest`,
  `TouchRight`, `SysIdRight`. `TimerRest` adds to the timers' invariant that no
  counter is beyond its period, which every way of changing a core keeps.

Every safety property that a run checks is a theorem. Only model-checked: liveness.
The provers reach neither it nor induction over data. The bounds
`MAX_FRAMES`, `WRITE_LIMIT`, `TYPE_LIMIT`, `MAX_CALLS`, `MAX_SIZE`, `MAX_SLOW`,
`MAX_BOTH` and `MAX_LENGTH`
are arbitrary natural numbers in the theorems.

## 5. Not modelled

* I2C: callbacks other than the optional one, `tx_rx` with nothing to write.
* JTAG UART: the build option `IGNORE_FIFO_FULL_ERROR`.
* The heap (`malloc` in `lcd_init` succeeds), colours, characters and the
  7-segment patterns, wording.
* `draw_touch`, which nothing calls. `alt_tick` and the routines of the board
  support package are not in the repository; `alt_tick`'s effect on the UART is
  `AlarmTick`.
* Timestamps of 64 bits: the repository's cores have 32, and its build gives no
  timer the role of timestamps.
* PIO macros are register accesses without logic; `alt_sys_init.c` is generated,
  one call per device, and its order is in `Timer` and in the initial states;
  `system.h`'s constants are in the configurations; build outputs have no logic,
  and `Final.map` gives the order in memory that `mem` follows.

Noticed while reading, and not the subject of a run of its own: level 5 asks for 25
enemies (`game.c:86`, five more than the level before) in arrays of `MAX_ENEMIES`, 20,
"Max enemies to spawn" (`game.h:18`), which `LevelShown` follows into the names;
`win` is never reset, so after one victory every loss displays "winner"
(`hello_world.c:77`, which `VerdictUntilFirstWin` excludes); a touch in the frame of the
last finish displays "winner" (`hello_world.c:59`; `src/README.md:2` says a touch
loses); `countdown` waits a quarter of a second per number (`game.c:228`), not
the seconds of the README; an SPI command's comment on MERGE says "all except
the first" (`altera_avalon_spi.h:56`) where the code needs "all except the
last" (`altera_avalon_spi.c:127`); `clear_screen` writes four bytes per pixel in
8-bit mode (`..._pixel_buffer_dma.c:126`); negative coordinates are large
unsigned ones (`:187`); in 16-bit X-Y mode the screen's rows reach past what
`lcd.c:63` allocates (section 2, Drawing); the first enemy of a level is not checked
against the player, whatever `game.c:130` says: the test is in a loop over earlier
enemies.

In the I2C driver, without a time-out: arbitration lost after the last check is not
looked for once the core is idle (`altera_avalon_i2c.c:681`), and the call answers
SUCCESS, which is why `SuccessIsComplete` excludes a shared bus; a `tx_rx` with nothing
to read returns SUCCESS with the core enabled and no STOP sent (which `EnabledIfNeeded`
and `SuccessIsComplete` except); an interrupt receive of more bytes than the FIFO holds
may lose some before its interrupt is enabled and then stays BUSY, and so does one whose
target refuses between the last check and the clearing of the status bits
(`JobEnds` excludes both). After a wait has run out: the status of the first of the two
commands of a 10-bit address is forgotten (`:411-415`), and that command is missing
when the second is sent; `tx_rx` goes on to its second leg when the first has answered
TIMEOUT (`:602` retries only after the other errors), and if it has nothing to read answers
SUCCESS — `LateIsTold` excepts both; commands and received bytes left in the core are
not cleared when it is enabled again (`:210-232`), so a later call may transfer them
as its own, and a receive may be given more bytes than it asked for.

In the ADC driver: the status is cleared after the callback, so a
sweep that ends in between is announced only by a later one
(`altera_modular_adc.c:67`), and in run-once mode there may be none; enabling the
interrupt without having registered a callback leaves the routine without a store to
clear, for ever; `adc_wait_for_interrupt` does not return while a routine clears the
status before it looks; a callback replaced while the interrupt is enabled may be called
with the old context (`:161`, which `OwnContext` excepts); setting the mode reads and
writes the command register, and restarts a sequencer that stopped in between.

## 6. Plan

1. An abstract SPI exchange, with its refinement.
2. What of the liveness is safety: measures that the steps of a call reduce.
3. The run-once mode of `Adc!Announced`, for a program that starts each sweep itself.
