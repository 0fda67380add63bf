--------------------------------- MODULE Timer ---------------------------------
(***************************************************************************)
(* The two interval timers: ALTERA_AVALON_TIMER_INIT as alt_sys_init calls *)
(* it, the system clock's interrupt routine, and the timestamps, over the  *)
(* cores' counters, which run while the program reads and writes them.     *)
(***************************************************************************)
EXTENDS Integers

CONSTANTS
  HALF,        \* a half word, 2^16 in the core
  LOAD,        \* the period generated with the core
  FREQ,        \* the core's clock
  PERIOD, UNITS   \* the period as system.h names it

Timers == {"INTERVAL_TIMER", "INTERVAL_TIMER_2"}

\* Full scale, 0xffffffff.
FULL == HALF * HALF - 1

ASSUME TimerAssumption ==
  /\ HALF \in Nat \ {0, 1} /\ LOAD \in 1 .. FULL
  /\ FREQ \in Nat \ {0} /\ PERIOD \in Nat \ {0}

VARIABLES
  ALT_SYS_CLK, ALT_TIMESTAMP_CLK,   \* the roles the build gives to the timers
  core,        \* the registers of each timer
  ts_base, ts_freq, ticks_per_second,   \* the drivers' variables
  pc, ret,     \* the call that runs, and what the last one returned
  lower,       \* alt_timestamp's local variable
  ipc,         \* where the interrupt routine is
  since,       \* history: clocks since the timestamp timer was started
  asked,       \* history: since, when alt_timestamp was called
  owed         \* history: a timeout of the system clock since the last tick

roles == <<ALT_SYS_CLK, ALT_TIMESTAMP_CLK>>
clock == <<roles, ts_base, ts_freq, ticks_per_second>>
call == <<pc, ret, lower>>
timer_vars == <<ALT_SYS_CLK, ALT_TIMESTAMP_CLK, core, ts_base, ts_freq, ticks_per_second,
                pc, ret, lower, ipc, since, asked, owed>>

Never == FULL + 2    \* since: the timer was not started

TimerInit ==
  /\ ALT_SYS_CLK \in Timers \union {"none"} /\ ALT_TIMESTAMP_CLK \in Timers \union {"none"}
  /\ core = [t \in Timers |->
       [period |-> LOAD, counter |-> LOAD, snap |-> 0, TO |-> FALSE,
        run |-> FALSE, ITO |-> FALSE, CONT |-> FALSE]]
  /\ ts_base = "none" /\ ts_freq = 0 /\ ticks_per_second = 0
  /\ pc = "init_1" /\ ret = 0 /\ lower = 0
  /\ ipc = "off" /\ since = Never /\ asked = Never /\ owed = FALSE

-----------------------------------------------------------------------------
(* The cores                                                               *)

\* The control register: START and STOP are events, the others are kept.
CONTROL(t, start, stop, ito, cont) ==
  core' = [core EXCEPT ![t].run = start \/ (@ /\ ~stop), ![t].ITO = ito, ![t].CONT = cont]

\* A write to either half of the period stops the counter and loads it.
LoadPeriod(t, p) ==
  core' = [core EXCEPT ![t].period = p, ![t].counter = p, ![t].run = FALSE]

PERIODL(t, half) == LoadPeriod(t, (core[t].period \div HALF) * HALF + half)
PERIODH(t, half) == LoadPeriod(t, half * HALF + (core[t].period % HALF))

\* A counter that has reached 0 is loaded again, and stops unless it is continuous.
Count(c) ==
  IF c.counter > 0 THEN [c EXCEPT !.counter = @ - 1]
  ELSE [c EXCEPT !.counter = c.period, !.TO = TRUE, !.run = c.CONT]

Clock(t) ==
  /\ core[t].run
  /\ core' = [core EXCEPT ![t] = Count(@)]
  /\ since' = IF t = ts_base /\ since <= FULL THEN since + 1 ELSE since
  /\ owed' = (owed \/ (t = ALT_SYS_CLK /\ core[t].counter = 0))
  /\ UNCHANGED <<clock, call, ipc, asked>>

-----------------------------------------------------------------------------
(* alt_sys_init                                                            *)

\* A step of a call: the interrupt routine does not run.
At(label) == pc = label /\ ipc = "off"

\* Rounded up.
TIMER_FREQ ==
  LET Rate(n) == (n + PERIOD - 1) \div PERIOD
  IN  CASE UNITS = "us" -> Rate(1000000) [] UNITS = "ms" -> Rate(1000)
        [] UNITS = "s" -> 1 [] OTHER -> Rate(FREQ)

alt_avalon_timer_sc_init(t) ==
  /\ ticks_per_second' = TIMER_FREQ
  /\ CONTROL(t, TRUE, FALSE, TRUE, TRUE)
  /\ UNCHANGED <<roles, ts_base, ts_freq>>

\* A timer is the system clock, or gives timestamps, or is left alone.
TIMER_INIT(t) ==
  CASE t = ALT_SYS_CLK -> alt_avalon_timer_sc_init(t)
    [] t = ALT_TIMESTAMP_CLK /\ t # ALT_SYS_CLK ->
         ts_base' = t /\ ts_freq' = FREQ /\ UNCHANGED <<roles, core, ticks_per_second>>
    [] OTHER -> UNCHANGED <<core, clock>>

alt_sys_init ==
  /\ \/ At("init_1") /\ pc' = "init_2" /\ TIMER_INIT("INTERVAL_TIMER")
     \/ At("init_2") /\ pc' = "idle" /\ TIMER_INIT("INTERVAL_TIMER_2")
  /\ UNCHANGED <<ret, lower, ipc, since, asked, owed>>

-----------------------------------------------------------------------------
(* Timestamps                                                              *)

Answer(value) == pc' = "idle" /\ ret' = value /\ lower' = 0 /\ asked' = Never

alt_timestamp_start ==
  /\ \/ /\ At("idle") /\ ts_freq = 0
        /\ Answer(-1) /\ UNCHANGED <<core, since>>
     \/ /\ At("idle") /\ ts_freq # 0 /\ pc' = "period_low"
        /\ CONTROL(ts_base, FALSE, TRUE, FALSE, FALSE)
        /\ since' = Never /\ UNCHANGED <<ret, lower, asked>>
     \/ /\ At("period_low") /\ pc' = "period_high"
        /\ PERIODL(ts_base, HALF - 1) /\ UNCHANGED <<ret, lower, since, asked>>
     \/ /\ At("period_high") /\ pc' = "start"
        /\ PERIODH(ts_base, HALF - 1) /\ UNCHANGED <<ret, lower, since, asked>>
     \/ /\ At("start") /\ Answer(0)
        /\ CONTROL(ts_base, TRUE, FALSE, FALSE, FALSE)
        /\ since' = 0
  /\ UNCHANGED <<clock, ipc, owed>>

\* A bug to detect: the lower half is read from the running counter.
ReadBeforeLatch ==
  /\ \/ /\ At("idle") /\ ts_freq # 0 /\ pc' = "snap_low" /\ asked' = since
        /\ UNCHANGED <<core, ret, lower>>
     \/ /\ At("snap_low") /\ pc' = "snap_high" /\ lower' = core[ts_base].counter % HALF
        /\ core' = [core EXCEPT ![ts_base].snap = core[ts_base].counter] /\ UNCHANGED <<ret, asked>>
     \/ /\ At("snap_high")
        /\ Answer(FULL - ((core[ts_base].snap \div HALF) * HALF + lower)) /\ UNCHANGED core
  /\ UNCHANGED <<clock, ipc, since, owed>>

\* The counter is latched, then read in two halves.
alt_timestamp ==
  /\ \/ /\ At("idle") /\ ts_freq = 0
        /\ Answer(FULL) /\ UNCHANGED core
     \/ /\ At("idle") /\ ts_freq # 0 /\ pc' = "snap_low"
        /\ core' = [core EXCEPT ![ts_base].snap = core[ts_base].counter]
        /\ asked' = since /\ UNCHANGED <<ret, lower>>
     \/ /\ At("snap_low") /\ pc' = "snap_high"
        /\ lower' = core[ts_base].snap % HALF /\ UNCHANGED <<core, ret, asked>>
     \/ /\ At("snap_high")
        /\ Answer(FULL - ((core[ts_base].snap \div HALF) * HALF + lower)) /\ UNCHANGED core
  /\ UNCHANGED <<clock, ipc, since, owed>>

alt_timestamp_freq == At("idle") /\ Answer(ts_freq) /\ UNCHANGED <<core, clock, ipc, since, owed>>

-----------------------------------------------------------------------------
(* alt_avalon_timer_sc_irq                                                 *)

ClearStatus == core' = [core EXCEPT ![ALT_SYS_CLK].TO = FALSE]

\* A bug to detect: the status is cleared after the tick.
TickThenClear ==
  /\ \/ /\ ipc = "off" /\ ALT_SYS_CLK # "none" /\ core[ALT_SYS_CLK].TO /\ core[ALT_SYS_CLK].ITO
        /\ ipc' = "tick" /\ owed' = FALSE /\ UNCHANGED core
     \/ ipc = "tick" /\ ipc' = "off" /\ ClearStatus /\ UNCHANGED owed
  /\ UNCHANGED <<clock, call, since, asked>>

\* The status is cleared, then alt_tick is called.
alt_avalon_timer_sc_irq ==
  /\ \/ /\ ipc = "off" /\ ALT_SYS_CLK # "none" /\ core[ALT_SYS_CLK].TO /\ core[ALT_SYS_CLK].ITO
        /\ ipc' = "tick" /\ ClearStatus /\ UNCHANGED owed
     \/ ipc = "tick" /\ ipc' = "off" /\ owed' = FALSE /\ UNCHANGED core
  /\ UNCHANGED <<clock, call, since, asked>>

-----------------------------------------------------------------------------
Call == alt_timestamp_start \/ alt_timestamp \/ alt_timestamp_freq

TimerNext ==
  \/ alt_sys_init \/ Call \/ alt_avalon_timer_sc_irq
  \/ \E t \in Timers : Clock(t)

TimerSpec == TimerInit /\ [][TimerNext]_timer_vars

-----------------------------------------------------------------------------
(* Properties                                                              *)

Labels ==
  {"init_1", "init_2", "idle", "period_low", "period_high", "start", "snap_low", "snap_high"}

\* Every variable has its type, and a counter is never beyond its period.
TimerTypes ==
  /\ core \in [Timers -> [period : 0 .. FULL, counter : 0 .. FULL, snap : 0 .. FULL,
                          TO : BOOLEAN, run : BOOLEAN, ITO : BOOLEAN, CONT : BOOLEAN]]
  /\ \A t \in Timers : core[t].counter <= core[t].period
  /\ ts_base \in Timers \union {"none"} /\ ts_freq \in {0, FREQ}
  /\ ticks_per_second \in Nat /\ lower \in 0 .. HALF - 1
  /\ pc \in Labels /\ ret \in -1 .. FULL \union {FREQ} /\ ipc \in {"off", "tick"}
  /\ {since, asked} \subseteq 0 .. Never /\ owed \in BOOLEAN

\* What alt_timestamp returns is the time since the start at which it was called, however
\* long it takes to read the halves of a counter that runs and even if it runs out
\* meanwhile, unless the timer had run full period before.
TimestampIsTime ==
  [][pc = "snap_high" /\ pc' = "idle" /\ asked <= FULL => ret' = asked]_timer_vars

\* What a comment says of a timer that had run full period, and the program does not do:
\* altera_avalon_timer_ts.c:92, "In the event that the timer has run full period, or
\* there is no timestamp available, this function return -1".
RollOverIsMinusOne ==
  [][pc = "snap_high" /\ pc' = "idle" /\ asked = FULL + 1 => ret' = FULL]_timer_vars

\* A timeout of the system clock since the last tick is still to be handled, although the
\* next one may come while the routine runs.
NoTickLost == owed => core[ALT_SYS_CLK].TO \/ ipc = "tick"
=============================================================================
