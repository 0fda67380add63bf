------------------------------ MODULE BoardProofs ------------------------------
(***************************************************************************)
(* The ticks and timestamps of the interval timers, for counters of any    *)
(* width, any period and any build, and with whatever else runs on the     *)
(* board: the timers' part of Board is TimerSpec.  Then the displays, the  *)
(* I2C core's speed, the touch position and the identification.            *)
(***************************************************************************)
EXTENDS Board, TLAPS

-----------------------------------------------------------------------------
(* Halves of a word                                                        *)

LEMMA FullIsNat == FULL \in Nat /\ HALF \in Nat /\ HALF > 1 /\ FULL = HALF * HALF - 1
BY TimerAssumption DEF FULL

LEMMA DivMod ==
  ASSUME NEW s \in Nat, s > 0, NEW b \in Nat
  PROVE  b \div s \in Nat /\ b % s \in 0 .. s - 1 /\ b = s * (b \div s) + (b % s)
<1>1. b \div s \in Int /\ b \div s >= 0
  OBVIOUS
<1>2. b % s \in 0 .. s - 1
  OBVIOUS
<1>3. b = s * (b \div s) + (b % s)
  OBVIOUS
<1>4. QED
  BY <1>1, <1>2, <1>3

\* A word is what its halves make.
LEMMA Halves ==
  ASSUME NEW w \in 0 .. FULL
  PROVE  /\ (w \div HALF) * HALF + (w % HALF) = w
         /\ w % HALF \in 0 .. HALF - 1
         /\ w \div HALF \in 0 .. HALF - 1
<1>1. PICK q \in Nat, m \in 0 .. HALF - 1 :
        q = w \div HALF /\ m = w % HALF /\ w = HALF * q + m
  BY FullIsNat, DivMod
<1>2. q < HALF
  <2>1. SUFFICES ASSUME HALF <= q PROVE FALSE
    BY <1>1, FullIsNat
  <2>2. HALF * HALF <= HALF * q
    BY <2>1, <1>1, FullIsNat
  <2>3. PICK n \in Int, k \in Int : n = HALF * HALF /\ k = HALF * q
    BY <1>1, FullIsNat
  <2>4. QED
    BY <1>1, <2>2, <2>3, FullIsNat
<1>3. q * HALF = HALF * q
  BY <1>1, FullIsNat
<1>4. QED
  BY <1>1, <1>2, <1>3, FullIsNat

\* With its lower half full.
LEMMA LowFull ==
  ASSUME NEW q \in 0 .. HALF - 1
  PROVE  /\ q * HALF + (HALF - 1) \in 0 .. FULL
         /\ (q * HALF + (HALF - 1)) % HALF = HALF - 1
<1>1. PICK h \in Nat, b \in Nat : h = HALF /\ h > 1 /\ b = q * h + (h - 1)
  BY FullIsNat
<1>2. b <= FULL
  <2>1. q * h <= (h - 1) * h
    BY <1>1
  <2>2. (h - 1) * h = h * h - h
    BY <1>1
  <2>3. PICK n \in Int, k \in Int : n = q * h /\ k = h * h
    BY <1>1
  <2>4. QED
    BY <1>1, <2>1, <2>2, <2>3, FullIsNat
<1>3. PICK d \in Nat, m \in 0 .. h - 1 : m = b % h /\ b = h * d + m
  BY <1>1, DivMod
<1>4. m = h - 1
  <2>1. PICK x \in Int : x = q - d
    BY <1>1
  <2>2. h * x = m - (h - 1)
    <3>1. h * x = q * h - h * d
      BY <2>1, <1>1
    <3>2. PICK n \in Int, k \in Int : n = q * h /\ k = h * d
      BY <1>1, <1>3
    <3>3. QED
      BY <1>1, <1>3, <3>1, <3>2
  <2>3. CASE x >= 1
    <3>1. h * x >= h
      BY <1>1, <2>3
    <3>2. QED
      BY <1>1, <1>3, <2>2, <3>1
  <2>4. CASE x <= -1
    <3>1. h * x <= -h
      BY <1>1, <2>4
    <3>2. QED
      BY <1>1, <1>3, <2>2, <3>1
  <2>5. CASE x = 0
    BY <1>1, <1>3, <2>2, <2>5
  <2>6. QED
    BY <2>3, <2>4, <2>5
<1>5. QED
  BY <1>1, <1>2, <1>3, <1>4

-----------------------------------------------------------------------------
(* The invariant                                                           *)

Registers == [period : 0 .. FULL, counter : 0 .. FULL, snap : 0 .. FULL,
              TO : BOOLEAN, run : BOOLEAN, ITO : BOOLEAN, CONT : BOOLEAN]

Typed ==
  /\ core \in [Timers -> Registers]
  /\ since \in 0 .. Never /\ asked \in 0 .. Never /\ owed \in BOOLEAN
  /\ ALT_SYS_CLK \in Timers \union {"none"}

\* The timestamp timer is never the system clock.
Roles ==
  /\ ts_base \in Timers \union {"none"}
  /\ ts_base \in Timers => ts_base # ALT_SYS_CLK /\ ts_freq = FREQ
  /\ ts_base = "none" => ts_freq = 0

Ticks == owed => ALT_SYS_CLK \in Timers /\ (core[ALT_SYS_CLK].TO \/ ipc = "tick")

\* A timer that is being started is stopped until its period is whole.
Starting ==
  /\ pc \in {"init_1", "init_2"} => since = Never
  /\ pc \in {"period_low", "period_high", "start"} =>
       ts_base \in Timers /\ since = Never /\ ~core[ts_base].run
  /\ pc = "period_high" => core[ts_base].period % HALF = HALF - 1
  /\ pc = "start" => core[ts_base].period = FULL /\ core[ts_base].counter = FULL

\* What the counter holds s clocks after the start.
Left(s) == IF s > FULL THEN FULL ELSE FULL - s

\* A started timer counts down once from full scale, and stops there.
Counting ==
  since # Never =>
    /\ ts_base \in Timers /\ core[ts_base].period = FULL /\ ~core[ts_base].CONT
    /\ core[ts_base].counter = Left(since) /\ (core[ts_base].run => since <= FULL)

Latched ==
  /\ pc \in {"snap_low", "snap_high"} =>
       ts_base \in Timers /\ (asked = Never \/ core[ts_base].snap = Left(asked))
  /\ pc = "snap_high" => lower = core[ts_base].snap % HALF

IInv == Typed /\ Roles /\ Ticks /\ Starting /\ Counting /\ Latched

-----------------------------------------------------------------------------
(* What a write to the core leaves in it                                   *)

LEMMA NumbersOk ==
  /\ FULL \in Nat /\ FULL > 0 /\ Never = FULL + 2 /\ Never \in 0 .. Never
  /\ FREQ \in Nat /\ FREQ # 0
<1>1. HALF * HALF >= HALF
  BY FullIsNat
<1>2. PICK n \in Int : n = HALF * HALF
  BY FullIsNat
<1>3. QED
  BY <1>1, <1>2, FullIsNat, TimerAssumption DEF Never

\* START and STOP set and clear RUN; the counter, the period and the status stay.
LEMMA ControlEffect ==
  ASSUME core \in [Timers -> Registers], NEW t \in Timers, NEW start \in BOOLEAN,
         NEW stop \in BOOLEAN, NEW ito \in BOOLEAN, NEW cont \in BOOLEAN,
         CONTROL(t, start, stop, ito, cont)
  PROVE  /\ core' \in [Timers -> Registers]
         /\ core'[t].period = core[t].period /\ core'[t].counter = core[t].counter
         /\ core'[t].snap = core[t].snap /\ core'[t].TO = core[t].TO
         /\ core'[t].CONT = cont
         /\ (start => core'[t].run) /\ (stop /\ ~start => ~core'[t].run)
         /\ \A u \in Timers \ {t} : core'[u] = core[u]
<1> DEFINE r == start \/ (core[t].run /\ ~stop)
<1>1. ASSUME NEW c \in Registers, NEW b \in BOOLEAN, NEW i \in BOOLEAN, NEW k \in BOOLEAN
      PROVE  /\ [c EXCEPT !.run = b, !.ITO = i, !.CONT = k] \in Registers
             /\ [c EXCEPT !.run = b, !.ITO = i, !.CONT = k].period = c.period
             /\ [c EXCEPT !.run = b, !.ITO = i, !.CONT = k].counter = c.counter
             /\ [c EXCEPT !.run = b, !.ITO = i, !.CONT = k].snap = c.snap
             /\ [c EXCEPT !.run = b, !.ITO = i, !.CONT = k].TO = c.TO
             /\ [c EXCEPT !.run = b, !.ITO = i, !.CONT = k].run = b
             /\ [c EXCEPT !.run = b, !.ITO = i, !.CONT = k].CONT = k
  BY DEF Registers
<1>2. core[t] \in Registers
  OBVIOUS
<1>3. r \in BOOLEAN
  BY Zenon
<1>4. core' = [core EXCEPT ![t] = [core[t] EXCEPT !.run = r, !.ITO = ito, !.CONT = cont]]
  BY DEF CONTROL
<1>5. core'[t] = [core[t] EXCEPT !.run = r, !.ITO = ito, !.CONT = cont]
  <2> HIDE DEF r
  <2> QED
    BY <1>4
<1>6. /\ core'[t] \in Registers
      /\ core'[t].period = core[t].period /\ core'[t].counter = core[t].counter
      /\ core'[t].snap = core[t].snap /\ core'[t].TO = core[t].TO
      /\ core'[t].CONT = cont /\ core'[t].run = r
  <2>1. PICK x \in Registers : x = core[t]
    BY <1>2
  <2> HIDE DEF r
  <2>2. PICK b \in BOOLEAN : b = r
    BY <1>3, Zenon
  <2>3. core'[t] = [x EXCEPT !.run = b, !.ITO = ito, !.CONT = cont]
    BY <1>5, <2>1, <2>2, Zenon
  <2>4. /\ core'[t] \in Registers
        /\ core'[t].period = x.period /\ core'[t].counter = x.counter
        /\ core'[t].snap = x.snap /\ core'[t].TO = x.TO
        /\ core'[t].CONT = cont /\ core'[t].run = b
    <3> DEFINE z == [x EXCEPT !.run = b, !.ITO = ito, !.CONT = cont]
    <3>1. /\ z \in Registers /\ z.period = x.period /\ z.counter = x.counter
          /\ z.snap = x.snap /\ z.TO = x.TO /\ z.CONT = cont /\ z.run = b
      BY DEF Registers
    <3>2. core'[t] = z
      BY <2>3
    <3> HIDE DEF z
    <3> QED
      BY <3>1, <3>2, Zenon
  <2> QED
    BY <2>1, <2>2, <2>4, Zenon
<1>7. core' \in [Timers -> Registers] /\ \A u \in Timers \ {t} : core'[u] = core[u]
  <2>1. PICK x \in Registers : core' = [core EXCEPT ![t] = x]
    <3> HIDE DEF r
    <3> QED
      BY <1>4, <1>5, <1>6
  <2> QED
    BY <2>1
<1>8. (start => core'[t].run) /\ (stop /\ ~start => ~core'[t].run)
  BY <1>6, Zenon
<1> QED
  BY <1>6, <1>7, <1>8, Zenon

\* A write to the period loads and stops the counter.
LEMMA LoadEffect ==
  ASSUME core \in [Timers -> Registers], NEW t \in Timers, NEW p \in 0 .. FULL, LoadPeriod(t, p)
  PROVE  /\ core' \in [Timers -> Registers]
         /\ core'[t].period = p /\ core'[t].counter = p /\ ~core'[t].run
         /\ core'[t].TO = core[t].TO
         /\ \A u \in Timers \ {t} : core'[u] = core[u]
BY DEF LoadPeriod, Registers

LEMMA CountEffect ==
  ASSUME NEW c \in Registers
  PROVE  /\ Count(c) \in Registers
         /\ Count(c).period = c.period /\ Count(c).snap = c.snap /\ Count(c).CONT = c.CONT
         /\ c.counter > 0 =>
               Count(c).counter = c.counter - 1 /\ Count(c).TO = c.TO /\ Count(c).run = c.run
         /\ c.counter = 0 => Count(c).counter = c.period /\ Count(c).TO /\ Count(c).run = c.CONT
<1>1. CASE c.counter > 0
  <2>1. c.counter - 1 \in 0 .. FULL
    BY <1>1, FullIsNat DEF Registers
  <2>2. [c EXCEPT !.counter = c.counter - 1] \in Registers
    BY <2>1 DEF Registers
  <2>3. Count(c) = [c EXCEPT !.counter = c.counter - 1]
    BY <1>1 DEF Count
  <2>4. QED
    BY <1>1, <2>1, <2>2, <2>3 DEF Registers
<1>2. CASE c.counter = 0
  <2>1. ASSUME NEW p \in 0 .. FULL, NEW b \in BOOLEAN, NEW d \in BOOLEAN
        PROVE  /\ [c EXCEPT !.counter = p, !.TO = b, !.run = d] \in Registers
               /\ [c EXCEPT !.counter = p, !.TO = b, !.run = d].counter = p
               /\ [c EXCEPT !.counter = p, !.TO = b, !.run = d].TO = b
               /\ [c EXCEPT !.counter = p, !.TO = b, !.run = d].run = d
               /\ [c EXCEPT !.counter = p, !.TO = b, !.run = d].period = c.period
               /\ [c EXCEPT !.counter = p, !.TO = b, !.run = d].snap = c.snap
               /\ [c EXCEPT !.counter = p, !.TO = b, !.run = d].CONT = c.CONT
    BY DEF Registers
  <2>2. c.period \in 0 .. FULL /\ c.CONT \in BOOLEAN /\ TRUE \in BOOLEAN
    BY DEF Registers
  <2>3. Count(c) = [c EXCEPT !.counter = c.period, !.TO = TRUE, !.run = c.CONT]
    BY <1>2 DEF Count
  <2>4. /\ Count(c) \in Registers /\ Count(c).counter = c.period
        /\ Count(c).TO = TRUE /\ Count(c).run = c.CONT
        /\ Count(c).period = c.period /\ Count(c).snap = c.snap /\ Count(c).CONT = c.CONT
    <3>1. PICK p \in 0 .. FULL, d \in BOOLEAN : p = c.period /\ d = c.CONT
      BY <2>2, Zenon
    <3>2. Count(c) = [c EXCEPT !.counter = p, !.TO = TRUE, !.run = d]
      BY <2>3, <3>1, Zenon
    <3> DEFINE z == [c EXCEPT !.counter = p, !.TO = TRUE, !.run = d]
    <3>3. /\ z \in Registers /\ z.counter = p /\ z.TO = TRUE /\ z.run = d
          /\ z.period = c.period /\ z.snap = c.snap /\ z.CONT = c.CONT
      BY DEF Registers
    <3>4. Count(c) = z
      BY <3>2
    <3> HIDE DEF z
    <3> QED
      BY <3>1, <3>3, <3>4, Zenon
  <2>5. QED
    BY <1>2, <2>4
<1>3. QED
  BY <1>1, <1>2, FullIsNat DEF Registers

LEMMA ClockEffect ==
  ASSUME core \in [Timers -> Registers], NEW t \in Timers, core' = [core EXCEPT ![t] = Count(@)]
  PROVE  /\ core' \in [Timers -> Registers]
         /\ core'[t] = Count(core[t])
         /\ \A u \in Timers \ {t} : core'[u] = core[u]
<1>1. Count(core[t]) \in Registers
  BY CountEffect
<1>2. PICK x \in Registers : x = Count(core[t])
  BY <1>1
<1>3. core' = [core EXCEPT ![t] = x]
  BY <1>2, Zenon
<1>4. QED
  BY <1>2, <1>3

LEMMA LatchEffect ==
  ASSUME core \in [Timers -> Registers], NEW t \in Timers,
         core' = [core EXCEPT ![t].snap = core[t].counter]
  PROVE  /\ core' \in [Timers -> Registers]
         /\ core'[t].snap = core[t].counter
         /\ core'[t].period = core[t].period /\ core'[t].counter = core[t].counter
         /\ core'[t].TO = core[t].TO /\ core'[t].run = core[t].run /\ core'[t].CONT = core[t].CONT
         /\ \A u \in Timers \ {t} : core'[u] = core[u]
BY DEF Registers

LEMMA ClearEffect ==
  ASSUME core \in [Timers -> Registers], NEW t \in Timers, core' = [core EXCEPT ![t].TO = FALSE]
  PROVE  /\ core' \in [Timers -> Registers]
         /\ \A u \in Timers \ {t} : core'[u] = core[u]
<1>1. ASSUME NEW c \in Registers PROVE [c EXCEPT !.TO = FALSE] \in Registers
  BY DEF Registers
<1>2. [core[t] EXCEPT !.TO = FALSE] \in Registers
  BY <1>1, Zenon
<1>3. PICK x \in Registers : x = [core[t] EXCEPT !.TO = FALSE]
  BY <1>2
<1>4. core' = [core EXCEPT ![t] = x]
  BY <1>3
<1>5. QED
  BY <1>4

-----------------------------------------------------------------------------
(* The invariant holds at the start, and every step keeps it               *)

LEMMA LeftTypes == ASSUME NEW s \in 0 .. Never PROVE Left(s) \in 0 .. FULL
BY NumbersOk DEF Left

LEMMA Initially == TimerInit => IInv
<1> SUFFICES ASSUME TimerInit PROVE IInv
  OBVIOUS
<1>1. core \in [Timers -> Registers]
  <2>1. LOAD \in 0 .. FULL /\ 0 \in 0 .. FULL /\ FALSE \in BOOLEAN
    BY TimerAssumption, NumbersOk
  <2> DEFINE reset == [period |-> LOAD, counter |-> LOAD, snap |-> 0, TO |-> FALSE,
                       run |-> FALSE, ITO |-> FALSE, CONT |-> FALSE]
  <2>2. reset \in Registers
    BY <2>1 DEF Registers
  <2>3. core = [t \in Timers |-> reset]
    BY DEF TimerInit
  <2> HIDE DEF reset
  <2> QED
    BY <2>2, <2>3
<1>2. Typed /\ Roles /\ Ticks
  <2>1. owed \in BOOLEAN /\ ~owed
    BY Zenon DEF TimerInit
  <2>2. Ticks
    BY <2>1 DEF Ticks
  <2>3. since \in 0 .. Never /\ asked \in 0 .. Never
    BY NumbersOk DEF TimerInit
  <2>4. Typed
    BY <1>1, <2>1, <2>3 DEF TimerInit, Typed
  <2>5. Roles
    BY DEF TimerInit, Roles, Timers
  <2> QED
    BY <2>2, <2>4, <2>5
<1>3. Starting /\ Counting /\ Latched
  BY DEF TimerInit, Starting, Counting, Latched
<1> QED
  BY <1>2, <1>3 DEF IInv

\* A step that leaves the timestamp timer and its driver alone.
LEMMA Aside ==
  ASSUME IInv, UNCHANGED <<ts_base, since, asked, pc, lower>>,
         ts_base \in Timers => core'[ts_base] = core[ts_base]
  PROVE  Starting' /\ Counting' /\ Latched'
<1>1. Starting'
  BY DEF IInv, Starting
<1>2. Counting'
  BY DEF IInv, Counting, Left
<1>3. Latched'
  BY DEF IInv, Latched, Left
<1> QED
  BY <1>1, <1>2, <1>3

LEMMA InitStep == ASSUME IInv, alt_sys_init PROVE IInv'
<1>1. PICK t \in Timers :
        pc \in {"init_1", "init_2"} /\ pc' \in {"init_2", "idle"} /\ ipc = "off" /\ TIMER_INIT(t)
  BY DEF alt_sys_init, At, Timers
<1>2. UNCHANGED <<ret, lower, ipc, since, asked, owed>>
  BY DEF alt_sys_init
<1>3. since' = Never /\ asked' \in 0 .. Never
  BY <1>1, <1>2 DEF IInv, Starting, Typed
<1>4. Counting' /\ Starting' /\ Latched'
  BY <1>1, <1>3 DEF Counting, Starting, Latched
<1>5. CASE t = ALT_SYS_CLK
  <2>1. CONTROL(t, TRUE, FALSE, TRUE, TRUE) /\ UNCHANGED <<roles, ts_base, ts_freq>>
    BY <1>1, <1>5 DEF TIMER_INIT, alt_avalon_timer_sc_init
  <2>2. core' \in [Timers -> Registers] /\ core'[t].TO = core[t].TO
    BY <2>1, ControlEffect, Zenon DEF IInv, Typed
  <2>3. Typed' /\ Roles'
    BY <1>2, <2>1, <2>2 DEF IInv, Typed, Roles, roles
  <2>4. Ticks'
    BY <1>2, <1>5, <2>1, <2>2 DEF IInv, Ticks, roles
  <2> QED
    BY <1>4, <2>3, <2>4 DEF IInv
<1>6. CASE t # ALT_SYS_CLK
  <2>1. /\ UNCHANGED <<roles, core>>
        /\ \/ ts_base' = t /\ ts_freq' = FREQ
           \/ UNCHANGED <<ts_base, ts_freq>>
    BY <1>1, <1>6 DEF TIMER_INIT, clock
  <2>2. Typed' /\ Ticks'
    BY <1>2, <2>1 DEF IInv, Typed, Ticks, roles
  <2>3. Roles'
    BY <1>6, <2>1 DEF IInv, Roles, roles, Timers
  <2> QED
    BY <1>4, <2>2, <2>3 DEF IInv
<1> QED
  BY <1>5, <1>6

LEMMA StartStep == ASSUME IInv, alt_timestamp_start PROVE IInv'
<1> USE DEF IInv
<1>1. UNCHANGED <<clock, ipc, owed>> /\ UNCHANGED <<ALT_SYS_CLK, ts_base, ts_freq>>
  BY DEF alt_timestamp_start, clock, roles
<1>2. Roles'
  BY <1>1 DEF Roles
<1>3. CASE At("idle") /\ ts_freq = 0 /\ Answer(-1) /\ UNCHANGED <<core, since>>
  <2>1. ts_base = "none" /\ since = Never /\ ts_base \notin Timers
    BY <1>3, NumbersOk DEF Roles, Counting, Timers
  <2>2. Typed' /\ Ticks' /\ Starting' /\ Counting' /\ Latched'
    BY <1>1, <1>3, <2>1, NumbersOk DEF Typed, Ticks, Starting, Counting, Latched, Answer
  <2> QED
    BY <1>2, <2>2
<1>4. CASE /\ At("idle") /\ ts_freq # 0 /\ pc' = "period_low"
           /\ CONTROL(ts_base, FALSE, TRUE, FALSE, FALSE)
           /\ since' = Never /\ UNCHANGED <<ret, lower, asked>>
  <2>1. ts_base \in Timers /\ ts_base # ALT_SYS_CLK
    BY <1>4 DEF Roles
  <2>2. /\ core' \in [Timers -> Registers] /\ ~core'[ts_base].run
        /\ \A u \in Timers \ {ts_base} : core'[u] = core[u]
    BY <1>4, <2>1, ControlEffect, Zenon DEF Typed
  <2>3. Typed' /\ Ticks'
    BY <1>1, <1>4, <2>1, <2>2, NumbersOk DEF Typed, Ticks
  <2>4. Starting' /\ Counting' /\ Latched'
    BY <1>1, <1>4, <2>1, <2>2 DEF Starting, Counting, Latched
  <2> QED
    BY <1>2, <2>3, <2>4
<1>5. CASE /\ At("period_low") /\ pc' = "period_high"
           /\ PERIODL(ts_base, HALF - 1) /\ UNCHANGED <<ret, lower, since, asked>>
  <2>1. ts_base \in Timers /\ ts_base # ALT_SYS_CLK /\ since = Never
    BY <1>5 DEF Starting, At, Roles
  <2>2. core[ts_base].period \in 0 .. FULL
    BY <2>1 DEF Typed, Registers
  <2>3. PICK q \in 0 .. HALF - 1 : q = core[ts_base].period \div HALF
    BY <2>2, Halves
  <2>4. PICK p \in 0 .. FULL : p = q * HALF + (HALF - 1) /\ p % HALF = HALF - 1
    BY <2>3, LowFull
  <2>5. LoadPeriod(ts_base, p)
    BY <1>5, <2>3, <2>4 DEF PERIODL
  <2>6. /\ core' \in [Timers -> Registers] /\ core'[ts_base].period = p /\ ~core'[ts_base].run
        /\ \A u \in Timers \ {ts_base} : core'[u] = core[u]
    BY <2>1, <2>5, LoadEffect, Zenon DEF Typed
  <2>7. Typed' /\ Ticks'
    BY <1>1, <1>5, <2>1, <2>6 DEF Typed, Ticks
  <2>8. Starting' /\ Counting' /\ Latched'
    BY <1>1, <1>5, <2>1, <2>4, <2>6 DEF Starting, Counting, Latched
  <2> QED
    BY <1>2, <2>7, <2>8
<1>6. CASE /\ At("period_high") /\ pc' = "start"
           /\ PERIODH(ts_base, HALF - 1) /\ UNCHANGED <<ret, lower, since, asked>>
  <2>1. ts_base \in Timers /\ ts_base # ALT_SYS_CLK /\ since = Never
        /\ core[ts_base].period % HALF = HALF - 1
    BY <1>6 DEF Starting, At, Roles
  <2>2. (HALF - 1) * HALF + (HALF - 1) = FULL
    BY FullIsNat
  <2>3. LoadPeriod(ts_base, FULL)
    BY <1>6, <2>1, <2>2 DEF PERIODH
  <2>4. /\ core' \in [Timers -> Registers] /\ ~core'[ts_base].run
        /\ core'[ts_base].period = FULL /\ core'[ts_base].counter = FULL
        /\ \A u \in Timers \ {ts_base} : core'[u] = core[u]
    <3>1. FULL \in 0 .. FULL
      BY NumbersOk
    <3> QED
      BY <2>1, <2>3, <3>1, LoadEffect, Zenon DEF Typed
  <2>5. Typed' /\ Ticks'
    BY <1>1, <1>6, <2>1, <2>4 DEF Typed, Ticks
  <2>6. Starting' /\ Counting' /\ Latched'
    BY <1>1, <1>6, <2>1, <2>4 DEF Starting, Counting, Latched
  <2> QED
    BY <1>2, <2>5, <2>6
<1>7. CASE /\ At("start") /\ Answer(0)
           /\ CONTROL(ts_base, TRUE, FALSE, FALSE, FALSE)
           /\ since' = 0
  <2>1. ts_base \in Timers /\ ts_base # ALT_SYS_CLK
        /\ core[ts_base].period = FULL /\ core[ts_base].counter = FULL
    BY <1>7 DEF Starting, At, Roles
  <2>2. /\ core' \in [Timers -> Registers] /\ core'[ts_base].CONT = FALSE
        /\ core'[ts_base].period = FULL /\ core'[ts_base].counter = FULL
        /\ \A u \in Timers \ {ts_base} : core'[u] = core[u]
    BY <1>7, <2>1, ControlEffect, Zenon DEF Typed
  <2>3. Typed' /\ Ticks'
    BY <1>1, <1>7, <2>1, <2>2, NumbersOk DEF Typed, Ticks, Answer
  <2>4. Starting' /\ Latched'
    BY <1>7 DEF Starting, Latched, Answer
  <2>5. Counting'
    BY <1>1, <1>7, <2>1, <2>2, NumbersOk DEF Counting, Left
  <2> QED
    BY <1>2, <2>3, <2>4, <2>5
<1> QED
  BY <1>3, <1>4, <1>5, <1>6, <1>7 DEF alt_timestamp_start

LEMMA StampStep == ASSUME IInv, alt_timestamp PROVE IInv'
<1> USE DEF IInv
<1>1. UNCHANGED <<ALT_SYS_CLK, ts_base, ts_freq, ipc, since, owed>>
  BY DEF alt_timestamp, clock, roles
<1>2. Roles'
  BY <1>1 DEF Roles
<1>3. ASSUME NEW value, Answer(value), UNCHANGED core PROVE IInv'
  <2>1. Typed' /\ Ticks'
    BY <1>1, <1>3, NumbersOk DEF Typed, Ticks, Answer
  <2>2. Starting' /\ Counting' /\ Latched'
    BY <1>1, <1>3 DEF Starting, Counting, Latched, Left, Answer
  <2> QED
    BY <1>2, <2>1, <2>2
<1>4. CASE /\ At("idle") /\ ts_freq # 0 /\ pc' = "snap_low"
           /\ core' = [core EXCEPT ![ts_base].snap = core[ts_base].counter]
           /\ asked' = since /\ UNCHANGED <<ret, lower>>
  <2>1. ts_base \in Timers /\ ts_base # ALT_SYS_CLK
    BY <1>4 DEF Roles
  <2>2. /\ core' \in [Timers -> Registers]
        /\ core'[ts_base].snap = core[ts_base].counter
        /\ core'[ts_base].period = core[ts_base].period
        /\ core'[ts_base].counter = core[ts_base].counter
        /\ core'[ts_base].run = core[ts_base].run /\ core'[ts_base].CONT = core[ts_base].CONT
        /\ \A u \in Timers \ {ts_base} : core'[u] = core[u]
    <3>1. core \in [Timers -> Registers]
      BY DEF Typed
    <3> QED
      BY <1>4, <2>1, <3>1, LatchEffect
  <2>3. Typed' /\ Ticks'
    BY <1>1, <1>4, <2>1, <2>2 DEF Typed, Ticks
  <2>4. Starting' /\ Counting'
    BY <1>1, <1>4, <2>1, <2>2 DEF Starting, Counting, Left
  <2>5. Latched'
    BY <1>1, <1>4, <2>1, <2>2 DEF Counting, Latched, Left
  <2> QED
    BY <1>2, <2>3, <2>4, <2>5
<1>5. CASE /\ At("snap_low") /\ pc' = "snap_high"
           /\ lower' = core[ts_base].snap % HALF /\ UNCHANGED <<core, ret, asked>>
  <2>1. Typed' /\ Ticks'
    BY <1>1, <1>5 DEF Typed, Ticks
  <2>2. Starting' /\ Counting' /\ Latched'
    BY <1>1, <1>5 DEF Starting, Counting, Latched, Left, At
  <2> QED
    BY <1>2, <2>1, <2>2
<1>6. CASE At("idle") /\ ts_freq = 0 /\ Answer(FULL) /\ UNCHANGED core
  BY <1>3, <1>6
<1>7. CASE /\ At("snap_high")
           /\ Answer(FULL - ((core[ts_base].snap \div HALF) * HALF + lower)) /\ UNCHANGED core
  BY <1>3, <1>7
<1> QED
  BY <1>4, <1>5, <1>6, <1>7 DEF alt_timestamp

LEMMA FreqStep == ASSUME IInv, alt_timestamp_freq PROVE IInv'
<1>1. /\ UNCHANGED <<core, ALT_SYS_CLK, ts_base, ts_freq, ipc, since, owed>>
      /\ pc' = "idle" /\ asked' = Never
  BY DEF alt_timestamp_freq, clock, roles, Answer
<1>2. Typed' /\ Ticks' /\ Roles'
  BY <1>1, NumbersOk DEF IInv, Typed, Ticks, Roles
<1>3. Starting' /\ Counting' /\ Latched'
  BY <1>1 DEF IInv, Starting, Counting, Latched, Left
<1> QED
  BY <1>2, <1>3 DEF IInv

LEMMA IsrStep == ASSUME IInv, alt_avalon_timer_sc_irq PROVE IInv'
<1>1. UNCHANGED <<ALT_SYS_CLK, ts_base, ts_freq, pc, ret, lower, since, asked>>
  BY DEF alt_avalon_timer_sc_irq, clock, roles, call
<1>2. CASE /\ ipc = "off" /\ ALT_SYS_CLK # "none" /\ ipc' = "tick" /\ ClearStatus /\ UNCHANGED owed
  <2>1. ALT_SYS_CLK \in Timers /\ core \in [Timers -> Registers]
    BY <1>2 DEF IInv, Typed
  <2>2. /\ core' \in [Timers -> Registers]
        /\ \A u \in Timers \ {ALT_SYS_CLK} : core'[u] = core[u]
    BY <1>2, <2>1, ClearEffect DEF ClearStatus
  <2>3. ts_base \in Timers => core'[ts_base] = core[ts_base]
    BY <2>2 DEF IInv, Roles
  <2>4. Starting' /\ Counting' /\ Latched'
    BY <1>1, <2>3, Aside
  <2>5. Typed' /\ Ticks' /\ Roles'
    BY <1>1, <1>2, <2>1, <2>2 DEF IInv, Typed, Ticks, Roles
  <2> QED
    BY <2>4, <2>5 DEF IInv
<1>3. CASE ipc' = "off" /\ owed' = FALSE /\ UNCHANGED core
  <2>1. Starting' /\ Counting' /\ Latched'
    BY <1>1, <1>3, Aside
  <2>2. Typed'
    <3>1. owed' \in BOOLEAN
      BY <1>3, Zenon
    <3> QED
      BY <1>1, <1>3, <3>1 DEF IInv, Typed
  <2>3. Ticks' /\ Roles'
    BY <1>1, <1>3 DEF IInv, Ticks, Roles
  <2> QED
    BY <2>1, <2>2, <2>3 DEF IInv
<1> QED
  BY <1>2, <1>3 DEF alt_avalon_timer_sc_irq

LEMMA ClockStep == ASSUME IInv, NEW t \in Timers, Clock(t) PROVE IInv'
<1>1. /\ UNCHANGED <<ALT_SYS_CLK, ts_base, ts_freq, pc, ret, lower, ipc, asked>>
      /\ core[t].run /\ core \in [Timers -> Registers] /\ core' = [core EXCEPT ![t] = Count(@)]
      /\ since' = IF t = ts_base /\ since <= FULL THEN since + 1 ELSE since
      /\ owed' = (owed \/ (t = ALT_SYS_CLK /\ core[t].counter = 0))
  BY DEF Clock, clock, roles, call, IInv, Typed
<1>2. /\ core' \in [Timers -> Registers] /\ core'[t] = Count(core[t])
      /\ \A u \in Timers \ {t} : core'[u] = core[u]
  BY <1>1, ClockEffect
<1>3. PICK c \in Registers, d \in Registers :
        /\ c = core[t] /\ d = core'[t]
        /\ d.period = c.period /\ d.snap = c.snap /\ d.CONT = c.CONT
        /\ c.counter > 0 => d.counter = c.counter - 1 /\ d.TO = c.TO /\ d.run = c.run
        /\ c.counter = 0 => d.counter = c.period /\ d.TO /\ d.run = c.CONT
  <2>1. core[t] \in Registers /\ core'[t] \in Registers
    BY <1>1, <1>2
  <2> QED
    BY <1>2, <2>1, CountEffect, Zenon
<1>4. Typed'
  <2>1. since' \in 0 .. Never
    BY <1>1, NumbersOk DEF IInv, Typed
  <2>2. owed' \in BOOLEAN
    BY <1>1, Zenon
  <2> QED
    BY <1>1, <1>2, <2>1, <2>2 DEF IInv, Typed
<1>5. Roles'
  BY <1>1 DEF IInv, Roles
<1>6. Ticks'
  <2>1. CASE t = ALT_SYS_CLK
    <3>1. c.counter = 0 \/ c.counter > 0
      BY <1>3, NumbersOk DEF Registers
    <3>2. CASE c.counter = 0
      BY <1>1, <1>3, <2>1, <3>2 DEF Ticks
    <3>3. CASE c.counter > 0
      <4>1. ~(core[t].counter = 0)
        BY <1>3, <3>3, NumbersOk DEF Registers
      <4>2. owed' => owed
        BY <1>1, <4>1, Zenon
      <4> QED
        BY <1>1, <1>3, <2>1, <3>3, <4>2 DEF IInv, Ticks
    <3> QED
      BY <3>1, <3>2, <3>3
  <2>2. CASE t # ALT_SYS_CLK
    <3>1. owed' => owed
      BY <1>1, <2>2, Zenon
    <3> QED
      BY <1>1, <1>2, <2>2, <3>1 DEF IInv, Ticks
  <2> QED
    BY <2>1, <2>2
<1>7. CASE t # ts_base
  <2>1. ts_base \in Timers => core'[ts_base] = core[ts_base]
    BY <1>2, <1>7
  <2>2. since' = since
    BY <1>1, <1>7
  <2>3. Starting' /\ Counting' /\ Latched'
    BY <1>1, <2>1, <2>2, Aside
  <2> QED
    BY <1>4, <1>5, <1>6, <2>3 DEF IInv
<1>8. CASE t = ts_base
  <2>1. pc \notin {"period_low", "period_high", "start"}
    BY <1>1, <1>8 DEF IInv, Starting
  <2>2. Starting'
    <3>1. since = Never => since' = Never
      BY <1>1, NumbersOk
    <3> QED
      BY <1>1, <2>1, <3>1 DEF IInv, Starting
  <2>3. Latched'
    BY <1>1, <1>3, <1>8 DEF IInv, Latched, Left
  <2>4. Counting'
    <3> SUFFICES ASSUME since # Never PROVE Counting'
      BY <1>1, NumbersOk DEF Counting
    <3>1. c.period = FULL /\ ~c.CONT /\ c.counter = Left(since) /\ since <= FULL
      BY <1>1, <1>3, <1>8 DEF IInv, Counting
    <3>2. since \in 0 .. FULL /\ c.counter = FULL - since /\ since' = since + 1
      BY <1>1, <1>8, <3>1, NumbersOk DEF IInv, Typed, Left
    <3>3. CASE since < FULL
      BY <1>1, <1>3, <1>8, <3>1, <3>2, <3>3, NumbersOk DEF Counting, Left
    <3>4. CASE since = FULL
      BY <1>1, <1>3, <1>8, <3>1, <3>2, <3>4, NumbersOk DEF Counting, Left
    <3> QED
      BY <3>2, <3>3, <3>4, NumbersOk
  <2> QED
    BY <1>4, <1>5, <1>6, <2>2, <2>3, <2>4 DEF IInv
<1> QED
  BY <1>7, <1>8

LEMMA Step == IInv /\ [TimerNext]_timer_vars => IInv'
<1> SUFFICES ASSUME IInv, [TimerNext]_timer_vars PROVE IInv'
  OBVIOUS
<1>1. CASE alt_sys_init
  BY <1>1, InitStep
<1>2. CASE Call
  BY <1>2, StartStep, StampStep, FreqStep DEF Call
<1>3. CASE alt_avalon_timer_sc_irq
  BY <1>3, IsrStep
<1>4. CASE \E t \in Timers : Clock(t)
  BY <1>4, ClockStep
<1>5. CASE UNCHANGED timer_vars
  BY <1>5 DEF timer_vars, IInv, Typed, Roles, Ticks, Starting, Counting, Latched, Left
<1> QED
  BY <1>1, <1>2, <1>3, <1>4, <1>5 DEF TimerNext

LEMMA TimerInvariant == TimerSpec => []IInv
BY Initially, Step, PTL DEF TimerSpec

-----------------------------------------------------------------------------
(* Types of the timers                                                     *)

Within(c) == \A t \in Timers : c[t].counter <= c[t].period

TimerRest ==
  /\ Within(core)
  /\ ts_freq \in {0, FREQ} /\ ticks_per_second \in Nat /\ lower \in 0 .. HALF - 1
  /\ pc \in Labels /\ ret \in -1 .. FULL \union {FREQ} /\ ipc \in {"off", "tick"}

LEMMA FrequencyIsNat == TIMER_FREQ \in Nat
<1> DEFINE Rate(n) == (n + PERIOD - 1) \div PERIOD
<1>1. ASSUME NEW n \in Nat, n > 0 PROVE Rate(n) \in Nat
  <2>1. n + PERIOD - 1 \in Nat /\ PERIOD \in Nat /\ PERIOD > 0
    BY <1>1, TimerAssumption
  <2> QED
    BY <2>1, DivMod
<1>2. Rate(1000000) \in Nat /\ Rate(1000) \in Nat /\ Rate(FREQ) \in Nat
  <2>1. FREQ \in Nat /\ FREQ > 0
    BY TimerAssumption
  <2> QED
    BY <1>1, <2>1
<1>3. \/ TIMER_FREQ = Rate(1000000) \/ TIMER_FREQ = Rate(1000) \/ TIMER_FREQ = 1
      \/ TIMER_FREQ = Rate(FREQ)
  <2> DEFINE us == Rate(1000000)  ms == Rate(1000)  other == Rate(FREQ)
  <2>1. TIMER_FREQ = CASE UNITS = "us" -> us [] UNITS = "ms" -> ms [] UNITS = "s" -> 1
                       [] OTHER -> other
    BY DEF TIMER_FREQ
  <2> HIDE DEF us, ms, other
  <2>2. \/ TIMER_FREQ = us \/ TIMER_FREQ = ms \/ TIMER_FREQ = 1 \/ TIMER_FREQ = other
    BY <2>1
  <2> QED
    BY <2>2 DEF us, ms, other
<1> HIDE DEF Rate
<1> QED
  BY <1>2, <1>3

LEMMA WithinInit == TimerInit => TimerRest
<1> SUFFICES ASSUME TimerInit PROVE TimerRest
  OBVIOUS
<1>1. Within(core)
  BY TimerAssumption DEF TimerInit, Within
<1>2. 0 \in -1 .. FULL /\ 0 \in 0 .. HALF - 1
  BY FullIsNat
<1> QED
  BY <1>1, <1>2 DEF TimerInit, TimerRest, Labels

\* The four ways in which a step changes a core.
LEMMA WithinKept ==
  ASSUME IInv, Within(core), NEW t \in Timers, \A u \in Timers \ {t} : core'[u] = core[u],
         core'[t].counter <= core'[t].period
  PROVE  Within(core')
BY DEF Within

LEMMA WithinControl ==
  ASSUME IInv, Within(core), NEW t \in Timers, NEW start \in BOOLEAN,
         NEW stop \in BOOLEAN, NEW ito \in BOOLEAN, NEW cont \in BOOLEAN,
         CONTROL(t, start, stop, ito, cont)
  PROVE  Within(core')
<1>1. core \in [Timers -> Registers]
  BY DEF IInv, Typed
<1>2. /\ core'[t].period = core[t].period /\ core'[t].counter = core[t].counter
      /\ \A u \in Timers \ {t} : core'[u] = core[u]
  BY <1>1, ControlEffect
<1> QED
  BY <1>2 DEF Within

LEMMA WithinLoad ==
  ASSUME IInv, Within(core), NEW t \in Timers, NEW p \in 0 .. FULL, LoadPeriod(t, p)
  PROVE  Within(core')
<1>1. core \in [Timers -> Registers]
  BY DEF IInv, Typed
<1>2. /\ core'[t].period = p /\ core'[t].counter = p
      /\ \A u \in Timers \ {t} : core'[u] = core[u]
  BY <1>1, LoadEffect
<1>3. p <= p
  OBVIOUS
<1> QED
  BY <1>2, <1>3, WithinKept

LEMMA WithinClear ==
  ASSUME IInv, Within(core), NEW t \in Timers, core' = [core EXCEPT ![t].TO = FALSE]
  PROVE  Within(core')
<1>1. core \in [Timers -> Registers]
  BY DEF IInv, Typed
<1>2. ASSUME NEW c \in Registers
      PROVE [c EXCEPT !.TO = FALSE].counter = c.counter /\ [c EXCEPT !.TO = FALSE].period = c.period
  BY DEF Registers
<1>3. core'[t] = [core[t] EXCEPT !.TO = FALSE] /\ \A u \in Timers \ {t} : core'[u] = core[u]
  BY <1>1
<1>4. core'[t].counter = core[t].counter /\ core'[t].period = core[t].period
  BY <1>1, <1>2, <1>3
<1> QED
  BY <1>3, <1>4 DEF Within

LEMMA WithinClock ==
  ASSUME IInv, Within(core), NEW t \in Timers, core' = [core EXCEPT ![t] = Count(@)]
  PROVE  Within(core')
<1>1. core \in [Timers -> Registers]
  BY DEF IInv, Typed
<1>2. core'[t] = Count(core[t]) /\ \A u \in Timers \ {t} : core'[u] = core[u]
  BY <1>1, ClockEffect
<1>3. core[t] \in Registers /\ core[t].counter <= core[t].period
  BY <1>1 DEF Within
<1>4. core[t].counter \in Nat /\ core[t].period \in Nat
  BY <1>3, NumbersOk DEF Registers
<1>5. core'[t].counter <= core'[t].period
  <2>1. CASE core[t].counter > 0
    <3>1. core'[t].counter = core[t].counter - 1 /\ core'[t].period = core[t].period
      BY <1>2, <1>3, <2>1, CountEffect
    <3> QED
      BY <1>3, <1>4, <3>1
  <2>2. CASE core[t].counter = 0
    <3>1. core'[t].counter = core[t].period /\ core'[t].period = core[t].period
      BY <1>2, <1>3, <2>2, CountEffect
    <3> QED
      BY <1>4, <3>1
  <2> QED
    BY <1>4, <2>1, <2>2
<1> QED
  BY <1>2, <1>5, WithinKept

LEMMA RestInit == ASSUME IInv, TimerRest, alt_sys_init PROVE TimerRest'
<1>1. PICK t \in Timers : pc' \in {"init_2", "idle"} /\ TIMER_INIT(t)
  BY DEF alt_sys_init, Timers
<1>2. UNCHANGED <<ret, lower, ipc>> /\ pc' \in Labels
  BY <1>1 DEF alt_sys_init, Labels
<1>3. CASE t = ALT_SYS_CLK
  <2>1. alt_avalon_timer_sc_init(t)
    BY <1>1, <1>3 DEF TIMER_INIT
  <2>2. Within(core')
    BY <2>1, WithinControl DEF alt_avalon_timer_sc_init, TimerRest
  <2>3. ticks_per_second' \in Nat /\ ts_freq' = ts_freq
    BY <2>1, FrequencyIsNat DEF alt_avalon_timer_sc_init
  <2> QED
    BY <1>2, <2>2, <2>3 DEF TimerRest
<1>4. CASE t # ALT_SYS_CLK
  <2>1. core' = core /\ ticks_per_second' = ticks_per_second /\ ts_freq' \in {ts_freq, FREQ}
    BY <1>1, <1>4 DEF TIMER_INIT, clock
  <2> QED
    BY <1>2, <2>1 DEF TimerRest, Within
<1> QED
  BY <1>3, <1>4

LEMMA RestStart == ASSUME IInv, TimerRest, alt_timestamp_start PROVE TimerRest'
<1>1. UNCHANGED <<ts_freq, ticks_per_second, ipc>>
  BY DEF alt_timestamp_start, clock
<1>2. pc' \in Labels /\ lower' \in 0 .. HALF - 1 /\ ret' \in -1 .. FULL \union {FREQ}
  <2>1. pc' \in Labels /\ lower' \in {0, lower} /\ ret' \in {-1, 0, ret}
    BY DEF alt_timestamp_start, Answer, Labels
  <2>2. 0 \in 0 .. HALF - 1 /\ 0 \in -1 .. FULL /\ -1 \in -1 .. FULL
    BY FullIsNat
  <2> QED
    BY <2>1, <2>2 DEF TimerRest
<1>3. Within(core)
  BY DEF TimerRest
<1>4. Within(core')
  <2>1. CASE UNCHANGED core
    BY <1>3, <2>1 DEF Within
  <2>2. CASE ts_freq # 0 /\ CONTROL(ts_base, FALSE, TRUE, FALSE, FALSE)
    <3>1. ts_base \in Timers
      BY <2>2 DEF IInv, Roles
    <3> QED
      BY <1>3, <2>2, <3>1, WithinControl
  <2>3. CASE pc = "period_low" /\ PERIODL(ts_base, HALF - 1)
    <3>1. ts_base \in Timers
      BY <2>3 DEF IInv, Starting
    <3>2. core[ts_base].period \in 0 .. FULL
      BY <3>1 DEF IInv, Typed, Registers
    <3>3. PICK p \in 0 .. FULL : p = (core[ts_base].period \div HALF) * HALF + (HALF - 1)
      BY <3>2, Halves, LowFull
    <3>4. LoadPeriod(ts_base, p)
      BY <2>3, <3>3 DEF PERIODL
    <3> QED
      BY <1>3, <3>1, <3>4, WithinLoad
  <2>4. CASE pc = "period_high" /\ PERIODH(ts_base, HALF - 1)
    <3>1. ts_base \in Timers /\ core[ts_base].period % HALF = HALF - 1
      BY <2>4 DEF IInv, Starting
    <3>2. (HALF - 1) * HALF + (HALF - 1) = FULL /\ FULL \in 0 .. FULL
      BY FullIsNat
    <3>3. LoadPeriod(ts_base, FULL)
      BY <2>4, <3>1, <3>2 DEF PERIODH
    <3> QED
      BY <1>3, <3>1, <3>2, <3>3, WithinLoad
  <2>5. CASE pc = "start" /\ CONTROL(ts_base, TRUE, FALSE, FALSE, FALSE)
    <3>1. ts_base \in Timers
      BY <2>5 DEF IInv, Starting
    <3> QED
      BY <1>3, <2>5, <3>1, WithinControl
  <2> QED
    BY <2>1, <2>2, <2>3, <2>4, <2>5 DEF alt_timestamp_start, At
<1> QED
  BY <1>1, <1>2, <1>4 DEF TimerRest

LEMMA RestStamp == ASSUME IInv, TimerRest, alt_timestamp PROVE TimerRest'
<1>1. UNCHANGED <<ts_freq, ticks_per_second, ipc>> /\ pc' \in Labels /\ Within(core)
  BY DEF alt_timestamp, clock, Answer, Labels, TimerRest
<1>2. CASE Answer(FULL) /\ UNCHANGED core
  <2>1. FULL \in -1 .. FULL /\ 0 \in 0 .. HALF - 1
    BY FullIsNat
  <2> QED
    BY <1>1, <1>2, <2>1 DEF TimerRest, Answer, Within
<1>3. CASE /\ ts_freq # 0 /\ core' = [core EXCEPT ![ts_base].snap = core[ts_base].counter]
           /\ UNCHANGED <<ret, lower>>
  <2>1. ts_base \in Timers /\ core \in [Timers -> Registers]
    BY <1>3 DEF IInv, Roles, Typed
  <2>2. Within(core')
    <3>1. /\ core'[ts_base].period = core[ts_base].period
          /\ core'[ts_base].counter = core[ts_base].counter
          /\ \A u \in Timers \ {ts_base} : core'[u] = core[u]
      BY <1>3, <2>1, LatchEffect
    <3> QED
      BY <1>1, <3>1 DEF Within
  <2> QED
    BY <1>1, <1>3, <2>2 DEF TimerRest
<1>4. CASE pc = "snap_low" /\ lower' = core[ts_base].snap % HALF /\ UNCHANGED <<core, ret>>
  <2>1. core[ts_base].snap \in 0 .. FULL
    BY <1>4 DEF IInv, Latched, Typed, Registers
  <2>2. lower' \in 0 .. HALF - 1
    BY <1>4, <2>1, Halves
  <2> QED
    BY <1>1, <1>4, <2>2 DEF TimerRest, Within
<1>5. CASE /\ pc = "snap_high" /\ UNCHANGED core
           /\ Answer(FULL - ((core[ts_base].snap \div HALF) * HALF + lower))
  <2>1. PICK s \in 0 .. FULL : s = core[ts_base].snap /\ lower = s % HALF
    BY <1>5 DEF IInv, Latched, Typed, Registers
  <2>2. ret' = FULL - s /\ lower' = 0
    BY <1>5, <2>1, Halves DEF Answer
  <2>3. ret' \in -1 .. FULL /\ lower' \in 0 .. HALF - 1
    BY <2>2, FullIsNat
  <2> QED
    BY <1>1, <1>5, <2>3 DEF TimerRest, Within
<1> QED
  BY <1>2, <1>3, <1>4, <1>5 DEF alt_timestamp, At

LEMMA RestOthers ==
  ASSUME IInv, TimerRest,
         alt_timestamp_freq \/ alt_avalon_timer_sc_irq \/ UNCHANGED timer_vars
  PROVE  TimerRest'
<1>1. CASE alt_timestamp_freq
  <2>1. UNCHANGED <<core, ticks_per_second, ts_freq, ipc>> /\ pc' = "idle" /\ ret' = ts_freq
        /\ lower' = 0
    BY <1>1 DEF alt_timestamp_freq, clock, Answer
  <2>2. ret' \in -1 .. FULL \union {FREQ} /\ lower' \in 0 .. HALF - 1 /\ pc' \in Labels
    <3>1. 0 \in -1 .. FULL /\ 0 \in 0 .. HALF - 1
      BY FullIsNat
    <3> QED
      BY <2>1, <3>1 DEF TimerRest, Labels
  <2> QED
    BY <2>1, <2>2 DEF TimerRest, Within
<1>2. CASE alt_avalon_timer_sc_irq
  <2>1. UNCHANGED <<ticks_per_second, ts_freq, pc, ret, lower>> /\ ipc' \in {"off", "tick"}
    BY <1>2 DEF alt_avalon_timer_sc_irq, clock, call
  <2>2. Within(core')
    <3>1. CASE ALT_SYS_CLK # "none" /\ ClearStatus
      <4>1. ALT_SYS_CLK \in Timers
        BY <3>1 DEF IInv, Typed
      <4> QED
        BY <3>1, <4>1, WithinClear DEF ClearStatus, TimerRest
    <3>2. CASE UNCHANGED core
      BY <3>2 DEF TimerRest, Within
    <3> QED
      BY <1>2, <3>1, <3>2 DEF alt_avalon_timer_sc_irq
  <2> QED
    BY <2>1, <2>2 DEF TimerRest
<1>3. CASE UNCHANGED timer_vars
  BY <1>3 DEF timer_vars, TimerRest, Within
<1> QED
  BY <1>1, <1>2, <1>3

LEMMA RestClock == ASSUME IInv, TimerRest, NEW t \in Timers, Clock(t) PROVE TimerRest'
<1>1. UNCHANGED <<ticks_per_second, ts_freq, pc, ret, lower, ipc>>
  BY DEF Clock, clock, call
<1>2. Within(core')
  BY WithinClock DEF Clock, TimerRest
<1> QED
  BY <1>1, <1>2 DEF TimerRest

LEMMA RestStep == IInv /\ TimerRest /\ [TimerNext]_timer_vars => TimerRest'
BY RestInit, RestStart, RestStamp, RestOthers, RestClock DEF TimerNext, Call

LEMMA TypesFollow == IInv /\ TimerRest => TimerTypes
BY DEF IInv, Typed, Roles, TimerRest, Within, TimerTypes, Registers

\* The registers, the drivers' variables and the histories have their types, and no
\* counter is beyond its period, whichever timer the build gives which role.
LEMMA TimersTyped == TimerSpec => []TimerTypes
BY Initially, WithinInit, Step, RestStep, TypesFollow, PTL DEF TimerSpec

-----------------------------------------------------------------------------
(* The other drivers' numbers                                              *)

LEMMA DivModInt ==
  ASSUME NEW s \in Nat, s > 0, NEW b \in Int
  PROVE  b \div s \in Int /\ b % s \in 0 .. s - 1 /\ b = s * (b \div s) + (b % s)
<1>1. b \div s \in Int
  OBVIOUS
<1>2. b % s \in 0 .. s - 1
  OBVIOUS
<1>3. b = s * (b \div s) + (b % s)
  OBVIOUS
<1> QED
  BY <1>1, <1>2, <1>3

\* What a field keeps of a number that fits it, and of one below 0.
LEMMA Wrapped ==
  ASSUME NEW s \in Nat, s > 0, NEW n \in Int
  PROVE  /\ n \in 0 .. s - 1 => n % s = n
         /\ n \in -s .. -1 => n % s = n + s
<1>1. PICK q \in Int, m \in 0 .. s - 1 : m = n % s /\ n = s * q + m
  BY DivModInt
<1>2. q <= -2 => s * q <= -2 * s
  BY <1>1
<1>3. q >= 1 => s * q >= s
  BY <1>1
<1>4. (q = 0 => s * q = 0) /\ (q = -1 => s * q = -s)
  BY <1>1
<1>5. PICK k \in Int : k = s * q
  BY <1>1
<1> QED
  BY <1>1, <1>2, <1>3, <1>4, <1>5

LEMMA DivAtMost == ASSUME NEW s \in Nat, s > 0, NEW b \in Nat PROVE b \div s \in 0 .. b
<1>1. PICK q \in Nat, m \in 0 .. s - 1 : q = b \div s /\ b = s * q + m
  BY DivMod
<1>2. s * q >= q
  BY <1>1
<1>3. PICK k \in Int : k = s * q
  BY <1>1
<1> QED
  BY <1>1, <1>2, <1>3

\* Half a period, rounded down.
LEMMA Half ==
  ASSUME NEW hz \in Nat, InRange(hz)
  PROVE  /\ hz > 0 /\ HalfPeriod(hz) \in Nat
         /\ 2 * HalfPeriod(hz) * hz <= IP_FREQ_IN_HZ
         /\ (2 * HalfPeriod(hz) + 2) * hz > IP_FREQ_IN_HZ
<1>1. hz > 0 /\ 2 * hz \in Nat /\ 2 * hz > 0
  BY I2cSpeedAssumption DEF InRange
<1>2. PICK h \in Nat, m \in 0 .. 2 * hz - 1 :
        h = IP_FREQ_IN_HZ \div (2 * hz) /\ IP_FREQ_IN_HZ = (2 * hz) * h + m
  BY <1>1, I2cSpeedAssumption, DivMod
<1>3. (2 * h) * hz = (2 * hz) * h /\ (2 * h + 2) * hz = (2 * hz) * h + 2 * hz
  BY <1>1, <1>2
<1>4. PICK k \in Int : k = (2 * hz) * h
  BY <1>1, <1>2
<1> QED
  BY <1>1, <1>2, <1>3, <1>4, I2cSpeedAssumption DEF HalfPeriod

LEMMA SpeedTyped == ASSUME NEW hz \in Nat, InRange(hz) PROVE speed_set(hz) \in MasterConfig
<1>1. PICK h \in Nat : h = HalfPeriod(hz)
  BY Half
<1>2. ASSUME NEW n \in Int PROVE n % U16 \in Counts
  BY I2cSpeedAssumption, DivModInt DEF Counts
<1>3. h - DIFF_LCNT_HCNT \in Int /\ h + DIFF_LCNT_HCNT \in Int
  BY I2cSpeedAssumption
<1>4. PICK l \in Int : l = h - DIFF_LCNT_HCNT
  BY <1>3
<1>5. l - (l \div 2) \in Int
  BY <1>4, DivModInt
<1> QED
  BY <1>1, <1>2, <1>3, <1>4, <1>5 DEF speed_set, MasterConfig

\* Counts that fit their fields are those of the nearest speed that is not below.
LEMMA SpeedBest ==
  ASSUME NEW hz \in Nat, InRange(hz), Fits(hz)
  PROVE  BestPeriod(hz, speed_set(hz))
<1>1. PICK h \in Nat : h = HalfPeriod(hz)
  BY Half
<1>2. h - DIFF_LCNT_HCNT \in 0 .. U16 - 1 /\ h + DIFF_LCNT_HCNT \in 0 .. U16 - 1
  BY <1>1, I2cSpeedAssumption DEF Fits, Positive
<1>3. /\ (h - DIFF_LCNT_HCNT) % U16 = h - DIFF_LCNT_HCNT
      /\ (h + DIFF_LCNT_HCNT) % U16 = h + DIFF_LCNT_HCNT
  BY <1>2, I2cSpeedAssumption, Wrapped
<1>4. /\ speed_set(hz).scl_lcnt = h - DIFF_LCNT_HCNT
      /\ speed_set(hz).scl_hcnt = h + DIFF_LCNT_HCNT
  BY <1>1, <1>3 DEF speed_set
<1>5. speed_set(hz).scl_lcnt + speed_set(hz).scl_hcnt = 2 * h
  BY <1>4, I2cSpeedAssumption
<1> QED
  BY <1>1, <1>5, Half DEF BestPeriod, NotSlower, Period

\* What is cut from the counts makes the bus faster, never slower.
LEMMA SpeedNotSlower ==
  ASSUME NEW hz \in Nat, InRange(hz), Positive(hz)
  PROVE  NotSlower(hz, speed_set(hz))
<1>1. PICK h \in Nat : h = HalfPeriod(hz)
  BY Half
<1>2. PICK l \in Nat, g \in Nat : l = h - DIFF_LCNT_HCNT /\ g = h + DIFF_LCNT_HCNT
  BY <1>1, I2cSpeedAssumption DEF Positive
<1>3. ASSUME NEW n \in Nat PROVE n % U16 \in Nat /\ n % U16 <= n
  <2>1. U16 \in Nat /\ U16 > 0
    BY I2cSpeedAssumption
  <2>2. PICK q \in Nat, r \in 0 .. U16 - 1 : r = n % U16 /\ n = U16 * q + r
    BY <2>1, DivMod
  <2>3. U16 * q \in Nat
    BY <2>1, <2>2
  <2> QED
    BY <2>2, <2>3
<1>4. PICK p \in Nat : p = Period(speed_set(hz)) /\ p <= 2 * h
  <2>1. Period(speed_set(hz)) = (l % U16) + (g % U16)
    BY <1>1, <1>2 DEF Period, speed_set
  <2>2. l + g = 2 * h
    BY <1>1, <1>2, I2cSpeedAssumption
  <2> QED
    BY <1>2, <1>3, <2>1, <2>2
<1>5. p * hz <= (2 * h) * hz
  <2>1. PICK d \in Nat : 2 * h = p + d
    BY <1>1, <1>4
  <2>2. (p + d) * hz = p * hz + d * hz
    BY <1>4, <2>1
  <2>3. d * hz \in Nat /\ p * hz \in Nat
    BY <1>4, <2>1
  <2> QED
    BY <2>1, <2>2, <2>3
<1>6. (2 * h) * hz <= IP_FREQ_IN_HZ
  BY <1>1, Half
<1>7. PICK a \in Int, b \in Int : a = p * hz /\ b = (2 * h) * hz
  BY <1>1, <1>4
<1>8. a <= IP_FREQ_IN_HZ
  BY <1>5, <1>6, <1>7, I2cSpeedAssumption
<1> QED
  BY <1>4, <1>7, <1>8 DEF NotSlower

LEMMA ReadingIsNat == ASSUME NEW recieve \in Byte \X Byte PROVE Reading(recieve) \in Nat
<1>1. recieve[1] \in Nat /\ recieve[2] \in Nat
  BY DEF Byte
<1>2. recieve[2] \div 8 \in Nat
  BY <1>1, DivMod
<1> QED
  BY <1>1, <1>2 DEF Reading

\* A reading scaled to a side of the screen.
LEMMA Scaled ==
  ASSUME NEW r \in Nat, NEW side \in Nat, NEW most \in Nat \ {0}
  PROVE  /\ (r * side) \div most \in Nat
         /\ r <= most => (r * side) \div most <= side
         /\ r * side - ((r * side) \div most) * most \in 0 .. most - 1
<1>1. PICK b \in Nat : b = r * side
  OBVIOUS
<1>2. PICK d \in Nat, m \in 0 .. most - 1 : d = b \div most /\ b = most * d + m
  BY DivMod
<1>3. r <= most => d <= side
  <2> SUFFICES ASSUME r <= most, d > side PROVE FALSE
    BY <1>2
  <2>1. r * side <= most * side /\ most * d >= most * (side + 1)
    BY <1>2
  <2>2. most * (side + 1) = most * side + most
    OBVIOUS
  <2>3. PICK k \in Int, n \in Int : k = most * side /\ n = most * d
    BY <1>2
  <2> QED
    BY <1>1, <1>2, <2>1, <2>2, <2>3
<1>4. d * most = most * d
  BY <1>2
<1>5. PICK n \in Int : n = most * d
  BY <1>2
<1> QED
  BY <1>1, <1>2, <1>3, <1>4, <1>5

LEMMA TouchTyped ==
  ASSUME NEW getx \in Byte \X Byte, NEW gety \in Byte \X Byte
  PROVE  follow_touch(getx, gety) \in [xtouch : Nat, ytouch : Nat]
<1>1. (Reading(getx) * WIDTH) \div MAX_X \in Nat /\ (Reading(gety) * HEIGHT) \div MAX_Y \in Nat
  BY ReadingIsNat, Scaled, TouchAssumption
<1>2. PICK d \in Nat : d = (Reading(gety) * HEIGHT) \div MAX_Y
  BY <1>1
<1>3. Abs(d - HEIGHT) \in Nat
  BY TouchAssumption DEF Abs
<1> QED
  BY <1>1, <1>2, <1>3 DEF follow_touch

LEMMA TouchRight ==
  ASSUME NEW getx \in Byte \X Byte, NEW gety \in Byte \X Byte
  PROVE  IsPosition(getx, gety, follow_touch(getx, gety))
<1> SUFFICES ASSUME Reading(getx) <= MAX_X, Reading(gety) <= MAX_Y
             PROVE  IsPosition(getx, gety, follow_touch(getx, gety))
  BY DEF IsPosition
<1>1. PICK r \in Nat, s \in Nat : r = Reading(getx) /\ s = Reading(gety)
  BY ReadingIsNat
<1> DEFINE across == (r * WIDTH) \div MAX_X
           down == (s * HEIGHT) \div MAX_Y
<1>2. /\ across \in Nat /\ across <= WIDTH
      /\ r * WIDTH - across * MAX_X \in 0 .. MAX_X - 1
  BY <1>1, Scaled, TouchAssumption
<1>3. /\ down \in Nat /\ down <= HEIGHT
      /\ s * HEIGHT - down * MAX_Y \in 0 .. MAX_Y - 1
  BY <1>1, Scaled, TouchAssumption
<1>4. follow_touch(getx, gety) = [xtouch |-> across, ytouch |-> Abs(down - HEIGHT)]
  BY <1>1 DEF follow_touch
<1> HIDE DEF across, down
<1>5. PICK x \in 0 .. WIDTH : x = across /\ r * WIDTH - x * MAX_X \in 0 .. MAX_X - 1
  BY <1>2, TouchAssumption
<1>6. PICK d \in 0 .. HEIGHT : d = down /\ s * HEIGHT - d * MAX_Y \in 0 .. MAX_Y - 1
  BY <1>3, TouchAssumption
<1>7. Abs(d - HEIGHT) = HEIGHT - d
  BY <1>6, TouchAssumption DEF Abs
<1>8. follow_touch(getx, gety) = [xtouch |-> x, ytouch |-> HEIGHT - d]
  BY <1>4, <1>5, <1>6, <1>7
<1>9. HEIGHT - d \in 0 .. HEIGHT /\ HEIGHT - (HEIGHT - d) = d /\ x < NO_TOUCH_X
  BY <1>5, <1>6, TouchAssumption
<1>10. Abs(x * MAX_X - r * WIDTH) < MAX_X
  <2>1. PICK p \in Int, q \in Int : p = x * MAX_X /\ q = r * WIDTH
    BY <1>1, <1>5, TouchAssumption
  <2> QED
    BY <1>5, <2>1, TouchAssumption DEF Abs
<1>11. Abs(d * MAX_Y - s * HEIGHT) < MAX_Y
  <2>1. PICK p \in Int, q \in Int : p = d * MAX_Y /\ q = s * HEIGHT
    BY <1>1, <1>6, TouchAssumption
  <2> QED
    BY <1>6, <2>1, TouchAssumption DEF Abs
<1> QED
  BY <1>1, <1>5, <1>8, <1>9, <1>10, <1>11 DEF IsPosition, isTouching

\* A difference of two times that are less than half the range apart keeps its sign.
LEMMA SignKept ==
  ASSUME NEW n \in 1 - U32 \div 2 .. U32 \div 2 - 1
  PROVE  Alt32(n) = n
<1>1. PICK half \in Nat : half = U32 \div 2 /\ U32 = 2 * half /\ half > 0
  BY SysIdAssumption
<1>2. CASE n >= 0
  <2>1. n % U32 = n
    BY <1>1, <1>2, SysIdAssumption, Wrapped
  <2> QED
    BY <1>1, <2>1 DEF Alt32
<1>3. CASE n < 0
  <2>1. n % U32 = n + U32
    BY <1>1, <1>3, SysIdAssumption, Wrapped
  <2> QED
    BY <1>1, <1>3, <2>1 DEF Alt32
<1> QED
  BY <1>1, <1>2, <1>3

Identifications == [id : 0 .. U32 - 1, timestamp : 0 .. U32 - 1]

LEMMA SysIdRight ==
  ASSUME NEW h \in Identifications
  PROVE  IsInSync(h, alt_avalon_sysid_qsys_test(h)) /\ alt_avalon_sysid_qsys_test(h) \in {-1, 0, 1}
<1> DEFINE same == h = [id |-> SYSID_ID, timestamp |-> SYSID_TIMESTAMP]
<1>1. same <=> h.id = SYSID_ID /\ h.timestamp = SYSID_TIMESTAMP
  BY DEF Identifications
<1>2. PICK n \in Int :
        /\ n = h.timestamp - SYSID_TIMESTAMP /\ (n > 0 <=> h.timestamp > SYSID_TIMESTAMP)
        /\ (n = 0 <=> h.timestamp = SYSID_TIMESTAMP)
  BY SysIdAssumption DEF Identifications
<1>3. n \in 1 - U32 \div 2 .. U32 \div 2 - 1 => Alt32(n) = n
  BY SignKept
<1>4. alt_avalon_sysid_qsys_test(h) = IF same THEN 0 ELSE IF Alt32(n) > 0 THEN 1 ELSE -1
  BY <1>2 DEF alt_avalon_sysid_qsys_test
<1> HIDE DEF same
<1> QED
  BY <1>1, <1>2, <1>3, <1>4 DEF IsInSync

-----------------------------------------------------------------------------
(* The displays                                                            *)

Displays == [hex5_4 : [{8, 0} -> Glyphs], hex3_0 : [{24, 16, 8, 0} -> Glyphs]]

\* The character that the d-th display shows when n are placed.
Glyph(message, n, d) == IF d <= n THEN message[d] ELSE BLANK

Glyphwise(message, n, h) ==
  /\ h.hex5_4[8] = Glyph(message, n, 1) /\ h.hex5_4[0] = Glyph(message, n, 2)
  /\ h.hex3_0[24] = Glyph(message, n, 3) /\ h.hex3_0[16] = Glyph(message, n, 4)
  /\ h.hex3_0[8] = Glyph(message, n, 5) /\ h.hex3_0[0] = Glyph(message, n, 6)

\* What the displays show of a message that fits, display by display.
LEMMA ShownIs ==
  ASSUME NEW message \in Seq(Chars), Len(message) <= MAX_LENGTH, NEW n \in Nat, NEW h
  PROVE  IsShown(message, n, h) <=> Glyphwise(message, n, h)
<1> DEFINE wanted == [d \in 1 .. 6 |-> Glyph(message, n, d)]
<1>1. Len(message) \in Nat /\ ~(Len(message) > 6)
  BY DEF MAX_LENGTH
<1>2. IsShown(message, n, h) <=> Shown(h) = wanted
  BY <1>1 DEF IsShown, MAX_LENGTH, Glyph
<1>3. wanted = <<Glyph(message, n, 1), Glyph(message, n, 2), Glyph(message, n, 3),
                 Glyph(message, n, 4), Glyph(message, n, 5), Glyph(message, n, 6)>>
  OBVIOUS
<1> HIDE DEF wanted
<1> QED
  BY <1>2, <1>3 DEF Shown, Glyphwise

LEMMA OffTyped == Off \in Displays
BY DEF Off, Displays, Glyphs

\* What the loop starts with.
LEMMA ClearedRight ==
  ASSUME NEW message \in Seq(Chars)
  PROVE  Cleared(message) \in Displays /\ IsShown(message, 0, Cleared(message))
<1>1. Len(message) \in Nat
  OBVIOUS
<1>2. CASE Len(message) > MAX_LENGTH
  <2> DEFINE right == [Off.hex3_0 EXCEPT ![WORD * 2] = "e", ![WORD] = "r", ![0] = "r"]
  <2>1. Cleared(message) = [Off EXCEPT !.hex3_0 = right]
    BY <1>2 DEF Cleared
  <2>2. /\ right \in [{24, 16, 8, 0} -> Glyphs]
        /\ right[24] = BLANK /\ right[16] = "e" /\ right[8] = "r" /\ right[0] = "r"
    BY DEF Off, WORD, Glyphs
  <2> HIDE DEF right
  <2>3. /\ Cleared(message) \in Displays /\ Cleared(message).hex5_4 = Off.hex5_4
        /\ Cleared(message).hex3_0 = right
    BY <2>1, <2>2, OffTyped DEF Displays
  <2>4. Off.hex5_4[8] = BLANK /\ Off.hex5_4[0] = BLANK
    BY DEF Off
  <2> QED
    BY <1>2, <2>2, <2>3, <2>4 DEF IsShown, Shown
<1>3. CASE ~(Len(message) > MAX_LENGTH)
  <2>1. Cleared(message) = Off /\ Len(message) <= MAX_LENGTH
    BY <1>1, <1>3 DEF Cleared, MAX_LENGTH
  <2>2. /\ Off.hex5_4[8] = BLANK /\ Off.hex5_4[0] = BLANK
        /\ Off.hex3_0[24] = BLANK /\ Off.hex3_0[16] = BLANK
        /\ Off.hex3_0[8] = BLANK /\ Off.hex3_0[0] = BLANK
    BY DEF Off
  <2>3. \A d \in 1 .. 6 : Glyph(message, 0, d) = BLANK
    BY DEF Glyph
  <2>4. IsShown(message, 0, Off)
    <3>1. 0 \in Nat
      OBVIOUS
    <3> QED
      BY <2>1, <2>2, <2>3, <3>1, ShownIs DEF Glyphwise
  <2> QED
    BY <2>1, <2>4, OffTyped
<1> QED
  BY <1>2, <1>3

\* A step of the loop places the next character, which no other is or-ed into.
LEMMA PlaceRight ==
  ASSUME NEW message \in Seq(Chars), Len(message) <= MAX_LENGTH, NEW i \in 1 .. Len(message),
         NEW h \in Displays, IsShown(message, i - 1, h)
  PROVE  Place(message, h, i) \in Displays /\ IsShown(message, i, Place(message, h, i))
<1>1. i \in 1 .. 6 /\ i - 1 \in Nat /\ i \in Nat
  BY DEF MAX_LENGTH
<1>2. PICK c \in Glyphs : c = message[i] /\ Or(BLANK, message[i]) = c
  BY DEF Or, Glyphs
<1>3. Glyphwise(message, i - 1, h)
  BY <1>1, ShownIs
<1>4. /\ Glyph(message, i, i) = c
      /\ \A d \in (1 .. 6) \ {i} : Glyph(message, i, d) = Glyph(message, i - 1, d)
  BY <1>1, <1>2 DEF Glyph
<1> DEFINE placed == Place(message, h, i)
<1> SUFFICES placed \in Displays /\ Glyphwise(message, i, placed)
  BY <1>1, ShownIs
<1>5. ASSUME NEW s \in {8, 0}, i < 3, s = 8 - 8 * (i - 1)
      PROVE  placed \in Displays /\ Glyphwise(message, i, placed)
  <2>1. h.hex5_4[s] = BLANK
    BY <1>1, <1>3, <1>5 DEF Glyph, Glyphwise
  <2>2. placed = [h EXCEPT !.hex5_4 = [h.hex5_4 EXCEPT ![s] = c]]
    BY <1>2, <1>5, <2>1 DEF Place, HEX5_4_SHIFT_MAX
  <2>3. PICK f \in [{8, 0} -> Glyphs] :
          /\ f[s] = c /\ \A o \in {8, 0} \ {s} : f[o] = h.hex5_4[o]
          /\ placed = [h EXCEPT !.hex5_4 = f]
    <3> DEFINE f == [h.hex5_4 EXCEPT ![s] = c]
    <3>1. f \in [{8, 0} -> Glyphs] /\ f[s] = c /\ \A o \in {8, 0} \ {s} : f[o] = h.hex5_4[o]
      BY DEF Displays
    <3> HIDE DEF f
    <3> QED
      BY <2>2, <3>1 DEF f
  <2> HIDE DEF placed
  <2>4. placed \in Displays /\ placed.hex5_4 = f /\ placed.hex3_0 = h.hex3_0
    BY <2>3 DEF Displays
  <2>5. CASE s = 8
    <3>1. i = 1
      BY <1>1, <1>5, <2>5
    <3> QED
      BY <1>3, <1>4, <2>3, <2>4, <2>5, <3>1 DEF Glyphwise
  <2>6. CASE s = 0
    <3>1. i = 2
      BY <1>1, <1>5, <2>6
    <3> QED
      BY <1>3, <1>4, <2>3, <2>4, <2>6, <3>1 DEF Glyphwise
  <2> QED
    BY <2>5, <2>6
<1>6. ASSUME NEW s \in {24, 16, 8, 0}, ~(i < 3), s = 24 - (i - 3) * 8
      PROVE  placed \in Displays /\ Glyphwise(message, i, placed)
  <2>1. h.hex3_0[s] = BLANK
    BY <1>1, <1>3, <1>6 DEF Glyph, Glyphwise
  <2>2. placed = [h EXCEPT !.hex3_0 = [h.hex3_0 EXCEPT ![s] = c]]
    BY <1>2, <1>6, <2>1 DEF Place, HEX3_0_SHIFT_MAX, WORD
  <2>3. PICK f \in [{24, 16, 8, 0} -> Glyphs] :
          /\ f[s] = c /\ \A o \in {24, 16, 8, 0} \ {s} : f[o] = h.hex3_0[o]
          /\ placed = [h EXCEPT !.hex3_0 = f]
    <3> DEFINE f == [h.hex3_0 EXCEPT ![s] = c]
    <3>1. /\ f \in [{24, 16, 8, 0} -> Glyphs] /\ f[s] = c
          /\ \A o \in {24, 16, 8, 0} \ {s} : f[o] = h.hex3_0[o]
      BY DEF Displays
    <3> HIDE DEF f
    <3> QED
      BY <2>2, <3>1 DEF f
  <2> HIDE DEF placed
  <2>4. placed \in Displays /\ placed.hex3_0 = f /\ placed.hex5_4 = h.hex5_4
    BY <2>3 DEF Displays
  <2>5. CASE s = 24
    <3>1. i = 3
      BY <1>1, <1>6, <2>5
    <3> QED
      BY <1>3, <1>4, <2>3, <2>4, <2>5, <3>1 DEF Glyphwise
  <2>6. CASE s = 16
    <3>1. i = 4
      BY <1>1, <1>6, <2>6
    <3> QED
      BY <1>3, <1>4, <2>3, <2>4, <2>6, <3>1 DEF Glyphwise
  <2>7. CASE s = 8
    <3>1. i = 5
      BY <1>1, <1>6, <2>7
    <3> QED
      BY <1>3, <1>4, <2>3, <2>4, <2>7, <3>1 DEF Glyphwise
  <2>8. CASE s = 0
    <3>1. i = 6
      BY <1>1, <1>6, <2>8
    <3> QED
      BY <1>3, <1>4, <2>3, <2>4, <2>8, <3>1 DEF Glyphwise
  <2> QED
    BY <2>5, <2>6, <2>7, <2>8
<1>7. i \in {1, 2} => 8 - 8 * (i - 1) \in {8, 0}
  OBVIOUS
<1>8. i \in {3, 4, 5, 6} => 24 - (i - 3) * 8 \in {24, 16, 8, 0}
  OBVIOUS
<1> HIDE DEF placed
<1> QED
  BY <1>1, <1>5, <1>6, <1>7, <1>8

-----------------------------------------------------------------------------
(* The other drivers                                                       *)

Looping ==
  /\ string \in Seq(Chars) /\ place \in 1 .. Len(string) + 1
  /\ Len(string) > MAX_LENGTH => place = Len(string) + 1
  /\ hex \in Displays /\ MessageShown

MadeFor(hz, config) == hz \in Nat /\ InRange(hz) /\ config = speed_set(hz)

Speeding ==
  MadeFor(cfg_hz, cfg) /\ MadeFor(registers_hz, registers) /\ speed_in_hz \in 0 .. IP_FREQ_IN_HZ

Touching ==
  /\ answers \in (Byte \X Byte) \X (Byte \X Byte)
  /\ touch = follow_touch(answers[1], answers[2])

Identified ==
  /\ hardware \in Identifications
  /\ in_sync = Untested \/ in_sync = alt_avalon_sysid_qsys_test(hardware)

Serves == use \in Uses /\ Looping /\ Speeding /\ Touching /\ Identified

LEMMA ServesFirst == Init => Serves
<1> SUFFICES ASSUME Init PROVE Serves
  OBVIOUS
<1>1. Looping
  <2>1. <<>> \in Seq(Chars) /\ Len(<<>>) = 0 /\ Cleared(<<>>) = Off
    BY DEF Cleared, MAX_LENGTH
  <2>2. Off \in Displays /\ IsShown(<<>>, 0, Off)
    BY <2>1, ClearedRight
  <2> QED
    BY <2>1, <2>2 DEF Init, Looping, MessageShown, MAX_LENGTH
<1>2. Speeding
  BY I2cSpeedAssumption DEF Init, Speeding, MadeFor, InRange
<1>3. Touching
  BY DEF Init, Touching, NoBytes, Byte
<1>4. Identified /\ use \in Uses
  BY BoardAssumption DEF Init, Identified, Identifications
<1> QED
  BY <1>1, <1>2, <1>3, <1>4 DEF Serves

LEMMA ShowStep == ASSUME Looping, ShowMessage PROVE Looping'
<1>1. PICK message \in Seq(Chars) :
        /\ string' = message /\ hex' = Cleared(message)
        /\ place' = IF Len(message) > MAX_LENGTH THEN Len(message) + 1 ELSE 1
  BY BoardAssumption DEF ShowMessage
<1>2. Len(message) \in Nat
  OBVIOUS
<1>3. Cleared(message) \in Displays /\ IsShown(message, 0, Cleared(message))
  BY ClearedRight
<1>4. CASE Len(message) > MAX_LENGTH
  <2>1. IsShown(message, Len(message) + 1 - 1, Cleared(message))
    BY <1>3, <1>4 DEF IsShown
  <2> QED
    BY <1>1, <1>2, <1>3, <1>4, <2>1 DEF Looping, MessageShown
<1>5. CASE ~(Len(message) > MAX_LENGTH)
  <2>1. place' - 1 = 0 /\ place' \in 1 .. Len(message) + 1
    BY <1>1, <1>2, <1>5
  <2> QED
    BY <1>1, <1>2, <1>3, <1>5, <2>1 DEF Looping, MessageShown
<1> QED
  BY <1>4, <1>5

LEMMA PlaceStep == ASSUME Looping, PlaceCharacter PROVE Looping'
<1>1. /\ string' = string /\ hex' = Place(string, hex, place) /\ place' = place + 1
      /\ string \in Seq(Chars) /\ place \in 1 .. Len(string) /\ Len(string) \in Nat
  BY DEF PlaceCharacter, Looping
<1>2. Len(string) <= MAX_LENGTH
  BY <1>1 DEF Looping, MAX_LENGTH
<1>3. hex' \in Displays /\ IsShown(string, place, hex')
  BY <1>1, <1>2, PlaceRight DEF Looping, MessageShown
<1>4. place' - 1 = place
  BY <1>1
<1>5. MessageShown'
  BY <1>1, <1>3, <1>4 DEF MessageShown
<1> QED
  BY <1>1, <1>2, <1>3, <1>5 DEF Looping, MAX_LENGTH

LEMMA SpeedStep ==
  ASSUME Speeding, config_speed_set \/ config_set \/ config_get \/ config_speed_get
  PROVE  Speeding'
<1>1. CASE config_speed_set
  BY <1>1, BoardAssumption DEF config_speed_set, Speeding, MadeFor
<1>2. CASE config_set \/ config_get
  BY <1>2 DEF config_set, config_get, Speeding, MadeFor
<1>3. CASE config_speed_get
  <2>1. UNCHANGED <<cfg, registers, cfg_hz, registers_hz>>
    BY <1>3 DEF config_speed_get
  <2>2. cfg \in MasterConfig /\ HasSpeed(cfg) /\ speed_in_hz' = speed_get(cfg)
    BY <1>3, SpeedTyped DEF config_speed_get, Speeding, MadeFor
  <2>3. cfg.scl_lcnt + cfg.scl_hcnt \in Nat /\ cfg.scl_lcnt + cfg.scl_hcnt > 0
    BY <2>2, I2cSpeedAssumption DEF HasSpeed, MasterConfig, Counts
  <2>4. speed_in_hz' \in 0 .. IP_FREQ_IN_HZ
    BY <2>2, <2>3, DivAtMost, I2cSpeedAssumption DEF speed_get
  <2> QED
    BY <2>1, <2>4 DEF Speeding, MadeFor
<1> QED
  BY <1>1, <1>2, <1>3

LEMMA TouchStep == ASSUME FollowTouch PROVE Touching'
BY BoardAssumption DEF FollowTouch, Touching

LEMMA ServesStep == Serves /\ [Next]_vars => Serves'
<1> SUFFICES ASSUME Serves, [Next]_vars PROVE Serves'
  OBVIOUS
<1>1. Looping /\ Speeding /\ Touching /\ Identified /\ use \in Uses
  BY DEF Serves
<1>2. UNCHANGED displays => Looping'
  BY <1>1 DEF displays, Looping, MessageShown
<1>3. UNCHANGED speed => Speeding'
  BY <1>1 DEF speed, Speeding, MadeFor
<1>4. UNCHANGED position => Touching'
  BY <1>1 DEF position, Touching
<1>5. hardware' = hardware /\ use' = use /\ (in_sync' = in_sync => Identified')
  BY <1>1 DEF Identified, Next, vars
<1>6. CASE TimersRun
  BY <1>1, <1>2, <1>3, <1>4, <1>5, <1>6 DEF TimersRun, Serves
<1>7. CASE ShowMessage
  BY <1>1, <1>3, <1>4, <1>5, <1>7, ShowStep DEF ShowMessage, Serves
<1>8. CASE PlaceCharacter
  <2>1. UNCHANGED <<speed, position, in_sync>> /\ Looping'
    BY <1>1, <1>8, PlaceStep DEF PlaceCharacter
  <2> QED
    BY <1>1, <1>3, <1>4, <1>5, <2>1 DEF Serves
<1>9. CASE config_speed_set \/ config_set \/ config_get \/ config_speed_get
  <2>1. UNCHANGED <<displays, position, in_sync>> /\ Speeding'
    BY <1>1, <1>9, SpeedStep DEF config_speed_set, config_set, config_get, config_speed_get
  <2> QED
    BY <1>1, <1>2, <1>4, <1>5, <2>1 DEF Serves
<1>10. CASE FollowTouch
  <2>1. UNCHANGED <<displays, speed, in_sync>> /\ Touching'
    BY <1>10, TouchStep DEF FollowTouch
  <2> QED
    BY <1>1, <1>2, <1>3, <1>5, <2>1 DEF Serves
<1>11. CASE TestIdentification
  <2>1. UNCHANGED <<displays, speed, position>> /\ Identified'
    BY <1>1, <1>5, <1>11 DEF TestIdentification, Identified
  <2> QED
    BY <1>1, <1>2, <1>3, <1>4, <1>5, <2>1 DEF Serves
<1>12. CASE UNCHANGED vars
  BY <1>1, <1>2, <1>3, <1>4, <1>5, <1>12 DEF vars, Serves
<1> QED
  BY <1>6, <1>7, <1>8, <1>9, <1>10, <1>11, <1>12 DEF Next, Services

LEMMA AlwaysServes == Spec => []Serves
BY ServesFirst, ServesStep, PTL DEF Spec

-----------------------------------------------------------------------------
(* The theorems                                                            *)

\* A timeout of the system clock is never forgotten before it has ticked.
THEOREM TimerTicks == TimerSpec => []NoTickLost
<1>1. IInv => NoTickLost
  BY DEF IInv, Ticks, NoTickLost
<1> QED
  BY <1>1, TimerInvariant, PTL

\* The two halves that alt_timestamp reads make the time at which it was called, unless the
\* timer had run full period before.
THEOREM TimerStamps == TimerSpec => TimestampIsTime
<1>1. ASSUME IInv, [TimerNext]_timer_vars, pc = "snap_high", pc' = "idle", asked <= FULL
      PROVE  ret' = asked
  <2>1. alt_timestamp
    BY <1>1 DEF TimerNext, alt_sys_init, Call, alt_timestamp_start, alt_timestamp_freq,
                alt_avalon_timer_sc_irq, Clock, call, At, timer_vars
  <2>2. ret' = FULL - ((core[ts_base].snap \div HALF) * HALF + lower)
    BY <1>1, <2>1 DEF alt_timestamp, At, Answer
  <2>3. PICK s \in 0 .. FULL : s = core[ts_base].snap
    BY <1>1 DEF IInv, Latched, Typed, Registers
  <2>4. asked \in 0 .. FULL /\ asked # Never
    BY <1>1, NumbersOk DEF IInv, Typed
  <2>5. s = Left(asked) /\ lower = s % HALF
    BY <1>1, <2>3, <2>4 DEF IInv, Latched
  <2>6. (s \div HALF) * HALF + (s % HALF) = s
    BY Halves
  <2>7. ret' = FULL - s
    BY <2>2, <2>3, <2>5, <2>6
  <2> QED
    BY <2>4, <2>5, <2>7, NumbersOk DEF Left
<1>2. IInv /\ [TimerNext]_timer_vars =>
        [pc = "snap_high" /\ pc' = "idle" /\ asked <= FULL => ret' = asked]_timer_vars
  BY <1>1
<1> QED
  BY <1>2, TimerInvariant, PTL DEF TimerSpec, TimestampIsTime

\* The drivers of the board do not disturb its timers: a behaviour of Board is one of
\* the timers alone, so what TimerTicks and TimerStamps say holds of it.
THEOREM BoardTimers == Spec => TimerSpec /\ []NoTickLost /\ TimestampIsTime
<1>1. Init => TimerInit
  BY DEF Init
<1>2. [Next]_vars => [TimerNext]_timer_vars
  <2> SUFFICES ASSUME [Next]_vars PROVE TimerNext \/ UNCHANGED timer_vars
    OBVIOUS
  <2>1. CASE TimersRun
    BY <2>1 DEF TimersRun
  <2>2. CASE Services
    BY <2>2 DEF Services, ShowMessage, PlaceCharacter, config_speed_set, config_set, config_get,
                config_speed_get, FollowTouch, TestIdentification
  <2>3. CASE UNCHANGED vars
    BY <2>3 DEF vars
  <2> QED
    BY <2>1, <2>2, <2>3 DEF Next
<1> QED
  BY <1>1, <1>2, TimerTicks, TimerStamps, PTL DEF Spec, TimerSpec

\* While a message is being placed the displays show its beginning and nothing of the one
\* before, and then all of it; a configuration made for an accepted speed never makes the
\* bus slower than that if its counts are not below 0, and has the nearest speed if they fit
\* 16 bits, also when it has been written and read back; a touch is
\* where the panel was touched; and the identification is right, and in order if the times
\* are less than half the range apart: for any messages, clock, screen, panel and widths.
THEOREM BoardServices == Spec => []ServicesRight
<1>1. Serves => ServicesRight
  <2> SUFFICES ASSUME Serves PROVE ServicesRight
    OBVIOUS
  <2>1. MessageShown
    BY DEF Serves, Looping
  <2>2. SpeedReached
    BY SpeedBest, SpeedNotSlower DEF Serves, Speeding, MadeFor, SpeedReached
  <2>3. TouchThere
    <3>1. answers[1] \in Byte \X Byte /\ answers[2] \in Byte \X Byte
      BY DEF Serves, Touching
    <3> QED
      BY <3>1, TouchRight DEF Serves, Touching, TouchThere
  <2>4. IdentificationRight
    BY SysIdRight DEF Serves, Identified, IdentificationRight
  <2> QED
    BY <2>1, <2>2, <2>3, <2>4 DEF ServicesRight
<1> QED
  BY <1>1, AlwaysServes, PTL

\* Every variable of the board has its type: no counter is beyond its period, no display
\* holds two characters in one, and the counts fit the core's fields.
THEOREM BoardTypes == Spec => []TypeOK
<1>1. Serves /\ TimerTypes => TypeOK
  <2> SUFFICES ASSUME Serves, TimerTypes PROVE TypeOK
    OBVIOUS
  <2>1. use \in Uses /\ hex \in Displays /\ string \in Seq(Chars) /\ place \in 1 .. Len(string) + 1
    BY DEF Serves, Looping
  <2>2. {cfg, registers} \subseteq MasterConfig /\ speed_in_hz \in 0 .. IP_FREQ_IN_HZ
        /\ InRange(cfg_hz) /\ InRange(registers_hz)
    BY SpeedTyped DEF Serves, Speeding, MadeFor
  <2>3. touch \in [xtouch : Nat, ytouch : Nat]
    <3>1. answers[1] \in Byte \X Byte /\ answers[2] \in Byte \X Byte
      BY DEF Serves, Touching
    <3> QED
      BY <3>1, TouchTyped DEF Serves, Touching
  <2>4. hardware \in Identifications /\ in_sync \in {-1, 0, 1, Untested}
    BY SysIdRight DEF Serves, Identified
  <2> QED
    BY <2>1, <2>2, <2>3, <2>4 DEF TypeOK, Displays, Identifications
<1>2. Spec => TimerSpec
  BY BoardTimers, PTL
<1> QED
  BY <1>1, <1>2, AlwaysServes, TimersTyped, PTL
=============================================================================
