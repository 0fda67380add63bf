--------------------------------- MODULE Board ---------------------------------
(***************************************************************************)
(* The small drivers of the board together: the interval timers, the       *)
(* seven-segment displays, the I2C core's speed, the touch position and    *)
(* the system's identification.  They share no state, so a program that    *)
(* uses one of them, after the start, is as general as one that uses all.  *)
(***************************************************************************)
EXTENDS Timer, HexDisplay, I2cSpeed, Touch, SysId

CONSTANTS
  Chars,      \* characters
  Strings,    \* messages
  Speeds,     \* speeds asked for
  Answers,    \* pairs of answers of the touch controller
  Hardware    \* identifications of the hardware

Byte == 0 .. 255

ASSUME BoardAssumption ==
  /\ Strings \subseteq Seq(Chars) /\ Speeds \subseteq Nat
  /\ Answers \subseteq (Byte \X Byte) \X (Byte \X Byte)
  /\ Hardware \subseteq [id : 0 .. U32 - 1, timestamp : 0 .. U32 - 1]

Uses == {"timers", "displays", "speed", "touch", "identification"}

VARIABLES
  use,                    \* what the program uses
  hex, string, place,     \* the displays, the last message, and the next character's place
  cfg, registers,         \* the program's configuration and the I2C core's
  cfg_hz, registers_hz,   \* history: the speed each was made for
  speed_in_hz,            \* the last speed read
  answers, touch,         \* the touch controller's answers, and the position
  hardware, in_sync       \* the identification, and the last test's result

displays == <<hex, string, place>>
speed == <<cfg, registers, cfg_hz, registers_hz, speed_in_hz>>
position == <<answers, touch>>
vars == <<timer_vars, use, displays, speed, position, hardware, in_sync>>

NoBytes == <<0, 0>>
Untested == 2

\* alt_avalon_i2c_init has set the standard speed.  Builds other than the one of
\* system.h, and other hardware, are of interest only to those who look at them.
Init ==
  /\ TimerInit
  /\ use \in Uses
  /\ use # "timers" => ALT_SYS_CLK = "INTERVAL_TIMER" /\ ALT_TIMESTAMP_CLK = "none"
  /\ hex = Off /\ string = <<>> /\ place = 1
  /\ cfg = speed_set(FS_MIN_HZ) /\ registers = cfg
  /\ cfg_hz = FS_MIN_HZ /\ registers_hz = FS_MIN_HZ /\ speed_in_hz = 0
  /\ answers = <<NoBytes, NoBytes>> /\ touch = follow_touch(NoBytes, NoBytes)
  /\ hardware \in Hardware /\ in_sync = Untested
  /\ use # "identification" => hardware = [id |-> SYSID_ID, timestamp |-> SYSID_TIMESTAMP]

Serving(name) == use = name /\ pc = "idle"

\* A message that fits is placed character by character.
ShowMessage ==
  /\ Serving("displays") /\ place > Len(string)
  /\ string' \in Strings /\ hex' = Cleared(string')
  /\ place' = IF Len(string') > MAX_LENGTH THEN Len(string') + 1 ELSE 1
  /\ UNCHANGED <<timer_vars, speed, position, in_sync>>

PlaceCharacter ==
  /\ Serving("displays") /\ place <= Len(string)
  /\ hex' = Place(string, hex, place) /\ place' = place + 1
  /\ UNCHANGED <<timer_vars, string, speed, position, in_sync>>

\* A speed out of range is refused, and the configuration kept.
config_speed_set ==
  /\ Serving("speed")
  /\ \E hz \in Speeds :
       IF InRange(hz) THEN cfg' = speed_set(hz) /\ cfg_hz' = hz ELSE UNCHANGED <<cfg, cfg_hz>>
  /\ UNCHANGED <<timer_vars, displays, registers, registers_hz, speed_in_hz, position, in_sync>>

config_set ==
  /\ Serving("speed")
  /\ registers' = cfg /\ registers_hz' = cfg_hz
  /\ UNCHANGED <<timer_vars, displays, cfg, cfg_hz, speed_in_hz, position, in_sync>>

config_get ==
  /\ Serving("speed")
  /\ cfg' = registers /\ cfg_hz' = registers_hz
  /\ UNCHANGED <<timer_vars, displays, registers, registers_hz, speed_in_hz, position, in_sync>>

config_speed_get ==
  /\ Serving("speed") /\ HasSpeed(cfg)
  /\ speed_in_hz' = speed_get(cfg)
  /\ UNCHANGED <<timer_vars, displays, cfg, registers, cfg_hz, registers_hz, position, in_sync>>

FollowTouch ==
  /\ Serving("touch")
  /\ answers' \in Answers
  /\ touch' = follow_touch(answers'[1], answers'[2])
  /\ UNCHANGED <<timer_vars, displays, speed, in_sync>>

TestIdentification ==
  /\ Serving("identification")
  /\ in_sync' = alt_avalon_sysid_qsys_test(hardware)
  /\ UNCHANGED <<timer_vars, displays, speed, position>>

Services ==
  \/ ShowMessage \/ PlaceCharacter
  \/ config_speed_set \/ config_set \/ config_get \/ config_speed_get
  \/ FollowTouch \/ TestIdentification

\* Time passes and the timers are read only where they are used.
TimersRun ==
  /\ use = "timers" \/ pc \in {"init_1", "init_2"}
  /\ TimerNext
  /\ UNCHANGED <<displays, speed, position, in_sync>>

Next == (TimersRun \/ Services) /\ UNCHANGED <<use, hardware>>

Spec == Init /\ [][Next]_vars
-----------------------------------------------------------------------------
(* Properties                                                              *)

Glyphs == Chars \union {BLANK, "e", "r"}

\* Every variable has its type; the displays have no character that is two in one.
TypeOK ==
  /\ TimerTypes /\ use \in Uses
  /\ hex \in [hex5_4 : [{8, 0} -> Glyphs], hex3_0 : [{24, 16, 8, 0} -> Glyphs]]
  /\ string \in Seq(Chars) /\ place \in 1 .. Len(string) + 1
  /\ {cfg, registers} \subseteq MasterConfig /\ speed_in_hz \in 0 .. IP_FREQ_IN_HZ
  /\ InRange(cfg_hz) /\ InRange(registers_hz)
  /\ touch \in [xtouch : Nat, ytouch : Nat]
  /\ hardware \in [id : 0 .. U32 - 1, timestamp : 0 .. U32 - 1]
  /\ in_sync \in {-1, 0, 1, Untested}

\* The displays show the last message, or while it is placed its beginning, whatever
\* they showed before.
MessageShown == IsShown(string, place - 1, hex)

\* A configuration made for an accepted speed, written to the core or read back from it,
\* never makes the bus slower than that (if the clock is fast enough for counts above 0);
\* those whose counts fit 16 bits have the nearest speed.
SpeedReached ==
  \A made \in {<<cfg_hz, cfg>>, <<registers_hz, registers>>} :
    /\ Positive(made[1]) => NotSlower(made[1], made[2])
    /\ Fits(made[1]) => BestPeriod(made[1], made[2])

\* A touch is where the panel was touched.
TouchThere == IsPosition(answers[1], answers[2], touch)

\* The identification is right.
IdentificationRight == in_sync # Untested => IsInSync(hardware, in_sync)

\* The small drivers do what they are for at the borders of their numbers too: shifts,
\* roundings, 32-bit differences and 16-bit counts, but for the speeds whose counts do
\* not fit (SpeedIsNearest).
ServicesRight == MessageShown /\ SpeedReached /\ TouchThere /\ IdentificationRight

\* What a comment says, and the program does not do for the slowest speeds it accepts:
\* altera_avalon_i2c.h:379, "computes parameters for the I2C master configuration that
\* best matches the speed requested".
SpeedIsNearest == BestPeriod(cfg_hz, cfg)
=============================================================================
