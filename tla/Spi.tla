--------------------------------- MODULE Spi ---------------------------------
(***************************************************************************)
(* alt_avalon_spi_command (altera_avalon_spi.c) and the SPI core it polls. *)
(* The core has one transmit register, one shift register and one receive  *)
(* register; shifting a byte out shifts one in.                            *)
(*                                                                         *)
(* The bytes of write_data are 1, 2, ... and a byte sent for reading is 0; *)
(* the target answers the k-th byte of a command with k.                   *)
(***************************************************************************)
EXTENDS Integers, Sequences

CONSTANTS
  MAX_LENGTH,    \* bound: bytes asked to be written, and to be read
  MAX_CALLS      \* bound: commands

VARIABLES
  spi_pc, calls,
  write_length, read_length, merge, toggle,           \* the arguments
  spi_written, write_zeros, read_ignore, read, credits,   \* the locals
  status,                                             \* the register as last read
  tx, shift, rx, RRDY, TMT, SSO,                      \* the core
  heard,         \* history: what the target got from this command
  overrun        \* history: a register was overwritten before it was read

args == <<write_length, read_length, merge, toggle>>
locals == <<spi_written, write_zeros, read_ignore, read, credits>>
core == <<tx, shift, rx, RRDY, TMT>>
spi_vars == <<spi_pc, calls, args, locals, status, core, SSO, heard, overrun>>

None == -1
Stale == 0
TRDY == tx = None

\* A previous communication may have left a byte behind.
SpiInit ==
  /\ spi_pc = "idle" /\ calls = 0
  /\ write_length = 0 /\ read_length = 0 /\ merge = FALSE /\ toggle = FALSE
  /\ spi_written = 0 /\ write_zeros = 0 /\ read_ignore = 0 /\ read = <<>> /\ credits = 0
  /\ status = [TRDY |-> FALSE, RRDY |-> FALSE]
  /\ tx = None /\ shift = None /\ rx = Stale /\ RRDY \in BOOLEAN
  /\ TMT = TRUE /\ SSO = FALSE
  /\ heard = <<>> /\ overrun = FALSE

\* A bug to detect: more credits than the core has registers.
ThreeCredits == 3

CREDITS == 1

Arguments ==
  /\ spi_pc = "idle" /\ calls < MAX_CALLS /\ calls' = calls + 1
  /\ write_length' \in 0 .. MAX_LENGTH /\ read_length' \in 0 .. MAX_LENGTH
  /\ merge' \in BOOLEAN /\ toggle' \in BOOLEAN
  /\ spi_written' = 0 /\ write_zeros' = read_length'
  /\ read_ignore' = write_length' /\ read' = <<>>
  /\ credits' = CREDITS
  /\ SSO' = (SSO \/ ~toggle')
  /\ heard' = <<>>
  /\ spi_pc' = "poll"

\* A bug to detect: a stale byte is not discarded.
CallWithStale == Arguments /\ UNCHANGED <<status, core, overrun>>

\* The target is selected and a stale byte read and thrown away.
Call == Arguments /\ RRDY' = FALSE /\ UNCHANGED <<status, tx, shift, rx, TMT, overrun>>

\* The status is read until there is something to do; it may be old when it is used.
Poll ==
  /\ spi_pc = "poll"
  /\ status' = [TRDY |-> TRDY, RRDY |-> RRDY]
  /\ spi_pc' = CASE TRDY /\ credits > 0 -> "send"
            [] ~(TRDY /\ credits > 0) /\ RRDY -> "receive"
            [] OTHER -> "poll"
  /\ UNCHANGED <<calls, args, locals, core, SSO, heard, overrun>>

Transmit(byte) ==
  /\ tx' = byte /\ TMT' = FALSE
  /\ overrun' = (overrun \/ ~TRDY)
  /\ UNCHANGED <<shift, rx, RRDY>>

AfterSend ==
  /\ spi_pc = "send" /\ spi_pc' = IF status.RRDY THEN "receive" ELSE "poll"
  /\ UNCHANGED <<calls, args, read_ignore, read, status, SSO, heard>>

\* A bug to detect: the credit is not used up.
SendFree ==
  /\ AfterSend /\ spi_written < write_length
  /\ Transmit(spi_written + 1)
  /\ spi_written' = spi_written + 1
  /\ UNCHANGED <<write_zeros, credits>>

SendData ==
  /\ AfterSend /\ spi_written < write_length
  /\ Transmit(spi_written + 1)
  /\ spi_written' = spi_written + 1 /\ credits' = credits - 1
  /\ UNCHANGED write_zeros

SendZero ==
  /\ AfterSend /\ spi_written = write_length /\ write_zeros > 0
  /\ Transmit(0)
  /\ write_zeros' = write_zeros - 1 /\ credits' = credits - 1
  /\ UNCHANGED spi_written

NothingToSend ==
  /\ AfterSend /\ spi_written = write_length /\ write_zeros = 0
  /\ credits' = -1024
  /\ UNCHANGED <<spi_written, write_zeros, core, overrun>>

TakeByte ==
  /\ spi_pc = "receive" /\ RRDY' = FALSE
  /\ IF read_ignore > 0
       THEN read_ignore' = read_ignore - 1 /\ UNCHANGED read
       ELSE read' = Append(read, rx) /\ UNCHANGED read_ignore
  /\ spi_pc' = IF read_ignore' = 0 /\ Len(read') = read_length THEN "drain" ELSE "poll"
  /\ UNCHANGED <<calls, args, spi_written, write_zeros, status, tx, shift, rx, TMT, SSO, heard,
                 overrun>>

\* A bug to detect: a byte that is ignored gives no credit back.
IgnoreCharged == TakeByte /\ credits' = IF read_ignore > 0 THEN credits ELSE credits + 1

\* The bytes that come in while write_data goes out are ignored.
Receive == TakeByte /\ credits' = credits + 1

\* A bug to detect: the last byte's end is not waited for.
DrainAtOnce ==
  /\ spi_pc = "drain" /\ spi_pc' = "release"
  /\ UNCHANGED <<calls, args, locals, status, core, SSO, heard, overrun>>

Drain ==
  /\ spi_pc = "drain" /\ TMT
  /\ spi_pc' = "release"
  /\ UNCHANGED <<calls, args, locals, status, core, SSO, heard, overrun>>

\* The caller may keep the target selected.
Release ==
  /\ spi_pc = "release" /\ spi_pc' = "idle"
  /\ SSO' = (SSO /\ merge)
  /\ UNCHANGED <<calls, args, locals, status, core, heard, overrun>>

Command ==
  \/ Call \/ Poll \/ SendData \/ SendZero \/ NothingToSend \/ Receive \/ Drain \/ Release

-----------------------------------------------------------------------------
(* The core                                                                *)

Load ==
  /\ tx # None /\ shift = None
  /\ shift' = tx /\ tx' = None
  /\ UNCHANGED <<spi_pc, calls, args, locals, status, rx, RRDY, TMT, SSO, heard, overrun>>

Shift ==
  /\ shift # None /\ shift' = None
  /\ heard' = Append(heard, shift)
  /\ rx' = Len(heard') /\ RRDY' = TRUE
  /\ overrun' = (overrun \/ RRDY)
  /\ UNCHANGED <<spi_pc, calls, args, locals, status, tx, TMT, SSO>>

\* TMT comes some time after the last bit.
Idle ==
  /\ ~TMT /\ tx = None /\ shift = None /\ TMT' = TRUE
  /\ UNCHANGED <<spi_pc, calls, args, locals, status, tx, shift, rx, RRDY, SSO, heard, overrun>>

Core == Load \/ Shift \/ Idle

SpiNext == Command \/ Core

SpiSpec == SpiInit /\ [][SpiNext]_spi_vars

\* The processor runs and so does the core's clock.
SpiFairSpec == SpiSpec /\ WF_spi_vars(Command) /\ WF_spi_vars(Core)

-----------------------------------------------------------------------------
(* Properties                                                              *)

Flags == {merge, toggle, RRDY, TMT, SSO, overrun} \subseteq BOOLEAN

Counters ==
  /\ calls \in Nat /\ write_length \in Nat /\ read_length \in Nat
  /\ spi_written \in 0 .. write_length /\ write_zeros \in 0 .. read_length
  /\ read_ignore \in 0 .. write_length /\ credits \in {-1024, 0, 1}

ByteTypes ==
  /\ tx \in Nat \union {None} /\ shift \in Nat \union {None} /\ rx \in Nat
  /\ heard \in Seq(Nat) /\ read \in Seq(Nat)

\* Every variable has its type; there is one credit or none, or nothing to do.
CommandTypes ==
  /\ spi_pc \in {"idle", "poll", "send", "receive", "drain", "release"}
  /\ Flags /\ Counters /\ ByteTypes
  /\ status \in [TRDY : BOOLEAN, RRDY : BOOLEAN]

\* No byte is written over one that was not taken, in either direction,
\* however late the processor looks.
NoOverrun == ~overrun

\* When a command has read its last byte the target got write_data and a zero
\* for each byte read, and the caller has the answers to those zeros.
Exchanged ==
  spi_pc \in {"drain", "release"} =>
    /\ heard = [k \in 1 .. write_length + read_length |-> IF k <= write_length THEN k ELSE 0]
    /\ read = [k \in 1 .. read_length |-> write_length + k]

\* The target is not released while the core still transmits.
ReleasedWhenIdle == [][SSO /\ ~SSO' => TMT]_spi_vars

\* A command returns, unless it is asked to do nothing.
CommandReturns == spi_pc = "poll" ~> (spi_pc = "idle" \/ write_length + read_length = 0)
=============================================================================
