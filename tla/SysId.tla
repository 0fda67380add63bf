--------------------------------- MODULE SysId ---------------------------------
(***************************************************************************)
(* alt_avalon_sysid_qsys_test: is the program built for this hardware?     *)
(***************************************************************************)
EXTENDS Integers

CONSTANTS SYSID_ID, SYSID_TIMESTAMP, U32   \* U32: the words of a register, 2^32

ASSUME SysIdAssumption ==
  U32 \in Nat \ {0} /\ U32 % 2 = 0 /\ SYSID_ID \in 0 .. U32 - 1 /\ SYSID_TIMESTAMP \in 0 .. U32 - 1

\* A word as a signed number.
Alt32(n) == IF n % U32 < U32 \div 2 THEN n % U32 ELSE (n % U32) - U32

alt_avalon_sysid_qsys_test(hardware) ==
  IF hardware = [id |-> SYSID_ID, timestamp |-> SYSID_TIMESTAMP] THEN 0
  ELSE IF Alt32(hardware.timestamp - SYSID_TIMESTAMP) > 0 THEN 1 ELSE -1

-----------------------------------------------------------------------------
(* What the answer should be                                               *)

\* 0 for the hardware the program was built for, and otherwise the order of the two
\* times, if they are less than half the range apart.
IsInSync(hardware, answer) ==
  /\ answer = 0 <=> hardware.id = SYSID_ID /\ hardware.timestamp = SYSID_TIMESTAMP
  /\ (hardware.timestamp - SYSID_TIMESTAMP \in 1 - U32 \div 2 .. U32 \div 2 - 1) =>
       (answer = 1 <=> hardware.timestamp > SYSID_TIMESTAMP)
=============================================================================
