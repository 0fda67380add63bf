------------------------------- MODULE I2cSpeed -------------------------------
(***************************************************************************)
(* The I2C core's bus speed: the counts of clocks for which SCL is high    *)
(* and low, computed from a speed, written to the core and read back.      *)
(***************************************************************************)
EXTENDS Integers

CONSTANTS
  IP_FREQ_IN_HZ,               \* the core's clock
  FS_MAX_HZ, FS_MIN_HZ, SS_MIN_HZ,
  DIFF_LCNT_HCNT,
  U16                          \* 2^16: the counts are alt_u16

ASSUME I2cSpeedAssumption ==
  /\ IP_FREQ_IN_HZ \in Nat /\ U16 \in Nat \ {0} /\ DIFF_LCNT_HCNT \in Nat
  /\ SS_MIN_HZ \in Nat \ {0} /\ FS_MIN_HZ \in Nat /\ FS_MAX_HZ \in Nat
  /\ SS_MIN_HZ <= FS_MIN_HZ /\ FS_MIN_HZ <= FS_MAX_HZ

Counts == 0 .. U16 - 1
MasterConfig ==
  [speed_mode : {"STANDARD", "FAST"}, scl_hcnt : Counts, scl_lcnt : Counts, sda_cnt : Counts]

InRange(hz) == hz >= SS_MIN_HZ /\ hz <= FS_MAX_HZ

\* Half of SCL's period.
HalfPeriod(hz) == IP_FREQ_IN_HZ \div (2 * hz)

\* A bug to detect: the low count is not shorter by what the high one is longer.
SpeedLonger(hz) ==
  [speed_mode |-> IF hz > FS_MIN_HZ THEN "FAST" ELSE "STANDARD",
   scl_hcnt |-> (HalfPeriod(hz) + DIFF_LCNT_HCNT) % U16, scl_lcnt |-> HalfPeriod(hz) % U16,
   sda_cnt |-> HalfPeriod(hz) % U16]

\* A bug to detect: the counts are not cut to their fields.
SpeedUncut(hz) ==
  [speed_mode |-> IF hz > FS_MIN_HZ THEN "FAST" ELSE "STANDARD",
   scl_hcnt |-> HalfPeriod(hz) + DIFF_LCNT_HCNT, scl_lcnt |-> HalfPeriod(hz) - DIFF_LCNT_HCNT,
   sda_cnt |-> 1]

\* The configuration for a speed in range.  The counts are computed in 32 bits, of
\* which the configuration keeps 16.
speed_set(hz) ==
  LET lcnt == HalfPeriod(hz) - DIFF_LCNT_HCNT
      hcnt == HalfPeriod(hz) + DIFF_LCNT_HCNT
  IN  [speed_mode |-> IF hz > FS_MIN_HZ THEN "FAST" ELSE "STANDARD",
       scl_hcnt |-> hcnt % U16, scl_lcnt |-> lcnt % U16,
       sda_cnt |-> (lcnt - (lcnt \div 2)) % U16]

\* The speed of a configuration that has both counts.
HasSpeed(cfg) == cfg.scl_lcnt # 0 /\ cfg.scl_hcnt # 0
speed_get(cfg) == IP_FREQ_IN_HZ \div (cfg.scl_lcnt + cfg.scl_hcnt)

-----------------------------------------------------------------------------
(* What the counts should be                                               *)

\* Neither count is below 0, which with a clock that is fast enough no accepted speed's is.
Positive(hz) == HalfPeriod(hz) >= DIFF_LCNT_HCNT

\* The counts fit their fields, which the slowest of the accepted speeds' do not.
Fits(hz) == Positive(hz) /\ HalfPeriod(hz) + DIFF_LCNT_HCNT < U16

Period(cfg) == cfg.scl_lcnt + cfg.scl_hcnt

NotSlower(hz, cfg) == Period(cfg) * hz <= IP_FREQ_IN_HZ

\* The period is the longest of an even number of clocks that is not slower than hz.
BestPeriod(hz, cfg) == NotSlower(hz, cfg) /\ (Period(cfg) + 2) * hz > IP_FREQ_IN_HZ
=============================================================================
