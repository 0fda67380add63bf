--------------------------------- MODULE MCAdc ---------------------------------
(* The smallest and the largest sample, and two callbacks.                 *)
EXTENDS Adc
=============================================================================
