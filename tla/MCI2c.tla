--------------------------------- MODULE MCI2c ---------------------------------
(* FIFOs of two, so that they fill in calls of two and three bytes.        *)
EXTENDS I2c
=============================================================================
