------------------------------ MODULE MCDisplay ------------------------------
(* The two buffers alone, to show what the missing wait lets happen.       *)
EXTENDS Display
=============================================================================
