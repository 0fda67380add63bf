----------------------------- MODULE MCJtagUart -----------------------------
(* The driver with buffers of three characters.                            *)
EXTENDS JtagUart
=============================================================================
