------------------------------- MODULE MCGame -------------------------------
(* Instances of Game for TLC: the .cfg files give the constants, scaled    *)
(* down with the proportions that matter kept (see the README).            *)
EXTENDS Game
=============================================================================
