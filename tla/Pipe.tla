-------------------------------- MODULE Pipe --------------------------------
(***************************************************************************)
(* What a circular buffer of the JTAG UART driver promises: a first-in     *)
(* first-out pipe of bounded capacity.  The characters of its stream are   *)
(* numbered 0, 1, 2, ...; queue holds what it keeps for each position from *)
(* the oldest that is waiting (got) to the newest (put - 1).               *)
(***************************************************************************)
EXTENDS Integers

CONSTANT CAPACITY

VARIABLES put, got, queue

vars == <<put, got, queue>>

Init == put = 0 /\ got = 0 /\ queue = [i \in 0 .. -1 |-> i]

\* k more characters of the stream.
Put(k) ==
  /\ put - got + k <= CAPACITY
  /\ put' = put + k
  /\ got' = got
  /\ queue' = [i \in got .. put + k - 1 |-> IF i < put THEN queue[i] ELSE i]

\* The k oldest characters leave, and they are the next of the stream.
Get(k) ==
  /\ k <= put - got
  /\ \A i \in got .. got + k - 1 : queue[i] = i
  /\ got' = got + k
  /\ put' = put
  /\ queue' = [i \in got + k .. put - 1 |-> queue[i]]

Next == \E k \in 1 .. CAPACITY : Put(k) \/ Get(k)

Spec == Init /\ [][Next]_vars
=============================================================================
