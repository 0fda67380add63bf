------------------------------ MODULE HexDisplay ------------------------------
(***************************************************************************)
(* hex_message: the two registers of the six seven-segment displays, each  *)
(* a function from the shift of a byte to the character in it.  The        *)
(* registers are volatile: the displays show every step of the loop.       *)
(***************************************************************************)
EXTENDS Integers, Sequences

BLANK == "NUL"

HEX5_4_SHIFT_MAX == 8
HEX3_0_SHIFT_MAX == 24
WORD == 8
MAX_LENGTH == 6

Off == [hex5_4 |-> [shift \in {8, 0} |-> BLANK], hex3_0 |-> [shift \in {24, 16, 8, 0} |-> BLANK]]

\* Both registers are cleared first; a string that does not fit is not shown.
Cleared(string) ==
  IF Len(string) > MAX_LENGTH
  THEN [Off EXCEPT !.hex3_0 = [@ EXCEPT ![WORD * 2] = "e", ![WORD] = "r", ![0] = "r"]]
  ELSE Off

\* A character or-ed into a byte that has another one is neither.
Or(byte, char) == IF byte \in {BLANK, char} THEN char ELSE "garbled"

\* The i-th character.
Place(string, hex, i) ==
  IF i < 3
  THEN [hex EXCEPT !.hex5_4[HEX5_4_SHIFT_MAX - HEX5_4_SHIFT_MAX * (i - 1)] = Or(@, string[i])]
  ELSE [hex EXCEPT !.hex3_0[HEX3_0_SHIFT_MAX - (i - 3) * WORD] = Or(@, string[i])]

-----------------------------------------------------------------------------
(* What the displays should show                                           *)

\* The six displays, from left to right.
Shown(hex) == <<hex.hex5_4[8], hex.hex5_4[0],
                hex.hex3_0[24], hex.hex3_0[16], hex.hex3_0[8], hex.hex3_0[0]>>

\* The first n characters from the left, or "err" at the right if there is no room.
IsShown(string, n, hex) ==
  Shown(hex) = IF Len(string) > MAX_LENGTH THEN <<BLANK, BLANK, BLANK, "e", "r", "r">>
               ELSE [d \in 1 .. MAX_LENGTH |-> IF d <= n THEN string[d] ELSE BLANK]
=============================================================================
