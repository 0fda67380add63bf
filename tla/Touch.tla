--------------------------------- MODULE Touch ---------------------------------
(***************************************************************************)
(* The touch position of lcd.c: two answers of the touch controller, each  *)
(* of two bytes, made a position on the screen.                            *)
(***************************************************************************)
EXTENDS Integers

CONSTANTS WIDTH, HEIGHT, MAX_X, MAX_Y, NO_TOUCH_X

ASSUME TouchAssumption ==
  /\ {WIDTH, HEIGHT, NO_TOUCH_X} \subseteq Nat
  /\ {MAX_X, MAX_Y} \subseteq Nat \ {0}
  /\ WIDTH < NO_TOUCH_X    \* a position on the screen counts as a touch

Abs(n) == IF n < 0 THEN -n ELSE n

\* recieve[0] << 5 | recieve[1] >> 3
Reading(recieve) == recieve[1] * 32 + recieve[2] \div 8

\* y is turned round.
follow_touch(getx, gety) ==
  [xtouch |-> (Reading(getx) * WIDTH) \div MAX_X,
   ytouch |-> Abs((Reading(gety) * HEIGHT) \div MAX_Y - HEIGHT)]

isTouching(touch) == touch.xtouch < NO_TOUCH_X

-----------------------------------------------------------------------------
(* What the position should be                                             *)

\* Readings up to the largest ones of the panel are positions from corner to corner,
\* within a pixel of the exact one, and these count as touches.
IsPosition(getx, gety, touch) ==
  Reading(getx) <= MAX_X /\ Reading(gety) <= MAX_Y =>
    /\ touch.xtouch \in 0 .. WIDTH /\ touch.ytouch \in 0 .. HEIGHT /\ isTouching(touch)
    /\ Abs(touch.xtouch * MAX_X - Reading(getx) * WIDTH) < MAX_X
    /\ Abs((HEIGHT - touch.ytouch) * MAX_Y - Reading(gety) * HEIGHT) < MAX_Y
=============================================================================
