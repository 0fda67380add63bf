-------------------------------- MODULE Screen --------------------------------
(***************************************************************************)
(* What two buffers promise the game whatever the pace of the refreshes:   *)
(* two sheets, one with the picture handed over last and one to draw the   *)
(* next on.  Pictures are numbered 1, 2, ... in the order in which they    *)
(* are handed over; 0 is black.  A viewer watches one of the sheets and    *)
(* changes over to the other only when he has been asked to since he last  *)
(* did: what he sees may be the draft, but is never an older picture.      *)
(***************************************************************************)
EXTENDS Integers

CONSTANTS Nothing, Torn   \* no picture yet, and a picture in the making

VARIABLES
  latest, draft,   \* the two sheets
  newest,          \* number of the last picture that was handed over
  watched,         \* the sheet the viewer watches
  asked            \* whether the viewer is to change over

vars == <<latest, draft, newest, watched, asked>>

Init ==
  /\ latest = Nothing /\ draft = Nothing /\ newest = 0
  /\ watched = "nothing" /\ asked = FALSE

TurnOn ==
  /\ watched = "nothing" /\ watched' = "latest"
  /\ latest' = 0 /\ draft' = Torn
  /\ UNCHANGED <<newest, asked>>

Other(sheet) == IF sheet = "latest" THEN "draft" ELSE "latest"

Draw ==
  /\ watched # "nothing"
  /\ draft' \in {Torn, newest + 1}
  /\ UNCHANGED <<latest, newest, watched, asked>>

\* The next picture, whole; the viewer goes on watching the same sheet.
HandOver ==
  /\ draft = newest + 1 /\ newest' = newest + 1
  /\ latest' = draft /\ draft' = latest
  /\ watched' = Other(watched) /\ asked' = TRUE

ChangeOver ==
  /\ asked /\ asked' = FALSE
  /\ watched' = Other(watched)
  /\ UNCHANGED <<latest, draft, newest>>

Blacken ==
  /\ watched # "nothing"
  /\ latest' = 0
  /\ UNCHANGED <<draft, newest, watched, asked>>

Next == TurnOn \/ Draw \/ HandOver \/ ChangeOver \/ Blacken

Spec == Init /\ [][Next]_vars
===============================================================================
