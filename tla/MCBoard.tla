-------------------------------- MODULE MCBoard --------------------------------
(* The numbers of system.h and lcd.h, small timers and registers, and      *)
(* inputs at and between the borders.                                      *)
EXTENDS Board

MessageStrings == UNION {[1 .. n -> Chars] : n \in 0 .. MAX_LENGTH + 1}

BorderSpeeds == {0, 1, 762, 763, 764, 765, 99999, 100000, 100001, 333333, 399999, 400000, 400001}

BorderAnswers ==
  LET bytes == {0, 1, 7, 8, 99, 100, 104, 105, 106, 255}
  IN  {<<answer, answer>> : answer \in bytes \X bytes}

NearHardware == [id : {0, 1}, timestamp : 0 .. 15]
=============================================================================
