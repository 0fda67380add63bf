------------------------------- MODULE AdcProofs -------------------------------
(***************************************************************************)
(* What the ADC's driver keeps to, for any samples, callbacks and timing   *)
(* of the sequencer and of the interrupt routine: the thread is the only   *)
(* one that starts the sequencer or changes its mode, so what a call has   *)
(* read or waited for still holds at its next step.                        *)
(***************************************************************************)
EXTENDS Adc, TLAPS

AllModes == Modes \union {"recalibrate"}

\* What TypeOK leaves out: the variables of the calls.
Locals ==
  /\ cmd.mode \in AllModes /\ asked \in AllModes
  /\ pc \in {"mode_read", "mode_write"} => arg \in Modes
  /\ pc \in {"callback", "context", "base", "clear", "enable", "disable",
     "clear_muted"} => arg \in Names

\* A sequencer that was stopped runs only to be recalibrated.
Held ==
  halted =>
    /\ run = "off" \/ (mode = "recalibrate" /\ pc = "poll")
    /\ pc = "mode_write" => ~cmd.run

\* Where adc_recalibrate is, what the sequencer does, and what the call knows of it.
Recalibrating ==
  /\ op = "recalibrate" => pc \in {"backup", "stop", "stopping", "request", "go", "poll", "restore"}
  /\ pc \in {"request", "go", "poll", "restore"} => op = "recalibrate"
  /\ op = "recalibrate" =>
       /\ pc \in {"backup", "stop", "stopping", "request"} => mode = asked
       /\ pc # "backup" => cmd.mode = asked
       /\ pc \in {"request", "go", "restore"} => run = "off"
       /\ pc \in {"go", "poll", "restore"} => mode = "recalibrate"
       /\ pc = "poll" => run = "on" \/ (run = "off" /\ calibrated)
       /\ pc = "restore" => calibrated

\* The context is the callback's, but while one of them is written.
Context ==
  IF pc = "context"
  THEN /\ dev.callback = arg
       /\ \/ swapping \/ arg = "NULL" \/ dev.context = dev.callback
          \/ ~irq_enable /\ ipc = "off"
  ELSE dev.context = dev.callback

IInv == TypeOK /\ Locals /\ Held /\ Recalibrating /\ Context

LEMMA Initially == Init => IInv
<1> SUFFICES ASSUME Init PROVE IInv
  OBVIOUS
<1>1. Flags
  <2>1. irq_status = FALSE /\ irq_enable = FALSE
    BY DEF Init
  <2>2. QED
    BY Zenon, <2>1 DEF Flags
<1>2. Ranges
  BY SMTT(30), AdcAssumption DEF Init, NoCmd, Ranges, Names, Modes, Labels
<1>3. Locals /\ Held /\ Recalibrating /\ Context
  BY DEF Init, NoCmd, Locals, Held, Recalibrating, Context, AllModes, Modes
<1>4. QED
  BY <1>1, <1>2, <1>3 DEF IInv, TypeOK

\* What a step may do to the store's flags.
FlagChange ==
  /\ \/ irq_status' = irq_status
     \/ irq_status' = FALSE
     \/ irq_status' = (irq_status \/ at = 1)
     \/ irq_status' = (irq_status /\ dev.base = "none")
  /\ irq_enable' = irq_enable \/ irq_enable' = TRUE \/ irq_enable' = FALSE

LEMMA FlagsStay == Flags /\ FlagChange => Flags'
BY Zenon DEF Flags, FlagChange

\* What a slot and a reading can hold is scaled to a byte.
LEMMA ReadingsScale == Ranges => \A j \in 0 .. 1 : readings[j] \div 16 \in 0 .. 255
<1>1. 0 .. 255 \union WORDS \subseteq 0 .. 4095
  BY AdcAssumption
<1>2. SUFFICES ASSUME Ranges, NEW j \in 0 .. 1 PROVE readings[j] \div 16 \in 0 .. 255
  OBVIOUS
<1>3. PICK w \in 0 .. 4095 : w = readings[j]
  BY <1>1, <1>2 DEF Ranges
<1>4. w \div 16 \in 0 .. 255
  OBVIOUS
<1>5. QED
  BY <1>3, <1>4

-----------------------------------------------------------------------------
(* Every step keeps each part of the invariant                             *)

LEMMA FlagChanges == [Next]_vars => FlagChange
<1> SUFFICES ASSUME [Next]_vars PROVE FlagChange
  OBVIOUS
<1> USE DEF FlagChange, store, thread, At
<1>1. CASE adc_start
  BY <1>1 DEF adc_start, Access, SEQUENCER_START, CMD_REG
<1>2. CASE adc_interrupt_enable
  BY <1>2 DEF adc_interrupt_enable, Access, IRQ_ENABLE
<1>3. CASE adc_interrupt_disable
  BY <1>3 DEF adc_interrupt_disable, Access, IRQ_DISABLE
<1>4. CASE adc_clear_interrupt_status
  BY <1>4 DEF adc_clear_interrupt_status, Access, CLEAR_IRQ_STATUS
<1>5. CASE adc_stop
  BY <1>5 DEF adc_stop, Begin, SEQUENCER_STOP, Goto, CMD_REG, Unaffected
<1>6. CASE adc_set_mode
  BY <1>6 DEF adc_set_mode, Begin, LoadCmd, Goto, SEQUENCER_MODE, CMD_REG, Unaffected
<1>7. CASE adc_recalibrate
  BY <1>7 DEF adc_recalibrate, Begin, LoadCmd, SEQUENCER_STOP, Goto, SEQUENCER_MODE,
     SEQUENCER_START, Restore, CMD_REG, Unaffected
<1>8. CASE adc_wait_for_interrupt
  BY <1>8 DEF adc_wait_for_interrupt, Begin, Goto, Unaffected
<1>9. CASE BeginRegister
  BY <1>9 DEF BeginRegister, Begin
<1>10. CASE SetCallback
  BY <1>10 DEF SetCallback, Register, Goto
<1>11. CASE SetContext
  BY <1>11 DEF SetContext, Register, Goto
<1>12. CASE SetBase
  BY <1>12 DEF SetBase, Register, Goto
<1>13. CASE Listen
  BY <1>13 DEF Listen, Register, Goto, CLEAR_IRQ_STATUS, IRQ_ENABLE
<1>14. CASE Mute
  BY <1>14 DEF Mute, Register, Goto, CLEAR_IRQ_STATUS, IRQ_DISABLE
<1>15. CASE joystick_read
  BY <1>15 DEF joystick_read, Begin, alt_adc_word_read, Goto, Scaled
<1>16. CASE IsrEnter
  BY <1>16 DEF IsrEnter, Pending
<1>17. CASE IsrCallback
  BY <1>17 DEF IsrCallback
<1>18. CASE IsrClear
  BY <1>18 DEF IsrClear
<1>19. CASE Convert
  BY <1>19 DEF Convert
<1>20. CASE Halt
  BY <1>20 DEF Halt
<1>21. CASE Calibrate
  BY <1>21 DEF Calibrate
<1>22. CASE UNCHANGED vars
  BY <1>22 DEF vars
<1>23. QED
  BY <1>1, <1>2, <1>3, <1>4, <1>5, <1>6, <1>7, <1>8, <1>9, <1>10, <1>11, <1>12, <1>13,
     <1>14, <1>15, <1>16, <1>17, <1>18, <1>19, <1>20, <1>21, <1>22
     DEF Next, Thread, Isr, Cores, alt_adc_register_callback

LEMMA RangesStep == IInv /\ [Next]_vars => Ranges'
<1> SUFFICES ASSUME IInv, [Next]_vars PROVE Ranges'
  OBVIOUS
<1> USE AdcAssumption DEF IInv, TypeOK, Ranges, Locals, Modes, AllModes, Names, Labels, RUN,
   sequencer, store, stick, thread, At
<1>1. CASE adc_start
  BY <1>1 DEF adc_start, Access, SEQUENCER_START, CMD_REG
<1>2. CASE adc_interrupt_enable
  BY <1>2 DEF adc_interrupt_enable, Access, IRQ_ENABLE
<1>3. CASE adc_interrupt_disable
  BY <1>3 DEF adc_interrupt_disable, Access, IRQ_DISABLE
<1>4. CASE adc_clear_interrupt_status
  BY <1>4 DEF adc_clear_interrupt_status, Access, CLEAR_IRQ_STATUS
<1>5. CASE adc_stop
  BY <1>5 DEF adc_stop, Begin, SEQUENCER_STOP, Goto, CMD_REG, Unaffected
<1>6. CASE adc_set_mode
  BY <1>6 DEF adc_set_mode, Begin, LoadCmd, Goto, SEQUENCER_MODE, CMD_REG, Unaffected
<1>7. CASE adc_recalibrate
  BY <1>7 DEF adc_recalibrate, Begin, LoadCmd, SEQUENCER_STOP, Goto, SEQUENCER_MODE,
     SEQUENCER_START, Restore, CMD_REG, Unaffected
<1>8. CASE adc_wait_for_interrupt
  BY <1>8 DEF adc_wait_for_interrupt, Begin, Goto, Unaffected
<1>9. CASE BeginRegister
  BY <1>9 DEF BeginRegister, Begin
<1>10. CASE SetCallback
  BY <1>10 DEF SetCallback, Register, Goto
<1>11. CASE SetContext
  BY <1>11 DEF SetContext, Register, Goto
<1>12. CASE SetBase
  BY <1>12 DEF SetBase, Register, Goto
<1>13. CASE Listen
  BY <1>13 DEF Listen, Register, Goto, CLEAR_IRQ_STATUS, IRQ_ENABLE
<1>14. CASE Mute
  BY <1>14 DEF Mute, Register, Goto, CLEAR_IRQ_STATUS, IRQ_DISABLE
<1>15. CASE joystick_read
  <2>1. CASE pc = "idle"
    BY <1>15, <2>1 DEF joystick_read, Begin, alt_adc_word_read, Goto, Scaled
  <2>2. CASE pc = "word_0"
    BY <1>15, <2>2 DEF joystick_read, Begin, alt_adc_word_read, Goto, Scaled
  <2>3. CASE pc = "word_1"
    BY <1>15, <2>3 DEF joystick_read, Begin, alt_adc_word_read, Goto, Scaled
  <2>4. CASE pc = "scale"
    <3> DEFINE r(j) == readings'[j]
    <3>1. /\ readings' = [j \in 0 .. 1 |-> readings[j] \div 16]
          /\ joystick' = [x |-> r(0), y |-> r(1), offset_x |-> r(0) - CENTER_X,
             offset_y |-> r(1) - CENTER_Y]
          /\ UNCHANGED <<dev, run, mode, at, slot, ipc>> /\ arg' \in {arg, "NULL"} /\ pc' = "idle"
      BY <1>15, <2>4 DEF joystick_read, Begin, alt_adc_word_read, Goto, Scaled
    <3>2. \A j \in 0 .. 1 : readings[j] \div 16 \in 0 .. 255
      BY ReadingsScale
    <3>3. r(0) \in 0 .. 255 /\ r(1) \in 0 .. 255 /\ readings' \in [0 .. 1 -> 0 .. 255 \union WORDS]
      BY ONLY <3>1, <3>2
    <3> HIDE DEF r
    <3>4. /\ joystick'.x \in 0 .. 255 /\ joystick'.offset_x \in -CENTER_X .. 255 - CENTER_X
          /\ joystick'.y \in 0 .. 255 /\ joystick'.offset_y \in -CENTER_Y .. 255 - CENTER_Y
      <4>1. CENTER_X \in Int /\ CENTER_Y \in Int
        OBVIOUS
      <4>2. /\ joystick'.x = r(0) /\ joystick'.offset_x = r(0) - CENTER_X
            /\ joystick'.y = r(1) /\ joystick'.offset_y = r(1) - CENTER_Y
        BY ONLY <3>1
      <4>3. QED
        BY ONLY <3>3, <4>1, <4>2
    <3>5. arg' \in Names \union Modes
      BY <3>1
    <3>6. QED
      BY ONLY Ranges, <3>1, <3>3, <3>4, <3>5
  <2>5. QED
    BY <1>15, <2>1, <2>2, <2>3, <2>4 DEF joystick_read, Begin, alt_adc_word_read, Goto, Scaled
<1>16. CASE IsrEnter
  BY <1>16 DEF IsrEnter, Pending
<1>17. CASE IsrCallback
  BY <1>17 DEF IsrCallback
<1>18. CASE IsrClear
  BY <1>18 DEF IsrClear
<1>19. CASE Convert
  BY <1>19 DEF Convert
<1>20. CASE Halt
  BY <1>20 DEF Halt
<1>21. CASE Calibrate
  BY <1>21 DEF Calibrate
<1>22. CASE UNCHANGED vars
  BY <1>22 DEF vars
<1>23. QED
  BY <1>1, <1>2, <1>3, <1>4, <1>5, <1>6, <1>7, <1>8, <1>9, <1>10, <1>11, <1>12, <1>13,
     <1>14, <1>15, <1>16, <1>17, <1>18, <1>19, <1>20, <1>21, <1>22
     DEF Next, Thread, Isr, Cores, alt_adc_register_callback

LEMMA LocalsStep == IInv /\ [Next]_vars => Locals'
<1> SUFFICES ASSUME IInv, [Next]_vars PROVE Locals'
  OBVIOUS
<1> USE DEF IInv, TypeOK, Ranges, Locals, Recalibrating, Modes, AllModes, Names, RUN, NoCmd,
   sequencer, store, stick, thread, At
<1>1. CASE adc_start
  BY <1>1 DEF adc_start, Access, SEQUENCER_START, CMD_REG
<1>2. CASE adc_interrupt_enable
  BY <1>2 DEF adc_interrupt_enable, Access, IRQ_ENABLE
<1>3. CASE adc_interrupt_disable
  BY <1>3 DEF adc_interrupt_disable, Access, IRQ_DISABLE
<1>4. CASE adc_clear_interrupt_status
  BY <1>4 DEF adc_clear_interrupt_status, Access, CLEAR_IRQ_STATUS
<1>5. CASE adc_stop
  BY <1>5 DEF adc_stop, Begin, SEQUENCER_STOP, Goto, CMD_REG, Unaffected
<1>6. CASE adc_set_mode
  BY <1>6 DEF adc_set_mode, Begin, LoadCmd, Goto, SEQUENCER_MODE, CMD_REG, Unaffected
<1>7. CASE adc_recalibrate
  BY <1>7 DEF adc_recalibrate, Begin, LoadCmd, SEQUENCER_STOP, Goto, SEQUENCER_MODE,
     SEQUENCER_START, Restore, CMD_REG, Unaffected
<1>8. CASE adc_wait_for_interrupt
  BY <1>8 DEF adc_wait_for_interrupt, Begin, Goto, Unaffected
<1>9. CASE BeginRegister
  BY <1>9 DEF BeginRegister, Begin
<1>10. CASE SetCallback
  BY <1>10 DEF SetCallback, Register, Goto
<1>11. CASE SetContext
  BY <1>11 DEF SetContext, Register, Goto
<1>12. CASE SetBase
  BY <1>12 DEF SetBase, Register, Goto
<1>13. CASE Listen
  BY <1>13 DEF Listen, Register, Goto, CLEAR_IRQ_STATUS, IRQ_ENABLE
<1>14. CASE Mute
  BY <1>14 DEF Mute, Register, Goto, CLEAR_IRQ_STATUS, IRQ_DISABLE
<1>15. CASE joystick_read
  BY <1>15 DEF joystick_read, Begin, alt_adc_word_read, Goto, Scaled
<1>16. CASE IsrEnter
  BY <1>16 DEF IsrEnter, Pending
<1>17. CASE IsrCallback
  BY <1>17 DEF IsrCallback
<1>18. CASE IsrClear
  BY <1>18 DEF IsrClear
<1>19. CASE Convert
  BY <1>19 DEF Convert
<1>20. CASE Halt
  BY <1>20 DEF Halt
<1>21. CASE Calibrate
  BY <1>21 DEF Calibrate
<1>22. CASE UNCHANGED vars
  BY <1>22 DEF vars
<1>23. QED
  BY <1>1, <1>2, <1>3, <1>4, <1>5, <1>6, <1>7, <1>8, <1>9, <1>10, <1>11, <1>12, <1>13,
     <1>14, <1>15, <1>16, <1>17, <1>18, <1>19, <1>20, <1>21, <1>22
     DEF Next, Thread, Isr, Cores, alt_adc_register_callback

LEMMA HeldStep == IInv /\ [Next]_vars => Held'
<1> SUFFICES ASSUME IInv, [Next]_vars PROVE Held'
  OBVIOUS
<1> USE DEF IInv, Held, Recalibrating, RUN, sequencer, store, stick, thread, At
<1>1. CASE adc_start
  BY <1>1 DEF adc_start, Access, SEQUENCER_START, CMD_REG
<1>2. CASE adc_interrupt_enable
  BY <1>2 DEF adc_interrupt_enable, Access, IRQ_ENABLE
<1>3. CASE adc_interrupt_disable
  BY <1>3 DEF adc_interrupt_disable, Access, IRQ_DISABLE
<1>4. CASE adc_clear_interrupt_status
  BY <1>4 DEF adc_clear_interrupt_status, Access, CLEAR_IRQ_STATUS
<1>5. CASE adc_stop
  BY <1>5 DEF adc_stop, Begin, SEQUENCER_STOP, Goto, CMD_REG, Unaffected
<1>6. CASE adc_set_mode
  <2>1. CASE pc = "idle"
    BY <1>6, <2>1 DEF adc_set_mode, Begin, LoadCmd, Goto, SEQUENCER_MODE, CMD_REG, Unaffected
  <2>2. CASE pc = "mode_read"
    <3>1. halted' = halted /\ run' = run /\ cmd' = [run |-> run # "off", mode |-> mode]
      BY <1>6, <2>2 DEF adc_set_mode, Begin, LoadCmd, Goto, Unaffected
    <3>2. run = "off" => ~cmd'.run
      BY Zenon, <3>1
    <3>3. QED
      BY <3>1, <3>2, <2>2
  <2>3. CASE pc = "mode_write"
    BY <1>6, <2>3 DEF adc_set_mode, Begin, LoadCmd, Goto, SEQUENCER_MODE, CMD_REG, Unaffected
  <2>4. QED
    BY <1>6, <2>1, <2>2, <2>3 DEF adc_set_mode, Begin, LoadCmd, Goto, SEQUENCER_MODE, CMD_REG,
       Unaffected
<1>7. CASE adc_recalibrate
  BY <1>7 DEF adc_recalibrate, Begin, LoadCmd, SEQUENCER_STOP, Goto, SEQUENCER_MODE,
     SEQUENCER_START, Restore, CMD_REG, Unaffected
<1>8. CASE adc_wait_for_interrupt
  BY <1>8 DEF adc_wait_for_interrupt, Begin, Goto, Unaffected
<1>9. CASE BeginRegister
  BY <1>9 DEF BeginRegister, Begin
<1>10. CASE SetCallback
  BY <1>10 DEF SetCallback, Register, Goto
<1>11. CASE SetContext
  BY <1>11 DEF SetContext, Register, Goto
<1>12. CASE SetBase
  BY <1>12 DEF SetBase, Register, Goto
<1>13. CASE Listen
  BY <1>13 DEF Listen, Register, Goto, CLEAR_IRQ_STATUS, IRQ_ENABLE
<1>14. CASE Mute
  BY <1>14 DEF Mute, Register, Goto, CLEAR_IRQ_STATUS, IRQ_DISABLE
<1>15. CASE joystick_read
  BY <1>15 DEF joystick_read, Begin, alt_adc_word_read, Goto, Scaled
<1>16. CASE IsrEnter
  BY <1>16 DEF IsrEnter, Pending
<1>17. CASE IsrCallback
  BY <1>17 DEF IsrCallback
<1>18. CASE IsrClear
  BY <1>18 DEF IsrClear
<1>19. CASE Convert
  BY <1>19 DEF Convert
<1>20. CASE Halt
  BY <1>20 DEF Halt
<1>21. CASE Calibrate
  BY <1>21 DEF Calibrate
<1>22. CASE UNCHANGED vars
  BY <1>22 DEF vars
<1>23. QED
  BY <1>1, <1>2, <1>3, <1>4, <1>5, <1>6, <1>7, <1>8, <1>9, <1>10, <1>11, <1>12, <1>13,
     <1>14, <1>15, <1>16, <1>17, <1>18, <1>19, <1>20, <1>21, <1>22
     DEF Next, Thread, Isr, Cores, alt_adc_register_callback

LEMMA RecalibratingStep == IInv /\ [Next]_vars => Recalibrating'
<1> SUFFICES ASSUME IInv, [Next]_vars PROVE Recalibrating'
  OBVIOUS
<1> USE DEF IInv, TypeOK, Ranges, Recalibrating, RUN, sequencer, store, stick, thread, At
<1>1. CASE adc_start
  BY <1>1 DEF adc_start, Access, SEQUENCER_START, CMD_REG
<1>2. CASE adc_interrupt_enable
  BY <1>2 DEF adc_interrupt_enable, Access, IRQ_ENABLE
<1>3. CASE adc_interrupt_disable
  BY <1>3 DEF adc_interrupt_disable, Access, IRQ_DISABLE
<1>4. CASE adc_clear_interrupt_status
  BY <1>4 DEF adc_clear_interrupt_status, Access, CLEAR_IRQ_STATUS
<1>5. CASE adc_stop
  BY <1>5 DEF adc_stop, Begin, SEQUENCER_STOP, Goto, CMD_REG, Unaffected
<1>6. CASE adc_set_mode
  BY <1>6 DEF adc_set_mode, Begin, LoadCmd, Goto, SEQUENCER_MODE, CMD_REG, Unaffected
<1>7. CASE adc_recalibrate
  BY <1>7 DEF adc_recalibrate, Begin, LoadCmd, SEQUENCER_STOP, Goto, SEQUENCER_MODE,
     SEQUENCER_START, Restore, CMD_REG, Unaffected
<1>8. CASE adc_wait_for_interrupt
  BY <1>8 DEF adc_wait_for_interrupt, Begin, Goto, Unaffected
<1>9. CASE BeginRegister
  BY <1>9 DEF BeginRegister, Begin
<1>10. CASE SetCallback
  BY <1>10 DEF SetCallback, Register, Goto
<1>11. CASE SetContext
  BY <1>11 DEF SetContext, Register, Goto
<1>12. CASE SetBase
  BY <1>12 DEF SetBase, Register, Goto
<1>13. CASE Listen
  BY <1>13 DEF Listen, Register, Goto, CLEAR_IRQ_STATUS, IRQ_ENABLE
<1>14. CASE Mute
  BY <1>14 DEF Mute, Register, Goto, CLEAR_IRQ_STATUS, IRQ_DISABLE
<1>15. CASE joystick_read
  BY <1>15 DEF joystick_read, Begin, alt_adc_word_read, Goto, Scaled
<1>16. CASE IsrEnter
  BY <1>16 DEF IsrEnter, Pending
<1>17. CASE IsrCallback
  BY <1>17 DEF IsrCallback
<1>18. CASE IsrClear
  BY <1>18 DEF IsrClear
<1>19. CASE Convert
  BY <1>19 DEF Convert
<1>20. CASE Halt
  BY <1>20 DEF Halt
<1>21. CASE Calibrate
  BY <1>21 DEF Calibrate
<1>22. CASE UNCHANGED vars
  BY <1>22 DEF vars
<1>23. QED
  BY <1>1, <1>2, <1>3, <1>4, <1>5, <1>6, <1>7, <1>8, <1>9, <1>10, <1>11, <1>12, <1>13,
     <1>14, <1>15, <1>16, <1>17, <1>18, <1>19, <1>20, <1>21, <1>22
     DEF Next, Thread, Isr, Cores, alt_adc_register_callback

LEMMA ContextStep == IInv /\ [Next]_vars => Context'
<1> SUFFICES ASSUME IInv, [Next]_vars PROVE Context'
  OBVIOUS
<1> USE DEF IInv, TypeOK, Flags, Ranges, Locals, Context, Names, sequencer, store, stick, thread, At
<1>1. CASE adc_start
  BY <1>1 DEF adc_start, Access, SEQUENCER_START, CMD_REG
<1>2. CASE adc_interrupt_enable
  BY <1>2 DEF adc_interrupt_enable, Access, IRQ_ENABLE
<1>3. CASE adc_interrupt_disable
  BY <1>3 DEF adc_interrupt_disable, Access, IRQ_DISABLE
<1>4. CASE adc_clear_interrupt_status
  BY <1>4 DEF adc_clear_interrupt_status, Access, CLEAR_IRQ_STATUS
<1>5. CASE adc_stop
  BY <1>5 DEF adc_stop, Begin, SEQUENCER_STOP, Goto, CMD_REG, Unaffected
<1>6. CASE adc_set_mode
  BY <1>6 DEF adc_set_mode, Begin, LoadCmd, Goto, SEQUENCER_MODE, CMD_REG, Unaffected
<1>7. CASE adc_recalibrate
  BY <1>7 DEF adc_recalibrate, Begin, LoadCmd, SEQUENCER_STOP, Goto, SEQUENCER_MODE,
     SEQUENCER_START, Restore, CMD_REG, Unaffected
<1>8. CASE adc_wait_for_interrupt
  BY <1>8 DEF adc_wait_for_interrupt, Begin, Goto, Unaffected
<1>9. CASE BeginRegister
  BY <1>9 DEF BeginRegister, Begin
<1>10. CASE SetCallback
  BY <1>10 DEF SetCallback, Register, Goto
<1>11. CASE SetContext
  BY <1>11 DEF SetContext, Register, Goto
<1>12. CASE SetBase
  BY <1>12 DEF SetBase, Register, Goto
<1>13. CASE Listen
  BY <1>13 DEF Listen, Register, Goto, CLEAR_IRQ_STATUS, IRQ_ENABLE
<1>14. CASE Mute
  BY <1>14 DEF Mute, Register, Goto, CLEAR_IRQ_STATUS, IRQ_DISABLE
<1>15. CASE joystick_read
  BY <1>15 DEF joystick_read, Begin, alt_adc_word_read, Goto, Scaled
<1>16. CASE IsrEnter
  BY <1>16 DEF IsrEnter, Pending
<1>17. CASE IsrCallback
  BY <1>17 DEF IsrCallback
<1>18. CASE IsrClear
  BY <1>18 DEF IsrClear
<1>19. CASE Convert
  BY <1>19 DEF Convert
<1>20. CASE Halt
  BY <1>20 DEF Halt
<1>21. CASE Calibrate
  BY <1>21 DEF Calibrate
<1>22. CASE UNCHANGED vars
  BY <1>22 DEF vars
<1>23. QED
  BY <1>1, <1>2, <1>3, <1>4, <1>5, <1>6, <1>7, <1>8, <1>9, <1>10, <1>11, <1>12, <1>13,
     <1>14, <1>15, <1>16, <1>17, <1>18, <1>19, <1>20, <1>21, <1>22
     DEF Next, Thread, Isr, Cores, alt_adc_register_callback

-----------------------------------------------------------------------------
(* What a step may not do                                                  *)

LEMMA StillStep == IInv /\ [Next]_vars => StoppedStill
<1> SUFFICES ASSUME IInv, [Next]_vars PROVE StoppedStill
  OBVIOUS
<1> USE DEF StoppedStill, IInv, Held, Recalibrating, RUN, sequencer, store, stick, thread, At
<1>1. CASE adc_start
  BY <1>1 DEF adc_start, Access, SEQUENCER_START, CMD_REG
<1>2. CASE adc_interrupt_enable
  BY <1>2 DEF adc_interrupt_enable, Access, IRQ_ENABLE
<1>3. CASE adc_interrupt_disable
  BY <1>3 DEF adc_interrupt_disable, Access, IRQ_DISABLE
<1>4. CASE adc_clear_interrupt_status
  BY <1>4 DEF adc_clear_interrupt_status, Access, CLEAR_IRQ_STATUS
<1>5. CASE adc_stop
  BY <1>5 DEF adc_stop, Begin, SEQUENCER_STOP, Goto, CMD_REG, Unaffected
<1>6. CASE adc_set_mode
  BY <1>6 DEF adc_set_mode, Begin, LoadCmd, Goto, SEQUENCER_MODE, CMD_REG, Unaffected
<1>7. CASE adc_recalibrate
  BY <1>7 DEF adc_recalibrate, Begin, LoadCmd, SEQUENCER_STOP, Goto, SEQUENCER_MODE,
     SEQUENCER_START, Restore, CMD_REG, Unaffected
<1>8. CASE adc_wait_for_interrupt
  BY <1>8 DEF adc_wait_for_interrupt, Begin, Goto, Unaffected
<1>9. CASE BeginRegister
  BY <1>9 DEF BeginRegister, Begin
<1>10. CASE SetCallback
  BY <1>10 DEF SetCallback, Register, Goto
<1>11. CASE SetContext
  BY <1>11 DEF SetContext, Register, Goto
<1>12. CASE SetBase
  BY <1>12 DEF SetBase, Register, Goto
<1>13. CASE Listen
  BY <1>13 DEF Listen, Register, Goto, CLEAR_IRQ_STATUS, IRQ_ENABLE
<1>14. CASE Mute
  BY <1>14 DEF Mute, Register, Goto, CLEAR_IRQ_STATUS, IRQ_DISABLE
<1>15. CASE joystick_read
  BY <1>15 DEF joystick_read, Begin, alt_adc_word_read, Goto, Scaled
<1>16. CASE IsrEnter
  BY <1>16 DEF IsrEnter, Pending
<1>17. CASE IsrCallback
  BY <1>17 DEF IsrCallback
<1>18. CASE IsrClear
  BY <1>18 DEF IsrClear
<1>19. CASE Convert
  BY <1>19 DEF Convert
<1>20. CASE Halt
  BY <1>20 DEF Halt
<1>21. CASE Calibrate
  BY <1>21 DEF Calibrate
<1>22. CASE UNCHANGED vars
  BY <1>22 DEF vars
<1>23. QED
  BY <1>1, <1>2, <1>3, <1>4, <1>5, <1>6, <1>7, <1>8, <1>9, <1>10, <1>11, <1>12, <1>13,
     <1>14, <1>15, <1>16, <1>17, <1>18, <1>19, <1>20, <1>21, <1>22
     DEF Next, Thread, Isr, Cores, alt_adc_register_callback

LEMMA DoneStep == IInv /\ [Next]_vars => Recalibrated
<1> SUFFICES ASSUME IInv, [Next]_vars PROVE Recalibrated
  OBVIOUS
<1> USE DEF Recalibrated, IInv, TypeOK, Ranges, Recalibrating, RUN, sequencer, store, stick,
   thread, At
<1>1. CASE adc_start
  BY <1>1 DEF adc_start, Access, SEQUENCER_START, CMD_REG
<1>2. CASE adc_interrupt_enable
  BY <1>2 DEF adc_interrupt_enable, Access, IRQ_ENABLE
<1>3. CASE adc_interrupt_disable
  BY <1>3 DEF adc_interrupt_disable, Access, IRQ_DISABLE
<1>4. CASE adc_clear_interrupt_status
  BY <1>4 DEF adc_clear_interrupt_status, Access, CLEAR_IRQ_STATUS
<1>5. CASE adc_stop
  BY <1>5 DEF adc_stop, Begin, SEQUENCER_STOP, Goto, CMD_REG, Unaffected
<1>6. CASE adc_set_mode
  BY <1>6 DEF adc_set_mode, Begin, LoadCmd, Goto, SEQUENCER_MODE, CMD_REG, Unaffected
<1>7. CASE adc_recalibrate
  BY <1>7 DEF adc_recalibrate, Begin, LoadCmd, SEQUENCER_STOP, Goto, SEQUENCER_MODE,
     SEQUENCER_START, Restore, CMD_REG, Unaffected
<1>8. CASE adc_wait_for_interrupt
  BY <1>8 DEF adc_wait_for_interrupt, Begin, Goto, Unaffected
<1>9. CASE BeginRegister
  BY <1>9 DEF BeginRegister, Begin
<1>10. CASE SetCallback
  BY <1>10 DEF SetCallback, Register, Goto
<1>11. CASE SetContext
  BY <1>11 DEF SetContext, Register, Goto
<1>12. CASE SetBase
  BY <1>12 DEF SetBase, Register, Goto
<1>13. CASE Listen
  BY <1>13 DEF Listen, Register, Goto, CLEAR_IRQ_STATUS, IRQ_ENABLE
<1>14. CASE Mute
  BY <1>14 DEF Mute, Register, Goto, CLEAR_IRQ_STATUS, IRQ_DISABLE
<1>15. CASE joystick_read
  BY <1>15 DEF joystick_read, Begin, alt_adc_word_read, Goto, Scaled
<1>16. CASE IsrEnter
  BY <1>16 DEF IsrEnter, Pending
<1>17. CASE IsrCallback
  BY <1>17 DEF IsrCallback
<1>18. CASE IsrClear
  BY <1>18 DEF IsrClear
<1>19. CASE Convert
  BY <1>19 DEF Convert
<1>20. CASE Halt
  BY <1>20 DEF Halt
<1>21. CASE Calibrate
  BY <1>21 DEF Calibrate
<1>22. CASE UNCHANGED vars
  BY <1>22 DEF vars
<1>23. QED
  BY <1>1, <1>2, <1>3, <1>4, <1>5, <1>6, <1>7, <1>8, <1>9, <1>10, <1>11, <1>12, <1>13,
     <1>14, <1>15, <1>16, <1>17, <1>18, <1>19, <1>20, <1>21, <1>22
     DEF Next, Thread, Isr, Cores, alt_adc_register_callback

-----------------------------------------------------------------------------
(* Theorems                                                                *)

LEMMA Inductive == IInv /\ [Next]_vars => IInv'
<1> SUFFICES ASSUME IInv, [Next]_vars PROVE IInv'
  OBVIOUS
<1>1. Flags'
  BY FlagChanges, FlagsStay DEF IInv, TypeOK
<1>2. QED
  BY <1>1, RangesStep, LocalsStep, HeldStep, RecalibratingStep, ContextStep DEF IInv, TypeOK

LEMMA Always == Spec => []IInv
BY Initially, Inductive, PTL DEF Spec

\* The types hold: what adc_read leaves has 8 bits, and the joystick's offsets are those
\* of such readings, for any rest and any samples of 12 bits.
THEOREM AdcTypes == Spec => []TypeOK
<1>1. IInv => TypeOK
  BY DEF IInv
<1>2. QED
  BY <1>1, Always, PTL

\* alt_adc_irq calls a callback with its own context, unless that callback replaces
\* another one, or none, while the interrupt is enabled.
THEOREM AdcOwnContext == Spec => OwnContext
<1> DEFINE Own == ipc = "callback" /\ ipc' = "clear" /\ dev.callback # "NULL" =>
                    swapping \/ dev.context = dev.callback
<1>1. IInv /\ [Next]_vars => [Own]_vars
  BY DEF IInv, Context
<1> HIDE DEF Own
<1>2. Spec => [][Own]_vars
  BY <1>1, Always, PTL DEF Spec
<1>3. QED
  BY <1>2 DEF OwnContext, Own

\* After adc_stop no sample changes until the sequencer is started; adc_recalibrate
\* returns with the ADC recalibrated and in the mode it had.
THEOREM AdcObeys == Spec => SequencerObeys
<1> DEFINE Obeys == StoppedStill /\ Recalibrated
<1>1. IInv /\ [Next]_vars => [Obeys]_vars
  BY StillStep, DoneStep DEF StoppedStill, Recalibrated
<1> HIDE DEF Obeys
<1>2. Spec => [][Obeys]_vars
  BY <1>1, Always, PTL DEF Spec
<1>3. QED
  BY <1>2 DEF SequencerObeys, Obeys
================================================================================
