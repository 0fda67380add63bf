\* A program that waits for the interrupt of a sequencer at rest waits for ever.
SPECIFICATION FairSpec
CONSTANTS
  WORDS = {0, 4095}
  CENTER_X = 119
  CENTER_Y = 120
  CALLBACKS = {"A", "B"}
INVARIANTS TypeOK
PROPERTIES SequencerObeys OwnContext CallReturns Announced
CHECK_DEADLOCK FALSE
