\* A screen of 6 by 5 in 16-bit consecutive mode, whose rows follow each other
\* without a gap as in the memory lcd_init allocates; twelve frames; three commands.
SPECIFICATION PanelSpec
CONSTANTS
  x_resolution = 6
  y_resolution = 5
  BYTES = 2
  XY = FALSE
  ROW = 16
  WORD = 16
  Coords <- AroundCoords
  Functions = {"draw", "clear_screen", "draw_box", "draw_hline", "draw_vline", "draw_rectangle", "draw_line"}
  MAX_FRAMES = 12
  MAX_LENGTH = 2
  MAX_CALLS = 3
INVARIANTS TypeOK WritesInBuffer ShapesComplete LineDrawn
INVARIANTS ScreenTypes BuffersAgree ShownIsRecent
INVARIANTS CommandTypes NoOverrun Exchanged
PROPERTIES IsScreen ReleasedWhenIdle CommandReturns
CHECK_DEADLOCK FALSE
