------------------------------- MODULE Drawing -------------------------------
(***************************************************************************)
(* The drawing functions of altera_up_avalon_video_pixel_buffer_dma.c: a   *)
(* request draws into one buffer, and the model keeps the set of bytes,    *)
(* counted from the start of the buffer, that it writes.  Coordinates are  *)
(* int arguments that the functions keep in unsigned variables of WORD     *)
(* values; draw_line keeps them signed and is modelled pixel by pixel.     *)
(***************************************************************************)
EXTENDS Integers, FiniteSets

CONSTANTS
  x_resolution, y_resolution,
  BYTES,        \* bytes of a pixel: 1, 2 or 4, the 8-bit, 16-bit and 32-bit modes
  XY,           \* X-Y addressing mode, or else consecutive
  ROW,          \* bytes from a row to the next in X-Y mode: 1 << y_coord_offset
  WORD,         \* 2^32, the number of values of an unsigned int
  Coords,       \* bound: the coordinates asked for
  Functions     \* bound: the functions asked for

ASSUME DrawingAssumption ==
  /\ x_resolution \in Nat \ {0} /\ y_resolution \in Nat \ {0}
  /\ x_resolution % 2 = 0      \* 320: a row of 16-bit pixels is whole words
  /\ BYTES \in {1, 2, 4} /\ XY \in BOOLEAN
  /\ ROW \in Nat /\ x_resolution * BYTES <= ROW
  /\ WORD \in Nat /\ WORD > x_resolution + 1 /\ WORD > y_resolution + 1
  /\ Coords \subseteq -(WORD \div 2) .. WORD \div 2 - 1
  /\ Functions \subseteq {"draw", "clear_screen", "draw_box", "draw_hline", "draw_vline",
                          "draw_rectangle", "draw_line"}

VARIABLES
  request,          \* the function and its arguments
  pc,
  written,          \* the bytes written
  x, y, error       \* draw_line's loop

vars == <<request, pc, written, x, y, error>>

-----------------------------------------------------------------------------
(* Addresses                                                               *)

Bytes(first, size) == first .. first + size - 1

Stride == IF XY THEN ROW ELSE x_resolution * BYTES

Pixel(px, py) == Bytes(py * Stride + px * BYTES, BYTES)

Pixels(ps) == UNION {Pixel(p[1], p[2]) : p \in ps}

\* The bytes of the screen's rows.
ScreenBytes == UNION {Bytes(py * Stride, x_resolution * BYTES) : py \in 0 .. y_resolution - 1}

\* What lcd_init allocates for a buffer: two bytes for each pixel.
Buffer == Bytes(0, x_resolution * y_resolution * 2)

Unsigned(v) == v % WORD

Low(a, b) == IF a > b THEN b ELSE a
High(a, b) == IF a > b THEN a ELSE b

-----------------------------------------------------------------------------
(* The functions without a loop of their own state: the bytes they write   *)

draw(x0, y0) ==
  LET px == Unsigned(x0)  py == Unsigned(y0)
  IN  IF px >= x_resolution \/ py >= y_resolution THEN {} ELSE Pixel(px, py)

\* A bug to detect: the last column and row are not clipped.
BoxUnclipped(x0, y0, x1, y1) ==
  LET l_x == Low(Unsigned(x0), Unsigned(x1))  r_x == High(Unsigned(x0), Unsigned(x1))
      t_y == Low(Unsigned(y0), Unsigned(y1))  b_y == High(Unsigned(y0), Unsigned(y1))
  IN  IF l_x >= x_resolution \/ t_y >= y_resolution THEN {}
      ELSE Pixels((l_x .. Low(r_x, x_resolution)) \X (t_y .. Low(b_y, y_resolution)))

\* A bug to detect: the bottom row is taken from the wrong argument.
BoxUnsorted(x0, y0, x1, y1) ==
  LET l_x == Low(Unsigned(x0), Unsigned(x1))  r_x == High(Unsigned(x0), Unsigned(x1))
      t_y == Unsigned(y0)  b_y == Unsigned(y1)
  IN  IF l_x >= x_resolution \/ t_y >= y_resolution THEN {}
      ELSE Pixels((l_x .. Low(r_x, x_resolution - 1)) \X (t_y .. Low(b_y, y_resolution - 1)))

\* The corners are sorted and clipped as unsigned numbers, so the tests for
\* coordinates below 0 never hold.
draw_box(x0, y0, x1, y1) ==
  LET l_x == Low(Unsigned(x0), Unsigned(x1))  r_x == High(Unsigned(x0), Unsigned(x1))
      t_y == Low(Unsigned(y0), Unsigned(y1))  b_y == High(Unsigned(y0), Unsigned(y1))
  IN  IF l_x >= x_resolution \/ t_y >= y_resolution THEN {}
      ELSE Pixels((l_x .. Low(r_x, x_resolution - 1)) \X (t_y .. Low(b_y, y_resolution - 1)))

draw_hline(x0, x1, y0) ==
  LET l_x == Low(Unsigned(x0), Unsigned(x1))  r_x == High(Unsigned(x0), Unsigned(x1))
      line_y == Unsigned(y0)
  IN  IF l_x >= x_resolution \/ line_y >= y_resolution THEN {}
      ELSE Pixels((l_x .. Low(r_x, x_resolution - 1)) \X {line_y})

draw_vline(x0, y0, y1) ==
  LET t_y == Low(Unsigned(y0), Unsigned(y1))  b_y == High(Unsigned(y0), Unsigned(y1))
      line_x == Unsigned(x0)
  IN  IF line_x >= x_resolution \/ t_y >= y_resolution THEN {}
      ELSE Pixels({line_x} \X (t_y .. Low(b_y, y_resolution - 1)))

draw_rectangle(x0, y0, x1, y1) ==
  draw_hline(x0, x1, y0) \union draw_hline(x0, x1, y1)
    \union draw_vline(x0, y0, y1) \union draw_vline(x1, y0, y1)

\* Words of four bytes, at every fourth byte below limit_x; the factor is 2
\* in 16-bit mode and 4 in every other.
clear_screen ==
  LET limit_x == x_resolution * (IF BYTES = 2 THEN 2 ELSE 4)
      Words(first, limit) == UNION {Bytes(first + b, 4) : b \in {c \in 0 .. limit - 1 : c % 4 = 0}}
  IN  IF XY THEN UNION {Words(row * ROW, limit_x) : row \in 0 .. y_resolution - 1}
            ELSE Words(0, limit_x * y_resolution)

Whole(r) ==
  CASE r.f = "draw" -> draw(r.x0, r.y0)
    [] r.f = "clear_screen" -> clear_screen
    [] r.f = "draw_box" -> draw_box(r.x0, r.y0, r.x1, r.y1)
    [] r.f = "draw_hline" -> draw_hline(r.x0, r.x1, r.y0)
    [] r.f = "draw_vline" -> draw_vline(r.x0, r.y0, r.y1)
    [] r.f = "draw_rectangle" -> draw_rectangle(r.x0, r.y0, r.x1, r.y1)

-----------------------------------------------------------------------------
(* draw_line: x runs along the longer side                                 *)

Abs(v) == IF v >= 0 THEN v ELSE -v

\* The end points after the swaps, and what follows from them.
Line(r) ==
  LET steep == Abs(r.y1 - r.y0) > Abs(r.x1 - r.x0)
      a == IF steep THEN <<r.y0, r.x0>> ELSE <<r.x0, r.y0>>
      b == IF steep THEN <<r.y1, r.x1>> ELSE <<r.x1, r.y1>>
      from == IF a[1] > b[1] THEN b ELSE a
      to == IF a[1] > b[1] THEN a ELSE b
  IN  [steep |-> steep, x_0 |-> from[1], y_0 |-> from[2], x_1 |-> to[1], y_1 |-> to[2],
       deltax |-> to[1] - from[1], deltay |-> Abs(to[2] - from[2]),
       ystep |-> IF from[2] < to[2] THEN 1 ELSE -1]

line == Line(request)

OnScreen(r) ==
  /\ {r.x0, r.x1} \subseteq 0 .. x_resolution - 1
  /\ {r.y0, r.y1} \subseteq 0 .. y_resolution - 1

Init ==
  /\ request \in [f : Functions, x0 : Coords, y0 : Coords, x1 : Coords, y1 : Coords]
  /\ request.f = "clear_screen" => {request.x0, request.y0, request.x1, request.y1} = {0}
  /\ pc = "call" /\ written = {}
  /\ x = 0 /\ y = 0 /\ error = 0

DrawWhole ==
  /\ pc = "call" /\ request.f # "draw_line"
  /\ written' = Whole(request)
  /\ pc' = "done"
  /\ UNCHANGED <<request, x, y, error>>

\* A bug to detect: error starts at 0.
BeginLineAtZero ==
  /\ pc = "call" /\ request.f = "draw_line" /\ OnScreen(request)
  /\ x' = line.x_0 /\ y' = line.y_0 /\ error' = 0 /\ pc' = "line"
  /\ UNCHANGED <<request, written>>

\* Callers keep a line on the screen, as the function's comment asks.
BeginLine ==
  /\ pc = "call" /\ request.f = "draw_line" /\ OnScreen(request)
  /\ x' = line.x_0 /\ y' = line.y_0
  /\ error' = -(line.deltax \div 2)
  /\ pc' = "line"
  /\ UNCHANGED <<request, written>>

helper_plot_pixel == IF line.steep THEN Pixel(y, x) ELSE Pixel(x, y)

\* A bug to detect: error is not reduced when y moves.
PlotUnreduced ==
  /\ pc = "line" /\ x <= line.x_1
  /\ written' = written \union helper_plot_pixel
  /\ x' = x + 1 /\ error' = error + line.deltay
  /\ y' = IF error' > 0 THEN y + line.ystep ELSE y
  /\ UNCHANGED <<request, pc>>

PlotLine ==
  /\ pc = "line" /\ x <= line.x_1
  /\ written' = written \union helper_plot_pixel
  /\ x' = x + 1
  /\ LET e == error + line.deltay
     IN  IF e > 0 THEN y' = y + line.ystep /\ error' = e - line.deltax
                  ELSE error' = e /\ UNCHANGED y
  /\ UNCHANGED <<request, pc>>

EndLine ==
  /\ pc = "line" /\ x > line.x_1
  /\ pc' = "done"
  /\ UNCHANGED <<request, written, x, y, error>>

Next == DrawWhole \/ BeginLine \/ PlotLine \/ EndLine

Spec == Init /\ [][Next]_vars

-----------------------------------------------------------------------------
(* Properties                                                              *)

\* Every variable has its type; the loop of draw_line stays between the end
\* points and its error term is never positive between two pixels.
TypeOK ==
  /\ request \in [f : Functions, x0 : Coords, y0 : Coords, x1 : Coords, y1 : Coords]
  /\ pc \in {"call", "line", "done"}
  /\ written \subseteq Int
  /\ x \in Int /\ y \in Int /\ error \in Int
  /\ pc = "line" => x \in line.x_0 .. line.x_1 + 1 /\ error \in -line.deltax .. 0

\* No function writes a byte outside the rows of the screen, whatever it is asked to
\* draw and where the rows are, except in the 8-bit mode (clear_screen takes it for the
\* 32-bit one); and where 16-bit rows follow each other, none outside the memory lcd_init
\* allocated: next to it lies the heap.
WritesInBuffer ==
  /\ BYTES # 1 => written \subseteq ScreenBytes
  /\ BYTES = 2 /\ ~XY => written \subseteq Buffer

\* The pixels of the screen between two corners.
Between(r) ==
  {p \in (0 .. x_resolution - 1) \X (0 .. y_resolution - 1) :
     /\ Low(r.x0, r.x1) <= p[1] /\ p[1] <= High(r.x0, r.x1)
     /\ Low(r.y0, r.y1) <= p[2] /\ p[2] <= High(r.y0, r.y1)}

NotNegative(r) == r.x0 >= 0 /\ r.y0 >= 0 /\ r.x1 >= 0 /\ r.y1 >= 0

\* A box with no negative coordinate is drawn as the pixels between its
\* corners, in whichever order they are given and however far they reach.
BoxIsClipped ==
  pc = "done" /\ request.f = "draw_box" /\ NotNegative(request) =>
    written = Pixels(Between(request))

\* A rectangle is the part of a box's edge that is on the screen.
RectangleIsEdge ==
  pc = "done" /\ request.f = "draw_rectangle" /\ NotNegative(request) =>
    written = Pixels({p \in Between(request) : p[1] \in {request.x0, request.x1}
                                               \/ p[2] \in {request.y0, request.y1}})

\* clear_screen leaves no pixel as it was.
ClearClearsAll == pc = "done" /\ request.f = "clear_screen" => ScreenBytes \subseteq written

\* Boxes, rectangles and clearing write all they are asked for and, the first
\* two, nothing else.
ShapesComplete == BoxIsClipped /\ RectangleIsEdge /\ ClearClearsAll

\* Every pixel draw_line plots is the nearest to the straight line in its
\* column (its row, if the line is steep).
LineNearest ==
  pc = "line" /\ x <= line.x_1 =>
    2 * Abs((x - line.x_0) * line.deltay - Abs(y - line.y_0) * line.deltax) <= line.deltax

\* A line has its two ends, and one pixel for each step along its longer side.
LineComplete ==
  pc = "done" /\ request.f = "draw_line" =>
    /\ Pixels({<<request.x0, request.y0>>, <<request.x1, request.y1>>}) \subseteq written
    /\ Cardinality(written) = BYTES * (line.deltax + 1)

\* draw_line draws the pixels of the straight line, from end to end.
LineDrawn == LineNearest /\ LineComplete
=============================================================================
