----------------------------- MODULE DrawingProofs -----------------------------
(***************************************************************************)
(* Where the drawing functions write, that shapes are complete and clipped *)
(* and which pixels draw_line plots, for every resolution, colour mode,    *)
(* addressing mode and coordinate.                                         *)
(***************************************************************************)
EXTENDS Drawing, FiniteSetTheorems, TLAPS

-----------------------------------------------------------------------------
(* Pixels of the screen are in the buffer                                  *)

Columns == 0 .. x_resolution - 1
Rows == 0 .. y_resolution - 1

LEMMA StrideIsNat ==
  Stride \in Nat /\ x_resolution * BYTES \in Nat /\ x_resolution * BYTES <= Stride
BY DrawingAssumption DEF Stride

LEMMA PixelInBuffer ==
  ASSUME NEW px \in Columns, NEW py \in Rows
  PROVE  Pixel(px, py) \subseteq ScreenBytes
<1>1. PICK base \in Int : base = py * Stride
  BY StrideIsNat DEF Rows
<1>2. x_resolution \in Nat /\ px \in Int /\ 0 <= px /\ px + 1 <= x_resolution
  BY DrawingAssumption DEF Columns
<1>3. px * BYTES >= 0 /\ px * BYTES + BYTES <= x_resolution * BYTES
  BY <1>2, DrawingAssumption
<1>4. Bytes(base + px * BYTES, BYTES) \subseteq Bytes(base, x_resolution * BYTES)
  BY <1>1, <1>2, <1>3, DrawingAssumption DEF Bytes
<1>5. Bytes(py * Stride, x_resolution * BYTES) \subseteq ScreenBytes
  BY DEF ScreenBytes, Rows
<1>6. QED
  BY <1>1, <1>4, <1>5 DEF Pixel

LEMMA PixelsInBuffer ==
  ASSUME NEW S, S \subseteq Columns \X Rows
  PROVE  Pixels(S) \subseteq ScreenBytes
<1>1. ASSUME NEW p \in S PROVE Pixel(p[1], p[2]) \subseteq ScreenBytes
  <2>1. p[1] \in Columns /\ p[2] \in Rows
    BY <1>1
  <2>2. QED
    BY <2>1, PixelInBuffer
<1>2. QED
  BY <1>1 DEF Pixels

\* Pixels of the screen do not overlap.
LEMMA PixelsApart ==
  ASSUME NEW u \in Columns, NEW v \in Rows, NEW u2 \in Columns, NEW v2 \in Rows,
         u # u2 \/ v # v2
  PROVE  Pixel(u, v) \intersect Pixel(u2, v2) = {}
<1>1. PICK s \in Nat : s = Stride /\ x_resolution * BYTES <= s
  BY StrideIsNat
<1>2. BYTES \in Nat /\ BYTES > 0 /\ x_resolution \in Nat /\ y_resolution \in Nat
  BY DrawingAssumption
<1>3. /\ u \in Nat /\ u2 \in Nat /\ v \in Nat /\ v2 \in Nat
      /\ u + 1 <= x_resolution /\ u2 + 1 <= x_resolution
  BY <1>2 DEF Columns, Rows
<1>4. ASSUME NEW i \in Nat, NEW j \in Nat, NEW k \in Nat, NEW l \in Nat,
             i + 1 <= x_resolution, j < l
      PROVE  j * s + i * BYTES + BYTES <= l * s + k * BYTES
  <2>1. (i + 1) * BYTES <= x_resolution * BYTES
    BY <1>2, <1>4
  <2>2. (i + 1) * BYTES = i * BYTES + BYTES
    BY <1>2
  <2>3. PICK d \in Nat : l = j + 1 + d
    <3>1. l - j - 1 \in Nat /\ l = j + 1 + (l - j - 1)
      BY <1>4
    <3> QED
      BY <3>1
  <2>4. l * s = j * s + s + d * s /\ d * s >= 0 /\ k * BYTES >= 0
    BY <1>1, <1>2, <2>3
  <2>5. PICK m \in Int, n \in Int, o \in Int, p \in Int, q \in Int :
          m = i * BYTES /\ n = j * s /\ o = d * s /\ p = k * BYTES /\ q = x_resolution * BYTES
    BY <1>1, <1>2, <2>3
  <2> QED
    BY <1>1, <1>2, <2>1, <2>2, <2>4, <2>5
<1>5. PICK m \in Int, n \in Int, o \in Int, p \in Int :
        m = v * s /\ n = u * BYTES /\ o = v2 * s /\ p = u2 * BYTES
  BY <1>1, <1>2, <1>3
<1>6. CASE v < v2
  <2>1. m + n + BYTES <= o + p
    BY <1>3, <1>4, <1>5, <1>6
  <2> QED
    BY <1>1, <1>2, <1>5, <2>1 DEF Pixel, Bytes
<1>7. CASE v2 < v
  <2>1. o + p + BYTES <= m + n
    BY <1>3, <1>4, <1>5, <1>7
  <2> QED
    BY <1>1, <1>2, <1>5, <2>1 DEF Pixel, Bytes
<1>8. CASE v = v2
  <2>1. u + 1 <= u2 \/ u2 + 1 <= u
    BY <1>3, <1>8
  <2>2. u + 1 <= u2 => n + BYTES <= p
    BY <1>2, <1>3, <1>5
  <2>3. u2 + 1 <= u => p + BYTES <= n
    BY <1>2, <1>3, <1>5
  <2>4. m = o
    BY <1>5, <1>8
  <2> QED
    BY <1>1, <1>2, <1>5, <2>1, <2>2, <2>3, <2>4 DEF Pixel, Bytes
<1> QED
  BY <1>3, <1>6, <1>7, <1>8

LEMMA PixelSize ==
  ASSUME NEW u \in Columns, NEW v \in Rows
  PROVE  IsFiniteSet(Pixel(u, v)) /\ Cardinality(Pixel(u, v)) = BYTES
<1>1. PICK first \in Int : first = v * Stride + u * BYTES
  BY StrideIsNat, DrawingAssumption DEF Columns, Rows
<1>2. Pixel(u, v) = first .. first + BYTES - 1
  BY <1>1 DEF Pixel, Bytes
<1>3. BYTES \in Nat /\ BYTES > 0
  BY DrawingAssumption
<1>4. PICK last \in Int : last = first + BYTES - 1
  BY <1>3
<1>5. /\ IsFiniteSet(first .. last)
      /\ Cardinality(first .. last) = IF first > last THEN 0 ELSE last - first + 1
  BY FS_Interval
<1> QED
  BY <1>2, <1>3, <1>4, <1>5

-----------------------------------------------------------------------------
(* The functions without a loop                                            *)

LEMMA UnsignedIsNat == ASSUME NEW v \in Int PROVE Unsigned(v) \in Nat
BY DrawingAssumption DEF Unsigned

\* From one corner, if it is on the screen, to the other or the border.
LEMMA Span ==
  ASSUME NEW a \in Nat, NEW b \in Nat, NEW size \in Nat, Low(a, b) < size
  PROVE  Low(a, b) .. Low(High(a, b), size - 1) \subseteq 0 .. size - 1
BY DEF Low, High

LEMMA BoxInBuffer ==
  ASSUME NEW x0 \in Int, NEW y0 \in Int, NEW x1 \in Int, NEW y1 \in Int
  PROVE  draw_box(x0, y0, x1, y1) \subseteq ScreenBytes
<1> DEFINE a == Unsigned(x0)  b == Unsigned(x1)  c == Unsigned(y0)  d == Unsigned(y1)
<1>1. a \in Nat /\ b \in Nat /\ c \in Nat /\ d \in Nat
  BY UnsignedIsNat
<1>2. x_resolution \in Nat /\ y_resolution \in Nat
  BY DrawingAssumption
<1> HIDE DEF a, b, c, d
<1>3. Low(a, b) \in Nat /\ Low(c, d) \in Nat
  BY <1>1 DEF Low
<1>4. CASE Low(a, b) < x_resolution /\ Low(c, d) < y_resolution
  <2>1. /\ Low(a, b) .. Low(High(a, b), x_resolution - 1) \subseteq Columns
        /\ Low(c, d) .. Low(High(c, d), y_resolution - 1) \subseteq Rows
    BY <1>1, <1>2, <1>4, Span DEF Columns, Rows
  <2>2. Pixels((Low(a, b) .. Low(High(a, b), x_resolution - 1))
                 \X (Low(c, d) .. Low(High(c, d), y_resolution - 1))) \subseteq ScreenBytes
    BY <2>1, PixelsInBuffer
  <2>3. ~(Low(a, b) >= x_resolution \/ Low(c, d) >= y_resolution)
    BY <1>2, <1>3, <1>4
  <2>4. QED
    BY <2>2, <2>3 DEF draw_box, a, b, c, d
<1>5. CASE ~(Low(a, b) < x_resolution /\ Low(c, d) < y_resolution)
  <2>1. Low(a, b) >= x_resolution \/ Low(c, d) >= y_resolution
    BY <1>2, <1>3, <1>5
  <2>2. QED
    BY <2>1 DEF draw_box, a, b, c, d
<1>6. QED
  BY <1>4, <1>5

LEMMA LinesInBuffer ==
  ASSUME NEW u \in Int, NEW v \in Int, NEW w \in Int
  PROVE  draw_hline(u, v, w) \subseteq ScreenBytes /\ draw_vline(u, v, w) \subseteq ScreenBytes
<1> DEFINE a == Unsigned(u)  b == Unsigned(v)  c == Unsigned(w)
<1>1. a \in Nat /\ b \in Nat /\ c \in Nat
  BY UnsignedIsNat
<1>2. x_resolution \in Nat /\ y_resolution \in Nat
  BY DrawingAssumption
<1> HIDE DEF a, b, c
<1>3. Low(a, b) \in Nat /\ Low(b, c) \in Nat
  BY <1>1 DEF Low
<1>4. draw_hline(u, v, w) \subseteq ScreenBytes
  <2>1. CASE Low(a, b) < x_resolution /\ c < y_resolution
    <3>1. Low(a, b) .. Low(High(a, b), x_resolution - 1) \subseteq Columns /\ {c} \subseteq Rows
      BY <1>1, <1>2, <2>1, Span DEF Columns, Rows
    <3>2. Pixels((Low(a, b) .. Low(High(a, b), x_resolution - 1)) \X {c}) \subseteq ScreenBytes
      BY <3>1, PixelsInBuffer
    <3>3. ~(Low(a, b) >= x_resolution \/ c >= y_resolution)
      BY <1>1, <1>2, <1>3, <2>1
    <3>4. QED
      BY <3>2, <3>3 DEF draw_hline, a, b, c
  <2>2. CASE ~(Low(a, b) < x_resolution /\ c < y_resolution)
    <3>1. Low(a, b) >= x_resolution \/ c >= y_resolution
      BY <1>1, <1>2, <1>3, <2>2
    <3>2. QED
      BY <3>1 DEF draw_hline, a, b, c
  <2>3. QED
    BY <2>1, <2>2
<1>5. draw_vline(u, v, w) \subseteq ScreenBytes
  <2>1. CASE a < x_resolution /\ Low(b, c) < y_resolution
    <3>1. {a} \subseteq Columns /\ Low(b, c) .. Low(High(b, c), y_resolution - 1) \subseteq Rows
      BY <1>1, <1>2, <2>1, Span DEF Columns, Rows
    <3>2. Pixels({a} \X (Low(b, c) .. Low(High(b, c), y_resolution - 1))) \subseteq ScreenBytes
      BY <3>1, PixelsInBuffer
    <3>3. ~(a >= x_resolution \/ Low(b, c) >= y_resolution)
      BY <1>1, <1>2, <1>3, <2>1
    <3>4. QED
      BY <3>2, <3>3 DEF draw_vline, a, b, c
  <2>2. CASE ~(a < x_resolution /\ Low(b, c) < y_resolution)
    <3>1. a >= x_resolution \/ Low(b, c) >= y_resolution
      BY <1>1, <1>2, <1>3, <2>2
    <3>2. QED
      BY <3>1 DEF draw_vline, a, b, c
  <2>3. QED
    BY <2>1, <2>2
<1>6. QED
  BY <1>4, <1>5

LEMMA DrawInBuffer == ASSUME NEW x0 \in Int, NEW y0 \in Int PROVE draw(x0, y0) \subseteq ScreenBytes
<1>1. PICK px \in Nat, py \in Nat : px = Unsigned(x0) /\ py = Unsigned(y0)
  BY UnsignedIsNat
<1>2. CASE px < x_resolution /\ py < y_resolution
  <2>1. Pixel(px, py) \subseteq ScreenBytes
    BY <1>2, DrawingAssumption, PixelInBuffer DEF Columns, Rows
  <2>2. QED
    BY <1>1, <2>1 DEF draw
<1>3. CASE ~(px < x_resolution /\ py < y_resolution)
  BY <1>1, <1>3, DrawingAssumption DEF draw
<1>4. QED
  BY <1>2, <1>3

LEMMA RectangleInBuffer ==
  ASSUME NEW x0 \in Int, NEW y0 \in Int, NEW x1 \in Int, NEW y1 \in Int
  PROVE  draw_rectangle(x0, y0, x1, y1) \subseteq ScreenBytes
BY LinesInBuffer DEF draw_rectangle

-----------------------------------------------------------------------------
(* clear_screen                                                            *)

\* The words clear_screen writes are whole words of a row, and no more.
ClearFits == BYTES # 1 /\ (x_resolution * BYTES) % 4 = 0

LEMMA WordsFit == ASSUME BYTES # 1 PROVE ClearFits
<1>1. PICK h \in Int : x_resolution = 2 * h
  BY DrawingAssumption
<1>2. CASE BYTES = 2
  <2>1. x_resolution * BYTES = 4 * h
    BY <1>1, <1>2
  <2>2. QED
    BY <1>1, <1>2, <2>1 DEF ClearFits
<1>3. CASE BYTES = 4
  <2>1. x_resolution * BYTES = 4 * x_resolution /\ x_resolution \in Int
    BY <1>3, DrawingAssumption
  <2>2. QED
    BY <1>3, <2>1 DEF ClearFits
<1>4. QED
  BY <1>2, <1>3, DrawingAssumption

LEMMA WordInRow ==
  ASSUME NEW size \in Nat, size % 4 = 0, NEW base \in Nat,
         NEW b \in 0 .. size - 1, b % 4 = 0
  PROVE  Bytes(base + b, 4) \subseteq Bytes(base, size)
<1>1. b + 4 <= size
  OBVIOUS
<1>2. QED
  BY <1>1 DEF Bytes

LEMMA DivMod ==
  ASSUME NEW s \in Nat, s > 0, NEW b \in Nat
  PROVE  b \div s \in Nat /\ b % s \in 0 .. s - 1 /\ b = s * (b \div s) + (b % s)
<1>1. b \div s \in Int /\ b \div s >= 0
  OBVIOUS
<1>2. b % s \in 0 .. s - 1
  OBVIOUS
<1>3. b = s * (b \div s) + (b % s)
  OBVIOUS
<1>4. QED
  BY <1>1, <1>2, <1>3

LEMMA DivBound ==
  ASSUME NEW s \in Nat, s > 0, NEW b \in Nat, NEW r \in Nat, b < s * r
  PROVE  b \div s < r
OBVIOUS

\* In consecutive mode the screen is one row after another.
LEMMA Row ==
  ASSUME NEW size \in Nat, size > 0, NEW rows \in Nat, NEW b \in Nat, b < size * rows
  PROVE  \E r \in 0 .. rows - 1 : b \in Bytes(r * size, size)
<1>1. PICK r \in Nat, m \in 0 .. size - 1 : r = b \div size /\ b = size * r + m
  BY DivMod
<1>2. r < rows
  BY <1>1, DivBound
<1>3. PICK start \in Int : start = size * r /\ start = r * size
  BY <1>1
<1>4. b \in Bytes(r * size, size)
  BY <1>1, <1>3 DEF Bytes
<1>5. r \in 0 .. rows - 1
  BY <1>1, <1>2
<1>6. QED
  BY Zenon, <1>4, <1>5

LEMMA ClearInBuffer == 
  ASSUME BYTES # 1
  PROVE  clear_screen \subseteq ScreenBytes
<1> DEFINE row_bytes == x_resolution * (IF BYTES = 2 THEN 2 ELSE 4)
<1> DEFINE Words(first, limit) ==
      UNION {Bytes(first + b, 4) : b \in {c \in 0 .. limit - 1 : c % 4 = 0}}
<1>1. /\ row_bytes \in Nat /\ row_bytes > 0 /\ row_bytes % 4 = 0
      /\ row_bytes = x_resolution * BYTES
  BY DrawingAssumption, WordsFit DEF ClearFits
<1>2. y_resolution \in Nat /\ ROW \in Nat
  BY DrawingAssumption
<1>3. clear_screen = IF XY THEN UNION {Words(row * ROW, row_bytes) : row \in Rows}
                           ELSE Words(0, row_bytes * y_resolution)
  BY DEF clear_screen, Rows
<1> HIDE DEF row_bytes
<1>4. CASE XY
  <2>1. SUFFICES ASSUME NEW row \in Rows PROVE Words(row * ROW, row_bytes) \subseteq ScreenBytes
    BY <1>3, <1>4
  <2>2. PICK base \in Nat : base = row * ROW
    BY <1>2 DEF Rows
  <2>3. \A b \in 0 .. row_bytes - 1 :
          b % 4 = 0 => Bytes(base + b, 4) \subseteq Bytes(base, row_bytes)
    BY <1>1, WordInRow
  <2>4. Words(base, row_bytes) \subseteq Bytes(base, row_bytes)
    BY <2>3
  <2>5. Bytes(row * Stride, x_resolution * BYTES) \subseteq ScreenBytes
    BY DEF ScreenBytes, Rows
  <2>6. Stride = ROW
    BY <1>4 DEF Stride
  <2>7. QED
    BY <1>1, <2>2, <2>4, <2>5, <2>6
<1>5. CASE ~XY
  <2>1. PICK size \in Nat : size = row_bytes * y_resolution
    BY <1>1, <1>2
  <2>2. size % 4 = 0
    <3>1. PICK k \in Nat : row_bytes = 4 * k
      BY <1>1
    <3>2. PICK l \in Nat : l = k * y_resolution
      BY <1>2, <3>1
    <3>3. size = 4 * l
      BY <1>2, <2>1, <3>1, <3>2
    <3>4. QED
      BY <3>2, <3>3
  <2>3. \A b \in 0 .. size - 1 : b % 4 = 0 => Bytes(0 + b, 4) \subseteq Bytes(0, size)
    BY <2>1, <2>2, WordInRow
  <2>4. Words(0, size) \subseteq Bytes(0, size)
    BY <2>3
  <2>5. ASSUME NEW b \in Bytes(0, size) PROVE b \in ScreenBytes
    <3>1. b \in Nat /\ b < size
      BY <2>1 DEF Bytes
    <3>2. PICK r \in 0 .. y_resolution - 1 : b \in Bytes(r * row_bytes, row_bytes)
      BY <1>1, <1>2, <2>1, <3>1, Row
    <3>3. Stride = row_bytes
      BY <1>1, <1>5 DEF Stride
    <3>4. QED
      BY <1>1, <3>2, <3>3 DEF ScreenBytes
  <2>6. QED
    BY <1>3, <1>5, <2>1, <2>4, <2>5
<1>6. QED
  BY <1>4, <1>5

Request == [f : Functions, x0 : Coords, y0 : Coords, x1 : Coords, y1 : Coords]

LEMMA CoordsAreInt == Coords \subseteq Int
BY DrawingAssumption

LEMMA WholeInBuffer ==
  ASSUME NEW r \in Request, r.f # "draw_line", r.f = "clear_screen" => BYTES # 1
  PROVE  Whole(r) \subseteq ScreenBytes
<1>1. r.x0 \in Int /\ r.y0 \in Int /\ r.x1 \in Int /\ r.y1 \in Int /\ r.f \in Functions
  BY CoordsAreInt DEF Request
<1>2. r.f \in {"draw", "clear_screen", "draw_box", "draw_hline", "draw_vline", "draw_rectangle"}
  BY <1>1, DrawingAssumption
<1>3. CASE r.f = "draw"
  BY <1>1, <1>3, DrawInBuffer DEF Whole
<1>4. CASE r.f = "clear_screen"
  BY <1>1, <1>4, ClearInBuffer DEF Whole
<1>5. CASE r.f = "draw_box"
  BY <1>1, <1>5, BoxInBuffer DEF Whole
<1>6. CASE r.f = "draw_hline"
  BY <1>1, <1>6, LinesInBuffer DEF Whole
<1>7. CASE r.f = "draw_vline"
  BY <1>1, <1>7, LinesInBuffer DEF Whole
<1>8. CASE r.f = "draw_rectangle"
  BY <1>1, <1>8, RectangleInBuffer DEF Whole
<1>9. QED
  BY <1>2, <1>3, <1>4, <1>5, <1>6, <1>7, <1>8

-----------------------------------------------------------------------------
(* draw_line                                                               *)

\* What a line on the screen looks like after the swaps.
LEMMA LineShape ==
  ASSUME NEW r \in Request, OnScreen(r), NEW L, L = Line(r)
  PROVE  /\ L.x_0 \in Int /\ L.x_1 \in Int /\ L.y_0 \in Int /\ L.y_1 \in Int
         /\ L.deltay \in Nat /\ L.deltax = L.x_1 - L.x_0 /\ L.deltay <= L.deltax
         /\ L.ystep \in {-1, 1}
         /\ L.y_1 = IF L.ystep = 1 THEN L.y_0 + L.deltay ELSE L.y_0 - L.deltay
         /\ IF L.steep THEN {L.x_0, L.x_1} \subseteq Rows /\ {L.y_0, L.y_1} \subseteq Columns
                       ELSE {L.x_0, L.x_1} \subseteq Columns /\ {L.y_0, L.y_1} \subseteq Rows
<1> DEFINE steep == Abs(r.y1 - r.y0) > Abs(r.x1 - r.x0)
<1>1. /\ r.x0 \in Int /\ r.y0 \in Int /\ r.x1 \in Int /\ r.y1 \in Int
      /\ {r.x0, r.x1} \subseteq Columns /\ {r.y0, r.y1} \subseteq Rows
  BY CoordsAreInt DEF Request, OnScreen, Columns, Rows
<1>2. PICK a1 \in Int, a2 \in Int, b1 \in Int, b2 \in Int :
        IF steep THEN a1 = r.y0 /\ a2 = r.x0 /\ b1 = r.y1 /\ b2 = r.x1
                 ELSE a1 = r.x0 /\ a2 = r.y0 /\ b1 = r.x1 /\ b2 = r.y1
  BY <1>1
<1>3. /\ Abs(b2 - a2) <= Abs(b1 - a1)
      /\ IF steep THEN {a1, b1} \subseteq Rows /\ {a2, b2} \subseteq Columns
                  ELSE {a1, b1} \subseteq Columns /\ {a2, b2} \subseteq Rows
  BY <1>1, <1>2 DEF Abs
<1> HIDE DEF steep
<1>4. CASE a1 > b1
  <2>1. L = [steep |-> steep, x_0 |-> b1, y_0 |-> b2, x_1 |-> a1, y_1 |-> a2,
             deltax |-> a1 - b1, deltay |-> Abs(a2 - b2), ystep |-> IF b2 < a2 THEN 1 ELSE -1]
    BY <1>2, <1>4 DEF Line, steep
  <2>2. /\ L.steep = steep /\ L.x_0 = b1 /\ L.y_0 = b2 /\ L.x_1 = a1 /\ L.y_1 = a2
        /\ L.deltax = a1 - b1 /\ L.deltay = Abs(a2 - b2)
        /\ L.ystep = IF b2 < a2 THEN 1 ELSE -1
    BY <2>1
  <2>3. /\ Abs(a2 - b2) \in Nat /\ Abs(a2 - b2) <= a1 - b1
        /\ a2 = IF b2 < a2 THEN b2 + Abs(a2 - b2) ELSE b2 - Abs(a2 - b2)
    BY <1>2, <1>3, <1>4 DEF Abs
  <2>4. QED
    BY <1>2, <1>3, <2>2, <2>3
<1>5. CASE ~(a1 > b1)
  <2>1. L = [steep |-> steep, x_0 |-> a1, y_0 |-> a2, x_1 |-> b1, y_1 |-> b2,
             deltax |-> b1 - a1, deltay |-> Abs(b2 - a2), ystep |-> IF a2 < b2 THEN 1 ELSE -1]
    BY <1>2, <1>5 DEF Line, steep
  <2>2. /\ L.steep = steep /\ L.x_0 = a1 /\ L.y_0 = a2 /\ L.x_1 = b1 /\ L.y_1 = b2
        /\ L.deltax = b1 - a1 /\ L.deltay = Abs(b2 - a2)
        /\ L.ystep = IF a2 < b2 THEN 1 ELSE -1
    BY <2>1
  <2>3. /\ Abs(b2 - a2) \in Nat /\ Abs(b2 - a2) <= b1 - a1
        /\ b2 = IF a2 < b2 THEN a2 + Abs(b2 - a2) ELSE a2 - Abs(b2 - a2)
    BY <1>2, <1>3, <1>5 DEF Abs
  <2>4. QED
    BY <1>2, <1>3, <2>2, <2>3
<1>6. QED
  BY <1>4, <1>5

\* The arithmetic of the loop after p columns and q steps of y.
Error(dx, dy, p, q, e) ==
  /\ e = p * dy - q * dx - dx \div 2
  /\ e <= 0 /\ (dx > 0 => e + dx > 0) /\ (dx = 0 => q = 0)

LEMMA First == ASSUME NEW dx \in Nat, NEW dy \in Nat PROVE Error(dx, dy, 0, 0, -(dx \div 2))
BY DEF Error

LEMMA Advance ==
  ASSUME NEW dx \in Nat, NEW dy \in Nat, dy <= dx, NEW p \in Nat, NEW q \in Nat, NEW e \in Int,
         Error(dx, dy, p, q, e)
  PROVE  /\ e + dy > 0 => Error(dx, dy, p + 1, q + 1, e + dy - dx)
         /\ e + dy <= 0 => Error(dx, dy, p + 1, q, e + dy)
<1>1. PICK m \in Int, n \in Int : m = p * dy /\ n = q * dx
  OBVIOUS
<1>2. (p + 1) * dy = m + dy /\ (q + 1) * dx = n + dx
  BY <1>1
<1>3. QED
  BY <1>1, <1>2 DEF Error

LEMMA NotPast ==
  ASSUME NEW dx \in Nat, NEW dy \in Nat, NEW p \in Nat, p <= dx, NEW q \in Nat, NEW e \in Int,
         Error(dx, dy, p, q, e)
  PROVE  q <= dy
<1>1. CASE dx = 0
  BY <1>1 DEF Error
<1>2. CASE dx > 0
  <2>1. p * dy <= dx * dy
    OBVIOUS
  <2>2. PICK m \in Int, n \in Int, k \in Int : m = p * dy /\ n = q * dx /\ k = dx * dy
    OBVIOUS
  <2>3. n < k + dx
    BY <1>2, <2>1, <2>2 DEF Error
  <2>4. k + dx = dx * (dy + 1) /\ n = dx * q
    BY <2>2
  <2>5. dx * q < dx * (dy + 1)
    BY <2>3, <2>4
  <2>6. q < dy + 1
    <3>1. SUFFICES ASSUME dy + 1 <= q PROVE FALSE
      OBVIOUS
    <3>2. dx * (dy + 1) <= dx * q
      BY <3>1
    <3>3. QED
      BY <2>2, <2>4, <2>5, <3>2
  <2>7. QED
    BY <2>6
<1>3. QED
  BY <1>1, <1>2

LEMMA ErrorRange ==
  ASSUME NEW dx \in Nat, NEW dy \in Nat, dy <= dx, NEW p \in Nat, NEW q \in Nat, NEW e \in Int,
         Error(dx, dy, p, q, e)
  PROVE  e \in -dx .. 0
<1>1. CASE dx = 0
  BY <1>1 DEF Error
<1>2. CASE dx > 0
  BY <1>2 DEF Error
<1>3. QED
  BY <1>1, <1>2

LEMMA IsNearest ==
  ASSUME NEW dx \in Nat, NEW dy \in Nat, NEW p \in Nat, NEW q \in Nat, NEW e \in Int,
         Error(dx, dy, p, q, e)
  PROVE  2 * Abs(p * dy - q * dx) <= dx
<1>1. PICK m \in Int : m = p * dy - q * dx
  OBVIOUS
<1>2. e = m - dx \div 2
  BY <1>1 DEF Error
<1>3. 2 * Abs(m) <= dx
  BY <1>2 DEF Error, Abs
<1>4. QED
  BY <1>1, <1>3

\* The first pixel of a line is in its first row, the last one in its last row.
LEMMA AtStart ==
  ASSUME NEW dx \in Nat, NEW dy \in Nat, NEW q \in Nat, NEW e \in Int, Error(dx, dy, 0, q, e)
  PROVE  q = 0
<1>1. CASE dx = 0
  BY <1>1 DEF Error
<1>2. CASE dx > 0
  <2>1. PICK n \in Int : n = q * dx
    OBVIOUS
  <2>2. n < dx
    BY <1>2, <2>1 DEF Error
  <2>3. q >= 1 => q * dx >= dx
    BY <1>2
  <2> QED
    BY <2>1, <2>2, <2>3
<1> QED
  BY <1>1, <1>2

LEMMA AtEnd ==
  ASSUME NEW dx \in Nat, NEW dy \in Nat, dy <= dx, NEW q \in Nat, NEW e \in Int,
         Error(dx, dy, dx, q, e)
  PROVE  q = dy
<1>1. CASE dx = 0
  BY <1>1 DEF Error
<1>2. CASE dx > 0
  <2>1. q <= dy
    BY NotPast
  <2>2. PICK d \in Nat : dy = q + d
    <3>1. dy - q \in Nat /\ dy = q + (dy - q)
      BY <2>1
    <3> QED
      BY <3>1
  <2>3. PICK n \in Int, k \in Int, m \in Int : n = q * dx /\ k = dx * dy /\ m = d * dx
    BY <2>2
  <2>4. k = n + m
    BY <2>2, <2>3
  <2>5. m < dx
    BY <1>2, <2>3, <2>4 DEF Error
  <2>6. d >= 1 => d * dx >= dx
    BY <1>2, <2>2
  <2> QED
    BY <2>2, <2>3, <2>5, <2>6
<1> QED
  BY <1>1, <1>2

-----------------------------------------------------------------------------
(* The invariant                                                           *)

\* The steps of y so far.
Steps == IF line.ystep = 1 THEN y - line.y_0 ELSE line.y_0 - y

Loop ==
  pc = "line" =>
    /\ OnScreen(request)
    /\ x \in line.x_0 .. line.x_1 + 1 /\ Steps \in Nat
    /\ Error(line.deltax, line.deltay, x - line.x_0, Steps, error)

Types ==
  /\ request \in Request /\ pc \in {"call", "line", "done"}
  /\ x \in Int /\ y \in Int /\ error \in Int

IInv == Types /\ Loop

\* The pixel at u along the longer side of a line and v along the shorter one.
Dot(u, v) == IF line.steep THEN Pixel(v, u) ELSE Pixel(u, v)
DotOnScreen(u, v) ==
  IF line.steep THEN v \in Columns /\ u \in Rows ELSE u \in Columns /\ v \in Rows

\* The two ends asked for are the two ends of the line after the swaps.
LEMMA EndsAre ==
  Pixels({<<request.x0, request.y0>>, <<request.x1, request.y1>>}) =
    Dot(line.x_0, line.y_0) \union Dot(line.x_1, line.y_1)
<1> DEFINE r == request
           steep == Abs(r.y1 - r.y0) > Abs(r.x1 - r.x0)
           a == IF steep THEN <<r.y0, r.x0>> ELSE <<r.x0, r.y0>>
           b == IF steep THEN <<r.y1, r.x1>> ELSE <<r.x1, r.y1>>
           from == IF a[1] > b[1] THEN b ELSE a
           to == IF a[1] > b[1] THEN a ELSE b
<1>1. /\ line.steep = steep /\ line.x_0 = from[1] /\ line.y_0 = from[2]
      /\ line.x_1 = to[1] /\ line.y_1 = to[2]
  BY DEF line, Line
<1>2. Pixels({<<r.x0, r.y0>>, <<r.x1, r.y1>>}) = Pixel(r.x0, r.y0) \union Pixel(r.x1, r.y1)
  BY DEF Pixels
<1>3. /\ a[1] = IF steep THEN r.y0 ELSE r.x0
      /\ a[2] = IF steep THEN r.x0 ELSE r.y0
      /\ b[1] = IF steep THEN r.y1 ELSE r.x1
      /\ b[2] = IF steep THEN r.x1 ELSE r.y1
  OBVIOUS
<1> HIDE DEF steep, a, b
<1>4. (from = b /\ to = a) \/ (from = a /\ to = b)
  OBVIOUS
<1> HIDE DEF from, to
<1> QED
  BY <1>1, <1>2, <1>3, <1>4 DEF Dot

\* Two dots with different places on the longer side have no byte in common.
LEMMA DotsApart ==
  ASSUME NEW u, NEW v, NEW u2, NEW v2, DotOnScreen(u, v), DotOnScreen(u2, v2), u # u2
  PROVE  Dot(u, v) \intersect Dot(u2, v2) = {}
<1>1. CASE line.steep
  BY <1>1, PixelsApart DEF Dot, DotOnScreen
<1>2. CASE ~line.steep
  BY <1>2, PixelsApart DEF Dot, DotOnScreen
<1> QED
  BY <1>1, <1>2

LEMMA DotSize ==
  ASSUME NEW u, NEW v, DotOnScreen(u, v)
  PROVE  IsFiniteSet(Dot(u, v)) /\ Cardinality(Dot(u, v)) = BYTES
<1>1. CASE line.steep
  BY <1>1, PixelSize DEF Dot, DotOnScreen
<1>2. CASE ~line.steep
  BY <1>2, PixelSize DEF Dot, DotOnScreen
<1> QED
  BY <1>1, <1>2

\* In the loop: the dot that is plotted is on the screen, and at the line's ends it is an end.
LEMMA PlottedDot ==
  ASSUME Types, Loop, pc = "line", x <= line.x_1
  PROVE  /\ helper_plot_pixel = Dot(x, y) /\ DotOnScreen(x, y)
         /\ line.x_0 \in Int /\ line.x_1 \in Int /\ x \in line.x_0 .. line.x_1
         /\ x = line.x_0 => y = line.y_0
         /\ x = line.x_1 => y = line.y_1
<1> DEFINE L == line
<1>1. OnScreen(request) /\ request \in Request
  BY DEF Types, Loop
<1>2. /\ L.x_0 \in Int /\ L.x_1 \in Int /\ L.y_0 \in Int /\ L.y_1 \in Int
      /\ L.deltay \in Nat /\ L.deltax = L.x_1 - L.x_0 /\ L.deltay <= L.deltax
      /\ L.ystep \in {-1, 1}
      /\ L.y_1 = IF L.ystep = 1 THEN L.y_0 + L.deltay ELSE L.y_0 - L.deltay
      /\ IF L.steep THEN {L.x_0, L.x_1} \subseteq Rows /\ {L.y_0, L.y_1} \subseteq Columns
                    ELSE {L.x_0, L.x_1} \subseteq Columns /\ {L.y_0, L.y_1} \subseteq Rows
  BY <1>1, LineShape DEF line
<1>3. /\ x \in Int /\ y \in Int /\ error \in Int
      /\ x \in L.x_0 .. L.x_1 /\ Steps \in Nat
      /\ Error(L.deltax, L.deltay, x - L.x_0, Steps, error)
  BY <1>2 DEF Types, Loop
<1>4. Steps = IF L.ystep = 1 THEN y - L.y_0 ELSE L.y_0 - y
  BY DEF Steps
<1>5. helper_plot_pixel = Dot(x, y)
  BY DEF helper_plot_pixel, Dot
<1> DEFINE on == IF L.steep THEN y \in Columns /\ x \in Rows ELSE x \in Columns /\ y \in Rows
<1>6. on <=> DotOnScreen(x, y)
  BY DEF DotOnScreen
<1> HIDE DEF L
<1>7. L.deltax \in Nat /\ x - L.x_0 \in Nat /\ x - L.x_0 <= L.deltax
  BY <1>2, <1>3
<1>8. Steps <= L.deltay
  BY <1>2, <1>3, <1>7, NotPast
<1>9. y \in Low(L.y_0, L.y_1) .. High(L.y_0, L.y_1)
  BY <1>2, <1>3, <1>4, <1>8 DEF Low, High
<1>10. on
  <2>1. x_resolution \in Nat /\ y_resolution \in Nat
    BY DrawingAssumption
  <2>2. CASE L.steep
    BY <1>2, <1>3, <1>9, <2>1, <2>2 DEF Columns, Rows, Low, High
  <2>3. CASE ~L.steep
    BY <1>2, <1>3, <1>9, <2>1, <2>3 DEF Columns, Rows, Low, High
  <2> QED
    BY <2>2, <2>3
<1>11. x = L.x_0 => y = L.y_0
  <2> SUFFICES ASSUME x = L.x_0 PROVE y = L.y_0
    OBVIOUS
  <2>1. x - L.x_0 = 0
    BY <1>2
  <2>2. Steps = 0
    BY <1>2, <1>3, <1>7, <2>1, AtStart
  <2> QED
    BY <1>2, <1>3, <1>4, <2>2
<1>12. x = L.x_1 => y = L.y_1
  <2> SUFFICES ASSUME x = L.x_1 PROVE y = L.y_1
    OBVIOUS
  <2>1. x - L.x_0 = L.deltax
    BY <1>2
  <2>2. Steps = L.deltay
    BY <1>2, <1>3, <1>7, <2>1, AtEnd
  <2> QED
    BY <1>2, <1>3, <1>4, <2>2
<1> QED
  BY <1>2, <1>3, <1>5, <1>6, <1>10, <1>11, <1>12 DEF L

LEMMA PlottedInBuffer ==
  ASSUME Types, Loop, pc = "line", x <= line.x_1
  PROVE  helper_plot_pixel \subseteq ScreenBytes
<1>1. helper_plot_pixel = Dot(x, y) /\ DotOnScreen(x, y)
  BY PlottedDot
<1>2. CASE line.steep
  BY <1>1, <1>2, PixelInBuffer DEF Dot, DotOnScreen
<1>3. CASE ~line.steep
  BY <1>1, <1>3, PixelInBuffer DEF Dot, DotOnScreen
<1>4. QED
  BY <1>2, <1>3

LEMMA LoopStep == Types /\ Loop /\ PlotLine => Types' /\ Loop'
<1> SUFFICES ASSUME Types, Loop, PlotLine PROVE Types' /\ Loop'
  OBVIOUS
<1> DEFINE L == line
<1>1. OnScreen(request) /\ request \in Request /\ request' = request /\ pc = "line" /\ pc' = "line"
  BY DEF Types, Loop, PlotLine
<1>2. /\ L.x_0 \in Int /\ L.x_1 \in Int /\ L.y_0 \in Int /\ L.y_1 \in Int
      /\ L.deltay \in Nat /\ L.deltax = L.x_1 - L.x_0 /\ L.deltay <= L.deltax
      /\ L.ystep \in {-1, 1} /\ line' = L
  BY <1>1, LineShape DEF line
<1>3. /\ x \in Int /\ y \in Int /\ error \in Int
      /\ x \in L.x_0 .. L.x_1 /\ Steps \in Nat /\ x' = x + 1
      /\ Error(L.deltax, L.deltay, x - L.x_0, Steps, error)
      /\ IF error + L.deltay > 0 THEN y' = y + L.ystep /\ error' = error + L.deltay - L.deltax
                                 ELSE error' = error + L.deltay /\ y' = y
  BY <1>1, <1>2 DEF Types, Loop, PlotLine
<1>4. /\ Steps = IF L.ystep = 1 THEN y - L.y_0 ELSE L.y_0 - y
      /\ Steps' = IF L.ystep = 1 THEN y' - L.y_0 ELSE L.y_0 - y'
  BY <1>2 DEF Steps
<1> HIDE DEF L
<1>5. L.deltax \in Nat /\ x - L.x_0 \in Nat /\ x' - L.x_0 = (x - L.x_0) + 1
  BY <1>2, <1>3
<1>6. /\ y' \in Int /\ error' \in Int /\ Steps' \in Nat
      /\ Error(L.deltax, L.deltay, x' - L.x_0, Steps', error')
  <2>1. CASE error + L.deltay > 0
    <3>1. Steps' = Steps + 1 /\ error' = error + L.deltay - L.deltax /\ y' = y + L.ystep
      BY <1>2, <1>3, <1>4, <2>1
    <3>2. Error(L.deltax, L.deltay, (x - L.x_0) + 1, Steps + 1, error + L.deltay - L.deltax)
      BY <1>2, <1>3, <1>5, <2>1, Advance
    <3>3. QED
      BY <1>2, <1>3, <1>5, <3>1, <3>2
  <2>2. CASE ~(error + L.deltay > 0)
    <3>1. Steps' = Steps /\ error' = error + L.deltay /\ y' = y
      BY <1>2, <1>3, <1>4, <2>2
    <3>2. error + L.deltay <= 0
      BY <1>2, <1>3, <2>2
    <3>3. Error(L.deltax, L.deltay, (x - L.x_0) + 1, Steps, error + L.deltay)
      BY <1>2, <1>3, <1>5, <3>2, Advance
    <3>4. QED
      BY <1>2, <1>3, <1>5, <3>1, <3>3
  <2>3. QED
    BY <2>1, <2>2
<1>7. Types'
  BY <1>1, <1>3, <1>6 DEF Types
<1>8. Loop'
  <2>1. OnScreen(request')
    BY <1>1
  <2>2. x' \in L.x_0 .. L.x_1 + 1
    BY <1>2, <1>3
  <2>3. QED
    BY <1>2, <1>6, <2>1, <2>2 DEF Loop, L
<1>9. QED
  BY <1>7, <1>8

LEMMA BeginStep == Types /\ BeginLine => Types' /\ Loop'
<1> SUFFICES ASSUME Types, BeginLine PROVE Types' /\ Loop'
  OBVIOUS
<1> DEFINE L == line
<1>1. /\ OnScreen(request) /\ request \in Request /\ request' = request /\ pc' = "line"
      /\ x' = L.x_0 /\ y' = L.y_0 /\ error' = -(L.deltax \div 2)
  BY DEF Types, BeginLine
<1>2. /\ L.x_0 \in Int /\ L.x_1 \in Int /\ L.y_0 \in Int
      /\ L.deltay \in Nat /\ L.deltax = L.x_1 - L.x_0 /\ L.deltay <= L.deltax /\ line' = L
  BY <1>1, LineShape DEF line
<1>3. Steps' = IF L.ystep = 1 THEN y' - L.y_0 ELSE L.y_0 - y'
  BY <1>2 DEF Steps
<1> HIDE DEF L
<1>4. PICK dx \in Nat : dx = L.deltax
  BY <1>2
<1>5. x' - L.x_0 = 0 /\ Steps' = 0 /\ error' = -(dx \div 2) /\ error' \in Int
  BY <1>1, <1>2, <1>3, <1>4
<1>6. Error(L.deltax, L.deltay, x' - L.x_0, Steps', error')
  BY <1>2, <1>4, <1>5, First
<1>7. Types'
  BY <1>1, <1>2, <1>5 DEF Types
<1>8. x' \in L.x_0 .. L.x_1 + 1 /\ Steps' \in Nat /\ OnScreen(request')
  BY <1>1, <1>2, <1>4, <1>5
<1>9. QED
  BY <1>2, <1>6, <1>7, <1>8 DEF Loop, L

LEMMA Initially == Init => IInv
BY DEF Init, IInv, Types, Loop, Request

LEMMA Inductive == IInv /\ [Next]_vars => IInv'
<1> SUFFICES ASSUME IInv, [Next]_vars PROVE IInv'
  OBVIOUS
<1>1. CASE DrawWhole
  BY <1>1 DEF DrawWhole, IInv, Types, Loop
<1>2. CASE BeginLine
  BY <1>2, BeginStep DEF IInv
<1>3. CASE PlotLine
  BY <1>3, LoopStep DEF IInv
<1>4. CASE EndLine
  BY <1>4 DEF EndLine, IInv, Types, Loop
<1>5. CASE UNCHANGED vars
  <2>1. line' = line /\ Steps' = Steps
    BY <1>5 DEF vars, line, Steps
  <2>2. QED
    BY <1>5, <2>1 DEF vars, IInv, Types, Loop
<1>6. QED
  BY <1>1, <1>2, <1>3, <1>4, <1>5 DEF Next

LEMMA Always == Spec => []IInv
<1>1. Init => IInv
  BY Initially
<1>2. QED
  BY <1>1, Inductive, PTL DEF Spec

\* Nothing but the screen's rows is written.
InRows == BYTES # 1 => written \subseteq ScreenBytes

LEMMA WritesStay == IInv /\ InRows /\ [Next]_vars => InRows'
<1> SUFFICES ASSUME IInv, InRows, [Next]_vars, BYTES # 1 PROVE written' \subseteq ScreenBytes
  BY DEF InRows, ScreenBytes, Stride
<1>0. written \subseteq ScreenBytes
  BY DEF InRows
<1>1. CASE DrawWhole
  <2>1. Whole(request) \subseteq ScreenBytes
    BY <1>1, WholeInBuffer DEF DrawWhole, IInv, Types
  <2>2. QED
    BY <1>1, <2>1 DEF DrawWhole
<1>2. CASE PlotLine
  <2>1. helper_plot_pixel \subseteq ScreenBytes
    BY <1>2, PlottedInBuffer DEF IInv, PlotLine
  <2>2. QED
    BY <1>0, <1>2, <2>1 DEF PlotLine
<1>3. CASE BeginLine \/ EndLine \/ UNCHANGED vars
  BY <1>0, <1>3 DEF BeginLine, EndLine, vars
<1>4. QED
  BY <1>1, <1>2, <1>3 DEF Next

\* Where 16-bit rows follow each other, they fill what lcd_init allocated.
LEMMA RowsInBuffer == ASSUME BYTES = 2, ~XY PROVE ScreenBytes \subseteq Buffer
<1>1. SUFFICES ASSUME NEW py \in 0 .. y_resolution - 1
               PROVE  Bytes(py * Stride, x_resolution * BYTES) \subseteq Buffer
  BY DEF ScreenBytes
<1>2. PICK size \in Nat : size = x_resolution * 2
  BY DrawingAssumption
<1>3. Stride = size /\ x_resolution * BYTES = size
  BY <1>2, DrawingAssumption DEF Stride
<1>4. y_resolution \in Nat /\ py \in Nat /\ py + 1 <= y_resolution
  BY DrawingAssumption
<1>5. PICK d \in Nat : y_resolution = py + 1 + d
  <2>1. y_resolution - (py + 1) \in Nat /\ y_resolution = py + 1 + (y_resolution - (py + 1))
    BY <1>4
  <2>2. QED
    BY <2>1
<1>6. PICK first \in Nat : first = py * size
  BY <1>2, <1>4
<1>7. PICK rest \in Nat : rest = d * size
  BY <1>2, <1>5
<1>8. x_resolution * y_resolution * 2 = first + size + rest
  <2>1. x_resolution * y_resolution * 2 = y_resolution * size
    BY <1>2, <1>4, DrawingAssumption
  <2>2. (py + 1 + d) * size = py * size + size + d * size
    BY <1>2, <1>4, <1>5
  <2>3. QED
    BY <1>5, <1>6, <1>7, <2>1, <2>2
<1>9. Bytes(first, size) \subseteq Bytes(0, first + size + rest)
  BY <1>2, <1>6, <1>7 DEF Bytes
<1>10. QED
  BY <1>3, <1>6, <1>8, <1>9 DEF Buffer

\* Whatever is drawn, in every mode, is bytes of memory.
LEMMA BytesAreInt ==
  ASSUME NEW first \in Int, NEW size \in Int PROVE Bytes(first, size) \subseteq Int
BY DEF Bytes

LEMMA BufferIsInt == ScreenBytes \subseteq Int
<1>1. ASSUME NEW py \in Rows PROVE Bytes(py * Stride, x_resolution * BYTES) \subseteq Int
  BY StrideIsNat, BytesAreInt, DrawingAssumption DEF Rows
<1> QED
  BY <1>1 DEF ScreenBytes, Rows

LEMMA ClearIsInt == clear_screen \subseteq Int
<1> DEFINE row_bytes == x_resolution * (IF BYTES = 2 THEN 2 ELSE 4)
<1> DEFINE Words(first, limit) ==
      UNION {Bytes(first + b, 4) : b \in {c \in 0 .. limit - 1 : c % 4 = 0}}
<1>1. clear_screen = IF XY THEN UNION {Words(row * ROW, row_bytes) : row \in Rows}
                           ELSE Words(0, row_bytes * y_resolution)
  BY DEF clear_screen, Rows
<1>2. ASSUME NEW first \in Int, NEW limit PROVE Words(first, limit) \subseteq Int
  <2>1. ASSUME NEW c \in 0 .. limit - 1 PROVE Bytes(first + c, 4) \subseteq Int
    BY BytesAreInt
  <2> QED
    BY <2>1
<1>3. ASSUME NEW row \in Rows PROVE row * ROW \in Int
  BY DrawingAssumption DEF Rows
<1> HIDE DEF Words, row_bytes
<1> QED
  BY <1>1, <1>2, <1>3

LEMMA WrittenIsInt == Spec => [](written \subseteq Int)
<1>1. Init => written \subseteq Int
  BY DEF Init
<1>2. IInv /\ written \subseteq Int /\ [Next]_vars => (written \subseteq Int)'
  <2> SUFFICES ASSUME IInv, written \subseteq Int, [Next]_vars PROVE written' \subseteq Int
    OBVIOUS
  <2>1. CASE DrawWhole
    <3>1. written' = Whole(request) /\ request \in Request /\ request.f # "draw_line"
      BY <2>1 DEF DrawWhole, IInv, Types
    <3>2. CASE request.f = "clear_screen"
      BY <3>1, <3>2, ClearIsInt DEF Whole
    <3>3. CASE request.f # "clear_screen"
      BY <3>1, <3>3, WholeInBuffer, BufferIsInt
    <3> QED
      BY <3>2, <3>3
  <2>2. CASE PlotLine
    <3>1. helper_plot_pixel \subseteq ScreenBytes
      BY <2>2, PlottedInBuffer DEF IInv, PlotLine
    <3> QED
      BY <2>2, <3>1, BufferIsInt DEF PlotLine
  <2>3. CASE BeginLine \/ EndLine \/ UNCHANGED vars
    BY <2>3 DEF BeginLine, EndLine, vars
  <2> QED
    BY <2>1, <2>2, <2>3 DEF Next
<1> QED
  BY <1>1, <1>2, Always, PTL DEF Spec

-----------------------------------------------------------------------------
(* A line is drawn from end to end, dot by dot                             *)

\* What has been plotted of a line.
Traced ==
  /\ pc = "call" => written = {}
  /\ pc = "line" => request.f = "draw_line"
  /\ pc # "call" /\ request.f = "draw_line" =>
       /\ OnScreen(request)
       /\ IsFiniteSet(written) /\ Cardinality(written) = BYTES * (x - line.x_0)
       /\ \A b \in written :
            \E u \in line.x_0 .. x - 1, v \in Int : DotOnScreen(u, v) /\ b \in Dot(u, v)
       /\ x > line.x_0 => Dot(line.x_0, line.y_0) \subseteq written
       /\ x > line.x_1 => Dot(line.x_1, line.y_1) \subseteq written
       /\ pc = "done" => x = line.x_1 + 1

LEMMA TracedInit == Init => Traced
BY DEF Init, Traced

LEMMA LineEnds ==
  ASSUME request \in Request, OnScreen(request)
  PROVE  /\ line.x_0 \in Int /\ line.x_1 \in Int /\ line.x_0 <= line.x_1
         /\ line.deltax = line.x_1 - line.x_0
<1>1. /\ line.x_0 \in Int /\ line.x_1 \in Int /\ line.deltay \in Nat
      /\ line.deltax = line.x_1 - line.x_0 /\ line.deltay <= line.deltax
  BY LineShape DEF line
<1> QED
  BY <1>1

LEMMA TracedBegin == IInv /\ Traced /\ BeginLine => Traced'
<1> SUFFICES ASSUME IInv, Traced, BeginLine PROVE Traced'
  OBVIOUS
<1>1. /\ pc' = "line" /\ request' = request /\ request.f = "draw_line" /\ written' = {}
      /\ OnScreen(request) /\ x' = line.x_0 /\ line' = line /\ request \in Request
  BY DEF BeginLine, Traced, IInv, Types, line
<1>2. line.x_0 \in Int /\ line.x_1 \in Int /\ line.x_0 <= line.x_1
  BY <1>1, LineEnds
<1>3. IsFiniteSet(written') /\ Cardinality(written') = BYTES * (x' - line.x_0)
  <2>1. BYTES * (x' - line.x_0) = 0
    BY <1>1, <1>2, DrawingAssumption
  <2> QED
    BY <1>1, <2>1, FS_EmptySet
<1>4. ~(x' > line.x_0) /\ ~(x' > line.x_1)
  BY <1>1, <1>2
<1> QED
  BY <1>1, <1>3, <1>4 DEF Traced, OnScreen

LEMMA TracedPlot == IInv /\ Traced /\ PlotLine => Traced'
<1> SUFFICES ASSUME IInv, Traced, PlotLine PROVE Traced'
  OBVIOUS
<1>1. /\ pc = "line" /\ pc' = "line" /\ x <= line.x_1 /\ request' = request /\ line' = line
      /\ x' = x + 1 /\ written' = written \union helper_plot_pixel
      /\ request \in Request /\ OnScreen(request) /\ request.f = "draw_line"
  BY DEF PlotLine, IInv, Types, Loop, line, Traced
<1>2. /\ helper_plot_pixel = Dot(x, y) /\ DotOnScreen(x, y)
      /\ line.x_0 \in Int /\ line.x_1 \in Int /\ x \in line.x_0 .. line.x_1
      /\ x = line.x_0 => y = line.y_0
      /\ x = line.x_1 => y = line.y_1
  BY <1>1, PlottedDot DEF IInv
<1>3. /\ IsFiniteSet(written) /\ Cardinality(written) = BYTES * (x - line.x_0)
      /\ \A b \in written :
           \E u \in line.x_0 .. x - 1, v \in Int : DotOnScreen(u, v) /\ b \in Dot(u, v)
      /\ x > line.x_0 => Dot(line.x_0, line.y_0) \subseteq written
  BY <1>1 DEF Traced
<1>4. y \in Int
  BY DEF IInv, Types
<1>5. \A u, v : Dot(u, v)' = Dot(u, v) /\ (DotOnScreen(u, v)' <=> DotOnScreen(u, v))
  BY <1>1 DEF Dot, DotOnScreen, Pixel, Bytes, Stride, Columns, Rows
<1>6. written \intersect Dot(x, y) = {}
  <2> SUFFICES ASSUME NEW b \in written, b \in Dot(x, y) PROVE FALSE
    OBVIOUS
  <2>1. PICK u \in line.x_0 .. x - 1, v \in Int : DotOnScreen(u, v) /\ b \in Dot(u, v)
    BY <1>3
  <2>2. u # x
    BY <1>2, <2>1
  <2> QED
    BY <1>2, <2>1, <2>2, DotsApart
<1>7. IsFiniteSet(written') /\ Cardinality(written') = BYTES * (x' - line.x_0)
  <2>1. IsFiniteSet(Dot(x, y)) /\ Cardinality(Dot(x, y)) = BYTES
    BY <1>2, DotSize
  <2>2. /\ IsFiniteSet(written \union Dot(x, y))
        /\ Cardinality(written \union Dot(x, y)) = Cardinality(written) + Cardinality(Dot(x, y))
               - Cardinality(written \intersect Dot(x, y))
    BY <1>3, <2>1, FS_Union
  <2>3. Cardinality(written \intersect Dot(x, y)) = 0
    BY <1>6, FS_EmptySet
  <2>4. BYTES * (x - line.x_0) + BYTES - 0 = BYTES * (x' - line.x_0)
    <3>1. PICK p \in Nat : p = x - line.x_0 /\ x' - line.x_0 = p + 1
      BY <1>1, <1>2
    <3>2. BYTES \in Nat
      BY DrawingAssumption
    <3>3. BYTES * (p + 1) = BYTES * p + BYTES - 0
      BY <3>1, <3>2
    <3> QED
      BY <3>1, <3>3
  <2> QED
    BY <1>1, <1>2, <1>3, <2>1, <2>2, <2>3, <2>4
<1>8. ASSUME NEW b \in written'
      PROVE  \E u \in line.x_0 .. x' - 1, v \in Int : DotOnScreen(u, v) /\ b \in Dot(u, v)
  <2>1. CASE b \in written
    <3>1. PICK u \in line.x_0 .. x - 1, v \in Int : DotOnScreen(u, v) /\ b \in Dot(u, v)
      BY <1>3, <2>1
    <3>2. u \in line.x_0 .. x' - 1
      BY <1>1, <1>2, <3>1
    <3> QED
      BY <3>1, <3>2
  <2>2. CASE b \in Dot(x, y)
    <3>1. x \in line.x_0 .. x' - 1
      BY <1>1, <1>2
    <3> QED
      BY <1>2, <1>4, <2>2, <3>1
  <2> QED
    BY <1>1, <1>2, <2>1, <2>2
<1>9. Dot(line.x_0, line.y_0) \subseteq written'
  <2>1. CASE x = line.x_0
    BY <1>1, <1>2, <2>1
  <2>2. CASE x > line.x_0
    BY <1>1, <1>3, <2>2
  <2> QED
    BY <1>2, <2>1, <2>2
<1>10. x' > line.x_1 => Dot(line.x_1, line.y_1) \subseteq written'
  BY <1>1, <1>2
<1>11. OnScreen(request)'
  BY <1>1 DEF OnScreen
<1> QED
  BY <1>1, <1>5, <1>7, <1>8, <1>9, <1>10, <1>11 DEF Traced

LEMMA TracedEnd == IInv /\ Traced /\ EndLine => Traced'
<1> SUFFICES ASSUME IInv, Traced, EndLine PROVE Traced'
  OBVIOUS
<1>1. /\ pc = "line" /\ pc' = "done" /\ UNCHANGED <<request, written, x, y, error>>
      /\ x > line.x_1 /\ OnScreen(request) /\ request \in Request /\ line' = line
      /\ x \in line.x_0 .. line.x_1 + 1
  BY DEF EndLine, IInv, Types, Loop, line
<1>2. line.x_0 \in Int /\ line.x_1 \in Int
  BY <1>1, LineEnds
<1>3. x' = line.x_1 + 1
  BY <1>1, <1>2
<1>4. \A u, v : Dot(u, v)' = Dot(u, v) /\ (DotOnScreen(u, v)' <=> DotOnScreen(u, v))
  BY <1>1 DEF Dot, DotOnScreen, Pixel, Bytes, Stride, Columns, Rows
<1> QED
  BY <1>1, <1>3, <1>4 DEF Traced, OnScreen

LEMMA TracedStays == IInv /\ Traced /\ [Next]_vars => Traced'
<1> SUFFICES ASSUME IInv, Traced, [Next]_vars PROVE Traced'
  OBVIOUS
<1>1. CASE DrawWhole
  BY <1>1 DEF DrawWhole, Traced
<1>2. CASE UNCHANGED vars
  <2>1. line' = line
    BY <1>2 DEF vars, line
  <2>2. \A u, v : Dot(u, v)' = Dot(u, v) /\ (DotOnScreen(u, v)' <=> DotOnScreen(u, v))
    BY <2>1 DEF Dot, DotOnScreen, Pixel, Bytes, Stride, Columns, Rows
  <2> QED
    BY <1>2, <2>1, <2>2 DEF vars, Traced, OnScreen
<1> QED
  BY <1>1, <1>2, TracedBegin, TracedPlot, TracedEnd DEF Next

LEMMA AlwaysTraced == Spec => []Traced
BY TracedInit, TracedStays, Always, PTL DEF Spec

-----------------------------------------------------------------------------
(* The shapes are complete                                                 *)

LEMMA UnsignedSame ==
  ASSUME NEW v \in Coords, v >= 0
  PROVE  v \in Nat /\ Unsigned(v) = v
BY DrawingAssumption DEF Unsigned

LEMMA PixelsUnion ==
  ASSUME NEW S, NEW T
  PROVE  Pixels(S) \union Pixels(T) = Pixels(S \union T)
BY DEF Pixels

LEMMA NoPixels == Pixels({}) = {}
BY DEF Pixels

\* The pixels of the screen with a column in C and a row in R.
Area(C, R) == {p \in Columns \X Rows : p[1] \in C /\ p[2] \in R}

\* Clipping by unsigned comparisons: the pixels from the smaller coordinate to the larger one,
\* or to the border, are those of the screen, if the smaller one is on it.
LEMMA Clipped ==
  ASSUME NEW a \in Nat, NEW b \in Nat, NEW size \in Nat, size > 0
  PROVE  /\ Low(a, b) < size =>
              Low(a, b) .. Low(High(a, b), size - 1)
                = {v \in 0 .. size - 1 : v \in Low(a, b) .. High(a, b)}
         /\ Low(a, b) >= size => {v \in 0 .. size - 1 : v \in Low(a, b) .. High(a, b)} = {}
BY DEF Low, High

\* A product of clipped ranges.
LEMMA AreaIs ==
  ASSUME NEW C, NEW R
  PROVE  Area(C, R) = {v \in Columns : v \in C} \X {v \in Rows : v \in R}
BY DEF Area

LEMMA BoxIs ==
  ASSUME NEW x0 \in Coords, NEW y0 \in Coords, NEW x1 \in Coords, NEW y1 \in Coords,
         x0 >= 0, y0 >= 0, x1 >= 0, y1 >= 0
  PROVE  draw_box(x0, y0, x1, y1) =
           Pixels(Area(Low(x0, x1) .. High(x0, x1), Low(y0, y1) .. High(y0, y1)))
<1> DEFINE C == {v \in Columns : v \in Low(x0, x1) .. High(x0, x1)}
<1> DEFINE R == {v \in Rows : v \in Low(y0, y1) .. High(y0, y1)}
<1>1. /\ x0 \in Nat /\ y0 \in Nat /\ x1 \in Nat /\ y1 \in Nat
      /\ Unsigned(x0) = x0 /\ Unsigned(y0) = y0 /\ Unsigned(x1) = x1 /\ Unsigned(y1) = y1
  BY UnsignedSame
<1>2. x_resolution \in Nat /\ y_resolution \in Nat /\ x_resolution > 0 /\ y_resolution > 0
  BY DrawingAssumption
<1>3. Area(Low(x0, x1) .. High(x0, x1), Low(y0, y1) .. High(y0, y1)) = C \X R
  BY AreaIs
<1>4. Low(x0, x1) \in Nat /\ Low(y0, y1) \in Nat
  BY <1>1 DEF Low
<1>5. /\ Low(x0, x1) < x_resolution => Low(x0, x1) .. Low(High(x0, x1), x_resolution - 1) = C
      /\ Low(x0, x1) >= x_resolution => C = {}
  BY <1>1, <1>2, Clipped DEF Columns
<1>6. /\ Low(y0, y1) < y_resolution => Low(y0, y1) .. Low(High(y0, y1), y_resolution - 1) = R
      /\ Low(y0, y1) >= y_resolution => R = {}
  BY <1>1, <1>2, Clipped DEF Rows
<1> HIDE DEF C, R
<1>7. CASE Low(x0, x1) >= x_resolution \/ Low(y0, y1) >= y_resolution
  <2>1. C \X R = {}
    BY <1>5, <1>6, <1>7
  <2>2. draw_box(x0, y0, x1, y1) = {}
    BY <1>1, <1>7 DEF draw_box
  <2> QED
    BY <1>3, <2>1, <2>2, NoPixels
<1>8. CASE ~(Low(x0, x1) >= x_resolution \/ Low(y0, y1) >= y_resolution)
  <2>1. /\ Low(x0, x1) .. Low(High(x0, x1), x_resolution - 1) = C
        /\ Low(y0, y1) .. Low(High(y0, y1), y_resolution - 1) = R
    BY <1>2, <1>4, <1>5, <1>6, <1>8
  <2>2. draw_box(x0, y0, x1, y1) =
          Pixels((Low(x0, x1) .. Low(High(x0, x1), x_resolution - 1))
                   \X (Low(y0, y1) .. Low(High(y0, y1), y_resolution - 1)))
    BY <1>1, <1>8 DEF draw_box
  <2> QED
    BY <1>3, <2>1, <2>2
<1> QED
  BY <1>7, <1>8

LEMMA HlineIs ==
  ASSUME NEW x0 \in Coords, NEW x1 \in Coords, NEW y0 \in Coords, x0 >= 0, x1 >= 0, y0 >= 0
  PROVE  draw_hline(x0, x1, y0) = Pixels(Area(Low(x0, x1) .. High(x0, x1), {y0}))
<1> DEFINE C == {v \in Columns : v \in Low(x0, x1) .. High(x0, x1)}
<1> DEFINE R == {v \in Rows : v \in {y0}}
<1>1. /\ x0 \in Nat /\ y0 \in Nat /\ x1 \in Nat
      /\ Unsigned(x0) = x0 /\ Unsigned(y0) = y0 /\ Unsigned(x1) = x1
  BY UnsignedSame
<1>2. x_resolution \in Nat /\ y_resolution \in Nat /\ x_resolution > 0 /\ y_resolution > 0
  BY DrawingAssumption
<1>3. Area(Low(x0, x1) .. High(x0, x1), {y0}) = C \X R
  BY AreaIs
<1>4. Low(x0, x1) \in Nat
  BY <1>1 DEF Low
<1>5. /\ Low(x0, x1) < x_resolution => Low(x0, x1) .. Low(High(x0, x1), x_resolution - 1) = C
      /\ Low(x0, x1) >= x_resolution => C = {}
  BY <1>1, <1>2, Clipped DEF Columns
<1>6. /\ y0 < y_resolution => {y0} = R
      /\ y0 >= y_resolution => R = {}
  BY <1>1, <1>2 DEF Rows
<1> HIDE DEF C, R
<1>7. CASE Low(x0, x1) >= x_resolution \/ y0 >= y_resolution
  <2>1. C \X R = {}
    BY <1>5, <1>6, <1>7
  <2>2. draw_hline(x0, x1, y0) = {}
    BY <1>1, <1>7 DEF draw_hline
  <2> QED
    BY <1>3, <2>1, <2>2, NoPixels
<1>8. CASE ~(Low(x0, x1) >= x_resolution \/ y0 >= y_resolution)
  <2>1. Low(x0, x1) .. Low(High(x0, x1), x_resolution - 1) = C /\ {y0} = R
    BY <1>1, <1>2, <1>4, <1>5, <1>6, <1>8
  <2>2. draw_hline(x0, x1, y0) =
          Pixels((Low(x0, x1) .. Low(High(x0, x1), x_resolution - 1)) \X {y0})
    BY <1>1, <1>8 DEF draw_hline
  <2> QED
    BY <1>3, <2>1, <2>2
<1> QED
  BY <1>7, <1>8

LEMMA VlineIs ==
  ASSUME NEW x0 \in Coords, NEW y0 \in Coords, NEW y1 \in Coords, x0 >= 0, y0 >= 0, y1 >= 0
  PROVE  draw_vline(x0, y0, y1) = Pixels(Area({x0}, Low(y0, y1) .. High(y0, y1)))
<1> DEFINE C == {v \in Columns : v \in {x0}}
<1> DEFINE R == {v \in Rows : v \in Low(y0, y1) .. High(y0, y1)}
<1>1. /\ x0 \in Nat /\ y0 \in Nat /\ y1 \in Nat
      /\ Unsigned(x0) = x0 /\ Unsigned(y0) = y0 /\ Unsigned(y1) = y1
  BY UnsignedSame
<1>2. x_resolution \in Nat /\ y_resolution \in Nat /\ x_resolution > 0 /\ y_resolution > 0
  BY DrawingAssumption
<1>3. Area({x0}, Low(y0, y1) .. High(y0, y1)) = C \X R
  BY AreaIs
<1>4. Low(y0, y1) \in Nat
  BY <1>1 DEF Low
<1>5. /\ x0 < x_resolution => {x0} = C
      /\ x0 >= x_resolution => C = {}
  BY <1>1, <1>2 DEF Columns
<1>6. /\ Low(y0, y1) < y_resolution => Low(y0, y1) .. Low(High(y0, y1), y_resolution - 1) = R
      /\ Low(y0, y1) >= y_resolution => R = {}
  BY <1>1, <1>2, Clipped DEF Rows
<1> HIDE DEF C, R
<1>7. CASE x0 >= x_resolution \/ Low(y0, y1) >= y_resolution
  <2>1. C \X R = {}
    BY <1>5, <1>6, <1>7
  <2>2. draw_vline(x0, y0, y1) = {}
    BY <1>1, <1>7 DEF draw_vline
  <2> QED
    BY <1>3, <2>1, <2>2, NoPixels
<1>8. CASE ~(x0 >= x_resolution \/ Low(y0, y1) >= y_resolution)
  <2>1. {x0} = C /\ Low(y0, y1) .. Low(High(y0, y1), y_resolution - 1) = R
    BY <1>1, <1>2, <1>4, <1>5, <1>6, <1>8
  <2>2. draw_vline(x0, y0, y1) =
          Pixels({x0} \X (Low(y0, y1) .. Low(High(y0, y1), y_resolution - 1)))
    BY <1>1, <1>8 DEF draw_vline
  <2> QED
    BY <1>3, <2>1, <2>2
<1> QED
  BY <1>7, <1>8

LEMMA BoxComplete ==
  ASSUME NEW r \in Request, NotNegative(r)
  PROVE  draw_box(r.x0, r.y0, r.x1, r.y1) = Pixels(Between(r))
<1>1. r.x0 \in Coords /\ r.y0 \in Coords /\ r.x1 \in Coords /\ r.y1 \in Coords
  BY DEF Request
<1>2. r.x0 \in Nat /\ r.y0 \in Nat /\ r.x1 \in Nat /\ r.y1 \in Nat
  BY <1>1, UnsignedSame DEF NotNegative
<1>3. Area(Low(r.x0, r.x1) .. High(r.x0, r.x1), Low(r.y0, r.y1) .. High(r.y0, r.y1)) = Between(r)
  BY <1>2 DEF Area, Between, Columns, Rows, Low, High
<1> QED
  BY <1>1, <1>3, BoxIs DEF NotNegative

LEMMA RectangleComplete ==
  ASSUME NEW r \in Request, NotNegative(r)
  PROVE  draw_rectangle(r.x0, r.y0, r.x1, r.y1) =
           Pixels({p \in Between(r) : p[1] \in {r.x0, r.x1} \/ p[2] \in {r.y0, r.y1}})
<1> DEFINE C == Low(r.x0, r.x1) .. High(r.x0, r.x1)
           R == Low(r.y0, r.y1) .. High(r.y0, r.y1)
           Edge == {p \in Between(r) : p[1] \in {r.x0, r.x1} \/ p[2] \in {r.y0, r.y1}}
<1>1. r.x0 \in Coords /\ r.y0 \in Coords /\ r.x1 \in Coords /\ r.y1 \in Coords
  BY DEF Request
<1>2. r.x0 \in Nat /\ r.y0 \in Nat /\ r.x1 \in Nat /\ r.y1 \in Nat
  BY <1>1, UnsignedSame DEF NotNegative
<1>3. /\ draw_hline(r.x0, r.x1, r.y0) = Pixels(Area(C, {r.y0}))
      /\ draw_hline(r.x0, r.x1, r.y1) = Pixels(Area(C, {r.y1}))
      /\ draw_vline(r.x0, r.y0, r.y1) = Pixels(Area({r.x0}, R))
      /\ draw_vline(r.x1, r.y0, r.y1) = Pixels(Area({r.x1}, R))
  BY <1>1, <1>2, HlineIs, VlineIs
<1>4. draw_rectangle(r.x0, r.y0, r.x1, r.y1) =
        Pixels(Area(C, {r.y0}) \union Area(C, {r.y1})
                 \union Area({r.x0}, R) \union Area({r.x1}, R))
  <2>1. draw_rectangle(r.x0, r.y0, r.x1, r.y1) =
          ((Pixels(Area(C, {r.y0})) \union Pixels(Area(C, {r.y1})))
             \union Pixels(Area({r.x0}, R))) \union Pixels(Area({r.x1}, R))
    BY <1>3 DEF draw_rectangle
  <2> DEFINE S1 == Area(C, {r.y0})  S2 == Area(C, {r.y1})
             S3 == Area({r.x0}, R)  S4 == Area({r.x1}, R)
  <2> HIDE DEF C, R, S1, S2, S3, S4
  <2>2. Pixels(S1) \union Pixels(S2) = Pixels(S1 \union S2)
    BY PixelsUnion
  <2>3. Pixels(S1 \union S2) \union Pixels(S3) = Pixels((S1 \union S2) \union S3)
    BY PixelsUnion
  <2>4. Pixels((S1 \union S2) \union S3) \union Pixels(S4)
          = Pixels(((S1 \union S2) \union S3) \union S4)
    BY PixelsUnion
  <2> QED
    BY <2>1, <2>2, <2>3, <2>4 DEF S1, S2, S3, S4
<1>5. /\ C \subseteq Nat /\ R \subseteq Nat
      /\ r.x0 \in C /\ r.x1 \in C /\ r.y0 \in R /\ r.y1 \in R
  BY <1>2 DEF Low, High
<1>6. Between(r) = {p \in Columns \X Rows : p[1] \in C /\ p[2] \in R}
  BY <1>2 DEF Between, Columns, Rows, Low, High
<1> HIDE DEF C, R
<1>7. Area(C, {r.y0}) \union Area(C, {r.y1}) \union Area({r.x0}, R) \union Area({r.x1}, R) = Edge
  BY <1>5, <1>6 DEF Area
<1> QED
  BY <1>4, <1>7

\* The words of a row, or of all rows, leave out no byte below their limit.
LEMMA WordsCover ==
  ASSUME NEW first \in Nat, NEW limit \in Nat, NEW b \in Bytes(first, limit)
  PROVE  b \in UNION {Bytes(first + c, 4) : c \in {d \in 0 .. limit - 1 : d % 4 = 0}}
<1>1. PICK k \in Nat : b = first + k /\ k < limit
  BY DEF Bytes
<1>2. PICK c \in Nat : c = 4 * (k \div 4)
  BY <1>1
<1>3. c \in 0 .. limit - 1 /\ c % 4 = 0 /\ c <= k /\ k < c + 4
  BY <1>1, <1>2
<1>4. b \in Bytes(first + c, 4)
  BY <1>1, <1>3 DEF Bytes
<1> QED
  BY <1>3, <1>4

LEMMA ClearComplete == ScreenBytes \subseteq clear_screen
<1> DEFINE limit_x == x_resolution * (IF BYTES = 2 THEN 2 ELSE 4)
<1> DEFINE Words(first, limit) ==
      UNION {Bytes(first + b, 4) : b \in {c \in 0 .. limit - 1 : c % 4 = 0}}
<1>1. /\ limit_x \in Nat /\ x_resolution * BYTES \in Nat /\ x_resolution * BYTES <= limit_x
      /\ y_resolution \in Nat /\ ROW \in Nat
  BY DrawingAssumption
<1>2. clear_screen = IF XY THEN UNION {Words(row * ROW, limit_x) : row \in Rows}
                           ELSE Words(0, limit_x * y_resolution)
  BY DEF clear_screen, Rows
<1> HIDE DEF limit_x
<1>3. SUFFICES ASSUME NEW b, NEW row \in Rows, b \in Bytes(row * Stride, x_resolution * BYTES)
               PROVE  b \in clear_screen
  BY DEF ScreenBytes, Rows
<1>4. CASE XY
  <2>1. PICK base \in Nat : base = row * ROW /\ base = row * Stride
    BY <1>1, <1>4 DEF Rows, Stride
  <2>2. b \in Bytes(base, limit_x)
    BY <1>1, <1>3, <2>1 DEF Bytes
  <2>3. b \in Words(base, limit_x)
    BY <1>1, <2>2, WordsCover
  <2> QED
    BY <1>2, <1>4, <2>1, <2>3
<1>5. CASE ~XY
  <2>1. PICK size \in Nat : size = x_resolution * BYTES /\ size = Stride
    BY <1>1, <1>5 DEF Stride
  <2>2. PICK base \in Nat : base = row * size
    BY <2>1 DEF Rows
  <2>3. b \in Nat /\ b < base + size
    BY <1>3, <2>1, <2>2 DEF Bytes
  <2>4. row \in Nat /\ row + 1 <= y_resolution
    BY <1>1 DEF Rows
  <2>5. base + size = (row + 1) * size
    BY <2>1, <2>2, <2>4
  <2>6. (row + 1) * size <= y_resolution * size
    BY <1>1, <2>1, <2>4
  <2>7. y_resolution * size <= y_resolution * limit_x
    BY <1>1, <2>1
  <2>8. PICK total \in Nat : total = limit_x * y_resolution
    BY <1>1
  <2>9. (row + 1) * size \in Int /\ y_resolution * size \in Int /\ y_resolution * limit_x = total
    BY <1>1, <2>1, <2>4, <2>8
  <2>10. b < total
    BY <2>1, <2>2, <2>3, <2>5, <2>6, <2>7, <2>8, <2>9
  <2>11. b \in Bytes(0, total)
    BY <2>3, <2>8, <2>10 DEF Bytes
  <2>12. b \in UNION {Bytes(0 + c, 4) : c \in {d \in 0 .. total - 1 : d % 4 = 0}}
    BY <2>8, <2>11, WordsCover
  <2> QED
    BY <1>2, <1>5, <2>8, <2>12
<1> QED
  BY <1>4, <1>5

LEMMA ShapesDone ==
  IInv /\ DrawWhole => ShapesComplete'
<1> SUFFICES ASSUME IInv, DrawWhole PROVE ShapesComplete'
  OBVIOUS
<1>1. request \in Request /\ request' = request /\ written' = Whole(request)
  BY DEF IInv, Types, DrawWhole
<1>2. BoxIsClipped'
  <2> SUFFICES ASSUME request.f = "draw_box", NotNegative(request)
               PROVE  written' = Pixels(Between(request))
    BY <1>1 DEF BoxIsClipped
  <2>1. written' = draw_box(request.x0, request.y0, request.x1, request.y1)
    BY <1>1 DEF Whole
  <2> QED
    BY <1>1, <2>1, BoxComplete
<1>3. RectangleIsEdge'
  <2> SUFFICES ASSUME request.f = "draw_rectangle", NotNegative(request)
               PROVE  written' = Pixels({p \in Between(request) :
                                            p[1] \in {request.x0, request.x1}
                                            \/ p[2] \in {request.y0, request.y1}})
    BY <1>1 DEF RectangleIsEdge
  <2>1. written' = draw_rectangle(request.x0, request.y0, request.x1, request.y1)
    BY <1>1 DEF Whole
  <2> QED
    BY <1>1, <2>1, RectangleComplete
<1>4. ClearClearsAll'
  BY <1>1, ClearComplete DEF ClearClearsAll, Whole, ScreenBytes, Stride
<1> QED
  BY <1>2, <1>3, <1>4 DEF ShapesComplete

LEMMA ShapesStay == IInv /\ Traced /\ ShapesComplete /\ [Next]_vars => ShapesComplete'
<1> SUFFICES ASSUME IInv, Traced, ShapesComplete, [Next]_vars PROVE ShapesComplete'
  OBVIOUS
<1> USE DEF ShapesComplete, BoxIsClipped, RectangleIsEdge, ClearClearsAll
<1>1. CASE DrawWhole
  BY <1>1, ShapesDone
<1>2. CASE BeginLine \/ PlotLine
  BY <1>2 DEF BeginLine, PlotLine
<1>3. CASE EndLine
  BY <1>3 DEF EndLine, Traced
<1>4. CASE UNCHANGED vars
  BY <1>4 DEF vars, Between, ScreenBytes, Stride
<1>5. QED
  BY <1>1, <1>2, <1>3, <1>4 DEF Next

-----------------------------------------------------------------------------
(* Theorems                                                                *)

\* No drawing function writes a byte outside the rows of the screen, whatever it is asked
\* to draw, in 16- and 32-bit modes; and in the 16-bit consecutive mode none outside what
\* lcd_init allocated (lcd.c:63, 68).
THEOREM DrawingInBuffer == Spec => []WritesInBuffer
<1>1. Init => InRows
  BY DEF Init, InRows
<1>2. InRows => WritesInBuffer
  BY RowsInBuffer DEF InRows, WritesInBuffer
<1>3. QED
  BY <1>1, <1>2, WritesStay, Always, PTL DEF Spec

\* Boxes and rectangles with no negative coordinate are drawn as the pixels between their
\* corners, respectively the edge of these, clipped at the screen, and clear_screen leaves no
\* byte of the buffer as it was: on any screen, and in the 8-bit mode too.
THEOREM DrawingShapes == Spec => []ShapesComplete
<1>1. Init => ShapesComplete
  BY DEF Init, ShapesComplete, BoxIsClipped, RectangleIsEdge, ClearClearsAll
<1>2. QED
  BY <1>1, ShapesStay, Always, AlwaysTraced, PTL DEF Spec

LEMMA NearestAlways == Spec => []LineNearest
<1>1. IInv => LineNearest
  <2> SUFFICES ASSUME IInv, pc = "line", x <= line.x_1
               PROVE  2 * Abs((x - line.x_0) * line.deltay - Abs(y - line.y_0) * line.deltax)
                         <= line.deltax
    BY DEF LineNearest
  <2> DEFINE L == line
  <2>1. OnScreen(request) /\ request \in Request
    BY DEF IInv, Types, Loop
  <2>2. /\ L.x_0 \in Int /\ L.x_1 \in Int /\ L.y_0 \in Int
        /\ L.deltay \in Nat /\ L.deltax = L.x_1 - L.x_0 /\ L.deltay <= L.deltax
    BY <2>1, LineShape DEF line
  <2>3. /\ x \in Int /\ y \in Int /\ error \in Int
        /\ x \in L.x_0 .. L.x_1 /\ Steps \in Nat
        /\ Error(L.deltax, L.deltay, x - L.x_0, Steps, error)
    BY <2>2 DEF IInv, Types, Loop
  <2>4. Steps = IF L.ystep = 1 THEN y - L.y_0 ELSE L.y_0 - y
    BY DEF Steps
  <2> HIDE DEF L
  <2>5. L.deltax \in Nat /\ x - L.x_0 \in Nat
    BY <2>2, <2>3
  <2>6. Abs(y - L.y_0) = Steps
    BY <2>2, <2>3, <2>4 DEF Abs
  <2>7. 2 * Abs((x - L.x_0) * L.deltay - Steps * L.deltax) <= L.deltax
    BY <2>2, <2>3, <2>5, IsNearest
  <2>8. QED
    BY <2>6, <2>7 DEF L
<1>2. QED
  BY <1>1, Always, PTL

\* Every pixel draw_line plots is the nearest to the straight line, both ends are plotted, and
\* there is one pixel for each step along the longer side, for all end points on the screen.
THEOREM DrawingLine == Spec => []LineDrawn
<1>1. IInv /\ Traced => LineComplete
  <2> SUFFICES ASSUME IInv, Traced, pc = "done", request.f = "draw_line"
               PROVE  /\ Pixels({<<request.x0, request.y0>>, <<request.x1, request.y1>>})
                           \subseteq written
                      /\ Cardinality(written) = BYTES * (line.deltax + 1)
    BY DEF LineComplete
  <2>1. /\ OnScreen(request) /\ x = line.x_1 + 1 /\ request \in Request
        /\ Cardinality(written) = BYTES * (x - line.x_0)
        /\ x > line.x_0 => Dot(line.x_0, line.y_0) \subseteq written
        /\ x > line.x_1 => Dot(line.x_1, line.y_1) \subseteq written
    BY DEF Traced, IInv, Types
  <2>2. /\ line.x_0 \in Int /\ line.x_1 \in Int /\ line.x_0 <= line.x_1
        /\ line.deltax = line.x_1 - line.x_0
    BY <2>1, LineEnds
  <2>3. x > line.x_0 /\ x > line.x_1 /\ x - line.x_0 = line.deltax + 1
    BY <2>1, <2>2
  <2>4. QED
    BY <2>1, <2>3, EndsAre
<1>2. QED
  BY <1>1, Always, AlwaysTraced, NearestAlways, PTL DEF LineDrawn

\* The types hold; draw_line's loop stays between the end points, and its error term is not
\* positive between two pixels.
THEOREM DrawingTypes == Spec => []TypeOK
<1>1. IInv /\ written \subseteq Int => TypeOK
  <2> SUFFICES ASSUME IInv, written \subseteq Int PROVE TypeOK
    OBVIOUS
  <2>1. ASSUME pc = "line" PROVE error \in -line.deltax .. 0
    <3> DEFINE L == line
    <3>1. OnScreen(request) /\ request \in Request
      BY <2>1 DEF IInv, Types, Loop
    <3>2. /\ L.x_0 \in Int /\ L.x_1 \in Int
          /\ L.deltay \in Nat /\ L.deltax = L.x_1 - L.x_0 /\ L.deltay <= L.deltax
      BY <3>1, LineShape DEF line
    <3>3. /\ x \in Int /\ error \in Int /\ x \in L.x_0 .. L.x_1 + 1 /\ Steps \in Nat
          /\ Error(L.deltax, L.deltay, x - L.x_0, Steps, error)
      BY <2>1, <3>2 DEF IInv, Types, Loop
    <3> HIDE DEF L
    <3>4. L.deltax \in Nat /\ x - L.x_0 \in Nat
      BY <3>2, <3>3
    <3>5. error \in -L.deltax .. 0
      BY <3>2, <3>3, <3>4, ErrorRange
    <3>6. QED
      BY <3>5 DEF L
  <2>2. QED
    BY <2>1 DEF IInv, Types, Loop, TypeOK, Request
<1>2. QED
  BY <1>1, Always, WrittenIsInt, PTL
================================================================================
