---------------------------- MODULE DisplayProofs ----------------------------
(***************************************************************************)
(* Theorems about the two frame buffers: who holds which, for any order of *)
(* refreshes, and what the screen shows.                                   *)
(***************************************************************************)
EXTENDS Display, TLAPS

\* The buffers the driver and the device have at each step of lcd_init.
Addresses(f, b, bs, bbs) ==
  front = f /\ back = b /\ buffer_start_address = bs /\ back_buffer_start_address = bbs

Starting ==
  /\ display_pc = "allocate 1" =>
       ~swapping /\ Addresses("start front", "start back", "start front", "start back")
  /\ display_pc = "first swap" =>
       ~swapping /\ Addresses("start front", "malloc 1", "start front", "malloc 1")
  /\ display_pc = "wait" =>
       IF swapping THEN Addresses("start front", "malloc 1", "malloc 1", "start front")
                   ELSE Addresses("malloc 1", "start front", "malloc 1", "start front")
  /\ display_pc = "allocate 2" =>
       ~swapping /\ Addresses("malloc 1", "start front", "malloc 1", "start front")
  /\ display_pc = "first clear" =>
       ~swapping /\ Addresses("malloc 1", "malloc 2", "malloc 1", "malloc 2")

IInv == ScreenTypes /\ Starting /\ BuffersApart

LEMMA FrameKinds == Junk \in Frames /\ Black \in Frames
  BY DEF Junk, Black, Frames

LEMMA DrawnFrame ==
  ASSUME NEW n \in Nat, NEW w \in BOOLEAN PROVE [frame |-> n, whole |-> w] \in Frames
  BY DEF Frames

LEMMA InitIInv == DisplayInit => IInv
<1> SUFFICES ASSUME DisplayInit PROVE IInv  OBVIOUS
<1>1. frame \in Nat
  BY DEF DisplayInit
<1> QED
  BY <1>1, FrameKinds
  DEF DisplayInit, IInv, ScreenTypes, Starting, BuffersApart, Addresses, Buffers, Playing

\* Only ClearFrame counts.
LEMMA NextFrame == ScreenTypes /\ [DisplayNext]_display_vars => frame' \in Nat
<1> SUFFICES ASSUME ScreenTypes, [DisplayNext]_display_vars PROVE frame' \in Nat  OBVIOUS
<1>1. frame' = frame \/ frame' = frame + 1
  BY DEF DisplayNext, display_vars, Allocate1, FirstSwap, WaitForSwap, Allocate2, FirstClear,
         ClearLevel, ClearFrame, DrawFrame, SwapFrame, Refresh
<1>2. frame \in Nat
  BY DEF ScreenTypes
<1> QED
  BY <1>1, <1>2

\* Whatever is written in a buffer is a frame.
LEMMA NextContent == ScreenTypes /\ [DisplayNext]_display_vars => content' \in [Buffers -> Frames]
<1> SUFFICES ASSUME ScreenTypes, [DisplayNext]_display_vars
             PROVE  content' \in [Buffers -> Frames]
  OBVIOUS
<1>1. CASE FirstClear \/ ClearLevel
  BY <1>1, FrameKinds DEF ScreenTypes, FirstClear, ClearLevel, clear_front
<1>2. CASE ClearFrame
  <2>1. [frame |-> frame', whole |-> FALSE] \in Frames
    BY NextFrame, DrawnFrame
  <2> QED
    BY <1>2, <2>1 DEF ScreenTypes, ClearFrame
<1>3. CASE DrawFrame
  <2>1. [frame |-> frame, whole |-> TRUE] \in Frames
    BY DrawnFrame DEF ScreenTypes
  <2> QED
    BY <1>3, <2>1 DEF ScreenTypes, DrawFrame, draw_back
<1>4. CASE ~(FirstClear \/ ClearLevel \/ ClearFrame \/ DrawFrame)
  BY <1>4 DEF ScreenTypes, DisplayNext, display_vars, Allocate1, FirstSwap, WaitForSwap, Allocate2,
              SwapFrame, Refresh
<1> QED
  BY <1>1, <1>2, <1>3, <1>4

LEMMA NextRate == [DisplayNext]_display_vars => rate' = rate
  BY DEF DisplayNext, display_vars

\* Every step keeps the driver and the device on the two allocated buffers.
LEMMA NextIInv == IInv /\ [DisplayNext]_display_vars => IInv'
<1> USE DEF IInv
<1> SUFFICES ASSUME IInv, [DisplayNext]_display_vars PROVE IInv'  OBVIOUS
<1> USE NextFrame, NextContent, NextRate
<1>1. CASE Allocate1
  BY <1>1 DEF ScreenTypes, Buffers, Starting, BuffersApart, Addresses, Playing, Allocate1,
              change_back_buffer_address
<1>2. CASE FirstSwap
  BY <1>2 DEF ScreenTypes, Buffers, Starting, BuffersApart, Addresses, Playing, FirstSwap,
              swap_buffers
<1>3. CASE WaitForSwap
  BY <1>3 DEF ScreenTypes, Buffers, Starting, BuffersApart, Addresses, Playing, WaitForSwap, device,
     driver
<1>4. CASE Allocate2
  BY <1>4 DEF ScreenTypes, Buffers, Starting, BuffersApart, Addresses, Playing, Allocate2,
              change_back_buffer_address
<1>5. CASE FirstClear
  BY <1>5 DEF ScreenTypes, Buffers, Starting, BuffersApart, Addresses, Playing, FirstClear,
              device, driver, Allocated
<1>6. CASE ClearLevel
  BY <1>6 DEF ScreenTypes, Starting, BuffersApart, Playing, ClearLevel, device, driver
<1>7. CASE ClearFrame
  BY <1>7 DEF ScreenTypes, Starting, BuffersApart, Playing, ClearFrame, device, driver
<1>8. CASE DrawFrame
  BY <1>8 DEF ScreenTypes, Starting, BuffersApart, Playing, DrawFrame, device, driver
<1>9. CASE SwapFrame
  BY <1>9 DEF ScreenTypes, Starting, BuffersApart, Playing, SwapFrame, swap_buffers
<1>10. CASE Refresh
  BY <1>10 DEF ScreenTypes, Starting, BuffersApart, Addresses, Playing, Refresh, driver
<1>11. CASE UNCHANGED display_vars
  BY <1>11 DEF ScreenTypes, Starting, BuffersApart, Addresses, Playing, display_vars, device, driver
<1> QED
  BY <1>1, <1>2, <1>3, <1>4, <1>5, <1>6, <1>7, <1>8, <1>9, <1>10, <1>11 DEF DisplayNext

LEMMA SpecIInv == DisplaySpec => []IInv
  BY InitIInv, NextIInv, PTL DEF DisplaySpec

\* ScreenTypes: every address is one of the buffers', whatever the order of refreshes.
THEOREM DisplayTypes == DisplaySpec => []ScreenTypes
  BY SpecIInv, PTL DEF IInv

\* BuffersApart: after lcd_init nothing is drawn outside the two allocations,
\* and the two are never confused, however late the refreshes are.
THEOREM DisplayApart == DisplaySpec => []BuffersApart
  BY SpecIInv, PTL DEF IInv

-----------------------------------------------------------------------------
(* The driver's addresses and the device's, with a refresh between two swaps. *)

LEMMA NextFollows ==
  IInv /\ DriverFollowsDevice /\ [DisplayNext]_display_vars => DriverFollowsDevice'
<1> USE NextRate DEF DriverFollowsDevice, Playing, Rates
<1> SUFFICES ASSUME IInv, DriverFollowsDevice, [DisplayNext]_display_vars PROVE DriverFollowsDevice'
  OBVIOUS
<1>1. CASE Allocate1 \/ FirstSwap \/ WaitForSwap \/ Allocate2
  BY <1>1 DEF Allocate1, FirstSwap, WaitForSwap, Allocate2
<1>2. CASE FirstClear
  <2>1. ~swapping /\ buffer_start_address = front /\ back_buffer_start_address = back
    BY <1>2 DEF IInv, Starting, Addresses, FirstClear
  <2>2. /\ ~swapping' /\ front' = front /\ back' = back
        /\ buffer_start_address' = buffer_start_address
        /\ back_buffer_start_address' = back_buffer_start_address
    BY <1>2, <2>1 DEF FirstClear, device, driver
  <2> QED
    BY <2>1, <2>2
<1>3. CASE ClearLevel \/ ClearFrame \/ DrawFrame \/ UNCHANGED display_vars
  <2>1. /\ swapping' = swapping /\ front' = front /\ back' = back
        /\ buffer_start_address' = buffer_start_address
        /\ back_buffer_start_address' = back_buffer_start_address
    BY <1>3 DEF ClearLevel, ClearFrame, DrawFrame, display_vars, device, driver
  <2>2. Playing' => Playing
    BY <1>3 DEF ClearLevel, ClearFrame, DrawFrame, display_vars
  <2> QED
    BY <2>1, <2>2, Zenon
<1>4. CASE SwapFrame
  <2>1. rate # "any" => ~swapping
    BY <1>4 DEF SwapFrame, IInv, ScreenTypes
  <2> QED
    BY <1>4, <2>1 DEF SwapFrame, swap_buffers
<1>5. CASE Refresh
  BY <1>5 DEF Refresh, driver
<1> QED
  BY <1>1, <1>2, <1>3, <1>4, <1>5 DEF DisplayNext

\* DriverFollowsDevice: with a refresh between two swaps, the driver's front
\* and back are the device's, or about to be, in the game's whole run.
THEOREM DisplayFollows == DisplaySpec => []DriverFollowsDevice
<1>1. DisplayInit => DriverFollowsDevice
  BY DEF DisplayInit, DriverFollowsDevice, Playing
<1> QED
  BY <1>1, NextFollows, SpecIInv, PTL DEF DisplaySpec

\* The driver and the device agree on the buffers, whenever refreshes come.
THEOREM DisplayAgree == DisplaySpec => []BuffersAgree
  BY DisplayApart, DisplayFollows, PTL DEF BuffersAgree

-----------------------------------------------------------------------------
(* What the two buffers hold, for the driver's idea of them.  It does not  *)
(* depend on the refreshes; what is shown is one of the two.               *)

Whole(n) == [frame |-> n, whole |-> TRUE]

\* The driver's front buffer: the frame handed over last, or black.
FrontHolds == content[buffer_start_address] \in {Black, Whole(HandedOver)}

\* Its back buffer: the frame in the making, or what is left of an older one.
BackHolds ==
  LET drawn == content[back_buffer_start_address]
  IN  CASE display_pc = "draw" -> drawn = [frame |-> frame, whole |-> FALSE]
        [] display_pc = "swap" -> drawn = Whole(frame)
        [] OTHER -> drawn \in {Junk, Black, Whole(frame - 1)}

\* Nothing is shown that was never drawn in.
JunkUnseen ==
  content[back_buffer_start_address] = Junk => front = buffer_start_address /\ ~swapping

Sheets ==
  IF Playing THEN FrontHolds /\ BackHolds /\ JunkUnseen
             ELSE content = [b \in Buffers |-> Junk]

SheetsInv == IInv /\ Sheets

\* While the game is played the two buffers, under either name, are two.
LEMMA PlayingFacts ==
  ASSUME IInv, Playing
  PROVE  /\ buffer_start_address \in Buffers /\ back_buffer_start_address \in Buffers
         /\ buffer_start_address # back_buffer_start_address
         /\ front # back
         /\ front \in {buffer_start_address, back_buffer_start_address}
         /\ back \in {buffer_start_address, back_buffer_start_address}
         /\ content \in [Buffers -> Frames] /\ frame \in Nat
<1>1. /\ {front, back} = {"malloc 1", "malloc 2"}
      /\ {buffer_start_address, back_buffer_start_address} = {"malloc 1", "malloc 2"}
  BY DEF IInv, BuffersApart, Allocated
<1>2. \A a, b : {a, b} = {"malloc 1", "malloc 2"} => a # b
  <2> SUFFICES ASSUME NEW a, NEW b, {a, b} = {"malloc 1", "malloc 2"} PROVE a # b  OBVIOUS
  <2>1. "malloc 1" \in {a, b} /\ "malloc 2" \in {a, b}
    OBVIOUS
  <2> QED
    BY <2>1
<1> QED
  BY <1>1, <1>2 DEF IInv, ScreenTypes

LEMMA SheetKinds ==
  /\ Black.whole = TRUE /\ Black.frame = 0
  /\ Junk.whole = FALSE /\ Junk.frame = -1
  /\ \A n : Whole(n).whole = TRUE /\ Whole(n).frame = n
  BY DEF Black, Junk, Whole

LEMMA NextSheets == SheetsInv /\ [DisplayNext]_display_vars => SheetsInv'
<1> SUFFICES ASSUME IInv, Sheets, [DisplayNext]_display_vars PROVE Sheets'
  BY NextIInv DEF SheetsInv
<1>1. CASE Allocate1 \/ FirstSwap \/ WaitForSwap \/ Allocate2
  <2>1. ~Playing /\ ~Playing' /\ content' = content
    BY <1>1 DEF Playing, Allocate1, FirstSwap, WaitForSwap, Allocate2
  <2> QED
    BY <2>1 DEF Sheets
<1>2. CASE FirstClear
  <2>1. /\ Playing' /\ display_pc' = "level" /\ ~swapping' /\ front' = "malloc 1"
        /\ buffer_start_address' = "malloc 1" /\ back_buffer_start_address' = "malloc 2"
    BY <1>2 DEF Playing, IInv, Starting, Addresses, FirstClear, device, driver
  <2>2. content = [b \in Buffers |-> Junk]
    BY <1>2 DEF Playing, Sheets, FirstClear
  <2>3. content'["malloc 1"] = Black /\ content'["malloc 2"] = Junk
    BY <1>2, <2>2 DEF IInv, Buffers, Starting, Addresses, FirstClear, clear_front
  <2> QED
    BY <2>1, <2>3 DEF Sheets, FrontHolds, BackHolds, JunkUnseen
<1>3. CASE ClearLevel
  <2>1. /\ Playing /\ Playing' /\ display_pc = "level" /\ display_pc' = "frame"
        /\ UNCHANGED <<front, swapping, buffer_start_address, back_buffer_start_address, frame>>
        /\ content' = [content EXCEPT ![buffer_start_address] = Black]
    BY <1>3 DEF Playing, ClearLevel, clear_front, device, driver
  <2>2. /\ content'[buffer_start_address] = Black
        /\ content'[back_buffer_start_address] = content[back_buffer_start_address]
    BY <2>1, PlayingFacts
  <2> QED
    BY <2>1, <2>2 DEF Sheets, FrontHolds, BackHolds, JunkUnseen
<1>4. CASE ClearFrame
  <2>1. /\ Playing /\ Playing' /\ display_pc = "frame" /\ display_pc' = "draw" /\ frame' = frame + 1
        /\ UNCHANGED <<buffer_start_address, back_buffer_start_address>>
        /\ content' = [content EXCEPT ![back_buffer_start_address]
                                        = [frame |-> frame', whole |-> FALSE]]
    BY <1>4 DEF Playing, ClearFrame, driver
  <2>2. /\ content'[buffer_start_address] = content[buffer_start_address]
        /\ content'[back_buffer_start_address] = [frame |-> frame', whole |-> FALSE]
    BY <2>1, PlayingFacts
  <2>3. HandedOver = frame /\ HandedOver' = frame /\ frame' # -1
    BY <2>1, PlayingFacts DEF HandedOver
  <2> QED
    BY <2>1, <2>2, <2>3 DEF Sheets, FrontHolds, BackHolds, JunkUnseen, Junk
<1>5. CASE DrawFrame
  <2>1. /\ Playing /\ Playing' /\ display_pc = "draw" /\ display_pc' = "swap"
        /\ UNCHANGED <<buffer_start_address, back_buffer_start_address, frame>>
        /\ content' = [content EXCEPT ![back_buffer_start_address]
                                        = [frame |-> frame, whole |-> TRUE]]
    BY <1>5 DEF Playing, DrawFrame, draw_back, driver
  <2>2. /\ content'[buffer_start_address] = content[buffer_start_address]
        /\ content'[back_buffer_start_address] = Whole(frame)
    BY <2>1, PlayingFacts DEF Whole
  <2>3. HandedOver' = HandedOver /\ Whole(frame) # Junk
    BY <2>1, PlayingFacts, SheetKinds DEF HandedOver
  <2> QED
    BY <2>1, <2>2, <2>3 DEF Sheets, FrontHolds, BackHolds, JunkUnseen
<1>6. CASE SwapFrame
  <2>1. /\ Playing /\ Playing' /\ display_pc = "swap" /\ display_pc' \in {"frame", "level"}
        /\ UNCHANGED <<content, frame>>
        /\ buffer_start_address' = back_buffer_start_address
        /\ back_buffer_start_address' = buffer_start_address
    BY <1>6 DEF Playing, SwapFrame, swap_buffers
  <2>2. HandedOver = frame - 1 /\ HandedOver' = frame
    BY <2>1 DEF HandedOver
  <2>3. /\ content[buffer_start_address] \in {Black, Whole(frame - 1)}
        /\ content[back_buffer_start_address] = Whole(frame)
    BY <2>1, <2>2 DEF Sheets, FrontHolds, BackHolds
  <2>4. Black # Junk /\ Whole(frame - 1) # Junk
    BY SheetKinds
  <2> QED
    BY <2>1, <2>2, <2>3, <2>4 DEF Sheets, FrontHolds, BackHolds, JunkUnseen
<1>7. CASE Refresh
  <2>1. /\ swapping /\ Playing' = Playing
        /\ UNCHANGED <<buffer_start_address, back_buffer_start_address, content, frame, display_pc>>
    BY <1>7 DEF Refresh, Playing, driver
  <2>2. CASE Playing
    <3>1. content[back_buffer_start_address] # Junk
      BY <2>1, <2>2 DEF Sheets, JunkUnseen
    <3> QED
      BY <2>1, <2>2, <3>1 DEF Sheets, FrontHolds, BackHolds, JunkUnseen, HandedOver
  <2> QED
    BY <2>1, <2>2 DEF Sheets
<1>8. CASE UNCHANGED display_vars
  BY <1>8 DEF display_vars, device, driver, Playing, Sheets, FrontHolds, BackHolds, JunkUnseen,
              HandedOver
<1> QED
  BY <1>1, <1>2, <1>3, <1>4, <1>5, <1>6, <1>7, <1>8 DEF DisplayNext

LEMMA SpecSheets == DisplaySpec => []SheetsInv
<1>1. DisplayInit => Sheets
  BY DEF DisplayInit, Playing, Sheets
<1> QED
  BY <1>1, InitIInv, NextSheets, PTL DEF DisplaySpec, SheetsInv

\* ShownIsRecent: whenever refreshes come, the screen shows black, one of the
\* two latest frames or the one being drawn (lcd.c:86-105).
THEOREM DisplayRecent == DisplaySpec => []ShownIsRecent
<1>1. SheetsInv => ShownIsRecent
  <2> SUFFICES ASSUME IInv, Sheets, Playing PROVE ShownIsRecent
    BY DEF SheetsInv, ShownIsRecent
  <2>1. FrontHolds /\ BackHolds /\ JunkUnseen
    BY DEF Sheets
  <2>2. CASE front = buffer_start_address
    <3>1. content[front] \in {Black, Whole(HandedOver)} /\ HandedOver \in {frame - 1, frame}
      BY <2>1, <2>2 DEF FrontHolds, HandedOver
    <3> QED
      BY <3>1, SheetKinds DEF ShownIsRecent
  <2>3. CASE front = back_buffer_start_address /\ display_pc = "draw"
    BY <2>1, <2>3 DEF BackHolds, ShownIsRecent
  <2>4. CASE front = back_buffer_start_address /\ display_pc # "draw"
    <3>1. content[front] \in {Junk, Black, Whole(frame), Whole(frame - 1)}
      BY <2>1, <2>4 DEF BackHolds
    <3>2. content[front] # Junk
      BY <2>1, <2>4, PlayingFacts DEF JunkUnseen
    <3> QED
      BY <3>1, <3>2, SheetKinds DEF ShownIsRecent
  <2> QED
    BY <2>2, <2>3, <2>4, PlayingFacts
<1> QED
  BY <1>1, SpecSheets, PTL

-----------------------------------------------------------------------------
(* The two sheets                                                          *)

LEMMA ScreenInit == DisplayInit => GameScreen!Init
  BY DEF DisplayInit, Playing, Latest, Draft, Watched, HandedOver, GameScreen!Init

\* What a buffer's content is to the game.
LEMMA Pictures ==
  ASSUME NEW b, content[b] \in {Junk, Black, Whole(frame), Whole(frame - 1), Whole(HandedOver)}
  PROVE  /\ content[b] = Junk => Picture(b) = Torn
         /\ content[b] = Black => Picture(b) = 0
         /\ \A n : content[b] = Whole(n) => Picture(b) = n
  BY SheetKinds DEF Picture

LEMMA ScreenStep ==
  ASSUME SheetsInv, [DisplayNext]_display_vars
  PROVE  [GameScreen!Next]_(GameScreen!vars)
<1> SUFFICES
      GameScreen!Next \/ UNCHANGED <<Latest, Draft, HandedOver, Watched, Playing /\ swapping>>
  BY DEF GameScreen!vars
<1>0. IInv /\ Sheets
  BY DEF SheetsInv
<1>1. CASE Allocate1 \/ FirstSwap \/ WaitForSwap \/ Allocate2
  <2>1. ~Playing /\ ~Playing' /\ HandedOver' = HandedOver
    BY <1>1 DEF Playing, HandedOver, Allocate1, FirstSwap, WaitForSwap, Allocate2
  <2> QED
    BY <2>1 DEF Latest, Draft, Watched
<1>2. CASE FirstClear
  <2>1. /\ ~Playing /\ Playing' /\ display_pc = "first clear" /\ display_pc' = "level" /\ ~swapping'
        /\ front' = "malloc 1" /\ UNCHANGED frame
        /\ buffer_start_address' = "malloc 1" /\ back_buffer_start_address' = "malloc 2"
    BY <1>0, <1>2 DEF Playing, IInv, Starting, Addresses, FirstClear, device, driver
  <2>2. content = [b \in Buffers |-> Junk]
    BY <1>0, <2>1 DEF Sheets
  <2>3. content'["malloc 1"] = Black /\ content'["malloc 2"] = Junk
    BY <1>0, <1>2, <2>2 DEF IInv, Buffers, Starting, Addresses, FirstClear, clear_front
  <2>4. Latest' = 0 /\ Draft' = Torn
    BY <2>1, <2>3, SheetKinds DEF Latest, Draft, Picture
  <2>5. Watched = "nothing" /\ Watched' = "latest" /\ HandedOver' = HandedOver
    BY <2>1 DEF Watched, HandedOver
  <2>6. (Playing /\ swapping)' = (Playing /\ swapping)
    BY <2>1
  <2> QED
    BY <2>4, <2>5, <2>6 DEF GameScreen!Next, GameScreen!TurnOn
<1>3. CASE ClearLevel
  <2>1. /\ Playing /\ Playing' /\ display_pc = "level" /\ display_pc' = "frame"
        /\ UNCHANGED <<front, swapping, buffer_start_address, back_buffer_start_address, frame>>
        /\ content' = [content EXCEPT ![buffer_start_address] = Black]
    BY <1>3 DEF Playing, ClearLevel, clear_front, device, driver
  <2>2. /\ content'[buffer_start_address] = Black
        /\ content'[back_buffer_start_address] = content[back_buffer_start_address]
    BY <1>0, <2>1, PlayingFacts
  <2>3. Latest' = 0 /\ Draft' = Draft
    BY <2>1, <2>2, SheetKinds DEF Latest, Draft, Picture
  <2>4. Watched # "nothing" /\ Watched' = Watched /\ HandedOver' = HandedOver
    BY <2>1 DEF Watched, HandedOver
  <2>5. (Playing /\ swapping)' = (Playing /\ swapping)
    BY <2>1
  <2> QED
    BY <2>3, <2>4, <2>5 DEF GameScreen!Next, GameScreen!Blacken
<1>4. CASE ClearFrame \/ DrawFrame
  <2>1. /\ Playing /\ Playing'
        /\ UNCHANGED <<front, swapping, buffer_start_address, back_buffer_start_address>>
    BY <1>4 DEF Playing, ClearFrame, DrawFrame, device, driver
  <2>2. /\ content'[buffer_start_address] = content[buffer_start_address]
        /\ content'[back_buffer_start_address]
             \in {[frame |-> frame', whole |-> FALSE], Whole(frame)}
        /\ content'[back_buffer_start_address] = Whole(frame) => display_pc = "draw"
    <3>1. CASE ClearFrame
      <4>1. content' = [content EXCEPT ![back_buffer_start_address]
                                         = [frame |-> frame', whole |-> FALSE]]
        BY <3>1 DEF ClearFrame
      <4>2. [frame |-> frame', whole |-> FALSE] # Whole(frame)
        BY DEF Whole
      <4> QED
        BY <1>0, <2>1, <4>1, <4>2, PlayingFacts
    <3>2. CASE DrawFrame
      BY <1>0, <2>1, <3>2, PlayingFacts DEF DrawFrame, draw_back, Whole
    <3> QED
      BY <1>4, <3>1, <3>2
  <2>3. HandedOver' = HandedOver
    <3>1. frame \in Nat
      BY <1>0, <2>1, PlayingFacts
    <3>2. CASE ClearFrame
      <4>1. display_pc = "frame" /\ display_pc' = "draw" /\ frame' = frame + 1
        BY <3>2 DEF ClearFrame
      <4> QED
        BY <3>1, <4>1 DEF HandedOver
    <3>3. CASE DrawFrame
      BY <3>3 DEF DrawFrame, HandedOver
    <3> QED
      BY <1>4, <3>2, <3>3
  <2>4. display_pc = "draw" => frame = HandedOver + 1
    BY <1>0, <2>1, PlayingFacts DEF HandedOver
  <2>5. Latest' = Latest /\ Draft' \in {Torn, HandedOver + 1}
    BY <2>1, <2>2, <2>4, SheetKinds DEF Latest, Draft, Picture
  <2>6. Watched # "nothing" /\ Watched' = Watched
    BY <2>1 DEF Watched
  <2>7. (Playing /\ swapping)' = (Playing /\ swapping)
    BY <2>1
  <2> QED
    BY <2>3, <2>5, <2>6, <2>7 DEF GameScreen!Next, GameScreen!Draw
<1>5. CASE SwapFrame
  <2>1. /\ Playing /\ Playing' /\ display_pc = "swap" /\ display_pc' \in {"frame", "level"}
        /\ swapping' = TRUE /\ UNCHANGED <<content, frame, front>>
        /\ buffer_start_address' = back_buffer_start_address
        /\ back_buffer_start_address' = buffer_start_address
    BY <1>5 DEF Playing, SwapFrame, swap_buffers
  <2>2. HandedOver = frame - 1 /\ HandedOver' = frame /\ frame \in Nat
    BY <1>0, <2>1, PlayingFacts DEF HandedOver
  <2>3. content[back_buffer_start_address] = Whole(frame)
    BY <1>0, <2>1 DEF Sheets, BackHolds
  <2>4. Draft = HandedOver + 1 /\ Latest' = Draft /\ Draft' = Latest
    BY <2>1, <2>2, <2>3, SheetKinds DEF Latest, Draft, Picture
  <2>5. Watched' = GameScreen!Other(Watched)
    BY <1>0, <2>1, PlayingFacts DEF Watched, GameScreen!Other
  <2>6. (Playing /\ swapping)' = TRUE /\ HandedOver' = HandedOver + 1
    BY <2>1, <2>2
  <2> QED
    BY <2>4, <2>5, <2>6 DEF GameScreen!Next, GameScreen!HandOver
<1>6. CASE Refresh
  <2>1. /\ swapping /\ swapping' = FALSE /\ front' = back /\ Playing' = Playing
        /\ UNCHANGED <<buffer_start_address, back_buffer_start_address, content, frame, display_pc>>
    BY <1>6 DEF Refresh, Playing, driver
  <2>2. UNCHANGED <<Latest, Draft, HandedOver>>
    BY <2>1 DEF Latest, Draft, HandedOver, Picture
  <2>3. CASE Playing
    <3>1. Watched' = GameScreen!Other(Watched)
      BY <1>0, <2>1, <2>3, PlayingFacts DEF Watched, GameScreen!Other
    <3>2. (Playing /\ swapping) /\ (Playing /\ swapping)' = FALSE
      BY <2>1, <2>3
    <3> QED
      BY <2>2, <3>1, <3>2 DEF GameScreen!Next, GameScreen!ChangeOver
  <2>4. CASE ~Playing
    BY <2>1, <2>2, <2>4 DEF Watched
  <2> QED
    BY <2>3, <2>4
<1>7. CASE UNCHANGED display_vars
  BY <1>7 DEF display_vars, device, driver, Playing, Latest, Draft, Watched, HandedOver, Picture
<1> QED
  BY <1>1, <1>2, <1>3, <1>4, <1>5, <1>6, <1>7 DEF DisplayNext

\* IsScreen: whenever refreshes come, the buffers are two sheets to the game: frames
\* are handed over one by one, whole and none left out, and what is shown changes over
\* only when it was asked to.
THEOREM DisplayIsScreen == DisplaySpec => IsScreen
  BY ScreenInit, ScreenStep, SpecSheets, PTL DEF DisplaySpec, IsScreen, GameScreen!Spec
=============================================================================
