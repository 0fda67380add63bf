------------------------------- MODULE Display -------------------------------
(***************************************************************************)
(* The two frame buffers of the screen: lcd_init, the frames drawn by      *)
(* draw_box_and_follow and generate_next_level's clear_screen, over the    *)
(* pixel buffer device, which exchanges the two buffers at the end of a    *)
(* refresh.  The driver keeps addresses of its own for the two buffers.    *)
(*                                                                         *)
(* A buffer's content is the number of the frame drawn in it (0 when it    *)
(* was only cleared, -1 when it never was) and whether it is whole.        *)
(***************************************************************************)
EXTENDS Integers

CONSTANT MAX_FRAMES   \* bound: frames drawn

\* What the device's registers held at start, and the two allocations of lcd_init.
Buffers == {"start front", "start back", "malloc 1", "malloc 2"}
Allocated == {"malloc 1", "malloc 2"}

VARIABLES
  front, back, swapping,                              \* the device
  buffer_start_address, back_buffer_start_address,    \* the driver's addresses
  content, frame, display_pc,
  rate      \* how fast the device refreshes, against the frames of the game

\* "any": at any time, as nothing in the program waits for it; "per frame": the
\* exchange asked for happens to be done before the next is asked for.
Rates == {"any", "per frame"}

device == <<front, back, swapping>>
driver == <<buffer_start_address, back_buffer_start_address>>
display_vars == <<device, driver, content, frame, display_pc, rate>>

Frames == [frame : Int, whole : BOOLEAN]
Junk == [frame |-> -1, whole |-> FALSE]
Black == [frame |-> 0, whole |-> TRUE]

\* A bug to detect: the resolution register is read for the back buffer's.
InitReadsPast ==
  /\ front = "start front" /\ back = "start back" /\ swapping = FALSE
  /\ buffer_start_address = back /\ back_buffer_start_address = "resolution"
  /\ content = [b \in Buffers |-> Junk]
  /\ frame = 0 /\ display_pc = "allocate 1" /\ rate \in Rates

\* ALTERA_UP_AVALON_VIDEO_PIXEL_BUFFER_DMA_INIT reads the device's registers.
DisplayInit ==
  /\ front = "start front" /\ back = "start back" /\ swapping = FALSE
  /\ buffer_start_address = front /\ back_buffer_start_address = back
  /\ content = [b \in Buffers |-> Junk]
  /\ frame = 0 /\ display_pc = "allocate 1" /\ rate \in Rates

-----------------------------------------------------------------------------
(* The driver's functions                                                  *)

change_back_buffer_address(b) ==
  /\ back' = b /\ back_buffer_start_address' = b
  /\ UNCHANGED <<front, swapping, buffer_start_address>>

\* A bug to detect: the driver's own addresses are not exchanged.
SwapDeviceOnly == swapping' = TRUE /\ UNCHANGED <<front, back, driver>>

\* A request made while one is pending is the same request to the device.
swap_buffers ==
  /\ swapping' = TRUE
  /\ back_buffer_start_address' = buffer_start_address
  /\ buffer_start_address' = back_buffer_start_address
  /\ UNCHANGED <<front, back>>

\* A bug to detect: the back buffer is cleared.
ClearBack == content' = [content EXCEPT ![back_buffer_start_address] = Black]

clear_front == content' = [content EXCEPT ![buffer_start_address] = Black]

draw_back(whole) ==
  content' = [content EXCEPT ![back_buffer_start_address] = [frame |-> frame, whole |-> whole]]

-----------------------------------------------------------------------------
(* lcd_init                                                                *)

Allocate1 ==
  /\ display_pc = "allocate 1" /\ display_pc' = "first swap"
  /\ change_back_buffer_address("malloc 1")
  /\ UNCHANGED <<content, frame>>

FirstSwap ==
  /\ display_pc = "first swap" /\ display_pc' = "wait"
  /\ swap_buffers
  /\ UNCHANGED <<content, frame>>

WaitForSwap ==
  /\ display_pc = "wait" /\ ~swapping /\ display_pc' = "allocate 2"
  /\ UNCHANGED <<device, driver, content, frame>>

Allocate2 ==
  /\ display_pc = "allocate 2" /\ display_pc' = "first clear"
  /\ change_back_buffer_address("malloc 2")
  /\ UNCHANGED <<content, frame>>

FirstClear ==
  /\ display_pc = "first clear" /\ display_pc' = "level"
  /\ clear_front
  /\ UNCHANGED <<device, driver, frame>>

-----------------------------------------------------------------------------
(* The game                                                                *)

\* generate_next_level
ClearLevel ==
  /\ display_pc = "level" /\ display_pc' = "frame"
  /\ clear_front
  /\ UNCHANGED <<device, driver, frame>>

\* draw_box_and_follow clears the back buffer, ...
ClearFrame ==
  /\ display_pc = "frame" /\ frame < MAX_FRAMES /\ display_pc' = "draw"
  /\ frame' = frame + 1
  /\ content' = [content EXCEPT ![back_buffer_start_address] = [frame |-> frame', whole |-> FALSE]]
  /\ UNCHANGED <<device, driver>>

\* ... draws the enemies, the finish line and the player, ...
DrawFrame ==
  /\ display_pc = "draw" /\ display_pc' = "swap"
  /\ draw_back(TRUE)
  /\ UNCHANGED <<device, driver, frame>>

\* A bug to detect: the buffers are swapped before the player is drawn.
SwapEarly ==
  /\ display_pc \in {"draw", "swap"} /\ display_pc' \in {"frame", "level"}
  /\ swap_buffers
  /\ UNCHANGED <<content, frame>>

\* ... and asks for the exchange.  The next frame is of the same level or not.
SwapFrame ==
  /\ display_pc = "swap" /\ display_pc' \in {"frame", "level"}
  /\ rate = "per frame" => ~swapping
  /\ swap_buffers
  /\ UNCHANGED <<content, frame>>

-----------------------------------------------------------------------------
\* The device at the end of a refresh.
Refresh ==
  /\ swapping /\ swapping' = FALSE
  /\ front' = back /\ back' = front
  /\ UNCHANGED <<driver, content, frame, display_pc>>

DisplayNext ==
  /\ \/ Allocate1 \/ FirstSwap \/ WaitForSwap \/ Allocate2 \/ FirstClear
     \/ ClearLevel \/ ClearFrame \/ DrawFrame \/ SwapFrame
     \/ Refresh
  /\ UNCHANGED rate

DisplaySpec == DisplayInit /\ [][DisplayNext]_display_vars

-----------------------------------------------------------------------------
(* Properties                                                              *)

Playing == display_pc \in {"level", "frame", "draw", "swap"}

\* Every variable has its type: each address is one of the buffers', never
\* another register of the device.
ScreenTypes ==
  /\ {front, back, buffer_start_address, back_buffer_start_address} \subseteq Buffers
  /\ swapping \in BOOLEAN
  /\ content \in [Buffers -> Frames]
  /\ frame \in Nat /\ rate \in Rates
  /\ display_pc \in {"allocate 1", "first swap", "wait", "allocate 2", "first clear",
             "level", "frame", "draw", "swap"}

\* Once lcd_init has returned, the device and the driver have the two
\* allocated buffers, one to show and one to draw in, whenever refreshes come.
BuffersApart ==
  Playing =>
    /\ {front, back} = Allocated
    /\ {buffer_start_address, back_buffer_start_address} = Allocated

\* The driver's addresses are the device's, or the other way round while an
\* exchange is pending, unless two exchanges are asked for in one refresh.
DriverFollowsDevice ==
  Playing /\ rate # "any" =>
    <<buffer_start_address, back_buffer_start_address>>
      = IF swapping THEN <<back, front>> ELSE <<front, back>>

\* No step of the start or the game makes the driver and the device differ on
\* which buffer is drawn in and which is shown.
BuffersAgree == BuffersApart /\ DriverFollowsDevice

\* The screen shows black, one of the two latest frames or the one being drawn,
\* whenever refreshes come: never an older frame, and never a buffer that was not
\* drawn in.
ShownIsRecent ==
  Playing =>
    \/ content[front] = Black
    \/ content[front].whole /\ content[front].frame \in {frame - 1, frame}
    \/ display_pc = "draw" /\ ~content[front].whole /\ content[front].frame = frame

-----------------------------------------------------------------------------
(* What the two buffers are to the game                                    *)

Torn == -1
Nothing == -2

Picture(b) == IF content[b].whole THEN content[b].frame ELSE Torn

\* The driver's front buffer holds the frame it was last given; it draws in the other.
Latest == IF Playing THEN Picture(buffer_start_address) ELSE Nothing
Draft == IF Playing THEN Picture(back_buffer_start_address) ELSE Nothing
Watched ==
  IF ~Playing THEN "nothing" ELSE IF front = buffer_start_address THEN "latest" ELSE "draft"
HandedOver == IF display_pc \in {"draw", "swap"} THEN frame - 1 ELSE frame

GameScreen == INSTANCE Screen
  WITH latest <- Latest, draft <- Draft, newest <- HandedOver, watched <- Watched,
       asked <- Playing /\ swapping

\* The device's two buffers and the driver's idea of them are two sheets, whenever
\* refreshes come: the game draws on one and hands it over whole, frame by frame and
\* none left out, and what is shown changes over only when it was asked to.
IsScreen == GameScreen!Spec

-----------------------------------------------------------------------------
(* What a comment says, and the program does not do                        *)

\* altera_up_avalon_video_pixel_buffer_dma.c:103, "it is important to wait for this
\* function to return 0 before proceeding to draw on either buffer": no frame in the
\* making is shown.
ShownIsWhole == Playing => content[front].whole
=============================================================================
