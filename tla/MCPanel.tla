------------------------------- MODULE MCPanel -------------------------------
(* The panel's three drivers, which share no state: the drawing functions   *)
(* on a screen of a few pixels with coordinates on every side of it, the    *)
(* two buffers, and a few SPI commands to the touch screen.  A behaviour    *)
(* uses one of them, and the others stay as they are after initialisation.  *)
EXTENDS Drawing, Display, Spi

VARIABLE use   \* the driver that is used

panel_vars == <<use, vars, display_vars, spi_vars>>

AroundCoords == -1 .. 7

PanelInit ==
  /\ use \in {"drawing", "buffers", "touch"}
  /\ Init /\ DisplayInit /\ SpiInit
  /\ use # "drawing" => request.f = "clear_screen"
  /\ use # "buffers" => rate = "any"
  /\ use # "touch" => ~RRDY

UseDrawing == use = "drawing" /\ Next /\ UNCHANGED <<use, display_vars, spi_vars>>

UseBuffers == use = "buffers" /\ DisplayNext /\ UNCHANGED <<use, vars, spi_vars>>

UseTouch(action) == use = "touch" /\ action /\ UNCHANGED <<use, vars, display_vars>>

PanelNext == UseDrawing \/ UseBuffers \/ UseTouch(Command) \/ UseTouch(Core)

\* The processor runs and so does the SPI core's clock.
PanelSpec ==
  /\ PanelInit /\ [][PanelNext]_panel_vars
  /\ WF_panel_vars(UseTouch(Command)) /\ WF_panel_vars(UseTouch(Core))
=============================================================================
