----------------------------- MODULE MCDrawing -----------------------------
(***************************************************************************)
(* What clients draw: the frames of the full client over time (Screen),    *)
(* the layers of one of them cell by cell (Paint), and the panes (Pane).   *)
(* A behaviour is one of one of them, for TLC; names that they share are   *)
(* told apart by a prefix.                                                 *)
(***************************************************************************)
EXTENDS Integers, Sequences

CONSTANTS ScreenSizes, ScreenLasts, Covers, ScreenEvents
CONSTANTS LayerSizes, Lengths, Texts
CONSTANTS PaneTerminals, PaneTexts, PaneVisualisers, Bins, MaxEvents

VARIABLES
  view, \* which of them is drawn
  at, term, grid, snap, switch, paused, launched, dimmed, visible, fade, volume, pulse, cover, art,
  fetch, back, missed, panicked, happened,
  size, layer, kept, drawn,
  pane, pc, stop, active, paneTerm, paneGrid, playing, device, shown, cursor, paneHappened

\* Two panes of one area and one that is larger; durations that overlap.
TwoAreas == {<<24, 10>>, <<20, 12>>, <<25, 12>>}
Overlapping == [launch |-> 3, dissolve |-> 3, in |-> 3, wipe |-> 2, pause |-> 2, out |-> 2,
                volume |-> 2, pulse |-> 2]

\* A pane is never empty, a duration is a frame at least, and a URL is there.
ASSUME ScreenAssumption ==
  /\ ScreenSizes \subseteq (Nat \ {0}) \X (Nat \ {0}) /\ ScreenSizes # {}
  /\ ScreenLasts \in
       [{"launch", "dissolve", "in", "wipe", "pause", "out", "volume", "pulse"} -> Nat \ {0}]
  /\ "nothing" \notin Covers /\ ScreenEvents \in Nat

\* The smallest pane, the widths and heights at which a layer changes its mind.
Thresholds == {20, 22, 30, 40, 140} \X {10, 11, 12, 40}

\* visualiser_cell_rect returns 20 by 10 or more.
ASSUME LayerAssumption ==
  /\ \A s \in LayerSizes : s \in Nat \X Nat /\ s[1] >= 20 /\ s[2] >= 10
  /\ <<20, 10>> \in LayerSizes
  /\ Lengths \subseteq Nat /\ Texts \subseteq Nat

\* Terminals at which a line is cut; texts with and without wide characters.
Narrow == {<<14, 3>>, <<16, 2>>, <<30, 12>>}
Wide == {<<1, 1, 0, 1, 1, 1, 0, 0, 1, 1>>, [i \in 1 .. 12 |-> 1]}

\* A text is bytes that begin a character or do not.
ASSUME PaneAssumption ==
  /\ PaneTerminals \subseteq Nat \X Nat /\ PaneTerminals # {}
  /\ PaneTexts \subseteq Seq({0, 1})
  /\ PaneVisualisers \in Nat \ {0} /\ Bins \in Nat /\ MaxEvents \in Nat

Frames == INSTANCE Screen WITH
  Sizes <- ScreenSizes, Lasts <- ScreenLasts, MaxEvents <- ScreenEvents
OneFrame == INSTANCE Paint WITH Sizes <- LayerSizes
APane == INSTANCE Pane WITH
  Terminals <- PaneTerminals, Texts <- PaneTexts, Visualisers <- PaneVisualisers,
  term <- paneTerm, grid <- paneGrid, happened <- paneHappened

screenVars ==
  <<at, term, grid, snap, switch, paused, launched, dimmed, visible, fade, volume, pulse, cover, art,
    fetch, back, missed, panicked, happened>>
paintVars == <<size, layer, kept, drawn>>
paneVars ==
  <<pane, pc, stop, active, paneTerm, paneGrid, playing, device, shown, cursor, paneHappened>>
vars == <<view, screenVars, paintVars, paneVars>>

Init ==
  /\ view \in {"screen", "layer", "pane"}
  /\ Frames!Init /\ APane!Init
  /\ view # "screen" => term = (CHOOSE s \in ScreenSizes : TRUE)
  /\ view # "pane" => pane = "now-playing" /\ paneTerm = (CHOOSE s \in PaneTerminals : TRUE)
  /\ IF view = "layer" THEN OneFrame!Init
     ELSE size = <<20, 10>> /\ layer = [kind |-> "status"] /\ kept = OneFrame!NoBuffer /\ drawn = FALSE

ScreenNext == view = "screen" /\ Frames!Next /\ UNCHANGED <<view, paintVars, paneVars>>
LayerNext == view = "layer" /\ OneFrame!Next /\ UNCHANGED <<view, screenVars, paneVars>>
PaneNext == view = "pane" /\ APane!Next /\ UNCHANGED <<view, screenVars, paintVars>>
Next == ScreenNext \/ LayerNext \/ PaneNext

\* The fairness of each module, for what is drawn.
Spec ==
  /\ Init /\ [][Next]_vars
  /\ WF_screenVars(view = "screen" /\ Frames!Frame)
  /\ WF_paneVars(view = "pane" /\ APane!Frame)
-----------------------------------------------------------------------------
(* The properties of the three, each stated where it is defined.          *)

\* What is drawn keeps to its place: a layer to its part of the pane and its texts
\* apart (Paint), a line to its terminal (Pane).
InPlace == Frames!TypeOK /\ APane!TypeOK /\ OneFrame!LayersInPlace /\ APane!LinesFit

\* A terminal that changes its size does no harm: buffers made for another one are
\* neither overrun nor left showing (Paint), and nothing but one that grows under a
\* transition panics (Screen).
ResizesAreSafe == OneFrame!BuffersFollow /\ Frames!OnlyGrowthPanics

\* Screen: the cover on the screen is the one of the track that plays.
CoverIsTheTracks == Frames!CoverIsTheTracks

\* Screen and Pane: when nothing happens any more the screen comes to rest, and a
\* pane that is told to stop ends.
ComesToRest == (view = "screen" => Frames!Settles) /\ APane!StopEnds
=============================================================================
