-------------------------------- MODULE Pane --------------------------------
(***************************************************************************)
(* One component alone in a terminal (`clitunes --pane`, client/           *)
(* pane_mode.rs): the visualiser, what is playing, or a small spectrum.    *)
(* A frame drains the daemon's events, then the keys, then draws.          *)
(*                                                                         *)
(* A text is its bytes, 1 for the first of a character and 0 for another:  *)
(* lines are cut by bytes and take a column for each character.            *)
(***************************************************************************)
EXTENDS Integers, Sequences, FiniteSets

CONSTANTS
  Visualisers, \* how many there are
  Terminals,   \* what terminal_size may return, as <<columns, rows>>
  Texts,       \* artists, titles, albums, stations and device names
  Bins,        \* MINI_SPECTRUM_BINS
  MaxEvents    \* bound on the events

VARIABLES
  pane,     \* PANE_NAMES
  pc,       \* what the frame does next, or how the pane ended
  stop,
  active,   \* active_idx
  term, grid,
  playing,  \* [artist, title, album, station]; <<>>: not known
  device,   \* connect_device: None, or <<its name>>
  shown,    \* [columns, widths]: the terminal at the last frame, what it wrote
  cursor,   \* the cursor is shown
  happened  \* counted against the bound

vars == <<pane, pc, stop, active, term, grid, playing, device, shown, cursor, happened>>

None == <<>>
Unknown == [artist |-> None, title |-> None, album |-> None, station |-> None]
Columns(t) == Cardinality({i \in DOMAIN t : t[i] = 1})

\* pane_cell_rect
Greater(a, b) == IF a > b THEN a ELSE b
Rect(size) == <<Greater(size[1] - 1, 20), Greater(size[2] - 1, 10)>>

Init ==
  /\ pane \in {"visualiser", "now-playing", "mini-spectrum"}
  /\ pc = "events" /\ stop = FALSE
  /\ active \in IF pane = "visualiser" THEN 0 .. Visualisers - 1 ELSE {0}
  /\ term \in Terminals /\ grid = Rect(term)
  /\ playing = Unknown /\ device = None
  /\ shown = [columns |-> 0, widths |-> {}] /\ cursor = FALSE
  /\ happened = 0

Happens == happened < MaxEvents /\ happened' = happened + 1
Event == pc = "events" /\ Happens /\ UNCHANGED <<pane, pc, term, grid, shown, cursor>>
Key == Happens /\ pc' = "keys" /\ UNCHANGED <<pane, term, grid, playing, device, shown, cursor>>

VizChanged ==
  /\ Event /\ pane = "visualiser"
  /\ active' \in 0 .. Visualisers - 1
  /\ UNCHANGED <<stop, playing, device>>

NowPlayingChanged ==
  /\ Event /\ pane = "now-playing"
  /\ \E t \in Texts, a, al \in {None} \cup Texts :
       playing' = [playing EXCEPT !.title = t, !.artist = a, !.album = al]
  /\ UNCHANGED <<stop, active, device>>

StateChanged ==
  /\ Event /\ pane = "now-playing"
  /\ \E s \in Texts : playing' = [playing EXCEPT !.station = s]
  /\ UNCHANGED <<stop, active, device>>

DeviceChanged ==
  /\ Event /\ pane = "now-playing"
  /\ \/ \E name \in {<<>>} \cup Texts : device' = <<name>>
     \/ device' = None
  /\ UNCHANGED <<stop, active, playing>>

DaemonShuttingDown ==
  /\ Event
  /\ stop' = TRUE
  /\ UNCHANGED <<active, playing, device>>

\* A frame takes the events until there are none.
Drained ==
  /\ pc = "events"
  /\ pc' = "keys"
  /\ UNCHANGED <<pane, stop, active, term, grid, playing, device, shown, cursor, happened>>

Quit ==
  /\ pc = "keys" /\ Key
  /\ stop' = TRUE
  /\ UNCHANGED active

Forward == (active + 1) % Visualisers
Back == (active + Visualisers - 1) % Visualisers

Turn ==
  /\ pc = "keys" /\ Key /\ pane = "visualiser"
  /\ active' \in {Forward, Back}
  /\ UNCHANGED stop

Resize(size) ==
  /\ Happens /\ pc \in {"events", "keys"} /\ size # term
  /\ term' = size
  /\ UNCHANGED <<pane, pc, stop, active, grid, playing, device, shown, cursor>>

-----------------------------------------------------------------------------
(* Drawing.                                                               *)

Panic == <<0>>
Ellipsis == <<1, 0, 0>>
Cut(t, at) == IF t[at + 1] = 1 THEN SubSeq(t, 1, at) \o Ellipsis ELSE Panic

\* truncate cuts at a byte, and panics inside a character.
Truncated(t, max) ==
  IF Len(t) <= max THEN t ELSE IF max > 1 THEN Cut(t, max - 1) ELSE <<>>

Ascii(n) == IF n > 0 THEN [i \in 1 .. n |-> 1] ELSE <<>>
Arrow == <<1, 1, 0, 0, 1>>
Or(t, else) == IF t # None THEN t ELSE else

\* "[Connect]" or "[Connect: name]"
Tag == IF device[1] = None THEN Ascii(9) ELSE Ascii(11) \o device[1]
FirstLine(cols) ==
  LET info == Arrow \o playing.station
      left == Truncated(info, cols - Len(Tag) - 2)
  IN IF device = None \/ cols <= Len(Tag) + 4 THEN Truncated(info, cols)
     ELSE IF left = Panic THEN Panic
     ELSE left \o Ascii(cols - Len(left) - Len(Tag)) \o Tag

Title == Or(playing.title, Or(playing.station, Ellipsis))

\* The album in parentheses, within escape sequences.
LastLine(cols) ==
  Truncated(Title \o IF playing.album = None THEN <<>> ELSE Ascii(7) \o playing.album \o Ascii(5),
            cols)

OnlyLine(cols) ==
  Truncated((IF playing.artist = None THEN <<>> ELSE playing.artist \o Arrow) \o Title, cols)

NowPlaying ==
  IF term[2] >= 3
  THEN {FirstLine(term[1]), Truncated(playing.artist, term[1]), LastLine(term[1])}
  ELSE {OnlyLine(term[1])}

Spectrum == {Ascii(IF term[1] < Bins THEN term[1] ELSE Bins)}

\* A grid of the size that is found now.
NewGrid == Rect(term)

Written == CASE pane = "visualiser" -> {Ascii(NewGrid[1])}
             [] pane = "now-playing" -> NowPlaying
             [] OTHER -> Spectrum

\* The loop looks at the flag before each frame.
Onward == IF stop THEN "ended" ELSE "events"

Draw ==
  /\ pc = "keys"
  /\ grid' = IF pane = "visualiser" THEN NewGrid ELSE grid
  /\ IF Panic \in Written
     THEN pc' = "panicked" /\ UNCHANGED <<shown, cursor>>
     ELSE /\ shown' = [columns |-> term[1], widths |-> {Columns(l) : l \in Written}]
          /\ pc' = Onward
          /\ cursor' = (pc' = "ended")
  /\ UNCHANGED <<pane, stop, active, term, playing, device, happened>>

\* The terminal is gone: the error leaves the cursor as it is.
DrawFails ==
  /\ pc = "keys"
  /\ pc' = "failed"
  /\ UNCHANGED <<pane, stop, active, term, grid, playing, device, shown, cursor, happened>>

World == \/ VizChanged \/ NowPlayingChanged \/ StateChanged \/ DeviceChanged
         \/ DaemonShuttingDown \/ Quit \/ Turn
         \/ \E size \in Terminals : Resize(size)
Frame == Drained \/ Draw \/ DrawFails
Next == World \/ Frame
Spec == Init /\ [][Next]_vars /\ WF_vars(Frame)

-----------------------------------------------------------------------------
(* Properties.                                                            *)

\* The index is one of a visualiser, whichever way the user turns; the pane is
\* somewhere in its loop or at one of its ends.
TypeOK ==
  /\ pane \in {"visualiser", "now-playing", "mini-spectrum"}
  /\ pc \in {"events", "keys", "ended", "panicked", "failed"}
  /\ active \in 0 .. Visualisers - 1
  /\ term \in Terminals /\ grid \in {Rect(t) : t \in Terminals}
  /\ stop \in BOOLEAN /\ cursor \in BOOLEAN /\ happened \in 0 .. MaxEvents

\* No line is wider than the terminal it was written for, so that none wraps into
\* the next, however long the texts and wherever they are cut: only a visualiser
\* in a terminal below the smallest pane is.
LinesFit ==
  \A w \in shown.widths : w <= IF pane = "visualiser" THEN Greater(shown.columns, 20) ELSE shown.columns

\* A pane that is told to stop, by its user or by the daemon's end, ends.
StopEnds == stop ~> pc \in {"ended", "panicked", "failed"}
=============================================================================
