-------------------------------- MODULE Paint --------------------------------
(***************************************************************************)
(* Where each layer of a frame goes (visualiser/*.rs, tui/picker/paint.rs, *)
(* tui/components, tui/micro/volume_overlay.rs, render_loop.rs): the       *)
(* visualisers with the buffers they keep from one frame to the next, the  *)
(* tabs of the picker with their scrolling lists, the overlays and the     *)
(* bottom row.  Colours and glyphs are left out.                           *)
(*                                                                         *)
(* Layers share the grid and nothing else, so a behaviour follows one of   *)
(* them while the terminal is resized and what the layer shows changes.  A *)
(* visualiser that is switched away from is one no frame draws.            *)
(***************************************************************************)
EXTENDS Integers

CONSTANTS
  Sizes,   \* panes, as <<width, height>>, at least 20 by 10
  Lengths, \* of the lists
  Texts    \* of the texts, in cells

VARIABLES
  size,    \* of the pane
  layer,   \* what is drawn
  kept,    \* the buffers of the visualiser, and what they were made for
  drawn    \* a frame has been drawn since the last resize

vars == <<size, layer, kept, drawn>>

Least(a, b) == IF a < b THEN a ELSE b
Sub(a, b) == IF a < b THEN 0 ELSE a - b   \* saturating_sub

-----------------------------------------------------------------------------
(* The visualisers.  Each says what its buffers depend on (for), the cells *)
(* of its braille buffer (dots), the length of its other buffer and the    *)
(* highest index of it that a frame uses.                                  *)

Blank == [for |-> <<0, 0>>, dots |-> <<1, 1>>, long |-> 0, highest |-> -1, braille |-> FALSE]

\* Each cell is set in turn, and nothing that is indexed by cells is kept.
Plasma(w, h) == Blank
Tunnel(w, h) == Blank
Metaballs(w, h) == Blank
Vortex(w, h) == Blank
Moire(w, h) == Blank
Ripples(w, h) == Blank
Matrix(w, h) == Blank

\* A buffer beside the grid.
Buffer(for, long) == [Blank EXCEPT !.for = for, !.long = long, !.highest = long - 1]

\* A cell takes its heat from the three below it.
Fire(w, h) == Buffer(<<w, h>>, w * h)
Rain(w, h) == Buffer(<<w, h>>, w)
Binary(w, h) == Buffer(<<w, 0>>, w)
BarsOutline(w, h) == Buffer(<<w, 0>>, w)
Bands(w) == Least(w \div 2, 64)
ClassicPeak(w, h) == Buffer(<<Bands(w), 0>>, Bands(w))

\* A braille buffer of two by four dots a cell, composed into the grid.
Braille(w, h) == [Blank EXCEPT !.for = <<w, h>>, !.dots = <<w, h>>, !.braille = TRUE]

\* Defect: only a change of the width resizes the dots.
ScatterByWidth(w, h) == [Braille(w, h) EXCEPT !.for = <<w, 0>>]

Scatter(w, h) == Braille(w, h)
Butterfly(w, h) == Braille(w, h)
Pulse(w, h) == Braille(w, h)
Sakura(w, h) == Braille(w, h)
Retro(w, h) == Braille(w, h)
Wave(w, h) == Braille(w, h)
Scope(w, h) == Braille(w, h)
\* and a history or heights beside it
And(dots, long) == [dots EXCEPT !.long = long, !.highest = long - 1]
Heartbeat(w, h) == And(Braille(w, h), 2 * w)
Terrain(w, h) == And(Braille(w, h), 2 * w)
BarsDot(w, h) == And(Braille(w, h), Least(64, w))

Draws(viz, w, h) ==
  CASE viz = "plasma" -> Plasma(w, h) [] viz = "tunnel" -> Tunnel(w, h)
    [] viz = "metaballs" -> Metaballs(w, h) [] viz = "vortex" -> Vortex(w, h)
    [] viz = "moire" -> Moire(w, h) [] viz = "ripples" -> Ripples(w, h)
    [] viz = "matrix" -> Matrix(w, h) [] viz = "fire" -> Fire(w, h)
    [] viz = "rain" -> Rain(w, h) [] viz = "binary" -> Binary(w, h)
    [] viz = "barsoutline" -> BarsOutline(w, h) [] viz = "classicpeak" -> ClassicPeak(w, h)
    [] viz = "scatter" -> Scatter(w, h) [] viz = "butterfly" -> Butterfly(w, h)
    [] viz = "pulse" -> Pulse(w, h) [] viz = "sakura" -> Sakura(w, h)
    [] viz = "retro" -> Retro(w, h) [] viz = "wave" -> Wave(w, h)
    [] viz = "scope" -> Scope(w, h) [] viz = "heartbeat" -> Heartbeat(w, h)
    [] viz = "terrain" -> Terrain(w, h) [] viz = "barsdot" -> BarsDot(w, h)

Visualisers ==
  {"plasma", "tunnel", "metaballs", "vortex", "moire", "ripples", "matrix", "fire", "rain",
   "binary", "barsoutline", "classicpeak", "scatter", "butterfly", "pulse", "sakura", "retro",
   "wave", "scope", "heartbeat", "terrain", "barsdot"}

Now(viz) == Draws(viz, size[1], size[2])
\* BrailleBuffer::compose stops at the smaller of the two; the others fill the grid.
Reaches(viz) == IF Now(viz).braille
                THEN <<Least(kept.dots[1], size[1]), Least(kept.dots[2], size[2])>>
                ELSE size

-----------------------------------------------------------------------------
(* The picker: a modal of at most 64 cells, in the middle.                *)

Slots == 12   \* CURATED_SLOT_COUNT

Modal == LET width == Least(size[1], 64)
             body == Least(size[2] - 6, Slots + 6)
             x0 == (size[1] - width) \div 2
             y0 == (size[2] - (6 + body)) \div 2
         IN  [x0 |-> x0, y0 |-> y0, x1 |-> x0 + width, y1 |-> y0 + 6 + body, body |-> body]

InnerX == Modal.x0 + 2
InnerW == (Modal.x1 - 2) - InnerX
BodyY == Modal.y0 + 3

\* The cells of row y from one to before the other.
Cells(y, from, to) == [y |-> y, from |-> from, to |-> to]
Whole(y) == Cells(y, InnerX, InnerX + InnerW)
\* write_centered cuts what is too wide
Centered(y, length) ==
  LET n == Least(length, InnerW)
      x == InnerX + ((InnerW - n) \div 2)
  IN  Cells(y, x, x + n)

\* Defect: the window never stops at the end of the list and starts below the cursor.
ScrollOffsetLate(total, rows, selected) ==
  IF total <= rows THEN 0 ELSE Least(selected + 1, total - rows)

ScrollOffset(total, rows, selected) ==
  IF total <= rows THEN 0 ELSE Least(Sub(selected, rows \div 2), total - rows)

\* The items of a list that its window shows.
Window(total, rows, selected) ==
  LET first == ScrollOffset(total, rows, selected)
  IN  {i \in first .. (first + rows) - 1 : i < total}

ListRows(y, total, rows, selected) ==
  {Whole(y + (i - ScrollOffset(total, rows, selected))) : i \in Window(total, rows, selected)}

RadioBody(n, cursor) == ListRows(BodyY, n, Modal.body, Least(cursor, Sub(n, 1)))

\* The input row with its caret, then the results or a hint.
SearchBody(n, cursor, typed) ==
  LET caret == InnerX + 2 + Least(typed, InnerW - 2)
      rows == Modal.body - 1
  IN  {Whole(BodyY), Cells(BodyY, caret, caret + 1)}
      \cup (IF n = 0 THEN {Centered(BodyY + 1 + (rows \div 2), typed)}
            ELSE ListRows(BodyY + 1, n, rows, cursor))

\* The four categories and a hint, one row apart.
CategoriesBody ==
  {Whole(BodyY + i) : i \in 0 .. (Least(4, Modal.body) - 1)}
    \cup (IF 4 < Modal.body THEN {Centered(BodyY + 5, 14)} ELSE {})

ItemsBody(n, cursor) ==
  LET rows == Modal.body - 1
  IN  {Whole(BodyY)}
      \cup (IF n = 0 THEN {Centered(BodyY + 1 + (rows \div 2), 17)}
            ELSE ListRows(BodyY + 1, n, rows, cursor))

\* Pairs of a label and a value, a blank row, then the notes there is room for.
SettingsBody(pairs, notes) ==
  LET end == BodyY + Modal.body
      label == Least(InnerW, 14)
      pair == InnerX + 1 + label + Sub(InnerW, 1 + label)
      below == BodyY + pairs + 1
  IN  {Cells(BodyY + i, InnerX + 1, pair) : i \in 0 .. (Least(pairs, Modal.body) - 1)}
      \cup {Centered(y, 60) : y \in {below + i : i \in 0 .. (notes - 1)} \cap 0 .. (end - 1)}

\* There is no answer to read_config yet.
LoadingBody == {Centered(BodyY + (Modal.body \div 2), 22)}

Body ==
  CASE layer.kind = "radio"      -> RadioBody(layer.n, layer.cursor)
    [] layer.kind = "search"     -> SearchBody(layer.n, layer.cursor, layer.typed)
    [] layer.kind = "categories" -> CategoriesBody
    [] layer.kind = "items"      -> ItemsBody(layer.n, layer.cursor)
    [] layer.kind = "settings"   -> SettingsBody(layer.pairs, layer.notes)
    [] layer.kind = "loading"    -> LoadingBody

\* The labels of all tabs in 36 cells, or the active one alone.
TabBar == Centered(Modal.y0 + 2, IF InnerW < 36 THEN 10 ELSE 36)
\* A banner takes the place of the greeting.
Chrome(banner) == {Centered(Modal.y0 + 1, banner), TabBar, Centered(Modal.y1 - 2, 60)}

-----------------------------------------------------------------------------
(* The overlays.                                                          *)

\* 20 cells by 10 in the top-right corner, when there is room.
AlbumArt ==
  IF size[1] < 22 \/ size[2] < 12 THEN {}
  ELSE {Cells(y, size[1] - 21, size[1] - 1) : y \in 1 .. 10}

\* A sign, 20 cells of bar and the level.
VolumeOverlay(digits) ==
  IF size[1] < 30 THEN {} ELSE {Cells(size[2] - 2, size[1] - 28, (size[1] - 6) + digits + 2)}

\* truncate_str
Truncated(length, most) ==
  IF length <= most THEN length ELSE IF most > 1 THEN most ELSE 0

\* The artist, cut to leave room for the tag of a Connect device.
ArtistEnd(artist, tag) == 2 + Truncated(artist, Sub(size[1], 4 + (IF tag = 0 THEN 0 ELSE tag + 1)))
TagX(tag) == Sub(size[1], tag + 2)
\* The title, then the album in what is left.
TitleEnd(title) == 2 + Truncated(title, size[1] - 4)
AlbumEnd(title, album) ==
  LET left == size[1] - TitleEnd(title)
  IN  IF left <= 7 THEN TitleEnd(title) ELSE TitleEnd(title) + 3 + Truncated(album, left - 6)
NowPlaying(artist, tag, title, album) ==
  {Cells(size[2] - 2, 2, ArtistEnd(artist, tag)), Cells(size[2] - 1, 2, AlbumEnd(title, album))}

\* The prompt, the buffer and the cursor when it is at the end.
TextEnd(typed, atEnd) ==
  LET x == Least(2 + typed, size[1]) IN IF atEnd /\ x < size[1] THEN x + 1 ELSE x

\* The hint of the command bar, on the right when it fits.
HintStart(end, hint) ==
  IF size[1] > hint + 2 /\ end + 2 <= size[1] - (hint + 2) THEN size[1] - (hint + 2)
  ELSE Least(end + 1, size[1] - 1)

StatusHint == {Cells(size[2] - 1, 0, IF size[1] >= 40 THEN 34 ELSE 11)}

Overlay ==
  CASE layer.kind = "volume" -> VolumeOverlay(layer.digits)
    [] layer.kind = "art"    -> AlbumArt
    [] layer.kind = "strip"  -> NowPlaying(layer.artist, layer.tag, layer.title, layer.album)
    [] layer.kind = "status" -> StatusHint

-----------------------------------------------------------------------------
Lists == {"radio", "search", "items"}
Tabs == Lists \cup {"categories", "settings", "loading"}
Overlays == {"volume", "art", "strip", "status"}

Rows(n) == IF n = 0 THEN {0} ELSE 0 .. (n - 1)
ListLayers == UNION {[kind : Lists, n : {n}, cursor : Rows(n), typed : Texts] : n \in Lengths}
Layers ==
  [kind : {"viz"}, viz : Visualisers]
    \cup ListLayers
    \cup [kind : {"categories", "loading", "art", "status"}]
    \cup [kind : {"settings"}, pairs : {3, 4}, notes : 1 .. 3]
    \cup [kind : {"volume"}, digits : 1 .. 3]
    \cup [kind : {"strip"}, artist : Texts, tag : Texts, title : Texts, album : Texts]
    \cup [kind : {"bar"}, typed : Texts, atEnd : BOOLEAN, hint : Texts]

NoBuffer == [for |-> <<0, 0>>, dots |-> <<1, 1>>, long |-> 0]

Init == size \in Sizes /\ layer \in Layers /\ kept = NoBuffer /\ drawn = FALSE

\* visualiser_cell_rect takes 20 by 10 for less.
Resize(s) == size' = s /\ drawn' = FALSE /\ UNCHANGED <<layer, kept>>

\* ensure_buffer and its likes, then the frame.
Ensure(viz) ==
  kept' = IF kept.for = Now(viz).for THEN kept
          ELSE [for |-> Now(viz).for, dots |-> Now(viz).dots, long |-> Now(viz).long]

Frame ==
  /\ drawn' = TRUE
  /\ IF layer.kind = "viz" THEN Ensure(layer.viz) ELSE UNCHANGED kept
  /\ UNCHANGED <<size, layer>>

Next == Frame \/ \E s \in Sizes : Resize(s)
Spec == Init /\ [][Next]_vars

-----------------------------------------------------------------------------
TypeOK ==
  /\ size \in Sizes /\ layer \in Layers
  /\ kept.for \in Nat \X Nat /\ kept.dots \in Nat \X Nat /\ kept.long \in Nat
  /\ drawn \in BOOLEAN

OfViz == layer.kind = "viz" /\ drawn

\* A frame uses no cell of a buffer beyond its end, however the terminal was
\* resized while another visualiser was drawn.
InBuffer == OfViz => Now(layer.viz).highest < kept.long

\* A frame covers the pane: nothing of an earlier frame shines through,
\* whatever size the braille buffer was last made for.
NoGhosts == OfViz => Reaches(layer.viz) = size

\* The picker stays inside its border, and the rows of its body clear of the
\* tabs above and of the footer below, on the smallest pane too.
InsideModal ==
  layer.kind \in Tabs =>
    /\ 0 <= Modal.x0 /\ 0 <= Modal.y0 /\ Modal.x1 <= size[1] /\ Modal.y1 <= size[2]
    /\ \A c \in Body : c.y \in BodyY .. (Modal.y1 - 3)
    /\ \A banner \in Texts : \A c \in Body \cup Chrome(banner) :
         Modal.x0 < c.from /\ c.to < Modal.x1

\* The selected row of a list is always in its window.
SelectedIsShown ==
  layer.kind \in Lists /\ layer.n > 0 =>
    layer.cursor \in Window(layer.n, Modal.body - (IF layer.kind = "radio" THEN 0 ELSE 1),
                            layer.cursor)

\* An overlay that is drawn has room on the pane for all of it: no
\* subtraction of its place underflows and nothing of it is clipped.
OverlaysFit ==
  layer.kind \in Overlays =>
    \A c \in Overlay : 0 <= c.from /\ c.to <= size[1] /\ c.y \in 0 .. (size[2] - 1)

\* Two texts of a row do not overwrite one another: the artist ends before
\* the tag of the device, and the hint of the command bar starts behind what
\* was typed unless that fills the row.
TextsApart ==
  /\ layer.kind = "strip" /\ layer.tag > 0 /\ layer.artist > 0 =>
       ArtistEnd(layer.artist, layer.tag) = 2 \/ ArtistEnd(layer.artist, layer.tag) < TagX(layer.tag)
  /\ layer.kind = "bar" =>
       LET end == TextEnd(layer.typed, layer.atEnd)
       IN  end < size[1] => end <= HintStart(end, layer.hint)

\* Every layer keeps to its place: InsideModal, SelectedIsShown, OverlaysFit and
\* TextsApart, with the types.
LayersInPlace == TypeOK /\ InsideModal /\ SelectedIsShown /\ OverlaysFit /\ TextsApart

\* Buffers kept from another size do no harm: InBuffer and NoGhosts.
BuffersFollow == InBuffer /\ NoGhosts
=============================================================================
