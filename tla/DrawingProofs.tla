--------------------------- MODULE DrawingProofs ---------------------------
(***************************************************************************)
(* What clients draw: proofs, for every pane, list, text and duration.  A  *)
(* behaviour of MCDrawing is one of Paint, of Screen or of Pane; each has  *)
(* an invariant over its own variables, which the others leave alone.      *)
(*                                                                         *)
(* Paint: a visualiser's buffer is one it made for some pane, and what the *)
(* buffer depends on (for) determines the rest of it, so that a buffer     *)
(* that is not made anew fits; the other layers are arithmetic on a pane   *)
(* of 20 by 10 or more.  Screen: the grid of the last frame is no larger   *)
(* than the source of the transition that runs, and what is being fetched  *)
(* is the cover of the track.  Pane: a text that is cut by bytes takes no  *)
(* more columns than it has bytes, nor do texts one behind the other.      *)
(***************************************************************************)
EXTENDS MCDrawing, FiniteSetTheorems, TLAPS

-----------------------------------------------------------------------------
(* The layers.                                                             *)

\* What a visualiser keeps for a pane.
Keeps(viz, s) ==
  LET d == OneFrame!Draws(viz, s[1], s[2]) IN [for |-> d.for, dots |-> d.dots, long |-> d.long]

\* A buffer is one that was made for some pane, after a frame for the one it is on.
Buffers ==
  layer.kind = "viz" =>
    /\ kept = OneFrame!NoBuffer \/ \E s \in LayerSizes : kept = Keeps(layer.viz, s)
    /\ drawn => kept = Keeps(layer.viz, size)

LayerInv ==
  /\ size \in LayerSizes /\ layer \in OneFrame!Layers /\ drawn \in BOOLEAN
  /\ kept.for \in Nat \X Nat /\ kept.dots \in Nat \X Nat /\ kept.long \in Nat
  /\ Buffers

\* The visualisers by what they keep.
Plain == {"plasma", "tunnel", "metaballs", "vortex", "moire", "ripples", "matrix"}
Dotted == {"scatter", "butterfly", "pulse", "sakura", "retro", "wave", "scope"}

\* Those that keep nothing.
LEMMA PlainDraws ==
  ASSUME NEW w, NEW h, NEW viz \in Plain
  PROVE  OneFrame!Draws(viz, w, h) = OneFrame!Blank
<1>1. /\ OneFrame!Draws("plasma", w, h) = OneFrame!Plasma(w, h)
      /\ OneFrame!Draws("tunnel", w, h) = OneFrame!Tunnel(w, h)
      /\ OneFrame!Draws("metaballs", w, h) = OneFrame!Metaballs(w, h)
      /\ OneFrame!Draws("vortex", w, h) = OneFrame!Vortex(w, h)
      /\ OneFrame!Draws("moire", w, h) = OneFrame!Moire(w, h)
      /\ OneFrame!Draws("ripples", w, h) = OneFrame!Ripples(w, h)
      /\ OneFrame!Draws("matrix", w, h) = OneFrame!Matrix(w, h)
  BY Zenon DEF OneFrame!Draws
<1> QED BY <1>1 DEF Plain, OneFrame!Plasma, OneFrame!Tunnel, OneFrame!Metaballs, OneFrame!Vortex, OneFrame!Moire, OneFrame!Ripples, OneFrame!Matrix

\* Those that keep dots.
LEMMA DottedDraws ==
  ASSUME NEW w, NEW h, NEW viz \in Dotted
  PROVE  OneFrame!Draws(viz, w, h) = OneFrame!Braille(w, h)
<1>1. /\ OneFrame!Draws("scatter", w, h) = OneFrame!Scatter(w, h)
      /\ OneFrame!Draws("butterfly", w, h) = OneFrame!Butterfly(w, h)
      /\ OneFrame!Draws("pulse", w, h) = OneFrame!Pulse(w, h)
      /\ OneFrame!Draws("sakura", w, h) = OneFrame!Sakura(w, h)
      /\ OneFrame!Draws("retro", w, h) = OneFrame!Retro(w, h)
      /\ OneFrame!Draws("wave", w, h) = OneFrame!Wave(w, h)
      /\ OneFrame!Draws("scope", w, h) = OneFrame!Scope(w, h)
  BY Zenon DEF OneFrame!Draws
<1> QED BY <1>1 DEF Dotted, OneFrame!Scatter, OneFrame!Butterfly, OneFrame!Pulse, OneFrame!Sakura, OneFrame!Retro, OneFrame!Wave, OneFrame!Scope

\* Those that keep something else.
LEMMA OtherDraws ==
  ASSUME NEW w, NEW h
  PROVE  /\ OneFrame!Draws("fire", w, h) = OneFrame!Fire(w, h)
         /\ OneFrame!Draws("rain", w, h) = OneFrame!Rain(w, h)
         /\ OneFrame!Draws("binary", w, h) = OneFrame!Binary(w, h)
         /\ OneFrame!Draws("barsoutline", w, h) = OneFrame!BarsOutline(w, h)
         /\ OneFrame!Draws("classicpeak", w, h) = OneFrame!ClassicPeak(w, h)
         /\ OneFrame!Draws("heartbeat", w, h) = OneFrame!Heartbeat(w, h)
         /\ OneFrame!Draws("terrain", w, h) = OneFrame!Terrain(w, h)
         /\ OneFrame!Draws("barsdot", w, h) = OneFrame!BarsDot(w, h)
BY Zenon DEF OneFrame!Draws

\* Every visualiser is one of these.
LEMMA VisualiserKinds ==
  OneFrame!Visualisers =
    Plain \cup Dotted \cup {"fire", "rain", "binary", "barsoutline", "classicpeak", "heartbeat", "terrain", "barsdot"}
BY DEF OneFrame!Visualisers, Plain, Dotted

\* The widths and heights.
LEMMA SizeFacts ==
  ASSUME NEW s \in LayerSizes
  PROVE  s = <<s[1], s[2]>> /\ s[1] \in Nat /\ s[2] \in Nat /\ s[1] >= 20 /\ s[2] >= 10
BY LayerAssumption

\* What a buffer is made for says all of it, and no index goes beyond its end.
LEMMA KeepsFacts ==
  ASSUME NEW viz \in OneFrame!Visualisers, NEW w \in Nat, NEW h \in Nat, w >= 20, h >= 10
  PROVE  LET d == OneFrame!Draws(viz, w, h)
         IN  /\ d.for \in Nat \X Nat /\ d.dots \in Nat \X Nat /\ d.long \in Nat
             /\ d.highest < d.long
             /\ d.braille => d.dots = <<w, h>> /\ d.for = <<w, h>>
             /\ d.for = <<0, 0>> => d.dots = <<1, 1>> /\ d.long = 0
<1> DEFINE d == OneFrame!Draws(viz, w, h)
<1>1. CASE viz \in Plain
  <2>1. d = OneFrame!Blank
    BY <1>1, PlainDraws
  <2> QED BY <2>1 DEF OneFrame!Blank, OneFrame!Buffer, OneFrame!Braille, OneFrame!And
<1>2. CASE viz \in Dotted
  <2>1. d = OneFrame!Braille(w, h)
    BY <1>2, DottedDraws
  <2> QED BY <2>1 DEF OneFrame!Blank, OneFrame!Buffer, OneFrame!Braille, OneFrame!And
<1>3. CASE viz = "fire"
  <2>1. d = OneFrame!Fire(w, h) /\ w * h \in Nat
    BY <1>3, OtherDraws
  <2> QED BY <2>1 DEF OneFrame!Fire, OneFrame!Buffer, OneFrame!Blank
<1>4. CASE viz = "rain"
  <2>1. d = OneFrame!Rain(w, h)
    BY <1>4, OtherDraws
  <2> QED BY <2>1 DEF OneFrame!Rain, OneFrame!Buffer, OneFrame!Blank
<1>5. CASE viz \in {"binary", "barsoutline"}
  <2>1. OneFrame!Binary(w, h) = OneFrame!BarsOutline(w, h)
    BY DEF OneFrame!Binary, OneFrame!BarsOutline
  <2>2. d = OneFrame!Binary(w, h)
    BY <1>5, <2>1, OtherDraws
  <2> QED BY <2>2 DEF OneFrame!Binary, OneFrame!Buffer, OneFrame!Blank
<1>6. CASE viz = "classicpeak"
  <2>1. d = OneFrame!ClassicPeak(w, h)
    BY <1>6, OtherDraws
  <2>2. OneFrame!Bands(w) \in Nat /\ OneFrame!Bands(w) # 0
    BY DEF OneFrame!Bands, OneFrame!Least
  <2> QED BY <2>1, <2>2 DEF OneFrame!ClassicPeak, OneFrame!Buffer, OneFrame!Blank
<1>7. CASE viz \in {"heartbeat", "terrain", "barsdot"}
  <2>1. d = OneFrame!Heartbeat(w, h) \/ d = OneFrame!Terrain(w, h) \/ d = OneFrame!BarsDot(w, h)
    BY <1>7, OtherDraws
  <2>2. 2 * w \in Nat /\ OneFrame!Least(64, w) \in Nat
    BY DEF OneFrame!Least
  <2>3. \E x \in Nat : d = OneFrame!And(OneFrame!Braille(w, h), x)
    BY <2>1, <2>2 DEF OneFrame!Heartbeat, OneFrame!Terrain, OneFrame!BarsDot
  <2> QED BY <2>3 DEF OneFrame!And, OneFrame!Braille, OneFrame!Blank
<1> QED BY <1>1, <1>2, <1>3, <1>4, <1>5, <1>6, <1>7, VisualiserKinds

\* Two panes that a buffer cannot tell apart want the same of it.
LEMMA ForDecides ==
  ASSUME NEW viz \in OneFrame!Visualisers, NEW s \in LayerSizes, NEW r \in LayerSizes,
         Keeps(viz, s).for = Keeps(viz, r).for
  PROVE  Keeps(viz, s) = Keeps(viz, r)
<1> DEFINE d == OneFrame!Draws(viz, s[1], s[2])
           e == OneFrame!Draws(viz, r[1], r[2])
<1>1. /\ s[1] \in Nat /\ s[2] \in Nat /\ s[1] >= 20 /\ s[2] >= 10
      /\ r[1] \in Nat /\ r[2] \in Nat /\ r[1] >= 20 /\ r[2] >= 10
  BY SizeFacts
<1>2. d.for = e.for
  BY DEF Keeps
<1>3. SUFFICES d.dots = e.dots /\ d.long = e.long
  BY <1>2 DEF Keeps
<1>4. CASE viz \in Plain
  <2>1. d = OneFrame!Blank /\ e = OneFrame!Blank
    BY <1>4, PlainDraws
  <2> QED BY <2>1 DEF OneFrame!Blank, OneFrame!Buffer, OneFrame!Braille, OneFrame!And
<1>5. CASE viz \in Dotted
  <2>1. d = OneFrame!Braille(s[1], s[2]) /\ e = OneFrame!Braille(r[1], r[2])
    BY <1>5, DottedDraws
  <2> QED BY <1>2, <2>1 DEF OneFrame!Blank, OneFrame!Buffer, OneFrame!Braille, OneFrame!And
<1>6. CASE viz = "fire"
  <2>1. d = OneFrame!Fire(s[1], s[2]) /\ e = OneFrame!Fire(r[1], r[2])
    BY <1>6, OtherDraws
  <2>2. s[1] = r[1] /\ s[2] = r[2]
    BY <1>2, <2>1 DEF OneFrame!Fire, OneFrame!Buffer, OneFrame!Blank
  <2> QED BY <2>1, <2>2
<1>7. CASE viz = "rain"
  <2>1. d = OneFrame!Rain(s[1], s[2]) /\ e = OneFrame!Rain(r[1], r[2])
    BY <1>7, OtherDraws
  <2> QED BY <1>2, <2>1 DEF OneFrame!Rain, OneFrame!Buffer, OneFrame!And, OneFrame!Braille, OneFrame!Blank
<1>8. CASE viz = "binary"
  <2>1. d = OneFrame!Binary(s[1], s[2]) /\ e = OneFrame!Binary(r[1], r[2])
    BY <1>8, OtherDraws
  <2> QED BY <1>2, <2>1 DEF OneFrame!Binary, OneFrame!Buffer, OneFrame!And, OneFrame!Braille, OneFrame!Blank
<1>9. CASE viz = "barsoutline"
  <2>1. d = OneFrame!BarsOutline(s[1], s[2]) /\ e = OneFrame!BarsOutline(r[1], r[2])
    BY <1>9, OtherDraws
  <2> QED BY <1>2, <2>1 DEF OneFrame!BarsOutline, OneFrame!Buffer, OneFrame!And, OneFrame!Braille, OneFrame!Blank
<1>10. CASE viz = "classicpeak"
  <2>1. d = OneFrame!ClassicPeak(s[1], s[2]) /\ e = OneFrame!ClassicPeak(r[1], r[2])
    BY <1>10, OtherDraws
  <2> QED BY <1>2, <2>1 DEF OneFrame!ClassicPeak, OneFrame!Buffer, OneFrame!And, OneFrame!Braille, OneFrame!Blank
<1>11. CASE viz = "heartbeat"
  <2>1. d = OneFrame!Heartbeat(s[1], s[2]) /\ e = OneFrame!Heartbeat(r[1], r[2])
    BY <1>11, OtherDraws
  <2> QED BY <1>2, <2>1 DEF OneFrame!Heartbeat, OneFrame!Buffer, OneFrame!And, OneFrame!Braille, OneFrame!Blank
<1>12. CASE viz = "terrain"
  <2>1. d = OneFrame!Terrain(s[1], s[2]) /\ e = OneFrame!Terrain(r[1], r[2])
    BY <1>12, OtherDraws
  <2> QED BY <1>2, <2>1 DEF OneFrame!Terrain, OneFrame!Buffer, OneFrame!And, OneFrame!Braille, OneFrame!Blank
<1>13. CASE viz = "barsdot"
  <2>1. d = OneFrame!BarsDot(s[1], s[2]) /\ e = OneFrame!BarsDot(r[1], r[2])
    BY <1>13, OtherDraws
  <2> QED BY <1>2, <2>1 DEF OneFrame!BarsDot, OneFrame!Buffer, OneFrame!And, OneFrame!Braille, OneFrame!Blank
<1> QED BY <1>4, <1>5, <1>6, <1>7, <1>8, <1>9, <1>10, <1>11, <1>12, <1>13, VisualiserKinds

\* What there is to draw.
LEMMA LayerKinds ==
  ASSUME layer \in OneFrame!Layers
  PROVE  \/ layer.kind = "viz" /\ layer.viz \in OneFrame!Visualisers
         \/ /\ layer.kind \in OneFrame!Lists /\ layer.n \in Lengths
            /\ layer.cursor \in Nat /\ (layer.n > 0 => layer.cursor < layer.n) /\ layer.typed \in Texts
         \/ layer.kind \in {"categories", "loading", "art", "status"}
         \/ layer.kind = "settings" /\ layer.pairs \in {3, 4} /\ layer.notes \in 1 .. 3
         \/ layer.kind = "volume" /\ layer.digits \in 1 .. 3
         \/ /\ layer.kind = "strip" /\ layer.artist \in Texts /\ layer.tag \in Texts
            /\ layer.title \in Texts /\ layer.album \in Texts
         \/ layer.kind = "bar" /\ layer.typed \in Texts /\ layer.atEnd \in BOOLEAN /\ layer.hint \in Texts
<1> DEFINE L(n) == [kind : OneFrame!Lists, n : {n}, cursor : OneFrame!Rows(n), typed : Texts]
           V == [kind : {"viz"}, viz : OneFrame!Visualisers]
           P == [kind : {"categories", "loading", "art", "status"}]
           S == [kind : {"settings"}, pairs : {3, 4}, notes : 1 .. 3]
           O == [kind : {"volume"}, digits : 1 .. 3]
           T == [kind : {"strip"}, artist : Texts, tag : Texts, title : Texts, album : Texts]
           B == [kind : {"bar"}, typed : Texts, atEnd : BOOLEAN, hint : Texts]
<1>1. layer \in OneFrame!ListLayers \/ layer \in V \cup P \cup S \cup O \cup T \cup B
  BY DEF OneFrame!Layers
<1>2. ASSUME NEW n \in Lengths, layer \in L(n)
      PROVE  /\ layer.kind \in OneFrame!Lists /\ layer.n \in Lengths
             /\ layer.cursor \in Nat /\ (layer.n > 0 => layer.cursor < layer.n) /\ layer.typed \in Texts
  BY <1>2, LayerAssumption DEF OneFrame!Rows
<1>3. CASE layer \in V \cup P \cup S \cup O \cup T \cup B
  BY <1>3
<1>4. layer \in OneFrame!ListLayers => \E n \in Lengths : layer \in L(n)
  BY DEF OneFrame!ListLayers
<1> QED BY <1>1, <1>2, <1>3, <1>4

\* A layer that is a visualiser is one that there is.
LEMMA VizFacts == layer \in OneFrame!Layers /\ layer.kind = "viz" => layer.viz \in OneFrame!Visualisers
BY LayerKinds DEF OneFrame!Lists

\* A frame makes the buffer that the pane needs, or has it.
LEMMA FrameMakesBuffer ==
  ASSUME LayerInv, OneFrame!Frame, layer.kind = "viz"
  PROVE  kept' = Keeps(layer.viz, size)
<1> DEFINE v == layer.viz
<1>1. v \in OneFrame!Visualisers
  BY VizFacts DEF LayerInv
<1>2. kept' = IF kept.for = Keeps(v, size).for THEN kept ELSE Keeps(v, size)
  BY DEF OneFrame!Frame, OneFrame!Ensure, OneFrame!Now, Keeps
<1>3. kept = OneFrame!NoBuffer \/ \E s \in LayerSizes : kept = Keeps(v, s)
  BY DEF LayerInv, Buffers
<1>4. ASSUME kept = OneFrame!NoBuffer, kept.for = Keeps(v, size).for PROVE kept = Keeps(v, size)
  <2> DEFINE d == OneFrame!Draws(v, size[1], size[2])
  <2>1. d.for = <<0, 0>>
    BY <1>4 DEF Keeps, OneFrame!NoBuffer
  <2>2. d.dots = <<1, 1>> /\ d.long = 0
    BY <1>1, <2>1, SizeFacts, KeepsFacts DEF LayerInv
  <2> QED BY <1>4, <2>1, <2>2 DEF Keeps, OneFrame!NoBuffer
<1>5. ASSUME NEW s \in LayerSizes, kept = Keeps(v, s), kept.for = Keeps(v, size).for
      PROVE  kept = Keeps(v, size)
  BY <1>1, <1>5, ForDecides DEF LayerInv
<1> QED BY <1>2, <1>3, <1>4, <1>5

\* Every frame and every resize keeps the invariant.
LEMMA LayerStep == LayerInv /\ [OneFrame!Next]_paintVars => LayerInv'
<1> SUFFICES ASSUME LayerInv, [OneFrame!Next]_paintVars PROVE LayerInv'
  OBVIOUS
<1>1. CASE UNCHANGED paintVars
  BY <1>1 DEF LayerInv, Buffers, paintVars
<1>2. CASE OneFrame!Frame
  <2>1. drawn' = TRUE /\ UNCHANGED <<size, layer>> /\ (layer.kind # "viz" => kept' = kept)
    BY <1>2 DEF OneFrame!Frame
  <2>2. CASE layer.kind # "viz"
    BY <2>1, <2>2 DEF LayerInv, Buffers
  <2>3. CASE layer.kind = "viz"
    <3>1. kept' = Keeps(layer.viz, size)
      BY <1>2, <2>3, FrameMakesBuffer
    <3>2. kept'.for \in Nat \X Nat /\ kept'.dots \in Nat \X Nat /\ kept'.long \in Nat
      BY <2>3, <3>1, VizFacts, SizeFacts, KeepsFacts DEF LayerInv, Keeps
    <3> QED BY <2>1, <3>1, <3>2 DEF LayerInv, Buffers, Keeps
  <2> QED BY <2>2, <2>3
<1>3. ASSUME NEW s \in LayerSizes, OneFrame!Resize(s) PROVE LayerInv'
  BY <1>3 DEF OneFrame!Resize, LayerInv, Buffers
<1> QED BY <1>1, <1>2, <1>3 DEF OneFrame!Next

\* No index goes beyond a buffer, and the dots are those of the pane.
LEMMA BuffersFollowHere == LayerInv => OneFrame!BuffersFollow
<1> SUFFICES ASSUME LayerInv, layer.kind = "viz", drawn
             PROVE  /\ OneFrame!Now(layer.viz).highest < kept.long
                    /\ OneFrame!Reaches(layer.viz) = size
  BY DEF OneFrame!BuffersFollow, OneFrame!InBuffer, OneFrame!NoGhosts, OneFrame!OfViz
<1> DEFINE d == OneFrame!Draws(layer.viz, size[1], size[2])
<1>1. /\ layer.viz \in OneFrame!Visualisers /\ size \in LayerSizes
      /\ kept.dots = d.dots /\ kept.long = d.long
  BY VizFacts DEF LayerInv, Buffers, Keeps
<1>2. size[1] \in Nat /\ size[2] \in Nat /\ size[1] >= 20 /\ size[2] >= 10 /\ size = <<size[1], size[2]>>
  BY <1>1, SizeFacts
<1>3. d.highest < d.long /\ (d.braille => d.dots = <<size[1], size[2]>>)
  BY <1>1, <1>2, KeepsFacts
<1> HIDE DEF d
<1>4. OneFrame!Now(layer.viz) = d
  BY DEF OneFrame!Now, d
<1> QED BY <1>1, <1>2, <1>3, <1>4 DEF OneFrame!Reaches, OneFrame!Least

-----------------------------------------------------------------------------
(* Where the layers go.                                                    *)

\* The border of the picker and what is in it.
LEMMA ModalFacts ==
  ASSUME size \in LayerSizes
  PROVE  /\ OneFrame!Modal.x0 \in Nat /\ OneFrame!Modal.y0 \in Nat /\ OneFrame!Modal.body \in 4 .. 18
         /\ OneFrame!Modal.x1 \in Nat /\ OneFrame!Modal.x1 >= OneFrame!Modal.x0 + 20
         /\ OneFrame!Modal.x1 <= size[1] /\ OneFrame!Modal.y1 <= size[2]
         /\ OneFrame!Modal.y1 = OneFrame!Modal.y0 + 6 + OneFrame!Modal.body
         /\ OneFrame!InnerX = OneFrame!Modal.x0 + 2
         /\ OneFrame!InnerW = OneFrame!Modal.x1 - OneFrame!Modal.x0 - 4
         /\ OneFrame!BodyY = OneFrame!Modal.y0 + 3
<1> DEFINE w == size[1]
           h == size[2]
           width == OneFrame!Least(w, 64)
           body == OneFrame!Least(h - 6, 18)
           x0 == (w - width) \div 2
           y0 == (h - (6 + body)) \div 2
<1>1. w \in Nat /\ h \in Nat /\ w >= 20 /\ h >= 10
  BY SizeFacts
<1>2. /\ OneFrame!Modal.x0 = x0 /\ OneFrame!Modal.y0 = y0 /\ OneFrame!Modal.body = body
      /\ OneFrame!Modal.x1 = x0 + width /\ OneFrame!Modal.y1 = y0 + 6 + body
  BY DEF OneFrame!Modal, OneFrame!Slots
<1>3. width \in Nat /\ width >= 20 /\ width <= w /\ body \in 4 .. 18 /\ 6 + body <= h
  BY <1>1 DEF OneFrame!Least
<1>4. x0 \in Nat /\ x0 + width <= w /\ y0 \in Nat /\ y0 + 6 + body <= h
  <2> HIDE DEF w, h, width, body
  <2> QED BY <1>1, <1>3
<1> HIDE DEF x0, y0, width, body, w, h
<1>5. OneFrame!Modal.x1 <= size[1] /\ OneFrame!Modal.y1 <= size[2]
  BY <1>2, <1>4 DEF w, h
<1>6. /\ OneFrame!InnerX = OneFrame!Modal.x0 + 2
      /\ OneFrame!InnerW = (OneFrame!Modal.x1 - 2) - OneFrame!InnerX
      /\ OneFrame!BodyY = OneFrame!Modal.y0 + 3
  BY DEF OneFrame!InnerX, OneFrame!InnerW, OneFrame!BodyY
<1>7. OneFrame!InnerW = OneFrame!Modal.x1 - OneFrame!Modal.x0 - 4
  BY <1>2, <1>3, <1>4, <1>6
<1> QED BY <1>2, <1>3, <1>4, <1>5, <1>6, <1>7

\* Cells that are within the border.
Inside(c) == OneFrame!Modal.x0 < c.from /\ c.to < OneFrame!Modal.x1

\* Cells of the body.
InBody(c) == Inside(c) /\ c.y \in OneFrame!BodyY .. (OneFrame!Modal.y1 - 3)

\* A row of its own, and a text in the middle.
LEMMA RowFacts ==
  ASSUME size \in LayerSizes, NEW y
  PROVE  /\ OneFrame!Whole(y).y = y /\ Inside(OneFrame!Whole(y))
         /\ \A length \in Nat : OneFrame!Centered(y, length).y = y /\ Inside(OneFrame!Centered(y, length))
<1> DEFINE x == OneFrame!InnerX
           w == OneFrame!InnerW
<1>1. /\ x \in Nat /\ w \in Nat /\ w >= 16
      /\ OneFrame!Modal.x0 \in Nat /\ OneFrame!Modal.x1 \in Nat
      /\ OneFrame!Modal.x0 < x /\ x + w < OneFrame!Modal.x1
  BY ModalFacts
<1>2. /\ OneFrame!Whole(y).y = y /\ OneFrame!Whole(y).from = x /\ OneFrame!Whole(y).to = x + w
  BY DEF OneFrame!Whole, OneFrame!Cells
<1>3. ASSUME NEW length \in Nat
      PROVE  OneFrame!Centered(y, length).y = y /\ Inside(OneFrame!Centered(y, length))
  <2> DEFINE n == OneFrame!Least(length, w)
             f == x + ((w - n) \div 2)
  <2>1. /\ OneFrame!Centered(y, length).y = y /\ OneFrame!Centered(y, length).from = f
        /\ OneFrame!Centered(y, length).to = f + n
    BY DEF OneFrame!Centered, OneFrame!Cells
  <2> HIDE DEF x, w
  <2>2. n \in Nat /\ n <= w
    BY <1>1 DEF OneFrame!Least
  <2> HIDE DEF n
  <2>3. f \in Int /\ x <= f /\ f + n <= x + w
    BY <1>1, <2>2
  <2> HIDE DEF f
  <2> QED BY <1>1, <2>1, <2>2, <2>3 DEF Inside
<1> QED BY <1>1, <1>2, <1>3 DEF Inside

\* The window of a list is within the list, no longer than its rows, and holds the
\* item that is selected.
LEMMA WindowFacts ==
  ASSUME NEW total \in Nat, NEW rows \in Nat \ {0}, NEW selected \in Nat
  PROVE  LET first == OneFrame!ScrollOffset(total, rows, selected)
         IN  /\ first \in Nat
             /\ OneFrame!Window(total, rows, selected) = {i \in first .. (first + rows) - 1 : i < total}
             /\ selected < total => selected \in OneFrame!Window(total, rows, selected)
<1> DEFINE first == OneFrame!ScrollOffset(total, rows, selected)
           half == rows \div 2
<1>1. half \in Nat /\ half < rows
  OBVIOUS
<1>2. first = IF total <= rows THEN 0
              ELSE OneFrame!Least(OneFrame!Sub(selected, half), total - rows)
  BY DEF OneFrame!ScrollOffset
<1> HIDE DEF half
<1>3. first \in Nat /\ (selected < total => first <= selected /\ selected <= first + rows - 1)
  BY <1>1, <1>2 DEF OneFrame!Least, OneFrame!Sub
<1> HIDE DEF first
<1>4. OneFrame!Window(total, rows, selected) = {i \in first .. (first + rows) - 1 : i < total}
  BY DEF OneFrame!Window, first
<1> QED BY <1>3, <1>4 DEF first

\* The rows of a list are as many as there is room for.
LEMMA ListFacts ==
  ASSUME NEW y \in Nat, NEW total \in Nat, NEW rows \in Nat, rows # 0, NEW selected \in Nat
  PROVE  OneFrame!ListRows(y, total, rows, selected) \subseteq {OneFrame!Whole(y + k) : k \in 0 .. rows - 1}
<1> SUFFICES ASSUME NEW c \in OneFrame!ListRows(y, total, rows, selected)
             PROVE  c \in {OneFrame!Whole(y + k) : k \in 0 .. rows - 1}
  OBVIOUS
<1> DEFINE first == OneFrame!ScrollOffset(total, rows, selected)
<1>1. PICK i \in OneFrame!Window(total, rows, selected) : c = OneFrame!Whole(y + (i - first))
  BY DEF OneFrame!ListRows
<1>2. first \in Nat /\ i \in first .. (first + rows) - 1
  BY WindowFacts
<1>3. i - first \in 0 .. rows - 1
  <2> HIDE DEF first
  <2> QED BY <1>2
<1> QED BY <1>1, <1>3

\* What is in a row of the body is in the body.
LEMMA BodyFacts ==
  ASSUME size \in LayerSizes, NEW k \in 0 .. OneFrame!Modal.body - 1
  PROVE  /\ InBody(OneFrame!Whole(OneFrame!BodyY + k))
         /\ \A length \in Nat : InBody(OneFrame!Centered(OneFrame!BodyY + k, length))
<1>1. OneFrame!BodyY + k \in OneFrame!BodyY .. (OneFrame!Modal.y1 - 3)
  BY ModalFacts
<1> QED BY <1>1, RowFacts DEF InBody

\* The rows of each tab are in the body.
LEMMA RadioInBody ==
  ASSUME size \in LayerSizes, NEW n \in Nat, NEW sel \in Nat, NEW c \in OneFrame!RadioBody(n, sel)
  PROVE  InBody(c)
<1>1. OneFrame!Least(sel, OneFrame!Sub(n, 1)) \in Nat
  BY DEF OneFrame!Least, OneFrame!Sub
<1>2. OneFrame!BodyY \in Nat /\ OneFrame!Modal.body \in Nat /\ OneFrame!Modal.body # 0
  BY ModalFacts
<1>3. \E k \in 0 .. OneFrame!Modal.body - 1 : c = OneFrame!Whole(OneFrame!BodyY + k)
  <2>1. OneFrame!RadioBody(n, sel) \subseteq {OneFrame!Whole(OneFrame!BodyY + k) : k \in 0 .. OneFrame!Modal.body - 1}
    BY <1>1, <1>2, ListFacts DEF OneFrame!RadioBody
  <2> QED BY <2>1
<1> QED BY <1>3, BodyFacts

\* A list, or what is said when it is empty, below a row of its own.
Below(n, sel, length) ==
  LET rows == OneFrame!Modal.body - 1
  IN  IF n = 0 THEN {OneFrame!Centered(OneFrame!BodyY + 1 + (rows \div 2), length)}
      ELSE OneFrame!ListRows(OneFrame!BodyY + 1, n, rows, sel)

\* A list below the first row, or what is said when it is empty, keeps to the body.
LEMMA BelowInBody ==
  ASSUME size \in LayerSizes, NEW n \in Nat, NEW sel \in Nat, NEW length \in Nat,
         NEW c \in Below(n, sel, length)
  PROVE  InBody(c)
<1> DEFINE rows == OneFrame!Modal.body - 1
<1>1. OneFrame!BodyY \in Nat /\ OneFrame!Modal.body \in 4 .. 18
  BY ModalFacts
<1>2. CASE n = 0
  <2>1. c = OneFrame!Centered(OneFrame!BodyY + 1 + (rows \div 2), length)
    BY <1>2 DEF Below
  <2>2. 1 + (rows \div 2) \in 0 .. OneFrame!Modal.body - 1
        /\ OneFrame!BodyY + 1 + (rows \div 2) = OneFrame!BodyY + (1 + (rows \div 2))
    BY <1>1
  <2> QED BY <2>1, <2>2, BodyFacts
<1>3. CASE n # 0
  <2>1. rows \in Nat /\ rows # 0 /\ OneFrame!BodyY + 1 \in Nat
    BY <1>1
  <2>2. c \in OneFrame!ListRows(OneFrame!BodyY + 1, n, rows, sel)
    BY <1>3 DEF Below
  <2>3. PICK k \in 0 .. rows - 1 : c = OneFrame!Whole((OneFrame!BodyY + 1) + k)
    <3>1. /\ OneFrame!ListRows(OneFrame!BodyY + 1, n, rows, sel)
               \subseteq {OneFrame!Whole((OneFrame!BodyY + 1) + k) : k \in 0 .. rows - 1}
      BY <2>1, ListFacts
    <3> QED BY <2>2, <3>1
  <2>4. k + 1 \in 0 .. OneFrame!Modal.body - 1 /\ (OneFrame!BodyY + 1) + k = OneFrame!BodyY + (k + 1)
    BY <1>1
  <2> QED BY <2>3, <2>4, BodyFacts
<1> QED BY <1>2, <1>3

\* So do the input row, its caret and what is below them.
LEMMA SearchInBody ==
  ASSUME size \in LayerSizes, NEW n \in Nat, NEW sel \in Nat, NEW typed \in Nat,
         NEW c \in OneFrame!SearchBody(n, sel, typed)
  PROVE  InBody(c)
<1> DEFINE caret == OneFrame!InnerX + 2 + OneFrame!Least(typed, OneFrame!InnerW - 2)
<1>1. \/ c = OneFrame!Whole(OneFrame!BodyY)
      \/ c = OneFrame!Cells(OneFrame!BodyY, caret, caret + 1)
      \/ c \in Below(n, sel, typed)
  BY DEF OneFrame!SearchBody, Below
<1>2. CASE c = OneFrame!Whole(OneFrame!BodyY)
  <2>1. 0 \in 0 .. OneFrame!Modal.body - 1 /\ OneFrame!BodyY + 0 = OneFrame!BodyY
    BY ModalFacts
  <2> QED BY <1>2, <2>1, BodyFacts
<1>3. CASE c = OneFrame!Cells(OneFrame!BodyY, caret, caret + 1)
  <2>1. c.y = OneFrame!BodyY /\ c.from = caret /\ c.to = caret + 1
    BY <1>3 DEF OneFrame!Cells
  <2>2. /\ caret \in Int /\ OneFrame!Modal.x0 < caret /\ caret + 1 < OneFrame!Modal.x1
        /\ OneFrame!BodyY \in OneFrame!BodyY .. (OneFrame!Modal.y1 - 3)
    BY ModalFacts DEF OneFrame!Least
  <2> HIDE DEF caret
  <2> QED BY <2>1, <2>2 DEF InBody, Inside
<1>4. CASE c \in Below(n, sel, typed)
  BY <1>4, BelowInBody
<1> QED BY <1>1, <1>2, <1>3, <1>4

\* So do the categories and their hint.
LEMMA CategoriesInBody ==
  ASSUME size \in LayerSizes, NEW c \in OneFrame!CategoriesBody
  PROVE  InBody(c)
<1>1. OneFrame!BodyY \in Nat /\ OneFrame!Modal.body \in 4 .. 18
  BY ModalFacts
<1>2. \/ \E k \in 0 .. OneFrame!Modal.body - 1 : c = OneFrame!Whole(OneFrame!BodyY + k)
      \/ OneFrame!Modal.body > 4 /\ c = OneFrame!Centered(OneFrame!BodyY + 5, 14)
  BY <1>1 DEF OneFrame!CategoriesBody, OneFrame!Least
<1>3. ASSUME OneFrame!Modal.body > 4, c = OneFrame!Centered(OneFrame!BodyY + 5, 14) PROVE InBody(c)
  <2>1. OneFrame!BodyY + 5 \in OneFrame!BodyY .. (OneFrame!Modal.y1 - 3)
    BY <1>3, ModalFacts
  <2> QED BY <1>3, <2>1, RowFacts DEF InBody
<1> QED BY <1>2, <1>3, BodyFacts

\* So do the items of a category and its title.
LEMMA ItemsInBody ==
  ASSUME size \in LayerSizes, NEW n \in Nat, NEW sel \in Nat, NEW c \in OneFrame!ItemsBody(n, sel)
  PROVE  InBody(c)
<1>1. c = OneFrame!Whole(OneFrame!BodyY) \/ c \in Below(n, sel, 17)
  BY DEF OneFrame!ItemsBody, Below
<1>2. 0 \in 0 .. OneFrame!Modal.body - 1 /\ OneFrame!BodyY + 0 = OneFrame!BodyY
  BY ModalFacts
<1> QED BY <1>1, <1>2, BodyFacts, BelowInBody

\* So do the settings with their values and notes.
LEMMA SettingsInBody ==
  ASSUME size \in LayerSizes, NEW pairs \in {3, 4}, NEW notes \in 1 .. 3,
         NEW c \in OneFrame!SettingsBody(pairs, notes)
  PROVE  InBody(c)
<1> DEFINE x == OneFrame!InnerX
           w == OneFrame!InnerW
           label == OneFrame!Least(w, 14)
           pair == x + 1 + label + OneFrame!Sub(w, 1 + label)
           end == OneFrame!BodyY + OneFrame!Modal.body
           below == OneFrame!BodyY + pairs + 1
<1>1. /\ OneFrame!BodyY \in Nat /\ OneFrame!Modal.body \in 4 .. 18
      /\ OneFrame!Modal.y1 - 3 = end - 0 /\ x \in Nat /\ w \in Nat /\ w >= 16
      /\ x = OneFrame!Modal.x0 + 2 /\ x + w + 2 = OneFrame!Modal.x1
      /\ OneFrame!Modal.x0 \in Nat /\ OneFrame!Modal.x1 \in Nat
  BY ModalFacts
<1>2. \/ \E k \in 0 .. OneFrame!Least(pairs, OneFrame!Modal.body) - 1 :
           c = OneFrame!Cells(OneFrame!BodyY + k, x + 1, pair)
      \/ \E y \in {below + i : i \in 0 .. (notes - 1)} \cap 0 .. (end - 1) : c = OneFrame!Centered(y, 60)
  BY DEF OneFrame!SettingsBody
<1>3. ASSUME NEW k \in 0 .. OneFrame!Least(pairs, OneFrame!Modal.body) - 1,
             c = OneFrame!Cells(OneFrame!BodyY + k, x + 1, pair)
      PROVE  InBody(c)
  <2>1. pair \in Int /\ pair <= x + w
    <3> HIDE DEF x, w
    <3> QED BY <1>1 DEF OneFrame!Least, OneFrame!Sub
  <2>2. c.y = OneFrame!BodyY + k /\ c.from = x + 1 /\ c.to = pair
    BY <1>3 DEF OneFrame!Cells
  <2>3. OneFrame!BodyY + k \in OneFrame!BodyY .. (OneFrame!Modal.y1 - 3)
    BY <1>1 DEF OneFrame!Least
  <2> HIDE DEF x, w, pair
  <2> QED BY <1>1, <2>1, <2>2, <2>3 DEF InBody, Inside
<1>4. ASSUME NEW y \in {below + i : i \in 0 .. (notes - 1)} \cap 0 .. (end - 1), c = OneFrame!Centered(y, 60)
      PROVE  InBody(c)
  <2>1. y \in OneFrame!BodyY .. (OneFrame!Modal.y1 - 3)
    BY <1>1
  <2> QED BY <1>4, <2>1, RowFacts DEF InBody
<1> QED BY <1>2, <1>3, <1>4

\* So does the line that stands for the settings until they come.
LEMMA LoadingInBody ==
  ASSUME size \in LayerSizes, NEW c \in OneFrame!LoadingBody
  PROVE  InBody(c)
<1>1. c = OneFrame!Centered(OneFrame!BodyY + (OneFrame!Modal.body \div 2), 22)
  BY DEF OneFrame!LoadingBody
<1>2. OneFrame!BodyY + (OneFrame!Modal.body \div 2) \in OneFrame!BodyY .. (OneFrame!Modal.y1 - 3)
  BY ModalFacts
<1> QED BY <1>1, <1>2, RowFacts DEF InBody

\* The picker stays inside its border, and its body between the tabs and the footer.
LEMMA PickerInside == LayerInv => OneFrame!InsideModal
<1> SUFFICES ASSUME LayerInv, layer.kind \in OneFrame!Tabs PROVE OneFrame!InsideModal
  BY DEF OneFrame!InsideModal
<1>1. size \in LayerSizes /\ Lengths \subseteq Nat /\ Texts \subseteq Nat
  BY LayerAssumption DEF LayerInv
<1>2. \A c \in OneFrame!Body : InBody(c)
  <2>1. \/ layer.kind \in OneFrame!Lists /\ layer.n \in Nat /\ layer.cursor \in Nat /\ layer.typed \in Nat
        \/ layer.kind \in {"categories", "loading"}
        \/ layer.kind = "settings" /\ layer.pairs \in {3, 4} /\ layer.notes \in 1 .. 3
    BY <1>1, LayerKinds DEF LayerInv, OneFrame!Tabs, OneFrame!Lists
  <2>2. CASE layer.kind = "radio"
    <3>1. OneFrame!Body = OneFrame!RadioBody(layer.n, layer.cursor)
      BY Zenon, <2>2 DEF OneFrame!Body
    <3> QED BY <1>1, <2>1, <2>2, <3>1, RadioInBody
  <2>3. CASE layer.kind = "search"
    <3>1. OneFrame!Body = OneFrame!SearchBody(layer.n, layer.cursor, layer.typed)
      BY Zenon, <2>3 DEF OneFrame!Body
    <3> QED BY <1>1, <2>1, <2>3, <3>1, SearchInBody
  <2>4. CASE layer.kind = "categories"
    <3>1. OneFrame!Body = OneFrame!CategoriesBody
      BY Zenon, <2>4 DEF OneFrame!Body
    <3> QED BY <1>1, <3>1, CategoriesInBody
  <2>5. CASE layer.kind = "items"
    <3>1. OneFrame!Body = OneFrame!ItemsBody(layer.n, layer.cursor)
      BY Zenon, <2>5 DEF OneFrame!Body
    <3> QED BY <1>1, <2>1, <2>5, <3>1, ItemsInBody
  <2>6. CASE layer.kind = "settings"
    <3>1. OneFrame!Body = OneFrame!SettingsBody(layer.pairs, layer.notes)
      BY Zenon, <2>6 DEF OneFrame!Body
    <3> QED BY <1>1, <2>1, <2>6, <3>1, SettingsInBody DEF OneFrame!Lists
  <2>7. CASE layer.kind = "loading"
    <3>1. OneFrame!Body = OneFrame!LoadingBody
      BY Zenon, <2>7 DEF OneFrame!Body
    <3> QED BY <1>1, <3>1, LoadingInBody
  <2> QED BY <2>2, <2>3, <2>4, <2>5, <2>6, <2>7 DEF OneFrame!Tabs, OneFrame!Lists
<1>3. ASSUME NEW banner \in Texts, NEW c \in OneFrame!Chrome(banner) PROVE Inside(c)
  <2>1. \E y, length \in Nat : c = OneFrame!Centered(y, length)
    BY <1>1, ModalFacts DEF OneFrame!Chrome, OneFrame!TabBar
  <2> QED BY <1>1, <2>1, RowFacts
<1>4. OneFrame!Modal.x0 >= 0 /\ OneFrame!Modal.y0 >= 0
      /\ OneFrame!Modal.x1 <= size[1] /\ OneFrame!Modal.y1 <= size[2]
  BY <1>1, ModalFacts
<1> QED BY <1>2, <1>3, <1>4 DEF OneFrame!InsideModal, InBody, Inside

\* The selected row is in the window.
LEMMA SelectedInWindow == LayerInv => OneFrame!SelectedIsShown
<1> SUFFICES ASSUME LayerInv, layer.kind \in OneFrame!Lists, layer.n > 0
             PROVE  layer.cursor \in OneFrame!Window(layer.n,
                      OneFrame!Modal.body - (IF layer.kind = "radio" THEN 0 ELSE 1), layer.cursor)
  BY DEF OneFrame!SelectedIsShown
<1> DEFINE rows == OneFrame!Modal.body - (IF layer.kind = "radio" THEN 0 ELSE 1)
<1>1. layer.n \in Nat /\ layer.cursor \in Nat /\ layer.cursor < layer.n
  BY LayerAssumption, LayerKinds DEF LayerInv, OneFrame!Lists
<1>2. rows \in Nat \ {0}
  BY ModalFacts DEF LayerInv
<1> HIDE DEF rows
<1>3. layer.cursor \in OneFrame!Window(layer.n, rows, layer.cursor)
  BY <1>1, <1>2, WindowFacts
<1> QED BY <1>3 DEF rows

\* A text that is cut takes what it may at most.
LEMMA CutFacts ==
  ASSUME NEW length \in Nat, NEW most \in Int, most >= 0
  PROVE  OneFrame!Truncated(length, most) \in Nat /\ OneFrame!Truncated(length, most) <= most
BY DEF OneFrame!Truncated

\* Where the texts of the strip end.
LEMMA StripFacts ==
  ASSUME NEW w \in Nat, w >= 20, size[1] = w,
         NEW artist \in Nat, NEW tag \in Nat, NEW title \in Nat, NEW album \in Nat
  PROVE  /\ OneFrame!ArtistEnd(artist, tag) \in Nat /\ OneFrame!ArtistEnd(artist, tag) <= w
         /\ OneFrame!AlbumEnd(title, album) \in Nat /\ OneFrame!AlbumEnd(title, album) <= w
         /\ tag > 0 => \/ OneFrame!ArtistEnd(artist, tag) = 2
                       \/ OneFrame!ArtistEnd(artist, tag) < OneFrame!TagX(tag)
<1> DEFINE room == OneFrame!Sub(w, 4 + (IF tag = 0 THEN 0 ELSE tag + 1))
           a == OneFrame!Truncated(artist, room)
           b == OneFrame!Truncated(title, w - 4)
           left == w - (2 + b)
           e == OneFrame!Truncated(album, left - 6)
<1>1. room \in Nat /\ room <= w - 4 /\ (tag > 0 /\ room # 0 => room = w - (5 + tag))
  BY DEF OneFrame!Sub
<1>2. a \in Nat /\ a <= room
  <2>1. room \in Int /\ room >= 0
    BY <1>1
  <2> HIDE DEF room
  <2> QED BY Zenon, <2>1, CutFacts
<1>3. b \in Nat /\ b <= w - 4
  <2>1. w - 4 \in Int /\ w - 4 >= 0
    OBVIOUS
  <2> QED BY Zenon, <2>1, CutFacts
<1>4. OneFrame!ArtistEnd(artist, tag) = 2 + a /\ OneFrame!TitleEnd(title) = 2 + b
  BY DEF OneFrame!ArtistEnd, OneFrame!TitleEnd
<1>5. OneFrame!AlbumEnd(title, album) = IF left <= 7 THEN 2 + b ELSE 2 + b + 3 + e
  BY <1>4 DEF OneFrame!AlbumEnd
<1> HIDE DEF a, b, room
<1>6. left > 7 => e \in Nat /\ e <= left - 6
  <2>1. left > 7 => left - 6 \in Int /\ left - 6 >= 0
    BY <1>3
  <2> QED BY Zenon, <2>1, CutFacts
<1> HIDE DEF e
<1>7. OneFrame!AlbumEnd(title, album) \in Nat /\ OneFrame!AlbumEnd(title, album) <= w
  BY <1>3, <1>5, <1>6
<1>8. tag > 0 => 2 + a = 2 \/ 2 + a < OneFrame!TagX(tag)
  BY <1>1, <1>2 DEF OneFrame!TagX, OneFrame!Sub
<1> QED BY <1>1, <1>2, <1>4, <1>7, <1>8

\* An overlay that is drawn is on the pane.
LEMMA OverlaysOnPane == LayerInv => OneFrame!OverlaysFit
<1> SUFFICES ASSUME LayerInv, layer.kind \in OneFrame!Overlays, NEW c \in OneFrame!Overlay
             PROVE  0 <= c.from /\ c.to <= size[1] /\ c.y \in 0 .. (size[2] - 1)
  BY DEF OneFrame!OverlaysFit
<1>1. size[1] \in Nat /\ size[2] \in Nat /\ size[1] >= 20 /\ size[2] >= 10 /\ Texts \subseteq Nat
  BY SizeFacts, LayerAssumption DEF LayerInv
<1>2. CASE layer.kind = "volume"
  <2>1. OneFrame!Overlay = OneFrame!VolumeOverlay(layer.digits)
    BY Zenon, <1>2 DEF OneFrame!Overlay
  <2>2. layer.digits \in 1 .. 3
    BY <1>2, LayerKinds DEF LayerInv, OneFrame!Lists
  <2> QED BY <1>1, <2>1, <2>2 DEF OneFrame!VolumeOverlay, OneFrame!Cells
<1>3. CASE layer.kind = "art"
  <2>1. OneFrame!Overlay = OneFrame!AlbumArt
    BY Zenon, <1>3 DEF OneFrame!Overlay
  <2> QED BY <1>1, <2>1 DEF OneFrame!AlbumArt, OneFrame!Cells
<1>4. CASE layer.kind = "strip"
  <2>1. OneFrame!Overlay = OneFrame!NowPlaying(layer.artist, layer.tag, layer.title, layer.album)
    BY Zenon, <1>4 DEF OneFrame!Overlay
  <2>2. layer.artist \in Nat /\ layer.tag \in Nat /\ layer.title \in Nat /\ layer.album \in Nat
    BY <1>1, <1>4, LayerKinds DEF LayerInv, OneFrame!Lists
  <2>3. /\ OneFrame!ArtistEnd(layer.artist, layer.tag) <= size[1]
        /\ OneFrame!AlbumEnd(layer.title, layer.album) <= size[1]
    BY <1>1, <2>2, StripFacts
  <2> QED BY <1>1, <2>1, <2>3 DEF OneFrame!NowPlaying, OneFrame!Cells
<1>5. CASE layer.kind = "status"
  <2>1. OneFrame!Overlay = OneFrame!StatusHint
    BY Zenon, <1>5 DEF OneFrame!Overlay
  <2> QED BY <1>1, <2>1 DEF OneFrame!StatusHint, OneFrame!Cells
<1> QED BY <1>2, <1>3, <1>4, <1>5 DEF OneFrame!Overlays

\* Two texts of a row keep apart.
LEMMA TextsKeepApart == LayerInv => OneFrame!TextsApart
<1> SUFFICES ASSUME LayerInv PROVE OneFrame!TextsApart
  OBVIOUS
<1>1. size[1] \in Nat /\ size[1] >= 20 /\ Texts \subseteq Nat
  BY SizeFacts, LayerAssumption DEF LayerInv
<1>2. ASSUME layer.kind = "strip", layer.tag > 0
      PROVE  \/ OneFrame!ArtistEnd(layer.artist, layer.tag) = 2
             \/ OneFrame!ArtistEnd(layer.artist, layer.tag) < OneFrame!TagX(layer.tag)
  <2>1. layer.artist \in Nat /\ layer.tag \in Nat /\ layer.title \in Nat /\ layer.album \in Nat
    BY <1>1, <1>2, LayerKinds DEF LayerInv, OneFrame!Lists
  <2> QED BY <1>1, <1>2, <2>1, StripFacts
<1>3. ASSUME layer.kind = "bar"
      PROVE  LET end == OneFrame!TextEnd(layer.typed, layer.atEnd)
             IN  end < size[1] => end <= OneFrame!HintStart(end, layer.hint)
  <2> DEFINE end == OneFrame!TextEnd(layer.typed, layer.atEnd)
  <2>1. layer.typed \in Nat /\ layer.hint \in Nat
    BY <1>1, <1>3, LayerKinds DEF LayerInv, OneFrame!Lists
  <2>2. end \in Nat
    BY <1>1, <2>1 DEF OneFrame!TextEnd, OneFrame!Least
  <2> HIDE DEF end
  <2>3. end < size[1] => end <= OneFrame!HintStart(end, layer.hint)
    BY <1>1, <2>1, <2>2 DEF OneFrame!HintStart, OneFrame!Least
  <2> QED BY <2>3 DEF end
<1> QED BY <1>2, <1>3 DEF OneFrame!TextsApart

\* Every layer keeps to its place.
LEMMA LayersKeepTheirPlace == LayerInv => OneFrame!LayersInPlace
BY PickerInside, SelectedInWindow, OverlaysOnPane, TextsKeepApart
   DEF OneFrame!LayersInPlace, OneFrame!TypeOK, LayerInv

-----------------------------------------------------------------------------
(* The frames.                                                             *)

ScreenTyped ==
  /\ at \in {"events", "keys"}
  /\ term \in ScreenSizes /\ grid \in ScreenSizes /\ snap \in ScreenSizes
  /\ switch = Frames!NoSwitch
     \/ (switch \in [source : ScreenSizes, left : Nat] /\ switch.left > 0)
  /\ fade = Frames!Idle
     \/ \E kind \in {"in", "out"} : \E left \in 1 .. ScreenLasts[kind] : fade = [kind |-> kind, left |-> left]
  /\ paused \in BOOLEAN /\ launched \in BOOLEAN /\ dimmed \in BOOLEAN /\ visible \in BOOLEAN
  /\ back \in BOOLEAN /\ missed \in BOOLEAN /\ panicked \in BOOLEAN
  /\ volume \in 0 .. ScreenLasts["volume"] /\ pulse \in 0 .. ScreenLasts["pulse"]
  /\ cover \in Covers \cup {Frames!Nothing} /\ art \in Covers \cup {Frames!Nothing}
  /\ fetch = Frames!NoFetch
     \/ fetch \in [url : Covers, result : {Frames!Nothing, "ok", "failed"}]
  /\ happened \in 0 .. ScreenEvents

\* Until a frame panics, the grid is no larger than the one a transition started from.
Sourced == ~ panicked /\ switch # Frames!NoSwitch => Frames!Area(grid) <= Frames!Area(switch.source)

\* What is fetched is the cover of the track, unless it went back.
Fetching ==
  /\ fetch # Frames!NoFetch /\ ~ back => fetch.url = cover
  /\ fetch = Frames!NoFetch /\ ~ back /\ ~ missed => art = cover

ScreenInv == ScreenTyped /\ snap = grid /\ Sourced /\ Fetching

\* Durations are frames, areas numbers.
LEMMA ScreenFacts ==
  /\ \A kind \in {"launch", "dissolve", "in", "wipe", "pause", "out", "volume", "pulse"} :
       ScreenLasts[kind] \in Nat /\ ScreenLasts[kind] > 0
  /\ \A s \in ScreenSizes : Frames!Area(s) \in Nat
  /\ Frames!Nothing \notin Covers /\ ScreenEvents \in Nat
BY ScreenAssumption DEF Frames!Area, Frames!Nothing

\* A transition starts from the grid.
LEMMA StartFacts ==
  ASSUME grid \in ScreenSizes,
         NEW kind \in {"launch", "dissolve", "in", "wipe", "pause", "out", "volume", "pulse"}
  PROVE  /\ Frames!Start(kind) \in [source : ScreenSizes, left : Nat] /\ Frames!Start(kind).left > 0
         /\ Frames!Start(kind).source = grid /\ Frames!Start(kind) # Frames!NoSwitch
BY ScreenFacts DEF Frames!Start, Frames!NoSwitch

\* What an event or a key may do to the transition.
Transits == switch' = switch \/ (switch'.source = grid /\ switch' \in [source : ScreenSizes, left : Nat] /\ switch'.left > 0)

\* A step of an event or a key that leaves the cover alone.
LEMMA OtherSteps ==
  ASSUME ScreenInv, Transits,
         at' \in {"events", "keys"}, happened' \in 0 .. ScreenEvents,
         paused' \in BOOLEAN, visible' \in BOOLEAN,
         fade' = fade \/ \E kind \in {"in", "out"} : fade' = [kind |-> kind, left |-> ScreenLasts[kind]],
         volume' \in {volume, ScreenLasts["volume"]}, pulse' \in {pulse, ScreenLasts["pulse"]},
         term' \in ScreenSizes,
         UNCHANGED <<grid, snap, launched, dimmed, panicked, cover, art, fetch, back, missed>>
  PROVE  ScreenInv'
<1>1. switch' = Frames!NoSwitch
      \/ (switch' \in [source : ScreenSizes, left : Nat] /\ switch'.left > 0)
  BY DEF Transits, ScreenInv, ScreenTyped
<1>2. fade' = Frames!Idle
      \/ \E kind \in {"in", "out"} : \E left \in 1 .. ScreenLasts[kind] : fade' = [kind |-> kind, left |-> left]
  <2>1. CASE fade' = fade
    BY <2>1 DEF ScreenInv, ScreenTyped
  <2>2. CASE \E kind \in {"in", "out"} : fade' = [kind |-> kind, left |-> ScreenLasts[kind]]
    BY <2>2, ScreenFacts
  <2> QED BY <2>1, <2>2
<1>3. volume' \in 0 .. ScreenLasts["volume"] /\ pulse' \in 0 .. ScreenLasts["pulse"]
  BY ScreenFacts DEF ScreenInv, ScreenTyped
<1>4. ScreenTyped'
  BY <1>1, <1>2, <1>3 DEF ScreenInv, ScreenTyped
<1>5. Sourced'
  BY ScreenFacts DEF ScreenInv, ScreenTyped, Sourced, Transits
<1>6. Fetching'
  BY DEF ScreenInv, Fetching
<1> QED BY <1>4, <1>5, <1>6 DEF ScreenInv

\* An event other than a new track, and a key.
LEMMA EventsAndKeys ==
  ASSUME ScreenInv,
         \/ Frames!VizChanged \/ Frames!VolumeChanged \/ Frames!SourceError
         \/ \E now \in BOOLEAN : Frames!RadioState(now) \/ Frames!OtherState(now)
         \/ Frames!HandleKey
         \/ \E s \in ScreenSizes : Frames!Resize(s)
  PROVE  ScreenInv'
<1> USE DEF Frames!Event, Frames!Key, Frames!Happens, Frames!frameVars, Frames!fadeVars,
            Frames!overlays, Frames!artVars, Frames!stateVars
<1>1. /\ grid \in ScreenSizes /\ term \in ScreenSizes /\ at \in {"events", "keys"}
      /\ happened \in 0 .. ScreenEvents /\ ScreenEvents \in Nat
      /\ paused \in BOOLEAN /\ visible \in BOOLEAN
  BY ScreenFacts DEF ScreenInv, ScreenTyped
<1>2. \A kind \in {"dissolve", "wipe", "pause"} : switch' = Frames!Start(kind) => Transits
  BY <1>1, StartFacts DEF Transits
<1>3. CASE Frames!VizChanged
  BY <1>1, <1>2, <1>3, OtherSteps DEF Frames!VizChanged
<1>4. CASE Frames!VolumeChanged
  BY <1>1, <1>4, OtherSteps DEF Frames!VolumeChanged, Transits
<1>5. CASE Frames!SourceError
  BY <1>1, <1>5, OtherSteps DEF Frames!SourceError, Transits
<1>6. ASSUME NEW now \in BOOLEAN, Frames!RadioState(now) PROVE ScreenInv'
  <2>1. Transits
    BY <1>2, <1>6 DEF Frames!RadioState, Frames!SetPaused
  <2>2. visible' \in BOOLEAN /\ paused' \in BOOLEAN
    BY <1>6 DEF Frames!RadioState, Frames!SetPaused
  <2> QED BY <1>1, <2>1, <2>2, <1>6, OtherSteps DEF Frames!RadioState, Frames!SetPaused
<1>7. ASSUME NEW now \in BOOLEAN, Frames!OtherState(now) PROVE ScreenInv'
  <2>1. Transits
    BY <1>2, <1>7 DEF Frames!OtherState, Frames!SetPaused, Transits
  <2> QED BY <1>1, <2>1, <1>7, OtherSteps DEF Frames!OtherState, Frames!SetPaused
<1>8. CASE Frames!TurnViz
  BY <1>1, <1>2, <1>8, OtherSteps DEF Frames!TurnViz
<1>9. CASE Frames!HidePicker
  <2>1. fade' = [kind |-> "out", left |-> ScreenLasts["out"]] /\ switch' = switch
    BY <1>9 DEF Frames!HidePicker
  <2>2. \E kind \in {"in", "out"} : fade' = [kind |-> kind, left |-> ScreenLasts[kind]]
    BY <2>1
  <2>3. Transits
    BY <2>1 DEF Transits
  <2>4. visible' \in BOOLEAN
    BY <1>9 DEF Frames!HidePicker
  <2> QED BY <1>1, <1>9, <2>2, <2>3, <2>4, OtherSteps DEF Frames!HidePicker
<1>10. CASE Frames!ShowPicker
  <2>1. fade' = [kind |-> "in", left |-> ScreenLasts["in"]] /\ switch' = switch
    BY <1>10 DEF Frames!ShowPicker
  <2>2. \E kind \in {"in", "out"} : fade' = [kind |-> kind, left |-> ScreenLasts[kind]]
    BY <2>1
  <2>3. Transits
    BY <2>1 DEF Transits
  <2>4. visible' \in BOOLEAN
    BY <1>10 DEF Frames!ShowPicker
  <2> QED BY <1>1, <1>10, <2>2, <2>3, <2>4, OtherSteps DEF Frames!ShowPicker
<1>11. ASSUME NEW s \in ScreenSizes, Frames!Resize(s) PROVE ScreenInv'
  BY <1>1, <1>11, OtherSteps DEF Frames!Resize, Transits
<1> QED BY <1>3, <1>4, <1>5, <1>6, <1>7, <1>8, <1>9, <1>10, <1>11 DEF Frames!HandleKey

\* A step that is about covers.
LEMMA CoverSteps ==
  ASSUME ScreenInv,
         cover' \in Covers \cup {Frames!Nothing}, art' \in Covers \cup {Frames!Nothing},
         fetch' = Frames!NoFetch \/ fetch' \in [url : Covers, result : {Frames!Nothing, "ok", "failed"}],
         back' \in BOOLEAN, missed' \in BOOLEAN, happened' \in 0 .. ScreenEvents, Fetching',
         UNCHANGED <<at, term, grid, snap, switch, paused, launched, dimmed, visible, fade, volume,
                     pulse, panicked>>
  PROVE  ScreenInv'
BY DEF ScreenInv, ScreenTyped, Sourced

\* A new track, and the end of a fetch.
LEMMA TracksAndFetches ==
  ASSUME ScreenInv,
         \/ \E url \in Covers \cup {Frames!Nothing} : Frames!NowPlayingChanged(url)
         \/ \E r \in {"ok", "failed"} : Frames!FetchEnds(r)
  PROVE  ScreenInv'
<1> USE DEF Frames!Event, Frames!Happens, Frames!frameVars, Frames!fadeVars, Frames!overlays,
            Frames!artVars, Frames!stateVars
<1>1. /\ cover \in Covers \cup {Frames!Nothing} /\ art \in Covers \cup {Frames!Nothing}
      /\ fetch = Frames!NoFetch \/ fetch \in [url : Covers, result : {Frames!Nothing, "ok", "failed"}]
      /\ back \in BOOLEAN /\ missed \in BOOLEAN /\ happened \in 0 .. ScreenEvents /\ Fetching
      /\ ScreenEvents \in Nat /\ Frames!Nothing \notin Covers
  BY ScreenFacts DEF ScreenInv, ScreenTyped
<1>2. ASSUME NEW url \in Covers \cup {Frames!Nothing}, Frames!NowPlayingChanged(url) PROVE ScreenInv'
  <2>1. /\ cover' = url /\ happened' \in 0 .. ScreenEvents
        /\ UNCHANGED <<at, term, grid, snap, switch, paused, launched, dimmed, visible, fade, volume,
                       pulse, panicked>>
    BY <1>1, <1>2 DEF Frames!NowPlayingChanged
  <2>2. CASE url = Frames!Nothing
    <3>1. art' = Frames!Nothing /\ fetch' = Frames!NoFetch /\ back' = FALSE /\ missed' = FALSE
      BY <1>2, <2>2 DEF Frames!NowPlayingChanged, Frames!ClearArt
    <3>2. Fetching'
      BY <2>1, <2>2, <3>1 DEF Fetching
    <3> QED BY <2>1, <3>1, <3>2, CoverSteps
  <2>3. CASE url # Frames!Nothing
    <3>1. /\ IF url = art \/ url = fetch.url THEN UNCHANGED <<fetch, missed>>
             ELSE fetch' = [url |-> url, result |-> Frames!Nothing] /\ missed' = FALSE
          /\ back' = (url = art /\ fetch # Frames!NoFetch)
          /\ art' = art
      BY <1>2, <2>3 DEF Frames!NowPlayingChanged, Frames!Request
    <3>2. url \in Covers
      BY <2>3
    <3>3. /\ fetch' = Frames!NoFetch \/ fetch' \in [url : Covers, result : {Frames!Nothing, "ok", "failed"}]
          /\ missed' \in BOOLEAN
      <4>1. CASE url = art \/ url = fetch.url
        BY <1>1, <3>1, <4>1
      <4>2. CASE ~ (url = art \/ url = fetch.url)
        <5>1. fetch' = [url |-> url, result |-> Frames!Nothing] /\ missed' = FALSE
          BY <3>1, <4>2
        <5> QED BY <3>2, <5>1
      <4> QED BY <4>1, <4>2
    <3>4. back' \in BOOLEAN
      BY <3>1
    <3>5. fetch # Frames!NoFetch \/ url # fetch.url
      BY <2>3 DEF Frames!NoFetch
    <3>6. Fetching'
      <4>1. CASE url = art
        BY <2>1, <3>1, <4>1 DEF Fetching
      <4>2. CASE url # art /\ url = fetch.url
        BY <2>1, <3>1, <3>5, <4>2 DEF Fetching
      <4>3. CASE url # art /\ url # fetch.url
        <5>1. fetch' = [url |-> url, result |-> Frames!Nothing] /\ fetch'.url = url
          BY <3>1, <4>3
        <5>2. fetch' # Frames!NoFetch
          BY <2>3, <5>1 DEF Frames!NoFetch
        <5> QED BY <2>1, <5>1, <5>2 DEF Fetching
      <4> QED BY <4>1, <4>2, <4>3
    <3> QED BY <1>1, <2>1, <3>1, <3>3, <3>4, <3>6, CoverSteps
  <2> QED BY <2>2, <2>3
<1>3. ASSUME NEW r \in {"ok", "failed"}, Frames!FetchEnds(r) PROVE ScreenInv'
  <2>1. /\ fetch # Frames!NoFetch /\ fetch' = [fetch EXCEPT !.result = r]
        /\ UNCHANGED <<cover, art, back, missed, happened>>
        /\ UNCHANGED <<at, term, grid, snap, switch, paused, launched, dimmed, visible, fade, volume,
                       pulse, panicked>>
    BY <1>3 DEF Frames!FetchEnds
  <2>2. /\ fetch' \in [url : Covers, result : {Frames!Nothing, "ok", "failed"}]
        /\ fetch'.url = fetch.url /\ fetch'.url \in Covers
    BY <1>1, <2>1
  <2>3. fetch' # Frames!NoFetch
    BY <1>1, <2>2 DEF Frames!NoFetch
  <2>4. Fetching'
    BY <1>1, <2>1, <2>2, <2>3 DEF Fetching
  <2> QED BY <1>1, <2>1, <2>2, <2>4, CoverSteps
<1> QED BY <1>2, <1>3

\* Every frame keeps the invariant.
LEMMA DrawnFrame ==
  ASSUME ScreenInv, Frames!Frame
  PROVE  ScreenInv'
<1> DEFINE L == Frames!Launched
<1>1. /\ ~ panicked /\ grid' = term /\ launched' = TRUE /\ at' = "events"
      /\ UNCHANGED <<term, paused, visible, cover, back, happened>>
      /\ snap' = Frames!Snapshot /\ switch' = Frames!Tick(L)
      /\ volume' = Frames!Less(volume) /\ pulse' = Frames!Less(pulse)
      /\ fade' = fade \/ fade' = Frames!TickFade
  BY DEF Frames!Frame, Frames!MaybeResize
<1>2. snap' = term
  BY <1>1 DEF Frames!Snapshot, ScreenInv
<1>3. dimmed' \in BOOLEAN
  BY DEF Frames!Frame
<1>4. panicked' \in BOOLEAN
  BY DEF Frames!Frame, Frames!FramePanics
<1>5. /\ term \in ScreenSizes
      /\ L = Frames!NoSwitch \/ (L \in [source : ScreenSizes, left : Nat] /\ L.left > 0)
  BY ScreenFacts DEF Frames!Launched, ScreenInv, ScreenTyped
<1>6. \/ switch' = Frames!NoSwitch
      \/ /\ L # Frames!NoSwitch /\ switch'.source = L.source
         /\ switch' \in [source : ScreenSizes, left : Nat] /\ switch'.left > 0
  <2> HIDE DEF L
  <2>1. CASE L = Frames!NoSwitch
    BY <1>1, <2>1 DEF Frames!Tick, Frames!NoSwitch
  <2>2. CASE L # Frames!NoSwitch /\ L.left <= 1
    BY <1>1, <2>2 DEF Frames!Tick
  <2>3. CASE L # Frames!NoSwitch /\ ~ (L.left <= 1)
    <3>1. switch' = [L EXCEPT !.left = L.left - 1] /\ L \in [source : ScreenSizes, left : Nat]
      BY <1>1, <1>5, <2>3 DEF Frames!Tick
    <3> QED BY <2>3, <3>1
  <2> QED BY <2>1, <2>2, <2>3
<1>7. Sourced'
  <2> SUFFICES ASSUME ~ panicked', switch' # Frames!NoSwitch
               PROVE  Frames!Area(grid') <= Frames!Area(switch'.source)
    BY DEF Sourced, Frames!Area
  <2>1. L # Frames!NoSwitch => Frames!Blends(L.source, term)
    BY DEF Frames!Frame, Frames!FramePanics
  <2> QED BY <1>1, <1>6, <2>1 DEF Frames!Blends
<1>8. fade' = Frames!Idle
      \/ \E kind \in {"in", "out"} : \E left \in 1 .. ScreenLasts[kind] : fade' = [kind |-> kind, left |-> left]
  <2>1. CASE fade' = fade
    BY <2>1 DEF ScreenInv, ScreenTyped
  <2>2. CASE fade' = Frames!TickFade /\ fade = Frames!Idle
    BY <2>2 DEF Frames!TickFade, Frames!Idle
  <2>3. ASSUME fade' = Frames!TickFade, NEW kind \in {"in", "out"}, NEW left \in 1 .. ScreenLasts[kind],
               fade = [kind |-> kind, left |-> left]
        PROVE  fade' = Frames!Idle
               \/ \E k \in {"in", "out"} : \E l \in 1 .. ScreenLasts[k] : fade' = [kind |-> k, left |-> l]
    <3>1. ScreenLasts[kind] \in Nat
      BY ScreenFacts
    <3>2. left <= 1 => fade' = Frames!Idle
      BY <2>3 DEF Frames!TickFade
    <3>3. left > 1 => fade' = [kind |-> kind, left |-> left - 1] /\ left - 1 \in 1 .. ScreenLasts[kind]
      BY <2>3, <3>1 DEF Frames!TickFade
    <3> QED BY <2>3, <3>1, <3>2, <3>3
  <2> QED BY <1>1, <2>1, <2>2, <2>3 DEF ScreenInv, ScreenTyped
<1>9. volume' \in 0 .. ScreenLasts["volume"] /\ pulse' \in 0 .. ScreenLasts["pulse"]
  BY <1>1, ScreenFacts DEF Frames!Less, ScreenInv, ScreenTyped
<1>10. Frames!PollReady
  BY DEF Frames!Frame
<1>11. fetch = Frames!NoFetch \/ fetch \in [url : Covers, result : {Frames!Nothing, "ok", "failed"}]
  BY DEF ScreenInv, ScreenTyped
<1>12. fetch.result = Frames!Nothing => UNCHANGED <<art, fetch, missed>>
  BY Zenon, <1>10 DEF Frames!PollReady, Frames!Nothing
<1>13. fetch.result = "ok" => art' = fetch.url /\ fetch' = Frames!NoFetch /\ UNCHANGED missed
  BY Zenon, <1>10 DEF Frames!PollReady, Frames!Nothing
<1>14. fetch.result = "failed" => UNCHANGED art /\ fetch' = Frames!NoFetch /\ missed' = TRUE
  BY Zenon, <1>10 DEF Frames!PollReady, Frames!Nothing
<1>15. fetch.result \in {Frames!Nothing, "ok", "failed"}
       /\ (fetch.result # Frames!Nothing => fetch # Frames!NoFetch /\ fetch.url \in Covers)
  BY <1>11 DEF Frames!NoFetch
<1>16. /\ fetch' = Frames!NoFetch \/ fetch' \in [url : Covers, result : {Frames!Nothing, "ok", "failed"}]
       /\ art' \in Covers \cup {Frames!Nothing} /\ missed' \in BOOLEAN
  BY <1>11, <1>12, <1>13, <1>14, <1>15 DEF ScreenInv, ScreenTyped
<1>17. Fetching'
  BY <1>1, <1>12, <1>13, <1>14, <1>15 DEF ScreenInv, ScreenTyped, Fetching
<1>18. ScreenTyped'
  <2>1. switch' = Frames!NoSwitch
        \/ (switch' \in [source : ScreenSizes, left : Nat] /\ switch'.left > 0)
    BY <1>6
  <2> HIDE DEF L
  <2> QED BY <1>1, <1>2, <1>3, <1>4, <1>5, <2>1, <1>8, <1>9, <1>16 DEF ScreenInv, ScreenTyped
<1> QED BY <1>1, <1>2, <1>7, <1>17, <1>18 DEF ScreenInv

\* Every step of the client's frames keeps the invariant.
LEMMA ScreenStep == ScreenInv /\ [Frames!Next]_screenVars => ScreenInv'
<1> SUFFICES ASSUME ScreenInv, [Frames!Next]_screenVars PROVE ScreenInv'
  OBVIOUS
<1>1. CASE UNCHANGED screenVars
  BY <1>1 DEF screenVars, ScreenInv, ScreenTyped, Sourced, Fetching, Frames!Area
<1>2. CASE Frames!Panicked
  <2>1. UNCHANGED screenVars
    BY <1>2 DEF Frames!Panicked, Frames!vars, Frames!stateVars, Frames!frameVars, Frames!fadeVars,
                Frames!overlays, Frames!artVars, screenVars
  <2> QED BY <1>1, <2>1
<1> QED BY <1>1, <1>2, EventsAndKeys, TracksAndFetches, DrawnFrame DEF Frames!Next, Frames!HandleEvent

\* The cover is the track's, only growth panics, and the types are right.
LEMMA ScreenShows == ScreenInv => Frames!TypeOK /\ Frames!OnlyGrowthPanics /\ Frames!CoverIsTheTracks
<1> SUFFICES ASSUME ScreenInv PROVE Frames!TypeOK /\ Frames!OnlyGrowthPanics /\ Frames!CoverIsTheTracks
  OBVIOUS
<1>1. Frames!CoverIsTheTracks
  BY DEF Frames!CoverIsTheTracks, ScreenInv, Fetching
<1>2. ASSUME ~ panicked, Frames!FramePanics
      PROVE  Frames!Area(switch.source) < Frames!Area(term) /\ grid # term
  <2>1. Frames!Snapshot = term /\ term \in ScreenSizes /\ grid \in ScreenSizes /\ Frames!Area(term) \in Nat
        /\ Frames!Area(grid) \in Nat
    BY ScreenFacts DEF Frames!Snapshot, ScreenInv, ScreenTyped
  <2>2. Frames!Launched # Frames!NoSwitch /\ ~ (Frames!Area(term) <= Frames!Area(Frames!Launched.source))
    BY <1>2, <2>1 DEF Frames!FramePanics, Frames!Blends
  <2>3. Frames!Launched = switch
    BY <2>1, <2>2 DEF Frames!Launched
  <2>4. switch.source \in ScreenSizes /\ Frames!Area(switch.source) \in Nat
    BY <2>2, <2>3, ScreenFacts DEF ScreenInv, ScreenTyped
  <2>5. Frames!Area(grid) <= Frames!Area(switch.source)
    BY <1>2, <2>2, <2>3 DEF ScreenInv, Sourced
  <2> QED BY <2>1, <2>2, <2>3, <2>4, <2>5
<1>3. Frames!TypeOK
  <2>1. fade = Frames!Idle \/ (fade.kind \in {"in", "out"} /\ fade.left \in 1 .. ScreenLasts[fade.kind])
    BY DEF ScreenInv, ScreenTyped
  <2> QED BY <2>1 DEF Frames!TypeOK, ScreenInv, ScreenTyped
<1> QED BY <1>1, <1>2, <1>3 DEF Frames!OnlyGrowthPanics

\* The first frame is not drawn yet.
LEMMA ScreenStarts == Frames!Init => ScreenInv
<1> SUFFICES ASSUME Frames!Init PROVE ScreenInv
  OBVIOUS
<1>1. /\ at = "events" /\ term \in ScreenSizes /\ grid = term /\ snap = term
      /\ switch = Frames!NoSwitch /\ paused = FALSE /\ launched = FALSE /\ dimmed = FALSE
      /\ visible = TRUE /\ fade = [kind |-> "in", left |-> ScreenLasts["in"]] /\ volume = 0 /\ pulse = 0
      /\ cover = Frames!Nothing /\ art = Frames!Nothing /\ fetch = Frames!NoFetch
      /\ back = FALSE /\ missed = FALSE /\ panicked = FALSE /\ happened = 0
  BY DEF Frames!Init
<1>2. 0 \in 0 .. ScreenLasts["volume"] /\ 0 \in 0 .. ScreenLasts["pulse"] /\ 0 \in 0 .. ScreenEvents
  BY ScreenFacts
<1>3. ScreenTyped
  <2>1. ScreenLasts["in"] \in 1 .. ScreenLasts["in"]
    BY ScreenFacts
  <2>2. \E kind \in {"in", "out"} : \E left \in 1 .. ScreenLasts[kind] : fade = [kind |-> kind, left |-> left]
    BY <1>1, <2>1
  <2> QED BY <1>1, <1>2, <2>2 DEF ScreenTyped
<1>4. Sourced /\ Fetching
  BY <1>1 DEF Sourced, Fetching
<1> QED BY <1>1, <1>3, <1>4 DEF ScreenInv

-----------------------------------------------------------------------------
(* The panes: how many columns a text takes.                               *)

Bytes == Seq({0, 1})
Firsts(s) == {i \in 1 .. Len(s) : s[i] = 1}

\* A column for each first byte.
LEMMA ColumnsFacts ==
  ASSUME NEW s \in Bytes
  PROVE  /\ APane!Columns(s) = Cardinality(Firsts(s)) /\ IsFiniteSet(Firsts(s))
         /\ APane!Columns(s) \in Nat /\ APane!Columns(s) <= Len(s) /\ Len(s) \in Nat
<1>1. Len(s) \in Nat /\ DOMAIN s = 1 .. Len(s)
  BY DEF Bytes
<1>2. APane!Columns(s) = Cardinality({i \in DOMAIN s : s[i] = 1})
  BY Zenon DEF APane!Columns, APane!Cardinality, Cardinality
<1>3. {i \in DOMAIN s : s[i] = 1} = Firsts(s)
  BY <1>1 DEF Firsts
<1>4. IsFiniteSet(1 .. Len(s)) /\ Cardinality(1 .. Len(s)) = Len(s)
  <2>1. \A n \in Nat : IsFiniteSet(1 .. n) /\ Cardinality(1 .. n) = IF 1 > n THEN 0 ELSE n - 1 + 1
    <3> TAKE n \in Nat
    <3>1. 1 \in Int /\ n \in Int
      OBVIOUS
    <3> QED BY Zenon, <3>1, FS_Interval
  <2> QED BY <1>1, <2>1
<1>5. Firsts(s) \in SUBSET (1 .. Len(s))
  BY DEF Firsts
<1>6. IsFiniteSet(Firsts(s)) /\ Cardinality(Firsts(s)) <= Len(s)
  BY <1>4, <1>5, FS_Subset
<1>7. Cardinality(Firsts(s)) \in Nat
  BY <1>6, FS_CardinalityType
<1> QED BY <1>1, <1>2, <1>3, <1>6, <1>7

\* Texts one behind the other take no more than each.
LEMMA ColumnsConcat ==
  ASSUME NEW s \in Bytes, NEW r \in Bytes
  PROVE  /\ s \o r \in Bytes /\ Len(s \o r) = Len(s) + Len(r)
         /\ APane!Columns(s \o r) <= APane!Columns(s) + APane!Columns(r)
<1> DEFINE q == s \o r
           n == Len(s)
           Behind == {i \in n + 1 .. n + Len(r) : r[i - n] = 1}
<1>1. /\ q \in Bytes /\ Len(q) = n + Len(r) /\ n \in Nat /\ Len(r) \in Nat
      /\ \A i \in 1 .. n : q[i] = s[i]
      /\ \A i \in n + 1 .. n + Len(r) : q[i] = r[i - n]
  BY DEF Bytes
<1> HIDE DEF q
<1>2. Firsts(q) = Firsts(s) \cup Behind
  <2> HIDE DEF n
  <2>1. 1 .. Len(q) = 1 .. n \cup n + 1 .. n + Len(r)
    BY <1>1
  <2>2. Firsts(s) = {i \in 1 .. n : s[i] = 1}
    BY DEF Firsts, n
  <2> QED BY <1>1, <2>1, <2>2 DEF Firsts
<1>3. IsFiniteSet(Behind) /\ Cardinality(Behind) <= Cardinality(Firsts(r))
  <2> DEFINE f == [i \in Behind |-> i - n]
  <2>1. \A i \in Behind : i \in Int /\ i - n \in Firsts(r)
    BY <1>1 DEF Firsts
  <2>2. f \in [Behind -> Firsts(r)]
    BY <2>1
  <2>3. \A i, j \in Behind : i # j => f[i] # f[j]
    BY <1>1, <2>1
  <2>4. f \in Injection(Behind, Firsts(r))
    <3> HIDE DEF f, Behind
    <3> QED BY <2>2, <2>3 DEF Injection, IsInjective
  <2>5. IsFiniteSet(Firsts(r))
    BY ColumnsFacts
  <2> HIDE DEF f, Behind
  <2> QED BY <2>4, <2>5, FS_Injection
<1>4. IsFiniteSet(Firsts(s)) /\ Cardinality(Firsts(s)) \in Nat
  BY ColumnsFacts
<1> HIDE DEF Behind
<1>5. Cardinality(Firsts(q)) <= Cardinality(Firsts(s)) + Cardinality(Behind)
  <2>1. Cardinality(Firsts(q)) = Cardinality(Firsts(s)) + Cardinality(Behind) - Cardinality(Firsts(s) \cap Behind)
    BY <1>2, <1>3, <1>4, FS_Union
  <2>2. IsFiniteSet(Firsts(s) \cap Behind)
    BY <1>4, FS_Subset
  <2>3. Cardinality(Firsts(s) \cap Behind) \in Nat /\ Cardinality(Behind) \in Nat
    BY <1>3, <2>2, FS_CardinalityType
  <2> QED BY <1>4, <2>1, <2>3
<1>6. APane!Columns(q) <= APane!Columns(s) + APane!Columns(r)
  <2>1. /\ APane!Columns(q) = Cardinality(Firsts(q)) /\ APane!Columns(s) = Cardinality(Firsts(s))
        /\ APane!Columns(r) = Cardinality(Firsts(r))
        /\ APane!Columns(q) \in Nat /\ APane!Columns(s) \in Nat /\ APane!Columns(r) \in Nat
    BY <1>1, ColumnsFacts
  <2>2. Cardinality(Behind) \in Nat
    BY <1>3, FS_CardinalityType
  <2> QED BY <1>3, <1>5, <2>1, <2>2
<1> QED BY <1>1, <1>6 DEF q

\* Blanks and digits take a column each.
LEMMA AsciiFacts ==
  ASSUME NEW n \in Int
  PROVE  /\ APane!Ascii(n) \in Bytes
         /\ APane!Columns(APane!Ascii(n)) \in Nat
         /\ APane!Columns(APane!Ascii(n)) <= IF n > 0 THEN n ELSE 0
<1>1. CASE n > 0
  <2>1. APane!Ascii(n) = [i \in 1 .. n |-> 1] /\ n \in Nat
    BY <1>1 DEF APane!Ascii
  <2>2. APane!Ascii(n) \in Bytes /\ Len(APane!Ascii(n)) = n
    BY <2>1 DEF Bytes
  <2> QED BY <1>1, <2>2, ColumnsFacts
<1>2. CASE ~ (n > 0)
  <2>1. APane!Ascii(n) = <<>>
    BY <1>2 DEF APane!Ascii
  <2>2. APane!Ascii(n) \in Bytes /\ Len(APane!Ascii(n)) = 0
    BY <2>1 DEF Bytes
  <2>3. APane!Columns(APane!Ascii(n)) \in Nat /\ APane!Columns(APane!Ascii(n)) <= 0
    BY <2>2, ColumnsFacts
  <2> QED BY <1>2, <2>2, <2>3
<1> QED BY <1>1, <1>2

\* The signs that go between the texts.
LEMMA SignFacts ==
  /\ APane!Ellipsis \in Bytes /\ APane!Columns(APane!Ellipsis) <= 1 /\ APane!Arrow \in Bytes /\ <<>> \in Bytes
<1>1. APane!Ellipsis = <<1, 0, 0>> /\ APane!Arrow = <<1, 1, 0, 0, 1>>
  BY DEF APane!Ellipsis, APane!Arrow
<1>2. APane!Ellipsis \in Bytes /\ APane!Arrow \in Bytes /\ <<>> \in Bytes
  BY <1>1 DEF Bytes
<1>3. Firsts(APane!Ellipsis) \subseteq 1 .. 1
  <2>1. Len(APane!Ellipsis) = 3 /\ APane!Ellipsis[2] = 0 /\ APane!Ellipsis[3] = 0
    BY <1>1
  <2>2. \A i \in 1 .. 3 : i = 1 \/ i = 2 \/ i = 3
    OBVIOUS
  <2> QED BY <2>1, <2>2 DEF Firsts
<1>4. IsFiniteSet(1 .. 1) /\ Cardinality(1 .. 1) = 1
  <2>1. 1 .. 1 = {1}
    OBVIOUS
  <2> QED BY <2>1, FS_Singleton
<1>5. Cardinality(Firsts(APane!Ellipsis)) <= 1
  BY <1>3, <1>4, FS_Subset
<1> QED BY <1>2, <1>5, ColumnsFacts

\* A text that is cut takes the columns it may, or the cut panics.
LEMMA TruncatedFacts ==
  ASSUME NEW s \in Bytes, NEW max \in Int, APane!Truncated(s, max) # APane!Panic
  PROVE  /\ APane!Truncated(s, max) \in Bytes
         /\ max >= 0 => APane!Columns(APane!Truncated(s, max)) <= max
<1>1. CASE Len(s) <= max
  <2>1. APane!Truncated(s, max) = s
    BY <1>1 DEF APane!Truncated
  <2> QED BY <1>1, <2>1, ColumnsFacts
<1>2. CASE ~ (Len(s) <= max) /\ max > 1
  <2> DEFINE q == SubSeq(s, 1, max - 1)
  <2>1. APane!Truncated(s, max) = q \o APane!Ellipsis
    BY <1>2 DEF APane!Truncated, APane!Cut
  <2>2. q \in Bytes /\ Len(q) = max - 1
    BY <1>2 DEF Bytes
  <2> HIDE DEF q
  <2>3. /\ APane!Columns(q) <= max - 1 /\ APane!Columns(q) \in Nat
        /\ APane!Columns(APane!Ellipsis) \in Nat
    BY <2>2, ColumnsFacts, SignFacts
  <2>4. /\ q \o APane!Ellipsis \in Bytes
        /\ APane!Columns(q \o APane!Ellipsis) <= APane!Columns(q) + APane!Columns(APane!Ellipsis)
    BY <2>2, SignFacts, ColumnsConcat
  <2>5. APane!Columns(q \o APane!Ellipsis) \in Nat
    BY <2>4, ColumnsFacts
  <2> QED BY <2>1, <2>3, <2>4, <2>5, SignFacts
<1>3. CASE ~ (Len(s) <= max) /\ ~ (max > 1)
  <2>1. APane!Truncated(s, max) = <<>> /\ Len(<<>>) = 0
    BY <1>3 DEF APane!Truncated
  <2>2. APane!Columns(<<>>) <= 0 /\ APane!Columns(<<>>) \in Nat
    BY <2>1, SignFacts, ColumnsFacts
  <2> QED BY <2>1, <2>2, SignFacts
<1> QED BY <1>1, <1>2, <1>3

-----------------------------------------------------------------------------
(* The panes: the lines and the loop.                                      *)

PaneTyped ==
  /\ pane \in {"visualiser", "now-playing", "mini-spectrum"}
  /\ pc \in {"events", "keys", "ended", "panicked", "failed"}
  /\ stop \in BOOLEAN /\ cursor \in BOOLEAN
  /\ active \in 0 .. PaneVisualisers - 1
  /\ paneTerm \in PaneTerminals /\ paneGrid \in {APane!Rect(s) : s \in PaneTerminals}
  /\ playing \in [artist : Bytes, title : Bytes, album : Bytes, station : Bytes]
  /\ device = <<>> \/ \E name \in Bytes : device = <<name>>
  /\ paneHappened \in 0 .. MaxEvents

PaneInv == PaneTyped /\ APane!LinesFit

\* What is assumed of the texts and the terminals.
LEMMA PaneFacts ==
  /\ PaneTexts \subseteq Bytes /\ <<>> \in Bytes
  /\ Bins \in Nat /\ MaxEvents \in Nat /\ PaneVisualisers \in Nat /\ PaneVisualisers > 0
  /\ \A s \in PaneTerminals : s[1] \in Nat /\ s[2] \in Nat
<1>1. PaneTexts \subseteq Bytes
  BY PaneAssumption DEF Bytes
<1>2. Bins \in Nat /\ MaxEvents \in Nat /\ PaneVisualisers \in Nat /\ PaneVisualisers > 0
  BY PaneAssumption
<1>3. \A s \in PaneTerminals : s[1] \in Nat /\ s[2] \in Nat
  BY PaneAssumption
<1> QED BY <1>1, <1>2, <1>3, SignFacts

\* The tag of the device is a text.
LEMMA TagFacts ==
  ASSUME PaneInv, device # APane!None
  PROVE  APane!Tag \in Bytes
<1>1. PICK name \in Bytes : device = <<name>>
  BY DEF PaneInv, PaneTyped, APane!None
<1>2. APane!Ascii(9) \in Bytes /\ APane!Ascii(11) \in Bytes
  BY AsciiFacts
<1>3. APane!Ascii(11) \o name \in Bytes
  BY <1>2, ColumnsConcat
<1>4. APane!Tag = IF name = APane!None THEN APane!Ascii(9) ELSE APane!Ascii(11) \o name
  BY <1>1 DEF APane!Tag
<1> HIDE DEF Bytes
<1> QED BY <1>2, <1>3, <1>4

\* The first line, with the tag at its right end, is as wide as the terminal.
LEMMA FirstLineFits ==
  ASSUME PaneInv, NEW cols \in Nat, APane!FirstLine(cols) # APane!Panic
  PROVE  APane!Columns(APane!FirstLine(cols)) <= cols
<1> DEFINE info == APane!Arrow \o playing.station
           T == Len(APane!Tag)
           left == APane!Truncated(info, cols - T - 2)
           pad == APane!Ascii(cols - Len(left) - T)
<1>1. info \in Bytes
  <2>1. playing.station \in Bytes
    BY DEF PaneInv, PaneTyped
  <2> QED BY <2>1, SignFacts, ColumnsConcat
<1>2. APane!FirstLine(cols) =
        IF device = APane!None \/ cols <= T + 4 THEN APane!Truncated(info, cols)
        ELSE IF left = APane!Panic THEN APane!Panic ELSE left \o pad \o APane!Tag
  BY DEF APane!FirstLine
<1>3. CASE device = APane!None \/ cols <= T + 4
  <2> HIDE DEF info, left, T, pad
  <2>1. APane!FirstLine(cols) = APane!Truncated(info, cols)
    BY <1>2, <1>3
  <2> QED BY <1>1, <2>1, TruncatedFacts
<1>4. CASE ~ (device = APane!None \/ cols <= T + 4)
  <2>1. /\ APane!Tag \in Bytes /\ T \in Nat
        /\ APane!Columns(APane!Tag) \in Nat /\ APane!Columns(APane!Tag) <= T
    BY <1>4, TagFacts, ColumnsFacts
  <2> HIDE DEF info, T
  <2>2. left # APane!Panic /\ APane!FirstLine(cols) = left \o pad \o APane!Tag
    BY <1>2, <1>4
  <2>3. left \in Bytes /\ APane!Columns(left) <= cols - T - 2
    BY <1>1, <1>4, <2>1, <2>2, TruncatedFacts
  <2> HIDE DEF left
  <2>4. APane!Columns(left) \in Nat /\ APane!Columns(left) <= Len(left) /\ Len(left) \in Nat
    BY <2>3, ColumnsFacts
  <2> DEFINE k == cols - Len(left) - T
  <2>5. k \in Int
    BY <2>1, <2>4
  <2> HIDE DEF k
  <2>6. /\ pad \in Bytes /\ APane!Columns(pad) \in Nat
        /\ APane!Columns(pad) <= IF k > 0 THEN k ELSE 0
    BY <2>5, AsciiFacts DEF k
  <2> HIDE DEF pad
  <2>7. /\ left \o pad \in Bytes
        /\ APane!Columns(left \o pad) <= APane!Columns(left) + APane!Columns(pad)
    BY <2>3, <2>6, ColumnsConcat
  <2>8. APane!Columns(left \o pad) \in Nat
    BY <2>7, ColumnsFacts
  <2> DEFINE whole == (left \o pad) \o APane!Tag
  <2>9. whole \in Bytes /\ APane!Columns(whole) <= APane!Columns(left \o pad) + APane!Columns(APane!Tag)
    BY <2>1, <2>7, ColumnsConcat
  <2>10. APane!Columns(whole) \in Nat
    BY <2>9, ColumnsFacts
  <2>11. APane!FirstLine(cols) = whole
    BY <2>2
  <2> HIDE DEF whole
  <2>12. APane!Columns(whole) <= cols
    BY <2>1, <2>3, <2>4, <2>5, <2>6, <2>7, <2>8, <2>9, <2>10 DEF k
  <2> QED BY <2>11, <2>12
<1> QED BY <1>3, <1>4

\* So are the others, which are cut at the terminal's width.
LEMMA OtherLinesFit ==
  ASSUME PaneInv, NEW cols \in Nat
  PROVE  /\ APane!Truncated(playing.artist, cols) # APane!Panic =>
              APane!Columns(APane!Truncated(playing.artist, cols)) <= cols
         /\ APane!LastLine(cols) # APane!Panic => APane!Columns(APane!LastLine(cols)) <= cols
         /\ APane!OnlyLine(cols) # APane!Panic => APane!Columns(APane!OnlyLine(cols)) <= cols
<1>1. playing.artist \in Bytes /\ playing.title \in Bytes /\ playing.album \in Bytes /\ playing.station \in Bytes
  BY DEF PaneInv, PaneTyped
<1>2. \A s \in Bytes : APane!Truncated(s, cols) # APane!Panic => APane!Columns(APane!Truncated(s, cols)) <= cols
  BY TruncatedFacts
<1>3. APane!Title \in Bytes
  <2> HIDE DEF Bytes
  <2> QED BY <1>1, SignFacts DEF APane!Title, APane!Or
<1>4. ASSUME NEW s \in Bytes, NEW r \in Bytes PROVE s \o r \in Bytes
  BY ColumnsConcat
<1>5. APane!Ascii(7) \in Bytes /\ APane!Ascii(5) \in Bytes
  BY AsciiFacts
<1> DEFINE album == IF playing.album = APane!None THEN <<>>
                    ELSE APane!Ascii(7) \o playing.album \o APane!Ascii(5)
           artist == IF playing.artist = APane!None THEN <<>> ELSE playing.artist \o APane!Arrow
<1>6. album \in Bytes
  <2>1. APane!Ascii(7) \o playing.album \in Bytes
    BY <1>1, <1>4, <1>5
  <2>2. (APane!Ascii(7) \o playing.album) \o APane!Ascii(5) \in Bytes
    BY <1>4, <1>5, <2>1
  <2> QED BY <2>2, SignFacts
<1>7. artist \in Bytes
  <2>1. playing.artist \o APane!Arrow \in Bytes
    BY <1>1, <1>4, SignFacts
  <2> QED BY <2>1, SignFacts
<1>8. APane!LastLine(cols) = APane!Truncated(APane!Title \o album, cols)
  BY DEF APane!LastLine
<1>9. APane!OnlyLine(cols) = APane!Truncated(artist \o APane!Title, cols)
  BY DEF APane!OnlyLine
<1> HIDE DEF album, artist
<1>10. APane!Title \o album \in Bytes /\ artist \o APane!Title \in Bytes
  BY <1>3, <1>4, <1>6, <1>7
<1> QED BY <1>1, <1>2, <1>8, <1>9, <1>10

\* Whatever the pane is, a frame that does not panic keeps to the terminal.
LEMMA WrittenFits ==
  ASSUME PaneInv, APane!Panic \notin APane!Written, NEW l \in APane!Written
  PROVE  APane!Columns(l) <=
           IF pane = "visualiser" THEN APane!Greater(paneTerm[1], 20) ELSE paneTerm[1]
<1>1. paneTerm[1] \in Nat /\ paneTerm[2] \in Nat
  BY PaneFacts DEF PaneInv, PaneTyped
<1>2. CASE pane = "visualiser"
  <2>1. APane!Written = {APane!Ascii(APane!NewGrid[1])}
    BY Zenon, <1>2 DEF APane!Written
  <2>2. APane!NewGrid[1] = APane!Greater(paneTerm[1] - 1, 20)
    BY DEF APane!NewGrid, APane!Rect
  <2>3. APane!Greater(paneTerm[1] - 1, 20) \in Nat
        /\ APane!Greater(paneTerm[1] - 1, 20) <= APane!Greater(paneTerm[1], 20)
        /\ APane!Greater(paneTerm[1] - 1, 20) > 0 /\ APane!Greater(paneTerm[1], 20) \in Nat
    BY <1>1 DEF APane!Greater
  <2> DEFINE n == APane!Greater(paneTerm[1] - 1, 20)
             m == APane!Greater(paneTerm[1], 20)
  <2>4. l = APane!Ascii(n)
    BY <2>1, <2>2
  <2> HIDE DEF n, m
  <2>5. n \in Nat /\ n <= m /\ n > 0 /\ m \in Nat
    BY <2>3 DEF n, m
  <2>6. APane!Columns(APane!Ascii(n)) \in Nat /\ APane!Columns(APane!Ascii(n)) <= n
    BY <2>5, AsciiFacts
  <2>7. APane!Columns(l) <= m
    BY <2>4, <2>5, <2>6
  <2> QED BY <1>2, <2>7 DEF m
<1>3. CASE pane = "now-playing"
  <2>1. APane!Written = APane!NowPlaying
    BY Zenon, <1>3, "now-playing" # "visualiser" DEF APane!Written
  <2>2. \/ l = APane!FirstLine(paneTerm[1]) \/ l = APane!Truncated(playing.artist, paneTerm[1])
        \/ l = APane!LastLine(paneTerm[1]) \/ l = APane!OnlyLine(paneTerm[1])
    BY <2>1 DEF APane!NowPlaying
  <2>3. l # APane!Panic
    OBVIOUS
  <2>4. APane!Columns(l) <= paneTerm[1]
    BY <1>1, <2>2, <2>3, FirstLineFits, OtherLinesFit
  <2> QED BY <1>3, <2>4
<1>4. CASE pane = "mini-spectrum"
  <2>1. APane!Written = APane!Spectrum
    BY Zenon, <1>4, "mini-spectrum" # "visualiser", "mini-spectrum" # "now-playing" DEF APane!Written
  <2> DEFINE n == IF paneTerm[1] < Bins THEN paneTerm[1] ELSE Bins
  <2>2. l = APane!Ascii(n)
    BY <2>1 DEF APane!Spectrum
  <2>3. n \in Nat /\ n <= paneTerm[1]
    BY <1>1, PaneFacts
  <2> HIDE DEF n
  <2>4. APane!Columns(APane!Ascii(n)) \in Nat /\ APane!Columns(APane!Ascii(n)) <= n
    BY <2>3, AsciiFacts
  <2>5. APane!Columns(l) <= paneTerm[1]
    BY <1>1, <2>2, <2>3, <2>4
  <2> QED BY <1>4, <2>5
<1> QED BY <1>2, <1>3, <1>4 DEF PaneInv, PaneTyped

\* The first frame is not drawn yet.
LEMMA PaneStarts == APane!Init => PaneInv
<1> SUFFICES ASSUME APane!Init PROVE PaneInv
  OBVIOUS
<1>1. active \in 0 .. PaneVisualisers - 1
  BY PaneFacts DEF APane!Init
<1>2. playing \in [artist : Bytes, title : Bytes, album : Bytes, station : Bytes] /\ device = <<>>
  <2> HIDE DEF Bytes
  <2> QED BY PaneFacts DEF APane!Init, APane!Unknown, APane!None
<1>3. paneGrid \in {APane!Rect(s) : s \in PaneTerminals} /\ paneTerm \in PaneTerminals
  BY DEF APane!Init
<1>4. /\ pane \in {"visualiser", "now-playing", "mini-spectrum"} /\ pc = "events"
      /\ stop = FALSE /\ cursor = FALSE /\ paneHappened = 0
  BY DEF APane!Init
<1>5. 0 \in 0 .. MaxEvents
  BY PaneFacts
<1>6. PaneTyped
  <2> HIDE DEF Bytes
  <2> QED BY <1>1, <1>2, <1>3, <1>4, <1>5 DEF PaneTyped
<1>7. APane!LinesFit
  BY DEF APane!Init, APane!LinesFit
<1> QED BY <1>6, <1>7 DEF PaneInv

\* A turn either way stays among the visualisers.
LEMMA TurnFacts ==
  ASSUME PaneInv
  PROVE  APane!Forward \in 0 .. PaneVisualisers - 1 /\ APane!Back \in 0 .. PaneVisualisers - 1
<1>1. \A n \in Int, m \in Nat \ {0} : n % m \in 0 .. m - 1
  OBVIOUS
<1>2. active + 1 \in Int /\ active + PaneVisualisers - 1 \in Int /\ PaneVisualisers \in Nat \ {0}
  BY PaneFacts DEF PaneInv, PaneTyped
<1> QED BY <1>1, <1>2 DEF APane!Forward, APane!Back

\* What happens to a pane between two frames.
LEMMA PaneWorld == PaneInv /\ APane!World => PaneInv'
<1> SUFFICES ASSUME PaneInv, APane!World PROVE PaneInv'
  OBVIOUS
<1>1. /\ pane' = pane /\ shown' = shown /\ cursor' = cursor /\ paneGrid' = paneGrid
      /\ paneHappened' \in 0 .. MaxEvents
  <2>1. pane' = pane /\ shown' = shown /\ cursor' = cursor /\ paneGrid' = paneGrid /\ APane!Happens
    BY Zenon DEF APane!World, APane!VizChanged, APane!NowPlayingChanged, APane!StateChanged,
         APane!DeviceChanged, APane!DaemonShuttingDown, APane!Quit, APane!Turn, APane!Resize,
         APane!Event, APane!Key
  <2>2. paneHappened \in 0 .. MaxEvents /\ MaxEvents \in Nat
    BY PaneFacts DEF PaneInv, PaneTyped
  <2> QED BY <2>1, <2>2 DEF APane!Happens
<1>2. pc' \in {"events", "keys", "ended", "panicked", "failed"} /\ stop' \in BOOLEAN
  BY DEF APane!World, APane!VizChanged, APane!NowPlayingChanged, APane!StateChanged,
       APane!DeviceChanged, APane!DaemonShuttingDown, APane!Quit, APane!Turn, APane!Resize,
       APane!Event, APane!Key, PaneInv, PaneTyped
<1>3. active' \in 0 .. PaneVisualisers - 1
  BY TurnFacts DEF APane!World, APane!VizChanged, APane!NowPlayingChanged, APane!StateChanged,
       APane!DeviceChanged, APane!DaemonShuttingDown, APane!Quit, APane!Turn, APane!Resize,
       PaneInv, PaneTyped
<1>4. paneTerm' \in PaneTerminals
  BY DEF APane!World, APane!VizChanged, APane!NowPlayingChanged, APane!StateChanged,
       APane!DeviceChanged, APane!DaemonShuttingDown, APane!Quit, APane!Turn, APane!Resize,
       APane!Event, APane!Key, PaneInv, PaneTyped
<1>5. playing' \in [artist : Bytes, title : Bytes, album : Bytes, station : Bytes]
  <2> HIDE DEF Bytes
  <2>1. CASE APane!NowPlayingChanged
    <3>1. PICK x \in PaneTexts, a, al \in {APane!None} \cup PaneTexts :
            playing' = [playing EXCEPT !.title = x, !.artist = a, !.album = al]
      BY <2>1 DEF APane!NowPlayingChanged
    <3>2. x \in Bytes /\ a \in Bytes /\ al \in Bytes
      BY PaneFacts DEF APane!None
    <3> QED BY <3>1, <3>2 DEF PaneInv, PaneTyped
  <2>2. CASE APane!StateChanged
    BY <2>2, PaneFacts DEF APane!StateChanged, PaneInv, PaneTyped
  <2>3. CASE playing' = playing
    BY <2>3 DEF PaneInv, PaneTyped
  <2> QED BY <2>1, <2>2, <2>3 DEF APane!World, APane!VizChanged, APane!DeviceChanged,
       APane!DaemonShuttingDown, APane!Quit, APane!Turn, APane!Resize, APane!Key
<1>6. device' = <<>> \/ \E name \in Bytes : device' = <<name>>
  <2> HIDE DEF Bytes
  <2>1. CASE APane!DeviceChanged
    BY <2>1, PaneFacts DEF APane!DeviceChanged, APane!None
  <2>2. CASE device' = device
    BY <2>2 DEF PaneInv, PaneTyped
  <2> QED BY <2>1, <2>2 DEF APane!World, APane!VizChanged, APane!NowPlayingChanged,
       APane!StateChanged, APane!DaemonShuttingDown, APane!Quit, APane!Turn, APane!Resize, APane!Key
<1>7. cursor' \in BOOLEAN /\ pane' \in {"visualiser", "now-playing", "mini-spectrum"}
      /\ paneGrid' \in {APane!Rect(s) : s \in PaneTerminals}
  BY <1>1 DEF PaneInv, PaneTyped
<1>8. PaneTyped'
  BY <1>1, <1>2, <1>3, <1>4, <1>5, <1>6, <1>7 DEF PaneTyped
<1>9. APane!LinesFit'
  BY <1>1 DEF PaneInv, APane!LinesFit
<1> QED BY <1>8, <1>9 DEF PaneInv

\* What a frame does.
LEMMA PaneFrame == PaneInv /\ APane!Frame => PaneInv'
<1> SUFFICES ASSUME PaneInv, APane!Frame PROVE PaneInv'
  OBVIOUS
<1>1. /\ pane' = pane /\ stop' = stop /\ active' = active /\ paneTerm' = paneTerm
      /\ playing' = playing /\ device' = device /\ paneHappened' = paneHappened
  BY DEF APane!Frame, APane!Drained, APane!Draw, APane!DrawFails
<1>2. pc' \in {"events", "keys", "ended", "panicked", "failed"} /\ cursor' \in BOOLEAN
  BY DEF APane!Frame, APane!Drained, APane!Draw, APane!DrawFails, APane!Onward, PaneInv, PaneTyped
<1>3. paneGrid' \in {APane!Rect(s) : s \in PaneTerminals}
  BY DEF APane!Frame, APane!Drained, APane!Draw, APane!DrawFails, APane!NewGrid, PaneInv, PaneTyped
<1>4. PaneTyped'
  BY <1>1, <1>2, <1>3 DEF PaneInv, PaneTyped
<1>5. APane!LinesFit'
  <2>1. CASE shown' = shown
    BY <1>1, <2>1 DEF PaneInv, APane!LinesFit
  <2>2. CASE shown' # shown
    <3>1. /\ APane!Panic \notin APane!Written
          /\ shown' = [columns |-> paneTerm[1], widths |-> {APane!Columns(l) : l \in APane!Written}]
      BY <2>2 DEF APane!Frame, APane!Drained, APane!Draw, APane!DrawFails
    <3>2. shown'.columns = paneTerm[1] /\ shown'.widths = {APane!Columns(l) : l \in APane!Written}
      BY <3>1
    <3>3. ASSUME NEW w \in shown'.widths
          PROVE  w <= IF pane = "visualiser" THEN APane!Greater(paneTerm[1], 20) ELSE paneTerm[1]
      BY <3>1, <3>2, WrittenFits
    <3> QED BY <1>1, <3>2, <3>3 DEF APane!LinesFit, APane!Greater
  <2> QED BY <2>1, <2>2
<1> QED BY <1>4, <1>5 DEF PaneInv

\* Every step of a pane keeps the invariant.
LEMMA PaneStep == PaneInv /\ [APane!Next]_paneVars => PaneInv'
<1> SUFFICES ASSUME PaneInv, [APane!Next]_paneVars PROVE PaneInv'
  OBVIOUS
<1>1. CASE UNCHANGED paneVars
  BY <1>1 DEF paneVars, PaneInv, PaneTyped, APane!LinesFit
<1> QED BY <1>1, PaneWorld, PaneFrame DEF APane!Next

-----------------------------------------------------------------------------
(* The three together.                                                     *)

DrawingInv == LayerInv /\ ScreenInv /\ PaneInv

\* A visualiser starts without a buffer; a layer that is not followed is the status row.
LEMMA LayerStarts == Init => LayerInv
<1> SUFFICES ASSUME Init PROVE LayerInv
  OBVIOUS
<1>1. kept = OneFrame!NoBuffer /\ drawn = FALSE
  BY DEF Init, OneFrame!Init
<1>2. size \in LayerSizes
  BY LayerAssumption DEF Init, OneFrame!Init
<1>3. [kind |-> "status"] \in OneFrame!Layers
  <2>1. [kind |-> "status"] \in [kind : {"categories", "loading", "art", "status"}]
    OBVIOUS
  <2> QED BY Zenon, <2>1 DEF OneFrame!Layers
<1>4. layer \in OneFrame!Layers
  BY <1>3 DEF Init, OneFrame!Init
<1>5. kept.for \in Nat \X Nat /\ kept.dots \in Nat \X Nat /\ kept.long \in Nat
  BY <1>1 DEF OneFrame!NoBuffer
<1> QED BY <1>1, <1>2, <1>4, <1>5 DEF LayerInv, Buffers

\* What a part's invariant is about is that part's variables.
LEMMA Untouched ==
  /\ LayerInv /\ UNCHANGED paintVars => LayerInv'
  /\ ScreenInv /\ UNCHANGED screenVars => ScreenInv'
  /\ PaneInv /\ UNCHANGED paneVars => PaneInv'
BY Zenon, LayerStep, ScreenStep, PaneStep

\* No step of a client that draws breaks the invariant.
LEMMA DrawingStep == DrawingInv /\ [Next]_vars => DrawingInv'
<1> SUFFICES ASSUME DrawingInv, [Next]_vars PROVE DrawingInv'
  OBVIOUS
<1>1. CASE ScreenNext
  <2>1. [Frames!Next]_screenVars /\ UNCHANGED paintVars /\ UNCHANGED paneVars
    BY Zenon, <1>1 DEF ScreenNext
  <2> QED BY Zenon, <2>1, ScreenStep, Untouched DEF DrawingInv
<1>2. CASE LayerNext
  <2>1. [OneFrame!Next]_paintVars /\ UNCHANGED screenVars /\ UNCHANGED paneVars
    BY Zenon, <1>2 DEF LayerNext
  <2> QED BY Zenon, <2>1, LayerStep, Untouched DEF DrawingInv
<1>3. CASE PaneNext
  <2>1. [APane!Next]_paneVars /\ UNCHANGED screenVars /\ UNCHANGED paintVars
    BY Zenon, <1>3 DEF PaneNext
  <2> QED BY Zenon, <2>1, PaneStep, Untouched DEF DrawingInv
<1>4. CASE UNCHANGED vars
  <2>1. UNCHANGED screenVars /\ UNCHANGED paintVars /\ UNCHANGED paneVars
    BY Zenon, <1>4 DEF vars
  <2> QED BY Zenon, <2>1, Untouched DEF DrawingInv
<1> QED BY <1>1, <1>2, <1>3, <1>4 DEF Next

\* In every state that is reached the buffers are those made for some pane, the grid is no
\* larger than the source of the transition unless a frame has panicked, what is fetched is
\* the track's cover, and the last lines fit.
THEOREM Invariance == Spec => []DrawingInv
<1>1. Init => DrawingInv
  BY Zenon, LayerStarts, ScreenStarts, PaneStarts DEF Init, DrawingInv
<1> QED BY <1>1, DrawingStep, PTL DEF Spec

\* A layer keeps to its part of the pane, with its texts apart and the selected item
\* among those shown, and a pane's line to its terminal (paint.rs, tui/components,
\* pane_mode.rs), for every pane of 20 by 10 or more, list, cursor and text.
THEOREM InPlaceHolds == Spec => []InPlace
<1>1. DrawingInv => APane!TypeOK
  <2> SUFFICES ASSUME DrawingInv PROVE APane!TypeOK
    OBVIOUS
  <2> QED BY DEF DrawingInv, PaneInv, PaneTyped, APane!TypeOK
<1>2. DrawingInv => InPlace
  BY Zenon, <1>1, ScreenShows, LayersKeepTheirPlace DEF DrawingInv, PaneInv, InPlace
<1> QED BY <1>2, Invariance, PTL

\* A resize never leaves a buffer that a frame overruns or shows in part (ensure_buffer
\* and its likes), and no frame panics but the one of a transition that has grown over
\* its source.
THEOREM ResizesAreSafeHolds == Spec => []ResizesAreSafe
<1>1. DrawingInv => ResizesAreSafe
  BY Zenon, ScreenShows, BuffersFollowHere DEF DrawingInv, ResizesAreSafe
<1> QED BY <1>1, Invariance, PTL

\* Once nothing is fetched the cover on the screen is the one of the track that plays,
\* unless its fetch failed or the track went back to the cover on the screen
\* (render_loop.rs): what is under way is always the fetch for the track that plays.
THEOREM CoverIsTheTracksHolds == Spec => []CoverIsTheTracks
<1>1. DrawingInv => CoverIsTheTracks
  BY Zenon, ScreenShows DEF DrawingInv, CoverIsTheTracks
<1> QED BY <1>1, Invariance, PTL

=============================================================================
