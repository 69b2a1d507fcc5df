------------------------------- MODULE Screen -------------------------------
(***************************************************************************)
(* What the client's frames show over time (client/render_loop.rs,         *)
(* transition_controller.rs, tui/transition, tui/picker/mod.rs,            *)
(* tui/album_art.rs, tui/micro): the terminal is resized, visualisers are  *)
(* switched, sources change, playback pauses, the picker fades in and out, *)
(* covers are fetched, and each frame blends what all of that left behind. *)
(*                                                                         *)
(* A grid is its size.  A frame drains the events, then the keys, then     *)
(* draws; a fetch ends at any time.  Where each part of a frame goes is    *)
(* module Paint.                                                           *)
(***************************************************************************)
EXTENDS Naturals

CONSTANTS
  Sizes,     \* what visualiser_cell_rect may return, as <<width, height>>
  Covers,    \* the art URLs
  Lasts,     \* how many frames each transition lasts
  MaxEvents  \* bound on what happens between the frames

Nothing == "nothing"

VARIABLES
  at,      \* "events" or "keys": what the render loop drains next
  term,    \* the size of the pane
  grid, snap,       \* the sizes of the grid and of picker_snap
  switch,  \* TransitionController.active: the size of its source grid, the frames left
  paused, launched, \* .paused, .first_frame_done
  dimmed,  \* whether the last frame was dimmed
  visible, \* picker_state.visible
  fade,    \* picker_transition
  volume, pulse,    \* the frames the overlays have left
  cover,   \* the art_url of the track that plays
  art, fetch,       \* AlbumArtState.current, .pending and its slot
  back, missed,     \* (history) the track went back to the art on the screen
                    \*   while another was fetched; the last fetch failed
  panicked,
  happened \* counted against the bound

fadeVars == <<visible, fade>>
overlays == <<volume, pulse>>
artVars == <<cover, art, fetch, back, missed>>
stateVars == <<switch, paused>>
frameVars == <<grid, snap, launched, dimmed, panicked>>
vars == <<at, term, stateVars, frameVars, fadeVars, overlays, artVars, happened>>

Idle == [kind |-> "idle", left |-> 0]
NoSwitch == [source |-> <<0, 0>>, left |-> 0]
NoFetch == [url |-> Nothing, result |-> Nothing]

Init ==
  /\ at = "events"
  /\ term \in Sizes /\ grid = term /\ snap = term
  /\ switch = NoSwitch /\ paused = FALSE /\ launched = FALSE /\ dimmed = FALSE
  /\ visible = TRUE /\ fade = [kind |-> "in", left |-> Lasts["in"]]
  /\ volume = 0 /\ pulse = 0
  /\ cover = Nothing /\ art = Nothing /\ fetch = NoFetch
  /\ back = FALSE /\ missed = FALSE
  /\ panicked = FALSE /\ happened = 0

Happens == ~panicked /\ happened < MaxEvents /\ happened' = happened + 1
Event == at = "events" /\ Happens /\ UNCHANGED <<at, term, frameVars>>
Key == at' = "keys" /\ Happens /\ UNCHANGED <<term, frameVars>>

\* A transition from a snapshot of the grid as it is.
Start(kind) == [source |-> grid, left |-> Lasts[kind]]

\* The user drags the window.
Resize(size) ==
  /\ Happens /\ size # term
  /\ term' = size
  /\ UNCHANGED <<at, stateVars, frameVars, fadeVars, overlays, artVars>>

-----------------------------------------------------------------------------
(* AppState::handle_event.                                                *)

VizChanged ==
  /\ Event
  /\ switch' = Start("wipe")
  /\ UNCHANGED <<paused, fadeVars, overlays, artVars>>

\* set_paused takes over from whatever runs.
SetPaused(now, else) ==
  /\ paused' = now
  /\ switch' = IF now # paused THEN Start("pause") ELSE else

\* StateChanged of the radio dissolves and pops the picker off.
RadioState(now) ==
  /\ Event
  /\ SetPaused(now, Start("dissolve"))
  /\ visible' = FALSE
  /\ UNCHANGED <<fade, overlays, artVars>>

OtherState(now) ==
  /\ Event
  /\ SetPaused(now, switch)
  /\ UNCHANGED <<fadeVars, overlays, artVars>>

VolumeChanged ==
  /\ Event
  /\ volume' = Lasts["volume"]
  /\ UNCHANGED <<stateVars, fadeVars, pulse, artVars>>

\* SourceError shows the picker at once.
SourceError ==
  /\ Event
  /\ pulse' = Lasts["pulse"]
  /\ visible' = TRUE
  /\ UNCHANGED <<stateVars, fade, volume, artVars>>

\* Defect: a fetch that runs is kept, whatever it fetches.
RequestKeepsFetch(url) ==
  /\ IF url = art \/ fetch # NoFetch
     THEN UNCHANGED <<fetch, missed>>
     ELSE fetch' = [url |-> url, result |-> Nothing] /\ missed' = FALSE
  /\ back' = (url = art /\ fetch # NoFetch)
  /\ UNCHANGED art

\* AlbumArtState::request: nothing to do for the art on the screen, a fetch
\* of anything else is replaced.
Request(url) ==
  /\ IF url = art \/ url = fetch.url
     THEN UNCHANGED <<fetch, missed>>
     ELSE fetch' = [url |-> url, result |-> Nothing] /\ missed' = FALSE
  /\ back' = (url = art /\ fetch # NoFetch)
  /\ UNCHANGED art

ClearArt == art' = Nothing /\ fetch' = NoFetch /\ back' = FALSE /\ missed' = FALSE

NowPlayingChanged(url) ==
  /\ Event
  /\ cover' = url
  /\ IF url = Nothing THEN ClearArt ELSE Request(url)
  /\ UNCHANGED <<stateVars, fadeVars, overlays>>

-----------------------------------------------------------------------------
(* AppState::handle_key.                                                  *)

\* n and p.
TurnViz ==
  /\ Key
  /\ switch' = Start("wipe")
  /\ UNCHANGED <<paused, fadeVars, overlays, artVars>>

\* Picking an item and hiding the picker.
HidePicker ==
  /\ Key /\ visible
  /\ visible' = FALSE
  /\ fade' = [kind |-> "out", left |-> Lasts["out"]]
  /\ UNCHANGED <<stateVars, overlays, artVars>>

\* s reopens it.
ShowPicker ==
  /\ Key /\ ~visible
  /\ visible' = TRUE
  /\ fade' = [kind |-> "in", left |-> Lasts["in"]]
  /\ UNCHANGED <<stateVars, overlays, artVars>>

-----------------------------------------------------------------------------
\* The task of a fetch ends; a frame takes what it left.
FetchEnds(result) ==
  /\ ~panicked
  /\ fetch # NoFetch /\ fetch.result = Nothing
  /\ fetch' = [fetch EXCEPT !.result = result]
  /\ UNCHANGED <<at, term, stateVars, frameVars, fadeVars, overlays, cover, art, back, missed,
                 happened>>

-----------------------------------------------------------------------------
(* A frame.                                                               *)

Area(size) == size[1] * size[2]
\* The blends index both grids with the cells of the one they fill.
Blends(source, size) == Area(size) <= Area(source)

Less(n) == IF n = 0 THEN 0 ELSE n - 1

\* Grid and snapshot are made anew.
Snapshot == IF term = grid THEN snap ELSE term
MaybeResize == grid' = term /\ snap' = Snapshot

\* start_first_launch, in frame 0.
Launched == IF launched THEN switch ELSE [source |-> term, left |-> Lasts["launch"]]

\* TransitionController::apply
Tick(s) == IF s.left <= 1 THEN NoSwitch ELSE [s EXCEPT !.left = @ - 1]

PollReady ==
  CASE fetch.result = Nothing  -> UNCHANGED <<art, fetch, missed>>
    [] fetch.result = "ok"     -> art' = fetch.url /\ fetch' = NoFetch /\ UNCHANGED missed
    [] fetch.result = "failed" -> UNCHANGED art /\ fetch' = NoFetch /\ missed' = TRUE

\* Defect: a picker that is hidden is not painted, so its fade stands still.
ShouldPaintVisible == visible

ShouldPaint == visible \/ fade # Idle

\* PickerTransition::tick
TickFade == IF fade.left <= 1 THEN Idle ELSE [fade EXCEPT !.left = @ - 1]

FramePanics ==
  \/ Launched # NoSwitch /\ ~Blends(Launched.source, term)
  \/ ShouldPaint /\ fade # Idle /\ ~Blends(Snapshot, term)

Frame ==
  /\ ~panicked
  /\ MaybeResize
  /\ launched' = TRUE
  /\ switch' = Tick(Launched)
  /\ dimmed' = (paused /\ switch' = NoSwitch)
  /\ PollReady
  /\ fade' = IF ShouldPaint THEN TickFade ELSE fade
  /\ panicked' = FramePanics
  /\ volume' = Less(volume) /\ pulse' = Less(pulse)
  /\ at' = "events"
  /\ UNCHANGED <<term, paused, visible, cover, back, happened>>

HandleEvent ==
  \/ VizChanged \/ VolumeChanged \/ SourceError
  \/ \E now \in BOOLEAN : RadioState(now) \/ OtherState(now)
  \/ \E url \in Covers \cup {Nothing} : NowPlayingChanged(url)

HandleKey == TurnViz \/ HidePicker \/ ShowPicker

Panicked == panicked /\ UNCHANGED vars

Next ==
  \/ \E size \in Sizes : Resize(size)
  \/ HandleEvent \/ HandleKey
  \/ \E result \in {"ok", "failed"} : FetchEnds(result)
  \/ Frame
  \/ Panicked

Spec == Init /\ [][Next]_vars /\ WF_vars(Frame)

-----------------------------------------------------------------------------
TypeOK ==
  /\ at \in {"events", "keys"}
  /\ {term, grid, snap} \subseteq Sizes
  /\ switch = NoSwitch \/ (switch.source \in Sizes /\ switch.left > 0)
  /\ fade = Idle \/ (fade.kind \in {"in", "out"} /\ fade.left \in 1 .. Lasts[fade.kind])
  /\ {paused, launched, dimmed, visible, back, missed, panicked} \subseteq BOOLEAN
  /\ volume \in 0 .. Lasts["volume"] /\ pulse \in 0 .. Lasts["pulse"]
  /\ {cover, art} \subseteq Covers \cup {Nothing}
  /\ fetch = NoFetch \/ fetch \in [url : Covers, result : {Nothing, "ok", "failed"}]
  /\ happened \in 0 .. MaxEvents

\* The next frame panics in one situation only: the terminal grew since the source
\* grid of the transition that runs was snapshotted.  The fade of the picker
\* survives every resize, whatever is switched, hidden and shown meanwhile.
OnlyGrowthPanics ==
  (~panicked /\ FramePanics) => (Area(switch.source) < Area(term) /\ grid # term)

\* Once nothing is being fetched, the cover on the screen is the one of the
\* track that plays.  It is not when its fetch failed, nor when the track
\* went back to the cover on the screen while another cover was fetched:
\* request then returns without dropping that fetch.
CoverIsTheTracks == fetch = NoFetch /\ ~back /\ ~missed => art = cover

\* When nothing happens any more the screen comes to rest: no transition, no
\* fade and no overlay is left, nothing hidden is painted, and the picture is
\* dimmed exactly when playback is paused.
Settles ==
  <>[](panicked \/ (switch = NoSwitch /\ ~(ShouldPaint /\ ~visible) /\ fade = Idle
                    /\ volume = 0 /\ pulse = 0 /\ dimmed = paused))

=============================================================================
