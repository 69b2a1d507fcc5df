------------------------------- MODULE Client -------------------------------
(***************************************************************************)
(* The full-screen client (client/render_loop.rs, main.rs run_full_tui).   *)
(*                                                                         *)
(*   key thread   classifies what is typed, raises the stop flag on q      *)
(*   render loop  a frame: drain the events, the reconnect notices and the *)
(*                keys, then the timers, the drawing and the quit fade     *)
(*   bridge       the control session: passes events in and verbs out,     *)
(*                reconnects, gives up                                     *)
(*                                                                         *)
(* They share three unbounded channels, the verb queue and the stop flag.  *)
(* The daemon answers verbs, runs one authorization flow at a time and     *)
(* tells every client what other clients did.  Timers may fire in any      *)
(* frame.  What is drawn is module Screen.                                 *)
(*                                                                         *)
(* The loop reads each channel in one part of its frame, so what happens   *)
(* during the others is put off to that part: keys arrive while the keys   *)
(* are drained, the rest of the world moves while the events are.          *)
(***************************************************************************)
EXTENDS Picker, CommandBar

CONSTANTS
  Keys,         \* the keys the user presses
  Modes,        \* how many of the visualisers the carousel has here
  VerbCapacity, \* of the verb channel
  QuitFrames,   \* QUIT_FRAMES
  Hits,         \* how many items an answer may have
  MaxKeys,      \* bound on the keys pressed
  MaxWaiting,   \* bound on the keys and on the events that wait
  MaxTroubles   \* bound on what other clients do and on losses of the connection

ASSUME BoundAssumption ==
  /\ Modes \in 1 .. 22 /\ VerbCapacity \in Nat \ {0} /\ QuitFrames \in Nat \ {0}
  /\ Hits \subseteq Nat
  /\ {MaxKeys, MaxWaiting, MaxTroubles} \subseteq Nat

VARIABLES
  at,       \* where the render loop is in its frame
  stop,     \* the stop flag
  typist,   \* the key thread: "runs", "quit" after q
  keys, events, notices, verbs,   \* the channels
  picker, bar,
  viz,      \* the active visualiser
  debounce, \* pending_search
  refresh,  \* auth_refresh_pending
  quitting, fade,  \* QuitFade: active, frame
  link,     \* the control session: "up", "down", "dead"
  flow,     \* the daemon runs an authorization flow
  authed,   \* it holds valid credentials
  asked,    \* (history) the last query that went into the verb queue
  pressed, troubles  \* counted against the bounds

uiVars == <<picker, bar, viz, debounce, refresh, quitting, fade>>
daemonVars == <<link, flow, authed>>
counters == <<pressed, troubles>>
vars == <<at, stop, typist, keys, events, notices, verbs, uiVars, daemonVars, asked, counters>>

Catalogue == <<"plasma", "ripples", "tunnel", "metaballs", "vortex", "fire", "matrix", "moire",
               "wave", "scope", "heartbeat", "classicpeak", "barsdot", "barsoutline", "binary",
               "scatter", "terrain", "butterfly", "pulse", "rain", "sakura", "retro">>
Carousel == SubSeq(Catalogue, 1, Modes)
Vizs == ToSet(Carousel)
Turn(name, by) == LET i == CHOOSE j \in 1 .. Modes : Carousel[j] = name
                  IN  Carousel[((i - 1 + by + Modes) % Modes) + 1]

Chars == Keys \intersect {"1", "2", "3", "4", "a", "n", "p", "x", ":", " "}
NoQuery == <<>>
Items(kind, of, n) == [i \in 1 .. n |-> [kind |-> kind, of |-> of]]
LibraryItems(category, n) ==
  Items(IF category = "playlists" THEN "playlist" ELSE "track", category, n)

Init ==
  /\ at = "events" /\ stop = FALSE /\ typist = "runs"
  /\ keys = <<>> /\ events = <<>> /\ notices = 0 /\ verbs = <<>>
  /\ picker = NewPicker /\ bar = NewBar
  /\ viz = Carousel[1]
  /\ debounce = NoQuery /\ refresh = FALSE
  /\ quitting = FALSE /\ fade = 0
  /\ link = "up" /\ flow = FALSE /\ authed = FALSE
  /\ asked = NoQuery
  /\ pressed = 0 /\ troubles = 0

\* verb_tx.try_send
Accepts == link # "dead" /\ Len(verbs) < VerbCapacity
Send(v) == verbs' = IF Accepts THEN Append(verbs, v) ELSE verbs
Verb(name) == [verb |-> name]

-----------------------------------------------------------------------------
(* The key thread.                                                        *)

\* Defect: quitting is left to the render loop.
QuitsLater(k) == UNCHANGED stop /\ typist' = IF k = "Quit" THEN "quit" ELSE typist

\* q and Ctrl-C raise the flag there and then.
Quits(k) == IF k = "Quit" THEN stop' = TRUE /\ typist' = "quit" ELSE UNCHANGED <<stop, typist>>

Press(k) ==
  /\ at = "keys" /\ typist = "runs" /\ ~stop
  /\ pressed < MaxKeys /\ Len(keys) < MaxWaiting
  /\ keys' = Append(keys, k)
  /\ pressed' = pressed + 1
  /\ Quits(k)
  /\ UNCHANGED <<at, events, notices, verbs, uiVars, daemonVars, asked, troubles>>

-----------------------------------------------------------------------------
(* AppState::handle_event.                                                *)

PickerAfter(e) ==
  CASE e.type = "RadioState"     -> [picker EXCEPT !.visible = FALSE]
    [] e.type = "SourceError"    -> [picker EXCEPT !.visible = TRUE]
    [] e.type = "SearchResults"  -> IF e.query = picker.query
                                    THEN SetSearchResults(picker, e.items) ELSE picker
    [] e.type = "LibraryResults" -> SetLibraryItems(picker, e.category, e.items)
    [] e.type = "ConfigSnapshot" -> [picker EXCEPT !.settings = e.status]
    [] e.type = "AuthStarted"    -> SetAuthStarted(picker)
    [] e.type \in {"AuthCompleted", "AuthFailed"} -> SetAuthOver(picker)
    [] OTHER                     -> picker

RefreshAfter(e) ==
  CASE e.type = "AuthStarted" -> FALSE [] e.type = "AuthCompleted" -> TRUE [] OTHER -> refresh

OnEvent ==
  /\ at = "events" /\ events # <<>>
  /\ LET e == Head(events) IN
     /\ picker' = PickerAfter(e)
     /\ refresh' = RefreshAfter(e)
     /\ IF e.type = "VizChanged"
        THEN viz' = (IF e.name \in Vizs THEN e.name ELSE viz) /\ bar' = OnVizChanged(bar, e.name)
        ELSE UNCHANGED <<viz, bar>>
     /\ stop' = (stop \/ e.type = "DaemonShuttingDown")
  /\ events' = Tail(events)
  /\ UNCHANGED <<at, typist, keys, notices, verbs, debounce, quitting, fade, daemonVars, asked,
                 counters>>

\* The notices are drained at once, after the events.
OnNotices ==
  /\ at = "events" /\ events = <<>>
  /\ at' = "keys"
  /\ notices' = 0
  /\ IF notices = 0
     THEN UNCHANGED <<picker, verbs>>
     ELSE picker' = HandleDaemonReconnected(picker) /\ Send(Verb("ReadConfig"))
  /\ UNCHANGED <<stop, typist, keys, events, bar, viz, debounce, refresh, quitting, fade,
                 daemonVars, asked, counters>>

-----------------------------------------------------------------------------
(* AppState::handle_key.                                                  *)

Typing == picker.visible /\ picker.tab = "search"

BarTakes(k) ==
  /\ \E outcome \in (IF k = "Enter" THEN Outcomes(bar, Vizs) ELSE {Nothing}) :
       LET next == BarKey(bar, k, Chars, outcome) IN
       IF k = "Enter" /\ outcome \in Vizs
       THEN /\ bar' = IF Accepts THEN next ELSE SetError(next, "queue full")
            /\ Send([verb |-> "Viz", name |-> outcome])
       ELSE bar' = next /\ UNCHANGED verbs
  /\ UNCHANGED <<picker, viz, debounce, quitting, fade>>

OpensBar ==
  /\ bar' = Open(bar)
  /\ UNCHANGED <<picker, viz, debounce, quitting, fade, verbs>>

TurnsViz(k) ==
  /\ viz' = Turn(viz, IF k = "n" THEN 1 ELSE -1)
  /\ UNCHANGED <<picker, bar, debounce, quitting, fade, verbs>>

\* What a picker action asks for: the picker and the verb queue afterwards.
Requests(p, action) ==
  LET hidden == [p EXCEPT !.visible = FALSE] IN
  CASE action.do = "Pick" -> picker' = hidden /\ Send(Verb("SourceRadio"))
    [] action.do = "PickSpotify" -> picker' = hidden /\ Send(Verb("SourceSpotify"))
    [] action.do = "BrowseLibrary" ->
         picker' = p /\ Send([verb |-> "BrowseLibrary", category |-> action.category])
    [] action.do \in {"BrowsePlaylist", "ReadConfig"} -> picker' = p /\ Send(Verb(action.do))
    [] action.do = "StartAuth" ->
         picker' = (IF Accepts THEN p ELSE SetAuthOver(p)) /\ Send(Verb("StartAuth"))
    [] action.do = "SearchDirty" ->
         picker' = (IF Blank(p.query) THEN SetSearchResults(p, <<>>) ELSE p) /\ UNCHANGED verbs
    [] OTHER -> picker' = p /\ UNCHANGED verbs

\* Defect: any other key disarms the search.
DebounceDisarmed(p, action) ==
  IF action.do = "SearchDirty" /\ ~Blank(p.query) THEN p.query ELSE NoQuery

DebounceAfter(p, action) ==
  CASE action.do = "SearchDirty" -> IF Blank(p.query) THEN NoQuery ELSE p.query
    [] OTHER -> debounce

PickerTakes(k) ==
  /\ \E steps \in 1 .. 3 :
       LET r == HandleKey(picker, k, Chars, steps) IN
       /\ Requests(r.picker, r.action)
       /\ debounce' = DebounceAfter(r.picker, r.action)
       /\ quitting' = (quitting \/ r.action.do = "Quit")
       /\ fade' = IF r.action.do = "Quit" THEN 0 ELSE fade
  /\ UNCHANGED <<bar, viz>>

OnKey ==
  /\ at = "keys" /\ keys # <<>>
  /\ LET k == Head(keys) IN
     CASE quitting -> UNCHANGED <<picker, bar, viz, debounce, quitting, fade, verbs>>
       [] ~quitting /\ bar.active -> BarTakes(k)
       [] ~quitting /\ ~bar.active /\ k = ":" /\ ~Typing -> OpensBar
       [] ~quitting /\ ~bar.active /\ k \in {"n", "p"} /\ ~Typing -> TurnsViz(k)
       [] OTHER -> PickerTakes(k)
  /\ keys' = Tail(keys)
  /\ UNCHANGED <<at, stop, typist, events, notices, refresh, daemonVars, asked, counters>>

-----------------------------------------------------------------------------
(* The rest of a frame.  `due` are the timers that have run out.           *)

Timers == {"search", "auth", "ack"}

\* Defect: the request for a snapshot is dropped when no search is due.
OutgoingWithSearch(due) ==
  IF debounce # NoQuery /\ "search" \in due
  THEN (IF refresh THEN <<Verb("ReadConfig")>> ELSE <<>>)
         \o <<[verb |-> "Search", query |-> debounce]>>
  ELSE <<>>

\* The snapshot an AuthCompleted asks for, then the search that is due.
Outgoing(due) ==
  LET first == IF refresh THEN <<Verb("ReadConfig")>> ELSE <<>>
      second == IF debounce # NoQuery /\ "search" \in due
                THEN <<[verb |-> "Search", query |-> debounce]>> ELSE <<>>
  IN  first \o second

Rest(due) ==
  /\ at = "keys" /\ keys = <<>>
  /\ verbs' = IF link = "dead" THEN verbs
              ELSE SubSeq(verbs \o Outgoing(due), 1, Least(VerbCapacity, Len(verbs \o Outgoing(due))))
  /\ refresh' = FALSE
  /\ picker' = IF "auth" \in due THEN TickAuthDeadline(picker) ELSE picker
  /\ IF "search" \in due
     THEN /\ debounce' = NoQuery
          /\ asked' = IF debounce # NoQuery /\ Accepts THEN debounce ELSE asked
     ELSE UNCHANGED <<debounce, asked>>
  /\ bar' = IF "ack" \in due THEN Expire(bar) ELSE bar
  /\ fade' = IF quitting /\ fade < QuitFrames THEN fade + 1 ELSE fade
  /\ stop' = (stop \/ (quitting /\ fade' = QuitFrames))
  /\ at' = IF stop' THEN "over" ELSE "events"
  /\ UNCHANGED <<typist, keys, events, notices, viz, quitting, daemonVars, counters>>

-----------------------------------------------------------------------------
(* The bridge and the daemon.                                             *)

Told(e) == events' = Append(events, e)

Answer(v) ==
  CASE v.verb = "Viz" -> {<<[type |-> "VizChanged", name |-> v.name]>>}
    [] v.verb = "SourceRadio" -> {<<[type |-> "RadioState"]>>, <<[type |-> "SourceError"]>>}
    [] v.verb = "SourceSpotify" -> {<<>>, <<[type |-> "SourceError"]>>}
    [] v.verb = "Search" ->
         {<<>>} \union {<<[type |-> "SearchResults", query |-> v.query,
                           items |-> Items("track", "search", n)]>> : n \in Hits}
    [] v.verb = "BrowseLibrary" ->
         {<<>>} \union {<<[type |-> "LibraryResults", category |-> v.category,
                           items |-> LibraryItems(v.category, n)]>> : n \in Hits}
    [] v.verb = "BrowsePlaylist" ->
         {<<>>} \union {<<[type |-> "LibraryResults", category |-> "playlists",
                           items |-> Items("track", "playlist", n)]>> : n \in Hits}
    [] v.verb = "ReadConfig" ->
         {<<[type |-> "ConfigSnapshot", status |-> IF authed THEN "loggedIn" ELSE "loggedOut"]>>}
    [] v.verb = "StartAuth" -> IF flow THEN {<<>>} ELSE {<<[type |-> "AuthStarted"]>>}

Serve ==
  /\ link = "up" /\ verbs # <<>> /\ Len(events) < MaxWaiting
  /\ \E answer \in Answer(Head(verbs)) : events' = events \o answer
  /\ flow' = (flow \/ Head(verbs).verb = "StartAuth")
  /\ verbs' = Tail(verbs)
  /\ UNCHANGED <<at, stop, typist, keys, notices, uiVars, link, authed, asked, counters>>

FlowEnds ==
  /\ flow /\ Len(events) < MaxWaiting
  /\ flow' = FALSE
  /\ \E ok \in BOOLEAN :
       /\ authed' = (authed \/ ok)
       /\ IF link = "up" THEN Told([type |-> IF ok THEN "AuthCompleted" ELSE "AuthFailed"])
                         ELSE UNCHANGED events
  /\ UNCHANGED <<at, stop, typist, keys, notices, verbs, uiVars, link, asked, counters>>

\* What other clients make the daemon say.
OutsideEvents ==
  {[type |-> "VizChanged", name |-> v] : v \in Vizs}
  \union {[type |-> t] : t \in {"RadioState", "SourceError", "DaemonShuttingDown"}}
  \union {[type |-> "LibraryResults", category |-> "playlists",
           items |-> LibraryItems("playlists", n)] : n \in Hits}
  \union (IF Blank(picker.query) THEN {}
          ELSE {[type |-> "SearchResults", query |-> picker.query,
                 items |-> Items("track", "search", n)] : n \in Hits})

Outside ==
  /\ link = "up" /\ troubles < MaxTroubles /\ Len(events) < MaxWaiting
  /\ \/ \E e \in OutsideEvents : Told(e) /\ UNCHANGED flow
     \/ ~flow /\ flow' = TRUE /\ Told([type |-> "AuthStarted"])
  /\ troubles' = troubles + 1
  /\ UNCHANGED <<at, stop, typist, keys, notices, verbs, uiVars, link, authed, asked, pressed>>

\* The connection breaks; what had not come through is lost.
Break ==
  /\ link = "up" /\ troubles < MaxTroubles
  /\ link' = "down"
  /\ troubles' = troubles + 1
  /\ \E n \in 0 .. Len(events) : events' = SubSeq(events, 1, n)
  /\ UNCHANGED <<at, stop, typist, keys, notices, verbs, uiVars, flow, authed, asked, pressed>>

\* A verb that is forwarded while the connection is down is lost.
VerbLost ==
  /\ link = "down" /\ verbs # <<>>
  /\ verbs' = Tail(verbs)
  /\ UNCHANGED <<at, stop, typist, keys, events, notices, uiVars, daemonVars, asked, counters>>

\* The daemon may be a new process, which runs no flow.
Rejoin ==
  /\ link = "down"
  /\ link' = "up"
  /\ flow' \in {flow, FALSE}
  /\ notices' = notices + 1
  /\ UNCHANGED <<at, stop, typist, keys, events, verbs, uiVars, authed, asked, counters>>

GiveUp ==
  /\ link = "down"
  /\ link' = "dead"
  /\ UNCHANGED <<at, stop, typist, keys, events, notices, verbs, uiVars, flow, authed, asked, counters>>

-----------------------------------------------------------------------------

RenderLoop == OnEvent \/ OnNotices \/ OnKey \/ (\E due \in SUBSET Timers : Rest(due))
World ==
  /\ at = "events"
  /\ Serve \/ FlowEnds \/ Outside \/ Break \/ VerbLost \/ Rejoin \/ GiveUp
Next == RenderLoop \/ World \/ (\E k \in Keys : Press(k))

\* The render thread is scheduled, and a timer that stays armed runs out.  The
\* bridge forwards verbs and its attempts to reconnect end one way or the other.
Fairness ==
  /\ WF_vars(OnEvent) /\ WF_vars(OnNotices) /\ WF_vars(OnKey) /\ SF_vars(Rest(Timers))
  /\ SF_vars(World /\ Serve) /\ SF_vars(World /\ (Rejoin \/ GiveUp))

Spec == Init /\ [][Next]_vars
FairSpec == Spec /\ Fairness

-----------------------------------------------------------------------------
(* Properties.                                                            *)

over == at = "over"

\* The values the client's state takes.
TypeOK ==
  /\ at \in {"events", "keys", "over"} /\ {stop, refresh, quitting, flow, authed} \subseteq BOOLEAN
  /\ typist \in {"runs", "quit"} /\ link \in {"up", "down", "dead"}
  /\ picker.tab \in ToSet(Tabs) /\ picker.settings \in {"unknown", "loggedIn", "loggedOut"}
  /\ {picker.visible, picker.auth, picker.since, bar.active} \subseteq BOOLEAN
  /\ bar.pending \in Vizs \union {Nothing}
  /\ viz \in Vizs /\ fade \in 0 .. QuitFrames
  /\ Len(verbs) <= VerbCapacity

\* Whatever order results, keys and other clients' answers come in, every
\* cursor of the picker stays on a row of its list (state.rs).
CursorsOnRows == CursorsInRange(picker)

\* The search that is armed is for the query on the screen, and a query that
\* was cleared shows no results (handle_key, SearchDirty).
SearchInStep ==
  /\ debounce # NoQuery => debounce = picker.query
  /\ Blank(picker.query) => picker.results = <<>>

\* The bar closes by Escape or when the visualiser it submitted has come up;
\* another client's switch does not close it (on_viz_changed).
BarClosesOnItsOwn ==
  [][bar.active /\ ~bar'.active =>
       \/ at = "keys" /\ Head(keys) = "Escape"
       \/ bar.pending \in Vizs /\ viz' = bar.pending]_vars

\* A pending authorization is not pending for ever, whatever becomes of the
\* daemon (tick_auth_deadline).
AuthUnsticks == picker.auth ~> (~picker.auth \/ over)

\* A query the user leaves alone is asked, unless nobody takes verbs any more.
SearchIsAsked ==
  (~Blank(picker.query) /\ asked # picker.query)
    ~> (Blank(picker.query) \/ asked = picker.query \/ link = "dead" \/ over)

\* A login the client can know of, by a completed flow or a new connection to a
\* daemon that holds credentials, comes to show, unless another flow is started.
LoginIsShown ==
  /\ (authed /\ refresh)
       ~> (picker.settings = "loggedIn" \/ picker.auth \/ link = "dead" \/ over)
  /\ (authed /\ notices > 0) ~> (picker.settings = "loggedIn" \/ link = "dead" \/ over)

\* Once q is pressed the client ends, wherever the focus is.
QuitEnds == (typist = "quit") ~> over

\* The picker is of one piece: CursorsOnRows and SearchInStep, with the types.
PickerInStep == TypeOK /\ CursorsOnRows /\ SearchInStep

\* A sign-in the user began comes to an end on the screen: AuthUnsticks and LoginIsShown.
SignInSettles == AuthUnsticks /\ LoginIsShown
=============================================================================
