------------------------------- MODULE Picker -------------------------------
(***************************************************************************)
(* The picker of the TUI (tui/picker/state.rs): a record and what a key or *)
(* an event makes of it.  HandleKey gives the next picker and the action   *)
(* the render loop is asked for.                                           *)
(*                                                                         *)
(* A query is a sequence of characters, an item a record of its kind and   *)
(* of the question it answers.                                             *)
(***************************************************************************)
EXTENDS Integers, SequencesExt

CONSTANT Stations  \* radio_total: the curated stations

ASSUME StationsAssumption == Stations \in Nat

Tabs == <<"radio", "search", "library", "settings">>
Categories == <<"tracks", "albums", "playlists", "recent">>
NoCategory == "none"

Chooser == [category |-> NoCategory, items |-> <<>>, cursor |-> 0]

NewPicker ==
  [visible |-> TRUE, tab |-> "radio", radio |-> 0,
   query |-> <<>>, results |-> <<>>, cursor |-> 0,
   library |-> Chooser, settings |-> "unknown",
   auth |-> FALSE, since |-> FALSE]

Least(a, b) == IF a < b THEN a ELSE b
Up(c, n) == IF c = 0 THEN n - 1 ELSE c - 1
Down(c, n) == (c + 1) % n
Blank(q) == \A i \in DOMAIN q : q[i] = " "

-----------------------------------------------------------------------------
(* What events set.                                                       *)

\* Defect: the cursor keeps its row when the list under it gets shorter.
SetSearchResultsKeepsRow(p, items) == [p EXCEPT !.results = items]

SetSearchResults(p, items) ==
  [p EXCEPT !.cursor = IF items = <<>> THEN 0 ELSE Least(@, Len(items) - 1),
            !.results = items]

SetLibraryItems(p, category, items) ==
  [p EXCEPT !.library = [category |-> category, items |-> items, cursor |-> 0]]

SetAuthStarted(p) == [p EXCEPT !.auth = TRUE, !.since = TRUE]
SetAuthOver(p) == [p EXCEPT !.auth = FALSE, !.since = FALSE]

TickAuthDeadline(p) == IF p.auth /\ p.since THEN SetAuthOver(p) ELSE p
HandleDaemonReconnected(p) == IF p.auth THEN SetAuthOver(p) ELSE p

-----------------------------------------------------------------------------
(* Keys.                                                                  *)

Result(p, action) == [picker |-> p, action |-> action]
Act(name) == [do |-> name]
Moved(p) == Result(p, Act("Moved"))
Ignored(p) == Result(p, Act("Ignored"))
Hides(p) == Result([p EXCEPT !.visible = FALSE], Act("Hide"))
Searches(p) == Result(p, Act("SearchDirty"))
Plays(p, item) == Result(p, [do |-> "PickSpotify", item |-> item])

\* A tab is entered; Settings asks for a snapshot.
Enters(p, tab) ==
  Result([p EXCEPT !.tab = tab],
         Act(IF tab = "settings" /\ p.tab # tab THEN "ReadConfig" ELSE "Moved"))
NextTab(p) == Enters(p, Tabs[1 + Down(CHOOSE i \in 0 .. 3 : Tabs[i + 1] = p.tab, 4)])

Escape(p) ==
  CASE p.tab = "search" /\ p.query # <<>> ->
         Searches([p EXCEPT !.query = <<>>, !.cursor = 0])
    [] p.tab = "library" /\ p.library.category # NoCategory ->
         Moved([p EXCEPT !.library = Chooser])
    [] OTHER -> Hides(p)

Moves == {"Up", "Down"}
Move(key, c, n) == IF key = "Up" THEN Up(c, n) ELSE Down(c, n)

\* `steps` comes from update_momentum.
HandleRadio(p, key, steps) ==
  CASE key \in Moves /\ Stations > 0 ->
         Moved([p EXCEPT !.radio = IF key = "Up" THEN (@ + steps * Stations - steps) % Stations
                                                 ELSE (@ + steps) % Stations])
    [] key \in Moves /\ Stations = 0 -> Moved(p)
    [] key = "Enter" /\ Stations > 0 -> Result(p, [do |-> "Pick", slot |-> p.radio])
    [] OTHER -> Ignored(p)

Typed(p, c) == Searches([p EXCEPT !.query = Append(@, c)])
Erased(p) == IF p.query = <<>> THEN Ignored(p) ELSE Searches([p EXCEPT !.query = Front(@)])

HandleSearch(p, key, chars) ==
  CASE key \in Moves ->
         Moved(IF p.results = <<>> THEN p
               ELSE [p EXCEPT !.cursor = Move(key, @, Len(p.results))])
    [] key = "Enter" /\ p.cursor < Len(p.results) -> Plays(p, p.results[p.cursor + 1])
    [] key \in chars -> Typed(p, key)
    [] key = "Toggle" -> Typed(p, "s")
    [] key = "Backspace" -> Erased(p)
    [] OTHER -> Ignored(p)

HandleChooser(p, key) ==
  CASE key \in Moves -> Moved([p EXCEPT !.library.cursor = Move(key, @, Len(Categories))])
    [] key = "Enter" ->
         Result(p, [do |-> "BrowseLibrary", category |-> Categories[p.library.cursor + 1]])
    [] OTHER -> Ignored(p)

HandleItems(p, key) ==
  LET lib == p.library IN
  CASE key \in Moves ->
         Moved(IF lib.items = <<>> THEN p
               ELSE [p EXCEPT !.library.cursor = Move(key, @, Len(lib.items))])
    [] key = "Enter" /\ lib.cursor < Len(lib.items) ->
         LET item == lib.items[lib.cursor + 1] IN
         IF item.kind = "playlist" /\ lib.category = "playlists"
         THEN Result(p, [do |-> "BrowsePlaylist", item |-> item])
         ELSE Plays(p, item)
    [] OTHER -> Ignored(p)

HandleLibrary(p, key) ==
  IF p.library.category = NoCategory THEN HandleChooser(p, key) ELSE HandleItems(p, key)

HandleSettings(p, key) ==
  CASE key = "Enter" -> Result(p, Act("ReadConfig"))
    [] key = "a" /\ ~p.auth /\ p.settings # "loggedIn" ->
         Result(SetAuthStarted(p), Act("StartAuth"))
    [] OTHER -> Ignored(p)

HandleVisible(p, key, chars, steps) ==
  CASE key = "Quit" -> Result(p, Act("Quit"))
    [] key = "Tab" -> NextTab(p)
    [] key \in {"1", "2", "3", "4"} /\ p.tab # "search" ->
         Enters(p, CASE key = "1" -> "radio" [] key = "2" -> "search"
                     [] key = "3" -> "library" [] key = "4" -> "settings")
    [] key = "Toggle" /\ p.tab # "search" -> Hides(p)
    [] key = "Escape" -> Escape(p)
    [] OTHER ->
         CASE p.tab = "radio" -> HandleRadio(p, key, steps)
           [] p.tab = "search" -> HandleSearch(p, key, chars)
           [] p.tab = "library" -> HandleLibrary(p, key)
           [] p.tab = "settings" -> HandleSettings(p, key)

HandleKey(p, key, chars, steps) ==
  CASE p.visible -> HandleVisible(p, key, chars, steps)
    [] ~p.visible /\ key = "Toggle" -> Moved([p EXCEPT !.visible = TRUE])
    [] OTHER -> Ignored(p)

-----------------------------------------------------------------------------

\* Every cursor points into its list: what Enter indexes exists, and Enter on
\* a list that is not empty plays one of its rows.
CursorsInRange(p) ==
  /\ p.radio \in 0 .. (IF Stations = 0 THEN 0 ELSE Stations - 1)
  /\ p.cursor = 0 \/ p.cursor \in 0 .. Len(p.results) - 1
  /\ LET n == IF p.library.category = NoCategory THEN Len(Categories) ELSE Len(p.library.items)
     IN  p.library.cursor = 0 \/ p.library.cursor \in 0 .. n - 1

=============================================================================
