---------------------------- MODULE ClientProofs ----------------------------
(***************************************************************************)
(* What a client does to its screen (Client).  Whatever order keys, events *)
(* of the daemon, answers and timers come in, the picker stays of one      *)
(* piece, and the command bar closes for its own reasons only.             *)
(***************************************************************************)
EXTENDS Client, TLAPS

-----------------------------------------------------------------------------
(* The values of the client's state.                                       *)

Subjects == {"tracks", "albums", "playlists", "recent", "playlist", "search", NoCategory}
Lists == Seq([kind : {"track", "playlist"}, of : Subjects])
Letters == Chars \union {"s", "q"}
Questions == Seq(Letters)
Messages == {Nothing, "queue full", "no match", "daemon not responding"}
Asked == {q \in Questions : ~Blank(q)}
TabNames == {"radio", "search", "library", "settings"}
Statuses == {"unknown", "loggedIn", "loggedOut"}

Pickers ==
  [visible : BOOLEAN, tab : TabNames, radio : Nat,
   query : Questions, results : Lists, cursor : Nat,
   library : [category : Subjects, items : Lists, cursor : Nat], settings : Statuses,
   auth : BOOLEAN, since : BOOLEAN]

Bars ==
  [active : BOOLEAN, buffer : Seq(Letters), error : Messages, pending : Vizs \union {Nothing}]

Requested ==
  [verb : {"SourceRadio", "SourceSpotify", "BrowsePlaylist", "ReadConfig", "StartAuth"}]
  \union [verb : {"Viz"}, name : Vizs]
  \union [verb : {"Search"}, query : Asked]
  \union [verb : {"BrowseLibrary"}, category : Subjects]

Events ==
  [type : {"RadioState", "SourceError", "DaemonShuttingDown", "AuthStarted", "AuthCompleted",
           "AuthFailed"}]
  \union [type : {"VizChanged"}, name : Vizs]
  \union [type : {"SearchResults"}, query : Asked, items : Lists]
  \union [type : {"LibraryResults"}, category : Subjects, items : Lists]
  \union [type : {"ConfigSnapshot"}, status : Statuses]

LoopTyped ==
  /\ at \in {"events", "keys", "over"} /\ typist \in {"runs", "quit"}
  /\ stop \in BOOLEAN /\ refresh \in BOOLEAN /\ quitting \in BOOLEAN
  /\ flow \in BOOLEAN /\ authed \in BOOLEAN
  /\ link \in {"up", "down", "dead"}
  /\ viz \in Vizs /\ fade \in 0 .. QuitFrames

Queued ==
  /\ events \in Seq(Events)
  /\ verbs \in Seq(Requested) /\ Len(verbs) <= VerbCapacity
  /\ debounce = NoQuery \/ debounce \in Asked

OnScreen == picker \in Pickers /\ bar \in Bars

ClientInv == LoopTyped /\ Queued /\ OnScreen /\ CursorsInRange(picker) /\ SearchInStep

-----------------------------------------------------------------------------
(* Sequences and remainders.                                               *)

\* A remainder is less than what it is divided by.
LEMMA Remainder == \A n \in Int, m \in Nat \ {0} : n % m \in 0 .. m - 1
OBVIOUS

\* The first characters of a text are a text.
LEMMA Shorter ==
  ASSUME NEW S, NEW s \in Seq(S), NEW m \in Int, NEW n \in Int, 1 <= m, n <= Len(s)
  PROVE  /\ SubSeq(s, m, n) \in Seq(S)
         /\ m <= n => Len(SubSeq(s, m, n)) = n - m + 1
OBVIOUS

\* The tabs of the picker, by name.
LEMMA TabsAre == ToSet(Tabs) = TabNames /\ \A i \in 0 .. 3 : Tabs[i + 1] \in TabNames
<1>1. DOMAIN Tabs = 1 .. 4
  BY DEF Tabs
<1>2. Tabs[1] = "radio" /\ Tabs[2] = "search" /\ Tabs[3] = "library" /\ Tabs[4] = "settings"
  BY DEF Tabs
<1>3. \A i \in 1 .. 4 : i = 1 \/ i = 2 \/ i = 3 \/ i = 4
  OBVIOUS
<1>4. \A i \in 1 .. 4 : Tabs[i] \in TabNames
  BY <1>2, <1>3 DEF TabNames
<1>5. ToSet(Tabs) = TabNames
  <2>1. ToSet(Tabs) = {Tabs[i] : i \in 1 .. 4}
    BY <1>1 DEF ToSet
  <2> QED BY <2>1, <1>2, <1>4 DEF TabNames
<1> QED BY <1>4, <1>5

\* The categories of the library are subjects.
LEMMA CategoriesAre == Len(Categories) = 4 /\ \A i \in 0 .. 3 : Categories[i + 1] \in Subjects
<1>1. Len(Categories) = 4
  BY DEF Categories
<1>2. Categories[1] = "tracks" /\ Categories[2] = "albums" /\ Categories[3] = "playlists"
      /\ Categories[4] = "recent"
  BY DEF Categories
<1>3. \A i \in 0 .. 3 : i = 0 \/ i = 1 \/ i = 2 \/ i = 3
  OBVIOUS
<1>4. {"tracks", "albums", "playlists", "recent"} \subseteq Subjects
  BY DEF Subjects
<1> QED BY <1>1, <1>2, <1>3, <1>4

-----------------------------------------------------------------------------
(* The picker: what a key leaves as it was.                                *)

\* What a key may make of the picker `p`: the results are those it had, and the query
\* changes with a request for a search only.
Kept(p, r) ==
  /\ r.picker \in Pickers /\ CursorsInRange(r.picker)
  /\ r.picker.results = p.results
  /\ r.action.do # "SearchDirty" => r.picker.query = p.query
  /\ r.action.do = "BrowseLibrary" => r.action.category \in Subjects

\* An action without arguments.
LEMMA KeptByAct ==
  ASSUME NEW p, NEW q \in Pickers, CursorsInRange(q), q.results = p.results, NEW name,
         name # "BrowseLibrary", name # "SearchDirty" => q.query = p.query
  PROVE  Kept(p, Result(q, Act(name)))
<1>1. Result(q, Act(name)).picker = q /\ Result(q, Act(name)).action.do = name
  BY DEF Result, Act
<1> QED BY <1>1, Zenon DEF Kept

\* A key that does not change the picker but asks for an item or a station.
LEMMA KeptByPick ==
  ASSUME NEW p \in Pickers, CursorsInRange(p), NEW action,
         action.do \in {"Pick", "PickSpotify", "BrowsePlaylist"}
  PROVE  Kept(p, Result(p, action))
<1>1. Result(p, action).picker = p /\ Result(p, action).action = action
  BY DEF Result
<1>2. action.do # "SearchDirty" /\ action.do # "BrowseLibrary"
  OBVIOUS
<1> QED BY <1>1, <1>2, Zenon DEF Kept

\* The keys the picker has no use for.
LEMMA KeptByNone ==
  ASSUME NEW p \in Pickers, CursorsInRange(p)
  PROVE  Kept(p, Ignored(p)) /\ Kept(p, Moved(p)) /\ Kept(p, Hides(p))
<1>1. "Ignored" # "BrowseLibrary" /\ "Moved" # "BrowseLibrary" /\ "Hide" # "BrowseLibrary"
  OBVIOUS
<1>2. Kept(p, Ignored(p)) /\ Kept(p, Moved(p))
  BY <1>1, KeptByAct, Zenon DEF Ignored, Moved
<1>3. /\ [p EXCEPT !.visible = FALSE] \in Pickers
      /\ [p EXCEPT !.visible = FALSE].results = p.results
      /\ [p EXCEPT !.visible = FALSE].query = p.query
  BY DEF Pickers
<1>4. CursorsInRange([p EXCEPT !.visible = FALSE])
  BY DEF Pickers, CursorsInRange
<1>5. Kept(p, Hides(p))
  BY <1>1, <1>3, <1>4, KeptByAct, Zenon DEF Hides
<1> QED BY <1>2, <1>5

\* Moving in a list of n rows stays in the list.
LEMMA MoveFacts ==
  ASSUME NEW n \in Nat \ {0}, NEW c \in Nat, c = 0 \/ c \in 0 .. n - 1, NEW key
  PROVE  Move(key, c, n) \in 0 .. n - 1
<1>1. Up(c, n) \in 0 .. n - 1
  BY DEF Up
<1>2. Down(c, n) \in 0 .. n - 1
  BY Remainder DEF Down
<1> QED BY <1>1, <1>2 DEF Move

\* The radio tab, whatever the momentum.
LEMMA RadioKeeps ==
  ASSUME NEW p \in Pickers, CursorsInRange(p), NEW key, NEW steps \in 1 .. 3
  PROVE  Kept(p, HandleRadio(p, key, steps))
<1> DEFINE row == IF key = "Up" THEN (p.radio + steps * Stations - steps) % Stations
                                ELSE (p.radio + steps) % Stations
           q == [p EXCEPT !.radio = row]
<1>1. CASE key \in Moves /\ Stations > 0
  <2>1. HandleRadio(p, key, steps) = Moved(q)
    <3>1. Stations # 0
      BY <1>1
    <3>2. key # "Enter"
      BY <1>1 DEF Moves
    <3> QED BY <1>1, <3>1, <3>2, Zenon DEF HandleRadio
  <2>2. p.radio \in Nat /\ Stations \in Nat \ {0}
    BY <1>1, StationsAssumption DEF Pickers
  <2>3. p.radio + steps * Stations - steps \in Int /\ p.radio + steps \in Int
    BY <2>2
  <2>4. row \in 0 .. Stations - 1
    BY <2>2, <2>3, Remainder
  <2> HIDE DEF row
  <2>5. q \in Pickers /\ q.results = p.results /\ q.query = p.query /\ CursorsInRange(q)
    BY <2>2, <2>4 DEF Pickers, CursorsInRange
  <2>6. "Moved" # "BrowseLibrary"
    OBVIOUS
  <2> HIDE DEF q
  <2> QED BY <2>1, <2>5, <2>6, KeptByAct, Zenon DEF Moved
<1>2. CASE ~(key \in Moves /\ Stations > 0) /\ key \in Moves
  <2>1. HandleRadio(p, key, steps) = Moved(p)
    <3>1. Stations = 0
      BY <1>2, StationsAssumption
    <3>2. key # "Enter"
      BY <1>2 DEF Moves
    <3> QED BY <1>2, <3>1, <3>2, Zenon DEF HandleRadio
  <2> QED BY <2>1, KeptByNone, Zenon
<1>3. CASE key \notin Moves /\ key = "Enter" /\ Stations > 0
  <2>1. HandleRadio(p, key, steps) = Result(p, [do |-> "Pick", slot |-> p.radio])
    BY <1>3, Zenon DEF HandleRadio
  <2>2. [do |-> "Pick", slot |-> p.radio].do \in {"Pick", "PickSpotify", "BrowsePlaylist"}
    OBVIOUS
  <2> QED BY <2>1, <2>2, KeptByPick
<1>4. CASE key \notin Moves /\ ~(key = "Enter" /\ Stations > 0)
  <2>1. HandleRadio(p, key, steps) = Ignored(p)
    BY <1>4, Zenon DEF HandleRadio
  <2> QED BY <2>1, KeptByNone, Zenon
<1> QED BY <1>1, <1>2, <1>3, <1>4

\* A search is asked for: the query may have changed.
LEMMA KeptBySearch ==
  ASSUME NEW p, NEW q \in Pickers, CursorsInRange(q), q.results = p.results
  PROVE  Kept(p, Searches(q))
<1>1. Searches(q).picker = q /\ Searches(q).action.do = "SearchDirty"
  BY DEF Searches, Result, Act
<1>2. "SearchDirty" # "BrowseLibrary"
  OBVIOUS
<1> QED BY <1>1, <1>2, Zenon DEF Kept

\* What is typed, and what is erased.
LEMMA TypedKeeps ==
  ASSUME NEW p \in Pickers, CursorsInRange(p), NEW c \in Letters
  PROVE  Kept(p, Typed(p, c)) /\ Kept(p, Erased(p))
<1>1. \A q \in Questions :
        /\ [p EXCEPT !.query = q] \in Pickers
        /\ [p EXCEPT !.query = q].results = p.results
        /\ CursorsInRange([p EXCEPT !.query = q])
  BY DEF Pickers, CursorsInRange
<1>2. \A q \in Questions : Kept(p, Searches([p EXCEPT !.query = q]))
  BY <1>1, KeptBySearch
<1>3. p.query \in Questions
  BY DEF Pickers
<1>4. Kept(p, Typed(p, c))
  <2>1. Append(p.query, c) \in Questions
    BY <1>3 DEF Questions
  <2> QED BY <1>2, <2>1, Zenon DEF Typed
<1>5. CASE p.query = <<>>
  BY <1>5, KeptByNone, <1>4, Zenon DEF Erased
<1>6. CASE p.query # <<>>
  <2>1. Front(p.query) \in Questions
    <3>1. Len(p.query) >= 1
      BY <1>3, <1>6 DEF Questions
    <3> QED BY <1>3, <3>1 DEF Questions, Front
  <2>2. Erased(p) = Searches([p EXCEPT !.query = Front(p.query)])
    BY <1>6, Zenon DEF Erased
  <2> QED BY <1>2, <1>4, <2>1, <2>2, Zenon
<1> QED BY <1>5, <1>6

\* No character that is typed is one of the other keys.
LEMMA CharsApart ==
  ASSUME NEW key \in Chars
  PROVE  /\ key \notin Moves
         /\ key \notin {"Enter", "Toggle", "Backspace", "Escape", "Quit", "Tab"}
         /\ key \in Letters
BY DEF Chars, Moves, Letters

\* The search tab.
LEMMA SearchKeeps ==
  ASSUME NEW p \in Pickers, CursorsInRange(p), NEW key
  PROVE  Kept(p, HandleSearch(p, key, Chars))
<1>0. key \in Moves => key \notin {"Enter", "Toggle", "Backspace"}
  BY DEF Moves
<1>a. key \in Chars => key \notin Moves /\ key \notin {"Enter", "Toggle", "Backspace"}
                       /\ key \in Letters
  BY CharsApart
<1>1. CASE key \in Moves
  <2> DEFINE q == IF p.results = <<>> THEN p
                  ELSE [p EXCEPT !.cursor = Move(key, p.cursor, Len(p.results))]
  <2>1. HandleSearch(p, key, Chars) = Moved(q)
    BY <1>0, <1>a, <1>1, Zenon DEF HandleSearch
  <2>2. CASE p.results = <<>>
    BY <2>1, <2>2, KeptByNone, Zenon
  <2>3. CASE p.results # <<>>
    <3> DEFINE c == Move(key, p.cursor, Len(p.results))
               m == [p EXCEPT !.cursor = c]
    <3>1. q = m
      BY <2>3
    <3>2. Len(p.results) \in Nat \ {0} /\ p.cursor \in Nat
          /\ (p.cursor = 0 \/ p.cursor \in 0 .. Len(p.results) - 1)
      BY <2>3 DEF Pickers, Lists, CursorsInRange
    <3>3. c \in 0 .. Len(p.results) - 1
      BY <3>2, MoveFacts
    <3> HIDE DEF c
    <3>4. m \in Pickers /\ m.results = p.results /\ m.query = p.query /\ m.cursor = c
          /\ m.radio = p.radio /\ m.library = p.library
      BY <3>2, <3>3 DEF Pickers
    <3> HIDE DEF m
    <3>5. CursorsInRange(m)
      BY <3>3, <3>4 DEF CursorsInRange
    <3>6. "Moved" # "BrowseLibrary"
      OBVIOUS
    <3> HIDE DEF q
    <3> QED BY <2>1, <3>1, <3>4, <3>5, <3>6, KeptByAct, Zenon DEF Moved
  <2> QED BY <2>2, <2>3
<1>2. CASE key = "Enter" /\ p.cursor < Len(p.results)
  <2>1. key \notin Moves /\ key \notin Chars /\ key # "Toggle" /\ key # "Backspace"
    BY <1>0, <1>a, <1>2
  <2>2. HandleSearch(p, key, Chars) = Plays(p, p.results[p.cursor + 1])
    BY <1>2, <2>1, Zenon DEF HandleSearch
  <2>3. \A item : [do |-> "PickSpotify", item |-> item].do
                    \in {"Pick", "PickSpotify", "BrowsePlaylist"}
    OBVIOUS
  <2>4. \A item : Kept(p, Plays(p, item))
    BY <2>3, KeptByPick DEF Plays
  <2> QED BY <2>2, <2>4
<1>3. CASE key \in Chars
  <2>1. HandleSearch(p, key, Chars) = Typed(p, key)
    BY <1>a, <1>3, Zenon DEF HandleSearch
  <2> QED BY <1>3, <1>a, <2>1, TypedKeeps
<1>4. CASE key = "Toggle"
  <2>0. "s" \in Letters /\ key \notin Moves /\ key \notin Chars /\ key # "Enter"
        /\ key # "Backspace"
    BY <1>0, <1>a, <1>4 DEF Letters
  <2>1. HandleSearch(p, key, Chars) = Typed(p, "s")
    BY <1>4, <2>0, Zenon DEF HandleSearch
  <2> QED BY <2>0, <2>1, TypedKeeps
<1>5. CASE key = "Backspace"
  <2>0. "s" \in Letters /\ key \notin Moves /\ key \notin Chars /\ key # "Enter" /\ key # "Toggle"
    BY <1>0, <1>a, <1>5 DEF Letters
  <2>1. HandleSearch(p, key, Chars) = Erased(p)
    BY <1>5, <2>0, Zenon DEF HandleSearch
  <2> QED BY <2>0, <2>1, TypedKeeps
<1>6. CASE key \notin Moves /\ ~(key = "Enter" /\ p.cursor < Len(p.results)) /\ key \notin Chars
           /\ key # "Toggle" /\ key # "Backspace"
  <2>1. HandleSearch(p, key, Chars) = Ignored(p)
    BY <1>6, Zenon DEF HandleSearch
  <2> QED BY <2>1, KeptByNone
<1> QED BY <1>1, <1>2, <1>3, <1>4, <1>5, <1>6

\* A library in range makes a picker in range.
LEMMA LibraryOf ==
  ASSUME NEW p \in Pickers, CursorsInRange(p), NEW lib,
         lib \in [category : Subjects, items : Lists, cursor : Nat],
         lib.cursor = 0 \/ lib.cursor \in 0 .. (IF lib.category = NoCategory
                                                THEN Len(Categories) ELSE Len(lib.items)) - 1,
         NEW q, q = [p EXCEPT !.library = lib]
  PROVE  q \in Pickers /\ CursorsInRange(q) /\ q.results = p.results /\ q.query = p.query
<1>1. q \in Pickers /\ q.library = lib /\ q.radio = p.radio /\ q.results = p.results
      /\ q.query = p.query /\ q.cursor = p.cursor
  BY DEF Pickers
<1> QED BY <1>1 DEF CursorsInRange

\* The library tab: the chooser of a category and the items of one.
LEMMA LibraryKeeps ==
  ASSUME NEW p \in Pickers, CursorsInRange(p), NEW key
  PROVE  Kept(p, HandleLibrary(p, key))
<1> DEFINE lib == p.library
           n == IF lib.category = NoCategory THEN Len(Categories) ELSE Len(lib.items)
           m == [lib EXCEPT !.cursor = Move(key, lib.cursor, n)]
<1>1. lib \in [category : Subjects, items : Lists, cursor : Nat] /\ n \in Nat
      /\ (lib.cursor = 0 \/ lib.cursor \in 0 .. n - 1)
  BY CategoriesAre DEF Pickers, Lists, CursorsInRange
<1>2. ASSUME n # 0
      PROVE  Kept(p, Moved([p EXCEPT !.library = m]))
  <2>1. Move(key, lib.cursor, n) \in 0 .. n - 1
    <3>1. lib.cursor \in Nat
      BY <1>1
    <3> HIDE DEF n, lib
    <3> QED BY <1>1, <1>2, <3>1, MoveFacts
  <2>2. m \in [category : Subjects, items : Lists, cursor : Nat]
        /\ m.category = lib.category /\ m.items = lib.items /\ m.cursor \in 0 .. n - 1
    BY <1>1, <2>1
  <2>3. m.cursor \in 0 .. (IF m.category = NoCategory THEN Len(Categories) ELSE Len(m.items)) - 1
    BY <2>2
  <2> DEFINE q == [p EXCEPT !.library = m]
  <2> HIDE DEF m, n, lib
  <2>4. q \in Pickers /\ CursorsInRange(q) /\ q.results = p.results /\ q.query = p.query
    BY <2>2, <2>3, LibraryOf
  <2>5. "Moved" # "BrowseLibrary"
    OBVIOUS
  <2> HIDE DEF q
  <2>6. Kept(p, Moved(q))
    BY <2>4, <2>5, KeptByAct, Zenon DEF Moved
  <2> QED BY <2>6 DEF q
<1>3. CASE lib.category = NoCategory
  <2>0. HandleLibrary(p, key) = HandleChooser(p, key) /\ n = Len(Categories)
    BY <1>3, Zenon DEF HandleLibrary
  <2>1. CASE key \in Moves
    <3>1. key # "Enter"
      BY <2>1 DEF Moves
    <3>2. HandleChooser(p, key)
            = Moved([p EXCEPT !.library.cursor = Move(key, @, Len(Categories))])
      BY <2>1, <3>1, Zenon DEF HandleChooser
    <3>3. [p EXCEPT !.library.cursor = Move(key, @, Len(Categories))] = [p EXCEPT !.library = m]
      BY <2>0
    <3>4. n # 0
      <4>1. Len(Categories) = 4
        BY CategoriesAre
      <4> HIDE DEF n
      <4> QED BY <2>0, <4>1
    <3> QED BY <1>2, <2>0, <3>2, <3>3, <3>4
  <2>2. CASE key = "Enter"
    <3> DEFINE c == Categories[lib.cursor + 1]
               r == Result(p, [do |-> "BrowseLibrary", category |-> c])
    <3>1. key \notin Moves
      BY <2>2 DEF Moves
    <3>2. HandleChooser(p, key) = r
      BY <2>2, <3>1, Zenon DEF HandleChooser
    <3>3. lib.cursor \in 0 .. 3
      <4>1. Len(Categories) = 4
        BY CategoriesAre
      <4>2. lib.cursor \in Nat
        BY <1>1
      <4> HIDE DEF n, lib
      <4> QED BY <1>1, <2>0, <4>1, <4>2
    <3>4. c \in Subjects
      BY <3>3, CategoriesAre
    <3> HIDE DEF c, lib
    <3>5. r.picker = p /\ r.action.do = "BrowseLibrary" /\ r.action.category = c
      BY DEF Result
    <3>6. "BrowseLibrary" # "SearchDirty"
      OBVIOUS
    <3> HIDE DEF r
    <3> QED BY <2>0, <3>2, <3>4, <3>5, <3>6, Zenon DEF Kept
  <2>3. CASE key \notin Moves /\ key # "Enter"
    <3>1. HandleChooser(p, key) = Ignored(p)
      BY <2>3, Zenon DEF HandleChooser
    <3> QED BY <2>0, <3>1, KeptByNone, Zenon
  <2> QED BY <2>1, <2>2, <2>3
<1>4. CASE lib.category # NoCategory
  <2>0. HandleLibrary(p, key) = HandleItems(p, key) /\ n = Len(lib.items)
    BY <1>4, Zenon DEF HandleLibrary
  <2>1. CASE key \in Moves
    <3>0. key # "Enter"
      BY <2>1 DEF Moves
    <3>1. HandleItems(p, key)
            = Moved(IF lib.items = <<>> THEN p
                    ELSE [p EXCEPT !.library.cursor = Move(key, @, Len(lib.items))])
      BY <2>1, <3>0, Zenon DEF HandleItems
    <3>2. CASE lib.items = <<>>
      BY <2>0, <3>1, <3>2, KeptByNone, Zenon
    <3>3. CASE lib.items # <<>>
      <4>1. [p EXCEPT !.library.cursor = Move(key, @, Len(lib.items))] = [p EXCEPT !.library = m]
        BY <2>0
      <4>2. n # 0
        BY <1>1, <2>0, <3>3 DEF Lists
      <4>3. HandleItems(p, key) = Moved([p EXCEPT !.library = m])
        BY <3>1, <3>3, <4>1
      <4> QED BY <1>2, <2>0, <4>2, <4>3
    <3> QED BY <3>2, <3>3
  <2>2. CASE key = "Enter" /\ lib.cursor < Len(lib.items)
    <3>0. key \notin Moves
      BY <2>2 DEF Moves
    <3> DEFINE item == lib.items[lib.cursor + 1]
    <3>1. HandleItems(p, key)
            = IF item.kind = "playlist" /\ lib.category = "playlists"
              THEN Result(p, [do |-> "BrowsePlaylist", item |-> item]) ELSE Plays(p, item)
      BY <2>2, <3>0, Zenon DEF HandleItems
    <3>2. \A i : [do |-> "PickSpotify", item |-> i].do
                   \in {"Pick", "PickSpotify", "BrowsePlaylist"}
                 /\ [do |-> "BrowsePlaylist", item |-> i].do
                      \in {"Pick", "PickSpotify", "BrowsePlaylist"}
      OBVIOUS
    <3>3. \A i : Kept(p, Plays(p, i)) /\ Kept(p, Result(p, [do |-> "BrowsePlaylist", item |-> i]))
      BY <3>2, KeptByPick DEF Plays
    <3> QED BY <2>0, <3>1, <3>3
  <2>3. CASE key \notin Moves /\ ~(key = "Enter" /\ lib.cursor < Len(lib.items))
    <3>1. HandleItems(p, key) = Ignored(p)
      BY <2>3, Zenon DEF HandleItems
    <3> QED BY <2>0, <3>1, KeptByNone, Zenon
  <2> QED BY <2>1, <2>2, <2>3
<1> QED BY <1>3, <1>4

\* Another tab.
LEMMA TabKeeps ==
  ASSUME NEW p \in Pickers, CursorsInRange(p)
  PROVE  /\ \A tab \in TabNames : Kept(p, Enters(p, tab))
         /\ Kept(p, NextTab(p))
<1>1. \A tab \in TabNames : Kept(p, Enters(p, tab))
  <2> SUFFICES ASSUME NEW tab \in TabNames PROVE Kept(p, Enters(p, tab))
    OBVIOUS
  <2> DEFINE q == [p EXCEPT !.tab = tab]
             name == IF tab = "settings" /\ p.tab # tab THEN "ReadConfig" ELSE "Moved"
  <2>1. q \in Pickers /\ q.results = p.results /\ q.query = p.query /\ CursorsInRange(q)
    BY DEF Pickers, CursorsInRange
  <2>2. name # "BrowseLibrary"
    OBVIOUS
  <2>3. Enters(p, tab) = Result(q, Act(name))
    BY DEF Enters
  <2> HIDE DEF q, name
  <2> QED BY <2>1, <2>2, <2>3, KeptByAct
<1>2. Kept(p, NextTab(p))
  <2> DEFINE i == CHOOSE j \in 0 .. 3 : Tabs[j + 1] = p.tab
  <2>1. \E j \in 0 .. 3 : Tabs[j + 1] = p.tab
    <3>1. p.tab \in {"radio", "search", "library", "settings"}
      BY DEF Pickers, TabNames
    <3>2. Tabs[0 + 1] = "radio" /\ Tabs[1 + 1] = "search" /\ Tabs[2 + 1] = "library"
          /\ Tabs[3 + 1] = "settings"
      BY DEF Tabs
    <3> QED BY <3>1, <3>2
  <2>2. i \in 0 .. 3
    BY <2>1
  <2>3. Down(i, 4) \in 0 .. 3
    <3> HIDE DEF i
    <3> QED BY <2>2, Remainder DEF Down
  <2>4. Tabs[1 + Down(i, 4)] \in TabNames
    <3> HIDE DEF i
    <3>1. 1 + Down(i, 4) = Down(i, 4) + 1
      BY <2>3
    <3> QED BY <2>3, <3>1, TabsAre
  <2>5. NextTab(p) = Enters(p, Tabs[1 + Down(i, 4)])
    BY DEF NextTab
  <2> HIDE DEF i
  <2> QED BY <1>1, <2>4, <2>5
<1> QED BY <1>1, <1>2

\* Escape clears the query, leaves a category, or hides the picker.
LEMMA EscapeKeeps ==
  ASSUME NEW p \in Pickers, CursorsInRange(p)
  PROVE  Kept(p, Escape(p))
<1>1. CASE p.tab = "search" /\ p.query # <<>>
  <2> DEFINE q == [p EXCEPT !.query = <<>>, !.cursor = 0]
  <2>1. p.tab # "library"
    BY <1>1
  <2>2. Escape(p) = Searches(q)
    BY <1>1, <2>1, Zenon DEF Escape
  <2>3. q \in Pickers /\ q.results = p.results /\ q.cursor = 0 /\ q.radio = p.radio
        /\ q.library = p.library
    <3>1. <<>> \in Questions
      BY DEF Questions
    <3> QED BY <3>1 DEF Pickers
  <2> HIDE DEF q
  <2>4. CursorsInRange(q)
    BY <2>3 DEF CursorsInRange
  <2> QED BY <2>2, <2>3, <2>4, KeptBySearch
<1>2. CASE p.tab = "library" /\ p.library.category # NoCategory
  <2> DEFINE q == [p EXCEPT !.library = Chooser]
  <2>1. p.tab # "search"
    BY <1>2
  <2>2. Escape(p) = Moved(q)
    BY <1>2, <2>1, Zenon DEF Escape
  <2>3. Chooser \in [category : Subjects, items : Lists, cursor : Nat] /\ Chooser.cursor = 0
    BY DEF Chooser, Subjects, Lists
  <2>4. q \in Pickers /\ CursorsInRange(q) /\ q.results = p.results /\ q.query = p.query
    BY <2>3, LibraryOf
  <2>5. "Moved" # "BrowseLibrary"
    OBVIOUS
  <2> HIDE DEF q
  <2> QED BY <2>2, <2>4, <2>5, KeptByAct, Zenon DEF Moved
<1>3. CASE ~(p.tab = "search" /\ p.query # <<>>)
           /\ ~(p.tab = "library" /\ p.library.category # NoCategory)
  <2>1. Escape(p) = Hides(p)
    BY <1>3, Zenon DEF Escape
  <2> QED BY <2>1, KeptByNone, Zenon
<1> QED BY <1>1, <1>2, <1>3

\* What the events set, of a picker.
LEMMA SetFacts ==
  ASSUME NEW p \in Pickers, CursorsInRange(p)
  PROVE  /\ \A on \in BOOLEAN : LET q == [p EXCEPT !.visible = on] IN
              q \in Pickers /\ CursorsInRange(q) /\ q.results = p.results /\ q.query = p.query
         /\ \A status \in Statuses : LET q == [p EXCEPT !.settings = status] IN
              q \in Pickers /\ CursorsInRange(q) /\ q.results = p.results /\ q.query = p.query
         /\ \A q \in {SetAuthStarted(p), SetAuthOver(p), TickAuthDeadline(p),
                      HandleDaemonReconnected(p)} :
              q \in Pickers /\ CursorsInRange(q) /\ q.results = p.results /\ q.query = p.query
<1>1. \A on \in BOOLEAN : LET q == [p EXCEPT !.visible = on] IN
        q \in Pickers /\ CursorsInRange(q) /\ q.results = p.results /\ q.query = p.query
  BY DEF Pickers, CursorsInRange
<1>2. \A status \in Statuses : LET q == [p EXCEPT !.settings = status] IN
        q \in Pickers /\ CursorsInRange(q) /\ q.results = p.results /\ q.query = p.query
  BY DEF Pickers, CursorsInRange
<1>3. ASSUME NEW on \in BOOLEAN, NEW q, q = [p EXCEPT !.auth = on, !.since = on]
      PROVE  q \in Pickers /\ CursorsInRange(q) /\ q.results = p.results /\ q.query = p.query
  BY <1>3 DEF Pickers, CursorsInRange
<1>4. \A q \in {SetAuthStarted(p), SetAuthOver(p)} :
        q \in Pickers /\ CursorsInRange(q) /\ q.results = p.results /\ q.query = p.query
  BY <1>3 DEF SetAuthStarted, SetAuthOver
<1>5. {TickAuthDeadline(p), HandleDaemonReconnected(p)} \subseteq {p, SetAuthOver(p)}
  BY DEF TickAuthDeadline, HandleDaemonReconnected
<1>6. \A q \in {SetAuthStarted(p), SetAuthOver(p), TickAuthDeadline(p),
                HandleDaemonReconnected(p)} :
        q \in Pickers /\ CursorsInRange(q) /\ q.results = p.results /\ q.query = p.query
  BY <1>4, <1>5
<1> QED BY <1>1, <1>2, <1>6

\* Answers: results, and what is in a category.
LEMMA AnswerFacts ==
  ASSUME NEW p \in Pickers, CursorsInRange(p), NEW items \in Lists
  PROVE  /\ LET q == SetSearchResults(p, items) IN
              q \in Pickers /\ CursorsInRange(q) /\ q.results = items /\ q.query = p.query
         /\ \A category \in Subjects : LET q == SetLibraryItems(p, category, items) IN
              q \in Pickers /\ CursorsInRange(q) /\ q.results = p.results /\ q.query = p.query
<1>1. LET q == SetSearchResults(p, items) IN
        q \in Pickers /\ CursorsInRange(q) /\ q.results = items /\ q.query = p.query
  <2> DEFINE c == IF items = <<>> THEN 0 ELSE Least(p.cursor, Len(items) - 1)
             q == SetSearchResults(p, items)
  <2>1. c \in Nat /\ (c = 0 \/ c \in 0 .. Len(items) - 1)
    <3>1. items # <<>> => Len(items) \in Nat \ {0}
      BY DEF Lists
    <3>2. p.cursor \in Nat
      BY DEF Pickers
    <3> QED BY <3>1, <3>2 DEF Least
  <2>2. q = [p EXCEPT !.cursor = c, !.results = items]
    BY DEF SetSearchResults
  <2> HIDE DEF c, q
  <2>3. q \in Pickers /\ q.results = items /\ q.query = p.query /\ q.cursor = c
        /\ q.radio = p.radio /\ q.library = p.library
    BY <2>1, <2>2 DEF Pickers
  <2>4. CursorsInRange(q)
    BY <2>1, <2>3 DEF CursorsInRange
  <2> QED BY <2>3, <2>4 DEF q
<1>2. ASSUME NEW category \in Subjects
      PROVE  LET q == SetLibraryItems(p, category, items) IN
               q \in Pickers /\ CursorsInRange(q) /\ q.results = p.results /\ q.query = p.query
  <2> DEFINE lib == [category |-> category, items |-> items, cursor |-> 0]
  <2>1. lib \in [category : Subjects, items : Lists, cursor : Nat] /\ lib.cursor = 0
    OBVIOUS
  <2>2. SetLibraryItems(p, category, items) = [p EXCEPT !.library = lib]
    BY DEF SetLibraryItems
  <2> HIDE DEF lib
  <2> QED BY <2>1, <2>2, LibraryOf
<1> QED BY <1>1, <1>2

\* The settings tab.
LEMMA SettingsKeep ==
  ASSUME NEW p \in Pickers, CursorsInRange(p), NEW key
  PROVE  Kept(p, HandleSettings(p, key))
<1>0. "ReadConfig" # "BrowseLibrary" /\ "StartAuth" # "BrowseLibrary" /\ "Enter" # "a"
  OBVIOUS
<1>1. CASE key = "Enter"
  <2>1. HandleSettings(p, key) = Result(p, Act("ReadConfig"))
    BY <1>0, <1>1, Zenon DEF HandleSettings
  <2> QED BY <1>0, <2>1, KeptByAct
<1>2. CASE key = "a" /\ ~p.auth /\ p.settings # "loggedIn"
  <2>1. HandleSettings(p, key) = Result(SetAuthStarted(p), Act("StartAuth"))
    BY <1>0, <1>2, Zenon DEF HandleSettings
  <2>2. SetAuthStarted(p) \in Pickers /\ CursorsInRange(SetAuthStarted(p))
        /\ SetAuthStarted(p).results = p.results /\ SetAuthStarted(p).query = p.query
    BY SetFacts
  <2> QED BY <1>0, <2>1, <2>2, KeptByAct
<1>3. CASE key # "Enter" /\ ~(key = "a" /\ ~p.auth /\ p.settings # "loggedIn")
  <2>1. HandleSettings(p, key) = Ignored(p)
    BY <1>3, Zenon DEF HandleSettings
  <2> QED BY <2>1, KeptByNone, Zenon
<1> QED BY <1>1, <1>2, <1>3

\* A key in the picker that is shown.
LEMMA VisibleKeeps ==
  ASSUME NEW p \in Pickers, CursorsInRange(p), NEW key, NEW steps \in 1 .. 3
  PROVE  Kept(p, HandleVisible(p, key, Chars, steps))
<1> DEFINE digit == key \in {"1", "2", "3", "4"} /\ p.tab # "search"
           toggle == key = "Toggle" /\ p.tab # "search"
           r == HandleVisible(p, key, Chars, steps)
<1> SUFFICES Kept(p, r)
  OBVIOUS
<1>0. key \in {"1", "2", "3", "4"} => key \notin {"Quit", "Tab", "Toggle", "Escape"}
  OBVIOUS
<1>1. CASE key = "Quit"
  <2>0. key \notin {"1", "2", "3", "4"} /\ key # "Tab" /\ key # "Toggle" /\ key # "Escape"
    BY <1>1
  <2>1. r = Result(p, Act("Quit"))
    BY <1>1, <2>0, Zenon DEF HandleVisible
  <2>2. "Quit" # "BrowseLibrary"
    OBVIOUS
  <2> HIDE DEF r
  <2> QED BY <2>1, <2>2, KeptByAct
<1>2. CASE key = "Tab"
  <2>0. key \notin {"1", "2", "3", "4"} /\ key # "Quit" /\ key # "Toggle" /\ key # "Escape"
    BY <1>2
  <2>1. r = NextTab(p)
    BY <1>2, <2>0, Zenon DEF HandleVisible
  <2> HIDE DEF r
  <2> QED BY <2>1, TabKeeps
<1>3. CASE digit
  <2> DEFINE tab == CASE key = "1" -> "radio" [] key = "2" -> "search"
                      [] key = "3" -> "library" [] key = "4" -> "settings"
  <2>0. key # "Quit" /\ key # "Tab" /\ key # "Toggle" /\ key # "Escape"
    BY <1>0, <1>3
  <2>1. r = Enters(p, tab)
    BY <1>3, <2>0, Zenon DEF HandleVisible
  <2>2. tab \in TabNames
    <3>1. "1" # "2" /\ "1" # "3" /\ "1" # "4" /\ "2" # "3" /\ "2" # "4" /\ "3" # "4"
      OBVIOUS
    <3>2. CASE key = "1"
      <4>1. tab = "radio"
        BY <3>1, <3>2, Zenon
      <4> QED BY <4>1 DEF TabNames
    <3>3. CASE key = "2"
      <4>1. tab = "search"
        BY <3>1, <3>3, Zenon
      <4> QED BY <4>1 DEF TabNames
    <3>4. CASE key = "3"
      <4>1. tab = "library"
        BY <3>1, <3>4, Zenon
      <4> QED BY <4>1 DEF TabNames
    <3>5. CASE key = "4"
      <4>1. tab = "settings"
        BY <3>1, <3>5, Zenon
      <4> QED BY <4>1 DEF TabNames
    <3> QED BY <1>3, <3>2, <3>3, <3>4, <3>5
  <2> HIDE DEF r, tab
  <2> QED BY <2>1, <2>2, TabKeeps
<1>4. CASE toggle
  <2>0. key \notin {"1", "2", "3", "4"} /\ key # "Quit" /\ key # "Tab" /\ key # "Escape"
    BY <1>4
  <2>1. r = Hides(p)
    BY <1>4, <2>0, Zenon DEF HandleVisible
  <2> HIDE DEF r
  <2> QED BY <2>1, KeptByNone
<1>5. CASE key = "Escape"
  <2>0. key \notin {"1", "2", "3", "4"} /\ key # "Quit" /\ key # "Tab" /\ key # "Toggle"
    BY <1>5
  <2>1. r = Escape(p)
    BY <1>5, <2>0, Zenon DEF HandleVisible
  <2> HIDE DEF r
  <2> QED BY <2>1, EscapeKeeps
<1>6. CASE key # "Quit" /\ key # "Tab" /\ ~digit /\ ~toggle /\ key # "Escape"
  <2>0. p.tab \in TabNames
    BY DEF Pickers
  <2>1. r = CASE p.tab = "radio" -> HandleRadio(p, key, steps)
              [] p.tab = "search" -> HandleSearch(p, key, Chars)
              [] p.tab = "library" -> HandleLibrary(p, key)
              [] p.tab = "settings" -> HandleSettings(p, key)
    BY <1>6, Zenon DEF HandleVisible
  <2> HIDE DEF r
  <2>2. "radio" # "search" /\ "radio" # "library" /\ "radio" # "settings"
        /\ "search" # "library" /\ "search" # "settings" /\ "library" # "settings"
    OBVIOUS
  <2>3. CASE p.tab = "radio"
    <3>1. r = HandleRadio(p, key, steps)
      BY <2>1, <2>2, <2>3, Zenon
    <3> QED BY <3>1, RadioKeeps
  <2>4. CASE p.tab = "search"
    <3>1. r = HandleSearch(p, key, Chars)
      BY <2>1, <2>2, <2>4, Zenon
    <3> QED BY <3>1, SearchKeeps
  <2>5. CASE p.tab = "library"
    <3>1. r = HandleLibrary(p, key)
      BY <2>1, <2>2, <2>5, Zenon
    <3> QED BY <3>1, LibraryKeeps
  <2>6. CASE p.tab = "settings"
    <3>1. r = HandleSettings(p, key)
      BY <2>1, <2>2, <2>6, Zenon
    <3> QED BY <3>1, SettingsKeep
  <2> QED BY <2>0, <2>3, <2>4, <2>5, <2>6 DEF TabNames
<1> QED BY <1>1, <1>2, <1>3, <1>4, <1>5, <1>6

\* A key, whether the picker is shown or hidden.
LEMMA KeyFacts ==
  ASSUME NEW p \in Pickers, CursorsInRange(p), NEW key, NEW steps \in 1 .. 3
  PROVE  Kept(p, HandleKey(p, key, Chars, steps))
<1>1. CASE p.visible
  <2>1. HandleKey(p, key, Chars, steps) = HandleVisible(p, key, Chars, steps)
    BY <1>1, Zenon DEF HandleKey
  <2> QED BY <2>1, VisibleKeeps
<1>2. CASE ~p.visible /\ key = "Toggle"
  <2>1. HandleKey(p, key, Chars, steps) = Moved([p EXCEPT !.visible = TRUE])
    BY <1>2, Zenon DEF HandleKey
  <2> DEFINE q == [p EXCEPT !.visible = TRUE]
  <2>2. q \in Pickers /\ CursorsInRange(q) /\ q.results = p.results /\ q.query = p.query
    BY SetFacts
  <2>3. "Moved" # "BrowseLibrary"
    OBVIOUS
  <2> HIDE DEF q
  <2>4. Kept(p, Moved(q))
    BY <2>2, <2>3, KeptByAct, Zenon DEF Moved
  <2> QED BY <2>1, <2>4 DEF q
<1>3. CASE ~p.visible /\ key # "Toggle"
  <2>1. HandleKey(p, key, Chars, steps) = Ignored(p)
    BY <1>3, Zenon DEF HandleKey
  <2> QED BY <2>1, KeptByNone, Zenon
<1> QED BY <1>1, <1>2, <1>3

-----------------------------------------------------------------------------
(* The command bar and the carousel.                                       *)

\* What happens to the command bar: it stays of its type, and closes when its own
\* visualiser comes up or by Escape only.
LEMMA BarFacts ==
  ASSUME NEW b \in Bars
  PROVE  /\ NewBar \in Bars /\ Open(b) \in Bars
         /\ Expire(b) \in Bars /\ (b.active => Expire(b).active)
         /\ \A name : OnVizChanged(b, name) \in Bars
                      /\ (b.active => OnVizChanged(b, name).active \/ b.pending = name)
         /\ \A message \in Messages : SetError(b, message) \in Bars
                                      /\ SetError(b, message).active = b.active
<1>1. NewBar \in Bars
  <2>1. <<>> \in Seq(Letters) /\ Nothing \in Messages /\ Nothing \in Vizs \union {Nothing}
    BY DEF Messages
  <2> HIDE DEF Nothing
  <2> QED BY <2>1 DEF NewBar, Bars
<1>2. Open(b) \in Bars
  BY <1>1 DEF Open, Bars
<1>3. \A message \in Messages : SetError(b, message) \in Bars
                                /\ SetError(b, message).active = b.active
  BY DEF SetError, Bars
<1>4. "daemon not responding" \in Messages
  BY DEF Messages
<1>5. Expire(b) \in Bars /\ (b.active => Expire(b).active)
  BY <1>3, <1>4 DEF Expire
<1>6. \A name : OnVizChanged(b, name) \in Bars
                /\ (b.active => OnVizChanged(b, name).active \/ b.pending = name)
  BY <1>1 DEF OnVizChanged
<1> QED BY <1>1, <1>2, <1>3, <1>5, <1>6

\* A key in the command bar.
LEMMA BarKeyFacts ==
  ASSUME NEW b \in Bars, NEW key, NEW outcome \in Vizs \union {Nothing, "error"}
  PROVE  /\ BarKey(b, key, Chars, outcome) \in Bars
         /\ b.active => key = "Escape" \/ BarKey(b, key, Chars, outcome).active
<1> DEFINE r == BarKey(b, key, Chars, outcome)
<1> SUFFICES r \in Bars /\ (b.active => key = "Escape" \/ r.active)
  OBVIOUS
<1>a. key \in Chars => key \notin {"Enter", "Toggle", "Backspace", "Escape", "Quit", "Tab"}
  BY CharsApart
<1>b. "s" \in Letters /\ "q" \in Letters /\ (key \in Chars => key \in Letters)
  BY DEF Letters
<1>c. \A c \in Letters : Insert(b, c) \in Bars /\ Insert(b, c).active = b.active
  <2> SUFFICES ASSUME NEW c \in Letters
           PROVE  Insert(b, c) \in Bars /\ Insert(b, c).active = b.active
    OBVIOUS
  <2>1. b.buffer \in Seq(Letters) /\ Nothing \in Messages
    BY DEF Bars, Messages
  <2>2. Append(b.buffer, c) \in Seq(Letters)
    BY <2>1
  <2>3. Insert(b, c) = [b EXCEPT !.buffer = Append(b.buffer, c), !.error = Nothing]
    BY DEF Insert
  <2> QED BY <2>1, <2>2, <2>3 DEF Bars
<1>1. CASE key = "Escape"
  <2>0. key \notin {"Enter", "Backspace", "Toggle", "Quit"} /\ key \notin Chars
    BY <1>1, <1>a
  <2>1. r = Cancel(b)
    BY <1>1, <2>0, Zenon DEF BarKey
  <2> HIDE DEF r
  <2> QED BY <1>1, <2>1, BarFacts DEF Cancel
<1>2. CASE key = "Enter"
  <2>0. key \notin {"Escape", "Backspace", "Toggle", "Quit"} /\ key \notin Chars
    BY <1>2, <1>a
  <2>1. r = Submit(b, outcome)
    BY <1>2, <2>0, Zenon DEF BarKey
  <2> HIDE DEF r
  <2>2. CASE outcome = Nothing
    <3>1. outcome # "error"
      BY <2>2 DEF Nothing
    <3>2. r = b
      BY <2>1, <2>2, <3>1, Zenon DEF Submit
    <3> QED BY <3>2
  <2>3. CASE outcome = "error"
    <3>1. outcome # Nothing
      BY <2>3 DEF Nothing
    <3>2. r = [b EXCEPT !.error = "no match"]
      BY <2>1, <2>3, <3>1, Zenon DEF Submit
    <3>3. "no match" \in Messages
      BY DEF Messages
    <3> QED BY <3>2, <3>3 DEF Bars
  <2>4. CASE outcome # Nothing /\ outcome # "error"
    <3>1. r = [b EXCEPT !.pending = outcome]
      BY <2>1, <2>4, Zenon DEF Submit
    <3>2. outcome \in Vizs \union {Nothing}
      BY <2>4
    <3> QED BY <3>1, <3>2 DEF Bars
  <2> QED BY <2>2, <2>3, <2>4
<1>3. CASE key = "Backspace"
  <2>0. key \notin {"Escape", "Enter", "Toggle", "Quit"} /\ key \notin Chars
    BY <1>3, <1>a
  <2>1. r = Erase(b)
    BY <1>3, <2>0, Zenon DEF BarKey
  <2> HIDE DEF r
  <2> DEFINE buffer == IF b.buffer = <<>> THEN b.buffer ELSE Front(b.buffer)
  <2>2. buffer \in Seq(Letters)
    <3>1. b.buffer \in Seq(Letters)
      BY DEF Bars
    <3> QED BY <3>1 DEF Front
  <2>3. Erase(b) = [b EXCEPT !.buffer = buffer, !.error = Nothing]
    BY DEF Erase
  <2>4. Nothing \in Messages
    BY DEF Messages
  <2> HIDE DEF buffer
  <2> QED BY <2>1, <2>2, <2>3, <2>4 DEF Bars
<1>4. CASE key \in Chars
  <2>1. r = Insert(b, key)
    BY <1>4, <1>a, Zenon DEF BarKey
  <2> HIDE DEF r
  <2> QED BY <1>4, <1>b, <1>c, <2>1
<1>5. CASE key = "Toggle"
  <2>0. key \notin {"Escape", "Enter", "Backspace", "Quit"} /\ key \notin Chars
    BY <1>5, <1>a
  <2>1. r = Insert(b, "s")
    BY <1>5, <2>0, Zenon DEF BarKey
  <2> HIDE DEF r
  <2> QED BY <1>b, <1>c, <2>1
<1>6. CASE key = "Quit"
  <2>0. key \notin {"Escape", "Enter", "Backspace", "Toggle"} /\ key \notin Chars
    BY <1>6, <1>a
  <2>1. r = Insert(b, "q")
    BY <1>6, <2>0, Zenon DEF BarKey
  <2> HIDE DEF r
  <2> QED BY <1>b, <1>c, <2>1
<1>7. CASE key \notin {"Escape", "Enter", "Backspace", "Toggle", "Quit"} /\ key \notin Chars
  <2>1. r = b
    BY <1>7, Zenon DEF BarKey
  <2> HIDE DEF r
  <2> QED BY <2>1
<1> QED BY <1>1, <1>2, <1>3, <1>4, <1>5, <1>6, <1>7

\* Turning the carousel stays in it.
LEMMA TurnFacts ==
  /\ Carousel[1] \in Vizs
  /\ \A name \in Vizs, by \in {1, -1} : Turn(name, by) \in Vizs
<1>1. Modes \in 1 .. 22
  BY BoundAssumption
<1>2. Catalogue \in Seq({Catalogue[i] : i \in 1 .. 22}) /\ Len(Catalogue) = 22
  <2>1. Len(Catalogue) = 22 /\ DOMAIN Catalogue = 1 .. 22
    BY DEF Catalogue
  <2>2. Catalogue = [i \in 1 .. 22 |-> Catalogue[i]]
    BY DEF Catalogue
  <2> HIDE DEF Catalogue
  <2> QED BY <2>1, <2>2
<1>3. DOMAIN Carousel = 1 .. Modes
  BY <1>1, <1>2 DEF Carousel
<1>4. \A i \in 1 .. Modes : Carousel[i] \in Vizs
  BY <1>3 DEF Vizs, ToSet
<1>5. \A name \in Vizs : \E i \in 1 .. Modes : Carousel[i] = name
  BY <1>3 DEF Vizs, ToSet
<1>6. ASSUME NEW name \in Vizs, NEW by \in {1, -1}
      PROVE  Turn(name, by) \in Vizs
  <2> DEFINE i == CHOOSE j \in 1 .. Modes : Carousel[j] = name
  <2>1. i \in 1 .. Modes
    BY <1>5
  <2>2. Turn(name, by) = Carousel[((i - 1 + by + Modes) % Modes) + 1]
    BY DEF Turn
  <2> HIDE DEF i
  <2>3. (i - 1 + by + Modes) % Modes \in 0 .. Modes - 1
    <3>1. i - 1 + by + Modes \in Int /\ Modes \in Nat \ {0}
      BY <1>1, <1>6, <2>1
    <3> QED BY <3>1, Remainder
  <2>4. ((i - 1 + by + Modes) % Modes) + 1 \in 1 .. Modes
    BY <1>1, <2>3
  <2> QED BY <1>4, <2>2, <2>4
<1>7. Carousel[1] \in Vizs
  BY <1>1, <1>4
<1> QED BY <1>6, <1>7

-----------------------------------------------------------------------------
(* The channels.                                                           *)

\* An event carries what its type says.
LEMMA EventFacts ==
  ASSUME NEW e \in Events
  PROVE  /\ e.type \in {"RadioState", "SourceError", "DaemonShuttingDown", "AuthStarted",
                        "AuthCompleted", "AuthFailed", "VizChanged", "SearchResults",
                        "LibraryResults", "ConfigSnapshot"}
         /\ e.type = "VizChanged" => e.name \in Vizs
         /\ e.type = "SearchResults" => e.query \in Asked /\ e.items \in Lists
         /\ e.type = "LibraryResults" => e.category \in Subjects /\ e.items \in Lists
         /\ e.type = "ConfigSnapshot" => e.status \in Statuses
BY DEF Events

\* So does a verb.
LEMMA VerbFacts ==
  ASSUME NEW v \in Requested
  PROVE  /\ v.verb \in {"SourceRadio", "SourceSpotify", "BrowsePlaylist", "ReadConfig",
                        "StartAuth", "Viz", "Search", "BrowseLibrary"}
         /\ v.verb = "Viz" => v.name \in Vizs
         /\ v.verb = "Search" => v.query \in Asked
         /\ v.verb = "BrowseLibrary" => v.category \in Subjects
BY DEF Requested

\* The verbs that have no argument, and those that have one.
LEMMA VerbsAre ==
  /\ \A name \in {"SourceRadio", "SourceSpotify", "BrowsePlaylist", "ReadConfig", "StartAuth"} :
       Verb(name) \in Requested
  /\ \A name \in Vizs : [verb |-> "Viz", name |-> name] \in Requested
  /\ \A q \in Asked : [verb |-> "Search", query |-> q] \in Requested
  /\ \A c \in Subjects : [verb |-> "BrowseLibrary", category |-> c] \in Requested
BY DEF Requested, Verb

\* Of the events, those the daemon and other clients make.
LEMMA EventsAre ==
  /\ \A t \in {"RadioState", "SourceError", "DaemonShuttingDown", "AuthStarted", "AuthCompleted",
               "AuthFailed"} : [type |-> t] \in Events
  /\ \A name \in Vizs : [type |-> "VizChanged", name |-> name] \in Events
  /\ \A q \in Asked, l \in Lists : [type |-> "SearchResults", query |-> q, items |-> l] \in Events
  /\ \A c \in Subjects, l \in Lists :
       [type |-> "LibraryResults", category |-> c, items |-> l] \in Events
  /\ \A st \in Statuses : [type |-> "ConfigSnapshot", status |-> st] \in Events
<1>1. \A t \in {"RadioState", "SourceError", "DaemonShuttingDown", "AuthStarted", "AuthCompleted",
               "AuthFailed"} : [type |-> t] \in Events
  BY DEF Events
<1>2. \A name \in Vizs : [type |-> "VizChanged", name |-> name] \in Events
  BY DEF Events
<1>3. \A q \in Asked, l \in Lists : [type |-> "SearchResults", query |-> q, items |-> l]
                                     \in Events
  BY DEF Events
<1>4. \A c \in Subjects, l \in Lists :
       [type |-> "LibraryResults", category |-> c, items |-> l] \in Events
  BY DEF Events
<1>5. \A st \in Statuses : [type |-> "ConfigSnapshot", status |-> st] \in Events
  BY DEF Events
<1> QED BY <1>1, <1>2, <1>3, <1>4, <1>5

\* Lists of items are lists.
LEMMA ListsAre ==
  /\ \A n \in Nat : /\ Items("track", "search", n) \in Lists
                    /\ Items("track", "playlist", n) \in Lists
  /\ \A c \in Subjects, n \in Nat : LibraryItems(c, n) \in Lists
<1>1. \A kind \in {"track", "playlist"}, of \in Subjects, n \in Nat : Items(kind, of, n) \in Lists
  BY DEF Items, Lists
<1>2. "search" \in Subjects /\ "playlist" \in Subjects
  BY DEF Subjects
<1>3. \A c \in Subjects, n \in Nat : LibraryItems(c, n) \in Lists
  BY <1>1 DEF LibraryItems
<1> QED BY <1>1, <1>2, <1>3

\* A verb that is sent, or dropped because the queue is full.
LEMMA SendKeeps ==
  ASSUME verbs \in Seq(Requested), Len(verbs) <= VerbCapacity, NEW v \in Requested, Send(v)
  PROVE  verbs' \in Seq(Requested) /\ Len(verbs') <= VerbCapacity
<1>1. VerbCapacity \in Nat
  BY BoundAssumption
<1>2. CASE Accepts
  BY <1>1, <1>2 DEF Send, Accepts
<1>3. CASE ~Accepts
  BY <1>3 DEF Send
<1> QED BY <1>2, <1>3

-----------------------------------------------------------------------------
(* The invariant: first the part that speaks of one piece of state.        *)

\* The picker of one piece, without what is armed.
Whole(p) ==
  /\ p \in Pickers /\ CursorsInRange(p)
  /\ Blank(p.query) => p.results = <<>>

\* A picker that shows the same results for the same query is of one piece too.
LEMMA WholeStays ==
  ASSUME NEW p, Whole(p), NEW q \in Pickers, CursorsInRange(q), q.results = p.results,
         q.query = p.query
  PROVE  Whole(q)
BY DEF Whole

\* Initially.
LEMMA InitClientInv == Init => ClientInv
<1> SUFFICES ASSUME Init PROVE ClientInv
  OBVIOUS
<1>1. picker \in Pickers /\ CursorsInRange(picker) /\ SearchInStep
  <2> DEFINE p == NewPicker
  <2>1. p.radio = 0 /\ p.query = <<>> /\ p.results = <<>> /\ p.cursor = 0 /\ p.library = Chooser
    BY DEF NewPicker
  <2>2. Chooser \in [category : Subjects, items : Lists, cursor : Nat] /\ Chooser.cursor = 0
    BY DEF Chooser, Subjects, Lists
  <2>3. <<>> \in Questions /\ <<>> \in Lists /\ "unknown" \in Statuses /\ "radio" \in TabNames
    BY DEF Questions, Lists, Statuses, TabNames
  <2>4. p \in Pickers
    BY <2>2, <2>3 DEF NewPicker, Pickers
  <2>5. CursorsInRange(p)
    <3>1. Stations \in Nat
      BY StationsAssumption
    <3>2. 0 \in 0 .. (IF Stations = 0 THEN 0 ELSE Stations - 1)
      BY <3>1
    <3>3. Chooser.cursor = 0
      BY <2>2
    <3> HIDE DEF p
    <3> QED BY <2>1, <3>2, <3>3, Zenon DEF CursorsInRange
  <2> HIDE DEF p
  <2>6. picker = p /\ debounce = NoQuery
    BY DEF Init, p
  <2>7. p.results = <<>>
    BY <2>1
  <2>8. SearchInStep
    BY <2>6, <2>7 DEF SearchInStep
  <2> QED BY <2>4, <2>5, <2>6, <2>8
<1>2. bar \in Bars
  <2>1. NewBar \in Bars
    <3>1. <<>> \in Seq(Letters) /\ Nothing \in Messages /\ Nothing \in Vizs \union {Nothing}
      BY DEF Messages
    <3> HIDE DEF Nothing
    <3> QED BY <3>1 DEF NewBar, Bars
  <2> QED BY <2>1 DEF Init
<1>3. LoopTyped
  <2>1. viz \in Vizs
    BY TurnFacts DEF Init
  <2>2. 0 \in 0 .. QuitFrames
    BY BoundAssumption
  <2> QED BY <2>1, <2>2 DEF Init, LoopTyped
<1>4. Queued
  BY BoundAssumption DEF Init, Queued
<1> QED BY <1>1, <1>2, <1>3, <1>4 DEF ClientInv, OnScreen

\* The invariant gives what the lemmas on pickers ask for.
LEMMA ClientInvFacts ==
  ASSUME ClientInv
  PROVE  /\ Whole(picker) /\ bar \in Bars
         /\ debounce # NoQuery => debounce = picker.query /\ debounce \in Asked
         /\ verbs \in Seq(Requested) /\ Len(verbs) <= VerbCapacity /\ events \in Seq(Events)
BY DEF ClientInv, OnScreen, Queued, SearchInStep, Whole

\* What the invariant says of the screen, after a step.
LEMMA ScreenNext ==
  ASSUME Whole(picker)', bar' \in Bars,
         (debounce # NoQuery => debounce = picker.query /\ debounce \in Asked)',
         LoopTyped', events' \in Seq(Events), verbs' \in Seq(Requested),
         Len(verbs') <= VerbCapacity
  PROVE  ClientInv'
BY DEF ClientInv, OnScreen, Queued, SearchInStep, Whole

-----------------------------------------------------------------------------
(* The actions of the render loop.                                         *)

\* A key is pressed.
LEMMA PressKeeps ==
  ASSUME ClientInv, NEW k \in Keys, Press(k)
  PROVE  ClientInv' /\ bar' = bar
<1>1. /\ UNCHANGED <<events, verbs, picker, bar, debounce, viz, fade, refresh, quitting>>
      /\ UNCHANGED <<at, flow, authed, link>>
  BY DEF Press, uiVars, daemonVars
<1>2. stop' \in BOOLEAN /\ typist' \in {"runs", "quit"}
  BY DEF Press, Quits, ClientInv, LoopTyped
<1>3. LoopTyped'
  BY <1>1, <1>2 DEF ClientInv, LoopTyped
<1> QED BY <1>1, <1>3, ClientInvFacts, ScreenNext DEF Whole

\* An event is handled.
LEMMA OnEventKeeps ==
  ASSUME ClientInv, OnEvent
  PROVE  /\ ClientInv'
         /\ bar.active /\ ~bar'.active => bar.pending \in Vizs /\ viz' = bar.pending
<1> PICK e \in Events : e = Head(events)
  BY ClientInvFacts DEF OnEvent
<1>1. /\ picker' = PickerAfter(e) /\ refresh' = RefreshAfter(e)
      /\ stop' = (stop \/ e.type = "DaemonShuttingDown")
      /\ events' = Tail(events)
      /\ UNCHANGED <<at, typist, verbs, debounce, quitting, fade, flow, authed, link>>
  BY DEF OnEvent, daemonVars
<1>2. IF e.type = "VizChanged"
      THEN viz' = (IF e.name \in Vizs THEN e.name ELSE viz) /\ bar' = OnVizChanged(bar, e.name)
      ELSE UNCHANGED <<viz, bar>>
  BY DEF OnEvent
<1>3. events' \in Seq(Events)
  <2>1. events \in Seq(Events) /\ events # <<>>
    BY ClientInvFacts DEF OnEvent
  <2> QED BY <1>1, <2>1
<1>4. viz' \in Vizs /\ bar' \in Bars
      /\ (bar.active /\ ~bar'.active => bar.pending \in Vizs /\ viz' = bar.pending)
  <2>1. CASE e.type = "VizChanged"
    <3>1. e.name \in Vizs
      BY <2>1, EventFacts
    <3>2. viz' = e.name /\ bar' = OnVizChanged(bar, e.name)
      BY <1>2, <2>1, <3>1
    <3> QED BY <3>1, <3>2, ClientInvFacts, BarFacts
  <2>2. CASE e.type # "VizChanged"
    <3>1. viz' = viz /\ bar' = bar
      BY <1>2, <2>2
    <3> QED BY <3>1, ClientInvFacts DEF ClientInv, LoopTyped
  <2> QED BY <2>1, <2>2
<1>5. refresh' \in BOOLEAN
  <2>1. "AuthStarted" # "AuthCompleted"
    OBVIOUS
  <2>2. RefreshAfter(e) \in {TRUE, FALSE, refresh}
    <3>1. CASE e.type = "AuthStarted"
      <4>1. RefreshAfter(e) = FALSE
        BY <2>1, <3>1, Zenon DEF RefreshAfter
      <4> QED BY <4>1
    <3>2. CASE e.type = "AuthCompleted"
      <4>1. RefreshAfter(e) = TRUE
        BY <2>1, <3>2, Zenon DEF RefreshAfter
      <4> QED BY <4>1
    <3>3. CASE e.type # "AuthStarted" /\ e.type # "AuthCompleted"
      <4>1. RefreshAfter(e) = refresh
        BY <3>3, Zenon DEF RefreshAfter
      <4> QED BY <4>1
    <3> QED BY <3>1, <3>2, <3>3
  <2>3. refresh \in BOOLEAN
    BY DEF ClientInv, LoopTyped
  <2> QED BY <1>1, <2>2, <2>3
<1>6. LoopTyped'
  BY <1>1, <1>4, <1>5 DEF ClientInv, LoopTyped
<1>7. Whole(PickerAfter(e)) /\ PickerAfter(e).query = picker.query
  <2> PICK p : p = picker
    OBVIOUS
  <2>0. Whole(p) /\ p \in Pickers /\ CursorsInRange(p)
    BY ClientInvFacts DEF Whole
  <2>s. /\ "RadioState" # "SourceError" /\ "RadioState" # "SearchResults"
        /\ "RadioState" # "LibraryResults" /\ "RadioState" # "ConfigSnapshot"
        /\ "RadioState" # "AuthStarted" /\ "RadioState" \notin {"AuthCompleted", "AuthFailed"}
        /\ "SourceError" # "SearchResults"
        /\ "SourceError" # "LibraryResults" /\ "SourceError" # "ConfigSnapshot"
        /\ "SourceError" # "AuthStarted" /\ "SourceError" \notin {"AuthCompleted", "AuthFailed"}
        /\ "SearchResults" # "LibraryResults" /\ "SearchResults" # "ConfigSnapshot"
        /\ "SearchResults" # "AuthStarted"
        /\ "SearchResults" \notin {"AuthCompleted", "AuthFailed"}
        /\ "LibraryResults" # "ConfigSnapshot"
        /\ "LibraryResults" # "AuthStarted"
        /\ "LibraryResults" \notin {"AuthCompleted", "AuthFailed"}
        /\ "ConfigSnapshot" # "AuthStarted"
        /\ "ConfigSnapshot" \notin {"AuthCompleted", "AuthFailed"}
        /\ "AuthStarted" \notin {"AuthCompleted", "AuthFailed"}
    OBVIOUS
  <2>1. CASE e.type = "RadioState"
    <3>1. PickerAfter(e) = [p EXCEPT !.visible = FALSE]
      BY <2>1, <2>s, Zenon DEF PickerAfter
    <3> QED BY <2>0, <3>1, SetFacts, WholeStays
  <2>2. CASE e.type = "SourceError"
    <3>1. PickerAfter(e) = [p EXCEPT !.visible = TRUE]
      BY <2>2, <2>s, Zenon DEF PickerAfter
    <3> QED BY <2>0, <3>1, SetFacts, WholeStays
  <2>3. CASE e.type = "SearchResults"
    <3>1. PickerAfter(e) = IF e.query = p.query THEN SetSearchResults(p, e.items) ELSE p
      BY <2>3, <2>s, Zenon DEF PickerAfter
    <3>2. e.items \in Lists /\ ~Blank(e.query)
      BY <2>3, EventFacts DEF Asked
    <3>3. CASE e.query = p.query
      <4> DEFINE q == SetSearchResults(p, e.items)
      <4>1. q \in Pickers /\ CursorsInRange(q) /\ q.query = p.query
        BY <2>0, <3>2, AnswerFacts
      <4> HIDE DEF q
      <4>2. PickerAfter(e) = q
        BY <3>1, <3>3 DEF q
      <4> QED BY <3>2, <3>3, <4>1, <4>2 DEF Whole
    <3>4. CASE e.query # p.query
      BY <2>0, <3>1, <3>4
    <3> QED BY <3>3, <3>4
  <2>4. CASE e.type = "LibraryResults"
    <3>1. PickerAfter(e) = SetLibraryItems(p, e.category, e.items)
      BY <2>4, <2>s, Zenon DEF PickerAfter
    <3>2. e.items \in Lists /\ e.category \in Subjects
      BY <2>4, EventFacts
    <3> QED BY <2>0, <3>1, <3>2, AnswerFacts, WholeStays
  <2>5. CASE e.type = "ConfigSnapshot"
    <3>1. PickerAfter(e) = [p EXCEPT !.settings = e.status]
      BY <2>5, <2>s, Zenon DEF PickerAfter
    <3>2. e.status \in Statuses
      BY <2>5, EventFacts
    <3> DEFINE q == [p EXCEPT !.settings = e.status]
    <3>3. q \in Pickers /\ CursorsInRange(q) /\ q.results = p.results /\ q.query = p.query
      BY <2>0, <3>2, SetFacts
    <3> HIDE DEF q
    <3>4. Whole(q) /\ q.query = p.query
      BY <2>0, <3>3, WholeStays
    <3>5. PickerAfter(e) = q
      BY <3>1 DEF q
    <3> QED BY <3>4, <3>5
  <2>6. CASE e.type = "AuthStarted"
    <3>1. PickerAfter(e) = SetAuthStarted(p)
      BY <2>6, <2>s, Zenon DEF PickerAfter
    <3> QED BY <2>0, <3>1, SetFacts, WholeStays
  <2>7. CASE e.type \in {"AuthCompleted", "AuthFailed"}
    <3>0. e.type \notin {"RadioState", "SourceError", "SearchResults", "LibraryResults",
                         "ConfigSnapshot", "AuthStarted"}
      BY <2>7
    <3>1. PickerAfter(e) = SetAuthOver(p)
      BY <2>7, <3>0, Zenon DEF PickerAfter
    <3> QED BY <2>0, <3>1, SetFacts, WholeStays
  <2>8. CASE e.type \notin {"RadioState", "SourceError", "SearchResults", "LibraryResults",
                            "ConfigSnapshot", "AuthStarted", "AuthCompleted", "AuthFailed"}
    <3>1. PickerAfter(e) = p
      BY <2>8, Zenon DEF PickerAfter
    <3> QED BY <2>0, <3>1
  <2> QED BY <2>1, <2>2, <2>3, <2>4, <2>5, <2>6, <2>7, <2>8
<1>8. Whole(picker)' /\ picker'.query = picker.query
  BY <1>1, <1>7
<1>9. ClientInv'
  BY <1>1, <1>3, <1>4, <1>6, <1>8, ClientInvFacts, ScreenNext
<1> QED BY <1>4, <1>9

\* The notices of a new connection are handled.
LEMMA OnNoticesKeeps ==
  ASSUME ClientInv, OnNotices
  PROVE  ClientInv' /\ bar' = bar
<1>1. /\ at' = "keys"
      /\ UNCHANGED <<stop, typist, events, bar, viz, debounce, refresh, quitting, fade>>
      /\ UNCHANGED <<flow, authed, link>>
  BY DEF OnNotices, daemonVars
<1>2. LoopTyped'
  BY <1>1 DEF ClientInv, LoopTyped
<1>3. Whole(picker)' /\ picker'.query = picker.query
      /\ verbs' \in Seq(Requested) /\ Len(verbs') <= VerbCapacity
  <2>1. CASE notices = 0
    BY <2>1, ClientInvFacts DEF OnNotices, Whole
  <2>2. CASE notices # 0
    <3>1. picker' = HandleDaemonReconnected(picker) /\ Send(Verb("ReadConfig"))
      BY <2>2 DEF OnNotices
    <3>2. verbs' \in Seq(Requested) /\ Len(verbs') <= VerbCapacity
      BY <3>1, VerbsAre, ClientInvFacts, SendKeeps
    <3> PICK p : p = picker
      OBVIOUS
    <3>3. Whole(p) /\ p \in Pickers /\ CursorsInRange(p)
      BY ClientInvFacts DEF Whole
    <3>4. Whole(HandleDaemonReconnected(p)) /\ HandleDaemonReconnected(p).query = p.query
      BY <3>3, SetFacts, WholeStays
    <3> QED BY <3>1, <3>2, <3>4
  <2> QED BY <2>1, <2>2
<1> QED BY <1>1, <1>2, <1>3, ClientInvFacts, ScreenNext

\* What a picker action asks for is typed, and a query that became blank shows nothing.
LEMMA RequestsKeep ==
  ASSUME ClientInv, NEW r, Kept(picker, r), Requests(r.picker, r.action)
  PROVE  /\ Whole(picker)' /\ picker'.query = r.picker.query
         /\ verbs' \in Seq(Requested) /\ Len(verbs') <= VerbCapacity
<1> PICK p, a : p = r.picker /\ a = r.action
  OBVIOUS
<1>1. /\ p \in Pickers /\ CursorsInRange(p) /\ p.results = picker.results
      /\ a.do # "SearchDirty" => p.query = picker.query
      /\ a.do = "BrowseLibrary" => a.category \in Subjects
  BY DEF Kept
<1>2. a.do # "SearchDirty" => Whole(p)
  BY <1>1, ClientInvFacts DEF Whole
<1>3. /\ [p EXCEPT !.visible = FALSE] \in Pickers /\ CursorsInRange([p EXCEPT !.visible = FALSE])
      /\ [p EXCEPT !.visible = FALSE].results = p.results
      /\ [p EXCEPT !.visible = FALSE].query = p.query
  BY <1>1, SetFacts
<1>4. a.do # "SearchDirty" =>
        Whole([p EXCEPT !.visible = FALSE]) /\ [p EXCEPT !.visible = FALSE].query = p.query
  BY <1>2, <1>3, WholeStays
<1>5. Requests(p, a)
  BY <1>1
<1> DEFINE Queue == verbs' \in Seq(Requested) /\ Len(verbs') <= VerbCapacity
<1>q. UNCHANGED verbs => Queue
  BY ClientInvFacts
<1>s. \A v \in Requested : Send(v) => Queue
  BY ClientInvFacts, SendKeeps
<1> HIDE DEF Queue
<1> SUFFICES Whole(picker)' /\ picker'.query = p.query /\ Queue
  BY DEF Queue
<1>n. /\ "Pick" \notin {"PickSpotify", "BrowseLibrary", "BrowsePlaylist", "ReadConfig",
                        "StartAuth", "SearchDirty"}
      /\ "PickSpotify" \notin {"BrowseLibrary", "BrowsePlaylist", "ReadConfig", "StartAuth",
                               "SearchDirty"}
      /\ "BrowseLibrary" \notin {"BrowsePlaylist", "ReadConfig", "StartAuth", "SearchDirty"}
      /\ "StartAuth" \notin {"BrowsePlaylist", "ReadConfig", "SearchDirty"}
      /\ "SearchDirty" \notin {"BrowsePlaylist", "ReadConfig"}
  OBVIOUS
<1>6. CASE a.do = "Pick"
  <2>1. picker' = [p EXCEPT !.visible = FALSE] /\ Send(Verb("SourceRadio"))
    BY <1>5, <1>6, <1>n, Zenon DEF Requests
  <2>2. a.do # "SearchDirty"
    BY <1>6
  <2> QED BY <1>s, <1>4, <2>1, <2>2, VerbsAre
<1>7. CASE a.do = "PickSpotify"
  <2>1. picker' = [p EXCEPT !.visible = FALSE] /\ Send(Verb("SourceSpotify"))
    BY <1>5, <1>7, <1>n, Zenon DEF Requests
  <2>2. a.do # "SearchDirty"
    BY <1>7
  <2> QED BY <1>s, <1>4, <2>1, <2>2, VerbsAre
<1>8. CASE a.do = "BrowseLibrary"
  <2>1. picker' = p /\ Send([verb |-> "BrowseLibrary", category |-> a.category])
    BY <1>5, <1>8, <1>n, Zenon DEF Requests
  <2>2. a.do # "SearchDirty" /\ a.category \in Subjects
    BY <1>1, <1>8
  <2>3. [verb |-> "BrowseLibrary", category |-> a.category] \in Requested
    BY <2>2, VerbsAre
  <2> QED BY <1>s, <1>2, <2>1, <2>2, <2>3
<1>9. CASE a.do \in {"BrowsePlaylist", "ReadConfig"}
  <2>0. a.do \notin {"Pick", "PickSpotify", "BrowseLibrary", "StartAuth", "SearchDirty"}
    BY <1>9
  <2>1. picker' = p /\ Send(Verb(a.do))
    BY <1>5, <1>9, <2>0, Zenon DEF Requests
  <2>2. Verb(a.do) \in Requested
    BY <1>9, VerbsAre
  <2> QED BY <1>s, <1>2, <2>0, <2>1, <2>2
<1>10. CASE a.do = "StartAuth"
  <2>1. picker' = (IF Accepts THEN p ELSE SetAuthOver(p)) /\ Send(Verb("StartAuth"))
    BY <1>5, <1>10, <1>n, Zenon DEF Requests
  <2>2. a.do # "SearchDirty"
    BY <1>10
  <2>3. Whole(SetAuthOver(p)) /\ SetAuthOver(p).query = p.query
    BY <1>1, <1>2, <2>2, SetFacts, WholeStays
  <2>4. picker' = p \/ picker' = SetAuthOver(p)
    BY <2>1
  <2> QED BY <1>s, <1>2, <2>1, <2>2, <2>3, <2>4, VerbsAre
<1>11. CASE a.do = "SearchDirty"
  <2>1. picker' = (IF Blank(p.query) THEN SetSearchResults(p, <<>>) ELSE p) /\ UNCHANGED verbs
    BY <1>5, <1>11, <1>n, Zenon DEF Requests
  <2>2. CASE Blank(p.query)
    <3> DEFINE q == SetSearchResults(p, <<>>)
    <3>1. <<>> \in Lists
      BY DEF Lists
    <3>2. q \in Pickers /\ CursorsInRange(q) /\ q.results = <<>> /\ q.query = p.query
      BY <1>1, <3>1, AnswerFacts
    <3>3. picker' = q
      BY <2>1, <2>2
    <3> HIDE DEF q
    <3> QED BY <1>q, <2>1, <3>2, <3>3 DEF Whole
  <2>3. CASE ~Blank(p.query)
    BY <1>q, <1>1, <2>1, <2>3 DEF Whole
  <2> QED BY <2>2, <2>3
<1>12. CASE a.do \notin {"Pick", "PickSpotify", "BrowseLibrary", "BrowsePlaylist", "ReadConfig",
                         "StartAuth", "SearchDirty"}
  <2>1. picker' = p /\ UNCHANGED verbs
    BY <1>5, <1>12, Zenon DEF Requests
  <2> QED BY <1>q, <1>2, <1>12, <2>1
<1> QED BY <1>6, <1>7, <1>8, <1>9, <1>10, <1>11, <1>12

\* A key that is taken by the picker.
LEMMA PickerTakesKeeps ==
  ASSUME ClientInv, NEW k, PickerTakes(k)
  PROVE  /\ Whole(picker)' /\ UNCHANGED <<bar, viz>>
         /\ (debounce # NoQuery => debounce = picker.query /\ debounce \in Asked)'
         /\ verbs' \in Seq(Requested) /\ Len(verbs') <= VerbCapacity
         /\ quitting' \in BOOLEAN /\ fade' \in {0, fade}
<1> PICK steps \in 1 .. 3 :
      LET r == HandleKey(picker, k, Chars, steps) IN
      /\ Requests(r.picker, r.action)
      /\ debounce' = DebounceAfter(r.picker, r.action)
      /\ quitting' = (quitting \/ r.action.do = "Quit")
      /\ fade' = IF r.action.do = "Quit" THEN 0 ELSE fade
  BY DEF PickerTakes
<1> PICK r : r = HandleKey(picker, k, Chars, steps)
  OBVIOUS
<1>1. /\ Requests(r.picker, r.action)
      /\ debounce' = DebounceAfter(r.picker, r.action)
      /\ quitting' = (quitting \/ r.action.do = "Quit")
      /\ fade' = IF r.action.do = "Quit" THEN 0 ELSE fade
  OBVIOUS
<1>2. Kept(picker, r)
  BY ClientInvFacts, KeyFacts DEF Whole
<1>3. /\ Whole(picker)' /\ picker'.query = r.picker.query
      /\ verbs' \in Seq(Requested) /\ Len(verbs') <= VerbCapacity
  BY <1>1, <1>2, RequestsKeep
<1>4. debounce' # NoQuery => debounce' = r.picker.query /\ debounce' \in Asked
  <2>0. r.picker.query \in Questions
    BY <1>2 DEF Kept, Pickers
  <2>1. CASE r.action.do = "SearchDirty"
    <3>1. DebounceAfter(r.picker, r.action) = IF Blank(r.picker.query) THEN NoQuery
          ELSE r.picker.query
      BY <2>1, Zenon DEF DebounceAfter
    <3> QED BY <1>1, <2>0, <3>1 DEF Asked
  <2>2. CASE r.action.do # "SearchDirty"
    <3>1. DebounceAfter(r.picker, r.action) = debounce
      BY <2>2, Zenon DEF DebounceAfter
    <3>2. r.picker.query = picker.query
      BY <1>2, <2>2 DEF Kept
    <3> QED BY <1>1, <3>1, <3>2, ClientInvFacts
  <2> QED BY <2>1, <2>2
<1>5. quitting' \in BOOLEAN /\ fade' \in {0, fade}
  BY <1>1 DEF ClientInv, LoopTyped
<1> QED BY <1>3, <1>4, <1>5 DEF PickerTakes

\* A key that is taken by the command bar.
LEMMA BarTakesKeeps ==
  ASSUME ClientInv, NEW k, BarTakes(k)
  PROVE  /\ bar' \in Bars /\ (bar.active => k = "Escape" \/ bar'.active)
         /\ verbs' \in Seq(Requested) /\ Len(verbs') <= VerbCapacity
         /\ UNCHANGED <<picker, viz, debounce, quitting, fade>>
<1> PICK outcome \in (IF k = "Enter" THEN Outcomes(bar, Vizs) ELSE {Nothing}) :
      LET next == BarKey(bar, k, Chars, outcome) IN
      IF k = "Enter" /\ outcome \in Vizs
      THEN /\ bar' = IF Accepts THEN next ELSE SetError(next, "queue full")
           /\ Send([verb |-> "Viz", name |-> outcome])
      ELSE bar' = next /\ UNCHANGED verbs
  BY DEF BarTakes
<1> PICK b : b = BarKey(bar, k, Chars, outcome)
  OBVIOUS
<1>1. outcome \in Vizs \union {Nothing, "error"}
  BY DEF Outcomes
<1>2. b \in Bars /\ (bar.active => k = "Escape" \/ b.active)
  BY <1>1, ClientInvFacts, BarKeyFacts
<1>3. bar' \in Bars /\ (bar.active => k = "Escape" \/ bar'.active)
  <2>1. "queue full" \in Messages
    BY DEF Messages
  <2>2. SetError(b, "queue full") \in Bars /\ SetError(b, "queue full").active = b.active
    BY <1>2, <2>1, BarFacts
  <2>3. bar' = b \/ bar' = SetError(b, "queue full")
    OBVIOUS
  <2> QED BY <1>2, <2>2, <2>3
<1>4. verbs' \in Seq(Requested) /\ Len(verbs') <= VerbCapacity
  <2>1. CASE k = "Enter" /\ outcome \in Vizs
    <3>1. Send([verb |-> "Viz", name |-> outcome])
      BY <2>1
    <3>2. [verb |-> "Viz", name |-> outcome] \in Requested
      BY <2>1, VerbsAre
    <3> QED BY <3>1, <3>2, ClientInvFacts, SendKeeps
  <2>2. CASE ~(k = "Enter" /\ outcome \in Vizs)
    <3>1. verbs' = verbs
      BY <2>2
    <3> QED BY <3>1, ClientInvFacts
  <2> QED BY <2>1, <2>2
<1> QED BY <1>3, <1>4 DEF BarTakes

\* A key is handled.
LEMMA OnKeyKeeps ==
  ASSUME ClientInv, OnKey
  PROVE  /\ ClientInv'
         /\ bar.active /\ ~bar'.active => at = "keys" /\ Head(keys) = "Escape"
<1> PICK k : k = Head(keys)
  OBVIOUS
<1>1. /\ at = "keys"
      /\ UNCHANGED <<at, stop, typist, events, refresh, flow, authed, link>>
  BY DEF OnKey, daemonVars
<1> DEFINE Idle == UNCHANGED <<picker, bar, viz, debounce, quitting, fade, verbs>>
<1>2. \/ Idle
      \/ ~quitting /\ bar.active /\ BarTakes(k)
      \/ ~quitting /\ ~bar.active /\ OpensBar
      \/ ~quitting /\ ~bar.active /\ TurnsViz(k)
      \/ PickerTakes(k)
  <2>1. CASE quitting
    BY <2>1, Zenon DEF OnKey
  <2>2. CASE ~quitting /\ bar.active
    BY <2>2, Zenon DEF OnKey
  <2>3. CASE ~quitting /\ ~bar.active /\ k = ":" /\ ~Typing
    <3>1. k \notin {"n", "p"}
      BY <2>3
    <3> QED BY <2>3, <3>1, Zenon DEF OnKey
  <2>4. CASE ~quitting /\ ~bar.active /\ k \in {"n", "p"} /\ ~Typing
    <3>1. k # ":"
      BY <2>4
    <3> QED BY <2>4, <3>1, Zenon DEF OnKey
  <2>5. CASE ~quitting /\ ~bar.active /\ ~(k = ":" /\ ~Typing) /\ ~(k \in {"n", "p"} /\ ~Typing)
    BY <2>5, Zenon DEF OnKey
  <2> QED BY <2>1, <2>2, <2>3, <2>4, <2>5
<1>3. /\ viz' \in Vizs /\ fade' \in 0 .. QuitFrames /\ quitting' \in BOOLEAN
      /\ bar' \in Bars /\ (bar.active /\ ~bar'.active => k = "Escape")
      /\ verbs' \in Seq(Requested) /\ Len(verbs') <= VerbCapacity
      /\ Whole(picker)'
      /\ (debounce # NoQuery => debounce = picker.query /\ debounce \in Asked)'
  <2>0. viz \in Vizs /\ fade \in 0 .. QuitFrames /\ quitting \in BOOLEAN /\ 0 \in 0 .. QuitFrames
    BY BoundAssumption DEF ClientInv, LoopTyped
  <2>p. UNCHANGED <<picker, debounce>> =>
          /\ Whole(picker)'
          /\ (debounce # NoQuery => debounce = picker.query /\ debounce \in Asked)'
    BY ClientInvFacts DEF Whole
  <2>1. CASE Idle
    BY <2>0, <2>1, <2>p, ClientInvFacts
  <2>2. CASE BarTakes(k)
    BY <2>0, <2>2, <2>p, BarTakesKeeps
  <2>3. CASE ~bar.active /\ OpensBar
    BY <2>0, <2>3, <2>p, BarFacts, ClientInvFacts DEF OpensBar
  <2>4. CASE ~bar.active /\ TurnsViz(k)
    <3>1. viz' \in Vizs
      BY <2>0, <2>4, TurnFacts DEF TurnsViz
    <3> QED BY <2>0, <2>4, <2>p, <3>1, ClientInvFacts DEF TurnsViz
  <2>5. CASE PickerTakes(k)
    BY <2>0, <2>5, PickerTakesKeeps, ClientInvFacts
  <2> QED BY <1>2, <2>1, <2>2, <2>3, <2>4, <2>5
<1>4. LoopTyped'
  BY <1>1, <1>3 DEF ClientInv, LoopTyped
<1>5. events' \in Seq(Events)
  BY <1>1, ClientInvFacts
<1>6. ClientInv'
  BY <1>3, <1>4, <1>5, ScreenNext
<1> QED BY <1>1, <1>3, <1>6

\* The rest of a frame.
LEMMA RestKeeps ==
  ASSUME ClientInv, NEW due \in SUBSET Timers, Rest(due)
  PROVE  ClientInv' /\ (bar.active => bar'.active)
<1>1. /\ UNCHANGED <<typist, events, viz, quitting, flow, authed, link>>
      /\ refresh' = FALSE /\ at' \in {"over", "events"} /\ stop' \in BOOLEAN
  BY DEF Rest, ClientInv, LoopTyped, daemonVars
<1>2. fade' \in 0 .. QuitFrames
  <2>1. fade \in 0 .. QuitFrames /\ QuitFrames \in Nat
    BY BoundAssumption DEF ClientInv, LoopTyped
  <2>2. fade' = IF quitting /\ fade < QuitFrames THEN fade + 1 ELSE fade
    BY DEF Rest
  <2> QED BY <2>1, <2>2
<1>3. LoopTyped'
  BY <1>1, <1>2 DEF ClientInv, LoopTyped
<1>4. bar' \in Bars /\ (bar.active => bar'.active)
  BY ClientInvFacts, BarFacts DEF Rest
<1>5. Whole(picker)' /\ picker'.query = picker.query
  <2> PICK p : p = picker
    OBVIOUS
  <2>1. Whole(p) /\ p \in Pickers /\ CursorsInRange(p)
    BY ClientInvFacts DEF Whole
  <2>2. Whole(TickAuthDeadline(p)) /\ TickAuthDeadline(p).query = p.query
    BY <2>1, SetFacts, WholeStays
  <2>3. picker' = p \/ picker' = TickAuthDeadline(p)
    BY DEF Rest
  <2> QED BY <2>1, <2>2, <2>3
<1>6. (debounce # NoQuery => debounce = picker.query /\ debounce \in Asked)'
  BY <1>5, ClientInvFacts DEF Rest
<1>7. verbs' \in Seq(Requested) /\ Len(verbs') <= VerbCapacity
  <2>1. Outgoing(due) \in Seq(Requested)
    <3>1. Verb("ReadConfig") \in Requested
      BY VerbsAre
    <3>2. debounce # NoQuery => [verb |-> "Search", query |-> debounce] \in Requested
      BY VerbsAre, ClientInvFacts
    <3> DEFINE one == IF refresh THEN <<Verb("ReadConfig")>> ELSE <<>>
               two == IF debounce # NoQuery /\ "search" \in due
                      THEN <<[verb |-> "Search", query |-> debounce]>> ELSE <<>>
    <3>3. one \in Seq(Requested)
      BY <3>1
    <3>4. two \in Seq(Requested)
      BY <3>2
    <3>5. Outgoing(due) = one \o two
      BY DEF Outgoing
    <3> HIDE DEF one, two
    <3> QED BY <3>3, <3>4, <3>5
  <2> PICK all : all = verbs \o Outgoing(due)
    OBVIOUS
  <2>2. all \in Seq(Requested)
    BY <2>1, ClientInvFacts
  <2>3. verbs' = verbs \/ verbs' = SubSeq(all, 1, Least(VerbCapacity, Len(all)))
    BY DEF Rest
  <2>4. VerbCapacity \in Nat
    BY BoundAssumption
  <2>5. CASE verbs' = SubSeq(all, 1, Least(VerbCapacity, Len(all)))
    <3> DEFINE n == Least(VerbCapacity, Len(all))
    <3>1. n \in Nat /\ n <= Len(all) /\ n <= VerbCapacity
      BY <2>2, <2>4 DEF Least
    <3> HIDE DEF n
    <3>2. SubSeq(all, 1, n) \in Seq(Requested) /\ Len(SubSeq(all, 1, n)) = n
      BY <2>2, <3>1
    <3>3. verbs' = SubSeq(all, 1, n)
      BY <2>5 DEF n
    <3> QED BY <3>1, <3>2, <3>3
  <2> QED BY <2>3, <2>5, ClientInvFacts
<1>8. events' \in Seq(Events)
  BY <1>1, ClientInvFacts
<1>9. ClientInv'
  BY <1>3, <1>4, <1>5, <1>6, <1>7, <1>8, ScreenNext
<1> QED BY <1>4, <1>9

-----------------------------------------------------------------------------
(* The bridge, the daemon and the other clients.                           *)

\* A step that changes neither the screen nor the loop keeps the invariant when what
\* it puts into the channels is typed.
LEMMA WorldKeeps ==
  ASSUME ClientInv, UNCHANGED <<at, stop, typist, uiVars>>, events' \in Seq(Events),
         verbs' \in Seq(Requested), Len(verbs') <= VerbCapacity,
         link' \in {"up", "down", "dead"}, flow' \in BOOLEAN, authed' \in BOOLEAN
  PROVE  ClientInv' /\ bar' = bar
<1>1. UNCHANGED <<at, stop, typist, picker, bar, viz, debounce, refresh, quitting, fade>>
  BY DEF uiVars
<1>2. LoopTyped'
  BY <1>1 DEF ClientInv, LoopTyped
<1> QED BY <1>1, <1>2, ClientInvFacts, ScreenNext DEF Whole

\* An answer is a sequence of events.
LEMMA AnswersAre ==
  ASSUME NEW v \in Requested
  PROVE  Answer(v) \subseteq Seq(Events)
<1>0. Hits \subseteq Nat
  BY BoundAssumption
<1>e. \A e \in Events : <<e>> \in Seq(Events)
  OBVIOUS
<1>n. <<>> \in Seq(Events)
  OBVIOUS
<1>s. /\ v.verb = "Viz" =>
           v.verb \notin {"SourceRadio", "SourceSpotify", "Search", "BrowseLibrary",
                          "BrowsePlaylist", "ReadConfig", "StartAuth"}
      /\ v.verb = "SourceRadio" =>
           v.verb \notin {"Viz", "SourceSpotify", "Search", "BrowseLibrary",
                          "BrowsePlaylist", "ReadConfig", "StartAuth"}
      /\ v.verb = "SourceSpotify" =>
           v.verb \notin {"Viz", "SourceRadio", "Search", "BrowseLibrary",
                          "BrowsePlaylist", "ReadConfig", "StartAuth"}
      /\ v.verb = "Search" =>
           v.verb \notin {"Viz", "SourceRadio", "SourceSpotify", "BrowseLibrary",
                          "BrowsePlaylist", "ReadConfig", "StartAuth"}
      /\ v.verb = "BrowseLibrary" =>
           v.verb \notin {"Viz", "SourceRadio", "SourceSpotify", "Search",
                          "BrowsePlaylist", "ReadConfig", "StartAuth"}
      /\ v.verb = "BrowsePlaylist" =>
           v.verb \notin {"Viz", "SourceRadio", "SourceSpotify", "Search",
                          "BrowseLibrary", "ReadConfig", "StartAuth"}
      /\ v.verb = "ReadConfig" =>
           v.verb \notin {"Viz", "SourceRadio", "SourceSpotify", "Search",
                          "BrowseLibrary", "BrowsePlaylist", "StartAuth"}
      /\ v.verb = "StartAuth" =>
           v.verb \notin {"Viz", "SourceRadio", "SourceSpotify", "Search",
                          "BrowseLibrary", "BrowsePlaylist", "ReadConfig"}
  OBVIOUS
<1>1. CASE v.verb = "Viz"
  <2>1. Answer(v) = {<<[type |-> "VizChanged", name |-> v.name]>>}
    BY <1>1, <1>s, Zenon DEF Answer
  <2>2. [type |-> "VizChanged", name |-> v.name] \in Events
    BY <1>1, VerbFacts, EventsAre
  <2> QED BY <1>e, <2>1, <2>2
<1>2. CASE v.verb = "SourceRadio"
  <2>1. Answer(v) = {<<[type |-> "RadioState"]>>, <<[type |-> "SourceError"]>>}
    BY <1>2, <1>s, Zenon DEF Answer
  <2>2. [type |-> "RadioState"] \in Events /\ [type |-> "SourceError"] \in Events
    BY EventsAre
  <2> QED BY <1>e, <2>1, <2>2
<1>3. CASE v.verb = "SourceSpotify"
  <2>1. Answer(v) = {<<>>, <<[type |-> "SourceError"]>>}
    BY <1>3, <1>s, Zenon DEF Answer
  <2>2. [type |-> "SourceError"] \in Events
    BY EventsAre
  <2> QED BY <1>e, <1>n, <2>1, <2>2
<1>4. CASE v.verb = "Search"
  <2> DEFINE e(n) == [type |-> "SearchResults", query |-> v.query,
                         items |-> Items("track", "search", n)]
  <2>1. Answer(v) = {<<>>} \union {<<e(n)>> : n \in Hits}
    BY <1>4, <1>s, Zenon DEF Answer
  <2>2. \A n \in Hits : e(n) \in Events
    <3>1. v.query \in Asked
      BY <1>4, VerbFacts
    <3>2. \A n \in Hits : Items("track", "search", n) \in Lists
      BY <1>0, ListsAre
    <3> QED BY <3>1, <3>2, EventsAre
  <2> HIDE DEF e
  <2> QED BY <1>e, <1>n, <2>1, <2>2
<1>5. CASE v.verb = "BrowseLibrary"
  <2> DEFINE e(n) == [type |-> "LibraryResults", category |-> v.category,
                      items |-> LibraryItems(v.category, n)]
  <2>1. Answer(v) = {<<>>} \union {<<e(n)>> : n \in Hits}
    BY <1>5, <1>s, Zenon DEF Answer
  <2>2. \A n \in Hits : e(n) \in Events
    <3>1. v.category \in Subjects
      BY <1>5, VerbFacts
    <3>2. \A n \in Hits : LibraryItems(v.category, n) \in Lists
      BY <1>0, <3>1, ListsAre
    <3> QED BY <3>1, <3>2, EventsAre
  <2> HIDE DEF e
  <2> QED BY <1>e, <1>n, <2>1, <2>2
<1>6. CASE v.verb = "BrowsePlaylist"
  <2> DEFINE e(n) == [type |-> "LibraryResults", category |-> "playlists",
                      items |-> Items("track", "playlist", n)]
  <2>1. Answer(v) = {<<>>} \union {<<e(n)>> : n \in Hits}
    BY <1>6, <1>s, Zenon DEF Answer
  <2>2. \A n \in Hits : e(n) \in Events
    <3>1. "playlists" \in Subjects
      BY DEF Subjects
    <3>2. \A n \in Hits : Items("track", "playlist", n) \in Lists
      BY <1>0, ListsAre
    <3> QED BY <3>1, <3>2, EventsAre
  <2> HIDE DEF e
  <2> QED BY <1>e, <1>n, <2>1, <2>2
<1>7. CASE v.verb = "ReadConfig"
  <2> DEFINE status == IF authed THEN "loggedIn" ELSE "loggedOut"
  <2>1. Answer(v) = {<<[type |-> "ConfigSnapshot", status |-> status]>>}
    BY <1>7, <1>s, Zenon DEF Answer
  <2>2. status \in Statuses
    BY DEF Statuses
  <2> HIDE DEF status
  <2>3. [type |-> "ConfigSnapshot", status |-> status] \in Events
    BY <2>2, EventsAre
  <2> QED BY <1>e, <2>1, <2>3
<1>8. CASE v.verb = "StartAuth"
  <2>1. Answer(v) = IF flow THEN {<<>>} ELSE {<<[type |-> "AuthStarted"]>>}
    BY <1>8, <1>s, Zenon DEF Answer
  <2>2. [type |-> "AuthStarted"] \in Events
    BY EventsAre
  <2> QED BY <1>e, <1>n, <2>1, <2>2
<1> QED BY <1>1, <1>2, <1>3, <1>4, <1>5, <1>6, <1>7, <1>8, VerbFacts

\* An event from elsewhere.
LEMMA ToldKeeps ==
  ASSUME ClientInv, NEW e \in Events, Told(e)
  PROVE  events' \in Seq(Events)
BY ClientInvFacts DEF Told

\* What other clients make the daemon say is typed.
LEMMA OutsideAre ==
  ASSUME ClientInv, NEW e \in OutsideEvents
  PROVE  e \in Events
<1>0. Hits \subseteq Nat /\ "playlists" \in Subjects
  BY BoundAssumption DEF Subjects
<1>q. ~Blank(picker.query) => picker.query \in Asked
  BY ClientInvFacts DEF Whole, Pickers, Asked
<1>1. CASE e \in {[type |-> "VizChanged", name |-> v] : v \in Vizs}
  BY <1>1, EventsAre
<1>2. CASE e \in {[type |-> t] : t \in {"RadioState", "SourceError", "DaemonShuttingDown"}}
  BY <1>2, EventsAre
<1>3. CASE e \in {[type |-> "LibraryResults", category |-> "playlists",
                   items |-> LibraryItems("playlists", n)] : n \in Hits}
  BY <1>0, <1>3, EventsAre, ListsAre
<1>4. CASE ~Blank(picker.query)
           /\ e \in {[type |-> "SearchResults", query |-> picker.query,
                      items |-> Items("track", "search", n)] : n \in Hits}
  BY <1>0, <1>q, <1>4, EventsAre, ListsAre
<1> QED BY <1>1, <1>2, <1>3, <1>4 DEF OutsideEvents

\* The rest of the world leaves the screen alone.
LEMMA WorldStepKeeps ==
  ASSUME ClientInv, World
  PROVE  ClientInv' /\ bar' = bar
<1>0. /\ link \in {"up", "down", "dead"} /\ flow \in BOOLEAN /\ authed \in BOOLEAN
      /\ events \in Seq(Events) /\ verbs \in Seq(Requested) /\ Len(verbs) <= VerbCapacity
  BY ClientInvFacts DEF ClientInv, LoopTyped
<1>t. \A n \in 0 .. Len(events) : SubSeq(events, 1, n) \in Seq(Events)
  BY <1>0
<1>v. verbs # <<>> => Tail(verbs) \in Seq(Requested) /\ Len(Tail(verbs)) <= VerbCapacity
                      /\ Head(verbs) \in Requested
  BY <1>0, BoundAssumption
<1>1. CASE Serve
  <2>1. verbs # <<>> /\ verbs' = Tail(verbs)
        /\ UNCHANGED <<at, stop, typist, uiVars, link, authed>>
    BY <1>1 DEF Serve
  <2>2. flow' \in BOOLEAN
    BY <1>0, <1>1 DEF Serve
  <2>3. events' \in Seq(Events)
    <3>1. PICK answer \in Answer(Head(verbs)) : events' = events \o answer
      BY <1>1 DEF Serve
    <3>2. answer \in Seq(Events)
      BY <1>v, <2>1, AnswersAre
    <3> QED BY <1>0, <3>1, <3>2
  <2> QED BY <1>0, <1>v, <2>1, <2>2, <2>3, WorldKeeps
<1>2. CASE FlowEnds
  <2>1. UNCHANGED <<at, stop, typist, uiVars, link, verbs>> /\ flow' = FALSE
    BY <1>2 DEF FlowEnds
  <2>2. PICK ok \in BOOLEAN :
          /\ authed' = (authed \/ ok)
          /\ IF link = "up" THEN Told([type |-> IF ok THEN "AuthCompleted" ELSE "AuthFailed"])
                            ELSE UNCHANGED events
    BY <1>2 DEF FlowEnds
  <2>3. authed' \in BOOLEAN
    BY <1>0, <2>2
  <2>4. [type |-> IF ok THEN "AuthCompleted" ELSE "AuthFailed"] \in Events
    BY EventsAre
  <2>5. events' \in Seq(Events)
    BY <1>0, <2>2, <2>4, ToldKeeps
  <2> QED BY <1>0, <2>1, <2>3, <2>5, WorldKeeps
<1>3. CASE Outside
  <2>1. UNCHANGED <<at, stop, typist, uiVars, link, verbs, authed>>
    BY <1>3 DEF Outside
  <2>2. [type |-> "AuthStarted"] \in Events
    BY EventsAre
  <2>3. events' \in Seq(Events) /\ flow' \in BOOLEAN
    BY <1>0, <1>3, <2>2, OutsideAre, ToldKeeps DEF Outside
  <2> QED BY <1>0, <2>1, <2>3, WorldKeeps
<1>4. CASE Break
  <2>1. UNCHANGED <<at, stop, typist, uiVars, verbs, authed, flow>> /\ link' = "down"
    BY <1>4 DEF Break
  <2>2. events' \in Seq(Events)
    BY <1>t, <1>4 DEF Break
  <2> QED BY <1>0, <2>1, <2>2, WorldKeeps
<1>5. CASE VerbLost
  <2>1. UNCHANGED <<at, stop, typist, events, uiVars, link, flow, authed>>
        /\ verbs # <<>> /\ verbs' = Tail(verbs)
    BY <1>5 DEF VerbLost, daemonVars
  <2> QED BY <1>0, <1>v, <2>1, WorldKeeps
<1>6. CASE Rejoin
  <2>1. UNCHANGED <<at, stop, typist, events, verbs, uiVars, authed>>
        /\ link' = "up" /\ flow' \in {flow, FALSE}
    BY <1>6 DEF Rejoin
  <2> QED BY <1>0, <2>1, WorldKeeps
<1>7. CASE GiveUp
  <2>1. UNCHANGED <<at, stop, typist, events, verbs, uiVars, flow, authed>> /\ link' = "dead"
    BY <1>7 DEF GiveUp
  <2> QED BY <1>0, <2>1, WorldKeeps
<1> QED BY <1>1, <1>2, <1>3, <1>4, <1>5, <1>6, <1>7 DEF World

-----------------------------------------------------------------------------
(* The theorems.                                                           *)

\* What closes the command bar.
BarCloses ==
  bar.active /\ ~bar'.active =>
    \/ at = "keys" /\ Head(keys) = "Escape"
    \/ bar.pending \in Vizs /\ viz' = bar.pending

\* Every step keeps the invariant and closes the bar for no other reason.
LEMMA StepClientInv == ClientInv /\ [Next]_vars => ClientInv' /\ BarCloses
<1> SUFFICES ASSUME ClientInv, [Next]_vars PROVE ClientInv' /\ BarCloses
  OBVIOUS
<1>0. bar.active \in BOOLEAN
  BY ClientInvFacts DEF Bars
<1>1. CASE OnEvent
  BY <1>1, OnEventKeeps DEF BarCloses
<1>2. CASE OnNotices
  BY <1>2, OnNoticesKeeps DEF BarCloses
<1>3. CASE OnKey
  BY <1>3, OnKeyKeeps DEF BarCloses
<1>4. CASE \E due \in SUBSET Timers : Rest(due)
  BY <1>4, RestKeeps DEF BarCloses
<1>5. CASE World
  BY <1>5, WorldStepKeeps DEF BarCloses
<1>6. CASE \E k \in Keys : Press(k)
  BY <1>6, PressKeeps DEF BarCloses
<1>7. CASE UNCHANGED vars
  <2>1. UNCHANGED <<at, stop, typist, events, verbs, uiVars, link, flow, authed, bar>>
    BY <1>7 DEF vars, uiVars, daemonVars
  <2>2. /\ link \in {"up", "down", "dead"} /\ flow \in BOOLEAN /\ authed \in BOOLEAN
        /\ events \in Seq(Events) /\ verbs \in Seq(Requested) /\ Len(verbs) <= VerbCapacity
    BY ClientInvFacts DEF ClientInv, LoopTyped
  <2> QED BY <2>1, <2>2, WorldKeeps DEF BarCloses
<1> QED BY <1>1, <1>2, <1>3, <1>4, <1>5, <1>6, <1>7 DEF Next, RenderLoop

\* The invariant gives what the run checks.
LEMMA ClientInvImplies == ClientInv => PickerInStep
<1> SUFFICES ASSUME ClientInv PROVE PickerInStep
  OBVIOUS
<1>1. TypeOK
  <2>1. /\ picker.tab \in ToSet(Tabs) /\ picker.settings \in {"unknown", "loggedIn", "loggedOut"}
        /\ picker.visible \in BOOLEAN /\ picker.auth \in BOOLEAN /\ picker.since \in BOOLEAN
    BY TabsAre, ClientInvFacts DEF Whole, Pickers, Statuses
  <2>2. bar.active \in BOOLEAN /\ bar.pending \in Vizs \union {Nothing}
    BY ClientInvFacts DEF Bars
  <2> QED BY <2>1, <2>2, ClientInvFacts DEF ClientInv, LoopTyped, TypeOK
<1> QED BY <1>1 DEF ClientInv, PickerInStep, CursorsOnRows

\* Whatever order keys, answers and other clients' events come in, every cursor is
\* on a row of its list, and the armed search is for the query on the screen.
THEOREM PickerInStepHolds == Spec => []PickerInStep
BY InitClientInv, StepClientInv, ClientInvImplies, PTL DEF Spec

\* Only Escape or the visualiser it has submitted closes the command bar.
THEOREM BarClosesHolds == Spec => BarClosesOnItsOwn
<1>1. ClientInv /\ [Next]_vars => [BarCloses]_vars
  BY StepClientInv
<1> QED BY <1>1, InitClientInv, StepClientInv, PTL DEF Spec, BarClosesOnItsOwn, BarCloses
=============================================================================
