# A verification project for clitunes

clitunes is a terminal music player: a daemon (`clitunesd`) plays one source at
a time (internet radio, local files, Spotify, Spotify Connect) and clients draw
its audio and steer it over a Unix socket. This directory holds TLA+ models of
it, the TLC configurations that check them, and proofs, checked by TLAPS, of the
properties that matter most.

Paths below are relative to the repository's root; `engine/` stands for
`crates/clitunes-engine/src/`, `client/` for `crates/clitunes/src/client/`.

## Inventory

| Component | State | Operations | Hard because |
|---|---|---|---|
| PCM ring, `engine/pcm/spmc_ring.rs` | slots, published sequence number, a cursor per consumer | `write_frames`, `attach`, `read_frames` | shared memory between processes, no lock; the writer overwrites what a reader is copying |
| Source pipeline, `engine/daemon/event_loop.rs` (`run_source_pipeline`) | `stop`, `source_stop`, the command channel, the mailbox `pending`, the current source | watcher thread, main loop, senders, shutdown and join | two flags and a mailbox read and written in different orders by two threads |
| Idle timer, `engine/daemon/idle_timer.rs` | `client_count`, `idle_since` | `on_client_connected`, `on_client_disconnected`, `tick` | an atomic and a mutex that nothing holds together |
| Control server, `engine/proto/server.rs` | `clients` map, a queue and a writer per client, the verb and broadcast channels | accept, handshake, read a line, broadcast, write a line, hang up | bounded queues, `try_send` next to `send().await`, slow clients, many exit paths |
| Verb dispatcher, `event_loop.rs` (`dispatch_verbs`) | `last_state`, the auth flag, the Web API cache | one verb at a time | answers and events travel by different channels; OAuth with a timeout |
| Connect receiver, `engine/sources/spotify/connect.rs`, `sink.rs` | current spirc, task, player, sink slot, `announced_connected`, each sink's binding | the four arms of `run_connect_loop`, `drain_pcm`, `bind`, `unbind`, `deliver_output` | three threads; a session is torn down and rebuilt under a source that holds its sink |
| Spotify playback, `mod.rs`, `handle.rs`, `sink.rs` there | a channel and an event receiver per playback; one Player, one sink, one binding | `run_spotify_playback`, `reconnect`, the sink's `write` and `stop` | what the Player does for one track arrives when the next one is bound |
| Spotify authentication, `handle.rs`, `auth.rs`, `token.rs`, `webapi.rs` | session, cached `AuthResult`, `credentials.json`, port 8898 | load, refresh, sign in, build a Web API client | refresh tokens rotate; a browser flow outlives its timeout; three writers of one file |
| Radio, `engine/sources/radio/mod.rs`, `streamer.rs`, `icy_*.rs` | channel, two stop flags, ICY parser state, reconnect attempt | watcher, network and decoder threads | blocking reads, joins; chunks cut metadata anywhere |
| Station directory, `discovery.rs`, `station_db.rs` | cached mirror list and its age | three tiers of discovery, failover over mirrors | each tier fails in its own way; the cache is written in place |
| Local files, `engine/sources/local/`, `symphonia_decode.rs` | queue, resampler | scan, open, decode, next | a file that breaks in the middle; fractions carried from packet to packet |
| Audio output, `engine/audio/` | overwriting ring, callback's resampler, counters | `write`, `drain_into`, the device callback | the callback never waits and asks for what it likes |
| Launch and lifecycle, `clitunesd/src/main.rs`, `singleton.rs`, `auto_spawn.rs`, `client/reconnect.rs` | lock file, socket file, process | spawn, lock, bind, signal, reconnect | several clients race to start a daemon that may be stopping |
| Configuration and logs, `engine/daemon/log_rotate.rs` | the log and its backups, the open file, `written` | write, rotate, reopen | any step of a rotation fails |
| Full-screen client, `client/render_loop.rs`, `command_bar.rs` | carousel, command bar, timers, stop flag, verb queue | keys, events, reconnect notices, timers | a long modal state machine fed by three threads |
| One-shot client, `client/headless.rs`, `status_json.rs` | what it has spent, printed and seen | play, search, status | answers may be dropped, or overtake their results |
| Panes, `client/pane_mode.rs` | one component's state, terminal size | start, frame, stop | narrow terminals, wide characters |
| Station picker, `engine/tui/picker/`, `tui/persistence.rs` | tabs, cursors, query, lists, sign-in; `state.toml` | keys, results, save, load | results replace lists under the cursor; several clients share one file |
| Drawing, `engine/visualiser/`, `tui/`, `client/transition_controller.rs` | grids, transitions, fades, covers, buffers kept between frames | resize, switch, draw, fetch | everything keeps something made for an earlier size or track |
| Socket security, codec, layouts, core types | none, or data only | | sequential code |

How they interact: a client connects to the control server, whose reader passes
verbs to the dispatcher; the dispatcher answers through the client's queue,
sends events to the broadcast task, commands to the source pipeline and
disconnects to the Connect receiver; the pipeline runs one source, which writes
audio into the overwriting ring, which the device callback plays, and into the
PCM ring, which clients read and draw. Connects and disconnects drive the idle
timer; the timer or a signal raises `stop`, which the pipeline, its watcher and
the dispatcher each look at in their own time. A client that loses its daemon
reconnects, and starts a new one if there is none.

What makes each correct:

- **PCM ring**: a reader gets frames in order, once, or is told that it was
  overrun; how wrong a frame can be is bounded; a reader that keeps reading
  catches up.
- **Pipeline**: commands take effect in order, only newer commands replace
  commands, a running source is interrupted, the daemon stops.
- **Timer**: the count is exact, a deserted daemon stops, an attended one does
  not.
- **Server and dispatcher**: events arrive in order and without holes, sessions
  are accounted for on every exit path, no client holds up another; a client
  reads of its own verb what became of it.
- **Connect**: one session at a time, clients know whether the device is taken,
  nobody waits for a thread that waits for them, the source follows the sink.
- **Spotify**: a refresh token is spent once and its successor kept; every
  sign-in ends for the clients that watch it; tracks do not run into each other.
- **Sources**: audio is complete and in order, what is not played is counted,
  titles are those of the audio, a source that is told to stop returns.
- **Launch**: one daemon owns socket and ring, and a client that asks for a
  daemon gets one.
- **Client**: cursors are on rows, answers belong to the question on the screen,
  every wait ends, what is drawn stays in its place, and the screen comes to
  rest.
- **Files**: after any failure or kill a reader finds a whole, recent content.

## Modules

| Module | Models | State and actions |
|---|---|---|
| `FrameLog` | what the ring promises: an append-only log and one position per reader | `Append`, `Attach`, `Read`, `SkipToEnd` |
| `SpmcRing` | `Producer` and `Consumer` | each slot store and load, the sequence number's store and loads are steps; a frame is its absolute number, so `slots[i]` says which frame the slot holds |
| `SourcePipeline` | dispatcher, Connect runtime, command watcher, main loop, `DaemonEventLoop::run` | every flag access is a step; a source is its kind and the number of its command |
| `Connect` | `run_connect_loop`, the player thread, `ConnectSource` | each arm of `select!` is a script of steps, so that other threads run between an arm's awaits, stores and drops |
| `IdleTimer` | the timer, its callers and the clock | instants are ages that the clock advances, saturating at the window |
| `ControlServer` | accept loop, sessions, writers, broadcast task, dispatcher | lines and events are what they make the server do; events are numbered |
| `Headless` | a one-shot client, its verb's way through dispatcher, source thread, broadcast and queues | an iteration of its loop spends one unit of patience, for an event or for 100 ms of silence; changes of playback state are numbered |
| `Launch` | daemon processes from the flock to their exit, the socket file, the ring's name, clients from `connect_or_spawn` to `reconnect_loop` | a process is the stage it has reached; socket and name say which process they lead to |
| `Spotify` | `SpotifyHandle`, `load_credentials`, `StartAuth` and its flow, the Web API cache, `clitunes auth` | refresh tokens are numbers, the account server keeps the live ones and may rotate; each read, exchange, save and lock is a step |
| `SpotifyPlayer` | `run_spotify_playback`, reconnects, the Player and its sink | a chunk is track, take and number; its look-up of the bound channel and its delivery are two steps |
| `Radio` | watcher, network and decoder threads; `IcyParser`, `push_audio`, `IcyMediaSource` | a byte carries what the server meant by it beside its value; the server cuts what it sends into chunks as it likes |
| `Playback` | `LocalSource::run`, `decode_stream`, `StreamingLinearResampler`, the ring, the cpal callback | positions are exact fractions; a packet, a push and a callback are steps |
| `Client` | key thread, render loop, bridge | a frame drains events, notices and keys, then timers and drawing; built from the operators of `Picker` and `CommandBar` |
| `Picker`, `CommandBar` | `PickerState`, `CommandBar` | operators on a record, one per method |
| `Screen` | frames of the full client over time | grids are sizes, transitions the frames they have left |
| `Paint` | each layer of one frame, cell arithmetic and the buffers visualisers keep | rectangles and intervals of cells |
| `Pane` | `clitunes --pane` | a text is its bytes, so that cutting one and its width differ |
| `StateFile` | `state.toml`, `BootIntent`, the boot of the client | write, sync and rename are steps; a kill or a power failure comes between any two |
| `RotatingLog` | `RotatingLog::write`, `rotate` | each rename, the create and the write is a step and may fail |
| `Mirrors` | `discover_with_paths`, `write_cache`, `read_cache`, `StationDb` | the answer of DNS, the opening of the cache and its writing are steps; the wall clock is time plus an offset that may be set |
| `ChannelProofs`, `PipelineProofs`, `VisitsProofs`, `LaunchProofs`, `SourcesProofs`, `ClientProofs`, `FilesProofs`, `DrawingProofs` | theorems | |

The MC modules put together, for TLC, components that have no variable in
common: `MCChannels` (`SpmcRing`, `ControlServer`), `MCPipeline`
(`SourcePipeline`, `Connect`), `MCVisits` (`IdleTimer`, `Headless`), `MCSources`
(`Playback`, `Radio`, `SpotifyPlayer`: the daemon opens one source at a time),
`MCDrawing` (`Screen`, `Paint`, `Pane`) and `MCFiles` (`StateFile`,
`RotatingLog`, `Mirrors`). In each of them a variable that never changes says
which component a behaviour is about, the others stand still, and a fairness
condition is that of its component for the behaviours about it. So what a module
says of its component is checked as the module says it, and a run answers one
question about a part of the program. `SourceEnds` and `ComesToRest`, which say
one thing of several components, are put together in the MC module.

How the modules depend on each other: `SpmcRing` implements `FrameLog`
(`RefinesLog`, with `length <- seq` and `position <- cursor`). `Connect` contains
the pipeline reduced to the newest command it has not taken; `SourcePipeline` has
the channel, the mailbox and the flags behind that. `Launch` contains the
daemon's end (`SourcePipeline`, `IdleTimer`) as two stages: told to stop, and
past the join. `Headless` takes from `ControlServer` that the broadcast never
waits, and models what `ControlServer` leaves out: which reply a verb gets and
when. `Client` steps the operators of `Picker` and `CommandBar`; where their rows
are drawn is `Paint`, how long a fade lasts `Screen`.

A named property is often a conjunction of named parts, so that each part can be
read, proved and cited by itself (`ReadsAreSound == TypeOK /\ SafeWindow /\
OneLapAtMost`).

Operators named `...Skips`, `...Forgets`, `...Unchecked` and so on, each under a
comment that begins with "Defect:", are broken variants of the operator that
follows them. They are not part of any specification: they document which
mistake each property is there to catch, and each was checked to be caught.

## Runs

| Run | Question | Instance | Properties |
|---|---|---|---|
| `Channels` | what does a client read while the daemon writes, and do slow clients hurt themselves only? | ring of 4, slices of up to 3, one consumer, buffers of 1 and 3, 10 frames; two connections, queues and channels of 1, one verb each, two events | `ReadsAreSound`, `RefinesLog`, `CatchesUp`, `StreamsAreWhole`, `SessionsAccountedFor`, `BroadcastNeverStalls` |
| `Pipeline` | does the newest command win, and does the receiver keep up with phones? | radio and local verbs, two commands, with and without Connect; three picks, two verbs, a channel of 1 | `NewestIsNext`, `WatcherInterrupts`, `ReceiverAgrees`, `ReceiverGoesOn` |
| `SourcePipeline_hang` | does a stopped daemon exit? | one command | violates `ShutdownCompletes` |
| `Visits` | does the daemon exit when, and only when, it is deserted; does a one-shot client get its own answer? | two connection tasks without end, window 3; play, search and status, queue of 2, event channel of 1, patience 4, one verb of another client, one change by the source | `CountdownIsSound`, `DesertedStops`, `AnswerIsWhole`, `StatusIsRecent`, `OneShotEnds` |
| `Headless_results` | does a one-shot search print what it found? | one search, no other client, an event channel of 1 | violates `ResultsArePrinted` |
| `Launch` | do racing launchers end up with one daemon? | two clients, four processes at once, three attempts, one fault, one verb | `NamesAreKept`, `HangsUpUnlocked`, `LaunchSucceeds`, `Reconnects` |
| `Launch_ring` | what does a reconnected client draw? | one client, one fault | violates `TapsItsDaemon` |
| `Spotify` | are tokens kept and sign-ins ended whatever fails? | two refresh tokens, two flows, one `clitunes auth`, a restart | `TokensAreKept`, `ClientsKnow`, `NobodyWaitsForEver` |
| `Sources` | is what is played complete, in order, and over when it should be? | below | `ResamplerExact`, `FolderIsHeard`, `AudioOnly`, `ListenersAreTold`, `TracksApart`, `SourceEnds` |
| `Client` | does the TUI stay in step with a daemon that answers late, restarts or dies? | two stations, two visualisers, 13 keys, three key presses, one waiting event, one break or outside change | `PickerInStep`, `BarClosesOnItsOwn`, `SignInSettles`, `SearchIsAsked`, `QuitEnds` |
| `Drawing` | does what is drawn stay in place over resizes, and come to rest? | three sizes and two covers over five happenings; 20 sizes of a pane, five lengths of lists, four of texts; three terminals, two texts, three events | `InPlace`, `ResizesAreSafe`, `CoverIsTheTracks`, `ComesToRest` |
| `Files` | what is left after a kill or a failure? | two clients, two stations, two picks, one mishap; log of 3 bytes, lines of 1, 2 and 4, two backups, seven lines, three faults; two DNS answers, a TTL of 2, three asks, two faults, clocks set by -1 and 3 | `SavesAreResumed`, `LogIsKept`, `StationsAreFound` |

`Sources` has, for local files, two files of up to three frames in packets of
two, rates of 1 : 2, 1 : 1 and 3 : 2, a ring of four, a scratch buffer of three,
devices that ask for one or four frames; for the radio, metadata intervals of
none and one byte, two titles or none, two blocks to a connection, each of no
stride or of one of two bytes, chunks of up to seven bytes (a block and what
follows it), a channel of two, two connections of two attempts;
for Spotify, two playbacks of two chunks, a channel of one, one chunk ahead, two
attempts and one lost session.

What the less obvious properties say:

- **`ReadsAreSound`**: with `Behind(c)` far enough from the slice being written
  (`SafeWindow`) a read is exact; outside, a wrong frame is the one a lap newer
  (`OneLapAtMost`).
- **`WatcherInterrupts`**: a command that is raised while a source runs reaches
  that source's flag; and a shutdown that the watcher is still there to relay
  ends.
- **`ReceiverGoesOn`**: no arm of the receiver's `select!` waits for ever for a
  player thread that waits for the source, and a source that holds a sink the
  runtime has replaced takes the new one.
- **`CountdownIsSound`**: the count is exact, a daemon with nobody in it has its
  countdown running, and it expires less than a window after the last client only
  in the two situations the property names.
- **`AnswerIsWhole`**: the `CommandResult` a one-shot client takes for its own is
  the one for its verb; and a search that ends well has printed its results if
  they had left the event channel when it was acknowledged, since from there on
  nothing overtakes them. Two clients are excused: one whose queue was full and
  that the broadcast has dropped, and one whose acknowledgement was sent while
  the results were still in the event channel, which is the second of the
  findings.
- **`StreamsAreWhole`**: what a client receives is a prefix of what was
  broadcast since it was listed, topic by topic: events are lost at the end of a
  connection only, never in the middle.
- **`TokensAreKept`**: the two users of the shared handle never show the account
  server the same refresh token twice, and the file they leave holds one it
  accepts. The exceptions are those the code can do nothing about or does not
  try to: a revoked token, a write that fails after the server has rotated,
  rotation inside rspotify, and another process that loaded the token the daemon
  is just replacing.
- **`ClientsKnow`**: no client is left with a sign-in pending when the daemon
  would begin another, and one that was told of success reads "logged in".
- **`ResamplerExact`**: output `j` of the decoder's resampler lies at
  `j * rate / RingRate` of the file, however it is cut into packets: this is the
  definition over the whole file, and the code's loop over packets with a
  carried fraction is checked against it.
- **`AudioOnly`**: what the server sent as audio is what the decoder reads, in
  its order, over every cut into chunks, every cut of the decoder's reads, and
  every reconnection.
- **`TracksApart`**: a playback's chunks are in order and gapless within a load,
  at most two chunks of the track before lead it, it hears of its own track
  only, and when it ends early it was asked to or clients were told why.
- **`SourceEnds`**: `stop` brings every source's threads to an end, but for a
  radio whose server is silent for ever; and the radio's network thread ends
  before it waits for the server again (`StopIsSeen`). This is the wait that
  `SourcePipeline` takes for granted, and a silent server is where it may not
  (see the findings).
- **`BarClosesOnItsOwn`**: only Escape or the visualiser that was submitted
  closes the command bar, not another client's switch.
- **`ResizesAreSafe`**: buffers a visualiser kept are never indexed beyond what
  they were made for and never drawn when they were made for another size; the
  only panic a resize can cause is the one described in the findings.
- **`ComesToRest`**: when nothing happens any more no fade or transition is left
  and a hidden picker is not painted; a pane that is told to stop ends.
- **`SavesAreResumed`**: no reader of `state.toml` sees part of a save, and a
  client resumes the last station saved before it started.
- **`StationsAreFound`**: what is used without DNS is the whole of the last answer
  that was stored, which is the last that DNS gave unless its store failed, or was
  killed, before the file was opened; and a lookup fails only after three mirrors
  in the order of the records, or at an answer that is not an error.
- **`LogIsKept`**: no file reaches its bound unless it is a single line that does,
  and the lines kept are the newest and in order, whichever steps of a rotation
  failed.

### Why the bounds are enough

- **Ring.** Frames and slots only matter modulo the capacity. Ten frames go
  round a ring of four twice, slices of three wrap and can cover all but one
  slot, buffers of three wrap, and one consumer meets every interleaving with
  the producer, because consumers write nothing the others read. The proofs
  below drop the bounds.
- **Pipeline.** Every hazard is about two commands and one flag; two commands
  fill mailbox and channel at once; the safety properties are proved for any
  number. Three picks allow connected, failed and connected again, and a rebuild
  under a source that still holds the old sink; a channel of one chunk blocks the
  player at once.
- **Visits.** Connections repeat for ever; two tasks are enough for a stale
  store over a newer one and for a client that arrives inside `tick`, and a window
  of 3 leaves room between a stale and a fresh age; the safety properties are
  proved for any number. One foreign verb and one change by the source are what
  can come before, between or after the two steps of the client's own; a queue of
  two overflows with them, and patience runs out both by events and by silence.
- **Control socket.** Capacities of 1 make every full-queue branch happen at
  once; two events are needed to lose one and keep one; two connections show a
  slow client next to another one. The safety properties are proved for any
  number and any capacity.
- **Launch.** Three processes are enough for one that serves, one that leaves and
  one that boots, the most that can touch the two names at once; the fourth is
  a turned-away spawn of each client for the liveness properties. A process
  number is used again when nothing refers to it. There is one fault: with two,
  the second can hit every attempt of the first, and the liveness properties make
  no claim. `MAX_RECONNECT_ATTEMPTS` is 5 in the code; the safety properties are
  proved for any number of everything.
- **Spotify.** Two tokens are one rotation, two flows are the one that was
  abandoned and the retry beside it; the two callers of the handle, the flows
  and the command line are all the actors there are. The safety properties are
  proved for any number of tokens and flows.
- **Sources.** A rate below, at and above the ring's; two files for what one
  does to the next; a ring of four that three frames and a rewind overflow. Two
  connections for what one leaves to the next; two blocks to each, with the title
  of the other, with another or without one; the chunk bound exceeds a whole
  metadata block with audio on both sides. Two playbacks, because nothing
  reaches further than the next one; a channel of one blocks the Player on its
  second chunk.
- **Client.** Two rows are enough for a list that shrinks under a cursor, three
  keys for typing, moving and submitting with answers in between; a key press
  is possible at any frame.
- **Drawing.** Sizes are those at which a layer changes its mind (the picker's
  minimum, the thresholds of hints and columns), and each side of the heights
  at which a list just fits. All of them, and the lists and texts, are any in the
  proofs.
- **Files.** One mishap at every step of every save; a log whose bound is hit
  exactly, exceeded by one line and by a single line alone; as many faults as
  there are steps in a rotation of two backups; answers of DNS with and without
  ties, and two faults, so that two stores in a row may fail. The proofs drop these
  bounds.

`CHECK_DEADLOCK FALSE` stands where the system really stops: after shutdown, when
a client or a source has ended, or when the bounded happenings are used up.

### Fairness

- `SpmcRing`: a started write finishes (`write_frames` does not block) and
  consumers keep calling `read_frames` (clients do, once per drawn frame).
  Starting another write is not promised.
- `SourcePipeline`: the two threads and the event loop are scheduled and a verb
  being dispatched is answered (station lookup has a timeout). Clients, signals
  and the end of a track are not promised.
- `Connect`: threads and tasks run, a spirc task that was told to shut down ends,
  `Spirc::new` returns, and the drain loop finds its channel empty again and
  again (strong fairness: `try_recv` takes a pointer, the player must resample a
  chunk before it can send the next one).
- `IdleTimer`: callbacks finish, the idle loop ticks every 500 ms, time passes.
- `Headless`: only the client's own loop goes on; the daemon may hang or die.
- `ControlServer`: the daemon's tasks run. Whether a client reads is not
  promised.
- `Launch`: processes, their launchers and the clients' tasks run, so a shutdown
  ends. Nobody has to start a client, stop a daemon or type. `Punctual` says that
  polling expires only when no process is on its way, that is, boots, shutdowns
  and launchers' exits take less than the client's two seconds. The code does not
  guarantee that (a source that blocks in a read without a timeout outlasts it),
  so the proofs do without it.
- `Spotify`: network calls and writes return, the five minutes of `StartAuth`
  pass, and the handle's mutex is handed to each that waits for it (strong
  fairness: tokio's mutex is fair, first in, first out). Users need not answer.
- `Playback`, `Radio`, `SpotifyPlayer`: the source's threads are scheduled; the
  device, the server and the user are not promised: a connection may be left
  without a header, or go silent in the middle of a stream, for ever. An event that is there
  for a playback is heard (strong fairness: `select!` picks a ready arm at
  random).
- `Client`: frames are drawn, the bridge forwards verbs and its reconnecting ends
  one way or the other. These and a timer that stays armed are strongly fair,
  because in the model the keys have their turn in between.
- `Screen`, `Pane`: frames are drawn. `StateFile`, `RotatingLog` and `Mirrors`
  have safety properties only.

## Findings

Three disagreements have a run that ends in them:

1. **A shutdown that hangs** (`SourcePipeline_hang`). The watcher's only relay of
   `stop` can be cleared by main, which then starts a source that runs for ever,
   and the event loop never gets past the join (`engine/daemon/event_loop.rs:360`,
   `:385`). `WatchedShutdown` says when it cannot happen: while the watcher is
   still there.
2. **A search that ends well and prints nothing** (`Headless_results`). The
   dispatcher gives the results to the broadcast task and the acknowledgement to
   the client's own queue (`engine/daemon/event_loop.rs:1070-1077`); the client
   leaves with the first `CommandResult` (`client/headless.rs:61`), though
   `headless.rs:11-14` has it print results "before the terminating
   `CommandResult`". The client keeps up and the daemon is up. `ResultsAreAhead`
   says when it cannot happen: once the results have left the event channel.
3. **A reconnected client draws a dead ring** (`Launch_ring`). `reconnect_loop`
   replaces the control session; nothing asks for the new daemon's status or
   opens its ring, so the client keeps the mapping of a region that was unlinked,
   against `guide/explanation/architecture.md:49-51`.

Met while modelling; most are visible in the model, as an exception of a property
or as a branch that a comment explains:

- *Torn reads.* `write_frames` overwrites slots before it publishes the new
  sequence number, and `read_frames` compares published numbers only
  (`spmc_ring.rs:98`, `:236-247`); `tests/pcm_spmc_ring_loom.rs:4` has "A consumer
  never sees torn data". `ReadsAreSound` says exactly how much of that holds.
- *A lost command.* A command raised after main looked at `pending` and before it
  clears `source_stop` stays in the mailbox while the old source plays
  (`event_loop.rs:366-367`, `:503`, `:385`), against "The last action wins"
  (`guide/explanation/source-priority.md:48`).
- *A second pick is not heard.* `PlayConnect` is sent only when no session was
  announced (`connect.rs:570-580`), so picking the device again while a local
  source plays brings up a session and no audio (`source-priority.md:40`).
- *A local file outruns the ring.* `LocalSource` writes as fast as it decodes
  (`engine/sources/local/mod.rs:90`) into a ring that overwrites
  (`engine/audio/ring.rs:71`): the device hears the frames in order, but not all
  of them. `HeardInOrder` claims the order only.
- *The callback's resampler skips.* It drains a cushion of two frames it may not
  use (`cpal_output.rs:482`) and carries the cursor back as a negative position
  (`:610`), which the next call does not read behind (`:590`): those frames are not
  heard, against the comment "The internal cursor is carried across calls"
  (`:572`). The decoder's resampler does no such thing, which is `ResamplerExact`.
- *A track bleeds into the next.* The Player carries out `stop` later
  (`handle.rs:166`), so up to two chunks of the old track reach the channel of the
  new one; a final partial chunk of a track may be lost. `BleedIsBounded`.
- *Radio that never stops.* The network thread reads without a timeout
  (`streamer.rs:104`) and `run` joins it. A server that accepts the connection and
  sends no header (`radio/mod.rs:238`, `:314`), or goes silent in the middle of a
  stream (`:266`, `:340`, `:345`), keeps a stopped source, and with it main, for as
  long as it is silent: the exception of `SourceEnds`. That an interrupted source
  ends, on which `SourcePipeline` builds, fails then, and so may a shutdown. After
  a header timeout the source is without sound until it is stopped.
- *A resize during a transition panics.* `TransitionController` blends a source
  grid of the old size (`transition_controller.rs:115`, `render_loop.rs:213`);
  `blend.rs:4` takes both to be of one size and `:19` indexes beyond the smaller.
- *The Web API keeps an old token.* After `credentials.json` changed, the cached
  client is rebuilt from the handle's own `last_auth`
  (`event_loop.rs:936`, `handle.rs:383`).
- *Replies may be dropped* when a client's queue is full (`event_loop.rs:683`),
  which `guide/reference/control-bus.md:94` rules out. So may results, when the
  queue was full for the broadcast and has room again for the acknowledgement; the
  client is then no longer listed, the other exception of `ResultsAreAhead`.
- *One-shot clients* print "unknown" with a zero exit status when their patience
  runs out, also print results of other clients' searches, and take a change of
  state that was broadcast late for newer than the reply.
- *The idle timer* may expire right after a client arrived, or a whole window
  after an older client than the last: the two exceptions of `NoEarlyExit`.
- *The TUI.* `q` is taken by the key thread, so it cannot be typed into a search or
  the command bar and the quit fade is not drawn; `AuthStarted` clears the refresh
  an `AuthCompleted` of the same frame asked for (`render_loop.rs:353`); the death
  of the bridge is reported as "queue full"; `persist_state` stores the station
  before its verb is sent and clears the other fields.
- *Screen and panes.* The cover stays old when a fetch fails or the track goes
  back while another is fetched (the exceptions of `CoverIsTheTracks`); a pane's
  line is cut by bytes and panics inside a character; a write error leaves the
  cursor hidden; the command bar's cursor leaves the row on long input.
- *Launch.* A daemon turned away by one that is stopping exits 0 as if
  "something already handled it" (`singleton.rs:5-6`); a connection that ends
  right after it was re-made is taken for the end without using up the attempts
  (`reconnect.rs:58`); two daemons with different runtime directories share one
  ring name.
- *Server.* `Overrun::lost_frames` is short by one capacity; after
  `connect disconnect` the pipeline stays on Connect; a client whose queue
  overflowed is dropped from the broadcast and stays connected
  (`control-bus.md:122` has "connection terminated").
- *Files.* A `state.toml` that is not UTF-8 keeps the TUI from starting, since
  only TOML errors are recovered from; removing a corrupt one may remove another
  client's fresh save; a failing reopen makes each write drop one log backup; a
  clock that is set back keeps the mirror cache from ageing; an answer of DNS
  that cannot be stored because there is no directory or the file does not open
  (`discovery.rs:260-273`) leaves an older one to be used, one that fails later
  leaves none, and both are warnings only; a mirror that
  answers with something else than stations ends the failover.

## Proofs

Every part of the system that has a run has theorems. They are proved for every
value of the constants that satisfies the assumptions next to the constants,
which a run evaluates: capacities, windows, slices and sample
rates are positive, bounds are numbers, connections and tasks are finite sets, a
lost session and a station are asked for at least once, "no title" is among the
titles; and, where the code gives the reason,
that a word that stands for "no station" is not a
station, that an SRV answer that succeeds is not empty, that a pane is 20 by 10
or larger (`visualiser_cell_rect`), that a terminal's grid is not empty, and
that "no cover" is not a URL.

- **`ChannelProofs`**, of the ring: `ReadsAreSoundHolds`, from `TypeCorrect`, `SafeWindowHolds`
  and `OneLapAtMostHolds`; and `Refinement` (`Spec => RefinesLog`). None of the
  properties is inductive: they speak of the last result, and what was copied
  depends on how far the producer had written when it was copied. The invariant
  adds what every slot holds (the newest frame written that falls on it, so a
  slot's frame is less than a lap behind `Written`), and, for a copy under way,
  that each frame copied is the one asked for or a multiple of the capacity
  newer, below what was written by then.
- **`PipelineProofs`**: `NewestIsNextHolds`, from `TypeCorrect`, `OrderHolds`
  and `NewestSurvivesHolds`. `CommandsInOrder` needs that no command is newer
  than `sent` and that `current` is older than everything that waits;
  `NewestSurvives` is then inductive together with it.
  `ReceiverAgreesHolds` is about the Connect receiver. An arm of its `select!` is
  a script of steps, and what is inductive says of each suffix of a script what
  the steps before it have done: which of session, player and sink are there
  already, and whether clients have been told.
- **`VisitsProofs`**: `CountdownIsSoundHolds`, from `TypeCorrect`,
  `CountdownRunsHolds` and `NoEarlyExitHolds`. The count equals the number of
  tasks between their increment and their decrement, a fact about the
  cardinality of a set; `since` can be unset only while a task is counted or
  still has to store its instant. For `NoEarlyExit` the invariant orders the ages:
  as long as nobody came while the last client was leaving, `idle_since`, every
  instant about to be stored and what `tick` has read are at most as old as the
  last moment somebody was connected; the lemma that the clock keeps the order of
  two ages carries it over time.
  For the one-shot client, `OneShotInvariance` says that its verb is in one place
  at a time (its queue, the dispatcher, a reply, or past), that what is on its way
  to it agrees with the verdict on that verb, and that results which had left the
  event channel when the verb was acknowledged are printed or stand before every
  acknowledgement in the client's queue and on its wire, as long as the broadcast
  lists it (`InTime`); `AnswerIsWholeHolds` follows. For `StatusIsRecentHolds` the
  numbers of the states that are settled, waiting and shown are in order.
- **`LaunchProofs`**: `KeepsItsNames`, from `TypeCorrect`, `ServesItsSocket` and
  `KeepsItsRing`, and `FreesItsLockFirst`, for any clients, processes, attempts
  and faults and without any assumption on time. What is inductive is who has
  descriptors open on the lock: every process between the flock and its release
  holds its own, and all open descriptors belong to one process, so two processes
  are never between those points together; the names then follow stage by stage.
  `FreesItsLockFirst` adds that whatever process a client's connection leads to
  still has its runtime or has left, and has let go of the lock before either
  ends.
- **`ChannelProofs`**, of the control socket: `StreamsWhole` and `SessionsCounted`, from
  `Invariance`. The invariant follows a connection from accept to hang-up: who is
  listed, whose connect was counted, whose queue is open. A client's stream is
  what it read, then its writer's line, then its queue; that this is a prefix of
  what was broadcast since it was listed is kept by each append and each take,
  with lemmas on queues that speak of positions. The prefix of each topic is found
  by the least position at which it could fail.
- **`SourcesProofs`**, of the Spotify account: `TokensKept` and `ClientsInformed`, from `Invariance`. The
  invariant says who holds which refresh token: the exchanges of one handle
  exclude each other by its mutex, a token that is minted is new, and whoever is
  about to save one holds a live token nobody else has. A client's pending
  sign-in is a flow, a timeout that has not been announced, or a message on its
  way.
- **`SourcesProofs`**, of local files: `ResamplerExactHolds` and
  `FolderIsHeardHolds`, from `FolderInv`. The decoder's carried cursor is always
  `emitted * rate - fed * RingRate`, and the frame it keeps is the last one fed; so
  what a push computes from its own packet is what a division over the whole file
  gives, a whole number of frames further on. The queue is played, playing and
  upcoming, one behind the other. What the device heard last has left the ring,
  what it drains is newer and in order, and the outputs of its resampler that fit
  are the first ones, at positions that never decrease. Both hold for `Playback`
  by itself and, by `FolderIsOpened`, in the run of all three sources.
- **`SourcesProofs`**, of Spotify tracks: `TracksApartHolds`, from `TrackInv`. A
  load is stopped before the next playback listens (`CommandsInv`), so whoever is
  listened for found the deck stopped, and from then on deck, sink and channel
  hold its track only (`Subscribed`). What is still to come of the track before
  is then one chunk, or one and the flushed rest (`Lead`). Loads are numbered, so
  that the newest chunk on the way, the partial chunk of the sink and the deck
  fit together, and a chunk from an earlier load is older (`Chain`, `Newer`). Of
  the Player's news, "stopped" is none to who goes on (`News`), and whoever leaves
  has a reason at every stage of leaving (`Reasons`). It holds for
  `SpotifyPlayer` by itself and, by `TrackIsOpened`, in the run of all three
  sources.
- **`SourcesProofs`**, of the radio: `AudioOnlyHolds` and
  `ListenersAreToldHolds`, from `StationInv`, for any titles, intervals, strides,
  blocks, connections, cuts into chunks and reads, and any channel. What is
  inductive about the bytes is `Expecting`: from where the parser is, every byte
  still to come is what the parser will take it for (`Expects`), up to the end of
  the stream (`Leads`). A stream has that from its start, block by block
  (`StreamLeads`); a chunk cuts the way in two (`LeadsApart`); and on a way like
  that a parser passes on the audio the server meant and the title it completed
  (`ParsedChunk`). `Owing` adds the pipe: what is left over from a read, the
  chunks under way and the thread's own are what was sent and not read.
  These are facts about folds over sequences of any length, and the library's
  induction theorems cannot be used here. `Positions` takes their place: a
  set of positions that has the first and, with each, the next has all of them,
  by the least that is missing; with it a recursive function is shown to exist
  (`RunExists`), so that the CHOOSE it stands for has its value. The link's part
  is short: a break is counted only on a connection, so that the count has room
  for it.
- **`ClientProofs`**: `PickerInStepHolds` and `BarClosesHolds`, from `ClientInv`.
  That cursors are on rows is inductive for every key and answer by itself, once
  what an event or a verb may carry is known (a daemon is asked for a query that is
  not blank, so no answer to a blank one comes). That the armed search is for the
  query on the screen needs what the picker promises the render loop: a key leaves
  the results alone, and changes the query only when it asks for a search
  (`Kept`), so a query that becomes blank is cleared in the same step. The bar is
  followed action by action: all but Escape and its own visualiser leave it open.
- **`FilesProofs`**: `SavesAreResumedHolds`, `StationsAreFoundHolds` and
  `LogIsKeptHolds`. Of `state.toml`: a temporary file contains what its stage
  says, it is synced before it gets the name, so that `file` is the newest save
  unless it was edited or lost, and a client that read it saw what it was meant
  to. Of the mirrors: ordering by rank is a permutation of the answer (an
  injection between finite sets of one size), so a lookup asks all of it in the
  order of the records; a cache that can be read is the last answer written
  whole, and the last of DNS unless that one did not get as far as the file. Of
  the log: the open file is the newest, and empty if the write after a rotation
  failed, one number at most is vacated, and only while a rotation runs; the
  sizes add up by the least position at which they would not.
- **`DrawingProofs`**: `InPlaceHolds`, `ResizesAreSafeHolds` and
  `CoverIsTheTracksHolds`, from `Invariance`, whose three parts each speak of the
  variables of one module. A buffer is one that was made for some pane, and what
  it depends on (`for`) determines the rest of it: that is the whole reason why a
  visualiser may keep it. The rest of `Paint` is arithmetic on rows and columns,
  layer by layer, for every pane of the assumed size and any lengths. In `Screen`
  the grid of the last frame is no larger than the source of the transition, and
  what is fetched is the cover of the track. In `Pane` a text cut by bytes has no
  more columns than bytes, and texts one behind the other add up (cardinalities of
  sets of positions), so that a cut line, with its tag at the right end, fits.

Each module states its invariant, proves that the initial states satisfy it,
that each action keeps it (a step per action), and that it implies the
properties; the temporal step comes last.

Only model-checked is everything with `~>` or `<>`, and the fairness it needs:
liveness and ENABLED are out of the prover's reach.

## Assumptions and limits

- `SpmcRing` is sequentially consistent at the granularity of one slot and one
  sequence access. On x86-64 the Release store, the Acquire load and the SeqCst
  fence give that order; two `f32` halves of a slot are taken as one access. The
  64-bit sequence number does not wrap in practice and is unbounded here.
  `RegionHeader` is not modelled.
- `Launch` has one runtime directory and one user, no second program that locks
  or binds there, and takes `open_private`, the pidfile, permissions and the
  resolution of the daemon's path as succeeding.
- `Connect` and `SpotifyPlayer` take librespot as external, modelled from how
  the code uses it: a spirc task ends when told to, a dropped `Player` waits for
  the chunk it is sending, the Player answers commands in order.
- `Spotify` leaves out the expiry of access tokens, which the code does not look
  at either, and the content of Web API answers.
- `Radio` takes parsing of headers and decoding as data; `Playback` the choice of
  device and format, probing and codecs.
- In `Client` the matching of names in the command bar is a choice among its
  outcomes, and every timer may be due in any frame.
- `Screen` and `Paint` have no colours, no glyphs and no floating point: they say
  where something is drawn and from which buffers, not what it looks like.
- `StateFile` and `RotatingLog` take `rename` as atomic and a synced file as
  durable; a line of the log is written whole or not at all, short writes are left
  out.

## Not modelled

Socket security, the protocol codec and the core types are data types or one
call each, without state; layouts are a parser and a pure function that no
program of the workspace calls. Of the configuration, parsing and validation of
`daemon.toml` is left out; of the visualisers, the floating-point picture of a
frame; of Spotify, the mapping of Web API answers to rows. `PROJECT.json` repeats
the reason for each component.

## Plan

1. *Done*: every component above, model-checked; a theorem for every safety
   property that a run checks.
2. Left to TLC for good: liveness. Worth having next is more of the code: what
   `PROJECT.json` lists as partly modelled, the picker's rendering and the
   device's choice of format first.
