--------------------------- MODULE SpotifyPlayer ---------------------------
(***************************************************************************)
(* Spotify tracks (sources/spotify: mod.rs, handle.rs, sink.rs).  Every    *)
(* playback is a SpotifySource::run of its own, with a fresh PCM channel   *)
(* and a fresh event receiver; the Player, its thread and its sink live as *)
(* long as the daemon.  The sink looks up the bound channel for each chunk *)
(* and waits for room in it outside the lock, so a chunk of one playback   *)
(* may meet the channel of the next.                                       *)
(*                                                                         *)
(* A chunk is [track, take, n]: the n-th of the take-th load, the partial  *)
(* one that is flushed when the sink stops being the last.  A chunk is one *)
(* unit of time.                                                           *)
(***************************************************************************)
EXTENDS Integers, Sequences

CONSTANTS
  Playbacks,      \* bound on the tracks asked for
  Length,         \* chunks of a track
  Capacity,       \* CHANNEL_CAPACITY
  MaxAhead,       \* MAX_AHEAD
  Attempts,       \* DELAYS of SpotifyHandle::reconnect
  MaxDisconnects  \* bound on the sessions lost

VARIABLES
  cur,        \* the playback, 0 before the first; also its channel and track
  pc,         \* where run_spotify_playback is
  asked,      \* the pipeline's stop flag
  stop,       \* the inner one
  failed,     \* run_spotify_playback returns Err
  told,       \* a SourceError was sent
  tries,      \* attempts of the reconnect in progress
  ahead,      \* frames written less the time that went by: pace_frames, pace_start
  written,    \* (history) the chunks this playback wrote
  finished,   \* (history) this playback saw the end of its track
  channel,    \* chunks in the bound channel
  receiver,   \* the playback whose pcm_rx lives, 0: none
  bound,      \* the playback the sink is bound to, 0: none
  events,     \* what this playback's event receiver holds
  commands,   \* the Player's commands
  listener,   \* the playback the Player sends events to
  deck,       \* what the Player plays
  accum,      \* the partial chunk in the sink, None or a chunk
  output,     \* what the sink delivers: [chunk, to], to = None before the look-up
  flushing,   \* it does so to stop
  takes, disconnects

paceVars == <<ahead, written>>
runVars == <<asked, stop, failed, told, finished>>
pipeVars == <<channel, receiver, bound>>
playerVars == <<listener, deck, accum, output, flushing>>
vars == <<cur, pc, runVars, tries, paceVars, pipeVars, events, commands, playerVars, takes,
          disconnects>>

None == <<>>
Stopped == [state |-> "stopped", track |-> 0, take |-> 0, n |-> 0]

Init ==
  /\ cur = 0 /\ pc = "ended"
  /\ asked = FALSE /\ stop = FALSE /\ failed = FALSE /\ told = FALSE /\ finished = FALSE
  /\ tries = 0 /\ ahead = 0 /\ written = <<>>
  /\ channel = <<>> /\ receiver = 0 /\ bound = 0
  /\ events = <<>> /\ commands = <<>>
  /\ listener = 0 /\ deck = Stopped /\ accum = None /\ output = None /\ flushing = FALSE
  /\ takes = 0 /\ disconnects = 0

-----------------------------------------------------------------------------
(* The pipeline, the watcher, the clock.                                  *)

Begin ==
  /\ pc = "ended" /\ cur < Playbacks
  /\ cur' = cur + 1
  /\ pc' = "acquire"
  /\ asked' = FALSE /\ stop' = FALSE /\ failed' = FALSE /\ told' = FALSE /\ finished' = FALSE
  /\ ahead' = 0 /\ written' = <<>>
  /\ UNCHANGED <<tries, pipeVars, events, commands, playerVars, takes, disconnects>>

Ask ==
  /\ pc # "ended" /\ ~asked
  /\ asked' = TRUE
  /\ UNCHANGED <<cur, pc, stop, failed, told, finished, tries, paceVars, pipeVars, events,
                 commands, playerVars, takes, disconnects>>

Mirror ==
  /\ asked /\ ~stop
  /\ stop' = TRUE
  /\ UNCHANGED <<cur, pc, asked, failed, told, finished, tries, paceVars, pipeVars, events,
                 commands, playerVars, takes, disconnects>>

\* Only the lead of a source counts: the clock stops when there is none.
Tick ==
  /\ ahead > 0
  /\ ahead' = ahead - 1
  /\ UNCHANGED <<cur, pc, runVars, tries, written, pipeVars, events, commands, playerVars, takes,
                 disconnects>>

-----------------------------------------------------------------------------
(* run_spotify_playback.                                                  *)

Go(from, to) == pc = from /\ pc' = to

\* get_player_event_channel
FreshReceiver == events' = <<>>

\* Defect: the channel of the playback before is bound again.
BindSame == receiver' = cur /\ bound' = cur /\ UNCHANGED channel

Bind == receiver' = cur /\ bound' = cur /\ channel' = <<>>

\* start_playback: the channel is bound at once, the subscription is a command.
Acquire ==
  /\ Go("acquire", "load")
  /\ Bind
  /\ FreshReceiver
  /\ commands' = Append(commands, [do |-> "listen", who |-> cur])
  /\ UNCHANGED <<cur, runVars, tries, paceVars, playerVars, takes, disconnects>>

\* No credentials, no connection, no Premium: nothing was bound.
AcquireFails ==
  /\ Go("acquire", "report")
  /\ failed' = TRUE
  /\ UNCHANGED <<cur, asked, stop, told, finished, tries, paceVars, pipeVars, events, commands,
                 playerVars, takes, disconnects>>

LoadTrack ==
  /\ takes' = takes + 1
  /\ commands' = Append(commands, [do |-> "load", who |-> cur, take |-> takes + 1])

Load ==
  /\ Go("load", "top")
  /\ LoadTrack
  /\ UNCHANGED <<cur, runVars, tries, paceVars, pipeVars, events, playerVars, disconnects>>

\* SpotifyUri::from_uri fails with the guard already held.
BadUri ==
  /\ Go("load", "drop")
  /\ failed' = TRUE
  /\ UNCHANGED <<cur, asked, stop, told, finished, tries, paceVars, pipeVars, events, commands,
                 playerVars, takes, disconnects>>

SendStop == commands' = Append(commands, [do |-> "stop"])

CheckStop ==
  /\ pc = "top"
  /\ IF stop
     THEN pc' = "drop" /\ SendStop
     ELSE pc' = "drain" /\ UNCHANGED commands
  /\ UNCHANGED <<cur, runVars, tries, paceVars, pipeVars, events, playerVars, takes, disconnects>>

Drain ==
  /\ pc = "drain" /\ channel # <<>>
  /\ channel' = Tail(channel)
  /\ written' = Append(written, Head(channel))
  /\ ahead' = ahead + 1
  /\ UNCHANGED <<cur, pc, runVars, tries, receiver, bound, events, commands, playerVars, takes,
                 disconnects>>

\* Too far ahead of the clock: the source sleeps, and looks at nothing else.
Drained ==
  /\ pc = "drain" /\ channel = <<>>
  /\ pc' = IF ahead > MaxAhead THEN "sleep" ELSE "select"
  /\ UNCHANGED <<cur, runVars, tries, paceVars, pipeVars, events, commands, playerVars, takes,
                 disconnects>>

Awake ==
  /\ pc = "sleep" /\ ahead < MaxAhead
  /\ pc' = "top"
  /\ UNCHANGED <<cur, runVars, tries, paceVars, pipeVars, events, commands, playerVars, takes,
                 disconnects>>

\* Frames arrived, or 50 ms went by.
Wake ==
  /\ Go("select", "top")
  /\ UNCHANGED <<cur, runVars, tries, paceVars, pipeVars, events, commands, playerVars, takes,
                 disconnects>>

\* handle_player_event and the match behind it.
Hear ==
  /\ pc = "select" /\ events # <<>>
  /\ events' = Tail(events)
  /\ LET e == Head(events).what IN
       /\ pc' = CASE e \in {"ended", "stopped", "unavailable"} -> "drop"
                  [] e = "disconnected" -> "reconnect"
                  [] OTHER -> "top"
       /\ told' = (told \/ e = "unavailable")
       /\ finished' = (finished \/ e = "ended")
       /\ ahead' = IF e = "disconnected" THEN 0 ELSE ahead
  /\ UNCHANGED <<cur, asked, stop, failed, tries, written, pipeVars, commands, playerVars, takes,
                 disconnects>>

\* SpotifyHandle::reconnect does not look at the stop flag.
Reconnects ==
  /\ Go("reconnect", "top")
  /\ tries' = 0
  /\ LoadTrack
  /\ UNCHANGED <<cur, runVars, paceVars, pipeVars, events, playerVars, disconnects>>

SessionLost == told' = TRUE

ReconnectFails ==
  /\ pc = "reconnect"
  /\ IF tries + 1 < Attempts
     THEN tries' = tries + 1 /\ UNCHANGED <<pc, told>>
     ELSE tries' = 0 /\ pc' = "drop" /\ SessionLost
  /\ UNCHANGED <<cur, asked, stop, failed, finished, paceVars, pipeVars, events, commands,
                 playerVars, takes, disconnects>>

\* PlaybackGuard::drop, in the order of its steps.
DropStops ==
  /\ Go("drop", "unbind")
  /\ SendStop
  /\ UNCHANGED <<cur, runVars, tries, paceVars, pipeVars, events, playerVars, takes, disconnects>>

Unbind ==
  /\ Go("unbind", "close")
  /\ bound' = 0
  /\ UNCHANGED <<cur, runVars, tries, paceVars, channel, receiver, events, commands, playerVars,
                 takes, disconnects>>

\* pcm_rx goes last; what it holds is lost.
ReceiverDrops == receiver' = 0

Close ==
  /\ Go("close", "report")
  /\ ReceiverDrops
  /\ UNCHANGED <<cur, runVars, tries, paceVars, channel, bound, events, commands, playerVars, takes,
                 disconnects>>

\* SpotifySource::run reports an Err; StopGuard ends the watcher.
Report ==
  /\ Go("report", "ended")
  /\ told' = (told \/ failed)
  /\ stop' = TRUE
  /\ UNCHANGED <<cur, asked, failed, finished, tries, paceVars, pipeVars, events, commands,
                 playerVars, takes, disconnects>>

-----------------------------------------------------------------------------
(* The Player's thread.  Between two packets it obeys its commands.       *)

Polls == output = None
Told(what, track) == IF listener = cur /\ pc \notin {"acquire", "report", "ended"}
                     THEN Append(events, [what |-> what, track |-> track])
                     ELSE events
Commanded(do) == Polls /\ commands # <<>> /\ Head(commands).do = do /\ commands' = Tail(commands)

Listen ==
  /\ Commanded("listen")
  /\ listener' = Head(commands).who
  /\ UNCHANGED <<cur, pc, runVars, tries, paceVars, pipeVars, events, deck, accum, output,
                 flushing, takes, disconnects>>

\* The sink is started, and cleared, unless it is running already.
TakeLoad ==
  /\ Commanded("load")
  /\ deck' = [state |-> "loading", track |-> Head(commands).who, take |-> Head(commands).take,
              n |-> 0]
  /\ UNCHANGED <<cur, pc, runVars, tries, paceVars, pipeVars, events, listener, accum, output,
                 flushing, takes, disconnects>>

Loaded ==
  /\ Polls /\ commands = <<>> /\ deck.state = "loading"
  /\ deck' = [deck EXCEPT !.state = "playing"]
  /\ events' = Told("playing", deck.track)
  /\ UNCHANGED <<cur, pc, runVars, tries, paceVars, pipeVars, commands, listener, accum, output,
                 flushing, takes, disconnects>>

Unavailable ==
  /\ Polls /\ commands = <<>> /\ deck.state = "loading"
  /\ deck' = [deck EXCEPT !.state = "over"]
  /\ events' = Told("unavailable", deck.track)
  /\ UNCHANGED <<cur, pc, runVars, tries, paceVars, pipeVars, commands, listener, accum, output,
                 flushing, takes, disconnects>>

Chunk(n) == [track |-> deck.track, take |-> deck.take, n |-> n]

\* SpotifySink::write fills a chunk, and a part of the next.
Decode ==
  /\ Polls /\ commands = <<>> /\ deck.state = "playing" /\ deck.n < Length
  /\ deck' = [deck EXCEPT !.n = deck.n + 1]
  /\ output' = [chunk |-> Chunk(deck.n + 1), to |-> None]
  /\ accum' = Chunk(deck.n + 2)
  /\ UNCHANGED <<cur, pc, runVars, tries, paceVars, pipeVars, events, commands, listener,
                 flushing, takes, disconnects>>

TrackEnds ==
  /\ Polls /\ commands = <<>> /\ deck.state = "playing" /\ deck.n = Length
  /\ deck' = [deck EXCEPT !.state = "over"]
  /\ events' = Told("ended", deck.track)
  /\ UNCHANGED <<cur, pc, runVars, tries, paceVars, pipeVars, commands, listener, accum, output,
                 flushing, takes, disconnects>>

Disconnect ==
  /\ Polls /\ commands = <<>> /\ deck.state = "playing" /\ disconnects < MaxDisconnects
  /\ disconnects' = disconnects + 1
  /\ events' = Told("disconnected", deck.track)
  /\ UNCHANGED <<cur, pc, runVars, tries, paceVars, pipeVars, commands, playerVars, takes>>

\* SpotifySink::stop: flush_partial first.
TakeStop ==
  /\ Commanded("stop")
  /\ IF deck.state # "stopped" /\ accum # None
     THEN /\ output' = [chunk |-> accum, to |-> None]
          /\ flushing' = TRUE
          /\ UNCHANGED <<deck, events>>
     ELSE /\ deck' = Stopped
          /\ events' = IF deck = Stopped THEN events ELSE Told("stopped", deck.track)
          /\ UNCHANGED <<output, flushing>>
  /\ accum' = None
  /\ UNCHANGED <<cur, pc, runVars, tries, paceVars, pipeVars, listener, takes, disconnects>>

\* current_binding
LookUp ==
  /\ output # None /\ output.to = None
  /\ output' = [output EXCEPT !.to = <<bound>>]
  /\ UNCHANGED <<cur, pc, runVars, tries, paceVars, pipeVars, events, commands, listener, deck,
                 accum, flushing, takes, disconnects>>

\* The look-up found a channel that is gone (the accumulators are cleared) or none.
Discarded ==
  /\ output.to # <<receiver>> \/ receiver = 0
  /\ accum' = IF output.to = <<0>> THEN accum ELSE None
  /\ UNCHANGED channel

\* SyncSender::send waits for room.
Delivered ==
  /\ output.to = <<receiver>> /\ receiver # 0
  /\ Len(channel) < Capacity
  /\ channel' = Append(channel, output.chunk)
  /\ UNCHANGED accum

\* deliver_output; a stop that flushed is over with it.
Deliver ==
  /\ output # None /\ output.to # None
  /\ Discarded \/ Delivered
  /\ output' = None
  /\ flushing' = FALSE
  /\ IF flushing
     THEN deck' = Stopped /\ events' = Told("stopped", deck.track)
     ELSE UNCHANGED <<deck, events>>
  /\ UNCHANGED <<cur, pc, runVars, tries, paceVars, receiver, bound, commands, listener, takes,
                 disconnects>>

Player == \/ Listen \/ TakeLoad \/ Loaded \/ Unavailable \/ Decode \/ TrackEnds
          \/ TakeStop \/ LookUp \/ Deliver
Source == \/ Acquire \/ AcquireFails \/ Load \/ BadUri \/ CheckStop \/ Drain \/ Drained \/ Awake
          \/ Wake \/ Hear \/ Reconnects \/ ReconnectFails
          \/ DropStops \/ Unbind \/ Close \/ Report
Next == Begin \/ Ask \/ Mirror \/ Tick \/ Source \/ Player \/ Disconnect

Spec == Init /\ [][Next]_vars

\* The threads go on, time passes, and an event that is there is heard: select!
\* takes ready arms in turn at random.  A request of a reconnect comes back.
FairSpec ==
  /\ Spec
  /\ WF_vars(Mirror) /\ WF_vars(Tick) /\ WF_vars(Source) /\ WF_vars(Player) /\ SF_vars(Hear)

-----------------------------------------------------------------------------
(* Properties.                                                            *)

Chunks == [track : 1 .. Playbacks, take : Nat, n : 1 .. Length + 1]

\* Every variable holds what the code may put there; the channel has its capacity.
TypeOK ==
  /\ {cur, receiver, bound, listener} \subseteq 0 .. Playbacks
  /\ tries \in 0 .. Attempts - 1 /\ ahead \in Nat
  /\ Len(channel) <= Capacity
  /\ \A i \in DOMAIN channel : channel[i] \in Chunks
  /\ accum = None \/ accum \in Chunks
  /\ deck.state \in {"stopped", "loading", "playing", "over"}
  /\ output # None => output.to \in {None} \cup {<<p>> : p \in 0 .. Playbacks}
  /\ flushing => output # None

\* What a playback writes of its own track, and has under way, is gapless and in
\* order: within one load every chunk follows the one before, and a later load
\* starts afresh.  The full channel and the flush of a stopping sink could break it.
Way == written \o IF receiver = cur THEN channel ELSE <<>>
Follows(c, d) ==
  \/ c.take = d.take /\ d.n = c.n + 1
  \/ c.take < d.take /\ d.n = 1
InOrder ==
  \A i \in 2 .. Len(Way) :
    (Way[i - 1].track = cur /\ Way[i].track = cur) => Follows(Way[i - 1], Way[i])

\* A playback may begin with chunks of the one before it: one the sink was about
\* to deliver and the rest it flushed.  Never more, and never later.
BleedIsBounded ==
  \A i \in DOMAIN Way :
    Way[i].track # cur =>
      i <= 2 /\ Way[i].track < cur /\ \A j \in 1 .. i : Way[j].track # cur

\* A playback hears of its own track only: the events of the one before, its
\* "stopped" above all, would end it.
NewsIsItsOwn == receiver = cur => \A i \in DOMAIN events : events[i].track = cur

\* A playback that ended before its time was asked to, or clients were told why.
EndIsExplained == pc = "ended" /\ cur > 0 => asked \/ finished \/ told

\* handle.rs, PR #29: the Player's thread is never stuck in the sink of a playback
\* that is over, so that it obeys the next one.
PlayerIsFreed == commands # <<>> ~> commands = <<>>

\* Two tracks one after the other are told apart, in what is heard and in what is
\* said: InOrder, BleedIsBounded, NewsIsItsOwn and EndIsExplained, with the types.
TracksApart == TypeOK /\ InOrder /\ BleedIsBounded /\ NewsIsItsOwn /\ EndIsExplained
=============================================================================
