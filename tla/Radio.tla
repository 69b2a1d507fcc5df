------------------------------- MODULE Radio -------------------------------
(***************************************************************************)
(* Internet radio (sources/radio: mod.rs, streamer.rs, icy_stream.rs,      *)
(* icy_media_source.rs).  RadioSource::run is three threads:               *)
(*                                                                         *)
(*   watcher  relays the outer stop flag to an inner one                   *)
(*   net      opens the stream, takes the metadata out of it, pushes the   *)
(*            audio into a bounded channel, opens it again when it breaks  *)
(*   main     waits for the headers, decodes what it reads from the        *)
(*            channel, joins net                                           *)
(*                                                                         *)
(* A byte is <<tag, value>>; the program sees the value only, the tag says *)
(* what the server meant by it.                                            *)
(***************************************************************************)
EXTENDS Integers, SequencesExt

CONSTANTS
  Titles,          \* what a metadata block may carry; 0: no title
  Stride,          \* METADATA_BLOCK_STRIDE
  MaxStrides,      \* bound on the strides a block fills
  Rounds,          \* bound on the blocks of a connection
  Attempts,        \* of RadioStreamer::open
  ChannelCapacity, \* AUDIO_CHANNEL_CAPACITY
  Intervals,       \* icy-metaint headers; 0: none
  MaxConnections,  \* bound on the connections made
  MaxChunk         \* bound on the bytes of a chunk

VARIABLES
  stop, inner, watcher,
  main,        \* where run is
  net,         \* where network_loop is
  tries,       \* attempts of the open in progress
  wire,        \* what the server is still to send on this connection
  connections, \* connections made
  headers,     \* the one-place header channel is full
  parser,      \* IcyParser
  payload,     \* audio push_audio is trying to hand over
  channel,     \* audio chunks under way
  overflow,    \* IcyMediaSource::overflow
  attempt,     \* reconnect_attempt
  title,       \* last_title: what was last published
  link,        \* the last of Reconnecting and Reconnected
  owed,        \* (history) audio the server sent that was not read yet
  named        \* (history) the last title the server sent

flags == <<stop, inner, watcher>>
serverVars == <<wire, connections>>
busVars == <<title, link, named>>
pipeVars == <<channel, overflow, owed>>
vars == <<flags, main, net, tries, serverVars, headers, parser, payload, attempt, busVars, pipeVars>>

Bytes(tag, n, value) == [i \in 1 .. n |-> <<tag, value>>]

\* A block fills a number of strides with a title or without one, or is its length only.
Blocks == {b \in (0 .. MaxStrides) \X Titles : b[1] = 0 => b[2] = 0}
Block(b) ==
  IF b[1] = 0
  THEN <<<<"length", 0>>>>
  ELSE <<<<"length", b[1]>>>> \o Bytes("meta", b[1] * Stride - 1, b[2]) \o <<<<"end", b[2]>>>>

\* A stream: runs of audio with a block of metadata behind each but the last.
Streams(interval) ==
  IF interval = 0
  THEN {Bytes("audio", Rounds, 1)}
  ELSE {FlattenSeq([r \in 1 .. Rounds |-> Bytes("audio", interval, r) \o Block(block[r])])
          \o Bytes("audio", 1, 0) : block \in [1 .. Rounds -> Blocks]}

\* IcyParser::new
Parser(interval) == [interval |-> interval, mode |-> "audio", left |-> interval, block |-> <<>>]

Init ==
  /\ stop = FALSE /\ inner = FALSE /\ watcher = "runs"
  /\ main = "wait" /\ net = "open" /\ tries = 0
  /\ wire = <<>> /\ connections = 0
  /\ headers = FALSE
  /\ parser = Parser(0)
  /\ payload = <<>> /\ channel = <<>> /\ overflow = <<>>
  /\ attempt = 0 /\ title = 0 /\ link = "up"
  /\ owed = <<>> /\ named = 0

-----------------------------------------------------------------------------
(* The flags.                                                             *)

Stop ==
  /\ ~stop
  /\ stop' = TRUE
  /\ UNCHANGED <<inner, watcher, main, net, tries, serverVars, headers, parser, payload,
                 attempt, busVars, pipeVars>>

Watch ==
  /\ watcher = "runs"
  /\ stop
  /\ inner' = TRUE
  /\ watcher' = "done"
  /\ UNCHANGED <<stop, main, net, tries, serverVars, headers, parser, payload, attempt,
                 busVars, pipeVars>>

-----------------------------------------------------------------------------
(* IcyParser::push, a byte at a time.                                     *)

InAudio(s, b) ==
  [s EXCEPT !.p.left = @ - 1,
            !.p.mode = IF s.p.left = 1 THEN "length" ELSE "audio",
            !.audio = Append(@, b)]

InLength(s, b) ==
  IF b[2] = 0
  THEN [s EXCEPT !.p.mode = "audio", !.p.left = s.p.interval]
  ELSE [s EXCEPT !.p.mode = "meta", !.p.left = b[2] * Stride, !.p.block = <<>>]

\* Defect: the audio that follows a block is not counted from its end.
InMetaKeepsCount(s, b) ==
  IF s.p.left > 1
  THEN [s EXCEPT !.p.left = @ - 1, !.p.block = Append(@, b)]
  ELSE [s EXCEPT !.p.mode = "audio", !.p.left = s.p.interval + 1, !.p.block = <<>>,
                 !.blocks = Append(@, Append(s.p.block, b))]

InMeta(s, b) ==
  IF s.p.left > 1
  THEN [s EXCEPT !.p.left = @ - 1, !.p.block = Append(@, b)]
  ELSE [s EXCEPT !.p.mode = "audio", !.p.left = s.p.interval, !.p.block = <<>>,
                 !.blocks = Append(@, Append(s.p.block, b))]

OneByte(s, b) ==
  CASE s.p.interval = 0 -> [s EXCEPT !.audio = Append(@, b)]
    [] s.p.interval # 0 /\ s.p.mode = "audio" -> InAudio(s, b)
    [] s.p.interval # 0 /\ s.p.mode = "length" -> InLength(s, b)
    [] s.p.interval # 0 /\ s.p.mode = "meta" -> InMeta(s, b)

Parse(p, chunk) ==
  LET after[i \in 0 .. Len(chunk)] ==
        IF i = 0 THEN [p |-> p, audio |-> <<>>, blocks |-> <<>>]
        ELSE OneByte(after[i - 1], chunk[i])
  IN after[Len(chunk)]

\* extract_stream_title
TitleOf(block) == block[1][2]

\* (History) The audio the server sent in a chunk, and the last title it completed there.
Sound(chunk) ==
  LET sound[i \in 0 .. Len(chunk)] ==
        IF i = 0 THEN <<>>
        ELSE IF chunk[i][1] = "audio" THEN Append(sound[i - 1], chunk[i]) ELSE sound[i - 1]
  IN sound[Len(chunk)]
Completed(chunk) ==
  LET ends == {i \in DOMAIN chunk : chunk[i][1] = "end" /\ chunk[i][2] # 0}
  IN IF ends = {} THEN named ELSE chunk[Max(ends)][2]

-----------------------------------------------------------------------------
(* The network thread.                                                    *)

Connected(interval) ==
  /\ wire' \in Streams(interval)
  /\ parser' = Parser(interval)
  /\ connections' = connections + 1

\* try_open_once succeeds.
Opens ==
  /\ net \in {"open", "reopen"}
  /\ connections < MaxConnections
  /\ \E interval \in Intervals : Connected(interval)
  /\ net' = IF net = "open" THEN "header" ELSE "loop"
  /\ tries' = 0
  /\ UNCHANGED <<flags, main, headers, payload, attempt, busVars, pipeVars>>

\* It fails: after the last attempt the thread gives up.
OpenFails ==
  /\ net \in {"open", "reopen"}
  /\ tries' = (tries + 1) % Attempts
  /\ net' = IF tries + 1 = Attempts THEN "done" ELSE net
  /\ UNCHANGED <<flags, main, serverVars, headers, parser, payload, attempt, busVars, pipeVars>>

SendHeaders ==
  /\ net = "header"
  /\ headers' = TRUE
  /\ net' = "loop"
  /\ UNCHANGED <<flags, main, tries, serverVars, parser, payload, attempt, busVars, pipeVars>>

CheckStop ==
  /\ net = "loop"
  /\ net' = IF inner THEN "done" ELSE "await"
  /\ UNCHANGED <<flags, main, tries, serverVars, headers, parser, payload, attempt, busVars,
                 pipeVars>>

\* The last title of the blocks, if it is not the one on display.
Published(blocks) ==
  LET titled == {i \in DOMAIN blocks : TitleOf(blocks[i]) # 0}
  IN IF titled = {} THEN title ELSE TitleOf(blocks[Max(titled)])

\* Defect: the attempts are forgotten without a word.
ResumedQuietly == attempt' = 0 /\ UNCHANGED link

\* Audio got through after a break.
Resumed == attempt' = 0 /\ link' = IF attempt > 0 THEN "up" ELSE link

Chunk ==
  /\ net = "await"
  /\ \E n \in 1 .. Len(wire) :
       LET chunk == SubSeq(wire, 1, n)
           parsed == Parse(parser, chunk)
       IN /\ n <= MaxChunk
          /\ wire' = SubSeq(wire, n + 1, Len(wire))
          /\ parser' = parsed.p
          /\ title' = Published(parsed.blocks)
          /\ payload' = parsed.audio
          /\ owed' = owed \o Sound(chunk)
          /\ named' = Completed(chunk)
          /\ IF parsed.audio = <<>>
             THEN net' = "loop" /\ Resumed
             ELSE net' = "push" /\ UNCHANGED <<attempt, link>>
  /\ UNCHANGED <<flags, main, tries, connections, headers, channel, overflow>>

ReceiverGone == main = "decoded"

\* try_send: full means to try again.
HandOver ==
  /\ Len(channel) < ChannelCapacity
  /\ channel' = Append(channel, payload)

Push ==
  /\ net = "push"
  /\ ~inner
  /\ ~ReceiverGone
  /\ HandOver
  /\ Resumed
  /\ payload' = <<>>
  /\ net' = "loop"
  /\ UNCHANGED <<flags, main, tries, serverVars, headers, parser, title, named, overflow, owed>>

PushGivesUp ==
  /\ net = "push"
  /\ inner \/ ReceiverGone
  /\ net' = "done"
  /\ UNCHANGED <<flags, main, tries, serverVars, headers, parser, payload, attempt, busVars,
                 pipeVars>>

\* An error or the end of the stream.
Breaks ==
  /\ net = "await"
  /\ attempt' = IF attempt < MaxConnections THEN attempt + 1 ELSE attempt
  /\ link' = "down"
  /\ net' = "reopen"
  /\ wire' = <<>>
  /\ UNCHANGED <<flags, main, tries, connections, headers, parser, payload, title, named,
                 pipeVars>>

-----------------------------------------------------------------------------
(* Main: wait_for_headers, then decode_stream over IcyMediaSource::read.  *)

TakeHeaders ==
  /\ main = "wait"
  /\ ~inner
  /\ headers
  /\ headers' = FALSE
  /\ main' = "decode"
  /\ UNCHANGED <<flags, net, tries, serverVars, parser, payload, attempt, busVars, pipeVars>>

\* Stopped, timed out after twenty seconds, or the network thread is gone.
\* The inner flag stays as it is.
NoHeaders ==
  /\ main = "wait"
  /\ main' = "unheard"
  /\ UNCHANGED <<flags, net, tries, serverVars, headers, parser, payload, attempt, busVars,
                 pipeVars>>

\* At most n bytes: of what is left over first, then of the next chunk.
ReadSome(n) ==
  \/ /\ n <= Len(overflow)
     /\ overflow' = SubSeq(overflow, n + 1, Len(overflow))
     /\ owed' = SubSeq(owed, n + 1, Len(owed))
     /\ UNCHANGED channel
  \/ /\ overflow = <<>>
     /\ ~inner
     /\ channel # <<>>
     /\ n <= Len(Head(channel))
     /\ overflow' = SubSeq(Head(channel), n + 1, Len(Head(channel)))
     /\ channel' = Tail(channel)
     /\ owed' = SubSeq(owed, n + 1, Len(owed))

Read ==
  /\ main = "decode"
  /\ \E n \in 1 .. MaxChunk : ReadSome(n)
  /\ UNCHANGED <<flags, main, net, tries, serverVars, headers, parser, payload, attempt, busVars>>

Finish ==
  /\ main' = "decoded"
  /\ inner' = TRUE

\* The end of the bytes, the stop flag, or an error of the decoder.
DecodeEnds ==
  /\ main = "decode"
  /\ Finish
  /\ UNCHANGED <<stop, watcher, net, tries, serverVars, headers, parser, payload, attempt,
                 busVars, pipeVars>>

Join ==
  /\ main \in {"unheard", "decoded"}
  /\ net = "done"
  /\ main' = "left"
  /\ UNCHANGED <<flags, net, tries, serverVars, headers, parser, payload, attempt, busVars,
                 pipeVars>>

Net == Opens \/ OpenFails \/ SendHeaders \/ CheckStop \/ Chunk \/ Push \/ PushGivesUp \/ Breaks
Main == TakeHeaders \/ NoHeaders \/ Read \/ DecodeEnds \/ Join
Next == Stop \/ Watch \/ Net \/ Main

Spec == Init /\ [][Next]_vars

\* What the source's thread does without being given anything: the decoder ends
\* when its input does.
MainGoesOn == \/ TakeHeaders \/ ((inner \/ net = "done") /\ NoHeaders)
              \/ (inner /\ DecodeEnds) \/ Join

\* And the network thread, which otherwise waits for the server: streamer.rs:104 sets
\* no timeout on reading.
NetGoesOn == SendHeaders \/ CheckStop \/ Push \/ PushGivesUp
ServerSilent == net \in {"open", "reopen", "await"}

\* The three threads go on, and a full channel is tried again.  Nothing is asked
\* of the server.
ThreadFairness ==
  /\ WF_vars(Watch)
  /\ WF_vars(NetGoesOn)
  /\ WF_vars(MainGoesOn)

FairSpec == Spec /\ ThreadFairness
-----------------------------------------------------------------------------
(* Properties.                                                            *)

TypeOK ==
  /\ stop \in BOOLEAN /\ inner \in BOOLEAN /\ watcher \in {"runs", "done"}
  /\ main \in {"wait", "decode", "decoded", "unheard", "left"}
  /\ net \in {"open", "header", "loop", "await", "push", "reopen", "done"}
  /\ tries \in 0 .. Attempts - 1 /\ connections \in 0 .. MaxConnections
  /\ headers \in BOOLEAN
  /\ parser.mode \in {"audio", "length", "meta"} /\ parser.left \in Nat
  /\ Len(channel) <= ChannelCapacity
  /\ attempt \in 0 .. MaxConnections /\ link \in {"up", "down"}
  /\ title \in Nat /\ named \in Titles

\* However the server's bytes are cut into chunks and the decoder's reads cut
\* them again, and across every reconnection, the decoder gets all of the
\* audio in its order and none of the metadata.
AudioOnly ==
  (~inner /\ net # "done") => overflow \o FlattenSeq(channel) \o payload = owed

\* What clients are shown is the last title the server completed, also when
\* blocks are split over chunks or come several to a chunk.
TitleIsCurrent == title = named

\* A client that saw Reconnecting sees Reconnected once chunks arrive again:
\* the thread never waits for more audio with the attempt closed and the
\* break still on display.
LinkIsTold == net \in {"loop", "await"} => (link = "down" <=> attempt > 0)

\* A network thread that is to stop does so before it waits for the server again,
\* whatever the server has just sent, and whether or not anybody reads the channel.
StopIsSeen == (inner /\ ~ServerSilent) ~> net = "done"

\* What clients see of a station is current: TitleIsCurrent and LinkIsTold, with the types.
ListenersAreTold == TypeOK /\ TitleIsCurrent /\ LinkIsTold
=============================================================================
