----------------------------- MODULE MCSources -----------------------------
(***************************************************************************)
(* The daemon opens one source at a time: a folder of local files with the *)
(* device that plays them (Playback), a radio station (Radio) or Spotify   *)
(* (SpotifyPlayer).  A behaviour is one of one of them, for TLC; names     *)
(* that they share are told apart by a prefix.                             *)
(***************************************************************************)
EXTENDS Integers, Sequences

CONSTANTS RingRate, Rates, RingFrames, Scratch, Files, MaxPacket, MaxFed, Asks, MaxUnderruns
CONSTANTS Titles, Stride, MaxStrides, Rounds, RadioAttempts, ChannelCapacity, Intervals,
          MaxConnections, MaxChunk
CONSTANTS Playbacks, Length, Capacity, MaxAhead, Attempts, MaxDisconnects

\* Rates and buffers are not zero; the bounds are numbers.
ASSUME FolderAssumption ==
  /\ RingRate \in Nat \ {0} /\ Rates \subseteq Nat \ {0}
  /\ RingFrames \in Nat /\ Scratch \in Nat \ {0}
  /\ {Files, MaxPacket, MaxFed, MaxUnderruns} \subseteq Nat /\ Asks \subseteq Nat

\* A station may have no title; strides are not empty, and a station is asked for at least once.
ASSUME StationAssumption ==
  /\ Titles \subseteq Nat /\ 0 \in Titles /\ Intervals \subseteq Nat
  /\ {Stride, RadioAttempts} \subseteq Nat \ {0}
  /\ {MaxStrides, Rounds, ChannelCapacity, MaxConnections, MaxChunk} \subseteq Nat

\* A lost session is asked for again; the bounds are numbers.
ASSUME PlayerAssumption ==
  {Playbacks, Length, Capacity} \subseteq Nat /\ Attempts \in Nat \ {0}

VARIABLES
  source, \* which of them is open
  localPc, localStop, files, played, current, upcoming, rate, fed, emitted, cursor, prev, stretch,
  localWritten, head, device, pos, tail, sound, heard, silent, underruns, dropped,
  radioStop, inner, watcher, main, net, radioTries, wire, connections, headers, parser, payload,
  radioChannel, overflow, attempt, title, link, owed, named,
  cur, pc, asked, stop, failed, told, tries, ahead, written, finished, channel, receiver, bound,
  events, commands, listener, deck, accum, output, flushing, takes, disconnects

Folder == INSTANCE Playback WITH pc <- localPc, stop <- localStop, written <- localWritten
Station == INSTANCE Radio WITH
  stop <- radioStop, tries <- radioTries, channel <- radioChannel, Attempts <- RadioAttempts
Track == INSTANCE SpotifyPlayer

folderVars ==
  <<localPc, localStop, files, played, current, upcoming, rate, fed, emitted, cursor, prev, stretch,
    localWritten, head, device, pos, tail, sound, heard, silent, underruns, dropped>>
radioVars ==
  <<radioStop, inner, watcher, main, net, radioTries, wire, connections, headers, parser, payload,
    radioChannel, overflow, attempt, title, link, owed, named>>
trackVars ==
  <<cur, pc, asked, stop, failed, told, tries, ahead, written, finished, channel, receiver, bound,
    events, commands, listener, deck, accum, output, flushing, takes, disconnects>>
sourcesVars == <<source, folderVars, radioVars, trackVars>>

SourcesInit ==
  /\ Folder!Init /\ Station!Init /\ Track!Init
  /\ source \in {"folder", "radio", "spotify"}
  /\ source # "folder" => files = 1 /\ device = RingRate

FolderNext == source = "folder" /\ Folder!Next /\ UNCHANGED <<source, radioVars, trackVars>>
RadioNext == source = "radio" /\ Station!Next /\ UNCHANGED <<source, folderVars, trackVars>>
TrackNext == source = "spotify" /\ Track!Next /\ UNCHANGED <<source, folderVars, radioVars>>
SourcesNext == FolderNext \/ RadioNext \/ TrackNext

\* The fairness of each module, for the source that is open.
FolderFairness == WF_folderVars(source = "folder" /\ Folder!Run)
RadioFairness ==
  /\ WF_radioVars(source = "radio" /\ Station!Watch)
  /\ WF_radioVars(source = "radio" /\ Station!NetGoesOn)
  /\ WF_radioVars(source = "radio" /\ Station!MainGoesOn)
TrackFairness ==
  /\ WF_trackVars(source = "spotify" /\ Track!Mirror)
  /\ WF_trackVars(source = "spotify" /\ Track!Tick)
  /\ WF_trackVars(source = "spotify" /\ Track!Source)
  /\ WF_trackVars(source = "spotify" /\ Track!Player)
  /\ SF_trackVars(source = "spotify" /\ Track!Hear)

SourcesSpec ==
  /\ SourcesInit /\ [][SourcesNext]_sourcesVars
  /\ FolderFairness /\ RadioFairness /\ TrackFairness
-----------------------------------------------------------------------------
(* The properties of the three, each stated where it is defined.          *)

ToldToStop == CASE source = "folder" -> localStop
                [] source = "radio" -> radioStop
                [] source = "spotify" -> asked
SourceOver == CASE source = "folder" -> localPc = "done"
                [] source = "radio" -> main = "left" /\ watcher = "done"
                [] source = "spotify" -> pc = "ended"

ServerSilent == source = "radio" /\ Station!ServerSilent

\* A source that is told to stop returns with its threads ended, whatever state its
\* file, connection, channel, decoder or Player is in (the main loop waits for it),
\* unless it is a radio whose server is silent for ever: its network thread ends as
\* soon as the server lets it look at the flag.  And the Player's thread is never
\* stuck in the sink of a playback that is over.
SourceEnds ==
  /\ ToldToStop ~> (SourceOver \/ []ServerSilent)
  /\ Station!StopIsSeen
  /\ Track!PlayerIsFreed

\* Playback: the decoder's resampler loses and shifts nothing at a packet boundary.
ResamplerExact == Folder!ResamplerExact
\* Playback: files keep their order, frames keep theirs, and silence is counted.
FolderIsHeard == Folder!FolderIsHeard
\* Radio: the decoder gets all audio and no metadata, however it is cut.
AudioOnly == Station!AudioOnly
\* Radio: clients are shown the last complete title, and no break that is over.
ListenersAreTold == Station!ListenersAreTold
\* SpotifyPlayer: tracks one after the other do not run into one another.
TracksApart == Track!TracksApart
=============================================================================
