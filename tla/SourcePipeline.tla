--------------------------- MODULE SourcePipeline ---------------------------
(***************************************************************************)
(* How a source command reaches the speaker, and how the daemon stops      *)
(* (daemon/event_loop.rs).  Four parties share two flags, a channel and a  *)
(* one-place mailbox:                                                      *)
(*                                                                         *)
(*   dispatcher   dispatch_verbs: turns `source` verbs into commands       *)
(*   connect      ConnectRuntime: sends PlayConnect when a phone picks us  *)
(*   watcher      clitunesd-cmd-watcher: moves commands from the channel   *)
(*                to `pending` and raises `source_stop`                    *)
(*   main         run_source_pipeline: runs one source at a time           *)
(*                                                                         *)
(* and the event loop raises `stop` and then joins main.  Every load and   *)
(* store of a flag is a step of its own.  What a source plays is left out: *)
(* a source is its kind, and the number of the command that asked for it.  *)
(***************************************************************************)
EXTENDS Integers, Sequences

CONSTANTS
  VerbKinds,    \* kinds a `source` verb can ask for, of "radio", "local", "spotify"
  MaxCommands   \* bound on the commands sent in a behaviour

ASSUME VerbKindsAssumption == VerbKinds \subseteq {"radio", "local", "spotify"}
ASSUME MaxCommandsAssumption == MaxCommands \in Nat

VARIABLES
  stop,         \* the daemon's stop flag
  sent,         \* commands sent so far: the number of the newest
  verb,         \* kind dispatch_verbs is working on, "none" between verbs
  senders,      \* holders of a live source_cmd_tx
  channel,      \* source_cmd_tx -> source_cmd_rx
  pending,      \* the watcher's mailbox
  sourceStop,   \* source_stop
  watcher,      \* where the watcher thread is
  main,         \* where run_source_pipeline is
  current,      \* the source main has selected
  eventLoop     \* DaemonEventLoop::run

vars == <<stop, sent, verb, senders, channel, pending, sourceStop, watcher, main,
          current, eventLoop>>

Kinds == {"idle", "tone", "radio", "local", "spotify", "connect"}
CanFail == {"radio", "local"}                \* RadioSource::new, LocalSource::new
SelfEnding == {"local", "spotify", "connect"} \* end of queue or track, sink rotation

Command(n, kind) == [id |-> n, kind |-> kind]
NoCommand == Command(0, "none")
Sources == [id : Nat, kind : Kinds]

Init ==
  /\ stop = FALSE
  /\ sent = 0
  /\ verb = "none"
  /\ senders \in {{"dispatcher"}, {"dispatcher", "connect"}}
  /\ channel = <<>>
  /\ pending = NoCommand
  /\ sourceStop = FALSE
  /\ watcher = "check"
  /\ main = "check"
  /\ current = Command(0, "idle")
  /\ eventLoop = "serving"

-----------------------------------------------------------------------------
(* The senders of commands *)

Send(kind) ==
  /\ sent < MaxCommands
  /\ sent' = sent + 1
  /\ channel' = Append(channel, Command(sent + 1, kind))

\* dispatch_verbs takes a `source` verb while the daemon runs; resolving a
\* radio station then awaits the network before anything is sent.
AcceptVerb(kind) ==
  /\ "dispatcher" \in senders
  /\ verb = "none"
  /\ ~ stop
  /\ verb' = kind
  /\ UNCHANGED <<stop, sent, senders, channel, pending, sourceStop, watcher, main,
                 current, eventLoop>>

SendVerb ==
  /\ verb # "none"
  /\ Send(verb)
  /\ verb' = "none"
  /\ UNCHANGED <<stop, senders, pending, sourceStop, watcher, main, current, eventLoop>>

ResolveFails ==
  /\ verb = "radio"
  /\ verb' = "none"
  /\ UNCHANGED <<stop, sent, senders, channel, pending, sourceStop, watcher, main,
                 current, eventLoop>>

\* The next verb after stop is refused and ends dispatch_verbs, which owns a
\* sender; with no such verb the sender lives until the runtime is dropped.
DispatcherReturns ==
  /\ "dispatcher" \in senders
  /\ verb = "none"
  /\ stop
  /\ senders' = senders \ {"dispatcher"}
  /\ UNCHANGED <<stop, sent, verb, channel, pending, sourceStop, watcher, main, current,
                 eventLoop>>

PlayConnect ==
  /\ "connect" \in senders
  /\ Send("connect")
  /\ UNCHANGED <<stop, verb, senders, pending, sourceStop, watcher, main, current, eventLoop>>

-----------------------------------------------------------------------------
(* The command watcher *)

WatcherSeesStop ==
  /\ watcher = "check"
  /\ stop
  /\ watcher' = "raiseLast"
  /\ UNCHANGED <<stop, sent, verb, senders, channel, pending, sourceStop, main, current,
                 eventLoop>>

WatcherListens ==
  /\ watcher = "check"
  /\ ~ stop
  /\ watcher' = "recv"
  /\ UNCHANGED <<stop, sent, verb, senders, channel, pending, sourceStop, main, current,
                 eventLoop>>

\* A newer command overwrites one that main has not taken yet.
WatcherRecv ==
  /\ watcher = "recv"
  /\ channel # <<>>
  /\ pending' = Head(channel)
  /\ channel' = Tail(channel)
  /\ watcher' = "raise"
  /\ UNCHANGED <<stop, sent, verb, senders, sourceStop, main, current, eventLoop>>

\* Defect: fills the mailbox and wakes nobody.
WatcherForgetsFlag ==
  /\ watcher = "raise"
  /\ watcher' = "check"
  /\ UNCHANGED <<stop, sent, verb, senders, channel, pending, sourceStop, main, current,
                 eventLoop>>

WatcherRaise ==
  /\ watcher = "raise"
  /\ sourceStop' = TRUE
  /\ watcher' = "check"
  /\ UNCHANGED <<stop, sent, verb, senders, channel, pending, main, current, eventLoop>>

WatcherTimeout ==
  /\ watcher = "recv"
  /\ channel = <<>>
  /\ senders # {}
  /\ watcher' = "check"
  /\ UNCHANGED <<stop, sent, verb, senders, channel, pending, sourceStop, main, current,
                 eventLoop>>

WatcherDisconnected ==
  /\ watcher = "recv"
  /\ channel = <<>>
  /\ senders = {}
  /\ watcher' = "raiseLast"
  /\ UNCHANGED <<stop, sent, verb, senders, channel, pending, sourceStop, main, current,
                 eventLoop>>

WatcherReturns ==
  /\ watcher = "raiseLast"
  /\ sourceStop' = TRUE
  /\ watcher' = "done"
  /\ UNCHANGED <<stop, sent, verb, senders, channel, pending, main, current, eventLoop>>

-----------------------------------------------------------------------------
(* run_source_pipeline *)

MainGoes(from, to) ==
  /\ main = from
  /\ main' = to
  /\ UNCHANGED <<stop, sent, verb, senders, channel, watcher, eventLoop>>

MainSeesStop ==
  /\ stop
  /\ \/ MainGoes("check", "done")
     \/ MainGoes("recheck", "done")
  /\ UNCHANGED <<pending, sourceStop, current>>

MainContinues ==
  /\ ~ stop
  /\ \/ MainGoes("check", "reset")
     \/ MainGoes("recheck", "take")
  /\ UNCHANGED <<pending, sourceStop, current>>

\* Defect: starts from a clean slate, mailbox included.
MainResetsMailbox ==
  /\ MainGoes("reset", "start")
  /\ sourceStop' = FALSE
  /\ pending' = NoCommand
  /\ UNCHANGED current

MainResets ==
  /\ MainGoes("reset", "start")
  /\ sourceStop' = FALSE
  /\ UNCHANGED <<pending, current>>

StartSource ==
  /\ MainGoes("start", "running")
  /\ UNCHANGED <<pending, sourceStop, current>>

\* A source that cannot be built is replaced by the tone, and the loop starts
\* over without looking at `pending`.
SourceFails ==
  /\ current.kind \in CanFail
  /\ MainGoes("start", "check")
  /\ current' = [current EXCEPT !.kind = "tone"]
  /\ UNCHANGED <<pending, sourceStop>>

SourceStopped ==
  /\ sourceStop \/ (current.kind = "idle" /\ stop)
  /\ MainGoes("running", "recheck")
  /\ UNCHANGED <<pending, sourceStop, current>>

SourceEnds ==
  /\ current.kind \in SelfEnding
  /\ MainGoes("running", "recheck")
  /\ UNCHANGED <<pending, sourceStop, current>>

TakePending ==
  /\ MainGoes("take", "check")
  /\ current' = IF pending = NoCommand THEN current ELSE pending
  /\ pending' = NoCommand
  /\ UNCHANGED sourceStop

-----------------------------------------------------------------------------
(* DaemonEventLoop::run *)

\* A signal, or the idle timer.
RequestStop ==
  /\ ~ stop
  /\ stop' = TRUE
  /\ UNCHANGED <<sent, verb, senders, channel, pending, sourceStop, watcher, main, current,
                 eventLoop>>

\* select! ends, then the Connect runtime is shut down, which drops its sender.
StopServing ==
  /\ eventLoop = "serving"
  /\ stop
  /\ eventLoop' = "joining"
  /\ senders' = senders \ {"connect"}
  /\ UNCHANGED <<stop, sent, verb, channel, pending, sourceStop, watcher, main, current>>

JoinSource ==
  /\ eventLoop = "joining"
  /\ main = "done"
  /\ eventLoop' = "exited"
  /\ UNCHANGED <<stop, sent, verb, senders, channel, pending, sourceStop, watcher, main,
                 current>>

-----------------------------------------------------------------------------
Senders ==
  \/ \E kind \in VerbKinds : AcceptVerb(kind)
  \/ SendVerb
  \/ ResolveFails
  \/ DispatcherReturns
  \/ PlayConnect

Watcher ==
  \/ WatcherSeesStop
  \/ WatcherListens
  \/ WatcherRecv
  \/ WatcherRaise
  \/ WatcherTimeout
  \/ WatcherDisconnected
  \/ WatcherReturns

MainInControl ==
  \/ MainSeesStop
  \/ MainContinues
  \/ MainResets
  \/ StartSource
  \/ SourceFails
  \/ SourceStopped
  \/ TakePending

EventLoop == RequestStop \/ StopServing \/ JoinSource

Next == Senders \/ Watcher \/ MainInControl \/ SourceEnds \/ EventLoop

Spec == Init /\ [][Next]_vars

\* The two threads and the event loop are scheduled; a verb being dispatched is
\* answered.  Clients, phones, signals and the end of a track are not promised.
Fairness ==
  /\ WF_vars(Watcher)
  /\ WF_vars(MainInControl)
  /\ WF_vars(SendVerb \/ ResolveFails)
  /\ WF_vars(StopServing)
  /\ WF_vars(JoinSource)

FairSpec == Spec /\ Fairness

-----------------------------------------------------------------------------
(* Properties *)

\* Types and control points of the two threads and the event loop.
TypeOK ==
  /\ stop \in BOOLEAN
  /\ sent \in Nat
  /\ verb \in Kinds \cup {"none"}
  /\ senders \subseteq {"dispatcher", "connect"}
  /\ channel \in Seq(Sources)
  /\ pending \in Sources \cup {NoCommand}
  /\ sourceStop \in BOOLEAN
  /\ watcher \in {"check", "recv", "raise", "raiseLast", "done"}
  /\ main \in {"check", "reset", "start", "running", "recheck", "take", "done"}
  /\ current \in Sources
  /\ eventLoop \in {"serving", "joining", "exited"}

\* Commands reach main in the order they were sent: what is playing is older
\* than what waits in the mailbox, which is older than what is in the channel
\* (so no source ever comes back after a newer one was selected).
CommandsInOrder ==
  /\ pending # NoCommand => current.id < pending.id
  /\ \A i \in 1 .. Len(channel) :
       /\ current.id < channel[i].id
       /\ pending.id < channel[i].id
       /\ \A j \in 1 .. i - 1 : channel[j].id < channel[i].id

\* The number of the newest command that has not been overwritten.
Newest ==
  IF channel # <<>> THEN channel[Len(channel)].id
  ELSE IF pending # NoCommand THEN pending.id
  ELSE current.id

\* A command is lost only to a newer one: the newest command ever sent is in
\* the channel, in the mailbox, or is the selected source.
NewestSurvives == Newest = sent

\* A command that arrives while a source runs interrupts it: it, or a newer
\* one, becomes the selected source (the order pending, then source_stop).
RunningSourceInterrupted ==
  \A n \in 1 .. MaxCommands :
    (watcher = "raise" /\ main = "running" /\ pending.id = n)
      ~> (current.id >= n \/ stop)

\* While a source runs and the watcher is still there, stop is honoured.
WatchedShutdown ==
  (stop /\ main = "running" /\ watcher # "done") ~> main = "done"

\* guide/explanation/architecture.md:96 says the "daemon exits cleanly" once it
\* decides to stop.  The code does not keep it (README, Findings).
ShutdownCompletes == stop ~> eventLoop = "exited"

\* What plays next is what was asked for last: CommandsInOrder and NewestSurvives,
\* with the types.
NewestIsNext == TypeOK /\ CommandsInOrder /\ NewestSurvives

\* Who watches a running source gets through to it: RunningSourceInterrupted and
\* WatchedShutdown.
WatcherInterrupts == RunningSourceInterrupted /\ WatchedShutdown
=============================================================================
