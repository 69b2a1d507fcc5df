------------------------------ MODULE Connect ------------------------------
(***************************************************************************)
(* The Spotify Connect receiver (sources/spotify/connect.rs and sink.rs):  *)
(*                                                                         *)
(*   runtime   run_connect_loop: one librespot session at a time, rebuilt  *)
(*             whenever a phone picks the device                           *)
(*   player    librespot's thread, one per session: pushes audio into the  *)
(*             channel its sink is bound to and blocks while it is full    *)
(*   source    ConnectSource::run on the source pipeline's thread: binds a *)
(*             channel to the sink in the shared slot and drains it        *)
(*                                                                         *)
(* A session, its player and its sink share a number, the pick that caused *)
(* them.  The arms of the runtime's select! are scripts of steps, because  *)
(* the other threads run between any two of them.  The pipeline is reduced *)
(* to the newest command it has not taken (SourcePipeline has the rest).   *)
(***************************************************************************)
EXTENDS Integers, Sequences, FiniteSets

CONSTANTS
  MaxPicks,        \* bound on the times a phone picks the device
  MaxVerbs,        \* bound on `source` and `connect disconnect` verbs
  ChannelCapacity  \* CHANNEL_CAPACITY, in chunks

VARIABLES
  script,      \* what is left of the runtime's select! arm, <<>> in select!
  picks,       \* credentials discovery has yielded
  spirc,       \* session of current_spirc, None when there is none
  task,        \* current_task
  playback,    \* session whose Player and sink the runtime owns
  announced,   \* announced_connected
  stopped,     \* shutdown_tx has been used
  asked,       \* requests in disconnect_rx
  slot,        \* ConnectSinkSlot
  player,      \* each session's player thread
  target,      \* channel each player is sending to
  binding,     \* each sink's SharedBinding
  source,      \* where ConnectSource is, "other" while it does not run
  held,        \* sink whose handle it holds
  channel,     \* channel it drains
  binds,       \* channels made so far
  fill,        \* chunks in that channel
  selected,    \* the pipeline's current source
  inbox,       \* newest command it has not taken
  verbs,       \* verbs issued
  view         \* (history) what clients were last told about the device

runtimeVars == <<script, picks, spirc, task, playback, announced, stopped, asked, slot, view>>
playerVars == <<player, target>>
sourceVars == <<binding, source, held, channel, binds, fill, selected>>
vars == <<runtimeVars, playerVars, sourceVars, inbox, verbs>>

None == 0
Sessions == 1 .. MaxPicks

Init ==
  /\ script = <<>>
  /\ picks = 0
  /\ spirc = None
  /\ task = "none"
  /\ playback = None
  /\ announced = FALSE
  /\ stopped = FALSE
  /\ asked = 0
  /\ slot = None
  /\ player = [n \in Sessions |-> "none"]
  /\ target = [n \in Sessions |-> None]
  /\ binding = [n \in Sessions |-> None]
  /\ source = "other"
  /\ held = None
  /\ channel = None
  /\ binds = 0
  /\ fill = 0
  /\ selected = "local"
  /\ inbox = "none"
  /\ verbs = 0
  /\ view = FALSE

-----------------------------------------------------------------------------
(* The arms of the runtime's select!.  Unready arms wait; ready ones are  *)
(* taken in any order.                                                    *)

InSelect == script = <<>>

ShutdownArm ==
  /\ InSelect
  /\ stopped
  /\ script' = <<"await", "clear", "drop", "exit">>
  /\ spirc' = None
  /\ UNCHANGED <<picks, task, playback, announced, stopped, asked, slot, view, playerVars,
                 sourceVars, inbox, verbs>>

DisconnectArm ==
  /\ InSelect
  /\ asked > 0
  /\ asked' = asked - 1
  /\ script' = IF spirc = None THEN <<>> ELSE <<"await", "drop", "clear", "tell">>
  /\ spirc' = None
  /\ UNCHANGED <<picks, task, playback, announced, stopped, slot, view, playerVars, sourceVars,
                 inbox, verbs>>

\* Defect: builds the new session before it drops the old one.
DiscoveryArmBuildsFirst ==
  /\ InSelect
  /\ picks < MaxPicks
  /\ picks' = picks + 1
  /\ script' = <<"await", "clear", "build", "publish", "open">>
  /\ spirc' = None
  /\ UNCHANGED <<task, playback, announced, stopped, asked, slot, view, playerVars, sourceVars,
                 inbox, verbs>>

DiscoveryArm ==
  /\ InSelect
  /\ picks < MaxPicks
  /\ picks' = picks + 1
  /\ script' = <<"await", "clear", "drop", "build", "publish", "open">>
  /\ spirc' = None
  /\ UNCHANGED <<task, playback, announced, stopped, asked, slot, view, playerVars, sourceVars,
                 inbox, verbs>>

TaskEndArm ==
  /\ InSelect
  /\ task = "ended"
  /\ task' = "none"
  /\ script' = <<"drop", "clear", "tell">>
  /\ spirc' = None
  /\ UNCHANGED <<picks, playback, announced, stopped, asked, slot, view, playerVars, sourceVars,
                 inbox, verbs>>

-----------------------------------------------------------------------------
(* Their steps *)

At(steps) == script # <<>> /\ Head(script) \in steps
Step(name) == At({name}) /\ script' = Tail(script)

AwaitTask ==
  /\ Step("await")
  /\ task # "running"
  /\ task' = "none"
  /\ UNCHANGED <<picks, spirc, playback, announced, stopped, asked, slot, view, playerVars,
                 sourceVars, inbox, verbs>>

ClearSlot ==
  /\ Step("clear")
  /\ slot' = None
  /\ UNCHANGED <<picks, spirc, task, playback, announced, stopped, asked, view, playerVars,
                 sourceVars, inbox, verbs>>

\* The last owner of a Player waits for its thread, which is in the middle of
\* a chunk or between two.
DropPlayback ==
  /\ Step("drop")
  /\ playback # None => player[playback] = "quiet"
  /\ player' = [n \in Sessions |-> IF n = playback THEN "gone" ELSE player[n]]
  /\ playback' = None
  /\ UNCHANGED <<picks, spirc, task, announced, stopped, asked, slot, view, target, sourceVars,
                 inbox, verbs>>

Tell ==
  /\ Step("tell")
  /\ announced' = FALSE
  /\ view' = FALSE
  /\ UNCHANGED <<picks, spirc, task, playback, stopped, asked, slot, playerVars, sourceVars,
                 inbox, verbs>>

Build ==
  /\ Step("build")
  /\ player' = [player EXCEPT ![picks] = "quiet"]
  /\ playback' = picks
  /\ UNCHANGED <<picks, spirc, task, announced, stopped, asked, slot, view, target, sourceVars,
                 inbox, verbs>>

Publish ==
  /\ Step("publish")
  /\ slot' = picks
  /\ UNCHANGED <<picks, spirc, task, playback, announced, stopped, asked, view, playerVars,
                 sourceVars, inbox, verbs>>

\* SoftMixer::open or Spirc::new fails: the new player goes, the slot keeps its
\* sink and announced_connected its value.
OpenFails ==
  /\ At({"open"})
  /\ script' = <<"drop">>
  /\ UNCHANGED <<picks, spirc, task, playback, announced, stopped, asked, slot, view,
                 playerVars, sourceVars, inbox, verbs>>

OpenSucceeds ==
  /\ At({"open"})
  /\ script' = IF announced THEN <<>> ELSE <<"greet", "summon">>
  /\ spirc' = picks
  /\ task' = "running"
  /\ UNCHANGED <<picks, playback, announced, stopped, asked, slot, view, playerVars, sourceVars,
                 inbox, verbs>>

Greet ==
  /\ Step("greet")
  /\ announced' = TRUE
  /\ view' = TRUE
  /\ UNCHANGED <<picks, spirc, task, playback, stopped, asked, slot, playerVars, sourceVars,
                 inbox, verbs>>

\* SourceCommand::PlayConnect
Summon ==
  /\ Step("summon")
  /\ inbox' = "connect"
  /\ UNCHANGED <<picks, spirc, task, playback, announced, stopped, asked, slot, view,
                 playerVars, sourceVars, verbs>>

\* The spirc task ends because it was told to, or by itself.
TaskEnds ==
  /\ task = "running"
  /\ task' = "ended"
  /\ UNCHANGED <<script, picks, spirc, playback, announced, stopped, asked, slot, view,
                 playerVars, sourceVars, inbox, verbs>>

-----------------------------------------------------------------------------
(* The player: SpotifySink::deliver_output *)

\* A chunk is ready, and the binding is copied out of the mutex.  A player may
\* go on until it is dropped, whatever has become of its spirc; one that is not
\* bound throws the chunk away.
Produce(n) ==
  /\ player[n] = "quiet"
  /\ playback = n
  /\ ~ At({"publish", "open", "drop"})
  /\ binding[n] # None
  /\ player' = [player EXCEPT ![n] = "sending"]
  /\ target' = [target EXCEPT ![n] = binding[n]]
  /\ UNCHANGED <<runtimeVars, sourceVars, inbox, verbs>>

\* Blocks while the channel is full, fails when its receiver is gone.
Deliver(n) ==
  /\ player[n] = "sending"
  /\ target[n] = channel => fill < ChannelCapacity
  /\ fill' = IF target[n] = channel THEN fill + 1 ELSE fill
  /\ player' = [player EXCEPT ![n] = "quiet"]
  /\ target' = [target EXCEPT ![n] = None]
  /\ UNCHANGED <<runtimeVars, binding, source, held, channel, binds, selected, inbox, verbs>>

-----------------------------------------------------------------------------
(* The source: drain_pcm, between two turns of the pipeline *)

SourceGoes(from, to) == source = from /\ source' = to

\* The pipeline's turn: the command that is waiting, else the same source again.
TakeCommand ==
  /\ source \in {"other", "over"}
  /\ source = "over" \/ inbox # "none"
  /\ selected' = IF inbox = "none" THEN selected ELSE inbox
  /\ source' = IF selected' = "connect" THEN "await" ELSE "other"
  /\ inbox' = "none"
  /\ UNCHANGED <<runtimeVars, playerVars, binding, held, channel, binds, fill, verbs>>

AwaitStopped ==
  /\ SourceGoes("await", "over")
  /\ inbox # "none"
  /\ UNCHANGED <<runtimeVars, playerVars, binding, held, channel, binds, fill, selected, inbox,
                 verbs>>

AwaitSlot ==
  /\ SourceGoes("await", "bind")
  /\ inbox = "none"
  /\ slot # None
  /\ held' = slot
  /\ UNCHANGED <<runtimeVars, playerVars, binding, channel, binds, fill, selected, inbox, verbs>>

Bind ==
  /\ SourceGoes("bind", "check")
  /\ binds' = binds + 1
  /\ channel' = binds'
  /\ binding' = [binding EXCEPT ![held] = binds']
  /\ UNCHANGED <<runtimeVars, playerVars, held, fill, selected, inbox, verbs>>

Rotated == slot # None /\ slot # held

CheckStopped ==
  /\ SourceGoes("check", "unbind")
  /\ inbox # "none"
  /\ UNCHANGED <<runtimeVars, playerVars, binding, held, channel, binds, fill, selected, inbox,
                 verbs>>

CheckRotated ==
  /\ SourceGoes("check", "unbind")
  /\ inbox = "none"
  /\ Rotated
  /\ UNCHANGED <<runtimeVars, playerVars, binding, held, channel, binds, fill, selected, inbox,
                 verbs>>

\* Defect: an empty slot suspends the drain until the next sink is published.
CheckPassedIfPublished ==
  /\ SourceGoes("check", "receive")
  /\ inbox = "none"
  /\ slot = held
  /\ UNCHANGED <<runtimeVars, playerVars, binding, held, channel, binds, fill, selected, inbox,
                 verbs>>

\* An empty slot is a rebuild under way: the old channel is drained meanwhile.
CheckPassed ==
  /\ SourceGoes("check", "receive")
  /\ inbox = "none"
  /\ ~ Rotated
  /\ UNCHANGED <<runtimeVars, playerVars, binding, held, channel, binds, fill, selected, inbox,
                 verbs>>

Receive ==
  /\ SourceGoes("receive", "receive")
  /\ fill > 0
  /\ fill' = fill - 1
  /\ UNCHANGED <<runtimeVars, playerVars, binding, held, channel, binds, selected, inbox, verbs>>

\* Nothing left: pacing sleep, notification or 50 ms, then the next turn.
ReceiveEmpty ==
  /\ SourceGoes("receive", "check")
  /\ fill = 0
  /\ UNCHANGED <<runtimeVars, playerVars, binding, held, channel, binds, fill, selected, inbox,
                 verbs>>

\* The locals of drain_pcm go in reverse order: the Unbinder, then the receiver.
Unbind ==
  /\ SourceGoes("unbind", "release")
  /\ binding' = [binding EXCEPT ![held] = None]
  /\ held' = None
  /\ UNCHANGED <<runtimeVars, playerVars, channel, binds, fill, selected, inbox, verbs>>

Release ==
  /\ SourceGoes("release", "over")
  /\ channel' = None
  /\ fill' = 0
  /\ UNCHANGED <<runtimeVars, playerVars, binding, held, binds, selected, inbox, verbs>>

-----------------------------------------------------------------------------
(* Verbs and shutdown *)

LocalVerb ==
  /\ verbs < MaxVerbs
  /\ verbs' = verbs + 1
  /\ inbox' = "local"
  /\ UNCHANGED <<runtimeVars, playerVars, sourceVars>>

ConnectDisconnect ==
  /\ verbs < MaxVerbs
  /\ verbs' = verbs + 1
  /\ asked' = asked + 1
  /\ UNCHANGED <<script, picks, spirc, task, playback, announced, stopped, slot, view,
                 playerVars, sourceVars, inbox>>

Shutdown ==
  /\ ~ stopped
  /\ stopped' = TRUE
  /\ UNCHANGED <<script, picks, spirc, task, playback, announced, asked, slot, view,
                 playerVars, sourceVars, inbox, verbs>>

-----------------------------------------------------------------------------
Runtime ==
  \/ ShutdownArm \/ DisconnectArm \/ TaskEndArm
  \/ AwaitTask \/ ClearSlot \/ DropPlayback \/ Tell
  \/ Build \/ Publish \/ OpenFails \/ OpenSucceeds \/ Greet \/ Summon

Source ==
  \/ TakeCommand \/ AwaitStopped \/ AwaitSlot \/ Bind
  \/ CheckStopped \/ CheckRotated \/ CheckPassed
  \/ Receive \/ ReceiveEmpty \/ Unbind \/ Release

Environment == DiscoveryArm \/ TaskEnds \/ LocalVerb \/ ConnectDisconnect \/ Shutdown

Next ==
  \/ Runtime
  \/ Source
  \/ Environment
  \/ \E n \in Sessions : Produce(n) \/ Deliver(n)

Spec == Init /\ [][Next]_vars

\* A task the runtime waits for ends.
AwaitedEnds == TaskEnds /\ At({"await"})

\* Threads and tasks are scheduled, a spirc task that was told to shut down
\* does, and Spirc::new returns.  try_recv outruns a player that must resample
\* a chunk before it can send it, so the channel is found empty again and again.
Fairness ==
  /\ WF_vars(Runtime)
  /\ WF_vars(Source)
  /\ SF_vars(ReceiveEmpty)
  /\ WF_vars(AwaitedEnds)
  /\ \A n \in Sessions : WF_vars(Deliver(n))

FairSpec == Spec /\ Fairness

-----------------------------------------------------------------------------
(* Properties *)

Steps == {"await", "clear", "drop", "build", "publish", "open", "greet", "summon", "tell", "exit"}

\* Types; the channel holds at most its capacity.
TypeOK ==
  /\ script \in Seq(Steps)
  /\ picks \in 0 .. MaxPicks
  /\ {spirc, playback, slot, held} \subseteq Sessions \cup {None}
  /\ task \in {"none", "running", "ended"}
  /\ {announced, stopped, view} \subseteq BOOLEAN
  /\ {asked, verbs} \subseteq 0 .. MaxVerbs
  /\ player \in [Sessions -> {"none", "quiet", "sending", "gone"}]
  /\ target \in [Sessions -> Nat]
  /\ binding \in [Sessions -> Nat]
  /\ source \in {"other", "await", "bind", "check", "receive", "unbind", "release", "over"}
  /\ channel \in Nat
  /\ binds \in Nat
  /\ fill \in 0 .. ChannelCapacity
  /\ selected \in {"local", "connect"}
  /\ inbox \in {"none", "local", "connect"}

Alive == {n \in Sessions : player[n] \in {"quiet", "sending"}}

\* connect.rs:487-489 wants the old session gone "before building replacements
\* - otherwise two Sessions briefly compete": there is never more than one
\* player, and its owner is the runtime.
OneSession == Alive \subseteq {playback}

\* Back in select!, the clients' last word on the device is announced_connected;
\* a session that is up has been announced, and one that has gone has been taken
\* back unless a failed rebuild took its place (whose sink is left in the slot).
ClientsAreTold ==
  InSelect => /\ view = announced
              /\ spirc # None => announced
              /\ slot = None => ~ announced

\* Sinks that no source drains do not hold up their player, and no player holds
\* up the runtime: every arm of its select! comes to its end, so that the next
\* pick, disconnect or shutdown is served.  Only shutdown does not come back.
NeverWedged == (~ InSelect) ~> (InSelect \/ script = <<"exit">>)

\* While the pipeline is on Connect, the source ends up draining whichever sink
\* the runtime published last (the rotation check by identity in drain_pcm).
FollowsRotation ==
  \A n \in Sessions :
    (selected = "connect" /\ slot = n)
      ~> (held = n /\ source \in {"check", "receive"}) \/ slot # n \/ selected # "connect"
           \/ inbox # "none"

\* Session, announcement and the clients' view agree: OneSession and ClientsAreTold,
\* with the types.
ReceiverAgrees == TypeOK /\ OneSession /\ ClientsAreTold

\* Runtime and source go on, and together: NeverWedged and FollowsRotation.
ReceiverGoesOn == NeverWedged /\ FollowsRotation
=============================================================================
