--------------------------- MODULE PipelineProofs ---------------------------
(***************************************************************************)
(* The source pipeline, for every number of commands and every kind of     *)
(* source: types, the order of commands, and the survival of the newest    *)
(* one.  The Connect receiver, for every number of picks and verbs: one    *)
(* session at a time, announced as it is.                                  *)
(*                                                                         *)
(* What holds in the receiver's select! holds because of the arm that came *)
(* before; its invariant says of each step of each arm what the steps      *)
(* before it have done.                                                    *)
(***************************************************************************)
EXTENDS MCPipeline, TLAPS

\* The commands in the channel are the last ones sent, consecutively numbered;
\* the one before them is in the mailbox or, when that is empty, selected.
OrderInv ==
  /\ Len(channel) <= sent
  /\ \A i \in 1 .. Len(channel) : channel[i].id = (sent - Len(channel)) + i
  /\ pending = NoCommand => current.id = sent - Len(channel)
  /\ pending # NoCommand =>
       /\ pending.id = sent - Len(channel)
       /\ current.id < pending.id

IInv == TypeOK /\ OrderInv

\* A numbered command with a kind is a source main can select.
LEMMA CommandIsSource ==
  ASSUME NEW n \in Nat, NEW kind \in Kinds
  PROVE  Command(n, kind) \in Sources /\ Command(n, kind).id = n
BY DEF Command, Sources

\* The empty mailbox is not a source.
LEMMA NoCommandIsNoSource == NoCommand \notin Sources /\ NoCommand.id = 0
BY DEF NoCommand, Command, Sources, Kinds

\* The daemon starts with the right types.
LEMMA TypeInit == Init => TypeOK
<1>1. Command(0, "idle") \in Sources
  BY CommandIsSource DEF Kinds
<1> SUFFICES ASSUME Init PROVE TypeOK
  OBVIOUS
<1>2. channel \in Seq(Sources)
  BY DEF Init
<1>3. senders \subseteq {"dispatcher", "connect"}
  BY DEF Init
<1> QED BY <1>1, <1>2, <1>3 DEF Init, TypeOK

\* Every step of the threads and the event loop keeps the types.
LEMMA TypeStep == TypeOK /\ [Next]_vars => TypeOK'
<1> SUFFICES ASSUME TypeOK, [Next]_vars PROVE TypeOK'
  OBVIOUS
<1> USE DEF TypeOK
<1>1. ASSUME NEW kind \in Kinds, Send(kind)
      PROVE  sent' \in Nat /\ channel' \in Seq(Sources)
  <2>1. Command(sent + 1, kind) \in Sources
    BY CommandIsSource
  <2> QED BY <1>1, <2>1 DEF Send
<1>2. CASE Senders
  <2>1. ASSUME NEW kind \in VerbKinds, AcceptVerb(kind) PROVE TypeOK'
    BY <2>1, VerbKindsAssumption DEF AcceptVerb, Kinds
  <2>2. ASSUME SendVerb PROVE TypeOK'
    <3>1. verb \in Kinds
      BY <2>2 DEF SendVerb
    <3> QED BY <1>1, <2>2, <3>1 DEF SendVerb
  <2>3. ASSUME ResolveFails \/ DispatcherReturns PROVE TypeOK'
    BY <2>3 DEF ResolveFails, DispatcherReturns
  <2>4. ASSUME PlayConnect PROVE TypeOK'
    <3>1. "connect" \in Kinds
      BY DEF Kinds
    <3> QED BY <1>1, <2>4, <3>1 DEF PlayConnect
  <2> QED BY <1>2, <2>1, <2>2, <2>3, <2>4 DEF Senders
<1>3. CASE Watcher
  <2>1. ASSUME WatcherRecv PROVE TypeOK'
    BY <2>1 DEF WatcherRecv
  <2>2. ASSUME WatcherSeesStop \/ WatcherListens \/ WatcherRaise \/ WatcherTimeout
               \/ WatcherDisconnected \/ WatcherReturns
        PROVE  TypeOK'
    BY <2>2 DEF WatcherSeesStop, WatcherListens, WatcherRaise, WatcherTimeout,
         WatcherDisconnected, WatcherReturns
  <2> QED BY <1>3, <2>1, <2>2 DEF Watcher
<1>4. CASE MainInControl \/ SourceEnds
  <2>1. ASSUME SourceFails PROVE TypeOK'
    <3>1. current' \in Sources
      BY <2>1 DEF SourceFails, Sources, Kinds
    <3> QED BY <2>1, <3>1 DEF SourceFails, MainGoes
  <2>2. ASSUME TakePending PROVE TypeOK'
    BY <2>2 DEF TakePending, MainGoes
  <2>3. ASSUME MainSeesStop \/ MainContinues \/ MainResets \/ StartSource \/ SourceStopped
               \/ SourceEnds
        PROVE  TypeOK'
    BY <2>3 DEF MainSeesStop, MainContinues, MainResets, StartSource, SourceStopped,
         SourceEnds, MainGoes
  <2> QED BY <1>4, <2>1, <2>2, <2>3 DEF MainInControl
<1>5. CASE EventLoop
  BY <1>5 DEF EventLoop, RequestStop, StopServing, JoinSource
<1>6. CASE UNCHANGED vars
  BY <1>6 DEF vars
<1> QED BY <1>2, <1>3, <1>4, <1>5, <1>6 DEF Next

\* Nothing has been sent at the start.
LEMMA OrderInit == Init => OrderInv
<1>1. Command(0, "idle").id = 0
  BY CommandIsSource DEF Kinds
<1> QED BY <1>1 DEF Init, OrderInv

\* A send puts the next number at the end of the channel.
LEMMA OrderSend ==
  ASSUME IInv, NEW kind \in Kinds, Send(kind), UNCHANGED <<pending, current>>
  PROVE  OrderInv'
<1> DEFINE cmd == Command(sent + 1, kind)
<1>1. cmd \in Sources /\ cmd.id = sent + 1
  BY CommandIsSource DEF IInv, TypeOK
<1>2. channel \in Seq(Sources) /\ sent \in Nat
  BY DEF IInv, TypeOK
<1>3. channel' = Append(channel, cmd) /\ sent' = sent + 1
  BY DEF Send
<1> HIDE DEF cmd
<1>4. Len(channel') = Len(channel) + 1 /\ Len(channel) \in Nat
  BY <1>1, <1>2, <1>3
<1>5. sent' - Len(channel') = sent - Len(channel)
  BY <1>2, <1>3, <1>4
<1>6. ASSUME NEW i \in 1 .. Len(channel') PROVE channel'[i].id = (sent' - Len(channel')) + i
  <2>1. CASE i = Len(channel) + 1
    BY <1>1, <1>2, <1>3, <1>4, <1>5, <2>1
  <2>2. CASE i \in 1 .. Len(channel)
    <3>1. channel'[i] = channel[i]
      BY <1>1, <1>2, <1>3, <2>2
    <3> QED BY <1>5, <2>2, <3>1 DEF IInv, OrderInv
  <2> QED BY <1>4, <2>1, <2>2
<1>7. Len(channel') <= sent'
  BY <1>2, <1>3, <1>4 DEF IInv, OrderInv
<1> QED BY <1>5, <1>6, <1>7 DEF IInv, OrderInv

\* The watcher moves the oldest command of the channel into the mailbox.
LEMMA OrderRecv == IInv /\ WatcherRecv => OrderInv'
<1> SUFFICES ASSUME IInv, WatcherRecv PROVE OrderInv'
  OBVIOUS
<1>1. channel \in Seq(Sources) /\ channel # <<>> /\ sent \in Nat
      /\ pending' = Head(channel) /\ channel' = Tail(channel) /\ UNCHANGED <<sent, current>>
  BY DEF IInv, TypeOK, WatcherRecv
<1>2. Len(channel) \in Nat \ {0} /\ Len(channel') = Len(channel) - 1
      /\ Head(channel) = channel[1] /\ channel[1] \in Sources
      /\ \A i \in 1 .. Len(channel') : channel'[i] = channel[i + 1]
  BY <1>1
<1>3. pending'.id = (sent - Len(channel)) + 1 /\ pending' # NoCommand
  BY <1>1, <1>2, NoCommandIsNoSource DEF IInv, OrderInv
<1>4. current.id <= sent - Len(channel)
  BY <1>1, <1>2 DEF IInv, OrderInv, TypeOK, Sources
<1>5. current.id \in Nat
  BY DEF IInv, TypeOK, Sources
<1>6. ASSUME NEW i \in 1 .. Len(channel') PROVE channel'[i].id = (sent - Len(channel')) + i
  BY <1>1, <1>2 DEF IInv, OrderInv
<1>7. Len(channel') <= sent
  BY <1>1, <1>2 DEF IInv, OrderInv
<1>8. pending'.id = sent - Len(channel') /\ current.id < pending'.id
  BY <1>1, <1>2, <1>3, <1>4, <1>5
<1> QED BY <1>1, <1>3, <1>6, <1>7, <1>8 DEF OrderInv

\* Every step keeps the order.
LEMMA OrderStep == IInv /\ [Next]_vars => OrderInv'
<1> SUFFICES ASSUME IInv, [Next]_vars PROVE OrderInv'
  OBVIOUS
<1>1. ASSUME UNCHANGED <<sent, channel, pending, current>> PROVE OrderInv'
  BY <1>1 DEF IInv, OrderInv
<1>2. CASE Senders
  <2>1. ASSUME SendVerb PROVE OrderInv'
    <3>1. verb \in Kinds
      BY <2>1 DEF SendVerb, IInv, TypeOK
    <3> QED BY <2>1, <3>1, OrderSend DEF SendVerb
  <2>2. ASSUME PlayConnect PROVE OrderInv'
    <3>1. "connect" \in Kinds
      BY DEF Kinds
    <3> QED BY <2>2, <3>1, OrderSend DEF PlayConnect
  <2>3. ASSUME (\E kind \in VerbKinds : AcceptVerb(kind)) \/ ResolveFails \/ DispatcherReturns
        PROVE  OrderInv'
    BY <1>1, <2>3 DEF AcceptVerb, ResolveFails, DispatcherReturns
  <2> QED BY <1>2, <2>1, <2>2, <2>3 DEF Senders
<1>3. CASE Watcher
  BY <1>1, <1>3, OrderRecv DEF Watcher, WatcherSeesStop, WatcherListens, WatcherRaise,
     WatcherTimeout, WatcherDisconnected, WatcherReturns
<1>4. CASE MainInControl \/ SourceEnds
  <2>1. ASSUME SourceFails PROVE OrderInv'
    <3>1. current'.id = current.id /\ UNCHANGED <<sent, channel, pending>>
      BY <2>1 DEF SourceFails, MainGoes, IInv, TypeOK, Sources
    <3> QED BY <3>1 DEF IInv, OrderInv
  <2>2. ASSUME TakePending PROVE OrderInv'
    BY <2>2 DEF TakePending, MainGoes, IInv, OrderInv
  <2>3. ASSUME MainSeesStop \/ MainContinues \/ MainResets \/ StartSource \/ SourceStopped
               \/ SourceEnds
        PROVE  OrderInv'
    BY <1>1, <2>3 DEF MainSeesStop, MainContinues, MainResets, StartSource, SourceStopped,
         SourceEnds, MainGoes
  <2> QED BY <1>4, <2>1, <2>2, <2>3 DEF MainInControl
<1>5. CASE EventLoop
  BY <1>1, <1>5 DEF EventLoop, RequestStop, StopServing, JoinSource
<1>6. CASE UNCHANGED vars
  BY <1>1, <1>6 DEF vars
<1> QED BY <1>2, <1>3, <1>4, <1>5, <1>6 DEF Next

\* The inductive invariant holds in every reachable state.
LEMMA InductiveInvariant == Spec => []IInv
<1>1. Init => IInv
  BY TypeInit, OrderInit DEF IInv
<1>2. IInv /\ [Next]_vars => IInv'
  BY TypeStep, OrderStep DEF IInv
<1> QED BY <1>1, <1>2, PTL DEF Spec

\* The flags, control points, mailbox and channel keep their types.
THEOREM TypeCorrect == Spec => []TypeOK
BY InductiveInvariant, PTL DEF IInv

\* run_source_pipeline never goes back to an older command.
THEOREM OrderHolds == Spec => []CommandsInOrder
<1>1. IInv => CommandsInOrder
  <2> SUFFICES ASSUME IInv PROVE CommandsInOrder
    OBVIOUS
  <2>1. /\ Len(channel) \in Nat /\ sent \in Nat /\ current.id \in Nat /\ pending.id \in Nat
    BY NoCommandIsNoSource DEF IInv, TypeOK, Sources
  <2>2. current.id <= sent - Len(channel) /\ pending.id <= sent - Len(channel)
    BY <2>1, NoCommandIsNoSource DEF IInv, OrderInv
  <2>3. ASSUME NEW i \in 1 .. Len(channel)
        PROVE  channel[i].id = (sent - Len(channel)) + i
    BY DEF IInv, OrderInv
  <2>4. ASSUME NEW i \in 1 .. Len(channel), NEW j \in 1 .. i - 1
        PROVE  channel[j].id < channel[i].id
    <3>1. j \in 1 .. Len(channel)
      BY <2>1
    <3> QED BY <2>1, <2>3, <3>1
  <2> QED BY <2>1, <2>2, <2>3, <2>4 DEF CommandsInOrder, IInv, OrderInv
<1> QED BY <1>1, InductiveInvariant, PTL

\* Between the dispatcher and the pipeline the newest command is never lost.
THEOREM NewestSurvivesHolds == Spec => []NewestSurvives
<1>1. IInv => NewestSurvives
  <2> SUFFICES ASSUME IInv PROVE NewestSurvives
    OBVIOUS
  <2>1. channel \in Seq(Sources) /\ sent \in Nat
    BY DEF IInv, TypeOK
  <2>2. CASE channel # <<>>
    <3>1. Len(channel) \in 1 .. Len(channel)
      BY <2>1, <2>2
    <3> QED BY <2>1, <2>2, <3>1 DEF IInv, OrderInv, NewestSurvives, Newest
  <2>3. CASE channel = <<>>
    <3>1. Len(channel) = 0
      BY <2>3
    <3> QED BY <2>1, <2>3, <3>1 DEF IInv, OrderInv, NewestSurvives, Newest
  <2> QED BY <2>2, <2>3
<1> QED BY <1>1, InductiveInvariant, PTL

\* The commands reach main in the order they were sent and only a newer one replaces one,
\* for any number of them.
THEOREM NewestIsNextHolds == Spec => []NewestIsNext
BY TypeCorrect, OrderHolds, NewestSurvivesHolds, PTL DEF NewestIsNext

-----------------------------------------------------------------------------
(* What is left of an arm of the receiver's select!, by its next step.    *)

StopExit == <<"exit">>
StopDrop == <<"drop", "exit">>
StopClear == <<"clear", "drop", "exit">>
StopAwait == <<"await", "clear", "drop", "exit">>

QuitTell == <<"tell">>
QuitClear == <<"clear", "tell">>
QuitDrop == <<"drop", "clear", "tell">>
QuitAwait == <<"await", "drop", "clear", "tell">>

PickOpen == <<"open">>
PickPublish == <<"publish", "open">>
PickBuild == <<"build", "publish", "open">>
PickDrop == <<"drop", "build", "publish", "open">>
PickClear == <<"clear", "drop", "build", "publish", "open">>
PickAwait == <<"await", "clear", "drop", "build", "publish", "open">>

FailedDrop == <<"drop">>
SummonNow == <<"summon">>
GreetNow == <<"greet", "summon">>

Stops == {StopExit, StopDrop, StopClear, StopAwait}
Quits == {QuitTell, QuitClear, QuitDrop, QuitAwait}
Rebuilds == {PickDrop, PickClear, PickAwait}

\* The steps of an arm, in order.
LEMMA StopSteps ==
  /\ Head(StopExit) = "exit"
  /\ Head(StopDrop) = "drop" /\ Tail(StopDrop) = StopExit
  /\ Head(StopClear) = "clear" /\ Tail(StopClear) = StopDrop
  /\ Head(StopAwait) = "await" /\ Tail(StopAwait) = StopClear
BY DEF StopExit, StopDrop, StopClear, StopAwait

\* Those of a disconnect, and of a session that ended.
LEMMA QuitSteps ==
  /\ Head(QuitTell) = "tell" /\ Tail(QuitTell) = <<>>
  /\ Head(QuitClear) = "clear" /\ Tail(QuitClear) = QuitTell
  /\ Head(QuitDrop) = "drop" /\ Tail(QuitDrop) = QuitClear
  /\ Head(QuitAwait) = "await" /\ Tail(QuitAwait) = QuitDrop
BY DEF QuitTell, QuitClear, QuitDrop, QuitAwait

\* Those of a pick.
LEMMA PickSteps ==
  /\ Head(PickOpen) = "open"
  /\ Head(PickPublish) = "publish" /\ Tail(PickPublish) = PickOpen
  /\ Head(PickBuild) = "build" /\ Tail(PickBuild) = PickPublish
  /\ Head(PickDrop) = "drop" /\ Tail(PickDrop) = PickBuild
  /\ Head(PickClear) = "clear" /\ Tail(PickClear) = PickDrop
  /\ Head(PickAwait) = "await" /\ Tail(PickAwait) = PickClear
BY DEF PickOpen, PickPublish, PickBuild, PickDrop, PickClear, PickAwait

\* Those after its session was opened, or was not.
LEMMA OpenedSteps ==
  /\ Head(FailedDrop) = "drop" /\ Tail(FailedDrop) = <<>>
  /\ Head(GreetNow) = "greet" /\ Tail(GreetNow) = SummonNow
  /\ Head(SummonNow) = "summon" /\ Tail(SummonNow) = <<>>
BY DEF FailedDrop, GreetNow, SummonNow

Scripts ==
  Stops \cup Quits \cup Rebuilds
    \cup {PickBuild, PickPublish, PickOpen, FailedDrop, GreetNow, SummonNow}

\* Scripts are made of steps, and there is something left of each.
LEMMA ScriptsAreScripts ==
  \A s \in Scripts : s \in Seq(Receiver!Steps) /\ s # <<>>
<1>1. "await" \in Receiver!Steps /\ "clear" \in Receiver!Steps /\ "drop" \in Receiver!Steps
      /\ "build" \in Receiver!Steps /\ "publish" \in Receiver!Steps /\ "open" \in Receiver!Steps
      /\ "greet" \in Receiver!Steps /\ "summon" \in Receiver!Steps /\ "tell" \in Receiver!Steps
      /\ "exit" \in Receiver!Steps
  BY DEF Receiver!Steps
<1>2. StopExit \in Seq(Receiver!Steps) /\ StopDrop \in Seq(Receiver!Steps) /\ StopClear \in Seq(Receiver!Steps) /\ StopAwait \in Seq(Receiver!Steps)
  BY <1>1 DEF StopExit, StopDrop, StopClear, StopAwait
<1>3. StopExit # <<>> /\ StopDrop # <<>> /\ StopClear # <<>> /\ StopAwait # <<>>
  BY <1>1 DEF StopExit, StopDrop, StopClear, StopAwait
<1>4. QuitTell \in Seq(Receiver!Steps) /\ QuitClear \in Seq(Receiver!Steps) /\ QuitDrop \in Seq(Receiver!Steps) /\ QuitAwait \in Seq(Receiver!Steps)
  BY <1>1 DEF QuitTell, QuitClear, QuitDrop, QuitAwait
<1>5. QuitTell # <<>> /\ QuitClear # <<>> /\ QuitDrop # <<>> /\ QuitAwait # <<>>
  BY <1>1 DEF QuitTell, QuitClear, QuitDrop, QuitAwait
<1>6. PickDrop \in Seq(Receiver!Steps) /\ PickClear \in Seq(Receiver!Steps) /\ PickAwait \in Seq(Receiver!Steps)
  BY <1>1 DEF PickDrop, PickClear, PickAwait
<1>7. PickDrop # <<>> /\ PickClear # <<>> /\ PickAwait # <<>>
  BY <1>1 DEF PickDrop, PickClear, PickAwait
<1>8. PickBuild \in Seq(Receiver!Steps) /\ PickPublish \in Seq(Receiver!Steps) /\ PickOpen \in Seq(Receiver!Steps)
  BY <1>1 DEF PickBuild, PickPublish, PickOpen
<1>9. PickBuild # <<>> /\ PickPublish # <<>> /\ PickOpen # <<>>
  BY <1>1 DEF PickBuild, PickPublish, PickOpen
<1>10. FailedDrop \in Seq(Receiver!Steps) /\ GreetNow \in Seq(Receiver!Steps) /\ SummonNow \in Seq(Receiver!Steps)
  BY <1>1 DEF FailedDrop, GreetNow, SummonNow
<1>11. FailedDrop # <<>> /\ GreetNow # <<>> /\ SummonNow # <<>>
  BY <1>1 DEF FailedDrop, GreetNow, SummonNow
<1> QED BY <1>2, <1>3, <1>4, <1>5, <1>6, <1>7, <1>8, <1>9, <1>10, <1>11 DEF Scripts, Stops, Quits, Rebuilds

-----------------------------------------------------------------------------
(* The receiver's invariant *)

\* What has been done when an arm has come to where it is.
Settled ==
  /\ script = <<>>
  /\ spirc # 0 => announced
  /\ slot = 0 => ~ announced
Ending == script \in Stops \cup Quits /\ spirc = 0
Rebuilding ==
  /\ spirc = 0 /\ picks # 0
  /\ \/ script \in Rebuilds
     \/ script = PickBuild /\ playback = 0
     \/ script = PickPublish
     \/ script = PickOpen /\ slot # 0
Opened ==
  /\ slot # 0
  /\ \/ script = FailedDrop /\ spirc = 0
     \/ script = GreetNow
     \/ script = SummonNow /\ announced

Where == Settled \/ Ending \/ Rebuilding \/ Opened

\* Everything but the script, which Where knows.
Typed ==
  /\ picks \in 0 .. MaxPicks
  /\ spirc \in 0 .. MaxPicks /\ playback \in 0 .. MaxPicks
  /\ slot \in 0 .. MaxPicks /\ held \in 0 .. MaxPicks
  /\ task \in {"none", "running", "ended"}
  /\ announced \in BOOLEAN /\ stopped \in BOOLEAN /\ view \in BOOLEAN
  /\ asked \in 0 .. verbs /\ verbs \in 0 .. MaxVerbs
  /\ player \in [1 .. MaxPicks -> {"none", "quiet", "sending", "gone"}]
  /\ target \in [1 .. MaxPicks -> Nat] /\ binding \in [1 .. MaxPicks -> Nat]
  /\ source \in {"other", "await", "bind", "check", "receive", "unbind", "release", "over"}
  /\ pcm \in Nat /\ binds \in Nat /\ fill \in 0 .. ChannelCapacity
  /\ selected \in {"local", "connect"} /\ inbox \in {"none", "local", "connect"}

ReceiverInv ==
  /\ Typed /\ Where
  /\ view = announced
  /\ Receiver!OneSession

\* Nothing, no session and no verb are within the bounds.
LEMMA Nothing == 0 \in 0 .. MaxPicks /\ 0 \in 0 .. MaxVerbs /\ 0 \in 0 .. ChannelCapacity /\ 0 \in 0 .. 0
BY ReceiverAssumption

\* The receiver starts in select!, with no session.
LEMMA ReceiverStarts == Receiver!Init => ReceiverInv
<1> SUFFICES ASSUME Receiver!Init PROVE ReceiverInv
  OBVIOUS
<1>1. Typed
  BY Nothing DEF Receiver!Init, Receiver!None, Receiver!Sessions, Typed
<1>2. Where /\ view = announced
  BY DEF Receiver!Init, Receiver!None, Where, Settled
<1>3. Receiver!OneSession
  BY DEF Receiver!Init, Receiver!OneSession, Receiver!Alive, Receiver!Sessions
<1> QED BY <1>1, <1>2, <1>3 DEF ReceiverInv

\* In select! the arm that came last is over.
LEMMA SelectSettled ==
  ASSUME ReceiverInv, Receiver!InSelect
  PROVE  Settled
BY ScriptsAreScripts DEF ReceiverInv, Where, Ending, Rebuilding, Opened, Receiver!InSelect, Scripts

\* An arm begins.
LEMMA ArmStep ==
  ASSUME ReceiverInv,
         Receiver!ShutdownArm \/ Receiver!DisconnectArm \/ Receiver!DiscoveryArm \/ Receiver!TaskEndArm
  PROVE  ReceiverInv'
<1> USE SelectSettled, Nothing DEF ReceiverInv, Receiver!None
<1>1. CASE Receiver!ShutdownArm
  <2>1. Typed'
    BY <1>1 DEF Receiver!ShutdownArm, Typed, Receiver!playerVars, Receiver!sourceVars
  <2>2. Where'
    BY <1>1 DEF Receiver!ShutdownArm, Where, Ending, Stops, StopAwait
  <2> QED BY <1>1, <2>1, <2>2 DEF Receiver!ShutdownArm, Receiver!OneSession, Receiver!Alive, Receiver!playerVars
<1>2. CASE Receiver!DisconnectArm
  <2>1. Typed'
    <3>1. asked' \in 0 .. verbs
      <4>1. ASSUME NEW a \in 0 .. verbs, a > 0 PROVE a - 1 \in 0 .. verbs
        BY <4>1 DEF Typed
      <4> QED BY <1>2, <4>1 DEF Receiver!DisconnectArm, Typed
    <3> QED BY <1>2, <3>1 DEF Receiver!DisconnectArm, Typed, Receiver!playerVars, Receiver!sourceVars
  <2>2. Where'
    BY <1>2 DEF Receiver!DisconnectArm, Where, Ending, Settled, Quits, QuitAwait
  <2> QED BY <1>2, <2>1, <2>2 DEF Receiver!DisconnectArm, Receiver!OneSession, Receiver!Alive, Receiver!playerVars
<1>3. CASE Receiver!DiscoveryArm
  <2>1. picks' \in 0 .. MaxPicks /\ picks' # 0
    <3>1. ASSUME NEW p \in 0 .. MaxPicks, p < MaxPicks PROVE p + 1 \in 0 .. MaxPicks /\ p + 1 # 0
      BY <3>1, ReceiverAssumption
    <3> QED BY <1>3, <3>1 DEF Receiver!DiscoveryArm, Typed
  <2>2. Typed'
    BY <1>3, <2>1 DEF Receiver!DiscoveryArm, Typed, Receiver!playerVars, Receiver!sourceVars
  <2>3. Where'
    BY <1>3, <2>1 DEF Receiver!DiscoveryArm, Where, Rebuilding, Rebuilds, PickAwait
  <2> QED BY <1>3, <2>2, <2>3 DEF Receiver!DiscoveryArm, Receiver!OneSession, Receiver!Alive, Receiver!playerVars
<1>4. CASE Receiver!TaskEndArm
  <2>1. Typed'
    BY <1>4 DEF Receiver!TaskEndArm, Typed, Receiver!playerVars, Receiver!sourceVars
  <2>2. Where'
    BY <1>4 DEF Receiver!TaskEndArm, Where, Ending, Quits, QuitDrop
  <2> QED BY <1>4, <2>1, <2>2 DEF Receiver!TaskEndArm, Receiver!OneSession, Receiver!Alive, Receiver!playerVars
<1> QED BY <1>1, <1>2, <1>3, <1>4

\* The steps that end a session.
LEMMA ClosingStep ==
  ASSUME ReceiverInv,
         Receiver!AwaitTask \/ Receiver!ClearSlot \/ Receiver!DropPlayback \/ Receiver!Tell
  PROVE  ReceiverInv'
<1> USE StopSteps, QuitSteps, PickSteps, OpenedSteps DEF ReceiverInv, Receiver!None, Receiver!Step, Receiver!At
<1>1. CASE Receiver!AwaitTask
  <2>1. Typed'
    BY <1>1 DEF Receiver!AwaitTask, Typed, Receiver!playerVars, Receiver!sourceVars
  <2>2. Where'
    BY <1>1 DEF Receiver!AwaitTask, Where, Settled, Ending, Rebuilding, Opened, Stops, Quits, Rebuilds
  <2> QED BY <1>1, <2>1, <2>2 DEF Receiver!AwaitTask, Receiver!OneSession, Receiver!Alive, Receiver!playerVars
<1>2. CASE Receiver!ClearSlot
  <2>1. Typed'
    BY <1>2, Nothing DEF Receiver!ClearSlot, Typed, Receiver!playerVars, Receiver!sourceVars
  <2>2. Where'
    BY <1>2 DEF Receiver!ClearSlot, Where, Settled, Ending, Rebuilding, Opened, Stops, Quits, Rebuilds
  <2> QED BY <1>2, <2>1, <2>2 DEF Receiver!ClearSlot, Receiver!OneSession, Receiver!Alive, Receiver!playerVars
<1>3. CASE Receiver!DropPlayback
  <2>1. Typed'
    BY <1>3, Nothing DEF Receiver!DropPlayback, Typed, Receiver!Sessions, Receiver!sourceVars
  <2>2. Where'
    BY <1>3 DEF Receiver!DropPlayback, Where, Settled, Ending, Rebuilding, Opened, Stops, Quits, Rebuilds
  <2>3. Receiver!OneSession'
    BY <1>3 DEF Receiver!DropPlayback, Receiver!OneSession, Receiver!Alive, Receiver!Sessions
  <2> QED BY <1>3, <2>1, <2>2, <2>3 DEF Receiver!DropPlayback
<1>4. CASE Receiver!Tell
  <2>1. Typed'
    BY <1>4 DEF Receiver!Tell, Typed, Receiver!playerVars, Receiver!sourceVars
  <2>2. Where'
    BY <1>4 DEF Receiver!Tell, Where, Settled, Ending, Rebuilding, Opened, Stops, Quits, Rebuilds
  <2> QED BY <1>4, <2>1, <2>2 DEF Receiver!Tell, Receiver!OneSession, Receiver!Alive, Receiver!playerVars
<1> QED BY <1>1, <1>2, <1>3, <1>4

\* The steps that make one.
LEMMA OpeningStep ==
  ASSUME ReceiverInv,
         \/ Receiver!Build \/ Receiver!Publish \/ Receiver!OpenFails \/ Receiver!OpenSucceeds
         \/ Receiver!Greet \/ Receiver!Summon
  PROVE  ReceiverInv'
<1> USE StopSteps, QuitSteps, PickSteps, OpenedSteps DEF ReceiverInv, Receiver!None, Receiver!Step, Receiver!At
<1>1. CASE Receiver!Build
  <2>1. script = PickBuild /\ spirc = 0 /\ picks # 0 /\ playback = 0
    BY <1>1 DEF Receiver!Build, Where, Settled, Ending, Rebuilding, Opened, Stops, Quits, Rebuilds
  <2>2. Typed'
    BY <1>1 DEF Receiver!Build, Typed, Receiver!sourceVars
  <2>3. Where'
    BY <1>1, <2>1 DEF Receiver!Build, Where, Rebuilding
  <2>4. Receiver!OneSession'
    BY <1>1, <2>1 DEF Receiver!Build, Receiver!OneSession, Receiver!Alive, Receiver!Sessions, Typed
  <2> QED BY <1>1, <2>2, <2>3, <2>4 DEF Receiver!Build
<1>2. CASE Receiver!Publish
  <2>1. script = PickPublish /\ spirc = 0 /\ picks # 0
    BY <1>2 DEF Receiver!Publish, Where, Settled, Ending, Rebuilding, Opened, Stops, Quits, Rebuilds
  <2>2. Typed'
    BY <1>2 DEF Receiver!Publish, Typed, Receiver!playerVars, Receiver!sourceVars
  <2>3. Where'
    BY <1>2, <2>1 DEF Receiver!Publish, Where, Rebuilding
  <2> QED BY <1>2, <2>2, <2>3 DEF Receiver!Publish, Receiver!OneSession, Receiver!Alive, Receiver!playerVars
<1>3. ASSUME Receiver!OpenFails \/ Receiver!OpenSucceeds
      PROVE  script = PickOpen /\ spirc = 0 /\ picks # 0 /\ slot # 0
  BY <1>3 DEF Receiver!OpenFails, Receiver!OpenSucceeds, Where, Settled, Ending, Rebuilding, Opened, Stops, Quits, Rebuilds
<1>4. CASE Receiver!OpenFails
  <2>1. Typed'
    BY <1>4 DEF Receiver!OpenFails, Typed, Receiver!playerVars, Receiver!sourceVars
  <2>2. Where'
    BY <1>3, <1>4 DEF Receiver!OpenFails, Where, Opened, FailedDrop
  <2> QED BY <1>4, <2>1, <2>2 DEF Receiver!OpenFails, Receiver!OneSession, Receiver!Alive, Receiver!playerVars
<1>5. CASE Receiver!OpenSucceeds
  <2>1. Typed'
    BY <1>5 DEF Receiver!OpenSucceeds, Typed, Receiver!playerVars, Receiver!sourceVars
  <2>2. Where'
    BY <1>3, <1>5 DEF Receiver!OpenSucceeds, Where, Settled, Opened, GreetNow
  <2> QED BY <1>5, <2>1, <2>2 DEF Receiver!OpenSucceeds, Receiver!OneSession, Receiver!Alive, Receiver!playerVars
<1>6. CASE Receiver!Greet
  <2>1. Typed'
    BY <1>6 DEF Receiver!Greet, Typed, Receiver!playerVars, Receiver!sourceVars
  <2>2. Where'
    BY <1>6 DEF Receiver!Greet, Where, Settled, Ending, Rebuilding, Opened, Stops, Quits, Rebuilds
  <2> QED BY <1>6, <2>1, <2>2 DEF Receiver!Greet, Receiver!OneSession, Receiver!Alive, Receiver!playerVars
<1>7. CASE Receiver!Summon
  <2>1. Typed'
    BY <1>7 DEF Receiver!Summon, Typed, Receiver!playerVars, Receiver!sourceVars
  <2>2. Where'
    BY <1>7 DEF Receiver!Summon, Where, Settled, Ending, Rebuilding, Opened, Stops, Quits, Rebuilds
  <2> QED BY <1>7, <2>1, <2>2 DEF Receiver!Summon, Receiver!OneSession, Receiver!Alive, Receiver!playerVars
<1> QED BY <1>1, <1>2, <1>4, <1>5, <1>6, <1>7

\* The source thread, the players and the verbs leave the session to the runtime.
LEMMA OthersStep ==
  ASSUME ReceiverInv,
         \/ Receiver!Source \/ Receiver!TaskEnds \/ Receiver!LocalVerb \/ Receiver!ConnectDisconnect
         \/ Receiver!Shutdown \/ \E n \in Receiver!Sessions : Receiver!Produce(n) \/ Receiver!Deliver(n)
  PROVE  ReceiverInv'
<1> USE DEF ReceiverInv
<1>1. UNCHANGED <<script, picks, spirc, announced, slot, playback, view>>
  BY DEF Receiver!Source, Receiver!TaskEnds, Receiver!LocalVerb, Receiver!ConnectDisconnect, Receiver!Shutdown,
         Receiver!Produce, Receiver!Deliver, Receiver!TakeCommand, Receiver!AwaitStopped, Receiver!AwaitSlot,
         Receiver!Bind, Receiver!CheckStopped, Receiver!CheckRotated, Receiver!CheckPassed, Receiver!Receive,
         Receiver!ReceiveEmpty, Receiver!Unbind, Receiver!Release, Receiver!runtimeVars
<1>2. Where' /\ view' = announced'
  BY <1>1 DEF Where, Settled, Ending, Rebuilding, Opened
<1>3. CASE Receiver!Source
  <2>1. Typed'
    <3>1. CASE Receiver!TakeCommand \/ Receiver!AwaitStopped \/ Receiver!AwaitSlot
      BY <3>1 DEF Typed, Receiver!TakeCommand, Receiver!AwaitStopped, Receiver!AwaitSlot, Receiver!SourceGoes,
                  Receiver!runtimeVars, Receiver!playerVars
    <3>2. CASE Receiver!Bind
      <4>1. binds' \in Nat /\ pcm' \in Nat /\ binding' \in [1 .. MaxPicks -> Nat]
        <5>1. \A b \in Nat : b + 1 \in Nat
          OBVIOUS
        <5> QED BY <3>2, <5>1 DEF Typed, Receiver!Bind
      <4> QED BY <3>2, <4>1 DEF Typed, Receiver!Bind, Receiver!SourceGoes, Receiver!runtimeVars, Receiver!playerVars
    <3>3. CASE Receiver!CheckStopped \/ Receiver!CheckRotated \/ Receiver!CheckPassed \/ Receiver!ReceiveEmpty
      BY <3>3 DEF Typed, Receiver!CheckStopped, Receiver!CheckRotated, Receiver!CheckPassed, Receiver!ReceiveEmpty,
                  Receiver!SourceGoes, Receiver!runtimeVars, Receiver!playerVars
    <3>4. CASE Receiver!Receive
      <4>1. fill' \in 0 .. ChannelCapacity
        <5>1. ASSUME NEW f \in 0 .. ChannelCapacity, f > 0 PROVE f - 1 \in 0 .. ChannelCapacity
          BY <5>1, ReceiverAssumption
        <5> QED BY <3>4, <5>1 DEF Typed, Receiver!Receive
      <4> QED BY <3>4, <4>1 DEF Typed, Receiver!Receive, Receiver!SourceGoes, Receiver!runtimeVars, Receiver!playerVars
    <3>5. CASE Receiver!Unbind \/ Receiver!Release
      <4>1. held' \in 0 .. MaxPicks /\ pcm' \in Nat /\ fill' \in 0 .. ChannelCapacity
        BY <3>5, Nothing DEF Typed, Receiver!Unbind, Receiver!Release, Receiver!None
      <4>2. binding' \in [1 .. MaxPicks -> Nat]
        BY <3>5 DEF Typed, Receiver!Unbind, Receiver!Release, Receiver!None
      <4>3. UNCHANGED <<Receiver!runtimeVars, Receiver!playerVars, binds, selected, inbox, verbs>>
            /\ source' \in {"release", "over"}
        BY <3>5 DEF Receiver!Unbind, Receiver!Release, Receiver!SourceGoes
      <4> QED BY <4>1, <4>2, <4>3 DEF Typed, Receiver!runtimeVars, Receiver!playerVars
    <3> QED BY <1>3, <3>1, <3>2, <3>3, <3>4, <3>5 DEF Receiver!Source
  <2>2. UNCHANGED player
    BY <1>3 DEF Receiver!Source, Receiver!TakeCommand, Receiver!AwaitStopped, Receiver!AwaitSlot, Receiver!Bind,
         Receiver!CheckStopped, Receiver!CheckRotated, Receiver!CheckPassed, Receiver!Receive,
         Receiver!ReceiveEmpty, Receiver!Unbind, Receiver!Release, Receiver!playerVars
  <2> QED BY <1>1, <1>2, <2>1, <2>2 DEF Receiver!OneSession, Receiver!Alive
<1>4. CASE Receiver!TaskEnds \/ Receiver!Shutdown
  <2>1. Typed'
    BY <1>4 DEF Typed, Receiver!TaskEnds, Receiver!Shutdown, Receiver!playerVars, Receiver!sourceVars
  <2> QED BY <1>2, <1>4, <2>1 DEF Receiver!TaskEnds, Receiver!Shutdown, Receiver!OneSession, Receiver!Alive,
                                  Receiver!playerVars
<1>5. CASE Receiver!LocalVerb \/ Receiver!ConnectDisconnect
  <2>1. asked' \in 0 .. verbs' /\ verbs' \in 0 .. MaxVerbs
    <3>1. ASSUME NEW v \in 0 .. MaxVerbs, NEW a \in 0 .. v, v < MaxVerbs
          PROVE  v + 1 \in 0 .. MaxVerbs /\ a \in 0 .. v + 1 /\ a + 1 \in 0 .. v + 1
      BY <3>1, ReceiverAssumption
    <3> QED BY <1>5, <3>1 DEF Typed, Receiver!LocalVerb, Receiver!ConnectDisconnect, Receiver!runtimeVars
  <2>2. Typed'
    BY <1>5, <2>1 DEF Typed, Receiver!LocalVerb, Receiver!ConnectDisconnect, Receiver!runtimeVars,
                      Receiver!playerVars, Receiver!sourceVars
  <2> QED BY <1>2, <1>5, <2>2 DEF Receiver!LocalVerb, Receiver!ConnectDisconnect, Receiver!OneSession, Receiver!Alive,
                                  Receiver!runtimeVars, Receiver!playerVars
<1>6. ASSUME NEW n \in Receiver!Sessions, Receiver!Produce(n) PROVE ReceiverInv'
  <2>1. Typed'
    BY <1>6 DEF Typed, Receiver!Produce, Receiver!Sessions, Receiver!runtimeVars, Receiver!sourceVars
  <2>2. Receiver!OneSession'
    BY <1>6 DEF Typed, Receiver!Produce, Receiver!Sessions, Receiver!OneSession, Receiver!Alive, Receiver!runtimeVars
  <2> QED BY <1>2, <2>1, <2>2
<1>7. ASSUME NEW n \in Receiver!Sessions, Receiver!Deliver(n) PROVE ReceiverInv'
  <2>1. fill' \in 0 .. ChannelCapacity
    <3>1. ASSUME NEW f \in 0 .. ChannelCapacity, f < ChannelCapacity PROVE f + 1 \in 0 .. ChannelCapacity
      BY <3>1, ReceiverAssumption
    <3> QED BY <1>7, <3>1 DEF Typed, Receiver!Deliver
  <2>2. Typed'
    BY <1>7, <2>1 DEF Typed, Receiver!Deliver, Receiver!Sessions, Receiver!None, Receiver!runtimeVars
  <2>3. Receiver!OneSession'
    BY <1>7 DEF Typed, Receiver!Deliver, Receiver!Sessions, Receiver!OneSession, Receiver!Alive, Receiver!runtimeVars
  <2> QED BY <1>2, <2>2, <2>3
<1> QED BY <1>3, <1>4, <1>5, <1>6, <1>7

\* Every step of the receiver keeps its invariant.
LEMMA ReceiverStep == ReceiverInv /\ [Receiver!Next]_(Receiver!vars) => ReceiverInv'
<1> SUFFICES ASSUME ReceiverInv, [Receiver!Next]_(Receiver!vars) PROVE ReceiverInv'
  OBVIOUS
<1>1. CASE Receiver!Next
  BY <1>1, ArmStep, ClosingStep, OpeningStep, OthersStep
     DEF Receiver!Next, Receiver!Runtime, Receiver!Environment
<1>2. CASE UNCHANGED Receiver!vars
  BY <1>2 DEF ReceiverInv, Typed, Where, Settled, Ending, Rebuilding, Opened, Receiver!OneSession, Receiver!Alive,
              Receiver!vars, Receiver!runtimeVars, Receiver!playerVars, Receiver!sourceVars
<1> QED BY <1>1, <1>2

\* connect.rs:480-560: there is one session and its player at a time, and back in select!
\* what clients were told is announced_connected, for any number of picks and verbs.
THEOREM ReceiverAgreesHolds == Receiver!Spec => []ReceiverAgrees
<1>1. ReceiverInv => ReceiverAgrees
  <2> SUFFICES ASSUME ReceiverInv PROVE ReceiverAgrees
    OBVIOUS
  <2>1. script \in Scripts \/ script = <<>>
    BY DEF ReceiverInv, Where, Settled, Ending, Rebuilding, Opened, Scripts
  <2>2. script \in Seq(Receiver!Steps)
    <3>1. <<>> \in Seq(Receiver!Steps)
      OBVIOUS
    <3> QED BY <2>1, <3>1, ScriptsAreScripts
  <2>3. {asked, verbs} \subseteq 0 .. MaxVerbs
    BY ReceiverAssumption DEF ReceiverInv, Typed
  <2>4. Receiver!TypeOK
    BY <2>2, <2>3 DEF ReceiverInv, Typed, Receiver!TypeOK, Receiver!Sessions, Receiver!None
  <2>5. Receiver!ClientsAreTold
    BY SelectSettled DEF ReceiverInv, Settled, Receiver!ClientsAreTold, Receiver!InSelect, Receiver!None
  <2> QED BY <2>4, <2>5 DEF ReceiverInv, ReceiverAgrees, Receiver!ReceiverAgrees
<1> QED BY <1>1, ReceiverStarts, ReceiverStep, PTL DEF Receiver!Spec
=============================================================================
