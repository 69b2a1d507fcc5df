---------------------------- MODULE VisitsProofs ----------------------------
(***************************************************************************)
(* For any number of connections and any window, an idle daemon always has *)
(* its countdown running, however the callbacks of the connections are     *)
(* interleaved with each other and with tick(), and does not exit within   *)
(* the window of a client it has seen.  For any patience and any queues, a *)
(* one-shot client reports what became of its own verb.                    *)
(*                                                                         *)
(* The client's verb is in one place at a time - in line, with the         *)
(* dispatcher, or decided - and what may be on the way to the client is    *)
(* read off that: no acknowledgement before the verdict, and none against  *)
(* it.                                                                     *)
(***************************************************************************)
EXTENDS MCVisits, FiniteSetTheorems, TLAPS

\* client_count is the number of connections counted and not yet uncounted.
CountInv == count = Cardinality(Connected)

IInv == TypeOK /\ CountInv /\ CountdownRuns

\* The connections are finite, so they can be counted.
LEMMA ConnectedFinite ==
  /\ IsFiniteSet(Connected)
  /\ Cardinality(Connected) \in 0 .. Cardinality(Clients)
<1>1. Connected \subseteq Clients
  BY DEF Connected
<1> QED BY <1>1, ClientsAssumption, FS_Subset, FS_CardinalityType

\* The same after a step.
LEMMA ConnectedFiniteNext ==
  /\ IsFiniteSet(Connected')
  /\ Cardinality(Connected') \in 0 .. Cardinality(Clients)
<1>1. Connected' \subseteq Clients
  BY DEF Connected
<1> QED BY <1>1, ClientsAssumption, FS_Subset, FS_CardinalityType

\* The daemon starts idle, with the countdown running.
LEMMA InitInv == Init => IInv
<1> SUFFICES ASSUME Init PROVE IInv
  OBVIOUS
<1>1. Connected = {}
  BY DEF Init, Connected
<1>2. CountInv
  BY <1>1, FS_EmptySet DEF Init, CountInv
<1>3. TypeOK
  <2>1. 0 \in 0 .. Cardinality(Clients) /\ 0 \in Ages
    BY ClientsAssumption, FS_CardinalityType, WindowAssumption DEF Ages
  <2> QED BY <2>1 DEF Init, TypeOK
<1>4. CountdownRuns
  BY DEF Init, CountdownRuns, Unset
<1> QED BY <1>2, <1>3, <1>4 DEF IInv

\* A callback moves the count with the set of connections.
LEMMA CountStep == TypeOK /\ CountInv /\ [Next]_vars => CountInv'
<1> SUFFICES ASSUME TypeOK, CountInv, [Next]_vars PROVE CountInv'
  OBVIOUS
<1>1. ASSUME UNCHANGED count, Connected' = Connected PROVE CountInv'
  BY <1>1 DEF CountInv
<1>2. ASSUME NEW c \in Clients, CountUp(c) PROVE CountInv'
  <2>1. Connected' = Connected \cup {c} /\ c \notin Connected /\ count' = count + 1
    BY <1>2 DEF CountUp, TaskGoes, Connected, TypeOK
  <2>2. Cardinality(Connected \cup {c}) = Cardinality(Connected) + 1
    BY <2>1, ConnectedFinite, FS_AddElement
  <2> QED BY <2>1, <2>2 DEF CountInv
<1>3. ASSUME NEW c \in Clients, CountDown(c) PROVE CountInv'
  <2>1. Connected' = Connected \ {c} /\ c \in Connected /\ count' = count - 1
    BY <1>3 DEF CountDown, Connected, TypeOK
  <2>2. Cardinality(Connected \ {c}) = Cardinality(Connected) - 1
    BY <2>1, ConnectedFinite, FS_RemoveElement
  <2> QED BY <2>1, <2>2 DEF CountInv
<1>4. ASSUME NEW c \in Clients, Callback(c) PROVE CountInv'
  <2>1. UNCHANGED count /\ Connected' = Connected
    BY <1>4 DEF Callback, ClearSince, ReadClock, StoreSince, TaskGoes, Connected, TypeOK
  <2> QED BY <1>1, <2>1
<1>5. ASSUME UNCHANGED <<count, task>> PROVE CountInv'
  BY <1>1, <1>5 DEF Connected
<1> QED
  BY <1>2, <1>3, <1>4, <1>5
  DEF Next, Tick, LoadCount, ReadSince, NotYet, Expire, Signal, ClockAdvances, vars

\* Every step keeps the types.
LEMMA TypeStep == TypeOK /\ CountInv' /\ [Next]_vars => TypeOK'
<1> SUFFICES ASSUME TypeOK, CountInv', [Next]_vars PROVE TypeOK'
  OBVIOUS
<1>1. count' \in 0 .. Cardinality(Clients)
  BY ConnectedFiniteNext DEF CountInv
<1> USE WindowAssumption DEF TypeOK, Ages, Unset
<1>2. ASSUME NEW c \in Clients, CountUp(c) \/ CountDown(c) \/ Callback(c) PROVE TypeOK'
  <2>1. CASE CountUp(c)
    BY <1>1, <2>1 DEF CountUp, TaskGoes, timerVars
  <2>2. CASE CountDown(c)
    BY <1>1, <2>2 DEF CountDown, timerVars
  <2>3. CASE ClearSince(c)
    BY <1>1, <2>3 DEF ClearSince, TaskGoes, timerVars
  <2>4. CASE ReadClock(c)
    BY <1>1, <2>4 DEF ReadClock, TaskGoes, timerVars
  <2>5. CASE StoreSince(c)
    BY <1>1, <2>5 DEF StoreSince, TaskGoes, timerVars
  <2> QED BY <1>2, <2>1, <2>2, <2>3, <2>4, <2>5 DEF Callback
<1>3. ASSUME Tick \/ Signal PROVE TypeOK'
  BY <1>1, <1>3 DEF Tick, LoadCount, ReadSince, NotYet, Expire, Signal
<1>4. ASSUME ClockAdvances PROVE TypeOK'
  <2>1. ASSUME NEW age \in Ages PROVE Older(age) \in Ages
    BY <2>1 DEF Older
  <2> QED BY <1>1, <1>4, <2>1 DEF ClockAdvances
<1>5. CASE UNCHANGED vars
  BY <1>5 DEF vars
<1> QED BY <1>2, <1>3, <1>4, <1>5 DEF Next

\* No interleaving of callbacks leaves an idle daemon without a countdown.
LEMMA CountdownStep == IInv /\ [Next]_vars => CountdownRuns'
<1> SUFFICES ASSUME IInv, [Next]_vars, \A c \in Clients : task'[c] = "out"
             PROVE  since' # Unset
  BY DEF CountdownRuns
<1> USE DEF IInv, TypeOK
<1>1. ASSUME NEW c \in Clients, CountUp(c) \/ ClearSince(c) \/ ReadClock(c) PROVE FALSE
  BY <1>1 DEF CountUp, ClearSince, ReadClock, TaskGoes
<1>2. ASSUME NEW c \in Clients, CountDown(c) PROVE FALSE
  <2>1. c \in Connected /\ count # 1
    BY <1>2 DEF CountDown, Connected
  <2>2. Connected = {c}
    BY <1>2, <2>1 DEF CountDown, Connected
  <2>3. Cardinality(Connected) = 1
    BY <2>2, FS_Singleton
  <2> QED BY <2>1, <2>3 DEF CountInv
<1>3. ASSUME NEW c \in Clients, StoreSince(c) PROVE since' # Unset
  BY <1>3 DEF StoreSince, Ages, Unset
<1>4. ASSUME UNCHANGED task PROVE since # Unset
  BY <1>4 DEF CountdownRuns
<1>5. ASSUME ClockAdvances PROVE since' # Unset
  <2>1. since \in Ages
    BY <1>4, <1>5 DEF ClockAdvances
  <2> QED BY <1>5, <2>1, WindowAssumption DEF ClockAdvances, Older, Ages, Unset
<1>6. ASSUME Tick \/ Signal \/ UNCHANGED vars PROVE since' # Unset
  BY <1>4, <1>6 DEF Tick, LoadCount, ReadSince, NotYet, Expire, Signal, vars
<1> QED BY <1>1, <1>2, <1>3, <1>5, <1>6 DEF Next, Callback

\* The inductive invariant holds in every reachable state.
LEMMA InductiveInvariant == Spec => []IInv
<1>1. IInv /\ [Next]_vars => IInv'
  BY CountStep, TypeStep, CountdownStep DEF IInv
<1> QED BY <1>1, InitInv, PTL DEF Spec

\* client_count never underflows and never exceeds the connections there are.
THEOREM TypeCorrect == Spec => []TypeOK
BY InductiveInvariant, PTL DEF IInv

\* An idle daemon always has its countdown running (on_client_disconnected).
THEOREM CountdownRunsHolds == Spec => []CountdownRuns
BY InductiveInvariant, PTL DEF IInv

-----------------------------------------------------------------------------
(* No exit within the window.  The ages that are still to be compared with  *)
(* Window are at most that of the last moment a client was connected.       *)

\* Tasks that have taken the count to zero and not yet stored their instant.
Leaving == {c \in Clients : task[c] \in {"clock", "store"}}

\* As long as nobody came while the last client was leaving.
InStep ==
  /\ Leaving # {} => Connected = {}
  /\ (\E c \in Clients : task[c] = "in") => since = Unset
  /\ Connected = {} /\ since # Unset => since <= quiet
  /\ \A c \in Clients : task[c] = "store" => stamp[c] <= quiet
  /\ tick = "compare" /\ ~ arrived => start <= quiet

EarlyInv ==
  /\ Connected # {} => quiet = 0
  /\ tick \in {"read", "compare"} /\ ~ arrived => Connected = {}
  /\ expired => tick = "done"
  /\ ~ overlap => InStep

\* The clock keeps the order of two ages, and never turns an age into Unset.
LEMMA OlderKeepsOrder ==
  ASSUME NEW a \in Ages, NEW b \in Ages
  PROVE  /\ Older(a) \in Ages
         /\ Older(a) # Unset
         /\ a <= b => Older(a) <= Older(b)
BY WindowAssumption DEF Older, Ages, Unset

\* The daemon starts with equal ages and nobody leaving.
LEMMA EarlyInit == Init => EarlyInv /\ NoEarlyExit
BY DEF Init, EarlyInv, InStep, Connected, Leaving, NoEarlyExit

\* A client that is counted resets quiet and has arrived; if another is still
\* leaving, that is an overlap.
LEMMA EarlyUp ==
  ASSUME TypeOK, EarlyInv, NEW c \in Clients, CountUp(c) PROVE EarlyInv'
<1>1. c \in Connected' /\ quiet' = 0 /\ arrived' /\ UNCHANGED <<tick, expired, since, stamp, start>>
  BY DEF CountUp, TaskGoes, Connected, timerVars, TypeOK
<1>2. ASSUME ~ overlap' PROVE InStep'
  <2>1. ~ overlap /\ Leaving = {}
    BY <1>2 DEF CountUp, Leaving
  <2>2. \A d \in Clients : task'[d] \notin {"clock", "store"} /\ (task'[d] = "in" => task[d] = "in")
    BY <2>1 DEF CountUp, TaskGoes, Leaving, TypeOK
  <2> QED BY <1>1, <2>1, <2>2 DEF EarlyInv, InStep, Leaving
<1> QED BY <1>1, <1>2 DEF EarlyInv

\* A client that is uncounted leaves quiet at zero; if it is the last, since
\* has been cleared.
LEMMA EarlyDown ==
  ASSUME TypeOK, CountInv, EarlyInv, NEW c \in Clients, CountDown(c) PROVE EarlyInv'
<1>1. /\ c \in Connected /\ quiet = 0 /\ quiet' = 0 /\ Connected' = Connected \ {c}
      /\ UNCHANGED <<tick, expired, since, stamp, start, arrived, overlap>>
  BY DEF CountDown, Connected, timerVars, TypeOK, EarlyInv
<1>2. ASSUME ~ overlap PROVE InStep'
  <2>1. InStep /\ since = Unset /\ since' = Unset
    BY <1>1, <1>2 DEF EarlyInv, InStep, CountDown
  <2>2. Leaving = {}
    BY <1>1, <2>1 DEF InStep
  <2>3. \A d \in Clients : task'[d] # "store"
    BY <2>2 DEF CountDown, Leaving, TypeOK
  <2>4. Leaving' # {} => Connected' = {}
    <3> SUFFICES ASSUME Leaving' # {} PROVE Connected' = {}
      OBVIOUS
    <3>1. count = 1
      BY <2>2 DEF Leaving, CountDown, TypeOK
    <3>2. Cardinality(Connected \ {c}) = 0
      <4>1. Cardinality(Connected) = 1
        BY <3>1 DEF CountInv
      <4>2. Cardinality(Connected \ {c}) = Cardinality(Connected) - 1
        BY <1>1, ConnectedFinite, FS_RemoveElement
      <4> QED BY <4>1, <4>2
    <3> QED BY <1>1, <3>2, ConnectedFinite, FS_RemoveElement, FS_EmptySet
  <2>5. tick' = "compare" /\ ~ arrived' => start' <= quiet'
    BY <1>1, <2>1 DEF InStep
  <2> QED BY <2>1, <2>3, <2>4, <2>5 DEF InStep
<1> QED BY <1>1, <1>2 DEF EarlyInv

\* The callbacks: since is cleared while a client is connected, the instant is
\* read when nobody is, and stored when it is at most quiet.
LEMMA EarlyCallback ==
  ASSUME TypeOK, EarlyInv, NEW c \in Clients, Callback(c) PROVE EarlyInv'
<1>1. /\ Connected' = Connected
      /\ UNCHANGED <<tick, expired, start, quiet, arrived, overlap>>
  BY DEF Callback, ClearSince, ReadClock, StoreSince, TaskGoes, Connected, timerVars, TypeOK
<1>2. ASSUME ~ overlap PROVE InStep'
  <2>1. InStep
    BY <1>2 DEF EarlyInv
  <2>2. CASE ClearSince(c)
    BY <1>1, <2>1, <2>2 DEF ClearSince, TaskGoes, InStep, Leaving, Connected, TypeOK
  <2>3. CASE ReadClock(c)
    <3>1. stamp'[c] <= quiet'
      BY <1>1, <2>3 DEF ReadClock, TypeOK, Ages
    <3>2. Leaving' = Leaving /\ since' = since
      BY <2>3 DEF ReadClock, TaskGoes, Leaving, TypeOK
    <3>3. \A d \in Clients : task'[d] = "in" => task[d] = "in"
      BY <2>3 DEF ReadClock, TaskGoes, TypeOK
    <3>4. \A d \in Clients : d # c => task'[d] = task[d] /\ stamp'[d] = stamp[d]
      BY <2>3 DEF ReadClock, TaskGoes, TypeOK
    <3> QED BY <1>1, <2>1, <3>1, <3>2, <3>3, <3>4 DEF InStep
  <2>4. CASE StoreSince(c)
    <3>1. task[c] = "store" /\ since' = stamp[c] /\ stamp' = stamp /\ Connected = {}
      BY <2>1, <2>4 DEF StoreSince, TaskGoes, InStep, Leaving
    <3>2. Leaving' \subseteq Leaving
      BY <2>4 DEF StoreSince, TaskGoes, Leaving, TypeOK
    <3>3. \A d \in Clients : task'[d] # "in"
      BY <1>1, <3>1 DEF Connected
    <3>4. \A d \in Clients : task'[d] = "store" => task[d] = "store"
      BY <2>4 DEF StoreSince, TaskGoes, TypeOK
    <3> QED BY <1>1, <2>1, <3>1, <3>2, <3>3, <3>4 DEF InStep
  <2> QED BY <2>2, <2>3, <2>4 DEF Callback
<1> QED BY <1>1, <1>2 DEF EarlyInv

\* tick() goes on only when the count is zero, and compares what it has read.
LEMMA EarlyTick ==
  ASSUME TypeOK, CountInv, EarlyInv, Tick \/ Signal PROVE EarlyInv'
<1>1. Connected' = Connected /\ Leaving' = Leaving /\ UNCHANGED <<quiet, overlap, since, task, stamp>>
  BY DEF Tick, Signal, LoadCount, ReadSince, NotYet, Expire, Connected, Leaving
<1>2. CASE LoadCount
  <2>1. tick' = "read" => Connected = {}
    BY <1>2, ConnectedFinite, FS_EmptySet DEF LoadCount, CountInv, TypeOK
  <2>2. tick' \in {"load", "read"} /\ expired' = expired /\ tick = "load"
    BY <1>2 DEF LoadCount
  <2> QED BY <1>1, <2>1, <2>2 DEF EarlyInv, InStep
<1>3. CASE ReadSince
  <2>1. tick = "read" /\ tick' \in {"load", "compare"} /\ UNCHANGED <<expired, arrived>>
    BY <1>3 DEF ReadSince
  <2>2. tick' = "compare" => since # Unset /\ start' = since
    BY <1>3 DEF ReadSince
  <2> QED BY <1>1, <2>1, <2>2 DEF EarlyInv, InStep
<1>4. CASE NotYet \/ Expire \/ Signal
  BY <1>1, <1>4 DEF NotYet, Expire, Signal, EarlyInv, InStep
<1> QED BY <1>2, <1>3, <1>4 DEF Tick

\* The clock makes the ages older together.
LEMMA EarlyClock ==
  ASSUME TypeOK, EarlyInv, ClockAdvances PROVE EarlyInv'
<1>1. Connected' = Connected /\ Leaving' = Leaving /\ UNCHANGED <<task, tick, expired, arrived, overlap>>
  BY DEF ClockAdvances, Connected, Leaving
<1>2. Connected # {} => quiet' = 0
  BY DEF ClockAdvances
<1>3. ASSUME ~ overlap PROVE InStep'
  <2>1. InStep
    BY <1>3 DEF EarlyInv
  <2>2. quiet \in Ages /\ start \in Ages /\ \A c \in Clients : stamp[c] \in Ages
    BY DEF TypeOK
  <2>3. start' = Older(start) /\ \A c \in Clients : stamp'[c] = Older(stamp[c])
    BY DEF ClockAdvances
  <2>4. Connected = {} => quiet' = Older(quiet)
    BY DEF ClockAdvances
  <2>5. Connected = {} /\ since' # Unset => since' <= quiet'
    <3> SUFFICES ASSUME Connected = {}, since' # Unset PROVE since' <= quiet'
      OBVIOUS
    <3>1. since # Unset /\ since' = Older(since)
      BY DEF ClockAdvances
    <3>2. since \in Ages /\ since <= quiet
      BY <2>1, <3>1 DEF InStep, TypeOK
    <3> QED BY <2>2, <2>4, <3>1, <3>2, OlderKeepsOrder
  <2>6. since = Unset => since' = Unset
    BY DEF ClockAdvances
  <2>7. ASSUME NEW c \in Clients, task[c] = "store" PROVE stamp'[c] <= quiet'
    <3>1. Connected = {} /\ stamp[c] <= quiet
      BY <2>1, <2>7 DEF InStep, Leaving
    <3> QED BY <2>2, <2>3, <2>4, <3>1, OlderKeepsOrder
  <2>8. tick = "compare" /\ ~ arrived => start' <= quiet'
    <3> SUFFICES ASSUME tick = "compare", ~ arrived PROVE start' <= quiet'
      OBVIOUS
    <3>1. Connected = {} /\ start <= quiet
      BY <2>1 DEF InStep, EarlyInv
    <3> QED BY <2>2, <2>3, <2>4, <3>1, OlderKeepsOrder
  <2>9. (\E c \in Clients : task[c] = "in") => since' = Unset
    BY <2>1, <2>6 DEF InStep
  <2> QED BY <1>1, <2>1, <2>5, <2>7, <2>8, <2>9 DEF InStep
<1> QED BY <1>1, <1>2, <1>3 DEF EarlyInv

\* When tick() decides, what it compares is at most quiet; then the clock stops.
LEMMA ExitStep == IInv /\ EarlyInv /\ NoEarlyExit /\ [Next]_vars => NoEarlyExit'
<1> SUFFICES ASSUME IInv, EarlyInv, NoEarlyExit, [Next]_vars PROVE NoEarlyExit'
  OBVIOUS
<1>1. ASSUME NEW c \in Clients, CountUp(c) PROVE NoEarlyExit'
  BY <1>1 DEF CountUp, NoEarlyExit
<1>2. ASSUME NEW c \in Clients, CountDown(c) \/ Callback(c) PROVE NoEarlyExit'
  BY <1>2 DEF CountDown, Callback, ClearSince, ReadClock, StoreSince, timerVars, NoEarlyExit
<1>3. CASE Expire
  <2>1. quiet' = quiet /\ arrived' = arrived /\ overlap' = overlap
    BY <1>3 DEF Expire
  <2>2. ~ arrived /\ ~ overlap => start <= quiet
    BY <1>3 DEF Expire, EarlyInv, InStep
  <2>3. start >= Window /\ start \in Int /\ quiet \in Int
    BY <1>3, WindowAssumption DEF Expire, IInv, TypeOK, Ages
  <2>4. start <= quiet => quiet >= Window
    BY <2>3, WindowAssumption
  <2> QED BY <2>1, <2>2, <2>4 DEF NoEarlyExit
<1>4. CASE LoadCount
  <2>1. ~ expired'
    BY <1>4 DEF LoadCount, EarlyInv
  <2> QED BY <2>1 DEF NoEarlyExit
<1>5. CASE ReadSince \/ NotYet \/ Signal \/ UNCHANGED vars
  BY <1>5 DEF ReadSince, NotYet, Signal, vars, NoEarlyExit
<1>6. CASE ClockAdvances
  BY <1>6 DEF ClockAdvances, NoEarlyExit
<1> QED BY <1>1, <1>2, <1>3, <1>4, <1>5, <1>6 DEF Next, Tick

\* The ages stay in order in every reachable state.
LEMMA EarlyInvariant == Spec => [](IInv /\ EarlyInv /\ NoEarlyExit)
<1>1. IInv /\ EarlyInv /\ [Next]_vars => EarlyInv'
  <2> SUFFICES ASSUME IInv, EarlyInv, [Next]_vars PROVE EarlyInv'
    OBVIOUS
  <2>1. CASE UNCHANGED vars
    BY <2>1 DEF vars, EarlyInv, InStep, Connected, Leaving
  <2> QED BY <2>1, EarlyUp, EarlyDown, EarlyCallback, EarlyTick, EarlyClock DEF Next, IInv
<1> QED BY <1>1, EarlyInit, InductiveInvariant, ExitStep, PTL DEF Spec

\* tick() never expires within the window of the last client, unless one arrived while
\* it ran or while the last one was leaving (idle_timer.rs:3-6).
THEOREM NoEarlyExitHolds == Spec => []NoEarlyExit
BY EarlyInvariant, PTL

\* The countdown is running when it must be and over only when it may be.
THEOREM CountdownIsSoundHolds == Spec => []CountdownIsSound
<1>1. IInv /\ NoEarlyExit => CountdownIsSound
  BY DEF IInv, CountdownIsSound
<1> QED BY <1>1, InductiveInvariant, EarlyInvariant, PTL

-----------------------------------------------------------------------------
(* The one-shot client: what may be on its way to it.                     *)

\* A state the daemon was in, not before the one it had settled when it was asked.
StateEvents == {[type |-> "state", n |-> k] : k \in known .. changes}
ResultEvents == [type : {"results"}, of : {"own", "other"}]
BusEvents == StateEvents \cup ResultEvents

\* The acknowledgements the verdict allows.
Acks ==
  {a \in [type : {"ok", "error"}] :
     /\ a.type = "ok" => verdict \in {"done", "early"}
     /\ a.type = "error" => verdict = "refused"}
Replies == BusEvents \cup {[type |-> "tap"]} \cup Acks

Bounded ==
  /\ request \in {"play", "search", "status"} /\ phase \in {"away", "asks", "waits", "over"}
  /\ outcome \in {"none", "ok", "error", "printed", "noAnswer"}
  /\ outcome = "none" <=> phase # "over"
  /\ spent \in 0 .. Patience /\ printed \subseteq {"own", "other"}
  /\ daemon \in {"up", "stopping", "gone"} /\ listed \in BOOLEAN
  /\ bus \in Seq(BusEvents) /\ queue \in Seq(Replies) /\ wire \in Seq(Replies)
  /\ Len(queue) <= QueueSize /\ Len(bus) <= BusSize

\* The state the daemon holds is its last change; what is yet to be sent of it, like
\* what the client has been shown, is none or not behind what it had settled.
NotBehind(n) == n = 0 \/ n \in known .. changes
Dated ==
  /\ changes \in Nat /\ known \in 0 .. changes /\ lastState = changes
  /\ NotBehind(toSay) /\ NotBehind(mine) /\ NotBehind(shown)
  /\ step = "send" => mine # 0

\* The dispatcher's verb, and how far it can be with it.
Verbs ==
  {v \in [of : {"own", "other"}, verb : {"play", "search", "status"}] :
     v.of = "own" => v.verb = request}
Serving ==
  /\ line \in Seq(Verbs)
  /\ \/ doing \in Verbs /\ step \in {"refuse", "start", "send", "tap", "answer"}
     \/ doing = OneShot!NoVerb /\ step \in {"idle", "returned"}
  /\ step = "send" => doing.verb = "play"
  /\ step = "tap" => doing.verb = "status"

\* The client's verb is in one place.
IsOwn(v) == v.of = "own"
Waits(q) == \E i \in 1 .. Len(q) : IsOwn(q[i])
AtMostOnce(q) == \A i, j \in 1 .. Len(q) : IsOwn(q[i]) /\ IsOwn(q[j]) => i = j
OnePlace ==
  /\ AtMostOnce(line)
  /\ Waits(line) => ~ IsOwn(doing) /\ verdict = "none"
  /\ IsOwn(doing) => verdict = "none"
  /\ phase \in {"away", "asks"} =>
       verdict = "none" /\ ~ IsOwn(doing) /\ shown = 0 /\ ~ Waits(line)

OwnAnswer == OneShot!AnswerIsItsOwn

\* When the client's search is about to be acknowledged its results have been sent.
Found == IsOwn(doing) /\ step = "answer"
Ahead ==
  (request = "search" /\ Found /\ listed /\ daemon # "gone") =>
    "own" \in printed \/ OneShot!HasOwn(bus) \/ OneShot!HasOwn(queue) \/ OneShot!HasOwn(wire)

\* Acknowledged in time, its results are ahead of every acknowledgement under way.
AckBehind(q) == \A j \in 1 .. Len(q) : q[j].type = "ok" => \E i \in 1 .. j - 1 : OneShot!IsOwnResults(q[i])
InTime ==
  (request = "search" /\ verdict = "done" /\ listed) =>
    \/ "own" \in printed
    \/ outcome # "ok" /\ AckBehind(wire) /\ (OneShot!HasOwn(wire) \/ AckBehind(queue))

OneShotInv == Bounded /\ Dated /\ Serving /\ OnePlace /\ OwnAnswer /\ Ahead /\ InTime

-----------------------------------------------------------------------------
(* Queues *)

\* A queue of some events is one of more.
LEMMA SeqGrows == \A S, T : S \subseteq T => \A q \in Seq(S) : q \in Seq(T)
OBVIOUS

\* A queue with an event more.
LEMMA AppendFacts ==
  \A S : \A q \in Seq(S), e \in S :
    /\ Append(q, e) \in Seq(S) /\ Len(Append(q, e)) = Len(q) + 1
    /\ \A i \in 1 .. Len(q) : Append(q, e)[i] = q[i]
    /\ Append(q, e)[Len(q) + 1] = e
OBVIOUS

\* A queue without its first event.
LEMMA TailFacts ==
  \A S : \A q \in Seq(S) : q # <<>> =>
    /\ Head(q) \in S /\ Tail(q) \in Seq(S) /\ Len(Tail(q)) = Len(q) - 1 /\ Len(q) \in Nat \ {0}
    /\ Head(q) = q[1] /\ \A i \in 1 .. Len(q) - 1 : Tail(q)[i] = q[i + 1]
OBVIOUS

\* What is in a queue after an event has come.
LEMMA HasAppend ==
  ASSUME NEW S, NEW q \in Seq(S), NEW e \in S
  PROVE  OneShot!HasOwn(Append(q, e)) <=> OneShot!HasOwn(q) \/ OneShot!IsOwnResults(e)
<1>1. Len(q) \in Nat /\ 1 .. Len(q) + 1 = (1 .. Len(q)) \cup {Len(q) + 1}
  OBVIOUS
<1> QED BY <1>1, AppendFacts DEF OneShot!HasOwn

\* What was in a queue is still there or was its first event.
LEMMA HasTail ==
  ASSUME NEW S, NEW q \in Seq(S), q # <<>>
  PROVE  OneShot!HasOwn(q) <=> OneShot!HasOwn(Tail(q)) \/ OneShot!IsOwnResults(Head(q))
<1>1. /\ Len(Tail(q)) = Len(q) - 1 /\ Len(q) \in Nat \ {0}
      /\ Head(q) = q[1] /\ \A i \in 1 .. Len(q) - 1 : Tail(q)[i] = q[i + 1]
  BY TailFacts
<1>2. \A i \in 1 .. Len(q) : i = 1 \/ (i - 1 \in 1 .. Len(q) - 1 /\ (i - 1) + 1 = i)
  BY <1>1
<1>3. \A i \in 1 .. Len(q) - 1 : i + 1 \in 1 .. Len(q) /\ 1 \in 1 .. Len(q)
  BY <1>1
<1>4. 1 \in 1 .. Len(q)
  BY <1>1
<1>5. ASSUME OneShot!HasOwn(q) PROVE OneShot!HasOwn(Tail(q)) \/ OneShot!IsOwnResults(Head(q))
  <2>1. PICK i \in 1 .. Len(q) : OneShot!IsOwnResults(q[i])
    BY <1>5 DEF OneShot!HasOwn
  <2>2. CASE i = 1
    BY <1>1, <2>1, <2>2
  <2>3. CASE i # 1
    <3>1. i - 1 \in 1 .. Len(q) - 1 /\ Tail(q)[i - 1] = q[i]
      BY <1>1, <1>2, <2>3
    <3> QED BY <1>1, <2>1, <3>1 DEF OneShot!HasOwn
  <2> QED BY <2>2, <2>3
<1>6. ASSUME OneShot!HasOwn(Tail(q)) PROVE OneShot!HasOwn(q)
  BY <1>1, <1>3, <1>6 DEF OneShot!HasOwn
<1>7. ASSUME OneShot!IsOwnResults(Head(q)) PROVE OneShot!HasOwn(q)
  BY <1>1, <1>4, <1>7 DEF OneShot!HasOwn
<1> QED BY <1>5, <1>6, <1>7

\* Another event behind the results, or one that is no acknowledgement.
LEMMA BehindAppend ==
  ASSUME NEW S, NEW q \in Seq(S), NEW e \in S, AckBehind(q), OneShot!HasOwn(q) \/ e.type # "ok"
  PROVE  AckBehind(Append(q, e))
<1>1. Len(q) \in Nat /\ 1 .. Len(q) + 1 = (1 .. Len(q)) \cup {Len(q) + 1} /\ (Len(q) + 1) - 1 = Len(q)
  OBVIOUS
<1>2. /\ Len(Append(q, e)) = Len(q) + 1 /\ Append(q, e)[Len(q) + 1] = e
      /\ \A i \in 1 .. Len(q) : Append(q, e)[i] = q[i]
  BY AppendFacts
<1>3. ASSUME NEW j \in 1 .. Len(q), q[j].type = "ok"
      PROVE  \E i \in 1 .. j - 1 : OneShot!IsOwnResults(Append(q, e)[i])
  <2>1. PICK i \in 1 .. j - 1 : OneShot!IsOwnResults(q[i])
    BY <1>3 DEF AckBehind
  <2>2. i \in 1 .. Len(q)
    BY <1>1
  <2> QED BY <1>2, <2>1, <2>2
<1>4. e.type = "ok" => \E i \in 1 .. (Len(q) + 1) - 1 : OneShot!IsOwnResults(Append(q, e)[i])
  BY <1>1, <1>2 DEF OneShot!HasOwn
<1> QED BY <1>1, <1>2, <1>3, <1>4 DEF AckBehind

\* The first event of such a queue is no acknowledgement, and the rest is such a queue
\* unless the first was the results.
LEMMA BehindTail ==
  ASSUME NEW S, NEW q \in Seq(S), q # <<>>, AckBehind(q)
  PROVE  /\ Head(q).type # "ok"
         /\ AckBehind(Tail(q)) \/ OneShot!IsOwnResults(Head(q))
<1>1. /\ Len(Tail(q)) = Len(q) - 1 /\ Len(q) \in Nat \ {0}
      /\ Head(q) = q[1] /\ \A i \in 1 .. Len(q) - 1 : Tail(q)[i] = q[i + 1]
  BY TailFacts
<1>2. Head(q).type # "ok"
  <2>1. 1 \in 1 .. Len(q) /\ ~ \E i \in 1 .. 1 - 1 : TRUE
    BY <1>1
  <2> QED BY <1>1, <2>1 DEF AckBehind
<1>3. ASSUME ~ OneShot!IsOwnResults(Head(q)), NEW j \in 1 .. Len(Tail(q)), Tail(q)[j].type = "ok"
      PROVE  \E i \in 1 .. j - 1 : OneShot!IsOwnResults(Tail(q)[i])
  <2>1. j + 1 \in 1 .. Len(q) /\ q[j + 1] = Tail(q)[j] /\ (j + 1) - 1 = j
    BY <1>1
  <2>2. PICK i \in 1 .. j : OneShot!IsOwnResults(q[i])
    BY <1>3, <2>1 DEF AckBehind
  <2>3. i # 1
    BY <1>1, <1>3, <2>2
  <2>4. i - 1 \in 1 .. j - 1 /\ i - 1 \in 1 .. Len(q) - 1 /\ (i - 1) + 1 = i
    BY <1>1, <2>3
  <2>5. Tail(q)[i - 1] = q[i]
    BY <1>1, <2>4
  <2> QED BY <2>2, <2>4, <2>5
<1> QED BY <1>2, <1>3 DEF AckBehind

\* The client's verb joins the line.
LEMMA WaitsAppend ==
  ASSUME NEW S, NEW q \in Seq(S), NEW v \in S, AtMostOnce(q), ~ Waits(q) \/ ~ IsOwn(v)
  PROVE  AtMostOnce(Append(q, v)) /\ (Waits(Append(q, v)) <=> Waits(q) \/ IsOwn(v))
<1>1. Len(q) \in Nat /\ 1 .. Len(q) + 1 = (1 .. Len(q)) \cup {Len(q) + 1}
  OBVIOUS
<1> QED BY <1>1, AppendFacts DEF Waits, AtMostOnce

\* The client's verb leaves the line when it is its first.
LEMMA WaitsTail ==
  ASSUME NEW S, NEW q \in Seq(S), q # <<>>, AtMostOnce(q)
  PROVE  /\ AtMostOnce(Tail(q)) /\ (Waits(Tail(q)) => ~ IsOwn(Head(q)))
         /\ Waits(Tail(q)) \/ IsOwn(Head(q)) => Waits(q)
<1>1. /\ Len(Tail(q)) = Len(q) - 1 /\ Len(q) \in Nat \ {0}
      /\ Head(q) = q[1] /\ \A i \in 1 .. Len(q) - 1 : Tail(q)[i] = q[i + 1]
  BY TailFacts
<1>2. \A i \in 1 .. Len(q) - 1 : i + 1 \in 1 .. Len(q) /\ i + 1 # 1
  BY <1>1
<1>3. 1 \in 1 .. Len(q)
  BY <1>1
<1>4. \A i, j \in 1 .. Len(q) - 1 : i + 1 = j + 1 => i = j
  BY <1>1
<1> QED BY <1>1, <1>2, <1>3, <1>4 DEF Waits, AtMostOnce

-----------------------------------------------------------------------------
(* Events *)

\* What each event says is so.
LEMMA EventFacts ==
  /\ BusEvents \subseteq Replies /\ Acks \subseteq Replies /\ [type |-> "tap"] \in Replies
  /\ \A e \in Replies :
       /\ e.type = "ok" => verdict \in {"done", "early"}
       /\ e.type = "error" => verdict = "refused"
       /\ e.type = "state" => e.n \in known .. changes
       /\ e.type = "results" => e.of \in {"own", "other"}
  /\ \A k \in known .. changes : [type |-> "state", n |-> k] \in BusEvents
BY DEF Replies, BusEvents, StateEvents, ResultEvents, Acks

\* More changes and a verdict leave room for what was said before.
LEMMA EventsGrow ==
  ASSUME changes \in Nat, known \in Nat, changes' \in Nat, changes <= changes', known' = known,
         verdict' = verdict \/ verdict = "none"
  PROVE  BusEvents \subseteq BusEvents' /\ Replies \subseteq Replies'
<1>1. known .. changes \subseteq known' .. changes'
  OBVIOUS
<1>2. BusEvents \subseteq BusEvents'
  BY <1>1 DEF BusEvents, StateEvents, ResultEvents
<1>3. Acks \subseteq Acks'
  BY DEF Acks
<1> QED BY <1>2, <1>3 DEF Replies

\* What is under way may stay so.
LEMMA QueuesKept ==
  ASSUME Bounded, BusEvents \subseteq BusEvents', Replies \subseteq Replies'
  PROVE  bus \in Seq(BusEvents') /\ queue \in Seq(Replies') /\ wire \in Seq(Replies')
BY SeqGrows DEF Bounded

\* What may be said stays the same while nothing is decided or changed.
LEMMA EventsKept ==
  ASSUME UNCHANGED <<known, changes, verdict>>
  PROVE  BusEvents' = BusEvents /\ Replies' = Replies
BY DEF Replies, BusEvents, StateEvents, ResultEvents, Acks

\* reply_tx.try_send: a reply that does not fit is dropped.
LEMMA ReplyStep ==
  ASSUME Bounded, NEW S, queue \in Seq(S), NEW e \in S, OneShot!Reply(e)
  PROVE  queue' \in Seq(S) /\ Len(queue') <= QueueSize /\ (OneShot!HasOwn(queue) => OneShot!HasOwn(queue'))
<1>1. \A n \in Nat : n < QueueSize => n + 1 <= QueueSize
  BY OneShotAssumption
<1>2. Len(queue) \in Nat /\ Append(queue, e) \in Seq(S) /\ Len(Append(queue, e)) = Len(queue) + 1
  BY AppendFacts
<1> QED BY <1>1, <1>2, HasAppend DEF OneShot!Reply, Bounded

-----------------------------------------------------------------------------
(* The client's steps *)

\* A client begins with nothing on its way.
LEMMA OneShotStarts == OneShot!Init => OneShotInv
<1> SUFFICES ASSUME OneShot!Init PROVE OneShotInv
  OBVIOUS
<1>1. \A S : <<>> \in Seq(S) /\ Len(<<>>) = 0
  OBVIOUS
<1>2. 0 \in 0 .. Patience /\ 0 <= QueueSize /\ 0 <= BusSize /\ 0 \in 0 .. 0
  BY OneShotAssumption
<1>3. Bounded
  BY <1>1, <1>2 DEF OneShot!Init, OneShot!Requests, Bounded
<1>4. Dated
  BY <1>2 DEF OneShot!Init, Dated, NotBehind
<1>5. Serving
  BY <1>1 DEF OneShot!Init, Serving
<1>6. ~ IsOwn(doing) /\ doing.of # "own"
  BY DEF OneShot!Init, OneShot!NoVerb, OneShot!Nobody, IsOwn
<1>7. ~ Waits(line) /\ AtMostOnce(line)
  BY DEF OneShot!Init, Waits, AtMostOnce
<1> QED BY <1>3, <1>4, <1>5, <1>6, <1>7
        DEF OneShotInv, OneShot!Init, OnePlace, OwnAnswer, OneShot!AnswerIsItsOwn, Ahead, Found, InTime

\* The client comes and asks.
LEMMA ConnectStep ==
  ASSUME OneShotInv, OneShot!Connect
  PROVE  OneShotInv'
<1> USE DEF OneShotInv, OneShot!Connect, OneShot!clientVars, OneShot!dispatcherVars, OneShot!stateVars, OneShot!counters
<1>1. Bounded'
  BY EventsKept DEF Bounded
<1>2. Dated' /\ Serving'
  BY DEF Dated, NotBehind, Serving, Verbs
<1>3. OnePlace'
  BY DEF OnePlace
<1>4. OwnAnswer' /\ Ahead' /\ InTime'
  BY DEF OnePlace, OwnAnswer, OneShot!AnswerIsItsOwn, Ahead, Found, InTime
<1> QED BY <1>1, <1>2, <1>3, <1>4

\* Its verb gets in line or is refused; nothing older than what was settled is on its way.
LEMMA AskStep ==
  ASSUME OneShotInv, OneShot!Ask
  PROVE  OneShotInv'
<1> USE DEF OneShotInv
<1>1. /\ phase = "asks" /\ phase' = "waits" /\ known' = IF OneShot!Quiet THEN changes ELSE 0
      /\ UNCHANGED <<request, outcome, spent, printed, shown, daemon, listed, queue, doing, step, mine,
                     lastState, changes, toSay, bus>>
  BY DEF OneShot!Ask, OneShot!stateVars
<1>2. verdict = "none" /\ ~ IsOwn(doing) /\ shown = 0 /\ ~ Waits(line)
  BY <1>1 DEF OnePlace
<1>3. /\ changes \in Nat /\ known' \in 0 .. changes /\ (known' = 0 \/ OneShot!Quiet)
  BY <1>1 DEF Dated
<1>4. verdict' = verdict \/ verdict = "none"
  BY <1>2
<1>5. bus \in Seq(BusEvents') /\ queue \in Seq(Replies') /\ wire \in Seq(Replies')
  <2>1. CASE known' = 0
    <3>1. known .. changes \subseteq known' .. changes'
      BY <1>1, <1>3, <2>1 DEF Dated
    <3>2. BusEvents \subseteq BusEvents'
      BY <3>1 DEF BusEvents, StateEvents, ResultEvents
    <3>3. Acks \subseteq Acks'
      BY <1>4 DEF Acks
    <3> QED BY <3>2, <3>3, QueuesKept DEF Replies
  <2>2. CASE OneShot!Quiet
    BY <2>2 DEF OneShot!Quiet
  <2> QED BY <1>3, <2>1, <2>2
<1>6. wire' \in Seq(Replies') /\ line' \in Seq(Verbs)
  <2>1. CASE daemon = "up"
    <3>1. OneShot!OwnVerb \in Verbs
      BY DEF OneShot!OwnVerb, Verbs, Bounded
    <3>2. line \in Seq(Verbs) /\ Append(line, OneShot!OwnVerb) \in Seq(Verbs)
      BY <3>1, AppendFacts DEF Serving
    <3>3. line' = Append(line, OneShot!OwnVerb) /\ wire' = wire
      BY <2>1 DEF OneShot!Ask
    <3> QED BY <1>5, <3>2, <3>3
  <2>2. CASE daemon # "up"
    <3>1. [type |-> "error"] \in Replies'
      BY <2>2 DEF OneShot!Ask, Replies, Acks
    <3>2. Append(wire, [type |-> "error"]) \in Seq(Replies')
      BY <1>5, <3>1, AppendFacts
    <3> QED BY <1>5, <2>2, <3>2 DEF OneShot!Ask, Serving
  <2> QED BY <2>1, <2>2
<1>7. Bounded'
  BY <1>1, <1>5, <1>6 DEF Bounded
<1>8. Dated'
  BY <1>1, <1>2, <1>3 DEF Dated, NotBehind, OneShot!Quiet
<1>9. Serving'
  BY <1>1, <1>6 DEF Serving, Verbs
<1>10. OnePlace'
  <2>1. CASE daemon = "up"
    <3>1. OneShot!OwnVerb \in Verbs /\ line' = Append(line, OneShot!OwnVerb) /\ verdict' = verdict
      BY <2>1 DEF OneShot!Ask, OneShot!OwnVerb, Verbs, Bounded
    <3>2. AtMostOnce(line')
      BY <1>2, <3>1, WaitsAppend DEF OnePlace, Serving
    <3> QED BY <1>1, <1>2, <3>1, <3>2 DEF OnePlace
  <2>2. CASE daemon # "up"
    BY <1>1, <1>2, <2>2 DEF OneShot!Ask, OnePlace
  <2> QED BY <2>1, <2>2
<1>11. OwnAnswer' /\ Ahead' /\ InTime'
  <2>1. verdict' # "done" /\ outcome' = "none"
    BY <1>1, <1>2 DEF OneShot!Ask, Bounded
  <2> QED BY <1>1, <1>2, <2>1 DEF OwnAnswer, OneShot!AnswerIsItsOwn, Ahead, Found, IsOwn, InTime
<1> QED BY <1>7, <1>8, <1>9, <1>10, <1>11

\* What it receives it may believe; results that are not its own it prints too.
LEMMA ReceiveStep ==
  ASSUME OneShotInv, OneShot!Receive
  PROVE  OneShotInv'
<1> USE DEF OneShotInv
<1>1. /\ phase = "waits" /\ wire # <<>> /\ spent < Patience /\ wire' = Tail(wire) /\ spent' = spent + 1
      /\ UNCHANGED <<request, daemon, listed, queue, line, doing, step, mine, verdict,
                     lastState, changes, toSay, bus, known>>
  BY DEF OneShot!Receive, OneShot!dispatcherVars, OneShot!stateVars, OneShot!counters
<1> DEFINE e == Head(wire)
<1>2. e \in Replies /\ wire' \in Seq(Replies)
  BY <1>1, TailFacts DEF Bounded
<1>3. /\ printed' = IF OneShot!Prints(e) THEN printed \union {e.of} ELSE printed
      /\ shown' = IF OneShot!Shows(e) THEN e.n ELSE shown
      /\ phase' = IF OneShot!Ends(e) THEN "over" ELSE phase
      /\ outcome' = IF OneShot!Ends(e) THEN e.type ELSE outcome
  BY DEF OneShot!Receive
<1>4. /\ e.type = "ok" => verdict \in {"done", "early"}
      /\ e.type = "error" => verdict = "refused"
      /\ e.type = "state" => e.n \in known .. changes
      /\ e.type = "results" => e.of \in {"own", "other"}
  BY <1>2, EventFacts
<1>5. OneShot!HasOwn(wire) => OneShot!HasOwn(wire') \/ OneShot!IsOwnResults(e)
  BY <1>1, HasTail DEF Bounded
<1> HIDE DEF e
<1>6. spent' \in 0 .. Patience
  <2>1. ASSUME NEW n \in 0 .. Patience, n < Patience PROVE n + 1 \in 0 .. Patience
    BY <2>1, OneShotAssumption
  <2> QED BY <1>1, <2>1 DEF Bounded
<1>7. Bounded'
  <2>1. outcome' \in {"none", "ok", "error", "printed", "noAnswer"} /\ phase' \in {"waits", "over"}
        /\ (outcome' = "none" <=> phase' # "over")
    BY <1>1, <1>3 DEF OneShot!Ends, Bounded
  <2>2. printed' \subseteq {"own", "other"}
    BY <1>3, <1>4 DEF OneShot!Prints, Bounded
  <2> QED BY <1>1, <1>2, <1>6, <2>1, <2>2, EventsKept DEF Bounded
<1>8. Dated'
  BY <1>1, <1>3, <1>4 DEF Dated, NotBehind, OneShot!Shows
<1>9. Serving' /\ OnePlace'
  BY <1>1, <1>3 DEF Serving, Verbs, OnePlace
<1>10. OwnAnswer'
  BY <1>1, <1>3, <1>4 DEF OwnAnswer, OneShot!AnswerIsItsOwn, OneShot!Ends
<1>11. Ahead'
  BY <1>1, <1>3, <1>5 DEF Ahead, Found, OneShot!Prints, OneShot!IsOwnResults
<1>12. InTime'
  <2> SUFFICES ASSUME request = "search", verdict = "done", listed, "own" \notin printed'
               PROVE  outcome' # "ok" /\ AckBehind(wire') /\ (OneShot!HasOwn(wire') \/ AckBehind(queue))
    BY <1>1 DEF InTime
  <2>1. "own" \notin printed /\ ~ OneShot!IsOwnResults(e)
    BY <1>3 DEF OneShot!Prints, OneShot!IsOwnResults
  <2>2. outcome # "ok" /\ AckBehind(wire) /\ (OneShot!HasOwn(wire) \/ AckBehind(queue))
    BY <2>1 DEF InTime
  <2>3. e.type # "ok" /\ AckBehind(wire')
    BY <1>1, <2>1, <2>2, BehindTail DEF Bounded, e
  <2> QED BY <1>3, <1>5, <2>1, <2>2, <2>3
<1> QED BY <1>7, <1>8, <1>9, <1>10, <1>11, <1>12

\* Silence and giving up tell it nothing.
LEMMA SilenceStep ==
  ASSUME OneShotInv, OneShot!Silence \/ OneShot!RunsOut
  PROVE  OneShotInv'
<1> USE DEF OneShotInv
<1>1. /\ phase = "waits" /\ phase' \in {"waits", "over"}
      /\ outcome' \in {"none", "printed", "noAnswer"} /\ (outcome' = "none" <=> phase' # "over")
      /\ UNCHANGED <<request, printed, shown, wire, daemon, listed, queue, line, doing, step, mine, verdict,
                     lastState, changes, toSay, bus, known>>
  BY DEF OneShot!Silence, OneShot!RunsOut, Bounded, OneShot!dispatcherVars, OneShot!stateVars, OneShot!counters
<1>2. spent' \in 0 .. Patience
  <2>1. ASSUME NEW n \in 0 .. Patience, n < Patience PROVE n + 1 \in 0 .. Patience /\ Patience \in 0 .. Patience
    BY <2>1, OneShotAssumption
  <2> QED BY <2>1 DEF OneShot!Silence, OneShot!RunsOut, Bounded
<1>3. Bounded'
  BY <1>1, <1>2, EventsKept DEF Bounded
<1>4. Dated' /\ Serving' /\ OnePlace'
  BY <1>1 DEF Dated, NotBehind, Serving, Verbs, OnePlace
<1>5. OwnAnswer' /\ Ahead' /\ InTime'
  BY <1>1 DEF OwnAnswer, OneShot!AnswerIsItsOwn, Ahead, Found, InTime
<1> QED BY <1>3, <1>4, <1>5

-----------------------------------------------------------------------------
(* The dispatcher's steps *)

\* It serves the line in turn.
LEMMA TakeStep ==
  ASSUME OneShotInv, OneShot!Take
  PROVE  OneShotInv'
<1> USE DEF OneShotInv
<1>1. /\ line # <<>> /\ step = "idle" /\ doing' = Head(line) /\ line' = Tail(line)
      /\ step' \in {"refuse", "start"}
      /\ UNCHANGED <<request, phase, outcome, spent, printed, shown, wire, daemon, listed, queue, mine,
                     verdict, lastState, changes, toSay, bus, known>>
  BY DEF OneShot!Take, OneShot!clientVars, OneShot!stateVars
<1>2. doing' \in Verbs /\ line' \in Seq(Verbs)
  BY <1>1, TailFacts DEF Serving
<1>3. /\ AtMostOnce(line') /\ (Waits(line') => ~ IsOwn(doing'))
      /\ Waits(line') \/ IsOwn(doing') => Waits(line)
  BY <1>1, WaitsTail DEF Serving, OnePlace
<1>4. Bounded'
  BY <1>1, EventsKept DEF Bounded
<1>5. Dated' /\ Serving'
  BY <1>1, <1>2 DEF Dated, NotBehind, Serving, Verbs
<1>6. OnePlace'
  BY <1>1, <1>3 DEF OnePlace
<1>7. OwnAnswer' /\ Ahead' /\ InTime'
  BY <1>1 DEF OwnAnswer, OneShot!AnswerIsItsOwn, Ahead, Found, InTime
<1> QED BY <1>4, <1>5, <1>6, <1>7

\* It answers, and so decides: an acknowledgement says what the verdict does, and that of
\* the client's own search comes after its results.
LEMMA AnswerStep ==
  ASSUME OneShotInv, NEW type \in {"ok", "error"}, OneShot!Reply([type |-> type]),
         doing \in Verbs, doing' = OneShot!NoVerb, step' \in {"idle", "returned"},
         OneShot!Passed(OneShot!VerdictOf(type)), type = "ok" => step = "answer" /\ daemon # "gone",
         UNCHANGED <<request, phase, outcome, spent, printed, shown, wire, daemon, listed, line, mine,
                     lastState, changes, toSay, bus, known>>
  PROVE  OneShotInv'
<1> USE DEF OneShotInv
<1>1. IsOwn(doing) => verdict = "none" /\ phase \notin {"away", "asks"} /\ ~ Waits(line)
  BY DEF OnePlace
<1>2. /\ ~ IsOwn(doing) => verdict' = verdict
      /\ IsOwn(doing) /\ type = "error" => verdict' = "refused"
      /\ IsOwn(doing) /\ type = "ok" => verdict' = IF OneShot!HasOwn(bus) THEN "early" ELSE "done"
  BY DEF OneShot!Passed, OneShot!VerdictOf, IsOwn
<1>3. BusEvents \subseteq BusEvents' /\ Replies \subseteq Replies'
  BY <1>1, <1>2, EventsGrow DEF Dated
<1>4. bus' \in Seq(BusEvents') /\ queue \in Seq(Replies') /\ wire' \in Seq(Replies')
  BY <1>3, QueuesKept
<1>5. queue' \in Seq(Replies') /\ Len(queue') <= QueueSize /\ (OneShot!HasOwn(queue) => OneShot!HasOwn(queue'))
  <2>1. CASE IsOwn(doing)
    <3>1. [type |-> type] \in Replies'
      BY <1>2, <2>1 DEF Replies, Acks
    <3> QED BY <1>4, <3>1, ReplyStep
  <2>2. CASE ~ IsOwn(doing)
    BY <1>4, <2>2 DEF OneShot!Reply, IsOwn, Bounded
  <2> QED BY <2>1, <2>2
<1>6. Bounded'
  BY <1>4, <1>5 DEF Bounded
<1>7. Dated' /\ Serving'
  BY DEF Dated, NotBehind, Serving, Verbs
<1>8. ~ IsOwn(doing')
  BY DEF IsOwn, OneShot!NoVerb, OneShot!Nobody
<1>9. OnePlace'
  BY <1>1, <1>2, <1>8 DEF OnePlace
<1>10. OwnAnswer'
  <2>1. outcome = "ok" => verdict \in {"done", "early"}
    BY DEF OwnAnswer, OneShot!AnswerIsItsOwn
  <2>2. outcome = "error" => verdict = "refused"
    BY DEF OwnAnswer, OneShot!AnswerIsItsOwn
  <2> QED BY <1>1, <1>2, <2>1, <2>2 DEF OwnAnswer, OneShot!AnswerIsItsOwn
<1>11. Ahead'
  BY <1>8 DEF Ahead, Found
<1>12. InTime'
  <2>1. CASE ~ IsOwn(doing)
    <3>1. queue' = queue /\ verdict' = verdict
      BY <1>2, <2>1 DEF OneShot!Reply, IsOwn
    <3> QED BY <3>1 DEF InTime
  <2>2. CASE IsOwn(doing)
    <3> SUFFICES ASSUME request = "search", verdict' = "done", listed, "own" \notin printed
                 PROVE  outcome # "ok" /\ AckBehind(wire) /\ (OneShot!HasOwn(wire) \/ AckBehind(queue'))
      BY DEF InTime
    <3>1. type = "ok" /\ ~ OneShot!HasOwn(bus) /\ verdict = "none"
      BY <1>1, <1>2, <2>2
    <3>2. OneShot!HasOwn(queue) \/ OneShot!HasOwn(wire)
      BY <2>2, <3>1 DEF Ahead, Found
    <3>3. \A a \in Replies : a.type # "ok"
      BY <3>1, EventFacts
    <3>4. \A q \in Seq(Replies) : AckBehind(q)
      BY <3>3 DEF AckBehind
    <3>5. outcome # "ok" /\ AckBehind(wire) /\ AckBehind(queue)
      BY <3>1, <3>4 DEF Bounded, OwnAnswer, OneShot!AnswerIsItsOwn
    <3>6. OneShot!HasOwn(queue) => AckBehind(queue')
      <4>1. [type |-> type] \in Replies'
        BY <1>2, <2>2 DEF Replies, Acks
      <4> QED BY <1>4, <3>5, <4>1, BehindAppend DEF OneShot!Reply
    <3> QED BY <3>2, <3>5, <3>6
  <2> QED BY <2>1, <2>2
<1> QED BY <1>6, <1>7, <1>9, <1>10, <1>11, <1>12

\* The steps on the way to the answer change nothing but the pipe: no verdict, and no
\* verb goes anywhere.
LEMMA PipeStep ==
  ASSUME OneShotInv, Bounded', Dated', Serving', InTime',
         UNCHANGED <<request, phase, outcome, printed, shown, doing, verdict>>,
         daemon' # "gone" => daemon # "gone", AtMostOnce(line'), Waits(line') => Waits(line),
         listed' => listed, Found' => Found \/ (request = "search" => OneShot!HasOwn(bus')),
         OneShot!HasOwn(bus) \/ OneShot!HasOwn(queue) \/ OneShot!HasOwn(wire) =>
           OneShot!HasOwn(bus') \/ OneShot!HasOwn(queue') \/ OneShot!HasOwn(wire') \/ ~ listed' \/ daemon' = "gone"
  PROVE  OneShotInv'
<1> USE DEF OneShotInv
<1>1. OnePlace'
  BY DEF OnePlace
<1>2. OwnAnswer'
  BY DEF OwnAnswer, OneShot!AnswerIsItsOwn
<1>3. Ahead'
  BY DEF Ahead
<1> QED BY <1>1, <1>2, <1>3

\* Nothing but the daemon's state changes.
LEMMA StoreStep ==
  ASSUME OneShotInv, OneShot!Store \/ OneShot!SourceStores
  PROVE  OneShotInv'
<1> USE DEF OneShotInv
<1>1. /\ changes' = changes + 1 /\ lastState' = changes'
      /\ mine' \in {mine, changes'} /\ toSay' \in {toSay, changes'}
      /\ step' = step \/ (step' = "send" /\ doing.verb = "play" /\ step = "start" /\ mine' = changes')
      /\ UNCHANGED <<request, phase, outcome, spent, printed, shown, wire, daemon, listed, queue, line,
                     doing, verdict, bus, known>>
  BY DEF OneShot!Store, OneShot!SourceStores, OneShot!clientVars, OneShot!dispatcherVars
<1>2. /\ changes' \in Nat /\ changes' # 0 /\ changes <= changes' /\ changes \in Nat
      /\ known .. changes \subseteq known .. changes' /\ 0 .. changes \subseteq 0 .. changes'
      /\ changes' \in known .. changes' /\ known \in Nat
  <2>1. ASSUME NEW n \in Nat, NEW k \in 0 .. n, NEW m, m = n + 1
        PROVE  /\ m \in Nat /\ m # 0 /\ n <= m /\ k .. n \subseteq k .. m /\ 0 .. n \subseteq 0 .. m
               /\ m \in k .. m /\ k \in Nat
    BY <2>1
  <2> QED BY <1>1, <2>1 DEF Dated
<1>3. BusEvents \subseteq BusEvents' /\ Replies \subseteq Replies'
  BY <1>1, <1>2, EventsGrow
<1>4. Bounded'
  BY <1>1, <1>3, QueuesKept DEF Bounded
<1>5. Dated'
  BY <1>1, <1>2 DEF Dated, NotBehind
<1>6. Serving'
  BY <1>1 DEF Serving, Verbs, OneShot!NoVerb
<1>7. (Found' => Found) /\ InTime'
  BY <1>1 DEF Found, InTime
<1> QED BY <1>1, <1>4, <1>5, <1>6, <1>7, PipeStep DEF OnePlace

\* A state or results go into the event channel.
LEMMA BusStep ==
  ASSUME OneShotInv, OneShot!Send \/ OneShot!SourceSends \/ OneShot!Find
  PROVE  OneShotInv'
<1> USE DEF OneShotInv
<1>1. /\ Len(bus) < BusSize
      /\ mine' \in {mine, 0} /\ toSay' \in {toSay, 0}
      /\ UNCHANGED <<request, phase, outcome, spent, printed, shown, wire, daemon, listed, queue, line,
                     doing, verdict, lastState, changes, known>>
  BY DEF OneShot!Send, OneShot!SourceSends, OneShot!Find, OneShot!clientVars, OneShot!dispatcherVars, OneShot!stateVars
<1>2. PICK e \in BusEvents :
        /\ bus' = Append(bus, e)
        /\ \/ step' = step /\ mine' = mine
           \/ step' = "answer" /\ doing \in Verbs /\ doing.verb # "search" /\ step = "send"
           \/ step' = "answer" /\ doing \in Verbs /\ step = "start" /\ (IsOwn(doing) => OneShot!IsOwnResults(e))
  <2>1. CASE OneShot!Send
    <3>1. mine # 0 /\ mine \in known .. changes
      BY <2>1 DEF OneShot!Send, Dated, NotBehind
    <3> QED BY <2>1, <3>1, EventFacts DEF OneShot!Send, Serving
  <2>2. CASE OneShot!SourceSends
    <3>1. toSay # 0 /\ toSay \in known .. changes
      BY <2>2 DEF OneShot!SourceSends, Dated, NotBehind
    <3> QED BY <2>2, <3>1, EventFacts DEF OneShot!SourceSends, OneShot!dispatcherVars
  <2>3. CASE OneShot!Find
    <3>1. doing \in Verbs /\ doing.of \in {"own", "other"}
      BY <2>3 DEF OneShot!Find, Serving, Verbs
    <3>2. OneShot!WebApiAnswer \in BusEvents
      BY <3>1 DEF OneShot!WebApiAnswer, BusEvents, ResultEvents
    <3>3. IsOwn(doing) => OneShot!IsOwnResults(OneShot!WebApiAnswer)
      BY DEF IsOwn, OneShot!IsOwnResults, OneShot!WebApiAnswer
    <3> QED BY <2>3, <3>1, <3>2, <3>3 DEF OneShot!Find
  <2> QED BY <2>1, <2>2, <2>3
<1>3. bus' \in Seq(BusEvents) /\ Len(bus') <= BusSize
  <2>1. Len(bus) \in Nat /\ bus \in Seq(BusEvents) /\ Append(bus, e) \in Seq(BusEvents) /\ Len(Append(bus, e)) = Len(bus) + 1
    BY AppendFacts DEF Bounded
  <2>2. \A n \in Nat : n < BusSize => n + 1 <= BusSize
    BY OneShotAssumption
  <2> QED BY <1>1, <1>2, <2>1, <2>2
<1>4. OneShot!HasOwn(bus') <=> OneShot!HasOwn(bus) \/ OneShot!IsOwnResults(e)
  BY <1>2, HasAppend DEF Bounded
<1>5. Bounded'
  BY <1>1, <1>3, EventsKept DEF Bounded
<1>6. Dated'
  BY <1>1, <1>2 DEF Dated, NotBehind
<1>7. Serving'
  BY <1>1, <1>2 DEF Serving, Verbs, OneShot!NoVerb
<1>8. Found' => Found \/ (request = "search" => OneShot!HasOwn(bus'))
  BY <1>1, <1>2, <1>4 DEF Found, IsOwn, Verbs
<1>9. InTime'
  BY <1>1 DEF InTime
<1> QED BY <1>1, <1>4, <1>5, <1>6, <1>7, <1>8, <1>9, PipeStep DEF OnePlace

\* `status` is told the state and the ring's name.
LEMMA TellStep ==
  ASSUME OneShotInv, OneShot!TellState \/ OneShot!TellTap
  PROVE  OneShotInv'
<1> USE DEF OneShotInv
<1>1. /\ doing \in Verbs /\ doing.verb = "status"
      /\ step' \in {"tap", "answer"} /\ step # "send"
      /\ UNCHANGED <<request, phase, outcome, spent, printed, shown, wire, daemon, listed, line, doing, mine,
                     verdict, lastState, changes, toSay, bus, known>>
  BY DEF OneShot!TellState, OneShot!TellTap, Serving, OneShot!clientVars, OneShot!stateVars
<1>2. queue' = queue \/ \E e \in Replies : OneShot!Reply(e)
  <2>1. lastState \in known .. changes
    BY DEF Dated
  <2>2. [type |-> "state", n |-> lastState] \in Replies /\ [type |-> "tap"] \in Replies
    BY <2>1, EventFacts
  <2> QED BY <2>2 DEF OneShot!TellState, OneShot!TellTap
<1>3. queue' \in Seq(Replies) /\ Len(queue') <= QueueSize /\ (OneShot!HasOwn(queue) => OneShot!HasOwn(queue'))
  BY <1>2, ReplyStep DEF Bounded
<1>4. Bounded'
  BY <1>1, <1>3, EventsKept DEF Bounded
<1>5. Dated' /\ Serving'
  BY <1>1 DEF Dated, NotBehind, Serving, Verbs
<1>6. Found' => Found \/ request # "search"
  BY <1>1 DEF Found, IsOwn, Verbs
<1>7. InTime'
  <2>1. doing.of = "own" => request # "search"
    BY <1>1 DEF Verbs
  <2>2. doing.of # "own" => queue' = queue
    BY <1>2 DEF OneShot!Reply
  <2> QED BY <1>1, <2>1, <2>2 DEF InTime
<1> QED BY <1>1, <1>3, <1>4, <1>5, <1>6, <1>7, PipeStep DEF OnePlace

-----------------------------------------------------------------------------
(* The rest of the daemon *)

\* What leaves the event channel reaches the client's queue, or the client is off the list.
LEMMA BroadcastStep ==
  ASSUME OneShotInv, OneShot!Broadcast
  PROVE  OneShotInv'
<1> USE DEF OneShotInv
<1>1. /\ bus # <<>> /\ bus' = Tail(bus)
      /\ UNCHANGED <<request, phase, outcome, spent, printed, shown, wire, daemon, line, doing, step, mine,
                     verdict, lastState, changes, toSay, known>>
  BY DEF OneShot!Broadcast, OneShot!clientVars, OneShot!dispatcherVars, OneShot!stateVars
<1>2. Head(bus) \in Replies /\ bus' \in Seq(BusEvents) /\ Len(bus') <= BusSize
  <2>1. /\ Head(bus) \in BusEvents /\ Tail(bus) \in Seq(BusEvents)
        /\ Len(Tail(bus)) = Len(bus) - 1 /\ Len(bus) \in Nat
    BY <1>1, TailFacts DEF Bounded
  <2>2. \A n \in Nat : n <= BusSize => n - 1 <= BusSize
    BY OneShotAssumption
  <2> QED BY <1>1, <2>1, <2>2, EventFacts DEF Bounded
<1>3. OneShot!HasOwn(bus) => OneShot!HasOwn(bus') \/ OneShot!IsOwnResults(Head(bus))
  BY <1>1, HasTail DEF Bounded
<1>4. \/ queue' = Append(queue, Head(bus)) /\ Len(queue) < QueueSize /\ listed' = listed
      \/ queue' = queue /\ listed' = FALSE
  BY DEF OneShot!Broadcast, Bounded
<1>5. /\ queue' \in Seq(Replies) /\ Len(queue') <= QueueSize
      /\ OneShot!HasOwn(queue) \/ OneShot!IsOwnResults(Head(bus)) => OneShot!HasOwn(queue') \/ ~ listed'
  <2>1. CASE queue' = Append(queue, Head(bus)) /\ Len(queue) < QueueSize /\ listed' = listed
    <3>1. /\ Len(queue) \in Nat /\ Append(queue, Head(bus)) \in Seq(Replies)
          /\ Len(Append(queue, Head(bus))) = Len(queue) + 1
      BY <1>2, AppendFacts DEF Bounded
    <3>2. \A n \in Nat : n < QueueSize => n + 1 <= QueueSize
      BY OneShotAssumption
    <3>3. OneShot!HasOwn(Append(queue, Head(bus))) <=> OneShot!HasOwn(queue) \/ OneShot!IsOwnResults(Head(bus))
      BY <1>2, HasAppend DEF Bounded
    <3> QED BY <2>1, <3>1, <3>2, <3>3
  <2>2. CASE queue' = queue /\ listed' = FALSE
    BY <2>2 DEF Bounded
  <2> QED BY <1>4, <2>1, <2>2
<1>6. Bounded'
  BY <1>1, <1>2, <1>4, <1>5, EventsKept DEF Bounded
<1>7. Dated' /\ Serving'
  BY <1>1 DEF Dated, NotBehind, Serving, Verbs
<1>8. Found' => Found
  BY <1>1 DEF Found
<1>9. listed' => listed
  BY <1>4
<1>10. InTime'
  <2>1. Head(bus).type # "ok"
    <3>1. Head(bus) \in BusEvents
      BY <1>1, TailFacts DEF Bounded
    <3> QED BY <3>1 DEF BusEvents, StateEvents, ResultEvents
  <2>2. AckBehind(queue) => AckBehind(queue')
    BY <1>2, <1>4, <2>1, BehindAppend DEF Bounded
  <2> QED BY <1>1, <1>9, <2>2 DEF InTime
<1> QED BY <1>1, <1>3, <1>5, <1>6, <1>7, <1>8, <1>9, <1>10, PipeStep DEF OnePlace

\* The writer moves an event on.
LEMMA WriteStep ==
  ASSUME OneShotInv, OneShot!Write
  PROVE  OneShotInv'
<1> USE DEF OneShotInv
<1>1. /\ queue # <<>> /\ queue' = Tail(queue) /\ wire' = Append(wire, Head(queue))
      /\ UNCHANGED <<request, phase, outcome, spent, printed, shown, bus, daemon, listed, line, doing, step, mine,
                     verdict, lastState, changes, toSay, known>>
  BY DEF OneShot!Write, OneShot!clientVars, OneShot!dispatcherVars, OneShot!stateVars
<1>2. Head(queue) \in Replies /\ queue' \in Seq(Replies) /\ Len(queue') <= QueueSize
  <2>1. /\ Head(queue) \in Replies /\ Tail(queue) \in Seq(Replies)
        /\ Len(Tail(queue)) = Len(queue) - 1 /\ Len(queue) \in Nat
    BY <1>1, TailFacts DEF Bounded
  <2>2. \A n \in Nat : n <= QueueSize => n - 1 <= QueueSize
    BY OneShotAssumption
  <2> QED BY <1>1, <2>1, <2>2 DEF Bounded
<1>3. Append(wire, Head(queue)) \in Seq(Replies)
  BY <1>2, AppendFacts DEF Bounded
<1>4. OneShot!HasOwn(queue) => OneShot!HasOwn(queue') \/ OneShot!IsOwnResults(Head(queue))
  BY <1>1, HasTail DEF Bounded
<1>5. OneShot!HasOwn(wire') <=> OneShot!HasOwn(wire) \/ OneShot!IsOwnResults(Head(queue))
  BY <1>1, <1>2, HasAppend DEF Bounded
<1>6. Bounded'
  BY <1>1, <1>2, <1>3, EventsKept DEF Bounded
<1>7. Dated' /\ Serving'
  BY <1>1 DEF Dated, NotBehind, Serving, Verbs
<1>8. Found' => Found
  BY <1>1 DEF Found
<1>9. InTime'
  <2> SUFFICES ASSUME request = "search", verdict = "done", listed, "own" \notin printed
               PROVE  outcome # "ok" /\ AckBehind(wire') /\ (OneShot!HasOwn(wire') \/ AckBehind(queue'))
    BY <1>1 DEF InTime
  <2>1. outcome # "ok" /\ AckBehind(wire) /\ (OneShot!HasOwn(wire) \/ AckBehind(queue))
    BY DEF InTime
  <2>2. CASE OneShot!HasOwn(wire)
    BY <1>1, <1>2, <1>5, <2>1, <2>2, BehindAppend DEF Bounded
  <2>3. CASE AckBehind(queue)
    <3>1. Head(queue).type # "ok" /\ (AckBehind(queue') \/ OneShot!IsOwnResults(Head(queue)))
      BY <1>1, <2>3, BehindTail DEF Bounded
    <3>2. AckBehind(wire')
      BY <1>1, <1>2, <2>1, <3>1, BehindAppend DEF Bounded
    <3> QED BY <1>5, <2>1, <3>1, <3>2
  <2> QED BY <2>1, <2>2, <2>3
<1> QED BY <1>1, <1>4, <1>5, <1>6, <1>7, <1>8, <1>9, PipeStep DEF OnePlace

\* Other clients' verbs join the line; the daemon stops.
LEMMA OtherStep ==
  ASSUME OneShotInv, OneShot!Other \/ OneShot!Stopping \/ OneShot!Gone
  PROVE  OneShotInv'
<1> USE DEF OneShotInv
<1>1. /\ daemon' \in {"up", "stopping", "gone"} /\ (daemon' # "gone" => daemon # "gone")
      /\ UNCHANGED <<request, phase, outcome, spent, printed, shown, wire, listed, queue, bus, doing, step, mine,
                     verdict, lastState, changes, toSay, known>>
  BY DEF OneShot!Other, OneShot!Stopping, OneShot!Gone, OneShot!clientVars, OneShot!dispatcherVars,
         OneShot!stateVars, OneShot!counters, Bounded
<1>2. line' = line \/ \E v \in {"play", "search"} : line' = Append(line, [of |-> "other", verb |-> v])
  BY DEF OneShot!Other, OneShot!Stopping, OneShot!Gone
<1>3. line' \in Seq(Verbs) /\ AtMostOnce(line') /\ (Waits(line') => Waits(line))
  <2>1. ASSUME NEW v \in {"play", "search"}, line' = Append(line, [of |-> "other", verb |-> v])
        PROVE  line' \in Seq(Verbs) /\ AtMostOnce(line') /\ (Waits(line') => Waits(line))
    <3>1. [of |-> "other", verb |-> v] \in Verbs /\ ~ IsOwn([of |-> "other", verb |-> v])
      BY DEF Verbs, IsOwn
    <3>2. Append(line, [of |-> "other", verb |-> v]) \in Seq(Verbs)
      BY <3>1, AppendFacts DEF Serving
    <3> QED BY <2>1, <3>1, <3>2, WaitsAppend DEF Serving, OnePlace
  <2> QED BY <1>2, <2>1 DEF Serving, OnePlace
<1>4. Bounded'
  BY <1>1, EventsKept DEF Bounded
<1>5. Dated' /\ Serving'
  BY <1>1, <1>3 DEF Dated, NotBehind, Serving, Verbs
<1>6. (Found' => Found) /\ InTime'
  BY <1>1 DEF Found, InTime
<1> QED BY <1>1, <1>3, <1>4, <1>5, <1>6, PipeStep

-----------------------------------------------------------------------------

\* Every step of the dispatcher keeps the invariant.
LEMMA DispatcherStep ==
  ASSUME OneShotInv, OneShot!Dispatcher
  PROVE  OneShotInv'
<1>1. CASE OneShot!Refuse
  <2>1. doing \in Verbs
    BY <1>1 DEF OneShot!Refuse, OneShotInv, Serving
  <2> QED BY <1>1, <2>1, AnswerStep DEF OneShot!Refuse, OneShot!VerdictOf, OneShot!clientVars, OneShot!stateVars
<1>2. CASE OneShot!FindFails
  <2>1. doing \in Verbs
    BY <1>2 DEF OneShot!FindFails, OneShotInv, Serving
  <2> QED BY <1>2, <2>1, AnswerStep DEF OneShot!FindFails, OneShot!Answered, OneShot!clientVars, OneShot!stateVars
<1>3. CASE OneShot!Acknowledge
  <2>1. doing \in Verbs
    BY <1>3 DEF OneShot!Acknowledge, OneShotInv, Serving
  <2> QED BY <1>3, <2>1, AnswerStep DEF OneShot!Acknowledge, OneShot!Answered, OneShot!clientVars, OneShot!stateVars
<1> QED BY <1>1, <1>2, <1>3, TakeStep, StoreStep, BusStep, TellStep DEF OneShot!Dispatcher

\* So does every step of client and daemon.
LEMMA OneShotStep == OneShotInv /\ [OneShot!Next]_(OneShot!vars) => OneShotInv'
<1> SUFFICES ASSUME OneShotInv, [OneShot!Next]_(OneShot!vars) PROVE OneShotInv'
  OBVIOUS
<1>1. CASE OneShot!Next
  BY <1>1, ConnectStep, AskStep, ReceiveStep, SilenceStep, DispatcherStep, BroadcastStep, WriteStep, StoreStep,
     BusStep, OtherStep
     DEF OneShot!Next, OneShot!Attempt, OneShot!Daemon
<1>2. CASE UNCHANGED OneShot!vars
  <2>1. Bounded'
    BY <1>2, EventsKept DEF OneShotInv, Bounded, OneShot!vars, OneShot!clientVars, OneShot!dispatcherVars,
                            OneShot!stateVars
  <2>2. Dated' /\ Serving' /\ OnePlace' /\ OwnAnswer' /\ Ahead' /\ InTime'
    BY <1>2 DEF OneShotInv, Dated, NotBehind, Serving, Verbs, OnePlace, OwnAnswer, OneShot!AnswerIsItsOwn, Ahead,
                Found, InTime, OneShot!vars, OneShot!clientVars, OneShot!dispatcherVars, OneShot!stateVars
  <2> QED BY <2>1, <2>2 DEF OneShotInv
<1> QED BY <1>1, <1>2

\* The invariant holds whatever the patience, the queues and the other clients.
THEOREM OneShotInvariance == OneShot!Spec => []OneShotInv
BY OneShotStarts, OneShotStep, PTL DEF OneShot!Spec

\* headless.rs takes any CommandResult: what the client reports is what became of its own
\* verb; and results that have left the event channel when dispatch_search acknowledges
\* them are printed.
THEOREM AnswerIsWholeHolds == OneShot!Spec => []AnswerIsWhole
<1>1. OneShotInv => AnswerIsWhole
  <2> SUFFICES ASSUME OneShotInv PROVE AnswerIsWhole
    OBVIOUS
  <2> USE DEF OneShotInv
  <2>1. OneShot!AttemptTypeOK
    <3>1. {shown, lastState, toSay, mine} \subseteq 0 .. changes
      BY DEF Dated, NotBehind
    <3>2. (step \in {"idle", "returned"}) = (doing = OneShot!NoVerb)
      BY DEF Serving, Verbs, OneShot!NoVerb, OneShot!Nobody
    <3>3. (outcome = "none") = (phase # "over")
      BY DEF Bounded
    <3> QED BY <3>1, <3>2, <3>3 DEF Bounded, OneShot!AttemptTypeOK, OneShot!Requests, OneShot!Owners
  <2>2. OneShot!ResultsAreAhead
    BY DEF InTime, OwnAnswer, OneShot!AnswerIsItsOwn, OneShot!ResultsAreAhead
  <2> QED BY <2>1, <2>2 DEF AnswerIsWhole, OneShot!AnswerIsWhole, OwnAnswer
<1> QED BY <1>1, OneShotInvariance, PTL

\* send_state and Verb::Play store before they send: `status` shows no state older than
\* the one the daemon had settled when it was asked.
THEOREM StatusIsRecentHolds == OneShot!Spec => []StatusIsRecent
<1>1. OneShotInv => StatusIsRecent
  BY DEF OneShotInv, Dated, NotBehind, StatusIsRecent, OneShot!StatusIsRecent
<1> QED BY <1>1, OneShotInvariance, PTL
=============================================================================
