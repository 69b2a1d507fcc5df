------------------------------ MODULE Headless ------------------------------
(***************************************************************************)
(* A one-shot client (`clitunes play`, `clitunes search ...`, `clitunes    *)
(* status`) and the parts of the daemon its answer comes through.          *)
(*                                                                         *)
(*   client        sends one verb and reads events until its answer        *)
(*                 (headless.rs, status_json.rs)                           *)
(*   dispatcher    serves the verbs of all clients in turn (event_loop.rs) *)
(*   broadcast     copies the daemon's events to every client (server.rs)  *)
(*   source thread says what it plays                                      *)
(*                                                                         *)
(* Replies go straight to the client's queue, events by way of the event   *)
(* channel, so the one may overtake the other.  The queue is bounded: a    *)
(* reply that does not fit is dropped, an event that does not fit takes    *)
(* the client off the list.  A change of the playback state is a number,   *)
(* counted up; 0 is none.                                                  *)
(***************************************************************************)
EXTENDS Integers, Sequences

CONSTANTS
  Patience,  \* how many events and silences of 100 ms the client sits through
  QueueSize, \* CLIENT_EVENT_CAPACITY
  BusSize,   \* of the event channel
  MaxOthers, \* bound on the verbs of other clients
  MaxNews    \* bound on what the source thread says

VARIABLES
  request,    \* the client's verb
  phase, outcome,  \* of the client, and how it ended
  spent,      \* how much of its patience
  printed,    \* whose results it has printed
  shown,      \* the state that `status` would print
  wire,       \* what has reached the client
  daemon,     \* "up", "stopping", "gone"
  listed,     \* the client is on the broadcast's list
  queue,      \* its queue
  line,       \* the verbs that wait for the dispatcher
  doing, step,     \* the dispatcher's verb, and how far it is with it
  lastState,  \* what the daemon holds as its state
  changes,    \* how many changes of state there were
  toSay,      \* a change the source thread has stored and not yet sent
  mine,       \* the change the dispatcher has stored and not yet sent
  bus,        \* the event channel
  verdict,    \* (history) what the dispatcher did about the client's verb
  known,      \* (history) the changes made when the client asked, if none was on its way
  others, news     \* counted against the bounds

clientVars == <<request, phase, outcome, spent, printed, shown>>
dispatcherVars == <<doing, step, mine, verdict>>
stateVars == <<lastState, changes, toSay>>
counters == <<others, news>>
vars == <<clientVars, wire, daemon, listed, queue, line, dispatcherVars, stateVars, bus, known, counters>>

Requests == {"play", "search", "status"}
Owners == {"own", "other"}
Nobody == "nobody"
OwnVerb == [of |-> "own", verb |-> request]
NoVerb == [of |-> Nobody, verb |-> Nobody]

Init ==
  /\ request \in Requests /\ phase = "away" /\ outcome = "none"
  /\ spent = 0 /\ printed = {} /\ shown = 0
  /\ wire = <<>> /\ daemon = "up" /\ listed = FALSE /\ queue = <<>>
  /\ line = <<>> /\ doing = NoVerb /\ step = "idle" /\ mine = 0 /\ verdict = "none"
  /\ lastState = 0 /\ changes = 0 /\ toSay = 0 /\ bus = <<>>
  /\ known = 0 /\ others = 0 /\ news = 0

-----------------------------------------------------------------------------
(* The client.                                                            *)

Quiet == bus = <<>> /\ queue = <<>> /\ wire = <<>> /\ toSay = 0 /\ mine = 0

\* The handshake puts the client on the broadcast's list.
Connect ==
  /\ phase = "away" /\ daemon # "gone"
  /\ phase' = "asks" /\ listed' = TRUE
  /\ UNCHANGED <<request, outcome, spent, printed, shown, wire, daemon, queue, line, dispatcherVars,
                 stateVars, bus, known, counters>>

\* Its connection task puts the verb in line; a daemon that takes none any more
\* refuses it, if the refusal gets out before the connection closes.
Ask ==
  /\ phase = "asks"
  /\ phase' = "waits"
  /\ known' = IF Quiet THEN changes ELSE 0
  /\ IF daemon = "up"
     THEN line' = Append(line, OwnVerb) /\ UNCHANGED <<wire, verdict>>
     ELSE /\ wire' \in {wire, Append(wire, [type |-> "error"])}
          /\ verdict' = "refused"
          /\ UNCHANGED line
  /\ UNCHANGED <<request, outcome, spent, printed, shown, daemon, listed, queue, doing, step, mine,
                 stateVars, bus, counters>>

\* What the client makes of an event: it may be its answer, results or a state.
Ends(e) == e.type \in {"ok", "error"}
Prints(e) == e.type = "results" /\ request = "search"
Shows(e) == e.type = "state" /\ request = "status"

Receive ==
  /\ phase = "waits" /\ wire # <<>> /\ spent < Patience
  /\ LET e == Head(wire) IN
     /\ printed' = IF Prints(e) THEN printed \union {e.of} ELSE printed
     /\ shown' = IF Shows(e) THEN e.n ELSE shown
     /\ phase' = IF Ends(e) THEN "over" ELSE phase
     /\ outcome' = IF Ends(e) THEN e.type ELSE outcome
  /\ wire' = Tail(wire)
  /\ spent' = spent + 1
  /\ UNCHANGED <<request, daemon, listed, queue, line, dispatcherVars, stateVars, bus, known, counters>>

\* Defect: only events count.
SilenceUncounted ==
  /\ phase = "waits" /\ wire = <<>> /\ spent < Patience
  /\ spent' = IF daemon = "gone" THEN Patience ELSE spent
  /\ UNCHANGED <<request, phase, outcome, printed, shown, wire, daemon, listed, queue, line,
                 dispatcherVars, stateVars, bus, known, counters>>

\* Nothing comes for 100 ms; on a connection that is closed every wait is over at once.
Silence ==
  /\ phase = "waits" /\ wire = <<>> /\ spent < Patience
  /\ spent' = IF daemon = "gone" THEN Patience ELSE spent + 1
  /\ UNCHANGED <<request, phase, outcome, printed, shown, wire, daemon, listed, queue, line,
                 dispatcherVars, stateVars, bus, known, counters>>

\* The loop runs out: an error, but `status` prints what it has.
RunsOut ==
  /\ phase = "waits" /\ spent = Patience
  /\ phase' = "over"
  /\ outcome' = IF request = "status" THEN "printed" ELSE "noAnswer"
  /\ UNCHANGED <<request, spent, printed, shown, wire, daemon, listed, queue, line, dispatcherVars,
                 stateVars, bus, known, counters>>

-----------------------------------------------------------------------------
(* The dispatcher.                                                        *)

Take ==
  /\ daemon # "gone" /\ step = "idle" /\ line # <<>>
  /\ doing' = Head(line) /\ line' = Tail(line)
  /\ step' = IF daemon = "stopping" THEN "refuse" ELSE "start"
  /\ UNCHANGED <<clientVars, wire, daemon, listed, queue, mine, verdict, stateVars, bus, known, counters>>

\* reply_tx.try_send
Reply(e) ==
  queue' = IF doing.of = "own" /\ Len(queue) < QueueSize THEN Append(queue, e) ELSE queue

Passed(v) == verdict' = IF doing.of = "own" THEN v ELSE verdict

IsOwnResults(e) == e.type = "results" /\ e.of = "own"
HasOwn(q) == \E i \in 1 .. Len(q) : IsOwnResults(q[i])

\* An acknowledgement is early when the results it is about have not left the event channel.
VerdictOf(type) ==
  CASE type = "error" -> "refused"
    [] type = "ok"    -> IF HasOwn(bus) THEN "early" ELSE "done"

Answered(type) ==
  /\ Reply([type |-> type])
  /\ doing' = NoVerb /\ step' = "idle"
  /\ Passed(VerdictOf(type))

\* The stop flag is up: the verb is refused and the dispatcher returns.
Refuse ==
  /\ daemon # "gone" /\ step = "refuse"
  /\ Reply([type |-> "error"])
  /\ doing' = NoVerb /\ step' = "returned"
  /\ Passed("refused")
  /\ UNCHANGED <<clientVars, wire, daemon, listed, line, mine, stateVars, bus, known, counters>>

\* Defect: the event is made and the state is not stored.
StoreOnlyTells ==
  /\ daemon # "gone" /\ step = "start" /\ doing.verb = "play"
  /\ changes' = changes + 1
  /\ mine' = changes + 1
  /\ step' = "send"
  /\ UNCHANGED <<clientVars, wire, daemon, listed, queue, line, doing, verdict, lastState, toSay, bus,
                 known, counters>>

\* Play stores the state under the lock ...
Store ==
  /\ daemon # "gone" /\ step = "start" /\ doing.verb = "play"
  /\ changes' = changes + 1
  /\ lastState' = changes + 1 /\ mine' = changes + 1
  /\ step' = "send"
  /\ UNCHANGED <<clientVars, wire, daemon, listed, queue, line, doing, verdict, toSay, bus, known, counters>>

\* ... and sends it after that.
Send ==
  /\ daemon # "gone" /\ step = "send" /\ Len(bus) < BusSize
  /\ bus' = Append(bus, [type |-> "state", n |-> mine])
  /\ mine' = 0
  /\ step' = "answer"
  /\ UNCHANGED <<clientVars, wire, daemon, listed, queue, line, doing, verdict, stateVars, known, counters>>

\* What Spotify answers, of a search as of the library and of a playlist.
WebApiAnswer == [type |-> "results", of |-> doing.of]

\* Defect: the search is acknowledged before its results are sent.
FindAcksFirst ==
  /\ daemon # "gone" /\ doing.verb = "search"
  /\ IF step = "start"
     THEN Reply([type |-> "ok"]) /\ Passed("done") /\ step' = "late" /\ UNCHANGED <<bus, doing>>
     ELSE /\ step = "late" /\ Len(bus) < BusSize
          /\ bus' = Append(bus, WebApiAnswer)
          /\ doing' = NoVerb /\ step' = "idle"
          /\ UNCHANGED <<queue, verdict>>
  /\ UNCHANGED <<clientVars, wire, daemon, listed, line, mine, stateVars, known, counters>>

\* Search: the Web API answers and the results are sent, or it does not.
Find ==
  /\ daemon # "gone" /\ step = "start" /\ doing.verb = "search" /\ Len(bus) < BusSize
  /\ bus' = Append(bus, WebApiAnswer)
  /\ step' = "answer"
  /\ UNCHANGED <<clientVars, wire, daemon, listed, queue, line, doing, mine, verdict, stateVars, known,
                 counters>>

FindFails ==
  /\ daemon # "gone" /\ step = "start" /\ doing.verb = "search"
  /\ Answered("error")
  /\ UNCHANGED <<clientVars, wire, daemon, listed, line, mine, stateVars, bus, known, counters>>

\* Status replies with the state, if there is one, ...
TellState ==
  /\ daemon # "gone" /\ step = "start" /\ doing.verb = "status"
  /\ IF lastState = 0 THEN UNCHANGED queue ELSE Reply([type |-> "state", n |-> lastState])
  /\ step' = "tap"
  /\ UNCHANGED <<clientVars, wire, daemon, listed, line, doing, mine, verdict, stateVars, bus, known,
                 counters>>

\* ... with the ring's name ...
TellTap ==
  /\ daemon # "gone" /\ step = "tap"
  /\ Reply([type |-> "tap"])
  /\ step' = "answer"
  /\ UNCHANGED <<clientVars, wire, daemon, listed, line, doing, mine, verdict, stateVars, bus, known,
                 counters>>

\* ... and like the others with its result.
Acknowledge ==
  /\ daemon # "gone" /\ step = "answer"
  /\ Answered("ok")
  /\ UNCHANGED <<clientVars, wire, daemon, listed, line, mine, stateVars, bus, known, counters>>

-----------------------------------------------------------------------------
(* The rest of the daemon.                                                *)

\* The broadcast task passes an event on to the clients that keep up.
Broadcast ==
  /\ daemon # "gone" /\ bus # <<>>
  /\ bus' = Tail(bus)
  /\ IF listed
     THEN IF Len(queue) < QueueSize
          THEN queue' = Append(queue, Head(bus)) /\ UNCHANGED listed
          ELSE listed' = FALSE /\ UNCHANGED queue
     ELSE UNCHANGED <<queue, listed>>
  /\ UNCHANGED <<clientVars, wire, daemon, line, dispatcherVars, stateVars, known, counters>>

\* The connection's writer.
Write ==
  /\ daemon # "gone" /\ queue # <<>>
  /\ wire' = Append(wire, Head(queue))
  /\ queue' = Tail(queue)
  /\ UNCHANGED <<clientVars, daemon, listed, line, dispatcherVars, stateVars, bus, known, counters>>

\* send_state: the source thread stores what it does, then sends it.
SourceStores ==
  /\ daemon # "gone" /\ toSay = 0 /\ news < MaxNews
  /\ changes' = changes + 1
  /\ lastState' = changes + 1 /\ toSay' = changes + 1
  /\ news' = news + 1
  /\ UNCHANGED <<clientVars, wire, daemon, listed, queue, line, dispatcherVars, bus, known, others>>

SourceSends ==
  /\ daemon # "gone" /\ toSay # 0 /\ Len(bus) < BusSize
  /\ bus' = Append(bus, [type |-> "state", n |-> toSay])
  /\ toSay' = 0
  /\ UNCHANGED <<clientVars, wire, daemon, listed, queue, line, dispatcherVars, lastState, changes,
                 known, counters>>

\* Another client's verb.
Other ==
  /\ daemon = "up" /\ others < MaxOthers
  /\ \E v \in {"play", "search"} : line' = Append(line, [of |-> "other", verb |-> v])
  /\ others' = others + 1
  /\ UNCHANGED <<clientVars, wire, daemon, listed, queue, dispatcherVars, stateVars, bus, known, news>>

\* The daemon is told to stop, and is gone some time after; what it had not written
\* to the connection is lost.
Stopping ==
  /\ daemon = "up"
  /\ daemon' = "stopping"
  /\ UNCHANGED <<clientVars, wire, listed, queue, line, dispatcherVars, stateVars, bus, known, counters>>

Gone ==
  /\ daemon = "stopping"
  /\ daemon' = "gone"
  /\ UNCHANGED <<clientVars, wire, listed, queue, line, dispatcherVars, stateVars, bus, known, counters>>

-----------------------------------------------------------------------------

Attempt == Connect \/ Ask \/ Receive \/ Silence \/ RunsOut
Dispatcher ==
  Take \/ Refuse \/ Store \/ Send \/ Find \/ FindFails \/ TellState \/ TellTap \/ Acknowledge
Daemon == Dispatcher \/ Broadcast \/ Write \/ SourceStores \/ SourceSends \/ Other \/ Stopping \/ Gone
\* What the daemon does once the client is gone is left out.
Next == Attempt \/ (phase # "over" /\ Daemon)

\* Only the client is relied on: the daemon may hang.
Spec == Init /\ [][Next]_vars
FairSpec == Spec /\ WF_vars(Attempt)

-----------------------------------------------------------------------------
(* Properties.                                                            *)

\* The values the client's and the dispatcher's state takes.
AttemptTypeOK ==
  /\ request \in Requests /\ phase \in {"away", "asks", "waits", "over"}
  /\ outcome \in {"none", "ok", "error", "printed", "noAnswer"}
  /\ (outcome = "none") = (phase # "over")
  /\ spent \in 0 .. Patience /\ printed \subseteq Owners
  /\ {shown, lastState, toSay, mine} \subseteq 0 .. changes
  /\ Len(queue) <= QueueSize /\ Len(bus) <= BusSize
  /\ (step \in {"idle", "returned"}) = (doing = NoVerb)

\* What the client reports is what the dispatcher did about its own verb, whatever
\* other clients are answered meanwhile (headless.rs takes any CommandResult).
AnswerIsItsOwn ==
  /\ outcome = "ok" => verdict \in {"done", "early"}
  /\ outcome = "error" => verdict = "refused"

\* A search that ends well has printed its results, unless the client was too slow for
\* events or the broadcast too slow for the acknowledgement: results that have reached the
\* client's queue stay ahead of it, over the queue, the writer and the daemon's end.
ResultsAreAhead ==
  (request = "search" /\ outcome = "ok" /\ listed /\ verdict # "early") => "own" \in printed

\* headless.rs:11-14: results are printed "before the terminating CommandResult".  Asked of
\* a daemon that is up, by a client that keeps up.
ResultsArePrinted ==
  (request = "search" /\ outcome = "ok" /\ listed /\ daemon = "up") => "own" \in printed

\* `status` asked of a daemon that has nothing more to tell shows no state older than
\* that, whatever is stored and sent while it waits (send_state, Verb::Play).
StatusIsRecent == (request = "status" /\ phase = "over" /\ shown # 0) => shown >= known

\* The client ends, though the daemon hang, die or talk without pause.
OneShotEnds == (phase = "waits") ~> (phase = "over")

\* What the client reports is true and whole: AnswerIsItsOwn and ResultsAreAhead,
\* with the types.
AnswerIsWhole == AttemptTypeOK /\ AnswerIsItsOwn /\ ResultsAreAhead
=============================================================================
