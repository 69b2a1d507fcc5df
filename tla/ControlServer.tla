--------------------------- MODULE ControlServer ---------------------------
(***************************************************************************)
(* The control bus (proto/server.rs) between clients and dispatch_verbs    *)
(* (daemon/event_loop.rs).  Each connection has a reader task, a writer    *)
(* task and a bounded event queue; a broadcast task copies the events of   *)
(* the daemon into the queues of subscribed clients; one dispatcher takes  *)
(* verbs from a bounded channel and answers through the queue of the       *)
(* client that asked.                                                      *)
(*                                                                         *)
(* A line is abstracted to what it makes the server do.  Events are        *)
(* numbered in the order they are emitted.                                 *)
(***************************************************************************)
EXTENDS Integers, Sequences, FiniteSets, SequencesExt

CONSTANTS
  Conns,       \* connections, each accepted at most once
  Topics,      \* event topics
  QueueCap,    \* CLIENT_EVENT_CAPACITY
  VerbCap,     \* capacity of the verb channel
  BcastCap,    \* capacity of the broadcast channel
  VerbKinds,   \* what clients ask for, of "emit", "status" and "ack"
  MaxVerbs,    \* bound on the lines a client sends
  MaxEvents    \* bound on the events the daemon emits

ASSUME ConnsAssumption == IsFiniteSet(Conns)
ASSUME CapacityAssumption == {QueueCap, VerbCap, BcastCap} \subseteq Nat
ASSUME KindsAssumption == VerbKinds \subseteq {"emit", "status", "ack"}
ASSUME BoundsAssumption == {MaxVerbs, MaxEvents} \subseteq Nat

VARIABLES
  phase,       \* where the connection's task is
  counted,     \* clients reported by on_connect and not yet by on_disconnect
  inMap,       \* the connection has a ClientHandle in `clients`
  subs,        \* its subscriptions
  asked,       \* lines read from it so far
  queue,       \* its event queue
  writer,      \* its writer task is running
  wire,        \* (history) the events the writer has sent it
  owed,        \* (history) events broadcast while it was registered for their topic
  verbs,       \* the verb channel
  bcast,       \* the broadcast channel
  emitted,     \* events emitted so far
  serving,     \* the verb dispatch_verbs is working on, Nobody between verbs
  todo,        \* what it has still to emit and answer for that verb
  gone,        \* dispatch_verbs has returned
  stop         \* the daemon's stop flag

connVars == <<phase, counted, inMap, subs, asked, queue, writer, wire, owed>>
busVars == <<verbs, bcast, emitted, serving, todo, gone, stop>>
vars == <<connVars, busVars>>

Verb(c, n, kind) == [conn |-> c, cmd |-> n, kind |-> kind]
Nobody == [cmd |-> 0]

\* What dispatch_verbs does for a verb: a state verb broadcasts and acks, Status
\* answers with a snapshot and acks, the others only ack.
Work(kind) ==
  CASE kind = "emit"   -> <<"event", "ok">>
    [] kind = "status" -> <<"snapshot", "ok">>
    [] kind = "ack"    -> <<"ok">>

Item(type, n) == [type |-> type, no |-> n]
IsEvent(item) == item.type = "event"

\* The events among the items of q, in their order.
EventsIn(q) ==
  LET f[n \in 0 .. Len(q)] ==
        IF n = 0 THEN <<>>
        ELSE IF IsEvent(q[n]) THEN Append(f[n - 1], q[n]) ELSE f[n - 1]
  IN  f[Len(q)]

Init ==
  /\ phase = [c \in Conns |-> "none"]
  /\ counted = 0
  /\ inMap = [c \in Conns |-> FALSE]
  /\ subs = [c \in Conns |-> {}]
  /\ asked = [c \in Conns |-> 0]
  /\ queue = [c \in Conns |-> <<>>]
  /\ writer = [c \in Conns |-> FALSE]
  /\ wire = [c \in Conns |-> <<>>]
  /\ owed = [c \in Conns |-> <<>>]
  /\ verbs = <<>>
  /\ bcast = <<>>
  /\ emitted = 0
  /\ serving = Nobody
  /\ todo = <<>>
  /\ gone = FALSE
  /\ stop = FALSE

\* try_send: the item is dropped when the queue is full or its reader gone.
Room(c) == writer[c] /\ Len(queue[c]) < QueueCap
TrySend(c, item) == queue' = [queue EXCEPT ![c] = IF Room(c) THEN Append(@, item) ELSE @]

Goes(c, from, to) == phase[c] = from /\ phase' = [phase EXCEPT ![c] = to]

-----------------------------------------------------------------------------
(* A connection: run's accept loop and handle_client *)

Accept(c) ==
  /\ Goes(c, "none", "banner")
  /\ counted' = counted + 1
  /\ UNCHANGED <<inMap, subs, asked, queue, writer, wire, owed, busVars>>

Handshake(c, topics) ==
  /\ Goes(c, "banner", "open")
  /\ inMap' = [inMap EXCEPT ![c] = TRUE]
  /\ subs' = [subs EXCEPT ![c] = topics]
  /\ writer' = [writer EXCEPT ![c] = TRUE]
  /\ UNCHANGED <<counted, asked, queue, wire, owed, busVars>>

\* A read error, end of file, the five second timeout, or a malformed banner.
HandshakeFails(c) ==
  /\ Goes(c, "banner", "leaving")
  /\ UNCHANGED <<counted, inMap, subs, asked, queue, writer, wire, owed, busVars>>

\* The reader takes the next line and handles it before it reads another.
Reads(c) ==
  /\ phase[c] = "open"
  /\ asked[c] < MaxVerbs
  /\ asked' = [asked EXCEPT ![c] = @ + 1]

\* Subscribe, Unsubscribe, Capabilities and lines that do not parse are answered
\* by the reader itself; the handle is updated if it is still in the map.
ReadLocalLine(c, topics) ==
  /\ Reads(c)
  /\ subs' = [subs EXCEPT ![c] = topics]
  /\ TrySend(c, Item("reply", asked[c] + 1))
  /\ UNCHANGED <<phase, counted, inMap, writer, wire, owed, busVars>>

\* Quit is answered, and the writer gets ten milliseconds to flush.
ReadQuit(c) ==
  /\ Reads(c)
  /\ Goes(c, "open", "quitting")
  /\ TrySend(c, Item("reply", asked[c] + 1))
  /\ UNCHANGED <<counted, inMap, subs, writer, wire, owed, busVars>>

\* The reader waits while the verb channel is full.
ReadVerb(c, kind) ==
  /\ Reads(c)
  /\ ~ gone
  /\ Len(verbs) < VerbCap
  /\ verbs' = Append(verbs, Verb(c, asked[c] + 1, kind))
  /\ UNCHANGED <<phase, counted, inMap, subs, queue, writer, wire, owed, bcast, emitted,
                 serving, todo, gone, stop>>

ReadVerbTooLate(c) ==
  /\ Reads(c)
  /\ gone
  /\ Goes(c, "open", "closing")
  /\ TrySend(c, Item("reply", asked[c] + 1))
  /\ UNCHANGED <<counted, inMap, subs, writer, wire, owed, busVars>>

\* End of file, or a read error.
HangUp(c) ==
  /\ Goes(c, "open", "closing")
  /\ UNCHANGED <<counted, inMap, subs, asked, queue, writer, wire, owed, busVars>>

FlushTimeOver(c) ==
  /\ Goes(c, "quitting", "closing")
  /\ UNCHANGED <<counted, inMap, subs, asked, queue, writer, wire, owed, busVars>>

\* writer.abort() drops the queue with whatever is still in it.
AbortWriter(c) ==
  /\ Goes(c, "closing", "leaving")
  /\ writer' = [writer EXCEPT ![c] = FALSE]
  /\ queue' = [queue EXCEPT ![c] = <<>>]
  /\ UNCHANGED <<counted, inMap, subs, asked, wire, owed, busVars>>

\* Defect: the handle stays in the map.
DeregisterForgetsHandle(c) ==
  /\ Goes(c, "leaving", "closed")
  /\ counted' = counted - 1
  /\ UNCHANGED <<inMap, subs, asked, queue, writer, wire, owed, busVars>>

Deregister(c) ==
  /\ Goes(c, "leaving", "closed")
  /\ inMap' = [inMap EXCEPT ![c] = FALSE]
  /\ counted' = counted - 1
  /\ UNCHANGED <<subs, asked, queue, writer, wire, owed, busVars>>

-----------------------------------------------------------------------------
(* A connection's writer task *)

WriteLine(c) ==
  /\ writer[c]
  /\ queue[c] # <<>>
  /\ wire' = [wire EXCEPT ![c] = @ \o EventsIn(<<Head(queue[c])>>)]
  /\ queue' = [queue EXCEPT ![c] = Tail(@)]
  /\ UNCHANGED <<phase, counted, inMap, subs, asked, writer, owed, busVars>>

\* The client has closed its end: sending the next line fails.
WriterBreaks(c) ==
  /\ writer[c]
  /\ queue[c] # <<>>
  /\ writer' = [writer EXCEPT ![c] = FALSE]
  /\ queue' = [queue EXCEPT ![c] = <<>>]
  /\ UNCHANGED <<phase, counted, inMap, subs, asked, wire, owed, busVars>>

-----------------------------------------------------------------------------
(* The broadcast task *)

Wants(c) == Head(bcast).topic \in subs[c]
Registered(c) == phase[c] \in {"open", "quitting", "closing", "leaving"}

\* Defect: an event that does not fit is skipped, and the client stays.
BroadcastSkipsWhenFull ==
  /\ bcast # <<>>
  /\ LET item == Item("event", Head(bcast).no)
         to == {c \in Conns : inMap[c] /\ Wants(c)}
     IN  /\ queue' = [c \in Conns |->
                        IF c \in to /\ Room(c) THEN Append(queue[c], item) ELSE queue[c]]
         /\ owed' = [c \in Conns |->
                       IF Registered(c) /\ Wants(c) THEN Append(owed[c], item) ELSE owed[c]]
  /\ bcast' = Tail(bcast)
  /\ UNCHANGED <<phase, counted, inMap, subs, asked, writer, wire, verbs, emitted, serving,
                 todo, gone, stop>>

\* Defect: send().await in place of try_send.
BroadcastWaits ==
  /\ bcast # <<>>
  /\ LET item == Item("event", Head(bcast).no)
         to == {c \in Conns : inMap[c] /\ writer[c] /\ Wants(c)}
     IN  /\ \A c \in to : Room(c)
         /\ queue' = [c \in Conns |-> IF c \in to THEN Append(queue[c], item) ELSE queue[c]]
         /\ owed' = [c \in Conns |->
                       IF Registered(c) /\ Wants(c) THEN Append(owed[c], item) ELSE owed[c]]
  /\ bcast' = Tail(bcast)
  /\ UNCHANGED <<phase, counted, inMap, subs, asked, writer, wire, verbs, emitted, serving,
                 todo, gone, stop>>

Broadcast ==
  /\ bcast # <<>>
  /\ LET item == Item("event", Head(bcast).no)
         to == {c \in Conns : inMap[c] /\ Wants(c)}
         dead == {c \in to : ~ Room(c)}
     IN  /\ queue' = [c \in Conns |->
                        IF c \in to \ dead THEN Append(queue[c], item) ELSE queue[c]]
         /\ inMap' = [c \in Conns |-> inMap[c] /\ c \notin dead]
         /\ owed' = [c \in Conns |->
                       IF Registered(c) /\ Wants(c) THEN Append(owed[c], item) ELSE owed[c]]
  /\ bcast' = Tail(bcast)
  /\ UNCHANGED <<phase, counted, subs, asked, writer, wire, verbs, emitted, serving, todo,
                 gone, stop>>

-----------------------------------------------------------------------------
(* Emitters: the source thread, and dispatch_verbs *)

\* send().await and blocking_send wait while the broadcast channel is full.
Emit(topic) ==
  /\ emitted < MaxEvents
  /\ Len(bcast) < BcastCap
  /\ emitted' = emitted + 1
  /\ bcast' = Append(bcast, [no |-> emitted + 1, topic |-> topic])

SourceEmits(topic) ==
  /\ Emit(topic)
  /\ UNCHANGED <<connVars, verbs, serving, todo, gone, stop>>

TakeVerb ==
  /\ ~ gone
  /\ serving = Nobody
  /\ verbs # <<>>
  /\ ~ stop
  /\ serving' = Head(verbs)
  /\ todo' = Work(Head(verbs).kind)
  /\ verbs' = Tail(verbs)
  /\ UNCHANGED <<connVars, bcast, emitted, gone, stop>>

\* After stop one verb is refused, and those behind it go with the channel.
RefuseVerb ==
  /\ ~ gone
  /\ serving = Nobody
  /\ verbs # <<>>
  /\ stop
  /\ gone' = TRUE
  /\ verbs' = <<>>
  /\ TrySend(Head(verbs).conn, Item("reply", Head(verbs).cmd))
  /\ UNCHANGED <<phase, counted, inMap, subs, asked, writer, wire, owed, bcast, emitted,
                 serving, todo, stop>>

Finish ==
  /\ todo' = Tail(todo)
  /\ serving' = IF Len(todo) = 1 THEN Nobody ELSE serving

DispatcherEmits(topic) ==
  /\ todo # <<>>
  /\ Head(todo) = "event"
  /\ Emit(topic)
  /\ Finish
  /\ UNCHANGED <<connVars, verbs, gone, stop>>

DispatcherAnswers ==
  /\ todo # <<>>
  /\ Head(todo) # "event"
  /\ TrySend(serving.conn,
             Item(IF Head(todo) = "ok" THEN "reply" ELSE "snapshot", serving.cmd))
  /\ Finish
  /\ UNCHANGED <<phase, counted, inMap, subs, asked, writer, wire, owed, verbs, bcast,
                 emitted, gone, stop>>

RequestStop ==
  /\ ~ stop
  /\ stop' = TRUE
  /\ UNCHANGED <<connVars, verbs, bcast, emitted, serving, todo, gone>>

-----------------------------------------------------------------------------
Client(c) ==
  \/ Accept(c)
  \/ \E topics \in SUBSET Topics : Handshake(c, topics) \/ ReadLocalLine(c, topics)
  \/ ReadQuit(c)
  \/ \E kind \in VerbKinds : ReadVerb(c, kind)
  \/ ReadVerbTooLate(c)
  \/ HangUp(c)
  \/ WriterBreaks(c)

Session(c) ==
  \/ HandshakeFails(c)
  \/ FlushTimeOver(c)
  \/ AbortWriter(c)
  \/ Deregister(c)

Dispatch ==
  \/ TakeVerb
  \/ RefuseVerb
  \/ \E topic \in Topics : DispatcherEmits(topic)
  \/ DispatcherAnswers

Next ==
  \/ \E c \in Conns : Client(c) \/ Session(c) \/ WriteLine(c)
  \/ Broadcast
  \/ Dispatch
  \/ \E topic \in Topics : SourceEmits(topic)
  \/ RequestStop

Spec == Init /\ [][Next]_vars

\* The daemon's tasks are scheduled; what a client asks, when it leaves and
\* whether it reads what it is sent is up to it.
Fairness ==
  /\ WF_vars(Broadcast)
  /\ WF_vars(Dispatch)
  /\ \A c \in Conns : WF_vars(Session(c))

FairSpec == Spec /\ Fairness

-----------------------------------------------------------------------------
(* Properties *)

Items == [type : {"reply", "snapshot", "event"}, no : Nat]

\* Types; the bounded channels stay within their capacities.
TypeOK ==
  /\ phase \in [Conns -> {"none", "banner", "open", "quitting", "closing", "leaving", "closed"}]
  /\ counted \in 0 .. Cardinality(Conns)
  /\ inMap \in [Conns -> BOOLEAN]
  /\ subs \in [Conns -> SUBSET Topics]
  /\ asked \in [Conns -> 0 .. MaxVerbs]
  /\ queue \in [Conns -> Seq(Items)]
  /\ \A c \in Conns : Len(queue[c]) <= QueueCap
  /\ writer \in [Conns -> BOOLEAN]
  /\ wire \in [Conns -> Seq(Items)]
  /\ owed \in [Conns -> Seq(Items)]
  /\ Len(verbs) <= VerbCap
  /\ Len(bcast) <= BcastCap
  /\ gone \in BOOLEAN
  /\ stop \in BOOLEAN

EventsSent(c) == wire[c] \o EventsIn(queue[c])

\* A client that cannot keep up loses the end of its event stream, never a
\* piece in the middle: what it has been sent is a prefix of what it was owed,
\* in the order of the broadcast (the broadcast loop's removal of `dead`).
LosesOnlyASuffix == \A c \in Conns : IsPrefix(EventsSent(c), owed[c])

\* on_connect and on_disconnect are paired whatever ends a session, and a
\* finished one leaves no handle behind for the broadcast task.
SessionsAccountedFor ==
  /\ counted = Cardinality({c \in Conns : phase[c] \notin {"none", "closed"}})
  /\ \A c \in Conns : phase[c] \in {"none", "banner", "closed"} => ~ inMap[c]

\* Backpressure never becomes deadlock, even when no client reads: the channel
\* that the source thread and dispatch_verbs wait on drains.
BroadcastNeverStalls == bcast # <<>> ~> bcast = <<>>

\* What reaches a client is a stream in order: LosesOnlyASuffix, with the types.
StreamsAreWhole == TypeOK /\ LosesOnlyASuffix
=============================================================================
