--------------------------- MODULE ChannelProofs ---------------------------
(***************************************************************************)
(* The two channels between the daemon and its clients, for any number of  *)
(* clients and any capacities.                                             *)
(*                                                                         *)
(* The control socket: what a client is sent is a prefix of what it was    *)
(* owed, and every session that is counted is uncounted.  The first part   *)
(* shows that EventsIn, a recursive definition, filters a queue as its     *)
(* name says, by induction on positions: a set of numbers that is not      *)
(* empty has a least element.                                              *)
(*                                                                         *)
(* The PCM ring: what a read returns is the frames it says, although no    *)
(* lock keeps the producer away, and the ring implements FrameLog.         *)
(***************************************************************************)
EXTENDS ControlServer, SpmcRing, FiniteSetTheorems, SequenceTheorems, WellFoundedInduction, TLAPS

-----------------------------------------------------------------------------
(* The control socket *)

\* A set of natural numbers that is not empty has a least element.
LEMMA LeastElement ==
  ASSUME NEW T \in SUBSET Nat, T # {}
  PROVE  \E x \in T : \A y \in T : x <= y
<1> DEFINE R == OpToRel(<, Nat)
<1>1. IsWellFoundedOn(R, Nat)
  BY NatLessThanWellFounded
<1>2. \A x, y \in Nat : x < y => <<x, y>> \in R
  BY DEF OpToRel
<1> HIDE DEF R
<1>3. PICK x \in T : \A y \in T : <<y, x>> \notin R
  BY <1>1, WFMin
<1>4. \A y \in T : x \in Nat /\ y \in Nat /\ ~ (y < x)
  BY <1>2, <1>3
<1> QED BY <1>4

\* Induction over the positions 0 .. N: a set of positions that contains the
\* first one, and with each the next, contains them all.
LEMMA AllPositions ==
  ASSUME NEW N \in Nat, NEW P \in SUBSET (0 .. N), 0 \in P,
         \A n \in 1 .. N : n - 1 \in P => n \in P
  PROVE  P = 0 .. N
<1> DEFINE T == (0 .. N) \ P
<1>1. SUFFICES ASSUME T # {} PROVE FALSE
  OBVIOUS
<1>2. T \in SUBSET Nat
  OBVIOUS
<1>3. PICK x \in T : \A y \in T : x <= y
  <2> HIDE DEF T
  <2> QED BY <1>1, <1>2, LeastElement
<1>4. x \in 1 .. N /\ x \notin P
  BY <1>3
<1>5. x - 1 \in P
  BY <1>3, <1>4
<1> QED BY <1>4, <1>5

\* Concatenation of sequences of items is associative.
LEMMA ConcatTwice ==
  \A s, t, u \in Seq(Items) : (s \o t) \o u = s \o (t \o u)
OBVIOUS

\* Appending to a concatenation appends to its second part.
LEMMA AppendToConcat ==
  \A s, t \in Seq(Items) : \A e \in Items : Append(s \o t, e) = s \o Append(t, e)
OBVIOUS

-----------------------------------------------------------------------------
(* EventsIn *)

\* One step of the recursion in EventsIn.
Filtered(g, q, n) ==
  IF n = 0 THEN <<>> ELSE IF IsEvent(q[n]) THEN Append(g[n - 1], q[n]) ELSE g[n - 1]

\* f is the table that EventsIn computes, for the first m positions of q.
Filters(f, q, m) == f = [n \in 0 .. m |-> Filtered(f, q, n)]

\* The table exists, so the recursion of EventsIn defines what it says.
LEMMA TableExists ==
  ASSUME NEW q \in Seq(Items), NEW N \in Nat
  PROVE  \E f : Filters(f, q, N)
<1> DEFINE P == {m \in 0 .. N : \E f : Filters(f, q, m)}
<1>1. 0 \in P
  <2>1. Filters([n \in 0 .. 0 |-> <<>>], q, 0)
    BY DEF Filters, Filtered
  <2> QED BY <2>1
<1>2. ASSUME NEW m \in 1 .. N, m - 1 \in P PROVE m \in P
  <2>1. PICK f : Filters(f, q, m - 1)
    BY <1>2
  <2> DEFINE g == [n \in 0 .. m |-> IF n = m THEN Filtered(f, q, m) ELSE f[n]]
  <2>2. ASSUME NEW n \in 0 .. m PROVE g[n] = Filtered(g, q, n)
    <3>1. CASE n = 0
      BY <3>1, <2>1 DEF Filters, Filtered
    <3>2. CASE n # 0
      <4>1. n - 1 \in 0 .. m /\ n - 1 # m
        BY <3>2
      <4>2. g[n - 1] = f[n - 1]
        BY <4>1
      <4>3. Filtered(g, q, n) = Filtered(f, q, n)
        BY <4>2 DEF Filtered
      <4>4. n # m => n \in 0 .. (m - 1)
        OBVIOUS
      <4>5. n # m => f[n] = Filtered(f, q, n)
        BY <2>1, <4>4 DEF Filters
      <4> QED BY <4>3, <4>5
    <3> QED BY <3>1, <3>2
  <2>3. Filters(g, q, m)
    BY <2>2 DEF Filters
  <2>4. m \in 0 .. N
    OBVIOUS
  <2> QED BY <2>3, <2>4
<1>3. P = 0 .. N
  <2> HIDE DEF P
  <2>1. P \in SUBSET (0 .. N)
    BY DEF P
  <2> QED BY <1>1, <1>2, <2>1, AllPositions
<1>4. N \in P
  <2> HIDE DEF P
  <2> QED BY <1>3
<1> QED BY <1>4

\* f[n] is the events among the first n items of q, for every n up to m.
Follows(f, q, m) == \A n \in 0 .. m : f[n] = Filtered(f, q, n)

\* EventsIn is the last entry of such a table.
LEMMA EventsInTable ==
  ASSUME NEW q \in Seq(Items)
  PROVE  \E f : Follows(f, q, Len(q)) /\ EventsIn(q) = f[Len(q)]
<1> DEFINE f == CHOOSE f : Filters(f, q, Len(q))
<1>1. Len(q) \in Nat
  BY LenProperties
<1>2. \E g : Filters(g, q, Len(q))
  BY <1>1, TableExists
<1>3. Filters(f, q, Len(q))
  BY <1>2
<1>4. EventsIn(q) = f[Len(q)]
  BY DEF EventsIn, Filters, Filtered
<1> HIDE DEF f
<1>5. Follows(f, q, Len(q))
  BY <1>3 DEF Filters, Follows
<1> QED BY <1>4, <1>5

\* The entries of a table are sequences of items.
LEMMA TableType ==
  ASSUME NEW q \in Seq(Items), NEW f, NEW m \in 0 .. Len(q), Follows(f, q, m)
  PROVE  \A n \in 0 .. m : f[n] \in Seq(Items)
<1> DEFINE P == {n \in 0 .. m : f[n] \in Seq(Items)}
<1>1. m \in Nat /\ Len(q) \in Nat
  BY LenProperties
<1>2. 0 \in P
  <2>1. 0 \in 0 .. m
    BY <1>1
  <2>2. f[0] = <<>>
    BY <2>1 DEF Follows, Filtered
  <2>3. <<>> \in Seq(Items)
    BY EmptySeq
  <2> QED BY <2>1, <2>2, <2>3
<1>3. ASSUME NEW n \in 1 .. m, n - 1 \in P PROVE n \in P
  <2>1. f[n - 1] \in Seq(Items)
    BY <1>3
  <2>2. q[n] \in Items
    BY <1>1, ElementOfSeq
  <2>3. Append(f[n - 1], q[n]) \in Seq(Items)
    BY <2>1, <2>2, AppendProperties
  <2>4. n \in 0 .. m /\ n # 0
    BY <1>1
  <2>5. f[n] = IF IsEvent(q[n]) THEN Append(f[n - 1], q[n]) ELSE f[n - 1]
    BY <2>4 DEF Follows, Filtered
  <2> QED BY <2>1, <2>3, <2>4, <2>5
<1>4. P \in SUBSET (0 .. m)
  OBVIOUS
<1>5. P = 0 .. m
  <2> HIDE DEF P
  <2> QED BY <1>1, <1>2, <1>3, <1>4, AllPositions
<1> QED BY <1>5

\* The filter of a sequence of items is one.
LEMMA EventsInType ==
  ASSUME NEW q \in Seq(Items)
  PROVE  EventsIn(q) \in Seq(Items)
<1>1. PICK f : Follows(f, q, Len(q)) /\ EventsIn(q) = f[Len(q)]
  BY EventsInTable
<1>2. Len(q) \in 0 .. Len(q)
  BY LenProperties
<1> QED BY <1>1, <1>2, TableType

\* An empty queue holds no event.
LEMMA EventsInEmpty == EventsIn(<<>>) = <<>>
<1>1. <<>> \in Seq(Items) /\ Len(<<>>) = 0
  BY EmptySeq
<1>2. PICK f : Follows(f, <<>>, 0) /\ EventsIn(<<>>) = f[0]
  BY <1>1, EventsInTable
<1> QED BY <1>2 DEF Follows, Filtered

\* Two tables agree on the positions where their sequences do.
LEMMA TablesAgree ==
  ASSUME NEW m \in Nat, NEW q, NEW r, NEW f, NEW g,
         Follows(f, q, m), Follows(g, r, m), \A n \in 1 .. m : q[n] = r[n]
  PROVE  f[m] = g[m]
<1> DEFINE P == {n \in 0 .. m : f[n] = g[n]}
<1>1. 0 \in P
  BY DEF Follows, Filtered
<1>2. ASSUME NEW n \in 1 .. m, n - 1 \in P PROVE n \in P
  <2>1. n \in 0 .. m /\ n # 0
    OBVIOUS
  <2>2. f[n] = Filtered(f, q, n) /\ g[n] = Filtered(g, r, n)
    BY <2>1 DEF Follows
  <2>3. f[n - 1] = g[n - 1] /\ q[n] = r[n]
    BY <1>2
  <2>4. Filtered(f, q, n) = Filtered(g, r, n)
    BY <2>1, <2>3 DEF Filtered
  <2> QED BY <2>1, <2>2, <2>4
<1>3. P \in SUBSET (0 .. m)
  OBVIOUS
<1>4. P = 0 .. m
  <2> HIDE DEF P
  <2> QED BY <1>1, <1>2, <1>3, AllPositions
<1>5. m \in P
  BY <1>4
<1> QED BY <1>5

\* An item added at the end of a queue adds itself to its events if it is one.
LEMMA EventsInAppend ==
  ASSUME NEW q \in Seq(Items), NEW e \in Items
  PROVE  EventsIn(Append(q, e)) =
           IF IsEvent(e) THEN Append(EventsIn(q), e) ELSE EventsIn(q)
<1> DEFINE r == Append(q, e)
           N == Len(q)
<1>1. /\ N \in Nat /\ r \in Seq(Items) /\ Len(r) = N + 1 /\ r[N + 1] = e
      /\ \A n \in 1 .. N : r[n] = q[n]
  BY LenProperties, AppendProperties
<1>2. PICK f : Follows(f, q, N) /\ EventsIn(q) = f[N]
  BY EventsInTable
<1>3. PICK g : Follows(g, r, N + 1) /\ EventsIn(r) = g[N + 1]
  <2> HIDE DEF r, N
  <2> QED BY <1>1, EventsInTable
<1> HIDE DEF r, N
<1>4. Follows(g, r, N)
  <2>1. 0 .. N \subseteq 0 .. (N + 1)
    BY <1>1
  <2> QED BY <1>3, <2>1 DEF Follows
<1>5. g[N] = f[N]
  BY <1>1, <1>2, <1>4, TablesAgree
<1>6. g[N + 1] = IF IsEvent(e) THEN Append(g[N], e) ELSE g[N]
  <2>1. N + 1 \in 0 .. (N + 1) /\ N + 1 # 0 /\ (N + 1) - 1 = N
    BY <1>1
  <2>2. g[N + 1] = Filtered(g, r, N + 1)
    BY <1>3, <2>1 DEF Follows
  <2> QED BY <1>1, <2>1, <2>2 DEF Filtered
<1> QED BY <1>2, <1>3, <1>5, <1>6 DEF r

\* The events of a queue are its first item's, then those of the rest.
LEMMA EventsInHead ==
  ASSUME NEW q \in Seq(Items), q # <<>>
  PROVE  EventsIn(q) = EventsIn(<<Head(q)>>) \o EventsIn(Tail(q))
<1> DEFINE h == <<Head(q)>>
           t == Tail(q)
           N == Len(t)
<1>1. /\ h \in Seq(Items) /\ t \in Seq(Items) /\ N \in Nat /\ Len(q) = N + 1
      /\ q[1] = Head(q) /\ \A n \in 1 .. N : t[n] = q[n + 1]
  BY HeadTailProperties, LenProperties, EmptySeq
<1>2. PICK f : Follows(f, q, N + 1) /\ EventsIn(q) = f[N + 1]
  BY <1>1, EventsInTable
<1>3. PICK g : Follows(g, t, N) /\ EventsIn(t) = g[N]
  BY <1>1, EventsInTable
<1>4. PICK k : Follows(k, h, 1) /\ EventsIn(h) = k[1]
  <2>1. Len(h) = 1
    OBVIOUS
  <2> HIDE DEF h
  <2> QED BY <1>1, <2>1, EventsInTable
<1>5. h[1] = q[1]
  BY <1>1
<1> HIDE DEF h, t, N
<1>6. k[1] \in Seq(Items) /\ \A n \in 0 .. N : g[n] \in Seq(Items)
  <2>1. k[1] \in Seq(Items)
    BY <1>1, <1>4, EventsInType
  <2>2. N \in 0 .. Len(t)
    BY <1>1 DEF N
  <2> QED BY <1>1, <1>3, <2>1, <2>2, TableType
<1> DEFINE P == {n \in 0 .. N : f[n + 1] = k[1] \o g[n]}
<1>7. 0 \in P
  <2>1. Follows(f, q, 1)
    BY <1>1, <1>2 DEF Follows
  <2>2. f[1] = k[1]
    BY <1>4, <1>5, <2>1, TablesAgree
  <2>3. g[0] = <<>>
    BY <1>1, <1>3 DEF Follows, Filtered
  <2>4. k[1] \o <<>> = k[1]
    BY <1>6, ConcatEmptySeq
  <2>5. f[0 + 1] = k[1] \o g[0] /\ 0 \in 0 .. N
    BY <1>1, <2>2, <2>3, <2>4
  <2> QED BY <2>5
<1>8. ASSUME NEW n \in 1 .. N, n - 1 \in P PROVE n \in P
  <2>1. /\ n \in 0 .. N /\ n # 0 /\ n - 1 \in 0 .. N
        /\ n + 1 \in 0 .. (N + 1) /\ n + 1 # 0 /\ (n + 1) - 1 = n /\ (n - 1) + 1 = n
    BY <1>1
  <2>2. f[n + 1] = IF IsEvent(q[n + 1]) THEN Append(f[n], q[n + 1]) ELSE f[n]
    BY <1>2, <2>1 DEF Follows, Filtered
  <2>3. g[n] = IF IsEvent(t[n]) THEN Append(g[n - 1], t[n]) ELSE g[n - 1]
    BY <1>3, <2>1 DEF Follows, Filtered
  <2>4. f[n] = k[1] \o g[n - 1]
    BY <1>8, <2>1
  <2>5. t[n] = q[n + 1] /\ t[n] \in Items
    BY <1>1, ElementOfSeq DEF N
  <2>6. Append(k[1] \o g[n - 1], t[n]) = k[1] \o Append(g[n - 1], t[n])
    <3>1. k[1] \in Seq(Items) /\ g[n - 1] \in Seq(Items) /\ t[n] \in Items
      BY <1>6, <2>1, <2>5
    <3> QED BY <3>1, AppendToConcat, Zenon
  <2> QED BY <2>1, <2>2, <2>3, <2>4, <2>5, <2>6
<1>9. P \in SUBSET (0 .. N)
  OBVIOUS
<1>10. P = 0 .. N
  <2> HIDE DEF P
  <2> QED BY <1>1, <1>7, <1>8, <1>9, AllPositions
<1>11. N \in P
  <2> HIDE DEF P
  <2> QED BY <1>1, <1>10
<1> QED BY <1>2, <1>3, <1>4, <1>11 DEF h, t, N

-----------------------------------------------------------------------------
(* The invariant *)

Verbs == [conn : Conns, cmd : Nat \ {0}, kind : VerbKinds]
Notices == [no : Nat, topic : Topics]

\* The two channels and the dispatcher: there is work left only for a verb.
BusOK ==
  /\ verbs \in Seq(Verbs)
  /\ bcast \in Seq(Notices)
  /\ emitted \in Nat
  /\ serving \in Verbs \cup {Nobody}
  /\ todo \in Seq({"event", "snapshot", "ok"})
  /\ todo # <<>> => serving \in Verbs

\* While a client has a handle and a writer nothing of its stream is lost;
\* without a handle no event is queued for it, so what it lost is the end; a
\* writer that has stopped leaves no queue behind.
StreamOK(c) ==
  /\ phase[c] \in {"none", "banner"} => ~ writer[c] /\ wire[c] = <<>> /\ owed[c] = <<>>
  /\ writer[c] \/ queue[c] = <<>>
  /\ inMap[c] => Registered(c)
  /\ inMap[c] /\ writer[c] => EventsSent(c) = owed[c]
  /\ IsPrefix(EventsSent(c), owed[c])

Streams == \A c \in Conns : StreamOK(c)

IInv == TypeOK /\ BusOK /\ Streams /\ SessionsAccountedFor


\* The daemon starts with no connection.
LEMMA InitInv == Init => IInv
<1> SUFFICES ASSUME Init PROVE IInv
  OBVIOUS
<1>1. {c \in Conns : phase[c] \notin {"none", "closed"}} = {}
  BY DEF Init
<1>2. <<>> \in Seq(Items) /\ Len(<<>>) = 0 /\ EventsIn(<<>>) = <<>>
  BY EmptySeq, EventsInEmpty
<1>3. 0 \in 0 .. Cardinality(Conns) /\ 0 \in 0 .. MaxVerbs
  BY ConnsAssumption, FS_CardinalityType, BoundsAssumption
<1>4. TypeOK
  <2>1. queue \in [Conns -> Seq(Items)] /\ wire \in [Conns -> Seq(Items)] /\ owed \in [Conns -> Seq(Items)]
    BY <1>2 DEF Init
  <2>2. \A c \in Conns : Len(queue[c]) <= QueueCap
    BY <1>2, CapacityAssumption DEF Init
  <2>3. Len(verbs) <= VerbCap /\ Len(bcast) <= BcastCap
    BY <1>2, CapacityAssumption DEF Init
  <2> QED BY <1>3, <2>1, <2>2, <2>3 DEF Init, TypeOK
<1>5. BusOK
  BY DEF Init, BusOK
<1>6. Streams
  <2>1. IsPrefix(<<>>, <<>>)
    BY DEF IsPrefix
  <2>2. ASSUME NEW c \in Conns PROVE EventsSent(c) = <<>>
    BY <1>2 DEF Init, EventsSent
  <2> QED BY <2>1, <2>2 DEF Init, Streams, StreamOK
<1>7. SessionsAccountedFor
  BY <1>1, FS_EmptySet DEF Init, SessionsAccountedFor
<1> QED BY <1>4, <1>5, <1>6, <1>7 DEF IInv

-----------------------------------------------------------------------------
(* The channels *)

\* An event enters a broadcast channel that has room.
LEMMA EmitStep ==
  ASSUME TypeOK, BusOK, NEW topic \in Topics, Emit(topic)
  PROVE  bcast' \in Seq(Notices) /\ Len(bcast') <= BcastCap /\ emitted' \in Nat
<1>1. [no |-> emitted + 1, topic |-> topic] \in Notices
  BY DEF BusOK, Notices
<1>2. Len(bcast') = Len(bcast) + 1 /\ bcast' \in Seq(Notices)
  BY <1>1, AppendProperties DEF Emit, BusOK
<1>3. Len(bcast) \in Nat /\ Len(bcast) < BcastCap
  BY LenProperties DEF Emit, BusOK
<1>4. Len(bcast) + 1 <= BcastCap
  BY <1>3, CapacityAssumption
<1> QED BY <1>2, <1>4 DEF Emit, BusOK

\* The dispatcher gives up its verb with the last of its work.
LEMMA FinishStep ==
  ASSUME BusOK, todo # <<>>, Finish
  PROVE  /\ serving' \in Verbs \cup {Nobody}
         /\ todo' \in Seq({"event", "snapshot", "ok"})
         /\ todo' # <<>> => serving' \in Verbs
<1>1. todo' \in Seq({"event", "snapshot", "ok"}) /\ Len(todo') = Len(todo) - 1
  BY HeadTailProperties DEF BusOK, Finish
<1>2. Len(todo) = 1 => todo' = <<>>
  BY <1>1, EmptySeq
<1> QED BY <1>1, <1>2 DEF BusOK, Finish

\* What each step does to the channels and to the dispatcher.
LEMMA BusSteps ==
  ASSUME [Next]_vars
  PROVE  \/ UNCHANGED busVars
         \/ \E c \in Conns, kind \in VerbKinds : ReadVerb(c, kind)
         \/ Broadcast \/ TakeVerb \/ RefuseVerb \/ DispatcherAnswers \/ RequestStop
         \/ \E topic \in Topics : DispatcherEmits(topic) \/ SourceEmits(topic)
BY DEF Next, vars, connVars, busVars, Client, Session, Dispatch, Accept, Handshake, ReadLocalLine,
       ReadQuit, ReadVerbTooLate, HangUp, WriterBreaks, HandshakeFails, FlushTimeOver,
       AbortWriter, Deregister, WriteLine

BusTypes == BusOK /\ Len(verbs) <= VerbCap /\ Len(bcast) <= BcastCap /\ gone \in BOOLEAN /\ stop \in BOOLEAN

\* The channels hold verbs and events, within their capacities.
LEMMA BusStep == TypeOK /\ BusOK /\ [Next]_vars => BusTypes'
<1> SUFFICES ASSUME TypeOK, BusOK, [Next]_vars PROVE BusTypes'
  OBVIOUS
<1> USE DEF BusTypes
<1>1. CASE UNCHANGED busVars
  BY <1>1 DEF BusOK, TypeOK, busVars
<1>2. ASSUME NEW c \in Conns, NEW kind \in VerbKinds, ReadVerb(c, kind) PROVE BusTypes'
  <2>1. Verb(c, asked[c] + 1, kind) \in Verbs
    BY BoundsAssumption DEF TypeOK, Verb, Verbs
  <2>2. verbs' \in Seq(Verbs) /\ Len(verbs') = Len(verbs) + 1
    BY <1>2, <2>1, AppendProperties DEF ReadVerb, BusOK
  <2>3. Len(verbs) \in Nat /\ Len(verbs) < VerbCap
    BY <1>2, LenProperties DEF ReadVerb, BusOK
  <2>4. Len(verbs) + 1 <= VerbCap
    BY <2>3, CapacityAssumption
  <2> QED BY <1>2, <2>2, <2>4 DEF ReadVerb, BusOK, TypeOK
<1>3. CASE Broadcast
  <2>1. bcast' \in Seq(Notices) /\ Len(bcast') = Len(bcast) - 1
    BY <1>3, HeadTailProperties DEF Broadcast, BusOK
  <2>2. Len(bcast) - 1 <= BcastCap
    BY LenProperties, CapacityAssumption DEF TypeOK, BusOK
  <2> QED BY <1>3, <2>1, <2>2 DEF Broadcast, BusOK, TypeOK
<1>4. CASE TakeVerb
  <2>1. Head(verbs) \in Verbs /\ verbs' \in Seq(Verbs) /\ Len(verbs') = Len(verbs) - 1
    BY <1>4, HeadTailProperties DEF TakeVerb, BusOK
  <2>2. Len(verbs) - 1 <= VerbCap
    BY LenProperties, CapacityAssumption DEF TypeOK, BusOK
  <2>3. ASSUME NEW kind \in VerbKinds PROVE Work(kind) \in Seq({"event", "snapshot", "ok"})
    <3>1. kind = "emit" \/ kind = "status" \/ kind = "ack"
      BY KindsAssumption
    <3>2. CASE kind = "emit"
      BY <3>2 DEF Work
    <3>3. CASE kind = "status"
      BY <3>3 DEF Work
    <3>4. CASE kind = "ack"
      BY <3>4 DEF Work
    <3> QED BY <3>1, <3>2, <3>3, <3>4
  <2>4. todo' \in Seq({"event", "snapshot", "ok"})
    BY <1>4, <2>1, <2>3 DEF TakeVerb, Verbs
  <2> QED BY <1>4, <2>1, <2>2, <2>4 DEF TakeVerb, BusOK, TypeOK
<1>5. CASE RefuseVerb
  BY <1>5, EmptySeq, CapacityAssumption DEF RefuseVerb, BusOK, TypeOK
<1>6. CASE DispatcherAnswers
  BY <1>6, FinishStep DEF DispatcherAnswers, BusOK, TypeOK
<1>7. CASE RequestStop
  BY <1>7 DEF RequestStop, BusOK, TypeOK
<1>8. ASSUME NEW topic \in Topics, DispatcherEmits(topic) PROVE BusTypes'
  BY <1>8, EmitStep, FinishStep DEF DispatcherEmits, BusOK, TypeOK
<1>9. ASSUME NEW topic \in Topics, SourceEmits(topic) PROVE BusTypes'
  BY <1>9, EmitStep DEF SourceEmits, BusOK, TypeOK
<1> QED BY <1>1, <1>2, <1>3, <1>4, <1>5, <1>6, <1>7, <1>8, <1>9, BusSteps


-----------------------------------------------------------------------------
(* The connections *)

ConnTypes ==
  /\ phase \in [Conns -> {"none", "banner", "open", "quitting", "closing", "leaving", "closed"}]
  /\ inMap \in [Conns -> BOOLEAN]
  /\ subs \in [Conns -> SUBSET Topics]
  /\ asked \in [Conns -> 0 .. MaxVerbs]
  /\ writer \in [Conns -> BOOLEAN]

\* The reader counts a line only below its bound.
LEMMA ReadsStep ==
  ASSUME TypeOK, NEW c \in Conns, Reads(c)
  PROVE  asked' \in [Conns -> 0 .. MaxVerbs]
<1>1. asked[c] \in 0 .. MaxVerbs /\ asked[c] < MaxVerbs /\ asked' = [asked EXCEPT ![c] = asked[c] + 1]
  BY DEF TypeOK, Reads
<1>2. asked[c] + 1 \in 0 .. MaxVerbs
  BY <1>1, BoundsAssumption
<1> QED BY <1>1, <1>2 DEF TypeOK

\* Each connection keeps its state's types.
LEMMA ConnStep == TypeOK /\ [Next]_vars => ConnTypes'
<1> SUFFICES ASSUME TypeOK, [Next]_vars PROVE ConnTypes'
  OBVIOUS
<1> USE DEF ConnTypes
<1>1. ASSUME NEW c \in Conns, Client(c) PROVE ConnTypes'
  <2>1. CASE Accept(c)
    BY <2>1 DEF Accept, Goes, TypeOK
  <2>2. ASSUME NEW topics \in SUBSET Topics, Handshake(c, topics) PROVE ConnTypes'
    BY <2>2 DEF Handshake, Goes, TypeOK
  <2>3. ASSUME NEW topics \in SUBSET Topics, ReadLocalLine(c, topics) PROVE ConnTypes'
    BY <2>3, ReadsStep DEF ReadLocalLine, TypeOK
  <2>4. CASE ReadQuit(c)
    BY <2>4, ReadsStep DEF ReadQuit, Goes, TypeOK
  <2>5. ASSUME NEW kind \in VerbKinds, ReadVerb(c, kind) PROVE ConnTypes'
    BY <2>5, ReadsStep DEF ReadVerb, TypeOK
  <2>6. CASE ReadVerbTooLate(c)
    BY <2>6, ReadsStep DEF ReadVerbTooLate, Goes, TypeOK
  <2>7. CASE HangUp(c)
    BY <2>7 DEF HangUp, Goes, TypeOK
  <2>8. CASE WriterBreaks(c)
    BY <2>8 DEF WriterBreaks, TypeOK
  <2> QED BY <1>1, <2>1, <2>2, <2>3, <2>4, <2>5, <2>6, <2>7, <2>8 DEF Client
<1>2. ASSUME NEW c \in Conns, Session(c) PROVE ConnTypes'
  BY <1>2 DEF Session, HandshakeFails, FlushTimeOver, AbortWriter, Deregister, Goes, TypeOK
<1>3. ASSUME NEW c \in Conns, WriteLine(c) PROVE ConnTypes'
  BY <1>3 DEF WriteLine, TypeOK
<1>4. CASE Broadcast
  <2>1. inMap' \in [Conns -> BOOLEAN]
    BY <1>4 DEF Broadcast, TypeOK
  <2> QED BY <1>4, <2>1 DEF Broadcast, TypeOK
<1>5. CASE Dispatch
  BY <1>5 DEF Dispatch, TakeVerb, RefuseVerb, DispatcherEmits, DispatcherAnswers, connVars, TypeOK
<1>6. CASE \E topic \in Topics : SourceEmits(topic)
  BY <1>6 DEF SourceEmits, connVars, TypeOK
<1>7. CASE RequestStop
  BY <1>7 DEF RequestStop, connVars, TypeOK
<1>8. CASE UNCHANGED vars
  BY <1>8 DEF vars, connVars, TypeOK
<1> QED BY <1>1, <1>2, <1>3, <1>4, <1>5, <1>6, <1>7, <1>8 DEF Next

-----------------------------------------------------------------------------
(* What the steps do to the streams *)

\* Nothing is sent, queued, owed, registered or stopped.
Still == UNCHANGED <<inMap, queue, writer, wire, owed>>

\* The connection moves on to another phase of an open session.
Onward(c) ==
  \/ UNCHANGED phase
  \/ Registered(c) /\ phase' \in {[phase EXCEPT ![c] = to] : to \in {"quitting", "closing"}}
  \/ phase[c] = "banner" /\ phase' = [phase EXCEPT ![c] = "leaving"]
  \/ phase[c] = "none" /\ phase' = [phase EXCEPT ![c] = "banner"]

\* An answer is put in the queue of c, if it has room.
Answers(c) ==
  \E item \in Items : ~ IsEvent(item) /\ TrySend(c, item) /\ UNCHANGED <<inMap, writer, wire, owed>>

\* The writer of c stops and drops its queue.
WriterEnds(c) ==
  /\ writer' = [writer EXCEPT ![c] = FALSE]
  /\ queue' = [queue EXCEPT ![c] = <<>>]
  /\ UNCHANGED <<inMap, wire, owed>>

\* Every step is one of six kinds, as far as the streams are concerned.
LEMMA StreamSteps ==
  ASSUME TypeOK, BusOK, [Next]_vars
  PROVE  \/ Broadcast
         \/ \E c \in Conns :
              \/ Onward(c) /\ (Still \/ Answers(c))
              \/ WriterEnds(c) /\ (UNCHANGED phase \/ Goes(c, "closing", "leaving"))
              \/ WriteLine(c) \/ Deregister(c)
              \/ \E topics \in SUBSET Topics : Handshake(c, topics)
         \/ Still /\ UNCHANGED phase
<1> DEFINE Kinds ==
         \/ Broadcast
         \/ \E c \in Conns :
              \/ Onward(c) /\ (Still \/ Answers(c))
              \/ WriterEnds(c) /\ (UNCHANGED phase \/ Goes(c, "closing", "leaving"))
              \/ WriteLine(c) \/ Deregister(c)
              \/ \E topics \in SUBSET Topics : Handshake(c, topics)
         \/ Still /\ UNCHANGED phase
<1>1. ASSUME NEW c \in Conns, Reads(c) PROVE Item("reply", asked[c] + 1) \in Items /\ ~ IsEvent(Item("reply", asked[c] + 1))
  BY BoundsAssumption DEF Items, Item, IsEvent, TypeOK
<1>2. ASSUME NEW c \in Conns, Client(c) PROVE Kinds
  <2>1. CASE Accept(c)
    BY <2>1 DEF Accept, Goes, Onward, Still
  <2>2. CASE \E topics \in SUBSET Topics : Handshake(c, topics)
    BY <2>2
  <2>3. ASSUME NEW topics \in SUBSET Topics, ReadLocalLine(c, topics) PROVE Kinds
    <3>1. Answers(c)
      BY <1>1, <2>3 DEF ReadLocalLine, Answers
    <3> QED BY <2>3, <3>1 DEF ReadLocalLine, Onward
  <2>4. CASE ReadQuit(c)
    <3>1. Answers(c)
      BY <1>1, <2>4 DEF ReadQuit, Answers
    <3> QED BY <2>4, <3>1 DEF ReadQuit, Goes, Onward, Registered
  <2>5. CASE \E kind \in VerbKinds : ReadVerb(c, kind)
    BY <2>5 DEF ReadVerb, Still
  <2>6. CASE ReadVerbTooLate(c)
    <3>1. Answers(c)
      BY <1>1, <2>6 DEF ReadVerbTooLate, Answers
    <3> QED BY <2>6, <3>1 DEF ReadVerbTooLate, Goes, Onward, Registered
  <2>7. CASE HangUp(c)
    BY <2>7 DEF HangUp, Goes, Onward, Registered, Still
  <2>8. CASE WriterBreaks(c)
    BY <2>8 DEF WriterBreaks, WriterEnds
  <2> QED BY <1>2, <2>1, <2>2, <2>3, <2>4, <2>5, <2>6, <2>7, <2>8 DEF Client
<1>3. ASSUME NEW c \in Conns, Session(c) PROVE Kinds
  BY <1>3 DEF Session, HandshakeFails, FlushTimeOver, AbortWriter, Goes, Onward, Registered, Still, WriterEnds
<1>4. CASE RefuseVerb
  <2>1. Head(verbs) \in Verbs
    BY <1>4, HeadTailProperties DEF RefuseVerb, BusOK
  <2>2. Item("reply", Head(verbs).cmd) \in Items /\ ~ IsEvent(Item("reply", Head(verbs).cmd))
    BY <2>1 DEF Verbs, Item, Items, IsEvent
  <2>3. Head(verbs).conn \in Conns /\ Answers(Head(verbs).conn)
    BY <1>4, <2>1, <2>2 DEF RefuseVerb, Answers, Verbs
  <2> QED BY <1>4, <2>3 DEF RefuseVerb, Onward
<1>5. CASE DispatcherAnswers
  <2>1. serving \in Verbs
    BY <1>5 DEF DispatcherAnswers, BusOK
  <2> DEFINE item == Item(IF Head(todo) = "ok" THEN "reply" ELSE "snapshot", serving.cmd)
  <2>2. item \in Items /\ ~ IsEvent(item)
    BY <2>1 DEF Verbs, Item, Items, IsEvent
  <2>3. serving.conn \in Conns /\ Answers(serving.conn)
    BY <1>5, <2>1, <2>2 DEF DispatcherAnswers, Answers, Verbs
  <2> QED BY <1>5, <2>3 DEF DispatcherAnswers, Onward
<1>6. CASE TakeVerb \/ \E topic \in Topics : DispatcherEmits(topic) \/ SourceEmits(topic)
  BY <1>6 DEF TakeVerb, DispatcherEmits, SourceEmits, connVars, Still
<1>7. CASE RequestStop \/ UNCHANGED vars
  BY <1>7 DEF RequestStop, vars, connVars, Still
<1> QED BY <1>2, <1>3, <1>4, <1>5, <1>6, <1>7 DEF Next, Dispatch


-----------------------------------------------------------------------------
(* The streams *)

\* A sequence is a prefix of itself, and of whatever is added to it.
LEMMA PrefixSelf == \A s \in Seq(Items) : IsPrefix(s, s)
BY DEF IsPrefix

\* A prefix of a sequence is one of the sequence with more at its end.
LEMMA PrefixAppend ==
  \A s, t \in Seq(Items) : \A e \in Items : IsPrefix(s, t) => IsPrefix(s, Append(t, e))
BY DEF IsPrefix

\* The first part of a prefix is a prefix.
LEMMA PrefixConcat ==
  \A s, u, t \in Seq(Items) : IsPrefix(s \o u, t) => IsPrefix(s, t)
BY DEF IsPrefix

QueueTypes ==
  /\ queue \in [Conns -> Seq(Items)]
  /\ \A c \in Conns : Len(queue[c]) <= QueueCap
  /\ wire \in [Conns -> Seq(Items)]
  /\ owed \in [Conns -> Seq(Items)]

\* A queue that has room still fits with one more item.
LEMMA QueueFits ==
  ASSUME TypeOK, NEW c \in Conns, NEW item \in Items, Room(c)
  PROVE  Append(queue[c], item) \in Seq(Items) /\ Len(Append(queue[c], item)) <= QueueCap
<1>1. Len(queue[c]) \in Nat /\ Len(queue[c]) < QueueCap /\ queue[c] \in Seq(Items)
  BY LenProperties DEF TypeOK, Room
<1>2. Len(queue[c]) + 1 <= QueueCap
  BY <1>1, CapacityAssumption
<1> QED BY <1>1, <1>2, AppendProperties

\* An answer leaves every stream as it was.
LEMMA AnswerKeepsStreams ==
  ASSUME TypeOK, NEW c \in Conns, Answers(c)
  PROVE  /\ QueueTypes'
         /\ \A d \in Conns : EventsSent(d)' = EventsSent(d) /\ (queue[d] = <<>> /\ ~ writer[d] => queue'[d] = <<>>)
<1>1. PICK item \in Items : ~ IsEvent(item) /\ TrySend(c, item) /\ UNCHANGED <<inMap, writer, wire, owed>>
  BY DEF Answers
<1>2. ASSUME NEW d \in Conns
      PROVE  queue'[d] = IF d = c /\ Room(c) THEN Append(queue[d], item) ELSE queue[d]
  BY <1>1 DEF TrySend, TypeOK
<1>3. ASSUME NEW d \in Conns PROVE queue'[d] \in Seq(Items) /\ Len(queue'[d]) <= QueueCap
  BY <1>2, QueueFits DEF TypeOK
<1>4. QueueTypes'
  BY <1>1, <1>3 DEF QueueTypes, TrySend, TypeOK
<1>5. ASSUME NEW d \in Conns PROVE EventsIn(queue'[d]) = EventsIn(queue[d])
  <2>1. queue[d] \in Seq(Items)
    BY DEF TypeOK
  <2>2. EventsIn(Append(queue[d], item)) = EventsIn(queue[d])
    BY <1>1, <2>1, EventsInAppend
  <2> QED BY <1>2, <2>2
<1>6. ASSUME NEW d \in Conns PROVE EventsSent(d)' = EventsSent(d)
  BY <1>1, <1>5 DEF EventsSent
<1>7. ASSUME NEW d \in Conns, queue[d] = <<>>, ~ writer[d] PROVE queue'[d] = <<>>
  BY <1>2, <1>7 DEF Room
<1> QED BY <1>4, <1>6, <1>7

\* Taking an item from the queue to the wire leaves every stream as it was.
LEMMA WriteKeepsStreams ==
  ASSUME TypeOK, NEW c \in Conns, WriteLine(c)
  PROVE  QueueTypes' /\ \A d \in Conns : EventsSent(d)' = EventsSent(d)
<1> DEFINE h == EventsIn(<<Head(queue[c])>>)
           t == Tail(queue[c])
<1>1. queue[c] \in Seq(Items) /\ queue[c] # <<>> /\ wire[c] \in Seq(Items)
  BY DEF WriteLine, TypeOK
<1>2. t \in Seq(Items) /\ Len(t) = Len(queue[c]) - 1 /\ Len(queue[c]) \in Nat
  BY <1>1, HeadTailProperties, LenProperties
<1>3. h \in Seq(Items) /\ EventsIn(t) \in Seq(Items) /\ EventsIn(queue[c]) = h \o EventsIn(t)
  <2>1. <<Head(queue[c])>> \in Seq(Items)
    BY <1>1, HeadTailProperties
  <2> QED BY <1>1, <1>2, <2>1, EventsInType, EventsInHead
<1>4. wire' = [wire EXCEPT ![c] = wire[c] \o h] /\ queue' = [queue EXCEPT ![c] = t]
  BY DEF WriteLine, TypeOK
<1>5. Len(queue[c]) <= QueueCap
  BY DEF TypeOK
<1> HIDE DEF h, t
<1>6. Len(t) <= QueueCap
  BY <1>2, <1>5, CapacityAssumption
<1>7. wire[c] \o h \in Seq(Items)
  BY <1>1, <1>3, ConcatProperties
<1>8. QueueTypes'
  <2>1. wire' \in [Conns -> Seq(Items)]
    BY <1>4, <1>7 DEF TypeOK
  <2>2. queue' \in [Conns -> Seq(Items)]
    BY <1>2, <1>4 DEF TypeOK
  <2>3. \A d \in Conns : Len(queue'[d]) <= QueueCap
    BY <1>4, <1>6 DEF TypeOK
  <2>4. owed' = owed
    BY DEF WriteLine
  <2> QED BY <2>1, <2>2, <2>3, <2>4 DEF QueueTypes, TypeOK
<1>9. (wire[c] \o h) \o EventsIn(t) = wire[c] \o (h \o EventsIn(t))
  BY <1>1, <1>3, ConcatTwice, Zenon
<1>10. ASSUME NEW d \in Conns PROVE EventsSent(d)' = EventsSent(d)
  <2>1. CASE d = c
    BY <1>3, <1>4, <1>9, <2>1 DEF EventsSent, TypeOK
  <2>2. CASE d # c
    BY <1>4, <2>2 DEF EventsSent, TypeOK
  <2> QED BY <2>1, <2>2
<1> QED BY <1>8, <1>10

\* Dropping the queue drops the end of the stream, and nothing else.
LEMMA EndKeepsPrefix ==
  ASSUME TypeOK, Streams, NEW c \in Conns, WriterEnds(c)
  PROVE  /\ QueueTypes'
         /\ \A d \in Conns : d # c => EventsSent(d)' = EventsSent(d) /\ queue'[d] = queue[d]
         /\ queue'[c] = <<>> /\ ~ writer'[c] /\ IsPrefix(EventsSent(c)', owed[c])
<1>1. QueueTypes'
  BY EmptySeq, CapacityAssumption DEF QueueTypes, WriterEnds, TypeOK
<1>2. queue'[c] = <<>> /\ ~ writer'[c] /\ \A d \in Conns : d # c => queue'[d] = queue[d]
  BY DEF WriterEnds, TypeOK
<1>3. \A d \in Conns : d # c => EventsSent(d)' = EventsSent(d)
  BY <1>2 DEF EventsSent, WriterEnds
<1>4. IsPrefix(EventsSent(c)', owed[c])
  <2>1. wire[c] \in Seq(Items) /\ owed[c] \in Seq(Items) /\ EventsIn(queue[c]) \in Seq(Items)
    BY EventsInType DEF TypeOK
  <2>2. EventsSent(c)' = wire[c]
    BY <1>2, <2>1, EventsInEmpty, ConcatEmptySeq DEF EventsSent, WriterEnds
  <2>3. IsPrefix(wire[c] \o EventsIn(queue[c]), owed[c])
    BY DEF Streams, StreamOK, EventsSent
  <2>4. IsPrefix(wire[c], owed[c])
    BY <2>1, <2>3, PrefixConcat
  <2> QED BY <2>2, <2>4
<1> QED BY <1>1, <1>2, <1>3, <1>4


\* The broadcast task extends the stream of every client it serves and of none
\* it drops; what a client is owed grows with it.
LEMMA BroadcastKeepsStreams ==
  ASSUME TypeOK, BusOK, Streams, Broadcast
  PROVE  QueueTypes' /\ Streams'
<1> DEFINE item == Item("event", Head(bcast).no)
           to == {c \in Conns : inMap[c] /\ Wants(c)}
           dead == {c \in to : ~ Room(c)}
<1>1. item \in Items /\ IsEvent(item)
  <2>1. Head(bcast) \in Notices
    BY HeadTailProperties DEF Broadcast, BusOK
  <2> QED BY <2>1 DEF Notices, Item, Items, IsEvent
<1>2. /\ queue' = [c \in Conns |-> IF c \in to \ dead THEN Append(queue[c], item) ELSE queue[c]]
      /\ inMap' = [c \in Conns |-> inMap[c] /\ c \notin dead]
      /\ owed' = [c \in Conns |-> IF Registered(c) /\ Wants(c) THEN Append(owed[c], item) ELSE owed[c]]
      /\ UNCHANGED <<phase, writer, wire>>
  BY DEF Broadcast
<1>3. ASSUME NEW c \in Conns
      PROVE  /\ c \in to <=> inMap[c] /\ Wants(c)
             /\ c \in dead <=> inMap[c] /\ Wants(c) /\ ~ Room(c)
  OBVIOUS
<1> HIDE DEF item, to, dead
<1>4. ASSUME NEW c \in Conns
      PROVE  queue'[c] \in Seq(Items) /\ Len(queue'[c]) <= QueueCap /\ owed'[c] \in Seq(Items)
  <2>1. queue'[c] = IF c \in to \ dead THEN Append(queue[c], item) ELSE queue[c]
    BY <1>2
  <2>2. c \in to \ dead => Room(c)
    BY <1>3
  <2>3. queue'[c] \in Seq(Items) /\ Len(queue'[c]) <= QueueCap
    BY <1>1, <2>1, <2>2, QueueFits DEF TypeOK
  <2>4. owed[c] \in Seq(Items) /\ Append(owed[c], item) \in Seq(Items)
    BY <1>1, AppendProperties DEF TypeOK
  <2> QED BY <1>2, <2>3, <2>4
<1>5. QueueTypes'
  <2>1. queue' = [c \in Conns |-> queue'[c]] /\ owed' = [c \in Conns |-> owed'[c]]
    BY <1>2
  <2> QED BY <1>2, <1>4, <2>1 DEF QueueTypes, TypeOK
<1>6. ASSUME NEW c \in Conns PROVE StreamOK(c)'
  <2> DEFINE e == EventsIn(queue[c])
  <2>1. /\ queue[c] \in Seq(Items) /\ wire[c] \in Seq(Items) /\ owed[c] \in Seq(Items)
        /\ e \in Seq(Items) /\ EventsSent(c) = wire[c] \o e /\ EventsSent(c) \in Seq(Items)
    BY EventsInType, ConcatProperties DEF TypeOK, EventsSent
  <2>2. StreamOK(c)
    BY DEF Streams
  <2>3. /\ queue'[c] = IF c \in to \ dead THEN Append(queue[c], item) ELSE queue[c]
        /\ inMap'[c] = (inMap[c] /\ c \notin dead)
        /\ owed'[c] = IF Registered(c) /\ Wants(c) THEN Append(owed[c], item) ELSE owed[c]
        /\ phase' = phase /\ writer' = writer /\ wire' = wire
    BY <1>2
  <2>4. Registered(c)' = Registered(c)
    BY <2>3 DEF Registered
  <2>5. CASE c \in to \ dead
    <3>1. inMap[c] /\ Wants(c) /\ Room(c) /\ writer[c] /\ Registered(c)
      BY <1>3, <2>2, <2>5 DEF Room, StreamOK
    <3>2. EventsSent(c) = owed[c]
      BY <2>2, <3>1 DEF StreamOK
    <3>3. EventsIn(queue'[c]) = Append(e, item)
      BY <1>1, <2>1, <2>3, <2>5, EventsInAppend
    <3>4. EventsSent(c)' = wire[c] \o Append(e, item)
      BY <2>3, <3>3 DEF EventsSent
    <3>5. Append(wire[c] \o e, item) = wire[c] \o Append(e, item)
      BY <1>1, <2>1, AppendToConcat, Zenon
    <3>6. EventsSent(c)' = owed'[c]
      BY <2>1, <2>3, <3>1, <3>2, <3>4, <3>5
    <3>7. IsPrefix(EventsSent(c)', owed'[c])
      BY <1>4, <3>6, PrefixSelf
    <3>8. phase'[c] \notin {"none", "banner"} /\ writer'[c]
      BY <2>3, <3>1 DEF Registered
    <3> QED BY <2>4, <3>1, <3>6, <3>7, <3>8 DEF StreamOK
  <2>6. CASE c \notin to \ dead
    <3>1. EventsSent(c)' = EventsSent(c) /\ queue'[c] = queue[c]
      BY <2>3, <2>6 DEF EventsSent
    <3>2. IsPrefix(EventsSent(c), owed'[c])
      BY <1>1, <2>1, <2>2, <2>3, PrefixAppend DEF StreamOK
    <3>3. inMap'[c] => inMap[c] /\ ~ Wants(c)
      BY <1>3, <2>3, <2>6
    <3>4. inMap'[c] /\ writer'[c] => EventsSent(c)' = owed'[c]
      BY <2>2, <2>3, <3>1, <3>3 DEF StreamOK
    <3>5. phase[c] \in {"none", "banner"} => owed'[c] = owed[c]
      BY <2>3 DEF Registered
    <3> QED BY <2>2, <2>3, <2>4, <3>1, <3>2, <3>3, <3>4, <3>5 DEF StreamOK
  <2> QED BY <2>5, <2>6
<1> QED BY <1>5, <1>6 DEF Streams

\* A step that leaves the streams alone and moves a connection on keeps them.
LEMMA OnwardKeepsStreams ==
  ASSUME TypeOK, Streams, NEW c \in Conns, Onward(c), UNCHANGED <<inMap, writer, wire, owed>>,
         \A d \in Conns : EventsSent(d)' = EventsSent(d) /\ (queue[d] = <<>> /\ ~ writer[d] => queue'[d] = <<>>)
  PROVE  Streams'
<1>1. ASSUME NEW d \in Conns PROVE StreamOK(d)'
  <2>1. StreamOK(d)
    BY DEF Streams
  <2>2. Registered(d) => Registered(d)'
    BY DEF Onward, Registered, TypeOK
  <2>3. phase'[d] \in {"none", "banner"} => phase[d] \in {"none", "banner"}
    BY DEF Onward, Registered, TypeOK
  <2> QED BY <2>1, <2>2, <2>3 DEF StreamOK
<1> QED BY <1>1 DEF Streams

\* A registered client starts with an empty stream, and is owed nothing.
LEMMA HandshakeKeepsStreams ==
  ASSUME TypeOK, Streams, NEW c \in Conns, NEW topics \in SUBSET Topics, Handshake(c, topics)
  PROVE  Streams'
<1>1. ASSUME NEW d \in Conns PROVE EventsSent(d)' = EventsSent(d) /\ queue' = queue /\ wire' = wire /\ owed' = owed
  BY DEF Handshake, EventsSent
<1>2. ASSUME NEW d \in Conns PROVE StreamOK(d)'
  <2>1. StreamOK(d)
    BY DEF Streams
  <2>2. CASE d = c
    <3>1. phase[c] = "banner" /\ phase'[c] = "open" /\ inMap'[c] /\ writer'[c]
      BY DEF Handshake, Goes, TypeOK
    <3>2. wire[c] = <<>> /\ owed[c] = <<>> /\ queue[c] = <<>>
      BY <2>1, <2>2, <3>1 DEF StreamOK
    <3>3. EventsSent(c) = <<>>
      BY <3>2, EventsInEmpty DEF EventsSent
    <3>4. IsPrefix(<<>>, <<>>)
      BY DEF IsPrefix
    <3> QED BY <1>1, <2>2, <3>1, <3>2, <3>3, <3>4 DEF StreamOK, Registered
  <2>3. CASE d # c
    <3>1. phase'[d] = phase[d] /\ inMap'[d] = inMap[d] /\ writer'[d] = writer[d]
      BY <2>3 DEF Handshake, Goes, TypeOK
    <3> QED BY <1>1, <2>1, <3>1 DEF StreamOK, Registered
  <2> QED BY <2>2, <2>3
<1> QED BY <1>2 DEF Streams

\* Every step keeps the streams.
LEMMA StreamStep == TypeOK /\ BusOK /\ Streams /\ [Next]_vars => QueueTypes' /\ Streams'
<1> SUFFICES ASSUME TypeOK, BusOK, Streams, [Next]_vars PROVE QueueTypes' /\ Streams'
  OBVIOUS
<1>1. CASE Broadcast
  BY <1>1, BroadcastKeepsStreams
<1>2. ASSUME NEW c \in Conns, Onward(c), Still PROVE QueueTypes' /\ Streams'
  <2>1. QueueTypes' /\ \A d \in Conns : EventsSent(d)' = EventsSent(d) /\ queue'[d] = queue[d]
    BY <1>2 DEF Still, QueueTypes, EventsSent, TypeOK
  <2>2. UNCHANGED <<inMap, writer, wire, owed>>
    BY <1>2 DEF Still
  <2> QED BY <1>2, <2>1, <2>2, OnwardKeepsStreams
<1>3. ASSUME NEW c \in Conns, Onward(c), NEW a \in Conns, Answers(a) PROVE QueueTypes' /\ Streams'
  BY <1>3, AnswerKeepsStreams, OnwardKeepsStreams DEF Answers
<1>4. ASSUME NEW c \in Conns, WriterEnds(c), UNCHANGED phase \/ Goes(c, "closing", "leaving")
      PROVE  QueueTypes' /\ Streams'
  <2>1. ASSUME NEW d \in Conns PROVE StreamOK(d)'
    <3>1. StreamOK(d)
      BY DEF Streams
    <3>2. phase'[d] \in {"none", "banner"} => phase[d] \in {"none", "banner"}
      BY <1>4 DEF Goes, TypeOK
    <3>3. Registered(d) => Registered(d)'
      BY <1>4 DEF Goes, Registered, TypeOK
    <3>4. UNCHANGED <<inMap, wire, owed>> /\ writer'[d] = (writer[d] /\ d # c)
      BY <1>4 DEF WriterEnds, TypeOK
    <3>5. CASE d = c
      BY <1>4, <3>1, <3>2, <3>3, <3>4, <3>5, EndKeepsPrefix DEF StreamOK
    <3>6. CASE d # c
      <4>1. EventsSent(d)' = EventsSent(d) /\ queue'[d] = queue[d]
        BY <1>4, <3>6, EndKeepsPrefix
      <4> QED BY <3>1, <3>2, <3>3, <3>4, <3>6, <4>1 DEF StreamOK
    <3> QED BY <3>5, <3>6
  <2> QED BY <1>4, <2>1, EndKeepsPrefix DEF Streams
<1>5. ASSUME NEW c \in Conns, WriteLine(c) PROVE QueueTypes' /\ Streams'
  <2>1. QueueTypes' /\ \A d \in Conns : EventsSent(d)' = EventsSent(d)
    BY <1>5, WriteKeepsStreams
  <2>2. UNCHANGED <<phase, inMap, writer, owed>> /\ writer[c]
    BY <1>5 DEF WriteLine
  <2>3. ASSUME NEW d \in Conns PROVE StreamOK(d)'
    <3>1. StreamOK(d)
      BY DEF Streams
    <3>2. d # c => queue'[d] = queue[d] /\ wire'[d] = wire[d]
      BY <1>5 DEF WriteLine, TypeOK
    <3>3. phase[c] \notin {"none", "banner"}
      BY <2>2 DEF Streams, StreamOK
    <3> QED BY <2>1, <2>2, <3>1, <3>2, <3>3 DEF StreamOK, Registered
  <2> QED BY <2>1, <2>3 DEF Streams
<1>6. ASSUME NEW c \in Conns, Deregister(c) PROVE QueueTypes' /\ Streams'
  <2>1. UNCHANGED <<queue, writer, wire, owed>> /\ \A d \in Conns : EventsSent(d)' = EventsSent(d)
    BY <1>6 DEF Deregister, EventsSent
  <2>2. QueueTypes'
    BY <2>1 DEF QueueTypes, TypeOK
  <2>3. ASSUME NEW d \in Conns PROVE StreamOK(d)'
    <3>1. StreamOK(d)
      BY DEF Streams
    <3>2. inMap'[d] = (inMap[d] /\ d # c) /\ (d # c => phase'[d] = phase[d]) /\ phase'[c] = "closed"
      BY <1>6 DEF Deregister, Goes, TypeOK
    <3> QED BY <2>1, <3>1, <3>2 DEF StreamOK, Registered
  <2> QED BY <2>2, <2>3 DEF Streams
<1>7. ASSUME NEW c \in Conns, NEW topics \in SUBSET Topics, Handshake(c, topics) PROVE QueueTypes' /\ Streams'
  <2>1. QueueTypes'
    BY <1>7 DEF Handshake, QueueTypes, TypeOK
  <2> QED BY <1>7, <2>1, HandshakeKeepsStreams
<1>8. CASE Still /\ UNCHANGED phase
  <2>1. QueueTypes'
    BY <1>8 DEF Still, QueueTypes, TypeOK
  <2>2. ASSUME NEW d \in Conns PROVE StreamOK(d)'
    BY <1>8 DEF Still, Streams, StreamOK, Registered, EventsSent
  <2> QED BY <2>1, <2>2 DEF Streams
<1> QED BY <1>1, <1>2, <1>3, <1>4, <1>5, <1>6, <1>7, <1>8, StreamSteps


-----------------------------------------------------------------------------
(* The sessions *)

Live == {c \in Conns : phase[c] \notin {"none", "closed"}}

\* The connections are finite, so they can be counted, also after a step.
LEMMA LiveFinite ==
  /\ IsFiniteSet(Live) /\ Cardinality(Live) \in 0 .. Cardinality(Conns)
  /\ IsFiniteSet(Live') /\ Cardinality(Live') \in 0 .. Cardinality(Conns)
<1>1. Live \subseteq Conns /\ Live' \subseteq Conns
  BY DEF Live
<1>2. Cardinality(Conns) \in Nat
  BY ConnsAssumption, FS_CardinalityType
<1>3. ASSUME NEW S \in SUBSET Conns PROVE IsFiniteSet(S) /\ Cardinality(S) \in 0 .. Cardinality(Conns)
  BY <1>2, ConnsAssumption, FS_Subset, FS_CardinalityType
<1> QED BY <1>1, <1>3

CountInv == counted = Cardinality(Live)

\* on_connect and on_disconnect move the count with the set of live sessions,
\* and nothing else moves either.
LEMMA CountSteps ==
  ASSUME TypeOK, [Next]_vars
  PROVE  \/ \E c \in Conns : Accept(c) \/ Deregister(c)
         \/ counted' = counted /\ \A c \in Conns : phase[c] \notin {"none", "closed"} <=> phase'[c] \notin {"none", "closed"}
BY DEF Next, vars, connVars, Client, Session, Dispatch, Handshake, ReadLocalLine, ReadQuit,
       ReadVerb, ReadVerbTooLate, HangUp, WriterBreaks, HandshakeFails, FlushTimeOver, AbortWriter,
       WriteLine, Broadcast, TakeVerb, RefuseVerb, DispatcherEmits, DispatcherAnswers, SourceEmits,
       RequestStop, Goes, TypeOK

\* The count stays that of the live sessions.
LEMMA CountStep == TypeOK /\ CountInv /\ [Next]_vars => CountInv'
<1> SUFFICES ASSUME TypeOK, CountInv, [Next]_vars PROVE CountInv'
  OBVIOUS
<1>1. ASSUME NEW c \in Conns, Accept(c) PROVE CountInv'
  <2>1. Live' = Live \cup {c} /\ c \notin Live /\ counted' = counted + 1
    BY <1>1 DEF Accept, Goes, Live, TypeOK
  <2>2. Cardinality(Live \cup {c}) = Cardinality(Live) + 1
    BY <2>1, LiveFinite, FS_AddElement
  <2> QED BY <2>1, <2>2 DEF CountInv
<1>2. ASSUME NEW c \in Conns, Deregister(c) PROVE CountInv'
  <2>1. Live' = Live \ {c} /\ c \in Live /\ counted' = counted - 1
    BY <1>2 DEF Deregister, Goes, Live, TypeOK
  <2>2. Cardinality(Live \ {c}) = Cardinality(Live) - 1
    BY <2>1, LiveFinite, FS_RemoveElement
  <2> QED BY <2>1, <2>2 DEF CountInv
<1>3. ASSUME counted' = counted, \A c \in Conns : phase[c] \notin {"none", "closed"} <=> phase'[c] \notin {"none", "closed"}
      PROVE  CountInv'
  <2>1. Live' = Live
    BY <1>3 DEF Live
  <2> QED BY <1>3, <2>1 DEF CountInv
<1> QED BY <1>1, <1>2, <1>3, CountSteps

-----------------------------------------------------------------------------
(* The theorems *)

\* Every step keeps the invariant.
LEMMA StepInv == IInv /\ [Next]_vars => IInv'
<1> SUFFICES ASSUME IInv, [Next]_vars PROVE IInv'
  OBVIOUS
<1>1. TypeOK /\ BusOK /\ Streams /\ CountInv
  BY DEF IInv, SessionsAccountedFor, CountInv, Live
<1>2. BusTypes' /\ ConnTypes' /\ QueueTypes' /\ Streams'
  BY <1>1, BusStep, ConnStep, StreamStep
<1>3. CountInv' /\ SessionsAccountedFor'
  BY <1>1, <1>2, CountStep DEF SessionsAccountedFor, CountInv, Live, Streams, StreamOK, Registered
<1>4. counted' \in 0 .. Cardinality(Conns)
  BY <1>3, LiveFinite DEF CountInv
<1>5. TypeOK'
  BY <1>2, <1>4 DEF BusTypes, ConnTypes, QueueTypes, TypeOK
<1> QED BY <1>2, <1>3, <1>5 DEF IInv, BusTypes

\* The invariant holds throughout.
THEOREM Invariance == Spec => []IInv
BY InitInv, StepInv, PTL DEF Spec

\* What a client is sent is a prefix, in order, of what was broadcast while it
\* was subscribed, and each channel stays within its capacity: the queues and
\* the removal of a client that cannot keep up, in run's broadcast loop.
THEOREM StreamsWhole == Spec => []StreamsAreWhole
<1>1. IInv => StreamsAreWhole
  BY DEF IInv, Streams, StreamOK, StreamsAreWhole, LosesOnlyASuffix
<1> QED BY <1>1, Invariance, PTL

\* The sessions that were counted and not yet uncounted are the live ones, and
\* a finished one is not in the map: run's accept loop around handle_client.
THEOREM SessionsCounted == Spec => []SessionsAccountedFor
<1>1. IInv => SessionsAccountedFor
  BY DEF IInv
<1> QED BY <1>1, Invariance, PTL

-----------------------------------------------------------------------------
(* The PCM ring *)

\* Sums of naturals, for use on primed terms.
LEMMA NatSum == \A m, n \in Nat : m + n \in Nat
OBVIOUS

\* Division and remainder, for the slot of a frame.
LEMMA DivMod ==
  ASSUME NEW x \in Nat
  PROVE  /\ SlotOf(x) \in 0 .. Capacity - 1
         /\ x \div Capacity \in Nat
         /\ x = Capacity * (x \div Capacity) + SlotOf(x)
BY RingCapacityAssumption DEF SlotOf

\* Multiples of Capacity are Capacity apart.
LEMMA ProductAtLeast ==
  ASSUME NEW p \in Nat, NEW q \in Nat, p < q
  PROVE  Capacity * q >= Capacity * p + Capacity
<1>1. PICK d \in Nat : q = p + 1 + d
  <2>1. q - p - 1 \in Nat /\ q = p + 1 + (q - p - 1)
    OBVIOUS
  <2> QED BY <2>1
<1>2. Capacity * q = Capacity * p + Capacity + Capacity * d
  BY <1>1, RingCapacityAssumption
<1>3. Capacity * d \in Nat
  BY RingCapacityAssumption
<1> QED BY <1>2, <1>3, RingCapacityAssumption

\* Two frames that share a slot are at least a lap apart.
LEMMA SameSlotApart ==
  ASSUME NEW x \in Nat, NEW y \in Nat, x < y, SlotOf(x) = SlotOf(y)
  PROVE  y >= x + Capacity
<1> DEFINE p == x \div Capacity
           q == y \div Capacity
<1>1. x = Capacity * p + SlotOf(x) /\ y = Capacity * q + SlotOf(y)
      /\ p \in Nat /\ q \in Nat /\ SlotOf(x) \in Nat
  BY DivMod
<1>2. p < q
  <2>1. CASE q < p
    <3>1. Capacity * p >= Capacity * q + Capacity
      BY <1>1, <2>1, ProductAtLeast
    <3>2. Capacity * p \in Nat /\ Capacity * q \in Nat
      BY <1>1, RingCapacityAssumption
    <3> HIDE DEF p, q
    <3> QED BY <1>1, <3>1, <3>2, RingCapacityAssumption
  <2>2. CASE q = p
    BY <1>1, <2>2
  <2> QED BY <2>1, <2>2, <1>1
<1>3. Capacity * q >= Capacity * p + Capacity
  BY <1>1, <1>2, ProductAtLeast
<1>4. Capacity * p \in Nat /\ Capacity * q \in Nat
  BY <1>1, RingCapacityAssumption
<1> HIDE DEF p, q
<1> QED BY <1>1, <1>3, <1>4, RingCapacityAssumption

\* A frame and the one a lap later share a slot.
LEMMA NextLapSameSlot ==
  ASSUME NEW x \in Nat
  PROVE  SlotOf(x + Capacity) = SlotOf(x)
<1> DEFINE y == x + Capacity
           p == x \div Capacity
           q == y \div Capacity
<1>1. x = Capacity * p + SlotOf(x) /\ p \in Nat /\ SlotOf(x) \in 0 .. Capacity - 1
  BY DivMod
<1>2. y \in Nat /\ y = Capacity * q + SlotOf(y) /\ q \in Nat
      /\ SlotOf(y) \in 0 .. Capacity - 1
  <2>1. y \in Nat
    BY RingCapacityAssumption
  <2> HIDE DEF y
  <2> QED BY <2>1, DivMod
<1>3. Capacity * (p + 1) = Capacity * p + Capacity
  BY <1>1, RingCapacityAssumption
<1>4. Capacity * p \in Nat /\ Capacity * q \in Nat /\ Capacity * (p + 1) \in Nat
  BY <1>1, <1>2, RingCapacityAssumption
<1>5. ~ (q < p + 1)
  <2>1. SUFFICES ASSUME q < p + 1 PROVE FALSE
    OBVIOUS
  <2>2. Capacity * (p + 1) >= Capacity * q + Capacity
    BY <1>1, <1>2, <2>1, ProductAtLeast
  <2> HIDE DEF p, q
  <2> QED BY <1>1, <1>2, <1>3, <1>4, <2>2, RingCapacityAssumption
<1>6. ~ (p + 1 < q)
  <2>1. SUFFICES ASSUME p + 1 < q PROVE FALSE
    OBVIOUS
  <2>2. Capacity * q >= Capacity * (p + 1) + Capacity
    BY <1>1, <1>2, <2>1, ProductAtLeast
  <2> HIDE DEF p, q
  <2> QED BY <1>1, <1>2, <1>3, <1>4, <2>2, RingCapacityAssumption
<1>7. q = p + 1
  BY <1>1, <1>2, <1>5, <1>6
<1> HIDE DEF p, q
<1> QED BY <1>1, <1>2, <1>3, <1>4, <1>7, RingCapacityAssumption

-----------------------------------------------------------------------------
(* Type correctness *)

\* A successful result has the type of a result.
LEMMA OkResult ==
  ASSUME NEW from \in Nat, NEW frames \in Seq(Int), NEW at \in Nat
  PROVE  Ok(from, frames, at) \in Results
BY DEF Ok, Results

\* An overrun has the type of a result.
LEMMA OverrunResult ==
  ASSUME NEW from \in Nat, NEW at \in Nat
  PROVE  Overrun(from, at) \in Results
<1>1. << >> \in Seq(Int) /\ (at - from) - Capacity \in Int
  BY RingCapacityAssumption
<1> QED BY <1>1 DEF Overrun, Results

\* A frame's slot is in the data area (`idx` is masked).
LEMMA SlotOfRange ==
  ASSUME NEW x \in Nat
  PROVE  SlotOf(x) \in 0 .. Capacity - 1
BY DivMod

\* The zeroed region and fresh consumers have the right types.
LEMMA TypeInit == RingInit => RingTypeOK
<1> SUFFICES ASSUME RingInit PROVE RingTypeOK
  OBVIOUS
<1>1. << >> \in Seq(Int)
  OBVIOUS
<1>2. Ok(0, <<>>, 0) \in Results
  BY <1>1, OkResult
<1> QED BY <1>2, MaxBatchAssumption DEF RingInit, RingTypeOK

\* Every step of write_frames, attach and read_frames keeps the types.
LEMMA TypeStep == RingTypeOK /\ [RingNext]_ringVars => RingTypeOK'
<1> SUFFICES ASSUME RingTypeOK, [RingNext]_ringVars PROVE RingTypeOK'
  OBVIOUS
<1> USE DEF RingTypeOK, prodVars, consVars, Detached, NoFrame
<1>1. ASSUME NEW n \in 1 .. MaxBatch, StartWrite(n) PROVE RingTypeOK'
  BY <1>1, MaxBatchAssumption DEF StartWrite
<1>2. ASSUME WriteSlot PROVE RingTypeOK'
  <2>1. seq + filled \in Nat
    OBVIOUS
  <2>2. slots' \in [0 .. Capacity - 1 -> Nat \cup {NoFrame}]
    BY <1>2, <2>1, SlotOfRange DEF WriteSlot
  <2> QED BY <1>2, <2>2, MaxBatchAssumption DEF WriteSlot
<1>3. ASSUME Publish PROVE RingTypeOK'
  BY <1>3, MaxBatchAssumption DEF Publish
<1>4. ASSUME NEW c \in Consumers, Attach(c) PROVE RingTypeOK'
  BY <1>4 DEF Attach
<1>5. ASSUME NEW c \in Consumers, LoadOverrun(c) PROVE RingTypeOK'
  <2>1. Overrun(cursor[c], seq) \in Results
    BY <1>5, OverrunResult DEF LoadOverrun, Load
  <2> QED BY <1>5, <2>1 DEF LoadOverrun, Load
<1>6. ASSUME NEW c \in Consumers, LoadNothing(c) PROVE RingTypeOK'
  <2>1. << >> \in Seq(Int) /\ cursor[c] \in Nat
    BY <1>6 DEF LoadNothing, Load
  <2>2. Ok(cursor[c], <<>>, seq) \in Results
    BY <2>1, OkResult
  <2> QED BY <1>6, <2>2 DEF LoadNothing, Load
<1>7. ASSUME NEW c \in Consumers, NEW bufLen \in BufLens, LoadSome(c, bufLen) PROVE RingTypeOK'
  <2>1. want' \in [Consumers -> Nat]
    BY <1>7, RingCapacityAssumption, BufLensAssumption DEF LoadSome, Load, Behind
  <2>2. copied' \in [Consumers -> Seq(Int)]
    BY <1>7 DEF LoadSome
  <2> QED BY <1>7, <2>1, <2>2 DEF LoadSome, Load
<1>8. ASSUME NEW c \in Consumers, CopySlot(c) PROVE RingTypeOK'
  <2>1. cursor[c] + Len(copied[c]) \in Nat
    BY <1>8 DEF CopySlot
  <2>2. slots[SlotOf(cursor[c] + Len(copied[c]))] \in Int
    BY <2>1, SlotOfRange
  <2>3. copied' \in [Consumers -> Seq(Int)]
    BY <1>8, <2>2 DEF CopySlot
  <2> QED BY <1>8, <2>3 DEF CopySlot
<1>9. ASSUME NEW c \in Consumers, RecheckOverrun(c) PROVE RingTypeOK'
  <2>1. Overrun(cursor[c], seq) \in Results
    BY <1>9, OverrunResult DEF RecheckOverrun, Recheck
  <2> QED BY <1>9, <2>1 DEF RecheckOverrun, Recheck
<1>10. ASSUME NEW c \in Consumers, RecheckOk(c) PROVE RingTypeOK'
  <2>1. Ok(cursor[c], copied[c], seq) \in Results
    BY <1>10, OkResult DEF RecheckOk, Recheck
  <2>2. cursor' \in [Consumers -> Nat \cup {Detached}]
    BY <1>10 DEF RecheckOk, Recheck
  <2> QED BY <1>10, <2>1, <2>2 DEF RecheckOk, Recheck
<1>11. CASE UNCHANGED ringVars
  BY <1>11 DEF ringVars
<1> QED
  BY <1>1, <1>2, <1>3, <1>4, <1>5, <1>6, <1>7, <1>8, <1>9, <1>10, <1>11
  DEF RingNext, Produce, Consume, ReadFrames

\* The variables keep their types (SpmcRing's Producer and Consumer fields).
THEOREM TypeCorrect == RingSpec => []RingTypeOK
BY TypeInit, TypeStep, PTL DEF RingSpec

-----------------------------------------------------------------------------
(* The inductive invariant *)

\* A slot once written holds one of the last Capacity frames, in its place.
SlotInv ==
  /\ \A i \in 0 .. Capacity - 1 :
        slots[i] # NoFrame =>
          /\ slots[i] < Written
          /\ slots[i] + Capacity >= Written
          /\ SlotOf(slots[i]) = i
  /\ \A f \in Nat : f < Written => slots[SlotOf(f)] # NoFrame

\* The frame wanted, or one that replaced it in the same slot before limit.
RightOrLapped(v, f, limit) ==
  \/ v = f
  \/ v \in Nat /\ v >= f + Capacity /\ v < limit /\ SlotOf(v) = SlotOf(f)

\* A consumer asks for frames already published, and what it has copied so
\* far is right or was replaced by a frame not beyond the producer.
ReadInv ==
  \A c \in Consumers :
    /\ cursor[c] # Detached => cursor[c] <= seq
    /\ pc[c] = "copy" =>
         /\ want[c] \in 1 .. Capacity
         /\ cursor[c] + want[c] <= seq
         /\ Len(copied[c]) <= want[c]
         /\ \A k \in 1 .. Len(copied[c]) :
              RightOrLapped(copied[c][k], cursor[c] + k - 1, Written)

ResultInv ==
  \A c \in Consumers :
    /\ result[c].frames # <<>> => result[c].at <= result[c].from + Capacity
    /\ \A k \in 1 .. Len(result[c].frames) :
         RightOrLapped(result[c].frames[k], Wanted(c, k), result[c].at + MaxBatch)

RingInv == RingTypeOK /\ SlotInv /\ ReadInv /\ ResultInv

\* The zeroed region satisfies the slot invariant: nothing is written yet.
LEMMA SlotInit == RingInit => SlotInv
BY SlotOfRange, RingCapacityAssumption DEF RingInit, SlotInv, Written

\* What a consumer copies out of the slot of a published frame.
LEMMA SlotHolds ==
  ASSUME RingTypeOK, SlotInv, NEW f \in Nat, f < Written
  PROVE  RightOrLapped(slots[SlotOf(f)], f, Written)
<1> DEFINE v == slots[SlotOf(f)]
<1>1. SlotOf(f) \in 0 .. Capacity - 1 /\ v # NoFrame
  BY SlotOfRange DEF SlotInv
<1>2. v \in Nat /\ v < Written /\ v + Capacity >= Written /\ SlotOf(v) = SlotOf(f)
  BY <1>1 DEF SlotInv, RingTypeOK
<1>3. Written \in Nat
  BY DEF Written, RingTypeOK
<1> HIDE DEF v
<1>4. CASE v < f
  <2>1. f >= v + Capacity
    BY <1>2, <1>4, SameSlotApart
  <2> QED BY <1>2, <1>3, <2>1, RingCapacityAssumption
<1>5. CASE v > f
  <2>1. v >= f + Capacity
    BY <1>2, <1>5, SameSlotApart
  <2> QED BY <1>2, <2>1 DEF RightOrLapped, v
<1>6. CASE v = f
  BY <1>6 DEF RightOrLapped, v
<1> QED BY <1>2, <1>4, <1>5, <1>6

\* Nothing a consumer may see is lost by a slot written later.
LEMMA RightOrLappedLater ==
  ASSUME NEW v \in Int, NEW f \in Nat, NEW m \in Nat, NEW n \in Nat,
         RightOrLapped(v, f, m), m <= n
  PROVE  RightOrLapped(v, f, n)
BY DEF RightOrLapped

\* write_frames keeps the last Capacity frames in place, slot by slot.
LEMMA SlotStep == RingTypeOK /\ SlotInv /\ [RingNext]_ringVars => SlotInv'
<1> SUFFICES ASSUME RingTypeOK, SlotInv, [RingNext]_ringVars PROVE SlotInv'
  OBVIOUS
<1>1. Written \in Nat /\ Written = seq + filled
  BY DEF Written, RingTypeOK
<1>2. CASE UNCHANGED slots /\ Written' = Written
  BY <1>2 DEF SlotInv
<1>3. ASSUME WriteSlot PROVE SlotInv'
  <2> DEFINE w == Written
             s == SlotOf(w)
  <2>1. slots' = [slots EXCEPT ![s] = w] /\ Written' = w + 1 /\ w \in Nat
    BY <1>1, <1>3 DEF WriteSlot, Written, RingTypeOK
  <2>2. s \in 0 .. Capacity - 1
    BY <1>1, SlotOfRange
  <2>3. slots \in [0 .. Capacity - 1 -> Nat \cup {NoFrame}]
    BY DEF RingTypeOK
  <2>4. slots'[s] = w
    BY <2>1, <2>2, <2>3
  <2>5. ASSUME NEW i \in 0 .. Capacity - 1, slots'[i] # NoFrame
        PROVE  /\ slots'[i] < w + 1
               /\ slots'[i] + Capacity >= w + 1
               /\ SlotOf(slots'[i]) = i
    <3>1. CASE i = s
      BY <3>1, <2>1, <2>4, RingCapacityAssumption
    <3>2. CASE i # s
      <4> DEFINE v == slots[i]
      <4>1. slots'[i] = v /\ v # NoFrame
        BY <2>1, <2>3, <3>2, <2>5
      <4>2. v \in Nat /\ v < w /\ v + Capacity >= w /\ SlotOf(v) = i
        BY <4>1, <2>3 DEF SlotInv
      <4>3. v + Capacity # w
        BY <4>2, <3>2, NextLapSameSlot
      <4> HIDE DEF v
      <4> QED BY <4>1, <4>2, <4>3, <2>1, RingCapacityAssumption
    <3> QED BY <3>1, <3>2
  <2>6. ASSUME NEW f \in Nat, f < w + 1 PROVE slots'[SlotOf(f)] # NoFrame
    <3>1. SlotOf(f) \in 0 .. Capacity - 1
      BY SlotOfRange
    <3>2. CASE SlotOf(f) = s
      BY <3>2, <2>1, <2>4 DEF NoFrame
    <3>3. CASE SlotOf(f) # s
      <4>1. f # w
        BY <3>3
      <4>2. f < w
        BY <4>1, <2>1, <2>6
      <4>3. slots[SlotOf(f)] # NoFrame
        BY <4>2 DEF SlotInv
      <4> QED BY <4>3, <3>1, <3>3, <2>1, <2>3
    <3> QED BY <3>2, <3>3
  <2> HIDE DEF w, s
  <2> QED BY <2>1, <2>5, <2>6 DEF SlotInv
<1>4. ASSUME Publish PROVE SlotInv'
  <2>1. Written' = Written
    BY <1>4 DEF Publish, Written, RingTypeOK
  <2> QED BY <1>2, <1>4, <2>1 DEF Publish
<1>5. ASSUME NEW n \in 1 .. MaxBatch, StartWrite(n) PROVE SlotInv'
  BY <1>2, <1>5 DEF StartWrite, Written
<1>6. ASSUME NEW c \in Consumers, Consume(c) PROVE SlotInv'
  BY <1>2, <1>6 DEF Consume, ReadFrames, Attach, LoadOverrun, LoadNothing, LoadSome,
       CopySlot, RecheckOverrun, RecheckOk, Written, prodVars
<1>7. CASE UNCHANGED ringVars
  BY <1>2, <1>7 DEF ringVars, Written
<1> QED BY <1>3, <1>4, <1>5, <1>6, <1>7 DEF RingNext, Produce

\* What a consumer holds stays right-or-lapped while the producer runs on.
LEMMA ReadStep == RingTypeOK /\ SlotInv /\ ReadInv /\ [RingNext]_ringVars => ReadInv'
<1> SUFFICES ASSUME RingTypeOK, SlotInv, ReadInv, [RingNext]_ringVars PROVE ReadInv'
  OBVIOUS
<1>1. RingTypeOK'
  BY TypeStep
<1> DEFINE Part(c) ==
      /\ cursor[c] # Detached => cursor[c] <= seq
      /\ pc[c] = "copy" =>
           /\ want[c] \in 1 .. Capacity
           /\ cursor[c] + want[c] <= seq
           /\ Len(copied[c]) <= want[c]
           /\ \A k \in 1 .. Len(copied[c]) :
                RightOrLapped(copied[c][k], cursor[c] + k - 1, Written)
<1>2. SUFFICES ASSUME NEW d \in Consumers PROVE Part(d)'
  BY DEF ReadInv
<1>3. Part(d)
  BY DEF ReadInv
<1>4. /\ seq \in Nat /\ Written \in Nat /\ seq <= Written /\ seq' \in Nat /\ Written' \in Nat
      /\ seq <= seq' /\ Written <= Written'
  <2>1. seq \in Nat /\ filled \in Nat /\ seq' \in Nat /\ filled' \in Nat
    BY <1>1, MaxBatchAssumption DEF RingTypeOK
  <2>2. ASSUME NEW n \in 1 .. MaxBatch, StartWrite(n)
        PROVE  seq <= seq' /\ seq + filled <= seq' + filled'
    BY <2>1, <2>2 DEF StartWrite
  <2>3. ASSUME WriteSlot PROVE seq <= seq' /\ seq + filled <= seq' + filled'
    BY <2>1, <2>3 DEF WriteSlot
  <2>4. ASSUME Publish PROVE seq <= seq' /\ seq + filled <= seq' + filled'
    BY <2>1, <2>4 DEF Publish
  <2>5. ASSUME NEW c \in Consumers, Consume(c) PROVE UNCHANGED prodVars
    BY <2>5 DEF Consume, Attach, ReadFrames, LoadOverrun, LoadNothing, LoadSome,
         CopySlot, RecheckOverrun, RecheckOk
  <2>6. ASSUME UNCHANGED prodVars PROVE seq <= seq' /\ seq + filled <= seq' + filled'
    BY <2>1, <2>6 DEF prodVars
  <2>7. seq <= seq' /\ seq + filled <= seq' + filled'
    BY <2>1, <2>2, <2>3, <2>4, <2>5, <2>6 DEF RingNext, Produce, ringVars, prodVars
  <2>8. Written \in Nat /\ seq <= Written
    BY <2>1 DEF Written
  <2>9. Written' \in Nat
    <3>1. Written' = seq' + filled'
      BY DEF Written
    <3>2. seq' + filled' \in Nat
      BY <2>1, NatSum
    <3> QED BY <3>1, <3>2
  <2>10. Written <= Written'
    BY <2>1, <2>7 DEF Written
  <2> QED BY <2>1, <2>7, <2>8, <2>9, <2>10
\* The producer, and other consumers, leave d's part true.
<1>5. ASSUME UNCHANGED <<cursor[d], pc[d], want[d], copied[d]>> PROVE Part(d)'
  <2>1. ASSUME pc[d] = "copy", NEW k \in 1 .. Len(copied[d])
        PROVE  RightOrLapped(copied[d][k], cursor[d] + k - 1, Written')
    <3>1. copied[d][k] \in Int /\ cursor[d] + k - 1 \in Nat
      BY <2>1 DEF RingTypeOK, Detached
    <3>2. RightOrLapped(copied[d][k], cursor[d] + k - 1, Written)
      BY <1>3, <2>1
    <3> QED BY <1>4, <3>1, <3>2, RightOrLappedLater
  <2>2. cursor[d] \in Int /\ want[d] \in Nat
    BY DEF RingTypeOK, Detached
  <2> QED BY <1>3, <1>4, <1>5, <2>1, <2>2, RingCapacityAssumption
<1>6. ASSUME NEW n \in 1 .. MaxBatch, StartWrite(n) PROVE Part(d)'
  BY <1>5, <1>6 DEF StartWrite, consVars
<1>7. ASSUME WriteSlot PROVE Part(d)'
  BY <1>5, <1>7 DEF WriteSlot, consVars
<1>8. ASSUME Publish PROVE Part(d)'
  BY <1>5, <1>8 DEF Publish, consVars
<1>9. ASSUME NEW c \in Consumers, Consume(c), c # d PROVE Part(d)'
  BY <1>5, <1>9 DEF Consume, ReadFrames, Attach, LoadOverrun, LoadNothing, LoadSome,
       CopySlot, RecheckOverrun, RecheckOk, RingTypeOK
<1>10. ASSUME Attach(d) PROVE Part(d)'
  BY <1>4, <1>10 DEF Attach, prodVars, RingTypeOK
<1>11. ASSUME LoadOverrun(d) PROVE Part(d)'
  BY <1>4, <1>11 DEF LoadOverrun, Load, prodVars, RingTypeOK
<1>12. ASSUME LoadNothing(d) PROVE Part(d)'
  BY <1>5, <1>12 DEF LoadNothing
<1>13. ASSUME NEW bufLen \in BufLens, LoadSome(d, bufLen) PROVE Part(d)'
  <2>1. copied'[d] = <<>> /\ cursor' = cursor /\ seq' = seq /\ Len(copied'[d]) = 0
    BY <1>13 DEF LoadSome, prodVars, RingTypeOK
  <2>2. want'[d] \in 1 .. Capacity /\ want'[d] <= seq - cursor[d]
    BY <1>13, BufLensAssumption, RingCapacityAssumption DEF LoadSome, Load, Behind, RingTypeOK, Detached
  <2>3. cursor[d] \in Nat /\ cursor[d] <= seq
    BY <1>3, <1>13 DEF LoadSome, Load, RingTypeOK
  <2> QED BY <1>4, <2>1, <2>2, <2>3, RingCapacityAssumption
<1>14. ASSUME CopySlot(d) PROVE Part(d)'
  <2> DEFINE f == cursor[d] + Len(copied[d])
  <2>1. /\ cursor' = cursor /\ want' = want /\ seq' = seq /\ Written' = Written
        /\ pc[d] = "copy" /\ Len(copied[d]) < want[d]
        /\ copied'[d] = Append(copied[d], slots[SlotOf(f)])
    BY <1>14 DEF CopySlot, prodVars, Written, RingTypeOK
  <2>2. cursor[d] \in Nat /\ want[d] \in Nat /\ copied[d] \in Seq(Int) /\ f \in Nat
    BY <2>1 DEF RingTypeOK
  <2>3. f < Written
    BY <1>3, <1>4, <2>1, <2>2
  <2>4. RightOrLapped(slots[SlotOf(f)], f, Written)
    BY <2>2, <2>3, SlotHolds
  <2>5. slots[SlotOf(f)] \in Int
    BY <2>2, SlotOfRange DEF RingTypeOK, NoFrame
  <2>6. Len(copied'[d]) = Len(copied[d]) + 1
    BY <2>1, <2>2, <2>5
  <2>7. ASSUME NEW k \in 1 .. Len(copied'[d])
        PROVE  RightOrLapped(copied'[d][k], cursor[d] + k - 1, Written)
    <3>1. CASE k = Len(copied[d]) + 1
      BY <2>1, <2>2, <2>4, <2>5, <3>1
    <3>2. CASE k \in 1 .. Len(copied[d])
      BY <1>3, <2>1, <2>2, <2>5, <3>2
    <3> QED BY <2>2, <2>6, <3>1, <3>2
  <2> HIDE DEF f
  <2> QED BY <1>3, <2>1, <2>2, <2>6, <2>7
<1>15. ASSUME RecheckOverrun(d) PROVE Part(d)'
  BY <1>4, <1>15 DEF RecheckOverrun, Recheck, prodVars, RingTypeOK
<1>16. ASSUME RecheckOk(d) PROVE Part(d)'
  <2>1. cursor'[d] = cursor[d] + want[d] /\ pc'[d] = "idle" /\ seq' = seq /\ pc[d] = "copy"
    BY <1>16 DEF RecheckOk, Recheck, prodVars, RingTypeOK
  <2> QED BY <1>3, <2>1
<1>17. CASE UNCHANGED ringVars
  BY <1>5, <1>17 DEF ringVars
<1> HIDE DEF Part
<1> QED
  BY <1>6, <1>7, <1>8, <1>9, <1>10, <1>11, <1>12, <1>13, <1>14, <1>15, <1>16, <1>17
  DEF RingNext, Produce, Consume, ReadFrames

\* A result handed out keeps the guarantee it was checked with.
LEMMA ResultStep == RingTypeOK /\ ReadInv /\ ResultInv /\ [RingNext]_ringVars => ResultInv'
<1> SUFFICES ASSUME RingTypeOK, ReadInv, ResultInv, [RingNext]_ringVars PROVE ResultInv'
  OBVIOUS
<1> DEFINE Part(c) ==
      /\ result[c].frames # <<>> => result[c].at <= result[c].from + Capacity
      /\ \A k \in 1 .. Len(result[c].frames) :
           RightOrLapped(result[c].frames[k], Wanted(c, k), result[c].at + MaxBatch)
<1>1. SUFFICES ASSUME NEW d \in Consumers PROVE Part(d)'
  BY DEF ResultInv
<1>2. Part(d)
  BY DEF ResultInv
<1>3. ASSUME result'[d] = result[d] PROVE Part(d)'
  BY <1>2, <1>3 DEF Wanted
<1>4. ASSUME result'[d].frames = <<>> PROVE Part(d)'
  BY <1>4
<1>5. ASSUME RecheckOk(d) PROVE Part(d)'
  <2>1. /\ pc[d] = "copy" /\ Len(copied[d]) = want[d] /\ seq - cursor[d] <= Capacity
        /\ result'[d] = Ok(cursor[d], copied[d], seq)
    BY <1>5 DEF RecheckOk, Recheck, Behind, RingTypeOK
  <2>2. /\ result'[d].frames = copied[d]
        /\ result'[d].at = seq
        /\ result'[d].from = cursor[d]
    BY <2>1 DEF Ok
  <2>3. /\ seq \in Nat /\ cursor[d] \in Nat /\ copied[d] \in Seq(Int)
        /\ Written \in Nat /\ Written <= seq + MaxBatch
    BY <2>1, MaxBatchAssumption DEF RingTypeOK, Written
  <2>4. seq <= cursor[d] + Capacity
    BY <2>1, <2>3, RingCapacityAssumption
  <2>5. ASSUME NEW k \in 1 .. Len(copied[d])
        PROVE  RightOrLapped(copied[d][k], cursor[d] + k - 1, seq + MaxBatch)
    <3>1. RightOrLapped(copied[d][k], cursor[d] + k - 1, Written)
      BY <2>1 DEF ReadInv
    <3>2. copied[d][k] \in Int /\ cursor[d] + k - 1 \in Nat /\ seq + MaxBatch \in Nat
      <4> HIDE DEF Part
      <4>1. seq + MaxBatch \in Nat
        BY <2>3, MaxBatchAssumption
      <4>2. k \in Nat \ {0} /\ copied[d][k] \in Int
        BY <2>3, <2>5
      <4> QED BY <2>3, <4>1, <4>2
    <3> QED BY <2>3, <3>1, <3>2, RightOrLappedLater
  <2> QED BY <2>2, <2>4, <2>5 DEF Wanted
<1>6. ASSUME LoadOverrun(d) \/ RecheckOverrun(d) PROVE Part(d)'
  BY <1>4, <1>6 DEF LoadOverrun, RecheckOverrun, Overrun, RingTypeOK
<1>7. ASSUME LoadNothing(d) PROVE Part(d)'
  BY <1>4, <1>7 DEF LoadNothing, Ok, RingTypeOK
<1>8. ASSUME NEW c \in Consumers, Consume(c), c # d PROVE Part(d)'
  BY <1>3, <1>8 DEF Consume, ReadFrames, Attach, LoadOverrun, LoadNothing, LoadSome,
       CopySlot, RecheckOverrun, RecheckOk, RingTypeOK
<1>9. ASSUME UNCHANGED result PROVE Part(d)'
  BY <1>3, <1>9
<1> HIDE DEF Part
<1>10. ASSUME Produce PROVE Part(d)'
  BY <1>9, <1>10 DEF Produce, StartWrite, WriteSlot, Publish, consVars
<1>11. ASSUME Consume(d) PROVE Part(d)'
  BY <1>5, <1>6, <1>7, <1>9, <1>11 DEF Consume, ReadFrames, Attach, LoadSome, CopySlot
<1> QED
  BY <1>8, <1>9, <1>10, <1>11 DEF RingNext, ringVars

\* The inductive invariant holds in every reachable state.
LEMMA InductiveInvariant == RingSpec => []RingInv
<1>1. RingInit => RingInv
  <2>1. RingInit => ReadInv /\ ResultInv
    BY DEF RingInit, ReadInv, ResultInv, Ok
  <2> QED BY <2>1, TypeInit, SlotInit DEF RingInv
<1>2. RingInv /\ [RingNext]_ringVars => RingInv'
  BY TypeStep, SlotStep, ReadStep, ResultStep DEF RingInv
<1> QED BY <1>1, <1>2, PTL DEF RingSpec

-----------------------------------------------------------------------------
(* What read_frames guarantees, for every capacity, batch and consumer *)

\* The fields of a result are numbers, whichever read it comes from.
LEMMA ResultRange ==
  ASSUME RingTypeOK, NEW c \in Consumers, NEW k \in 1 .. Len(result[c].frames)
  PROVE  /\ result[c].frames \in Seq(Int) /\ result[c].frames # <<>>
         /\ result[c].from \in Nat /\ result[c].at \in Nat
         /\ Wanted(c, k) \in Nat /\ Wanted(c, k) >= result[c].from
         /\ result[c].frames[k] \in Int
<1>1. result[c] \in Results
  BY DEF RingTypeOK
<1>2. result[c].frames \in Seq(Int) /\ result[c].from \in Nat /\ result[c].at \in Nat
  BY <1>1 DEF Results
<1> QED BY <1>2 DEF Wanted

\* Frames out of reach of the write in progress are returned intact
\* (read_frames' second check), whatever the capacity and the batch size.
THEOREM SafeWindowHolds == RingSpec => []SafeWindow
<1>1. RingInv => SafeWindow
  <2>1. SUFFICES ASSUME RingInv, NEW c \in Consumers, NEW k \in 1 .. Len(result[c].frames),
                        Wanted(c, k) + Capacity >= result[c].at + MaxBatch
                 PROVE  result[c].frames[k] = Wanted(c, k)
    BY DEF SafeWindow
  <2>2. RightOrLapped(result[c].frames[k], Wanted(c, k), result[c].at + MaxBatch)
    BY <2>1 DEF RingInv, ResultInv
  <2>3. Wanted(c, k) \in Nat /\ result[c].at \in Nat /\ result[c].frames[k] \in Int
    BY <2>1, ResultRange DEF RingInv
  <2> QED BY <2>1, <2>2, <2>3, RingCapacityAssumption, MaxBatchAssumption DEF RightOrLapped
<1> QED BY <1>1, InductiveInvariant, PTL

\* A frame that is not the one asked for is the one a lap later.
THEOREM OneLapAtMostHolds == RingSpec => []OneLapAtMost
<1>1. RingInv => OneLapAtMost
  <2>1. SUFFICES ASSUME RingInv, MaxBatch <= Capacity, NEW c \in Consumers,
                        NEW k \in 1 .. Len(result[c].frames),
                        result[c].frames[k] # Wanted(c, k)
                 PROVE  result[c].frames[k] = Wanted(c, k) + Capacity
    BY DEF OneLapAtMost
  <2> DEFINE v == result[c].frames[k]
             f == Wanted(c, k)
             lap == f + Capacity
  <2>2. RightOrLapped(v, f, result[c].at + MaxBatch)
        /\ result[c].at <= result[c].from + Capacity
    BY <2>1, ResultRange DEF RingInv, ResultInv
  <2>3. f \in Nat /\ f >= result[c].from /\ result[c].at \in Nat /\ result[c].from \in Nat
    BY <2>1, ResultRange DEF RingInv
  <2>4. v \in Nat /\ v >= lap /\ SlotOf(v) = SlotOf(f) /\ v < result[c].at + MaxBatch
    BY <2>1, <2>2 DEF RightOrLapped
  <2>5. lap \in Nat /\ SlotOf(lap) = SlotOf(v)
    <3> HIDE DEF f, v
    <3> QED BY <2>3, <2>4, NextLapSameSlot, RingCapacityAssumption
  <2>6. v < lap + Capacity
    <3> HIDE DEF f, v
    <3> QED BY <2>1, <2>2, <2>3, <2>4, RingCapacityAssumption, MaxBatchAssumption
  <2>7. ~ (lap < v)
    <3> HIDE DEF lap, v
    <3> QED BY <2>4, <2>5, <2>6, SameSlotApart, RingCapacityAssumption
  <2> QED BY <2>4, <2>5, <2>7
<1> QED BY <1>1, InductiveInvariant, PTL

\* The ring implements FrameLog: consumers only read on, or skip to the end
\* when more than Capacity behind (the cursor updates of read_frames).
THEOREM Refinement == RingSpec => RefinesLog
<1>1. RingInit => Log!Init
  BY DEF RingInit, Log!Init, Detached, Log!Detached
<1>2. RingInv /\ [RingNext]_ringVars => [Log!Next]_Log!logVars
  <2> SUFFICES ASSUME RingInv, [RingNext]_ringVars PROVE [Log!Next]_<<seq, cursor>>
    BY DEF Log!logVars
  <2>1. RingTypeOK /\ ReadInv
    BY DEF RingInv
  <2>2. ASSUME Produce PROVE [Log!Next]_<<seq, cursor>>
    <3>1. UNCHANGED cursor
      BY <2>2 DEF Produce, StartWrite, WriteSlot, Publish, consVars
    <3>2. UNCHANGED seq \/ (seq' \in Nat /\ seq' > seq)
      BY <2>1, <2>2, MaxBatchAssumption DEF Produce, StartWrite, WriteSlot, Publish, RingTypeOK
    <3> QED BY <3>1, <3>2 DEF Log!Next, Log!Append
  <2>3. ASSUME NEW c \in Consumers, Attach(c) PROVE Log!Next
    BY <2>3 DEF Attach, prodVars, Log!Next, Log!Attach, Detached, Log!Detached
  <2>4. ASSUME NEW c \in Consumers, LoadOverrun(c) \/ RecheckOverrun(c) PROVE Log!Next
    <3>1. /\ cursor[c] # Detached /\ seq - cursor[c] > Capacity /\ UNCHANGED seq
          /\ cursor' = [cursor EXCEPT ![c] = seq]
      BY <2>1, <2>4 DEF LoadOverrun, RecheckOverrun, Load, Recheck, Behind, prodVars, RingTypeOK
    <3> QED BY <3>1 DEF Log!Next, Log!SkipToEnd, Detached, Log!Detached
  <2>5. ASSUME NEW c \in Consumers, RecheckOk(c) PROVE Log!Next
    <3>1. /\ cursor[c] # Detached /\ UNCHANGED seq /\ want[c] \in 1 .. Capacity
          /\ cursor[c] + want[c] <= seq
          /\ cursor' = [cursor EXCEPT ![c] = @ + want[c]]
      BY <2>1, <2>5 DEF RecheckOk, Recheck, prodVars, RingTypeOK, ReadInv
    <3> QED BY <3>1 DEF Log!Next, Log!Read, Detached, Log!Detached
  <2>6. ASSUME NEW c \in Consumers,
               LoadNothing(c) \/ (\E bufLen \in BufLens : LoadSome(c, bufLen)) \/ CopySlot(c)
        PROVE  UNCHANGED <<seq, cursor>>
    BY <2>6 DEF LoadNothing, LoadSome, CopySlot, prodVars
  <2>7. CASE UNCHANGED ringVars
    BY <2>7 DEF ringVars
  <2> QED
    BY <2>2, <2>3, <2>4, <2>5, <2>6, <2>7 DEF RingNext, Consume, ReadFrames
<1> QED BY <1>1, <1>2, InductiveInvariant, PTL DEF RingSpec, RefinesLog, Log!Spec

\* What consume_ready_from returns is the frames at the cursor wherever the slice being
\* written cannot reach, and nowhere more than a lap away, for every ring.
THEOREM ReadsAreSoundHolds == RingSpec => []ReadsAreSound
BY TypeCorrect, SafeWindowHolds, OneLapAtMostHolds, PTL DEF ReadsAreSound
=============================================================================
