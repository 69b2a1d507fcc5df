--------------------------- MODULE LaunchProofs ---------------------------
(***************************************************************************)
(* For any number of clients and processes, and any number of stops, kills *)
(* and failed boots, the flock keeps the daemons out of each other's way:  *)
(* the socket file and the ring's name lead to the daemon that serves, and *)
(* a daemon that hangs up has let go of its lock.                          *)
(***************************************************************************)
EXTENDS Launch, TLAPS

LockedStages ==
  {"locked", "detached", "unlinked", "bound", "ringless", "serving", "told", "stopping",
   "closed"}
HostingStages == {"unlinked", "bound", "ringless", "serving", "told", "stopping"}
UnhostedStages == {"none", "started", "locked", "detached", "left"}

\* The daemon's descriptor is open exactly from the flock to DropLock, and all
\* open descriptors belong to the same process.
LockInv ==
  /\ \A d \in Processes : <<d, "daemon">> \in holders <=> stage[d] \in LockedStages
  /\ \A h, k \in holders : h[1] = k[1]

\* A process that serves connections has a runtime; a client's connection leads
\* to a process that has one or is gone for good.
HostInv ==
  /\ \A d \in Processes : stage[d] \in HostingStages => d \in hosting
  /\ \A d \in hosting : stage[d] \notin UnhostedStages
  /\ \A c \in Clients : conn[c] # None => conn[c] \in hosting \/ stage[conn[c]] = "left"

IInv == TypeOK /\ LockInv /\ HostInv /\ SocketIsServed /\ RingIsKept

\* A step that starts a process which nothing refers to.
StartsOne ==
  /\ UNCHANGED <<holders, socket, name, hosting, conn>>
  /\ \E d \in Unused : stage' = [stage EXCEPT ![d] = "started"]

-----------------------------------------------------------------------------
\* Processes that hold the lock at the same time are the same process.
LEMMA OneHolder ==
  ASSUME LockInv, NEW d \in Processes, NEW e \in Processes,
         stage[d] \in LockedStages, stage[e] \in LockedStages
  PROVE  d = e
<1>1. <<d, "daemon">> \in holders /\ <<e, "daemon">> \in holders
  BY DEF LockInv
<1>2. <<d, "daemon">>[1] = <<e, "daemon">>[1]
  BY <1>1 DEF LockInv
<1> QED BY <1>2

\* What a step may do to the daemons and to the connections.
LEMMA StepCases ==
  ASSUME [Next]_vars
  PROVE  \/ UNCHANGED <<daemonVars, conn>>
         \/ StartsOne
         \/ \E c \in Clients : Connect(c)
         \/ \E d \in Processes : Daemon(d) \/ Fault(d)
<1>1. CASE UNCHANGED vars
  BY <1>1 DEF vars, daemonVars, clientVars
<1>2. CASE \E d \in Processes : Daemon(d) \/ Fault(d)
  BY <1>2
<1>3. ASSUME NEW c \in Clients, Client(c)
      PROVE  UNCHANGED <<daemonVars, conn>> \/ StartsOne \/ Connect(c)
  <2>1. CASE Spawn(c)
    <3>1. NextProcess \in Unused
      BY <2>1 DEF Spawn, NextProcess
    <3> QED BY <2>1, <3>1 DEF Spawn, StartsOne
  <2>2. CASE Probe(c) \/ Poll(c) \/ PollExpires(c)
    BY <2>2 DEF Probe, Poll, PollExpires
  <2>3. CASE Greet(c) \/ Reset(c) \/ Missed(c)
    BY <2>3 DEF Greet, Reset, Missed
  <2>4. CASE WaitPcmTap(c) \/ OpenConsumer(c) \/ Hear(c) \/ EndOfFile(c)
    BY <2>4 DEF WaitPcmTap, OpenConsumer, Hear, EndOfFile
  <2> QED BY <1>3, <2>1, <2>2, <2>3, <2>4 DEF Client
<1>4. ASSUME NEW c \in Clients, Start(c)
      PROVE  UNCHANGED <<daemonVars, conn>>
  BY <1>4 DEF Start
<1>5. ASSUME NEW c \in Clients, VerbWhileStopping(c)
      PROVE  UNCHANGED <<daemonVars, conn>>
  BY <1>5 DEF VerbWhileStopping
<1>6. ASSUME NEW c \in Clients, Interrupt(c)
      PROVE  UNCHANGED <<daemonVars, conn>> \/ StartsOne
  <2>1. CASE client[c] = "spawning" /\ Unused # {}
    <3>1. NextProcess \in Unused
      BY <2>1 DEF NextProcess
    <3> QED BY <1>6, <2>1, <3>1 DEF Interrupt, StartsOne
  <2>2. CASE ~ (client[c] = "spawning" /\ Unused # {})
    BY <1>6, <2>2 DEF Interrupt, daemonVars
  <2> QED BY <2>1, <2>2
<1> QED BY <1>1, <1>2, <1>3, <1>4, <1>5, <1>6 DEF Next

-----------------------------------------------------------------------------
(* Types *)

\* Nobody is there at first.
LEMMA InitInv == Init => IInv
<1> SUFFICES ASSUME Init PROVE IInv
  OBVIOUS
<1>1. TypeOK
  BY AttemptsAssumption, BoundAssumption DEF Init, TypeOK, Stages, Processes, None
<1>2. LockInv /\ HostInv
  BY DEF Init, LockInv, HostInv, LockedStages, HostingStages
<1>3. SocketIsServed /\ RingIsKept
  BY DEF Init, SocketIsServed, RingIsKept, Listening
<1> QED BY <1>1, <1>2, <1>3 DEF IInv

\* A step of a daemon process keeps the types.
LEMMA DaemonTypes ==
  ASSUME TypeOK, NEW d \in Processes, Daemon(d) \/ Fault(d)
  PROVE  TypeOK'
<1> USE DEF TypeOK, Stages, StageGoes, sessionVars, clientVars
<1>1. CASE Acquire(d)
  BY <1>1 DEF Acquire
<1>2. CASE Detach(d)
  BY <1>2 DEF Detach
<1>3. CASE LauncherExits(d)
  BY <1>3 DEF LauncherExits
<1>4. CASE RemoveSocket(d) \/ BindSocket(d)
  BY <1>4 DEF RemoveSocket, BindSocket
<1>5. CASE RemoveRing(d) \/ CreateRing(d) \/ DropRing(d)
  BY <1>5 DEF RemoveRing, CreateRing, DropRing
<1>6. CASE DropLock(d)
  BY <1>6 DEF DropLock
<1>7. CASE Leave(d)
  BY <1>7 DEF Leave
<1>8. CASE BootFails(d)
  BY <1>8, BoundAssumption DEF BootFails
<1>9. CASE Stop(d) \/ CloseListener(d)
  BY <1>9, BoundAssumption DEF Stop, CloseListener
<1>10. CASE Kill(d)
  BY <1>10, BoundAssumption DEF Kill
<1> QED BY <1>1, <1>2, <1>3, <1>4, <1>5, <1>6, <1>7, <1>8, <1>9, <1>10 DEF Daemon, Fault

\* So does a step of a client.
LEMMA ClientTypes ==
  ASSUME TypeOK, NEW c \in Clients,
         Client(c) \/ Start(c) \/ VerbWhileStopping(c) \/ Interrupt(c)
  PROVE  TypeOK'
<1> USE DEF TypeOK, ClientGoes, daemonVars, sessionVars
<1>1. CASE Start(c) \/ Probe(c) \/ Poll(c) \/ PollExpires(c)
  BY <1>1 DEF Start, Probe, Poll, PollExpires
<1>2. ASSUME stage' = [stage EXCEPT ![NextProcess] = "started"]
      PROVE  stage' \in [Processes -> Stages]
  BY <1>2 DEF Stages
<1>3. CASE Spawn(c)
  BY <1>2, <1>3 DEF Spawn
<1>4. CASE Connect(c)
  <2>1. socket \in Listening => socket \in Processes
    BY DEF Listening
  <2> QED BY <1>4, <2>1 DEF Connect
<1>5. CASE Greet(c)
  BY <1>5, AttemptsAssumption DEF Greet
<1>6. CASE Reset(c) \/ WaitPcmTap(c) \/ OpenConsumer(c)
  BY <1>6 DEF Reset, WaitPcmTap, OpenConsumer
<1>7. CASE Missed(c)
  <2>1. attempt[c] # MaxAttempts => attempt[c] + 1 \in 0 .. MaxAttempts
    BY AttemptsAssumption
  <2> QED BY <1>7, <2>1 DEF Missed
<1>8. CASE Hear(c)
  BY <1>8 DEF Hear
<1>9. CASE EndOfFile(c)
  BY <1>9, AttemptsAssumption DEF EndOfFile
<1>10. CASE Interrupt(c)
  BY <1>2, <1>10, AttemptsAssumption, BoundAssumption DEF Interrupt
<1>11. CASE VerbWhileStopping(c)
  BY <1>11, BoundAssumption DEF VerbWhileStopping, HungUp
<1> QED BY <1>1, <1>3, <1>4, <1>5, <1>6, <1>7, <1>8, <1>9, <1>10, <1>11 DEF Client

\* Types are kept.
LEMMA TypeStep == TypeOK /\ [Next]_vars => TypeOK'
<1> SUFFICES ASSUME TypeOK, [Next]_vars PROVE TypeOK'
  OBVIOUS
<1>1. CASE UNCHANGED vars
  BY <1>1 DEF TypeOK, vars, daemonVars, sessionVars, clientVars
<1> QED BY <1>1, DaemonTypes, ClientTypes DEF Next

-----------------------------------------------------------------------------
(* The lock *)

\* Only the process that gets past the flock comes to hold a descriptor.
LEMMA LockStep == TypeOK /\ LockInv /\ [Next]_vars => LockInv'
<1> SUFFICES ASSUME TypeOK, LockInv, [Next]_vars PROVE LockInv'
  OBVIOUS
<1> USE DEF LockInv, LockedStages, TypeOK, StageGoes
<1>1. CASE UNCHANGED <<daemonVars, conn>>
  BY <1>1 DEF daemonVars
<1>2. CASE StartsOne
  BY <1>2 DEF StartsOne, Unused
<1>3. ASSUME NEW c \in Clients, Connect(c) PROVE LockInv'
  BY <1>3 DEF Connect, daemonVars
<1>4. ASSUME NEW d \in Processes, Daemon(d) \/ Fault(d) PROVE LockInv'
  <2>1. CASE Acquire(d)
    <3>1. CASE holders = {}
      BY <2>1, <3>1 DEF Acquire
    <3>2. CASE holders # {}
      BY <2>1, <3>2 DEF Acquire
    <3> QED BY <3>1, <3>2
  <2>2. CASE Detach(d)
    <3>1. <<d, "daemon">> \in holders /\ <<d, "daemon">>[1] = d
      BY <2>2 DEF Detach
    <3>2. \A h \in holders' : h[1] = d
      BY <2>2, <3>1 DEF Detach
    <3>3. \A e \in Processes : <<e, "daemon">> \in holders' <=> <<e, "daemon">> \in holders
      BY <2>2 DEF Detach
    <3>4. \A e \in Processes : stage'[e] \in LockedStages <=> stage[e] \in LockedStages
      BY <2>2 DEF Detach
    <3> QED BY <3>2, <3>3, <3>4
  <2>3. CASE LauncherExits(d)
    BY <2>3 DEF LauncherExits
  <2>4. CASE RemoveSocket(d) \/ BindSocket(d) \/ RemoveRing(d) \/ CreateRing(d)
    BY <2>4 DEF RemoveSocket, BindSocket, RemoveRing, CreateRing
  <2>5. CASE CloseListener(d) \/ DropRing(d) \/ BootFails(d) \/ Stop(d)
    BY <2>5 DEF CloseListener, DropRing, BootFails, Stop
  <2>6. CASE DropLock(d)
    BY <2>6 DEF DropLock
  <2>7. CASE Leave(d)
    BY <2>7 DEF Leave
  <2>8. CASE Kill(d)
    BY <2>8 DEF Kill
  <2> QED BY <1>4, <2>1, <2>2, <2>3, <2>4, <2>5, <2>6, <2>7, <2>8 DEF Daemon, Fault
<1> QED BY <1>1, <1>2, <1>3, <1>4, StepCases

-----------------------------------------------------------------------------
(* The socket file and the ring's name *)

\* A process that holds the lock removes and makes names of its own only.
LEMMA ServedStep == TypeOK /\ LockInv /\ SocketIsServed /\ [Next]_vars => SocketIsServed'
<1> SUFFICES ASSUME TypeOK, LockInv, SocketIsServed, [Next]_vars,
                    NEW e \in Processes, e \in Listening'
             PROVE  socket' = e
  BY DEF SocketIsServed, Listening
<1> USE DEF SocketIsServed, Listening, TypeOK, StageGoes
<1>1. CASE UNCHANGED <<daemonVars, conn>>
  BY <1>1 DEF daemonVars
<1>2. CASE StartsOne
  BY <1>2 DEF StartsOne, Unused
<1>3. ASSUME NEW c \in Clients, Connect(c) PROVE socket' = e
  BY <1>3 DEF Connect, daemonVars
<1>4. ASSUME NEW d \in Processes, Daemon(d) \/ Fault(d) PROVE socket' = e
  <2>1. CASE RemoveSocket(d)
    <3>1. e # d /\ e \in Listening
      BY <2>1 DEF RemoveSocket
    <3>2. stage[d] \in LockedStages /\ stage[e] \in LockedStages
      BY <2>1, <3>1 DEF RemoveSocket, LockedStages
    <3> QED BY <3>1, <3>2, OneHolder
  <2>2. CASE BindSocket(d)
    <3>1. CASE e = d
      BY <2>2, <3>1 DEF BindSocket
    <3>2. CASE e # d
      <4>1. stage[d] \in LockedStages /\ stage[e] \in LockedStages
        BY <2>2, <3>2 DEF BindSocket, LockedStages
      <4> QED BY <3>2, <4>1, OneHolder
    <3> QED BY <3>1, <3>2
  <2>3. CASE Acquire(d) \/ Detach(d) \/ LauncherExits(d)
    BY <2>3 DEF Acquire, Detach, LauncherExits
  <2>4. CASE RemoveRing(d) \/ CreateRing(d) \/ DropRing(d)
    BY <2>4 DEF RemoveRing, CreateRing, DropRing
  <2>5. CASE DropLock(d) \/ Leave(d)
    BY <2>5 DEF DropLock, Leave
  <2>6. CASE BootFails(d) \/ Stop(d) \/ CloseListener(d) \/ Kill(d)
    BY <2>6 DEF BootFails, Stop, CloseListener, Kill
  <2> QED BY <1>4, <2>1, <2>2, <2>3, <2>4, <2>5, <2>6 DEF Daemon, Fault
<1> QED BY <1>1, <1>2, <1>3, <1>4, StepCases

\* The same for the ring, whose owner unlinks it before it lets go of the lock.
LEMMA RingStep == TypeOK /\ LockInv /\ RingIsKept /\ [Next]_vars => RingIsKept'
<1> SUFFICES ASSUME TypeOK, LockInv, RingIsKept, [Next]_vars,
                    NEW e \in Processes, stage'[e] \in {"serving", "told", "stopping"}
             PROVE  name' = e
  BY DEF RingIsKept
<1> USE DEF RingIsKept, TypeOK, StageGoes
<1>1. CASE UNCHANGED <<daemonVars, conn>>
  BY <1>1 DEF daemonVars
<1>2. CASE StartsOne
  BY <1>2 DEF StartsOne, Unused
<1>3. ASSUME NEW c \in Clients, Connect(c) PROVE name' = e
  BY <1>3 DEF Connect, daemonVars
<1>4. ASSUME NEW d \in Processes, Daemon(d) \/ Fault(d) PROVE name' = e
  <2>1. ASSUME e # d, stage[d] \in LockedStages, stage'[e] = stage[e] PROVE FALSE
    <3>1. stage[e] \in LockedStages
      BY <2>1 DEF LockedStages
    <3> QED BY <2>1, <3>1, OneHolder
  <2>2. CASE RemoveRing(d) \/ DropRing(d)
    <3>1. e # d /\ stage[d] \in LockedStages /\ stage'[e] = stage[e]
      BY <2>2 DEF RemoveRing, DropRing, LockedStages
    <3> QED BY <2>1, <3>1
  <2>3. CASE CreateRing(d)
    <3>1. CASE e = d
      BY <2>3, <3>1 DEF CreateRing
    <3>2. CASE e # d
      <4>1. stage[d] \in LockedStages /\ stage'[e] = stage[e]
        BY <2>3, <3>2 DEF CreateRing, LockedStages
      <4> QED BY <2>1, <3>2, <4>1
    <3> QED BY <3>1, <3>2
  <2>4. CASE Acquire(d) \/ Detach(d) \/ LauncherExits(d)
    BY <2>4 DEF Acquire, Detach, LauncherExits
  <2>5. CASE RemoveSocket(d) \/ BindSocket(d)
    BY <2>5 DEF RemoveSocket, BindSocket
  <2>6. CASE DropLock(d) \/ Leave(d)
    BY <2>6 DEF DropLock, Leave
  <2>7. CASE BootFails(d) \/ Stop(d) \/ CloseListener(d) \/ Kill(d)
    BY <2>7 DEF BootFails, Stop, CloseListener, Kill
  <2> QED BY <1>4, <2>2, <2>3, <2>4, <2>5, <2>6, <2>7 DEF Daemon, Fault
<1> QED BY <1>1, <1>2, <1>3, <1>4, StepCases

-----------------------------------------------------------------------------
(* Connections *)

\* Connections go with the runtime, which a process drops on its way out.
LEMMA HostStep == TypeOK /\ HostInv /\ [Next]_vars => HostInv'
<1> SUFFICES ASSUME TypeOK, HostInv, [Next]_vars PROVE HostInv'
  OBVIOUS
<1> USE DEF HostInv, HostingStages, UnhostedStages, TypeOK, StageGoes
<1>1. CASE UNCHANGED <<daemonVars, conn>>
  BY <1>1 DEF daemonVars
<1>2. CASE StartsOne
  BY <1>2 DEF StartsOne, Unused
<1>3. ASSUME NEW c \in Clients, Connect(c) PROVE HostInv'
  <2>1. socket \in Listening => socket \in hosting
    BY DEF Listening
  <2> QED BY <1>3, <2>1 DEF Connect, daemonVars
<1>4. ASSUME NEW d \in Processes, Daemon(d) \/ Fault(d) PROVE HostInv'
  <2>1. UNCHANGED conn
    BY <1>4 DEF Daemon, Fault, clientVars, Acquire, Detach, LauncherExits, RemoveSocket,
                BindSocket, RemoveRing, CreateRing, CloseListener, DropRing, DropLock, Leave,
                BootFails, Stop, Kill
  <2>2. CASE Acquire(d) \/ Detach(d) \/ LauncherExits(d)
    BY <2>1, <2>2 DEF Acquire, Detach, LauncherExits
  <2>3. CASE RemoveSocket(d)
    BY <2>1, <2>3 DEF RemoveSocket
  <2>4. CASE BindSocket(d) \/ RemoveRing(d) \/ CreateRing(d)
    BY <2>1, <2>4 DEF BindSocket, RemoveRing, CreateRing
  <2>5. CASE DropRing(d) \/ DropLock(d)
    BY <2>1, <2>5 DEF DropRing, DropLock
  <2>6. CASE Leave(d)
    BY <2>1, <2>6 DEF Leave
  <2>7. CASE BootFails(d) \/ Stop(d) \/ CloseListener(d)
    BY <2>1, <2>7 DEF BootFails, Stop, CloseListener
  <2>8. CASE Kill(d)
    BY <2>1, <2>8 DEF Kill
  <2> QED BY <1>4, <2>2, <2>3, <2>4, <2>5, <2>6, <2>7, <2>8 DEF Daemon, Fault
<1> QED BY <1>1, <1>2, <1>3, <1>4, StepCases

\* A process that holds its lock and has clients still serves them.
LEMMA UnlockedBeforeHangup == IInv => HangsUpUnlocked
<1> SUFFICES ASSUME IInv, NEW c \in Clients, conn[c] \notin hosting, <<conn[c], "daemon">> \in holders
             PROVE  FALSE
  BY DEF HangsUpUnlocked
<1>1. conn[c] \in Processes
  BY DEF IInv, TypeOK
<1>2. conn[c] # None
  BY <1>1 DEF None, Processes
<1>3. stage[conn[c]] = "left"
  BY <1>2 DEF IInv, HostInv
<1> QED BY <1>1, <1>3 DEF IInv, LockInv, LockedStages

-----------------------------------------------------------------------------
\* The inductive invariant.
LEMMA Invariant == Spec => []IInv
<1>1. Init => IInv
  BY InitInv
<1>2. IInv /\ [Next]_vars => IInv'
  BY TypeStep, LockStep, ServedStep, RingStep, HostStep DEF IInv
<1> QED BY <1>1, <1>2, PTL DEF Spec

\* Types, and the bound on reconnect attempts.
THEOREM TypeCorrect == Spec => []TypeOK
<1>1. IInv => TypeOK
  BY DEF IInv
<1> QED BY <1>1, Invariant, PTL

\* The socket file leads to whoever listens: no start, failed boot, shutdown or
\* crash of another process takes it away.
THEOREM ServesItsSocket == Spec => []SocketIsServed
<1>1. IInv => SocketIsServed
  BY DEF IInv
<1> QED BY <1>1, Invariant, PTL

\* The name of the PCM ring leads to the ring of the daemon that serves.
THEOREM KeepsItsRing == Spec => []RingIsKept
<1>1. IInv => RingIsKept
  BY DEF IInv
<1> QED BY <1>1, Invariant, PTL

\* By the time a client sees end of file, the daemon it lost holds no lock.
THEOREM FreesItsLockFirst == Spec => []HangsUpUnlocked
<1> QED BY UnlockedBeforeHangup, Invariant, PTL

\* The socket's path and the ring's name stay those of the daemon that serves, however
\* many launchers race.
THEOREM KeepsItsNames == Spec => []NamesAreKept
BY TypeCorrect, ServesItsSocket, KeepsItsRing, PTL DEF NamesAreKept
=============================================================================
