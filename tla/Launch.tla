------------------------------ MODULE Launch ------------------------------
(***************************************************************************)
(* How clients find, start and lose the daemon (auto_spawn.rs and          *)
(* reconnect.rs of the client; main.rs, singleton.rs, lifecycle.rs and     *)
(* DaemonEventLoop::run of the daemon; the names of ShmRegion).            *)
(*                                                                         *)
(* Every clitunesd process works its way through the same stages, and any  *)
(* number of them may be on their way at once: what keeps them apart is    *)
(* the flock.  The socket file and the shared-memory name are one word     *)
(* each, naming the process whose listener or ring they lead to, so a step *)
(* that removes or replaces one does it to whoever owns it.  All processes *)
(* share one runtime directory.                                            *)
(*                                                                         *)
(* A process number is used again once nothing refers to it any more.      *)
(***************************************************************************)
EXTENDS Integers, FiniteSets

CONSTANTS
  Clients,       \* clients of the TUI or pane kind
  MaxProcesses,  \* bound on daemon processes that are around or referred to
  MaxAttempts,   \* MAX_RECONNECT_ATTEMPTS
  MaxFaults,     \* bound on stops, kills and failed boots
  MaxVerbs,      \* bound on verbs sent to a stopping daemon or while reconnecting
  Punctual       \* boots, shutdowns and launchers' exits take less than two seconds

ASSUME ProcessesAssumption == MaxProcesses \in Nat \ {0}
ASSUME AttemptsAssumption == MaxAttempts \in Nat \ {0}
ASSUME BoundAssumption == MaxFaults \in Nat /\ MaxVerbs \in Nat
ASSUME PunctualAssumption == Punctual \in BOOLEAN

VARIABLES
  stage,     \* how far each daemon process has come
  holders,   \* descriptors open on the locked description, <<process, copy>>
  socket,    \* process whose bind made the socket file, None when absent
  name,      \* process whose ring the shared-memory name leads to
  hosting,   \* processes whose runtime keeps connections open
  refusing,  \* processes whose dispatcher has told a client of the shutdown and gone
  cut,       \* clients whose session the daemon has ended by itself
  client,    \* where each client is
  attempt,   \* reconnect attempt it is in, 0 during its launch
  conn,      \* process its connection leads to
  tap,       \* process whose ring it has mapped
  fresh,     \* recv_event has reconnected and waits for its first event
  faults,    \* stops, kills and failed boots so far
  verbs      \* verbs sent to a stopping daemon or while reconnecting

daemonVars == <<stage, holders, socket, name, hosting>>
sessionVars == <<refusing, cut>>
clientVars == <<client, attempt, conn, tap, fresh>>
vars == <<daemonVars, sessionVars, clientVars, faults, verbs>>

None == 0
Processes == 1 .. MaxProcesses

Init ==
  /\ stage = [d \in Processes |-> "none"]
  /\ holders = {}
  /\ socket = None
  /\ name = None
  /\ hosting = {}
  /\ refusing = {}
  /\ cut = {}
  /\ client = [c \in Clients |-> "off"]
  /\ attempt = [c \in Clients |-> 0]
  /\ conn = [c \in Clients |-> None]
  /\ tap = [c \in Clients |-> None]
  /\ fresh = [c \in Clients |-> FALSE]
  /\ faults = 0
  /\ verbs = 0

StageGoes(d, from, to) == stage[d] = from /\ stage' = [stage EXCEPT ![d] = to]

\* Processes whose listener takes connections, into its backlog at least.
Listening == {d \in Processes : stage[d] \in {"bound", "ringless", "serving", "told"}}

-----------------------------------------------------------------------------
(* A daemon process, from the flock to its exit *)

\* flock(LOCK_EX | LOCK_NB): the loser exits 0 without a word.
Acquire(d) ==
  /\ stage[d] = "started"
  /\ IF holders = {}
     THEN /\ stage' = [stage EXCEPT ![d] = "locked"]
          /\ holders' = {<<d, "daemon">>}
     ELSE /\ stage' = [stage EXCEPT ![d] = "left"]
          /\ UNCHANGED holders
  /\ UNCHANGED <<socket, name, hosting, sessionVars, clientVars, faults, verbs>>

\* fork: the launcher's copy of the descriptor shares the lock.
Detach(d) ==
  /\ StageGoes(d, "locked", "detached")
  /\ holders' = holders \cup {<<d, "launcher">>}
  /\ UNCHANGED <<socket, name, hosting, sessionVars, clientVars, faults, verbs>>

\* Defect: dropping a DaemonLock unlocks the description.
LauncherExitsUnlocking(d) ==
  /\ <<d, "launcher">> \in holders
  /\ holders' = {}
  /\ UNCHANGED <<stage, socket, name, hosting, sessionVars, clientVars, faults, verbs>>

\* Dropping a DaemonLock closes a descriptor, the last of which frees the lock.
LauncherExits(d) ==
  /\ <<d, "launcher">> \in holders
  /\ holders' = holders \ {<<d, "launcher">>}
  /\ UNCHANGED <<stage, socket, name, hosting, sessionVars, clientVars, faults, verbs>>

\* Configuration, pidfile, signals and runtime; then bind clears the path.
RemoveSocket(d) ==
  /\ StageGoes(d, "detached", "unlinked")
  /\ socket' = None
  /\ hosting' = hosting \cup {d}
  /\ UNCHANGED <<holders, name, sessionVars, clientVars, faults, verbs>>

BindSocket(d) ==
  /\ StageGoes(d, "unlinked", "bound")
  /\ socket = None
  /\ socket' = d
  /\ UNCHANGED <<holders, name, hosting, sessionVars, clientVars, faults, verbs>>

RemoveRing(d) ==
  /\ StageGoes(d, "bound", "ringless")
  /\ name' = None
  /\ UNCHANGED <<holders, socket, hosting, sessionVars, clientVars, faults, verbs>>

\* O_CREAT | O_EXCL; the accept loop starts after it.
CreateRing(d) ==
  /\ StageGoes(d, "ringless", "serving")
  /\ name = None
  /\ name' = d
  /\ UNCHANGED <<holders, socket, hosting, sessionVars, clientVars, faults, verbs>>

\* The configuration does not load, the socket cannot be bound (or its path is
\* taken) or the ring cannot be made: run returns early, the listener is dropped.
BootFails(d) ==
  /\ stage[d] \in {"detached", "unlinked", "bound", "ringless"}
  /\ faults < MaxFaults
  /\ faults' = faults + 1
  /\ stage' = [stage EXCEPT ![d] = "closed"]
  /\ UNCHANGED <<holders, socket, name, hosting, sessionVars, clientVars, verbs>>

\* A signal or the idle timer: stop is set, the idle loop sees it within 500 ms.
Stop(d) ==
  /\ StageGoes(d, "serving", "told")
  /\ faults < MaxFaults
  /\ faults' = faults + 1
  /\ UNCHANGED <<holders, socket, name, hosting, sessionVars, clientVars, verbs>>

\* select! drops the server; accepted connections have tasks of their own.
CloseListener(d) ==
  /\ StageGoes(d, "told", "stopping")
  /\ UNCHANGED <<holders, socket, name, hosting, sessionVars, clientVars, faults, verbs>>

\* Defect: the event loop takes its connections down with it.
DropRingAndClients(d) ==
  /\ StageGoes(d, "stopping", "closed")
  /\ name' = None
  /\ hosting' = hosting \ {d}
  /\ UNCHANGED <<holders, socket, sessionVars, clientVars, faults, verbs>>

\* Connect and the source thread have ended; the region unlinks its name.
DropRing(d) ==
  /\ StageGoes(d, "stopping", "closed")
  /\ name' = None
  /\ UNCHANGED <<holders, socket, hosting, sessionVars, clientVars, faults, verbs>>

DropLock(d) ==
  /\ StageGoes(d, "closed", "unlocked")
  /\ holders' = holders \ {<<d, "daemon">>}
  /\ UNCHANGED <<socket, name, hosting, sessionVars, clientVars, faults, verbs>>

\* run returns; the runtime goes last, and every connection with it.
Leave(d) ==
  /\ StageGoes(d, "unlocked", "left")
  /\ hosting' = hosting \ {d}
  /\ refusing' = refusing \ {d}
  /\ UNCHANGED <<holders, socket, name, cut, clientVars, faults, verbs>>

\* SIGKILL or a crash: the kernel closes everything, the names stay.
Kill(d) ==
  /\ stage[d] \notin {"none", "left"}
  /\ faults < MaxFaults
  /\ faults' = faults + 1
  /\ stage' = [stage EXCEPT ![d] = "left"]
  /\ holders' = holders \ {<<d, "daemon">>}
  /\ hosting' = hosting \ {d}
  /\ refusing' = refusing \ {d}
  /\ UNCHANGED <<socket, name, cut, clientVars, verbs>>

-----------------------------------------------------------------------------
(* connect_or_spawn *)

ClientGoes(c, from, to) == client[c] = from /\ client' = [client EXCEPT ![c] = to]

Start(c) ==
  /\ ClientGoes(c, "off", "probing")
  /\ UNCHANGED <<daemonVars, sessionVars, attempt, conn, tap, fresh, faults, verbs>>

\* Defect: only a missing socket file means that there is no daemon.
ProbeRefusedIsAnError(c) ==
  /\ IF socket \in Listening THEN ClientGoes(c, "probing", "connecting")
     ELSE IF socket = None THEN ClientGoes(c, "probing", "spawning")
     ELSE ClientGoes(c, "probing", "missed")
  /\ UNCHANGED <<daemonVars, sessionVars, attempt, conn, tap, fresh, faults, verbs>>

\* try_connect: no socket file, or one nobody listens on, means no daemon.
Probe(c) ==
  /\ ClientGoes(c, "probing", IF socket \in Listening THEN "connecting" ELSE "spawning")
  /\ UNCHANGED <<daemonVars, sessionVars, attempt, conn, tap, fresh, faults, verbs>>

Unused ==
  {d \in Processes : /\ stage[d] \in {"none", "left"}
                     /\ d \notin {socket, name}
                     /\ <<d, "launcher">> \notin holders
                     /\ \A c \in Clients : d \notin {conn[c], tap[c]}}
NextProcess == CHOOSE d \in Unused : TRUE

Spawn(c) ==
  /\ ClientGoes(c, "spawning", "polling")
  /\ Unused # {}
  /\ stage' = [stage EXCEPT ![NextProcess] = "started"]
  /\ UNCHANGED <<holders, socket, name, hosting, sessionVars, attempt, conn, tap, fresh, faults, verbs>>

Poll(c) ==
  /\ ClientGoes(c, "polling", "connecting")
  /\ socket \in Listening
  /\ UNCHANGED <<daemonVars, sessionVars, attempt, conn, tap, fresh, faults, verbs>>

\* No process is on its way up or down.
Settled ==
  /\ \A d \in Processes : stage[d] \in {"none", "left"}
  /\ holders = {}

\* Defect: the socket is looked for once, not until the deadline.
PollOnce(c) ==
  /\ ClientGoes(c, "polling", "missed")
  /\ UNCHANGED <<daemonVars, sessionVars, attempt, conn, tap, fresh, faults, verbs>>

\* SpawnTimeout
PollExpires(c) ==
  /\ ClientGoes(c, "polling", "missed")
  /\ Punctual => Settled
  /\ UNCHANGED <<daemonVars, sessionVars, attempt, conn, tap, fresh, faults, verbs>>

-----------------------------------------------------------------------------
(* ControlSession::connect, after the probe's stream was dropped *)

Connect(c) ==
  /\ ClientGoes(c, "connecting", IF socket \in Listening THEN "greeting" ELSE "missed")
  /\ conn' = [conn EXCEPT ![c] = IF socket \in Listening THEN socket ELSE @]
  /\ cut' = cut \ {c}
  /\ UNCHANGED <<daemonVars, refusing, attempt, tap, fresh, faults, verbs>>

\* The daemon accepts and sends its banner.  A launch goes on with
\* request_status, a reconnecting client is back and has told its render loop.
Greet(c) ==
  /\ ClientGoes(c, "greeting", IF attempt[c] = 0 THEN "asking" ELSE "up")
  /\ stage[conn[c]] \in {"serving", "told"}
  /\ fresh' = [fresh EXCEPT ![c] = attempt[c] # 0]
  /\ attempt' = [attempt EXCEPT ![c] = 0]
  /\ UNCHANGED <<daemonVars, sessionVars, conn, tap, faults, verbs>>

\* The listener goes with the connection still in its backlog.
Reset(c) ==
  /\ ClientGoes(c, "greeting", "missed")
  /\ conn[c] \notin Listening
  /\ UNCHANGED <<daemonVars, sessionVars, attempt, conn, tap, fresh, faults, verbs>>

\* A launch gives up at once, reconnect_loop after its last attempt.
Missed(c) ==
  /\ client[c] = "missed"
  /\ IF attempt[c] = 0 THEN ClientGoes(c, "missed", "failed") /\ UNCHANGED attempt
     ELSE IF attempt[c] = MaxAttempts THEN ClientGoes(c, "missed", "deaf") /\ UNCHANGED attempt
     ELSE /\ ClientGoes(c, "missed", "probing")
          /\ attempt' = [attempt EXCEPT ![c] = @ + 1]
  /\ UNCHANGED <<daemonVars, sessionVars, conn, tap, fresh, faults, verbs>>

HungUp(c) == conn[c] \notin hosting \/ c \in cut

\* The answer to `status`.  A daemon that is stopping has none, and nobody is
\* reconnecting yet, so it is fatal, as is end of file.
WaitPcmTap(c) ==
  /\ ClientGoes(c, "asking", IF stage[conn[c]] = "serving" THEN "tapping" ELSE "failed")
  /\ refusing' = IF stage[conn[c]] = "serving" THEN refusing
                 ELSE refusing \cup ({conn[c]} \cap hosting)
  /\ UNCHANGED <<daemonVars, cut, attempt, conn, tap, fresh, faults, verbs>>

OpenConsumer(c) ==
  /\ ClientGoes(c, "tapping", IF name = None THEN "failed" ELSE "up")
  /\ tap' = [tap EXCEPT ![c] = name]
  /\ UNCHANGED <<daemonVars, sessionVars, attempt, conn, fresh, faults, verbs>>

-----------------------------------------------------------------------------
(* The bridge of a client that is up *)

\* The dispatcher answers the first verb after stop with an error and goes; the
\* sessions of those who send another one are ended.
VerbWhileStopping(c) ==
  /\ client[c] = "up"
  /\ ~ HungUp(c)
  /\ stage[conn[c]] # "serving"
  /\ verbs < MaxVerbs
  /\ verbs' = verbs + 1
  /\ refusing' = refusing \cup {conn[c]}
  /\ cut' = IF conn[c] \in refusing THEN cut \cup {c} ELSE cut
  /\ fresh' = [fresh EXCEPT ![c] = FALSE]
  /\ UNCHANGED <<daemonVars, client, attempt, conn, tap, faults>>

\* An event, or a verb that makes select! drop recv_event and call it again.
Hear(c) ==
  /\ client[c] = "up"
  /\ fresh[c]
  /\ ~ HungUp(c)
  /\ fresh' = [fresh EXCEPT ![c] = FALSE]
  /\ UNCHANGED <<daemonVars, sessionVars, client, attempt, conn, tap, faults, verbs>>

\* End of file: reconnect_loop, unless it is the first thing recv_event hears
\* after it has reconnected.
EndOfFile(c) ==
  /\ HungUp(c)
  /\ ClientGoes(c, "up", IF fresh[c] THEN "deaf" ELSE "probing")
  /\ attempt' = [attempt EXCEPT ![c] = IF fresh[c] THEN 0 ELSE 1]
  /\ fresh' = [fresh EXCEPT ![c] = FALSE]
  /\ UNCHANGED <<daemonVars, sessionVars, conn, tap, faults, verbs>>

\* A verb drops the recv_event that is reconnecting: it is lost on the dead
\* connection, and the next recv_event finds end of file and starts over.  A
\* blocking task that was about to spawn goes on without its client.
Interrupt(c) ==
  /\ attempt[c] > 0
  /\ client[c] # "deaf"
  /\ verbs < MaxVerbs
  /\ verbs' = verbs + 1
  /\ client' = [client EXCEPT ![c] = "probing"]
  /\ attempt' = [attempt EXCEPT ![c] = 1]
  /\ IF client[c] = "spawning" /\ Unused # {}
     THEN stage' = [stage EXCEPT ![NextProcess] = "started"]
     ELSE UNCHANGED stage
  /\ UNCHANGED <<holders, socket, name, hosting, sessionVars, conn, tap, fresh, faults>>

-----------------------------------------------------------------------------
Daemon(d) ==
  \/ Acquire(d) \/ Detach(d) \/ LauncherExits(d)
  \/ RemoveSocket(d) \/ BindSocket(d) \/ RemoveRing(d) \/ CreateRing(d)
  \/ CloseListener(d) \/ DropRing(d) \/ DropLock(d) \/ Leave(d)

Client(c) ==
  \/ Probe(c) \/ Spawn(c) \/ Poll(c) \/ PollExpires(c)
  \/ Connect(c) \/ Greet(c) \/ Reset(c) \/ Missed(c)
  \/ WaitPcmTap(c) \/ OpenConsumer(c) \/ Hear(c) \/ EndOfFile(c)

Fault(d) == BootFails(d) \/ Stop(d) \/ Kill(d)

Next ==
  \/ \E d \in Processes : Daemon(d) \/ Fault(d)
  \/ \E c \in Clients : Client(c) \/ Start(c) \/ VerbWhileStopping(c) \/ Interrupt(c)

Spec == Init /\ [][Next]_vars

\* Processes and tasks run; nobody has to start a client, stop a daemon or type.
Fairness ==
  /\ \A d \in Processes : WF_vars(Daemon(d)) /\ WF_vars(LauncherExits(d))
  /\ \A c \in Clients : WF_vars(Client(c))

FairSpec == Spec /\ Fairness

-----------------------------------------------------------------------------
(* Properties *)

Stages == {"none", "started", "locked", "detached", "unlinked", "bound", "ringless",
           "serving", "told", "stopping", "closed", "unlocked", "left"}

\* Types; a client never makes more than MAX_RECONNECT_ATTEMPTS.
TypeOK ==
  /\ stage \in [Processes -> Stages]
  /\ holders \subseteq Processes \X {"daemon", "launcher"}
  /\ {socket, name} \subseteq Processes \cup {None}
  /\ {hosting, refusing} \subseteq SUBSET Processes
  /\ cut \subseteq Clients
  /\ client \in [Clients -> {"off", "probing", "spawning", "polling", "connecting", "greeting",
                             "missed", "asking", "tapping", "up", "failed", "deaf"}]
  /\ attempt \in [Clients -> 0 .. MaxAttempts]
  /\ conn \in [Clients -> Processes \cup {None}]
  /\ tap \in [Clients -> Processes \cup {None}]
  /\ fresh \in [Clients -> BOOLEAN]
  /\ faults \in 0 .. MaxFaults
  /\ verbs \in 0 .. MaxVerbs

\* guide/reference/security.md:34-35: the flock keeps a second daemon off the
\* socket path.  The path leads to whoever listens, so no process, be it
\* booting, failing or leaving, takes it from a live one.
SocketIsServed == \A d \in Listening : socket = d

\* The ring's name leads to the ring of the daemon that serves, until that
\* daemon unlinks it: neither the clean-up of a booting process nor the Drop of
\* a leaving one (spmc_ring.rs:506-519, by name) hits the ring of another.
RingIsKept == \A d \in Processes : stage[d] \in {"serving", "told", "stopping"} => name = d

\* A client whose connection goes with the daemon's runtime never races that
\* daemon: its lock is free by then (main.rs drops the lock before the runtime),
\* so what the reconnecting client spawns is not turned away on its account.
\* One that insists on sending verbs is cut off earlier.
HangsUpUnlocked ==
  \A c \in Clients : conn[c] \notin hosting => <<conn[c], "daemon">> \notin holders

\* Left alone, a client that starts gets a daemon, its answer and its ring,
\* however many others start and spawn at the same time.
LaunchSucceeds == \A c \in Clients : (client[c] = "probing") ~> (client[c] = "up" \/ faults > 0)

\* A client that loses its daemon to a stop or a crash is up again, unless there
\* is a second fault or it has only just reconnected and heard nothing since
\* (recv_event then gives up at once).
Reconnects ==
  \A c \in Clients :
    (client[c] = "up" /\ HungUp(c) /\ ~ fresh[c])
      ~> ((client[c] = "up" /\ ~ HungUp(c)) \/ faults > 1)

\* guide/explanation/architecture.md:49-51: the daemon writes its frames into
\* the ring it creates, and "each client maps the same region".  The code does
\* not keep it: a client that has reconnected goes on reading the ring of the
\* daemon it lost (README, Findings).
TapsItsDaemon ==
  \A c \in Clients :
    (client[c] = "up") ~> (tap[c] = conn[c] \/ HungUp(c) \/ client[c] # "up")

\* The two names of a daemon lead to it: SocketIsServed and RingIsKept, with the types.
NamesAreKept == TypeOK /\ SocketIsServed /\ RingIsKept
=============================================================================
