----------------------------- MODULE IdleTimer -----------------------------
(***************************************************************************)
(* The idle-exit timer (daemon/idle_timer.rs) under the threads that call  *)
(* it: one task per connection (on_connect and on_disconnect of the        *)
(* control server) and the idle loop of DaemonEventLoop::run.  The count   *)
(* is one atomic and idle_since one mutex, but nothing holds both, so each *)
(* access is a step.                                                       *)
(*                                                                         *)
(* Instants are kept as ages, which the clock advances together and which  *)
(* stop growing at Window: the code only ever compares an age to Window.   *)
(***************************************************************************)
EXTENDS Integers, FiniteSets

CONSTANTS
  Clients,     \* connection tasks alive at the same time
  Window       \* the idle window, in clock steps

ASSUME ClientsAssumption == IsFiniteSet(Clients)
ASSUME WindowAssumption == Window \in Nat \ {0}

VARIABLES
  count,       \* client_count
  since,       \* age of idle_since, Unset when None
  task,        \* where each connection task is
  stamp,       \* age of the instant a disconnecting task is about to store
  tick,        \* where the idle loop is in tick()
  start,       \* age of the idle_since it has read
  stop,        \* the daemon's stop flag
  expired,     \* tick() returned Expired
  quiet,       \* (history) age of the last moment a client was connected
  arrived,     \* (history) a client has connected since tick() loaded the count
  overlap      \* (history) a client connected while the last one was still leaving

vars == <<count, since, task, stamp, tick, start, stop, expired, quiet, arrived, overlap>>
timerVars == <<tick, start, stop, expired>>

Unset == -1
Ages == 0 .. Window

Init ==
  /\ count = 0
  /\ since = 0
  /\ task = [c \in Clients |-> "out"]
  /\ stamp = [c \in Clients |-> 0]
  /\ tick = "load"
  /\ start = 0
  /\ stop = FALSE
  /\ expired = FALSE
  /\ quiet = 0
  /\ arrived = FALSE
  /\ overlap = FALSE

\* Connections that have been counted and not yet uncounted.
Connected == {c \in Clients : task[c] \in {"clear", "in"}}
TaskGoes(c, from, to) == task[c] = from /\ task' = [task EXCEPT ![c] = to]

-----------------------------------------------------------------------------
(* on_client_connected *)

CountUp(c) ==
  /\ TaskGoes(c, "out", "clear")
  /\ count' = count + 1
  /\ quiet' = 0
  /\ arrived' = TRUE
  /\ overlap' = (overlap \/ \E d \in Clients : task[d] \in {"clock", "store"})
  /\ UNCHANGED <<since, stamp, timerVars>>

ClearSince(c) ==
  /\ TaskGoes(c, "clear", "in")
  /\ since' = Unset
  /\ UNCHANGED <<count, stamp, timerVars, quiet, arrived, overlap>>

-----------------------------------------------------------------------------
(* on_client_disconnected *)

\* Only the task that takes the count to zero goes on to start the countdown.
CountDown(c) ==
  /\ task[c] = "in"
  /\ count' = count - 1
  /\ task' = [task EXCEPT ![c] = IF count = 1 THEN "clock" ELSE "out"]
  /\ UNCHANGED <<since, stamp, timerVars, quiet, arrived, overlap>>

\* The right-hand side, clock.now(), is evaluated before the lock is taken.
ReadClock(c) ==
  /\ TaskGoes(c, "clock", "store")
  /\ stamp' = [stamp EXCEPT ![c] = 0]
  /\ UNCHANGED <<count, since, timerVars, quiet, arrived, overlap>>

\* Defect: never starts the countdown afresh once a client has been seen.
StoreSinceIfSet(c) ==
  /\ TaskGoes(c, "store", "out")
  /\ since' = IF since = Unset THEN Unset ELSE stamp[c]
  /\ UNCHANGED <<count, stamp, timerVars, quiet, arrived, overlap>>

StoreSince(c) ==
  /\ TaskGoes(c, "store", "out")
  /\ since' = stamp[c]
  /\ UNCHANGED <<count, stamp, timerVars, quiet, arrived, overlap>>

-----------------------------------------------------------------------------
(* tick, called by the idle loop every 500 ms until stop *)

\* Defect: looks at the countdown without looking at the count.
LoadCountIgnored ==
  /\ tick = "load"
  /\ ~ stop
  /\ tick' = "read"
  /\ arrived' = FALSE
  /\ UNCHANGED <<count, since, task, stamp, start, stop, expired, quiet, overlap>>

LoadCount ==
  /\ tick = "load"
  /\ ~ stop
  /\ tick' = IF count > 0 THEN "load" ELSE "read"
  /\ arrived' = FALSE
  /\ UNCHANGED <<count, since, task, stamp, start, stop, expired, quiet, overlap>>

ReadSince ==
  /\ tick = "read"
  /\ tick' = IF since = Unset THEN "load" ELSE "compare"
  /\ start' = IF since = Unset THEN start ELSE since
  /\ UNCHANGED <<count, since, task, stamp, stop, expired, quiet, arrived, overlap>>

NotYet ==
  /\ tick = "compare"
  /\ start < Window
  /\ tick' = "load"
  /\ UNCHANGED <<count, since, task, stamp, start, stop, expired, quiet, arrived, overlap>>

Expire ==
  /\ tick = "compare"
  /\ start >= Window
  /\ tick' = "done"
  /\ expired' = TRUE
  /\ stop' = TRUE
  /\ UNCHANGED <<count, since, task, stamp, start, quiet, arrived, overlap>>

\* SIGINT or SIGTERM, relayed by the clitunesd-signal thread.
Signal ==
  /\ ~ stop
  /\ stop' = TRUE
  /\ UNCHANGED <<count, since, task, stamp, tick, start, expired, quiet, arrived, overlap>>

-----------------------------------------------------------------------------
Older(age) == IF age < Window THEN age + 1 ELSE age

\* Time passes until the daemon has decided.
ClockAdvances ==
  /\ ~ expired
  /\ since' = IF since = Unset THEN Unset ELSE Older(since)
  /\ stamp' = [c \in Clients |-> Older(stamp[c])]
  /\ start' = Older(start)
  /\ quiet' = IF Connected = {} THEN Older(quiet) ELSE 0
  /\ UNCHANGED <<count, task, tick, stop, expired, arrived, overlap>>

Tick == LoadCount \/ ReadSince \/ NotYet \/ Expire
Callback(c) == ClearSince(c) \/ ReadClock(c) \/ StoreSince(c)

Next ==
  \/ \E c \in Clients : CountUp(c) \/ CountDown(c) \/ Callback(c)
  \/ Tick
  \/ Signal
  \/ ClockAdvances

Spec == Init /\ [][Next]_vars

\* Callbacks run to their end, the idle loop keeps ticking and time passes;
\* clients come and go as they please.
Fairness ==
  /\ WF_vars(Tick)
  /\ WF_vars(ClockAdvances)
  /\ \A c \in Clients : WF_vars(Callback(c))

FairSpec == Spec /\ Fairness

-----------------------------------------------------------------------------
(* Properties *)

\* Types; the count never underflows, whatever the order of the callbacks.
TypeOK ==
  /\ count \in 0 .. Cardinality(Clients)
  /\ since \in Ages \cup {Unset}
  /\ task \in [Clients -> {"out", "clear", "in", "clock", "store"}]
  /\ stamp \in [Clients -> Ages]
  /\ tick \in {"load", "read", "compare", "done"}
  /\ start \in Ages
  /\ stop \in BOOLEAN
  /\ expired \in BOOLEAN
  /\ quiet \in Ages
  /\ arrived \in BOOLEAN
  /\ overlap \in BOOLEAN

\* A daemon with no client and no callback under way has a countdown running:
\* the "defensive" None of tick() is never what an idle daemon is left with.
CountdownRuns ==
  (\A c \in Clients : task[c] = "out") => since # Unset

\* idle_timer.rs:3-6: the daemon exits if the window "elapses with no new
\* client" and "A new connection inside the window cancels the countdown".
\* When tick() says Expired, the last client left a whole window ago, unless
\* one arrived while tick() was running.  Without the last disjunct it fails:
\* a client that leaves can store a stale instant over a newer one's.
NoEarlyExit == expired => quiet >= Window \/ arrived \/ overlap

\* A daemon that is left alone for good stops.
LeftAloneStops == <>[](\A c \in Clients : task[c] = "out") => <>stop

\* The countdown is there when it must be and over when it may be: CountdownRuns and
\* NoEarlyExit, with the types.
CountdownIsSound == TypeOK /\ CountdownRuns /\ NoEarlyExit
=============================================================================
