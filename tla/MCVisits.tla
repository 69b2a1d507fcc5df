------------------------------ MODULE MCVisits ------------------------------
(***************************************************************************)
(* Clients that come, ask and leave: what their coming and going does to   *)
(* the idle timer (IdleTimer), and how one of them gets its answer         *)
(* (Headless).  A behaviour is one of one of them, for TLC.                *)
(***************************************************************************)
EXTENDS IdleTimer, Sequences

CONSTANTS Patience, QueueSize, BusSize, MaxOthers, MaxNews

ASSUME OneShotAssumption == Patience \in Nat /\ QueueSize \in Nat /\ BusSize \in Nat

VARIABLES
  side, \* "timer" or "client"
  request, phase, outcome, spent, printed, shown, wire, daemon, listed, queue, line, doing, step,
  lastState, changes, toSay, mine, bus, verdict, known, others, news

OneShot == INSTANCE Headless

oneShotVars ==
  <<request, phase, outcome, spent, printed, shown, wire, daemon, listed, queue, line, doing, step,
    lastState, changes, toSay, mine, bus, verdict, known, others, news>>
sideVars == <<side, vars, oneShotVars>>

SideInit ==
  /\ side \in {"timer", "client"}
  /\ Init /\ OneShot!Init
  /\ side = "timer" => request = "play"
TimerNext == side = "timer" /\ Next /\ UNCHANGED <<side, oneShotVars>>
OneShotNext == side = "client" /\ OneShot!Next /\ UNCHANGED <<side, vars>>
SideNext == TimerNext \/ OneShotNext

\* The fairness of each module, for the side that runs.
TimerFairness ==
  /\ WF_vars(side = "timer" /\ Tick)
  /\ WF_vars(side = "timer" /\ ClockAdvances)
  /\ \A c \in Clients : WF_vars(side = "timer" /\ Callback(c))
OneShotFairness == WF_oneShotVars(side = "client" /\ OneShot!Attempt)

SideSpec == SideInit /\ [][SideNext]_sideVars /\ TimerFairness /\ OneShotFairness

-----------------------------------------------------------------------------
(* The properties of IdleTimer, and those of Headless.                    *)

\* IdleTimer: a daemon that clients have left alone stops.
DesertedStops == side = "timer" => LeftAloneStops

\* Headless: the client reports what became of its own verb, and results that had left
\* the event channel when it was acknowledged have been printed.
AnswerIsWhole == OneShot!AnswerIsWhole

\* Headless: `status` is not behind what the daemon had settled when it was asked.
StatusIsRecent == OneShot!StatusIsRecent

\* Headless: the client ends whatever the daemon does.
OneShotEnds == OneShot!OneShotEnds
=============================================================================
