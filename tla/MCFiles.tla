------------------------------ MODULE MCFiles ------------------------------
(***************************************************************************)
(* The three sets of files the program keeps between its runs: the state   *)
(* of the client (StateFile), the log of the daemon (RotatingLog) and the  *)
(* cache of the mirrors (Mirrors).  They share no file, so a behaviour is  *)
(* one of one of them, for TLC; names that they share get a prefix.        *)
(***************************************************************************)
EXTENDS Integers, Sequences, TLC

CONSTANTS Clients, Stations, TapTries, MaxPicks, MaxMishaps
CONSTANTS MaxBytes, MaxBackups, Sizes, MaxLines, LogFaults
CONSTANTS SrvAnswers, BAKED_IN_MIRRORS, Ttl, MaxMirrorsTried, Horizon, Settings, MaxAsks, MirrorFaults

VARIABLES
  kept, \* which of them it is about
  file, disk, temp, pc, choice, seen, waited, intent, picked, latest, expected, spoilt, picks, mishaps,
  files, handle, written, logPc, slot, size, lines, vanished, logFaults,
  now, off, cache, lookup, srv, mirrors, from, tried, result, asks, mirrorFaults, answered, missed, saved, replies

\* A client that waits for the ring asks for it once at least; a station is none
\* of the words that stand beside stations.
ASSUME StateAssumption ==
  /\ TapTries \in Nat \ {0}
  /\ \A word \in {"none", "part", "junk", "binary", "unknown", "picker", "tone"} : word \notin Stations

\* Clients that resume, that want the last radio station, that choose a station and
\* that choose the tone.
Choices == {[source |-> "auto", station |-> "none"], [source |-> "radio", station |-> "none"],
            [source |-> "tone", station |-> "none"]}
           \cup {[source |-> "radio", station |-> s] : s \in Stations}

\* A line has a length, and a log room for something.
ASSUME LogAssumption ==
  /\ Sizes \subseteq Nat \ {0}
  /\ MaxBytes \in Nat \ {0} /\ MaxBackups \in Nat

\* Two answers of DNS, one with ties.
Rec(h, p, w) == [host |-> h, priority |-> p, weight |-> w]
TwoAnswers == {<<Rec("a", 1, 1), Rec("b", 0, 1), Rec("c", 0, 2), Rec("d", 1, 1)>>,
               <<Rec("c", 0, 0)>>}
Baked == <<Rec("de", 0, 0), Rec("fi", 1, 0), Rec("nl", 2, 0), Rec("at", 3, 0)>>
AheadOrBehind == {-1, 0, 3}

\* SRV records carry two numbers; somebody is always there to be asked.
SrvRecords == [host : STRING, priority : Nat, weight : Nat]
ASSUME MirrorsAssumption ==
  /\ SrvAnswers \subseteq Seq(SrvRecords) \ {<<>>}
  /\ BAKED_IN_MIRRORS \in Seq(SrvRecords) \ {<<>>}
  /\ MaxMirrorsTried \in Nat \ {0} /\ Horizon \in Nat /\ Ttl \in Nat
  /\ Settings \subseteq Int /\ 0 \in Settings

State == INSTANCE StateFile
Log == INSTANCE RotatingLog WITH pc <- logPc, faults <- logFaults, MaxFaults <- LogFaults
Cache == INSTANCE Mirrors WITH
  pc <- lookup, faults <- mirrorFaults, MaxFaults <- MirrorFaults

stateVars ==
  <<file, disk, temp, pc, choice, seen, waited, intent, picked, latest, expected, spoilt, picks, mishaps>>
logVars == <<files, handle, written, logPc, slot, size, lines, vanished, logFaults>>
cacheVars ==
  <<now, off, cache, lookup, srv, mirrors, from, tried, result, asks, mirrorFaults, answered, missed, saved, replies>>
vars == <<kept, stateVars, logVars, cacheVars>>

Init ==
  /\ State!Init /\ Log!Init /\ Cache!Init
  /\ kept \in {"state", "log", "cache"}

StateNext == kept = "state" /\ State!Next /\ UNCHANGED <<kept, logVars, cacheVars>>
LogNext == kept = "log" /\ Log!Next /\ UNCHANGED <<kept, stateVars, cacheVars>>
CacheNext == kept = "cache" /\ Cache!Next /\ UNCHANGED <<kept, stateVars, logVars>>
Next == StateNext \/ LogNext \/ CacheNext
Spec == Init /\ [][Next]_vars

Interchangeable == Permutations(Clients)

-----------------------------------------------------------------------------
(* Properties: those of the modules, which hold when a part stands still.  *)

\* StateFile: a save is whole or not there, and the last one is resumed.
SavesAreResumed == State!SavesAreResumed

\* RotatingLog: no file outgrows its bound, and the newest lines are kept.
LogIsKept == Log!LogIsKept

\* Mirrors: without DNS the last stored answer is used, and all that may be asked
\* are.
StationsAreFound == Cache!StationsAreFound
=============================================================================
