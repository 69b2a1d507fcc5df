----------------------------- MODULE StateFile -----------------------------
(***************************************************************************)
(* state.toml (tui/persistence.rs) and what the full client does with it   *)
(* (clitunes/main.rs): read at the start, removed when corrupt, followed   *)
(* by the boot intent, and rewritten whenever a station is picked.         *)
(*                                                                         *)
(* Clients share the file.  A save writes a temporary file, syncs it and   *)
(* renames it; a client may be killed between any two steps, any step may  *)
(* fail, and the power may go.  A file's content is a station, "part" of   *)
(* one, "junk" that is not TOML or "binary" that is not text.              *)
(***************************************************************************)
EXTENDS Naturals, FiniteSets

CONSTANTS
  Clients,
  Stations,
  Choices,   \* what --source and --station may be, as [source, station]
  TapTries,  \* how often wait_pcm_tap asks
  MaxPicks,  \* bound on the stations picked
  MaxMishaps \* bound on kills, power failures and edits

VARIABLES
  file,     \* what state.toml holds, None if there is none
  disk,     \* what it may hold after a power failure
  temp,     \* each client's temporary file: [data, synced]
  pc, choice,       \* of each client; choice: --source, and the station if any
  seen,     \* what load_state returned
  waited,   \* the tries of wait_pcm_tap
  intent,   \* BootIntent: None, "picker", "tone" or the station asked for
  picked,   \* the station that is saved and then asked for
  latest,   \* (history) the last pick that was saved, or the user's edit
  expected, \* (history) latest when the client read the file, if that was sound
  spoilt,   \* (history) the file was lost: power, or a removal that came late
  picks, mishaps

fileVars == <<file, disk>>
bootVars == <<choice, seen, waited, intent, expected>>
counters == <<picks, mishaps>>
vars == <<fileVars, temp, pc, bootVars, picked, latest, spoilt, counters>>

None == "none"
NoTemp == [data |-> None, synced |-> FALSE]
Each(x) == [c \in Clients |-> x]

Unknown == "unknown"
Auto == [source |-> "auto", station |-> None]

\* What a client no longer looks at.
Forget(c) ==
  /\ choice' = [choice EXCEPT ![c] = Auto]
  /\ seen' = [seen EXCEPT ![c] = None]
  /\ waited' = [waited EXCEPT ![c] = 0]
  /\ intent' = [intent EXCEPT ![c] = None]
  /\ expected' = [expected EXCEPT ![c] = None]

Init ==
  /\ file = None /\ disk = {None}
  /\ temp = Each(NoTemp) /\ pc = Each("off") /\ choice = Each(Auto)
  /\ seen = Each(None) /\ waited = Each(0) /\ intent = Each(None) /\ picked = Each(None)
  /\ latest = None /\ expected = Each(None) /\ spoilt = FALSE
  /\ picks = 0 /\ mishaps = 0

Goes(c, from, to) == pc[c] = from /\ pc' = [pc EXCEPT ![c] = to]

-----------------------------------------------------------------------------
(* run_full_tui, up to the first verb.                                    *)

\* The flags; --station is heeded with --source radio only.
Launch(c) ==
  /\ Goes(c, "off", "load")
  /\ \E ch \in Choices : choice' = [choice EXCEPT ![c] = ch]
  /\ UNCHANGED <<fileVars, temp, seen, waited, intent, picked, latest, expected, spoilt, counters>>

\* load_state; reading fails on what is not text, and the client ends.
Load(c) ==
  /\ pc[c] = "load"
  /\ seen' = [seen EXCEPT ![c] = file]
  /\ expected' = [expected EXCEPT ![c] = IF spoilt THEN Unknown ELSE latest]
  /\ pc' = [pc EXCEPT ![c] = CASE file = "binary" -> "failed"
                               [] file \in {"junk", "part"} -> "remove"
                               [] OTHER -> "connect"]
  /\ UNCHANGED <<fileVars, temp, choice, waited, intent, picked, latest, spoilt, counters>>

\* By its name: what is there may be newer than what was read.  It may fail.
Remove(c) ==
  /\ Goes(c, "remove", "connect")
  /\ \/ /\ file' = None
        /\ disk' = disk \cup {None}
        /\ spoilt' = (spoilt \/ file \in Stations)
     \/ UNCHANGED <<fileVars, spoilt>>
  /\ UNCHANGED <<temp, bootVars, picked, latest, counters>>

\* ReconnectingSession::connect and request_status.
Connect(c) ==
  /\ Goes(c, "connect", "tap")
  /\ UNCHANGED <<fileVars, temp, bootVars, picked, latest, spoilt, counters>>

\* Any event counts as a try, and so do 100 ms without one.
NoTap(c) ==
  /\ pc[c] = "tap"
  /\ waited' = [waited EXCEPT ![c] = waited[c] + 1]
  /\ pc' = [pc EXCEPT ![c] = IF waited[c] + 1 = TapTries THEN "failed" ELSE "tap"]
  /\ UNCHANGED <<fileVars, temp, choice, seen, intent, expected, picked, latest, spoilt, counters>>

\* PcmTap; the ring it names is opened.
Tap(c) ==
  /\ Goes(c, "tap", "boot")
  /\ UNCHANGED <<fileVars, temp, bootVars, picked, latest, spoilt, counters>>

\* No daemon, no ring, a broken connection.
StartFails(c) ==
  /\ pc[c] \in {"connect", "tap", "boot"}
  /\ pc' = [pc EXCEPT ![c] = "failed"]
  /\ UNCHANGED <<fileVars, temp, bootVars, picked, latest, spoilt, counters>>

\* from_cli_and_state
Intent(c) ==
  CASE choice[c].source = "tone" -> "tone"
    [] choice[c].source = "radio" /\ choice[c].station # None -> choice[c].station
    [] OTHER -> IF seen[c] \in Stations THEN seen[c] ELSE "picker"

\* The station goes out as a verb without being saved again.
Boot(c) ==
  /\ Goes(c, "boot", "run")
  /\ intent' = [intent EXCEPT ![c] = Intent(c)]
  /\ UNCHANGED <<fileVars, temp, choice, seen, waited, expected, picked, latest, spoilt, counters>>

-----------------------------------------------------------------------------
(* The bridge task: a verb for a station is saved first, then sent.       *)

Pick(c, s) ==
  /\ picks < MaxPicks
  /\ Goes(c, "run", "temp")
  /\ picked' = [picked EXCEPT ![c] = s]
  /\ picks' = picks + 1
  /\ Forget(c)
  /\ UNCHANGED <<fileVars, temp, latest, spoilt, mishaps>>

\* ensure_parent_dir, NamedTempFile::new_in, chmod.
Create(c) ==
  /\ Goes(c, "temp", "write")
  /\ temp' = [temp EXCEPT ![c] = [data |-> "part", synced |-> FALSE]]
  /\ UNCHANGED <<fileVars, bootVars, picked, latest, spoilt, counters>>

Write(c) ==
  /\ Goes(c, "write", "sync")
  /\ temp' = [temp EXCEPT ![c].data = picked[c]]
  /\ UNCHANGED <<fileVars, bootVars, picked, latest, spoilt, counters>>

\* Defect: the data may be renamed before it is on the disk.
SyncLater(c) == UNCHANGED temp

SyncAll(c) == temp' = [temp EXCEPT ![c].synced = TRUE]

Sync(c) ==
  /\ Goes(c, "sync", "persist")
  /\ SyncAll(c)
  /\ UNCHANGED <<fileVars, bootVars, picked, latest, spoilt, counters>>

\* rename; the directory itself is not synced.
Persist(c) ==
  /\ Goes(c, "persist", "send")
  /\ file' = temp[c].data
  /\ disk' = disk \cup {IF temp[c].synced THEN temp[c].data ELSE "part"}
  /\ temp' = [temp EXCEPT ![c] = NoTemp]
  /\ latest' = temp[c].data
  /\ spoilt' = FALSE
  /\ UNCHANGED <<bootVars, picked, counters>>

\* NamedTempFile is removed when it is dropped.
DropTemp(c) == temp' = [temp EXCEPT ![c] = NoTemp] /\ UNCHANGED file

\* "save state failed": the verb is sent all the same.
SaveFails(c) ==
  /\ pc[c] \in {"temp", "write", "sync", "persist"}
  /\ pc' = [pc EXCEPT ![c] = "send"]
  /\ DropTemp(c)
  /\ UNCHANGED <<disk, bootVars, picked, latest, spoilt, counters>>

Send(c) ==
  /\ Goes(c, "send", "run")
  /\ picked' = [picked EXCEPT ![c] = None]
  /\ UNCHANGED <<fileVars, temp, bootVars, latest, spoilt, counters>>

-----------------------------------------------------------------------------
(* The world.                                                             *)

Quit(c) ==
  /\ pc[c] \in {"run", "failed"}
  /\ pc' = [pc EXCEPT ![c] = "off"]
  /\ Forget(c)
  /\ UNCHANGED <<fileVars, temp, picked, latest, spoilt, counters>>

Mishap == mishaps < MaxMishaps /\ mishaps' = mishaps + 1 /\ UNCHANGED picks

\* The temporary file stays behind, under a name nobody uses again.
Kill(c) ==
  /\ Mishap /\ pc[c] # "off"
  /\ pc' = [pc EXCEPT ![c] = "off"]
  /\ temp' = [temp EXCEPT ![c] = NoTemp]
  /\ picked' = [picked EXCEPT ![c] = None]
  /\ Forget(c)
  /\ UNCHANGED <<fileVars, latest, spoilt>>

PowerFails ==
  /\ Mishap
  /\ file' \in disk
  /\ disk' = {file'}
  /\ pc' = Each("off") /\ temp' = Each(NoTemp)
  /\ spoilt' = (spoilt \/ file' # latest)
  /\ choice' = Each(Auto) /\ seen' = Each(None) /\ waited' = Each(0) /\ intent' = Each(None)
  /\ expected' = Each(None) /\ picked' = Each(None)
  /\ UNCHANGED latest

\* The kernel writes back.
Settle ==
  /\ disk # {file}
  /\ file # "part"
  /\ disk' = {file}
  /\ UNCHANGED <<file, temp, pc, bootVars, picked, latest, spoilt, counters>>

\* Something else writes nonsense.
Spoil ==
  /\ Mishap
  /\ file' \in {"junk", "binary"} /\ disk' = {file'}
  /\ spoilt' = TRUE
  /\ UNCHANGED <<temp, pc, bootVars, picked, latest>>

Client(c) ==
  \/ Launch(c) \/ Load(c) \/ Remove(c) \/ Connect(c) \/ NoTap(c) \/ Tap(c) \/ StartFails(c) \/ Boot(c)
  \/ \E s \in Stations : Pick(c, s)
  \/ Create(c) \/ Write(c) \/ Sync(c) \/ Persist(c) \/ SaveFails(c) \/ Send(c) \/ Quit(c) \/ Kill(c)
Next == (\E c \in Clients : Client(c)) \/ PowerFails \/ Settle \/ Spoil
Spec == Init /\ [][Next]_vars

-----------------------------------------------------------------------------
(* Properties.                                                            *)

Contents == Stations \cup {None, "part", "junk", "binary"}
States == {"off", "load", "remove", "connect", "tap", "boot", "run", "failed",
           "temp", "write", "sync", "persist", "send"}

\* Every variable holds what the code may put there; only a save in progress has
\* a temporary file.
TypeOK ==
  /\ file \in Contents /\ disk \subseteq Contents /\ latest \in {None} \cup Stations
  /\ pc \in [Clients -> States]
  /\ waited \in [Clients -> 0 .. TapTries]
  /\ intent \in [Clients -> Stations \cup {None, "picker", "tone"}]
  /\ \A c \in Clients : temp[c] # NoTemp => pc[c] \in {"write", "sync", "persist"}

\* persistence.rs, crash safety: whatever is killed or fails and whenever, the
\* file is an old or a new one, never part of one.
NeverPart == file # "part" /\ "part" \notin disk

\* A client that was not told what to play resumes the last station any client
\* saved, unless the file was lost in between or changed while it was read.
ResumesTheLatest ==
  \A c \in Clients :
    /\ intent[c] \notin {None, "tone"} /\ expected[c] # Unknown
    /\ choice[c].source # "radio" \/ choice[c].station = None
    => intent[c] = IF expected[c] = None THEN "picker" ELSE expected[c]

\* What is saved is resumed: NeverPart and ResumesTheLatest, with the types.
SavesAreResumed == TypeOK /\ NeverPart /\ ResumesTheLatest
=============================================================================
