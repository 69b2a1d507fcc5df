---------------------------- MODULE FilesProofs ----------------------------
(***************************************************************************)
(* The files the program keeps, for any clients, stations, lines, answers  *)
(* of DNS and faults.                                                      *)
(*                                                                         *)
(* state.toml: a temporary file is synced before it gets the name, so what *)
(* the name leads to is whole, and what a client has seen is what was      *)
(* saved last, or the file was lost.                                       *)
(* The mirrors: sorting permutes the answer, so a lookup asks all of it in *)
(* the order of the records, and the cache holds the last answer.          *)
(* The log: the open file is the newest, and of the numbers of the files   *)
(* at most one, the one a rotation has vacated, has none below the oldest. *)
(***************************************************************************)
EXTENDS MCFiles, FiniteSetTheorems, WellFoundedInduction, TLAPS

Parsed == {"none", "junk", "binary"} \cup Stations
Temps == [data : {"none", "part"} \cup Stations, synced : BOOLEAN]

StateTyped ==
  /\ file \in Parsed /\ disk \subseteq Parsed
  /\ latest \in {"none"} \cup Stations /\ spoilt \in BOOLEAN
  /\ temp \in [Clients -> Temps]
  /\ pc \in [Clients -> State!States] /\ picked \in [Clients -> {"none"} \cup Stations]
  /\ choice \in [Clients -> Choices] /\ seen \in [Clients -> Parsed]
  /\ waited \in [Clients -> 0 .. TapTries]
  /\ expected \in [Clients -> {"none", "unknown"} \cup Stations]
  /\ intent \in [Clients -> {"none", "picker", "tone"} \cup Stations]

\* The file is the last one saved, unless it was lost.
LastSaved == ~ spoilt => file = latest

\* A temporary file has what its client has done to it.
Temporary(c) ==
  /\ pc[c] \in {"temp", "write", "sync", "persist", "send"} => picked[c] \in Stations
  /\ pc[c] \notin {"write", "sync", "persist"} => temp[c] = State!NoTemp
  /\ pc[c] \in {"sync", "persist"} => temp[c].data = picked[c]
  /\ pc[c] = "persist" => temp[c].synced = TRUE

\* What from_cli_and_state makes of the flags and the file.
Aim(c) ==
  IF choice[c].source = "tone" THEN "tone"
  ELSE IF choice[c].source = "radio" /\ choice[c].station # "none" THEN choice[c].station
  ELSE IF seen[c] \in Stations THEN seen[c] ELSE "picker"

\* A client has seen what was saved last when it read, and goes by that.
Resuming(c) ==
  /\ expected[c] # "unknown" => seen[c] = expected[c]
  /\ intent[c] # "none" => pc[c] = "run" /\ intent[c] = Aim(c)

\* A client that has asked for the ring often enough has stopped asking.
Asking(c) ==
  /\ pc[c] \in {"off", "load", "remove", "connect"} => waited[c] = 0
  /\ pc[c] = "tap" => waited[c] # TapTries

StateInv ==
  /\ StateTyped
  /\ LastSaved
  /\ \A c \in Clients : Temporary(c)
  /\ \A c \in Clients : Resuming(c)
  /\ \A c \in Clients : Asking(c)

\* The words are no stations.
LEMMA Words ==
  /\ "none" \notin Stations /\ "part" \notin Stations /\ "junk" \notin Stations
  /\ "binary" \notin Stations /\ "unknown" \notin Stations
  /\ "picker" \notin Stations /\ "tone" \notin Stations
BY StateAssumption

\* What a choice is.
LEMMA ChoiceFacts ==
  \A ch \in Choices : /\ ch.source \in {"auto", "radio", "tone"}
                       /\ ch.station \in {"none"} \cup Stations
BY DEF Choices, State!Auto, State!None

\* What a client begins with.
LEMMA Beginnings ==
  /\ State!Auto \in Choices
  /\ State!NoTemp \in Temps
  /\ 0 \in 0 .. TapTries
  /\ "none" \in Parsed
BY StateAssumption DEF Choices, State!Auto, State!NoTemp, State!None, Temps, Parsed

\* Aim is the intent.
LEMMA IntentFacts ==
  ASSUME NEW c \in Clients
  PROVE  State!Intent(c) = Aim(c)
BY Zenon DEF State!Intent, State!None, Aim

\* A client does what it was told, else it starts what it has seen.
LEMMA AimType ==
  ASSUME StateTyped, NEW c \in Clients
  PROVE  Aim(c) \in {"none", "picker", "tone"} \cup Stations
BY ChoiceFacts DEF StateTyped, Aim

-----------------------------------------------------------------------------
(* The types.                                                              *)

\* Nothing is lost before the first client.
LEMMA StateStarts == State!Init => StateInv
<1> SUFFICES ASSUME State!Init PROVE StateInv
  OBVIOUS
<1>1. StateTyped
  BY Beginnings DEF State!Init, State!Each, State!None, StateTyped, Parsed, State!States
<1>2. LastSaved /\ \A c \in Clients : Temporary(c) /\ Resuming(c) /\ Asking(c)
  BY DEF State!Init, State!Each, State!None, LastSaved, Temporary, Resuming, Asking
<1> QED BY <1>1, <1>2 DEF StateInv

\* A client that has read the file fails, removes it or goes on.
LEMMA LoadGoesOn ==
  ASSUME NEW c \in Clients, State!Load(c), pc \in [Clients -> State!States]
  PROVE  /\ pc[c] = "load"
         /\ \E to \in {"failed", "remove", "connect"} : pc' = [pc EXCEPT ![c] = to]
<1>1. pc[c] = "load"
  BY DEF State!Load
<1>2. pc' = [pc EXCEPT ![c] = CASE file = "binary" -> "failed"
                                [] file \in {"junk", "part"} -> "remove"
                                [] OTHER -> "connect"]
  BY Zenon DEF State!Load
<1>3. (CASE file = "binary" -> "failed"
         [] file \in {"junk", "part"} -> "remove"
         [] OTHER -> "connect") \in {"failed", "remove", "connect"}
  BY Zenon
<1> QED BY Zenon, <1>1, <1>2, <1>3

\* Every step of a client and of the world keeps the types.
LEMMA StateTypesStep ==
  ASSUME StateInv, [State!Next]_stateVars
  PROVE  StateTyped'
<1> USE DEF StateTyped
<1>a. StateTyped /\ LastSaved
  BY DEF StateInv
<1>b. ASSUME NEW c \in Clients PROVE Temporary(c) /\ Asking(c)
  BY DEF StateInv
<1>1. ASSUME NEW c \in Clients, State!Launch(c) PROVE StateTyped'
  BY <1>1, <1>a, Beginnings DEF State!Launch, State!Goes, State!fileVars, State!bootVars, State!None, State!States, State!Mishap
<1>2. ASSUME NEW c \in Clients, State!Load(c) PROVE StateTyped'
  <2>1. seen' \in [Clients -> Parsed] /\ expected' \in [Clients -> {"none", "unknown"} \cup Stations]
    BY <1>2, <1>a DEF State!Load, State!Unknown
  <2>2. pc' \in [Clients -> State!States]
    BY <1>2, <1>a, LoadGoesOn DEF State!States
  <2> QED BY <1>2, <1>a, <2>1, <2>2 DEF State!Load, State!fileVars, State!counters
<1>3. ASSUME NEW c \in Clients, State!Remove(c) PROVE StateTyped'
  BY <1>3, <1>a, Beginnings DEF State!Remove, Parsed, State!Goes, State!fileVars, State!bootVars, State!None, State!States, State!Mishap
<1>4. ASSUME NEW c \in Clients, State!Connect(c) PROVE StateTyped'
  BY <1>4, <1>a, Beginnings DEF State!Connect, State!Goes, State!fileVars, State!bootVars, State!None, State!States, State!Mishap
<1>5. ASSUME NEW c \in Clients, State!NoTap(c) PROVE StateTyped'
  <2>1. waited[c] \in 0 .. TapTries /\ waited[c] # TapTries /\ TapTries \in Nat
    BY <1>5, <1>a, <1>b, StateAssumption DEF State!NoTap, Asking
  <2>2. waited[c] + 1 \in 0 .. TapTries
    BY <2>1
  <2> QED
    BY <1>5, <1>a, <2>2 DEF State!NoTap, State!fileVars, State!counters, State!States
<1>6. ASSUME NEW c \in Clients, State!Tap(c) PROVE StateTyped'
  BY <1>6, <1>a, Beginnings DEF State!Tap, State!Goes, State!fileVars, State!bootVars, State!None, State!States, State!Mishap
<1>7. ASSUME NEW c \in Clients, State!StartFails(c) PROVE StateTyped'
  BY <1>7, <1>a, Beginnings DEF State!StartFails, State!Goes, State!fileVars, State!bootVars, State!None, State!States, State!Mishap
<1>8. ASSUME NEW c \in Clients, State!Boot(c) PROVE StateTyped'
  BY <1>8, <1>a, AimType, IntentFacts DEF State!Boot, State!Goes, State!fileVars, State!bootVars, State!None, State!States, State!Mishap
<1>9. ASSUME NEW c \in Clients, State!Create(c) PROVE StateTyped'
  <2>1. [data |-> "part", synced |-> FALSE] \in Temps
    BY DEF Temps
  <2> QED
    BY <1>9, <1>a, <2>1 DEF State!Create, State!Goes, State!fileVars, State!bootVars, State!States
<1>10. ASSUME NEW c \in Clients, State!Write(c) PROVE StateTyped'
  <2>1. /\ temp' = [temp EXCEPT ![c] = [temp[c] EXCEPT !.data = picked[c]]]
        /\ pc' = [pc EXCEPT ![c] = "sync"]
        /\ UNCHANGED <<file, disk, choice, seen, waited, intent, expected, picked, latest, spoilt>>
    BY <1>10 DEF State!Write, State!Goes, State!fileVars, State!bootVars
  <2>2. [temp[c] EXCEPT !.data = picked[c]] \in Temps
    BY <1>a DEF Temps
  <2> QED BY <1>a, <2>1, <2>2 DEF State!States
<1>11. ASSUME NEW c \in Clients, State!Sync(c) PROVE StateTyped'
  <2>1. /\ temp' = [temp EXCEPT ![c] = [temp[c] EXCEPT !.synced = TRUE]]
        /\ pc' = [pc EXCEPT ![c] = "persist"]
        /\ UNCHANGED <<file, disk, choice, seen, waited, intent, expected, picked, latest, spoilt>>
    BY <1>11 DEF State!Sync, State!SyncAll, State!Goes, State!fileVars, State!bootVars
  <2>2. [temp[c] EXCEPT !.synced = TRUE] \in Temps
    BY <1>a DEF Temps
  <2> QED BY <1>a, <2>1, <2>2 DEF State!States
<1>12. ASSUME NEW c \in Clients, State!Persist(c) PROVE StateTyped'
  <2>1. pc[c] = "persist" /\ pc' = [pc EXCEPT ![c] = "send"]
    BY <1>12 DEF State!Persist, State!Goes
  <2>2. temp[c].data \in Stations /\ temp[c].synced = TRUE
    BY <2>1, <1>b DEF Temporary
  <2>3. /\ file' = temp[c].data /\ disk' = disk \cup {temp[c].data} /\ latest' = temp[c].data
        /\ spoilt' = FALSE /\ temp' = [temp EXCEPT ![c] = State!NoTemp]
        /\ UNCHANGED <<choice, seen, waited, intent, expected, picked>>
    BY <1>12, <2>2 DEF State!Persist, State!bootVars
  <2> QED BY <1>a, <2>1, <2>2, <2>3, Beginnings DEF State!States, Parsed
<1>13. ASSUME NEW c \in Clients, State!SaveFails(c) PROVE StateTyped'
  BY <1>13, <1>a, Beginnings DEF State!SaveFails, State!DropTemp, State!Goes, State!fileVars, State!bootVars, State!None, State!States, State!Mishap
<1>14. ASSUME NEW c \in Clients, State!Send(c) PROVE StateTyped'
  BY <1>14, <1>a, Beginnings DEF State!Send, State!Goes, State!fileVars, State!bootVars, State!None, State!States, State!Mishap
<1>15. ASSUME NEW c \in Clients, State!Quit(c) PROVE StateTyped'
  BY <1>15, <1>a, Beginnings DEF State!Quit, State!Forget, State!Goes, State!fileVars, State!bootVars, State!None, State!States, State!Mishap
<1>16. ASSUME NEW c \in Clients, State!Kill(c) PROVE StateTyped'
  BY <1>16, <1>a, Beginnings DEF State!Kill, State!Forget, State!Goes, State!fileVars, State!bootVars, State!None, State!States, State!Mishap
<1>17. ASSUME NEW c \in Clients, NEW s \in Stations, State!Pick(c, s) PROVE StateTyped'
  BY <1>17, <1>a, Beginnings DEF State!Pick, State!Forget, State!Goes, State!fileVars, State!bootVars, State!None, State!States, State!Mishap
<1>18. ASSUME State!PowerFails PROVE StateTyped'
  BY <1>18, <1>a, Beginnings DEF State!PowerFails, State!Each, State!Goes, State!fileVars, State!bootVars, State!None, State!States, State!Mishap
<1>19. ASSUME State!Settle PROVE StateTyped'
  BY <1>19, <1>a, Beginnings DEF State!Settle, State!Goes, State!fileVars, State!bootVars, State!None, State!States, State!Mishap
<1>20. ASSUME State!Spoil PROVE StateTyped'
  BY <1>20, <1>a, Beginnings DEF State!Spoil, Parsed, State!Goes, State!fileVars, State!bootVars, State!None, State!States, State!Mishap
<1>21. ASSUME UNCHANGED stateVars PROVE StateTyped'
  BY <1>21, <1>a, Beginnings DEF stateVars, State!Goes, State!fileVars, State!bootVars, State!None, State!States, State!Mishap
<1> QED
  BY <1>1, <1>2, <1>3, <1>4, <1>5, <1>6, <1>7, <1>8, <1>9, <1>10, <1>11, <1>12, <1>13, <1>14, <1>15, <1>16, <1>17, <1>18, <1>19, <1>20, <1>21
     DEF State!Next, State!Client

\* The file is the last one saved until it is lost.
LEMMA LastSavedStep ==
  ASSUME StateInv, [State!Next]_stateVars
  PROVE  LastSaved'
<1>a. StateTyped /\ LastSaved
  BY DEF StateInv
<1>b. ASSUME NEW c \in Clients PROVE Temporary(c) /\ Resuming(c) /\ Asking(c)
  BY DEF StateInv
<1> USE DEF LastSaved, Parsed, StateTyped
<1>1. ASSUME NEW c \in Clients, State!Launch(c) PROVE LastSaved'
  BY <1>1, <1>a DEF State!Launch, State!Goes, State!fileVars, State!bootVars, State!None, State!Mishap
<1>2. ASSUME NEW c \in Clients, State!Load(c) PROVE LastSaved'
  BY <1>2, <1>a DEF State!Load, State!Goes, State!fileVars, State!bootVars, State!None, State!Mishap
<1>3. ASSUME NEW c \in Clients, State!Remove(c) PROVE LastSaved'
  <2>1. CASE UNCHANGED <<file, disk, spoilt>>
    BY <1>3, <1>a, <2>1 DEF State!Remove
  <2>2. CASE file' = "none" /\ spoilt' = (spoilt \/ file \in Stations)
    <3>1. ~ spoilt' => ~ spoilt /\ file \notin Stations
      BY <2>2, <1>a
    <3> QED BY <1>3, <1>a, <2>2, <3>1 DEF State!Remove
  <2> QED BY <1>3, <2>1, <2>2 DEF State!Remove, State!fileVars, State!None
<1>4. ASSUME NEW c \in Clients, State!Connect(c) PROVE LastSaved'
  BY <1>4, <1>a DEF State!Connect, State!Goes, State!fileVars, State!bootVars, State!None, State!Mishap
<1>5. ASSUME NEW c \in Clients, State!NoTap(c) PROVE LastSaved'
  BY <1>5, <1>a DEF State!NoTap, State!Goes, State!fileVars, State!bootVars, State!None, State!Mishap
<1>6. ASSUME NEW c \in Clients, State!Tap(c) PROVE LastSaved'
  BY <1>6, <1>a DEF State!Tap, State!Goes, State!fileVars, State!bootVars, State!None, State!Mishap
<1>7. ASSUME NEW c \in Clients, State!StartFails(c) PROVE LastSaved'
  BY <1>7, <1>a DEF State!StartFails, State!Goes, State!fileVars, State!bootVars, State!None, State!Mishap
<1>8. ASSUME NEW c \in Clients, State!Boot(c) PROVE LastSaved'
  BY <1>8, <1>a DEF State!Boot, State!Goes, State!fileVars, State!bootVars, State!None, State!Mishap
<1>9. ASSUME NEW c \in Clients, State!Create(c) PROVE LastSaved'
  BY <1>9, <1>a DEF State!Create, State!Goes, State!fileVars, State!bootVars, State!None, State!Mishap
<1>10. ASSUME NEW c \in Clients, State!Write(c) PROVE LastSaved'
  BY <1>10, <1>a DEF State!Write, State!Goes, State!fileVars, State!bootVars, State!None, State!Mishap
<1>11. ASSUME NEW c \in Clients, State!Sync(c) PROVE LastSaved'
  BY <1>11, <1>a DEF State!Sync, State!SyncAll, State!Goes, State!fileVars, State!bootVars, State!None, State!Mishap
<1>12. ASSUME NEW c \in Clients, State!Persist(c) PROVE LastSaved'
  BY <1>12, <1>a, <1>b DEF State!Persist, State!Goes, State!fileVars, State!bootVars, State!None, State!Mishap
<1>13. ASSUME NEW c \in Clients, State!SaveFails(c) PROVE LastSaved'
  BY <1>13, <1>a DEF State!SaveFails, State!DropTemp, State!Goes, State!fileVars, State!bootVars, State!None, State!Mishap
<1>14. ASSUME NEW c \in Clients, State!Send(c) PROVE LastSaved'
  BY <1>14, <1>a DEF State!Send, State!Goes, State!fileVars, State!bootVars, State!None, State!Mishap
<1>15. ASSUME NEW c \in Clients, State!Quit(c) PROVE LastSaved'
  BY <1>15, <1>a DEF State!Quit, State!Forget, State!Goes, State!fileVars, State!bootVars, State!None, State!Mishap
<1>16. ASSUME NEW c \in Clients, State!Kill(c) PROVE LastSaved'
  BY <1>16, <1>a DEF State!Kill, State!Forget, State!Goes, State!fileVars, State!bootVars, State!None, State!Mishap
<1>17. ASSUME NEW c \in Clients, NEW s \in Stations, State!Pick(c, s) PROVE LastSaved'
  BY <1>17, <1>a DEF State!Pick, State!Forget, State!Goes, State!fileVars, State!bootVars, State!None, State!Mishap
<1>18. ASSUME State!PowerFails PROVE LastSaved'
  BY <1>18, <1>a DEF State!PowerFails, State!Each, State!Goes, State!fileVars, State!bootVars, State!None, State!Mishap
<1>19. ASSUME State!Settle PROVE LastSaved'
  BY <1>19, <1>a DEF State!Settle, State!Goes, State!fileVars, State!bootVars, State!None, State!Mishap
<1>20. ASSUME State!Spoil PROVE LastSaved'
  BY <1>20, <1>a DEF State!Spoil, Parsed, State!Goes, State!fileVars, State!bootVars, State!None, State!Mishap
<1>21. ASSUME UNCHANGED stateVars PROVE LastSaved'
  BY <1>21, <1>a DEF stateVars, State!Goes, State!fileVars, State!bootVars, State!None, State!Mishap
<1> QED
  BY <1>1, <1>2, <1>3, <1>4, <1>5, <1>6, <1>7, <1>8, <1>9, <1>10, <1>11, <1>12, <1>13, <1>14, <1>15, <1>16, <1>17, <1>18, <1>19, <1>20, <1>21
     DEF State!Next, State!Client

\* A save does one thing after the other.
LEMMA TemporaryStep ==
  ASSUME StateInv, [State!Next]_stateVars, NEW d \in Clients
  PROVE  Temporary(d)'
<1>a. StateTyped /\ LastSaved
  BY DEF StateInv
<1>b. ASSUME NEW c \in Clients PROVE Temporary(c) /\ Resuming(c) /\ Asking(c)
  BY DEF StateInv
<1> USE DEF Temporary, StateTyped, State!NoTemp
<1>1. ASSUME NEW c \in Clients, State!Launch(c) PROVE Temporary(d)'
  BY <1>1, <1>a, <1>b DEF State!Launch, State!Goes, State!fileVars, State!bootVars, State!None, State!Mishap
<1>2. ASSUME NEW c \in Clients, State!Load(c) PROVE Temporary(d)'
  BY <1>2, <1>a, <1>b DEF State!Load, State!Goes, State!fileVars, State!bootVars, State!None, State!Mishap
<1>3. ASSUME NEW c \in Clients, State!Remove(c) PROVE Temporary(d)'
  BY <1>3, <1>a, <1>b DEF State!Remove, Parsed, State!Goes, State!fileVars, State!bootVars, State!None, State!Mishap
<1>4. ASSUME NEW c \in Clients, State!Connect(c) PROVE Temporary(d)'
  BY <1>4, <1>a, <1>b DEF State!Connect, State!Goes, State!fileVars, State!bootVars, State!None, State!Mishap
<1>5. ASSUME NEW c \in Clients, State!NoTap(c) PROVE Temporary(d)'
  BY <1>5, <1>a, <1>b DEF State!NoTap, State!Goes, State!fileVars, State!bootVars, State!None, State!Mishap
<1>6. ASSUME NEW c \in Clients, State!Tap(c) PROVE Temporary(d)'
  BY <1>6, <1>a, <1>b DEF State!Tap, State!Goes, State!fileVars, State!bootVars, State!None, State!Mishap
<1>7. ASSUME NEW c \in Clients, State!StartFails(c) PROVE Temporary(d)'
  BY <1>7, <1>a, <1>b DEF State!StartFails, State!Goes, State!fileVars, State!bootVars, State!None, State!Mishap
<1>8. ASSUME NEW c \in Clients, State!Boot(c) PROVE Temporary(d)'
  BY <1>8, <1>a, <1>b DEF State!Boot, State!Goes, State!fileVars, State!bootVars, State!None, State!Mishap
<1>9. ASSUME NEW c \in Clients, State!Create(c) PROVE Temporary(d)'
  BY <1>9, <1>a, <1>b DEF State!Create, State!Goes, State!fileVars, State!bootVars, State!None, State!Mishap
<1>10. ASSUME NEW c \in Clients, State!Write(c) PROVE Temporary(d)'
  <2>1. /\ temp' = [temp EXCEPT ![c] = [temp[c] EXCEPT !.data = picked[c]]]
        /\ pc[c] = "write" /\ pc' = [pc EXCEPT ![c] = "sync"] /\ picked' = picked
    BY <1>10 DEF State!Write, State!Goes
  <2>2. temp[c] \in Temps
    BY <1>a
  <2>3. [temp[c] EXCEPT !.data = picked[c]].data = picked[c]
    BY <2>2 DEF Temps
  <2> QED BY <1>a, <1>b, <2>1, <2>3
<1>11. ASSUME NEW c \in Clients, State!Sync(c) PROVE Temporary(d)'
  <2>1. /\ temp' = [temp EXCEPT ![c] = [temp[c] EXCEPT !.synced = TRUE]]
        /\ pc[c] = "sync" /\ pc' = [pc EXCEPT ![c] = "persist"] /\ picked' = picked
    BY <1>11 DEF State!Sync, State!SyncAll, State!Goes
  <2>2. temp[c] \in Temps
    BY <1>a
  <2>3. /\ [temp[c] EXCEPT !.synced = TRUE].data = temp[c].data
        /\ [temp[c] EXCEPT !.synced = TRUE].synced = TRUE
    BY <2>2 DEF Temps
  <2> QED BY <1>a, <1>b, <2>1, <2>3
<1>12. ASSUME NEW c \in Clients, State!Persist(c) PROVE Temporary(d)'
  BY <1>12, <1>a, <1>b DEF State!Persist, State!Goes, State!fileVars, State!bootVars, State!None, State!Mishap
<1>13. ASSUME NEW c \in Clients, State!SaveFails(c) PROVE Temporary(d)'
  BY <1>13, <1>a, <1>b DEF State!SaveFails, State!DropTemp, State!Goes, State!fileVars, State!bootVars, State!None, State!Mishap
<1>14. ASSUME NEW c \in Clients, State!Send(c) PROVE Temporary(d)'
  BY <1>14, <1>a, <1>b DEF State!Send, State!Goes, State!fileVars, State!bootVars, State!None, State!Mishap
<1>15. ASSUME NEW c \in Clients, State!Quit(c) PROVE Temporary(d)'
  BY <1>15, <1>a, <1>b DEF State!Quit, State!Forget, State!Goes, State!fileVars, State!bootVars, State!None, State!Mishap
<1>16. ASSUME NEW c \in Clients, State!Kill(c) PROVE Temporary(d)'
  BY <1>16, <1>a, <1>b DEF State!Kill, State!Forget, State!Goes, State!fileVars, State!bootVars, State!None, State!Mishap
<1>17. ASSUME NEW c \in Clients, NEW s \in Stations, State!Pick(c, s) PROVE Temporary(d)'
  BY <1>17, <1>a, <1>b DEF State!Pick, State!Forget, State!Goes, State!fileVars, State!bootVars, State!None, State!Mishap
<1>18. ASSUME State!PowerFails PROVE Temporary(d)'
  BY <1>18, <1>a, <1>b DEF State!PowerFails, State!Each, State!Goes, State!fileVars, State!bootVars, State!None, State!Mishap
<1>19. ASSUME State!Settle PROVE Temporary(d)'
  BY <1>19, <1>a, <1>b DEF State!Settle, State!Goes, State!fileVars, State!bootVars, State!None, State!Mishap
<1>20. ASSUME State!Spoil PROVE Temporary(d)'
  BY <1>20, <1>a, <1>b DEF State!Spoil, Parsed, State!Goes, State!fileVars, State!bootVars, State!None, State!Mishap
<1>21. ASSUME UNCHANGED stateVars PROVE Temporary(d)'
  BY <1>21, <1>a, <1>b DEF stateVars, State!Goes, State!fileVars, State!bootVars, State!None, State!Mishap
<1> QED
  BY <1>1, <1>2, <1>3, <1>4, <1>5, <1>6, <1>7, <1>8, <1>9, <1>10, <1>11, <1>12, <1>13, <1>14, <1>15, <1>16, <1>17, <1>18, <1>19, <1>20, <1>21
     DEF State!Next, State!Client

\* What a client goes by is what it has seen.
LEMMA ResumingStep ==
  ASSUME StateInv, [State!Next]_stateVars, NEW d \in Clients
  PROVE  Resuming(d)'
<1>a. StateTyped /\ LastSaved
  BY DEF StateInv
<1>b. ASSUME NEW c \in Clients PROVE Temporary(c) /\ Resuming(c) /\ Asking(c)
  BY DEF StateInv
<1> USE DEF Resuming, StateTyped, Aim
<1>1. ASSUME NEW c \in Clients, State!Launch(c) PROVE Resuming(d)'
  BY <1>1, <1>a, <1>b DEF State!Launch, State!Goes, State!fileVars, State!bootVars, State!None, State!Mishap
<1>2. ASSUME NEW c \in Clients, State!Load(c) PROVE Resuming(d)'
  <2>1. pc[c] = "load" /\ intent[c] = "none"
    BY <1>2, <1>a, <1>b, LoadGoesOn
  <2>2. /\ seen' = [seen EXCEPT ![c] = file]
        /\ expected' = [expected EXCEPT ![c] = IF spoilt THEN "unknown" ELSE latest]
        /\ UNCHANGED <<choice, intent>>
        /\ \A e \in Clients : e # c => pc'[e] = pc[e]
    BY <1>2, <1>a DEF State!Load, State!Unknown
  <2> QED BY <1>a, <1>b, <2>1, <2>2 DEF LastSaved
<1>3. ASSUME NEW c \in Clients, State!Remove(c) PROVE Resuming(d)'
  BY <1>3, <1>a, <1>b DEF State!Remove, Parsed, State!Goes, State!fileVars, State!bootVars, State!None, State!Mishap
<1>4. ASSUME NEW c \in Clients, State!Connect(c) PROVE Resuming(d)'
  BY <1>4, <1>a, <1>b DEF State!Connect, State!Goes, State!fileVars, State!bootVars, State!None, State!Mishap
<1>5. ASSUME NEW c \in Clients, State!NoTap(c) PROVE Resuming(d)'
  BY <1>5, <1>a, <1>b DEF State!NoTap, State!Goes, State!fileVars, State!bootVars, State!None, State!Mishap
<1>6. ASSUME NEW c \in Clients, State!Tap(c) PROVE Resuming(d)'
  BY <1>6, <1>a, <1>b DEF State!Tap, State!Goes, State!fileVars, State!bootVars, State!None, State!Mishap
<1>7. ASSUME NEW c \in Clients, State!StartFails(c) PROVE Resuming(d)'
  BY <1>7, <1>a, <1>b DEF State!StartFails, State!Goes, State!fileVars, State!bootVars, State!None, State!Mishap
<1>8. ASSUME NEW c \in Clients, State!Boot(c) PROVE Resuming(d)'
  BY <1>8, <1>a, <1>b, IntentFacts DEF State!Boot, State!Goes, State!fileVars, State!bootVars, State!None, State!Mishap
<1>9. ASSUME NEW c \in Clients, State!Create(c) PROVE Resuming(d)'
  BY <1>9, <1>a, <1>b DEF State!Create, State!Goes, State!fileVars, State!bootVars, State!None, State!Mishap
<1>10. ASSUME NEW c \in Clients, State!Write(c) PROVE Resuming(d)'
  BY <1>10, <1>a, <1>b DEF State!Write, State!Goes, State!fileVars, State!bootVars, State!None, State!Mishap
<1>11. ASSUME NEW c \in Clients, State!Sync(c) PROVE Resuming(d)'
  BY <1>11, <1>a, <1>b DEF State!Sync, State!SyncAll, State!Goes, State!fileVars, State!bootVars, State!None, State!Mishap
<1>12. ASSUME NEW c \in Clients, State!Persist(c) PROVE Resuming(d)'
  BY <1>12, <1>a, <1>b DEF State!Persist, State!Goes, State!fileVars, State!bootVars, State!None, State!Mishap
<1>13. ASSUME NEW c \in Clients, State!SaveFails(c) PROVE Resuming(d)'
  BY <1>13, <1>a, <1>b DEF State!SaveFails, State!DropTemp, State!Goes, State!fileVars, State!bootVars, State!None, State!Mishap
<1>14. ASSUME NEW c \in Clients, State!Send(c) PROVE Resuming(d)'
  BY <1>14, <1>a, <1>b DEF State!Send, State!Goes, State!fileVars, State!bootVars, State!None, State!Mishap
<1>15. ASSUME NEW c \in Clients, State!Quit(c) PROVE Resuming(d)'
  BY <1>15, <1>a, <1>b DEF State!Quit, State!Forget, State!Goes, State!fileVars, State!bootVars, State!None, State!Mishap
<1>16. ASSUME NEW c \in Clients, State!Kill(c) PROVE Resuming(d)'
  BY <1>16, <1>a, <1>b DEF State!Kill, State!Forget, State!Goes, State!fileVars, State!bootVars, State!None, State!Mishap
<1>17. ASSUME NEW c \in Clients, NEW s \in Stations, State!Pick(c, s) PROVE Resuming(d)'
  BY <1>17, <1>a, <1>b DEF State!Pick, State!Forget, State!Goes, State!fileVars, State!bootVars, State!None, State!Mishap
<1>18. ASSUME State!PowerFails PROVE Resuming(d)'
  BY <1>18, <1>a, <1>b DEF State!PowerFails, State!Each, State!Goes, State!fileVars, State!bootVars, State!None, State!Mishap
<1>19. ASSUME State!Settle PROVE Resuming(d)'
  BY <1>19, <1>a, <1>b DEF State!Settle, State!Goes, State!fileVars, State!bootVars, State!None, State!Mishap
<1>20. ASSUME State!Spoil PROVE Resuming(d)'
  BY <1>20, <1>a, <1>b DEF State!Spoil, Parsed, State!Goes, State!fileVars, State!bootVars, State!None, State!Mishap
<1>21. ASSUME UNCHANGED stateVars PROVE Resuming(d)'
  BY <1>21, <1>a, <1>b DEF stateVars, State!Goes, State!fileVars, State!bootVars, State!None, State!Mishap
<1> QED
  BY <1>1, <1>2, <1>3, <1>4, <1>5, <1>6, <1>7, <1>8, <1>9, <1>10, <1>11, <1>12, <1>13, <1>14, <1>15, <1>16, <1>17, <1>18, <1>19, <1>20, <1>21
     DEF State!Next, State!Client

\* A client asks for the ring so often and no more.
LEMMA AskingStep ==
  ASSUME StateInv, [State!Next]_stateVars, NEW d \in Clients
  PROVE  Asking(d)'
<1>a. StateTyped /\ LastSaved
  BY DEF StateInv
<1>b. ASSUME NEW c \in Clients PROVE Temporary(c) /\ Resuming(c) /\ Asking(c)
  BY DEF StateInv
<1> USE DEF Asking, StateTyped
<1>1. ASSUME NEW c \in Clients, State!Launch(c) PROVE Asking(d)'
  BY <1>1, <1>a, <1>b, StateAssumption DEF State!Launch, State!Goes, State!fileVars, State!bootVars, State!None, State!Mishap
<1>2. ASSUME NEW c \in Clients, State!Load(c) PROVE Asking(d)'
  BY <1>2, <1>a, <1>b, StateAssumption DEF State!Load, State!Goes, State!fileVars, State!bootVars, State!None, State!Mishap
<1>3. ASSUME NEW c \in Clients, State!Remove(c) PROVE Asking(d)'
  BY <1>3, <1>a, <1>b, StateAssumption DEF State!Remove, Parsed, State!Goes, State!fileVars, State!bootVars, State!None, State!Mishap
<1>4. ASSUME NEW c \in Clients, State!Connect(c) PROVE Asking(d)'
  BY <1>4, <1>a, <1>b, StateAssumption DEF State!Connect, State!Goes, State!fileVars, State!bootVars, State!None, State!Mishap
<1>5. ASSUME NEW c \in Clients, State!NoTap(c) PROVE Asking(d)'
  BY <1>5, <1>a, <1>b, StateAssumption DEF State!NoTap, State!Goes, State!fileVars, State!bootVars, State!None, State!Mishap
<1>6. ASSUME NEW c \in Clients, State!Tap(c) PROVE Asking(d)'
  BY <1>6, <1>a, <1>b, StateAssumption DEF State!Tap, State!Goes, State!fileVars, State!bootVars, State!None, State!Mishap
<1>7. ASSUME NEW c \in Clients, State!StartFails(c) PROVE Asking(d)'
  BY <1>7, <1>a, <1>b, StateAssumption DEF State!StartFails, State!Goes, State!fileVars, State!bootVars, State!None, State!Mishap
<1>8. ASSUME NEW c \in Clients, State!Boot(c) PROVE Asking(d)'
  BY <1>8, <1>a, <1>b, StateAssumption DEF State!Boot, State!Goes, State!fileVars, State!bootVars, State!None, State!Mishap
<1>9. ASSUME NEW c \in Clients, State!Create(c) PROVE Asking(d)'
  BY <1>9, <1>a, <1>b, StateAssumption DEF State!Create, State!Goes, State!fileVars, State!bootVars, State!None, State!Mishap
<1>10. ASSUME NEW c \in Clients, State!Write(c) PROVE Asking(d)'
  BY <1>10, <1>a, <1>b, StateAssumption DEF State!Write, State!Goes, State!fileVars, State!bootVars, State!None, State!Mishap
<1>11. ASSUME NEW c \in Clients, State!Sync(c) PROVE Asking(d)'
  BY <1>11, <1>a, <1>b, StateAssumption DEF State!Sync, State!SyncAll, State!Goes, State!fileVars, State!bootVars, State!None, State!Mishap
<1>12. ASSUME NEW c \in Clients, State!Persist(c) PROVE Asking(d)'
  BY <1>12, <1>a, <1>b, StateAssumption DEF State!Persist, State!Goes, State!fileVars, State!bootVars, State!None, State!Mishap
<1>13. ASSUME NEW c \in Clients, State!SaveFails(c) PROVE Asking(d)'
  BY <1>13, <1>a, <1>b, StateAssumption DEF State!SaveFails, State!DropTemp, State!Goes, State!fileVars, State!bootVars, State!None, State!Mishap
<1>14. ASSUME NEW c \in Clients, State!Send(c) PROVE Asking(d)'
  BY <1>14, <1>a, <1>b, StateAssumption DEF State!Send, State!Goes, State!fileVars, State!bootVars, State!None, State!Mishap
<1>15. ASSUME NEW c \in Clients, State!Quit(c) PROVE Asking(d)'
  BY <1>15, <1>a, <1>b, StateAssumption DEF State!Quit, State!Forget, State!Goes, State!fileVars, State!bootVars, State!None, State!Mishap
<1>16. ASSUME NEW c \in Clients, State!Kill(c) PROVE Asking(d)'
  BY <1>16, <1>a, <1>b, StateAssumption DEF State!Kill, State!Forget, State!Goes, State!fileVars, State!bootVars, State!None, State!Mishap
<1>17. ASSUME NEW c \in Clients, NEW s \in Stations, State!Pick(c, s) PROVE Asking(d)'
  BY <1>17, <1>a, <1>b, StateAssumption DEF State!Pick, State!Forget, State!Goes, State!fileVars, State!bootVars, State!None, State!Mishap
<1>18. ASSUME State!PowerFails PROVE Asking(d)'
  BY <1>18, <1>a, <1>b, StateAssumption DEF State!PowerFails, State!Each, State!Goes, State!fileVars, State!bootVars, State!None, State!Mishap
<1>19. ASSUME State!Settle PROVE Asking(d)'
  BY <1>19, <1>a, <1>b, StateAssumption DEF State!Settle, State!Goes, State!fileVars, State!bootVars, State!None, State!Mishap
<1>20. ASSUME State!Spoil PROVE Asking(d)'
  BY <1>20, <1>a, <1>b, StateAssumption DEF State!Spoil, Parsed, State!Goes, State!fileVars, State!bootVars, State!None, State!Mishap
<1>21. ASSUME UNCHANGED stateVars PROVE Asking(d)'
  BY <1>21, <1>a, <1>b, StateAssumption DEF stateVars, State!Goes, State!fileVars, State!bootVars, State!None, State!Mishap
<1> QED
  BY <1>1, <1>2, <1>3, <1>4, <1>5, <1>6, <1>7, <1>8, <1>9, <1>10, <1>11, <1>12, <1>13, <1>14, <1>15, <1>16, <1>17, <1>18, <1>19, <1>20, <1>21
     DEF State!Next, State!Client

\* Together.
LEMMA StateStep == StateInv /\ [State!Next]_stateVars => StateInv'
BY StateTypesStep, LastSavedStep, TemporaryStep, ResumingStep, AskingStep DEF StateInv

\* The invariant, for any number of clients, stations, picks and mishaps.
THEOREM StateInvariance == State!Spec => []StateInv
<1>1. StateInv /\ UNCHANGED State!vars => StateInv'
  <2>1. UNCHANGED State!vars => UNCHANGED stateVars
    BY DEF State!vars, State!fileVars, State!bootVars, State!counters, stateVars
  <2> QED BY <2>1, StateStep
<1>2. StateInv /\ [State!Next]_State!vars => StateInv'
  BY <1>1, StateStep
<1> QED BY StateStarts, <1>2, PTL DEF State!Spec

\* persistence.rs, crash safety: after kills, power failures and edits the file is an
\* old or a new one, and what a client was not told it takes from the last one saved.
THEOREM SavesAreResumedHolds == State!Spec => []SavesAreResumed
<1>1. StateInv => SavesAreResumed
  <2> SUFFICES ASSUME StateInv PROVE SavesAreResumed
    OBVIOUS
  <2> USE DEF StateInv, StateTyped
  <2>1. State!TypeOK
    BY DEF State!TypeOK, State!Contents, Parsed, State!None, Temporary
  <2>2. State!NeverPart
    BY Words DEF State!NeverPart, Parsed
  <2>3. State!ResumesTheLatest
    <3> SUFFICES ASSUME NEW c \in Clients, intent[c] \notin {"none", "tone"}, expected[c] # "unknown",
                        choice[c].source # "radio" \/ choice[c].station = "none"
                 PROVE  intent[c] = IF expected[c] = "none" THEN "picker" ELSE expected[c]
      BY DEF State!ResumesTheLatest, State!None, State!Unknown
    <3>1. seen[c] = expected[c] /\ intent[c] = Aim(c)
      BY DEF Resuming
    <3>2. expected[c] \in {"none", "unknown"} \cup Stations
      OBVIOUS
    <3> QED BY <3>1, <3>2, Words DEF Aim
  <2> QED BY <2>1, <2>2, <2>3 DEF SavesAreResumed, State!SavesAreResumed
<1> QED BY <1>1, StateInvariance, PTL
-----------------------------------------------------------------------------
(* The order of the mirrors.                                               *)

\* Mirrors counts with the library's Cardinality.
LEMMA SameCardinality == \A S : Cache!Cardinality(S) = Cardinality(S)
BY Zenon DEF Cache!Cardinality, Cardinality

\* Record j is not behind record i.
NotBehind(q, j, i) ==
  \/ Cache!Before(q[j], q[i])
  \/ ~ Cache!Before(q[i], q[j]) /\ j <= i

UpTo(q, i) == {j \in DOMAIN q : NotBehind(q, j, i)}

\* This orders the records.
LEMMA OrdersRecords ==
  ASSUME NEW q \in Seq(SrvRecords)
  PROVE  /\ \A i \in DOMAIN q : NotBehind(q, i, i)
         /\ \A i, j \in DOMAIN q : NotBehind(q, i, j) \/ NotBehind(q, j, i)
         /\ \A i, j \in DOMAIN q : NotBehind(q, i, j) /\ NotBehind(q, j, i) => i = j
         /\ \A i, j, k \in DOMAIN q : NotBehind(q, i, j) /\ NotBehind(q, j, k) => NotBehind(q, i, k)
<1>1. \A i \in DOMAIN q : i \in Nat /\ q[i] \in SrvRecords
  OBVIOUS
<1>2. \A i \in DOMAIN q : q[i].priority \in Nat /\ q[i].weight \in Nat
  BY <1>1 DEF SrvRecords
<1> QED BY <1>1, <1>2 DEF NotBehind, Cache!Before

\* So no two records have one rank, and every rank is taken.
LEMMA RanksAreTaken ==
  ASSUME NEW q \in Seq(SrvRecords)
  PROVE  /\ DOMAIN q = 1 .. Len(q)
         /\ \A i \in DOMAIN q : Cache!Rank(q, i) \in DOMAIN q
         /\ \A i, j \in DOMAIN q : ~ NotBehind(q, j, i) => Cache!Rank(q, i) < Cache!Rank(q, j)
         /\ \A k \in DOMAIN q : \E i \in DOMAIN q : Cache!Rank(q, i) = k
<1> DEFINE N == Len(q)
           D == 1 .. N
           rank == [i \in D |-> Cardinality(UpTo(q, i))]
<1>1. DOMAIN q = D /\ N \in Nat
  OBVIOUS
<1>2. IsFiniteSet(D) /\ Cardinality(D) = N
  BY <1>1, FS_Interval
<1>3. ASSUME NEW i \in D
      PROVE  /\ Cache!Rank(q, i) = rank[i]
             /\ UpTo(q, i) \in SUBSET D /\ i \in UpTo(q, i)
  <2>1. i \in DOMAIN q /\ UpTo(q, i) \in SUBSET D
    BY <1>1 DEF UpTo
  <2>2. Cache!Rank(q, i) = Cardinality(UpTo(q, i))
    BY Zenon, SameCardinality DEF UpTo, NotBehind, Cache!Rank
  <2>3. NotBehind(q, i, i)
    BY <2>1, OrdersRecords
  <2> QED BY <2>1, <2>2, <2>3 DEF UpTo
<1>4. ASSUME NEW i \in D
      PROVE  IsFiniteSet(UpTo(q, i)) /\ rank[i] \in D
  <2>1. IsFiniteSet(UpTo(q, i)) /\ Cardinality(UpTo(q, i)) <= N /\ Cardinality(UpTo(q, i)) \in Nat
    BY <1>2, <1>3, FS_Subset, FS_CardinalityType
  <2>2. Cardinality(UpTo(q, i)) # 0
    BY <1>3, <2>1, FS_EmptySet
  <2> QED BY <2>1, <2>2, <1>1
<1>5. ASSUME NEW i \in D, NEW j \in D, ~ NotBehind(q, j, i)
      PROVE  rank[i] < rank[j]
  <2>1. UpTo(q, i) \subseteq UpTo(q, j)
    BY <1>1, <1>5, OrdersRecords DEF UpTo
  <2>2. j \in UpTo(q, j) /\ j \notin UpTo(q, i)
    BY <1>3, <1>5 DEF UpTo
  <2>3. /\ Cardinality(UpTo(q, i)) <= Cardinality(UpTo(q, j))
        /\ Cardinality(UpTo(q, i)) # Cardinality(UpTo(q, j))
    BY <1>4, <2>1, <2>2, FS_Subset
  <2>4. rank[i] \in Nat /\ rank[j] \in Nat
    BY <1>4
  <2> QED BY <2>3, <2>4
<1>6. rank \in Injection(D, D)
  <2>1. rank \in [D -> D]
    BY <1>4
  <2>2. ASSUME NEW i \in D, NEW j \in D, rank[i] = rank[j] PROVE i = j
    <3>1. NotBehind(q, j, i) /\ NotBehind(q, i, j)
      BY <1>4, <1>5, <2>2
    <3> QED BY <1>1, <3>1, OrdersRecords
  <2> QED BY <2>1, <2>2 DEF Injection, IsInjective
<1>7. rank \in Surjection(D, D)
  BY <1>2, <1>6, FS_Injection
<1>8. \A k \in D : \E i \in D : rank[i] = k
  BY <1>7 DEF Surjection
<1>9. \A i \in D : Cache!Rank(q, i) = rank[i] /\ rank[i] \in D
  BY <1>3, <1>4
<1>10. \A i, j \in D : ~ NotBehind(q, j, i) => rank[i] < rank[j]
  BY <1>5
<1> HIDE DEF rank
<1>11. \A i, j \in D : ~ NotBehind(q, j, i) => Cache!Rank(q, i) < Cache!Rank(q, j)
  BY <1>9, <1>10
<1>12. \A k \in D : \E i \in D : Cache!Rank(q, i) = k
  BY <1>8, <1>9
<1>13. \A i \in D : Cache!Rank(q, i) \in D
  BY <1>9
<1> HIDE DEF D
<1> QED BY <1>1, <1>11, <1>12, <1>13 DEF D

\* A mirror comes before those of greater priority and, within one, of less weight.
Ordered(q) ==
  \A i \in 1 .. Len(q) : \A k \in i + 1 .. Len(q) :
    \/ q[i].priority < q[k].priority
    \/ q[i].priority = q[k].priority /\ q[i].weight >= q[k].weight

\* sort_by_rfc2782 keeps the number of records and puts them in order.
LEMMA SortedFacts ==
  ASSUME NEW q \in Seq(SrvRecords)
  PROVE  Cache!Sorted(q) \in Seq(SrvRecords) /\ Len(Cache!Sorted(q)) = Len(q) /\ Ordered(Cache!Sorted(q))
<1> DEFINE D == 1 .. Len(q)
           At(k) == CHOOSE i \in D : Cache!Rank(q, i) = k
           s == Cache!Sorted(q)
<1>1. DOMAIN q = D /\ Len(q) \in Nat
  OBVIOUS
<1>2. \A k \in D : At(k) \in D /\ Cache!Rank(q, At(k)) = k
  BY <1>1, RanksAreTaken
<1>3. s = [k \in D |-> q[At(k)]]
  BY <1>1 DEF Cache!Sorted
<1> HIDE DEF At, s
<1>4. \A k \in D : q[At(k)] \in SrvRecords
  BY <1>2
<1>5. s \in Seq(SrvRecords) /\ Len(s) = Len(q)
  BY <1>1, <1>3, <1>4
<1>6. ASSUME NEW i \in D, NEW k \in D, i < k
      PROVE  \/ s[i].priority < s[k].priority
             \/ s[i].priority = s[k].priority /\ s[i].weight >= s[k].weight
  <2>1. At(i) \in D /\ At(k) \in D /\ NotBehind(q, At(i), At(k))
    <3>1. \A x, y \in D : ~ NotBehind(q, y, x) => Cache!Rank(q, x) < Cache!Rank(q, y)
      BY <1>1, RanksAreTaken
    <3>2. /\ At(i) \in D /\ At(k) \in D
          /\ Cache!Rank(q, At(i)) = i /\ Cache!Rank(q, At(k)) = k
      BY <1>2
    <3> QED BY <1>1, <1>6, <3>1, <3>2
  <2>2. ~ Cache!Before(q[At(k)], q[At(i)])
    <3>1. q[At(i)] \in SrvRecords /\ q[At(k)] \in SrvRecords
      BY <1>4
    <3>2. /\ q[At(i)].priority \in Nat /\ q[At(i)].weight \in Nat
          /\ q[At(k)].priority \in Nat /\ q[At(k)].weight \in Nat
      BY <3>1 DEF SrvRecords
    <3> QED BY <2>1, <3>2 DEF NotBehind, Cache!Before
  <2>3. s[i] = q[At(i)] /\ s[k] = q[At(k)] /\ s[i] \in SrvRecords /\ s[k] \in SrvRecords
    BY <1>3, <1>4
  <2>4. /\ s[i].priority \in Nat /\ s[i].weight \in Nat
        /\ s[k].priority \in Nat /\ s[k].weight \in Nat
    BY <2>3 DEF SrvRecords
  <2> QED BY <2>2, <2>3, <2>4 DEF Cache!Before
<1>7. Ordered(s)
  BY <1>1, <1>5, <1>6 DEF Ordered
<1> QED BY <1>5, <1>7 DEF s

-----------------------------------------------------------------------------
(* The directory of stations.                                              *)

Lookups == {"idle", "srv", "store", "write", "cache", "fetch"}

\* An answer, as it is kept.
Good(q) == q \in Seq(SrvRecords) /\ q # <<>> /\ Ordered(q)

CacheTyped ==
  /\ now \in 0 .. Horizon /\ off \in Settings
  /\ cache \in [mirrors : Seq(SrvRecords), at : Int, kind : {"none", "torn", "ok"}]
  /\ answered \in Seq(SrvRecords) /\ missed \in BOOLEAN
  /\ saved \in [mirrors : Seq(SrvRecords), at : Int, set : BOOLEAN]
  /\ lookup \in Lookups /\ from \in {"LiveSrv", "FreshCache", "BakedIn"}
  /\ result \in {"none", "found", "failed"}
  /\ mirrors \in Seq(SrvRecords)
  /\ replies \in Seq(Cache!Replies)
  /\ tried \in 0 .. MaxMirrorsTried /\ tried = Len(replies)

\* A cache that can be read is what was saved last, with its time, and the last
\* answer unless that one did not get as far as the file.
CacheHolds ==
  cache.kind = "ok" =>
    /\ Good(cache.mirrors) /\ cache.mirrors = saved.mirrors
    /\ cache.mirrors = answered \/ missed = TRUE
    /\ saved.set = TRUE \/ cache.at = saved.at + off

\* An answer that is stored is the last one; while it is written there is no cache.
Storing ==
  /\ lookup \in {"store", "write"} => Good(srv) /\ srv = answered
  /\ lookup = "store" => missed = TRUE
  /\ lookup = "write" => cache.kind # "ok" /\ missed = FALSE

\* What the mirrors are asked for, and where they come from.
Looking ==
  /\ lookup \in {"srv", "store", "write", "cache"} => tried = 0 /\ result = "none"
  /\ lookup = "fetch" => mirrors # <<>> /\ tried <= Len(mirrors) /\ result = "none"
  /\ from # "BakedIn" => Ordered(mirrors)
  /\ lookup = "fetch" /\ from = "FreshCache" =>
       /\ mirrors = saved.mirrors
       /\ mirrors = answered \/ missed = TRUE
       /\ saved.set = TRUE \/ now - saved.at < Ttl

\* A lookup ends with the first answer that ends it.
Answers ==
  /\ lookup = "fetch" => \A i \in 1 .. Len(replies) : replies[i] \notin Cache!Ends
  /\ result = "failed" =>
       \/ tried = MaxMirrorsTried \/ tried = Len(mirrors)
       \/ tried # 0 /\ replies[tried] \in {"empty", "garbage"}
  /\ \A i \in 1 .. Len(replies) : replies[i] = "station" => result = "found"

CacheInv == CacheTyped /\ CacheHolds /\ Storing /\ Looking /\ Answers

\* The lookup begins without a cache and without mirrors.
LEMMA CacheStarts == Cache!Init => CacheInv
<1> SUFFICES ASSUME Cache!Init PROVE CacheInv
  OBVIOUS
<1>1. <<>> \in Seq(SrvRecords) /\ <<>> \in Seq(Cache!Replies) /\ Len(<<>>) = 0
  OBVIOUS
<1>2. CacheTyped
  <2>1. cache \in [mirrors : Seq(SrvRecords), at : Int, kind : {"none", "torn", "ok"}]
    BY <1>1 DEF Cache!Init, Cache!NoFile
  <2>2. saved \in [mirrors : Seq(SrvRecords), at : Int, set : BOOLEAN]
    BY <1>1 DEF Cache!Init
  <2>3. now \in 0 .. Horizon /\ off \in Settings /\ 0 \in 0 .. MaxMirrorsTried
    BY MirrorsAssumption DEF Cache!Init
  <2> QED BY <1>1, <2>1, <2>2, <2>3 DEF Cache!Init, CacheTyped, Lookups
<1>3. CacheHolds /\ Storing /\ Looking /\ Answers
  BY <1>1 DEF Cache!Init, Cache!NoFile, CacheHolds, Storing, Looking, Answers
<1> QED BY <1>2, <1>3 DEF CacheInv

\* Time passes and the clock is set between two lookups.
LEMMA CacheClock ==
  ASSUME CacheInv, Cache!Tick \/ Cache!SetClock
  PROVE  CacheInv'
<1> USE DEF CacheInv
<1>1. lookup = "idle" /\ lookup' = "idle"
      /\ UNCHANGED <<cache, srv, mirrors, from, tried, result, replies>>
  BY DEF Cache!Tick, Cache!SetClock
<1>2. CASE Cache!Tick
  <2>1. now' \in 0 .. Horizon
    BY <1>2, MirrorsAssumption DEF Cache!Tick, CacheTyped
  <2>2. UNCHANGED <<off, answered, missed, saved>>
    BY <1>2 DEF Cache!Tick, Cache!history
  <2>3. CacheTyped'
    BY <1>1, <2>1, <2>2 DEF CacheTyped
  <2>4. CacheHolds' /\ Storing' /\ Looking' /\ Answers'
    BY <1>1, <2>2 DEF CacheHolds, Storing, Looking, Answers
  <2> QED BY <2>3, <2>4
<1>3. CASE Cache!SetClock
  <2>1. /\ now' = now /\ off' \in Settings /\ saved' = [saved EXCEPT !.set = TRUE]
        /\ UNCHANGED <<answered, missed>>
    BY <1>3 DEF Cache!SetClock
  <2>2. /\ saved' \in [mirrors : Seq(SrvRecords), at : Int, set : BOOLEAN]
        /\ saved'.mirrors = saved.mirrors /\ saved'.set = TRUE
    BY <2>1 DEF CacheTyped
  <2>3. CacheTyped'
    BY <1>1, <2>1, <2>2 DEF CacheTyped
  <2>4. CacheHolds' /\ Storing' /\ Looking' /\ Answers'
    BY <1>1, <2>1, <2>2 DEF CacheHolds, Storing, Looking, Answers
  <2> QED BY <2>3, <2>4
<1> QED BY <1>2, <1>3

\* An answer of DNS is put in order, and its store begins.
LEMMA CacheAnswer ==
  ASSUME CacheInv, Cache!Ask \/ Cache!Resolved \/ Cache!Unresolved \/ Cache!Kill
  PROVE  CacheInv'
<1> USE DEF CacheInv
<1>1. <<>> \in Seq(Cache!Replies) /\ Len(<<>>) = 0 /\ 0 \in 0 .. MaxMirrorsTried
  BY MirrorsAssumption
<1>2. CASE Cache!Ask \/ Cache!Kill
  <2>1. /\ lookup' \in {"srv", "idle"} /\ result' = "none" /\ tried' = 0 /\ replies' = <<>>
        /\ UNCHANGED <<now, off, cache, srv, mirrors, from, answered, missed, saved>>
    BY <1>2 DEF Cache!Ask, Cache!Kill, Cache!history
  <2>2. CacheTyped'
    BY <1>1, <2>1 DEF CacheTyped, Lookups
  <2>3. CacheHolds' /\ Storing' /\ Looking' /\ Answers'
    BY <1>1, <2>1 DEF CacheHolds, Storing, Looking, Answers
  <2> QED BY <2>2, <2>3
<1>3. CASE Cache!Unresolved
  <2>1. /\ lookup = "srv" /\ lookup' = "cache"
        /\ UNCHANGED <<now, off, cache, srv, mirrors, from, answered, missed, saved>>
        /\ UNCHANGED <<tried, result, replies>>
    BY <1>3 DEF Cache!Unresolved, Cache!worldVars, Cache!history
  <2>2. CacheTyped'
    BY <1>1, <2>1 DEF CacheTyped, Lookups
  <2>3. CacheHolds' /\ Storing' /\ Looking' /\ Answers'
    BY <1>1, <2>1 DEF CacheHolds, Storing, Looking, Answers
  <2> QED BY <2>2, <2>3
<1>4. CASE Cache!Resolved
  <2>1. PICK answer \in SrvAnswers : srv' = Cache!Sorted(answer)
    BY <1>4 DEF Cache!Resolved
  <2>2. /\ lookup = "srv" /\ lookup' = "store"
        /\ answered' = srv' /\ missed' = TRUE
        /\ UNCHANGED <<now, off, cache, mirrors, from, tried, result, saved, replies>>
    BY <1>4 DEF Cache!Resolved, Cache!worldVars
  <2>3. answer \in Seq(SrvRecords) /\ answer # <<>>
    BY MirrorsAssumption
  <2>4. Good(srv')
    <3>1. Len(answer) # 0
      BY <2>3
    <3>2. srv' \in Seq(SrvRecords) /\ Len(srv') = Len(answer) /\ Ordered(srv')
      BY <2>1, <2>3, SortedFacts
    <3> QED BY <3>1, <3>2 DEF Good
  <2>5. srv' \in Seq(SrvRecords)
    BY <2>4 DEF Good
  <2>6. CacheTyped'
    BY <2>2, <2>5 DEF CacheTyped, Lookups
  <2>7. CacheHolds' /\ Storing' /\ Looking' /\ Answers'
    BY <2>2, <2>4 DEF CacheHolds, Storing, Looking, Answers
  <2> QED BY <2>6, <2>7
<1> QED BY <1>2, <1>3, <1>4

\* The older cache is gone when the file is opened.
LEMMA CacheOpen ==
  ASSUME CacheInv, Cache!Open
  PROVE  CacheInv'
<1> USE DEF CacheInv
<1>1. /\ lookup = "store" /\ lookup' = "write" /\ cache' = Cache!Torn /\ missed' = FALSE
      /\ UNCHANGED <<now, off, srv, mirrors, from, tried, result, answered, saved, replies>>
  BY DEF Cache!Open, Cache!worldVars
<1>2. Cache!Torn \in [mirrors : Seq(SrvRecords), at : Int, kind : {"none", "torn", "ok"}]
      /\ Cache!Torn.kind = "torn"
  BY DEF Cache!Torn
<1>3. CacheTyped'
  BY <1>1, <1>2 DEF CacheTyped, Lookups
<1>4. CacheHolds' /\ Storing' /\ Looking' /\ Answers'
  BY <1>1, <1>2 DEF CacheHolds, Storing, Looking, Answers
<1> QED BY <1>3, <1>4

\* The answer is used when it was stored and when it could not be.
LEMMA CacheUse ==
  ASSUME CacheInv, lookup \in {"store", "write"}, lookup' = "fetch", Cache!Use(srv, "LiveSrv"),
         UNCHANGED <<now, off, srv, tried, result, answered, replies>>,
         cache' \in [mirrors : Seq(SrvRecords), at : Int, kind : {"none", "torn", "ok"}],
         saved' \in [mirrors : Seq(SrvRecords), at : Int, set : BOOLEAN],
         missed' \in BOOLEAN, CacheHolds'
  PROVE  CacheInv'
<1> USE DEF CacheInv
<1>1. mirrors' = srv /\ from' = "LiveSrv"
  BY DEF Cache!Use
<1>2. Good(srv) /\ tried = 0 /\ result = "none"
  BY DEF Storing, Looking
<1>3. srv \in Seq(SrvRecords) /\ srv # <<>> /\ Ordered(srv) /\ Len(srv) \in Nat
  BY <1>2 DEF Good
<1>4. CacheTyped'
  BY <1>1, <1>3 DEF CacheTyped, Lookups
<1>5. \A i \in 1 .. Len(replies) : FALSE
  BY <1>2 DEF CacheTyped
<1>6. Storing' /\ Looking' /\ Answers'
  BY <1>1, <1>2, <1>3, <1>5 DEF Storing, Looking, Answers
<1> QED BY <1>4, <1>6

\* A cache that was written whole holds the last answer; a store that fails leaves
\* the file as it is.
LEMMA CacheStore ==
  ASSUME CacheInv, Cache!Written \/ Cache!StoreFails
  PROVE  CacheInv'
<1> USE DEF CacheInv
<1>1. CASE Cache!Written
  <2>1. /\ lookup = "write" /\ lookup' = "fetch" /\ Cache!Use(srv, "LiveSrv")
        /\ cache' = [mirrors |-> srv, at |-> now + off, kind |-> "ok"]
        /\ saved' = [mirrors |-> srv, at |-> now, set |-> FALSE]
        /\ UNCHANGED <<now, off, srv, tried, result, answered, missed, replies>>
    BY <1>1 DEF Cache!Written, Cache!Wall, Cache!Use, Cache!worldVars
  <2>2. Good(srv) /\ srv = answered /\ srv \in Seq(SrvRecords)
    BY <2>1 DEF Storing, Good
  <2>3. now \in Int /\ off \in Int /\ now + off \in Int
    BY MirrorsAssumption DEF CacheTyped
  <2>4. cache' \in [mirrors : Seq(SrvRecords), at : Int, kind : {"none", "torn", "ok"}]
        /\ cache'.mirrors = srv /\ cache'.at = now + off
    BY <2>1, <2>2, <2>3
  <2>5. saved' \in [mirrors : Seq(SrvRecords), at : Int, set : BOOLEAN]
        /\ saved'.mirrors = srv /\ saved'.at = now
    BY <2>1, <2>2, <2>3
  <2>6. CacheHolds'
    BY <2>1, <2>2, <2>4, <2>5 DEF CacheHolds
  <2>7. missed' \in BOOLEAN
    BY <2>1 DEF CacheTyped
  <2> QED BY <2>1, <2>4, <2>5, <2>6, <2>7, CacheUse
<1>2. CASE Cache!StoreFails
  <2>1. /\ lookup \in {"store", "write"} /\ lookup' = "fetch" /\ Cache!Use(srv, "LiveSrv")
        /\ UNCHANGED <<now, off, cache, srv, tried, result, answered, missed, saved, replies>>
    BY <1>2 DEF Cache!StoreFails, Cache!Use, Cache!history
  <2>2. CacheHolds'
    BY <2>1 DEF CacheHolds
  <2>3. /\ cache' \in [mirrors : Seq(SrvRecords), at : Int, kind : {"none", "torn", "ok"}]
        /\ saved' \in [mirrors : Seq(SrvRecords), at : Int, set : BOOLEAN]
        /\ missed' \in BOOLEAN
    BY <2>1 DEF CacheTyped
  <2> QED BY <2>1, <2>2, <2>3, CacheUse
<1> QED BY <1>1, <1>2

\* Without an answer the cache is used while it is fresh, else the built-in list.
LEMMA CacheFallBack ==
  ASSUME CacheInv, Cache!FallBack
  PROVE  CacheInv'
<1> USE DEF CacheInv
<1>1. /\ lookup = "cache" /\ lookup' = "fetch"
      /\ UNCHANGED <<now, off, cache, srv, tried, result, replies, answered, missed, saved>>
  BY DEF Cache!FallBack, Cache!Use, Cache!worldVars, Cache!history
<1>2. tried = 0 /\ result = "none"
  BY <1>1 DEF Looking
<1>3. \/ /\ mirrors' = cache.mirrors /\ from' = "FreshCache"
         /\ cache.kind = "ok" /\ (now + off) - cache.at < Ttl
      \/ mirrors' = BAKED_IN_MIRRORS /\ from' = "BakedIn"
  BY DEF Cache!FallBack, Cache!Use, Cache!Readable, Cache!Fresh, Cache!Wall
<1>4. /\ mirrors' \in Seq(SrvRecords) /\ mirrors' # <<>>
      /\ from' # "BakedIn" => Ordered(mirrors') /\ from' = "FreshCache"
      /\ from' # "BakedIn" => mirrors' = saved.mirrors
      /\ from' # "BakedIn" => mirrors' = answered \/ missed = TRUE
      /\ from' # "BakedIn" => saved.set = TRUE \/ now - saved.at < Ttl
  <2>1. CASE /\ mirrors' = cache.mirrors /\ from' = "FreshCache"
             /\ cache.kind = "ok" /\ (now + off) - cache.at < Ttl
    <3>1. /\ Good(cache.mirrors) /\ cache.mirrors = saved.mirrors
          /\ cache.mirrors = answered \/ missed = TRUE
          /\ saved.set = TRUE \/ cache.at = saved.at + off
      BY <2>1 DEF CacheHolds
    <3>2. now \in Int /\ off \in Int /\ saved.at \in Int /\ Ttl \in Int
      BY MirrorsAssumption DEF CacheTyped
    <3> QED BY <2>1, <3>1, <3>2 DEF Good
  <2>2. CASE mirrors' = BAKED_IN_MIRRORS /\ from' = "BakedIn"
    BY <2>2, MirrorsAssumption
  <2> QED BY <1>3, <2>1, <2>2
<1>5. from' \in {"FreshCache", "BakedIn"} /\ Len(mirrors') \in Nat
  BY <1>3, <1>4
<1>6. CacheTyped'
  BY <1>1, <1>4, <1>5 DEF CacheTyped, Lookups
<1>7. \A i \in 1 .. Len(replies) : FALSE
  BY <1>2 DEF CacheTyped
<1>8. CacheHolds' /\ Storing' /\ Looking' /\ Answers'
  BY <1>1, <1>2, <1>4, <1>5, <1>7 DEF CacheHolds, Storing, Looking, Answers
<1> QED BY <1>6, <1>8

\* A reply is added to the others.
LEMMA RepliesGrow ==
  ASSUME NEW S, NEW q \in Seq(S), NEW e \in S
  PROVE  /\ Append(q, e) \in Seq(S) /\ Len(Append(q, e)) = Len(q) + 1 /\ Len(q) \in Nat
         /\ \A i \in 1 .. Len(q) : Append(q, e)[i] = q[i]
         /\ Append(q, e)[Len(q) + 1] = e
OBVIOUS

\* One mirror after the other, three at most.
LEMMA CacheFetch ==
  ASSUME CacheInv, NEW reply \in Cache!Replies, Cache!Fetch(reply)
  PROVE  CacheInv'
<1> USE DEF CacheInv
<1>1. /\ lookup = "fetch" /\ tried < MaxMirrorsTried /\ tried < Len(mirrors)
      /\ tried' = tried + 1 /\ replies' = Append(replies, reply)
      /\ UNCHANGED <<now, off, cache, srv, mirrors, from, answered, missed, saved>>
  BY DEF Cache!Fetch, Cache!worldVars, Cache!history
<1>2. \/ /\ reply \in Cache!Ends /\ lookup' = "idle"
         /\ result' = IF reply = "station" THEN "found" ELSE "failed"
      \/ reply \notin Cache!Ends /\ lookup' = "fetch" /\ result' = result
  BY <1>1 DEF Cache!Fetch
<1>3. /\ replies \in Seq(Cache!Replies) /\ tried = Len(replies) /\ tried \in Nat
      /\ mirrors \in Seq(SrvRecords) /\ Len(mirrors) \in Nat
  BY DEF CacheTyped
<1>4. /\ replies' \in Seq(Cache!Replies) /\ Len(replies') = tried'
      /\ \A i \in 1 .. Len(replies) : replies'[i] = replies[i]
      /\ replies'[tried'] = reply
  BY <1>1, <1>3, RepliesGrow
<1>5. tried' \in 0 .. MaxMirrorsTried /\ tried' # 0 /\ tried' <= Len(mirrors)
      /\ \A i \in 1 .. tried' : i \in 1 .. tried \/ i = tried'
  BY <1>1, <1>3, MirrorsAssumption
<1>6. result = "none" /\ mirrors # <<>> /\ \A i \in 1 .. Len(replies) : replies[i] \notin Cache!Ends
  BY <1>1 DEF Looking, Answers
<1>7. CacheTyped'
  BY <1>1, <1>2, <1>4, <1>5 DEF CacheTyped, Lookups
<1>8. CacheHolds' /\ Storing' /\ Looking'
  BY <1>1, <1>2, <1>5, <1>6 DEF CacheHolds, Storing, Looking
<1>9. Answers'
  <2>1. \A i \in 1 .. Len(replies') : i = tried' \/ (replies'[i] = replies[i] /\ i \in 1 .. Len(replies))
    BY <1>3, <1>4, <1>5
  <2>2. CASE reply \in Cache!Ends
    BY <1>1, <1>2, <1>4, <1>5, <1>6, <2>1, <2>2 DEF Answers, Cache!Ends
  <2>3. CASE reply \notin Cache!Ends
    BY <1>1, <1>2, <1>4, <1>5, <1>6, <2>1, <2>3 DEF Answers, Cache!Ends
  <2> QED BY <2>2, <2>3
<1> QED BY <1>7, <1>8, <1>9

\* No mirror is left to be asked.
LEMMA CacheGiveUp ==
  ASSUME CacheInv, Cache!GiveUp
  PROVE  CacheInv'
<1> USE DEF CacheInv
<1>1. /\ lookup = "fetch" /\ ~ (tried < MaxMirrorsTried /\ tried < Len(mirrors))
      /\ lookup' = "idle" /\ result' = "failed"
      /\ UNCHANGED <<now, off, cache, srv, mirrors, from, tried, answered, missed, saved, replies>>
  BY DEF Cache!GiveUp, Cache!worldVars, Cache!history
<1>2. tried <= Len(mirrors) /\ \A i \in 1 .. Len(replies) : replies[i] \notin Cache!Ends
  BY <1>1 DEF Looking, Answers
<1>3. tried = MaxMirrorsTried \/ tried = Len(mirrors)
  BY <1>1, <1>2, MirrorsAssumption DEF CacheTyped
<1>4. CacheTyped'
  BY <1>1 DEF CacheTyped, Lookups
<1>5. CacheHolds' /\ Storing' /\ Looking' /\ Answers'
  BY <1>1, <1>2, <1>3 DEF CacheHolds, Storing, Looking, Answers, Cache!Ends
<1> QED BY <1>4, <1>5

\* Every step of a lookup and of the world keeps the invariant.
LEMMA CacheStep == CacheInv /\ [Cache!Next]_cacheVars => CacheInv'
<1> SUFFICES ASSUME CacheInv, [Cache!Next]_cacheVars PROVE CacheInv'
  OBVIOUS
<1>1. CASE UNCHANGED cacheVars
  BY <1>1 DEF cacheVars, CacheInv, CacheTyped, CacheHolds, Storing, Looking, Answers
<1>2. CASE Cache!Next
  BY <1>2, CacheClock, CacheAnswer, CacheOpen, CacheStore, CacheFallBack, CacheFetch, CacheGiveUp DEF Cache!Next
<1> QED BY <1>1, <1>2

\* The invariant, for any answers of DNS, any TTL and any number of mirrors tried.
THEOREM CacheInvariance == Cache!Spec => []CacheInv
<1>1. CacheInv /\ [Cache!Next]_Cache!vars => CacheInv'
  <2>1. UNCHANGED Cache!vars => UNCHANGED cacheVars
    BY DEF Cache!vars, Cache!worldVars, Cache!history, cacheVars
  <2> QED BY <2>1, CacheStep
<1> QED BY CacheStarts, <1>1, PTL DEF Cache!Spec

\* discovery.rs:7-9 and station_db.rs:5-7: without DNS the last answer that was stored
\* is used while it is fresh, and no other once the file was opened; the mirrors are asked in their order, and a lookup that fails has asked
\* all it may or had an answer that ended it.
THEOREM StationsAreFoundHolds == Cache!Spec => []StationsAreFound
<1>1. CacheInv => StationsAreFound
  <2> SUFFICES ASSUME CacheInv PROVE StationsAreFound
    OBVIOUS
  <2> USE DEF CacheInv
  <2>1. Cache!TypeOK
    BY DEF Cache!TypeOK, CacheTyped, Looking, Lookups
  <2>2. Cache!CacheIsTheLastStored
    BY DEF Cache!CacheIsTheLastStored, Looking
  <2>3. Cache!FailsOnlyAfterThree
    <3>1. /\ tried = Len(replies) /\ tried \in Nat /\ replies \in Seq(Cache!Replies)
          /\ mirrors \in Seq(SrvRecords) /\ Len(mirrors) \in Nat
      BY DEF CacheTyped
    <3>2. ASSUME from # "BakedIn", NEW i \in 1 .. tried, NEW k \in i + 1 .. Len(mirrors)
          PROVE  \/ mirrors[i].priority < mirrors[k].priority
                 \/ mirrors[i].priority = mirrors[k].priority /\ mirrors[i].weight >= mirrors[k].weight
      <4>1. i \in 1 .. Len(mirrors)
        BY <3>1, <3>2
      <4> QED BY <3>2, <4>1 DEF Looking, Ordered
    <3>3. result = "failed" =>
            \/ tried = MaxMirrorsTried \/ tried = Len(mirrors)
            \/ Cache!Last(replies) \in {"empty", "garbage"}
      BY <3>1 DEF Answers, Cache!Last
    <3>4. \A i \in DOMAIN replies : replies[i] = "station" => result = "found"
      BY <3>1 DEF Answers
    <3> QED BY <3>2, <3>3, <3>4 DEF Cache!FailsOnlyAfterThree
  <2> QED BY <2>1, <2>2, <2>3 DEF StationsAreFound, Cache!StationsAreFound
<1> QED BY <1>1, CacheInvariance, PTL

-----------------------------------------------------------------------------
(* The log.                                                                *)

LogLines == [id : Nat, size : Sizes]
Held(n) == files[n] # Log!Absent

LogTyped ==
  /\ files \in [Log!Numbers -> Seq(LogLines) \cup {Log!Absent}]
  /\ handle \in Log!Numbers \cup {Log!Lost}
  /\ written \in Nat /\ slot \in Log!Numbers /\ size \in {0} \cup Sizes
  /\ logPc \in {"down", "idle", "shift", "create"}
  /\ lines \in Nat /\ logFaults \in Nat
  /\ \A n \in Log!Numbers : Log!Ids(n) \subseteq 1 .. lines

\* What is written goes to the newest file, and its length is known.
Appends ==
  /\ logPc = "down" => handle = Log!Lost
  /\ handle # Log!Lost =>
       /\ Held(handle) /\ written = Log!Bytes(files[handle])
       /\ \A n \in Log!Numbers : n < handle => ~ Held(n)
  /\ handle = Log!Lost /\ logPc # "down" => \A n \in Log!Numbers : ~ Held(n)

\* A rotation makes room before it moves a file.
Rotates ==
  /\ size # 0 <=> logPc \in {"shift", "create"}
  /\ logPc = "shift" /\ slot # MaxBackups => ~ Held(slot + 1)
  /\ logPc = "create" => ~ Held(0)

\* Nothing newer than what is kept is lost.
NoGap == \A k \in Log!Kept : k .. lines \subseteq Log!Kept \cup vanished

\* The number nothing has in the middle of a rotation.
Vacated == CASE logPc = "shift" -> slot + 1 [] logPc = "create" -> 0 [] OTHER -> -1

\* Until something fails the files are numbered without a gap, and all numbers are
\* taken before a line is dropped.
Fills ==
  logFaults = 0 =>
    /\ logPc = "down" => lines = 0
    /\ logPc = "idle" => handle = 0
    /\ \A n, m \in Log!Numbers : m < n /\ Held(n) /\ m # Vacated => Held(m)
    /\ lines # 0 /\ 1 \notin Log!Kept => \A n \in Log!Numbers : n # Vacated => Held(n)

LogInv ==
  /\ LogTyped /\ Appends /\ Rotates
  /\ Log!FootprintIsBounded /\ Log!InOrder /\ NoGap /\ Fills

-----------------------------------------------------------------------------
(* Lengths: what Bytes computes, by induction over the lines of a file.     *)

\* A set of natural numbers that is not empty has a least element.
LEMMA LeastElement ==
  ASSUME NEW T \in SUBSET Nat, T # {}
  PROVE  \E x \in T : \A y \in T : x <= y
<1> DEFINE R == OpToRel(<, Nat)
<1>1. IsWellFoundedOn(R, Nat)
  BY NatLessThanWellFounded
<1>2. \A x, y \in Nat : x < y => <<x, y>> \in R
  BY DEF OpToRel
<1> HIDE DEF R
<1>3. PICK x \in T : \A y \in T : <<y, x>> \notin R
  BY <1>1, WFMin
<1>4. \A y \in T : x \in Nat /\ y \in Nat /\ ~ (y < x)
  BY <1>2, <1>3
<1> QED BY <1>4

\* Numbers up to N that have 0 and with each the next are all of them.
LEMMA AllUpTo ==
  ASSUME NEW N \in Nat, NEW P \in SUBSET (0 .. N), 0 \in P,
         \A n \in 1 .. N : n - 1 \in P => n \in P
  PROVE  P = 0 .. N
<1> DEFINE T == (0 .. N) \ P
<1>1. SUFFICES ASSUME T # {} PROVE FALSE
  OBVIOUS
<1>2. T \in SUBSET Nat
  OBVIOUS
<1>3. PICK x \in T : \A y \in T : x <= y
  <2> HIDE DEF T
  <2> QED BY <1>1, <1>2, LeastElement
<1>4. x \in 1 .. N /\ x \notin P
  BY <1>3
<1>5. x - 1 \in P
  BY <1>3, <1>4
<1> QED BY <1>4, <1>5

\* The length of the first n lines, when g has that of fewer.
Sum(g, f, n) == IF n = 0 THEN 0 ELSE g[n - 1] + f[n].size

Sums(g, f, m) == g = [n \in 0 .. m |-> Sum(g, f, n)]

\* There is such a table, so Bytes is what it says it is.
LEMMA SumsExist ==
  ASSUME NEW f, NEW N \in Nat
  PROVE  \E g : Sums(g, f, N)
<1> DEFINE P == {m \in 0 .. N : \E g : Sums(g, f, m)}
<1>1. 0 \in P
  <2>1. Sums([n \in 0 .. 0 |-> 0], f, 0)
    BY DEF Sums, Sum
  <2> QED BY <2>1
<1>2. ASSUME NEW m \in 1 .. N, m - 1 \in P PROVE m \in P
  <2>1. PICK g : Sums(g, f, m - 1)
    BY <1>2
  <2> DEFINE k == [n \in 0 .. m |-> IF n = m THEN Sum(g, f, m) ELSE g[n]]
  <2>2. ASSUME NEW n \in 0 .. m PROVE k[n] = Sum(k, f, n)
    <3>1. CASE n = 0
      BY <3>1, <2>1 DEF Sums, Sum
    <3>2. CASE n # 0
      <4>1. n - 1 \in 0 .. m /\ n - 1 # m
        BY <3>2
      <4>2. k[n - 1] = g[n - 1]
        BY <4>1
      <4>3. Sum(k, f, n) = Sum(g, f, n)
        BY <4>2 DEF Sum
      <4>4. n # m => n \in 0 .. (m - 1)
        OBVIOUS
      <4>5. n # m => g[n] = Sum(g, f, n)
        BY <2>1, <4>4 DEF Sums
      <4> QED BY <4>3, <4>5
    <3> QED BY <3>1, <3>2
  <2>3. Sums(k, f, m)
    BY <2>2 DEF Sums
  <2>4. m \in 0 .. N
    OBVIOUS
  <2> QED BY <2>3, <2>4
<1>3. P = 0 .. N
  <2> HIDE DEF P
  <2>1. P \in SUBSET (0 .. N)
    BY DEF P
  <2> QED BY <1>1, <1>2, <2>1, AllUpTo
<1>4. N \in P
  <2> HIDE DEF P
  <2> QED BY <1>3
<1> QED BY <1>4

\* Bytes is the last entry of the table.
LEMMA BytesTable ==
  ASSUME NEW f \in Seq(LogLines)
  PROVE  \E g : Log!Bytes(f) = g[Len(f)] /\ \A n \in 0 .. Len(f) : g[n] = Sum(g, f, n)
<1> DEFINE g == CHOOSE g : Sums(g, f, Len(f))
<1>1. Len(f) \in Nat
  OBVIOUS
<1>2. \E h : Sums(h, f, Len(f))
  BY <1>1, SumsExist
<1>3. Sums(g, f, Len(f))
  BY <1>2
<1>4. Log!Bytes(f) = g[Len(f)]
  BY DEF Log!Bytes, Sums, Sum
<1> HIDE DEF g
<1>5. \A n \in 0 .. Len(f) : g[n] = Sum(g, f, n)
  BY <1>3 DEF Sums
<1> QED BY <1>4, <1>5

\* A file's length is a number, and none without lines.
LEMMA BytesType ==
  ASSUME NEW f \in Seq(LogLines)
  PROVE  Log!Bytes(f) \in Nat /\ (f = <<>> => Log!Bytes(f) = 0)
<1>1. PICK g : Log!Bytes(f) = g[Len(f)] /\ \A n \in 0 .. Len(f) : g[n] = Sum(g, f, n)
  BY BytesTable
<1> DEFINE N == Len(f)
           P == {n \in 0 .. N : g[n] \in Nat}
<1>2. N \in Nat
  OBVIOUS
<1>3. g[0] = 0
  BY <1>1, <1>2 DEF Sum
<1>4. ASSUME NEW n \in 1 .. N, n - 1 \in P PROVE n \in P
  <2>1. f[n] \in LogLines
    OBVIOUS
  <2>2. f[n].size \in Nat
    BY <2>1, LogAssumption DEF LogLines
  <2>3. n \in 0 .. N /\ g[n] = g[n - 1] + f[n].size
    BY <1>1 DEF Sum
  <2> QED BY <1>4, <2>2, <2>3
<1>5. P = 0 .. N
  <2>1. P \in SUBSET (0 .. N) /\ 0 \in P
    BY <1>2, <1>3
  <2> HIDE DEF P, N
  <2> QED BY <1>2, <1>4, <2>1, AllUpTo
<1> QED BY <1>1, <1>2, <1>3, <1>5

\* A line adds its size.
LEMMA BytesAppend ==
  ASSUME NEW f \in Seq(LogLines), NEW l \in LogLines
  PROVE  Log!Bytes(Append(f, l)) = Log!Bytes(f) + l.size
<1> DEFINE r == Append(f, l)
           N == Len(f)
<1>1. /\ N \in Nat /\ r \in Seq(LogLines) /\ Len(r) = N + 1 /\ r[N + 1] = l
      /\ \A n \in 1 .. N : r[n] = f[n]
  OBVIOUS
<1>2. PICK g : Log!Bytes(f) = g[N] /\ \A n \in 0 .. N : g[n] = Sum(g, f, n)
  BY BytesTable
<1>3. PICK h : Log!Bytes(r) = h[N + 1] /\ \A n \in 0 .. N + 1 : h[n] = Sum(h, r, n)
  <2> HIDE DEF r, N
  <2> QED BY <1>1, BytesTable
<1> HIDE DEF r, N
<1> DEFINE P == {n \in 0 .. N : g[n] = h[n]}
<1>4. 0 \in P
  BY <1>1, <1>2, <1>3 DEF Sum
<1>5. ASSUME NEW n \in 1 .. N, n - 1 \in P PROVE n \in P
  <2>1. n \in 0 .. N /\ n \in 0 .. N + 1 /\ n # 0 /\ r[n] = f[n]
    BY <1>1
  <2>2. g[n] = Sum(g, f, n) /\ h[n] = Sum(h, r, n) /\ g[n - 1] = h[n - 1]
    BY <1>2, <1>3, <1>5, <2>1
  <2> QED BY <2>1, <2>2 DEF Sum
<1>6. P = 0 .. N
  <2>1. P \in SUBSET (0 .. N)
    OBVIOUS
  <2> HIDE DEF P
  <2> QED BY <1>1, <1>4, <1>5, <2>1, AllUpTo
<1>7. g[N] = h[N]
  BY <1>1, <1>6
<1>8. h[N + 1] = h[N] + l.size
  <2>1. N + 1 \in 0 .. N + 1 /\ N + 1 # 0 /\ (N + 1) - 1 = N
    BY <1>1
  <2> QED BY <1>1, <1>3, <2>1 DEF Sum
<1> QED BY <1>2, <1>3, <1>7, <1>8 DEF r

-----------------------------------------------------------------------------
(* The steps of the log.                                                   *)

IdsOf(f) == IF f = Log!Absent THEN {} ELSE {f[i].id : i \in DOMAIN f}
Increasing(f) == \A i, j \in DOMAIN f : i < j => f[i].id < f[j].id

\* A file that is there is a sequence of lines, and has no line when it is not.
LEMMA HeldFile ==
  ASSUME LogTyped, NEW n \in Log!Numbers
  PROVE  /\ Held(n) <=> files[n] \in Seq(LogLines)
         /\ Log!Ids(n) = IdsOf(files[n])
         /\ ~ Held(n) => IdsOf(files[n]) = {}
<1>1. Log!Absent \notin Seq(LogLines)
  <2>1. SUFFICES ASSUME Log!Absent \in Seq(LogLines) PROVE FALSE
    OBVIOUS
  <2>2. Log!Absent[1] \in LogLines /\ Log!Absent[1].size = 0
    BY <2>1 DEF Log!Absent
  <2> QED BY <2>2, LogAssumption DEF LogLines
<1> QED BY <1>1 DEF LogTyped, Held, Log!Ids, IdsOf

\* What a line does to its file.
LEMMA LineFacts ==
  ASSUME NEW f \in Seq(LogLines), NEW l \in LogLines
  PROVE  /\ Append(f, l) \in Seq(LogLines) /\ Append(f, l) # Log!Absent
         /\ IdsOf(Append(f, l)) = IdsOf(f) \cup {l.id}
         /\ Len(Append(f, l)) = Len(f) + 1 /\ Len(f) \in Nat
         /\ Increasing(f) /\ (\A k \in IdsOf(f) : k < l.id) => Increasing(Append(f, l))
<1> DEFINE r == Append(f, l)
           N == Len(f)
<1>1. /\ N \in Nat /\ r \in Seq(LogLines) /\ Len(r) = N + 1 /\ r[N + 1] = l
      /\ \A n \in 1 .. N : r[n] = f[n]
  OBVIOUS
<1>2. DOMAIN r = 1 .. N + 1 /\ DOMAIN f = 1 .. N
  BY <1>1
<1>3. \A g \in Seq(LogLines) : g # Log!Absent
  <2> SUFFICES ASSUME Log!Absent \in Seq(LogLines) PROVE FALSE
    OBVIOUS
  <2>2. Log!Absent[1] \in LogLines /\ Log!Absent[1].size = 0
    BY DEF Log!Absent
  <2> QED BY <2>2, LogAssumption DEF LogLines
<1> HIDE DEF r, N
<1>4. IdsOf(f) = {f[i].id : i \in 1 .. N} /\ IdsOf(r) = {r[i].id : i \in 1 .. N + 1}
  BY <1>1, <1>2, <1>3 DEF IdsOf
<1>5. \A i \in 1 .. N + 1 : i = N + 1 \/ (i \in 1 .. N /\ i < N + 1)
  BY <1>1
<1>6. \A i \in 1 .. N : i \in 1 .. N + 1
  BY <1>1
<1>7. N + 1 \in 1 .. N + 1
  BY <1>1
<1>8. IdsOf(r) = IdsOf(f) \cup {l.id}
  BY <1>1, <1>4, <1>5, <1>6, <1>7
<1>9. ASSUME Increasing(f), \A k \in IdsOf(f) : k < l.id
      PROVE  Increasing(r)
  <2> SUFFICES ASSUME NEW i \in 1 .. N + 1, NEW j \in 1 .. N + 1, i < j
               PROVE  r[i].id < r[j].id
    BY <1>2 DEF Increasing
  <2>1. i \in 1 .. N
    BY <1>1
  <2>2. CASE j = N + 1
    BY <1>1, <1>4, <1>9, <2>1, <2>2
  <2>3. CASE j \in 1 .. N
    BY <1>1, <1>2, <1>9, <2>1, <2>3 DEF Increasing
  <2> QED BY <1>5, <2>2, <2>3
<1> QED BY <1>1, <1>3, <1>8, <1>9 DEF r, N

\* The order of the lines, by files.
LEMMA OrderFacts ==
  /\ Log!InOrder <=>
       /\ \A n \in Log!Numbers : files[n] # Log!Absent => Increasing(files[n])
       /\ \A n, later \in Log!Numbers : later < n =>
            \A k \in Log!Ids(n), l \in Log!Ids(later) : k < l
  /\ Log!InOrder' <=>
       /\ \A n \in Log!Numbers : files'[n] # Log!Absent => Increasing(files'[n])
       /\ \A n, later \in Log!Numbers : later < n =>
            \A k \in Log!Ids(n)', l \in Log!Ids(later)' : k < l
BY DEF Log!InOrder, Increasing, Held

\* The next line goes to the newest file, h; f is what that file had.
LEMMA LineAdded ==
  ASSUME LogTyped, Log!InOrder, NoGap,
         NEW h \in Log!Numbers, NEW n \in Sizes, NEW f \in Seq(LogLines),
         IF Held(h) THEN f = files[h] ELSE f = <<>>,
         \A m \in Log!Numbers : m < h => ~ Held(m),
         lines' = lines + 1, vanished' = vanished,
         files' = [files EXCEPT ![h] = Append(f, [id |-> lines + 1, size |-> n])]
  PROVE  /\ files' \in [Log!Numbers -> Seq(LogLines) \cup {Log!Absent}]
         /\ \A m \in Log!Numbers : Log!Ids(m)' \subseteq 1 .. lines'
         /\ Log!InOrder' /\ NoGap'
         /\ Log!Kept' = Log!Kept \cup {lines + 1}
         /\ \A m \in Log!Numbers : m # h => (Held(m)' <=> Held(m))
         /\ Held(h)'
<1> DEFINE l == [id |-> lines + 1, size |-> n]
           r == Append(f, l)
<1>1. lines \in Nat /\ l \in LogLines /\ l.id = lines + 1
  BY DEF LogTyped, LogLines
<1>2. /\ r \in Seq(LogLines) /\ r # Log!Absent /\ IdsOf(r) = IdsOf(f) \cup {lines + 1}
      /\ Increasing(f) /\ (\A k \in IdsOf(f) : k < lines + 1) => Increasing(r)
  <2> HIDE DEF l
  <2> QED BY <1>1, LineFacts
<1>3. /\ files \in [Log!Numbers -> Seq(LogLines) \cup {Log!Absent}]
      /\ files' = [files EXCEPT ![h] = r]
  BY DEF LogTyped
<1> HIDE DEF r, l
<1>4. ASSUME NEW m \in Log!Numbers
      PROVE  /\ Log!Ids(m) = IdsOf(files[m]) /\ Log!Ids(m)' = IdsOf(files'[m])
             /\ m # h => files'[m] = files[m]
             /\ Log!Ids(m) \subseteq 1 .. lines
             /\ m < h => Log!Ids(m) = {}
  BY <1>3, HeldFile DEF LogTyped, Log!Ids, IdsOf
<1>5. files'[h] = r /\ IdsOf(f) = Log!Ids(h) /\ Increasing(f)
  <2>1. CASE Held(h)
    BY <1>3, <1>4, <2>1, OrderFacts DEF Held
  <2>2. CASE ~ Held(h)
    <3>1. f = <<>> /\ IdsOf(<<>>) = {} /\ Increasing(<<>>)
      BY <2>2 DEF IdsOf, Increasing, Log!Absent
    <3>2. Log!Ids(h) = {}
      BY <2>2, HeldFile
    <3> QED BY <1>3, <3>1, <3>2
  <2> QED BY <2>1, <2>2
<1>6. Log!Ids(h)' = Log!Ids(h) \cup {lines + 1}
  BY <1>2, <1>4, <1>5
<1>7. \A m \in Log!Numbers : m # h => Log!Ids(m)' = Log!Ids(m)
  BY <1>4
<1>8. \A k \in 1 .. lines : k < lines + 1
  BY <1>1
<1>9. \A m \in Log!Numbers : Log!Ids(m)' \subseteq 1 .. lines'
  <2>1. 1 .. lines \subseteq 1 .. lines' /\ lines + 1 \in 1 .. lines'
    BY <1>1
  <2> QED BY <1>4, <1>6, <1>7, <2>1
<1>10. Log!InOrder'
  <2>1. ASSUME NEW m \in Log!Numbers, files'[m] # Log!Absent PROVE Increasing(files'[m])
    <3>1. CASE m = h
      BY <1>2, <1>4, <1>5, <1>8, <3>1
    <3>2. CASE m # h
      BY <1>4, <2>1, <3>2, OrderFacts
    <3> QED BY <3>1, <3>2
  <2>2. ASSUME NEW m \in Log!Numbers, NEW later \in Log!Numbers, later < m,
               NEW k \in Log!Ids(m)', NEW o \in Log!Ids(later)'
        PROVE  k < o
    <3>1. h \in Int /\ m \in Int /\ later \in Int
      BY LogAssumption DEF Log!Numbers
    <3>2. CASE m = h
      <4>1. later # h /\ later < h
        BY <2>2, <3>1, <3>2
      <4> QED BY <1>4, <1>7, <4>1
    <3>3. CASE later = h
      <4>1. m # h
        BY <2>2, <3>1, <3>3
      <4>2. k \in Log!Ids(m)
        BY <1>7, <4>1
      <4>3. CASE o = lines + 1
        BY <1>4, <1>8, <4>2, <4>3
      <4>4. CASE o \in Log!Ids(h)
        BY <2>2, <3>3, <4>2, <4>4, OrderFacts
      <4> QED BY <1>6, <3>3, <4>3, <4>4
    <3>4. CASE m # h /\ later # h
      BY <1>7, <2>2, <3>4, OrderFacts
    <3> QED BY <3>2, <3>3, <3>4
  <2> QED BY <2>1, <2>2, OrderFacts
<1>11. Log!Kept' = Log!Kept \cup {lines + 1}
  <2>1. Log!Kept = UNION {Log!Ids(m) : m \in Log!Numbers}
        /\ Log!Kept' = UNION {Log!Ids(m)' : m \in Log!Numbers}
    BY DEF Log!Kept
  <2> QED BY <1>6, <1>7, <2>1
<1>12. NoGap'
  <2> SUFFICES ASSUME NEW k \in Log!Kept', NEW x \in k .. lines'
               PROVE  x \in Log!Kept' \/ x \in vanished
    BY DEF NoGap
  <2>1. k \in Int
    <3>1. k \in Log!Kept \/ k = lines + 1
      BY <1>11
    <3>2. \A i \in Log!Kept : i \in 1 .. lines
      BY <1>4 DEF Log!Kept
    <3> QED BY <1>1, <3>1, <3>2
  <2>2. x = lines + 1 \/ (x \in k .. lines /\ k # lines + 1)
    BY <1>1, <2>1
  <2>3. CASE x \in k .. lines /\ k # lines + 1
    BY <1>11, <2>3 DEF NoGap
  <2> QED BY <1>11, <2>2, <2>3
<1>13. Held(h)' /\ \A m \in Log!Numbers : m # h => (Held(m)' <=> Held(m))
  BY <1>2, <1>4, <1>5 DEF Held
<1>14. files' \in [Log!Numbers -> Seq(LogLines) \cup {Log!Absent}]
  BY <1>2, <1>3
<1> QED BY <1>9, <1>10, <1>11, <1>12, <1>13, <1>14

\* The numbers of the files.
LEMMA NumberFacts ==
  /\ \A n \in Log!Numbers : n \in Int /\ n >= 0 /\ n <= MaxBackups
  /\ 0 \in Log!Numbers /\ MaxBackups \in Log!Numbers /\ MaxBackups \in Nat
  /\ \A n \in Log!Numbers : n # MaxBackups => n + 1 \in Log!Numbers
  /\ \A n \in Log!Numbers : n # 0 => n - 1 \in Log!Numbers
  /\ Log!Lost \notin Log!Numbers
BY LogAssumption DEF Log!Numbers, Log!Lost

\* Where there is nothing, by the step.
LEMMA VacatedFacts ==
  /\ logPc = "shift" => Vacated = slot + 1
  /\ logPc = "create" => Vacated = 0
  /\ logPc \notin {"shift", "create"} => Vacated = -1
  /\ (logPc = "shift")' => Vacated' = slot' + 1
  /\ (logPc = "create")' => Vacated' = 0
  /\ (logPc \notin {"shift", "create"})' => Vacated' = -1
BY Zenon DEF Vacated

\* A step that leaves the files alone.
LEMMA FilesStay ==
  ASSUME LogInv, UNCHANGED <<files, lines, vanished>>
  PROVE  /\ Log!FootprintIsBounded' /\ Log!InOrder' /\ NoGap' /\ Log!Kept' = Log!Kept
         /\ \A n \in Log!Numbers : Held(n)' <=> Held(n)
         /\ \A n \in Log!Numbers : Log!Ids(n)' \subseteq 1 .. lines'
<1>1. \A n : Log!Ids(n)' = Log!Ids(n)
  BY DEF Log!Ids
<1>2. Log!Kept' = Log!Kept
  BY <1>1 DEF Log!Kept
<1> QED
  BY <1>1, <1>2
     DEF LogInv, LogTyped, Log!FootprintIsBounded, Log!InOrder, NoGap, Held

\* The log is opened, or created when it is not there.
LEMMA LogOpen ==
  ASSUME LogInv, Log!Open
  PROVE  LogInv'
<1> USE DEF LogInv
<1>1. /\ logPc = "down" /\ logPc' = "idle" /\ handle = Log!Lost /\ handle' = 0
      /\ files' = IF ~ Held(0) THEN [files EXCEPT ![0] = <<>>] ELSE files
      /\ written' = IF ~ Held(0) THEN 0 ELSE Log!Bytes(files[0])
      /\ UNCHANGED <<slot, size, lines, vanished, logFaults>>
  BY DEF Log!Open, Log!Create, Log!LengthFound, Log!lineVars, Held, Appends
<1>2. /\ files \in [Log!Numbers -> Seq(LogLines) \cup {Log!Absent}] /\ 0 \in Log!Numbers
      /\ <<>> \in Seq(LogLines) /\ <<>> # Log!Absent /\ IdsOf(<<>>) = {} /\ Increasing(<<>>)
  BY NumberFacts DEF LogTyped, Log!Absent, IdsOf, Increasing
<1>3. /\ files' \in [Log!Numbers -> Seq(LogLines) \cup {Log!Absent}]
      /\ \A n \in Log!Numbers : n # 0 \/ Held(0) => files'[n] = files[n]
      /\ ~ Held(0) => files'[0] = <<>>
      /\ Held(0)' /\ \A n \in Log!Numbers : n # 0 => (Held(n)' <=> Held(n))
  BY <1>1, <1>2 DEF Held
<1>4. ASSUME NEW n \in Log!Numbers PROVE Log!Ids(n)' = Log!Ids(n)
  BY <1>2, <1>3, HeldFile DEF IdsOf, Log!Ids
<1>5. Log!Kept' = Log!Kept
  BY <1>4 DEF Log!Kept
<1>6. written' \in Nat /\ written' = Log!Bytes(files'[0])
  BY <1>1, <1>2, <1>3, BytesType, HeldFile
<1>7. LogTyped'
  BY <1>1, <1>3, <1>4, <1>6, NumberFacts DEF LogTyped
<1>8. Appends'
  <2>1. \A n \in Log!Numbers : ~ (n < 0)
    BY NumberFacts
  <2> QED BY <1>1, <1>3, <1>6, <2>1, NumberFacts DEF Appends
<1>9. Rotates'
  BY <1>1 DEF Rotates
<1>10. Log!FootprintIsBounded'
  <2>1. ASSUME NEW n \in Log!Numbers, files'[n] # Log!Absent
        PROVE  Log!Bytes(files'[n]) < MaxBytes \/ Len(files'[n]) = 1
    <3>1. CASE n # 0 \/ Held(0)
      BY <1>3, <2>1, <3>1 DEF Log!FootprintIsBounded, Held
    <3>2. CASE n = 0 /\ ~ Held(0)
      BY <1>2, <1>3, <3>2, BytesType, LogAssumption
    <3> QED BY <3>1, <3>2
  <2> QED BY <2>1 DEF Log!FootprintIsBounded
<1>11. Log!InOrder'
  <2>1. ASSUME NEW n \in Log!Numbers, files'[n] # Log!Absent PROVE Increasing(files'[n])
    BY <1>2, <1>3, <2>1, OrderFacts DEF Held
  <2> QED BY <1>4, <2>1, OrderFacts
<1>12. NoGap'
  BY <1>1, <1>5 DEF NoGap
<1>13. Fills'
  <2> SUFFICES ASSUME logFaults = 0 PROVE Fills'
    BY <1>1 DEF Fills
  <2>1. lines = 0 /\ \A n, m \in Log!Numbers : m < n /\ Held(n) => Held(m)
    <3>1. Vacated = -1 /\ \A m \in Log!Numbers : m # -1
      BY <1>1, VacatedFacts, NumberFacts
    <3> QED BY <1>1, <3>1 DEF Fills
  <2>2. ASSUME NEW n \in Log!Numbers, NEW m \in Log!Numbers, m < n, Held(n)'
        PROVE  Held(m)'
    <3>1. n # 0
      BY <2>2, NumberFacts
    <3> QED BY <1>3, <2>1, <2>2, <3>1
  <2> QED BY <1>1, <2>1, <2>2 DEF Fills
<1> QED BY <1>7, <1>8, <1>9, <1>10, <1>11, <1>12, <1>13

\* A failure or a kill leaves the files as they are.
LEMMA LogStops ==
  ASSUME LogInv, Log!Fails \/ Log!Kill
  PROVE  LogInv'
<1> USE DEF LogInv
<1>1. /\ size' = 0 /\ slot' = 0 /\ logFaults' = logFaults + 1 /\ logPc # "down"
      /\ UNCHANGED <<files, lines, vanished>>
      /\ \/ logPc' = "idle" /\ UNCHANGED <<handle, written>>
         \/ logPc' = "down" /\ handle' = Log!Lost /\ written' = 0
  BY DEF Log!Fails, Log!Kill, Log!fileVars
<1>2. LogTyped'
  BY <1>1, FilesStay, NumberFacts DEF LogTyped
<1>3. Appends'
  BY <1>1, FilesStay DEF Appends, LogTyped
<1>4. Rotates'
  BY <1>1 DEF Rotates
<1>5. Fills'
  BY <1>1 DEF Fills, LogTyped
<1> QED BY <1>1, <1>2, <1>3, <1>4, <1>5, FilesStay

\* A line that fits goes to the newest file, or to one without a name.
LEMMA LogPut ==
  ASSUME LogInv, NEW n \in Sizes, logPc = "idle", written + n < MaxBytes, Log!Put(n),
         written' = written + n, UNCHANGED <<handle, logPc, slot, size, logFaults>>
  PROVE  LogInv'
<1> USE DEF LogInv
<1>1. n \in Nat /\ written \in Nat /\ lines \in Nat /\ lines' = lines + 1 /\ lines' \in Nat
  BY LogAssumption DEF Log!Put, LogTyped
<1>2. CASE handle = Log!Lost
  <2>1. /\ files' = files /\ \A m \in Log!Numbers : ~ Held(m)
    BY <1>2 DEF Log!Put, Appends
  <2>2. \A m \in Log!Numbers : Log!Ids(m)' = {} /\ ~ Held(m)'
    BY <2>1 DEF Log!Ids, Held
  <2>3. Log!Kept' = {}
    BY <2>2 DEF Log!Kept
  <2>4. LogTyped'
    BY <1>1, <2>1, <2>2 DEF LogTyped
  <2>5. Appends' /\ Rotates'
    BY <1>2, <2>1, <2>2 DEF Appends, Rotates, Held
  <2>6. Log!FootprintIsBounded' /\ Log!InOrder' /\ NoGap'
    BY <2>2, <2>3 DEF Log!FootprintIsBounded, Log!InOrder, NoGap, Held
  <2>7. Fills'
    <3>1. logFaults # 0
      BY <1>2, NumberFacts DEF Fills
    <3> QED BY <3>1 DEF Fills
  <2> QED BY <2>4, <2>5, <2>6, <2>7
<1>3. CASE handle # Log!Lost
  <2> DEFINE l == [id |-> lines + 1, size |-> n]
             f == files[handle]
  <2>1. /\ handle \in Log!Numbers /\ Held(handle) /\ written = Log!Bytes(f)
        /\ \A m \in Log!Numbers : m < handle => ~ Held(m)
    BY <1>3 DEF LogTyped, Appends
  <2>2. f \in Seq(LogLines)
    BY <2>1, HeldFile
  <2>3. files' = [files EXCEPT ![handle] = Append(f, l)] /\ vanished' = vanished
    BY <1>3 DEF Log!Put
  <2>4. /\ files' \in [Log!Numbers -> Seq(LogLines) \cup {Log!Absent}]
        /\ \A m \in Log!Numbers : Log!Ids(m)' \subseteq 1 .. lines'
        /\ Log!InOrder' /\ NoGap'
        /\ Log!Kept' = Log!Kept \cup {lines + 1}
        /\ \A m \in Log!Numbers : m # handle => (Held(m)' <=> Held(m))
        /\ Held(handle)'
    BY <1>1, <2>1, <2>2, <2>3, LineAdded
  <2>5. files'[handle] = Append(f, l) /\ \A m \in Log!Numbers : m # handle => files'[m] = files[m]
    BY <2>1, <2>3 DEF LogTyped
  <2>6. Log!Bytes(files'[handle]) = written + n
    <3>1. l \in LogLines /\ l.size = n
      BY <1>1 DEF LogLines
    <3> HIDE DEF l, f
    <3> QED BY <2>1, <2>2, <2>5, <3>1, BytesAppend
  <2>7. LogTyped'
    BY <1>1, <2>4 DEF LogTyped
  <2>8. Appends' /\ Rotates'
    <3>1. \A m \in Log!Numbers : m < handle => m # handle
      BY <2>1, NumberFacts
    <3> QED BY <1>3, <2>1, <2>4, <2>6, <3>1 DEF Appends, Rotates
  <2>9. Log!FootprintIsBounded'
    BY <2>5, <2>6, <1>1 DEF Log!FootprintIsBounded
  <2>10. Fills'
    BY <1>1, <2>1, <2>4, VacatedFacts DEF Fills
  <2> QED BY <2>4, <2>7, <2>8, <2>9, <2>10
<1> QED BY <1>2, <1>3

\* A line that does not fit starts a rotation.
LEMMA LogRotates ==
  ASSUME LogInv, NEW n \in Sizes, logPc = "idle", size' = n, logPc' = "shift", slot' = Log!Oldest,
         UNCHANGED <<files, handle, written, lines, vanished, logFaults>>
  PROVE  LogInv'
<1> USE DEF LogInv
<1>1. slot' = MaxBackups /\ n # 0
  BY LogAssumption DEF Log!Oldest
<1>2. LogTyped'
  BY <1>1, FilesStay, NumberFacts DEF LogTyped
<1>3. Appends'
  BY DEF Appends, Held
<1>4. Rotates'
  BY <1>1 DEF Rotates
<1>5. Fills'
  <2>1. Vacated = -1 /\ Vacated' = MaxBackups + 1
    BY <1>1, VacatedFacts
  <2>2. \A m \in Log!Numbers : m # Vacated /\ m # Vacated'
    BY <2>1, NumberFacts
  <2>3. Fills /\ Log!Kept' = Log!Kept /\ \A m \in Log!Numbers : Held(m)' <=> Held(m)
    BY FilesStay
  <2> QED BY <2>2, <2>3 DEF Fills
<1> QED BY <1>2, <1>3, <1>4, <1>5, FilesStay

\* The open file goes where its name goes.
LEMMA HandleMoves ==
  ASSUME Log!Shift
  PROVE  /\ handle # slot => handle' = handle
         /\ handle = slot /\ slot = MaxBackups => handle' = Log!Lost
         /\ handle = slot /\ slot # MaxBackups => handle' = slot + 1
BY DEF Log!Shift

\* The oldest backup is removed.
LEMMA LogDropsOldest ==
  ASSUME LogInv, Log!Shift, slot = MaxBackups
  PROVE  /\ LogTyped' /\ Appends' /\ Log!FootprintIsBounded' /\ Log!InOrder' /\ NoGap'
         /\ logFaults = 0 => /\ \A n, m \in Log!Numbers :
                                  m < n /\ Held(n)' /\ m # MaxBackups => Held(m)'
                             /\ lines' # 0 /\ 1 \notin Log!Kept' =>
                                  \A n \in Log!Numbers : n # MaxBackups => Held(n)'
<1> USE DEF LogInv
<1>1. /\ logPc = "shift" /\ files' = [files EXCEPT ![MaxBackups] = Log!Absent]
      /\ slot' = (IF slot = 0 THEN 0 ELSE slot - 1)
      /\ logPc' = (IF slot = 0 THEN "create" ELSE "shift")
      /\ UNCHANGED <<written, size, lines, vanished, logFaults>>
  BY DEF Log!Shift, Log!NextSlot, Log!lineVars
<1>2. /\ files \in [Log!Numbers -> Seq(LogLines) \cup {Log!Absent}] /\ MaxBackups \in Log!Numbers
      /\ files' \in [Log!Numbers -> Seq(LogLines) \cup {Log!Absent}]
      /\ \A n \in Log!Numbers : n # MaxBackups => files'[n] = files[n]
      /\ files'[MaxBackups] = Log!Absent
  BY <1>1, NumberFacts DEF LogTyped
<1>3. ~ Held(MaxBackups)' /\ \A n \in Log!Numbers : n # MaxBackups => (Held(n)' <=> Held(n))
  BY <1>2 DEF Held
<1>4. Log!Ids(MaxBackups)' = {} /\ \A n \in Log!Numbers : n # MaxBackups => Log!Ids(n)' = Log!Ids(n)
  BY <1>2 DEF Log!Ids
<1>5. handle' = handle \/ (handle = MaxBackups /\ handle' = Log!Lost)
  BY HandleMoves
<1>6. LogTyped'
  <2>1. slot' \in Log!Numbers
    BY <1>1, NumberFacts
  <2> QED BY <1>1, <1>2, <1>4, <1>5, <2>1, NumberFacts DEF LogTyped
<1>7. Appends'
  <2>1. CASE handle # MaxBackups
    <3>1. handle' = handle
      BY <1>5, <2>1
    <3>2. handle # Log!Lost => handle \in Log!Numbers
      BY DEF LogTyped
    <3>3. logPc' # "down"
      BY <1>1
    <3> QED BY <1>1, <1>2, <1>3, <2>1, <3>1, <3>2, <3>3 DEF Appends
  <2>2. CASE handle = MaxBackups
    <3>1. handle' = Log!Lost /\ handle # Log!Lost
      BY <1>2, <2>2, HandleMoves, NumberFacts
    <3>2. \A n \in Log!Numbers : n = MaxBackups \/ n < MaxBackups
      BY NumberFacts
    <3> QED BY <1>1, <1>3, <2>2, <3>1, <3>2 DEF Appends
  <2> QED BY <2>1, <2>2
<1>8. Log!FootprintIsBounded'
  BY <1>2 DEF Log!FootprintIsBounded
<1>9. Log!InOrder'
  <2>1. ASSUME NEW n \in Log!Numbers, files'[n] # Log!Absent PROVE Increasing(files'[n])
    BY <1>2, <2>1, OrderFacts
  <2>2. ASSUME NEW n \in Log!Numbers, NEW later \in Log!Numbers, later < n,
               NEW k \in Log!Ids(n)', NEW l \in Log!Ids(later)'
        PROVE  k < l
    BY <1>4, <2>2, OrderFacts
  <2> QED BY <2>1, <2>2, OrderFacts
<1>10. \A n \in Log!Numbers : Log!Ids(n) \subseteq 1 .. lines
  BY DEF LogTyped
<1>11. ASSUME NEW k \in Log!Kept'
       PROVE  \E n \in Log!Numbers : n < MaxBackups /\ k \in Log!Ids(n)
  BY <1>4, NumberFacts DEF Log!Kept
<1>12. \A x \in Log!Kept : x \in Log!Kept' \/ x \in Log!Ids(MaxBackups)
  BY <1>4 DEF Log!Kept
<1>13. NoGap'
  <2> SUFFICES ASSUME NEW k \in Log!Kept', NEW x \in k .. lines
               PROVE  x \in Log!Kept' \/ x \in vanished
    BY <1>1 DEF NoGap
  <2>1. PICK n \in Log!Numbers : n < MaxBackups /\ k \in Log!Ids(n)
    BY <1>11
  <2>2. k \in Log!Kept /\ k \in Int
    BY <1>10, <2>1 DEF Log!Kept
  <2>3. x \notin Log!Ids(MaxBackups)
    <3>1. x \in Log!Ids(MaxBackups) => x < k
      BY <2>1, NumberFacts, OrderFacts
    <3> QED BY <2>2, <3>1
  <2> QED BY <1>12, <2>2, <2>3 DEF NoGap
<1>14. ASSUME logFaults = 0
       PROVE  /\ \A n, m \in Log!Numbers : m < n /\ Held(n)' /\ m # MaxBackups => Held(m)'
              /\ lines' # 0 /\ 1 \notin Log!Kept' => \A n \in Log!Numbers : n # MaxBackups => Held(n)'
  <2>1. \A m \in Log!Numbers : m # Vacated
    BY <1>1, VacatedFacts, NumberFacts
  <2>2. \A n, m \in Log!Numbers : m < n /\ Held(n) => Held(m)
    BY <1>14, <2>1 DEF Fills
  <2>3. ASSUME lines' # 0, 1 \notin Log!Kept', NEW n \in Log!Numbers, n # MaxBackups
        PROVE  Held(n)
    <3>1. CASE 1 \in Log!Kept
      <4>1. 1 \in Log!Ids(MaxBackups)
        BY <1>12, <2>3, <3>1
      <4>2. Held(MaxBackups)
        BY <1>2, <4>1 DEF Log!Ids, Held
      <4> QED BY <1>2, <2>2, <2>3, <4>2, NumberFacts
    <3>2. CASE 1 \notin Log!Kept
      BY <1>1, <1>14, <2>1, <2>3, <3>2 DEF Fills
    <3> QED BY <3>1, <3>2
  <2> QED BY <1>3, <2>2, <2>3
<1> QED BY <1>6, <1>7, <1>8, <1>9, <1>13, <1>14

\* Each other file moves up by one, to where there is nothing.
LEMMA LogMovesUp ==
  ASSUME LogInv, Log!Shift, NEW s, slot = s, s # MaxBackups
  PROVE  /\ LogTyped' /\ Appends' /\ Log!FootprintIsBounded' /\ Log!InOrder' /\ NoGap'
         /\ ~ Held(s)'
         /\ logFaults = 0 => /\ \A n, m \in Log!Numbers :
                                  m < n /\ Held(n)' /\ m # s => Held(m)'
                             /\ lines' # 0 /\ 1 \notin Log!Kept' =>
                                  \A n \in Log!Numbers : n # s => Held(n)'
<1> USE DEF LogInv
<1> DEFINE up == s + 1
<1>1. /\ logPc = "shift" /\ s \in Log!Numbers /\ up \in Log!Numbers /\ up # s /\ s < up
      /\ slot' = (IF s = 0 THEN 0 ELSE s - 1)
      /\ logPc' = (IF s = 0 THEN "create" ELSE "shift")
      /\ UNCHANGED <<written, size, lines, vanished, logFaults>>
      /\ slot = s
  BY NumberFacts DEF Log!Shift, Log!NextSlot, Log!lineVars, LogTyped
<1>2. ~ Held(up) /\ files \in [Log!Numbers -> Seq(LogLines) \cup {Log!Absent}]
  BY <1>1 DEF Rotates, LogTyped
<1>3. files' = IF ~ Held(s) THEN [files EXCEPT ![s] = Log!Absent]
               ELSE [files EXCEPT ![s] = Log!Absent, ![up] = files[s]]
  BY DEF Log!Shift, Held
<1>a. \A n \in Log!Numbers : n < up <=> n < s \/ n = s
  BY <1>1, NumberFacts
<1>b. Vacated = up
  BY <1>1, VacatedFacts
<1> HIDE DEF up
<1>4. /\ files' \in [Log!Numbers -> Seq(LogLines) \cup {Log!Absent}]
      /\ files'[s] = Log!Absent /\ files'[up] = files[s]
      /\ \A n \in Log!Numbers : n # s /\ n # up => files'[n] = files[n]
  BY <1>1, <1>2, <1>3 DEF Held
<1>5. /\ ~ Held(s)' /\ (Held(up)' <=> Held(s))
      /\ \A n \in Log!Numbers : n # s /\ n # up => (Held(n)' <=> Held(n))
  BY <1>4 DEF Held
<1>6. /\ Log!Ids(s)' = {} /\ Log!Ids(up)' = Log!Ids(s) /\ Log!Ids(up) = {}
      /\ \A n \in Log!Numbers : n # s /\ n # up => Log!Ids(n)' = Log!Ids(n)
  BY <1>2, <1>4 DEF Log!Ids, Held
<1>7. Log!Kept' = Log!Kept
  <2>1. \A x : x \in Log!Kept' <=> \E n \in Log!Numbers : x \in Log!Ids(n)'
    BY DEF Log!Kept
  <2>2. \A x : x \in Log!Kept <=> \E n \in Log!Numbers : x \in Log!Ids(n)
    BY DEF Log!Kept
  <2>3. \A x : (\E n \in Log!Numbers : x \in Log!Ids(n)') <=> \E n \in Log!Numbers : x \in Log!Ids(n)
    BY <1>1, <1>6
  <2>4. \A x : x \in Log!Kept' <=> x \in Log!Kept
    BY <2>1, <2>2, <2>3
  <2> QED BY <2>4
<1>8. LogTyped'
  <2>1. slot' \in Log!Numbers
    BY <1>1, NumberFacts
  <2>2. handle' \in Log!Numbers \cup {Log!Lost}
    BY <1>1, HandleMoves DEF LogTyped, up
  <2>3. \A n \in Log!Numbers : Log!Ids(n)' \subseteq 1 .. lines'
    BY <1>1, <1>6 DEF LogTyped
  <2> QED BY <1>1, <1>4, <2>1, <2>2, <2>3 DEF LogTyped
<1>9. Appends'
  <2>1. CASE handle = s
    <3>1. handle' = up /\ handle # Log!Lost /\ handle' # Log!Lost
      BY <1>1, <2>1, HandleMoves, NumberFacts DEF up
    <3>2. Held(s) /\ written = Log!Bytes(files[s])
          /\ \A n \in Log!Numbers : n < s => ~ Held(n)
      BY <2>1, <3>1 DEF Appends
    <3>3. \A n \in Log!Numbers : n < s => n # s /\ n # up
      BY <1>a, <1>1, NumberFacts
    <3>4. \A n \in Log!Numbers : n < up => ~ Held(n)'
      BY <1>5, <1>a, <3>2, <3>3
    <3>5. Held(handle)' /\ written' = Log!Bytes(files'[handle'])
      BY <1>1, <1>4, <1>5, <3>1, <3>2 DEF Held
    <3> QED BY <1>1, <3>1, <3>4, <3>5 DEF Appends
  <2>2. CASE handle # s /\ handle # Log!Lost
    <3>1. handle' = handle /\ handle \in Log!Numbers /\ handle # up
      BY <1>2, <2>2, HandleMoves DEF Appends, LogTyped
    <3>2. Held(handle) /\ written = Log!Bytes(files[handle])
          /\ \A n \in Log!Numbers : n < handle => ~ Held(n)
      BY <2>2 DEF Appends
    <3>3. \A n \in Log!Numbers : n < handle => ~ Held(n)'
      <4>1. up < handle => s < handle
        BY <1>1, <3>1, NumberFacts
      <4> QED BY <1>1, <1>5, <3>2, <4>1
    <3>4. Held(handle)' /\ files'[handle'] = files[handle]
      BY <1>4, <1>5, <2>2, <3>1, <3>2 DEF Held
    <3> QED BY <1>1, <2>2, <3>1, <3>2, <3>3, <3>4 DEF Appends
  <2>3. CASE handle = Log!Lost
    <3>1. handle' = Log!Lost
      BY <1>1, <2>3, HandleMoves, NumberFacts
    <3>2. \A n \in Log!Numbers : ~ Held(n)
      BY <1>1, <2>3 DEF Appends
    <3>3. \A n \in Log!Numbers : ~ Held(n)'
      BY <1>1, <1>5, <3>2
    <3> QED BY <1>1, <3>1, <3>3 DEF Appends
  <2> QED BY <2>1, <2>2, <2>3
<1>10. Log!FootprintIsBounded'
  <2> SUFFICES ASSUME NEW n \in Log!Numbers, files'[n] # Log!Absent
               PROVE  Log!Bytes(files'[n]) < MaxBytes \/ Len(files'[n]) = 1
    BY DEF Log!FootprintIsBounded
  <2>1. CASE n = up
    BY <1>1, <1>4, <2>1 DEF Log!FootprintIsBounded
  <2>2. CASE n # up
    <3>1. n # s /\ files'[n] = files[n]
      BY <1>4, <2>2
    <3> QED BY <3>1 DEF Log!FootprintIsBounded
  <2> QED BY <2>1, <2>2
<1>11. Log!InOrder'
  <2>1. ASSUME NEW n \in Log!Numbers, files'[n] # Log!Absent PROVE Increasing(files'[n])
    <3>1. n = up \/ (n # s /\ files'[n] = files[n])
      BY <1>4, <2>1
    <3> QED BY <1>1, <1>4, <2>1, <3>1, OrderFacts
  <2>2. ASSUME NEW n \in Log!Numbers, NEW later \in Log!Numbers, later < n,
               NEW k \in Log!Ids(n)', NEW l \in Log!Ids(later)'
        PROVE  k < l
    <3>1. n # s /\ later # s
      BY <1>6
    <3>2. CASE n = up
      <4>1. later < s /\ later # up
        BY <1>1, <1>a, <2>2, <3>1, <3>2, NumberFacts
      <4>2. k \in Log!Ids(s) /\ l \in Log!Ids(later)
        BY <1>6, <3>1, <3>2, <4>1
      <4> QED BY <1>1, <4>1, <4>2, OrderFacts
    <3>3. CASE later = up
      <4>1. s < n /\ n # up
        BY <1>1, <2>2, <3>3, NumberFacts
      <4>2. k \in Log!Ids(n) /\ l \in Log!Ids(s)
        BY <1>6, <3>1, <3>3, <4>1
      <4> QED BY <1>1, <4>1, <4>2, OrderFacts
    <3>4. CASE n # up /\ later # up
      <4>1. k \in Log!Ids(n) /\ l \in Log!Ids(later)
        BY <1>6, <3>1, <3>4
      <4> QED BY <2>2, <4>1, OrderFacts
    <3> QED BY <3>2, <3>3, <3>4
  <2> QED BY <2>1, <2>2, OrderFacts
<1>12. NoGap'
  BY <1>1, <1>7 DEF NoGap
<1>13. ASSUME logFaults = 0
       PROVE  /\ \A n, m \in Log!Numbers : m < n /\ Held(n)' /\ m # s => Held(m)'
              /\ lines' # 0 /\ 1 \notin Log!Kept' => \A n \in Log!Numbers : n # s => Held(n)'
  <2>1. \A n, m \in Log!Numbers : m < n /\ Held(n) /\ m # up => Held(m)
    BY <1>13, <1>b DEF Fills
  <2>2. ASSUME NEW n \in Log!Numbers, NEW m \in Log!Numbers, m < n, Held(n)', m # s
        PROVE  Held(m)'
    <3>1. n # s
      BY <1>5, <2>2
    <3>2. CASE n = up
      <4>1. m < s /\ m # up
        BY <1>1, <1>a, <2>2, <3>2, NumberFacts
      <4> QED BY <1>1, <1>5, <2>1, <2>2, <3>2, <4>1
    <3>3. CASE n # up /\ m = up
      <4>1. s < n
        BY <1>1, <2>2, <3>3, NumberFacts
      <4> QED BY <1>1, <1>5, <2>1, <2>2, <3>1, <3>3, <4>1
    <3>4. CASE n # up /\ m # up
      BY <1>5, <2>1, <2>2, <3>1, <3>4
    <3> QED BY <3>2, <3>3, <3>4
  <2>3. ASSUME lines' # 0, 1 \notin Log!Kept' PROVE \A n \in Log!Numbers : n # s => Held(n)'
    <3>1. \A n \in Log!Numbers : n # up => Held(n)
      BY <1>1, <1>7, <1>13, <1>b, <2>3 DEF Fills
    <3> QED BY <1>1, <1>5, <3>1
  <2> QED BY <2>2, <2>3
<1> QED BY <1>5, <1>8, <1>9, <1>10, <1>11, <1>12, <1>13

\* Every step of a rotation keeps the invariant.
LEMMA LogShift ==
  ASSUME LogInv, Log!Shift
  PROVE  LogInv'
<1>0. PICK s : s = slot
  OBVIOUS
<1>1. /\ logPc = "shift" /\ slot \in Log!Numbers /\ size # 0
      /\ slot' = (IF slot = 0 THEN 0 ELSE slot - 1)
      /\ logPc' = (IF slot = 0 THEN "create" ELSE "shift")
      /\ UNCHANGED <<written, size, lines, vanished, logFaults>>
  BY DEF Log!Shift, Log!NextSlot, Log!lineVars, LogInv, LogTyped, Rotates
<1>2. Vacated' = s
  BY <1>0, <1>1, VacatedFacts, NumberFacts
<1>3. /\ LogTyped' /\ Appends' /\ Log!FootprintIsBounded' /\ Log!InOrder' /\ NoGap'
      /\ ~ Held(s)'
      /\ logFaults = 0 => /\ \A n, m \in Log!Numbers : m < n /\ Held(n)' /\ m # s => Held(m)'
                          /\ lines' # 0 /\ 1 \notin Log!Kept' =>
                               \A n \in Log!Numbers : n # s => Held(n)'
  <2>1. CASE slot = MaxBackups
    <3>1. ~ Held(MaxBackups)'
      <4>1. files' = [files EXCEPT ![MaxBackups] = Log!Absent] /\ files \in [Log!Numbers -> Seq(LogLines) \cup {Log!Absent}]
        BY <2>1 DEF Log!Shift, LogInv, LogTyped
      <4> QED BY <4>1, NumberFacts DEF Held
    <3> QED BY <1>0, <2>1, <3>1, LogDropsOldest
  <2>2. CASE slot # MaxBackups
    BY <1>0, <2>2, LogMovesUp
  <2> QED BY <2>1, <2>2
<1>4. Rotates'
  <2>1. CASE slot = 0
    BY <1>0, <1>1, <1>3, <2>1 DEF Rotates, Held
  <2>2. CASE slot # 0
    <3>1. slot' + 1 = slot
      BY <1>1, <2>2, NumberFacts
    <3> QED BY <1>0, <1>1, <1>3, <2>2, <3>1 DEF Rotates, Held
  <2> QED BY <2>1, <2>2
<1>5. Fills'
  BY <1>1, <1>2, <1>3 DEF Fills
<1> QED BY <1>3, <1>4, <1>5 DEF LogInv

\* The reopened log takes the line that waited.
LEMMA LogReopen ==
  ASSUME LogInv, Log!Reopen
  PROVE  LogInv'
<1> USE DEF LogInv
<1> DEFINE l == [id |-> lines + 1, size |-> size]
<1>1. /\ logPc = "create" /\ logPc' = "idle" /\ handle' = 0 /\ lines' = lines + 1
      /\ files' = [files EXCEPT ![0] = <<l>>]
      /\ written' = size /\ size' = 0
      /\ UNCHANGED <<slot, vanished, logFaults>>
  BY DEF Log!Reopen
<1>2. /\ size \in Sizes /\ size \in Nat /\ lines \in Nat /\ lines' \in Nat
      /\ ~ Held(0) /\ l \in LogLines /\ l.size = size
  BY <1>1, LogAssumption DEF LogTyped, Rotates, LogLines
<1>3. <<>> \in Seq(LogLines) /\ <<l>> = Append(<<>>, l)
  OBVIOUS
<1>4. /\ files' \in [Log!Numbers -> Seq(LogLines) \cup {Log!Absent}]
      /\ \A m \in Log!Numbers : Log!Ids(m)' \subseteq 1 .. lines'
      /\ Log!InOrder' /\ NoGap'
      /\ Log!Kept' = Log!Kept \cup {lines + 1}
      /\ \A m \in Log!Numbers : m # 0 => (Held(m)' <=> Held(m))
      /\ Held(0)'
  <2>1. \A m \in Log!Numbers : ~ (m < 0)
    BY NumberFacts
  <2>2. files' = [files EXCEPT ![0] = Append(<<>>, [id |-> lines + 1, size |-> size])]
    BY <1>1, <1>3
  <2> QED BY <1>1, <1>2, <1>3, <2>1, <2>2, NumberFacts, LineAdded
<1>5. files'[0] = <<l>> /\ \A m \in Log!Numbers : m # 0 => files'[m] = files[m]
  BY <1>1, NumberFacts DEF LogTyped
<1>6. Log!Bytes(files'[0]) = size /\ Len(files'[0]) = 1
  <2>1. Log!Bytes(<<>>) = 0 /\ Len(<<l>>) = 1
    BY <1>3, BytesType
  <2>2. Log!Bytes(<<l>>) = Log!Bytes(<<>>) + l.size
    <3> HIDE DEF l
    <3> QED BY <1>2, <1>3, BytesAppend
  <2> QED BY <1>2, <1>5, <2>1, <2>2
<1>7. LogTyped'
  BY <1>1, <1>2, <1>4, NumberFacts DEF LogTyped
<1>8. Appends' /\ Rotates'
  <2>1. \A m \in Log!Numbers : ~ (m < 0)
    BY NumberFacts
  <2> QED BY <1>1, <1>4, <1>6, <2>1, NumberFacts DEF Appends, Rotates
<1>9. Log!FootprintIsBounded'
  BY <1>5, <1>6 DEF Log!FootprintIsBounded
<1>10. Fills'
  <2> SUFFICES ASSUME logFaults = 0 PROVE Fills'
    BY <1>1 DEF Fills
  <2>1. Vacated = 0 /\ \A n \in Log!Numbers : ~ (n < 0) /\ n # -1
    BY <1>1, VacatedFacts, NumberFacts
  <2>2. \A n, m \in Log!Numbers : m < n /\ Held(n)' => Held(m)'
    BY <1>4, <2>1 DEF Fills
  <2>3. ASSUME 1 \notin Log!Kept', NEW n \in Log!Numbers PROVE Held(n)'
    <3>1. lines # 0 /\ 1 \notin Log!Kept
      BY <1>2, <1>4, <2>3
    <3> QED BY <1>4, <2>1, <3>1 DEF Fills
  <2> QED BY <1>1, <2>2, <2>3 DEF Fills
<1> QED BY <1>4, <1>7, <1>8, <1>9, <1>10

\* A reopened log whose write fails stays empty.
LEMMA LogUnwritten ==
  ASSUME LogInv, Log!Unwritten
  PROVE  LogInv'
<1> USE DEF LogInv
<1>1. /\ logPc = "create" /\ logPc' = "idle" /\ handle' = 0
      /\ files' = [files EXCEPT ![0] = <<>>]
      /\ written' = 0 /\ size' = 0 /\ logFaults' = logFaults + 1
      /\ UNCHANGED <<slot, lines, vanished>>
  BY DEF Log!Unwritten
<1>2. /\ files \in [Log!Numbers -> Seq(LogLines) \cup {Log!Absent}] /\ 0 \in Log!Numbers
      /\ <<>> \in Seq(LogLines) /\ <<>> # Log!Absent /\ IdsOf(<<>>) = {} /\ Increasing(<<>>)
  BY NumberFacts DEF LogTyped, Log!Absent, IdsOf, Increasing
<1>3. ~ Held(0)
  BY <1>1 DEF Rotates
<1>4. /\ files' \in [Log!Numbers -> Seq(LogLines) \cup {Log!Absent}]
      /\ \A n \in Log!Numbers : n # 0 => files'[n] = files[n]
      /\ files'[0] = <<>>
      /\ Held(0)' /\ \A n \in Log!Numbers : n # 0 => (Held(n)' <=> Held(n))
  BY <1>1, <1>2 DEF Held
<1>5. ASSUME NEW n \in Log!Numbers PROVE Log!Ids(n)' = Log!Ids(n)
  BY <1>2, <1>3, <1>4, HeldFile DEF IdsOf, Log!Ids
<1>6. Log!Kept' = Log!Kept
  BY <1>5 DEF Log!Kept
<1>7. Log!Bytes(files'[0]) = 0
  BY <1>2, <1>4, BytesType
<1>8. LogTyped'
  BY <1>1, <1>4, <1>5, NumberFacts DEF LogTyped
<1>9. Appends' /\ Rotates'
  <2>1. \A n \in Log!Numbers : ~ (n < 0)
    BY NumberFacts
  <2> QED BY <1>1, <1>4, <1>7, <2>1, NumberFacts DEF Appends, Rotates
<1>10. Log!FootprintIsBounded'
  <2>1. ASSUME NEW n \in Log!Numbers, files'[n] # Log!Absent
        PROVE  Log!Bytes(files'[n]) < MaxBytes \/ Len(files'[n]) = 1
    <3>1. CASE n # 0
      BY <1>4, <2>1, <3>1 DEF Log!FootprintIsBounded, Held
    <3>2. CASE n = 0
      BY <1>7, <3>2, LogAssumption
    <3> QED BY <3>1, <3>2
  <2> QED BY <2>1 DEF Log!FootprintIsBounded
<1>11. Log!InOrder'
  <2>1. ASSUME NEW n \in Log!Numbers, files'[n] # Log!Absent PROVE Increasing(files'[n])
    BY <1>2, <1>4, <2>1, OrderFacts DEF Held
  <2> QED BY <1>5, <2>1, OrderFacts
<1>12. NoGap'
  BY <1>1, <1>6 DEF NoGap
<1>13. Fills'
  BY <1>1 DEF Fills, LogTyped
<1> QED BY <1>8, <1>9, <1>10, <1>11, <1>12, <1>13

\* A write, with room in the file or without.
LEMMA LogWrite ==
  ASSUME LogInv, NEW n \in Sizes, Log!Write(n)
  PROVE  LogInv'
<1>1. logPc = "idle" /\ UNCHANGED logFaults
  BY DEF Log!Write
<1>2. CASE written + n < MaxBytes
  <2>1. Log!Put(n) /\ written' = written + n /\ UNCHANGED <<handle, logPc, slot, size>>
    BY <1>2 DEF Log!Write
  <2> QED BY <1>1, <1>2, <2>1, LogPut
<1>3. CASE ~ (written + n < MaxBytes)
  <2>1. /\ size' = n /\ logPc' = "shift" /\ slot' = Log!Oldest
        /\ UNCHANGED <<files, handle, written, lines, vanished>>
    BY <1>3 DEF Log!Write, Log!fileVars
  <2> QED BY <1>1, <2>1, LogRotates
<1> QED BY <1>2, <1>3

\* Before the first start there is no file.
LEMMA LogStarts == Log!Init => LogInv
<1> SUFFICES ASSUME Log!Init PROVE LogInv
  OBVIOUS
<1>1. /\ files = [n \in Log!Numbers |-> Log!Absent] /\ handle = Log!Lost /\ written = 0
      /\ logPc = "down" /\ slot = 0 /\ size = 0 /\ lines = 0 /\ vanished = {} /\ logFaults = 0
  BY DEF Log!Init
<1>2. \A n \in Log!Numbers : ~ Held(n) /\ Log!Ids(n) = {}
  BY <1>1 DEF Held, Log!Ids
<1>3. Log!Kept = {}
  BY <1>2 DEF Log!Kept
<1>4. LogTyped
  BY <1>1, <1>2, NumberFacts DEF LogTyped
<1>5. Appends /\ Rotates
  BY <1>1, <1>2 DEF Appends, Rotates
<1>6. Log!FootprintIsBounded /\ Log!InOrder /\ NoGap
  BY <1>2, <1>3 DEF Log!FootprintIsBounded, Log!InOrder, NoGap, Held
<1>7. Fills
  BY <1>1, <1>2 DEF Fills
<1> QED BY <1>4, <1>5, <1>6, <1>7 DEF LogInv

\* Every step of the log keeps the invariant.
LEMMA LogStep == LogInv /\ [Log!Next]_logVars => LogInv'
<1> SUFFICES ASSUME LogInv, [Log!Next]_logVars PROVE LogInv'
  OBVIOUS
<1>1. CASE UNCHANGED logVars
  <2>1. /\ UNCHANGED <<files, handle, written>>
        /\ UNCHANGED <<logPc, slot, size, lines, vanished, logFaults>>
    BY <1>1 DEF logVars
  <2>2. Vacated' = Vacated
    BY Zenon, <2>1 DEF Vacated
  <2>3. LogTyped'
    BY <2>1, FilesStay DEF LogInv, LogTyped
  <2>4. Appends'
    BY <2>1 DEF LogInv, Appends, Held
  <2>5. Rotates'
    BY <2>1 DEF LogInv, Rotates, Held
  <2>6. Fills'
    BY <2>1, <2>2, FilesStay DEF LogInv, Fills
  <2> QED BY <2>1, <2>3, <2>4, <2>5, <2>6, FilesStay DEF LogInv
<1>2. CASE Log!Next
  BY <1>2, LogOpen, LogWrite, LogShift, LogReopen, LogUnwritten, LogStops DEF Log!Next
<1> QED BY <1>1, <1>2

\* The invariant, for any sizes of lines, any bound of a file and any number of backups.
THEOREM LogInvariance == Log!Spec => []LogInv
<1>1. LogInv /\ [Log!Next]_Log!vars => LogInv'
  <2>1. UNCHANGED Log!vars => UNCHANGED logVars
    BY DEF Log!vars, Log!fileVars, Log!lineVars, logVars
  <2> QED BY <2>1, LogStep
<1> QED BY LogStarts, <1>1, PTL DEF Log!Spec

\* log_rotate.rs, "bounding the disk footprint": through failed rotations and kills no
\* file reaches max_bytes but by a single line, the files hold the newest lines in
\* their order without a gap, and none is dropped while a backup is free.
THEOREM LogIsKeptHolds == Log!Spec => []LogIsKept
<1>1. LogInv => LogIsKept
  <2> SUFFICES ASSUME LogInv PROVE LogIsKept
    OBVIOUS
  <2> USE DEF LogInv
  <2>1. Log!TypeOK
    <3>1. DOMAIN files = Log!Numbers
      BY DEF LogTyped
    <3>2. handle # Log!Lost => files[handle] # Log!Absent
      BY DEF Appends, Held
    <3>3. logPc \in {"shift", "create"} <=> size # 0
      BY DEF Rotates
    <3> QED BY <3>1, <3>2, <3>3 DEF Log!TypeOK, LogTyped
  <2>2. ASSUME logPc = "idle", logFaults = 0, Log!Kept # {}, 1 \notin Log!Kept,
               NEW n \in Log!Numbers
        PROVE  files[n] # Log!Absent
    <3>1. n # Vacated
      BY <2>2, VacatedFacts, NumberFacts
    <3>2. lines # 0
      <4>1. \A m \in Log!Numbers : Log!Ids(m) \subseteq 1 .. lines
        BY DEF LogTyped
      <4>2. PICK m \in Log!Numbers : Log!Ids(m) # {}
        BY <2>2 DEF Log!Kept
      <4> QED BY <4>1, <4>2
    <3> QED BY <2>2, <3>1, <3>2 DEF Fills, Held
  <2>3. Log!KeepsTheNewest
    BY <2>2 DEF Log!KeepsTheNewest, NoGap
  <2> QED BY <2>1, <2>3 DEF LogIsKept, Log!LogIsKept
<1> QED BY <1>1, LogInvariance, PTL
=============================================================================
