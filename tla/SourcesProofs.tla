--------------------------- MODULE SourcesProofs ---------------------------
(***************************************************************************)
(* Local files and their way to the loudspeaker, the Spotify account,      *)
(* Spotify tracks, and radio stations.                                     *)
(*                                                                         *)
(* For any rates, packets, ring and device (Playback, which is Folder      *)
(* here): the decoder's resampler is exact across packets, files and       *)
(* frames are heard in their order, and the silence between is counted.    *)
(*                                                                         *)
(* For any number of tokens, sign-ins and runs of `clitunes auth`: loads,  *)
(* sign-ins, other processes and restarts leave a file with a token the    *)
(* server takes, the daemon spends no token twice, and what clients were   *)
(* told about a sign-in is so.  A token is in one hand at a time until it  *)
(* reaches the file: whoever is about to save one holds a token the server *)
(* takes.  For that the fresh token of a sign-in must be nobody else's,    *)
(* which holds because the server numbers the tokens it mints.             *)
(*                                                                         *)
(* For any number of Spotify tracks of any length (SpotifyPlayer, which is *)
(* Track here): what reaches the ring of two tracks one after the other is *)
(* told apart, and so is what is said of them.  A load is always stopped   *)
(* before the Player listens for the next playback; so whoever is listened *)
(* for finds the deck stopped, and what is still on its way to a channel   *)
(* is one chunk, or one and the rest that the stop flushed.                *)
(*                                                                         *)
(* For any titles, metadata of any length in any number of blocks, chunks  *)
(* cut anywhere and any breaks (Radio, which is Station here): the decoder *)
(* gets all the audio in its order and none of the metadata, and the title *)
(* and the link on display are current.  What a station sends always fits  *)
(* its parser: from where it is, every byte to come is what it takes it    *)
(* for.  A chunk cuts that in two, and parsing the first part finds in it  *)
(* what the server meant by it.                                            *)
(***************************************************************************)
EXTENDS MCSources, Spotify, SequenceTheorems, WellFoundedInduction, TLAPS

-----------------------------------------------------------------------------
(* The Spotify account. *)

Loading == {"read", "exchange", "save"}

\* Only the holder of the handle's mutex is at load_credentials, and the
\* dispatcher asks the handle only while it builds its client.
Held ==
  /\ \A c \in Callers : load[c] \in Loading => lock = c
  /\ verb # "build" => load["verbs"] = "no"

\* Whoever carries a token or refers to one has one.
Carried ==
  /\ file.kind = "full" => file.token # None
  /\ \A c \in Callers : load[c] \in {"exchange", "save", "got"} => tok[c] # None
  /\ \A f \in Flows : flow[f] = "save" => fruit[f] # None
  /\ cli \in {"exchange", "save"} => cliTok # None

\* The server numbers its tokens: none is known that it has not handed out.
Known ==
  /\ live \subseteq 1 .. minted
  /\ {file.token, lastAuth, cliTok} \subseteq 0 .. minted
  /\ \A c \in Callers : tok[c] \in 0 .. minted
  /\ \A f \in Flows : fruit[f] \in 0 .. minted

\* What a sign-in has brought and not yet saved is nobody else's.
Fresh ==
  \A f \in Flows : flow[f] = "save" =>
    /\ fruit[f] # file.token /\ fruit[f] # cliTok
    /\ \A c \in Callers : load[c] \in {"exchange", "save"} => fruit[f] # tok[c]
    /\ \A g \in Flows : g # f /\ flow[g] = "save" => fruit[f] # fruit[g]

\* A token about to be saved is accepted, and the file's is while none is.
Accepted ==
  ~ mishap =>
    /\ \A c \in Callers : load[c] = "save" => tok[c] \in live
    /\ \A f \in Flows : flow[f] = "save" => fruit[f] \in live
    /\ cli = "save" => cliTok \in live
    /\ (cli # "save" /\ \A c \in Callers : load[c] # "save") =>
         (file.kind = "full" => file.token \in live)

\* A run of `clitunes auth` has been counted.
Counted == cli # "no" => runs > 0

\* A sign-in that clients believe pending is waited for, and one that is over
\* with success has left a file behind.
Told ==
  /\ view = "started" => inProgress /\ awaited # None
  /\ \A f \in Flows : flow[f] = "done" => file.kind = "full"
  /\ view = "completed" => file.kind = "full"

IInv ==
  /\ TypeOK /\ Held /\ Carried /\ Known /\ Fresh /\ Accepted /\ Counted /\ Told
  /\ SpendsOnce

\* The daemon starts with one token, that of the file.
LEMMA InitInv == Init => IInv
<1> SUFFICES ASSUME Init PROVE IInv
  OBVIOUS
<1>1. 1 \in Tokens /\ 0 \in 0 .. MaxRuns /\ {1} \subseteq 1 .. 1 /\ {0, 1} \subseteq 0 .. 1
  BY BoundAssumption DEF Tokens
<1>2. file.kind \in {"none", "corrupt", "narrow", "full"} /\ file.token \in {0, 1}
      /\ (file.kind = "full" => file.token = 1)
  BY DEF Init, File, None
<1>3. file \in [kind : {"none", "corrupt", "narrow", "full"}, token : Tokens \cup {None}]
  BY <1>1 DEF Init, File
<1>4. TypeOK
  BY <1>1, <1>3 DEF Init, TypeOK
<1>5. Held /\ Carried /\ Fresh /\ Counted /\ Told /\ SpendsOnce
  BY <1>2 DEF Init, Held, Carried, Fresh, Counted, Told, SpendsOnce, Loading, Callers, None
<1>6. Known
  BY <1>1, <1>2 DEF Init, Known, None
<1>7. Accepted
  BY <1>2 DEF Init, Accepted
<1> QED BY <1>4, <1>5, <1>6, <1>7 DEF IInv

-----------------------------------------------------------------------------
(* The account server *)

\* What has been handed out stays so.
Grows == 0 .. minted \subseteq 0 .. minted' /\ 1 .. minted \subseteq 1 .. minted'

\* A token the server mints is new.
LEMMA MintStep ==
  ASSUME TypeOK, Known, Mint
  PROVE  /\ minted' \in Tokens /\ minted' # None /\ minted' \in 1 .. minted'
         /\ minted' \notin 0 .. minted /\ Grows
         /\ live' = live \cup {minted'}
<1>1. minted \in 1 .. MaxTokens /\ minted < MaxTokens /\ minted' = minted + 1
      /\ live' = live \cup {minted + 1}
  BY DEF Mint, TypeOK, Tokens
<1>2. ASSUME NEW m, m = minted + 1
      PROVE /\ m \in 1 .. MaxTokens /\ m # 0 /\ m \in 1 .. m /\ m \notin 0 .. minted
            /\ 0 .. minted \subseteq 0 .. m /\ 1 .. minted \subseteq 1 .. m
  BY <1>1, <1>2, BoundAssumption
<1> QED BY <1>1, <1>2 DEF Grows, Tokens, None

\* A token the server takes is kept, or gives way to a new one.
LEMMA AcceptStep ==
  ASSUME TypeOK, Known, NEW old, NEW new, Accept(old, new)
  PROVE  /\ old \in live /\ new \in live' /\ new \in Tokens /\ new # None /\ Grows
         /\ minted' \in Tokens /\ new \in 1 .. minted' /\ live' \subseteq 1 .. minted'
         /\ \/ new = old /\ live' = live /\ minted' = minted
            \/ new \notin 0 .. minted /\ live' = (live \ {old}) \cup {new}
<1>1. minted \in 1 .. MaxTokens /\ old \in live /\ live \subseteq 1 .. minted
  BY DEF Accept, TypeOK, Tokens, Known
<1>2. CASE new = old /\ UNCHANGED serverVars
  BY <1>1, <1>2, BoundAssumption DEF serverVars, Grows, Tokens, None
<1>3. CASE minted < MaxTokens /\ new = minted + 1 /\ minted' = new
           /\ live' = (live \ {old}) \cup {new}
  <2>1. /\ new \in 1 .. MaxTokens /\ new # 0 /\ new \in 1 .. new /\ new \notin 0 .. minted
        /\ 0 .. minted \subseteq 0 .. new /\ 1 .. minted \subseteq 1 .. new
    BY <1>1, <1>3, BoundAssumption
  <2> QED BY <1>1, <1>3, <2>1 DEF Grows, Tokens, None
<1> QED BY <1>2, <1>3 DEF Accept

-----------------------------------------------------------------------------
(* Types, and what Held, Carried and Counted say *)

\* Who holds what: the parts of the invariant that need no numbers.
Hands == TypeOK /\ Held /\ Carried /\ Counted

\* The loads keep it.
LEMMA LoadHands ==
  ASSUME Hands, Known, NEW c \in Callers, Load(c)
  PROVE  Hands'
<1> USE DEF Hands
<1>1. CASE EnsureAuth(c)
  <2>1. TypeOK'
    BY <1>1 DEF EnsureAuth, Acquire, Done, TypeOK, serverVars, flowVars, cliVars
  <2>2. Held'
    BY <1>1 DEF EnsureAuth, Acquire, Done, Held, Loading, Callers, TypeOK
  <2>3. Carried'
    BY <1>1 DEF EnsureAuth, Acquire, Done, Carried, TypeOK, None, flowVars, cliVars
  <2> QED BY <1>1, <2>1, <2>2, <2>3 DEF EnsureAuth, Counted, cliVars
<1>2. CASE ReadFile(c)
  <2>1. file.token \in Tokens \cup {None}
    BY DEF TypeOK
  <2>2. TypeOK'
    BY <1>2, <2>1 DEF ReadFile, GiveUp, Done, TypeOK, serverVars, flowVars, cliVars
  <2>3. Held'
    BY <1>2 DEF ReadFile, GiveUp, Done, Held, Loading, Callers, TypeOK
  <2>4. Carried'
    BY <1>2 DEF ReadFile, GiveUp, Done, Carried, TypeOK, None, flowVars, cliVars
  <2> QED BY <1>2, <2>2, <2>3, <2>4 DEF ReadFile, Counted, cliVars
<1>3. ASSUME NEW new \in Tokens, Accept(tok[c], new), load[c] = "exchange",
             tok' = [tok EXCEPT ![c] = new], load' = [load EXCEPT ![c] = "save"],
             mishap' \in BOOLEAN,
             UNCHANGED <<lock, file, port, lastAuth, verb, web, flowVars, cliVars>>
      PROVE  Hands'
  <2>1. new # None /\ minted' \in Tokens /\ live' \subseteq Tokens
    BY <1>3, AcceptStep DEF Accept, serverVars, TypeOK
  <2>2. TypeOK'
    BY <1>3, <2>1 DEF TypeOK, flowVars, cliVars
  <2>3. Held'
    BY <1>3 DEF Held, Loading, Callers, TypeOK
  <2>4. Carried'
    BY <1>3, <2>1 DEF Carried, TypeOK, flowVars, cliVars
  <2> QED BY <1>3, <2>2, <2>3, <2>4 DEF Counted, cliVars
<1>4. ASSUME load[c] \in {"exchange", "save"}, GiveUp(c), mishap' \in BOOLEAN,
             UNCHANGED <<serverVars, file, port, lastAuth, verb, web, flowVars, cliVars>>
      PROVE  Hands'
  <2>1. TypeOK'
    BY <1>4 DEF GiveUp, Done, TypeOK, serverVars, flowVars, cliVars
  <2>2. Held'
    BY <1>4 DEF GiveUp, Done, Held, Loading, Callers, TypeOK
  <2>3. Carried'
    BY <1>4 DEF GiveUp, Done, Carried, TypeOK, None, flowVars, cliVars
  <2> QED BY <1>4, <2>1, <2>2, <2>3 DEF Counted, cliVars
<1>5. CASE Exchange(c)
  BY <1>3, <1>4, <1>5 DEF Exchange, TypeOK
<1>6. ASSUME load[c] = "save", file' = File("full", tok[c]), lastAuth' = tok[c],
             Done(c, "got", tok[c]),
             lock' = "free", UNCHANGED <<mishap, serverVars, port, verb, web, flowVars, cliVars>>
      PROVE  Hands'
  <2>1. tok[c] \in Tokens /\ file'.kind = "full" /\ file'.token = tok[c] /\ tok[c] # None
    BY <1>6 DEF Carried, TypeOK, File
  <2>2. file' \in [kind : {"none", "corrupt", "narrow", "full"}, token : Tokens \cup {None}]
    BY <1>6, <2>1 DEF File
  <2>3. TypeOK'
    BY <1>6, <2>1, <2>2 DEF Done, TypeOK, serverVars, flowVars, cliVars
  <2>4. Held'
    BY <1>6 DEF Done, Held, Loading, Callers, TypeOK
  <2>5. Carried'
    BY <1>6, <2>1 DEF Done, Carried, TypeOK, None, flowVars, cliVars
  <2> QED BY <1>6, <2>3, <2>4, <2>5 DEF Counted, cliVars
<1>7. CASE Save(c)
  BY <1>4, <1>6, <1>7 DEF Save, TypeOK
<1> QED BY <1>1, <1>2, <1>5, <1>7 DEF Load

\* So do the dispatcher and the playback thread.
LEMMA DispatchHands ==
  ASSUME Hands, Known, Dispatch \/ \E why \in {"wait", "rewait"} : NeedCredentials(why)
  PROVE  Hands'
<1> USE DEF Hands
<1>1. CASE Ask
  <2>1. TypeOK'
    BY <1>1 DEF Ask, TypeOK, serverVars, flowVars, cliVars
  <2>2. Held' /\ Carried' /\ Counted'
    BY <1>1 DEF Ask, Held, Carried, Counted, Loading, Callers, TypeOK, flowVars, cliVars
  <2> QED BY <2>1, <2>2
<1>2. CASE Build
  <2>1. TypeOK'
    BY <1>2 DEF Build, TypeOK, Carried, Callers, serverVars, flowVars, cliVars
  <2>2. Held' /\ Carried' /\ Counted'
    BY <1>2 DEF Build, Held, Carried, Counted, Loading, Callers, TypeOK, flowVars, cliVars
  <2> QED BY <2>1, <2>2
<1>3. CASE Call
  <2>1. minted' \in Tokens /\ live' \subseteq Tokens /\ web' \in Tokens \cup {None}
        /\ mishap' \in BOOLEAN
    <3>1. ASSUME NEW new \in Tokens, Accept(web, new)
          PROVE  minted' \in Tokens /\ live' \subseteq Tokens
      BY <3>1, AcceptStep DEF Accept, serverVars, TypeOK
    <3> QED BY <1>3, <3>1 DEF Call, serverVars, TypeOK
  <2>2. TypeOK'
    BY <1>3, <2>1 DEF Call, TypeOK, handleVars, flowVars, cliVars
  <2>3. Held' /\ Carried' /\ Counted'
    BY <1>3 DEF Call, Held, Carried, Counted, handleVars, flowVars, cliVars
  <2> QED BY <2>2, <2>3
<1>4. ASSUME NEW why \in {"wait", "rewait"}, NeedCredentials(why) PROVE Hands'
  <2>1. TypeOK'
    BY <1>4 DEF NeedCredentials, TypeOK, Callers, serverVars, flowVars, cliVars
  <2>2. Held' /\ Carried' /\ Counted'
    BY <1>4 DEF NeedCredentials, Held, Carried, Counted, Loading, Callers, TypeOK, flowVars,
                cliVars
  <2> QED BY <2>1, <2>2
<1> QED BY <1>1, <1>2, <1>3, <1>4 DEF Dispatch

\* And the sign-ins with their task.
LEMMA FlowHands ==
  ASSUME Hands, Known, StartAuth \/ AuthTask \/ \E f \in Flows : Flow(f)
  PROVE  Hands'
<1> USE DEF Hands
<1>1. CASE StartAuth
  <2>1. TypeOK'
    BY <1>1 DEF StartAuth, TypeOK, serverVars, handleVars, cliVars
  <2>2. Held' /\ Carried' /\ Counted'
    BY <1>1 DEF StartAuth, Held, Carried, Counted, TypeOK, handleVars, cliVars
  <2> QED BY <2>1, <2>2
<1>2. CASE AuthTask
  <2>1. TypeOK'
    <3>1. CASE FlowEnds
      BY <3>1 DEF FlowEnds, TypeOK, serverVars, handleVars, cliVars
    <3>2. CASE AuthTimeout
      BY <3>2 DEF AuthTimeout, TypeOK, serverVars, handleVars, cliVars
    <3>3. CASE ClearFlag
      <4>1. inProgress' \in BOOLEAN
            /\ UNCHANGED <<serverVars, file, port, handleVars, verb, web, awaited, flow, fruit,
                           view, cliVars, mishap>>
        BY <3>3 DEF ClearFlag
      <4> QED BY <4>1 DEF TypeOK, serverVars, handleVars, cliVars
    <3> QED BY <1>2, <3>1, <3>2, <3>3 DEF AuthTask
  <2>2. Held' /\ Carried' /\ Counted'
    BY <1>2 DEF AuthTask, FlowEnds, AuthTimeout, ClearFlag, Held, Carried, Counted, TypeOK,
                handleVars, cliVars
  <2> QED BY <2>1, <2>2
<1>3. ASSUME NEW f \in Flows, Listen(f) PROVE Hands'
  <2>1. TypeOK'
    BY <1>3 DEF Listen, Ended, TypeOK, serverVars, handleVars, cliVars
  <2>2. Held' /\ Carried' /\ Counted'
    BY <1>3 DEF Listen, Ended, Held, Carried, Counted, TypeOK, handleVars, cliVars
  <2> QED BY <2>1, <2>2
<1>4. ASSUME NEW f \in Flows, Answer(f) PROVE Hands'
  <2>1. Mint => minted' \in Tokens /\ minted' # None /\ live' \subseteq Tokens
    BY MintStep DEF TypeOK
  <2>2. minted' \in Tokens /\ live' \subseteq Tokens
    BY <1>4, <2>1 DEF Answer, serverVars, TypeOK
  <2>3. TypeOK'
    BY <1>4, <2>2 DEF Answer, Ended, TypeOK, handleVars, cliVars
  <2>4. Held' /\ Carried' /\ Counted'
    BY <1>4, <2>1 DEF Answer, Ended, Held, Carried, Counted, TypeOK, handleVars, cliVars
  <2> QED BY <2>3, <2>4
<1>5. ASSUME NEW f \in Flows, SaveFlow(f) PROVE Hands'
  <2>1. fruit[f] \in Tokens /\ fruit[f] # None
    BY <1>5 DEF SaveFlow, Carried, TypeOK
  <2>2. file' \in [kind : {"none", "corrupt", "narrow", "full"}, token : Tokens \cup {None}]
        /\ (file'.kind = "full" => file'.token # None)
    BY <1>5, <2>1 DEF SaveFlow, File, Carried, TypeOK
  <2>3. TypeOK'
    BY <1>5, <2>2 DEF SaveFlow, Ended, TypeOK, serverVars, handleVars, cliVars
  <2>4. Held' /\ Carried' /\ Counted'
    BY <1>5, <2>2 DEF SaveFlow, Ended, Held, Carried, Counted, TypeOK, handleVars, cliVars
  <2> QED BY <2>3, <2>4
<1> QED BY <1>1, <1>2, <1>3, <1>4, <1>5 DEF Flow

\* And `clitunes auth`, a restart of the daemon and a withdrawal.
LEMMA CliHands ==
  ASSUME Hands, Known, Cli \/ Restart \/ Revoke
  PROVE  Hands'
<1> USE DEF Hands
<1>1. CASE CliStarts
  <2>1. file.kind \in {"none", "corrupt", "narrow", "full"} /\ file.token \in Tokens \cup {None}
    BY DEF TypeOK
  <2>2. cli' \in {"exchange", "consent", "no"} /\ (cli' = "exchange" => file.kind = "full")
    BY <1>1, <2>1 DEF CliStarts
  <2>3. runs' \in 0 .. MaxRuns /\ runs' > 0
    <3>1. ASSUME NEW r \in 0 .. MaxRuns, r < MaxRuns PROVE r + 1 \in 0 .. MaxRuns /\ r + 1 > 0
      BY <3>1, BoundAssumption
    <3> QED BY <1>1, <3>1 DEF CliStarts, TypeOK
  <2>4. cliTok' = IF file.kind = "full" THEN file.token ELSE None
    BY <1>1 DEF CliStarts
  <2>5. UNCHANGED <<serverVars, file, port, handleVars, verb, web, flowVars, mishap>>
    BY <1>1 DEF CliStarts
  <2>6. TypeOK'
    BY <2>1, <2>2, <2>3, <2>4, <2>5 DEF TypeOK, serverVars, handleVars, flowVars
  <2> QED BY <2>2, <2>3, <2>4, <2>5, <2>6 DEF Held, Carried, Counted, handleVars, flowVars
<1>2. CASE CliExchanges
  <2>1. ASSUME NEW new \in Tokens, Accept(cliTok, new)
        PROVE  minted' \in Tokens /\ live' \subseteq Tokens /\ new # None
    BY <2>1, AcceptStep DEF Accept, serverVars, TypeOK
  <2>2. minted' \in Tokens /\ live' \subseteq Tokens
    BY <1>2, <2>1 DEF CliExchanges, serverVars, TypeOK
  <2>3. cli' \in {"save", "consent"} /\ cliTok' \in Tokens \cup {None} /\ mishap' \in BOOLEAN
    BY <1>2 DEF CliExchanges, TypeOK
  <2>4. UNCHANGED <<file, port, handleVars, verb, web, flowVars, runs>>
    BY <1>2 DEF CliExchanges
  <2>5. TypeOK'
    BY <2>2, <2>3, <2>4 DEF TypeOK, handleVars, flowVars
  <2>6. Held' /\ Carried' /\ Counted'
    BY <1>2, <2>1 DEF CliExchanges, Held, Carried, Counted, handleVars, flowVars
  <2> QED BY <2>5, <2>6
<1>3. CASE CliConsents
  <2>1. TypeOK'
    BY <1>3 DEF CliConsents, TypeOK, serverVars, handleVars, flowVars
  <2> QED BY <1>3, <2>1 DEF CliConsents, Held, Carried, Counted, handleVars, flowVars
<1>4. CASE CliAnswered
  <2>1. Mint => minted' \in Tokens /\ minted' # None /\ live' \subseteq Tokens
    BY MintStep DEF TypeOK
  <2>2. minted' \in Tokens /\ live' \subseteq Tokens
    BY <1>4, <2>1 DEF CliAnswered, serverVars, TypeOK
  <2>3. TypeOK'
    BY <1>4, <2>2 DEF CliAnswered, TypeOK, handleVars, flowVars
  <2> QED BY <1>4, <2>1, <2>3 DEF CliAnswered, Held, Carried, Counted, handleVars, flowVars
<1>5. CASE CliSaves
  <2>1. file' \in [kind : {"none", "corrupt", "narrow", "full"}, token : Tokens \cup {None}]
        /\ (file'.kind = "full" => file'.token # None)
    BY <1>5 DEF CliSaves, File, Carried, TypeOK
  <2>2. cli' = "no" /\ cliTok' = None /\ mishap' \in BOOLEAN
        /\ UNCHANGED <<serverVars, port, handleVars, verb, web, flowVars, runs>>
    BY <1>5 DEF CliSaves, TypeOK
  <2>3. TypeOK'
    BY <2>1, <2>2 DEF TypeOK, serverVars, handleVars, flowVars
  <2> QED BY <1>5, <2>1, <2>3 DEF CliSaves, Held, Carried, Counted, handleVars, flowVars
<1>6. CASE Restart
  <2>1. TypeOK'
    BY <1>6 DEF Restart, TypeOK, serverVars, cliVars
  <2> QED BY <1>6, <2>1 DEF Restart, Held, Carried, Counted, Loading, Callers, cliVars
<1>7. CASE Revoke
  <2>1. TypeOK'
    BY <1>7 DEF Revoke, TypeOK, handleVars, flowVars, cliVars
  <2> QED BY <1>7, <2>1 DEF Revoke, Held, Carried, Counted, handleVars, flowVars, cliVars
<1> QED BY <1>1, <1>2, <1>3, <1>4, <1>5, <1>6, <1>7 DEF Cli

-----------------------------------------------------------------------------
(* Which tokens are known, and that those about to be saved are accepted. *)

\* What the server promises the file and everyone who is about to save.
Kept == Known /\ Fresh /\ Accepted /\ SpendsOnce

\* The steps of a load.  One caller at most holds the mutex, so that no other
\* shows the server the token of this one.
LEMMA LoadKeeps ==
  ASSUME Hands, Kept, NEW c \in Callers, Load(c)
  PROVE  Kept'
<1> USE DEF Hands, Kept
<1>1. CASE EnsureAuth(c)
  <2>1. Known'
    BY <1>1 DEF EnsureAuth, Acquire, Done, Known, TypeOK, serverVars, flowVars, cliVars, None
  <2>2. Fresh'
    BY <1>1 DEF EnsureAuth, Acquire, Done, Fresh, Held, Loading, Callers, TypeOK, flowVars,
                cliVars
  <2>3. Accepted'
    BY <1>1 DEF EnsureAuth, Acquire, Done, Accepted, Callers, TypeOK, serverVars, flowVars,
                cliVars
  <2>4. SpendsOnce'
    BY <1>1 DEF EnsureAuth, Acquire, Done, SpendsOnce, Callers, TypeOK, serverVars, flowVars,
                cliVars
  <2> QED BY <2>1, <2>2, <2>3, <2>4
<1>2. CASE ReadFile(c)
  <2>1. Known'
    BY <1>2 DEF ReadFile, GiveUp, Done, Known, TypeOK, serverVars, flowVars, cliVars, None
  <2>2. Fresh'
    BY <1>2 DEF ReadFile, GiveUp, Done, Fresh, Callers, TypeOK, flowVars, cliVars
  <2>3. Accepted'
    BY <1>2 DEF ReadFile, GiveUp, Done, Accepted, Callers, TypeOK, serverVars, flowVars, cliVars
  <2>4. SpendsOnce'
    BY <1>2 DEF ReadFile, GiveUp, Done, SpendsOnce, Accepted, Counted, Held, Loading, Callers,
                TypeOK, serverVars, flowVars, cliVars
  <2> QED BY <2>1, <2>2, <2>3, <2>4
<1>3. ASSUME NEW new \in Tokens, Accept(tok[c], new), load[c] = "exchange",
             tok' = [tok EXCEPT ![c] = new], load' = [load EXCEPT ![c] = "save"],
             mishap' = (mishap \/ (new # tok[c] /\ cli = "save" /\ cliTok = tok[c])),
             UNCHANGED <<lock, file, port, lastAuth, verb, web, flowVars, cliVars>>
      PROVE  Kept'
  <2>1. /\ tok[c] \in live /\ new \in live' /\ new # None /\ Grows
        /\ new \in 0 .. minted' /\ live' \subseteq 1 .. minted'
        /\ \/ new = tok[c] /\ live' = live
           \/ new \notin 0 .. minted /\ live' = (live \ {tok[c]}) \cup {new}
    BY <1>3, AcceptStep DEF Grows
  <2>2. \A d \in Callers : d # c => load[d] \notin Loading
    BY <1>3 DEF Held, Loading
  <2>3. Known'
    BY <1>3, <2>1 DEF Known, Grows, TypeOK, flowVars, cliVars
  <2>4. Fresh'
    BY <1>3, <2>1, <2>2 DEF Fresh, Known, Loading, TypeOK, flowVars, cliVars
  <2>5. Accepted'
    BY <1>3, <2>1, <2>2 DEF Accepted, Fresh, Loading, TypeOK, flowVars, cliVars
  <2>6. SpendsOnce'
    BY <1>3, <2>2 DEF SpendsOnce, Loading, TypeOK, flowVars, cliVars
  <2> QED BY <2>3, <2>4, <2>5, <2>6
<1>4. ASSUME load[c] \in {"exchange", "save"}, GiveUp(c),
             ~ mishap' => ~ mishap /\ load[c] # "save",
             UNCHANGED <<serverVars, file, port, lastAuth, verb, web, flowVars, cliVars>>
      PROVE  Kept'
  <2>1. Known'
    BY <1>4 DEF GiveUp, Done, Known, TypeOK, serverVars, flowVars, cliVars, None
  <2>2. Fresh'
    BY <1>4 DEF GiveUp, Done, Fresh, Callers, TypeOK, flowVars, cliVars
  <2>3. Accepted'
    BY <1>4 DEF GiveUp, Done, Accepted, Callers, TypeOK, serverVars, flowVars, cliVars
  <2>4. SpendsOnce'
    BY <1>4 DEF GiveUp, Done, SpendsOnce, Callers, TypeOK, serverVars, flowVars, cliVars
  <2> QED BY <2>1, <2>2, <2>3, <2>4
<1>5. CASE Exchange(c)
  <2>1. CASE GiveUp(c) /\ UNCHANGED <<serverVars, mishap>>
    BY <1>4, <1>5, <2>1 DEF Exchange
  <2> QED BY <1>3, <1>5, <2>1 DEF Exchange
<1>6. ASSUME load[c] = "save", file' = File("full", tok[c]), lastAuth' = tok[c],
             Done(c, "got", tok[c]),
             lock' = "free", UNCHANGED <<mishap, serverVars, port, verb, web, flowVars, cliVars>>
      PROVE  Kept'
  <2>1. file'.kind = "full" /\ file'.token = tok[c]
    BY <1>6 DEF File
  <2>2. Known'
    BY <1>6, <2>1 DEF Done, Known, TypeOK, serverVars, flowVars, cliVars, None
  <2>3. Fresh'
    BY <1>6, <2>1 DEF Done, Fresh, Callers, TypeOK, flowVars, cliVars
  <2>4. Accepted'
    BY <1>6, <2>1 DEF Done, Accepted, Callers, TypeOK, serverVars, flowVars, cliVars
  <2>5. SpendsOnce'
    BY <1>6 DEF Done, SpendsOnce, Callers, TypeOK, serverVars, flowVars, cliVars
  <2> QED BY <2>2, <2>3, <2>4, <2>5
<1>7. CASE Save(c)
  <2>1. CASE GiveUp(c) /\ mishap' = TRUE /\ UNCHANGED <<file, lastAuth>>
    BY <1>4, <1>7, <2>1 DEF Save
  <2> QED BY <1>6, <1>7, <2>1 DEF Save
<1> QED BY <1>1, <1>2, <1>5, <1>7 DEF Load

\* The dispatcher and the playback thread touch no token on its way to the file.
LEMMA DispatchKeeps ==
  ASSUME Hands, Kept, Dispatch \/ \E why \in {"wait", "rewait"} : NeedCredentials(why)
  PROVE  Kept'
<1> USE DEF Hands, Kept
<1>1. CASE Ask
  <2>1. Known' /\ Fresh'
    BY <1>1 DEF Ask, Known, Fresh, Callers, TypeOK, serverVars, flowVars, cliVars
  <2>2. \A c \in Callers : load'[c] \in {"exchange", "save"} <=> load[c] \in {"exchange", "save"}
    BY <1>1 DEF Ask, Held, TypeOK
  <2>3. \A c \in Callers : load'[c] = "save" <=> load[c] = "save"
    BY <1>1 DEF Ask, Held, TypeOK
  <2>4. UNCHANGED <<serverVars, file, tok, flowVars, cliVars, mishap>>
    BY <1>1 DEF Ask
  <2>5. Accepted'
    BY <2>3, <2>4 DEF Accepted, serverVars, flowVars, cliVars
  <2>6. SpendsOnce'
    BY <2>2, <2>3, <2>4 DEF SpendsOnce, serverVars, flowVars, cliVars
  <2> QED BY <2>1, <2>5, <2>6
<1>2. CASE Build
  BY <1>2 DEF Build, Known, Fresh, Accepted, SpendsOnce, Callers, TypeOK, None, serverVars,
              flowVars, cliVars
<1>3. CASE Call
  <2>1. ASSUME NEW new \in Tokens, Accept(web, new), mishap' = (mishap \/ new # web),
               UNCHANGED <<file, port, handleVars, flowVars, cliVars>>
        PROVE  Kept'
    <3>1. /\ Grows /\ live' \subseteq 1 .. minted'
          /\ (new = web => live' = live)
      BY <2>1, AcceptStep, BoundAssumption DEF Known, TypeOK, Tokens
    <3>2. Known'
      BY <2>1, <3>1 DEF Known, Grows, TypeOK, handleVars, flowVars, cliVars
    <3> QED BY <2>1, <3>1, <3>2 DEF Fresh, Accepted, SpendsOnce, handleVars, flowVars, cliVars
  <2>2. CASE UNCHANGED <<serverVars, mishap, file, port, handleVars, flowVars, cliVars>>
    BY <2>2 DEF Known, Fresh, Accepted, SpendsOnce, serverVars, handleVars, flowVars, cliVars
  <2> QED BY <1>3, <2>1, <2>2 DEF Call
<1>4. ASSUME NEW why \in {"wait", "rewait"}, NeedCredentials(why) PROVE Kept'
  BY <1>4 DEF NeedCredentials, Known, Fresh, Accepted, SpendsOnce, Callers, TypeOK, serverVars,
              flowVars, cliVars
<1> QED BY <1>1, <1>2, <1>3, <1>4 DEF Dispatch

\* A token a sign-in brings is new, and what it saves is accepted.
LEMMA FlowKeeps ==
  ASSUME Hands, Kept, StartAuth \/ AuthTask \/ \E f \in Flows : Flow(f)
  PROVE  Kept'
<1> USE DEF Hands, Kept
<1>1. CASE StartAuth
  BY <1>1 DEF StartAuth, Known, Fresh, Accepted, SpendsOnce, TypeOK, serverVars, handleVars,
              cliVars
<1>2. CASE AuthTask
  <2>1. /\ \A f \in Flows : flow'[f] = "save" => flow[f] = "save"
        /\ \A f \in Flows : flow[f] = "save" => flow'[f] = "save"
    BY <1>2 DEF AuthTask, FlowEnds, AuthTimeout, ClearFlag, TypeOK
  <2>2. UNCHANGED <<serverVars, file, handleVars, fruit, cliVars, mishap>>
    BY <1>2 DEF AuthTask, FlowEnds, AuthTimeout, ClearFlag
  <2> QED BY <2>1, <2>2 DEF Known, Fresh, Accepted, SpendsOnce, serverVars, handleVars, cliVars
<1>3. ASSUME NEW f \in Flows, Listen(f) PROVE Kept'
  BY <1>3 DEF Listen, Ended, Known, Fresh, Accepted, SpendsOnce, TypeOK, serverVars, handleVars,
              cliVars
<1>4. ASSUME NEW f \in Flows, Answer(f) PROVE Kept'
  <2>1. ASSUME Mint, fruit' = [fruit EXCEPT ![f] = minted'],
               flow' = [flow EXCEPT ![f] = "save"],
               UNCHANGED <<file, handleVars, verb, web, inProgress, awaited, view, cliVars,
                           mishap>>
        PROVE  Kept'
    <3>1. /\ minted' # None /\ minted' \in 1 .. minted' /\ minted' \in 0 .. minted'
          /\ minted' \notin 0 .. minted /\ Grows /\ live' = live \cup {minted'}
      BY <2>1, MintStep, BoundAssumption DEF TypeOK, Tokens, None
    <3>2. Known'
      BY <2>1, <3>1 DEF Known, Grows, TypeOK, handleVars, cliVars
    <3>3. Fresh'
      BY <2>1, <3>1 DEF Fresh, Known, TypeOK, handleVars, cliVars
    <3>4. Accepted' /\ SpendsOnce'
      BY <2>1, <3>1 DEF Accepted, SpendsOnce, TypeOK, handleVars, cliVars
    <3> QED BY <3>2, <3>3, <3>4
  <2>2. CASE flow' = [flow EXCEPT ![f] = Ended(f, "failed")] /\ UNCHANGED <<serverVars, fruit>>
    BY <1>4, <2>2 DEF Answer, Ended, Known, Fresh, Accepted, SpendsOnce, TypeOK, serverVars,
                      handleVars, cliVars
  <2> QED BY <1>4, <2>1, <2>2 DEF Answer
<1>5. ASSUME NEW f \in Flows, SaveFlow(f) PROVE Kept'
  <2>1. \/ file'.kind = "full" /\ file'.token = fruit[f]
        \/ file' = file
    BY <1>5 DEF SaveFlow, File
  <2>2. Known'
    BY <1>5, <2>1 DEF SaveFlow, Known, TypeOK, None, serverVars, handleVars, cliVars
  <2>3. flow'[f] # "save"
    BY <1>5 DEF SaveFlow, Ended, TypeOK
  <2>4. Fresh'
    BY <1>5, <2>1, <2>3 DEF SaveFlow, Ended, Fresh, TypeOK, handleVars, cliVars
  <2>5. Accepted' /\ SpendsOnce'
    BY <1>5, <2>1 DEF SaveFlow, Ended, Accepted, SpendsOnce, TypeOK, serverVars, handleVars,
                      cliVars
  <2> QED BY <2>2, <2>4, <2>5
<1> QED BY <1>1, <1>2, <1>3, <1>4, <1>5 DEF Flow

\* What another process does with the file, and a restart of the daemon.
LEMMA CliKeeps ==
  ASSUME Hands, Kept, Cli \/ Restart \/ Revoke
  PROVE  Kept'
<1> USE DEF Hands, Kept
<1>1. CASE CliStarts
  <2>1. file.kind \in {"none", "corrupt", "narrow", "full"}
    BY DEF TypeOK
  <2>2. cli' # "save" /\ runs' > 0
    <3>1. ASSUME NEW r \in 0 .. MaxRuns PROVE r + 1 > 0
      OBVIOUS
    <3> QED BY <1>1, <2>1, <3>1 DEF CliStarts, TypeOK
  <2>3. cliTok' = IF file.kind = "full" THEN file.token ELSE None
    BY <1>1 DEF CliStarts
  <2>4. cli = "no"
        /\ UNCHANGED <<serverVars, file, port, handleVars, verb, web, flowVars, mishap>>
    BY <1>1 DEF CliStarts
  <2>5. Known'
    BY <2>3, <2>4, BoundAssumption DEF Known, None, TypeOK, Tokens, serverVars, handleVars,
                                       flowVars
  <2>6. Fresh'
    BY <2>3, <2>4 DEF Fresh, Carried, serverVars, handleVars, flowVars
  <2>7. Accepted' /\ SpendsOnce'
    BY <2>2, <2>4 DEF Accepted, SpendsOnce, serverVars, handleVars, flowVars
  <2> QED BY <2>5, <2>6, <2>7
<1>2. CASE CliExchanges
  <2>1. runs > 0 /\ runs' = runs /\ runs \in 0 .. MaxRuns
    BY <1>2 DEF CliExchanges, Counted, TypeOK
  <2>2. ASSUME NEW new \in Tokens, Accept(cliTok, new), cliTok' = new, cli' = "save",
               cli = "exchange",
               mishap' = (mishap \/
                          (new # cliTok /\
                           \E c \in Callers : load[c] = "save" /\ tok[c] = cliTok)),
               UNCHANGED <<file, port, handleVars, verb, web, flowVars, runs>>
        PROVE  Kept'
    <3>1. /\ cliTok \in live /\ new \in live' /\ Grows
          /\ new \in 0 .. minted' /\ live' \subseteq 1 .. minted'
          /\ \/ new = cliTok /\ live' = live
             \/ new \notin 0 .. minted /\ live' = (live \ {cliTok}) \cup {new}
      BY <2>2, AcceptStep DEF Grows
    <3>2. Known'
      BY <2>2, <3>1 DEF Known, Grows, TypeOK, handleVars, flowVars
    <3>3. Fresh'
      BY <2>2, <3>1 DEF Fresh, Known, handleVars, flowVars
    <3>4. Accepted'
      BY <2>2, <3>1 DEF Accepted, Fresh, handleVars, flowVars
    <3>5. SpendsOnce'
      BY <2>1, <2>2 DEF SpendsOnce
    <3> QED BY <3>2, <3>3, <3>4, <3>5
  <2>3. ASSUME cli' = "consent", cli = "exchange", cliTok' = None,
               UNCHANGED <<serverVars, mishap>>,
               UNCHANGED <<file, port, handleVars, verb, web, flowVars, runs>>
        PROVE  Kept'
    <3>1. Known'
      BY <2>3, BoundAssumption DEF Known, None, TypeOK, Tokens, serverVars, handleVars, flowVars
    <3> QED BY <2>3, <3>1 DEF Fresh, Carried, Accepted, SpendsOnce, serverVars, handleVars,
                              flowVars
  <2> QED BY <1>2, <2>2, <2>3 DEF CliExchanges
<1>3. CASE CliConsents
  BY <1>3 DEF CliConsents, Known, Fresh, Accepted, SpendsOnce, serverVars, handleVars, flowVars
<1>4. CASE CliAnswered
  <2>1. ASSUME Mint, cliTok' = minted', cli' = "save",
               UNCHANGED <<file, handleVars, verb, web, flowVars, runs, mishap>>
        PROVE  Kept'
    <3>1. /\ minted' \in 1 .. minted' /\ minted' \in 0 .. minted'
          /\ minted' \notin 0 .. minted /\ Grows /\ live' = live \cup {minted'}
      BY <2>1, MintStep, BoundAssumption DEF TypeOK, Tokens
    <3>2. Known'
      BY <2>1, <3>1 DEF Known, Grows, TypeOK, handleVars, flowVars
    <3> QED BY <2>1, <3>1, <3>2 DEF Fresh, Known, Accepted, SpendsOnce, handleVars, flowVars
  <2>2. CASE cli' = "no" /\ UNCHANGED <<serverVars, cliTok>>
    BY <1>4, <2>2 DEF CliAnswered, Known, Fresh, Accepted, SpendsOnce, serverVars, handleVars,
                      flowVars
  <2> QED BY <1>4, <2>1, <2>2 DEF CliAnswered
<1>5. CASE CliSaves
  <2>1. /\ cli = "save" /\ cli' = "no" /\ cliTok' = None
        /\ UNCHANGED <<serverVars, port, handleVars, verb, web, flowVars, runs>>
        /\ \/ file'.kind = "full" /\ file'.token = cliTok /\ UNCHANGED mishap
           \/ mishap' /\ file' = file
    BY <1>5 DEF CliSaves, File
  <2>2. Known'
    BY <2>1, BoundAssumption DEF Known, None, TypeOK, Tokens, serverVars, handleVars, flowVars
  <2> QED BY <2>1, <2>2 DEF Fresh, Carried, Accepted, SpendsOnce, serverVars, handleVars,
                            flowVars
<1>6. CASE Restart
  <2>1. Known'
    BY <1>6, BoundAssumption DEF Restart, Known, None, TypeOK, Tokens, serverVars, cliVars
  <2> QED BY <1>6, <2>1 DEF Restart, Fresh, Accepted, SpendsOnce, serverVars, cliVars
<1>7. CASE Revoke
  BY <1>7 DEF Revoke, Known, Fresh, Accepted, SpendsOnce, handleVars, flowVars, cliVars
<1> QED BY <1>1, <1>2, <1>3, <1>4, <1>5, <1>6, <1>7 DEF Cli

-----------------------------------------------------------------------------
(* What clients were told *)

\* Once there is a token in the file there stays one; only the steps of a sign-in
\* change what clients know of it.
LEMMA ToldStep ==
  ASSUME TypeOK, Told, Next
  PROVE  Told'
<1>1. file.kind = "full" => file'.kind = "full"
  BY DEF Next, Load, Dispatch, Flow, AuthTask, Cli, EnsureAuth, ReadFile, Exchange, Save, Ask,
         Build, Call, NeedCredentials, StartAuth, FlowEnds, AuthTimeout, ClearFlag, Listen, Answer, SaveFlow,
         CliStarts, CliExchanges, CliConsents, CliAnswered, CliSaves, Restart, Revoke, File
<1>2. CASE UNCHANGED flowVars
  BY <1>1, <1>2 DEF Told, flowVars
<1>3. CASE StartAuth
  BY <1>1, <1>3 DEF StartAuth, Told, TypeOK, Flows, None
<1>4. CASE AuthTask
  BY <1>1, <1>4 DEF AuthTask, FlowEnds, AuthTimeout, ClearFlag, Told, TypeOK
<1>5. ASSUME NEW f \in Flows, Listen(f) \/ Answer(f) PROVE Told'
  BY <1>1, <1>5 DEF Listen, Answer, Ended, Told, TypeOK
<1>6. ASSUME NEW f \in Flows, SaveFlow(f) PROVE Told'
  BY <1>1, <1>6 DEF SaveFlow, Ended, Told, TypeOK, File
<1>7. CASE Restart
  BY <1>7 DEF Restart, Told
<1> QED BY <1>2, <1>3, <1>4, <1>5, <1>6, <1>7 DEF Next, Load, Dispatch, Flow, Cli, EnsureAuth,
        ReadFile, Exchange, Save, Ask, Build, Call, NeedCredentials, CliStarts, CliExchanges,
        CliConsents, CliAnswered, CliSaves, Revoke

-----------------------------------------------------------------------------

\* Every step keeps what is said of hands, of tokens and of clients.
LEMMA StepInv == IInv /\ [Next]_vars => IInv'
<1> SUFFICES ASSUME IInv, [Next]_vars PROVE IInv'
  OBVIOUS
<1>1. CASE Next
  <2>1. Hands /\ Kept /\ Told
    BY DEF IInv, Hands, Kept
  <2>2. Told'
    BY <1>1, <2>1, ToldStep DEF Hands
  <2>3. Hands'
    BY <1>1, <2>1, LoadHands, DispatchHands, FlowHands, CliHands DEF Next, Kept
  <2>4. Kept'
    BY <1>1, <2>1, LoadKeeps, DispatchKeeps, FlowKeeps, CliKeeps DEF Next
  <2> QED BY <2>2, <2>3, <2>4 DEF IInv, Hands, Kept
<1>2. CASE UNCHANGED vars
  BY <1>2 DEF IInv, TypeOK, Held, Carried, Known, Fresh, Accepted, Counted, Told, SpendsOnce,
              vars, serverVars, handleVars, flowVars, cliVars
<1> QED BY <1>1, <1>2

\* The hands that hold the tokens are as the invariant says, whatever the bounds.
THEOREM Invariance == Spec => []IInv
<1> QED BY InitInv, StepInv, PTL DEF Spec

\* handle.rs:8-11 and auth.rs: no token is spent twice, and the file that is left holds
\* one the server accepts, however loads, sign-ins, `clitunes auth` and restarts interleave.
THEOREM TokensKept == Spec => []TokensAreKept
<1>1. IInv => TokensAreKept
  BY DEF IInv, TokensAreKept, Accepted, FileStaysUsable, Quiet
<1> QED BY <1>1, Invariance, PTL

\* event_loop.rs:343-410: a sign-in that clients believe pending is in progress, and one
\* they were told succeeded has left them logged in.
THEOREM ClientsInformed == Spec => []ClientsKnow
<1>1. IInv => ClientsKnow
  <2>1. file.kind = "full" => AuthStatus = "logged_in"
    BY Zenon DEF AuthStatus
  <2> QED BY <2>1 DEF IInv, Told, ClientsKnow, NobodyLeftPending, CompletedIsTrue
<1> QED BY <1>1, Invariance, PTL

-----------------------------------------------------------------------------
(* Local files: positions between frames. *)

\* Products and divisions, for the positions of resamplers.
LEMMA Distributes ==
  \A a, b, c \in Int : (a + b) * c = a * c + b * c /\ (a - b) * c = a * c - b * c
OBVIOUS

\* The order of products.
LEMMA ProductOrder ==
  ASSUME NEW a \in Int, NEW b \in Int, NEW c \in Nat \ {0}
  PROVE  /\ a * c \in Int
         /\ a <= b => a * c <= b * c
         /\ a * c < b * c => a < b
OBVIOUS

\* The whole part, by its bounds.
LEMMA DivBounds ==
  ASSUME NEW x \in Int, NEW d \in Nat \ {0}
  PROVE  /\ x \div d \in Int
         /\ (x \div d) * d <= x
         /\ x < (x \div d) * d + d
OBVIOUS

\* The only number with these bounds.
LEMMA DivUnique ==
  ASSUME NEW x \in Int, NEW d \in Nat \ {0}, NEW q \in Int, q * d <= x, x < q * d + d
  PROVE  x \div d = q
OBVIOUS

\* Whole steps come out of a division.
LEMMA DivShift ==
  ASSUME NEW x \in Int, NEW d \in Nat \ {0}, NEW a \in Int
  PROVE  (x + a * d) \div d = (x \div d) + a
OBVIOUS

\* A later position lies in no earlier frame.
LEMMA DivOrder ==
  ASSUME NEW x \in Int, NEW y \in Int, NEW d \in Nat \ {0}, x <= y
  PROVE  x \div d <= y \div d
OBVIOUS

\* A position before frame a is in a frame before it.
LEMMA DivBelow ==
  ASSUME NEW x \in Int, NEW d \in Nat \ {0}, NEW a \in Int, x < a * d
  PROVE  x \div d < a
OBVIOUS

-----------------------------------------------------------------------------
(* The decoder's resampler. *)

\* Where it stands: its cursor is the distance, in parts of a frame, of its next output
\* from the frames it was fed, and prev is the last of these.
CursorInv ==
  /\ cursor = emitted * rate - fed * RingRate
  /\ prev = fed - 1
  /\ (emitted - 1) * rate < fed * RingRate

DecoderTypes ==
  /\ rate \in Nat \ {0} /\ fed \in 0 .. MaxFed /\ emitted \in Nat
  /\ cursor \in 0 .. rate /\ prev \in -1 .. fed - 1

\* A packet leaves the cursor where its outputs end.
LEMMA PushTypes ==
  ASSUME DecoderTypes, CursorInv,
         NEW n \in 1 .. MaxPacket, NEW m \in 0 .. n * RingRate,
         fed + n <= MaxFed, Folder!Push(n, m)
  PROVE  DecoderTypes' /\ CursorInv' /\ rate' = rate
<1>1. /\ n \in Nat /\ m \in Nat /\ rate \in Nat \ {0} /\ RingRate \in Nat \ {0}
      /\ fed \in Nat /\ emitted \in Nat /\ cursor \in Int /\ MaxFed \in Nat
  <2>1. n * RingRate \in Nat
    BY FolderAssumption
  <2> QED BY <2>1, FolderAssumption DEF DecoderTypes
<1>2. rate' = rate /\ fed' = fed + n /\ emitted' = emitted + m /\ prev' = fed + n - 1
  BY DEF Folder!Push
<1>3. /\ (emitted + m) * rate = emitted * rate + m * rate
      /\ (fed + n) * RingRate = fed * RingRate + n * RingRate
      /\ (emitted + m - 1) * rate = emitted * rate + m * rate - rate
      /\ (emitted - 1) * rate = emitted * rate - rate
      /\ (m - 1) * rate = m * rate - rate
  BY <1>1
<1>4. /\ emitted * rate \in Int /\ m * rate \in Int /\ fed * RingRate \in Int
      /\ n * RingRate \in Int /\ n * RingRate > 0
  BY <1>1
<1>5. CASE Folder!Passthrough
  <2>1. m = n /\ cursor' = cursor /\ rate = RingRate
    BY <1>5 DEF Folder!Push, Folder!Yields, Folder!Passthrough
  <2>2. m * rate = n * RingRate
    BY <2>1
  <2>3. cursor' = emitted' * rate' - fed' * RingRate /\ (emitted' - 1) * rate' < fed' * RingRate
    BY <1>1, <1>2, <1>3, <1>4, <2>1, <2>2 DEF CursorInv
  <2> QED BY <1>1, <1>2, <2>1, <2>3 DEF DecoderTypes, CursorInv
<1>6. CASE ~Folder!Passthrough
  <2>1. /\ cursor' = cursor + m * rate - n * RingRate
        /\ m = 0 \/ cursor + (m - 1) * rate < n * RingRate
        /\ cursor + m * rate >= n * RingRate
    BY <1>6 DEF Folder!Push, Folder!Yields
  <2>2. m = 0 => m * rate = 0
    BY <1>1
  <2>3. cursor' \in 0 .. rate
    BY <1>1, <1>3, <1>4, <2>1, <2>2 DEF DecoderTypes
  <2>4. cursor' = emitted' * rate' - fed' * RingRate
    BY <1>1, <1>2, <1>3, <1>4, <2>1 DEF CursorInv
  <2>5. (emitted' - 1) * rate' < fed' * RingRate
    BY <1>1, <1>2, <1>3, <1>4, <2>1, <2>2 DEF CursorInv
  <2> QED BY <1>1, <1>2, <2>3, <2>4, <2>5 DEF DecoderTypes, CursorInv
<1> QED BY <1>2, <1>5, <1>6

\* What the last push put out lies where it belongs in the file.
StretchExact ==
  \A o \in stretch :
    IF Folder!Passthrough
    THEN o.from = o.out /\ o.to = o.out
    ELSE /\ o.to = (o.out * rate) \div RingRate
         /\ o.from = Folder!Greater((o.out * rate) \div RingRate - 1, 0)

\* An output of a push, counted from the beginning of the file.
LEMMA BetweenExact ==
  ASSUME DecoderTypes, CursorInv, NEW k \in Nat
  PROVE  LET i == ((emitted + k) * rate) \div RingRate
         IN Folder!Between(k) = [out |-> emitted + k, from |-> Folder!Greater(i - 1, 0), to |-> i]
<1> DEFINE x == cursor + k * rate
           i == x \div RingRate
<1>1. /\ rate \in Nat \ {0} /\ RingRate \in Nat \ {0} /\ fed \in Nat /\ emitted \in Nat
      /\ cursor \in Nat
  BY FolderAssumption DEF DecoderTypes
<1>2. x \in Nat
  BY <1>1
<1>3. (emitted + k) * rate = emitted * rate + k * rate /\ emitted * rate \in Int
      /\ k * rate \in Int /\ fed * RingRate \in Int
  BY <1>1
<1>4. (emitted + k) * rate = x + fed * RingRate
  BY <1>1, <1>3 DEF CursorInv
<1>5. ((emitted + k) * rate) \div RingRate = i + fed
  <2>1. (x + fed * RingRate) \div RingRate = (x \div RingRate) + fed
    <3> HIDE DEF x
    <3>1. x \in Int /\ fed \in Int
      BY <1>1, <1>2
    <3> QED BY <1>1, <3>1, DivShift, Zenon
  <2> QED BY <1>4, <2>1
<1>6. i \in Nat
  BY <1>1, <1>2, DivBounds
<1>7. Folder!Between(k) =
        [out |-> emitted + k,
         from |-> IF i > 0 THEN fed + i - 1 ELSE IF prev = Folder!None THEN 0 ELSE prev,
         to |-> fed + i]
  BY DEF Folder!Between
<1> HIDE DEF i
<1>8. (IF i > 0 THEN fed + i - 1 ELSE IF prev = Folder!None THEN 0 ELSE prev)
        = Folder!Greater(fed + i - 1, 0)
  BY <1>1, <1>6 DEF CursorInv, Folder!Greater, Folder!None
<1> QED BY <1>1, <1>5, <1>6, <1>7, <1>8

\* The last push, whatever the packets before it were.
LEMMA PushExact ==
  ASSUME DecoderTypes, CursorInv,
         NEW n \in 1 .. MaxPacket, NEW m \in 0 .. n * RingRate, Folder!Push(n, m)
  PROVE  StretchExact'
<1>1. stretch' = Folder!Stretched(m) /\ rate' = rate
  BY DEF Folder!Push
<1>2. m \in Nat
  <2>1. n * RingRate \in Nat
    BY FolderAssumption
  <2> QED BY <2>1
<1>3. CASE Folder!Passthrough
  <2>1. rate \in Nat \ {0} /\ emitted \in Nat /\ fed \in Nat /\ rate = RingRate
    BY <1>3 DEF DecoderTypes, Folder!Passthrough
  <2>2. emitted - 1 < fed
    BY <2>1, ProductOrder DEF CursorInv
  <2>3. fed * rate <= emitted * rate
    <3>1. fed * rate \in Int /\ emitted * rate \in Int
      BY <2>1
    <3> QED BY <2>1, <3>1 DEF DecoderTypes, CursorInv
  <2>4. fed <= emitted
    <3>1. fed * rate < (emitted + 1) * rate
      BY <2>1, <2>3, Distributes
    <3> QED BY <2>1, <3>1, ProductOrder
  <2>5. fed = emitted
    BY <2>1, <2>2, <2>4
  <2> QED BY <1>1, <1>2, <1>3, <2>1, <2>5 DEF StretchExact, Folder!Stretched,
                                        Folder!Passthrough
<1>4. CASE ~Folder!Passthrough
  <2> DEFINE i(k) == (Folder!Between(k).out * rate) \div RingRate
  <2> SUFFICES ASSUME NEW k \in 0 .. m - 1
               PROVE  /\ Folder!Between(k).to = i(k)
                      /\ Folder!Between(k).from = Folder!Greater(i(k) - 1, 0)
    BY <1>1, <1>4 DEF StretchExact, Folder!Stretched, Folder!Passthrough
  <2>1. k \in Nat
    BY <1>2
  <2> QED BY <2>1, BetweenExact
<1> QED BY <1>3, <1>4

-----------------------------------------------------------------------------
(* The queue. *)

\* The files in the order they were found: played, playing, and still to come.
InLine ==
  played \o (IF current = 0 THEN <<>> ELSE <<current>>) \o upcoming = [i \in 1 .. files |-> i]

QueueTypes ==
  /\ files \in Nat
  /\ played \in Seq(1 .. files) /\ upcoming \in Seq(1 .. files) /\ current \in 0 .. files

\* The next file keeps them in line, and the last of them is followed by none.
LEMMA AdvanceKeeps ==
  ASSUME QueueTypes, InLine, Folder!Advance
  PROVE  QueueTypes' /\ InLine' /\ (upcoming = <<>> => Len(played') = files)
<1> DEFINE playing == IF current = 0 THEN <<>> ELSE <<current>>
           S == 1 .. files
<1>1. playing \in Seq(S) /\ played \in Seq(S) /\ upcoming \in Seq(S)
  <2>1. current # 0 => current \in S
    BY DEF QueueTypes
  <2>2. current # 0 => <<current>> \in Seq(S)
    BY <2>1
  <2>3. <<>> \in Seq(S)
    BY EmptySeq
  <2>4. played \in Seq(S) /\ upcoming \in Seq(S)
    BY DEF QueueTypes
  <2> HIDE DEF S
  <2> QED BY <2>2, <2>3, <2>4
<1>2. played' = played \o playing /\ files' = files
  <2>1. current # 0 => Append(played, current) = played \o <<current>>
    BY AppendIsConcat DEF QueueTypes
  <2>2. current = 0 => played \o <<>> = played
    BY <1>1, ConcatEmptySeq
  <2> QED BY <2>1, <2>2 DEF Folder!Advance
<1>3. played \o playing \in Seq(S)
  BY <1>1
<1>4. CASE upcoming = <<>>
  <2>1. current' = 0 /\ upcoming' = <<>>
    BY <1>4 DEF Folder!Advance
  <2>2. (played \o playing) \o <<>> = played \o playing
    BY <1>3
  <2>3. played \o playing = [i \in 1 .. files |-> i]
    BY <1>4, <2>2 DEF InLine
  <2>4. Len(played') = files
    BY <1>2, <2>3 DEF QueueTypes
  <2>5. (played' \o <<>>) \o <<>> = [i \in 1 .. files |-> i]
    BY <1>2, <2>2, <2>3
  <2>6. InLine'
    BY <1>2, <2>1, <2>5 DEF InLine
  <2>7. current' \in 0 .. files /\ upcoming' \in Seq(S) /\ played' \in Seq(S)
    BY <1>2, <1>3, <2>1 DEF QueueTypes
  <2> HIDE DEF playing
  <2> QED BY <1>2, <2>4, <2>6, <2>7 DEF QueueTypes
<1>5. CASE upcoming # <<>>
  <2>1. current' = Head(upcoming) /\ upcoming' = Tail(upcoming)
    BY <1>5 DEF Folder!Advance
  <2>2. Head(upcoming) \in S /\ Tail(upcoming) \in Seq(S)
    BY <1>1, <1>5, HeadTailProperties
  <2>3. <<Head(upcoming)>> \o Tail(upcoming) = upcoming
    <3>1. Len(upcoming) \in Nat \ {0}
      BY <1>1, <1>5, EmptySeq
    <3>2. SubSeq(upcoming, 1, Len(upcoming))
            = <<upcoming[1]>> \o SubSeq(upcoming, 2, Len(upcoming))
      BY <1>1, <3>1, SubSeqRecursiveFirst
    <3>3. Tail(upcoming) = SubSeq(upcoming, 2, Len(upcoming))
      BY <1>1, <1>5, TailIsSubSeq
    <3>4. SubSeq(upcoming, 1, Len(upcoming)) = upcoming
      BY <1>1, SubSeqFull
    <3>5. Head(upcoming) = upcoming[1]
      BY <1>1, <3>1, <3>4, HeadTailOfSubSeq
    <3> QED BY <3>2, <3>3, <3>4, <3>5
  <2>4. ((played \o playing) \o <<Head(upcoming)>>) \o Tail(upcoming)
          = (played \o playing) \o (<<Head(upcoming)>> \o Tail(upcoming))
    BY <1>3, <2>2
  <2>5. current' # 0
    BY <2>1, <2>2 DEF QueueTypes
  <2>6. InLine'
    <3>1. (played \o playing) \o upcoming = [i \in 1 .. files |-> i]
      BY DEF InLine
    <3>2. (played' \o <<current'>>) \o upcoming' = [i \in 1 .. files |-> i]
      BY <1>2, <2>1, <2>3, <2>4, <3>1
    <3> QED BY <1>2, <2>5, <3>2 DEF InLine
  <2>7. current' \in 0 .. files /\ upcoming' \in Seq(S) /\ played' \in Seq(S)
    BY <1>2, <1>3, <2>1, <2>2 DEF QueueTypes
  <2> HIDE DEF playing
  <2> QED BY <1>2, <1>5, <2>6, <2>7 DEF QueueTypes
<1> QED BY <1>4, <1>5

-----------------------------------------------------------------------------
(* The ring and the device. *)

RingTypes ==
  /\ localWritten \in Nat /\ head \in 0 .. localWritten /\ localWritten - head <= RingFrames
  /\ dropped \in 0 .. head /\ heard \in 0 .. head

\* A write makes room by dropping the oldest frames.
LEMMA WriteKeeps ==
  ASSUME RingTypes, NEW m \in Nat, Folder!Write(m), heard' = heard
  PROVE  RingTypes' /\ localWritten <= localWritten'
BY FolderAssumption DEF RingTypes, Folder!Write, Folder!Greater

\* What the callback takes from the ring.
LEMMA DrainedFacts ==
  ASSUME RingTypes, NEW n \in Nat
  PROVE  Folder!Drained(n) \in 0 .. n /\ head + Folder!Drained(n) <= localWritten
BY DEF RingTypes, Folder!Drained, Folder!Lesser

\* Frames that were in the ring, oldest first, with silence between them.
OldestFirst(s, n, d) ==
  /\ DOMAIN s = 1 .. n
  /\ \A i \in 1 .. n : s[i] # Folder!Silence => s[i] \in head + 1 .. head + d
  /\ \A i, j \in 1 .. n : i <= j /\ s[i] # Folder!Silence /\ s[j] # Folder!Silence => s[i] <= s[j]

\* The buffer it is drained to is such frames.
LEMMA BufferFacts ==
  ASSUME RingTypes, NEW n \in Nat
  PROVE  OldestFirst(Folder!Buffer(n), n, Folder!Drained(n)) /\ Len(Folder!Buffer(n)) = n
<1> DEFINE d == Folder!Drained(n)
           s == [i \in 1 .. n |-> IF i <= d THEN head + i ELSE Folder!Silence]
<1>1. d \in 0 .. n /\ head \in Nat
  BY DrainedFacts DEF RingTypes
<1>2. Folder!Buffer(n) = s
  BY DEF Folder!Buffer
<1> HIDE DEF d
<1>3. DOMAIN s = 1 .. n /\ Len(s) = n
  <2>1. \A i \in 1 .. n : s[i] \in Int
    BY <1>1 DEF Folder!Silence
  <2>2. DOMAIN s = 1 .. n
    OBVIOUS
  <2>3. s \in [1 .. n -> Int]
    BY <2>1
  <2> HIDE DEF s
  <2>4. s \in Seq(Int)
    BY <2>3, SeqDef
  <2> QED BY <2>2, <2>4, LenProperties
<1>4. \A i \in 1 .. n : s[i] # Folder!Silence => s[i] = head + i /\ i <= d
  OBVIOUS
<1> HIDE DEF s
<1>5. OldestFirst(s, n, d)
  BY <1>1, <1>3, <1>4 DEF OldestFirst
<1> QED BY <1>2, <1>3, <1>5 DEF d

\* A set of positions that is not empty has a last element.
LEMMA LastPosition ==
  ASSUME NEW n \in Nat, NEW T \in SUBSET (1 .. n), T # {}
  PROVE  \E x \in T : \A y \in T : y <= x
<1> DEFINE R == OpToRel(<, Nat)
           U == {n - y : y \in T}
<1>1. IsWellFoundedOn(R, Nat)
  BY NatLessThanWellFounded
<1>2. \A x, y \in Nat : x < y => <<x, y>> \in R
  BY DEF OpToRel
<1> HIDE DEF R
<1>3. U \subseteq Nat /\ U # {}
  <2>1. \A y \in T : n - y \in Nat
    <3>1. \A y \in T : y \in 1 .. n
      OBVIOUS
    <3> QED BY <3>1
  <2> QED BY <2>1
<1>4. PICK x \in U : \A y \in U : <<y, x>> \notin R
  BY <1>1, <1>3, WFMin
<1>5. \A y \in U : ~ (y < x)
  BY <1>2, <1>3, <1>4
<1>6. PICK z \in T : x = n - z
  BY <1>4
<1>7. \A y \in T : y <= z
  BY <1>5, <1>6
<1> QED BY <1>7

\* The newest of them, or of those before.
LEMMA NewestFacts ==
  ASSUME RingTypes, NEW n \in Nat, NEW d \in Nat, NEW s, OldestFirst(s, n, d)
  PROVE  Folder!Newest(s) \in 0 .. head + d
<1> DEFINE audible == {k \in DOMAIN s : s[k] # Folder!Silence}
           last == CHOOSE k \in audible : \A j \in audible : j <= k
<1>1. heard \in Nat /\ head \in Nat /\ heard <= head
  BY DEF RingTypes
<1>2. CASE audible = {}
  BY <1>1, <1>2 DEF Folder!Newest
<1>3. CASE audible # {}
  <2>1. audible \subseteq 1 .. n
    BY DEF OldestFirst
  <2>2. \E k \in audible : \A j \in audible : j <= k
    BY <1>3, <2>1, LastPosition
  <2>3. last \in audible
    BY <2>2
  <2>4. Folder!Newest(s) = s[last]
    BY <1>3 DEF Folder!Newest
  <2> HIDE DEF last
  <2> QED BY <1>1, <2>3, <2>4 DEF OldestFirst
<1> QED BY <1>2, <1>3

DeviceTypes ==
  /\ device \in Nat \ {0} /\ pos \in Int /\ tail \in 0 .. localWritten
  /\ silent \in Nat /\ underruns \in Nat

\* What HeardInOrder says of a step.
HeardNext ==
  sound' # sound =>
    \A i, j \in DOMAIN sound' :
      (i <= j /\ sound'[i] # Folder!Silence /\ sound'[j] # Folder!Silence)
        => heard <= sound'[i] /\ sound'[i] <= sound'[j]

\* Such frames are newer than all that was heard.
LEMMA OldestFirstIsHeard ==
  ASSUME RingTypes, NEW n \in Nat, NEW d \in Nat, head + d <= localWritten,
         OldestFirst(sound', n, d), head' = head + d, heard' = Folder!Newest(sound'),
         localWritten' = localWritten, dropped' = dropped
  PROVE  RingTypes' /\ HeardNext
<1>1. /\ head \in Nat /\ heard \in Nat /\ heard <= head /\ dropped \in 0 .. head
      /\ localWritten \in Nat /\ localWritten - head <= RingFrames
  BY DEF RingTypes
<1>2. heard' \in 0 .. head + d
  BY NewestFacts
<1>3. \A i \in 1 .. n : sound'[i] # Folder!Silence => heard <= sound'[i]
  BY <1>1 DEF OldestFirst
<1>4. HeardNext
  BY <1>3 DEF HeardNext, OldestFirst
<1>5. RingTypes'
  BY <1>1, <1>2, FolderAssumption DEF RingTypes
<1> QED BY <1>4, <1>5

\* A callback at the rate of the ring.
LEMMA DirectKeeps ==
  ASSUME RingTypes, DeviceTypes, Folder!UnderrunsCounted, NEW frames \in Asks,
         RingRate = device, Folder!PlayDirect(frames),
         localWritten' = localWritten, dropped' = dropped
  PROVE  RingTypes' /\ DeviceTypes' /\ Folder!UnderrunsCounted' /\ HeardNext
<1> DEFINE n == Folder!Lesser(frames, Scratch)
           d == Folder!Drained(n)
<1>1. frames \in Nat /\ n \in Nat /\ n <= frames
  BY FolderAssumption DEF Folder!Lesser
<1>2. /\ head' = head + d /\ sound' = Folder!Buffer(n) /\ heard' = Folder!Newest(sound')
      /\ silent' = silent + frames - d /\ underruns' = underruns + (frames - n) + (n - d)
      /\ UNCHANGED <<device, pos, tail>>
  BY DEF Folder!PlayDirect
<1> HIDE DEF n
<1>3. d \in 0 .. n /\ head + d <= localWritten /\ OldestFirst(Folder!Buffer(n), n, d)
  BY <1>1, DrainedFacts, BufferFacts
<1> HIDE DEF d
<1>4. RingTypes' /\ HeardNext
  <2>1. OldestFirst(sound', n, d) /\ d \in Nat
    BY <1>1, <1>2, <1>3
  <2> QED BY <1>1, <1>2, <1>3, <2>1, OldestFirstIsHeard
<1>5. silent' \in Nat /\ underruns' \in Nat /\ silent' = underruns'
  BY <1>1, <1>2, <1>3 DEF DeviceTypes, Folder!UnderrunsCounted
<1> QED BY <1>2, <1>4, <1>5 DEF DeviceTypes, Folder!UnderrunsCounted

\* How many frames are wanted for a resampled callback: one at least.
LEMMA WantedFacts ==
  ASSUME DeviceTypes, NEW n \in Nat
  PROVE  Folder!Wanted(n) \in Nat \ {0}
<1> DEFINE x == n * RingRate + device - 1
<1>1. n * RingRate \in Nat /\ device \in Nat \ {0} /\ Scratch \in Nat \ {0}
  BY FolderAssumption DEF DeviceTypes
<1>2. x \in Nat
  BY <1>1
<1> HIDE DEF x
<1>3. x \div device \in Int
  BY <1>1, <1>2, DivBounds
<1>4. 0 <= x \div device
  <2>1. 0 * device <= 0 /\ 0 < 0 * device + device
    BY <1>1
  <2>2. 0 \div device = 0
    BY <1>1, <2>1, DivUnique
  <2> QED BY <1>1, <1>2, <2>2, DivOrder
<1> QED BY <1>1, <1>3, <1>4 DEF Folder!Wanted, Folder!Lesser, x

\* The outputs that lie before the end of what was drained are the first ones.
LEMMA FirstOnes ==
  ASSUME DeviceTypes, NEW n \in Nat, NEW e \in Int
  PROVE  \E m \in 0 .. n : {k \in 1 .. n : pos + (k - 1) * RingRate < e} = 1 .. m
<1> DEFINE At(k) == pos + (k - 1) * RingRate
           fits == {k \in 1 .. n : At(k) < e}
<1>1. pos \in Int /\ RingRate \in Nat \ {0}
  BY FolderAssumption DEF DeviceTypes
<1>2. \A j, k \in 1 .. n : j <= k => At(j) \in Int /\ At(j) <= At(k)
  <2> SUFFICES ASSUME NEW j \in 1 .. n, NEW k \in 1 .. n, j <= k
               PROVE  At(j) \in Int /\ At(j) <= At(k)
    OBVIOUS
  <2>1. j - 1 \in Int /\ k - 1 \in Int /\ j - 1 <= k - 1
    OBVIOUS
  <2>2. (j - 1) * RingRate <= (k - 1) * RingRate
    BY <1>1, <2>1, ProductOrder
  <2>3. (j - 1) * RingRate \in Int /\ (k - 1) * RingRate \in Int
    BY <1>1, <2>1, ProductOrder
  <2> QED BY <1>1, <2>2, <2>3
<1> HIDE DEF At
<1>3. CASE fits = {}
  <2>1. fits = 1 .. 0 /\ 0 \in 0 .. n
    BY <1>3
  <2> QED BY <2>1 DEF At
<1>4. CASE fits # {}
  <2>1. PICK m \in fits : \A y \in fits : y <= m
    BY <1>4, LastPosition
  <2>2. m \in 1 .. n /\ At(m) < e
    OBVIOUS
  <2>3. \A k \in 1 .. m : k \in 1 .. n /\ k <= m
    BY <2>2
  <2>4. \A k \in 1 .. m : At(k) < e
    BY <1>2, <2>2, <2>3
  <2>5. fits \subseteq 1 .. m
    BY <2>1, <2>2
  <2>6. fits = 1 .. m
    BY <2>3, <2>4, <2>5
  <2> QED BY <2>2, <2>6 DEF At
<1> QED BY <1>3, <1>4

\* A resampled callback: each output is interpolated up to a frame that was drained,
\* and no earlier one than the output before.
LEMMA ResampledFacts ==
  ASSUME RingTypes, DeviceTypes, NEW n \in Nat, NEW need \in Nat \ {0}
  PROVE  \E m \in 0 .. n :
           /\ Len(Folder!Resampled(n, Folder!Buffer(need))) = m
           /\ OldestFirst([k \in 1 .. m |-> Folder!Resampled(n, Folder!Buffer(need))[k].to],
                          m, Folder!Drained(need))
<1> DEFINE in == Folder!Buffer(need)
           At(k) == (pos + k * RingRate) \div device
           From(k) == IF At(k - 1) <= 0 THEN tail ELSE in[At(k - 1)]
           To(k) == Folder!Greater(At(k - 1), 0) + 1
           fits == {k \in 1 .. n : pos + (k - 1) * RingRate < Len(in) * device}
           out == [k \in fits |-> [from |-> From(k), to |-> in[To(k)]]]
<1>1. pos \in Int /\ RingRate \in Nat \ {0} /\ device \in Nat \ {0}
  BY FolderAssumption DEF DeviceTypes
<1>2. Len(in) = need /\ OldestFirst(in, need, Folder!Drained(need))
  BY BufferFacts
<1>3. Folder!Resampled(n, in) = out
  BY DEF Folder!Resampled
<1> HIDE DEF in
<1>4. PICK m \in 0 .. n : fits = 1 .. m
  <2>1. need * device \in Int
    BY <1>1
  <2> QED BY <1>2, <2>1, FirstOnes
<1>5. \A k \in 1 .. m : k \in 1 .. n /\ k - 1 \in Int /\ pos + (k - 1) * RingRate < need * device
  <2>1. \A k \in fits :
          k \in 1 .. n /\ k - 1 \in Int /\ pos + (k - 1) * RingRate < Len(in) * device
    OBVIOUS
  <2> HIDE DEF fits
  <2> QED BY <1>2, <1>4, <2>1, Zenon
<1>6. \A k \in 1 .. m : At(k - 1) \in Int /\ To(k) \in 1 .. need
  <2> SUFFICES ASSUME NEW k \in 1 .. m PROVE At(k - 1) \in Int /\ To(k) \in 1 .. need
    OBVIOUS
  <2> DEFINE x == pos + (k - 1) * RingRate
  <2>1. (k - 1) * RingRate \in Int
    BY <1>1
  <2>2. x \in Int /\ x < need * device
    BY <1>1, <1>5, <2>1
  <2> HIDE DEF x
  <2>3. x \div device \in Int /\ x \div device < need
    BY <1>1, <2>2, DivBounds, DivBelow
  <2>4. At(k - 1) \in Int /\ At(k - 1) < need
    BY <2>3 DEF x
  <2> HIDE DEF At
  <2> QED BY <2>4 DEF Folder!Greater
<1>7. \A j, k \in 1 .. m : j <= k => To(j) <= To(k)
  <2> SUFFICES ASSUME NEW j \in 1 .. m, NEW k \in 1 .. m, j <= k PROVE To(j) <= To(k)
    OBVIOUS
  <2> DEFINE x == pos + (j - 1) * RingRate
             y == pos + (k - 1) * RingRate
  <2>1. (j - 1) * RingRate \in Int /\ (k - 1) * RingRate \in Int
        /\ (j - 1) * RingRate <= (k - 1) * RingRate
    <3>1. j - 1 \in Int /\ k - 1 \in Int /\ j - 1 <= k - 1
      OBVIOUS
    <3> QED BY <1>1, <3>1, ProductOrder
  <2>2. x \in Int /\ y \in Int /\ x <= y
    BY <1>1, <2>1
  <2> HIDE DEF x, y
  <2>3. x \div device <= y \div device
    BY <1>1, <2>2, DivOrder
  <2>4. At(j - 1) <= At(k - 1)
    BY <2>3 DEF x, y
  <2>5. At(j - 1) \in Int /\ At(k - 1) \in Int
    BY <1>6
  <2> HIDE DEF At
  <2> QED BY <2>4, <2>5 DEF Folder!Greater
<1> HIDE DEF At, From, To, fits
<1>8. out = [k \in 1 .. m |-> [from |-> From(k), to |-> in[To(k)]]]
  BY <1>4
<1>9. Len(out) = m
  <2>1. out \in [1 .. m -> {[from |-> From(k), to |-> in[To(k)]] : k \in 1 .. m}]
    BY <1>8
  <2>2. out \in Seq({[from |-> From(k), to |-> in[To(k)]] : k \in 1 .. m})
    BY <2>1, SeqDef
  <2>3. DOMAIN out = 1 .. m
    BY <1>8
  <2> HIDE DEF out
  <2> QED BY <2>2, <2>3, LenProperties
<1> DEFINE s == [k \in 1 .. m |-> out[k].to]
<1>10. DOMAIN s = 1 .. m /\ \A k \in 1 .. m : s[k] = in[To(k)]
  BY <1>8
<1> HIDE DEF s, out
<1>11. OldestFirst(s, m, Folder!Drained(need))
  <2>1. \A k \in 1 .. m :
          s[k] # Folder!Silence => s[k] \in head + 1 .. head + Folder!Drained(need)
    BY <1>2, <1>6, <1>10 DEF OldestFirst
  <2>2. \A i, j \in 1 .. m :
          i <= j /\ s[i] # Folder!Silence /\ s[j] # Folder!Silence => s[i] <= s[j]
    BY <1>2, <1>6, <1>7, <1>10 DEF OldestFirst
  <2> QED BY <1>10, <2>1, <2>2 DEF OldestFirst
<1> QED BY <1>3, <1>9, <1>11 DEF s, in

\* A callback at another rate.
LEMMA ResampledKeeps ==
  ASSUME RingTypes, DeviceTypes, NEW frames \in Asks,
         RingRate # device, Folder!PlayResampled(frames),
         localWritten' = localWritten, dropped' = dropped
  PROVE  RingTypes' /\ DeviceTypes' /\ Folder!UnderrunsCounted' /\ HeardNext
<1> DEFINE n == Folder!Lesser(frames, Scratch)
           need == Folder!Wanted(n)
           d == Folder!Drained(need)
           in == Folder!Buffer(need)
           made == Len(Folder!Resampled(n, in))
<1>1. frames \in Nat /\ n \in Nat /\ n <= frames
  BY FolderAssumption DEF Folder!Lesser
<1>2. /\ head' = head + d /\ sound' = [k \in 1 .. made |-> Folder!Resampled(n, in)[k].to]
      /\ heard' = Folder!Newest(sound')
      /\ pos' = pos + made * RingRate - need * device /\ tail' = in[need]
      /\ UNCHANGED device
      /\ underruns' = underruns + (frames - n) + (need - d) + (n - made)
      /\ silent' = silent + (frames - made)
  BY DEF Folder!PlayResampled
<1> HIDE DEF n
<1>3. need \in Nat \ {0}
  BY <1>1, WantedFacts
<1> HIDE DEF need
<1>4. d \in 0 .. need /\ head + d <= localWritten /\ OldestFirst(in, need, d)
  BY <1>3, DrainedFacts, BufferFacts
<1>5. made \in 0 .. n /\ OldestFirst(sound', made, d)
  BY <1>1, <1>2, <1>3, ResampledFacts
<1> HIDE DEF d, in, made
<1>6. RingTypes' /\ HeardNext
  <2>1. made \in Nat /\ d \in Nat
    BY <1>1, <1>3, <1>4, <1>5
  <2> QED BY <1>2, <1>4, <1>5, <2>1, OldestFirstIsHeard
<1>7. tail' \in 0 .. localWritten
  <2>1. in[need] = Folder!Silence \/ in[need] \in head + 1 .. head + d
    BY <1>3, <1>4 DEF OldestFirst
  <2>2. head \in Nat /\ localWritten \in Nat /\ d \in Nat
    BY <1>3, <1>4 DEF RingTypes
  <2>3. in[need] \in 0 .. localWritten
    BY <1>4, <2>1, <2>2 DEF Folder!Silence
  <2> QED BY <1>2, <2>3
<1>8. pos' \in Int
  <2>1. made * RingRate \in Int /\ need * device \in Int
    BY <1>1, <1>3, <1>5, FolderAssumption DEF DeviceTypes
  <2> QED BY <1>2, <2>1 DEF DeviceTypes
<1>9. silent' \in Nat /\ underruns' \in Nat
  BY <1>1, <1>2, <1>3, <1>4, <1>5 DEF DeviceTypes
<1> QED BY <1>2, <1>6, <1>7, <1>8, <1>9 DEF DeviceTypes, Folder!UnderrunsCounted

-----------------------------------------------------------------------------
(* The invariant. *)

QueueInv ==
  /\ localPc \in {"next", "open", "decode", "done"} /\ localStop \in BOOLEAN
  /\ files \in 1 .. Files /\ QueueTypes /\ InLine
  /\ localPc = "done" /\ ~localStop => Len(played) = files

DecoderInv == rate \in Rates \union {RingRate} /\ DecoderTypes /\ CursorInv /\ StretchExact

DeviceInv == device \in Rates /\ RingTypes /\ DeviceTypes /\ Folder!UnderrunsCounted

FolderInv == QueueInv /\ DecoderInv /\ DeviceInv

\* Initially.
LEMMA InitFolderInv ==
  ASSUME Folder!Init
  PROVE  FolderInv
<1>1. QueueInv
  <2> DEFINE all == [i \in 1 .. files |-> i]
             S == 1 .. files
  <2>1. files \in Nat /\ upcoming = all /\ played = <<>> /\ current = 0
    BY FolderAssumption DEF Folder!Init
  <2>2. all \in Seq(S)
    <3>1. all \in [1 .. files -> S]
      OBVIOUS
    <3> HIDE DEF all
    <3> QED BY <2>1, <3>1, SeqDef
  <2>3. <<>> \in Seq(S) /\ (<<>> \o <<>>) \o all = all
    BY <2>2, EmptySeq, ConcatEmptySeq
  <2>4. InLine
    <3> HIDE DEF all
    <3>1. (played \o (IF current = 0 THEN <<>> ELSE <<current>>)) \o upcoming = all
      BY <2>1, <2>3
    <3> QED BY <3>1 DEF InLine, all
  <2> HIDE DEF all
  <2>5. QueueTypes
    BY <2>1, <2>2, <2>3 DEF QueueTypes
  <2> QED BY <2>4, <2>5 DEF QueueInv, Folder!Init
<1>2. DecoderInv
  <2>1. rate = RingRate /\ fed = 0 /\ emitted = 0 /\ cursor = 0 /\ prev = -1 /\ stretch = {}
    BY DEF Folder!Init, Folder!None
  <2>2. 0 * rate = 0 /\ 0 * RingRate = 0 /\ (0 - 1) * rate < 0
    BY <2>1, FolderAssumption
  <2>3. DecoderTypes /\ CursorInv
    BY <2>1, <2>2, FolderAssumption DEF DecoderTypes, CursorInv
  <2> QED BY <2>1, <2>3 DEF DecoderInv, StretchExact
<1>3. DeviceInv
  BY FolderAssumption DEF Folder!Init, DeviceInv, RingTypes, DeviceTypes,
                         Folder!UnderrunsCounted, Folder!Silence
<1> QED BY <1>1, <1>2, <1>3 DEF FolderInv

\* A step that leaves the queue alone.
LEMMA QueueStays ==
  ASSUME QueueInv, UNCHANGED Folder!queueVars,
         localPc' \in {"next", "open", "decode"} \/ localPc' = localPc,
         localStop' = localStop \/ localStop' = TRUE
  PROVE  QueueInv'
BY DEF QueueInv, Folder!queueVars, QueueTypes, InLine

\* A step that leaves the decoder's resampler alone.
LEMMA DecoderStays ==
  ASSUME DecoderInv, UNCHANGED Folder!decoderVars
  PROVE  DecoderInv'
BY DEF DecoderInv, Folder!decoderVars, DecoderTypes, CursorInv, StretchExact,
   Folder!Passthrough

\* A step that leaves the ring and the device alone.
LEMMA DeviceStays ==
  ASSUME DeviceInv, UNCHANGED <<localWritten, head, Folder!deviceVars, dropped>>
  PROVE  DeviceInv' /\ HeardNext
BY DEF DeviceInv, Folder!deviceVars, RingTypes, DeviceTypes, Folder!UnderrunsCounted,
   HeardNext

\* The next file, if there is one.
LEMMA NextTrackKeeps ==
  ASSUME FolderInv, Folder!NextTrack
  PROVE  QueueInv'
<1>1. /\ QueueTypes /\ InLine /\ files \in 1 .. Files
      /\ localStop' = localStop /\ localStop \in BOOLEAN /\ Folder!Advance
  BY DEF FolderInv, QueueInv, Folder!NextTrack
<1>2. QueueTypes' /\ InLine' /\ (upcoming = <<>> => Len(played') = files) /\ files' = files
  BY <1>1, AdvanceKeeps DEF Folder!Advance
<1>3. localPc' = IF upcoming = <<>> \/ localStop THEN "done" ELSE "open"
  BY DEF Folder!NextTrack
<1> QED BY <1>1, <1>2, <1>3 DEF QueueInv

\* A packet is decoded.
LEMMA DecodeKeeps ==
  ASSUME FolderInv, Folder!Decode
  PROVE  DecoderInv' /\ DeviceInv' /\ HeardNext
<1>0. PICK n \in 1 .. MaxPacket :
        fed + n <= MaxFed /\ \E m \in 0 .. n * RingRate : Folder!Push(n, m) /\ Folder!Write(m)
  BY DEF Folder!Decode
<1>1. PICK m \in 0 .. n * RingRate : Folder!Push(n, m) /\ Folder!Write(m) /\ fed + n <= MaxFed
  BY <1>0
<1>2. DecoderTypes /\ CursorInv /\ rate \in Rates \union {RingRate}
  BY DEF FolderInv, DecoderInv
<1>3. DecoderInv'
  BY <1>1, <1>2, PushTypes, PushExact DEF DecoderInv
<1>4. UNCHANGED Folder!deviceVars /\ m \in Nat
  <2>1. n * RingRate \in Nat
    BY FolderAssumption
  <2> QED BY <1>1, <2>1 DEF Folder!Decode
<1>5. RingTypes' /\ localWritten <= localWritten' /\ localWritten' \in Nat
  <2>1. RingTypes' /\ localWritten <= localWritten'
    BY <1>1, <1>4, WriteKeeps DEF Folder!deviceVars, FolderInv, DeviceInv
  <2> QED BY <2>1 DEF RingTypes
<1>6. DeviceTypes'
  BY <1>4, <1>5 DEF FolderInv, DeviceInv, DeviceTypes, RingTypes, Folder!deviceVars
<1>7. DeviceInv' /\ HeardNext
  BY <1>4, <1>5, <1>6 DEF FolderInv, DeviceInv, Folder!UnderrunsCounted, HeardNext,
         Folder!deviceVars
<1> QED BY <1>3, <1>7

\* The device asks for frames.
LEMMA CallbackKeeps ==
  ASSUME FolderInv, Folder!Callback
  PROVE  /\ DeviceInv' /\ HeardNext
         /\ UNCHANGED <<localPc, localStop, Folder!queueVars, Folder!decoderVars>>
<1>1. PICK frames \in Asks :
        /\ IF RingRate = device THEN Folder!PlayDirect(frames) ELSE Folder!PlayResampled(frames)
        /\ UNCHANGED <<localPc, localStop, Folder!queueVars, Folder!decoderVars>>
        /\ UNCHANGED <<localWritten, dropped>>
  BY DEF Folder!Callback
<1>2. device \in Rates /\ RingTypes /\ DeviceTypes /\ Folder!UnderrunsCounted
  BY DEF FolderInv, DeviceInv
<1>3. device' = device
  BY <1>1 DEF Folder!PlayDirect, Folder!PlayResampled
<1>4. RingTypes' /\ DeviceTypes' /\ Folder!UnderrunsCounted' /\ HeardNext
  <2>1. CASE RingRate = device
    BY <1>1, <1>2, <2>1, DirectKeeps
  <2>2. CASE RingRate # device
    BY <1>1, <1>2, <2>2, ResampledKeeps
  <2> QED BY <2>1, <2>2
<1> QED BY <1>1, <1>2, <1>3, <1>4 DEF DeviceInv

\* Every step keeps the invariant and plays nothing older than what was heard.
LEMMA StepFolderInv ==
  ASSUME FolderInv, [Folder!Next]_(Folder!vars)
  PROVE  FolderInv' /\ HeardNext
<1> USE DEF FolderInv
<1>1. CASE Folder!NextTrack
  BY <1>1, NextTrackKeeps, DecoderStays, DeviceStays DEF Folder!NextTrack
<1>2. CASE Folder!Skip \/ Folder!Close
  BY <1>2, QueueStays, DecoderStays, DeviceStays DEF Folder!Skip, Folder!Close
<1>3. CASE Folder!Open
  <2>1. DecoderInv'
    <3>1. /\ rate' \in Nat \ {0} /\ fed' = 0 /\ emitted' = 0 /\ cursor' = 0 /\ prev' = -1
          /\ stretch' = {} /\ rate' \in Rates
      BY <1>3, FolderAssumption DEF Folder!Open, Folder!None
    <3>2. PICK r \in Nat \ {0} : r = rate'
      BY <3>1
    <3>3. 0 = 0 * r - 0 * RingRate /\ (0 - 1) * r < 0 * RingRate
      BY FolderAssumption
    <3>4. CursorInv'
      <4>1. cursor' = emitted' * rate' - fed' * RingRate
        BY <3>1, <3>2, <3>3, Zenon
      <4>2. (emitted' - 1) * rate' < fed' * RingRate
        BY <3>1, <3>2, <3>3, Zenon
      <4>3. prev' = fed' - 1
        BY <3>1
      <4> QED BY <4>1, <4>2, <4>3 DEF CursorInv
    <3>5. DecoderTypes'
      BY <3>1, <3>2, FolderAssumption DEF DecoderTypes
    <3> QED BY <3>1, <3>4, <3>5 DEF DecoderInv, StretchExact
  <2> QED BY <1>3, <2>1, QueueStays, DeviceStays DEF Folder!Open
<1>4. CASE Folder!Decode
  BY <1>4, DecodeKeeps, QueueStays DEF Folder!Decode
<1>5. CASE Folder!Stop
  BY <1>5, QueueStays, DecoderStays, DeviceStays DEF Folder!Stop
<1>6. CASE Folder!Callback
  BY <1>6, CallbackKeeps, QueueStays, DecoderStays
<1>7. CASE UNCHANGED Folder!vars
  BY <1>7, QueueStays, DecoderStays, DeviceStays DEF Folder!vars
<1> QED BY <1>1, <1>2, <1>3, <1>4, <1>5, <1>6, <1>7 DEF Folder!Next

\* The invariant holds throughout.
LEMMA FolderInvariance == Folder!Spec => []FolderInv
BY InitFolderInv, StepFolderInv, PTL DEF Folder!Spec

\* The run of all three sources: while another source is open the folder stands still.
LEMMA FolderIsOpened == SourcesSpec => Folder!Spec
<1>1. SourcesInit => Folder!Init
  BY DEF SourcesInit
<1>2. [SourcesNext]_sourcesVars => [Folder!Next]_(Folder!vars)
  <2>1. UNCHANGED folderVars => UNCHANGED Folder!vars
    BY DEF folderVars, Folder!vars, Folder!queueVars, Folder!decoderVars, Folder!deviceVars
  <2>2. UNCHANGED sourcesVars => UNCHANGED folderVars
    BY DEF sourcesVars
  <2>3. SourcesNext => Folder!Next \/ UNCHANGED folderVars
    BY DEF SourcesNext, FolderNext, RadioNext, TrackNext
  <2> QED BY <2>1, <2>2, <2>3
<1> QED BY <1>1, <1>2, PTL DEF SourcesSpec, Folder!Spec

\* Whatever packets a file comes in, output j of the decoder's resampler lies at
\* j * rate / RingRate in the file.
THEOREM ResamplerExactHolds ==
  /\ Folder!Spec => []ResamplerExact
  /\ SourcesSpec => []ResamplerExact
<1>1. FolderInv => Folder!ResamplerExact
  <2> SUFFICES ASSUME FolderInv PROVE Folder!ResamplerExact
    OBVIOUS
  <2>1. /\ DecoderTypes /\ CursorInv /\ StretchExact
    BY DEF FolderInv, DecoderInv
  <2>2. \A o \in stretch :
          IF Folder!Passthrough
          THEN o.from = o.out /\ o.to = o.out
          ELSE LET i == (o.out * rate) \div RingRate
               IN o.to = i /\ o.from = Folder!Greater(i - 1, 0)
    BY <2>1 DEF StretchExact
  <2>3. (emitted - 1) * rate < fed * RingRate /\ fed * RingRate <= emitted * rate
    <3>1. fed * RingRate \in Int /\ emitted * rate \in Int
      BY <2>1, FolderAssumption DEF DecoderTypes
    <3>2. cursor \in Int /\ 0 <= cursor
      BY <2>1 DEF DecoderTypes
    <3> QED BY <2>1, <3>1, <3>2 DEF CursorInv
  <2> QED BY <2>2, <2>3 DEF Folder!ResamplerExact
<1> QED BY <1>1, FolderInvariance, FolderIsOpened, PTL DEF ResamplerExact

\* Files keep their order, frames keep theirs, and silence is counted, whatever cannot
\* be opened, breaks off, or is dropped by the ring.
THEOREM FolderIsHeardHolds ==
  /\ Folder!Spec => FolderIsHeard
  /\ SourcesSpec => FolderIsHeard
<1>1. FolderInv => Folder!TypeOK /\ Folder!QueueKeepsOrder /\ Folder!UnderrunsCounted
  <2> SUFFICES ASSUME FolderInv
               PROVE  Folder!TypeOK /\ Folder!QueueKeepsOrder /\ Folder!UnderrunsCounted
    OBVIOUS
  <2>1. QueueInv /\ DecoderInv /\ DeviceInv
    BY DEF FolderInv
  <2>2. Folder!TypeOK
    BY <2>1 DEF Folder!TypeOK, QueueInv, QueueTypes, DecoderInv, DecoderTypes, DeviceInv,
           RingTypes, DeviceTypes
  <2>3. Folder!QueueKeepsOrder
    BY <2>1 DEF Folder!QueueKeepsOrder, QueueInv, InLine
  <2> QED BY <2>1, <2>2, <2>3 DEF DeviceInv
<1>2. FolderInv /\ [Folder!Next]_(Folder!vars) => [HeardNext]_(Folder!vars)
  BY StepFolderInv
<1> QED
  BY <1>1, <1>2, InitFolderInv, StepFolderInv, FolderIsOpened, PTL
         DEF Folder!Spec, FolderIsHeard, Folder!FolderIsHeard, Folder!HeardInOrder, HeardNext

-----------------------------------------------------------------------------
(* Spotify tracks: the invariant. *)

\* Where run_spotify_playback is, from the guard it holds to its drop.
Going == {"load", "top", "drain", "sleep", "select", "reconnect"}
Leaving == {"drop", "unbind", "close", "report"}
Here == cur > 0 /\ receiver = cur
Reached == Here /\ bound = cur

\* What the guard holds: a receiver, and for as long the sink's binding.
Binding ==
  /\ cur \in 0 .. Playbacks /\ listener \in 0 .. cur
  /\ pc \in {"ended", "acquire"} \cup Going \cup Leaving
  /\ pc # "ended" => cur > 0
  /\ receiver = IF pc \in Going \cup {"drop", "unbind", "close"} THEN cur ELSE 0
  /\ bound = IF pc \in Going \cup {"drop", "unbind"} THEN cur ELSE 0
  /\ tries \in 0 .. Attempts - 1 /\ ahead \in Nat

Commands == [do : {"listen"}, who : 1 .. Playbacks]
              \cup [do : {"load"}, who : 1 .. Playbacks, take : Nat] \cup [do : {"stop"}]
Decks == [state : {"stopped", "loading", "playing", "over"}, track : 0 .. Playbacks,
          take : Nat, n : 0 .. Length]
Outputs == [chunk : Track!Chunks, to : {Track!None} \cup {<<p>> : p \in 0 .. Playbacks}]

PlayerTypes ==
  /\ commands \in Seq(Commands)
  /\ written \in Seq(Track!Chunks) /\ channel \in Seq(Track!Chunks) /\ Len(channel) <= Capacity
  /\ accum = Track!None \/ accum \in Track!Chunks
  /\ output = Track!None \/ output \in Outputs
  /\ deck \in Decks /\ takes \in Nat /\ flushing \in BOOLEAN

\* The deck: what is in the sink belongs to it, and a flush ends it.
Playing == deck.state # "stopped"
DeckInv ==
  /\ deck.state = "stopped" => deck = Track!Stopped
  /\ Playing => deck.track > 0
  /\ deck.state = "loading" => deck.n = 0
  /\ accum # Track!None => Playing
  /\ flushing => output # Track!None /\ accum = Track!None /\ Playing

\* No playback and no load is ahead of the last one.
Numbered ==
  /\ Playing => deck.track <= cur /\ deck.take <= takes
  /\ accum # Track!None => accum.track <= cur /\ accum.take <= takes
  /\ output # Track!None => output.chunk.track <= cur /\ output.chunk.take <= takes
  /\ \A i \in DOMAIN Track!Way : Track!Way[i].track <= cur /\ Track!Way[i].take <= takes
  /\ \A i \in DOMAIN commands : commands[i].do # "stop" => commands[i].who <= cur
  /\ \A i \in DOMAIN commands : commands[i].do = "load" => commands[i].take <= takes

\* The Player's commands: a load is stopped before the next playback listens.
StopIn(i, j) == \E k \in i .. j : commands[k].do = "stop"
Clear(j) ==
  /\ Playing /\ ~flushing => StopIn(1, j)
  /\ \A i \in 1 .. j : commands[i].do = "load" => StopIn(i + 1, j)
Stopping == \A i \in DOMAIN commands : commands[i].do = "listen" => Clear(i - 1)
Halted == pc \in {"ended", "acquire", "unbind", "close", "report"} => Clear(Len(commands))

\* They are of one playback after the other.
Owned(i) == commands[i].do # "stop" /\ commands[i].who = cur
Listens(i) == commands[i].do = "listen" /\ commands[i].who = cur
InTurn ==
  /\ \A i \in DOMAIN commands :
       commands[i].do # "stop" /\ commands[i].who # cur =>
         listener # cur /\ \A j \in 1 .. i : ~ Owned(j)
  /\ \A i \in DOMAIN commands :
       commands[i].do = "load" /\ commands[i].who = cur =>
         listener = cur \/ \E j \in 1 .. i : Listens(j)
  /\ Here => listener = cur \/ \E i \in DOMAIN commands : Listens(i)
  /\ pc = "acquire" => listener # cur /\ written = <<>> /\ \A i \in DOMAIN commands : ~ Owned(i)

\* Whoever goes on has stopped nothing.
Unstopped ==
  pc \in Going =>
    /\ listener = cur => ~ flushing /\ ~ StopIn(1, Len(commands))
    /\ \A i \in DOMAIN commands : Listens(i) => ~ StopIn(i, Len(commands))

CommandsInv == Stopping /\ Halted /\ InTurn /\ Unstopped

\* Since the Player listens for this playback, it plays it and nothing else.
Subscribed ==
  /\ Playing => (deck.track = cur <=> listener = cur)
  /\ output # Track!None => (output.chunk.track = cur <=> listener = cur)
  /\ accum # Track!None => (accum.track = cur <=> listener = cur)
  /\ listener # cur => \A i \in DOMAIN Track!Way : Track!Way[i].track # cur

\* What the sink delivers will come this way.
Coming == output # Track!None /\ Here
          /\ (output.to = <<cur>> \/ (output.to = Track!None /\ bound = cur))

\* What has come of the playback before.
Lead ==
  /\ listener # cur /\ Coming => Len(Track!Way) <= IF flushing THEN 1 ELSE 0
  /\ listener # cur /\ accum # Track!None /\ Reached
       => Len(Track!Way) <= IF output = Track!None THEN 1 ELSE 0
  /\ \A i \in DOMAIN Track!Way :
       Track!Way[i].track # cur => i <= 2 /\ \A j \in 1 .. i : Track!Way[j].track # cur

\* A load is newer than what was loaded before it.
Before(take) ==
  /\ \A i \in DOMAIN Track!Way : Track!Way[i].take < take
  /\ Playing => deck.take < take
  /\ output # Track!None => output.chunk.take < take
  /\ accum # Track!None => accum.take < take
Newer ==
  \A i \in DOMAIN commands : commands[i].do = "load" =>
    /\ Before(commands[i].take)
    /\ \A j \in DOMAIN commands :
         commands[j].do = "load" /\ i < j => commands[i].take < commands[j].take

\* The chunk that is next goes with the last one on the way.
Recent == Coming \/ Track!Way # <<>>
Latest == IF Coming THEN output.chunk ELSE Track!Way[Len(Track!Way)]
Chain ==
  /\ Track!InOrder
  /\ Coming /\ Track!Way # <<>> /\ output.chunk.track = cur
     /\ Track!Way[Len(Track!Way)].track = cur
       => Track!Follows(Track!Way[Len(Track!Way)], output.chunk)
  /\ Reached /\ Recent /\ Latest.track = cur /\ Playing /\ ~flushing /\ deck.track = cur
       => IF Latest.take = deck.take THEN Latest.n = deck.n
          ELSE Latest.take < deck.take /\ deck.n = 0
  /\ Reached /\ Recent /\ Latest.track = cur /\ accum # Track!None /\ accum.track = cur
       => Track!Follows(Latest, accum)

\* News is of this track, and that it was stopped is none while it goes on.
News ==
  /\ Track!NewsIsItsOwn
  /\ pc \in Going => \A i \in DOMAIN events : events[i].what # "stopped"

\* Whoever leaves has a reason.
Reasons ==
  /\ stop /\ pc # "ended" => asked
  /\ pc \in Leaving \cup {"ended"} /\ cur > 0 => asked \/ finished \/ told
     \/ (failed /\ pc # "ended")

Newses == [what : {"playing", "unavailable", "ended", "disconnected", "stopped"}, track : Nat]

TrackInv ==
  /\ Binding /\ PlayerTypes /\ DeckInv /\ Numbered /\ CommandsInv
  /\ Subscribed /\ Lead /\ Newer /\ Chain /\ News /\ Reasons
  /\ events \in Seq(Newses)

-----------------------------------------------------------------------------
(* Chunks and what is on the way. *)

\* Nothing that is something is None.
LEMMA NotNone ==
  /\ \A x \in Track!Chunks : x # Track!None
  /\ \A x \in Outputs : x # Track!None
  /\ \A p \in Nat : <<p>> # Track!None
<1>1. \A x \in Track!Chunks : x # Track!None
  <2> SUFFICES ASSUME NEW x \in Track!Chunks, x = Track!None PROVE FALSE
    OBVIOUS
  <2>1. "track" \in DOMAIN x
    BY DEF Track!Chunks
  <2>2. DOMAIN Track!None = {}
    BY DEF Track!None
  <2> QED BY <2>1, <2>2
<1>2. \A x \in Outputs : x # Track!None
  <2> SUFFICES ASSUME NEW x \in Outputs, x = Track!None PROVE FALSE
    OBVIOUS
  <2>1. "chunk" \in DOMAIN x
    BY DEF Outputs
  <2>2. DOMAIN Track!None = {}
    BY DEF Track!None
  <2> QED BY <2>1, <2>2
<1>3. \A p \in Nat : <<p>> # Track!None
  BY DEF Track!None
<1> QED BY <1>1, <1>2, <1>3

\* The chunks on the way, and when they are as before.
LEMMA WayTypes ==
  ASSUME PlayerTypes
  PROVE  Track!Way \in Seq(Track!Chunks) /\ Len(Track!Way) \in Nat
         /\ DOMAIN Track!Way = 1 .. Len(Track!Way)
<1>1. Track!Way \in Seq(Track!Chunks)
  BY DEF PlayerTypes, Track!Way
<1> QED BY <1>1

\* The first so many of those before.
Shrinks == Len(Track!Way') <= Len(Track!Way)
           /\ \A i \in 1 .. Len(Track!Way') : Track!Way'[i] = Track!Way[i]

\* A queue is its first element and the rest.
LEMMA FirstAndRest ==
  ASSUME NEW S, NEW q \in Seq(S), q # <<>>
  PROVE  /\ Head(q) \in S /\ Tail(q) \in Seq(S) /\ q = <<Head(q)>> \o Tail(q)
         /\ Len(q) \in Nat \ {0} /\ Len(Tail(q)) = Len(q) - 1
         /\ q[1] = Head(q) /\ \A i \in 1 .. Len(q) - 1 : Tail(q)[i] = q[i + 1]
<1>1. Len(q) \in Nat \ {0}
  BY EmptySeq
<1>2. Head(q) \in S /\ Tail(q) \in Seq(S)
  BY HeadTailProperties
<1>3. SubSeq(q, 1, Len(q)) = <<q[1]>> \o SubSeq(q, 2, Len(q))
  BY <1>1, SubSeqRecursiveFirst
<1>4. Tail(q) = SubSeq(q, 2, Len(q))
  BY TailIsSubSeq
<1>5. SubSeq(q, 1, Len(q)) = q
  BY SubSeqFull
<1>6. Len(Tail(q)) = Len(q) - 1 /\ \A i \in 1 .. Len(q) - 1 : Tail(q)[i] = q[i + 1]
  BY <1>1
<1>7. q[1] = Head(q)
  BY <1>1
<1> QED BY <1>1, <1>2, <1>3, <1>4, <1>5, <1>6, <1>7

\* One more at the end.
LEMMA OneMore ==
  ASSUME NEW S, NEW q \in Seq(S), NEW x \in S
  PROVE  /\ Append(q, x) \in Seq(S) /\ Len(Append(q, x)) = Len(q) + 1 /\ Len(q) \in Nat
         /\ DOMAIN Append(q, x) = 1 .. Len(q) + 1 /\ Append(q, x)[Len(q) + 1] = x
         /\ \A i \in 1 .. Len(q) : Append(q, x)[i] = q[i]
OBVIOUS

\* A chunk that the source takes out of the channel stays on the way.
LEMMA WayDrained ==
  ASSUME PlayerTypes, channel # <<>>, receiver = cur, UNCHANGED <<receiver, cur>>,
         channel' = Tail(channel), written' = Append(written, Head(channel))
  PROVE  Track!Way' = Track!Way
<1>1. channel = <<Head(channel)>> \o Tail(channel) /\ Head(channel) \in Track!Chunks
      /\ Tail(channel) \in Seq(Track!Chunks) /\ written \in Seq(Track!Chunks)
  BY FirstAndRest DEF PlayerTypes
<1>2. Append(written, Head(channel)) = written \o <<Head(channel)>>
  BY <1>1, AppendIsConcat
<1>3. (written \o <<Head(channel)>>) \o Tail(channel)
        = written \o (<<Head(channel)>> \o Tail(channel))
  BY <1>1
<1> QED BY <1>1, <1>2, <1>3 DEF Track!Way

\* A chunk that is delivered is the last on the way.
LEMMA WayGrows ==
  ASSUME PlayerTypes, receiver = cur, UNCHANGED <<receiver, cur, written>>,
         NEW x \in Track!Chunks, channel' = Append(channel, x)
  PROVE  Track!Way' = Append(Track!Way, x)
<1>1. written \in Seq(Track!Chunks) /\ channel \in Seq(Track!Chunks)
  BY DEF PlayerTypes
<1>2. written \o Append(channel, x) = Append(written \o channel, x)
  BY <1>1
<1> QED BY <1>2 DEF Track!Way

\* The receiver goes and what it held is lost.
LEMMA WayCut ==
  ASSUME PlayerTypes, UNCHANGED written, receiver' # cur'
  PROVE  Track!Way' = written /\ Shrinks
<1>1. written \in Seq(Track!Chunks) /\ channel \in Seq(Track!Chunks)
  BY DEF PlayerTypes
<1>2. Track!Way' = written
  BY DEF Track!Way
<1>3. CASE receiver = cur
  <2>1. Track!Way = written \o channel
    BY <1>3 DEF Track!Way
  <2>2. Len(written) <= Len(written \o channel)
        /\ \A i \in 1 .. Len(written) : (written \o channel)[i] = written[i]
    BY <1>1
  <2> QED BY <1>2, <2>1, <2>2 DEF Shrinks
<1>4. CASE receiver # cur
  <2>1. Track!Way = written
    BY <1>4 DEF Track!Way
  <2> QED BY <1>1, <1>2, <2>1 DEF Shrinks
<1> QED BY <1>2, <1>3, <1>4

\* Nothing is on the way of a playback that begins, or that has just been bound.
LEMMA WayEmpty ==
  ASSUME written' = <<>>, receiver' # cur' \/ channel' = <<>>
  PROVE  Track!Way' = <<>>
BY DEF Track!Way

-----------------------------------------------------------------------------
(* The steps, by what they leave alone. *)

SinkStays ==
  UNCHANGED <<cur, listener, receiver, bound, written, channel, commands, deck, accum, output,
              flushing, takes>>

\* A step of the source that leaves the Player and its sink alone.
Idle ==
  \/ Track!Ask \/ Track!Mirror \/ Track!Tick \/ Track!AcquireFails \/ Track!BadUri
     \/ (Track!CheckStop /\ ~stop) \/ Track!Drained \/ Track!Awake
  \/ Track!Wake \/ Track!Hear \/ Track!ReconnectFails \/ Track!Report
\* Such a step leaves the sink alone, and moves the source on or towards its end.
LEMMA IdleStays ==
  ASSUME Idle
  PROVE  /\ SinkStays
         /\ \/ pc' = pc
            \/ pc \in Going /\ pc' \in Going \cup {"drop"}
            \/ pc = "acquire" /\ pc' = "report"
            \/ pc = "report" /\ pc' = "ended"
<1> USE DEF SinkStays, Track!pipeVars, Track!playerVars, Track!runVars, Track!paceVars, Track!Go
<1>1. CASE Track!Ask \/ Track!Mirror \/ Track!Tick
  BY <1>1 DEF Track!Ask, Track!Mirror, Track!Tick
<1>2. CASE Track!AcquireFails \/ Track!BadUri \/ Track!Report
  BY <1>2 DEF Track!AcquireFails, Track!BadUri, Track!Report, Going
<1>3. CASE (Track!CheckStop /\ ~stop) \/ Track!Drained \/ Track!Awake \/ Track!Wake
  BY <1>3 DEF Track!CheckStop, Track!Drained, Track!Awake, Track!Wake, Going
<1>4. CASE Track!Hear \/ Track!ReconnectFails
  BY <1>4 DEF Track!Hear, Track!ReconnectFails, Going
<1> QED BY <1>1, <1>2, <1>3, <1>4 DEF Idle

\* A command is given.
Sends(c) ==
  /\ commands' = Append(commands, c)
  /\ UNCHANGED <<cur, listener, receiver, bound, written, channel, deck, accum, output,
                 flushing>>
SendsLoad ==
  /\ pc \in Going /\ pc' \in Going
  /\ Sends([do |-> "load", who |-> cur, take |-> takes + 1])
  /\ takes' = takes + 1
SendsStop ==
  /\ \/ pc \in Going /\ pc' = "drop"
     \/ pc = "drop" /\ pc' = "unbind"
  /\ Sends([do |-> "stop"])
  /\ takes' = takes
\* A load and a stop are commands of the source that is bound.
LEMMA Commanding ==
  /\ Track!Load \/ Track!Reconnects => SendsLoad
  /\ (Track!CheckStop /\ stop) \/ Track!DropStops => SendsStop
BY DEF Track!Load, Track!Reconnects, Track!LoadTrack, Track!CheckStop, Track!DropStops,
       Track!SendStop, SendsLoad, SendsStop, Sends, Track!pipeVars, Track!playerVars,
       Track!runVars, Track!paceVars, Track!Go, Going

\* A step of the deck alone.
DeckMoves ==
  /\ UNCHANGED <<cur, pc, listener, receiver, bound, written, channel, commands, accum, output,
                 flushing, takes>>
  /\ deck' = deck \/ (deck.state \in {"loading", "playing"} /\
                      \E state \in {"playing", "over"} : deck' = [deck EXCEPT !.state = state])
\* Loading, ending and losing the session move the deck alone.
LEMMA DeckMovesAlone == Track!Loaded \/ Track!Unavailable \/ Track!TrackEnds \/ Track!Disconnect
                          => DeckMoves
BY DEF Track!Loaded, Track!Unavailable, Track!TrackEnds, Track!Disconnect, DeckMoves,
       Track!pipeVars, Track!playerVars, Track!runVars, Track!paceVars

\* Every step is one of these.
LEMMA Steps ==
  ASSUME [Track!Next]_(Track!vars)
  PROVE  \/ Idle \/ Track!Begin \/ Track!Acquire \/ SendsLoad \/ SendsStop \/ Track!Drain
            \/ Track!Unbind \/ Track!Close
         \/ Track!Listen \/ Track!TakeLoad \/ DeckMoves \/ Track!Decode \/ Track!TakeStop
            \/ Track!LookUp \/ Track!Deliver
         \/ UNCHANGED Track!vars
BY Commanding, DeckMovesAlone DEF Track!Next, Track!Source, Track!Player, Idle

-----------------------------------------------------------------------------
(* The initial states, and the parts of the invariant. *)

\* At first there is no playback, and the Player is idle.
LEMMA InitTrackInv ==
  ASSUME Track!Init
  PROVE  TrackInv
<1>1. commands = <<>> /\ written = <<>> /\ channel = <<>> /\ events = <<>> /\ Track!Way = <<>>
  BY DEF Track!Init, Track!Way
<1>2. /\ cur = 0 /\ receiver = 0 /\ bound = 0 /\ listener = 0 /\ pc = "ended"
      /\ deck = Track!Stopped /\ accum = Track!None /\ output = Track!None /\ flushing = FALSE
      /\ takes = 0
  BY DEF Track!Init
<1>3. ~ Playing /\ deck \in Decks
  BY <1>2, PlayerAssumption DEF Playing, Track!Stopped, Decks
<1>4. DOMAIN <<>> = {} /\ Len(<<>>) = 0 /\ \A S : <<>> \in Seq(S)
  BY EmptySeq
<1>5. Binding
  BY <1>2, PlayerAssumption DEF Binding, Track!Init, Going, Leaving
<1>6. PlayerTypes
  <2>1. commands \in Seq(Commands) /\ written \in Seq(Track!Chunks)
        /\ channel \in Seq(Track!Chunks)
    BY <1>1, <1>4
  <2>2. Len(channel) <= Capacity
    BY <1>1, <1>4, PlayerAssumption
  <2> QED BY <1>2, <1>3, <2>1, <2>2 DEF PlayerTypes
<1>7. DeckInv /\ Numbered /\ Subscribed /\ Newer
  BY <1>1, <1>2, <1>3, <1>4 DEF Track!Stopped, DeckInv, Numbered, Subscribed, Newer, Before
<1>8. CommandsInv
  BY <1>1, <1>2, <1>3 DEF CommandsInv, Stopping, Halted, InTurn, Unstopped, Clear, Going, Here
<1>9. Lead /\ Chain
  BY <1>1, <1>2, <1>3 DEF Lead, Chain, Coming, Track!InOrder, Reached, Here
<1>10. News /\ Reasons
  BY <1>1, <1>2 DEF News, Track!NewsIsItsOwn, Going, Reasons, Track!Init
<1> QED BY <1>1, <1>4, <1>5, <1>6, <1>7, <1>8, <1>9, <1>10 DEF TrackInv

\* The guard.
LEMMA BindingStep ==
  ASSUME Binding, PlayerTypes, Numbered, [Track!Next]_(Track!vars)
  PROVE  Binding'
<1> USE PlayerAssumption DEF Binding, Going, Leaving, Track!pipeVars, Track!playerVars,
        Track!runVars, Track!paceVars, Track!Go
<1>1. CASE Track!Ask \/ Track!Mirror \/ Track!Tick \/ UNCHANGED Track!vars
  BY <1>1 DEF Track!Ask, Track!Mirror, Track!Tick, Track!vars
<1>2. CASE Track!Begin
  BY <1>2 DEF Track!Begin
<1>3. CASE Track!Acquire \/ Track!AcquireFails \/ Track!Load \/ Track!BadUri
  BY <1>3
     DEF Track!Acquire, Track!Bind, Track!AcquireFails, Track!Load, Track!LoadTrack,
         Track!BadUri
<1>4. CASE Track!CheckStop \/ Track!Drain \/ Track!Drained
  BY <1>4 DEF Track!CheckStop, Track!Drain, Track!Drained
<1>5. CASE Track!Awake \/ Track!Wake \/ Track!Hear
  BY <1>5 DEF Track!Awake, Track!Wake, Track!Hear
<1>6. CASE Track!Reconnects \/ Track!ReconnectFails
  BY <1>6 DEF Track!Reconnects, Track!ReconnectFails, Track!LoadTrack
<1>7. CASE Track!DropStops \/ Track!Unbind \/ Track!Close \/ Track!Report
  BY <1>7 DEF Track!DropStops, Track!Unbind, Track!Close, Track!ReceiverDrops, Track!Report
<1>9. CASE Track!Loaded \/ Track!Unavailable \/ Track!TrackEnds \/ Track!Disconnect
           \/ Track!Decode
  BY <1>9 DEF Track!Loaded, Track!Unavailable, Track!TrackEnds, Track!Disconnect, Track!Decode
<1>10. CASE Track!TakeLoad \/ Track!TakeStop \/ Track!LookUp \/ Track!Deliver
  BY <1>10 DEF Track!TakeLoad, Track!TakeStop, Track!LookUp, Track!Deliver
<1>8. CASE Track!Listen
  <2>1. Head(commands) = commands[1] /\ 1 \in DOMAIN commands /\ commands[1] \in Commands
    BY <1>8, FirstAndRest DEF Track!Listen, Track!Commanded, PlayerTypes
  <2>2. commands[1].do = "listen"
    BY <1>8, <2>1 DEF Track!Listen, Track!Commanded
  <2>3. commands[1].who \in 1 .. Playbacks /\ commands[1].who <= cur
    BY <2>1, <2>2 DEF Commands, Numbered
  <2> QED BY <1>8, <2>1, <2>3 DEF Track!Listen
<1> QED BY <1>1, <1>2, <1>3, <1>4, <1>5, <1>6, <1>7, <1>8, <1>9, <1>10
           DEF Track!Next, Track!Source, Track!Player

\* The first command, when the Player takes it.
LEMMA FirstCommand ==
  ASSUME PlayerTypes, NEW do, Track!Commanded(do)
  PROVE  /\ output = Track!None /\ Len(commands) \in Nat \ {0} /\ 1 \in DOMAIN commands
         /\ commands[1] = Head(commands) /\ commands[1].do = do /\ commands[1] \in Commands
         /\ commands' \in Seq(Commands) /\ Len(commands') = Len(commands) - 1
         /\ \A i \in 1 .. Len(commands) - 1 : commands'[i] = commands[i + 1]
BY FirstAndRest DEF Track!Commanded, Track!Polls, PlayerTypes

\* A chunk that the deck may fill.
LEMMA NextChunk ==
  ASSUME PlayerTypes, DeckInv, Playing
  PROVE  /\ \A n \in 1 .. Length + 1 : Track!Chunk(n) \in Track!Chunks
            /\ Track!Chunk(n) # Track!None
         /\ \A n : Track!Chunk(n).track = deck.track /\ Track!Chunk(n).take = deck.take
            /\ Track!Chunk(n).n = n
<1>1. deck.track \in 1 .. Playbacks /\ deck.take \in Nat
  BY PlayerAssumption DEF PlayerTypes, DeckInv, Decks
<1>2. \A n \in 1 .. Length + 1 : Track!Chunk(n) \in Track!Chunks
  BY <1>1 DEF Track!Chunk, Track!Chunks
<1> QED BY <1>2, NotNone DEF Track!Chunk

\* The types.
LEMMA TypesStep ==
  ASSUME PlayerTypes, DeckInv, Binding, [Track!Next]_(Track!vars)
  PROVE  PlayerTypes'
<1>1. CASE Idle \/ Track!Unbind \/ Track!Close \/ Track!Listen \/ UNCHANGED Track!vars
  <2>1. UNCHANGED <<written, channel, deck, accum, output, flushing, takes>>
    BY <1>1, IdleStays
       DEF Track!Unbind, Track!Close, Track!Listen, SinkStays, Track!vars, Track!pipeVars,
           Track!playerVars, Track!runVars, Track!paceVars
  <2>2. commands' \in Seq(Commands)
    BY <1>1, IdleStays, FirstCommand
       DEF Track!Unbind, Track!Close, Track!Listen, SinkStays, Track!vars, PlayerTypes
  <2> QED BY <2>1, <2>2 DEF PlayerTypes
<1>2. CASE Track!Begin
  <2>1. written' = <<>> /\ UNCHANGED <<commands, channel, deck, accum, output, flushing, takes>>
    BY <1>2 DEF Track!Begin, Track!pipeVars, Track!playerVars
  <2> QED BY <2>1, EmptySeq DEF PlayerTypes
<1>3. CASE Track!Acquire
  <2>1. /\ channel' = <<>> /\ commands' = Append(commands, [do |-> "listen", who |-> cur])
        /\ UNCHANGED <<written, deck, accum, output, flushing, takes>>
    BY <1>3 DEF Track!Acquire, Track!Bind, Track!playerVars, Track!paceVars
  <2>2. [do |-> "listen", who |-> cur] \in Commands
    BY <1>3 DEF Track!Acquire, Track!Go, Binding, Commands
  <2>3. channel' \in Seq(Track!Chunks) /\ Len(channel') = 0
    BY <2>1, EmptySeq
  <2> QED BY <2>1, <2>2, <2>3, OneMore, PlayerAssumption DEF PlayerTypes
<1>4. CASE SendsLoad
  <2>1. [do |-> "load", who |-> cur, take |-> takes + 1] \in Commands
    BY <1>4 DEF SendsLoad, Binding, Commands, PlayerTypes, Going
  <2>2. commands' \in Seq(Commands)
    BY <1>4, <2>1, OneMore DEF SendsLoad, Sends, PlayerTypes
  <2> QED BY <1>4, <2>2 DEF SendsLoad, Sends, PlayerTypes
<1>5. CASE SendsStop
  <2>1. [do |-> "stop"] \in Commands
    BY DEF Commands
  <2>2. commands' \in Seq(Commands)
    BY <1>5, <2>1, OneMore DEF SendsStop, Sends, PlayerTypes
  <2> QED BY <1>5, <2>2 DEF SendsStop, Sends, PlayerTypes
<1>6. CASE Track!Drain
  <2>1. /\ Head(channel) \in Track!Chunks /\ Tail(channel) \in Seq(Track!Chunks)
        /\ Len(Tail(channel)) = Len(channel) - 1 /\ Len(channel) \in Nat
    BY <1>6, FirstAndRest DEF Track!Drain, PlayerTypes
  <2>2. /\ channel' = Tail(channel) /\ written' = Append(written, Head(channel))
        /\ UNCHANGED <<commands, deck, accum, output, flushing, takes>>
    BY <1>6 DEF Track!Drain, Track!playerVars
  <2> QED BY <2>1, <2>2, OneMore, PlayerAssumption DEF PlayerTypes
<1>7. CASE Track!TakeLoad
  <2>1. commands' \in Seq(Commands) /\ commands[1] \in Commands /\ commands[1].do = "load"
        /\ commands[1] = Head(commands)
    BY <1>7, FirstCommand DEF Track!TakeLoad
  <2>2. commands[1].who \in 0 .. Playbacks /\ commands[1].take \in Nat
    BY <2>1 DEF Commands
  <2>3. deck' \in Decks
    BY <1>7, <2>1, <2>2, PlayerAssumption DEF Track!TakeLoad, Decks
  <2> QED BY <1>7, <2>1, <2>3 DEF Track!TakeLoad, PlayerTypes, Track!pipeVars, Track!paceVars
<1>8. CASE DeckMoves
  <2>1. deck' \in Decks
    BY <1>8 DEF DeckMoves, PlayerTypes, Decks
  <2> QED BY <1>8, <2>1 DEF DeckMoves, PlayerTypes
<1>9. CASE Track!Decode
  <2>1. deck.n \in 0 .. Length /\ deck.n < Length /\ Playing
    BY <1>9 DEF Track!Decode, PlayerTypes, Decks, Playing
  <2>2. deck.n + 1 \in 1 .. Length + 1 /\ deck.n + 2 \in 1 .. Length + 1
    BY <2>1, PlayerAssumption
  <2>3. Track!Chunk(deck.n + 1) \in Track!Chunks /\ accum' \in Track!Chunks
    BY <1>9, <2>1, <2>2, NextChunk DEF Track!Decode
  <2>4. output' \in Outputs
    BY <1>9, <2>3 DEF Track!Decode, Outputs
  <2>5. deck' \in Decks
    <3>1. deck.n + 1 \in 0 .. Length
      BY <2>1, PlayerAssumption
    <3> QED BY <1>9, <3>1 DEF Track!Decode, PlayerTypes, Decks
  <2> QED BY <1>9, <2>3, <2>4, <2>5
             DEF Track!Decode, PlayerTypes, Track!pipeVars, Track!paceVars
<1>10. CASE Track!TakeStop
  <2>1. commands' \in Seq(Commands)
    BY <1>10, FirstCommand DEF Track!TakeStop
  <2>2. accum # Track!None => [chunk |-> accum, to |-> Track!None] \in Outputs
    BY DEF PlayerTypes, Outputs
  <2>3. Track!Stopped \in Decks
    BY PlayerAssumption DEF Track!Stopped, Decks
  <2> QED BY <1>10, <2>1, <2>2, <2>3
             DEF Track!TakeStop, PlayerTypes, Track!pipeVars, Track!paceVars
<1>11. CASE Track!LookUp
  <2>1. output \in Outputs /\ bound \in 0 .. Playbacks
    BY <1>11, PlayerAssumption DEF Track!LookUp, PlayerTypes, Binding
  <2>2. output' \in Outputs
    BY <1>11, <2>1 DEF Track!LookUp, Outputs
  <2> QED BY <1>11, <2>2 DEF Track!LookUp, PlayerTypes, Track!pipeVars, Track!paceVars
<1>12. CASE Track!Deliver
  <2>1. UNCHANGED <<written, commands, takes>> /\ output' = Track!None /\ flushing' = FALSE
    BY <1>12 DEF Track!Deliver, Track!paceVars
  <2>2. deck' \in Decks
    BY <1>12, PlayerAssumption DEF Track!Deliver, PlayerTypes, Track!Stopped, Decks
  <2>3. channel' \in Seq(Track!Chunks) /\ Len(channel') <= Capacity
        /\ (accum' = accum \/ accum' = Track!None)
    <3>1. CASE Track!Discarded
      BY <3>1 DEF Track!Discarded, PlayerTypes
    <3>2. CASE Track!Delivered
      <4>1. output.chunk \in Track!Chunks
        BY <1>12 DEF Track!Deliver, PlayerTypes, Outputs
      <4> QED BY <3>2, <4>1, OneMore, PlayerAssumption DEF Track!Delivered, PlayerTypes
    <3> QED BY <1>12, <3>1, <3>2 DEF Track!Deliver
  <2> QED BY <2>1, <2>2, <2>3 DEF PlayerTypes
<1> QED BY <1>1, <1>2, <1>3, <1>4, <1>5, <1>6, <1>7, <1>8, <1>9, <1>10, <1>11, <1>12, Steps

\* The deck and the sink.
LEMMA DeckStep ==
  ASSUME PlayerTypes, DeckInv, [Track!Next]_(Track!vars)
  PROVE  DeckInv'
<1> USE DEF DeckInv, Playing
<1>1. CASE \/ Idle \/ Track!Begin \/ Track!Acquire \/ SendsLoad \/ SendsStop \/ Track!Drain
              \/ Track!Unbind \/ Track!Close
           \/ Track!Listen \/ UNCHANGED Track!vars
  <2>1. UNCHANGED <<deck, accum, output, flushing>>
    BY <1>1, IdleStays
       DEF SinkStays, Track!Begin, Track!Acquire, SendsLoad, SendsStop, Sends, Track!Drain,
           Track!Unbind, Track!Close, Track!Listen, Track!vars, Track!playerVars
  <2> QED BY <2>1
<1>2. CASE Track!TakeLoad
  <2>1. commands[1].do = "load" /\ commands[1] \in Commands /\ output = Track!None
        /\ commands[1] = Head(commands)
    BY <1>2, FirstCommand DEF Track!TakeLoad
  <2>2. commands[1].who > 0
    BY <2>1 DEF Commands
  <2> QED BY <1>2, <2>1, <2>2 DEF Track!TakeLoad
<1>3. CASE DeckMoves
  BY <1>3 DEF DeckMoves, PlayerTypes, Decks
<1>4. CASE Track!Decode
  BY <1>4 DEF Track!Decode, Track!Polls, PlayerTypes, Decks
<1>5. CASE Track!TakeStop
  <2>1. output = Track!None
    BY <1>5, FirstCommand DEF Track!TakeStop
  <2>2. accum # Track!None => [chunk |-> accum, to |-> Track!None] # Track!None
    BY NotNone DEF PlayerTypes, Outputs
  <2> QED BY <1>5, <2>1, <2>2 DEF Track!TakeStop, Track!Stopped
<1>6. CASE Track!LookUp
  <2>1. output' # Track!None
    BY <1>6 DEF Track!LookUp, PlayerTypes, Track!None, Outputs
  <2> QED BY <1>6, <2>1 DEF Track!LookUp
<1>7. CASE Track!Deliver
  BY <1>7 DEF Track!Deliver, Track!Discarded, Track!Delivered, Track!Stopped
<1> QED BY <1>1, <1>2, <1>3, <1>4, <1>5, <1>6, <1>7, Steps

\* What is on the way after a step that delivers nothing.
LEMMA WayStays ==
  ASSUME PlayerTypes, Binding,
         \/ Idle \/ SendsLoad \/ SendsStop \/ Track!Drain \/ Track!Unbind
         \/ Track!Listen \/ Track!TakeLoad \/ DeckMoves \/ Track!Decode \/ Track!TakeStop
            \/ Track!LookUp \/ UNCHANGED Track!vars
  PROVE  Track!Way' = Track!Way
<1>1. CASE Track!Drain
  <2>1. receiver = cur
    BY <1>1 DEF Track!Drain, Binding, Going
  <2> QED BY <1>1, <2>1, WayDrained DEF Track!Drain
<1>2. CASE \/ Idle \/ SendsLoad \/ SendsStop \/ Track!Unbind \/ Track!Listen \/ Track!TakeLoad
              \/ DeckMoves
           \/ Track!Decode \/ Track!TakeStop \/ Track!LookUp \/ UNCHANGED Track!vars
  <2>1. UNCHANGED <<cur, receiver, written, channel>>
    BY <1>2, IdleStays
       DEF SinkStays, SendsLoad, SendsStop, Sends, Track!Unbind, Track!Listen, Track!TakeLoad,
           DeckMoves, Track!Decode, Track!TakeStop, Track!LookUp, Track!vars, Track!pipeVars,
           Track!paceVars
  <2> QED BY <2>1 DEF Track!Way
<1> QED BY <1>1, <1>2
\* Nor does such a step, or a beginning, a binding or a close, add to what is on the way.
LEMMA WayShrinks ==
  ASSUME PlayerTypes, Binding,
         \/ Idle \/ Track!Begin \/ Track!Acquire \/ SendsLoad \/ SendsStop \/ Track!Drain
            \/ Track!Unbind \/ Track!Close
         \/ Track!Listen \/ Track!TakeLoad \/ DeckMoves \/ Track!Decode \/ Track!TakeStop
            \/ Track!LookUp \/ UNCHANGED Track!vars
  PROVE  Shrinks
<1>0. Track!Way \in Seq(Track!Chunks) /\ Len(Track!Way) \in Nat
  BY WayTypes
<1>1. CASE Track!Begin \/ Track!Acquire
  <2>1. CASE Track!Begin
    <3>1. written' = <<>> /\ receiver' # cur'
      BY <2>1 DEF Track!Begin, Track!pipeVars, Binding, Going
    <3> QED BY <2>1, <3>1, <1>0, WayEmpty DEF Shrinks
  <2>2. CASE Track!Acquire
    <3>1. written' = written /\ channel' = <<>>
      BY <2>2 DEF Track!Acquire, Track!Bind, Track!paceVars
    <3>2. Track!Way' = written
      <4>1. written \in Seq(Track!Chunks)
        BY DEF PlayerTypes
      <4> QED BY <3>1, <4>1 DEF Track!Way
    <3>3. receiver # cur
      BY <2>2 DEF Track!Acquire, Track!Go, Binding, Going
    <3>4. Track!Way = written
      <4>1. written \in Seq(Track!Chunks)
        BY DEF PlayerTypes
      <4> QED BY <3>3, <4>1 DEF Track!Way
    <3> QED BY <2>2, <3>2, <3>4, <1>0 DEF Shrinks
  <2> QED BY <1>1, <2>1, <2>2
<1>2. CASE Track!Close
  <2>1. UNCHANGED written /\ receiver' # cur'
    BY <1>2 DEF Track!Close, Track!ReceiverDrops, Track!Go, Binding, Going, Track!paceVars
  <2> QED BY <1>2, <2>1, WayCut
<1>3. CASE ~ Track!Begin /\ ~ Track!Acquire /\ ~ Track!Close
  BY <1>0, <1>3, WayStays DEF Shrinks
<1> QED BY <1>1, <1>2, <1>3

\* Unless it began with none, a playback is bound with none on the way.
LEMMA WayOfAcquire ==
  ASSUME PlayerTypes, Binding, InTurn, Track!Begin \/ Track!Acquire
  PROVE  Track!Way' = <<>>
<1>1. written' = <<>>
  BY DEF Track!Begin, Track!Acquire, Track!Go, InTurn, Track!paceVars
<1>2. receiver' # cur' \/ channel' = <<>>
  BY DEF Track!Begin, Track!Acquire, Track!Bind, Track!pipeVars, Binding, Going
<1> QED BY <1>1, <1>2, WayEmpty

\* Where a delivery goes.
LEMMA Delivery ==
  ASSUME PlayerTypes, Binding, Track!Deliver
  PROVE  /\ output # Track!None /\ output.chunk \in Track!Chunks /\ output' = Track!None
         /\ flushing' = FALSE
         /\ UNCHANGED <<cur, pc, listener, receiver, bound, written, commands, takes>>
         /\ IF flushing THEN deck' = Track!Stopped ELSE deck' = deck
         /\ \/ Coming /\ Track!Way' = Append(Track!Way, output.chunk) /\ accum' = accum
            \/ ~ Coming /\ Track!Way' = Track!Way /\ accum' \in {accum, Track!None}
<1>1. /\ output # Track!None /\ output.to # Track!None /\ output' = Track!None
      /\ flushing' = FALSE
      /\ UNCHANGED <<cur, pc, listener, receiver, bound, written, commands, takes>>
      /\ IF flushing THEN deck' = Track!Stopped ELSE deck' = deck
  BY DEF Track!Deliver, Track!paceVars
<1>2. output.chunk \in Track!Chunks
  BY <1>1 DEF PlayerTypes, Outputs
<1>3. receiver \in {0, cur} /\ cur \in Nat
  BY PlayerAssumption DEF Binding
<1>4. CASE Track!Delivered
  <2>1. output.to = <<cur>> /\ Here /\ receiver = cur
    BY <1>3, <1>4 DEF Track!Delivered, Here
  <2>2. Track!Way' = Append(Track!Way, output.chunk)
    BY <1>1, <1>2, <1>4, <2>1, WayGrows DEF Track!Delivered
  <2> QED BY <1>1, <1>2, <1>4, <2>1, <2>2 DEF Track!Delivered, Coming
<1>5. CASE Track!Discarded
  <2>1. ~ Coming
    BY <1>1, <1>5 DEF Coming, Track!Discarded, Here
  <2>2. Track!Way' = Track!Way
    BY <1>1, <1>5 DEF Track!Way, Track!Discarded
  <2> QED BY <1>1, <1>2, <1>5, <2>1, <2>2 DEF Track!Discarded
<1> QED BY <1>4, <1>5 DEF Track!Deliver

\* Numbers.
LEMMA NumberedStep ==
  ASSUME PlayerTypes, Binding, DeckInv, Numbered, [Track!Next]_(Track!vars)
  PROVE  Numbered'
<1>0. /\ Track!Way \in Seq(Track!Chunks) /\ Len(Track!Way) \in Nat
      /\ DOMAIN Track!Way = 1 .. Len(Track!Way)
      /\ Track!Way' \in Seq(Track!Chunks) /\ DOMAIN Track!Way' = 1 .. Len(Track!Way')
      /\ cur \in Nat /\ takes \in Nat
  <2>1. PlayerTypes'
    BY TypesStep
  <2>2. Track!Way' \in Seq(Track!Chunks)
    <3>1. written' \in Seq(Track!Chunks) /\ channel' \in Seq(Track!Chunks)
      BY <2>1 DEF PlayerTypes
    <3> QED BY <3>1 DEF Track!Way
  <2>3. cur \in Nat /\ takes \in Nat
    BY PlayerAssumption DEF Binding, PlayerTypes
  <2> QED BY <2>2, <2>3, WayTypes
<1>1. ASSUME Shrinks, cur <= cur', takes <= takes', UNCHANGED <<deck, accum, output, commands>>
      PROVE  Numbered'
  <2>1. cur' \in Nat
    <3>1. Binding'
      BY BindingStep
    <3> QED BY <3>1, PlayerAssumption DEF Binding
  <2>2. takes' \in Nat
    <3>1. PlayerTypes'
      BY TypesStep
    <3> QED BY <3>1 DEF PlayerTypes
  <2>3. \A i \in DOMAIN Track!Way' : Track!Way'[i].track <= cur' /\ Track!Way'[i].take <= takes'
    <3> SUFFICES ASSUME NEW i \in DOMAIN Track!Way'
                 PROVE  Track!Way'[i].track <= cur' /\ Track!Way'[i].take <= takes'
      OBVIOUS
    <3>1. i \in 1 .. Len(Track!Way) /\ Track!Way'[i] = Track!Way[i]
      BY <1>0, <1>1 DEF Shrinks
    <3>2. Track!Way[i].track \in Nat /\ Track!Way[i].take \in Nat
      <4>1. Track!Way[i] \in Track!Chunks
        BY <1>0, <3>1
      <4> QED BY <4>1 DEF Track!Chunks
    <3>3. Track!Way[i].track <= cur /\ Track!Way[i].take <= takes
      BY <1>0, <3>1 DEF Numbered
    <3> QED BY <1>0, <1>1, <2>1, <2>2, <3>1, <3>2, <3>3
  <2>4. \A i \in DOMAIN commands : commands[i] \in Commands
    BY DEF PlayerTypes
  <2>5. \A i \in DOMAIN commands :
          /\ commands[i].do # "stop" => commands[i].who \in Nat
          /\ commands[i].do = "load" => commands[i].take \in Nat
    BY <2>4, PlayerAssumption DEF Commands
  <2>6. /\ deck.track \in Nat /\ deck.take \in Nat
        /\ accum # Track!None => accum.track \in Nat /\ accum.take \in Nat
        /\ output # Track!None => output.chunk.track \in Nat /\ output.chunk.take \in Nat
    BY DEF PlayerTypes, Decks, Track!Chunks, Outputs
  <2> QED BY <1>0, <1>1, <2>1, <2>2, <2>3, <2>5, <2>6 DEF Numbered, Playing
<1>2. CASE Idle \/ Track!Begin \/ Track!Drain \/ Track!Unbind \/ Track!Close
           \/ UNCHANGED Track!vars
  <2>1. UNCHANGED <<deck, accum, output, commands, takes>> /\ cur <= cur'
    BY <1>0, <1>2, IdleStays
       DEF SinkStays, Track!Begin, Track!Drain, Track!Unbind, Track!Close, Track!vars,
           Track!playerVars
  <2> QED BY <1>0, <1>1, <1>2, <2>1, WayShrinks
<1>3. ASSUME NEW x \in Commands, commands' = Append(commands, x), takes <= takes', Shrinks,
             takes' \in Nat, UNCHANGED <<deck, accum, output, cur>>,
             x.do # "stop" => x.who <= cur, x.do = "load" => x.take <= takes'
      PROVE  Numbered'
  <2>1. \A i \in DOMAIN Track!Way' : Track!Way'[i].track <= cur' /\ Track!Way'[i].take <= takes'
    <3> SUFFICES ASSUME NEW i \in DOMAIN Track!Way'
                 PROVE  Track!Way'[i].track <= cur' /\ Track!Way'[i].take <= takes'
      OBVIOUS
    <3>1. i \in 1 .. Len(Track!Way) /\ Track!Way'[i] = Track!Way[i]
      BY <1>0, <1>3 DEF Shrinks
    <3>2. Track!Way[i] \in Track!Chunks
      BY <1>0, <3>1
    <3> QED BY <1>0, <1>3, <3>1, <3>2 DEF Numbered, Track!Chunks
  <2>2. /\ DOMAIN commands' = 1 .. Len(commands) + 1 /\ commands'[Len(commands) + 1] = x
        /\ Len(commands) \in Nat /\ \A i \in 1 .. Len(commands) : commands'[i] = commands[i]
        /\ DOMAIN commands = 1 .. Len(commands)
    BY <1>3, OneMore DEF PlayerTypes
  <2>3. \A i \in DOMAIN commands : commands[i].do = "load" => commands[i].take \in Nat
    BY DEF PlayerTypes, Commands
  <2>4. \A i \in DOMAIN commands' :
          /\ commands'[i].do # "stop" => commands'[i].who <= cur
          /\ commands'[i].do = "load" => commands'[i].take <= takes'
    <3> SUFFICES ASSUME NEW i \in DOMAIN commands'
                 PROVE  /\ commands'[i].do # "stop" => commands'[i].who <= cur
                        /\ commands'[i].do = "load" => commands'[i].take <= takes'
      OBVIOUS
    <3>1. CASE i = Len(commands) + 1
      BY <1>3, <2>2, <3>1
    <3>2. CASE i \in DOMAIN commands
      BY <1>0, <1>3, <2>2, <2>3, <3>2 DEF Numbered
    <3> QED BY <2>2, <3>1, <3>2
  <2>5. /\ deck.take \in Nat
        /\ accum # Track!None => accum.take \in Nat
        /\ output # Track!None => output.chunk.take \in Nat
    BY DEF PlayerTypes, Decks, Track!Chunks, Outputs
  <2> QED BY <1>0, <1>3, <2>1, <2>4, <2>5 DEF Numbered, Playing
<1>4. CASE Track!Acquire
  <2>1. [do |-> "listen", who |-> cur] \in Commands
    BY <1>4 DEF Track!Acquire, Track!Go, Binding, Commands
  <2>2. /\ commands' = Append(commands, [do |-> "listen", who |-> cur])
        /\ UNCHANGED <<deck, accum, output, cur, takes>>
    BY <1>4 DEF Track!Acquire, Track!playerVars
  <2> QED BY <1>0, <1>3, <1>4, <2>1, <2>2, WayShrinks
<1>5. CASE SendsLoad
  <2>1. [do |-> "load", who |-> cur, take |-> takes + 1] \in Commands
    BY <1>5, <1>0 DEF SendsLoad, Binding, Commands, Going
  <2> QED BY <1>0, <1>3, <1>5, <2>1, WayShrinks DEF SendsLoad, Sends
<1>6. CASE SendsStop
  <2>1. [do |-> "stop"] \in Commands
    BY DEF Commands
  <2> QED BY <1>0, <1>3, <1>6, <2>1, WayShrinks DEF SendsStop, Sends
<1>7. ASSUME UNCHANGED <<cur, takes>>, Track!Way' = Track!Way,
             \A i \in DOMAIN commands' : \E j \in DOMAIN commands : commands'[i] = commands[j],
             Playing' => deck'.track <= cur /\ deck'.take <= takes,
             accum' # Track!None => accum'.track <= cur /\ accum'.take <= takes,
             output' # Track!None => output'.chunk.track <= cur /\ output'.chunk.take <= takes
      PROVE  Numbered'
  <2>1. \A i \in DOMAIN Track!Way' : Track!Way'[i].track <= cur /\ Track!Way'[i].take <= takes
    BY <1>7 DEF Numbered
  <2>2. \A i \in DOMAIN commands' :
          /\ commands'[i].do # "stop" => commands'[i].who <= cur
          /\ commands'[i].do = "load" => commands'[i].take <= takes
    BY <1>7 DEF Numbered
  <2> QED BY <1>7, <2>1, <2>2 DEF Numbered
<1>8. ASSUME NEW do, Track!Commanded(do)
      PROVE  /\ \A i \in DOMAIN commands' : \E j \in DOMAIN commands : commands'[i] = commands[j]
             /\ output = Track!None
  <2>1. \A i \in DOMAIN commands' : i + 1 \in DOMAIN commands /\ commands'[i] = commands[i + 1]
    BY <1>8, FirstCommand
  <2> QED BY <1>8, <2>1, FirstCommand
<1>9. CASE Track!Listen
  <2>1. UNCHANGED <<cur, takes, deck, accum, output>>
    BY <1>9 DEF Track!Listen
  <2>2. \A i \in DOMAIN commands' : \E j \in DOMAIN commands : commands'[i] = commands[j]
    BY <1>8, <1>9 DEF Track!Listen
  <2> QED BY <1>7, <1>9, <2>1, <2>2, WayStays DEF Numbered, Playing
<1>10. CASE Track!TakeLoad
  <2>1. UNCHANGED <<cur, takes, accum, output>>
    BY <1>10 DEF Track!TakeLoad
  <2>2. \A i \in DOMAIN commands' : \E j \in DOMAIN commands : commands'[i] = commands[j]
    BY <1>8, <1>10 DEF Track!TakeLoad
  <2>3. deck'.track <= cur /\ deck'.take <= takes
    <3>1. commands[1].do = "load" /\ 1 \in DOMAIN commands /\ commands[1] = Head(commands)
      BY <1>10, FirstCommand DEF Track!TakeLoad
    <3> QED BY <1>10, <3>1 DEF Track!TakeLoad, Numbered
  <2> QED BY <1>7, <1>10, <2>1, <2>2, <2>3, WayStays DEF Numbered
<1>11. CASE Track!TakeStop
  <2>1. UNCHANGED <<cur, takes>> /\ accum' = Track!None
    BY <1>11 DEF Track!TakeStop
  <2>2. \A i \in DOMAIN commands' : \E j \in DOMAIN commands : commands'[i] = commands[j]
    BY <1>8, <1>11 DEF Track!TakeStop
  <2>3. deck' \in {deck, Track!Stopped}
        /\ (output' = Track!None
           \/ (accum # Track!None /\ output' = [chunk |-> accum, to |-> Track!None]))
    BY <1>8, <1>11 DEF Track!TakeStop
  <2> QED BY <1>7, <1>11, <2>1, <2>2, <2>3, WayStays DEF Numbered, Playing, Track!Stopped
<1>12. CASE DeckMoves
  <2>1. UNCHANGED <<cur, takes, accum, output, commands>>
    BY <1>12 DEF DeckMoves
  <2>2. Playing' => Playing /\ deck'.track = deck.track /\ deck'.take = deck.take
    BY <1>12 DEF DeckMoves, PlayerTypes, Decks, Playing
  <2> QED BY <1>7, <1>12, <2>1, <2>2, WayStays DEF Numbered
<1>13. CASE Track!Decode
  <2>1. UNCHANGED <<cur, takes, commands>>
    BY <1>13 DEF Track!Decode, Track!Polls
  <2>2. /\ Playing /\ deck' = [deck EXCEPT !.n = deck.n + 1]
        /\ output' = [chunk |-> Track!Chunk(deck.n + 1), to |-> Track!None]
        /\ accum' = Track!Chunk(deck.n + 2)
    BY <1>13 DEF Track!Decode, Playing
  <2>3. deck'.track = deck.track /\ deck'.take = deck.take
    BY <2>2 DEF PlayerTypes, Decks
  <2> QED BY <1>7, <1>13, <2>1, <2>2, <2>3, NextChunk, WayStays DEF Numbered
<1>14. CASE Track!LookUp
  <2>1. UNCHANGED <<cur, takes, commands, deck, accum>> /\ output # Track!None
    BY <1>14 DEF Track!LookUp
  <2>2. output'.chunk = output.chunk
    BY <1>14 DEF Track!LookUp, PlayerTypes, Outputs
  <2> QED BY <1>7, <1>14, <2>1, <2>2, WayStays DEF Numbered, Playing
<1>15. CASE Track!Deliver
  <2>1. \A i \in DOMAIN Track!Way' : Track!Way'[i].track <= cur /\ Track!Way'[i].take <= takes
    <3>1. CASE Track!Way' = Track!Way
      BY <3>1 DEF Numbered
    <3>2. CASE Track!Way' = Append(Track!Way, output.chunk)
      <4>1. output # Track!None /\ output.chunk \in Track!Chunks
        BY <1>15, Delivery
      <4>2. /\ DOMAIN Track!Way' = 1 .. Len(Track!Way) + 1
            /\ Track!Way'[Len(Track!Way) + 1] = output.chunk
            /\ \A i \in 1 .. Len(Track!Way) : Track!Way'[i] = Track!Way[i]
        BY <1>0, <3>2, <4>1, OneMore
      <4>3. \A i \in 1 .. Len(Track!Way) + 1 : i \in 1 .. Len(Track!Way)
            \/ i = Len(Track!Way) + 1
        BY <1>0
      <4> QED BY <1>0, <4>1, <4>2, <4>3 DEF Numbered
    <3> QED BY <1>15, <3>1, <3>2, Delivery
  <2>2. UNCHANGED <<cur, takes, commands>> /\ output' = Track!None
        /\ deck' \in {deck, Track!Stopped}
        /\ accum' \in {accum, Track!None}
    BY <1>15, Delivery
  <2> QED BY <2>1, <2>2 DEF Numbered, Playing, Track!Stopped
<1> QED BY <1>2, <1>4, <1>5, <1>6, <1>9, <1>10, <1>11, <1>12, <1>13, <1>14, <1>15, Steps

-----------------------------------------------------------------------------
(* The queue of commands. *)

\* A step that leaves it alone.
LEMMA CommandsSame ==
  ASSUME CommandsInv, UNCHANGED <<cur, listener, commands>>,
         Playing' /\ ~ flushing' => Playing /\ ~ flushing, flushing' => flushing, Here' => Here,
         pc' \in Going => pc \in Going, pc' = "acquire" => pc = "acquire" /\ written' = written,
         pc' \in {"ended", "acquire", "unbind", "close", "report"}
           => pc \in {"ended", "acquire", "unbind", "close", "report"}
  PROVE  CommandsInv'
<1>1. \A i, j : StopIn(i, j)' <=> StopIn(i, j)
  BY DEF StopIn
<1>2. \A j : Clear(j) => Clear(j)'
  BY <1>1 DEF Clear
<1>3. Stopping'
  BY <1>2 DEF CommandsInv, Stopping
<1>4. Halted'
  BY <1>2 DEF CommandsInv, Halted
<1>5. InTurn'
  BY DEF CommandsInv, InTurn, Owned, Listens
<1>6. Unstopped'
  BY <1>1 DEF CommandsInv, Unstopped, Listens
<1> QED BY <1>3, <1>4, <1>5, <1>6 DEF CommandsInv

\* The steps that leave it alone.
LEMMA CommandsSteps ==
  ASSUME CommandsInv, DeckInv, PlayerTypes, Binding,
         \/ Idle \/ Track!Drain \/ Track!Unbind \/ Track!Close \/ DeckMoves \/ Track!Decode
            \/ Track!LookUp \/ Track!Deliver
         \/ UNCHANGED Track!vars
  PROVE  CommandsInv'
<1>1. CASE Idle \/ UNCHANGED Track!vars
  <2>1. UNCHANGED <<cur, listener, commands, deck, flushing, receiver, written>>
    BY <1>1, IdleStays
       DEF SinkStays, Track!vars, Track!paceVars, Track!pipeVars, Track!playerVars
  <2>2. /\ pc' \in Going => pc \in Going
        /\ pc' = "acquire" => pc = "acquire"
        /\ pc' \in {"ended", "acquire", "unbind", "close", "report"}
             => pc \in {"ended", "acquire", "unbind", "close", "report"}
    BY <1>1, IdleStays DEF Track!vars, Going
  <2> QED BY <2>1, <2>2, CommandsSame DEF Playing, Here
<1>2. CASE Track!Drain \/ Track!Unbind \/ Track!Close
  <2>1. UNCHANGED <<cur, listener, commands, deck, flushing>>
        /\ (receiver' = receiver \/ receiver' = 0)
    BY <1>2 DEF Track!Drain, Track!Unbind, Track!Close, Track!ReceiverDrops, Track!playerVars
  <2>2. pc' = pc \/ (pc = "unbind" /\ pc' = "close") \/ (pc = "close" /\ pc' = "report")
    BY <1>2 DEF Track!Drain, Track!Unbind, Track!Close, Track!Go
  <2>3. pc' # "acquire"
    BY <1>2 DEF Track!Drain, Track!Unbind, Track!Close, Track!Go
  <2> QED BY <2>1, <2>2, <2>3, CommandsSame DEF Playing, Here, Going
<1>3. CASE DeckMoves
  BY <1>3, CommandsSame DEF DeckMoves, Playing, Here
<1>4. CASE Track!Decode \/ Track!LookUp
  <2>1. UNCHANGED <<cur, pc, listener, commands, flushing, receiver, written>>
    BY <1>4 DEF Track!Decode, Track!LookUp, Track!Polls, Track!pipeVars, Track!paceVars
  <2>2. Playing' => Playing
    BY <1>4 DEF Track!Decode, Track!LookUp, Playing
  <2> QED BY <2>1, <2>2, CommandsSame DEF Here
<1>5. CASE Track!Deliver
  <2>1. UNCHANGED <<cur, pc, listener, receiver, written, commands>> /\ flushing' = FALSE
        /\ IF flushing THEN deck' = Track!Stopped ELSE deck' = deck
    BY <1>5, Delivery
  <2>2. Playing' /\ ~ flushing' => Playing /\ ~ flushing
    BY <2>1 DEF Playing, Track!Stopped
  <2> QED BY <2>1, <2>2, CommandsSame DEF Here
<1> QED BY <1>1, <1>2, <1>3, <1>4, <1>5

\* A playback begins: nothing is its own yet.
LEMMA CommandsBegin ==
  ASSUME CommandsInv, PlayerTypes, Binding, Numbered, Track!Begin
  PROVE  CommandsInv'
<1>1. /\ cur' = cur + 1 /\ pc = "ended" /\ pc' = "acquire" /\ written' = <<>>
      /\ UNCHANGED <<listener, commands, deck, flushing, receiver>>
  BY DEF Track!Begin, Track!pipeVars, Track!playerVars
<1>2. \A i \in DOMAIN commands : commands[i].do # "stop" => commands[i].who # cur'
  <2>1. \A i \in DOMAIN commands : commands[i].do # "stop" => commands[i].who \in Nat
    BY PlayerAssumption DEF PlayerTypes, Commands
  <2> QED BY <1>1, <2>1, PlayerAssumption DEF Numbered, Binding
<1>3. listener # cur' /\ receiver' # cur'
  BY <1>1, PlayerAssumption DEF Binding, Going
<1>4. \A j : Clear(j)' <=> Clear(j)
  BY <1>1 DEF Clear, StopIn, Playing
<1>5. Stopping' /\ Halted'
  BY <1>1, <1>4 DEF CommandsInv, Stopping, Halted
<1>6. InTurn'
  BY <1>1, <1>2, <1>3 DEF InTurn, Owned, Here
<1>7. Unstopped'
  BY <1>1 DEF Unstopped, Going
<1> QED BY <1>5, <1>6, <1>7 DEF CommandsInv

\* One more command.
LEMMA Appended ==
  ASSUME PlayerTypes, NEW x \in Commands, commands' = Append(commands, x),
         UNCHANGED <<deck, flushing>>
  PROVE  /\ Len(commands) \in Nat /\ Len(commands') = Len(commands) + 1
         /\ DOMAIN commands = 1 .. Len(commands) /\ DOMAIN commands' = 1 .. Len(commands) + 1
         /\ commands'[Len(commands) + 1] = x
         /\ \A i \in 1 .. Len(commands) : commands'[i] = commands[i]
         /\ \A i \in Nat \ {0}, j \in 0 .. Len(commands) : StopIn(i, j)' <=> StopIn(i, j)
         /\ \A j \in 0 .. Len(commands) : Clear(j) => Clear(j)'
<1>1. /\ Len(commands) \in Nat /\ Len(commands') = Len(commands) + 1
      /\ DOMAIN commands = 1 .. Len(commands) /\ DOMAIN commands' = 1 .. Len(commands) + 1
      /\ commands'[Len(commands) + 1] = x
      /\ \A i \in 1 .. Len(commands) : commands'[i] = commands[i]
  BY OneMore DEF PlayerTypes
<1>2. \A i \in Nat \ {0}, j \in 0 .. Len(commands) : StopIn(i, j)' <=> StopIn(i, j)
  BY <1>1 DEF StopIn
<1>3. \A j \in 0 .. Len(commands) : Clear(j) => Clear(j)'
  <2> SUFFICES ASSUME NEW j \in 0 .. Len(commands), Clear(j) PROVE Clear(j)'
    OBVIOUS
  <2>1. Playing' /\ ~ flushing' => StopIn(1, j)'
    BY <1>1, <1>2 DEF Clear, Playing
  <2>2. \A i \in 1 .. j : commands'[i].do = "load" => StopIn(i + 1, j)'
    <3> SUFFICES ASSUME NEW i \in 1 .. j, commands'[i].do = "load" PROVE StopIn(i + 1, j)'
      OBVIOUS
    <3>1. StopIn(i + 1, j) /\ i + 1 \in Nat \ {0}
      BY <1>1 DEF Clear
    <3> QED BY <1>2, <3>1
  <2> QED BY <2>1, <2>2 DEF Clear
<1> QED BY <1>1, <1>2, <1>3

\* The binding: the new playback is listened for once the one before is stopped.
LEMMA CommandsAcquire ==
  ASSUME CommandsInv, PlayerTypes, Binding, Track!Acquire
  PROVE  CommandsInv'
<1> DEFINE x == [do |-> "listen", who |-> cur]
<1>1. /\ pc = "acquire" /\ pc' = "load" /\ cur > 0 /\ commands' = Append(commands, x)
      /\ UNCHANGED <<cur, listener, deck, flushing>>
  BY DEF Track!Acquire, Track!Go, Binding, Track!playerVars
<1>2. x \in Commands
  BY <1>1, PlayerAssumption DEF Commands, Binding
<1>0. PICK L \in Nat : L = Len(commands)
  BY DEF PlayerTypes
<1>3. /\ Len(commands') = L + 1 /\ L = Len(commands)
      /\ DOMAIN commands = 1 .. L /\ DOMAIN commands' = 1 .. L + 1
      /\ commands'[L + 1] = x
      /\ \A i \in 1 .. L : commands'[i] = commands[i]
      /\ \A j \in 0 .. L : Clear(j) => Clear(j)'
  BY <1>0, <1>1, <1>2, Appended
<1>4. Stopping'
  <2> SUFFICES ASSUME NEW i \in DOMAIN commands', commands'[i].do = "listen" PROVE Clear(i - 1)'
    BY DEF Stopping
  <2>1. Clear(i - 1)
    <3>1. CASE i \in DOMAIN commands
      BY <1>3, <3>1 DEF CommandsInv, Stopping
    <3>2. CASE i = L + 1
      <4>1. i - 1 = L
        BY <1>3, <3>2
      <4> QED BY <1>1, <1>3, <4>1 DEF CommandsInv, Halted
    <3> QED BY <1>3, <3>1, <3>2
  <2>2. i - 1 \in 0 .. L
    BY <1>3
  <2> QED BY <1>3, <2>1, <2>2
<1>5. Halted'
  BY <1>1 DEF Halted
<1>6. \A i \in DOMAIN commands' : Owned(i)' <=> i = L + 1
  BY <1>1, <1>3 DEF CommandsInv, InTurn, Owned
<1>7. Listens(L + 1)'
  BY <1>1, <1>3 DEF Listens
<1>8. InTurn'
  <2>1. \A i \in DOMAIN commands' : commands'[i].do # "stop" /\ commands'[i].who # cur =>
          listener' # cur /\ \A j \in 1 .. i : ~ Owned(j)'
    BY <1>1, <1>3, <1>6 DEF CommandsInv, InTurn
  <2>2. \A i \in DOMAIN commands' : commands'[i].do = "load" /\ commands'[i].who = cur => FALSE
    BY <1>1, <1>3, <1>6 DEF Owned
  <2> QED BY <1>1, <1>3, <1>7, <2>1, <2>2 DEF InTurn
<1>9. Unstopped'
  <2>1. listener # cur
    BY <1>1 DEF CommandsInv, InTurn
  <2>2. \A i \in DOMAIN commands' : Listens(i)' => i = L + 1
    BY <1>6 DEF Listens, Owned
  <2>3. ~ StopIn(L + 1, L + 1)'
    BY <1>3 DEF StopIn
  <2> QED BY <1>1, <1>3, <2>1, <2>2, <2>3 DEF Unstopped
<1> QED BY <1>4, <1>5, <1>8, <1>9 DEF CommandsInv

\* A load of the playback that listens.
LEMMA CommandsSendsLoad ==
  ASSUME CommandsInv, PlayerTypes, Binding, SendsLoad
  PROVE  CommandsInv'
<1> DEFINE x == [do |-> "load", who |-> cur, take |-> takes + 1]
<1>1. /\ pc \in Going /\ pc' \in Going /\ cur > 0 /\ commands' = Append(commands, x)
      /\ UNCHANGED <<cur, listener, receiver, deck, flushing, written>> /\ Here
  BY DEF SendsLoad, Sends, Binding, Going, Here
<1>2. x \in Commands
  BY <1>1, PlayerAssumption DEF Commands, Binding, PlayerTypes
<1>0. PICK L \in Nat : L = Len(commands)
  BY DEF PlayerTypes
<1>3. /\ Len(commands') = L + 1 /\ L = Len(commands)
      /\ DOMAIN commands = 1 .. L /\ DOMAIN commands' = 1 .. L + 1
      /\ commands'[L + 1] = x
      /\ \A i \in 1 .. L : commands'[i] = commands[i]
      /\ \A i \in Nat \ {0}, j \in 0 .. L : StopIn(i, j)' <=> StopIn(i, j)
      /\ \A j \in 0 .. L : Clear(j) => Clear(j)'
  BY <1>0, <1>1, <1>2, Appended
<1>4. Stopping'
  <2> SUFFICES ASSUME NEW i \in DOMAIN commands', commands'[i].do = "listen" PROVE Clear(i - 1)'
    BY DEF Stopping
  <2>1. i \in DOMAIN commands /\ i - 1 \in 0 .. L
    BY <1>3
  <2>2. Clear(i - 1)
    BY <1>3, <2>1 DEF CommandsInv, Stopping
  <2> QED BY <1>3, <2>1, <2>2
<1>5. Halted'
  BY <1>1 DEF Halted, Going
<1>6. \A i \in 1 .. L : (Owned(i)' <=> Owned(i)) /\ (Listens(i)' <=> Listens(i))
  BY <1>1, <1>3 DEF Owned, Listens
<1>7. ~ Listens(L + 1)'
  BY <1>3 DEF Listens
<1>8. InTurn'
  <2>1. \A i \in DOMAIN commands' : commands'[i].do # "stop" /\ commands'[i].who # cur =>
          listener' # cur /\ \A j \in 1 .. i : ~ Owned(j)'
    <3> SUFFICES ASSUME NEW i \in DOMAIN commands', commands'[i].do # "stop",
                        commands'[i].who # cur
                 PROVE  listener' # cur /\ \A j \in 1 .. i : ~ Owned(j)'
      OBVIOUS
    <3>1. i \in DOMAIN commands /\ commands'[i] = commands[i]
      BY <1>3
    <3>2. listener # cur /\ \A j \in 1 .. i : ~ Owned(j)
      BY <3>1 DEF CommandsInv, InTurn
    <3> QED BY <1>1, <1>3, <1>6, <3>1, <3>2
  <2>2. listener = cur \/ \E j \in 1 .. L : Listens(j)
    BY <1>1, <1>3 DEF CommandsInv, InTurn
  <2>3. \A i \in DOMAIN commands' : commands'[i].do = "load" /\ commands'[i].who = cur =>
          listener' = cur \/ \E j \in 1 .. i : Listens(j)'
    <3> SUFFICES ASSUME NEW i \in DOMAIN commands', commands'[i].do = "load",
                        commands'[i].who = cur
                 PROVE  listener' = cur \/ \E j \in 1 .. i : Listens(j)'
      OBVIOUS
    <3>1. CASE i \in DOMAIN commands
      <4>1. listener = cur \/ \E j \in 1 .. i : Listens(j)
        BY <1>3, <3>1 DEF CommandsInv, InTurn
      <4> QED BY <1>1, <1>3, <1>6, <3>1, <4>1
    <3>2. CASE i = L + 1
      BY <1>1, <1>3, <1>6, <2>2, <3>2
    <3> QED BY <1>3, <3>1, <3>2
  <2>4. listener' = cur' \/ \E j \in DOMAIN commands' : Listens(j)'
    BY <1>1, <1>3, <1>6, <2>2
  <2>5. pc' # "acquire"
    BY <1>1 DEF Going
  <2> QED BY <1>1, <2>1, <2>3, <2>4, <2>5 DEF InTurn
<1>9. Unstopped'
  <2>1. \A i \in Nat \ {0} : i <= L /\ ~ StopIn(i, L)
                               => ~ StopIn(i, L + 1)'
    BY <1>3 DEF StopIn
  <2>2. listener = cur => ~ flushing /\ ~ StopIn(1, L + 1)'
    <3>1. CASE L = 0
      BY <1>1, <1>3, <3>1 DEF CommandsInv, Unstopped, StopIn
    <3>2. CASE L > 0
      BY <1>1, <1>3, <2>1, <3>2 DEF CommandsInv, Unstopped
    <3> QED BY <1>3, <3>1, <3>2
  <2>3. \A i \in DOMAIN commands' : Listens(i)' => ~ StopIn(i, L + 1)'
    BY <1>1, <1>3, <1>6, <1>7, <2>1 DEF CommandsInv, Unstopped
  <2> QED BY <1>1, <1>3, <2>2, <2>3 DEF Unstopped
<1> QED BY <1>4, <1>5, <1>8, <1>9 DEF CommandsInv

\* The source stops, and leaves the Player nothing to play.
LEMMA CommandsSendsStop ==
  ASSUME CommandsInv, PlayerTypes, Binding, SendsStop
  PROVE  CommandsInv'
<1> DEFINE x == [do |-> "stop"]
<1>1. /\ pc' \in {"drop", "unbind"} /\ cur > 0 /\ commands' = Append(commands, x)
      /\ UNCHANGED <<cur, listener, receiver, deck, flushing, written>> /\ Here
  BY DEF SendsStop, Sends, Binding, Going, Here
<1>2. x \in Commands
  BY DEF Commands
<1>0. PICK L \in Nat : L = Len(commands)
  BY DEF PlayerTypes
<1>3. /\ Len(commands') = L + 1 /\ L = Len(commands)
      /\ DOMAIN commands = 1 .. L /\ DOMAIN commands' = 1 .. L + 1
      /\ commands'[L + 1] = x
      /\ \A i \in 1 .. L : commands'[i] = commands[i]
      /\ \A j \in 0 .. L : Clear(j) => Clear(j)'
  BY <1>0, <1>1, <1>2, Appended
<1>4. Stopping'
  <2> SUFFICES ASSUME NEW i \in DOMAIN commands', commands'[i].do = "listen" PROVE Clear(i - 1)'
    BY DEF Stopping
  <2>1. i \in DOMAIN commands /\ i - 1 \in 0 .. L
    BY <1>3
  <2>2. Clear(i - 1)
    BY <1>3, <2>1 DEF CommandsInv, Stopping
  <2> QED BY <1>3, <2>1, <2>2
<1>5. Halted'
  <2>1. \A i \in 1 .. L + 1 : StopIn(i, L + 1)'
    BY <1>3 DEF StopIn
  <2>2. \A i \in 1 .. Len(commands') : commands'[i].do = "load" => i \in 1 .. L
    BY <1>3
  <2>3. Clear(L + 1)'
    BY <1>3, <2>1, <2>2 DEF Clear
  <2> QED BY <1>3, <2>3 DEF Halted
<1>6. \A i \in 1 .. L : (Owned(i)' <=> Owned(i)) /\ (Listens(i)' <=> Listens(i))
  BY <1>1, <1>3 DEF Owned, Listens
<1>8. InTurn'
  <2>1. \A i \in DOMAIN commands' : commands'[i].do # "stop" /\ commands'[i].who # cur =>
          listener' # cur /\ \A j \in 1 .. i : ~ Owned(j)'
    <3> SUFFICES ASSUME NEW i \in DOMAIN commands', commands'[i].do # "stop",
                        commands'[i].who # cur
                 PROVE  listener' # cur /\ \A j \in 1 .. i : ~ Owned(j)'
      OBVIOUS
    <3>1. i \in DOMAIN commands /\ commands'[i] = commands[i]
      BY <1>3
    <3>2. listener # cur /\ \A j \in 1 .. i : ~ Owned(j)
      BY <3>1 DEF CommandsInv, InTurn
    <3> QED BY <1>1, <1>3, <1>6, <3>1, <3>2
  <2>2. listener = cur \/ \E j \in 1 .. L : Listens(j)
    BY <1>1, <1>3 DEF CommandsInv, InTurn
  <2>3. \A i \in DOMAIN commands' : commands'[i].do = "load" /\ commands'[i].who = cur =>
          listener' = cur \/ \E j \in 1 .. i : Listens(j)'
    <3> SUFFICES ASSUME NEW i \in DOMAIN commands', commands'[i].do = "load",
                        commands'[i].who = cur
                 PROVE  listener' = cur \/ \E j \in 1 .. i : Listens(j)'
      OBVIOUS
    <3>1. i \in DOMAIN commands /\ commands'[i] = commands[i]
      BY <1>3
    <3>2. listener = cur \/ \E j \in 1 .. i : Listens(j)
      BY <3>1 DEF CommandsInv, InTurn
    <3> QED BY <1>1, <1>3, <1>6, <3>1, <3>2
  <2>4. listener' = cur' \/ \E j \in DOMAIN commands' : Listens(j)'
    BY <1>1, <1>3, <1>6, <2>2
  <2> QED BY <1>1, <2>1, <2>3, <2>4 DEF InTurn
<1>9. Unstopped'
  BY <1>1 DEF Unstopped, Going
<1> QED BY <1>4, <1>5, <1>8, <1>9 DEF CommandsInv

\* The Player takes the first command.
LEMMA CommandsTaken ==
  ASSUME CommandsInv, PlayerTypes, NEW do, Track!Commanded(do),
         UNCHANGED <<cur, pc, receiver, written>>,
         Playing' /\ ~ flushing' => do = "load",
         listener' = IF do = "listen" THEN commands[1].who ELSE listener,
         do # "stop" => ~ flushing'
  PROVE  CommandsInv'
<1>0. PICK L \in Nat : Len(commands) = L + 1
  <2>1. Len(commands) \in Nat \ {0}
    BY FirstCommand
  <2>2. Len(commands) - 1 \in Nat
    BY <2>1
  <2> QED BY <2>1, <2>2
<1>1. /\ Len(commands) = L + 1 /\ commands[1].do = do
      /\ Len(commands') = L /\ DOMAIN commands = 1 .. L + 1
      /\ DOMAIN commands' = 1 .. L
      /\ \A i \in 1 .. L : i + 1 \in DOMAIN commands /\ commands'[i] = commands[i + 1]
      /\ \A i \in DOMAIN commands : commands[i].do \in {"listen", "load", "stop"}
  BY <1>0, FirstCommand DEF PlayerTypes, Commands
<1>2. \A i \in Nat \ {0}, j \in 0 .. L : StopIn(i, j)' <=> StopIn(i + 1, j + 1)
  <2> SUFFICES ASSUME NEW i \in Nat \ {0}, NEW j \in 0 .. L
               PROVE  StopIn(i, j)' <=> StopIn(i + 1, j + 1)
    OBVIOUS
  <2>1. StopIn(i, j)' => StopIn(i + 1, j + 1)
    <3> SUFFICES ASSUME NEW k \in i .. j, commands'[k].do = "stop" PROVE StopIn(i + 1, j + 1)
      BY DEF StopIn
    <3>1. k + 1 \in i + 1 .. j + 1 /\ commands[k + 1].do = "stop"
      BY <1>1
    <3> QED BY <3>1 DEF StopIn
  <2>2. StopIn(i + 1, j + 1) => StopIn(i, j)'
    <3> SUFFICES ASSUME NEW k \in i + 1 .. j + 1, commands[k].do = "stop" PROVE StopIn(i, j)'
      BY DEF StopIn
    <3>1. k - 1 \in i .. j /\ k - 1 \in 1 .. L /\ (k - 1) + 1 = k
      BY <1>1
    <3>2. commands'[k - 1] = commands[k]
      BY <1>1, <3>1
    <3> QED BY <3>1, <3>2 DEF StopIn
  <2> QED BY <2>1, <2>2
<1>3. \A j \in 0 .. L : Clear(j + 1) => Clear(j)'
  <2> SUFFICES ASSUME NEW j \in 0 .. L, Clear(j + 1) PROVE Clear(j)'
    OBVIOUS
  <2>1. \A i \in 1 .. j : commands'[i].do = "load" => StopIn(i + 1, j)'
    <3> SUFFICES ASSUME NEW i \in 1 .. j, commands'[i].do = "load" PROVE StopIn(i + 1, j)'
      OBVIOUS
    <3>1. i + 1 \in 1 .. j + 1 /\ commands[i + 1].do = "load" /\ i + 1 \in Nat \ {0}
      BY <1>1
    <3>2. StopIn((i + 1) + 1, j + 1)
      BY <3>1 DEF Clear
    <3> QED BY <1>2, <3>1, <3>2
  <2>2. do = "load" => StopIn(1, j)'
    <3> SUFFICES ASSUME do = "load" PROVE StopIn(1, j)'
      OBVIOUS
    <3>1. StopIn(1 + 1, j + 1)
      BY <1>1 DEF Clear
    <3> QED BY <1>2, <3>1
  <2> QED BY <2>1, <2>2 DEF Clear
<1>4. Stopping'
  <2> SUFFICES ASSUME NEW i \in DOMAIN commands', commands'[i].do = "listen" PROVE Clear(i - 1)'
    BY DEF Stopping
  <2>1. i + 1 \in DOMAIN commands /\ commands[i + 1].do = "listen"
    BY <1>1
  <2>2. (i + 1) - 1 = (i - 1) + 1 /\ i - 1 \in 0 .. L
    BY <1>1
  <2>3. Clear((i - 1) + 1)
    BY <2>1, <2>2 DEF CommandsInv, Stopping
  <2> QED BY <1>3, <2>2, <2>3
<1>5. Halted'
  <2> SUFFICES ASSUME pc \in {"ended", "acquire", "unbind", "close", "report"}
               PROVE  Clear(L)'
    BY <1>1 DEF Halted
  <2>1. Clear(L + 1) /\ L + 1 = (L) + 1
        /\ L \in 0 .. L
    BY <1>1 DEF CommandsInv, Halted
  <2> QED BY <1>1, <1>3, <2>1
<1>6. \A i \in 1 .. L :
        (Owned(i)' <=> Owned(i + 1)) /\ (Listens(i)' <=> Listens(i + 1))
  BY <1>1 DEF Owned, Listens
<1>8. InTurn'
  <2>1. \A i \in DOMAIN commands' : commands'[i].do # "stop" /\ commands'[i].who # cur =>
          listener' # cur /\ \A j \in 1 .. i : ~ Owned(j)'
    <3> SUFFICES ASSUME NEW i \in DOMAIN commands', commands'[i].do # "stop",
                        commands'[i].who # cur
                 PROVE  listener' # cur /\ \A j \in 1 .. i : ~ Owned(j)'
      OBVIOUS
    <3>1. i + 1 \in DOMAIN commands /\ commands'[i] = commands[i + 1]
      BY <1>1
    <3>2. listener # cur /\ \A j \in 1 .. i + 1 : ~ Owned(j)
      BY <3>1 DEF CommandsInv, InTurn
    <3>3. listener' # cur
      BY <1>1, <3>2 DEF Owned
    <3>4. \A j \in 1 .. i : ~ Owned(j)'
      BY <1>1, <1>6, <3>2
    <3> QED BY <3>3, <3>4
  <2>3. ASSUME NEW i \in DOMAIN commands, NEW j \in 1 .. i, Listens(j)
        PROVE  listener' = cur \/ \E k \in 1 .. i - 1 : Listens(k)'
    <3>1. CASE j = 1
      BY <1>1, <2>3, <3>1 DEF Listens
    <3>2. CASE j > 1
      <4>1. j - 1 \in 1 .. L /\ (j - 1) + 1 = j /\ j - 1 \in 1 .. i - 1
        BY <1>1, <3>2
      <4>2. Listens(j - 1)'
        BY <1>6, <2>3, <4>1
      <4> QED BY <4>1, <4>2
    <3> QED BY <1>1, <3>1, <3>2
  <2>4. listener = cur => listener' = cur
    BY <1>1 DEF CommandsInv, InTurn
  <2>5. \A i \in DOMAIN commands' : commands'[i].do = "load" /\ commands'[i].who = cur =>
          listener' = cur \/ \E j \in 1 .. i : Listens(j)'
    <3> SUFFICES ASSUME NEW i \in DOMAIN commands', commands'[i].do = "load",
                        commands'[i].who = cur
                 PROVE  listener' = cur \/ \E j \in 1 .. i : Listens(j)'
      OBVIOUS
    <3>1. i + 1 \in DOMAIN commands /\ commands'[i] = commands[i + 1] /\ (i + 1) - 1 = i
      BY <1>1
    <3>2. listener = cur \/ \E j \in 1 .. i + 1 : Listens(j)
      BY <3>1 DEF CommandsInv, InTurn
    <3> QED BY <2>3, <2>4, <3>1, <3>2
  <2>6. Here => listener' = cur \/ \E i \in DOMAIN commands' : Listens(i)'
    <3> SUFFICES ASSUME Here PROVE listener' = cur \/ \E i \in DOMAIN commands' : Listens(i)'
      OBVIOUS
    <3>1. listener = cur \/ \E i \in DOMAIN commands : Listens(i)
      BY DEF CommandsInv, InTurn
    <3>2. ASSUME NEW i \in DOMAIN commands, Listens(i)
          PROVE  listener' = cur \/ \E k \in 1 .. i - 1 : Listens(k)'
      BY <1>1, <2>3, <3>2
    <3>3. \A i \in DOMAIN commands : \A k \in 1 .. i - 1 : k \in DOMAIN commands'
      BY <1>1
    <3> QED BY <2>4, <3>1, <3>2, <3>3
  <2>7. pc = "acquire" => listener' # cur /\ written = <<>>
        /\ \A i \in DOMAIN commands' : ~ Owned(i)'
    <3> SUFFICES ASSUME pc = "acquire"
                 PROVE  listener' # cur /\ written = <<>>
                        /\ \A i \in DOMAIN commands' : ~ Owned(i)'
      OBVIOUS
    <3>1. listener # cur /\ written = <<>> /\ \A i \in DOMAIN commands : ~ Owned(i)
      BY DEF CommandsInv, InTurn
    <3>2. listener' # cur
      <4>1. ~ Owned(1)
        BY <1>1, <3>1
      <4> QED BY <1>1, <3>1, <4>1 DEF Owned
    <3>3. \A i \in DOMAIN commands' : ~ Owned(i)'
      BY <1>1, <1>6, <3>1
    <3> QED BY <3>1, <3>2, <3>3
  <2> QED BY <2>1, <2>5, <2>6, <2>7 DEF InTurn, Here
<1>9. Unstopped'
  <2> SUFFICES ASSUME pc \in Going
               PROVE  /\ listener' = cur => ~ flushing' /\ ~ StopIn(1, L)'
                      /\ \A i \in DOMAIN commands' : Listens(i)' => ~ StopIn(i, L)'
    BY <1>1 DEF Unstopped
  <2>1. \A i \in DOMAIN commands' : Listens(i)' => ~ StopIn(i, L)'
    <3> SUFFICES ASSUME NEW i \in DOMAIN commands', Listens(i)' PROVE ~ StopIn(i, L)'
      OBVIOUS
    <3>1. Listens(i + 1) /\ i + 1 \in DOMAIN commands
      BY <1>1, <1>6
    <3>2. ~ StopIn(i + 1, L + 1)
      BY <1>1, <3>1 DEF CommandsInv, Unstopped
    <3>3. L + 1 = (L) + 1 /\ L \in 0 .. L
          /\ i \in Nat \ {0}
      BY <1>1
    <3> QED BY <1>1, <1>2, <3>2, <3>3
  <2>2. ASSUME listener' = cur PROVE ~ flushing' /\ ~ StopIn(1, L)'
    <3>1. ~ StopIn(1, L + 1)
      <4>1. CASE do = "listen"
        BY <1>1, <2>2, <4>1 DEF CommandsInv, Unstopped, Listens
      <4>2. CASE do # "listen"
        BY <1>1, <2>2, <4>2 DEF CommandsInv, Unstopped
      <4> QED BY <4>1, <4>2
    <3>2. do # "stop"
      BY <1>1, <3>1 DEF StopIn
    <3>3. ~ StopIn(1 + 1, (L) + 1)
      BY <1>1, <3>1 DEF StopIn
    <3> QED BY <1>1, <1>2, <3>2, <3>3
  <2> QED BY <2>1, <2>2
<1> QED BY <1>4, <1>5, <1>8, <1>9 DEF CommandsInv

\* Whoever is listened for next finds the deck stopped.
LEMMA ListenFindsIdle ==
  ASSUME CommandsInv, PlayerTypes, DeckInv, Track!Listen
  PROVE  ~ Playing /\ ~ flushing /\ accum = Track!None /\ output = Track!None
<1>1. output = Track!None /\ 1 \in DOMAIN commands /\ commands[1].do = "listen"
  BY FirstCommand DEF Track!Listen
<1>2. Clear(0)
  <2>1. Clear(1 - 1)
    BY <1>1 DEF CommandsInv, Stopping
  <2> QED BY <2>1
<1>3. ~ flushing
  BY <1>1 DEF DeckInv
<1>4. ~ Playing
  BY <1>2, <1>3 DEF Clear, StopIn
<1> QED BY <1>1, <1>3, <1>4 DEF DeckInv

\* The queue.
LEMMA CommandsStep ==
  ASSUME CommandsInv, DeckInv, PlayerTypes, Binding, Numbered, [Track!Next]_(Track!vars)
  PROVE  CommandsInv'
<1>1. CASE Track!Listen
  <2>1. ~ Playing' /\ ~ flushing'
    BY <1>1, ListenFindsIdle DEF Track!Listen, Playing
  <2>2. /\ Track!Commanded("listen") /\ commands[1] = Head(commands)
        /\ UNCHANGED <<cur, pc, receiver, written>> /\ listener' = Head(commands).who
    BY <1>1, FirstCommand DEF Track!Listen, Track!pipeVars, Track!paceVars
  <2> QED BY <2>1, <2>2, CommandsTaken
<1>2. CASE Track!TakeLoad
  <2>1. /\ Track!Commanded("load")
        /\ UNCHANGED <<cur, pc, receiver, written, listener, flushing>>
    BY <1>2 DEF Track!TakeLoad, Track!pipeVars, Track!paceVars
  <2>2. ~ flushing
    BY <2>1, FirstCommand DEF DeckInv
  <2> QED BY <2>1, <2>2, CommandsTaken
<1>3. CASE Track!TakeStop
  <2>1. /\ Track!Commanded("stop") /\ UNCHANGED <<cur, pc, receiver, written, listener>>
        /\ flushing' \/ deck' = Track!Stopped
    BY <1>3 DEF Track!TakeStop, Track!pipeVars, Track!paceVars
  <2>2. ~ (Playing' /\ ~ flushing')
    BY <2>1 DEF Playing, Track!Stopped
  <2> QED BY <2>1, <2>2, CommandsTaken
<1> QED BY <1>1, <1>2, <1>3, CommandsSteps, CommandsBegin, CommandsAcquire, CommandsSendsLoad,
           CommandsSendsStop, Steps

-----------------------------------------------------------------------------
(* What is played, what is on the way, and whose it is. *)

\* The steps of the source once it is bound.
SourceMoves == Idle \/ SendsLoad \/ SendsStop \/ Track!Drain \/ Track!Unbind \/ Track!Close
               \/ UNCHANGED Track!vars
\* They leave the Player alone, and take nothing from what is on the way but at the end.
LEMMA SourceStays ==
  ASSUME PlayerTypes, Binding, SourceMoves
  PROVE  /\ UNCHANGED <<cur, listener, deck, accum, output, flushing>> /\ Shrinks
         /\ Here' => Here /\ Track!Way' = Track!Way
         /\ Reached' => Reached /\ (Coming' <=> Coming)
         /\ Coming' => Coming /\ Here'
<1>1. UNCHANGED <<cur, listener, deck, accum, output, flushing>>
  BY IdleStays
     DEF SourceMoves, SinkStays, SendsLoad, SendsStop, Sends, Track!Drain, Track!Unbind,
         Track!Close, Track!vars, Track!playerVars
<1>2. Shrinks
  BY WayShrinks DEF SourceMoves
<1>3. CASE Track!Close
  <2>1. ~ Here'
    BY <1>3 DEF Track!Close, Track!ReceiverDrops, Here
  <2> QED BY <1>1, <1>2, <2>1 DEF Reached, Coming, Here
<1>4. CASE ~ Track!Close
  <2>1. Track!Way' = Track!Way
    BY <1>4, WayStays DEF SourceMoves
  <2>2. receiver' = receiver /\ (bound' = bound \/ bound' = 0)
    BY <1>4, IdleStays
       DEF SourceMoves, SinkStays, SendsLoad, SendsStop, Sends, Track!Drain, Track!Unbind,
           Track!vars, Track!pipeVars
  <2> QED BY <1>1, <1>2, <2>1, <2>2 DEF Reached, Coming, Here
<1> QED BY <1>3, <1>4

\* Every step is one of the source's, a beginning, a binding or the Player's.
LEMMA PlayerSteps ==
  ASSUME [Track!Next]_(Track!vars)
  PROVE  SourceMoves \/ Track!Begin \/ Track!Acquire \/ Track!Listen \/ Track!TakeLoad
         \/ DeckMoves \/ Track!Decode \/ Track!TakeStop
         \/ Track!LookUp \/ Track!Deliver
BY Steps DEF SourceMoves

\* The deck goes on with what it plays.
LEMMA DeckGoesOn ==
  ASSUME PlayerTypes, DeckMoves
  PROVE  /\ UNCHANGED <<cur, pc, listener, receiver, bound, written, channel, commands, accum,
                        output, flushing, takes>>
         /\ UNCHANGED <<deck.track, deck.take, deck.n>> /\ (Playing' => Playing)
         /\ Track!Way' = Track!Way
BY DEF DeckMoves, PlayerTypes, Decks, Playing, Track!Way

\* What a decoding leaves in the sink.
LEMMA Decoding ==
  ASSUME PlayerTypes, DeckInv, Track!Decode
  PROVE  /\ UNCHANGED <<cur, pc, listener, receiver, bound, flushing>> /\ Track!Way' = Track!Way
         /\ Playing /\ ~ flushing /\ output = Track!None /\ commands = <<>> /\ deck.n \in Nat
         /\ UNCHANGED <<deck.track, deck.take>> /\ deck'.n = deck.n + 1
         /\ output' # Track!None /\ output'.to = Track!None
         /\ output'.chunk = Track!Chunk(deck.n + 1) /\ accum' = Track!Chunk(deck.n + 2)
<1>1. /\ UNCHANGED <<cur, pc, listener, receiver, bound, written, channel, flushing>>
      /\ Playing /\ output = Track!None /\ commands = <<>>
      /\ output' = [chunk |-> Track!Chunk(deck.n + 1), to |-> Track!None]
      /\ accum' = Track!Chunk(deck.n + 2)
      /\ deck' = [deck EXCEPT !.n = deck.n + 1]
  BY DEF Track!Decode, Track!Polls, Track!pipeVars, Track!paceVars, Playing
<1>2. deck.n \in Nat /\ deck' = [deck EXCEPT !.n = deck.n + 1]
      /\ UNCHANGED <<deck.track, deck.take>> /\ deck'.n = deck.n + 1
  BY <1>1 DEF PlayerTypes, Decks
<1>3. [chunk |-> Track!Chunk(deck.n + 1), to |-> Track!None] # Track!None
  <2> DEFINE r == [chunk |-> Track!Chunk(deck.n + 1), to |-> Track!None]
  <2>1. "chunk" \in DOMAIN r
    OBVIOUS
  <2>2. DOMAIN Track!None = {}
    BY DEF Track!None
  <2> QED BY <2>1, <2>2
<1> QED BY <1>1, <1>2, <1>3 DEF DeckInv, Track!Way

\* A stop flushes the partial chunk, or stops the deck.
LEMMA StopTaken ==
  ASSUME PlayerTypes, DeckInv, Track!TakeStop
  PROVE  /\ UNCHANGED <<cur, pc, listener, receiver, bound, takes>> /\ Track!Way' = Track!Way
         /\ output = Track!None /\ accum' = Track!None /\ ~ flushing
         /\ \/ /\ accum # Track!None /\ output' # Track!None /\ output'.chunk = accum
               /\ output'.to = Track!None
               /\ flushing' /\ deck' = deck
            \/ deck' = Track!Stopped /\ output' = Track!None /\ ~ flushing'
<1>1. /\ UNCHANGED <<cur, pc, listener, receiver, bound, takes, written, channel>>
      /\ output = Track!None /\ accum' = Track!None
      /\ \/ accum # Track!None /\ output' = [chunk |-> accum, to |-> Track!None]
            /\ flushing' = TRUE /\ deck' = deck
         \/ deck' = Track!Stopped /\ UNCHANGED <<output, flushing>>
  BY FirstCommand DEF Track!TakeStop, Track!pipeVars, Track!paceVars
<1>2. accum # Track!None => [chunk |-> accum, to |-> Track!None] # Track!None
  BY NotNone DEF PlayerTypes, Outputs
<1> QED BY <1>1, <1>2 DEF DeckInv, Track!Way

\* The look-up decides where the chunk goes: where it would have gone.
LEMMA LookedUp ==
  ASSUME PlayerTypes, Binding, Track!LookUp
  PROVE  /\ UNCHANGED <<cur, pc, listener, receiver, bound, deck, accum, flushing, commands,
            takes>>
         /\ Track!Way' = Track!Way /\ output # Track!None /\ output' # Track!None
         /\ output'.chunk = output.chunk
         /\ Coming' <=> Coming
<1>1. /\ UNCHANGED <<cur, pc, listener, receiver, bound, deck, accum, flushing, commands, takes,
                     written, channel>>
      /\ output # Track!None /\ output.to = Track!None
      /\ output' = [output EXCEPT !.to = <<bound>>]
  BY DEF Track!LookUp, Track!pipeVars, Track!paceVars
<1>2. output \in Outputs /\ bound \in 0 .. Playbacks
  BY <1>1, PlayerAssumption DEF PlayerTypes, Binding
<1>5. output'.chunk = output.chunk /\ output'.to = <<bound>> /\ output' \in Outputs
  BY <1>1, <1>2 DEF Outputs
<1>3. output' # Track!None /\ <<bound>> # Track!None /\ <<cur>> # Track!None
  BY <1>5, <1>2, NotNone, PlayerAssumption DEF Binding
<1>4. <<bound>> = <<cur>> <=> bound = cur
  OBVIOUS
<1> QED BY <1>1, <1>3, <1>4, <1>5 DEF Track!Way, Coming, Here

\* Whose it is.
LEMMA SubscribedStep ==
  ASSUME PlayerTypes, Binding, DeckInv, Numbered, CommandsInv, Subscribed,
         [Track!Next]_(Track!vars)
  PROVE  Subscribed'
<1>0. /\ Track!Way \in Seq(Track!Chunks) /\ Len(Track!Way) \in Nat
      /\ DOMAIN Track!Way = 1 .. Len(Track!Way)
      /\ cur \in Nat /\ listener \in Nat
  BY WayTypes, PlayerAssumption DEF Binding
<1>1. CASE SourceMoves
  <2>1. UNCHANGED <<cur, listener, deck, accum, output>> /\ Shrinks
    BY <1>1, SourceStays
  <2>2. Track!Way' \in Seq(Track!Chunks) /\ DOMAIN Track!Way' = 1 .. Len(Track!Way')
        /\ Len(Track!Way') \in Nat
    <3>1. PlayerTypes'
      BY TypesStep
    <3>2. Track!Way' \in Seq(Track!Chunks)
      BY <3>1 DEF PlayerTypes, Track!Way
    <3> QED BY <3>2
  <2>3. listener # cur => \A i \in DOMAIN Track!Way' : Track!Way'[i].track # cur
    BY <1>0, <2>1, <2>2 DEF Subscribed, Shrinks
  <2> QED BY <2>1, <2>3 DEF Subscribed, Playing
<1>2. CASE Track!Begin
  <2>1. cur' = cur + 1 /\ UNCHANGED <<listener, deck, accum, output>> /\ Track!Way' = <<>>
    BY <1>2, WayOfAcquire DEF Track!Begin, Track!playerVars, CommandsInv
  <2>2. listener # cur'
    BY <1>0, <2>1, PlayerAssumption DEF Binding
  <2>3. /\ deck.track \in Nat
        /\ output # Track!None => output.chunk.track \in Nat
        /\ accum # Track!None => accum.track \in Nat
    BY DEF PlayerTypes, Decks, Outputs, Track!Chunks
  <2>4. /\ Playing => deck.track # cur'
        /\ output # Track!None => output.chunk.track # cur'
        /\ accum # Track!None => accum.track # cur'
    BY <1>0, <2>1, <2>3 DEF Numbered
  <2> QED BY <2>1, <2>2, <2>4 DEF Subscribed, Playing
<1>3. CASE Track!Acquire
  <2>1. UNCHANGED <<cur, listener, deck, accum, output>> /\ Track!Way' = <<>>
    BY <1>3, WayOfAcquire DEF Track!Acquire, Track!playerVars, CommandsInv
  <2> QED BY <2>1 DEF Subscribed, Playing
<1>4. CASE Track!Listen
  <2>1. ~ Playing /\ accum = Track!None /\ output = Track!None
        /\ UNCHANGED <<cur, deck, accum, output>>
        /\ Track!Way' = Track!Way
    BY <1>4, ListenFindsIdle, WayStays DEF Track!Listen
  <2>2. listener = cur => listener' = cur
    <3>1. commands[1].do = "listen" /\ 1 \in DOMAIN commands /\ listener' = commands[1].who
      BY <1>4, FirstCommand DEF Track!Listen
    <3> QED BY <3>1 DEF CommandsInv, InTurn
  <2> QED BY <2>1, <2>2 DEF Subscribed, Playing
<1>5. CASE Track!TakeLoad
  <2>1. /\ UNCHANGED <<cur, listener, accum, output>> /\ Track!Way' = Track!Way
        /\ deck' = [state |-> "loading", track |-> Head(commands).who,
           take |-> Head(commands).take,
                    n |-> 0]
    BY <1>5, WayStays DEF Track!TakeLoad
  <2>2. commands[1].do = "load" /\ 1 \in DOMAIN commands /\ commands[1] = Head(commands)
        /\ Len(commands) \in Nat
    BY <1>5, FirstCommand DEF Track!TakeLoad
  <2>3. commands[1].who = cur <=> listener = cur
    BY <2>2 DEF CommandsInv, InTurn, Listens
  <2>4. deck'.track = commands[1].who
    BY <2>1, <2>2
  <2> QED BY <2>1, <2>3, <2>4 DEF Subscribed
<1>6. CASE DeckMoves
  BY <1>6, DeckGoesOn DEF Subscribed
<1>7. CASE Track!Decode
  <2>1. Track!Chunk(deck.n + 1).track = deck.track /\ Track!Chunk(deck.n + 2).track = deck.track
    BY DEF Track!Chunk
  <2> QED BY <1>7, <2>1, Decoding DEF Subscribed
<1>8. CASE Track!TakeStop
  <2>1. deck' \in {deck, Track!Stopped}
    BY <1>8, StopTaken
  <2>2. Playing' => Playing /\ deck' = deck
    BY <2>1 DEF Playing, Track!Stopped
  <2> QED BY <1>8, <2>2, StopTaken DEF Subscribed
<1>9. CASE Track!LookUp
  BY <1>9, LookedUp DEF Subscribed, Playing
<1>10. CASE Track!Deliver
  <2>1. /\ UNCHANGED <<cur, listener>> /\ output' = Track!None /\ output # Track!None
        /\ output.chunk \in Track!Chunks
        /\ accum' \in {accum, Track!None}
        /\ deck' \in {deck, Track!Stopped}
        /\ (Track!Way' = Track!Way \/ Track!Way' = Append(Track!Way, output.chunk))
    BY <1>10, Delivery
  <2>2. Playing' => Playing /\ deck' = deck
    BY <2>1 DEF Playing, Track!Stopped
  <2>3. listener # cur => \A i \in DOMAIN Track!Way' : Track!Way'[i].track # cur
    <3>1. CASE Track!Way' = Track!Way
      BY <3>1 DEF Subscribed
    <3>2. CASE Track!Way' = Append(Track!Way, output.chunk)
      <4>1. /\ DOMAIN Track!Way' = 1 .. Len(Track!Way) + 1
            /\ Track!Way'[Len(Track!Way) + 1] = output.chunk
            /\ \A i \in 1 .. Len(Track!Way) : Track!Way'[i] = Track!Way[i]
        BY <1>0, <2>1, <3>2, OneMore
      <4>2. \A i \in 1 .. Len(Track!Way) + 1 : i \in 1 .. Len(Track!Way)
            \/ i = Len(Track!Way) + 1
        BY <1>0
      <4> QED BY <1>0, <2>1, <4>1, <4>2 DEF Subscribed
    <3> QED BY <2>1, <3>1, <3>2
  <2> QED BY <2>1, <2>2, <2>3 DEF Subscribed
<1> QED BY <1>1, <1>2, <1>3, <1>4, <1>5, <1>6, <1>7, <1>8, <1>9, <1>10, PlayerSteps

\* What came of the playback before.
LEMMA LeadStep ==
  ASSUME PlayerTypes, Binding, DeckInv, Numbered, CommandsInv, Subscribed, Lead,
         [Track!Next]_(Track!vars)
  PROVE  Lead'
<1>0. /\ Track!Way \in Seq(Track!Chunks) /\ Len(Track!Way) \in Nat
      /\ DOMAIN Track!Way = 1 .. Len(Track!Way)
      /\ cur \in Nat /\ listener \in Nat
  BY WayTypes, PlayerAssumption DEF Binding
<1>1. CASE SourceMoves
  <2>1. UNCHANGED <<cur, listener, accum, output, flushing>> /\ Shrinks
        /\ (Here' => Here /\ Track!Way' = Track!Way) /\ (Reached' => Reached)
        /\ (Coming' => Coming /\ Here')
    BY <1>1, SourceStays
  <2>2. Track!Way' \in Seq(Track!Chunks) /\ DOMAIN Track!Way' = 1 .. Len(Track!Way')
        /\ Len(Track!Way') \in Nat
    <3>1. PlayerTypes'
      BY TypesStep
    <3>2. Track!Way' \in Seq(Track!Chunks)
      BY <3>1 DEF PlayerTypes, Track!Way
    <3> QED BY <3>2
  <2>3. \A i \in DOMAIN Track!Way' :
          Track!Way'[i].track # cur => i <= 2 /\ \A j \in 1 .. i : Track!Way'[j].track # cur
    <3> SUFFICES ASSUME NEW i \in DOMAIN Track!Way', Track!Way'[i].track # cur
                 PROVE  i <= 2 /\ \A j \in 1 .. i : Track!Way'[j].track # cur
      OBVIOUS
    <3>1. i \in DOMAIN Track!Way /\ \A j \in 1 .. i : Track!Way'[j] = Track!Way[j]
      BY <1>0, <2>1, <2>2 DEF Shrinks
    <3>2. i \in 1 .. i
      BY <1>0, <3>1
    <3> QED BY <3>1, <3>2 DEF Lead
  <2> QED BY <2>1, <2>3 DEF Lead, Reached
<1>2. CASE Track!Begin \/ Track!Acquire
  <2>1. Track!Way' = <<>>
    BY <1>2, WayOfAcquire DEF CommandsInv
  <2> QED BY <2>1 DEF Lead
<1>3. CASE Track!Listen
  <2>1. accum' = Track!None /\ output' = Track!None /\ UNCHANGED cur /\ Track!Way' = Track!Way
    BY <1>3, ListenFindsIdle, WayStays DEF Track!Listen
  <2> QED BY <2>1 DEF Lead, Coming
<1>4. CASE Track!TakeLoad
  <2>1. UNCHANGED <<cur, listener, receiver, bound, accum, output, flushing>>
        /\ Track!Way' = Track!Way
    BY <1>4, WayStays DEF Track!TakeLoad, Track!pipeVars
  <2> QED BY <2>1 DEF Lead, Coming, Reached, Here
<1>5. CASE DeckMoves
  BY <1>5, DeckGoesOn DEF Lead, Coming, Reached, Here
<1>6. CASE Track!Decode
  <2>1. Here => listener = cur
    BY <1>6, Decoding DEF CommandsInv, InTurn
  <2>2. UNCHANGED <<cur, listener, receiver>> /\ Track!Way' = Track!Way
    BY <1>6, Decoding
  <2> QED BY <2>1, <2>2 DEF Lead, Coming, Reached, Here
<1>7. CASE Track!TakeStop
  <2>1. Coming' => Reached /\ flushing' /\ accum # Track!None
    <3>1. <<cur>> # Track!None
      BY <1>0, NotNone
    <3> QED BY <1>7, <3>1, StopTaken DEF Coming, Reached, Here
  <2> QED BY <1>7, <2>1, StopTaken DEF Lead
<1>8. CASE Track!LookUp
  BY <1>8, LookedUp DEF Lead, Reached, Here
<1>9. CASE Track!Deliver
  <2>1. /\ UNCHANGED <<cur, listener, receiver, bound>> /\ output' = Track!None
        /\ output # Track!None
        /\ output.chunk \in Track!Chunks
        /\ \/ Coming /\ Track!Way' = Append(Track!Way, output.chunk) /\ accum' = accum
           \/ ~ Coming /\ Track!Way' = Track!Way /\ accum' \in {accum, Track!None}
    BY <1>9, Delivery
  <2>2. CASE ~ Coming
    BY <1>0, <2>1, <2>2 DEF Lead, Coming, Reached, Here
  <2>3. CASE Coming
    <3>1. /\ DOMAIN Track!Way' = 1 .. Len(Track!Way) + 1
          /\ Track!Way'[Len(Track!Way) + 1] = output.chunk
          /\ \A i \in 1 .. Len(Track!Way) : Track!Way'[i] = Track!Way[i]
          /\ Len(Track!Way') = Len(Track!Way) + 1
      BY <1>0, <2>1, <2>3, OneMore
    <3>2. accum' # Track!None => ~ flushing
      BY <2>1, <2>3 DEF DeckInv
    <3>3. listener # cur /\ accum' # Track!None => Len(Track!Way') <= 1
      BY <1>0, <2>3, <3>1, <3>2 DEF Lead
    <3>4. \A i \in DOMAIN Track!Way' :
            Track!Way'[i].track # cur => i <= 2 /\ \A j \in 1 .. i : Track!Way'[j].track # cur
      <4> SUFFICES ASSUME NEW i \in DOMAIN Track!Way', Track!Way'[i].track # cur
                   PROVE  i <= 2 /\ \A j \in 1 .. i : Track!Way'[j].track # cur
        OBVIOUS
      <4>1. CASE i \in 1 .. Len(Track!Way)
        BY <1>0, <3>1, <4>1 DEF Lead
      <4>2. CASE i = Len(Track!Way) + 1
        <5>1. output.chunk.track # cur /\ listener # cur
          BY <2>1, <3>1, <4>2 DEF Subscribed
        <5>2. Len(Track!Way) <= 1 /\ \A j \in 1 .. Len(Track!Way) : Track!Way[j].track # cur
          BY <1>0, <2>3, <5>1 DEF Lead, Subscribed
        <5> QED BY <1>0, <3>1, <4>2, <5>1, <5>2
      <4> QED BY <1>0, <3>1, <4>1, <4>2
    <3> QED BY <2>1, <3>3, <3>4 DEF Lead, Coming
  <2> QED BY <2>2, <2>3
<1> QED BY <1>1, <1>2, <1>3, <1>4, <1>5, <1>6, <1>7, <1>8, <1>9, PlayerSteps

\* Loads are newer than what is played.
LEMMA NewerStep ==
  ASSUME PlayerTypes, Binding, DeckInv, Numbered, CommandsInv, Newer, [Track!Next]_(Track!vars)
  PROVE  Newer'
<1>0. /\ Track!Way \in Seq(Track!Chunks) /\ Len(Track!Way) \in Nat
      /\ DOMAIN Track!Way = 1 .. Len(Track!Way)
      /\ Track!Way' \in Seq(Track!Chunks) /\ Len(Track!Way') \in Nat
      /\ DOMAIN Track!Way' = 1 .. Len(Track!Way')
      /\ commands \in Seq(Commands) /\ takes \in Nat
      /\ \A i \in DOMAIN commands : commands[i].do = "load" => commands[i].take \in Nat
  <2>1. PlayerTypes'
    BY TypesStep
  <2>2. Track!Way' \in Seq(Track!Chunks)
    BY <2>1 DEF PlayerTypes, Track!Way
  <2>3. commands \in Seq(Commands) /\ takes \in Nat
    BY DEF PlayerTypes
  <2>4. \A i \in DOMAIN commands : commands[i].do = "load" => commands[i].take \in Nat
    BY <2>3 DEF Commands
  <2> QED BY <2>2, <2>3, <2>4, WayTypes
<1>1. ASSUME UNCHANGED commands, \A t \in Nat : Before(t) => Before(t)'
      PROVE  Newer'
  <2>1. \A i \in DOMAIN commands : commands[i].do = "load" => Before(commands[i].take)'
    <3> SUFFICES ASSUME NEW i \in DOMAIN commands, commands[i].do = "load"
                 PROVE  Before(commands[i].take)'
      OBVIOUS
    <3>1. PICK t \in Nat : t = commands[i].take
      BY <1>0
    <3>2. Before(t)'
      BY <1>1, <3>1 DEF Newer
    <3>3. t = commands'[i].take
      BY <1>1, <3>1
    <3> QED BY <3>2, <3>3
  <2> QED BY <1>1, <2>1 DEF Newer
<1>2. ASSUME NEW x \in Commands, commands' = Append(commands, x),
             \A t \in Nat : Before(t) => Before(t)',
             x.do = "load" => x.take = takes + 1
      PROVE  Newer'
  <2>0. PICK L \in Nat : L = Len(commands)
    BY <1>0
  <2>1. /\ DOMAIN commands' = 1 .. L + 1 /\ commands'[L + 1] = x
        /\ \A i \in 1 .. L : commands'[i] = commands[i]
        /\ DOMAIN commands = 1 .. L
    BY <1>0, <1>2, <2>0, OneMore
  <2>2. Before(takes + 1)
    <3>1. /\ deck.take \in Nat
          /\ output # Track!None => output.chunk.take \in Nat
          /\ accum # Track!None => accum.take \in Nat
      BY DEF PlayerTypes, Decks, Outputs, Track!Chunks
    <3>2. \A i \in DOMAIN Track!Way : Track!Way[i].take \in Nat
      <4>1. \A i \in DOMAIN Track!Way : Track!Way[i] \in Track!Chunks
        BY <1>0
      <4> QED BY <4>1 DEF Track!Chunks
    <3> QED BY <1>0, <3>1, <3>2 DEF Before, Numbered
  <2>3. \A i \in DOMAIN commands' : commands'[i].do = "load" => Before(commands[i].take)'
    <3> SUFFICES ASSUME NEW i \in DOMAIN commands', commands'[i].do = "load"
                 PROVE  Before(commands[i].take)'
      OBVIOUS
    <3>1. PICK t \in Nat : t = commands'[i].take /\ Before(t)
      <4>1. CASE i \in 1 .. L
        BY <1>0, <2>1, <4>1 DEF Newer
      <4>2. CASE i = L + 1
        BY <1>0, <1>2, <2>1, <2>2, <4>2
      <4> QED BY <2>1, <4>1, <4>2
    <3>2. Before(t)'
      BY <1>2, <3>1
    <3> QED BY <3>1, <3>2
  <2>4. ASSUME NEW i \in DOMAIN commands', commands'[i].do = "load",
               NEW j \in DOMAIN commands', commands'[j].do = "load", i < j
        PROVE  commands'[i].take < commands'[j].take
    <3>1. i \in 1 .. L /\ commands'[i] = commands[i]
      BY <2>0, <2>1, <2>4
    <3>2. CASE j \in 1 .. L
      BY <2>1, <2>4, <3>1, <3>2 DEF Newer
    <3>3. CASE j = L + 1
      <4>1. commands[i].take <= takes /\ commands[i].take \in Nat
        BY <1>0, <2>1, <2>4, <3>1 DEF Numbered
      <4> QED BY <1>0, <1>2, <2>1, <2>4, <3>1, <3>3, <4>1
    <3> QED BY <2>0, <2>1, <3>2, <3>3
  <2> QED BY <2>3, <2>4 DEF Newer
<1>3. ASSUME NEW do, Track!Commanded(do),
             \A t \in Nat : Before(t) /\ (do = "load" => commands[1].take < t) => Before(t)'
      PROVE  Newer'
  <2>0. PICK L \in Nat : Len(commands) = L + 1
    <3>1. Len(commands) \in Nat \ {0}
      BY <1>3, FirstCommand
    <3>2. Len(commands) - 1 \in Nat
      BY <3>1
    <3> QED BY <3>1, <3>2
  <2>1. /\ DOMAIN commands' = 1 .. L /\ 1 \in DOMAIN commands /\ commands[1].do = do
        /\ \A i \in 1 .. L : i + 1 \in DOMAIN commands /\ commands'[i] = commands[i + 1]
    BY <1>3, <2>0, FirstCommand
  <2>2. \A i \in DOMAIN commands' : commands'[i].do = "load" => Before(commands[i].take)'
    <3> SUFFICES ASSUME NEW i \in DOMAIN commands', commands'[i].do = "load"
                 PROVE  Before(commands[i].take)'
      OBVIOUS
    <3>1. i + 1 \in DOMAIN commands /\ commands[i + 1].do = "load"
          /\ commands'[i] = commands[i + 1]
          /\ 1 < i + 1
      BY <2>1
    <3>2. PICK t \in Nat : t = commands[i + 1].take
      BY <1>0, <3>1
    <3>3. Before(t) /\ (do = "load" => commands[1].take < t)
      BY <2>1, <3>1, <3>2 DEF Newer
    <3>4. Before(t)' /\ t = commands'[i].take
      BY <1>3, <3>1, <3>2, <3>3
    <3> QED BY <3>4
  <2>3. ASSUME NEW i \in DOMAIN commands', commands'[i].do = "load",
               NEW j \in DOMAIN commands', commands'[j].do = "load", i < j
        PROVE  commands'[i].take < commands'[j].take
    <3>1. i + 1 < j + 1
      BY <2>0, <2>1, <2>3
    <3>2. /\ i + 1 \in DOMAIN commands /\ commands'[i] = commands[i + 1]
          /\ j + 1 \in DOMAIN commands /\ commands'[j] = commands[j + 1]
      BY <2>1
    <3> QED BY <2>3, <3>1, <3>2 DEF Newer
  <2> QED BY <2>2, <2>3 DEF Newer
<1>4. ASSUME Shrinks, UNCHANGED <<deck, accum, output>>
      PROVE  \A t \in Nat : Before(t) => Before(t)'
  BY <1>0, <1>4 DEF Before, Shrinks, Playing
<1>5. CASE SourceMoves
  <2>1. UNCHANGED <<deck, accum, output>> /\ Shrinks
    BY <1>5, SourceStays
  <2>2. CASE SendsLoad
    <3>1. [do |-> "load", who |-> cur, take |-> takes + 1] \in Commands
      BY <2>2, <1>0 DEF SendsLoad, Binding, Commands, Going
    <3> QED BY <1>2, <1>4, <2>1, <2>2, <3>1 DEF SendsLoad, Sends
  <2>3. CASE SendsStop
    <3>1. [do |-> "stop"] \in Commands
      BY DEF Commands
    <3> QED BY <1>2, <1>4, <2>1, <2>3, <3>1 DEF SendsStop, Sends
  <2>4. CASE Idle \/ Track!Drain \/ Track!Unbind \/ Track!Close \/ UNCHANGED Track!vars
    <3>1. UNCHANGED commands
      BY <2>4, IdleStays DEF SinkStays, Track!Drain, Track!Unbind, Track!Close, Track!vars
    <3> QED BY <1>1, <1>4, <2>1, <3>1
  <2> QED BY <1>5, <2>2, <2>3, <2>4 DEF SourceMoves
<1>6. CASE Track!Begin
  <2>1. UNCHANGED <<commands, deck, accum, output>> /\ Shrinks
    BY <1>6, WayShrinks DEF Track!Begin, Track!playerVars
  <2> QED BY <1>1, <1>4, <2>1
<1>7. CASE Track!Acquire
  <2>1. UNCHANGED <<deck, accum, output>> /\ Shrinks
        /\ commands' = Append(commands, [do |-> "listen", who |-> cur])
    BY <1>7, WayShrinks DEF Track!Acquire, Track!playerVars
  <2>2. [do |-> "listen", who |-> cur] \in Commands
    BY <1>7 DEF Track!Acquire, Track!Go, Binding, Commands
  <2> QED BY <1>2, <1>4, <2>1, <2>2
<1>8. CASE Track!Listen
  <2>1. UNCHANGED <<deck, accum, output>> /\ Shrinks /\ Track!Commanded("listen")
    BY <1>8, WayShrinks DEF Track!Listen
  <2> QED BY <1>3, <1>4, <2>1
<1>9. CASE Track!TakeLoad
  <2>1. UNCHANGED <<accum, output>> /\ Track!Way' = Track!Way /\ Track!Commanded("load")
        /\ deck' = [state |-> "loading", track |-> Head(commands).who,
           take |-> Head(commands).take,
                    n |-> 0]
    BY <1>9, WayStays DEF Track!TakeLoad
  <2>2. deck'.take = commands[1].take
    BY <2>1, FirstCommand
  <2> QED BY <1>3, <2>1, <2>2 DEF Before
<1>10. CASE DeckMoves
  <2>1. \A t \in Nat : Before(t) => Before(t)'
    BY <1>10, DeckGoesOn DEF Before
  <2> QED BY <1>1, <1>10, <2>1, DeckGoesOn
<1>11. CASE Track!Decode
  <2>1. commands' = <<>>
    BY <1>11 DEF Track!Decode
  <2> QED BY <2>1 DEF Newer
<1>12. CASE Track!TakeStop
  <2>1. deck' \in {deck, Track!Stopped}
    BY <1>12, StopTaken
  <2>2. Playing' => Playing /\ deck' = deck
    BY <2>1 DEF Playing, Track!Stopped
  <2>3. \A t \in Nat : Before(t) => Before(t)'
    BY <1>12, <2>2, StopTaken DEF Before
  <2>4. Track!Commanded("stop")
    BY <1>12 DEF Track!TakeStop
  <2> QED BY <1>3, <2>3, <2>4
<1>13. CASE Track!LookUp
  <2>1. \A t \in Nat : Before(t) => Before(t)'
    BY <1>13, LookedUp DEF Before, Playing
  <2> QED BY <1>1, <1>13, <2>1, LookedUp
<1>14. CASE Track!Deliver
  <2>1. /\ UNCHANGED commands /\ output' = Track!None /\ output # Track!None
        /\ output.chunk \in Track!Chunks
        /\ accum' \in {accum, Track!None}
        /\ deck' \in {deck, Track!Stopped}
        /\ (Track!Way' = Track!Way \/ Track!Way' = Append(Track!Way, output.chunk))
    BY <1>14, Delivery
  <2>2. Playing' => Playing /\ deck' = deck
    BY <2>1 DEF Playing, Track!Stopped
  <2>3. ASSUME NEW t \in Nat, Before(t)
        PROVE  \A i \in DOMAIN Track!Way' : Track!Way'[i].take < t
    <3>1. CASE Track!Way' = Track!Way
      BY <2>3, <3>1 DEF Before
    <3>2. CASE Track!Way' = Append(Track!Way, output.chunk)
      <4>1. /\ DOMAIN Track!Way' = 1 .. Len(Track!Way) + 1
            /\ Track!Way'[Len(Track!Way) + 1] = output.chunk
            /\ \A i \in 1 .. Len(Track!Way) : Track!Way'[i] = Track!Way[i]
        BY <1>0, <2>1, <3>2, OneMore
      <4>2. \A i \in 1 .. Len(Track!Way) + 1 : i \in 1 .. Len(Track!Way)
            \/ i = Len(Track!Way) + 1
        BY <1>0
      <4> QED BY <1>0, <2>1, <2>3, <4>1, <4>2 DEF Before
    <3> QED BY <2>1, <3>1, <3>2
  <2>4. \A t \in Nat : Before(t) => Before(t)'
    BY <2>1, <2>2, <2>3 DEF Before
  <2> QED BY <1>1, <2>1, <2>4
<1> QED BY <1>5, <1>6, <1>7, <1>8, <1>9, <1>10, <1>11, <1>12, <1>13, <1>14, PlayerSteps

\* Every chunk follows the one before.
LEMMA ChainStep ==
  ASSUME PlayerTypes, Binding, DeckInv, CommandsInv, Subscribed, Newer, Chain,
         [Track!Next]_(Track!vars)
  PROVE  Chain'
<1>0. /\ Track!Way \in Seq(Track!Chunks) /\ Len(Track!Way) \in Nat
      /\ DOMAIN Track!Way = 1 .. Len(Track!Way)
      /\ Track!Way' \in Seq(Track!Chunks) /\ Len(Track!Way') \in Nat
      /\ DOMAIN Track!Way' = 1 .. Len(Track!Way')
      /\ Track!Way # <<>> => Len(Track!Way) \in DOMAIN Track!Way
  <2>1. PlayerTypes'
    BY TypesStep
  <2>2. Track!Way' \in Seq(Track!Chunks)
    BY <2>1 DEF PlayerTypes, Track!Way
  <2>3. Track!Way # <<>> => Len(Track!Way) # 0
    BY WayTypes, EmptySeq
  <2> QED BY <2>2, <2>3, WayTypes
<1>1. ASSUME Track!Way' = Track!Way, UNCHANGED cur PROVE Track!InOrder'
  BY <1>1 DEF Chain, Track!InOrder
<1>2. CASE SourceMoves
  <2>1. UNCHANGED <<cur, deck, accum, output, flushing>> /\ Shrinks
        /\ (Here' => Here /\ Track!Way' = Track!Way)
        /\ (Reached' => Reached /\ (Coming' <=> Coming))
        /\ (Coming' => Coming /\ Here')
    BY <1>2, SourceStays
  <2>2. Track!InOrder'
    <3> SUFFICES ASSUME NEW i \in 2 .. Len(Track!Way'), Track!Way'[i - 1].track = cur,
                        Track!Way'[i].track = cur
                 PROVE  Track!Follows(Track!Way'[i - 1], Track!Way'[i])
      BY <2>1 DEF Track!InOrder, Track!Follows
    <3>1. i \in 2 .. Len(Track!Way) /\ Track!Way'[i] = Track!Way[i]
          /\ Track!Way'[i - 1] = Track!Way[i - 1]
      BY <1>0, <2>1 DEF Shrinks
    <3> QED BY <3>1 DEF Chain, Track!InOrder
  <2>3. Reached' => Here'
    BY DEF Reached
  <2>4. Reached' /\ Recent' => Recent /\ Latest' = Latest
    BY <2>1, <2>3 DEF Recent, Latest
  <2> QED BY <2>1, <2>2, <2>3, <2>4 DEF Chain, Track!Follows, Playing
<1>3. CASE Track!Begin \/ Track!Acquire
  <2>1. Track!Way' = <<>>
    BY <1>3, WayOfAcquire DEF CommandsInv
  <2>2. Len(Track!Way') = 0
    BY <2>1
  <2>3. Track!InOrder'
    BY <2>2 DEF Track!InOrder
  <2>4. ~ (Reached' /\ Recent' /\ Latest'.track = cur')
    <3>1. CASE Track!Begin
      <4>1. receiver' # cur'
        BY <3>1 DEF Track!Begin, Binding, Going, Track!pipeVars
      <4> QED BY <4>1 DEF Reached, Here
    <3>2. CASE Track!Acquire
      <4>1. UNCHANGED <<cur, output>> /\ listener # cur
        BY <3>2 DEF Track!Acquire, Track!Go, CommandsInv, InTurn, Track!playerVars
      <4> QED BY <2>1, <4>1 DEF Recent, Latest, Coming, Subscribed
    <3> QED BY <1>3, <3>1, <3>2
  <2> QED BY <2>1, <2>3, <2>4 DEF Chain
<1>4. CASE Track!Listen
  <2>1. /\ ~ Playing' /\ accum' = Track!None /\ output' = Track!None /\ UNCHANGED cur
        /\ Track!Way' = Track!Way
    BY <1>4, ListenFindsIdle, WayStays DEF Track!Listen, Playing
  <2> QED BY <1>1, <2>1 DEF Chain, Coming
<1>5. CASE Track!TakeLoad
  <2>1. /\ UNCHANGED <<cur, receiver, bound, accum, output>> /\ Track!Way' = Track!Way
        /\ deck' = [state |-> "loading", track |-> Head(commands).who,
           take |-> Head(commands).take,
                    n |-> 0]
    BY <1>5, WayStays DEF Track!TakeLoad, Track!pipeVars
  <2>2. /\ output = Track!None /\ commands[1].do = "load" /\ 1 \in DOMAIN commands
        /\ commands[1] = Head(commands)
    BY <1>5, FirstCommand DEF Track!TakeLoad
  <2>3. ~ Coming /\ ~ Coming'
    BY <2>1, <2>2 DEF Coming
  <2>4. (Recent' <=> Recent) /\ Latest' = Latest /\ (Reached' <=> Reached)
    BY <2>1, <2>3 DEF Recent, Latest, Reached, Here
  <2>5. Recent => Latest.take < commands[1].take /\ Latest \in Track!Chunks
    BY <1>0, <2>2, <2>3 DEF Recent, Latest, Newer, Before
  <2>6. deck'.take = commands[1].take /\ deck'.n = 0
    BY <2>1, <2>2
  <2>7. commands[1].take \in Nat
    BY <2>2 DEF PlayerTypes, Commands
  <2>8. Recent => Latest.take # commands[1].take
    BY <2>5, <2>7 DEF Track!Chunks
  <2> QED BY <1>1, <2>1, <2>3, <2>4, <2>5, <2>6, <2>8 DEF Chain, Track!Follows
<1>6. CASE DeckMoves
  <2>1. /\ UNCHANGED <<cur, receiver, bound, accum, output, flushing>> /\ Track!Way' = Track!Way
        /\ UNCHANGED <<deck.track, deck.take, deck.n>> /\ (Playing' => Playing)
    BY <1>6, DeckGoesOn
  <2>2. (Coming' <=> Coming) /\ (Reached' <=> Reached)
    BY <2>1 DEF Coming, Reached, Here
  <2>3. (Recent' <=> Recent) /\ Latest' = Latest
    BY <2>1, <2>2 DEF Recent, Latest
  <2> QED BY <1>1, <2>1, <2>2, <2>3 DEF Chain, Track!Follows
<1>7. CASE Track!Decode
  <2>1. /\ UNCHANGED <<cur, receiver, bound, flushing>> /\ Track!Way' = Track!Way
        /\ Playing /\ ~ flushing /\ output = Track!None /\ deck.n \in Nat
        /\ UNCHANGED <<deck.track, deck.take>> /\ deck'.n = deck.n + 1
        /\ output' # Track!None /\ output'.to = Track!None
        /\ output'.chunk = Track!Chunk(deck.n + 1) /\ accum' = Track!Chunk(deck.n + 2)
    BY <1>7, Decoding
  <2>2. /\ Track!Chunk(deck.n + 1).track = deck.track
        /\ Track!Chunk(deck.n + 2).track = deck.track
        /\ Track!Chunk(deck.n + 1).take = deck.take /\ Track!Chunk(deck.n + 2).take = deck.take
        /\ Track!Chunk(deck.n + 1).n = deck.n + 1 /\ Track!Chunk(deck.n + 2).n = deck.n + 2
    BY DEF Track!Chunk
  <2>3. <<cur>> # Track!None
    BY NotNone, PlayerAssumption DEF Binding
  <2>4. ~ Coming /\ (Coming' <=> Reached) /\ (Reached' <=> Reached)
    BY <2>1, <2>3 DEF Coming, Reached, Here
  <2>5. Reached' /\ Recent' => Latest' = Track!Chunk(deck.n + 1)
    BY <2>1, <2>4 DEF Latest
  <2>6. Coming' /\ Track!Way' # <<>> /\ output'.chunk.track = cur
        /\ Track!Way'[Len(Track!Way')].track = cur
          => Track!Follows(Track!Way'[Len(Track!Way')], output'.chunk)
    <3> SUFFICES ASSUME Coming', Track!Way # <<>>, deck.track = cur,
                        Track!Way[Len(Track!Way)].track = cur
                 PROVE  Track!Follows(Track!Way[Len(Track!Way)], Track!Chunk(deck.n + 1))
      BY <2>1, <2>2
    <3>1. Reached /\ Recent /\ Latest = Track!Way[Len(Track!Way)]
      BY <2>4 DEF Recent, Latest
    <3> QED BY <2>1, <2>2, <3>1 DEF Chain, Track!Follows
  <2>7. Track!Follows(Track!Chunk(deck.n + 1), Track!Chunk(deck.n + 2))
    BY <2>1, <2>2 DEF Track!Follows
  <2> QED BY <1>1, <2>1, <2>2, <2>4, <2>5, <2>6, <2>7 DEF Chain, Track!Follows
<1>8. CASE Track!TakeStop
  <2>1. /\ UNCHANGED <<cur, receiver, bound>> /\ Track!Way' = Track!Way /\ output = Track!None
        /\ accum' = Track!None
        /\ \/ /\ accum # Track!None /\ output' # Track!None /\ output'.chunk = accum
              /\ output'.to = Track!None
              /\ flushing' /\ deck' = deck
           \/ deck' = Track!Stopped /\ output' = Track!None /\ ~ flushing'
    BY <1>8, StopTaken
  <2>2. <<cur>> # Track!None
    BY NotNone, PlayerAssumption DEF Binding
  <2>3. Playing' => flushing'
    BY <2>1 DEF Playing, Track!Stopped
  <2>4. ~ Coming /\ (Coming' => Reached /\ accum # Track!None /\ output'.chunk = accum)
    BY <2>1, <2>2 DEF Coming, Reached, Here
  <2>5. Coming' /\ Track!Way # <<>> => Recent /\ Latest = Track!Way[Len(Track!Way)]
    BY <2>4 DEF Recent, Latest
  <2> QED BY <1>1, <2>1, <2>3, <2>4, <2>5 DEF Chain, Track!Follows
<1>9. CASE Track!LookUp
  <2>1. /\ UNCHANGED <<cur, receiver, bound, deck, accum, flushing>> /\ Track!Way' = Track!Way
        /\ output'.chunk = output.chunk /\ (Coming' <=> Coming)
    BY <1>9, LookedUp
  <2>2. (Recent' <=> Recent) /\ Latest' = Latest /\ (Reached' <=> Reached)
    BY <2>1 DEF Recent, Latest, Reached, Here
  <2> QED BY <1>1, <2>1, <2>2 DEF Chain, Track!Follows, Playing
<1>10. CASE Track!Deliver
  <2>1. /\ UNCHANGED <<cur, receiver, bound>> /\ output' = Track!None /\ output # Track!None
        /\ ~ flushing'
        /\ output.chunk \in Track!Chunks /\ accum' \in {accum, Track!None}
        /\ \/ Coming /\ Track!Way' = Append(Track!Way, output.chunk)
           \/ ~ Coming /\ Track!Way' = Track!Way
    BY <1>10, Delivery
  <2>2. Playing' => Playing /\ deck' = deck /\ ~ flushing
    BY <1>10, Delivery DEF Playing, Track!Stopped
  <2>3. ~ Coming' /\ (Reached' <=> Reached)
    BY <2>1 DEF Coming, Reached, Here
  <2>4. Recent' => Recent /\ Latest' = Latest
    <3>1. CASE Coming
      <4>1. Track!Way'[Len(Track!Way')] = output.chunk
        BY <1>0, <2>1, <3>1, OneMore
      <4> QED BY <2>3, <3>1, <4>1 DEF Recent, Latest
    <3>2. CASE ~ Coming
      BY <2>1, <2>3, <3>2 DEF Recent, Latest
    <3> QED BY <3>1, <3>2
  <2>5. Track!InOrder'
    <3>1. CASE ~ Coming
      BY <1>1, <2>1, <3>1
    <3>2. CASE Coming
      <4>0. Track!Way' = Append(Track!Way, output.chunk) /\ output.chunk \in Track!Chunks
            /\ Track!Way \in Seq(Track!Chunks)
        BY <1>0, <2>1, <3>2
      <4>1. /\ Len(Track!Way') = Len(Track!Way) + 1
            /\ Track!Way'[Len(Track!Way) + 1] = output.chunk
            /\ \A i \in 1 .. Len(Track!Way) : Track!Way'[i] = Track!Way[i]
        BY <4>0, OneMore
      <4> SUFFICES ASSUME NEW i \in 2 .. Len(Track!Way'), Track!Way'[i - 1].track = cur,
                          Track!Way'[i].track = cur
                   PROVE  Track!Follows(Track!Way'[i - 1], Track!Way'[i])
        BY <2>1 DEF Track!InOrder, Track!Follows
      <4>2. CASE i \in 2 .. Len(Track!Way)
        <5>1. Track!Way'[i] = Track!Way[i] /\ Track!Way'[i - 1] = Track!Way[i - 1]
          BY <1>0, <4>1, <4>2
        <5> QED BY <4>2, <5>1 DEF Chain, Track!InOrder
      <4>3. CASE i = Len(Track!Way) + 1
        <5>1. Track!Way'[i] = output.chunk /\ Track!Way'[i - 1] = Track!Way[Len(Track!Way)]
              /\ Track!Way # <<>>
          BY <1>0, <4>1, <4>3
        <5> QED BY <3>2, <5>1 DEF Chain
      <4> QED BY <1>0, <4>1, <4>2, <4>3
    <3> QED BY <3>1, <3>2
  <2> QED BY <2>1, <2>2, <2>3, <2>4, <2>5 DEF Chain, Track!Follows
<1> QED BY <1>2, <1>3, <1>4, <1>5, <1>6, <1>7, <1>8, <1>9, <1>10, PlayerSteps

\* One more piece of news, if this playback hears it.
LEMMA NewsTold ==
  ASSUME PlayerTypes, DeckInv, Subscribed, News, events \in Seq(Newses),
         UNCHANGED <<cur, pc, receiver>>, Playing,
         NEW what \in {"playing", "unavailable", "ended", "disconnected", "stopped"},
         what = "stopped" => ~ (pc \in Going /\ listener = cur),
         events' = Track!Told(what, deck.track)
  PROVE  News' /\ events' \in Seq(Newses)
<1>1. CASE events' = events
  BY <1>1 DEF News, Track!NewsIsItsOwn
<1>2. CASE listener = cur /\ events' = Append(events, [what |-> what, track |-> deck.track])
  <2>1. [what |-> what, track |-> deck.track] \in Newses
    BY DEF Newses, PlayerTypes, Decks
  <2>2. deck.track = cur
    BY <1>2 DEF Subscribed
  <2>3. /\ events' \in Seq(Newses) /\ DOMAIN events' = 1 .. Len(events) + 1
        /\ Len(events) \in Nat
        /\ events'[Len(events) + 1] = [what |-> what, track |-> deck.track]
        /\ \A i \in 1 .. Len(events) : events'[i] = events[i]
    BY <1>2, <2>1, OneMore
  <2>4. \A i \in DOMAIN events' : i \in DOMAIN events \/ i = Len(events) + 1
    BY <2>3
  <2>5. Track!NewsIsItsOwn'
    BY <2>2, <2>3, <2>4 DEF News, Track!NewsIsItsOwn
  <2>6. pc \in Going => \A i \in DOMAIN events' : events'[i].what # "stopped"
    BY <1>2, <2>3, <2>4 DEF News
  <2> QED BY <2>3, <2>5, <2>6 DEF News
<1> QED BY <1>1, <1>2 DEF Track!Told

\* News.
LEMMA NewsStep ==
  ASSUME PlayerTypes, Binding, DeckInv, CommandsInv, Subscribed, News, events \in Seq(Newses),
         [Track!Next]_(Track!vars)
  PROVE  News' /\ events' \in Seq(Newses)
<1> USE DEF Track!pipeVars, Track!playerVars, Track!runVars, Track!paceVars, Track!Go
<1>1. ASSUME UNCHANGED <<cur, events>>, receiver' \in {receiver, 0},
             cur > 0 \/ receiver' = receiver,
             pc' \in Going => pc \in Going
      PROVE  News' /\ events' \in Seq(Newses)
  BY <1>1 DEF News, Track!NewsIsItsOwn
<1>2. CASE Track!Ask \/ Track!Mirror \/ Track!Tick \/ UNCHANGED Track!vars
  BY <1>1, <1>2 DEF Track!Ask, Track!Mirror, Track!Tick, Track!vars
<1>3. CASE Track!AcquireFails \/ Track!Load \/ Track!BadUri \/ Track!CheckStop
  BY <1>1, <1>3 DEF Track!AcquireFails, Track!Load, Track!BadUri, Track!CheckStop, Going
<1>4. CASE Track!Drain \/ Track!Drained \/ Track!Awake \/ Track!Wake
  BY <1>1, <1>4 DEF Track!Drain, Track!Drained, Track!Awake, Track!Wake, Going
<1>5. CASE Track!Reconnects \/ Track!ReconnectFails \/ Track!DropStops \/ Track!Unbind
  BY <1>1, <1>5 DEF Track!Reconnects, Track!ReconnectFails, Track!DropStops, Track!Unbind, Going
<1>6. CASE Track!Close \/ Track!Report
  BY <1>1, <1>6 DEF Track!Close, Track!ReceiverDrops, Track!Report, Going, Binding
<1>7. CASE Track!Begin
  <2>1. UNCHANGED events /\ receiver' # cur' /\ pc' = "acquire"
    BY <1>7 DEF Track!Begin, Binding, Going
  <2> QED BY <2>1 DEF News, Track!NewsIsItsOwn, Going
<1>8. CASE Track!Acquire
  <2>1. events' = <<>>
    BY <1>8 DEF Track!Acquire, Track!FreshReceiver
  <2> QED BY <2>1 DEF News, Track!NewsIsItsOwn
<1>9. CASE Track!Hear
  <2>1. UNCHANGED <<cur, receiver>> /\ events' = Tail(events) /\ events # <<>> /\ pc \in Going
    BY <1>9 DEF Track!Hear, Going
  <2>2. /\ events' \in Seq(Newses) /\ Len(events') = Len(events) - 1
        /\ Len(events) \in Nat \ {0}
        /\ \A i \in 1 .. Len(events) - 1 : events'[i] = events[i + 1]
    BY <2>1, FirstAndRest
  <2>3. \A i \in DOMAIN events' : i + 1 \in DOMAIN events /\ events'[i] = events[i + 1]
    BY <2>2
  <2> QED BY <2>1, <2>2, <2>3 DEF News, Track!NewsIsItsOwn
<1>10. CASE Track!Listen \/ Track!TakeLoad \/ Track!Decode \/ Track!LookUp
  BY <1>1, <1>10 DEF Track!Listen, Track!TakeLoad, Track!Decode, Track!LookUp
<1>11. CASE Track!Loaded \/ Track!Unavailable
  BY <1>11, NewsTold DEF Track!Loaded, Track!Unavailable, Playing
<1>12. CASE Track!TrackEnds \/ Track!Disconnect
  BY <1>12, NewsTold DEF Track!TrackEnds, Track!Disconnect, Playing
<1>13. CASE Track!TakeStop
  <2>1. UNCHANGED <<cur, pc, receiver>>
    BY <1>13 DEF Track!TakeStop
  <2>2. ~ (pc \in Going /\ listener = cur)
    <3>1. commands[1].do = "stop" /\ 1 \in 1 .. Len(commands)
      BY <1>13, FirstCommand DEF Track!TakeStop
    <3>2. StopIn(1, Len(commands))
      BY <3>1 DEF StopIn
    <3> QED BY <3>2 DEF CommandsInv, Unstopped
  <2>3. CASE events' = events
    BY <1>1, <2>1, <2>3
  <2>4. CASE deck # Track!Stopped /\ events' = Track!Told("stopped", deck.track)
    <3>1. Playing
      BY <2>4 DEF DeckInv, Playing
    <3> QED BY <2>1, <2>2, <2>4, <3>1, NewsTold
  <2> QED BY <1>13, <2>3, <2>4 DEF Track!TakeStop
<1>14. CASE Track!Deliver
  <2>1. UNCHANGED <<cur, pc, receiver>>
    BY <1>14 DEF Track!Deliver
  <2>2. CASE events' = events
    BY <1>1, <2>1, <2>2
  <2>3. CASE flushing /\ events' = Track!Told("stopped", deck.track)
    <3>1. Playing
      BY <2>3 DEF DeckInv
    <3>2. ~ (pc \in Going /\ listener = cur)
      BY <2>3 DEF CommandsInv, Unstopped
    <3> QED BY <2>1, <2>3, <3>1, <3>2, NewsTold
  <2> QED BY <1>14, <2>2, <2>3 DEF Track!Deliver
<1> QED BY <1>2, <1>3, <1>4, <1>5, <1>6, <1>7, <1>8, <1>9, <1>10, <1>11, <1>12, <1>13, <1>14
           DEF Track!Next, Track!Source, Track!Player

\* Reasons.
LEMMA ReasonsStep ==
  ASSUME Binding, News, Reasons, events \in Seq(Newses), [Track!Next]_(Track!vars)
  PROVE  Reasons'
<1> USE DEF Reasons, Leaving, Track!runVars, Track!Go
<1>1. CASE Track!Begin \/ Track!Ask \/ Track!Mirror
  BY <1>1 DEF Track!Begin, Track!Ask, Track!Mirror
<1>2. CASE Track!Tick \/ Track!Drain \/ Track!Drained \/ Track!Awake \/ Track!Wake
           \/ UNCHANGED Track!vars
  BY <1>2 DEF Track!Tick, Track!Drain, Track!Drained, Track!Awake, Track!Wake, Track!vars
<1>3. CASE Track!Acquire \/ Track!AcquireFails \/ Track!Load \/ Track!BadUri
  BY <1>3 DEF Track!Acquire, Track!AcquireFails, Track!Load, Track!BadUri
<1>4. CASE Track!CheckStop \/ Track!Reconnects \/ Track!ReconnectFails
  BY <1>4 DEF Track!CheckStop, Track!Reconnects, Track!ReconnectFails, Track!SessionLost
<1>5. CASE Track!DropStops \/ Track!Unbind \/ Track!Close
  BY <1>5 DEF Track!DropStops, Track!Unbind, Track!Close
<1>9. CASE Track!Report
  <2>1. pc = "report" /\ pc' = "ended" /\ told' = (told \/ failed)
        /\ UNCHANGED <<cur, asked, finished>>
    BY <1>9 DEF Track!Report
  <2>2. cur > 0 => asked \/ finished \/ told \/ failed
    BY <2>1
  <2>3. told \/ failed => told'
    BY <2>1, Zenon
  <2> QED BY <2>1, <2>2, <2>3
<1>6. CASE Track!Hear
  <2>1. 1 \in DOMAIN events /\ Head(events) = events[1]
    BY <1>6, FirstAndRest DEF Track!Hear
  <2>2. Head(events).what # "stopped"
    BY <1>6, <2>1 DEF Track!Hear, News, Going
  <2> QED BY <1>6, <2>2 DEF Track!Hear
<1>7. CASE Track!Listen \/ Track!TakeLoad \/ Track!Loaded \/ Track!Unavailable \/ Track!Decode
  BY <1>7 DEF Track!Listen, Track!TakeLoad, Track!Loaded, Track!Unavailable, Track!Decode
<1>8. CASE Track!TrackEnds \/ Track!TakeStop \/ Track!LookUp \/ Track!Deliver
           \/ Track!Disconnect
  BY <1>8 DEF Track!TrackEnds, Track!TakeStop, Track!LookUp, Track!Deliver, Track!Disconnect
<1> QED BY <1>1, <1>2, <1>3, <1>4, <1>5, <1>6, <1>7, <1>8, <1>9
           DEF Track!Next, Track!Source, Track!Player

\* The invariant is inductive, and it says that tracks are apart.
LEMMA StepTrackInv ==
  ASSUME TrackInv, [Track!Next]_(Track!vars)
  PROVE  TrackInv'
<1> USE DEF TrackInv
<1>1. Binding' /\ PlayerTypes' /\ DeckInv' /\ Numbered'
  BY BindingStep, TypesStep, DeckStep, NumberedStep
<1>2. CommandsInv' /\ Subscribed'
  BY CommandsStep, SubscribedStep
<1>3. Lead' /\ Newer' /\ Chain'
  BY LeadStep, NewerStep, ChainStep
<1>4. News' /\ Reasons' /\ events' \in Seq(Newses)
  BY NewsStep, ReasonsStep
<1> QED BY <1>1, <1>2, <1>3, <1>4

\* Tracks are apart in every state of it.
LEMMA TrackInvApart ==
  ASSUME TrackInv
  PROVE  Track!TracksApart
<1> USE DEF TrackInv
<1>1. Track!TypeOK
  <2>1. {cur, receiver, bound, listener} \subseteq 0 .. Playbacks
    BY PlayerAssumption DEF Binding
  <2>2. \A i \in DOMAIN channel : channel[i] \in Track!Chunks
    BY DEF PlayerTypes
  <2>3. deck.state \in {"stopped", "loading", "playing", "over"}
    BY DEF PlayerTypes, Decks
  <2>4. output # Track!None => output.to \in {Track!None} \cup {<<p>> : p \in 0 .. Playbacks}
    BY DEF PlayerTypes, Outputs
  <2>5. tries \in 0 .. Attempts - 1 /\ ahead \in Nat
    BY DEF Binding
  <2> QED BY <2>1, <2>2, <2>3, <2>4, <2>5 DEF Track!TypeOK, PlayerTypes, DeckInv
<1>2. Track!BleedIsBounded
  <2>1. \A i \in DOMAIN Track!Way : Track!Way[i].track \in Nat
    <3>1. \A i \in DOMAIN Track!Way : Track!Way[i] \in Track!Chunks
      BY WayTypes
    <3> QED BY <3>1 DEF Track!Chunks
  <2>2. cur \in Nat
    BY PlayerAssumption DEF Binding
  <2>3. \A i \in DOMAIN Track!Way : Track!Way[i].track # cur => Track!Way[i].track < cur
    BY <2>1, <2>2 DEF Numbered
  <2> QED BY <2>3 DEF Track!BleedIsBounded, Lead
<1>3. Track!InOrder /\ Track!NewsIsItsOwn /\ Track!EndIsExplained
  BY DEF Chain, News, Reasons, Track!EndIsExplained
<1> QED BY <1>1, <1>2, <1>3 DEF Track!TracksApart

\* It holds in every state.
LEMMA TrackInvariance == Track!Spec => []TrackInv
BY InitTrackInv, StepTrackInv, PTL DEF Track!Spec

\* While the daemon plays Spotify, it is what Spotify's module says.
LEMMA TrackIsOpened == SourcesSpec => Track!Spec
<1>1. SourcesInit => Track!Init
  BY DEF SourcesInit
<1>2. [SourcesNext]_sourcesVars => [Track!Next]_(Track!vars)
  <2>1. UNCHANGED trackVars => UNCHANGED Track!vars
    BY DEF trackVars, Track!vars, Track!runVars, Track!paceVars, Track!pipeVars,
           Track!playerVars
  <2>2. UNCHANGED sourcesVars => UNCHANGED trackVars
    BY DEF sourcesVars
  <2>3. SourcesNext => Track!Next \/ UNCHANGED trackVars
    BY DEF SourcesNext, FolderNext, RadioNext, TrackNext
  <2> QED BY <2>1, <2>2, <2>3
<1> QED BY <1>1, <1>2, PTL DEF SourcesSpec, Track!Spec

\* However many tracks follow one another, of any length, through a channel of any
\* size: what a playback writes of its own track is gapless and in order, at most two
\* chunks of the track before come first, its news is its own, and its end has a reason.
THEOREM TracksApartHolds ==
  /\ Track!Spec => []TracksApart
  /\ SourcesSpec => []TracksApart
BY TrackInvApart, TrackInvariance, TrackIsOpened, PTL DEF TracksApart

-----------------------------------------------------------------------------
(* Sequences, position by position. *)

\* A set of natural numbers that is not empty has a least element.
LEMMA LeastElement ==
  ASSUME NEW T \in SUBSET Nat, T # {}
  PROVE  \E x \in T : \A y \in T : x <= y
<1> DEFINE R == OpToRel(<, Nat)
<1>1. IsWellFoundedOn(R, Nat)
  BY NatLessThanWellFounded
<1>2. \A x, y \in Nat : x < y => <<x, y>> \in R
  BY DEF OpToRel
<1> HIDE DEF R
<1>3. PICK x \in T : \A y \in T : <<y, x>> \notin R
  BY <1>1, WFMin
<1>4. \A y \in T : x \in Nat /\ y \in Nat /\ ~ (y < x)
  BY <1>2, <1>3
<1> QED BY <1>4

\* Induction over the positions 0 .. n of a sequence, for a set of positions.
LEMMA Positions ==
  ASSUME NEW n \in Nat, NEW P, 0 \in P, \A i \in 1 .. n : i - 1 \in P => i \in P
  PROVE  0 .. n \subseteq P
<1> DEFINE T == (0 .. n) \ P
<1>1. SUFFICES ASSUME T # {} PROVE FALSE
  OBVIOUS
<1>2. T \in SUBSET Nat
  OBVIOUS
<1>3. PICK x \in T : \A y \in T : x <= y
  <2> HIDE DEF T
  <2> QED BY <1>1, <1>2, LeastElement
<1>4. x \in 1 .. n /\ x \notin P
  BY <1>3
<1>5. x - 1 \in P
  BY <1>3, <1>4
<1> QED BY <1>4, <1>5

\* Concatenation is associative.
LEMMA Associates ==
  ASSUME NEW X, NEW s \in Seq(X), NEW t \in Seq(X), NEW u \in Seq(X)
  PROVE  s \o (t \o u) = (s \o t) \o u
OBVIOUS

\* What starts somewhere and has a step at each position has a run.
RunOf(f, start, step, n) == f[0] = start /\ \A i \in 1 .. n : f[i] = step[i, f[i - 1]]

\* A run one position longer.
LEMMA RunGrows ==
  ASSUME NEW S, NEW start \in S, NEW n \in Nat, NEW step \in [(1 .. n) \X S -> S],
         NEW m \in 1 .. n, NEW f \in [0 .. m - 1 -> S], RunOf(f, start, step, m - 1)
  PROVE  \E g \in [0 .. m -> S] : RunOf(g, start, step, m)
<1> DEFINE g == [i \in 0 .. m |-> IF i = m THEN step[m, f[m - 1]] ELSE f[i]]
<1>1. m - 1 \in 0 .. m - 1 /\ f[m - 1] \in S
  OBVIOUS
<1>2. <<m, f[m - 1]>> \in (1 .. n) \X S
  BY <1>1
<1>3. step[m, f[m - 1]] \in S
  BY <1>2
<1>4. \A i \in 0 .. m : i # m => i \in 0 .. m - 1 /\ f[i] \in S
  OBVIOUS
<1>5. g \in [0 .. m -> S]
  BY <1>3, <1>4
<1>6. \A i \in 0 .. m - 1 : g[i] = f[i]
  <2>1. \A i \in 0 .. m - 1 : i \in 0 .. m /\ i # m
    OBVIOUS
  <2> QED BY <2>1
<1>7. g[m] = step[m, f[m - 1]]
  <2>1. m \in 0 .. m
    OBVIOUS
  <2> QED BY <2>1
<1> HIDE DEF g
<1>8. 0 \in 0 .. m - 1
  OBVIOUS
<1>9. g[0] = start
  BY <1>6, <1>8 DEF RunOf
<1>10. ASSUME NEW i \in 1 .. m PROVE g[i] = step[i, g[i - 1]]
  <2>0. i - 1 \in 0 .. m - 1
    OBVIOUS
  <2>1. g[i - 1] = f[i - 1]
    BY <1>6, <2>0
  <2>2. CASE i = m
    BY <1>7, <2>1, <2>2
  <2>3. CASE i # m
    <3>1. i \in 1 .. m - 1 /\ i \in 0 .. m - 1
      BY <2>3
    <3>2. g[i] = f[i] /\ f[i] = step[i, f[i - 1]]
      BY <1>6, <3>1 DEF RunOf
    <3> QED BY <2>1, <3>2
  <2> QED BY <2>2, <2>3
<1> QED BY <1>5, <1>9, <1>10 DEF RunOf

\* So there is one of any length.
LEMMA RunExists ==
  ASSUME NEW S, NEW start \in S, NEW n \in Nat, NEW step \in [(1 .. n) \X S -> S]
  PROVE  \E f \in [0 .. n -> S] : RunOf(f, start, step, n)
<1> DEFINE P == {m \in 0 .. n : \E f \in [0 .. m -> S] : RunOf(f, start, step, m)}
<1>1. 0 \in P
  <2> DEFINE f == [i \in 0 .. 0 |-> start]
  <2>1. f \in [0 .. 0 -> S] /\ f[0] = start
    OBVIOUS
  <2> HIDE DEF f
  <2>2. RunOf(f, start, step, 0)
    BY <2>1 DEF RunOf
  <2> QED BY <2>1, <2>2
<1>2. ASSUME NEW m \in 1 .. n, m - 1 \in P PROVE m \in P
  <2>1. PICK f \in [0 .. m - 1 -> S] : RunOf(f, start, step, m - 1)
    BY <1>2
  <2>2. \E g \in [0 .. m -> S] : RunOf(g, start, step, m)
    BY <2>1, RunGrows
  <2> QED BY <2>2
<1>3. n \in P
  <2> HIDE DEF P
  <2> QED BY <1>1, <1>2, Positions
<1> QED BY <1>3

-----------------------------------------------------------------------------
(* What is in the channel, chunk by chunk. *)

\* f holds, for each number of chunks, what the first of them hold.
Joins(f, chunks) ==
  /\ DOMAIN f = 0 .. Len(chunks)
  /\ f[0] = <<>>
  /\ \A i \in 1 .. Len(chunks) : f[i] = f[i - 1] \o chunks[i]

\* There is one.
LEMMA JoinsExists ==
  ASSUME NEW X, NEW chunks \in Seq(Seq(X))
  PROVE  \E f \in [0 .. Len(chunks) -> Seq(X)] : Joins(f, chunks)
<1> DEFINE n == Len(chunks)
           step == [a \in (1 .. n) \X Seq(X) |-> a[2] \o chunks[a[1]]]
<1>1. <<>> \in Seq(X) /\ n \in Nat
  OBVIOUS
<1>2. step \in [(1 .. n) \X Seq(X) -> Seq(X)]
  <2>1. ASSUME NEW a \in (1 .. n) \X Seq(X) PROVE a[2] \o chunks[a[1]] \in Seq(X)
    <3>1. a[1] \in 1 .. n /\ a[2] \in Seq(X)
      OBVIOUS
    <3>2. chunks[a[1]] \in Seq(X)
      BY <3>1
    <3> QED BY <3>1, <3>2
  <2> QED BY <2>1
<1>3. PICK f \in [0 .. n -> Seq(X)] : RunOf(f, <<>>, step, n)
  <2> HIDE DEF step
  <2> QED BY <1>1, <1>2, RunExists
<1>4. ASSUME NEW i \in 1 .. n PROVE f[i] = f[i - 1] \o chunks[i]
  <2>1. i - 1 \in 0 .. n
    OBVIOUS
  <2>2. f[i - 1] \in Seq(X)
    BY <2>1
  <2>3. <<i, f[i - 1]>> \in (1 .. n) \X Seq(X)
    BY <2>2
  <2>4. step[i, f[i - 1]] = f[i - 1] \o chunks[i]
    BY <2>3
  <2>5. f[i] = step[i, f[i - 1]]
    BY <1>3 DEF RunOf
  <2> QED BY <2>4, <2>5
<1>5. f[0] = <<>>
  BY <1>3 DEF RunOf
<1> HIDE DEF step
<1> QED BY <1>4, <1>5 DEF Joins

\* FlattenSeq is the last of any of these.
LEMMA Joined ==
  ASSUME NEW X, NEW chunks \in Seq(Seq(X)), NEW f, Joins(f, chunks)
  PROVE  Station!FlattenSeq(chunks) = f[Len(chunks)]
<1> DEFINE n == Len(chunks)
           Is(g) == g = [i \in 1 .. n |-> IF i = 1 THEN chunks[i] ELSE g[i - 1] \o chunks[i]]
           c == CHOOSE g : Is(g)
           h == [i \in 1 .. n |-> f[i]]
<1>1. CASE n = 0
  <2>1. Station!FlattenSeq(chunks) = chunks /\ chunks = <<>>
    BY <1>1 DEF Station!FlattenSeq
  <2> QED BY <1>1, <2>1 DEF Joins
<1>2. CASE n # 0
  <2>1. Station!FlattenSeq(chunks) = c[n]
    BY <1>2 DEF Station!FlattenSeq
  <2>2. ASSUME NEW i \in 1 .. n
        PROVE  h[i] = IF i = 1 THEN chunks[i] ELSE h[i - 1] \o chunks[i]
    <3>0. f[i] = f[i - 1] \o chunks[i]
      BY DEF Joins
    <3>1. f[i] = f[i - 1] \o chunks[i] /\ chunks[i] \in Seq(X)
      BY <3>0
    <3>2. CASE i = 1
      <4>1. f[0] = <<>> /\ i - 1 = 0
        BY <3>2 DEF Joins
      <4>2. f[i] = <<>> \o chunks[i]
        BY <3>1, <4>1
      <4> QED BY <3>1, <3>2, <4>2
    <3>3. CASE i # 1
      <4>1. i - 1 \in 1 .. n
        BY <3>3
      <4> QED BY <3>1, <3>3, <4>1
    <3> QED BY <3>2, <3>3
  <2>3. Is(h)
    <3> HIDE DEF h
    <3>1. h = [i \in 1 .. n |-> h[i]]
      BY DEF h
    <3> QED BY <2>2, <3>1
  <2>4. Is(c)
    <3> HIDE DEF h
    <3> QED BY <2>3
  <2> HIDE DEF c
  <2>5. \A i \in 1 .. n : c[i] = IF i = 1 THEN chunks[i] ELSE c[i - 1] \o chunks[i]
    BY <2>4
  <2> DEFINE P == {0} \cup {i \in 1 .. n : c[i] = h[i]}
  <2>6. ASSUME NEW i \in 1 .. n, i - 1 \in P PROVE i \in P
    <3>1. i = 1 \/ c[i - 1] = h[i - 1]
      BY <2>6
    <3> HIDE DEF h
    <3> QED BY <2>2, <2>5, <3>1
  <2>7. n \in P
    <3>1. 0 \in P
      OBVIOUS
    <3> HIDE DEF P
    <3>2. n \in Nat /\ n \in 0 .. n
      OBVIOUS
    <3> HIDE DEF n
    <3>3. 0 .. n \subseteq P
      BY <2>6, <3>1, <3>2, Positions
    <3> QED BY <3>2, <3>3
  <2>8. n \in 1 .. n
    BY <1>2
  <2> QED BY <1>2, <2>1, <2>7, <2>8
<1> QED BY <1>1, <1>2

\* What the chunks hold is a sequence of what they are made of.
LEMMA JoinedType ==
  ASSUME NEW X, NEW chunks \in Seq(Seq(X))
  PROVE  Station!FlattenSeq(chunks) \in Seq(X)
<1>1. PICK f \in [0 .. Len(chunks) -> Seq(X)] : Joins(f, chunks)
  BY JoinsExists
<1>2. Station!FlattenSeq(chunks) = f[Len(chunks)]
  BY <1>1, Joined
<1>3. Len(chunks) \in 0 .. Len(chunks)
  OBVIOUS
<1> QED BY <1>2, <1>3

\* Nothing is under way in no chunks.
LEMMA JoinedNone ==
  Station!FlattenSeq(<<>>) = <<>>
BY DEF Station!FlattenSeq

\* A chunk more at the end.
LEMMA JoinedAppend ==
  ASSUME NEW X, NEW chunks \in Seq(Seq(X)), NEW chunk \in Seq(X)
  PROVE  Station!FlattenSeq(Append(chunks, chunk)) = Station!FlattenSeq(chunks) \o chunk
<1> DEFINE n == Len(chunks)
           more == Append(chunks, chunk)
<1>1. /\ n \in Nat /\ more \in Seq(Seq(X)) /\ Len(more) = n + 1 /\ more[n + 1] = chunk
      /\ \A i \in 1 .. n : more[i] = chunks[i]
  OBVIOUS
<1>2. PICK f \in [0 .. n -> Seq(X)] : Joins(f, chunks)
  BY JoinsExists
<1>3. PICK g \in [0 .. Len(more) -> Seq(X)] : Joins(g, more)
  BY <1>1, JoinsExists
<1> HIDE DEF more
<1>4. n \in {i \in 0 .. n : f[i] = g[i]}
  <2> DEFINE P == {i \in 0 .. n : f[i] = g[i]}
  <2>1. 0 \in P
    <3>1. 0 \in 0 .. n /\ f[0] = <<>> /\ g[0] = <<>>
      BY <1>1, <1>2, <1>3 DEF Joins
    <3> QED BY <3>1
  <2>2. ASSUME NEW i \in 1 .. n, i - 1 \in P PROVE i \in P
    <3>1. i \in 0 .. n /\ i \in 1 .. n + 1 /\ f[i - 1] = g[i - 1] /\ more[i] = chunks[i]
      BY <1>1, <2>2
    <3>2. f[i] = f[i - 1] \o chunks[i] /\ g[i] = g[i - 1] \o more[i]
      BY <1>1, <1>2, <1>3, <3>1 DEF Joins
    <3>3. f[i] = g[i]
      BY <3>1, <3>2
    <3> QED BY <3>1, <3>3
  <2>3. n \in 0 .. n
    BY <1>1
  <2> HIDE DEF P, n
  <2>4. 0 .. n \subseteq P
    BY <1>1, <2>1, <2>2, Positions
  <2> QED BY <2>3, <2>4 DEF P, n
<1>5. g[n + 1] = g[n] \o chunk
  <2>1. n + 1 \in 1 .. Len(more) /\ (n + 1) - 1 = n
    BY <1>1
  <2>2. g[n + 1] = g[(n + 1) - 1] \o more[n + 1]
    BY <1>3, <2>1 DEF Joins
  <2> QED BY <1>1, <2>1, <2>2
<1>6. Station!FlattenSeq(chunks) = f[n] /\ Station!FlattenSeq(more) = g[n + 1]
  BY <1>1, <1>2, <1>3, Joined
<1>7. Station!FlattenSeq(more) = Station!FlattenSeq(chunks) \o chunk
  BY <1>4, <1>5, <1>6
<1> QED BY <1>7 DEF more

\* A chunk less in front.
LEMMA JoinedTail ==
  ASSUME NEW X, NEW chunks \in Seq(Seq(X)), chunks # <<>>
  PROVE  Station!FlattenSeq(chunks) = Head(chunks) \o Station!FlattenSeq(Tail(chunks))
<1>1. ASSUME NEW s \in Seq(X), NEW t \in Seq(X), NEW u \in Seq(X)
      PROVE  s \o (t \o u) = (s \o t) \o u
  BY Associates
<1> DEFINE n == Len(chunks)
           rest == Tail(chunks)
           first == Head(chunks)
<1>2. /\ n \in Nat \ {0} /\ rest \in Seq(Seq(X)) /\ Len(rest) = n - 1
      /\ first = chunks[1] /\ first \in Seq(X)
      /\ \A i \in 1 .. n - 1 : rest[i] = chunks[i + 1]
  OBVIOUS
<1> HIDE DEF rest, first
<1>3. PICK f \in [0 .. n - 1 -> Seq(X)] : Joins(f, rest)
  BY <1>2, JoinsExists
<1> DEFINE g == [i \in 0 .. n |-> IF i = 0 THEN <<>> ELSE first \o f[i - 1]]
<1>4. Joins(g, chunks)
  <2>1. DOMAIN g = 0 .. n /\ 0 \in 0 .. n /\ g[0] = <<>>
    BY <1>2
  <2>2. ASSUME NEW i \in 1 .. n PROVE g[i] = first \o f[i - 1]
    <3>1. i \in 0 .. n /\ i # 0
      BY <1>2
    <3> QED BY <3>1
  <2>3. ASSUME NEW i \in 1 .. n PROVE g[i] = g[i - 1] \o chunks[i]
    <3>1. CASE i = 1
      <4>1. i - 1 = 0 /\ f[i - 1] = <<>>
        BY <1>3, <3>1 DEF Joins
      <4>2. g[i] = first \o <<>> /\ g[i - 1] = <<>>
        <5>1. g[i] = first \o f[i - 1]
          BY <2>2
        <5> QED BY <2>1, <4>1, <5>1
      <4> QED BY <1>2, <3>1, <4>2
    <3>2. CASE i # 1
      <4>1. i - 1 \in 1 .. n /\ i - 1 \in 1 .. n - 1 /\ i - 2 \in 0 .. n - 1 /\ (i - 1) - 1 = i - 2
            /\ (i - 1) + 1 = i
        BY <1>2, <3>2
      <4>2. f[i - 1] = f[(i - 1) - 1] \o rest[i - 1]
        BY <1>2, <1>3, <4>1 DEF Joins
      <4>3. rest[i - 1] = chunks[(i - 1) + 1]
        BY <1>2, <4>1
      <4>4. g[i] = first \o f[i - 1] /\ g[i - 1] = first \o f[(i - 1) - 1]
        BY <2>2, <4>1
      <4> HIDE DEF g
      <4>5. f[i - 2] \in Seq(X) /\ chunks[i] \in Seq(X)
        <5>1. f[i - 2] \in Seq(X)
          BY <4>1
        <5>2. chunks[i] \in Seq(X)
          OBVIOUS
        <5> QED BY <5>1, <5>2
      <4>6. first \o (f[i - 2] \o chunks[i]) = (first \o f[i - 2]) \o chunks[i]
        <5>1. first \in Seq(X)
          BY <1>2
        <5> QED BY <1>1, <4>5, <5>1
      <4> QED BY <4>1, <4>2, <4>3, <4>4, <4>6
    <3> QED BY <3>1, <3>2
  <2> HIDE DEF g
  <2> QED BY <2>1, <2>3 DEF Joins
<1>5. g[n] = first \o f[n - 1]
  <2>1. n \in 0 .. n /\ n # 0
    BY <1>2
  <2> QED BY <2>1
<1> HIDE DEF g
<1>6. Station!FlattenSeq(chunks) = g[n] /\ Station!FlattenSeq(rest) = f[n - 1]
  BY <1>2, <1>3, <1>4, Joined
<1>7. Station!FlattenSeq(chunks) = first \o Station!FlattenSeq(rest)
  BY <1>5, <1>6
<1> QED BY <1>7 DEF rest, first

-----------------------------------------------------------------------------
(* The parser, a byte at a time. *)

Byte == {b \in {"audio", "length", "meta", "end"} \X Nat : b[1] = "end" => b[2] \in Titles}
Parsers ==
  {p \in [interval : Nat, mode : {"audio", "length", "meta"}, left : Nat, block : Seq(Byte)] :
     p.interval # 0 /\ p.mode # "length" => p.left # 0}
ParserOf(interval, mode, left, block) ==
  [interval |-> interval, mode |-> mode, left |-> left, block |-> block]
Parsed == [p : Parsers, audio : Seq(Byte), blocks : Seq(Seq(Byte))]
ParsedAs(p, audio, blocks) == [p |-> p, audio |-> audio, blocks |-> blocks]

\* A parser with what it has found, part by part.
LEMMA ParserParts ==
  ASSUME NEW s \in Parsed
  PROVE  /\ s.p.interval \in Nat /\ s.p.mode \in {"audio", "length", "meta"}
         /\ s.p.left \in Nat /\ s.p.block \in Seq(Byte)
         /\ s.p = ParserOf(s.p.interval, s.p.mode, s.p.left, s.p.block)
         /\ s = ParsedAs(s.p, s.audio, s.blocks)
         /\ s.audio \in Seq(Byte) /\ s.blocks \in Seq(Seq(Byte))
         /\ s.p.interval # 0 /\ s.p.mode # "length" => s.p.left # 0
BY DEF Parsed, Parsers, ParserOf, ParsedAs

\* The four arms, part by part.
LEMMA PassedThrough ==
  ASSUME NEW s \in Parsed, NEW b \in Byte, s.p.interval = 0
  PROVE  Station!OneByte(s, b) = ParsedAs(s.p, Append(s.audio, b), s.blocks)
<1>1. Station!OneByte(s, b) = [s EXCEPT !.audio = Append(@, b)]
  BY DEF Station!OneByte
<1> QED BY <1>1 DEF ParsedAs, Parsed

\* A byte of audio.
LEMMA AudioByte ==
  ASSUME NEW s \in Parsed, NEW b \in Byte, s.p.interval # 0, s.p.mode = "audio"
  PROVE  Station!OneByte(s, b) =
           ParsedAs(ParserOf(s.p.interval, IF s.p.left = 1 THEN "length" ELSE "audio",
                             s.p.left - 1, s.p.block),
                    Append(s.audio, b), s.blocks)
<1>1. Station!OneByte(s, b) = Station!InAudio(s, b)
  BY DEF Station!OneByte
<1> QED BY <1>1, ParserParts DEF Station!InAudio, ParsedAs, ParserOf, Parsed, Parsers

\* The length of a block.
LEMMA LengthByte ==
  ASSUME NEW s \in Parsed, NEW b \in Byte, s.p.interval # 0, s.p.mode = "length"
  PROVE  Station!OneByte(s, b) =
           ParsedAs(IF b[2] = 0
                    THEN ParserOf(s.p.interval, "audio", s.p.interval, s.p.block)
                    ELSE ParserOf(s.p.interval, "meta", b[2] * Stride, <<>>),
                    s.audio, s.blocks)
<1> DEFINE Of(m, l, k) == ParsedAs(ParserOf(s.p.interval, m, l, k), s.audio, s.blocks)
           s0 == Of(s.p.mode, s.p.left, s.p.block)
<1>1. Station!OneByte(s, b) = Station!InLength(s, b)
  BY DEF Station!OneByte
<1>2. s = s0
  BY ParserParts
<1>3. CASE b[2] = 0
  <2> DEFINE s1 == Of("audio", s.p.left, s.p.block)
             s2 == Of("audio", s.p.interval, s.p.block)
  <2>1. [s0 EXCEPT !.p.mode = "audio"] = s1
    BY DEF ParsedAs, ParserOf
  <2>2. [s1 EXCEPT !.p.left = s.p.interval] = s2
    BY DEF ParsedAs, ParserOf
  <2>3. Station!InLength(s, b) = [s EXCEPT !.p.mode = "audio", !.p.left = s.p.interval]
    BY <1>3 DEF Station!InLength
  <2> HIDE DEF s0, s1, s2
  <2>4. Station!OneByte(s, b) = s2
    BY <1>1, <1>2, <2>1, <2>2, <2>3
  <2> QED BY <1>3, <2>4 DEF s2
<1>4. CASE b[2] # 0
  <2> DEFINE n == b[2] * Stride
             s1 == Of("meta", s.p.left, s.p.block)
             s2 == Of("meta", n, s.p.block)
             s3 == Of("meta", n, <<>>)
  <2>1. Station!InLength(s, b) = [s EXCEPT !.p.mode = "meta", !.p.left = n, !.p.block = <<>>]
    BY <1>4 DEF Station!InLength
  <2> HIDE DEF n
  <2>2. [s0 EXCEPT !.p.mode = "meta"] = s1
    BY DEF ParsedAs, ParserOf
  <2>3. [s1 EXCEPT !.p.left = n] = s2
    BY DEF ParsedAs, ParserOf
  <2>4. [s2 EXCEPT !.p.block = <<>>] = s3
    BY DEF ParsedAs, ParserOf
  <2> HIDE DEF s0, s1, s2, s3
  <2>5. Station!OneByte(s, b) = s3
    BY <1>1, <1>2, <2>1, <2>2, <2>3, <2>4
  <2> QED BY <1>4, <2>5 DEF s3, n
<1> QED BY <1>3, <1>4

\* A byte of a block.
LEMMA MetaByte ==
  ASSUME NEW s \in Parsed, NEW b \in Byte, s.p.interval # 0, s.p.mode = "meta"
  PROVE  Station!OneByte(s, b) =
           IF s.p.left > 1
           THEN ParsedAs(ParserOf(s.p.interval, "meta", s.p.left - 1, Append(s.p.block, b)),
                         s.audio, s.blocks)
           ELSE ParsedAs(ParserOf(s.p.interval, "audio", s.p.interval, <<>>),
                         s.audio, Append(s.blocks, Append(s.p.block, b)))
<1> DEFINE Of(m, l, k, blocks) == ParsedAs(ParserOf(s.p.interval, m, l, k), s.audio, blocks)
           s0 == Of(s.p.mode, s.p.left, s.p.block, s.blocks)
<1>1. Station!OneByte(s, b) = Station!InMeta(s, b)
  BY DEF Station!OneByte
<1>2. s = s0
  BY ParserParts
<1>3. CASE s.p.left > 1
  <2> DEFINE l == s.p.left - 1
             k == Append(s.p.block, b)
             s1 == Of(s.p.mode, l, s.p.block, s.blocks)
             s2 == Of(s.p.mode, l, k, s.blocks)
  <2>1. Station!InMeta(s, b) = [s EXCEPT !.p.left = l, !.p.block = k]
    BY <1>3 DEF Station!InMeta
  <2> HIDE DEF l, k
  <2>2. [s0 EXCEPT !.p.left = l] = s1
    BY DEF ParsedAs, ParserOf
  <2>3. [s1 EXCEPT !.p.block = k] = s2
    BY DEF ParsedAs, ParserOf
  <2> HIDE DEF s0, s1, s2
  <2>4. Station!OneByte(s, b) = s2
    BY <1>1, <1>2, <2>1, <2>2, <2>3
  <2> QED BY <1>3, <2>4 DEF s2, l, k
<1>4. CASE ~ (s.p.left > 1)
  <2> DEFINE u == Append(s.blocks, Append(s.p.block, b))
             s1 == Of("audio", s.p.left, s.p.block, s.blocks)
             s2 == Of("audio", s.p.interval, s.p.block, s.blocks)
             s3 == Of("audio", s.p.interval, <<>>, s.blocks)
             s4 == Of("audio", s.p.interval, <<>>, u)
  <2>1. Station!InMeta(s, b) =
          [s EXCEPT !.p.mode = "audio", !.p.left = s.p.interval, !.p.block = <<>>, !.blocks = u]
    BY <1>4 DEF Station!InMeta
  <2> HIDE DEF u
  <2>2. [s0 EXCEPT !.p.mode = "audio"] = s1
    BY DEF ParsedAs, ParserOf
  <2>3. [s1 EXCEPT !.p.left = s.p.interval] = s2
    BY DEF ParsedAs, ParserOf
  <2>4. [s2 EXCEPT !.p.block = <<>>] = s3
    BY DEF ParsedAs, ParserOf
  <2>5. [s3 EXCEPT !.blocks = u] = s4
    BY DEF ParsedAs, ParserOf
  <2> HIDE DEF s0, s1, s2, s3, s4
  <2>6. Station!OneByte(s, b) = s4
    BY <1>1, <1>2, <2>1, <2>2, <2>3, <2>4, <2>5
  <2> QED BY <1>4, <2>6 DEF s4, u
<1> QED BY <1>3, <1>4

\* A byte leaves a parser, its audio and its blocks as they should be, and what becomes of
\* the parser does not depend on what it has passed on.
Untouched(p) == ParsedAs(p, <<>>, <<>>)
After(p, b) == Station!OneByte(Untouched(p), b).p

\* A parser that has found nothing yet.
LEMMA UntouchedParsed ==
  ASSUME NEW p \in Parsers
  PROVE  Untouched(p) \in Parsed /\ Untouched(p).p = p
BY DEF Untouched, ParsedAs, Parsed

\* What has the parts of a parser is one.
LEMMA PartsParsed ==
  ASSUME NEW i \in Nat, NEW m \in {"audio", "length", "meta"}, NEW l \in Nat, NEW k \in Seq(Byte),
         NEW audio \in Seq(Byte), NEW blocks \in Seq(Seq(Byte)), i # 0 /\ m # "length" => l # 0
  PROVE  /\ ParserOf(i, m, l, k) \in Parsers
         /\ ParsedAs(ParserOf(i, m, l, k), audio, blocks) \in Parsed
         /\ ParsedAs(ParserOf(i, m, l, k), audio, blocks).p = ParserOf(i, m, l, k)
BY DEF ParserOf, ParsedAs, Parsed, Parsers

\* A byte leaves a parser, and which one does not depend on what was found before.
LEMMA OneByteTypes ==
  ASSUME NEW s \in Parsed, NEW b \in Byte
  PROVE  /\ Station!OneByte(s, b) \in Parsed
         /\ Station!OneByte(s, b).p = After(s.p, b)
         /\ After(s.p, b) \in Parsers
<1> DEFINE f == Untouched(s.p)
<1>1. f \in Parsed /\ f.p = s.p /\ s.p \in Parsers
  BY UntouchedParsed DEF Parsed
<1>2. /\ s.p.interval \in Nat /\ s.p.left \in Nat /\ s.p.block \in Seq(Byte)
      /\ s.audio \in Seq(Byte) /\ s.blocks \in Seq(Seq(Byte))
      /\ f.audio \in Seq(Byte) /\ f.blocks \in Seq(Seq(Byte))
      /\ s.p.mode \in {"audio", "length", "meta"}
      /\ s.p.interval # 0 /\ s.p.mode # "length" => s.p.left # 0
      /\ s.p = ParserOf(s.p.interval, s.p.mode, s.p.left, s.p.block)
  BY <1>1, ParserParts
<1>3. Append(s.audio, b) \in Seq(Byte) /\ Append(f.audio, b) \in Seq(Byte)
      /\ Append(s.p.block, b) \in Seq(Byte)
      /\ Append(s.blocks, Append(s.p.block, b)) \in Seq(Seq(Byte))
      /\ Append(f.blocks, Append(s.p.block, b)) \in Seq(Seq(Byte)) /\ <<>> \in Seq(Byte)
  BY <1>2
<1> HIDE DEF f
<1>4. CASE s.p.interval = 0
  <2>1. /\ Station!OneByte(s, b) = ParsedAs(s.p, Append(s.audio, b), s.blocks)
        /\ Station!OneByte(f, b) = ParsedAs(s.p, Append(f.audio, b), f.blocks)
    BY <1>1, <1>4, PassedThrough
  <2> QED BY <1>1, <1>3, <2>1 DEF ParsedAs, Parsed, After, f
<1>5. ASSUME NEW q \in Parsers, NEW a \in Seq(Byte), NEW c \in Seq(Seq(Byte)),
             NEW a1, NEW c1,
             Station!OneByte(s, b) = ParsedAs(q, a, c), Station!OneByte(f, b) = ParsedAs(q, a1, c1)
      PROVE  /\ Station!OneByte(s, b) \in Parsed
             /\ Station!OneByte(s, b).p = After(s.p, b)
             /\ After(s.p, b) \in Parsers
  <2>1. ParsedAs(q, a, c) \in Parsed /\ ParsedAs(q, a, c).p = q /\ ParsedAs(q, a1, c1).p = q
    BY DEF ParsedAs, Parsed
  <2>2. After(s.p, b) = q
    BY <1>5, <2>1 DEF After, f
  <2> QED BY <1>5, <2>1, <2>2
<1>6. CASE s.p.interval # 0 /\ s.p.mode = "audio"
  <2> DEFINE m == IF s.p.left = 1 THEN "length" ELSE "audio"
             q == ParserOf(s.p.interval, m, s.p.left - 1, s.p.block)
  <2>1. /\ Station!OneByte(s, b) = ParsedAs(q, Append(s.audio, b), s.blocks)
        /\ Station!OneByte(f, b) = ParsedAs(q, Append(f.audio, b), f.blocks)
    BY <1>1, <1>6, AudioByte
  <2>2. m \in {"audio", "length", "meta"} /\ s.p.left - 1 \in Nat
        /\ (m # "length" => s.p.left - 1 # 0)
    BY <1>2, <1>6
  <2> HIDE DEF m
  <2>3. q \in Parsers
    BY <1>2, <2>2, PartsParsed
  <2> HIDE DEF q
  <2> QED BY <1>2, <1>3, <1>5, <2>1, <2>3
<1>7. CASE s.p.interval # 0 /\ s.p.mode = "length" /\ b[2] = 0
  <2> DEFINE q == ParserOf(s.p.interval, "audio", s.p.interval, s.p.block)
  <2>1. /\ Station!OneByte(s, b) = ParsedAs(q, s.audio, s.blocks)
        /\ Station!OneByte(f, b) = ParsedAs(q, f.audio, f.blocks)
    BY <1>1, <1>7, LengthByte
  <2>2. q \in Parsers
    BY <1>2, <1>7, PartsParsed
  <2> HIDE DEF q
  <2> QED BY <1>2, <1>5, <2>1, <2>2
<1>8. CASE s.p.interval # 0 /\ s.p.mode = "length" /\ b[2] # 0
  <2> DEFINE n == b[2] * Stride
             q == ParserOf(s.p.interval, "meta", n, <<>>)
  <2>1. n \in Nat \ {0}
    <3>1. b[2] \in Nat \ {0} /\ Stride \in Nat \ {0}
      BY <1>8, StationAssumption DEF Byte
    <3>2. \A x, y \in Nat \ {0} : x * y \in Nat \ {0}
      OBVIOUS
    <3> QED BY <3>1, <3>2
  <2>2. /\ Station!OneByte(s, b) = ParsedAs(q, s.audio, s.blocks)
        /\ Station!OneByte(f, b) = ParsedAs(q, f.audio, f.blocks)
    BY <1>1, <1>8, LengthByte
  <2> HIDE DEF n
  <2>3. q \in Parsers
    BY <1>2, <1>3, <2>1, PartsParsed
  <2> HIDE DEF q
  <2> QED BY <1>2, <1>5, <2>2, <2>3
<1>9. CASE s.p.interval # 0 /\ s.p.mode = "meta" /\ s.p.left > 1
  <2> DEFINE q == ParserOf(s.p.interval, "meta", s.p.left - 1, Append(s.p.block, b))
  <2>1. /\ Station!OneByte(s, b) = ParsedAs(q, s.audio, s.blocks)
        /\ Station!OneByte(f, b) = ParsedAs(q, f.audio, f.blocks)
    BY <1>1, <1>9, MetaByte
  <2>2. s.p.left - 1 \in Nat \ {0}
    BY <1>2, <1>9
  <2>3. q \in Parsers
    BY <1>2, <1>3, <2>2, PartsParsed
  <2> HIDE DEF q
  <2> QED BY <1>2, <1>5, <2>1, <2>3
<1>10. CASE s.p.interval # 0 /\ s.p.mode = "meta" /\ ~ (s.p.left > 1)
  <2> DEFINE q == ParserOf(s.p.interval, "audio", s.p.interval, <<>>)
  <2>1. /\ Station!OneByte(s, b) = ParsedAs(q, s.audio, Append(s.blocks, Append(s.p.block, b)))
        /\ Station!OneByte(f, b) = ParsedAs(q, f.audio, Append(f.blocks, Append(s.p.block, b)))
    BY <1>1, <1>10, MetaByte
  <2>2. q \in Parsers
    BY <1>2, <1>3, <1>10, PartsParsed
  <2> HIDE DEF q
  <2> QED BY <1>2, <1>3, <1>5, <2>1, <2>2
<1> QED BY <1>2, <1>4, <1>6, <1>7, <1>8, <1>9, <1>10

\* The byte is what a parser in this state takes it for.
Expects(p, b) ==
  /\ p.interval = 0 \/ p.mode = "audio" => b[1] = "audio"
  /\ p.interval # 0 /\ p.mode = "length" => b[1] = "length"
  /\ p.interval # 0 /\ p.mode = "meta" =>
       /\ b[1] = IF p.left = 1 THEN "end" ELSE "meta"
       /\ p.block # <<>> => p.block[1][2] = b[2]

\* Audio is passed on, a byte that ends a block has its title, and no other byte is anything.
LEMMA ExpectedByte ==
  ASSUME NEW s \in Parsed, NEW b \in Byte, Expects(s.p, b)
  PROVE  /\ Station!OneByte(s, b).audio =
              IF b[1] = "audio" THEN Append(s.audio, b) ELSE s.audio
         /\ b[1] # "end" => Station!OneByte(s, b).blocks = s.blocks
         /\ b[1] = "end" => \E k \in Seq(Byte) :
              /\ Station!OneByte(s, b).blocks = Append(s.blocks, k)
              /\ Station!TitleOf(k) = b[2]
<1>1. /\ s.p.interval \in Nat /\ s.p.left \in Nat /\ s.p.block \in Seq(Byte)
      /\ s.p.mode \in {"audio", "length", "meta"}
      /\ s.p.interval # 0 /\ s.p.mode # "length" => s.p.left # 0
  BY ParserParts
<1>2. CASE s.p.interval = 0
  <2>1. b[1] = "audio"
    BY <1>2 DEF Expects
  <2>2. Station!OneByte(s, b) = ParsedAs(s.p, Append(s.audio, b), s.blocks)
    BY <1>2, PassedThrough
  <2> QED BY <2>1, <2>2 DEF ParsedAs
<1>3. CASE s.p.interval # 0 /\ s.p.mode = "audio"
  <2>1. b[1] = "audio"
    BY <1>3 DEF Expects
  <2> QED BY <1>3, <2>1, AudioByte DEF ParsedAs
<1>4. CASE s.p.interval # 0 /\ s.p.mode = "length"
  <2>1. b[1] = "length"
    BY <1>4 DEF Expects
  <2> QED BY <1>4, <2>1, LengthByte DEF ParsedAs
<1>5. CASE s.p.interval # 0 /\ s.p.mode = "meta" /\ s.p.left > 1
  <2>1. b[1] = "meta"
    BY <1>1, <1>5 DEF Expects
  <2> QED BY <1>5, <2>1, MetaByte DEF ParsedAs
<1>6. CASE s.p.interval # 0 /\ s.p.mode = "meta" /\ ~ (s.p.left > 1)
  <2>1. s.p.left = 1
    BY <1>1, <1>6
  <2>2. b[1] = "end" /\ (s.p.block # <<>> => s.p.block[1][2] = b[2])
    BY <1>6, <2>1 DEF Expects
  <2> DEFINE k == Append(s.p.block, b)
  <2>3. Station!OneByte(s, b) =
          ParsedAs(ParserOf(s.p.interval, "audio", s.p.interval, <<>>), s.audio, Append(s.blocks, k))
    BY <1>6, MetaByte
  <2>4. k \in Seq(Byte) /\ k[1] = IF s.p.block = <<>> THEN b ELSE s.p.block[1]
    BY <1>1
  <2>5. Station!TitleOf(k) = b[2]
    BY <2>2, <2>4 DEF Station!TitleOf
  <2> HIDE DEF k
  <2> QED BY <2>2, <2>3, <2>4, <2>5 DEF ParsedAs
<1> QED BY <1>1, <1>2, <1>3, <1>4, <1>5, <1>6

-----------------------------------------------------------------------------
(* A parser on its way over bytes that are what it takes them for. *)

Trace(t, p, w) ==
  /\ t \in [0 .. Len(w) -> Parsers]
  /\ t[0] = p
  /\ \A i \in 1 .. Len(w) : Expects(t[i - 1], w[i]) /\ t[i] = After(t[i - 1], w[i])
Leads(p, w, q) == \E t : Trace(t, p, w) /\ t[Len(w)] = q

\* No bytes lead a parser nowhere.
LEMMA LeadsNowhere ==
  ASSUME NEW p \in Parsers
  PROVE  Leads(p, <<>>, p)
<1> DEFINE t == [i \in 0 .. 0 |-> p]
<1>1. t \in [0 .. Len(<<>>) -> Parsers] /\ t[0] = p /\ Len(<<>>) = 0 /\ 1 .. 0 = {}
  OBVIOUS
<1> HIDE DEF t
<1>2. Trace(t, p, <<>>) /\ t[Len(<<>>)] = p
  BY <1>1 DEF Trace
<1> QED BY <1>2 DEF Leads

\* A byte leads to a parser.
LEMMA AfterTypes ==
  ASSUME NEW p \in Parsers, NEW b \in Byte
  PROVE  After(p, b) \in Parsers
<1>1. Untouched(p) \in Parsed /\ Untouched(p).p = p
  BY UntouchedParsed
<1> QED BY <1>1, OneByteTypes

\* A byte that fits leads to the parser after it.
LEMMA LeadsOne ==
  ASSUME NEW p \in Parsers, NEW b \in Byte, Expects(p, b)
  PROVE  Leads(p, <<b>>, After(p, b))
<1> DEFINE t == [i \in 0 .. 1 |-> IF i = 0 THEN p ELSE After(p, b)]
           w == <<b>>
<1>1. After(p, b) \in Parsers
  BY AfterTypes
<1>2. Len(w) = 1 /\ w[1] = b
  OBVIOUS
<1>3. t \in [0 .. 1 -> Parsers] /\ t[0] = p /\ t[1] = After(p, b)
  BY <1>1
<1> HIDE DEF t, w
<1>4. ASSUME NEW i \in 1 .. Len(w) PROVE Expects(t[i - 1], w[i]) /\ t[i] = After(t[i - 1], w[i])
  <2>1. i = 1 /\ i - 1 = 0
    BY <1>2
  <2> QED BY <1>2, <1>3, <2>1
<1>5. Trace(t, p, w) /\ t[Len(w)] = After(p, b)
  BY <1>2, <1>3, <1>4 DEF Trace
<1>6. Leads(p, w, After(p, b))
  BY <1>5 DEF Leads
<1> QED BY <1>6 DEF w

\* Bytes, and then others.
LEMMA LeadsOn ==
  ASSUME NEW p, NEW q, NEW r, NEW w \in Seq(Byte), NEW v \in Seq(Byte),
         Leads(p, w, q), Leads(q, v, r)
  PROVE  Leads(p, w \o v, r)
<1> DEFINE n == Len(w)
           m == Len(v)
           x == w \o v
<1>1. PICK t : Trace(t, p, w) /\ t[n] = q
  BY DEF Leads
<1>2. PICK u : Trace(u, q, v) /\ u[m] = r
  BY DEF Leads
<1>3. /\ n \in Nat /\ m \in Nat /\ Len(x) = n + m
      /\ \A i \in 1 .. n : x[i] = w[i]
      /\ \A i \in n + 1 .. n + m : x[i] = v[i - n]
  OBVIOUS
<1> HIDE DEF n, m, x
<1>4. /\ t \in [0 .. n -> Parsers] /\ t[0] = p /\ t[n] = q
      /\ \A i \in 1 .. n : Expects(t[i - 1], w[i]) /\ t[i] = After(t[i - 1], w[i])
  BY <1>1 DEF Trace, n
<1>5. /\ u \in [0 .. m -> Parsers] /\ u[0] = q /\ u[m] = r
      /\ \A i \in 1 .. m : Expects(u[i - 1], v[i]) /\ u[i] = After(u[i - 1], v[i])
  BY <1>2 DEF Trace, m
<1> DEFINE f == [i \in 0 .. n + m |-> IF i <= n THEN t[i] ELSE u[i - n]]
<1>6. f \in [0 .. n + m -> Parsers]
  <2>1. ASSUME NEW i \in 0 .. n + m PROVE (IF i <= n THEN t[i] ELSE u[i - n]) \in Parsers
    <3>1. CASE i <= n
      <4>1. i \in 0 .. n
        BY <3>1, <1>3
      <4> QED BY <3>1, <4>1, <1>4
    <3>2. CASE ~ (i <= n)
      <4>1. i - n \in 0 .. m
        BY <3>2, <1>3
      <4> QED BY <3>2, <4>1, <1>5
    <3> QED BY <3>1, <3>2
  <2> QED BY <2>1
<1>7. \A i \in 0 .. n : f[i] = t[i]
  <2>1. \A i \in 0 .. n : i \in 0 .. n + m /\ i <= n
    BY <1>3
  <2> QED BY <2>1
<1>8. ASSUME NEW i \in n .. n + m PROVE f[i] = u[i - n]
  <2>1. i \in 0 .. n + m
    BY <1>3
  <2>2. f[i] = IF i <= n THEN t[i] ELSE u[i - n]
    BY <2>1
  <2>3. i <= n => i = n /\ i - n = 0
    BY <1>3
  <2> HIDE DEF f
  <2> QED BY <1>4, <1>5, <2>2, <2>3
<1> HIDE DEF f
<1>9. ASSUME NEW i \in 1 .. n + m PROVE Expects(f[i - 1], x[i]) /\ f[i] = After(f[i - 1], x[i])
  <2>1. CASE i <= n
    <3>1. i \in 1 .. n /\ i - 1 \in 0 .. n /\ i \in 0 .. n
      BY <1>3, <2>1
    <3>2. f[i] = t[i] /\ f[i - 1] = t[i - 1] /\ x[i] = w[i]
      BY <1>3, <1>7, <3>1
    <3> QED BY <1>4, <3>1, <3>2
  <2>2. CASE ~ (i <= n)
    <3>1. i \in n + 1 .. n + m /\ i - 1 \in n .. n + m /\ i \in n .. n + m /\ i - n \in 1 .. m
          /\ (i - 1) - n = (i - n) - 1
      BY <1>3, <2>2
    <3>2. f[i] = u[i - n] /\ f[i - 1] = u[(i - 1) - n] /\ x[i] = v[i - n]
      BY <1>3, <1>8, <3>1
    <3> QED BY <1>5, <3>1, <3>2
  <2> QED BY <2>1, <2>2
<1>10. f[0] = p /\ f[n + m] = r
  <2>1. 0 \in 0 .. n /\ n + m \in n .. n + m /\ (n + m) - n = m
    BY <1>3
  <2> QED BY <1>4, <1>5, <1>7, <1>8, <2>1
<1>11. Trace(f, p, x) /\ f[Len(x)] = r
  BY <1>3, <1>6, <1>9, <1>10 DEF Trace
<1>12. Leads(p, x, r)
  BY <1>11 DEF Leads
<1> QED BY <1>12 DEF x

\* Bytes that lead somewhere do so cut in two, anywhere.
LEMMA LeadsApart ==
  ASSUME NEW p, NEW q, NEW w \in Seq(Byte), NEW n \in 0 .. Len(w), Leads(p, w, q)
  PROVE  \E m \in Parsers : /\ Leads(p, SubSeq(w, 1, n), m)
                            /\ Leads(m, SubSeq(w, n + 1, Len(w)), q)
<1> DEFINE l == Len(w)
           x == SubSeq(w, 1, n)
           y == SubSeq(w, n + 1, l)
<1>1. PICK t : Trace(t, p, w) /\ t[l] = q
  BY DEF Leads
<1>2. /\ l \in Nat /\ n \in Nat /\ n <= l /\ Len(x) = n /\ Len(y) = l - n
      /\ \A i \in 1 .. n : x[i] = w[i]
      /\ \A i \in 1 .. l - n : y[i] = w[n + i]
  OBVIOUS
<1> HIDE DEF l, x, y
<1>3. /\ t \in [0 .. l -> Parsers] /\ t[0] = p /\ t[l] = q
      /\ \A i \in 1 .. l : Expects(t[i - 1], w[i]) /\ t[i] = After(t[i - 1], w[i])
  BY <1>1 DEF Trace, l
<1> DEFINE f == [i \in 0 .. n |-> t[i]]
           g == [i \in 0 .. l - n |-> t[n + i]]
<1>4. f \in [0 .. n -> Parsers] /\ \A i \in 0 .. n : f[i] = t[i]
  <2>1. \A i \in 0 .. n : i \in 0 .. l
    BY <1>2
  <2> QED BY <1>3, <2>1
<1>5. g \in [0 .. l - n -> Parsers] /\ \A i \in 0 .. l - n : g[i] = t[n + i]
  <2>1. \A i \in 0 .. l - n : n + i \in 0 .. l
    BY <1>2
  <2> QED BY <1>3, <2>1
<1> HIDE DEF f, g
<1>6. Trace(f, p, x)
  <2>1. ASSUME NEW i \in 1 .. n PROVE Expects(f[i - 1], x[i]) /\ f[i] = After(f[i - 1], x[i])
    <3>1. i \in 1 .. l /\ i \in 0 .. n /\ i - 1 \in 0 .. n
      BY <1>2
    <3>2. f[i] = t[i] /\ f[i - 1] = t[i - 1] /\ x[i] = w[i]
      BY <1>2, <1>4, <3>1
    <3> QED BY <1>3, <3>1, <3>2
  <2>2. f[0] = p
    <3>1. 0 \in 0 .. n
      BY <1>2
    <3> QED BY <1>3, <1>4, <3>1
  <2> QED BY <1>2, <1>4, <2>1, <2>2 DEF Trace
<1>7. Trace(g, t[n], y)
  <2>1. ASSUME NEW i \in 1 .. l - n PROVE Expects(g[i - 1], y[i]) /\ g[i] = After(g[i - 1], y[i])
    <3>1. n + i \in 1 .. l /\ i \in 0 .. l - n /\ i - 1 \in 0 .. l - n /\ n + (i - 1) = (n + i) - 1
      BY <1>2
    <3>2. g[i] = t[n + i] /\ g[i - 1] = t[n + (i - 1)] /\ y[i] = w[n + i]
      BY <1>2, <1>5, <3>1
    <3> QED BY <1>3, <3>1, <3>2
  <2>2. g[0] = t[n]
    <3>1. 0 \in 0 .. l - n /\ n + 0 = n
      BY <1>2
    <3> QED BY <1>5, <3>1
  <2> QED BY <1>2, <1>5, <2>1, <2>2 DEF Trace
<1>8. f[n] = t[n] /\ g[l - n] = q /\ t[n] \in Parsers
  <2>1. n \in 0 .. n /\ l - n \in 0 .. l - n /\ n + (l - n) = l /\ n \in 0 .. l
    BY <1>2
  <2> QED BY <1>3, <1>4, <1>5, <2>1
<1>9. Leads(p, x, t[n]) /\ Leads(t[n], y, q)
  BY <1>2, <1>6, <1>7, <1>8 DEF Leads
<1> QED BY <1>8, <1>9 DEF x, y, l

-----------------------------------------------------------------------------
(* A chunk at a time. *)

\* f holds, for each number of bytes, what Parse has made of the first of them; g their audio.
Folded(f, p, w) ==
  /\ f \in [0 .. Len(w) -> Parsed]
  /\ f[0] = Untouched(p)
  /\ \A i \in 1 .. Len(w) : f[i] = Station!OneByte(f[i - 1], w[i])
Heard(g, w) ==
  /\ g \in [0 .. Len(w) -> Seq(Byte)]
  /\ g[0] = <<>>
  /\ \A i \in 1 .. Len(w) :
       g[i] = IF w[i][1] = "audio" THEN Append(g[i - 1], w[i]) ELSE g[i - 1]

\* A parser has a way through any bytes.
LEMMA FoldedExists ==
  ASSUME NEW p \in Parsers, NEW w \in Seq(Byte)
  PROVE  \E f : Folded(f, p, w)
<1> DEFINE n == Len(w)
           step == [a \in (1 .. n) \X Parsed |-> Station!OneByte(a[2], w[a[1]])]
<1>1. Untouched(p) \in Parsed /\ n \in Nat
  BY UntouchedParsed
<1>2. step \in [(1 .. n) \X Parsed -> Parsed]
  <2>1. ASSUME NEW a \in (1 .. n) \X Parsed PROVE Station!OneByte(a[2], w[a[1]]) \in Parsed
    <3>1. a[1] \in 1 .. n /\ a[2] \in Parsed
      OBVIOUS
    <3>2. w[a[1]] \in Byte
      BY <3>1
    <3> QED BY <3>1, <3>2, OneByteTypes
  <2> QED BY <2>1
<1>3. PICK f \in [0 .. n -> Parsed] : RunOf(f, Untouched(p), step, n)
  <2> HIDE DEF step
  <2> QED BY <1>1, <1>2, RunExists
<1>4. ASSUME NEW i \in 1 .. n PROVE f[i] = Station!OneByte(f[i - 1], w[i])
  <2>1. i - 1 \in 0 .. n
    OBVIOUS
  <2>2. f[i - 1] \in Parsed
    BY <2>1
  <2>3. <<i, f[i - 1]>> \in (1 .. n) \X Parsed
    BY <2>2
  <2>4. step[i, f[i - 1]] = Station!OneByte(f[i - 1], w[i])
    BY <2>3
  <2>5. f[i] = step[i, f[i - 1]]
    BY <1>3 DEF RunOf
  <2> QED BY <2>4, <2>5
<1>5. f[0] = Untouched(p)
  BY <1>3 DEF RunOf
<1> HIDE DEF step
<1>6. Folded(f, p, w)
  BY <1>4, <1>5 DEF Folded
<1> QED BY <1>6

\* So has the audio among them.
LEMMA HeardExists ==
  ASSUME NEW w \in Seq(Byte)
  PROVE  \E g : Heard(g, w)
<1> DEFINE n == Len(w)
           Hear(x, b) == IF b[1] = "audio" THEN Append(x, b) ELSE x
           step == [a \in (1 .. n) \X Seq(Byte) |-> Hear(a[2], w[a[1]])]
<1>1. <<>> \in Seq(Byte) /\ n \in Nat
  OBVIOUS
<1>2. step \in [(1 .. n) \X Seq(Byte) -> Seq(Byte)]
  <2>1. ASSUME NEW a \in (1 .. n) \X Seq(Byte) PROVE Hear(a[2], w[a[1]]) \in Seq(Byte)
    <3>1. a[1] \in 1 .. n /\ a[2] \in Seq(Byte)
      OBVIOUS
    <3>2. w[a[1]] \in Byte
      BY <3>1
    <3> QED BY <3>1, <3>2
  <2> HIDE DEF Hear
  <2> QED BY <2>1
<1>3. PICK g \in [0 .. n -> Seq(Byte)] : RunOf(g, <<>>, step, n)
  <2> HIDE DEF step
  <2> QED BY <1>1, <1>2, RunExists
<1>4. ASSUME NEW i \in 1 .. n PROVE g[i] = Hear(g[i - 1], w[i])
  <2>1. i - 1 \in 0 .. n
    OBVIOUS
  <2>2. g[i - 1] \in Seq(Byte)
    BY <2>1
  <2>3. <<i, g[i - 1]>> \in (1 .. n) \X Seq(Byte)
    BY <2>2
  <2> HIDE DEF Hear
  <2>4. step[i, g[i - 1]] = Hear(g[i - 1], w[i])
    BY <2>3
  <2>5. g[i] = step[i, g[i - 1]]
    BY <1>3 DEF RunOf
  <2> QED BY <2>4, <2>5
<1>5. g[0] = <<>>
  BY <1>3 DEF RunOf
<1> HIDE DEF step
<1>6. Heard(g, w)
  BY <1>4, <1>5 DEF Heard
<1> QED BY <1>6

\* Parse and Sound are the last of these.
LEMMA ParseIs ==
  ASSUME NEW p \in Parsers, NEW w \in Seq(Byte), NEW f, Folded(f, p, w)
  PROVE  Station!Parse(p, w) = f[Len(w)]
<1> DEFINE n == Len(w)
           Is(g) == g = [i \in 0 .. n |-> IF i = 0 THEN [p |-> p, audio |-> <<>>, blocks |-> <<>>]
                                          ELSE Station!OneByte(g[i - 1], w[i])]
           c == CHOOSE g : Is(g)
<1>1. Station!Parse(p, w) = c[n]
  BY DEF Station!Parse
<1>2. /\ n \in Nat /\ f \in [0 .. n -> Parsed] /\ f[0] = [p |-> p, audio |-> <<>>, blocks |-> <<>>]
      /\ \A i \in 1 .. n : f[i] = Station!OneByte(f[i - 1], w[i])
  BY DEF Folded, Untouched, ParsedAs
<1>3. Is(f)
  <2>1. ASSUME NEW i \in 0 .. n
        PROVE  f[i] = IF i = 0 THEN [p |-> p, audio |-> <<>>, blocks |-> <<>>]
                      ELSE Station!OneByte(f[i - 1], w[i])
    <3>1. i # 0 => i \in 1 .. n
      OBVIOUS
    <3> QED BY <1>2, <3>1
  <2>2. f = [i \in 0 .. n |-> f[i]]
    BY <1>2
  <2> QED BY <2>1, <2>2
<1>4. Is(c)
  BY <1>3
<1> HIDE DEF c
<1>5. \A i \in 0 .. n : c[i] = IF i = 0 THEN [p |-> p, audio |-> <<>>, blocks |-> <<>>]
                               ELSE Station!OneByte(c[i - 1], w[i])
  BY <1>4
<1> DEFINE P == {i \in 0 .. n : c[i] = f[i]}
<1>6. 0 \in P
  <2>1. 0 \in 0 .. n
    BY <1>2
  <2> QED BY <1>2, <1>5, <2>1
<1>7. ASSUME NEW i \in 1 .. n, i - 1 \in P PROVE i \in P
  <2>1. i \in 0 .. n /\ i # 0 /\ c[i - 1] = f[i - 1]
    BY <1>7
  <2>2. c[i] = Station!OneByte(c[i - 1], w[i]) /\ f[i] = Station!OneByte(f[i - 1], w[i])
    BY <1>2, <1>5, <2>1
  <2>3. c[i] = f[i]
    BY <2>1, <2>2
  <2> QED BY <2>1, <2>3
<1>8. n \in P
  <2>1. n \in 0 .. n
    BY <1>2
  <2> HIDE DEF P, n
  <2>2. 0 .. n \subseteq P
    BY <1>2, <1>6, <1>7, Positions
  <2> QED BY <2>1, <2>2
<1> QED BY <1>1, <1>8

\* Sound is the last of what is heard.
LEMMA SoundIs ==
  ASSUME NEW w \in Seq(Byte), NEW g, Heard(g, w)
  PROVE  Station!Sound(w) = g[Len(w)]
<1> DEFINE n == Len(w)
           Hear(x, b) == IF b[1] = "audio" THEN Append(x, b) ELSE x
           Is(h) == h = [i \in 0 .. n |-> IF i = 0 THEN <<>> ELSE Hear(h[i - 1], w[i])]
           c == CHOOSE h : Is(h)
<1>1. Station!Sound(w) = c[n]
  BY DEF Station!Sound
<1>2. /\ n \in Nat /\ g \in [0 .. n -> Seq(Byte)] /\ g[0] = <<>>
      /\ \A i \in 1 .. n : g[i] = Hear(g[i - 1], w[i])
  BY DEF Heard
<1> HIDE DEF Hear
<1>3. Is(g)
  <2>1. ASSUME NEW i \in 0 .. n
        PROVE  g[i] = IF i = 0 THEN <<>> ELSE Hear(g[i - 1], w[i])
    <3>1. i # 0 => i \in 1 .. n
      OBVIOUS
    <3> QED BY <1>2, <3>1
  <2>2. g = [i \in 0 .. n |-> g[i]]
    BY <1>2
  <2> QED BY <2>1, <2>2
<1>4. Is(c)
  BY <1>3
<1> HIDE DEF c
<1>5. \A i \in 0 .. n : c[i] = IF i = 0 THEN <<>> ELSE Hear(c[i - 1], w[i])
  BY <1>4
<1> DEFINE P == {i \in 0 .. n : c[i] = g[i]}
<1>6. 0 \in P
  <2>1. 0 \in 0 .. n
    BY <1>2
  <2> QED BY <1>2, <1>5, <2>1
<1>7. ASSUME NEW i \in 1 .. n, i - 1 \in P PROVE i \in P
  <2>1. i \in 0 .. n /\ i # 0 /\ c[i - 1] = g[i - 1]
    BY <1>7
  <2>2. c[i] = Hear(c[i - 1], w[i]) /\ g[i] = Hear(g[i - 1], w[i])
    BY <1>2, <1>5, <2>1
  <2>3. c[i] = g[i]
    BY <2>1, <2>2
  <2> QED BY <2>1, <2>3
<1>8. n \in P
  <2>1. n \in 0 .. n
    BY <1>2
  <2> HIDE DEF P, n
  <2>2. 0 .. n \subseteq P
    BY <1>2, <1>6, <1>7, Positions
  <2> QED BY <2>1, <2>2
<1> QED BY <1>1, <1>8

\* What was published of the blocks and what the server completed is the same title.
Titled(blocks) == {j \in DOMAIN blocks : Station!TitleOf(blocks[j]) # 0}
Ends(w, i) == {j \in 1 .. i : w[j][1] = "end" /\ w[j][2] # 0}
SameTitle(blocks, w, i) ==
  /\ Titled(blocks) = {} <=> Ends(w, i) = {}
  /\ Titled(blocks) # {} =>
       Station!TitleOf(blocks[Station!Max(Titled(blocks))]) = w[Station!Max(Ends(w, i))][2]

\* A position behind all others is the greatest.
LEMMA GreatestIsLast ==
  ASSUME NEW n \in Nat, NEW S \in SUBSET (1 .. n)
  PROVE  Station!Max(S \cup {n + 1}) = n + 1
<1>1. \A y \in S \cup {n + 1} : y \in Nat /\ n + 1 >= y
  OBVIOUS
<1>2. \A x \in S \cup {n + 1} : (\A y \in S \cup {n + 1} : x >= y) => x = n + 1
  BY <1>1
<1> QED BY <1>1, <1>2 DEF Station!Max

\* A set of positions that is not empty has a greatest.
LEMMA GreatestExists ==
  ASSUME NEW n \in Nat, NEW S \in SUBSET (1 .. n), S # {}
  PROVE  Station!Max(S) \in S
<1> DEFINE T == {n - x : x \in S}
<1>1. T \in SUBSET Nat /\ T # {}
  <2>1. \A x \in S : n - x \in Nat
    OBVIOUS
  <2> QED BY <2>1
<1>2. PICK d \in T : \A e \in T : d <= e
  <2> HIDE DEF T
  <2> QED BY <1>1, LeastElement
<1>3. PICK x \in S : d = n - x
  OBVIOUS
<1>4. ASSUME NEW y \in S PROVE x >= y
  <2>1. n - y \in T
    OBVIOUS
  <2>2. n - x <= n - y
    BY <1>2, <1>3, <2>1
  <2> QED BY <2>2
<1>5. \E z \in S : \A y \in S : z >= y
  BY <1>4
<1> QED BY <1>5 DEF Station!Max

\* One byte more: both titles change, or none.
LEMMA SameTitleStep ==
  ASSUME NEW s \in Parsed, NEW w \in Seq(Byte), NEW i \in 1 .. Len(w),
         Expects(s.p, w[i]), SameTitle(s.blocks, w, i - 1)
  PROVE  SameTitle(Station!OneByte(s, w[i]).blocks, w, i)
<1> DEFINE b == w[i]
           old == s.blocks
           new == Station!OneByte(s, b).blocks
           n == Len(old)
<1>1. b \in Byte /\ old \in Seq(Seq(Byte)) /\ n \in Nat
  BY ParserParts
<1>2. /\ b[1] # "end" => new = old
      /\ b[1] = "end" => \E k \in Seq(Byte) : new = Append(old, k) /\ Station!TitleOf(k) = b[2]
  BY <1>1, ExpectedByte
<1>3. SameTitle(old, w, i - 1)
  OBVIOUS
<1>4. 1 .. i = (1 .. i - 1) \cup {i} /\ i - 1 \in Nat /\ (i - 1) + 1 = i
  OBVIOUS
<1>5. DOMAIN old = 1 .. n
  BY <1>1
<1> HIDE DEF new, old
<1>6. ASSUME NEW k \in Seq(Byte), new = Append(old, k)
      PROVE  /\ DOMAIN new = (1 .. n) \cup {n + 1} /\ new[n + 1] = k
             /\ \A j \in 1 .. n : new[j] = old[j]
  BY <1>1, <1>6
<1> HIDE DEF b, n
<1>7. CASE b[1] = "end" /\ b[2] # 0
  <2>1. PICK k \in Seq(Byte) : new = Append(old, k) /\ Station!TitleOf(k) = b[2]
    BY <1>2, <1>7
  <2>2. Titled(new) = Titled(old) \cup {n + 1}
    <3>1. DOMAIN new = (1 .. n) \cup {n + 1} /\ new[n + 1] = k /\ \A j \in 1 .. n : new[j] = old[j]
      BY <1>6, <2>1
    <3>2. Station!TitleOf(k) # 0
      BY <1>7, <2>1
    <3>3. \A j : j \in Titled(new) <=> j = n + 1 \/ (j \in 1 .. n /\ Station!TitleOf(old[j]) # 0)
      BY <3>1, <3>2 DEF Titled
    <3>4. \A j : j \in Titled(old) <=> (j \in 1 .. n /\ Station!TitleOf(old[j]) # 0)
      BY <1>5 DEF Titled
    <3> QED BY <3>3, <3>4
  <2>3. Ends(w, i) = Ends(w, i - 1) \cup {i}
    BY <1>4, <1>7 DEF Ends, b
  <2>4. Titled(old) \in SUBSET (1 .. n) /\ Ends(w, i - 1) \in SUBSET (1 .. i - 1)
    BY <1>5 DEF Titled, Ends
  <2>5. Station!Max(Titled(new)) = n + 1
    BY <1>1, <2>2, <2>4, GreatestIsLast
  <2>6. Station!Max(Ends(w, i)) = i
    <3>1. Station!Max(Ends(w, i - 1) \cup {(i - 1) + 1}) = (i - 1) + 1
      BY <1>4, <2>4, GreatestIsLast
    <3> QED BY <1>4, <2>3, <3>1
  <2>7. Station!TitleOf(new[n + 1]) = w[i][2]
    BY <1>6, <2>1 DEF b
  <2>8. SameTitle(new, w, i)
    BY <2>2, <2>3, <2>5, <2>6, <2>7 DEF SameTitle
  <2> QED BY <2>8 DEF new, b
<1>8. CASE ~ (b[1] = "end" /\ b[2] # 0)
  <2>1. Ends(w, i) = Ends(w, i - 1)
    BY <1>4, <1>8 DEF Ends, b
  <2>2. Titled(new) = Titled(old) /\ \A j \in Titled(old) : new[j] = old[j]
    <3>1. CASE b[1] # "end"
      BY <1>2, <3>1
    <3>2. CASE b[1] = "end"
      <4>1. PICK k \in Seq(Byte) : new = Append(old, k) /\ Station!TitleOf(k) = b[2]
        BY <1>2, <3>2
      <4>2. Station!TitleOf(k) = 0
        BY <1>8, <3>2, <4>1
      <4> QED BY <1>5, <1>6, <4>1, <4>2 DEF Titled
    <3> QED BY <3>1, <3>2
  <2>3. Titled(old) # {} => Station!Max(Titled(old)) \in Titled(old)
    <3>1. Titled(old) \in SUBSET (1 .. n)
      BY <1>5 DEF Titled
    <3> QED BY <1>1, <3>1, GreatestExists
  <2>4. SameTitle(new, w, i)
    BY <1>3, <2>1, <2>2, <2>3 DEF SameTitle
  <2> QED BY <2>4 DEF new, b
<1> QED BY <1>7, <1>8

\* On its way over a chunk of what the server meant, the parser arrives where the way leads, and
\* passes on the audio of the chunk and the title that was completed last.
LEMMA ParsedChunk ==
  ASSUME NEW p \in Parsers, NEW q, NEW w \in Seq(Byte), Leads(p, w, q), title = named
  PROVE  /\ Station!Parse(p, w).p = q
         /\ Station!Parse(p, w).audio = Station!Sound(w)
         /\ Station!Sound(w) \in Seq(Byte)
         /\ Station!Published(Station!Parse(p, w).blocks) = Station!Completed(w)
<1> DEFINE n == Len(w)
<1>1. PICK t : Trace(t, p, w) /\ t[n] = q
  BY DEF Leads
<1>2. PICK f : Folded(f, p, w)
  BY FoldedExists
<1>3. PICK g : Heard(g, w)
  BY HeardExists
<1>4. /\ n \in Nat /\ f \in [0 .. n -> Parsed] /\ g \in [0 .. n -> Seq(Byte)]
      /\ f[0] = Untouched(p) /\ g[0] = <<>> /\ t[0] = p
      /\ \A i \in 1 .. n : f[i] = Station!OneByte(f[i - 1], w[i])
      /\ \A i \in 1 .. n : g[i] = IF w[i][1] = "audio" THEN Append(g[i - 1], w[i]) ELSE g[i - 1]
      /\ \A i \in 1 .. n : Expects(t[i - 1], w[i]) /\ t[i] = After(t[i - 1], w[i])
  BY <1>1, <1>2, <1>3 DEF Trace, Folded, Heard
<1> DEFINE P == {i \in 0 .. n : f[i].p = t[i] /\ f[i].audio = g[i] /\ SameTitle(f[i].blocks, w, i)}
<1>5. 0 \in P
  <2>1. f[0].p = t[0] /\ f[0].audio = g[0] /\ f[0].blocks = <<>>
    BY <1>4 DEF Untouched, ParsedAs
  <2>2. Titled(<<>>) = {} /\ Ends(w, 0) = {}
    BY DEF Titled, Ends
  <2>3. SameTitle(f[0].blocks, w, 0)
    BY <2>1, <2>2 DEF SameTitle
  <2>4. 0 \in 0 .. n
    BY <1>4
  <2> QED BY <2>1, <2>3, <2>4
<1>6. ASSUME NEW i \in 1 .. n, i - 1 \in P PROVE i \in P
  <2>1. f[i - 1].p = t[i - 1] /\ f[i - 1].audio = g[i - 1] /\ SameTitle(f[i - 1].blocks, w, i - 1)
    BY <1>6
  <2>2. i \in 0 .. n /\ i - 1 \in 0 .. n /\ w[i] \in Byte
    BY <1>4
  <2>3. f[i - 1] \in Parsed /\ f[i] = Station!OneByte(f[i - 1], w[i]) /\ Expects(f[i - 1].p, w[i])
        /\ t[i] = After(f[i - 1].p, w[i])
    BY <1>4, <2>1, <2>2
  <2>4. f[i].p = t[i]
    BY <2>2, <2>3, OneByteTypes
  <2>5. f[i].audio = g[i]
    BY <1>4, <2>1, <2>2, <2>3, ExpectedByte
  <2>6. SameTitle(f[i].blocks, w, i)
    BY <2>1, <2>3, SameTitleStep
  <2> QED BY <2>2, <2>4, <2>5, <2>6
<1>7. n \in P
  <2>1. n \in 0 .. n
    BY <1>4
  <2> HIDE DEF P, n
  <2>2. 0 .. n \subseteq P
    BY <1>4, <1>5, <1>6, Positions
  <2> QED BY <2>1, <2>2
<1>8. Station!Parse(p, w) = f[n] /\ Station!Sound(w) = g[n]
  BY <1>2, <1>3, ParseIs, SoundIs
<1>9. n \in 0 .. n /\ g[n] \in Seq(Byte)
  BY <1>4
<1>10. Station!Published(f[n].blocks) = Station!Completed(w)
  <2> DEFINE blocks == f[n].blocks
  <2>1. SameTitle(blocks, w, n)
    BY <1>7
  <2> HIDE DEF blocks
  <2>2. Station!Published(blocks) =
          IF Titled(blocks) = {} THEN title
          ELSE Station!TitleOf(blocks[Station!Max(Titled(blocks))])
    BY DEF Station!Published, Titled
  <2>3. Station!Completed(w) = IF Ends(w, n) = {} THEN named ELSE w[Station!Max(Ends(w, n))][2]
    <3>1. DOMAIN w = 1 .. n
      OBVIOUS
    <3> QED BY <3>1 DEF Station!Completed, Ends
  <2> QED BY <2>1, <2>2, <2>3 DEF SameTitle, blocks
<1> QED BY <1>1, <1>7, <1>8, <1>9, <1>10

-----------------------------------------------------------------------------
(* What a station sends leads its parser from the start to the end. *)

\* The parts of a parser are what it was put together from.
LEMMA Parts ==
  ASSUME NEW i, NEW m, NEW l, NEW k
  PROVE  /\ ParserOf(i, m, l, k).interval = i /\ ParserOf(i, m, l, k).mode = m
         /\ ParserOf(i, m, l, k).left = l /\ ParserOf(i, m, l, k).block = k
BY DEF ParserOf

\* And it is one, if they have their types.
LEMMA PartsTyped ==
  ASSUME NEW i \in Nat, NEW m \in {"audio", "length", "meta"}, NEW l \in Nat, NEW k \in Seq(Byte),
         i # 0 /\ m # "length" => l # 0
  PROVE  ParserOf(i, m, l, k) \in Parsers
BY DEF ParserOf, Parsers

\* The parser after a byte.
LEMMA AfterByte ==
  ASSUME NEW p \in Parsers, NEW b \in Byte
  PROVE  /\ p.interval = 0 => After(p, b) = p
         /\ p.interval # 0 /\ p.mode = "audio" => After(p, b) =
              ParserOf(p.interval, IF p.left = 1 THEN "length" ELSE "audio", p.left - 1, p.block)
         /\ p.interval # 0 /\ p.mode = "length" => After(p, b) =
              IF b[2] = 0 THEN ParserOf(p.interval, "audio", p.interval, p.block)
              ELSE ParserOf(p.interval, "meta", b[2] * Stride, <<>>)
         /\ p.interval # 0 /\ p.mode = "meta" => After(p, b) =
              IF p.left > 1 THEN ParserOf(p.interval, "meta", p.left - 1, Append(p.block, b))
              ELSE ParserOf(p.interval, "audio", p.interval, <<>>)
<1> DEFINE s == Untouched(p)
<1>1. s \in Parsed /\ s.p = p /\ After(p, b) = Station!OneByte(s, b).p
  BY UntouchedParsed DEF After
<1> HIDE DEF s
<1>2. \A q, a, c : ParsedAs(q, a, c).p = q
  BY DEF ParsedAs
<1>3. p.interval = 0 => After(p, b) = p
  BY <1>1, <1>2, PassedThrough
<1>4. p.interval # 0 /\ p.mode = "audio" => After(p, b) =
        ParserOf(p.interval, IF p.left = 1 THEN "length" ELSE "audio", p.left - 1, p.block)
  BY <1>1, <1>2, AudioByte
<1>5. p.interval # 0 /\ p.mode = "length" => After(p, b) =
        IF b[2] = 0 THEN ParserOf(p.interval, "audio", p.interval, p.block)
        ELSE ParserOf(p.interval, "meta", b[2] * Stride, <<>>)
  BY <1>1, <1>2, LengthByte
<1>6. p.interval # 0 /\ p.mode = "meta" => After(p, b) =
        IF p.left > 1 THEN ParserOf(p.interval, "meta", p.left - 1, Append(p.block, b))
        ELSE ParserOf(p.interval, "audio", p.interval, <<>>)
  BY <1>1, <1>2, MetaByte
<1> QED BY <1>3, <1>4, <1>5, <1>6

\* Bytes of one value are bytes.
LEMMA BytesTypes ==
  ASSUME NEW tag \in {"audio", "meta"}, NEW n \in Nat, NEW v \in Nat
  PROVE  /\ Station!Bytes(tag, n, v) \in Seq(Byte) /\ Len(Station!Bytes(tag, n, v)) = n
         /\ \A j \in 1 .. n : Station!Bytes(tag, n, v)[j] = <<tag, v>>
         /\ <<tag, v>> \in Byte
BY DEF Station!Bytes, Byte

\* A run of audio without metadata.
LEMMA PassesThrough ==
  ASSUME NEW p \in Parsers, p.interval = 0, NEW n \in Nat, NEW v \in Nat
  PROVE  Leads(p, Station!Bytes("audio", n, v), p)
<1> DEFINE w == Station!Bytes("audio", n, v)
           t == [j \in 0 .. n |-> p]
<1>1. Len(w) = n /\ \A j \in 1 .. n : w[j] = <<"audio", v>> /\ w[j] \in Byte
  <2>1. Len(w) = n
    BY BytesTypes
  <2>2. \A j \in 1 .. n : w[j] = <<"audio", v>>
    BY BytesTypes
  <2>3. <<"audio", v>> \in Byte
    BY DEF Byte
  <2> QED BY <2>1, <2>2, <2>3
<1>2. /\ t \in [0 .. n -> Parsers] /\ t[0] = p /\ t[n] = p
      /\ \A j \in 1 .. n : t[j] = p /\ t[j - 1] = p
  OBVIOUS
<1> HIDE DEF w, t
<1>3. \A j \in 1 .. n : Expects(t[j - 1], w[j]) /\ t[j] = After(t[j - 1], w[j])
  BY <1>1, <1>2, AfterByte DEF Expects
<1>4. Leads(p, w, p)
  BY <1>1, <1>2, <1>3 DEF Leads, Trace
<1> QED BY <1>4 DEF w

\* A run of audio up to the next block.
LEMMA AudioLeads ==
  ASSUME NEW i \in Nat \ {0}, NEW n \in Nat \ {0}, NEW k \in Seq(Byte), NEW v \in Nat
  PROVE  Leads(ParserOf(i, "audio", n, k), Station!Bytes("audio", n, v),
               ParserOf(i, "length", 0, k))
<1> DEFINE w == Station!Bytes("audio", n, v)
           At(j) == ParserOf(i, IF j = n THEN "length" ELSE "audio", n - j, k)
           t == [j \in 0 .. n |-> At(j)]
<1>1. Len(w) = n /\ \A j \in 1 .. n : w[j] = <<"audio", v>> /\ w[j] \in Byte
  <2>1. Len(w) = n
    BY BytesTypes
  <2>2. \A j \in 1 .. n : w[j] = <<"audio", v>>
    BY BytesTypes
  <2>3. <<"audio", v>> \in Byte
    BY DEF Byte
  <2> QED BY <2>1, <2>2, <2>3
<1>2. ASSUME NEW j \in 0 .. n
      PROVE  /\ At(j) \in Parsers
             /\ At(j).interval = i /\ At(j).mode = (IF j = n THEN "length" ELSE "audio")
             /\ At(j).left = n - j /\ At(j).block = k
  <2> DEFINE m == IF j = n THEN "length" ELSE "audio"
  <2>1. n - j \in Nat /\ m \in {"audio", "length", "meta"} /\ (m # "length" => n - j # 0)
    OBVIOUS
  <2> HIDE DEF m
  <2>2. ParserOf(i, m, n - j, k) \in Parsers
    BY <2>1, PartsTyped
  <2>3. At(j) = ParserOf(i, m, n - j, k)
    BY DEF m
  <2> QED BY <2>2, <2>3, Parts DEF m
<1>3. t \in [0 .. n -> Parsers] /\ \A j \in 0 .. n : t[j] = At(j)
  <2> HIDE DEF At
  <2> QED BY <1>2
<1>4. At(0) = ParserOf(i, "audio", n, k) /\ At(n) = ParserOf(i, "length", 0, k)
  OBVIOUS
<1> HIDE DEF w, t
<1>5. ASSUME NEW j \in 1 .. n PROVE Expects(t[j - 1], w[j]) /\ t[j] = After(t[j - 1], w[j])
  <2>1. j - 1 \in 0 .. n /\ j \in 0 .. n /\ j - 1 # n /\ n - (j - 1) = (n - j) + 1
        /\ (n - (j - 1) = 1 <=> j = n) /\ (n - (j - 1)) - 1 = n - j
    OBVIOUS
  <2>2. /\ t[j - 1] \in Parsers /\ t[j - 1].interval = i /\ t[j - 1].mode = "audio"
        /\ t[j - 1].left = n - (j - 1) /\ t[j - 1].block = k
    BY <1>2, <1>3, <2>1
  <2>3. t[j] = ParserOf(i, IF j = n THEN "length" ELSE "audio", n - j, k)
    BY <1>3, <2>1
  <2>4. After(t[j - 1], w[j]) =
          ParserOf(i, IF n - (j - 1) = 1 THEN "length" ELSE "audio", (n - (j - 1)) - 1, k)
    BY <1>1, <2>2, AfterByte
  <2>5. Expects(t[j - 1], w[j])
    BY <1>1, <2>2 DEF Expects
  <2> QED BY <2>1, <2>3, <2>4, <2>5
<1>6. t[0] = At(0) /\ t[n] = At(n)
  <2> HIDE DEF At
  <2> QED BY <1>3
<1>7. Leads(ParserOf(i, "audio", n, k), w, ParserOf(i, "length", 0, k))
  <2>1. Trace(t, ParserOf(i, "audio", n, k), w)
    BY <1>1, <1>3, <1>4, <1>5, <1>6 DEF Trace
  <2>2. t[Len(w)] = ParserOf(i, "length", 0, k)
    BY <1>1, <1>4, <1>6
  <2> QED BY <2>1, <2>2 DEF Leads
<1> QED BY <1>7 DEF w

\* The inside of a block.
LEMMA MetaLeads ==
  ASSUME NEW i \in Nat \ {0}, NEW n \in Nat, NEW v \in Nat
  PROVE  Leads(ParserOf(i, "meta", n + 1, <<>>), Station!Bytes("meta", n, v),
               ParserOf(i, "meta", 1, Station!Bytes("meta", n, v)))
<1> DEFINE w == Station!Bytes("meta", n, v)
           At(j) == ParserOf(i, "meta", (n + 1) - j, Station!Bytes("meta", j, v))
           t == [j \in 0 .. n |-> At(j)]
<1>1. Len(w) = n /\ \A j \in 1 .. n : w[j] = <<"meta", v>> /\ w[j] \in Byte
  <2>1. Len(w) = n
    BY BytesTypes
  <2>2. \A j \in 1 .. n : w[j] = <<"meta", v>>
    BY BytesTypes
  <2>3. <<"meta", v>> \in Byte
    BY DEF Byte
  <2> QED BY <2>1, <2>2, <2>3
<1>2. ASSUME NEW j \in 0 .. n
      PROVE  /\ At(j) \in Parsers
             /\ At(j).interval = i /\ At(j).mode = "meta"
             /\ At(j).left = (n + 1) - j /\ At(j).block = Station!Bytes("meta", j, v)
  <2>1. (n + 1) - j \in Nat \ {0}
    OBVIOUS
  <2>2. Station!Bytes("meta", j, v) \in Seq(Byte)
    <3>1. j \in Nat
      OBVIOUS
    <3> QED BY <3>1, BytesTypes
  <2>3. At(j) \in Parsers
    BY <2>1, <2>2, PartsTyped
  <2> QED BY <2>3, Parts
<1>3. t \in [0 .. n -> Parsers] /\ \A j \in 0 .. n : t[j] = At(j)
  <2> HIDE DEF At
  <2> QED BY <1>2
<1>4. At(0) = ParserOf(i, "meta", n + 1, <<>>) /\ At(n) = ParserOf(i, "meta", 1, w)
  <2>1. Station!Bytes("meta", 0, v) = <<>>
    BY DEF Station!Bytes
  <2> QED BY <2>1
<1> HIDE DEF t
<1>5. ASSUME NEW j \in 1 .. n PROVE Expects(t[j - 1], w[j]) /\ t[j] = After(t[j - 1], w[j])
  <2> DEFINE k == Station!Bytes("meta", j - 1, v)
  <2>1. j - 1 \in 0 .. n /\ j \in 0 .. n /\ (n + 1) - (j - 1) > 1 /\ j - 1 \in Nat
        /\ ((n + 1) - (j - 1)) - 1 = (n + 1) - j
    OBVIOUS
  <2>2. /\ t[j - 1] \in Parsers /\ t[j - 1].interval = i /\ t[j - 1].mode = "meta"
        /\ t[j - 1].left = (n + 1) - (j - 1) /\ t[j - 1].block = k
    BY <1>2, <1>3, <2>1
  <2>3. Append(k, <<"meta", v>>) = Station!Bytes("meta", j, v)
    BY <2>1 DEF Station!Bytes
  <2>4. k # <<>> => k[1] = <<"meta", v>>
    <3>1. Len(k) = j - 1 /\ k \in Seq(Byte) /\ \A x \in 1 .. j - 1 : k[x] = <<"meta", v>>
      BY <2>1, BytesTypes
    <3> QED BY <3>1
  <2> HIDE DEF k, w
  <2>5. t[j] = ParserOf(i, "meta", (n + 1) - j, Station!Bytes("meta", j, v))
    BY <1>3, <2>1
  <2>6. After(t[j - 1], w[j]) =
          ParserOf(i, "meta", ((n + 1) - (j - 1)) - 1, Append(k, <<"meta", v>>))
    BY <1>1, <2>1, <2>2, AfterByte
  <2>7. Expects(t[j - 1], w[j])
    BY <1>1, <2>1, <2>2, <2>4 DEF Expects
  <2> QED BY <2>1, <2>3, <2>5, <2>6, <2>7
<1>6. t[0] = At(0) /\ t[n] = At(n)
  <2> HIDE DEF At
  <2> QED BY <1>3
<1> HIDE DEF w
<1>7. Leads(ParserOf(i, "meta", n + 1, <<>>), w, ParserOf(i, "meta", 1, w))
  <2>1. Trace(t, ParserOf(i, "meta", n + 1, <<>>), w)
    BY <1>1, <1>3, <1>4, <1>5, <1>6 DEF Trace
  <2>2. t[Len(w)] = ParserOf(i, "meta", 1, w)
    BY <1>1, <1>4, <1>6
  <2> QED BY <2>1, <2>2 DEF Leads
<1> QED BY <1>7 DEF w

\* A block, with its length before it.
LEMMA BlockLeads ==
  ASSUME NEW i \in Nat \ {0}, NEW k \in Seq(Byte), NEW b \in Station!Blocks
  PROVE  /\ Station!Block(b) \in Seq(Byte)
         /\ \E h \in Seq(Byte) :
              Leads(ParserOf(i, "length", 0, k), Station!Block(b), ParserOf(i, "audio", i, h))
<1> DEFINE p == ParserOf(i, "length", 0, k)
<1>1. p \in Parsers /\ p.interval = i /\ p.mode = "length" /\ p.block = k
  BY PartsTyped, Parts
<1>2. b[1] \in Nat /\ b[2] \in Nat /\ Stride \in Nat \ {0}
  <2>1. b \in (0 .. MaxStrides) \X Titles
    BY DEF Station!Blocks
  <2>2. b[1] \in 0 .. MaxStrides /\ b[2] \in Titles
    BY <2>1
  <2>3. Titles \subseteq Nat /\ MaxStrides \in Nat /\ Stride \in Nat \ {0}
    BY StationAssumption
  <2>4. b[1] \in Nat
    BY <2>2, <2>3
  <2> QED BY <2>2, <2>3, <2>4
<1> HIDE DEF p
<1>3. CASE b[1] = 0
  <2> DEFINE l == <<"length", 0>>
  <2>1. l \in Byte /\ l[1] = "length" /\ l[2] = 0
    BY DEF Byte
  <2> HIDE DEF l
  <2>2. After(p, l) = ParserOf(i, "audio", i, k) /\ Expects(p, l)
    BY <1>1, <2>1, AfterByte DEF Expects
  <2>3. Leads(p, <<l>>, ParserOf(i, "audio", i, k))
    BY <1>1, <2>1, <2>2, LeadsOne
  <2>4. Station!Block(b) = <<l>> /\ <<l>> \in Seq(Byte)
    BY <1>3, <2>1 DEF Station!Block, l
  <2> QED BY <2>3, <2>4 DEF p
<1>4. CASE b[1] # 0
  <2> DEFINE l == <<"length", b[1]>>
             n == b[1] * Stride - 1
             w == Station!Bytes("meta", n, b[2])
             e == <<"end", b[2]>>
             q == ParserOf(i, "meta", n + 1, <<>>)
             r == ParserOf(i, "meta", 1, w)
  <2>1. n \in Nat /\ b[1] * Stride = n + 1
    <3>1. \A x, y \in Nat \ {0} : x * y \in Nat \ {0}
      OBVIOUS
    <3>2. b[1] * Stride \in Nat \ {0}
      BY <1>2, <1>4, <3>1
    <3> QED BY <3>2
  <2>2. l \in Byte /\ l[1] = "length" /\ l[2] = b[1] /\ e \in Byte /\ e[1] = "end" /\ e[2] = b[2]
    BY <1>2, StationAssumption DEF Byte, Station!Blocks
  <2>3. Station!Block(b) = (<<l>> \o w) \o <<e>>
    BY <1>4 DEF Station!Block
  <2> HIDE DEF n
  <2>4. w \in Seq(Byte) /\ (w # <<>> => w[1] = <<"meta", b[2]>>)
    <3>1. w \in Seq(Byte)
      BY <1>2, <2>1, BytesTypes
    <3>2. Len(w) = n
      BY <1>2, <2>1, BytesTypes
    <3>3. \A j \in 1 .. n : w[j] = <<"meta", b[2]>>
      BY <1>2, <2>1, BytesTypes
    <3> HIDE DEF w
    <3> QED BY <2>1, <3>1, <3>2, <3>3
  <2>5. Leads(q, w, r)
    BY <1>2, <2>1, MetaLeads
  <2>6. /\ r \in Parsers /\ r.interval = i /\ r.mode = "meta" /\ r.left = 1 /\ r.block = w
    <3>1. r \in Parsers
      BY <2>4, PartsTyped
    <3> QED BY <3>1, Parts
  <2> HIDE DEF l, w, e, q, r
  <2>7. After(p, l) = q /\ Expects(p, l)
    <3>1. After(p, l) = ParserOf(i, "meta", l[2] * Stride, <<>>)
      BY <1>1, <1>4, <2>2, AfterByte
    <3>2. After(p, l) = q
      BY <2>1, <2>2, <3>1 DEF q
    <3>3. Expects(p, l)
      BY <1>1, <2>2 DEF Expects
    <3> QED BY <3>2, <3>3
  <2>8. After(r, e) = ParserOf(i, "audio", i, <<>>) /\ Expects(r, e)
    <3>1. After(r, e) = ParserOf(i, "audio", i, <<>>)
      BY <2>2, <2>6, AfterByte
    <3>2. w # <<>> => w[1][2] = e[2]
      BY <2>2, <2>4
    <3>3. Expects(r, e)
      BY <2>2, <2>6, <3>2 DEF Expects
    <3> QED BY <3>1, <3>3
  <2>9. Leads(p, <<l>>, q) /\ Leads(r, <<e>>, ParserOf(i, "audio", i, <<>>))
    BY <1>1, <2>2, <2>6, <2>7, <2>8, LeadsOne
  <2>10. <<l>> \in Seq(Byte) /\ <<e>> \in Seq(Byte) /\ <<l>> \o w \in Seq(Byte)
         /\ (<<l>> \o w) \o <<e>> \in Seq(Byte) /\ <<>> \in Seq(Byte)
    <3>1. <<l>> \in Seq(Byte) /\ <<e>> \in Seq(Byte) /\ <<>> \in Seq(Byte)
      BY <2>2
    <3>2. <<l>> \o w \in Seq(Byte)
      BY <2>4, <3>1
    <3>3. (<<l>> \o w) \o <<e>> \in Seq(Byte)
      BY <3>1, <3>2
    <3> QED BY <3>1, <3>2, <3>3
  <2>11. Leads(p, <<l>> \o w, r)
    BY <2>4, <2>5, <2>9, <2>10, LeadsOn
  <2>12. Leads(p, (<<l>> \o w) \o <<e>>, ParserOf(i, "audio", i, <<>>))
    BY <2>9, <2>10, <2>11, LeadsOn
  <2> QED BY <2>3, <2>10, <2>12 DEF p
<1> QED BY <1>3, <1>4

\* Any number of runs of audio with their blocks.
LEMMA RoundsLead ==
  ASSUME NEW i \in Nat \ {0}, NEW n \in Nat, NEW block \in [1 .. n -> Station!Blocks]
  PROVE  LET rounds == [r \in 1 .. n |-> Station!Bytes("audio", i, r) \o Station!Block(block[r])] IN
         /\ rounds \in Seq(Seq(Byte))
         /\ \E h \in Seq(Byte) : Leads(ParserOf(i, "audio", i, <<>>), Station!FlattenSeq(rounds),
                                       ParserOf(i, "audio", i, h))
<1> DEFINE rounds == [r \in 1 .. n |-> Station!Bytes("audio", i, r) \o Station!Block(block[r])]
           Home(h) == ParserOf(i, "audio", i, h)
<1>1. ASSUME NEW r \in 1 .. n
      PROVE  /\ Station!Bytes("audio", i, r) \o Station!Block(block[r]) \in Seq(Byte)
             /\ \A k \in Seq(Byte) : \E h \in Seq(Byte) :
                  Leads(Home(k), Station!Bytes("audio", i, r) \o Station!Block(block[r]), Home(h))
  <2> DEFINE w == Station!Bytes("audio", i, r)
             v == Station!Block(block[r])
  <2>1. r \in Nat /\ block[r] \in Station!Blocks
    OBVIOUS
  <2>2. w \in Seq(Byte)
    BY <2>1, BytesTypes
  <2>3. <<>> \in Seq(Byte)
    OBVIOUS
  <2>4. v \in Seq(Byte)
    BY <2>1, <2>3, BlockLeads
  <2>5. ASSUME NEW k \in Seq(Byte) PROVE \E h \in Seq(Byte) : Leads(Home(k), w \o v, Home(h))
    <3>1. Leads(Home(k), w, ParserOf(i, "length", 0, k))
      BY <2>1, AudioLeads
    <3>2. PICK h \in Seq(Byte) : Leads(ParserOf(i, "length", 0, k), v, Home(h))
      BY <2>1, BlockLeads
    <3> HIDE DEF w, v, Home
    <3>3. Leads(Home(k), w \o v, Home(h))
      BY <2>2, <2>4, <3>1, <3>2, LeadsOn
    <3> QED BY <3>3
  <2>6. w \o v \in Seq(Byte)
    <3> HIDE DEF w, v
    <3> QED BY <2>2, <2>4
  <2> QED BY <2>5, <2>6
<1>2. rounds \in Seq(Seq(Byte)) /\ Len(rounds) = n
      /\ \A r \in 1 .. n : rounds[r] = Station!Bytes("audio", i, r) \o Station!Block(block[r])
  <2>1. DOMAIN rounds = 1 .. n
    OBVIOUS
  <2>2. \A r \in 1 .. n : rounds[r] = Station!Bytes("audio", i, r) \o Station!Block(block[r])
    OBVIOUS
  <2>3. \A r \in 1 .. n : rounds[r] \in Seq(Byte)
    BY <1>1
  <2>4. rounds \in [1 .. n -> Seq(Byte)]
    <3>1. rounds = [r \in 1 .. n |-> rounds[r]]
      OBVIOUS
    <3> HIDE DEF rounds
    <3> QED BY <2>3, <3>1
  <2> HIDE DEF rounds
  <2>5. rounds \in Seq(Seq(Byte)) /\ Len(rounds) = n
    BY <2>4
  <2> QED BY <2>2, <2>5
<1> HIDE DEF rounds
<1>3. PICK f \in [0 .. n -> Seq(Byte)] : Joins(f, rounds)
  BY <1>2, JoinsExists
<1>4. f[0] = <<>> /\ \A r \in 1 .. n : f[r] = f[r - 1] \o rounds[r]
  BY <1>2, <1>3 DEF Joins
<1> DEFINE P == {r \in 0 .. n : \E h \in Seq(Byte) : Leads(Home(<<>>), f[r], Home(h))}
<1>5. 0 \in P
  <2>1. Home(<<>>) \in Parsers /\ <<>> \in Seq(Byte)
    <3>1. <<>> \in Seq(Byte) /\ i \in Nat
      OBVIOUS
    <3> QED BY <3>1, PartsTyped
  <2> HIDE DEF Home
  <2>2. Leads(Home(<<>>), f[0], Home(<<>>))
    BY <1>4, <2>1, LeadsNowhere
  <2>3. 0 \in 0 .. n
    OBVIOUS
  <2> QED BY <2>1, <2>2, <2>3
<1>6. ASSUME NEW r \in 1 .. n, r - 1 \in P PROVE r \in P
  <2>1. PICK k \in Seq(Byte) : Leads(Home(<<>>), f[r - 1], Home(k))
    BY <1>6
  <2>2. rounds[r] \in Seq(Byte) /\ \E h \in Seq(Byte) : Leads(Home(k), rounds[r], Home(h))
    BY <1>1, <1>2
  <2>3. PICK h \in Seq(Byte) : Leads(Home(k), rounds[r], Home(h))
    BY <2>2
  <2>4. r - 1 \in 0 .. n /\ r \in 0 .. n
    OBVIOUS
  <2>5. f[r - 1] \in Seq(Byte) /\ f[r] = f[r - 1] \o rounds[r]
    BY <1>4, <2>4
  <2> HIDE DEF Home
  <2>6. Leads(Home(<<>>), f[r], Home(h))
    BY <2>1, <2>2, <2>3, <2>5, LeadsOn
  <2> QED BY <2>4, <2>6
<1>7. n \in P
  <2>1. n \in 0 .. n
    OBVIOUS
  <2> HIDE DEF P
  <2>2. 0 .. n \subseteq P
    BY <1>5, <1>6, Positions
  <2> QED BY <2>1, <2>2
<1>8. Station!FlattenSeq(rounds) = f[n]
  BY <1>2, <1>3, Joined
<1>9. \E h \in Seq(Byte) : Leads(Home(<<>>), Station!FlattenSeq(rounds), Home(h))
  BY <1>7, <1>8
<1> QED BY <1>2, <1>9 DEF rounds

\* A whole stream.
LEMMA StreamLeads ==
  ASSUME NEW i \in Intervals, NEW w \in Station!Streams(i)
  PROVE  /\ Station!Parser(i) \in Parsers
         /\ w \in Seq(Byte)
         /\ \E q : Leads(Station!Parser(i), w, q)
<1>1. i \in Nat /\ Rounds \in Nat /\ <<>> \in Seq(Byte)
  BY StationAssumption
<1>2. Station!Parser(i) = ParserOf(i, "audio", i, <<>>)
  BY DEF Station!Parser, ParserOf
<1>3. Station!Parser(i) \in Parsers /\ Station!Parser(i).interval = i
  <2>1. ParserOf(i, "audio", i, <<>>) \in Parsers
    BY <1>1, PartsTyped
  <2> QED BY <1>2, <2>1, Parts
<1>4. CASE i = 0
  <2>1. w = Station!Bytes("audio", Rounds, 1)
    BY <1>4 DEF Station!Streams
  <2>2. Leads(Station!Parser(i), w, Station!Parser(i))
    BY <1>1, <1>3, <1>4, <2>1, PassesThrough
  <2>3. w \in Seq(Byte)
    BY <1>1, <2>1, BytesTypes
  <2> QED BY <1>3, <2>2, <2>3
<1>5. CASE i # 0
  <2>1. PICK block \in [1 .. Rounds -> Station!Blocks] :
          w = Station!FlattenSeq([r \in 1 .. Rounds |->
                                    Station!Bytes("audio", i, r) \o Station!Block(block[r])])
                \o Station!Bytes("audio", 1, 0)
    BY <1>5 DEF Station!Streams
  <2> DEFINE rounds == [r \in 1 .. Rounds |->
                          Station!Bytes("audio", i, r) \o Station!Block(block[r])]
             v == Station!FlattenSeq(rounds)
             last == <<"audio", 0>>
  <2>2. rounds \in Seq(Seq(Byte))
    BY <1>1, <1>5, RoundsLead
  <2>3. PICK h \in Seq(Byte) :
          Leads(ParserOf(i, "audio", i, <<>>), v, ParserOf(i, "audio", i, h))
    BY <1>1, <1>5, RoundsLead
  <2>4. v \in Seq(Byte)
    <3> HIDE DEF rounds
    <3> QED BY <2>2, JoinedType
  <2>5. Station!Bytes("audio", 1, 0) = <<last>>
    BY DEF Station!Bytes
  <2>6. last \in Byte /\ last[1] = "audio"
    BY DEF Byte
  <2> HIDE DEF rounds, v, last
  <2>7. w = v \o <<last>>
    BY <2>1, <2>5 DEF v, rounds
  <2> DEFINE p == ParserOf(i, "audio", i, h)
  <2>8. p \in Parsers /\ p.interval = i /\ p.mode = "audio"
    <3>1. p \in Parsers
      BY <1>1, <1>5, PartsTyped
    <3> QED BY <3>1, Parts
  <2> HIDE DEF p
  <2>9. Expects(p, last)
    BY <1>5, <2>6, <2>8 DEF Expects
  <2>10. Leads(p, <<last>>, After(p, last))
    BY <2>6, <2>8, <2>9, LeadsOne
  <2>11. <<last>> \in Seq(Byte)
    BY <2>6
  <2>12. Leads(Station!Parser(i), v \o <<last>>, After(p, last))
    BY <1>2, <2>3, <2>4, <2>10, <2>11, LeadsOn DEF p
  <2>13. v \o <<last>> \in Seq(Byte)
    BY <2>4, <2>11
  <2> QED BY <1>3, <2>7, <2>12, <2>13
<1> QED BY <1>4, <1>5

-----------------------------------------------------------------------------
(* The station's invariant. *)

\* The threads, the bytes and the counters have their types.
StationTypes ==
  /\ radioStop \in BOOLEAN /\ inner \in BOOLEAN /\ watcher \in {"runs", "done"}
  /\ main \in {"wait", "decode", "decoded", "unheard", "left"}
  /\ net \in {"open", "header", "loop", "await", "push", "reopen", "done"}
  /\ radioTries \in 0 .. RadioAttempts - 1 /\ connections \in 0 .. MaxConnections
  /\ headers \in BOOLEAN
  /\ parser \in Parsers /\ wire \in Seq(Byte)
  /\ {payload, overflow, owed} \subseteq Seq(Byte)
  /\ radioChannel \in Seq(Seq(Byte)) /\ Len(radioChannel) <= ChannelCapacity
  /\ attempt \in 0 .. MaxConnections /\ link \in {"up", "down"}
  /\ named \in Titles

\* The thread is past its first open only on a connection.
Opened == net \in {"header", "loop", "await", "push", "reopen"} => connections # 0

\* What is still to come leads the parser somewhere.
Expecting == \E q : Leads(parser, wire, q)

\* What was not read yet is what is left over, under way and in the thread's hands.
Owing ==
  /\ net \notin {"push", "done"} => payload = <<>>
  /\ overflow \o (Station!FlattenSeq(radioChannel) \o payload) = owed

\* The title and the link on display.
Telling == title = named /\ (link = "down" <=> attempt > 0)

StationInv == StationTypes /\ Opened /\ Expecting /\ Owing /\ Telling

\* The invariant has what is checked of a station in it.
LEMMA StationInvImplies ==
  StationInv => Station!AudioOnly /\ Station!ListenersAreTold
<1> SUFFICES ASSUME StationInv PROVE Station!AudioOnly /\ Station!ListenersAreTold
  OBVIOUS
<1>1. StationTypes /\ Owing /\ Telling
  BY DEF StationInv
<1>2. Station!FlattenSeq(radioChannel) \in Seq(Byte)
  BY <1>1, JoinedType DEF StationTypes
<1>3. Station!AudioOnly
  <2>1. ASSUME NEW s \in Seq(Byte), NEW t \in Seq(Byte), NEW u \in Seq(Byte)
        PROVE  s \o (t \o u) = (s \o t) \o u
    BY Associates
  <2>2. overflow \in Seq(Byte) /\ payload \in Seq(Byte)
    BY <1>1 DEF StationTypes
  <2> QED BY <1>1, <1>2, <2>1, <2>2 DEF Owing, Station!AudioOnly
<1>4. Station!TypeOK
  <2>1. parser.mode \in {"audio", "length", "meta"} /\ parser.left \in Nat
    BY <1>1 DEF StationTypes, Parsers
  <2>2. title \in Nat
    BY <1>1, StationAssumption DEF StationTypes, Telling
  <2> QED BY <1>1, <2>1, <2>2 DEF StationTypes, Station!TypeOK
<1>5. Station!TitleIsCurrent /\ Station!LinkIsTold
  BY <1>1 DEF Telling, Station!TitleIsCurrent, Station!LinkIsTold
<1> QED BY <1>3, <1>4, <1>5 DEF Station!ListenersAreTold

\* It holds before the first connection.
LEMMA InitStationInv == Station!Init => StationInv
<1> SUFFICES ASSUME Station!Init PROVE StationInv
  OBVIOUS
<1>1. /\ net = "open" /\ wire = <<>> /\ parser = Station!Parser(0) /\ radioChannel = <<>>
      /\ payload = <<>> /\ overflow = <<>> /\ owed = <<>>
      /\ title = 0 /\ named = 0 /\ link = "up" /\ attempt = 0
  BY DEF Station!Init
<1>2. parser = ParserOf(0, "audio", 0, <<>>)
  BY <1>1 DEF Station!Parser, ParserOf
<1>3. parser \in Parsers
  <2>1. <<>> \in Seq(Byte) /\ 0 \in Nat
    OBVIOUS
  <2> QED BY <1>2, <2>1, PartsTyped
<1>4. StationTypes
  <2>1. 0 \in 0 .. RadioAttempts - 1 /\ 0 \in 0 .. MaxConnections /\ 0 \in Titles
        /\ 0 <= ChannelCapacity
    BY StationAssumption
  <2>2. radioChannel \in Seq(Seq(Byte)) /\ Len(radioChannel) = 0
        /\ wire \in Seq(Byte) /\ {payload, overflow, owed} \subseteq Seq(Byte)
    BY <1>1
  <2> QED BY <1>1, <1>3, <2>1, <2>2 DEF Station!Init, StationTypes
<1>5. Opened /\ Telling
  BY <1>1 DEF Opened, Telling
<1>6. Expecting
  BY <1>1, <1>3, LeadsNowhere DEF Expecting
<1>7. Owing
  <2>1. <<>> \o (<<>> \o <<>>) = <<>>
    OBVIOUS
  <2> QED BY <1>1, <2>1, JoinedNone DEF Owing
<1> QED BY <1>4, <1>5, <1>6, <1>7 DEF StationInv

\* A title that a chunk completed is one of the titles.
LEMMA CompletedTitle ==
  ASSUME NEW w \in Seq(Byte), named \in Titles
  PROVE  Station!Completed(w) \in Titles
<1> DEFINE n == Len(w)
<1>1. DOMAIN w = 1 .. n /\ n \in Nat
  OBVIOUS
<1>2. Station!Completed(w) = IF Ends(w, n) = {} THEN named ELSE w[Station!Max(Ends(w, n))][2]
  BY <1>1 DEF Station!Completed, Ends
<1>3. ASSUME Ends(w, n) # {} PROVE Station!Max(Ends(w, n)) \in Ends(w, n)
  <2>1. Ends(w, n) \subseteq 1 .. n
    BY DEF Ends
  <2> QED BY <1>1, <1>3, <2>1, GreatestExists
<1>4. ASSUME NEW j \in Ends(w, n) PROVE w[j][2] \in Titles
  <2>1. j \in 1 .. n /\ w[j][1] = "end"
    BY DEF Ends
  <2>2. w[j] \in Byte
    BY <2>1
  <2> QED BY <2>1, <2>2 DEF Byte
<1> QED BY <1>2, <1>3, <1>4

-----------------------------------------------------------------------------
(* What an action does to the bytes. *)

\* A new connection: its stream, and a parser for it.
LEMMA OpensConnected ==
  ASSUME StationInv, Station!Opens
  PROVE  /\ parser' \in Parsers /\ wire' \in Seq(Byte) /\ Expecting'
         /\ connections' \in 1 .. MaxConnections
<1>1. PICK i \in Intervals : Station!Connected(i)
  BY DEF Station!Opens
<1>2. parser' = Station!Parser(i) /\ wire' \in Station!Streams(i)
  BY <1>1 DEF Station!Connected
<1>3. \A w \in Station!Streams(i) :
        Station!Parser(i) \in Parsers /\ w \in Seq(Byte) /\ \E q : Leads(Station!Parser(i), w, q)
  BY StreamLeads
<1>4. parser' \in Parsers /\ wire' \in Seq(Byte) /\ \E q : Leads(parser', wire', q)
  BY <1>2, <1>3
<1>5. connections' = connections + 1 /\ connections < MaxConnections
  BY <1>1 DEF Station!Connected, Station!Opens
<1>6. connections \in 0 .. MaxConnections /\ MaxConnections \in Nat
  BY StationAssumption DEF StationInv, StationTypes
<1> QED BY <1>4, <1>5, <1>6 DEF Expecting

\* A chunk: the audio the server sent is parsed out of it, and the title it completed.
LEMMA ChunkParsed ==
  ASSUME StationInv, Station!Chunk
  PROVE  /\ parser' \in Parsers /\ wire' \in Seq(Byte) /\ Expecting'
         /\ payload' \in Seq(Byte) /\ owed' = owed \o payload'
         /\ title' = named' /\ named' \in Titles
         /\ net' = IF payload' = <<>> THEN "loop" ELSE "push"
         /\ IF payload' = <<>> THEN Station!Resumed ELSE UNCHANGED <<attempt, link>>
<1>1. PICK n \in 1 .. Len(wire) :
        LET chunk == SubSeq(wire, 1, n)
            parsed == Station!Parse(parser, chunk)
        IN /\ wire' = SubSeq(wire, n + 1, Len(wire))
           /\ parser' = parsed.p
           /\ title' = Station!Published(parsed.blocks)
           /\ payload' = parsed.audio
           /\ owed' = owed \o Station!Sound(chunk)
           /\ named' = Station!Completed(chunk)
           /\ IF parsed.audio = <<>>
              THEN net' = "loop" /\ Station!Resumed
              ELSE net' = "push" /\ UNCHANGED <<attempt, link>>
  BY DEF Station!Chunk
<1> DEFINE chunk == SubSeq(wire, 1, n)
           rest == SubSeq(wire, n + 1, Len(wire))
<1>2. /\ wire \in Seq(Byte) /\ parser \in Parsers /\ named \in Titles /\ title = named
  BY DEF StationInv, StationTypes, Telling
<1>3. chunk \in Seq(Byte) /\ rest \in Seq(Byte) /\ n \in 0 .. Len(wire)
  BY <1>2
<1>4. PICK q : Leads(parser, wire, q)
  BY DEF StationInv, Expecting
<1>5. PICK m \in Parsers : Leads(parser, chunk, m) /\ Leads(m, rest, q)
  BY <1>2, <1>3, <1>4, LeadsApart
<1> DEFINE parsed == Station!Parse(parser, chunk)
<1>6. /\ wire' = rest /\ parser' = parsed.p /\ title' = Station!Published(parsed.blocks)
      /\ payload' = parsed.audio /\ owed' = owed \o Station!Sound(chunk)
      /\ named' = Station!Completed(chunk)
      /\ IF parsed.audio = <<>>
         THEN net' = "loop" /\ Station!Resumed
         ELSE net' = "push" /\ UNCHANGED <<attempt, link>>
  BY <1>1
<1> HIDE DEF chunk, rest
<1>7. /\ parsed.p = m /\ parsed.audio = Station!Sound(chunk) /\ Station!Sound(chunk) \in Seq(Byte)
      /\ Station!Published(parsed.blocks) = Station!Completed(chunk)
  BY <1>2, <1>3, <1>5, ParsedChunk
<1>8. Station!Completed(chunk) \in Titles
  BY <1>2, <1>3, CompletedTitle
<1> HIDE DEF parsed
<1>9. Leads(parser', wire', q)
  BY <1>5, <1>6, <1>7
<1> QED BY <1>3, <1>6, <1>7, <1>8, <1>9 DEF Expecting

\* What is cut off the front of a concatenation is cut off its first part.
LEMMA CutInFront ==
  ASSUME NEW X, NEW s \in Seq(X), NEW t \in Seq(X), NEW n \in Nat, n <= Len(s)
  PROVE  SubSeq(s, n + 1, Len(s)) \o t = SubSeq(s \o t, n + 1, Len(s \o t))
<1> DEFINE a == SubSeq(s, n + 1, Len(s))
           b == SubSeq(s \o t, n + 1, Len(s \o t))
<1>1. /\ a \in Seq(X) /\ Len(a) = Len(s) - n
      /\ \A j \in 1 .. Len(s) - n : a[j] = s[j + n]
  OBVIOUS
<1>2. /\ s \o t \in Seq(X) /\ Len(s \o t) = Len(s) + Len(t)
      /\ \A j \in 1 .. Len(s) : (s \o t)[j] = s[j]
      /\ \A j \in 1 .. Len(t) : (s \o t)[Len(s) + j] = t[j]
  OBVIOUS
<1>3. /\ b \in Seq(X) /\ Len(b) = Len(s) + Len(t) - n
      /\ \A j \in 1 .. Len(s) + Len(t) - n : b[j] = (s \o t)[j + n]
  <2> DEFINE c == s \o t
  <2> HIDE DEF c
  <2> QED BY <1>2 DEF c
<1> HIDE DEF a, b
<1>4. /\ a \o t \in Seq(X) /\ Len(a \o t) = Len(s) - n + Len(t)
      /\ \A j \in 1 .. Len(s) - n : (a \o t)[j] = a[j]
      /\ \A j \in 1 .. Len(t) : (a \o t)[Len(s) - n + j] = t[j]
  <2>0. ASSUME NEW u \in Seq(X)
        PROVE  /\ u \o t \in Seq(X) /\ Len(u \o t) = Len(u) + Len(t)
               /\ \A j \in 1 .. Len(u) : (u \o t)[j] = u[j]
               /\ \A j \in 1 .. Len(t) : (u \o t)[Len(u) + j] = t[j]
    OBVIOUS
  <2>1. /\ a \o t \in Seq(X) /\ Len(a \o t) = Len(a) + Len(t)
        /\ \A j \in 1 .. Len(a) : (a \o t)[j] = a[j]
        /\ \A j \in 1 .. Len(t) : (a \o t)[Len(a) + j] = t[j]
    BY <1>1, <2>0
  <2> QED BY <1>1, <2>1
<1>5. ASSUME NEW j \in 1 .. Len(s) + Len(t) - n PROVE (a \o t)[j] = b[j]
  <2>1. CASE j <= Len(s) - n
    <3>1. j \in 1 .. Len(s) - n /\ j + n \in 1 .. Len(s)
      BY <2>1
    <3> QED BY <1>1, <1>2, <1>3, <1>4, <3>1
  <2>2. CASE j > Len(s) - n
    <3> DEFINE k == j - (Len(s) - n)
    <3>1. k \in 1 .. Len(t) /\ j = Len(s) - n + k /\ j + n = Len(s) + k
      BY <2>2
    <3> HIDE DEF k
    <3> QED BY <1>2, <1>3, <1>4, <3>1
  <2>3. j <= Len(s) - n \/ j > Len(s) - n
    OBVIOUS
  <2> QED BY <2>1, <2>2, <2>3
<1>6. a \o t = b
  <2> DEFINE d == a \o t
  <2> HIDE DEF d
  <2>1. /\ d \in Seq(X) /\ b \in Seq(X) /\ Len(d) = Len(b)
        /\ \A j \in 1 .. Len(b) : d[j] = b[j]
    BY <1>3, <1>4, <1>5 DEF d
  <2>2. d = b
    BY <2>1
  <2> QED BY <2>2 DEF d
<1> QED BY <1>6 DEF a, b

\* A read: what is taken is the oldest of what is owed.
LEMMA ReadOldest ==
  ASSUME StationInv, Station!Read
  PROVE  /\ overflow' \in Seq(Byte) /\ owed' \in Seq(Byte)
         /\ radioChannel' \in Seq(Seq(Byte)) /\ Len(radioChannel') <= ChannelCapacity
         /\ overflow' \o (Station!FlattenSeq(radioChannel') \o payload) = owed'
<1>1. PICK n \in 1 .. MaxChunk : Station!ReadSome(n)
  BY DEF Station!Read
<1> DEFINE under == Station!FlattenSeq(radioChannel)
<1>2. /\ overflow \in Seq(Byte) /\ payload \in Seq(Byte) /\ owed \in Seq(Byte)
      /\ radioChannel \in Seq(Seq(Byte)) /\ Len(radioChannel) <= ChannelCapacity
      /\ overflow \o (under \o payload) = owed
  BY DEF StationInv, StationTypes, Owing
<1>3. under \in Seq(Byte)
  BY <1>2, JoinedType
<1>4. n \in Nat \ {0} /\ ChannelCapacity \in Nat
  BY StationAssumption
<1>5. ASSUME NEW s \in Seq(Byte), NEW t \in Seq(Byte), n <= Len(s)
      PROVE  SubSeq(s, n + 1, Len(s)) \o t = SubSeq(s \o t, n + 1, Len(s \o t))
  BY <1>4, <1>5, CutInFront
<1>6. ASSUME NEW s \in Seq(Byte), NEW t \in Seq(Byte), NEW u \in Seq(Byte)
      PROVE  s \o (t \o u) = (s \o t) \o u
  BY Associates
<1>7. CASE /\ n <= Len(overflow) /\ UNCHANGED radioChannel
           /\ overflow' = SubSeq(overflow, n + 1, Len(overflow))
           /\ owed' = SubSeq(owed, n + 1, Len(owed))
  <2> DEFINE others == under \o payload
  <2>1. others \in Seq(Byte)
    BY <1>2, <1>3
  <2>2. Station!FlattenSeq(radioChannel') \o payload = others
    BY <1>7
  <2> HIDE DEF under, others
  <2>3. overflow \o others = owed
    BY <1>2 DEF others
  <2>4. SubSeq(overflow, n + 1, Len(overflow)) \o others = SubSeq(owed, n + 1, Len(owed))
    <3>1. SubSeq(overflow, n + 1, Len(overflow)) \o others =
            SubSeq(overflow \o others, n + 1, Len(overflow \o others))
      BY <1>2, <1>5, <1>7, <2>1
    <3> QED BY <2>3, <3>1
  <2>5. overflow' \in Seq(Byte) /\ owed' \in Seq(Byte)
    BY <1>2, <1>4, <1>7
  <2> QED BY <1>2, <1>7, <2>2, <2>4, <2>5
<1>8. CASE /\ overflow = <<>> /\ radioChannel # <<>> /\ n <= Len(Head(radioChannel))
           /\ overflow' = SubSeq(Head(radioChannel), n + 1, Len(Head(radioChannel)))
           /\ radioChannel' = Tail(radioChannel)
           /\ owed' = SubSeq(owed, n + 1, Len(owed))
  <2> DEFINE first == Head(radioChannel)
             later == Station!FlattenSeq(Tail(radioChannel))
  <2>1. /\ first \in Seq(Byte) /\ Tail(radioChannel) \in Seq(Seq(Byte))
        /\ Len(Tail(radioChannel)) <= ChannelCapacity
    BY <1>2, <1>4, <1>8
  <2>2. later \in Seq(Byte)
    BY <2>1, JoinedType
  <2>3. under = first \o later
    BY <1>2, <1>8, JoinedTail
  <2>4. later \o payload \in Seq(Byte)
    <3> HIDE DEF later
    <3> QED BY <1>2, <2>2
  <2>5. owed = under \o payload
    <3>1. under \o payload \in Seq(Byte)
      <4> HIDE DEF under
      <4> QED BY <1>2, <1>3
    <3>2. <<>> \o (under \o payload) = owed
      BY <1>2, <1>8
    <3> HIDE DEF under
    <3> QED BY <3>1, <3>2
  <2>6. n <= Len(first) /\ overflow' = SubSeq(first, n + 1, Len(first))
        /\ Station!FlattenSeq(radioChannel') = later
    BY <1>8
  <2> HIDE DEF first, later, under
  <2>7. owed = first \o (later \o payload)
    BY <1>2, <1>6, <2>1, <2>2, <2>3, <2>5
  <2>8. SubSeq(first, n + 1, Len(first)) \o (later \o payload) = SubSeq(owed, n + 1, Len(owed))
    BY <1>5, <2>1, <2>4, <2>6, <2>7
  <2>9. overflow' \in Seq(Byte) /\ owed' \in Seq(Byte)
    BY <1>2, <1>4, <1>8, <2>1, <2>6
  <2> QED BY <1>8, <2>1, <2>6, <2>8, <2>9
<1> QED BY <1>1, <1>7, <1>8 DEF Station!ReadSome

\* A chunk handed over is under way, and is all the thread had.
LEMMA PushHandsOver ==
  ASSUME StationInv, Station!Push
  PROVE  /\ radioChannel' \in Seq(Seq(Byte)) /\ Len(radioChannel') <= ChannelCapacity
         /\ overflow' \o (Station!FlattenSeq(radioChannel') \o payload') = owed'
<1> DEFINE under == Station!FlattenSeq(radioChannel)
<1>1. /\ overflow \in Seq(Byte) /\ payload \in Seq(Byte)
      /\ radioChannel \in Seq(Seq(Byte))
      /\ overflow \o (under \o payload) = owed
  BY DEF StationInv, StationTypes, Owing
<1>2. /\ Len(radioChannel) < ChannelCapacity /\ radioChannel' = Append(radioChannel, payload)
      /\ payload' = <<>> /\ overflow' = overflow /\ owed' = owed
  BY DEF Station!Push, Station!HandOver
<1>3. Station!FlattenSeq(radioChannel') = under \o payload
  BY <1>1, <1>2, JoinedAppend
<1>4. under \o payload \in Seq(Byte)
  <2>1. under \in Seq(Byte)
    BY <1>1, JoinedType
  <2> HIDE DEF under
  <2> QED BY <1>1, <2>1
<1>5. (under \o payload) \o <<>> = under \o payload
  <2> DEFINE s == under \o payload
  <2> HIDE DEF s
  <2>1. s \in Seq(Byte) => s \o <<>> = s
    OBVIOUS
  <2> QED BY <1>4, <2>1 DEF s
<1>6. ChannelCapacity \in Nat /\ Len(radioChannel) \in Nat
      /\ Append(radioChannel, payload) \in Seq(Seq(Byte))
      /\ Len(Append(radioChannel, payload)) = Len(radioChannel) + 1
  BY <1>1, StationAssumption
<1>7. Len(radioChannel') <= ChannelCapacity
  BY <1>2, <1>6
<1> HIDE DEF under
<1> QED BY <1>1, <1>2, <1>3, <1>5, <1>6, <1>7

-----------------------------------------------------------------------------
(* Every step keeps the invariant. *)

\* A step that only moves a thread or sets a flag.
Moves ==
  \/ Station!Stop \/ Station!Watch \/ Station!SendHeaders \/ Station!CheckStop
  \/ Station!PushGivesUp \/ Station!TakeHeaders \/ Station!NoHeaders \/ Station!DecodeEnds
  \/ Station!Join

\* These and seven others are all the steps.
LEMMA StationSteps ==
  Station!Next => Moves \/ Station!Opens \/ Station!OpenFails \/ Station!Chunk \/ Station!Push
                  \/ Station!Breaks \/ Station!Read
BY DEF Station!Next, Station!Net, Station!Main, Moves

\* Such a step leaves the bytes and the news alone.
LEMMA StationMoves ==
  ASSUME StationInv, Moves
  PROVE  /\ UNCHANGED <<radioTries, connections, parser, wire, payload, radioChannel, overflow,
                        owed, attempt, link, title, named>>
         /\ radioStop' \in BOOLEAN /\ inner' \in BOOLEAN /\ watcher' \in {"runs", "done"}
         /\ main' \in {"wait", "decode", "decoded", "unheard", "left"} /\ headers' \in BOOLEAN
         /\ \/ net' = net
            \/ net \in {"header", "loop"} /\ net' \in {"loop", "await", "done"}
            \/ net = "push" /\ net' = "done"
<1>1. CASE Station!Stop
  BY <1>1 DEF StationInv, StationTypes, Station!Stop, Station!flags, Station!serverVars,
               Station!busVars, Station!pipeVars
<1>2. CASE Station!Watch
  BY <1>2 DEF StationInv, StationTypes, Station!Watch, Station!flags, Station!serverVars,
               Station!busVars, Station!pipeVars
<1>3. CASE Station!SendHeaders
  BY <1>3 DEF StationInv, StationTypes, Station!SendHeaders, Station!flags, Station!serverVars,
               Station!busVars, Station!pipeVars
<1>4. CASE Station!CheckStop
  BY <1>4 DEF StationInv, StationTypes, Station!CheckStop, Station!flags, Station!serverVars,
               Station!busVars, Station!pipeVars
<1>5. CASE Station!PushGivesUp
  BY <1>5 DEF StationInv, StationTypes, Station!PushGivesUp, Station!flags, Station!serverVars,
               Station!busVars, Station!pipeVars
<1>6. CASE Station!TakeHeaders
  BY <1>6 DEF StationInv, StationTypes, Station!TakeHeaders, Station!flags, Station!serverVars,
               Station!busVars, Station!pipeVars
<1>7. CASE Station!NoHeaders
  BY <1>7 DEF StationInv, StationTypes, Station!NoHeaders, Station!flags, Station!serverVars,
               Station!busVars, Station!pipeVars
<1>8. CASE Station!DecodeEnds
  BY <1>8 DEF StationInv, StationTypes, Station!DecodeEnds, Station!flags, Station!serverVars,
               Station!busVars, Station!pipeVars, Station!Finish
<1>9. CASE Station!Join
  BY <1>9 DEF StationInv, StationTypes, Station!Join, Station!flags, Station!serverVars,
               Station!busVars, Station!pipeVars
<1> QED BY <1>1, <1>2, <1>3, <1>4, <1>5, <1>6, <1>7, <1>8, <1>9 DEF Moves

\* The types.
LEMMA StationTypesStep ==
  ASSUME StationInv, Station!Next
  PROVE  StationTypes'
<1>1. StationTypes
  BY DEF StationInv
<1>2. CASE Moves
  BY <1>1, <1>2, StationMoves DEF StationTypes
<1>3. CASE Station!Opens
  <2>1. parser' \in Parsers /\ wire' \in Seq(Byte) /\ connections' \in 1 .. MaxConnections
    BY <1>3, OpensConnected
  <2>2. connections' \in 0 .. MaxConnections /\ 0 \in 0 .. RadioAttempts - 1
    BY <2>1, StationAssumption
  <2>3. UNCHANGED <<radioStop, inner, watcher, main, headers, payload, attempt, title, link, named,
                    radioChannel, overflow, owed>>
    BY <1>3 DEF Station!Opens, Station!flags, Station!busVars, Station!pipeVars
  <2>4. net' \in {"header", "loop"} /\ radioTries' = 0
    BY <1>3 DEF Station!Opens
  <2> QED BY <1>1, <2>1, <2>2, <2>3, <2>4 DEF StationTypes
<1>4. CASE Station!OpenFails
  <2>1. radioTries \in 0 .. RadioAttempts - 1 /\ RadioAttempts \in Nat \ {0}
    BY <1>1, StationAssumption DEF StationTypes
  <2>2. radioTries' = (radioTries + 1) % RadioAttempts
    BY <1>4 DEF Station!OpenFails
  <2>3. radioTries' \in 0 .. RadioAttempts - 1
    BY <2>1, <2>2
  <2>4. UNCHANGED <<radioStop, inner, watcher, main, headers, wire, connections, parser, payload,
                    attempt, title, link, named, radioChannel, overflow, owed>>
    BY <1>4 DEF Station!OpenFails, Station!flags, Station!serverVars, Station!busVars,
                Station!pipeVars
  <2>5. net' \in {"done", net}
    BY <1>4 DEF Station!OpenFails
  <2> QED BY <1>1, <2>3, <2>4, <2>5 DEF StationTypes
<1>5. CASE Station!Chunk
  <2>1. /\ parser' \in Parsers /\ wire' \in Seq(Byte) /\ payload' \in Seq(Byte)
        /\ named' \in Titles /\ net' \in {"loop", "push"} /\ owed' = owed \o payload'
        /\ Station!Resumed \/ UNCHANGED <<attempt, link>>
    BY <1>5, ChunkParsed
  <2>2. owed \o payload' \in Seq(Byte)
    <3>1. owed \in Seq(Byte)
      BY <1>1 DEF StationTypes
    <3> QED BY <2>1, <3>1
  <2>3. attempt' \in 0 .. MaxConnections /\ link' \in {"up", "down"}
    <3>1. 0 \in 0 .. MaxConnections
      BY StationAssumption
    <3>2. attempt \in 0 .. MaxConnections /\ link \in {"up", "down"}
      BY <1>1 DEF StationTypes
    <3>3. CASE Station!Resumed
      BY <3>1, <3>2, <3>3 DEF Station!Resumed
    <3>4. CASE UNCHANGED <<attempt, link>>
      BY <3>2, <3>4
    <3> QED BY <2>1, <3>3, <3>4
  <2>4. UNCHANGED <<radioStop, inner, watcher, main, radioTries, connections, headers, radioChannel,
                    overflow>>
    BY <1>5 DEF Station!Chunk, Station!flags
  <2> QED BY <1>1, <2>1, <2>2, <2>3, <2>4 DEF StationTypes
<1>6. CASE Station!Push
  <2>1. radioChannel' \in Seq(Seq(Byte)) /\ Len(radioChannel') <= ChannelCapacity
    BY <1>6, PushHandsOver
  <2>2. attempt' \in 0 .. MaxConnections /\ link' \in {"up", "down"}
    BY <1>1, <1>6, StationAssumption DEF StationTypes, Station!Push, Station!Resumed
  <2>3. UNCHANGED <<radioStop, inner, watcher, main, radioTries, wire, connections, headers, parser,
                    named, overflow, owed>>
    BY <1>6 DEF Station!Push, Station!flags, Station!serverVars
  <2>4. payload' \in Seq(Byte) /\ net' = "loop"
    BY <1>6 DEF Station!Push
  <2> QED BY <1>1, <2>1, <2>2, <2>3, <2>4 DEF StationTypes
<1>7. CASE Station!Breaks
  <2>1. attempt' \in 0 .. MaxConnections
    BY <1>1, <1>7, StationAssumption DEF StationTypes, Station!Breaks
  <2>2. wire' \in Seq(Byte) /\ link' = "down" /\ net' = "reopen"
    BY <1>7 DEF Station!Breaks
  <2>3. UNCHANGED <<radioStop, inner, watcher, main, radioTries, connections, headers, parser,
                    payload, named, radioChannel, overflow, owed>>
    BY <1>7 DEF Station!Breaks, Station!flags, Station!pipeVars
  <2> QED BY <1>1, <2>1, <2>2, <2>3 DEF StationTypes
<1>8. CASE Station!Read
  <2>1. /\ overflow' \in Seq(Byte) /\ owed' \in Seq(Byte)
        /\ radioChannel' \in Seq(Seq(Byte)) /\ Len(radioChannel') <= ChannelCapacity
    BY <1>8, ReadOldest
  <2>2. UNCHANGED <<radioStop, inner, watcher, main, net, radioTries, wire, connections, headers,
                    parser, payload, attempt, link, named>>
    BY <1>8 DEF Station!Read, Station!flags, Station!serverVars, Station!busVars
  <2> QED BY <1>1, <2>1, <2>2 DEF StationTypes
<1> QED BY <1>2, <1>3, <1>4, <1>5, <1>6, <1>7, <1>8, StationSteps

\* The thread goes on only with a connection.
LEMMA OpenedStep ==
  ASSUME StationInv, Station!Next
  PROVE  Opened'
<1>1. Opened /\ net \in {"open", "header", "loop", "await", "push", "reopen", "done"}
  BY DEF StationInv, StationTypes
<1>2. CASE Moves
  BY <1>1, <1>2, StationMoves DEF Opened
<1>3. CASE Station!Opens
  <2>1. connections' \in 1 .. MaxConnections
    BY <1>3, OpensConnected
  <2>2. connections' # 0
    BY <2>1, StationAssumption
  <2> QED BY <2>2 DEF Opened
<1>4. CASE Station!OpenFails
  BY <1>1, <1>4 DEF Opened, Station!OpenFails, Station!serverVars
<1>5. CASE Station!Chunk
  BY <1>1, <1>5 DEF Opened, Station!Chunk
<1>6. CASE Station!Push
  BY <1>1, <1>6 DEF Opened, Station!Push, Station!serverVars
<1>7. CASE Station!Breaks
  BY <1>1, <1>7 DEF Opened, Station!Breaks
<1>8. CASE Station!Read
  BY <1>1, <1>8 DEF Opened, Station!Read, Station!serverVars
<1> QED BY <1>2, <1>3, <1>4, <1>5, <1>6, <1>7, <1>8, StationSteps

\* What is to come goes on fitting the parser.
LEMMA ExpectingStep ==
  ASSUME StationInv, Station!Next
  PROVE  Expecting'
<1>1. Expecting /\ parser \in Parsers
  BY DEF StationInv, StationTypes
<1>2. UNCHANGED <<parser, wire>> => Expecting'
  BY <1>1 DEF Expecting
<1>3. CASE Moves
  BY <1>2, <1>3, StationMoves
<1>4. CASE Station!Opens
  BY <1>4, OpensConnected
<1>5. CASE Station!Chunk
  BY <1>5, ChunkParsed
<1>6. CASE Station!Breaks
  <2>1. wire' = <<>> /\ parser' = parser
    BY <1>6 DEF Station!Breaks
  <2> QED BY <1>1, <2>1, LeadsNowhere DEF Expecting
<1>7. CASE Station!OpenFails \/ Station!Push \/ Station!Read
  <2>1. UNCHANGED <<parser, wire>>
    BY <1>7 DEF Station!OpenFails, Station!Push, Station!Read, Station!serverVars
  <2> QED BY <1>2, <2>1
<1> QED BY <1>3, <1>4, <1>5, <1>6, <1>7, StationSteps

\* Nothing of the audio is lost, doubled or turned round on its way.
LEMMA OwingStep ==
  ASSUME StationInv, Station!Next
  PROVE  Owing'
<1> DEFINE under == Station!FlattenSeq(radioChannel)
<1>1. /\ Owing /\ overflow \in Seq(Byte) /\ radioChannel \in Seq(Seq(Byte))
      /\ net \in {"open", "header", "loop", "await", "push", "reopen", "done"}
  BY DEF StationInv, StationTypes
<1>2. ASSUME UNCHANGED <<payload, radioChannel, overflow, owed>>,
             net' \notin {"push", "done"} => payload = <<>>
      PROVE  Owing'
  BY <1>1, <1>2 DEF Owing
<1>3. CASE Moves
  BY <1>1, <1>2, <1>3, StationMoves DEF Owing
<1>4. CASE Station!Opens
  <2>1. net \in {"open", "reopen"} /\ UNCHANGED <<payload, radioChannel, overflow, owed>>
    BY <1>4 DEF Station!Opens, Station!pipeVars
  <2> QED BY <1>1, <1>2, <2>1 DEF Owing
<1>5. CASE Station!OpenFails
  <2>1. net \in {"open", "reopen"} /\ UNCHANGED <<payload, radioChannel, overflow, owed>>
    BY <1>5 DEF Station!OpenFails, Station!pipeVars
  <2> QED BY <1>1, <1>2, <2>1 DEF Owing
<1>6. CASE Station!Breaks
  <2>1. net = "await" /\ UNCHANGED <<payload, radioChannel, overflow, owed>>
    BY <1>6 DEF Station!Breaks, Station!pipeVars
  <2> QED BY <1>1, <1>2, <2>1 DEF Owing
<1>7. CASE Station!Read
  <2>1. overflow' \o (Station!FlattenSeq(radioChannel') \o payload) = owed'
    BY <1>7, ReadOldest
  <2>2. UNCHANGED <<net, payload>>
    BY <1>7 DEF Station!Read
  <2> QED BY <1>1, <2>1, <2>2 DEF Owing
<1>8. CASE Station!Push
  <2>1. overflow' \o (Station!FlattenSeq(radioChannel') \o payload') = owed'
    BY <1>8, PushHandsOver
  <2>2. payload' = <<>>
    BY <1>8 DEF Station!Push
  <2> QED BY <2>1, <2>2 DEF Owing
<1>9. CASE Station!Chunk
  <2>1. /\ payload' \in Seq(Byte) /\ owed' = owed \o payload'
        /\ net' = IF payload' = <<>> THEN "loop" ELSE "push"
    BY <1>9, ChunkParsed
  <2>2. net = "await" /\ UNCHANGED <<radioChannel, overflow>>
    BY <1>9 DEF Station!Chunk
  <2>3. payload = <<>> /\ overflow \o (under \o payload) = owed
    BY <1>1, <2>2 DEF Owing
  <2>4. under \in Seq(Byte)
    BY <1>1, JoinedType
  <2>5. ASSUME NEW s \in Seq(Byte), NEW t \in Seq(Byte), NEW u \in Seq(Byte)
        PROVE  s \o (t \o u) = (s \o t) \o u
    BY Associates
  <2>6. Station!FlattenSeq(radioChannel') = under
    BY <2>2
  <2> HIDE DEF under
  <2>7. under \o <<>> = under
    BY <2>4
  <2>8. owed = overflow \o under
    BY <2>3, <2>7
  <2>9. overflow \o (under \o payload') = (overflow \o under) \o payload'
    BY <1>1, <2>1, <2>4, <2>5
  <2>10. net' \notin {"push", "done"} => payload' = <<>>
    BY <2>1
  <2> QED BY <2>1, <2>2, <2>6, <2>8, <2>9, <2>10 DEF Owing
<1> QED BY <1>3, <1>4, <1>5, <1>6, <1>7, <1>8, <1>9, StationSteps

\* What clients see of the station stays current.
LEMMA TellingStep ==
  ASSUME StationInv, Station!Next
  PROVE  Telling'
<1>1. Telling /\ StationTypes /\ Opened /\ MaxConnections \in Nat
  BY StationAssumption DEF StationInv
<1>2. UNCHANGED <<title, named, attempt, link>> => Telling'
  BY <1>1 DEF Telling
<1>3. CASE Moves
  BY <1>2, <1>3, StationMoves
<1>4. CASE Station!Opens \/ Station!OpenFails \/ Station!Read
  <2>1. UNCHANGED <<title, named, attempt, link>>
    BY <1>4 DEF Station!Opens, Station!OpenFails, Station!Read, Station!busVars
  <2> QED BY <1>2, <2>1
<1>5. Station!Resumed => (link' = "down" <=> attempt' > 0)
  BY <1>1 DEF StationTypes, Telling, Station!Resumed
<1>6. CASE Station!Chunk
  <2>1. title' = named' /\ (Station!Resumed \/ UNCHANGED <<attempt, link>>)
    BY <1>6, ChunkParsed
  <2> QED BY <1>1, <1>5, <2>1 DEF Telling
<1>7. CASE Station!Push
  <2>1. Station!Resumed /\ UNCHANGED <<title, named>>
    BY <1>7 DEF Station!Push
  <2> QED BY <1>1, <1>5, <2>1 DEF Telling
<1>8. CASE Station!Breaks
  <2>1. net = "await" /\ link' = "down" /\ UNCHANGED <<title, named>>
        /\ attempt' = IF attempt < MaxConnections THEN attempt + 1 ELSE attempt
    BY <1>8 DEF Station!Breaks
  <2>2. MaxConnections > 0
    BY <1>1, <2>1 DEF Opened, StationTypes
  <2>3. attempt' > 0
    BY <1>1, <2>1, <2>2 DEF StationTypes
  <2> QED BY <1>1, <2>1, <2>3 DEF Telling
<1> QED BY <1>3, <1>4, <1>6, <1>7, <1>8, StationSteps

\* Every part of the invariant is kept.
LEMMA StepStationInv == StationInv /\ [Station!Next]_(Station!vars) => StationInv'
<1>1. ASSUME StationInv, Station!Next PROVE StationInv'
  BY <1>1, StationTypesStep, OpenedStep, ExpectingStep, OwingStep, TellingStep DEF StationInv
<1>2. ASSUME StationInv, UNCHANGED Station!vars PROVE StationInv'
  BY <1>2 DEF StationInv, StationTypes, Opened, Expecting, Owing, Telling, Station!vars,
              Station!flags, Station!serverVars, Station!busVars, Station!pipeVars
<1> QED BY <1>1, <1>2

\* It holds in every state.
LEMMA StationInvariance == Station!Spec => []StationInv
BY InitStationInv, StepStationInv, PTL DEF Station!Spec

\* While the daemon plays a station, it is what the radio's module says.
LEMMA StationIsOpened == SourcesSpec => Station!Spec
<1>1. SourcesInit => Station!Init
  BY DEF SourcesInit
<1>2. [SourcesNext]_sourcesVars => [Station!Next]_(Station!vars)
  <2>1. UNCHANGED radioVars => UNCHANGED Station!vars
    BY DEF radioVars, Station!vars, Station!flags, Station!serverVars, Station!busVars,
           Station!pipeVars
  <2>2. UNCHANGED sourcesVars => UNCHANGED radioVars
    BY DEF sourcesVars
  <2>3. SourcesNext => Station!Next \/ UNCHANGED radioVars
    BY DEF SourcesNext, FolderNext, RadioNext, TrackNext
  <2> QED BY <2>1, <2>2, <2>3
<1> QED BY <1>1, <1>2, PTL DEF SourcesSpec, Station!Spec

\* However a server cuts its stream into chunks, however many blocks of whatever length
\* it puts into the audio, and wherever the connection breaks: the decoder's reads get
\* all the audio in its order and no metadata.
THEOREM AudioOnlyHolds ==
  /\ Station!Spec => []AudioOnly
  /\ SourcesSpec => []AudioOnly
BY StationInvImplies, StationInvariance, StationIsOpened, PTL DEF AudioOnly

\* For any titles, blocks, cuts and breaks: the title on display is the last one the server
\* completed, and a break is on display exactly until a chunk gets through again.
THEOREM ListenersAreToldHolds ==
  /\ Station!Spec => []ListenersAreTold
  /\ SourcesSpec => []ListenersAreTold
BY StationInvImplies, StationInvariance, StationIsOpened, PTL DEF ListenersAreTold
=============================================================================
