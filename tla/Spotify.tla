------------------------------ MODULE Spotify ------------------------------
(***************************************************************************)
(* Spotify credentials and sessions (sources/spotify: auth.rs, handle.rs,  *)
(* token.rs, webapi.rs, mod.rs; the verbs of daemon/event_loop.rs that use *)
(* them; `clitunes auth`).                                                 *)
(*                                                                         *)
(*   verbs    the dispatcher: a search or a browse builds the Web API      *)
(*            client from the shared handle, then calls it                 *)
(*   source   the playback thread, when it makes or remakes its session    *)
(*   flows    the sign-ins StartAuth begins, with the task that waits      *)
(*   cli      a `clitunes auth` in another process                         *)
(*                                                                         *)
(* A refresh token is a number; the account server accepts those in live   *)
(* and may replace the one it is shown.  All four actors share one file,   *)
(* one port for the browser's answer, and the server.                      *)
(***************************************************************************)
EXTENDS Integers, FiniteSets

CONSTANTS
  MaxTokens,   \* bound on the refresh tokens the server hands out
  MaxFlows,    \* bound on the sign-ins that run at a time
  MaxRuns      \* bound on the runs of `clitunes auth`

ASSUME BoundAssumption ==
  MaxTokens \in Nat \ {0} /\ MaxFlows \in Nat \ {0} /\ MaxRuns \in Nat

VARIABLES
  live,        \* refresh tokens the server accepts
  minted,      \* refresh tokens it has handed out
  file,        \* credentials.json
  port,        \* who listens on 127.0.0.1:8898
  lock,        \* who holds the handle's inner mutex
  lastAuth,    \* inner.last_auth
  load,        \* where each caller of the handle is in load_credentials
  tok,         \* the token it carries
  verb,        \* what the dispatcher is doing
  web,         \* the token of the cached Web API client
  inProgress,  \* auth_in_progress
  awaited,     \* the flow the task of StartAuth waits for
  flow,        \* each sign-in
  fruit,       \* the token it brought
  cli,         \* what `clitunes auth` is doing
  cliTok,      \* the token it carries
  runs,        \* runs of it so far
  view,        \* (history) the last auth event clients were sent
  mishap       \* (history) a token was revoked, or replaced behind the file's back

serverVars == <<live, minted>>
handleVars == <<lock, lastAuth, load, tok>>
flowVars == <<inProgress, awaited, flow, fruit, view>>
cliVars == <<cli, cliTok, runs>>
vars == <<serverVars, file, port, handleVars, verb, web, flowVars, cliVars, mishap>>

Callers == {"verbs", "source"}
Flows == 1 .. MaxFlows
Tokens == 1 .. MaxTokens
None == 0
File(kind, token) == [kind |-> kind, token |-> token]

Init ==
  /\ live = {1}
  /\ minted = 1
  /\ file \in {File("full", 1), File("narrow", 1), File("none", None), File("corrupt", None)}
  /\ port = "free"
  /\ lock = "free"
  /\ lastAuth = None
  /\ load = [c \in Callers |-> "no"]
  /\ tok = [c \in Callers |-> None]
  /\ verb = "recv"
  /\ web = None
  /\ inProgress = FALSE
  /\ awaited = None
  /\ flow = [f \in Flows |-> "unused"]
  /\ fruit = [f \in Flows |-> None]
  /\ cli = "no"
  /\ cliTok = None
  /\ runs = 0
  /\ view = "none"
  /\ mishap = FALSE

-----------------------------------------------------------------------------
(* The account server (external): refresh_access_token shows it a token,  *)
(* run_oauth_flow brings a new one.                                       *)

Mint ==
  /\ minted < MaxTokens
  /\ minted' = minted + 1
  /\ live' = live \cup {minted + 1}

\* The server takes old and keeps it, or replaces it by new.
Accept(old, new) ==
  /\ old \in live
  /\ \/ new = old /\ UNCHANGED serverVars
     \/ /\ minted < MaxTokens
        /\ new = minted + 1
        /\ minted' = new
        /\ live' = (live \ {old}) \cup {new}

\* The user withdraws the application's access.
Revoke ==
  /\ live # {}
  /\ ~mishap
  /\ live' = {}
  /\ mishap' = TRUE
  /\ UNCHANGED <<minted, file, port, handleVars, verb, web, flowVars, cliVars>>

-----------------------------------------------------------------------------
(* load_credentials under the handle's mutex (ensure_auth).               *)

\* The dispatcher builds its client from the token; the playback thread
\* goes its own way.
Done(c, how, token) ==
  /\ load' = [load EXCEPT ![c] = IF c = "verbs" THEN how ELSE "no"]
  /\ tok' = [tok EXCEPT ![c] = IF c = "verbs" THEN token ELSE None]

GiveUp(c) == lock' = "free" /\ Done(c, "failed", None)

\* Defect: callers do not exclude each other.
AcquireUnlocked(c) ==
  /\ load[c] \in {"wait", "rewait"}
  /\ load' = [load EXCEPT ![c] = "read"]
  /\ lock' = c
  /\ UNCHANGED <<lastAuth, tok>>

\* reconnect forgets what is cached first; the others use it.
Acquire(c) ==
  /\ load[c] \in {"wait", "rewait"}
  /\ lock = "free"
  /\ IF lastAuth = None \/ load[c] = "rewait"
     THEN /\ load' = [load EXCEPT ![c] = "read"]
          /\ lock' = c
          /\ lastAuth' = None
          /\ UNCHANGED tok
     ELSE /\ Done(c, "got", lastAuth)
          /\ UNCHANGED <<lock, lastAuth>>

EnsureAuth(c) ==
  /\ Acquire(c)
  /\ UNCHANGED <<serverVars, file, port, verb, web, flowVars, cliVars, mishap>>

\* load_cached and scopes_sufficient.
ReadFile(c) ==
  /\ load[c] = "read"
  /\ IF file.kind = "full"
     THEN /\ load' = [load EXCEPT ![c] = "exchange"]
          /\ tok' = [tok EXCEPT ![c] = file.token]
          /\ UNCHANGED lock
     ELSE GiveUp(c)
  /\ UNCHANGED <<serverVars, file, port, lastAuth, verb, web, flowVars, cliVars, mishap>>

\* refresh_access_token; the network may fail whatever the token is worth.
Exchange(c) ==
  /\ load[c] = "exchange"
  /\ \/ \E new \in Tokens :
          /\ Accept(tok[c], new)
          /\ tok' = [tok EXCEPT ![c] = new]
          /\ mishap' = (mishap \/ (new # tok[c] /\ cli = "save" /\ cliTok = tok[c]))
          /\ load' = [load EXCEPT ![c] = "save"]
          /\ UNCHANGED lock
     \/ GiveUp(c) /\ UNCHANGED <<serverVars, mishap>>
  /\ UNCHANGED <<file, port, lastAuth, verb, web, flowVars, cliVars>>

\* save_cached; a write that fails loses the token the server gave.
Save(c) ==
  /\ load[c] = "save"
  /\ \/ /\ file' = File("full", tok[c])
        /\ lastAuth' = tok[c]
        /\ Done(c, "got", tok[c])
        /\ lock' = "free"
        /\ UNCHANGED mishap
     \/ /\ GiveUp(c)
        /\ mishap' = TRUE
        /\ UNCHANGED <<file, lastAuth>>
  /\ UNCHANGED <<serverVars, port, verb, web, flowVars, cliVars>>

-----------------------------------------------------------------------------
(* The dispatcher: search, browse_library and browse_playlist share one   *)
(* shape, WebApiCache::get and then one call.                             *)

Ask ==
  /\ verb = "recv"
  /\ IF web = None
     THEN verb' = "build" /\ load' = [load EXCEPT !["verbs"] = "wait"]
     ELSE verb' = "call" /\ UNCHANGED load
  /\ UNCHANGED <<serverVars, file, port, lock, lastAuth, tok, web, flowVars, cliVars, mishap>>

\* build_webapi: a failure is the answer, and nothing is cached.
Build ==
  /\ verb = "build"
  /\ load["verbs"] \in {"got", "failed"}
  /\ web' = tok["verbs"]
  /\ verb' = IF load["verbs"] = "got" THEN "call" ELSE "recv"
  /\ load' = [load EXCEPT !["verbs"] = "no"]
  /\ tok' = [tok EXCEPT !["verbs"] = None]
  /\ UNCHANGED <<serverVars, file, port, lock, lastAuth, flowVars, cliVars, mishap>>

\* rspotify (external) renews its token by itself and saves it nowhere
\* (token_cached: false); is_auth_shaped drops the client.
Call ==
  /\ verb = "call"
  /\ verb' = "recv"
  /\ \/ live # {} /\ UNCHANGED <<serverVars, web, mishap>>
     \/ \E new \in Tokens :
          /\ Accept(web, new)
          /\ web' = new
          /\ mishap' = (mishap \/ new # web)
     \/ web \notin live /\ web' = None /\ UNCHANGED <<serverVars, mishap>>
     \/ UNCHANGED <<serverVars, web, mishap>>
  /\ UNCHANGED <<file, port, handleVars, flowVars, cliVars>>

-----------------------------------------------------------------------------
(* The playback thread asks the handle for credentials when it makes the  *)
(* session, and again on each attempt of a reconnect (Playback has what   *)
(* it does with them).                                                    *)

NeedCredentials(why) ==
  /\ load["source"] = "no"
  /\ load' = [load EXCEPT !["source"] = why]
  /\ UNCHANGED <<serverVars, file, port, lock, lastAuth, tok, verb, web, flowVars, cliVars, mishap>>

-----------------------------------------------------------------------------
(* StartAuth: the task waits at most five minutes for a blocking flow     *)
(* that nothing can cancel.                                               *)

StartAuth ==
  /\ verb = "recv"
  /\ ~inProgress
  /\ \E f \in Flows :
       /\ flow[f] = "unused"
       /\ \A g \in 1 .. f - 1 : flow[g] # "unused"
       /\ flow' = [flow EXCEPT ![f] = "bind"]
       /\ awaited' = f
  /\ inProgress' = TRUE
  /\ view' = "started"
  /\ UNCHANGED <<serverVars, file, port, handleVars, verb, web, fruit, cliVars, mishap>>

\* Nobody waits for an abandoned flow: its end is not seen.
Ended(f, how) == IF awaited = f THEN how ELSE "unused"

\* run_oauth_flow listens on the one redirect port.
Listen(f) ==
  /\ flow[f] = "bind"
  /\ IF port = "free"
     THEN port' = "daemon" /\ flow' = [flow EXCEPT ![f] = "listen"]
     ELSE flow' = [flow EXCEPT ![f] = Ended(f, "failed")] /\ UNCHANGED port
  /\ UNCHANGED <<serverVars, file, handleVars, verb, web, inProgress, awaited, fruit,
                 view, cliVars, mishap>>

\* The user agrees in the browser, or does not.
Answer(f) ==
  /\ flow[f] = "listen"
  /\ port' = "free"
  /\ \/ /\ Mint
        /\ fruit' = [fruit EXCEPT ![f] = minted']
        /\ flow' = [flow EXCEPT ![f] = "save"]
     \/ flow' = [flow EXCEPT ![f] = Ended(f, "failed")] /\ UNCHANGED <<serverVars, fruit>>
  /\ UNCHANGED <<file, handleVars, verb, web, inProgress, awaited, view, cliVars, mishap>>

SaveFlow(f) ==
  /\ flow[f] = "save"
  /\ fruit' = [fruit EXCEPT ![f] = None]
  /\ \/ file' = File("full", fruit[f]) /\ flow' = [flow EXCEPT ![f] = Ended(f, "done")]
     \/ flow' = [flow EXCEPT ![f] = Ended(f, "failed")] /\ UNCHANGED file
  /\ UNCHANGED <<serverVars, port, handleVars, verb, web, inProgress, awaited, view, cliVars,
                 mishap>>

FlowEnds ==
  /\ awaited # None
  /\ flow[awaited] \in {"done", "failed"}
  /\ view' = IF flow[awaited] = "done" THEN "completed" ELSE "failed"
  /\ flow' = [flow EXCEPT ![awaited] = "unused"]
  /\ awaited' = None
  /\ UNCHANGED <<serverVars, file, port, handleVars, verb, web, inProgress, fruit, cliVars,
                 mishap>>

\* Defect: no ceiling on the wait.
AuthNeverTimesOut == FALSE /\ UNCHANGED vars

\* The flow goes on in its thread, and may still save what it gets.
AuthTimeout ==
  /\ awaited # None
  /\ flow[awaited] \in {"bind", "listen", "save"}
  /\ view' = "failed"
  /\ awaited' = None
  /\ UNCHANGED <<serverVars, file, port, handleVars, verb, web, inProgress, flow, fruit,
                 cliVars, mishap>>

\* Defect: lets the next sign-in begin before the end of this one is told.
ClearFlagEarly ==
  /\ inProgress
  /\ IF awaited = None THEN TRUE ELSE flow[awaited] \in {"done", "failed"}
  /\ inProgress' = FALSE
  /\ UNCHANGED <<serverVars, file, port, handleVars, verb, web, awaited, flow, fruit,
                 view, cliVars, mishap>>

ClearFlag ==
  /\ inProgress
  /\ awaited = None
  /\ inProgress' = FALSE
  /\ UNCHANGED <<serverVars, file, port, handleVars, verb, web, awaited, flow, fruit,
                 view, cliVars, mishap>>

-----------------------------------------------------------------------------
(* `clitunes auth`: load_or_authenticate, in a process of its own.        *)

CliStarts ==
  /\ cli = "no"
  /\ runs < MaxRuns
  /\ runs' = runs + 1
  /\ cli' = CASE file.kind = "full" -> "exchange"
              [] file.kind \in {"narrow", "none"} -> "consent"
              [] file.kind = "corrupt" -> "no"
  /\ cliTok' = IF file.kind = "full" THEN file.token ELSE None
  /\ UNCHANGED <<serverVars, file, port, handleVars, verb, web, flowVars, mishap>>

CliExchanges ==
  /\ cli = "exchange"
  /\ \/ \E new \in Tokens :
          /\ Accept(cliTok, new)
          /\ cliTok' = new
          /\ cli' = "save"
          /\ mishap' = (mishap \/ (new # cliTok /\ \E c \in Callers :
                                    load[c] = "save" /\ tok[c] = cliTok))
     \/ cli' = "consent" /\ cliTok' = None /\ UNCHANGED <<serverVars, mishap>>
  /\ UNCHANGED <<file, port, handleVars, verb, web, flowVars, runs>>

\* ensure_consent asks once; then the flow listens.
CliConsents ==
  /\ cli = "consent"
  /\ \/ /\ file.kind # "corrupt"
        /\ port = "free"
        /\ port' = "cli"
        /\ cli' = "listen"
     \/ /\ file.kind \in {"none", "corrupt"} \/ port # "free"
        /\ cli' = "no"
        /\ UNCHANGED port
  /\ UNCHANGED <<serverVars, file, handleVars, verb, web, flowVars, cliTok, runs, mishap>>

CliAnswered ==
  /\ cli = "listen"
  /\ port' = "free"
  /\ \/ Mint /\ cliTok' = minted' /\ cli' = "save"
     \/ cli' = "no" /\ UNCHANGED <<serverVars, cliTok>>
  /\ UNCHANGED <<file, handleVars, verb, web, flowVars, runs, mishap>>

\* The write is a rename: it happens, or it fails or the process dies.
CliSaves ==
  /\ cli = "save"
  /\ cli' = "no"
  /\ cliTok' = None
  /\ \/ file' = File("full", cliTok) /\ UNCHANGED mishap
     \/ mishap' = TRUE /\ UNCHANGED file
  /\ UNCHANGED <<serverVars, port, handleVars, verb, web, flowVars, runs>>

\* The daemon dies, and another one starts.
Restart ==
  /\ port' = IF port = "daemon" THEN "free" ELSE port
  /\ lock' = "free"
  /\ lastAuth' = None
  /\ load' = [c \in Callers |-> "no"]
  /\ tok' = [c \in Callers |-> None]
  /\ verb' = "recv"
  /\ web' = None
  /\ inProgress' = FALSE
  /\ awaited' = None
  /\ flow' = [f \in Flows |-> "unused"]
  /\ fruit' = [f \in Flows |-> None]
  /\ view' = "none"
  /\ mishap' = (mishap \/ \E c \in Callers : load[c] = "save")
  /\ UNCHANGED <<serverVars, file, cliVars>>

Load(c) == EnsureAuth(c) \/ ReadFile(c) \/ Exchange(c) \/ Save(c)
Dispatch == Ask \/ Build \/ Call
Flow(f) == Listen(f) \/ Answer(f) \/ SaveFlow(f)
AuthTask == FlowEnds \/ AuthTimeout \/ ClearFlag
Cli == CliStarts \/ CliExchanges \/ CliConsents \/ CliAnswered \/ CliSaves

Next ==
  \/ \E c \in Callers : Load(c)
  \/ Dispatch \/ \E why \in {"wait", "rewait"} : NeedCredentials(why)
  \/ StartAuth \/ AuthTask \/ \E f \in Flows : Flow(f)
  \/ Cli \/ Restart \/ Revoke

Spec == Init /\ [][Next]_vars

\* Network calls and writes come back, tokio's mutex is handed over in
\* order, and the five minutes pass.  Users need not answer.
Fairness ==
  /\ \A c \in Callers :
       SF_vars(EnsureAuth(c)) /\ WF_vars(ReadFile(c)) /\ WF_vars(Exchange(c)) /\ WF_vars(Save(c))
  /\ WF_vars(Build) /\ WF_vars(Call)
  /\ WF_vars(AuthTask)

FairSpec == Spec /\ Fairness

-----------------------------------------------------------------------------
(* Properties.                                                            *)

AuthStatus ==
  CASE file.kind = "none" -> "logged_out"
    [] file.kind = "corrupt" -> "unreadable"
    [] file.kind = "narrow" -> "scopes_insufficient"
    [] file.kind = "full" -> "logged_in"

TypeOK ==
  /\ live \subseteq Tokens /\ minted \in Tokens
  /\ file \in [kind : {"none", "corrupt", "narrow", "full"}, token : Tokens \cup {None}]
  /\ port \in {"free", "daemon", "cli"}
  /\ lock \in {"free"} \cup Callers
  /\ lastAuth \in Tokens \cup {None}
  /\ load \in [Callers -> {"no", "wait", "rewait", "read", "exchange", "save", "got", "failed"}]
  /\ tok \in [Callers -> Tokens \cup {None}]
  /\ verb \in {"recv", "build", "call"} /\ web \in Tokens \cup {None}
  /\ verb = "call" => web # None
  /\ inProgress \in BOOLEAN /\ awaited \in Flows \cup {None}
  /\ flow \in [Flows -> {"unused", "bind", "listen", "save", "done", "failed"}]
  /\ fruit \in [Flows -> Tokens \cup {None}]
  /\ cli \in {"no", "exchange", "consent", "listen", "save"}
  /\ cliTok \in Tokens \cup {None} /\ runs \in 0 .. MaxRuns
  /\ view \in {"none", "started", "completed", "failed"}
  /\ mishap \in BOOLEAN

\* The playback thread and the Web API never spend the same refresh token
\* twice (handle.rs:8-11, event_loop.rs:157-160): as long as no other process
\* touches the file, what a load shows to the server is what it accepts.
SpendsOnce ==
  (~mishap /\ runs = 0) => \A c \in Callers : load[c] = "exchange" => tok[c] \in live

Quiet == cli \in {"no", "consent", "listen"} /\ \A c \in Callers : load[c] # "save"

\* However loads, sign-ins, `clitunes auth` and restarts interleave, the file
\* that is left holds a token the server accepts, unless a token was revoked,
\* lost by a write that failed, replaced by rspotify, which saves nothing, or
\* replaced by one process while the other was about to write it back.
FileStaysUsable ==
  (Quiet /\ ~mishap /\ file.kind = "full") => file.token \in live

\* No client is left with a sign-in it believes pending once the daemon would
\* begin another one.
NobodyLeftPending == view = "started" => inProgress

\* A client that was told the sign-in succeeded reads LoggedIn when it asks
\* for the configuration.
CompletedIsTrue == view = "completed" => AuthStatus = "logged_in"

\* A user who walked away from the browser does not keep the others out: the
\* in-progress flag always comes back.
FlagComesBack == inProgress ~> ~inProgress

\* The dispatcher, which serves every client in turn, always gets past a
\* search, although it shares the handle's mutex with the playback thread.
DispatcherReturns == (verb # "recv") ~> (verb = "recv")

\* Tokens are spent and kept as one server and two processes allow: SpendsOnce and
\* FileStaysUsable, with the types.
TokensAreKept == TypeOK /\ SpendsOnce /\ FileStaysUsable

\* Clients know how sign-ins stand: NobodyLeftPending and CompletedIsTrue.
ClientsKnow == NobodyLeftPending /\ CompletedIsTrue

\* Nobody waits for ever, be it for a sign-in or for the dispatcher: FlagComesBack and
\* DispatcherReturns.
NobodyWaitsForEver == FlagComesBack /\ DispatcherReturns
=============================================================================
