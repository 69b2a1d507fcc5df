------------------------------ MODULE Mirrors ------------------------------
(***************************************************************************)
(* How a radio station is resolved (sources/radio/discovery.rs and         *)
(* station_db.rs): the mirrors of radio-browser.info come from DNS, else   *)
(* from a cache of the last answer, else from a list in the binary; and    *)
(* the first three of them are asked for the station.                      *)
(*                                                                         *)
(* The cache is written in place: until it is opened the older one stays,  *)
(* and from then on a failure or a kill leaves it torn.  Its age is told   *)
(* by a wall clock that may be set.  A mirror is [host, priority, weight]; *)
(* an answer of DNS is a sequence of them.                                 *)
(***************************************************************************)
EXTENDS Integers, Sequences, SequencesExt, FiniteSets

CONSTANTS
  SrvAnswers,      \* the answers DNS may give, not empty ones
  BAKED_IN_MIRRORS,
  Ttl,             \* CACHE_TTL
  MaxMirrorsTried, \* MAX_MIRRORS_TRIED
  Horizon,         \* bound on the time that passes
  Settings,        \* what the wall clock may be off by
  MaxAsks,         \* bound on the stations asked for
  MaxFaults        \* bound on kills, failed writes and set clocks

VARIABLES
  now,     \* time that passed
  off,     \* the wall clock less that
  cache,   \* the file, NoFile, or Torn
  pc,      \* "idle", "srv", "store", "write", "cache", "fetch"
  srv,     \* the answer, sorted
  mirrors, \* StationDb::mirrors
  from,    \* DiscoveredMirrors::source
  tried,   \* how many mirrors were asked
  result,  \* of the last station asked for
  asks, faults,
  answered, \* (history) the last answer
  missed,   \* (history) that answer did not get as far as the file
  saved,    \* (history) the last answer written whole, when, and whether the
            \* clock was set since
  replies   \* (history) what the mirrors said

worldVars == <<now, off, asks, faults>>
history == <<answered, missed, saved>>
vars == <<worldVars, cache, pc, srv, mirrors, from, tried, result, history, replies>>

NoFile == [mirrors |-> <<>>, at |-> 0, kind |-> "none"]
Torn == [mirrors |-> <<>>, at |-> 0, kind |-> "torn"]
Wall == now + off

Init ==
  /\ now = 0 /\ off = 0 /\ asks = 0 /\ faults = 0
  /\ cache = NoFile
  /\ pc = "idle" /\ srv = <<>> /\ mirrors = <<>> /\ from = "BakedIn" /\ tried = 0
  /\ result = "none"
  /\ answered = <<>> /\ missed = FALSE
  /\ saved = [mirrors |-> <<>>, at |-> 0, set |-> FALSE]
  /\ replies = <<>>

\* The wall clock, and the end of the daemon.
Tick ==
  /\ now < Horizon /\ pc = "idle"
  /\ now' = now + 1
  /\ UNCHANGED <<off, asks, faults, cache, pc, srv, mirrors, from, tried, result, history, replies>>

SetClock ==
  /\ faults < MaxFaults /\ pc = "idle"
  /\ off' \in Settings \ {off}
  /\ faults' = faults + 1
  /\ saved' = [saved EXCEPT !.set = TRUE]
  /\ UNCHANGED <<now, asks, cache, pc, srv, mirrors, from, tried, result, answered, missed, replies>>

\* resolve_station asks DNS, for 3 s at most.
Ask ==
  /\ pc = "idle" /\ asks < MaxAsks
  /\ asks' = asks + 1
  /\ pc' = "srv" /\ result' = "none" /\ tried' = 0 /\ replies' = <<>>
  /\ UNCHANGED <<now, off, faults, cache, srv, mirrors, from, history>>

\* sort_by_rfc2782
Before(a, b) ==
  a.priority < b.priority \/ (a.priority = b.priority /\ a.weight > b.weight)

\* Where record i comes; sort_by leaves equal ones in their order.
Rank(answer, i) ==
  Cardinality({j \in DOMAIN answer : \/ Before(answer[j], answer[i])
                                     \/ ~ Before(answer[i], answer[j]) /\ j <= i})

Sorted(answer) ==
  [k \in DOMAIN answer |-> answer[CHOOSE i \in DOMAIN answer : Rank(answer, i) = k]]

\* Records came.
Resolved ==
  /\ pc = "srv"
  /\ \E answer \in SrvAnswers : srv' = Sorted(answer)
  /\ answered' = srv' /\ missed' = TRUE
  /\ pc' = "store"
  /\ UNCHANGED <<worldVars, cache, mirrors, from, tried, result, saved, replies>>

\* write_cache has the directory, and File::create empties the file.
Open ==
  /\ pc = "store"
  /\ cache' = Torn /\ missed' = FALSE
  /\ pc' = "write"
  /\ UNCHANGED <<worldVars, srv, mirrors, from, tried, result, answered, saved, replies>>

Use(list, source) == mirrors' = list /\ from' = source /\ pc' = "fetch"

\* All of it is written; what was waiting for it goes on.
Written ==
  /\ pc = "write"
  /\ cache' = [mirrors |-> srv, at |-> Wall, kind |-> "ok"]
  /\ saved' = [mirrors |-> srv, at |-> now, set |-> FALSE]
  /\ Use(srv, "LiveSrv")
  /\ UNCHANGED <<worldVars, srv, tried, result, answered, missed, replies>>

\* There is no directory, the file does not open or takes less than all of it:
\* that is a warning.
StoreFails ==
  /\ pc \in {"store", "write"} /\ faults < MaxFaults
  /\ faults' = faults + 1
  /\ Use(srv, "LiveSrv")
  /\ UNCHANGED <<now, off, asks, cache, srv, tried, result, history, replies>>

\* No records, an error, or no answer in time.
Unresolved ==
  /\ pc = "srv"
  /\ pc' = "cache"
  /\ UNCHANGED <<worldVars, cache, srv, mirrors, from, tried, result, history, replies>>

\* Defect: a cache of any age is fresh.
FreshEver == TRUE

\* A cache from the future has no age.
Fresh == Wall - cache.at < Ttl

Readable == cache.kind = "ok"

\* The rest of discover_with_paths: a stale cache gives way to the built-in list.
FallBack ==
  /\ pc = "cache"
  /\ IF Readable /\ Fresh THEN Use(cache.mirrors, "FreshCache")
                          ELSE Use(BAKED_IN_MIRRORS, "BakedIn")
  /\ UNCHANGED <<worldVars, cache, srv, tried, result, history, replies>>

\* A success ends it, whatever its body is.
Ends == {"station", "empty", "garbage"}

\* fetch_json and get_station_by_uuid, at one mirror: it gives the station, knows
\* none, gives no JSON (a captive portal), an error status, or no answer.
Fetch(reply) ==
  /\ pc = "fetch" /\ tried < MaxMirrorsTried /\ tried < Len(mirrors)
  /\ tried' = tried + 1
  /\ replies' = Append(replies, reply)
  /\ IF reply \in Ends
     THEN /\ pc' = "idle"
          /\ result' = IF reply = "station" THEN "found" ELSE "failed"
     ELSE UNCHANGED <<pc, result>>
  /\ UNCHANGED <<worldVars, cache, srv, mirrors, from, history>>

GiveUp ==
  /\ pc = "fetch" /\ ~(tried < MaxMirrorsTried /\ tried < Len(mirrors))
  /\ pc' = "idle" /\ result' = "failed"
  /\ UNCHANGED <<worldVars, cache, srv, mirrors, from, tried, history, replies>>

\* The daemon is killed and started again.
Kill ==
  /\ pc # "idle" /\ faults < MaxFaults
  /\ faults' = faults + 1
  /\ pc' = "idle" /\ result' = "none" /\ tried' = 0 /\ replies' = <<>>
  /\ UNCHANGED <<now, off, asks, cache, srv, mirrors, from, history>>

Replies == {"station", "empty", "garbage", "status", "silence"}

Next ==
  \/ Tick \/ SetClock \/ Ask \/ Resolved \/ Open \/ Written \/ StoreFails
  \/ Unresolved \/ FallBack \/ GiveUp \/ Kill
  \/ \E reply \in Replies : Fetch(reply)

Spec == Init /\ [][Next]_vars

-----------------------------------------------------------------------------
(* Properties.                                                            *)

\* Every variable holds what the code may put there; a lookup always has a mirror
\* to ask.
TypeOK ==
  /\ now \in 0 .. Horizon /\ off \in Settings
  /\ cache.kind \in {"none", "torn", "ok"}
  /\ pc \in {"idle", "srv", "store", "write", "cache", "fetch"}
  /\ from \in {"LiveSrv", "FreshCache", "BakedIn"}
  /\ pc = "fetch" => mirrors # <<>>
  /\ tried \in 0 .. MaxMirrorsTried /\ tried = Len(replies)
  /\ result \in {"none", "found", "failed"}

\* discovery.rs:7-9: what is used without DNS is the whole of the last answer that
\* was stored, and that is the last one DNS gave unless its store failed, or was
\* killed, before the file was opened; a store that fails later leaves nothing to
\* use.  It is no older than the TTL unless the clock was set since (set back, the
\* cache never ages).
CacheIsTheLastStored ==
  (pc = "fetch" /\ from = "FreshCache")
    => /\ mirrors = saved.mirrors
       /\ mirrors # answered => missed
       /\ saved.set \/ now - saved.at < Ttl

\* station_db.rs:5-7: no mirror that was passed over comes before one that was
\* asked, and a lookup that fails had no server that knew the station among those
\* that it asked and did not stop at an error that another mirror might not have.
FailsOnlyAfterThree ==
  /\ from # "BakedIn" =>
       \A i \in 1 .. tried : \A k \in i + 1 .. Len(mirrors) :
         \/ mirrors[i].priority < mirrors[k].priority
         \/ mirrors[i].priority = mirrors[k].priority /\ mirrors[i].weight >= mirrors[k].weight
  /\ result = "failed" =>
       \/ tried = MaxMirrorsTried \/ tried = Len(mirrors)
       \/ Last(replies) \in {"empty", "garbage"}
  /\ \A i \in DOMAIN replies : replies[i] = "station" => result = "found"

\* Stations are found while any mirror knows them: CacheIsTheLastStored and
\* FailsOnlyAfterThree, with the types.
StationsAreFound == TypeOK /\ CacheIsTheLastStored /\ FailsOnlyAfterThree
=============================================================================
