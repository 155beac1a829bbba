------------------------------ MODULE WebCache ------------------------------
(***************************************************************************)
(* The stats_cache table as the web server uses it: a request that finds   *)
(* no young enough entry lists the sessions, computes and stores the       *)
(* result, while sessions come and go and other requests do the same.      *)
(* Captures and deletions invalidate the prefixes "stats:" and "forecast:" *)
(* and no page keeps its entry under one of them.                          *)
(***************************************************************************)
EXTENDS Naturals

CONSTANTS
  Requests,   \* the requests under way
  Projects,
  Prefixes,   \* the prefixes a Save or a Delete invalidates
  CacheKey,   \* the prefix of the page's key
  MaxAge,     \* how old an entry may be
  MaxCompute  \* bound on the time a computation takes

VARIABLES
  projects,  \* the projects that have sessions
  entry,     \* the entry of the cache: its value, its age and how long it has been untrue
  request    \* what each request does

cacheVars == <<projects, entry, request>>

Cap == MaxAge + MaxCompute + 1
NoEntry == [value |-> {}, age |-> MaxAge + 1, untrue |-> Cap]
Waiting == [step |-> "idle", value |-> {}, spent |-> 0, untrue |-> 0]

CacheTypeOK ==
  /\ projects \subseteq Projects
  /\ entry.value \subseteq Projects /\ entry.age \in 0 .. MaxAge + 1 /\ entry.untrue \in 0 .. Cap
  /\ \A r \in Requests : request[r].step \in {"idle", "computed", "served"} /\ request[r].spent \in 0 .. MaxCompute

CacheInit ==
  /\ projects = {}
  /\ entry = NoEntry
  /\ request = [r \in Requests |-> Waiting]

\* Time, in which what is not true any more gets older.
Aged(n) == IF n < Cap THEN n + 1 ELSE n
Untrue(value, n) == IF value = projects THEN 0 ELSE Aged(n)

Tick ==
  /\ \A r \in Requests : request[r].step # "served" /\ request[r].spent < MaxCompute
  /\ entry' = [entry EXCEPT !.age = IF @ <= MaxAge THEN @ + 1 ELSE @, !.untrue = Untrue(entry.value, @)]
  /\ request' = [r \in Requests |->
                   IF request[r].step = "computed"
                   THEN [request[r] EXCEPT !.spent = @ + 1, !.untrue = Untrue(request[r].value, @)]
                   ELSE request[r]]
  /\ UNCHANGED projects

\* A project's first session is saved, its last one deleted.
InvalidateCache(e) == IF CacheKey \in Prefixes THEN NoEntry ELSE e

Change(p) ==
  /\ projects' = IF p \in projects THEN projects \ {p} ELSE projects \cup {p}
  /\ entry' = InvalidateCache(entry)
  /\ UNCHANGED request

\* Mutation of GetCache: the age of the entry does not matter.
GetCacheAnyAge(e) == e # NoEntry

GetCache(e) == e # NoEntry /\ e.age <= MaxAge

Hit(r) ==
  /\ request[r].step = "idle" /\ GetCache(entry)
  /\ request' = [request EXCEPT ![r] = [@ EXCEPT !.step = "served", !.value = entry.value, !.untrue = entry.untrue]]
  /\ UNCHANGED <<projects, entry>>

\* There is no young enough entry, or it cannot be read.
Compute(r) ==
  /\ request[r].step = "idle"
  /\ request' = [request EXCEPT ![r] = [step |-> "computed", value |-> projects, spent |-> 0, untrue |-> 0]]
  /\ UNCHANGED <<projects, entry>>

\* The entry is as old as its storing, whenever its sessions were listed.
SetCache(r) ==
  /\ request[r].step = "computed"
  /\ entry' = [value |-> request[r].value, age |-> 0, untrue |-> request[r].untrue]
  /\ request' = [request EXCEPT ![r].step = "served"]
  /\ UNCHANGED projects

\* What cannot be stored is served all the same.
SetCacheFails(r) ==
  /\ request[r].step = "computed"
  /\ request' = [request EXCEPT ![r].step = "served"]
  /\ UNCHANGED <<projects, entry>>

Answer(r) ==
  /\ request[r].step = "served"
  /\ request' = [request EXCEPT ![r] = Waiting]
  /\ UNCHANGED <<projects, entry>>

CacheNext ==
  \/ Tick
  \/ \E p \in Projects : Change(p)
  \/ \E r \in Requests : Hit(r) \/ Compute(r) \/ SetCache(r) \/ SetCacheFails(r) \/ Answer(r)

CacheSpec == CacheInit /\ [][CacheNext]_cacheVars

-----------------------------------------------------------------------------

\* Whatever requests overwrite each other's entries with, no page shows what has not
\* been true for longer than an entry lives and one computation takes.
ServedWasTrue ==
  \A r \in Requests : request[r].step = "served" => request[r].untrue <= MaxAge + MaxCompute
=============================================================================
