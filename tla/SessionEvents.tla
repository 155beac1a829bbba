--------------------------- MODULE SessionEvents ---------------------------
(***************************************************************************)
(* The events of captured sessions and the hourly and daily buckets that   *)
(* count them.  ProcessSession follows every capture, in the daemon and in *)
(* every command that captures, so several runs may overlap; it reads the  *)
(* events of all sessions in the windows it touched and replaces the       *)
(* buckets of those windows.                                               *)
(*                                                                         *)
(* An event is its session, the hour it happened in and a copy: ids are    *)
(* fresh in every run, so that nothing in the table tells two copies of    *)
(* one event from two events.  occurred_at is stored in the zone of the    *)
(* machine and compared as a text with bounds in UTC: an hour reads Offset *)
(* later than it is.                                                       *)
(***************************************************************************)
EXTENDS Integers, FiniteSets

CONSTANTS
  Sessions,
  Hours,      \* 0 .. last hour
  DayLength,  \* hours of a day
  Offset,     \* what the local zone is ahead of UTC
  Remote,     \* Remote[s], the remote URL of s's events; not part of a bucket's key
  Runs,       \* callers of ProcessSession
  MaxFaults   \* bound on statements that find the database locked, and crashes

SessionEventsAssumption ==
  /\ DayLength \in Nat \ {0} /\ Offset \in Int /\ MaxFaults \in Nat
  /\ Hours \subseteq Nat /\ IsFiniteSet(Hours) /\ IsFiniteSet(Sessions) /\ IsFiniteSet(Runs)

VARIABLES
  source,   \* the hours with an event in each provider's session
  stored,   \* the sessions with a row
  events,   \* session_events
  buckets,  \* event_buckets: the count of each window, 0 if there is no row
  run,      \* each caller's run
  stale,    \* history: something happened that no run of ProcessSession repairs
  faults

evVars == <<source, stored, events, buckets, run, stale, faults>>

Copies == 1 .. Cardinality(Runs) + MaxFaults
Windows == ({"1h"} \X Hours) \cup ({"1d"} \X { h \div DayLength : h \in Hours })

\* What belongs to a granularity, of the hour and of the day.
Of(gran, hour, day) == IF gran = "1h" THEN hour ELSE day

truncateTime(h, gran) == <<gran, Of(gran, h, h \div DayLength)>>
Count(evs, w) == Cardinality({ e \in evs : truncateTime(e[2], w[1]) = w })

Idle == [step |-> "idle", sess |-> "none", got |-> {}, read |-> {}]
Steps == {"idle", "delete", "save", "query1h", "replace1h", "query1d", "replace1d",
          "clear1h", "clear1d", "queryAll", "all1h", "all1d"}

EventsTypeOK ==
  /\ source \in [Sessions -> SUBSET Hours]
  /\ stored \subseteq Sessions
  /\ events \subseteq stored \X Hours \X Copies
  /\ buckets \in [Windows -> Nat]
  /\ \A p \in Runs :
       /\ run[p].step \in Steps /\ run[p].got \subseteq Hours
       /\ run[p].read \subseteq Sessions \X Hours \X Copies
  /\ stale \in BOOLEAN /\ faults \in 0 .. MaxFaults

EventsInit ==
  /\ source = [s \in Sessions |-> {}]
  /\ stored = {} /\ events = {}
  /\ buckets = [w \in Windows |-> 0]
  /\ run = [p \in Runs |-> Idle]
  /\ stale = FALSE /\ faults = 0

Quiet == \A p \in Runs : run[p] = Idle
Goto(p, step) == run' = [run EXCEPT ![p].step = step]

\* The session goes on, or is rewound to an earlier hour.
Grow(s, h) ==
  /\ \A g \in source[s] : g < h
  /\ source' = [source EXCEPT ![s] = @ \cup {h}]
  /\ UNCHANGED <<stored, events, buckets, run, stale, faults>>

Rewind(s, h) ==
  /\ h \in source[s] /\ \E g \in source[s] : g > h
  /\ source' = [source EXCEPT ![s] = { g \in @ : g <= h }]
  /\ UNCHANGED <<stored, events, buckets, run, stale, faults>>

\* The session is deleted, and its events with it; the buckets are not looked at.
Delete(s) ==
  /\ s \in stored
  /\ stored' = stored \ {s}
  /\ events' = { e \in events : e[1] # s }
  /\ stale' = TRUE
  /\ UNCHANGED <<source, buckets, run, faults>>

-----------------------------------------------------------------------------
(* ProcessSession.                                                         *)

\* The session was saved and its events are extracted.  A run that begins while
\* another goes on may miss its events; a session that was rewound leaves windows
\* that no run of its own touches.
ExtractAll(p, s) ==
  /\ run[p] = Idle /\ source[s] # {}
  /\ stored' = stored \cup {s}
  /\ run' = [run EXCEPT ![p] = [Idle EXCEPT !.step = "delete", !.sess = s, !.got = source[s]]]
  /\ stale' = (stale \/ ~Quiet \/ \E e \in events : e[1] = s /\ e[2] \notin source[s])
  /\ UNCHANGED <<source, events, buckets, faults>>

\* A failure is logged, and the run goes on.
DeleteSessionEvents(p) ==
  /\ run[p].step = "delete"
  /\ \/ /\ events' = { e \in events : e[1] # run[p].sess }
        /\ UNCHANGED <<stale, faults>>
     \/ /\ faults < MaxFaults /\ faults' = faults + 1
        /\ stale' = TRUE
        /\ UNCHANGED events
  /\ Goto(p, "save")
  /\ UNCHANGED <<source, stored, buckets>>

Fresh(s) == CHOOSE n \in Copies : ~\E e \in events : e[1] = s /\ e[3] = n

\* One transaction; without the session's row the foreign key fails, and the run
\* is over.
SaveEvents(p) ==
  LET s == run[p].sess IN
  /\ run[p].step = "save"
  /\ IF s \in stored
     THEN /\ events' = events \cup ({s} \X run[p].got \X {Fresh(s)})
          /\ Goto(p, "query1h")
     ELSE run' = [run EXCEPT ![p] = Idle] /\ UNCHANGED events
  /\ UNCHANGED <<source, stored, buckets, stale, faults>>

Size(gran) == Of(gran, 1, DayLength)

\* Mutation of TimeRange: the window of the latest event is left out.
TimeRangeShort(got, gran) ==
  LET earliest == CHOOSE h \in got : \A g \in got : h <= g
      latest   == CHOOSE h \in got : \A g \in got : h >= g
  IN
     Size(gran) * (earliest \div Size(gran)) .. Size(gran) * (latest \div Size(gran)) - 1

\* From the start of the earliest event's window to the end of the latest one's.
TimeRange(got, gran) ==
  LET earliest == CHOOSE h \in got : \A g \in got : h <= g
      latest   == CHOOSE h \in got : \A g \in got : h >= g
  IN Size(gran) * (earliest \div Size(gran)) ..
       Size(gran) * (latest \div Size(gran)) + Size(gran) - 1

QueryEvents(p, gran) ==
  /\ run[p].step = Of(gran, "query1h", "query1d")
  /\ run' = [run EXCEPT
       ![p].step = Of(gran, "replace1h", "replace1d"),
       ![p].read = { e \in events : e[2] + Offset \in TimeRange(run[p].got, gran) }]
  /\ UNCHANGED <<source, stored, events, buckets, stale, faults>>

\* Mutation of Row: counters are added to the row there is, as UpsertEventBuckets
\* does.
Added(evs, w, remote) == buckets[w] + Count({ e \in evs : Remote[e[1]] = remote }, w)

\* The aggregator keeps one sum for each remote URL.
Row(evs, w, remote) == Count({ e \in evs : Remote[e[1]] = remote }, w)

\* Each window that any of the events falls in gets a new row, one for each sum, and
\* the last of them, in the order of a map, is what stays.
Aggregated(evs, gran, b) ==
  \E last \in [{ w \in Windows : w[1] = gran /\ Count(evs, w) > 0 } -> { Remote[e[1]] : e \in evs }] :
    /\ \A w \in DOMAIN last : Row(evs, w, last[w]) > 0
    /\ b = [w \in Windows |-> IF w \in DOMAIN last THEN Row(evs, w, last[w]) ELSE buckets[w]]

\* One transaction; a failure is logged, and the rest of the run given up.
ReplaceEventBuckets(p, gran) ==
  /\ run[p].step = Of(gran, "replace1h", "replace1d")
  /\ \/ /\ Aggregated(run[p].read, gran, buckets')
        /\ run' = [run EXCEPT ![p] = IF gran = "1h" THEN [@ EXCEPT !.step = "query1d", !.read = {}]
                                                    ELSE Idle]
        /\ UNCHANGED <<stale, faults>>
     \/ /\ faults < MaxFaults /\ faults' = faults + 1
        /\ run' = [run EXCEPT ![p] = Idle]
        /\ stale' = TRUE
        /\ UNCHANGED buckets
  /\ UNCHANGED <<source, stored, events>>

-----------------------------------------------------------------------------
(* RecomputeAllBuckets, of the backfill command.                           *)

Recompute(p) ==
  /\ run[p] = Idle
  /\ Goto(p, "clear1h")
  /\ stale' = ~Quiet
  /\ UNCHANGED <<source, stored, events, buckets, faults>>

DeleteEventBuckets(p, gran) ==
  /\ run[p].step = Of(gran, "clear1h", "clear1d")
  /\ buckets' = [w \in Windows |-> IF w[1] = gran THEN 0 ELSE buckets[w]]
  /\ Goto(p, IF gran = "1h" THEN "clear1d" ELSE "queryAll")
  /\ UNCHANGED <<source, stored, events, stale, faults>>

QueryAll(p) ==
  /\ run[p].step = "queryAll"
  /\ run' = [run EXCEPT ![p] = IF events = {} THEN Idle
                               ELSE [@ EXCEPT !.step = "all1h", !.read = events]]
  /\ UNCHANGED <<source, stored, events, buckets, stale, faults>>

ReplaceAll(p, gran) ==
  /\ run[p].step = Of(gran, "all1h", "all1d")
  /\ Aggregated(run[p].read, gran, buckets')
  /\ run' = [run EXCEPT ![p] = IF gran = "1h" THEN [@ EXCEPT !.step = "all1d"] ELSE Idle]
  /\ UNCHANGED <<source, stored, events, stale, faults>>

\* The program stops: the capture stays, and its next one finds nothing to do.
Crash(p) ==
  /\ run[p] # Idle /\ faults < MaxFaults
  /\ faults' = faults + 1
  /\ run' = [run EXCEPT ![p] = Idle]
  /\ stale' = TRUE
  /\ UNCHANGED <<source, stored, events, buckets>>

ProcessSession(p) ==
  \/ DeleteSessionEvents(p) \/ SaveEvents(p)
  \/ \E gran \in {"1h", "1d"} : QueryEvents(p, gran) \/ ReplaceEventBuckets(p, gran)

RecomputeAllBuckets(p) ==
  QueryAll(p) \/ \E gran \in {"1h", "1d"} : DeleteEventBuckets(p, gran) \/ ReplaceAll(p, gran)

EventsNext ==
  \/ \E s \in Sessions, h \in Hours : Grow(s, h) \/ Rewind(s, h)
  \/ \E s \in Sessions : Delete(s)
  \/ \E p \in Runs, s \in Sessions : ExtractAll(p, s)
  \/ \E p \in Runs : Recompute(p) \/ ProcessSession(p) \/ RecomputeAllBuckets(p) \/ Crash(p)

EventsSpec == EventsInit /\ [][EventsNext]_evVars

-----------------------------------------------------------------------------
(* Properties.                                                             *)

\* Captures one after the other leave every bucket exact, whatever windows they
\* shared, and a recomputation alone repairs what overlapping runs, deletions,
\* failures and crashes have left (service.go: "fully idempotent"; "fixes any
\* staleness from deleted sessions").
QuietExact == Quiet /\ ~stale => \A w \in Windows : buckets[w] = Count(events, w)
=============================================================================
