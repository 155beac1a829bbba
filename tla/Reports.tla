------------------------------ MODULE Reports -------------------------------
(***************************************************************************)
(* What is added up over sessions: statistics, trends, costs by agent, by  *)
(* tool and by server, the use of contexts and caches, and the forecast.   *)
(* Each is computed from the rows of session_analytics, written beside a   *)
(* session, or from the sessions themselves.                               *)
(*                                                                         *)
(* Amounts and instants are small numbers; a filter asks for a project, a  *)
(* branch and a type and for sessions created since and until then.        *)
(***************************************************************************)
EXTENDS Integers, FiniteSets, FiniteSetsExt, Sequences

CONSTANTS
  Sessions,
  Captured,   \* what a session may be when it is captured
  Horizon,    \* the last instant of creation; reports are made right after it
  MaxWrites,
  None

VARIABLES
  sessions,   \* the sessions table
  analytics,  \* session_analytics
  unstamped,  \* saved, and its analytics not written yet
  schema,     \* AnalyticsSchemaVersion of the program that runs
  writes

reportVars == <<sessions, analytics, unstamped, schema, writes>>

Stored == {s \in Sessions : sessions[s] # None}
Filled == {s \in Stored : analytics[s] # None}
Sum(ids, f(_)) == MapThenSumSet(f, ids)
Columns == {"project", "branch", "type"}
NoFilter == [project |-> None, branch |-> None, type |-> None, since |-> 0, until |-> Horizon + 1]

-----------------------------------------------------------------------------
(* Where the rows come from.                                               *)

Fits(s, f) ==
  /\ \A c \in Columns : f[c] \in {None, sessions[s][c]}
  /\ f.since <= sessions[s].created /\ sessions[s].created <= f.until

List(f) == {s \in Stored : Fits(s, f)}
QueryAnalytics(f, minSchema) == {s \in Filled : Fits(s, f) /\ analytics[s].schema >= minSchema}

\* Computed from the messages; the costs are taken from the session in hand.
ComputeAnalytics(row, est, act) ==
  [est |-> est, act |-> act, dedup |-> IF row.shared > 0 THEN est - (est * row.shared) \div row.tokens ELSE est,
   fork |-> row.shared > 0, backend |-> row.backend, model |-> row.model, schema |-> schema]

\* How full the context was, and what that takes of the window of a known model.
Saturation(row) == [known |-> row.peak > 0 /\ row.model # "", peak |-> row.peak, compacted |-> row.peak > 90]
\* Answers after more than five minutes missed the cache.
CacheUse(row) == [read |-> row.read, missed |-> row.missed]

-----------------------------------------------------------------------------
(* Statistics.                                                             *)

\* Everything but where the costs are from and how the files are counted.
Totals(ids, costs, files) ==
  LET errors(s) == sessions[s].errors
      est(s) == costs[s].est
      act(s) == costs[s].act
      cost == Sum(ids, est)
      paid == Sum(ids, act)
      part(c, v) == {s \in ids : sessions[s][c] = v}
  IN [sessions   |-> Cardinality(ids),
      tokens     |-> Sum(ids, LAMBDA s : sessions[s].tokens),
      toolCalls  |-> Sum(ids, LAMBDA s : sessions[s].calls),
      errors     |-> Sum(ids, errors),
      withErrors |-> Cardinality({s \in ids : errors(s) > 0}),
      cost       |-> cost,
      paid       |-> paid,
      billing    |-> IF paid > 0 /\ cost > paid THEN "mixed" ELSE IF paid > 0 THEN "api" ELSE "subscription",
      perBranch  |-> [b \in {sessions[s].branch : s \in ids} |->
                        [count |-> Cardinality(part("branch", b)), cost |-> Sum(part("branch", b), est),
                         last |-> Max({sessions[s].created : s \in part("branch", b)})]],
      perType    |-> [t \in {sessions[s].type : s \in ids} \ {""} |-> Cardinality(part("type", t))],
      topFiles   |-> files]

AggregateFileCounts(f) ==
  LET files == UNION {sessions[s].files : s \in List(f)} IN
  [p \in files |-> Cardinality({s \in List(f) : p \in sessions[s].files})]

\* Mutation of statsFromAnalytics: rows of an older schema are left out.
statsFromCurrent(f) ==
  Totals(QueryAnalytics(f, schema), analytics, AggregateFileCounts(f))

statsFromAnalytics(f) ==
  Totals(QueryAnalytics(f, 0), analytics, AggregateFileCounts(f))

statsFromList(f) ==
  LET files == UNION {sessions[s].files : s \in List(f)} IN
  Totals(List(f), sessions, [p \in files |-> Cardinality({s \in List(f) : p \in sessions[s].files})])

\* The list is what remains if there are no rows at all, or tools are asked for.
Stats(f, tools) ==
  IF tools \/ QueryAnalytics(f, 0) = {} THEN statsFromList(f) ELSE statsFromAnalytics(f)

\* A session's calls by tool.
ToolUsage(s) == sessions[s].tools
AggregatedToolStats(f) ==
  LET names == UNION {DOMAIN sessions[s].tools : s \in List(f)} IN
  [n \in names |-> Sum({s \in List(f) : n \in DOMAIN sessions[s].tools}, LAMBDA s : sessions[s].tools[n])]

\* One period, from the list if it has no rows.
periodStats(f) ==
  LET rows == QueryAnalytics(f, 0)
      ids  == IF rows = {} THEN List(f) ELSE rows
  IN [count |-> Cardinality(ids), errors |-> Sum(ids, LAMBDA s : sessions[s].errors),
      tokens |-> Sum(ids, LAMBDA s : sessions[s].tokens)]

Trends(f, period) ==
  LET now == Horizon + 1
      current  == periodStats([f EXCEPT !.since = now - period, !.until = now])
      previous == periodStats([f EXCEPT !.since = now - 2 * period, !.until = now - period])
      errors   == current.errors - previous.errors
      tokens   == current.tokens - previous.tokens
      much     == previous.tokens > 0 /\ 5 * tokens > previous.tokens
  IN [current |-> current, previous |-> previous,
      verdict |-> IF errors < 0 /\ tokens <= 0 THEN "improving" ELSE IF errors > 0 \/ much THEN "degrading" ELSE "stable"]

-----------------------------------------------------------------------------
(* Costs by agent, skill, tool and server.                                 *)

Agent(s) == IF sessions[s].agent = "" THEN "unknown" ELSE sessions[s].agent
ByAgent(ids) ==
  [a \in {Agent(s) : s \in ids} |->
     LET mine == {s \in ids : Agent(s) = a} IN
     [count |-> Cardinality(mine), tokens |-> Sum(mine, LAMBDA s : sessions[s].tokens)]]

agentCostSummaryFromList(f) == ByAgent({s \in List(NoFilter) : Fits(s, f)})
AgentCostSummary(f) ==
  LET rows == QueryAnalytics(f, 0) IN IF rows = {} THEN agentCostSummaryFromList(f) ELSE ByAgent(rows)

\* Only rows of this schema: an older one is as good as none.
AgentROIAnalysis(f) == ByAgent(QueryAnalytics(f, schema))

\* The errors of a session are added once for each time it loads the skill.
SkillROIAnalysis(f) ==
  LET rows == QueryAnalytics(f, 0)
      ids  == IF rows = {} THEN {s \in List([NoFilter EXCEPT !.since = f.since]) : Fits(s, f)} ELSE rows
      all  == Sum(ids, LAMBDA s : sessions[s].errors)
      loading(k) == {s \in ids : k \in DOMAIN sessions[s].loads}
      with(k) == Sum(loading(k), LAMBDA s : sessions[s].loads[k] * sessions[s].errors)
  IN [k \in UNION {DOMAIN sessions[s].loads : s \in ids} |->
        [sessions |-> Cardinality(loading(k)), of |-> Cardinality(ids), with |-> with(k), without |-> all - with(k)]]

\* Tool buckets: one for each day, project and tool, here the sessions themselves;
\* a tool is a server's by its name.
MCPServerName(tool) == IF tool = "builtin" THEN "" ELSE "server"
Buckets(project) == {<<s, n>> \in Stored \X {"builtin", "mcp_a", "mcp_b"} :
                       /\ n \in DOMAIN sessions[s].tools
                       /\ project \in {None, sessions[s].project}}
Calls(buckets) == Sum(buckets, LAMBDA b : sessions[b[1]].tools[b[2]])

ToolCostSummary(project) ==
  LET all == Buckets(project)
      of(tool) == {b \in all : b[2] = tool}
      tools == {b[2] : b \in all}
  IN [tools |-> [n \in tools |-> Calls(of(n))], total |-> Calls(all),
      mcp |-> Sum({n \in tools : MCPServerName(n) # ""}, LAMBDA n : Calls(of(n)))]

MCPCostMatrix ==
  LET all == {b \in Buckets(None) : MCPServerName(b[2]) # ""}
      in(p) == {b \in all : sessions[b[1]].project = p}
      projects == {sessions[b[1]].project : b \in all}
  IN [rows |-> [p \in projects |-> Calls(in(p))], total |-> Sum(projects, LAMBDA p : Calls(in(p)))]

-----------------------------------------------------------------------------
(* Contexts, caches and what they will cost.                               *)

\* Sessions without a peak, or of a model whose window is not known, are left out.
ContextSaturation(f) ==
  LET ids == {s \in QueryAnalytics(f, schema) : Saturation(sessions[s]).known}
      compacted == {s \in ids : Saturation(sessions[s]).compacted}
  IN [sessions |-> Cardinality(ids), compacted |-> Cardinality(compacted),
      above90 |-> Cardinality({s \in ids : sessions[s].peak > 90}),
      models |-> [m \in {sessions[s].model : s \in ids} |->
                    LET mine == {s \in ids : sessions[s].model = m} IN
                    [count |-> Cardinality(mine), compacted |-> Cardinality(mine \cap compacted),
                     peak |-> Sum(mine, LAMBDA s : sessions[s].peak) \div Cardinality(mine)]]]

classifyModelEfficiency(peak, compacted) ==
  CASE (compacted > 0 /\ peak > 70) \/ peak > 90 -> "saturated"
    [] peak > 70 -> "tight"
    [] peak > 30 -> "well-sized"
    [] OTHER     -> "oversized"

CacheEfficiency(f) ==
  LET rows == QueryAnalytics(f, schema) IN
  [sessions |-> Cardinality(rows), misses |-> Sum(rows, LAMBDA s : CacheUse(sessions[s]).missed),
   withMiss |-> Cardinality({s \in rows : CacheUse(sessions[s]).missed > 0})]

\* A fork costs what it did not share.
Adjusted(s) == IF analytics[s].fork /\ analytics[s].dedup > 0 THEN analytics[s].dedup ELSE analytics[s].est

\* One bucket for each period of the window, which does not contain its end.
buildCostBuckets(ids, start, end, width) ==
  [i \in 0 .. (end - start - 1) \div width |->
     Sum({s \in ids : /\ sessions[s].created >= start + i * width
                      /\ sessions[s].created < Min({end, start + (i + 1) * width})}, Adjusted)]

\* The slope of the least squares, if it is more than a twentieth of the mean.
computeTrend(buckets) ==
  LET n   == Cardinality(DOMAIN buckets)
      sx  == Sum(DOMAIN buckets, LAMBDA i : i)
      sy  == Sum(DOMAIN buckets, LAMBDA i : buckets[i])
      num == n * Sum(DOMAIN buckets, LAMBDA i : i * buckets[i]) - sx * sy
      den == n * Sum(DOMAIN buckets, LAMBDA i : i * i) - sx * sx
      much == sy > 0 /\ 20 * n * (IF num < 0 THEN -num ELSE num) > den * sy
  IN IF n < 2 \/ ~much THEN "stable" ELSE IF num > 0 THEN "increasing" ELSE "decreasing"

buildModelBreakdown(ids) ==
  [m \in {analytics[s].model : s \in ids} |-> Sum({s \in ids : analytics[s].model = m}, Adjusted)]
BuildCostTreemap(ids) ==
  [b \in {analytics[s].backend : s \in ids} |-> buildModelBreakdown({s \in ids : analytics[s].backend = b})]

\* The branch is looked at when the rows are there.
Forecast(f, lookback, width) ==
  LET now   == Horizon + 1
      rows  == QueryAnalytics([f EXCEPT !.branch = None, !.since = now - lookback, !.until = now], schema)
      ids   == {s \in rows : f.branch \in {None, sessions[s].branch}}
      buckets == buildCostBuckets(ids, now - lookback, now, width)
  IN [sessions |-> Cardinality(ids), buckets |-> buckets, trend |-> computeTrend(buckets),
      total |-> Sum(DOMAIN buckets, LAMBDA i : buckets[i]),
      models |-> buildModelBreakdown(ids), treemap |-> BuildCostTreemap(ids)]

-----------------------------------------------------------------------------
(* What changes the rows.                                                  *)

Write == writes < MaxWrites /\ writes' = writes + 1

ReportsTypeOK ==
  /\ \A s \in Sessions : analytics[s] # None => analytics[s].schema \in 1 .. 2 /\ analytics[s].est >= 0
  /\ unstamped \subseteq Sessions /\ schema \in 1 .. 2 /\ writes \in 0 .. MaxWrites

ReportsInit ==
  /\ sessions = [s \in Sessions |-> None] /\ analytics = sessions
  /\ unstamped = {} /\ schema = 1 /\ writes = 0

\* The costs are in the row that is saved; the analytics come after it.
Capture(s, row) ==
  /\ Write
  /\ sessions' = [sessions EXCEPT ![s] = row]
  /\ unstamped' = unstamped \cup {s}
  /\ UNCHANGED <<analytics, schema>>

stampAnalytics(s) ==
  /\ s \in unstamped \cap Stored
  /\ unstamped' = unstamped \ {s}
  /\ analytics' = IF sessions[s].messages = 0 THEN analytics
                  ELSE [analytics EXCEPT ![s] = ComputeAnalytics(sessions[s], sessions[s].est, sessions[s].act)]
  /\ UNCHANGED <<sessions, schema, writes>>

\* The process dies, or the row cannot be written, which nobody is told.
NotStamped == unstamped # {} /\ unstamped' = {} /\ UNCHANGED <<sessions, analytics, schema, writes>>

\* A session that is loaded has no costs, and they are not computed again here.
AnalyticsBackfill(s) ==
  /\ s \in Stored /\ (analytics[s] # None => analytics[s].schema < schema)
  /\ sessions[s].messages > 0
  /\ analytics' = [analytics EXCEPT ![s] = ComputeAnalytics(sessions[s], 0, 0)]
  /\ UNCHANGED <<sessions, unstamped, schema, writes>>

\* The columns of the session get its costs, its row in session_analytics does not.
CostBackfill(s) ==
  /\ s \in Stored /\ sessions[s].est = 0 /\ sessions[s].tokens > 0 /\ sessions[s].price > 0
  /\ sessions' = [sessions EXCEPT ![s].est = sessions[s].price]
  /\ UNCHANGED <<analytics, unstamped, schema, writes>>

UpdateSessionType(s) ==
  /\ Write /\ s \in Stored
  /\ sessions' = [sessions EXCEPT ![s].type = IF @ = "" THEN "bug" ELSE ""]
  /\ UNCHANGED <<analytics, unstamped, schema>>

Delete(s) ==
  /\ Write /\ s \in Stored
  /\ sessions' = [sessions EXCEPT ![s] = None] /\ analytics' = [analytics EXCEPT ![s] = None]
  /\ unstamped' = unstamped \ {s}
  /\ UNCHANGED schema

\* A new version of the program.
Upgrade == schema = 1 /\ schema' = 2 /\ unstamped' = {} /\ UNCHANGED <<sessions, analytics, writes>>

ReportsNext ==
  \/ \E s \in Sessions :
       \/ stampAnalytics(s) \/ AnalyticsBackfill(s) \/ CostBackfill(s) \/ UpdateSessionType(s) \/ Delete(s)
       \/ \E row \in Captured : Capture(s, row)
  \/ NotStamped \/ Upgrade

ReportsSpec == ReportsInit /\ [][ReportsNext]_reportVars

-----------------------------------------------------------------------------
(* Properties.                                                             *)

Filters == {NoFilter} \cup {[NoFilter EXCEPT ![c] = sessions[s][c]] : c \in Columns, s \in Stored}
           \cup {[NoFilter EXCEPT !.since = t] : t \in 1 .. Horizon}

\* Every session has its row, and its costs are what the row has.
Complete == \A s \in Stored : s \in Filled /\ s \notin unstamped
Priced   == \A s \in Filled : analytics[s].est = sessions[s].est /\ analytics[s].act = sessions[s].act
Current  == \A s \in Filled : analytics[s].schema = schema

NoCosts(stats) == [stats EXCEPT !.cost = 0, !.paid = 0, !.billing = "", !.perBranch = DOMAIN @]

\* Where every session has its analytics, the two ways of computing a report agree, of
\* whichever schema the rows are; in their costs too as long as no backfill has written
\* only one of the two places they are kept in.
TwoWaysAgree ==
  Complete =>
    \A f \in Filters :
      /\ NoCosts(statsFromAnalytics(f)) = NoCosts(statsFromList(f))
      /\ Priced => statsFromAnalytics(f) = statsFromList(f)
      /\ AgentCostSummary(f) = agentCostSummaryFromList(f)

\* The reports on agents, caches, contexts, skills and costs are about the same sessions
\* as the statistics when the rows are current, and never about more.
CountedAlike ==
  \A f \in {g \in Filters : g.branch = None /\ g.type = None} :
    LET all == Stats(f, TRUE).sessions
        roi == AgentROIAnalysis(f)
        skills == SkillROIAnalysis(f)
    IN /\ ContextSaturation(f).sessions <= CacheEfficiency(f).sessions /\ CacheEfficiency(f).sessions <= all
       /\ Complete /\ Current =>
            /\ CacheEfficiency(f).sessions = all
            /\ roi = AgentCostSummary(f)
            /\ \A k \in DOMAIN skills : skills[k].of = all
            /\ Forecast([f EXCEPT !.since = 0], Horizon + 1, 2).sessions = Stats([f EXCEPT !.since = 0], FALSE).sessions

\* Each session is in one bucket of the forecast, and its costs by model and by provider
\* add up to the same; the costs of servers add up to the same by project and by tool.
CostsAddUp ==
  LET all == Forecast(NoFilter, Horizon + 1, 2)
      part(b) == Sum(DOMAIN all.treemap[b], LAMBDA m : all.treemap[b][m])
      projects == {sessions[s].project : s \in Stored}
  IN /\ all.total = Sum(DOMAIN all.models, LAMBDA m : all.models[m])
     /\ all.total = Sum(DOMAIN all.treemap, part)
     /\ ToolCostSummary(None).mcp = MCPCostMatrix.total
     /\ ToolCostSummary(None).total = Sum(projects, LAMBDA p : ToolCostSummary(p).total)
     /\ ToolCostSummary(None).tools = AggregatedToolStats(NoFilter)

\* A period and the one before it have together what the time of both has, but for a
\* session created at the instant between them, which is in both.
PeriodsAdjoin ==
  Complete =>
    LET f == NoFilter
        trends == Trends(f, 2)
        both == periodStats([f EXCEPT !.since = Horizon - 3])
        between == Cardinality({s \in Stored : sessions[s].created = Horizon - 1})
    IN trends.current.count + trends.previous.count = both.count + between

\* A skill's sessions and the others have together all errors, if it is loaded once a session.
SkillsSplit ==
  LET rows == SkillROIAnalysis(NoFilter) IN
  \A k \in DOMAIN rows :
    (\A s \in Stored : k \in DOMAIN sessions[s].loads => sessions[s].loads[k] = 1) => rows[k].without >= 0
=============================================================================
