------------------------------- MODULE Pages --------------------------------
(***************************************************************************)
(* The pages of the dashboard that are made of reports: which reports each *)
(* page asks for, of which project and which days, and what it shows of    *)
(* them. A page is a function of its parts; a part that has nothing to     *)
(* show, or whose report fails, is None.                                   *)
(*                                                                         *)
(* Projects are numbers, ordered as their paths are. The pages are made    *)
(* right after the last session; limits on the rows shown are left out.    *)
(***************************************************************************)
EXTENDS Reports

CONSTANTS
  Limit,      \* the daily limit set for a path or a remote, 0 if there is none
  DayLength   \* the hours of a day

Now == Horizon + 1
Week == 2
Fortnight == 3
Quarter == Horizon + 1

Of(project) == [NoFilter EXCEPT !.project = project]
Last(days, project) == [Of(project) EXCEPT !.since = Now - days]
Paths == {sessions[s].project : s \in Stored}

\* A part is shown if its report is made and is not empty.
Part(report, failing, Empty(_), value) == IF report \in failing \/ Empty(value) THEN None ELSE value
NoSessions(report) == report.sessions = 0
NoRows(report) == report = << >>
Quiet(trends) == trends.current.count = 0 /\ trends.previous.count = 0
Never(report) == FALSE

-----------------------------------------------------------------------------
(* The projects: one for each remote, one for each path without a remote.  *)

Group(s) == IF sessions[s].remote # "" THEN <<"remote", sessions[s].remote>> ELSE <<"path", sessions[s].project>>

ListProjects ==
  LET group(g) == {s \in Stored : Group(s) = g} IN
  {[key |-> g, remote |-> sessions[CHOOSE s \in group(g) : TRUE].remote,
    path |-> Min({sessions[s].project : s \in group(g)}), count |-> Cardinality(group(g)),
    tokens |-> Sum(group(g), LAMBDA s : sessions[s].tokens)] : g \in {Group(s) : s \in Stored}}

buildSidebarProjects(active) ==
  {[name |-> g.key, path |-> g.path, count |-> g.count, active |-> g.path = active] : g \in ListProjects}

ProjectCards == {[name |-> g.key, path |-> g.path, count |-> g.count, tokens |-> g.tokens] : g \in ListProjects}

\* What the buckets of the shown path say was paid; paths of other worktrees are not asked for.
BudgetStatus ==
  {[path |-> g.path, remote |-> g.remote, limit |-> Limit[g.key],
    spent |-> Sum(List(Of(g.path)), LAMBDA s : sessions[s].act)] :
     g \in {h \in ListProjects : h.key \in DOMAIN Limit /\ Limit[h.key] > 0}}

-----------------------------------------------------------------------------
(* Days and hours.                                                         *)

Day(t) == t \div DayLength
Hour(t) == t % DayLength

\* One bar for each day with buckets; a bucket that was paid for counts what was paid.
Sparklines(project) ==
  LET all == {s \in List(Last(Fortnight, project)) : sessions[s].created < Now}
      on(d) == {s \in all : Day(sessions[s].created) = d}
      cost(s) == IF sessions[s].act > 0 THEN sessions[s].act ELSE sessions[s].est
  IN [d \in {Day(sessions[s].created) : s \in all} |->
        [sessions |-> Cardinality(on(d)), tokens |-> Sum(on(d), LAMBDA s : sessions[s].tokens),
         cost |-> Sum(on(d), cost), errors |-> Sum(on(d), LAMBDA s : sessions[s].errors)]]

\* Seven rows and the hours of a day: a cell is as many whole days ago as its bucket is.
UsagePage(project) ==
  LET all == {s \in List(Last(7 * DayLength, project)) : sessions[s].created < Now}
      ago(s) == (Now - sessions[s].created) \div DayLength
      at(h) == {s \in all : Hour(sessions[s].created) = h}
      tokens(ids) == Sum(ids, LAMBDA s : sessions[s].tokens)
      early(h) == 4 * h < DayLength
      late(h)  == 4 * h >= 3 * DayLength
      hours    == 0 .. DayLength - 1
      between(P(_)) == Sum({h \in hours : P(h)}, LAMBDA h : tokens(at(h)))
  IN [cells   |-> [c \in (0 .. 6) \X hours |-> tokens({s \in at(c[2]) : ago(s) = c[1]})],
      label   |-> [d \in 0 .. 6 |-> Day(Now) - d],
      hourly  |-> [h \in hours |-> tokens(at(h))],
      night   |-> between(early),
      day     |-> between(LAMBDA h : ~early(h) /\ ~late(h)),
      evening |-> between(late)]

\* The first and the last instant of a period of the team page; day 1 is a Monday and day 0
\* the first of the month.
TeamPeriod(period, now) ==
  LET today == Day(now) * DayLength
      monday == DayLength * (Day(now) - ((Day(now) + 6) % 7))
  IN CASE period = "yesterday" -> <<today - DayLength, today>>
       [] period = "week"      -> <<monday, now>>
       [] period = "month"     -> <<0, now>>
       [] OTHER                -> <<today, now>>

OwnerStats(from, to) ==
  LET ids == {s \in Stored : from <= sessions[s].created /\ sessions[s].created <= to}
      of(o) == {s \in ids : sessions[s].owner = o}
  IN [o \in {sessions[s].owner : s \in ids} |->
        [count |-> Cardinality(of(o)), tokens |-> Sum(of(o), LAMBDA s : sessions[s].tokens),
         errors |-> Sum(of(o), LAMBDA s : sessions[s].errors)]]

TeamPage(period, now) ==
  LET range == TeamPeriod(period, now)
      stats == OwnerStats(range[1], range[2])
      total == Sum(DOMAIN stats, LAMBDA o : stats[o].count)
  IN [sessions |-> total, size |-> Cardinality(DOMAIN stats),
      errors |-> Sum(DOMAIN stats, LAMBDA o : stats[o].errors),
      percent |-> [o \in DOMAIN stats |-> (100 * stats[o].count) \div total], members |-> stats]

-----------------------------------------------------------------------------
(* What happened: events are kept by day and project.                      *)

EventBuckets(project, days) ==
  LET ids == List(Last(days, project))
      keys == {<<sessions[s].project, Day(sessions[s].created)>> : s \in ids}
      in(k) == {s \in ids : <<sessions[s].project, Day(sessions[s].created)>> = k}
      names(k) == UNION {DOMAIN sessions[s].tools : s \in in(k)}
      using(k, n) == {s \in in(k) : n \in DOMAIN sessions[s].tools}
  IN {[key |-> k, sessions |-> Cardinality(in(k)), errors |-> Sum(in(k), LAMBDA s : sessions[s].errors),
       tools  |-> [n \in names(k) |-> Sum(using(k, n), LAMBDA s : sessions[s].tools[n])],
       agents |-> [a \in {sessions[s].agent : s \in in(k)} |-> Cardinality({s \in in(k) : sessions[s].agent = a})]] :
        k \in keys}

TopTools(buckets) ==
  LET with(n) == {b \in buckets : n \in DOMAIN b.tools} IN
  [n \in UNION {DOMAIN b.tools : b \in buckets} |-> Sum(with(n), LAMBDA b : b.tools[n])]

\* Buckets of one day are put together, of whichever project.
AnalyticsPage(project, days) ==
  LET all == EventBuckets(project, days)
      on(d) == {b \in all : b.key[2] = d}
      agents == UNION {DOMAIN b.agents : b \in all}
      with(a) == {b \in all : a \in DOMAIN b.agents}
  IN [sessions |-> Sum(all, LAMBDA b : b.sessions), errors |-> Sum(all, LAMBDA b : b.errors),
      tools |-> TopTools(all), agents |-> [a \in agents |-> Sum(with(a), LAMBDA b : b.agents[a])],
      daily |-> [d \in {b.key[2] : b \in all} |-> Sum(on(d), LAMBDA b : b.sessions)]]

\* The whole of each bucket the agent appears in is shown as the agent's.
AgentDetail(agent, project) ==
  LET mine == {b \in EventBuckets(project, Quarter) : agent \in DOMAIN b.agents} IN
  [sessions |-> Sum(mine, LAMBDA b : b.agents[agent]), errors |-> Sum(mine, LAMBDA b : b.errors),
   tools |-> TopTools(mine), list |-> {s \in List(Of(project)) : sessions[s].agent = agent}]

-----------------------------------------------------------------------------
(* The pages.                                                              *)

\* The forecast and the trends are of all projects, whichever one is selected.
buildDashboardData(project, failing) ==
  IF "stats" \in failing THEN << >> ELSE
    [totals     |-> Stats(Of(project), FALSE),
     forecast   |-> Part("forecast", failing, NoSessions, Forecast(Last(Quarter, None), Quarter, 2)),
     cache      |-> Part("cache", failing, NoSessions, CacheEfficiency(Last(Week, project))),
     trends     |-> Part("trends", failing, Quiet, Trends(NoFilter, Week)),
     sparklines |-> Part("buckets", failing, NoRows, Sparklines(project))]

buildBranchesData(project) == Stats(Of(project), FALSE).perBranch

\* Of one project, all but the budgets; the errors and calls are counted over the list.
ProjectTotals(path) == LET stats == Stats(Of(path), FALSE) IN stats
ProjectCounts(path) ==
  LET ids == List(Of(path)) IN
  [errors |-> Sum(ids, LAMBDA s : sessions[s].errors), calls |-> Sum(ids, LAMBDA s : sessions[s].calls),
   withErrors |-> Cardinality({s \in ids : sessions[s].errors > 0}), recent |-> ids,
   agents |-> [a \in {sessions[s].agent : s \in ids} \ {""} |-> Cardinality({s \in ids : sessions[s].agent = a})]]

\* A file counts once for each session that touches it.
TopFilesForProject(path) ==
  LET files == UNION {sessions[s].files : s \in List(Of(path))} IN
  [p \in files |-> Cardinality({s \in List(Of(path)) : p \in sessions[s].files})]

\* The first budget of this path or of this remote, which is empty if no group shows the path.
ProjectBudget(path) ==
  LET shown == {g \in ListProjects : g.path = path}
      remote == IF shown = {} THEN "" ELSE (CHOOSE g \in shown : TRUE).remote
  IN {b \in BudgetStatus : b.path = path \/ b.remote = remote}

ProjectUse(path) ==
  [saturation |-> ContextSaturation(Last(Quarter, path)), agents |-> AgentROIAnalysis(Last(Quarter, path)),
   skills |-> SkillROIAnalysis(Last(Quarter, path)), sparklines |-> Sparklines(path)]

buildProjectDetailData(path, failing) ==
  IF "stats" \in failing THEN << >> ELSE
    [totals   |-> ProjectTotals(path),
     counts   |-> Part("list", failing, Never, ProjectCounts(path)),
     trends   |-> Part("trends", failing, Quiet, Trends(Of(path), Week)),
     forecast |-> Part("forecast", failing, NoSessions, Forecast(Last(Quarter, path), Quarter, 2)),
     cache    |-> Part("cache", failing, NoSessions, CacheEfficiency(Last(Week, path))),
     budgets  |-> Part("budgets", failing, Never, ProjectBudget(path)),
     files    |-> Part("files", failing, NoRows, TopFilesForProject(path)),
     use      |-> Part("use", failing, Never, ProjectUse(path))]

\* The forecast is again of all projects; the limit of a day is drawn over its bars.
CostsOverview(project, failing) ==
  [totals |-> Stats(Of(project), FALSE),
   forecast |-> Part("forecast", failing, NoSessions, Forecast(Last(Quarter, None), Quarter, 2))]

CostsByTool(project) ==
  LET tools == ToolCostSummary(project) IN
  [tools |-> tools.tools, mcp |-> tools.mcp, agents |-> AgentCostSummary(Last(Quarter, project)),
   matrix |-> IF project = None THEN MCPCostMatrix ELSE None]

CostsOfContexts(project) ==
  LET saturation == ContextSaturation(Last(Quarter, project)) IN
  [sessions |-> saturation.sessions, compacted |-> saturation.compacted,
   models |-> [m \in DOMAIN saturation.models |->
                 classifyModelEfficiency(saturation.models[m].peak, saturation.models[m].compacted)]]

\* Mutation of BudgetLine: the limits of all budgets, whichever project is selected.
BudgetLineOfAll(project) == MapThenSumSet(LAMBDA b : b.limit, BudgetStatus)

BudgetLine(project) ==
  MapThenSumSet(LAMBDA b : b.limit, {b \in BudgetStatus : project = None \/ b.path = project})

buildCostsData(project, failing) ==
  IF "stats" \in failing \/ Stats(Of(project), FALSE).sessions = 0 THEN << >> ELSE
    [overview |-> CostsOverview(project, failing),
     tools    |-> IF Buckets(project) = {} THEN None ELSE Part("tools", failing, Never, CostsByTool(project)),
     contexts |-> Part("saturation", failing, NoSessions, CostsOfContexts(project)),
     cache    |-> Part("cache", failing, Never, CacheEfficiency(Last(Quarter, project))),
     line     |-> Part("budgets", failing, Never, BudgetLine(project))]

-----------------------------------------------------------------------------
(* Lists of sessions, as a table and as cards, and the classifier's preview. *)

\* What was paid, or what it would have cost, or a guess from its tokens.
Cost(s) ==
  IF sessions[s].act > 0 THEN <<"paid", sessions[s].act>>
  ELSE IF sessions[s].est > 0 THEN <<"estimated", sessions[s].est>>
  ELSE <<"about", sessions[s].tokens>>

SessionRow(s, columns) ==
  LET cell == [agent |-> IF sessions[s].agent = "" THEN "none" ELSE sessions[s].agent,
               branch |-> sessions[s].branch, messages |-> sessions[s].messages, cost |-> Cost(s),
               errors |-> sessions[s].errors]
  IN [c \in columns |-> cell[c]]

SessionListItem(s) ==
  [branch |-> sessions[s].branch, agent |-> sessions[s].agent, type |-> sessions[s].type,
   messages |-> sessions[s].messages, cost |-> Cost(s), errors |-> sessions[s].errors]

\* What a rule says of the summary comes before what one says of the branch or the agent.
classifyType(s, rules) ==
  LET row == sessions[s] IN
  IF row.says # "" THEN row.says
  ELSE IF row.branch \in DOMAIN rules THEN rules[row.branch]
  ELSE IF row.agent \in DOMAIN rules THEN rules[row.agent]
  ELSE ""

\* The classifier leaves a type alone that is there already.
Classified(s, rules) == IF sessions[s].type = "" THEN classifyType(s, rules) ELSE sessions[s].type

classifySessionPreview(s, rules) ==
  [new |-> classifyType(s, rules), changed |-> classifyType(s, rules) \notin {"", sessions[s].type}]

ClassificationPreview(path, rules) ==
  LET ids == List(Of(path)) IN
  [total |-> Cardinality(ids), rows |-> [s \in ids |-> classifySessionPreview(s, rules)],
   changes |-> Cardinality({s \in ids : classifySessionPreview(s, rules).changed})]

-----------------------------------------------------------------------------
(* Properties.                                                             *)

Failures == {{"forecast"}, {"buckets", "cache"}}

\* Whatever the pages show of the same project is the same: the dashboard, the page of the
\* project, its branches and its costs; but the errors of the list and those of the rows only
\* where every session has its row. What fails leaves out its own part and changes no other.
PagesAgree ==
  \A p \in Paths :
    \A board \in {buildDashboardData(p, {})}, page \in {buildProjectDetailData(p, {})}, costs \in {buildCostsData(p, {})} :
       /\ board.totals = page.totals /\ board.cache = page.cache
       /\ board.sparklines # None => board.sparklines = page.use.sparklines
       /\ board.totals.perBranch = buildBranchesData(p)
       /\ costs # << >> => /\ costs.overview.totals = board.totals
                           /\ costs.overview.forecast = board.forecast
                           /\ costs.contexts # None => costs.contexts.sessions = page.use.saturation.sessions
       /\ Complete => /\ page.counts.errors = page.totals.errors /\ page.counts.calls = page.totals.toolCalls
                      /\ page.counts.withErrors = page.totals.withErrors
       /\ page.files # None => page.files = page.totals.topFiles
       /\ \A failing \in Failures : \A less \in {buildDashboardData(p, failing)} :
            \A part \in DOMAIN board : less[part] \in {None, board[part]}

\* A project has no more than all projects have, and where there are no other projects the
\* dashboard shows of it what it shows of all; the parts that are never of one project too.
PagesAddUp ==
  \A all \in {buildDashboardData(None, {})}, boards \in {[p \in Paths |-> buildDashboardData(p, {})]} :
    /\ Complete => /\ all.totals.sessions = Sum(Paths, LAMBDA p : boards[p].totals.sessions)
                   /\ all.totals.cost = Sum(Paths, LAMBDA p : boards[p].totals.cost)
    /\ \A p \in Paths : boards[p].forecast = all.forecast /\ (Paths = {p} => boards[p] = all)

\* Every session is in one entry of the sidebar. The page an entry leads to has as many
\* sessions, if the sessions of the entry are all of one path and that path is of one entry.
SidebarLeadsThere ==
  LET entries == buildSidebarProjects(None) IN
  /\ Sum(entries, LAMBDA e : e.count) = Cardinality(Stored)
  /\ \A e \in entries :
       LET its == {s \in Stored : Group(s) = e.name} IN
       (its = List(Of(e.path)) /\ Complete) => e.count = ProjectTotals(e.path).sessions

\* A project whose path is shown has the budget of its path or remote, and the line over its
\* costs is that of the budgets of its path; a budget counts once in the line of all.
BudgetShown ==
  /\ \A g \in ListProjects :
       LET mine == ProjectBudget(g.path) IN
       g.remote # "" /\ Cardinality({h \in ListProjects : h.path = g.path}) = 1 =>
         /\ \A b \in mine : b.remote = g.remote \/ b.path = g.path
         /\ Sum(mine, LAMBDA b : b.limit) = BudgetLine(g.path)
  /\ BudgetLine(None) = Sum({g.path : g \in ListProjects}, BudgetLine)

\* The heat map loses no token of its days, nor do its hours and parts of the day. A row is
\* of the day it is labelled with, for the hours of a day that have passed today.
HeatMapTrue ==
  LET page == UsagePage(None)
      cells == Sum(DOMAIN page.cells, LAMBDA c : page.cells[c])
  IN /\ cells = page.night + page.day + page.evening
     /\ cells = Sum(Stored, LAMBDA s : sessions[s].tokens)
     /\ \A s \in Stored :
          LET row == (Now - sessions[s].created) \div DayLength IN
          Hour(sessions[s].created) <= Hour(Now) => page.label[row] = Day(sessions[s].created)

\* Whenever the team page is made, a session of the midnight between them is both
\* yesterday's and today's, and all others of both days are in one of them; a day is in
\* its week and in its month, which has every session.
TeamAddsUp ==
  \A now \in DayLength .. Now :
    LET count(period) == TeamPage(period, now).sessions
        created(from) == {s \in Stored : from <= sessions[s].created /\ sessions[s].created <= now}
        midnight == {s \in Stored : sessions[s].created = Day(now) * DayLength}
    IN /\ count("today") + count("yesterday")
            = Cardinality(created((Day(now) - 1) * DayLength)) + Cardinality(midnight)
       /\ count("today") <= count("week") /\ count("today") <= count("month")
       /\ count("month") = Cardinality(created(0))

\* The events of the days add up to those of all tools; an agent's tools are its own where no
\* other agent worked in the same project on the same day, and never fewer than its own.
AgentsTools ==
  LET page == AnalyticsPage(None, Quarter) IN
  /\ page.tools = AggregatedToolStats(NoFilter)
  /\ page.sessions = Sum(DOMAIN page.daily, LAMBDA d : page.daily[d])
  /\ \A a \in DOMAIN page.agents :
       LET detail == AgentDetail(a, None)
           own(n) == Sum({s \in detail.list : n \in DOMAIN sessions[s].tools}, LAMBDA s : sessions[s].tools[n])
           names  == UNION {DOMAIN sessions[s].tools : s \in detail.list}
           alone  == \A b \in EventBuckets(None, Quarter) : a \in DOMAIN b.agents => DOMAIN b.agents = {a}
       IN /\ detail.sessions = Cardinality(detail.list)
          /\ \A n \in names : own(n) <= detail.tools[n]
          /\ alone => DOMAIN detail.tools = names /\ \A n \in names : own(n) = detail.tools[n]

\* The preview of rules shows the type each session without one would get from the
\* classifier; a session with a type, which the classifier leaves alone, it may show changed.
PreviewTellsTrue ==
  \A p \in Paths : \A rules \in {<< >>, [b |-> "ui"], [a |-> "bug", m |-> "ui"]} :
    LET preview == ClassificationPreview(p, rules) IN
    \A s \in DOMAIN preview.rows :
      /\ sessions[s].type = "" => preview.rows[s].new = Classified(s, rules)
      /\ preview.rows[s].changed /\ sessions[s].type = "" => Classified(s, rules) # sessions[s].type

PagesRight ==
  /\ PagesAgree /\ PagesAddUp /\ SidebarLeadsThere /\ BudgetShown
  /\ HeatMapTrue /\ TeamAddsUp /\ AgentsTools /\ PreviewTellsTrue
=============================================================================
