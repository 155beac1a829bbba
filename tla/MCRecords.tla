------------------------------ MODULE MCRecords ------------------------------
(***************************************************************************)
(* What is stored beside the sessions and computed from them, for TLC:     *)
(* each setup is one of the modules with an instance of its own, and the   *)
(* variables of the others stay as they are initially.                     *)
(***************************************************************************)
EXTENDS SessionRecord, Integers, Sequences, TLC

CONSTANT None  \* an empty column

VARIABLES
  setup,  \* chosen at the start
  now, msgs, stored, forked, tokenRows, computed, toUpsert, full, caughtUp,  \* TokenUsage
  text, grown, rewind, forks, toSave, stale, mixed,                          \* Forks
  schema, position, crashed,                                                       \* Migrations
  branch, opened, known, linked, toLink,                                     \* PullRequests
  source, rows, events, buckets, run, missed, faults,                        \* SessionEvents
  projects, entry, request,                                                  \* WebCache
  messages,                                                                  \* Conversation
  transcript,                                                                \* Transcript
  begun, todo, goesOn, flags, svc, up, stops, waiting, arrived, done, told,  \* Frontends
  topic, db, double, same, calls,                                            \* MockStore
  key, kind, file, torn, process,                                            \* Settings
  engine, reached, kept, docs, unindexed, changes,                           \* Search
  sessions, analytics, unstamped, version, writes,                           \* Reports
  scene, size, absolute, family, delegated, inPR, marked, reading, edits,    \* SessionPages
  clock, says, created, analyses, saved, step, job, candidates, mishaps, \* Analysis
  held, related, talks, trees, registered, skill, phase, work, failures,     \* Replay
  chat, present, pairs, place, duties, tales, cut, losses                    \* Ingest

Usage == INSTANCE TokenUsage WITH
  Sessions <- {"s1", "s2"}, LastHour <- 2, ForkPoint <- [s1 |-> 0, s2 |-> 1], Crashes <- TRUE,
  forks <- forked, buckets <- tokenRows, todo <- toUpsert

Fork == INSTANCE Forks WITH
  Listing <- <<"d", "c", "b", "a">>,
  Script <- [a |-> <<1, 2, 3, 4, 5>>, b |-> <<1, 2, 3>>, c |-> <<1, 2, 3, 6>>, d |-> << >>],
  Sample <- 4, MaxRewinds <- 1, MaxStale <- 0

\* One opener that dies twice, and two that race.
Mig  == INSTANCE Migrations WITH Openers <- {"a"}, Crashes <- 2
Race == INSTANCE Migrations WITH Openers <- {"a", "b"}, Crashes <- 0

Pulls == INSTANCE PullRequests WITH
  Sessions <- {"s1", "s2"}, Branches <- {"b1", "b2"}, PRs <- {"p1", "p2"},
  HeadBranch <- [p1 |-> "b1", p2 |-> "b2"], NoBranch <- "none"

Ev == INSTANCE SessionEvents WITH
  Sessions <- {"s1", "s2"}, Hours <- {0, 1}, DayLength <- 2, Offset <- 0,
  Remote <- [s1 |-> "origin", s2 |-> "origin"], Runs <- {"p"}, MaxFaults <- 1,
  stored <- rows, stale <- missed

Cache == INSTANCE WebCache WITH
  Requests <- {"r1", "r2"}, Projects <- {"p"}, Prefixes <- {"stats", "forecast"},
  CacheKey <- "distinct_project_paths", MaxAge <- 2, MaxCompute <- 2

Conv == INSTANCE Conversation WITH Ids <- {"x", "y"}, InBlocks <- {"x"}, Reuse <- FALSE, MaxMessages <- 4

\* Drops by either rule, cascades, and compactions that are too far apart for one.
Script == INSTANCE Transcript WITH
  Entries <- {[input |-> 50, cached |-> FALSE], [input |-> 105, cached |-> FALSE], [input |-> 168, cached |-> TRUE]},
  MaxMessages <- 7

Front == INSTANCE Frontends WITH
  MaxCalls <- 2, LaterTools <- {"aisync_get", "aisync_gc"}, MaxStops <- 1,
  Served <- {"error", "event", "analysis"}

Mock == INSTANCE MockStore WITH
  Sessions <- {"s1", "s2"}, BranchOf <- [s1 |-> "b", s2 |-> "b"], CreatedAt <- [s1 |-> 1, s2 |-> 2],
  Raw <- {"bug", "Bug ", "ui", " "}, MaxCalls <- 4,
  NormalizeTag <- ("bug" :> "bug" @@ "Bug " :> "bug" @@ "ui" :> "ui" @@ " " :> None)

Prefs == INSTANCE Settings WITH Processes <- {"daemon", "shell"}, InRepo <- {"daemon"}

Row(column_, summary, content, tags) ==
  [c \in {"project", "remote", "branch", "provider", "owner", "type", "category", "status", "errors", "since"} |-> column_]
  @@ [summary |-> summary, content |-> content, tags |-> tags]

Find == INSTANCE Search WITH
  Ids <- 1 .. 3, Bm25 <- <<1, 3, 2>>, Boost <- 4, Pool <- 3, PageSize <- 5, MaxWrites <- 3,
  Rows <- {Row("a", {"x"}, {}, {"t"}), Row("b", {}, {"x"}, {}),
           [Row("a", {}, {"y"}, {}) EXCEPT !.owner = "b", !.type = ""]},
  up <- reached, rows <- kept, writes <- changes

\* A session of a server's tools with a full context; a subagent's of the same project
\* that shares half of its tokens; one of another project, paid for, of a model nobody
\* knows; and one without messages, in a worktree of the first.
Talk == [project |-> 1, remote |-> "r", owner |-> "u", branch |-> "m", says |-> "", type |-> "", agent |-> "",
         created |-> 2, messages |-> 2, tokens |-> 4, calls |-> 3, errors |-> 1, est |-> 2, act |-> 0, price |-> 2,
         files |-> {"f"}, tools |-> [builtin |-> 1, mcp_a |-> 2], loads |-> [k |-> 1], shared |-> 0,
         backend |-> "x", model |-> "m1", peak |-> 95, read |-> 2, missed |-> 1]
Subagent == [Talk EXCEPT !.owner = "v", !.branch = "b", !.type = "bug", !.agent = "a", !.created = 3, !.est = 0,
         !.errors = 0, !.tools = [mcp_a |-> 1, mcp_b |-> 1], !.shared = 2, !.backend = "y", !.loads = << >>, !.missed = 0]
Paid == [Talk EXCEPT !.project = 2, !.remote = "", !.branch = "b", !.says = "fix", !.created = 1, !.act = 1, !.est = 4,
         !.price = 4, !.files = {"f", "g"}, !.tools = [mcp_b |-> 1], !.shared = 1, !.model = "", !.peak = 0]
Empty == [Paid EXCEPT !.remote = "r", !.messages = 0, !.tokens = 0, !.est = 0, !.price = 0, !.errors = 0]

Report == INSTANCE Pages WITH
  Sessions <- {"s1", "s2"}, Captured <- {Talk, Subagent, Paid, Empty}, Horizon <- 3, MaxWrites <- 3,
  schema <- version, DayLength <- 2, Limit <- (<<"remote", "r">> :> 2 @@ <<"path", 2>> :> 1)

Member(project_, branch_, parent_, created_, kids_, files_) ==
  [project |-> project_, branch |-> branch_, parent |-> parent_, created |-> created_, kids |-> kids_,
   files |-> files_, times |-> <<2, 1, 4>>]
Wrote(path_) == [path |-> path_, change |-> "modified"]
Looked(path_) == [path |-> path_, change |-> "read"]
First == Member(1, "m", None, 1, << >>, {Wrote(<<"d", "e", "f", "g">>), Wrote(<<"d", "e", "i", "g">>), Wrote(<<"x">>)})

\* Sessions of two projects, where a subagent's are inside its session; and three of one
\* project, one below the other, where a file becomes a directory.
Shown == INSTANCE SessionPages WITH
  Ids <- {"a", "b", "c"}, Old <- {"a", "b"}, Batch <- 1, MaxChildren <- 1, Window <- 2, Since <- 1, Limit <- 3,
  MaxEdits <- 3, PRs <- [p |-> "open"], Tracked <- {<<"x">>, <<"d", "e", "i">>}, NoExtension <- {"x", "f"},
  Commits <- [m |-> {[sha |-> "1", at |-> 3], [sha |-> "2", at |-> 4]}, b |-> {[sha |-> "1", at |-> 3]}],
  Scenes <- {[a |-> First,
              b |-> Member(1, "m", "a", 2, <<"k1", "k2">>, {Wrote(<<"x">>), Looked(<<"d", "e", "f", "g">>)}),
              c |-> Member(2, "b", "a", 2, << >>, {Wrote(<<"x">>), Wrote(<<"x", "y">>)})],
             [a |-> First,
              b |-> Member(1, "b", "a", 2, << >>, {Wrote(<<"d", "e", "f", "g">>), Wrote(<<"d", "e", "f">>)}),
              c |-> Member(1, "b", "b", 2, << >>, {Wrote(<<"d", "e", "f", "g">>), Looked(<<"d", "e", "f">>)})]}

\* The daily task, and a goroutine for what a page asks for, or for what the command and
\* captures do.
Analyses == INSTANCE Analysis WITH
  Sessions <- {"s"}, DailyRuns <- {"daily"}, PageRuns <- {"other"}, CommandRuns <- {}, CaptureRuns <- {},
  Registered <- {"tool_efficiency"}, MaxIterations <- 1, MinToolCalls <- 1, ErrorThreshold <- 50, Lookback <- 1,
  MaxTime <- 1, MaxMessages <- 1, MaxRows <- 2, MaxFaults <- 1,
  content <- says, rows <- analyses, pc <- step, todo <- candidates
Captures == INSTANCE Analysis WITH
  Sessions <- {"s"}, DailyRuns <- {"daily"}, PageRuns <- {}, CommandRuns <- {"other"}, CaptureRuns <- {"other"},
  Registered <- {}, MaxIterations <- 1, MinToolCalls <- 1, ErrorThreshold <- 50, Lookback <- 1,
  MaxTime <- 1, MaxMessages <- 2, MaxRows <- 2, MaxFaults <- 1,
  content <- says, rows <- analyses, pc <- step, todo <- candidates

\* A fix with its replay beside a plain replay; the second session cannot be replayed.
Play == INSTANCE Replay WITH
  Replays <- {"validate", "replay"}, Validators <- {"validate"}, MaxFaults <- 1,
  Library <- << [provider |-> "opencode", project |-> "repo", said |-> <<"ask", "", "more">>,
                 figures |-> [tokens |-> 10, errors |-> 1, skills |-> {}]],
                [provider |-> "cursor", project |-> "", said |-> <<"">>,
                 figures |-> [tokens |-> 0, errors |-> 0, skills |-> {}]] >>,
  Batches <- {<<"description", "keywords">>, <<"pattern", "content">>},
  Outcomes <- {[tokens |-> 8, errors |-> 1, skills |-> {"skill"}], [tokens |-> 12, errors |-> 0, skills |-> {}]},
  Requests <- {[of |-> 1, agent |-> "claude", max |-> 1], [of |-> 2, agent |-> "", max |-> 0]},
  kept <- held, known <- registered, at <- phase, faults <- failures

Calling(name_, input_) == [name |-> name_, input |-> input_, output |-> "", done |-> FALSE]
Turn(calls_) == [role |-> "assistant", name |-> "", calls |-> calls_]
Result(name_, names_) == [role |-> "tool", name |-> name_, names |-> names_]

\* The parent's agent may call the same tool twice, and get the results in any order.
Sent == INSTANCE Ingest WITH
  Parent <- "parent", Child <- "child", ClientOf <- [c1 |-> "parent", c2 |-> "child"], MaxSaid <- 3, MaxFaults <- 1,
  Said <- {Turn(<<Calling("delegate", ""), Calling("bash", ""), Calling("delegate", "")>>),
           Turn(<<Calling("delegate", "child")>>),
           Result("delegate", "child"), Result("delegate", ""), Result("bash", "child"), Result("", "child")},
  talk <- chat, here <- present, links <- pairs, pc <- place, todo <- duties, told <- tales, faults <- losses

ASSUME RecordsAssumption ==
  /\ Ev!SessionEventsAssumption /\ Analyses!AnalysisAssumption /\ Captures!AnalysisAssumption
  /\ Mig!MigrationsAssumption /\ Race!MigrationsAssumption /\ Prefs!SettingsAssumption
  /\ Play!ReplayAssumption /\ Sent!IngestAssumption /\ Front!FrontAssumption

usageVars  == <<now, msgs, stored, forked, tokenRows, computed, toUpsert, full, caughtUp>>
forkVars   == <<text, grown, rewind, forks, toSave, stale, mixed>>
migVars    == <<schema, position, crashed>>
pullVars   == <<branch, opened, known, linked, toLink>>
eventVars  == <<source, rows, events, buckets, run, missed, faults>>
cacheVars  == <<projects, entry, request>>
prefVars   == <<key, kind, file, torn, process>>
findVars   == <<engine, reached, kept, docs, unindexed, changes>>
reportVars == <<sessions, analytics, unstamped, version, writes>>
shownVars  == <<scene, size, absolute, family, delegated, inPR, marked, reading, edits>>
analysisVars == <<clock, says, created, analyses, saved, step, job, candidates, mishaps>>
playVars   == <<held, related, talks, trees, registered, skill, phase, work, failures>>
sentVars   == <<chat, present, pairs, place, duties, tales, cut, losses>>
mockVars   == <<topic, db, double, same, calls>>
frontVars  == <<begun, todo, goesOn, flags, svc, up, stops, waiting, arrived, done, told>>
recordsVars == <<setup, recordVars, usageVars, forkVars, migVars, pullVars, eventVars, cacheVars,
                 messages, transcript, frontVars, mockVars, prefVars, findVars, reportVars, shownVars, analysisVars,
                 playVars, sentVars>>

RecordsInit ==
  /\ setup \in {"record", "usage", "fork", "migrate", "race", "pulls", "events", "cache",
                "conversation", "transcript", "front", "mock", "settings", "search", "reports", "shown", "analysis",
                "captures", "replay", "ingest"}
  /\ RecordInit /\ Usage!UsageInit /\ Fork!ForkInit
  /\ IF setup = "race" THEN Race!MigInit ELSE Mig!MigInit
  /\ Pulls!PRInit /\ Ev!EventsInit /\ Cache!CacheInit
  /\ Conv!ConvInit /\ Script!TranscriptInit /\ Front!FrontInit
  /\ IF setup = "mock" THEN Mock!MockInit
     ELSE topic = "rows" /\ db = << >> /\ double = << >> /\ same = TRUE /\ calls = 0
  /\ IF setup = "settings" THEN Prefs!SettingsInit
     ELSE key = "none" /\ kind = << >> /\ file = << >> /\ torn = {} /\ process = << >>
  /\ IF setup = "search" THEN Find!SearchInit
     ELSE engine = "like" /\ reached = TRUE /\ kept = << >> /\ docs = << >> /\ unindexed = << >> /\ changes = 0
  /\ Report!ReportsInit /\ Analyses!AnalysisInit /\ Play!ReplayInit /\ Sent!IngestInit
  /\ IF setup = "shown" THEN Shown!PagesInit
     ELSE /\ scene = << >> /\ size = << >> /\ absolute = {} /\ family = {} /\ delegated = << >>
          /\ inPR = {} /\ marked = << >> /\ reading = << >> /\ edits = 0

\* The setups with the most steps come last: TLC takes the conjuncts in their order.
RecordsNext ==
  /\ UNCHANGED setup
  /\ CASE setup = "migrate" -> Mig!MigNext
       [] setup = "race"    -> Race!MigNext
       [] OTHER             -> UNCHANGED migVars
  /\ IF setup = "record" THEN RecordNext ELSE UNCHANGED recordVars
  /\ IF setup = "pulls" THEN Pulls!PRNext ELSE UNCHANGED pullVars
  /\ IF setup = "cache" THEN Cache!CacheNext ELSE UNCHANGED cacheVars
  /\ IF setup = "conversation" THEN Conv!ConvNext ELSE UNCHANGED messages
  /\ IF setup = "transcript" THEN Script!TranscriptNext ELSE UNCHANGED transcript
  /\ IF setup = "front" THEN Front!FrontNext ELSE UNCHANGED frontVars
  /\ IF setup = "mock" THEN Mock!MockNext ELSE UNCHANGED mockVars
  /\ IF setup = "search" THEN Find!SearchNext ELSE UNCHANGED findVars
  /\ IF setup = "reports" THEN Report!ReportsNext ELSE UNCHANGED reportVars
  /\ IF setup = "shown" THEN Shown!PagesNext ELSE UNCHANGED shownVars
  /\ IF setup = "replay" THEN Play!ReplayNext ELSE UNCHANGED playVars
  /\ IF setup = "ingest" THEN Sent!IngestNext ELSE UNCHANGED sentVars
  /\ IF setup = "events" THEN Ev!EventsNext ELSE UNCHANGED eventVars
  /\ IF setup = "usage" THEN Usage!UsageNext ELSE UNCHANGED usageVars
  /\ IF setup = "settings" THEN Prefs!SettingsNext ELSE UNCHANGED prefVars
  /\ IF setup = "fork" THEN Fork!ForkNext ELSE UNCHANGED forkVars
  /\ CASE setup = "analysis" -> Analyses!AnalysisNext
       [] setup = "captures" -> Captures!AnalysisNext
       [] OTHER              -> UNCHANGED analysisVars

RecordsSpec == RecordsInit /\ [][RecordsNext]_recordsVars

-----------------------------------------------------------------------------
(* Properties.                                                             *)

\* The values each module's variables may have.
RecordsTypeOK ==
  CASE setup = "record"       -> RecordTypeOK
    [] setup = "usage"        -> Usage!UsageTypeOK
    [] setup = "fork"         -> Fork!ForkTypeOK
    [] setup = "migrate"      -> Mig!MigTypeOK
    [] setup = "race"         -> Race!MigTypeOK
    [] setup = "pulls"        -> Pulls!PRTypeOK
    [] setup = "events"       -> Ev!EventsTypeOK
    [] setup = "cache"        -> Cache!CacheTypeOK
    [] setup = "conversation" -> Conv!ConvTypeOK
    [] setup = "transcript"   -> Script!TranscriptTypeOK
    [] setup = "front"        -> Front!FrontTypeOK
    [] setup = "mock"         -> Mock!MockTypeOK
    [] setup = "settings"     -> Prefs!SettingsTypeOK
    [] setup = "search"       -> Find!SearchTypeOK
    [] setup = "reports"      -> Report!ReportsTypeOK
    [] setup = "shown"        -> Shown!PagesTypeOK
    [] setup = "analysis"     -> Analyses!AnalysisTypeOK
    [] setup = "captures"     -> Captures!AnalysisTypeOK
    [] setup = "replay"       -> Play!ReplayTypeOK
    [] setup = "ingest"       -> Sent!IngestTypeOK

\* What is computed from sessions is right when the computations are over: event
\* buckets count the events, token buckets the messages, a message that forks share
\* is left out of all of them but one, and no page shows what has not been true for
\* longer than a cached value may live.  Reports that add up the rows beside the sessions
\* say the same as those that add up the sessions, and as one another, and the pages made
\* of them agree.
DerivedIsRight ==
  /\ setup = "events" => Ev!QuietExact
  /\ setup = "usage" => Usage!FullIsRight
  /\ setup = "fork" => Fork!NothingUncounted
  /\ setup = "cache" => Cache!ServedWasTrue
  /\ setup = "reports" => /\ Report!TwoWaysAgree /\ Report!CountedAlike /\ Report!CostsAddUp
                          /\ Report!PeriodsAdjoin /\ Report!SkillsSplit /\ Report!PagesRight

\* Whoever died or raced on the way, a store that is open has its tables.
NothingIsMissing ==
  /\ setup = "migrate" => Mig!Usable
  /\ setup = "race" => Race!Usable

\* What is read out of a conversation is in it: fixing it leaves no orphan and
\* touches nothing but orphans, and its compactions are places where its tokens
\* really fell. What is read out of the tables is the same whichever way it is asked
\* for, and whether the tables are in SQLite or in memory.  What a setting
\* was saved as is what the next process finds.  What a search finds is what was asked
\* for, on one page and once, and its facets lead to it.  What the pages of a session, a
\* branch or a file show is there, once, and alike on all of them.  What is sent in
\* another tool's form is all there, results at their calls.
ReadRight ==
  /\ setup = "conversation" => Conv!FixMends /\ Conv!FixesOnlyOrphans
  /\ setup = "transcript" => Script!Segmented
  /\ setup = "mock" => Mock!StandsIn /\ Mock!TablesAgree
  /\ setup = "settings" => Prefs!SavedIsRead /\ Prefs!ShownIsSame
  /\ setup = "search" => Find!FoundIsAsked /\ Find!PagesAreWhole /\ Find!FacetsLead /\ Find!ListIsSearch
  /\ setup = "shown" => Shown!SessionPagesRight
  /\ setup = "ingest" => Sent!ResultsInPlace /\ Sent!NothingDropped

\* What a command, a tool or a program asks for on sessions is what is done, on one
\* set of sessions, and what it is told of it is so.  The daily task analyses a session
\* once, and what is shown of a session is the whole of its last analysis.
\* A replay keeps to its worktree, leaves none behind, and its verdict follows from what
\* it did; delegations that were sent are linked.
DoneAsAsked ==
  /\ setup = "front" => Front!AsAsked /\ Front!AnswerIsTrue /\ Front!NoSplit
  /\ setup = "analysis" => Analyses!AnalysesRight
  /\ setup = "captures" => Captures!AnalysesRight
  /\ setup = "replay" => Play!ReplaysRight
  /\ setup = "ingest" => Sent!DelegationsRight

\* A longer transcript takes back none of the compactions but the last.
NothingTakenBack == Script!NothingTakenBack
=============================================================================
