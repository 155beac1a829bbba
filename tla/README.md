# A TLA+ model of aisync

aisync captures the sessions of AI coding tools (OpenCode, Claude Code, Cursor,
Hermes) into a SQLite store, keeps them, analyses them and shares them. This
directory models the parts of it where processes, databases and machines meet, and
the operations, reports and pages that stand on them; TLC checks them and TLAPS
proves the most important invariants. Paths below are relative to `src/`;
`PROJECT.json` maps each definition to the lines it stands for.

## 1. Inventory

| Component | State | Operations | Hard about it |
|---|---|---|---|
| Capture (`internal/capture`, `service/session_capture.go`) | nothing of its own; the tool's database and the `sessions` table | `captureOne`, `skipIfUnchanged`, `exportSession`, `Save` | separate reads of two databases nobody locks; git hook, editor plugin, API and scheduler capture the same session |
| Providers (`internal/provider`) | the tool's files, read-only | `SessionFreshness`, `Export`, `ExportIncremental` | the tool writes while it is read |
| Store (`internal/storage/sqlite`) | about 35 tables | one statement or transaction per call | whole-row upserts next to single-column updates; caches invalidated by writers; migrations outside a transaction |
| Mock store (`internal/testutil`) | maps | the store's interface | every service test runs on it instead of SQLite |
| Retention (`service/session_retention.go`, `session/retention.go`) | `retention_tier`, `compacted_at`, `last_accessed_at`, the payload | `CompactIdleSessions`, `archiveColdSessions` | list, load and write are apart, and destroy data |
| Garbage collection (`service/session_gc.go`) | rows | `GarbageCollect` | deletes by a list read earlier |
| LLM queue (`internal/llmqueue`) | a channel, a semaphore, counters | `Submit`, `Drain`, `Stop`, `worker`, `Analyze` | shutdown against running workers and waiting callers |
| Team sharing (`internal/gitsync`, `git/client.go`, `service/sync.go`) | an orphan branch per clone, the branch at `origin`, a temporary index | `Push`, `Pull`, `Sync` | no merge, ignored errors, a shared index file, several machines |
| Scheduler (`internal/scheduler/scheduler.go`) | results under a mutex | `runTask`, `WarmUp`, `Start`, `Stop` | overlapping runs; `Stop` and the mutex |
| Scheduled tasks (`internal/scheduler/*_task.go`) | the store | 20 tasks | each may overlap with itself |
| Stall detector (`internal/stalldetector`, its task and store) | `session_stalls` | `Detect`, `UpsertStall`, `ListLiveStalls`, `SealStall` | a moving source, partial failure, overlapping runs |
| Daemon (`pkg/cmd/servecmd/serve.go`) | PID file, HTTP server | start, `daemonize`, `stopDaemon`, shutdown sequence | order of shutdown; several daemons |
| Notifications, webhooks (`internal/notification`, `internal/webhooks`) | `seen` times per dedup key | `ShouldSend`, `Notify`, `NotifySync` | recorded before delivered; keys too coarse |
| Session events (`internal/sessionevent`) | events, hourly and daily buckets | extract, aggregate, summarise | recomputed at every capture, in several statements |
| Token usage, forks (`service/session_usage.go`, `session/forkdetect.go`) | buckets, fork relations | full and incremental computation, detection | sessions grow and rewind while they are compared |
| Analysis (`internal/analysis`, `service/analysis.go`) | `session_analyses` | `Analyze`, daily task, after a capture, by hand | check-then-analyse; rows of older content |
| Recommendations (`service`, `storage/sqlite/recommendation_store.go`) | `recommendations` | generate, expire, dismiss, snooze | users and the nightly task write the same row; times compared as texts |
| Search (`internal/search`, `service/session_search.go`) | engine indices | `Index`, `Search`, facets, the fallback chain, `List` | an index behind the store; filters, limits and pages in one order |
| Reports (`service/session_stats.go` and its neighbours) | `session_analytics` | statistics, trends, costs, forecasts, backfills | rows written beside the sessions, by writers that compute them differently |
| Replay (`internal/replay`), skill resolver (`internal/skillresolver`) | worktrees, skill files | run, capture, compare, clean up; propose, apply, validate | failure between steps; whose conversation was captured |
| Restore (`internal/restore`, `session/validate.go`) | none | filters, `Validate`, rewind | what a filter leaves must be a conversation a model takes |
| Ingest (`internal/ingest`, `service/session_ingest.go`) | sessions, links | `Convert`, `Ingest`, delegation links | two clients, any order, two-sided rows |
| Settings (`internal/config`) | two JSON files | load, merge, `Set`, `Save`, the settings page | every process saves the whole of what it loaded |
| Front-ends (`pkg/cmd`, `internal/mcp`, `internal/api`, `client`) | none | some 40 operations by three ways | options that are dropped on the way; an answer that comes too late |
| Web pages (`internal/web`) | `stats_cache` | pages of sums, of sessions, files and branches | several pages that count the same; paging while a session grows |
| Authentication (`internal/auth`) | users, API keys, token file | register, login, bootstrap | - |
| Pricing, diagnostics, secrets, error classes, platform | none | look-ups, text patterns, calls of programs | - |

What makes each component correct:

- **Capture**: a session that is skipped as unchanged is stored completely; the
  stored messages are the tool's, in order, none twice; when the tool stops, the
  store catches up.
- **Retention**: a session marked hot has lost nothing; tier and compaction mark
  agree; no payload mixes two listings of a session's messages.
- **Queue**: every accepted job has one owner and one end; callers are answered
  while the daemon is up; a shutdown terminates.
- **Sharing**: what was shared stays shared; the index lists only what can be
  read; every session gets to every colleague.
- **Scheduler**: runs are recorded; after `Stop` nothing runs; `Stop` returns.
- **Stall ledger**: a sealed tool is over, what is over is sealed, what is stuck
  is found, and the numbers of a row agree.
- **Daemon, alerts, recommendations**: the PID file is there as long as its daemon;
  an alarm that lasts is told once per cooldown; what a user has put away stays away.
- **Derived data**: buckets, caches, forks and reports say what the sessions say,
  however often and by whomever they were computed; two reports of one thing agree.
- **Store**: an opened store has its tables, whoever died or raced on the way; a
  session at rest has its type and its links; the mock store answers as SQLite does.
- **Front-ends**: what is asked for, with all its options, is what is done, in the
  store it was meant for, and what the user is told is so.
- **Search and pages**: nothing twice, nothing left out, counts that lead to what
  they count.
- **Replay, restore, ingest, settings**: no worktree is left behind, a mended
  conversation is one, nothing sent is lost, and what was saved is what is loaded.

## 2. Modules

Detailed modules with runs of their own:

| Module | Models | Used by |
|---|---|---|
| `SessionStore` | a row of `sessions`; `Save`, `UpdateSessionRetention`, `TouchSessionAccessed`, the candidate queries, the window of `ApplyWindowRetention` | `SessionCapture` |
| `SessionCapture` | the tool, any number of capturers, a retention run, readers, deletion | `MCSessionCapture` or run directly; `SessionCaptureProofs` |
| `LLMQueue` | channel, workers, `Analyze` callers, shutdown | run directly; `LLMQueueProofs` |
| `TeamShare` | the abstract promise of push, pull and sync | `GitSync` (as `Team`) |
| `GitSync` | the branch, the remote and each git command of push, pull and sync | `MCGitSync`, `GitSyncProofs` |
| `Scheduler` | cron's goroutines, the warm-up, the mutex, `Stop` | `MCScheduler`, `OperationsProofs` |
| `StallLedger` | OpenCode's tools and messages, runs of the task, `session_stalls` | `MCServices` or run directly; `ServicesProofs` |

Modules that share a run. `MCServices` and `MCRecords` choose one setup at the start and
leave the variables of the others alone, so that each module is explored as it would be on
its own. Proofs about them are in `ServicesProofs` (all of `MCServices`), `RecordsProofs`
(`SessionRecord`, `WebCache`, `Analysis`, `Frontends`, `Settings`, `PullRequests` and the
facets of `Search`), `OperationsProofs` (`Replay`, `Ingest`, `Migrations`, beside
`Scheduler`), `SessionEventsProofs` and the end of `TokenUsage`:

| Module | Models | Setup |
|---|---|---|
| `Alerts` | the tasks that raise alerts, dedup, routing, delivery with retries | services: alerts |
| `Recommendations` | the nightly task, the users of a page, ages and texts of times | services: recommend |
| `Daemon` | `daemonize`, the child, `Listen`, signals, the PID file, `stopDaemon`, crashes | services: daemon |
| `SessionRecord` | a session's row, payload, links and tags under all their writers | records: record |
| `TokenUsage` | token buckets, from scratch and incrementally | records: usage |
| `Forks` | fork detection while sessions grow, rewind and are deleted | records: fork |
| `Migrations` | opening the store: schema and every migration, with crashes, and by two processes | records: migrate, race |
| `PullRequests` | `pr_sync` of one or of all repositories and the links it stores | records: pulls |
| `SessionEvents` | extraction, replacement of events, hourly and daily buckets, summaries | records: events |
| `WebCache` | `stats_cache` entries against captures, deletions and other requests | records: cache |
| `Conversation` | `Validate`, the orphan fixer, the error cleaner, rewinding | records: conversation |
| `Transcript` | compactions, cascades and phases of a growing transcript | records: transcript |
| `Frontends` | a process in front of the services and a server it may find; uses `Commands` (the command line), `McpTools` (MCP), `RemoteService` (the client and the wire), `ApiServer` (the handlers) | records: front |
| `Tables` | the store as a value: each operation a function from tables to tables | `MockStore` |
| `MockStore` | the tests' store, run beside `Tables` on the same calls | records: mock |
| `Settings` | one setting from `Set` to the next process that reads it, over all keys | records: settings |
| `Search` | documents, indexing, the chain, pages, facets, `List` | records: search |
| `Reports` | `session_analytics`, its writers, and every report made of it | records: reports |
| `Pages` | the pages of sums, as functions of the reports they ask for; EXTENDS `Reports` | records: reports |
| `SessionPages` | the pages of one session, of branches, pull requests and files | records: shown |
| `Analysis` | analyses by page, command, capture and the daily task | records: analysis (pages), captures (captures, command) |
| `Replay` | a replay step by step, and the skill resolver around it | records: replay |
| `Ingest` | conversion of sent conversations, upsert, delegation links | records: ingest |

### SessionStore and SessionCapture

One session; rows of different sessions never meet. `timeline[t]` is what the
tool's database held at instant `t`, so a property can speak of the past; `now`
is its length. A message is an identity and a revision, since OpenCode creates a
message and streams its parts afterwards. Each SQL query is an action (of OpenCode's
database reader; its older file storage is not modelled):

- `CountSource`, `StampSource` are the two queries of `SessionFreshness`;
  `Skip`/`ChooseExport` compare them with the row (`GetFreshness`);
- `ReadOffset`, `CheckOffset`, `ReadIncrementalStamp`, `ReadTail`, `ReadTailParts`, `Merge`
  are the incremental path, each falling back to the full export where the code does;
- `ExportBegin`, `ListMessages`, `ReadParts` are OpenCode's full export: the stamp, the list
  of messages and their parts, without a transaction around them (`StampFirst`). A
  message has no parts (`Listed`) until they are read, and none if the tool has removed it
  since (`WithParts`). For Claude Code the messages come first, from one file, and
  `ReadStampLast` is the stamp that captureOne's safety net fills in;
- `ReadFails` is a query whose error the code passes over: what cannot be compared is
  captured, an incremental export becomes a full one, parts are read message by message
  (`ReadPart`), where an error reads as "no parts"; `Abort` is one whose error is returned;
- `SaveSession` is the upsert of the whole row;
- `ListWarm`, `GetWarm`, `PutWarm`, `ListCold`, `GetCold`, `PutCold` are one run of
  `CompactIdleSessions`, with `Windows` for what the window may leave;
- `Touch`, `Delete`, `Abort` are readers, deletions, and captures that die, fail or are
  blocked by the secret scanner.

External: the tool itself (`AppendMessage`, `ReviseLast`, `Rewind`, `Tick`). It is
assumed to bump its updated-at stamp with every write of a session.

### LLMQueue

`jobs` is the Go channel. `wpc` follows a worker statement by statement through
`worker`, including the gap between the dequeue and `running.Add(1)`. A job is an
`Analyze` call: its goroutine submits and then waits for its result or for its
context. `BeginDrain` to `Joined` are `Drain` followed by `Stop`, as `serve` calls
them. `accepted` and `fate` are history variables.

### TeamShare and GitSync

A commit is a tree and its author, and a branch is the sequence of its commits,
for nothing ever merges; fast-forward is `IsPrefix`. Equal commits are the same
commit, as they are for git. A push is a step per git command: list, read the
index, read the parent and load its tree in the temporary index, add files, write
the tree, set the ref, remove the index, push. Any of them may fail (the actions in
`...Fails`, `Crash`), and then the code stops, goes on with less, or - where it looks for
the branch and its index - takes the failure for an absence; `misread` remembers that a
push did. A push that fails may have moved the remote. The processes of one machine share
its branch and its temporary index. `TeamShare` knows stores and a set of
shared sessions only; `GitSync` implements it with `shared` mapped to what the
remote's index lists.

### Scheduler

A goroutine of cron is a member of `CronRuns`, the warm-up is one more. `runTask`
is begin, task returns, take the mutex, record; `Stop` takes the mutex, stops
cron and waits for cron's goroutines with the mutex held. `starts` counts begun
runs and serves as the clock: `results[t]` is the begin of the recorded run.

### StallLedger

A key is a row's `(provider_session_id, started_at, root_cause)`. Tools start and
finish, messages fail and get a completion time with the error, later or never.
A run scans tools, scans messages, upserts row by row, lists live rows and seals
them one by one; any statement may fail, and then the run goes on where the code
does.

### Tables and MockStore

`Tables` has an operator per store method: what it returns for given tables, and the
tables after it. Other modules model a store method where they need its timing;
`Tables` models what it does. `MockStore` runs one script of calls on both stores;
`StandsIn` says that the answers agree, `TablesAgree` that what one query finds in
SQLite's tables is what the others find. The calls on which the two stores are known
to differ are left out of the script and listed in section 3.

### Frontends

A front-end begins an operation with a choice of options. `Commands` and `McpTools`
say how it is done: in the process, or sent with what `RemoteService` makes of
the options. `ApiServer` says what a handler makes of a request. Requests are
lost, arrive, are done after the client gave up (30 seconds against 180), and the
server stops and starts; the factory decides once per process where its sessions
are. `done` and `told` are histories: what was really executed, and what the user
read.

### Reports and Pages

`Reports` has the sessions, their rows in `session_analytics` and the writers of
both: capture, the analytics backfill, the cost backfill, a new version with a new
schema. Reports are operators over that state, and each that can be computed from
either place is modelled both ways. `Pages` composes them as the handlers do.

### SessionPages, Search, Settings

`SessionPages` has sessions with files, parents, delegations, forks and commits, and a
reader who asks for more of a page while they change. `Search` has the table and the
documents of an engine that may be down when it is told of a capture. `Settings`
treats one key at a time, since nothing relates two: `Kind` says how each key is
read, defaulted, validated and shown, and two processes load and save around it.

### Analysis, Replay, Ingest

Each follows its code statement by statement where others may come in between: an
analysis from the load to its row, with the daily task's list of candidates read
before; a replay from the load to the removal of the worktree, with the agent's
conversations as external actors; two clients whose requests arrive again, late or
cut short.

### Alerts, Daemon, Recommendations, and the small modules

Times are ages, so that the state space is finite though time goes on. `Daemon` has
three processes that may each be started, signalled or killed at any statement.
`SessionRecord`, `SessionEvents`, `TokenUsage`, `Forks`, `Migrations`, `PullRequests` and
`WebCache` have an action per SQL statement, and processes that die between two.
`Conversation` and `Transcript` are pure: their states are all short inputs, and the
operators of the code are checked against what they promise.

## 3. Runs

Passing runs. `CHECK_DEADLOCK FALSE` is set where the system really stops: a queue
whose calls have all been answered, a stopped scheduler, a bound that is used up.

| Run | Configuration | Checks |
|---|---|---|
| `capture_append` | two setups: 2 capturers, full exports, stamp read last, 4 instants; and 1 capturer, incremental, 5 instants; append-only tool, 1 crash, failing query or deletion, fair | `InOrder`, `SkipIsSound`, `Settles` |
| `capture_retention` | 1 capturer, full exports, streaming and rewinding tool, retention, readers, 4 instants, 1 crash, failing query or deletion, fair | `TypeOK`, `HotIsComplete`, `OfOneListing`, `TierMatchesMark`, `Settles` |
| `queue_pool` | 3 calls, 2 workers, channel of 2, shutdown, fair | `TypeOK`, `Exclusive`, `NothingLost`, `Accounted`, `FIFO`, `Answered`, `StopReturns` |
| `git_share` | two setups: 2 machines that push, pull and sync with and without remote, 2 sessions, 1 crash or failing command; and one that syncs while another pulls, no fault, fair | `TypeOK`, `AckedIsShared`, `IndexHasFiles`, `SharesAsPromised`, `AppendOnly`, `DeliveredToReaders` |
| `scheduler_fair` | 2 tasks, 2 goroutines of cron, warm-up of both, `Stop`, 4 starts, fair | `TypeOK`, `Quiet`, `Recorded` |
| `services` | the four setups of `MCServices`, each with its own fairness | `ServicesTypeOK`, `FileMeansDaemon`, `StallsRight`, `Spaced`, `UserDecides`, `TellsFirst`, `WakesUp`, `StallsAreFound`, `OverIsSealed` |
| `records` | the 20 setups of `MCRecords` | `RecordsTypeOK`, `DerivedIsRight`, `NothingIsMissing`, `Classified`, `ReadRight`, `DoneAsAsked`, `NothingTakenBack` |

What the properties of `capture_retention` and `git_share` say where something fails:

- `HotIsComplete`, `SkipIsSound`, `Settles` speak of all messages, and of their parts but for
  those a failed query did not give: the code stores the message without them and
  does not come back (section "What does not hold").
- `OfOneListing`: what is stored is a selection, in order, of what one listing of the
  tool's messages gave, each with the parts of then or later. That it is of one instant
  does not hold: a tool that goes on between the two queries is stored as the list of one
  instant with the parts of another.
- `AppendOnly`, `AckedIsShared`, `SharesAsPromised` hold for as long as no push has taken a
  failed read for a missing branch or index; `IndexHasFiles` holds whatever fails.

What the properties of `services` say:

- `FileMeansDaemon`: with one daemon at a time the PID file is there as long as its
  daemon serves, whoever was killed on the way.
- `Spaced`, `TellsFirst`: two alerts of one type and project are a cooldown apart; an
  alarm that lasts reaches every channel.
- `UserDecides`, `WakesUp`: no generation brings back what a user dismissed or snoozed, and
  what was snoozed wakes up.
- `StallsRight`, `StallsAreFound`, `OverIsSealed`: see the stall ledger in section 1.

What the properties of `records` are made of, by module:

- `DerivedIsRight`: `QuietExact` (event buckets count the events when nobody works),
  `FullIsRight` (token buckets likewise, forks left out), `NothingUncounted` (a message
  forks share is counted, unless a rewound session was compared by its content),
  `ServedWasTrue` (no page shows what has not been true for longer than an entry may live),
  `TwoWaysAgree`, `CountedAlike`, `CostsAddUp`, `PeriodsAdjoin`, `SkillsSplit` (reports
  agree with each other and with the sessions), `PagesRight` (pages lead where they say,
  budgets, heat map, team and agents add up).
- `NothingIsMissing`: `Usable` (an opened store has its tables and columns, whoever died
  or raced on the way).
- `Classified`: a stored session nobody works on has its type and its tickets' links,
  unless a capture was killed in its hook or a statement of the hook failed, which is
  logged and passed over.
- `ReadRight`: `FixMends` (what `Validate` still reports after a fix are calls named in
  content blocks only), `FixesOnlyOrphans`; `Segmented` (compactions are drops, phases cover
  the transcript); `StandsIn`, `TablesAgree`; `SavedIsRead`, `ShownIsSame`; `FoundIsAsked`,
  `PagesAreWhole`, `FacetsLead`, `ListIsSearch`; `SessionPagesRight` (paging while a session
  grows, graphs, timelines, file trees, blame); `ResultsInPlace`, `NothingDropped`.
- `DoneAsAsked`: `AsAsked` (what is executed is what was asked, options included),
  `AnswerIsTrue`, `NoSplit` (one process does not use two stores); `AnalysesRight` (the
  daily task analyses once, but for a session whose rows it could not look for; what is
  shown is a whole and last analysis); `ReplaysRight` (`NoTreeLeft`, but for a directory
  that cannot be removed, `CapturesItsOwn`, `LinkedBothWays`, `VerdictFollowsErrors`,
  `FixIsThere`, `ValidatedAfterFix`); `DelegationsRight` (`LinksArePaired`,
  `BothTellIsLinked`: of requests whose `LinkSessions` did not fail).
- `NothingTakenBack`: a longer transcript keeps all compactions but the last.

Each of these aggregated properties has mutants of several of its modules.

Runs that show where the code does not do what its docs, comments or tests say;
each is listed as a finding with the quoted line.

| Run | What happens |
|---|---|
| `capture_streaming` | capture 1 stores a message half streamed; the rest arrives together with the next message; capture 2 fetches the next message only, and the session looks unchanged from then on |
| `git_diverged` | the first `sync` on a clone creates a second root commit; fetches fail for ever |
| `git_unread` | a push's `rev-parse` of the branch fails, the push takes the branch for missing and sets it to an empty root commit: what it listed is gone |
| `scheduler_stop` | `Stop` and a running task wait for each other |
| `stall_overlap` | a run with an old scan seals the fresh row of a running tool |

### What does not hold

Behaviours met while modelling that stronger properties would refute. They are the
reason why a property above is stated as it is, or why a constant has the value it
has. Those with a name in brackets are definitions of the modules that no run
checks: adding one to a run shows the behaviour.

**Capture and retention.** With `Rewinds` the incremental export appends to messages that
were removed (`opencode.go:355` compares counts only). With two incremental
capturers the same tail is merged twice. With incremental captures and `Retention`,
a merge between the compaction and the next offset makes `message_count` too small,
and stored messages are stored again: `InOrder` fails in both cases. A session
listed as idle may be captured or read before it is compacted
(`session_retention.go:109` looks at the tier again, not at the idle time). A link may
be added twice and a tag overwritten by captures next to users
(`SessionRecord!LinksOnce`, `TagKept`). `CaptureByID` saves no child sessions,
`CaptureAll` ignores errors of `Save`. A query for parts that fails leaves messages without
their text and tools (`opencode.go:209` drops the error, `:388` logs it), stored under a
fresh stamp: the session is skipped as unchanged from then on.

**Queue.** `Stop` cancels before it closes, so queued jobs are dropped and a caller
without a deadline is not answered (`queue.go:121` says it waits for all pending
jobs); `Drain` may look between a dequeue and the counter; `Priority` is not read.
`serve` starts and stops a queue nobody submits to: `NewQueuedAnalyzer` is only used
in its package.

**Sharing.** A push whose upload fails is not retried while there is nothing new; two pushes
on one clone build on the same parent and one commit is lost (`Procs` with two processes on
a machine violates `AppendOnly`). A `rev-parse` that fails for any reason reads as "no
branch" (`client.go:257`), and the branch, whose old value nobody compares, becomes an empty
root commit (`client.go:284`); what the machine holds it lists again with the same push, but
what it has not imported is gone from the branch, and the branch no longer follows the
remote's. An unreadable index counts as an empty one (`client.go:297`, `service.go:82`):
what the branch lists and the machine does not hold, after a pull that died between fetch
and import, is no longer listed. This is run `git_unread`. A pull whose reads fail imports
nothing or less, without an error, and the next one makes up for it.

**Scheduler and stalls.** `Stop` does not wait for the warm-up, and of two overlapping
runs of a task the older may be the one whose result stays. An errored message
without an end makes a live row, which the same task seals (`detector.go:84-85`
says its end is set).

**Alerts.** The dedup key has neither severity nor period: a daily budget alert next to
a monthly one of the same project is not told (`Alerts!TellsAll`), nor is a warning that
becomes "exceeded" within the cooldown. `serve.go:754-760` never sets `AlertConfig.Stalls`. A
bot's answer `{"ok":false}` counts as delivered. The error-spike task sees 500 errors
at most.

**Daemon.** A second daemon started at the same time removes the first one's PID file
when it fails or exits, and then nothing stops the first (`Daemon!StopFindsDaemon`); a
zombie child counts as alive (`serve.go:267`); a signal before `signal.Notify` kills
without clean-up.

**Recommendations.** An expired one is not brought back when its cause lasts or
returns, for the upsert updates active rows only (`Recommendations!Regenerated`). A
row that is dismissed or expires keeps its `snoozed_until`; nothing reads it there. Ages are
compared as texts of two zones: the run has one ahead of UTC, the theorem any.

**Derived data.** Incremental token buckets miss forks found later and messages of hours
already computed (`TokenUsage!IncrementalIsRight`). A computation goes on without the
sessions or forks it cannot read and without rows it cannot write (`session_usage.go:36`,
`:116`, `:296`), and two may run at once, which `TokenUsage` leaves out: it has one at a
time. Fork relations outlive deleted originals, whose messages are then counted nowhere
(`Forks!NeverUncounted`). So are those of a rewound session and its original when the
relation of the two could once not be read or saved (`session_backfill.go:244`, `:265`):
compared by content the shorter is the original, the next detection that succeeds adds the
opposite relation, and each is the other's fork. An offset from UTC breaks the event
windows, since times are stored local and compared with bounds in UTC (`SessionEvents` with
`Offset <- 1`). A crash in the middle of a migration may leave an index or a fill-in undone
for ever (`Migrations!Whole`, `sqlite.go:3489`); a crash and a race together leave a store
that does not open. A session whose branch changes keeps the old branch's pull requests
(`PullRequests!LinkedByBranch`). Compactions are merged into one though the context
recovered in between, against `compaction.go:191-192` (`Transcript!NoRecovery`). The rewind
`Validate` suggests does not always leave a valid conversation (`Conversation!RewindMends`),
and reused tool ids defeat the fixer (`Reuse <- TRUE`). A call that is named in a content
block only is reported by `Validate` (`validate.go:218-232`, tested in
`validate_test.go:296-328`) and found by the fixer, which changes tool calls only: the
conversation stays invalid, though `orphan_tool_fixer.go:89-91` says content blocks "don't
need separate fixing". No provider writes such blocks; ingested and imported sessions may
have them. A ticket link or type whose statement fails is missing until the session is
classified again (`session_classifier.go:47-52`, `:82`).

**Front-ends.** Over a server, `restore --dry-run` restores (`session_restore.go:30`), a
capture by id captures the newest session (`mcp/tools.go:60`), retention and tag commands
fail, links' client paths are not served, and list, search, statistics and blame drop
filters. `resume --dry-run` checks out (`resumecmd.go:101`); `validate --fix` with `--json` or
`--quiet` never fixes; MCP's fix rewinds a valid session, and its blame ignores `file`
next to `files`. Analyses are the server's only if sessions were asked for first
(`default.go:682-697`). `config set --global` is ignored.

**Store against mock.** On a missing session the mock deletes, links and tags without an
error. It keeps tags, links and analytics of deleted sessions, returns the last
saved for `GetLatestByBranch`, counts saves for `CountByBranch`, only counts in
`DeleteOlderThan`, ignores most of List's filters, links one way and finds links both
ways, and lets updates of type and summary show in `Get`. Most of its other methods do
nothing.
In SQLite itself `UpsertStall` returns a wrong id after a conflict, `DeleteSessionLink`
removes one row of the pair, `session_forks`, `session_objectives` and
`session_stalls` have no foreign key, and two captures by one new address leave
sessions of an unknown owner (`service/session.go:160-203`).

**Settings.** A number of keys are saved and never read back, so the next save erases
them: `llm` profiles and providers, `tagging`, `server.auth`, `webhooks`, the
Elasticsearch and Postgres search settings and others (`config.go:653-934`, against
`docs/integration-guide.md:53-54`). A flag missing in the repository's file turns the
global one off. Emptied values come back from the global file. Two processes that
save overwrite each other's keys, and a crash inside `os.WriteFile` leaves a file no
process starts with. Several keys the docs and the setup wizard name are not known.

**Search.** Nothing is ever removed from the engine's index; updates of type or summary do
not reach it. Owner and status filters are dropped with an engine, remote, category, time
and errors with fts5; tags are applied after the page; fts5 ranks a pool of `max(offset +
limit, 50)` again for each page, so pages may repeat or lose results
(`fts5/engine.go:190-191`).

**Reports and pages.** The analytics backfill writes rows without costs
(`analytics_backfill_task.go:96`), though its comment says it mirrors `stampAnalytics`; the
cost backfill updates the other place only. Statistics leave sessions without a row out as
soon as one has a row. A project's dashboard shows forecast and trends of all projects; a
budget without a remote matches any without one. The branch page's tree has all sessions of
all branches (`web/handlers.go:2401`, `sqlite.go:620`). A file's badge counts sessions its
list does not find, since the list looks for absolute paths and `Save` stores relative ones
(`sqlite.go:298`). Looking at a branch page adds commit links. More exchanges of a page
repeat the parent's messages.

**Analysis.** A failing analyzer leaves no row, against `web/handlers.go:5505`; a row may be
of older content than the one it hides; a session whose analysis failed as a row is never
tried again by the daily task; daily runs that overlap, one and a capture, or one whose
`GetLatestAnalysis` fails (`analyze_task.go:93`), analyse twice. Modules that do not exist
give an empty row with score 0.

**Replay.** A directory that cannot be removed stays, with or without its registration
(`worktree.go:73`, logged at `engine.go:103`). The agent starts a conversation for each
message, so what is compared with the whole original is the last one only. The original is
also marked as a replay of its replay. A skill file is rebuilt from name, description and
body: other frontmatter is lost, and of a batch's improvements a later one may take back an
earlier that counts as applied (`skillresolver/domain.go:22`).

**Ingest.** Tool results without a name are dropped (`converter.go:123`); a delegation told
by one side only, before the other session is stored, is never linked, nor is one whose
`LinkSessions` fails (`session_ingest.go:214`, `:238`) until it is sent again; a late older
request overwrites a newer one; a session may be delegated from itself.

### Bounds

`MaxTime`, `MaxStarts` and `MaxFaults` bound clock, starts and faults. They are
enough for the interesting cases to occur, as the violation runs show at the same
or similar bounds: 4 instants hold a capture, a change during it, and a second
capture that decides by what the first stored; a queue of 2 with 3 calls and 2
workers has a full channel, a waiting job and two running ones; 2 sessions and 2
machines give every order of two pushes; 2 goroutines of cron and a warm-up overlap
in every way two runs of a task can.

In `services`, three daemons allow one to be started while another stops and a third is
asked to stop them; ages reach past the longest limit they are compared with; one fault of
each kind comes at any place. In `records`, two sessions and two or three instants give
every relation two sessions can have to an hour, a day, a fork or a filter; the captured
rows of reports are chosen so that each column a report tells apart has two values;
conversations have up to 4 messages, one more than the longest pattern the fixer looks for,
and transcripts up to 7, so that two compactions may be more than the 3 messages apart
within which they are one cascade; analyses run beside the daily task one at a time, those
of a page in one setup, those of captures and of the command, over sessions that grow, in
another; two calls of a front-end are enough for the first to
decide where the second goes; 4 calls on the stores hold a session saved, related, changed
and asked for; three edits of a page's sessions, three of a report's; a replay of up to
three messages and one fault; two clients with three turns each at most.

Every property is also checked against mutants of the code it is about
(`PROJECT.json`, "mutants"), defined next to the original and never used by the
model.

No run uses symmetry: the sets are small, and most runs check liveness.

### Fairness

- Capture: `WF(Capture(c))` for each capturer: `capture_all` runs at every tick of
  cron and its statements go on; nothing obliges the tool, readers or deletion.
- Queue: `WF` of each worker, of `Answer` and of the shutdown's steps: goroutines
  that can run do, and model calls time out. No fairness of `Submit` or `GiveUp`.
- Sharing: `WF` of each process, which calls its operations again and again.
- Scheduler: tasks return (30-minute timeout); `SF` of taking the mutex, since
  `sync.Mutex` hands itself to a starving waiter; the signal need not come.
- Stall ledger: `WF` of each run of the task.
- Alerts: `WF` of time, of each task's runs (cron) and of each delivery's goroutine,
  whose HTTP calls time out. Faults are bounded.
- Recommendations: `WF` of time and of the expiry; `SF` of the statements of the nightly
  task, which comes back every night and is only disabled while another of its
  statements runs. No fairness of users.

## 4. Proofs

Every theorem holds for all values of the constants that satisfy the modules' named
assumptions. What else a theorem assumes is its ASSUME, and each such hypothesis is
there because the statement is false without it; the last column says what breaks.

| Module | Theorem | States | Assumes | Since otherwise |
|---|---|---|---|---|
| `SessionCaptureProofs` | `TypeCorrect` | `TypeOK` | | |
| | `TierAndMarkAgree` | `TierMatchesMark` | | |
| | `HotComplete` | `HotIsComplete` | `FullExports`: `~Incremental`, `StampFirst` | incremental captures skip late parts (`capture_streaming`) |
| | `SkipSound` | `SkipIsSound` | `FullExports`, `~Retention` | retention takes payload away and leaves the stamp |
| | `StoredFromOneListing` | `OfOneListing` | `~Incremental` | a tail is of a later listing than what it is added to |
| | `IncrementalInOrder` | `InOrder` | `AppendOnly`: one capturer, `~Rewinds`, `~Retention` | a tail is merged twice, or to what was removed |
| | `IncrementalSkipSound` | `SkipIsSound` | `AppendOnly`, `~Streams` | `capture_streaming` |
| `LLMQueueProofs` | `QueueTypeCorrect`, `JobsExclusive`, `NoJobLost` | `TypeOK`, `Exclusive`, `NothingLost` | | |
| | `MetricsAccountForJobs`, `JobsEndInOrder` | `Accounted`, `FIFO` | | |
| `GitSyncProofs` | `GitTypeCorrect` | `TypeOK` | | |
| | `IndexedFilesExist` | `IndexHasFiles` | `OneProcess`: one process to a machine | pushes on one clone share its temporary index |
| | `BranchesOnlyGrow`, `AckedStaysShared` | `AppendOnly`, `AckedIsShared` | `OneProcess` | two pushes on one clone lose a commit |
| | `GitSharesAsPromised` | `SharesAsPromised`, the refinement of `TeamShare` until a failed read is taken for an absence (`git_unread`) | `OneProcess` | likewise |
| `OperationsProofs` | `SchedulerTypeCorrect`, `StopsQuietly` | `TypeOK`, `Quiet` | | |
| | `StopWaitsForEver` | once `Stop` waits and a goroutine of cron is at work, no step ends either | | |
| | `ReplaysKeepToThemselves` | all of `ReplaysRight` but `FixIsThere` | | |
| | `DelegationsAreLinked` | `Ingest!DelegationsRight` | | |
| | `OpenedIsUsable` | `MigTypeOK`, `Usable` | `OneAtATime`: nobody dies, or one process opens the store | see below |
| `ServicesProofs` | `AlertsAreSpaced` | `Spaced` | | |
| | `UsersDecide` | `UserDecides` | | |
| | `PidFileIsTheDaemons` | `FileMeansDaemon` | `OneAtATime` | two daemons remove each other's file |
| | `SealedStallsAreRight` | `StallsRight` | `OneRun` | `stall_overlap` |
| | `ServicesTypeCorrect` | `ServicesTypeOK`, from `AlertsTypeCorrect`, `RecTypeCorrect`, `LedgerTypeCorrect` and the daemon's | | |
| `RecordsProofs` | `SessionsAreClassified` | `Classified` | | |
| | `RecordTypeCorrect` | `RecordTypeOK` | | |
| | `ServedWasTrueLately` | `WebCache!ServedWasTrue` | `MaxAge`, `MaxCompute` are numbers | |
| | `AnswersAreTrue`, `ProcessesDoNotSplit` | `AnswerIsTrue`, `NoSplit` of `Frontends` | | |
| | `AnalysesTypeCorrect` | `AnalysisTypeOK` | | |
| | `AnalysesAreRight` | `AnalysesRight` | `OneDaily`: one daily run at a time | two that overlap analyse a session twice |
| | `SettingsComeBack` | `SettingsTypeOK`, `SavedIsRead`, `ShownIsSame` | | |
| | `LinksHaveTheirRows` | `PRTypeOK` | no branch is `NoBranch` | |
| | `CountsAreWhatIsFound` | `Search!FacetsLead` | no value is `None` | |
| `TokenUsage` | `ScratchMendsBuckets` | `FullIsRight` | | |
| `SessionEventsProofs` | `BucketsAreExact` | `QuietExact` | `Plain`: UTC, one remote, and the types of the constants | stored and compared times differ; a bucket has one row per remote |

Of run `records`, `ServedWasTrue`, `FullIsRight` and `QuietExact` are conjuncts of
`DerivedIsRight`; `SavedIsRead`, `ShownIsSame` and `FacetsLead` of `ReadRight`;
`ReplaysRight`, `DelegationsRight`, `AnswerIsTrue`, `NoSplit` and `AnalysesRight` of
`DoneAsAsked`; the types of `RecordsTypeOK`; and `NothingIsMissing` is `Usable` in the two
setups `OneAtATime` covers: one process that may die twice, and two of which none does. The
other statements are properties of runs by name.

The tables the code fixes - the commands, tools and handlers, the modules of an analysis,
the keys of the configuration, the statements of the migrations - are definitions, and
what the proofs need of them is stated as an assumption beside each (`FrontAssumption`,
`AnalysisAssumption`, `SettingsAssumption`, `MigrationsAssumption`; `ReplayAssumption` and
`IngestAssumption` say that the conversations are well-formed). They are facts of fixed
values, which TLC evaluates in run `records`, and which TLAPS would have to be led through
entry by entry; `MigrationsAssumption`, for one, says of some 80 statements which makes which
table and that every drop is followed by its create.

Each theorem rests on an inductive invariant, which TLC checked on the runs' instances
before it was proved:

- **Capture.** `HotInv` says of each stage what it knows: a hot row, or a draft about to be
  saved, has a stamp no newer than the source's, and is complete if the two are equal
  (`Snapshot`); a draft whose parts are still to be read has, under a stamp that is still
  the source's, the messages the source has (`Listing`); and parts are read one by one after a
  failure only. `HotIsComplete` alone is not inductive: a draft may be saved long after the
  source changed, and then its old stamp is what keeps the row from looking fresh.
  `MarkInv` and `InstantInv` follow a payload through everybody who carries one to the
  row: captures from the list on, where it is a selection of messages without parts
  (`Bare`), then with the parts of some instant since (`Coherent`), and retention between its
  get and its put. `InstantInv` needs `SourceOrdered`, that the tool numbers its messages
  upwards, and that instants are kept. `TailInv` says that the row begins like the source and
  that a capture's offset is the row's count, and that holds only while nobody else saves.
  With `WholeInv` (no message is ever revised, nothing has failed, and between the list and
  the parts the source still has what was listed) "begins like the source" and an equal
  count make them equal.
- **Queue.** `QueueInv` ties the place of a job (nowhere, channel, hand of a worker at a
  given statement) to its fate and to the caller's state. `HistoryInv` adds that the
  channel is the end of the sequence of accepted jobs and that none was accepted twice.
  `Accounted` speaks of cardinalities and is proved by what each step adds to which
  set; `FIFO` is not inductive by itself and follows from the suffix: what is before the
  channel has been taken.
- **Sharing.** `ShareInv`: every branch and the remote are `Complete` (the files of what
  they list are there) and, unless a failed read was taken for an absence, `Growing`; a
  local branch lists no more than its machine holds or the remote lists; and `OpInv(p)` says
  at each git command what the operation has read still holds, which is where `OneProcess`
  is needed. The refinement is proved step by step: the push at the remote is `TeamShare`'s
  share, an import its pull, and every other command a stutter.
- **Scheduler.** `StopInv` says who holds the mutex: `Stop` from `StopLock` on, a
  goroutine while it records, and that cron is off once `Stop` is past `StopCron`.
- **Alerts.** `SpacedInv`: the deduplicator's entry of a key is no older than its last
  alert, but for the time from an event to its notification.
- **Recommendations.** `RowsInv` is the rows' type; the work is in `DayFacts`, what a
  comparison of dates as texts says of the hours between them.
- **Daemon.** `DaemonInv` describes the time before the first failure: one child lives,
  whoever waits for it or stops it finds it in a state that fits, and PID file and port
  are its own.
- **Stall ledger.** The core of `LedgerInv` is what a run knows (`RunInv`): a stored
  tool that still runs is among what its scan found, so what it lists as open without
  having found it is over, whatever statements failed in between.
- **Records.** `OwedInv`: what a stored session lacks, some writer is still to write, namely
  the one that saved last, unless one was killed or a statement of it failed. `RecordInv`
  adds that who is to save carries the link of the branch, so that a stored session stays
  one. `AgeInv`: an entry's value has been untrue for no longer than the entry is old plus
  its computation.
- **Replay.** `ReplaysInv` gives each step of a replay what it has: a worktree from its
  making to its removal, no captured conversation before the run is over (`CapturedInv`),
  and what was said before a fix apart from what was said after it (`FixInv`). A link is
  as a replay made it that has been over with it since.
- **Ingest.** `DelegationsRight` is about two requests that are over; `TellInv` speaks of
  them on their way: a session that still counts is stored, and who has tried to link a
  pair, and did not fail, counts as having told it, so that the second of two finds both rows.
- **Front-ends.** `TruthInv` numbers the operations: a request on its way is the one waited
  for or one given up, and what was done was done under a number that is waited for,
  answered or given up. `FrontInv` adds that a command or tool is on one of two sides,
  and that a program is always at the server.
- **Analysis.** `JobInv` says of an analysis at work that the results it has are of the
  modules that have ended, and that all that was stored when it began is no newer than
  it; `DailyInv` that the session the daily task works on has no row of it yet, unless the
  look for one failed.
- **Settings.** `FatesInv` follows a value through the files: what a process has loaded is
  what its files still give, what it has saved is in the file it saved to, unless another
  process has written since, and then it is called old and nothing is claimed.
- **Migrations.** `LastingInv`: each table is there once everybody has passed the statement
  that makes it, for none is dropped for good; `BucketsInv` is about the one table that is
  dropped and made again: while something of it is missing, there is a process that does
  not fail at its next statement and has yet to add it. Such a process may die: with two
  processes and a crash, the one that has the store open is left without
  `token_usage_buckets` until somebody opens it again. TLC finds that history, and hence
  `OneAtATime`.
- **Buckets.** `MendingInv`: after a computation from scratch has read the sessions, a
  bucket is right or its right value is still to be upserted, unless a statement has failed
  or the computation died, and then nothing is claimed until the next. `BucketsInv`: while
  its one run goes on, a bucket is wrong only if an event of that run falls into its window,
  an hour's only until the hours have been replaced; a window's events are all read by the
  range query, which is where the text comparison and the zone come in (`RangeFacts`).

Only model-checked:

- all liveness (`Settles`, `Answered`, `StopReturns`, `Recorded`, `DeliveredToReaders`,
  `TellsFirst`, `WakesUp`, `StallsAreFound`, `OverIsSealed`), for TLAPS does not reason
  about fairness and ENABLED here;
- `RecordsTypeOK` as a whole: the types of setups record, analysis, settings, pulls, migrate
  and race are proved, and replay's with `ReplaysTidy`;
- `NothingUncounted` of `Forks`, the reports' and pages' conjuncts of `DerivedIsRight`,
  those of `ReadRight` about conversations, transcripts, ingested results, the mock store,
  pages, and the order and completeness of search results, and `NothingTakenBack`: they
  compute with sums or folds over sequences and sets, and what a fold computes for every
  input needs an induction over data that the provers cannot instantiate;
- of `DoneAsAsked`, `FixIsThere` (a fold over improvements) and `AsAsked`: what a request
  asks and what its handler does are compared option by option over the tables of commands,
  tools and handlers, which are built with `@@`, and the interleaving adds nothing to it.

## 5. Not modelled

Listed component by component in `PROJECT.json` with the reason. In short:

- calls of external programs - tools, agents, models, git hosting, Slack,
  Elasticsearch - appear as steps with any answer, or one that fails; what a model is
  asked and its answer is parsed from is text;
- text: parsing of the providers' files, secret patterns, diagnostics and security
  rules, error classes, ranking, templates, terminal views;
- formulas without state: fitness, overload, efficiency and waste scores, price
  catalogues, benchmarks;
- authentication beyond its tables: hashing and signing are libraries', and the
  middleware is one guard in front of every handler;
- loops that list, compute and update a column of their own (user and Slack
  back-fills, objectives, hot spots, the registry scan);
- which rows `KeepLatest` and `ApplyWindowRetention` pick: the first is one pass over a
  list, the second enters `SessionCapture` as the set of outcomes it may have.

## 6. Plan

Modelling has reached what pays, and so have the proofs of what several actors do to one
another. What could still be done:

1. the remaining types of `RecordsTypeOK`, of which none is in doubt;
2. the sums of `Reports` and the folds of `Forks` and `Transcript`, once induction over
   sequences can be instantiated: their properties are stated so that each is a lemma
   about one operator;
3. refinements: an abstract store of analyses and links that `Analysis`, `Ingest` and `Replay`
   implement together, as `GitSync` implements `TeamShare`.
