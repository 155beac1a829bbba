------------------------------ MODULE Commands ------------------------------
(***************************************************************************)
(* The commands of the command line (pkg/cmd) and the services they are    *)
(* made of.  A command has the ways it may run, and a way is the sequence  *)
(* of the operations it asks for, each of a service ("port") and with the  *)
(* options the command's flags and its surroundings may fill in; it ends   *)
(* at the first operation that fails, except where "on" lists what a       *)
(* command goes on after.  Texts, tables and prompts are left out.         *)
(*                                                                         *)
(* The port "session" is the session service the factory makes, on a       *)
(* server or in the process; every other port is the process's own.        *)
(***************************************************************************)
EXTENDS Sequences, FiniteSets, SequencesExt

Do(port, op, opts) == [port |-> port, op |-> op, opts |-> opts]

Ask(op, opts) == Do("session", op, opts)

Store(op) == Do("store", op, {})

Git(op) == Do("git", op, {})

Command(name, ways) == [name |-> name, ways |-> ways, on |-> {}]

\* Where a command finds the repository and the branch it is run in.
Here == <<Git("CurrentBranch"), Git("TopLevel")>>

-----------------------------------------------------------------------------
(* Capture, restore, import and export.                                    *)

\* All the sessions of one provider, or one session, or the newest.
runCapture ==
  LET opts == {"project_path", "branch", "mode", "provider", "message"} IN
  [Command("capture",
           {Here \o <<w>> : w \in {Ask("Capture", opts),
                                   Ask("CaptureByID", opts \cup {"session_id"})}}
             \cup {<<Git("TopLevel"), Ask("CaptureAll", opts \ {"branch"})>>})
     EXCEPT !.on = {"Capture"}]

RestoreOpts ==
  {"project_path", "branch", "session_id", "provider", "as_context", "dry_run", "filters"}

\* The branch's sessions, the ones of a pull request or of a file, to pick one from.
pickSession        == Ask("List", {"project_path", "branch"})
pickSessionForPR   == Store("GetSessionsForPR")
pickSessionForFile == Store("GetSessionsByFile")

runContextualPick == {pickSession, pickSessionForPR, pickSessionForFile}

runRestore ==
  LET restore == Ask("Restore", RestoreOpts \cup {"agent", "pr_number", "file_path",
                                                  "worktree"})
  IN Command("restore", {Here \o <<restore>>}
                          \cup {Here \o <<pick, restore>> : pick \in runContextualPick})

\* The branch is checked out whether or not it is a dry run.
runResume ==
  Command("resume", {<<Git("Checkout"), Git("TopLevel"), Ask("Restore", RestoreOpts)>>})

runImport ==
  Command("import", {<<Ask("Import", {"data", "source_format", "into_target"})>>,
                     <<Ask("ImportBundle", {"data", "source_format", "into_target"})>>})

\* What the providers have for each project is captured one session after the other.
runDiscover ==
  LET one == Ask("Capture", {"project_path", "branch", "mode", "provider"}) IN
  [Command("import", {<<Do("providers", "Detect", {}), one, one>>})
     EXCEPT !.on = {"Capture", "Detect"}]

runExport ==
  Command("export", {Here \o <<Ask("Export", {"session_id", "project_path", "branch",
                                              "format"})>>})

runExportAll ==
  Command("export", {Here \o <<Ask("ExportAll", {"project_path", "branch", "provider", "all",
                                                 "global"})>>})

-----------------------------------------------------------------------------
(* Looking at sessions.                                                    *)

runList ==
  Command("list",
    {Here \o <<Ask("List", {"project_path", "branch", "owner_id", "pr_number", "all",
       "global", "provider", "keyword", "session_type", "tags", "remote_url",
       "project_filter", "since", "until", "limit"})>>})

runListOffTopic ==
  Command("list", {Here \o <<Ask("DetectOffTopic", {"project_path", "branch"})>>})

\* The target, and then every session of the project in full.
runListSimilar ==
  [Command("list", {<<Git("TopLevel"), Ask("Get", {"id"}), Ask("List", {"project_path", "all"}),
                      Ask("Get", {"id"}), Ask("Get", {"id"})>>})
     EXCEPT !.on = {}]

runListTree ==
  Command("list", {Here \o <<Ask("ListTree", {"project_path", "branch", "all"})>>})

\* Costs, tools and blame come after the session if asked for, and may be missing.
runShow ==
  LET more == {Ask("EstimateCost", {"id"}), Ask("ToolUsage", {"id"}), Ask("Blame", {"file", "all"})}
  IN [Command("show", {<<Ask("Get", {"id"})>> \o m : m \in {<< >>} \cup {<<a>> : a \in more}})
        EXCEPT !.on = {a.op : a \in more}]

\* The session is the service's, its events and its trend are those of the own store.
attachTrend == Store("QueryAnalytics")

runInspect ==
  [Command("inspect", {<<Ask("Get", {"id"}), Store("GetSessionEvents"), attachTrend>>})
     EXCEPT !.on = {"GetSessionEvents", "QueryAnalytics"}]

runDiff == Command("diff", {<<Ask("Diff", {"left", "right"})>>})

runExplain == Command("explain", {<<Ask("Explain", {"session_id", "model", "short"})>>})

runBlame ==
  Command("blame", {<<Git("TopLevel"), Ask("Blame", {"file", "files", "project_path", "branch",
                                                     "provider", "all", "restore"})>>})

runItems == Command("items", {<<Git("TopLevel"), Ask("WorkItems", {"project_path", "kind",
                                                                   "source"})>>})

runItem == Command("item", {<<Ask("WorkItem", {"ref", "project_path", "source"})>>})

runToolUsage == Command("tool-usage", {<<Ask("ToolUsage", {"id"})>>})

runStats ==
  Command("stats", {<<Git("TopLevel"), Ask("Stats", {"project_path", "branch", "provider",
                                                     "owner_id", "all", "tools"})>>})

runForecast ==
  Command("stats", {<<Git("TopLevel"), Ask("Forecast", {"project_path", "branch", "period",
                                                        "days"})>>})

\* What is stored for the branch, by the own store.
runStatus ==
  [Command("status", {Here \o <<Store("GetLatestByBranch"), Store("CountByBranch")>>})
     EXCEPT !.on = {"GetLatestByBranch", "CountByBranch"}]

runEfficiency == Command("efficiency", {<<Ask("AnalyzeEfficiency", {"session_id", "model"})>>})

runDiagnose == Command("diagnose", {<<Ask("Diagnose", {"session_id", "deep", "model"})>>})

-----------------------------------------------------------------------------
(* Changing sessions.                                                      *)

runRewind == Command("rewind", {<<Ask("Rewind", {"session_id", "at_message"})>>})

\* With the fix, an invalid session is rewound; not if the answer is asked for
\* quietly or as JSON, whatever the flag says.
runValidate ==
  LET get == Ask("Get", {"id"}) IN
  Command("validate", {<<get>>, <<get, Ask("Rewind", {"session_id", "at_message"})>>})

\* At least one of the three is there.
runLink ==
  Command("link", {Here \o <<Ask("Link", {"session_id", "project_path", "branch", "pr_number",
                                          "commit_sha", "auto_detect"})>>})

runComment ==
  Command("comment", {Here \o <<Ask("Comment", {"session_id", "project_path", "branch",
                                                "pr_number"})>>})

\* The session of the directory the command runs in, if none is named.
resolveCurrentSession == <<Git("TopLevel"), Ask("ResolveCurrentSessionID", {"project_path"})>>

runTag ==
  LET change == {Ask("AddTags", {"id", "tags"}), Ask("RemoveTags", {"id", "tags"}),
                 Ask("GetSessionTags", {"id"})}
  IN Command("tag", {<<c>> : c \in change} \cup {resolveCurrentSession \o <<c>> : c \in change}
                      \cup {<<Ask("ListAllTags", {})>>})

runGC ==
  Command("gc", {<<Ask("GarbageCollect", {"older_than", "keep_latest", "dry_run"})>>})

\* Both are only the local service's: over a server they fail before they ask.
runCompact == Command("retention", {<<Ask("CompactIdleSessions", {"dry_run", "limit"})>>})

runRetentionStats == Command("retention", {<<Ask("RetentionStats", {})>>})

-----------------------------------------------------------------------------
(* Computing and backfilling.                                              *)

\* The buckets, then the classification of each project, then the index; the answer
\* as JSON ends after the buckets.
runUsageCompute ==
  LET buckets == Ask("ComputeTokenBuckets", {"granularity", "incremental"}) IN
  [Command("usage", {<<buckets>>,
                     <<buckets, Ask("ListProjects", {}), Ask("ClassifyProjectSessions", {}),
                       Ask("IndexAllSessions", {})>>})
     EXCEPT !.on = {"ListProjects", "ClassifyProjectSessions", "IndexAllSessions"}]

runBackfillRemoteURL == Command("backfill", {<<Ask("BackfillRemoteURLs", {})>>})
runBackfillForks     == Command("backfill", {<<Ask("DetectForksBatch", {})>>})
runBackfillFiles     == Command("backfill", {<<Ask("BackfillFileBlame", {})>>})
runNormalizePaths    == Command("backfill", {<<Ask("NormalizePaths", {"dry_run"})>>})

runAnalyze ==
  Command("analyze", {<<Do("analysis", "Analyze", {"id", "trigger", "error_threshold",
                                                   "min_tool_calls"})>>})

\* The session is read from the own store, replayed, and read again.
runReplay == Command("replay", {<<Store("Get"), Do("replay", "Replay", {"provider", "agent",
                                                     "model", "commit_sha", "max_messages"})>>})

buildResolver == Do("skills", "Resolve", {"skill_names", "dry_run"})

\* Suggesting is a dry run of fixing.
runSuggest == Command("skills", {<<buildResolver>>})
runFix     == Command("skills", {<<[buildResolver EXCEPT !.opts = {"skill_names"}]>>})

\* Fixes for good, and replays the session with the new skill.
runSkillsValidate ==
  Command("skills", {<<[buildResolver EXCEPT !.opts = {"skill_names"}], Store("Get"),
                       Do("replay", "Replay", {"provider", "agent", "model"})>>})

runSkillObserve ==
  Command("skill-observe", {<<Ask("Get", {"id"}), Do("registry", "ScanProject", {})>>})

runFresh  == Command("recommend", {<<Ask("GenerateRecommendations", {"project_path"})>>})

\* The statistics may be missing.
runStored ==
  [Command("recommend", {<<Store("ListRecommendations"), Store("RecommendationStats")>>})
     EXCEPT !.on = {"RecommendationStats"}]

runSessionErrors ==
  [Command("errors", {<<Do("error", "GetErrors", {}), Do("error", "GetSummary", {})>>})
     EXCEPT !.on = {"GetSummary"}]

runRecentErrors == Command("errors", {<<Do("error", "ListRecent", {"limit", "category"})>>})

\* The errors of the unknown category are counted before and after one pass over them,
\* or as many passes as find some.
runReclassify ==
  LET count == Store("ListRecentErrors")
      pass  == Do("error", "Reclassify", {"limit"})
  IN Command("errors", {<<count>>, <<count, pass, count>>,
                        <<count, count, pass, count, count>>})

-----------------------------------------------------------------------------
(* The store's own tables, sharing, configuration.                         *)

runHealth == Command("sessions", {<<Store("ListLiveStalls")>>,
                                  <<Store("StallStats"), Store("ListStalls")>>})

runAlertsList ==
  Command("alerts", {<<Store("ListNotificationLogs"),
                       Store("UnacknowledgedNotificationCount")>>})

runAck == Command("alerts", {<<Store("AcknowledgeAllNotifications")>>,
                             <<Store("AcknowledgeNotification")>>})

runUsersList == Command("users", {<<Store("ListUsersByKind")>>, <<Store("ListUsers")>>})
runSetKind   == Command("users", {<<Store("UpdateUserKind")>>})
runSetRole   == Command("users", {<<Store("UpdateUserRole")>>})
runSetSlack  == Command("users", {<<Store("UpdateUserSlack")>>})
runUserLink  == Command("users", {<<Store("GetUser"), Store("UpdateUserSlack")>>})

\* Users with no kind yet get one from their address; a dry run only counts them.
runBackfillKind ==
  Command("users", {<<Store("ListUsers")>>, <<Store("ListUsers"), Store("UpdateUserKind")>>})

runSyncSlack == Command("users", {<<Do("slack", "SyncSlackMembers", {"dry_run"})>>})

\* The findings are shown; nothing is stored.
runScan == Command("secrets", {<<Store("Get")>>,
                               <<Store("List"), Store("Get"), Store("Get")>>})

runPush == Command("push", {<<Do("sync", "Push", {"remote"})>>})
runPull == Command("pull", {<<Do("sync", "Pull", {"remote"})>>})
runSync == Command("sync", {<<Do("sync", "Sync", {"remote"})>>})

\* A value is set and the file written.
Configured == <<Do("config", "Set", {}), Do("config", "Save", {})>>

runConfigSet  == Command("config", {Configured})
runConfigList == Command("config", {<<Do("config", "Get", {})>>})
runAddPattern == Command("secrets", {Configured})
runInit       == Command("init", {<<Git("TopLevel"), Do("config", "Save", {}),
                                    Do("hooks", "Install", {})>>})
runProjectInit ==
  Command("project", {Here \o <<Do("config", "Save", {})>>,
                      Here \o <<Do("config", "Save", {}), Store("ListProjects")>>})

runHooks == Command("hooks", {<<Git("HooksPath"), Do("hooks", op, {})>>
                                : op \in {"Install", "Uninstall", "Status"}})

\* The projects of the configuration and those of the store.
runProjectList == Command("project", {<<Store("ListProjects")>>})
runProjectShow == Command("project", {<<Store("ListProjects")>>})

\* Each pull request is saved and linked to the sessions of a branch of its name.
runSyncPRs ==
  [Command("project", {<<Do("platform", "ListRecentPRs", {}), Store("SavePullRequest"),
                         Store("List"), Store("LinkSessionPR")>>})
     EXCEPT !.on = {"SavePullRequest", "List", "LinkSessionPR"}]

runAgentsTree == Command("agents", {<<Do("registry", "ScanProject", {})>>})
runAgentsShow == Command("agents", {<<Do("registry", "ScanProject", {})>>})
runAgentsList == Command("agents", {<<Do("registry", "ListProjects", {})>>})

runUpdatePrices == Command("update-prices", {<<Do("prices", "Fetch", {}),
                                               Do("prices", "Save", {})>>})

Commands ==
  {runCapture, runRestore, runResume, runImport, runDiscover, runExport, runExportAll, runList,
   runListOffTopic, runListSimilar, runListTree, runShow, runInspect, runDiff, runExplain,
   runBlame, runItems, runItem, runToolUsage, runStats, runForecast, runStatus, runEfficiency,
   runDiagnose, runRewind, runValidate, runLink, runComment, runTag, runGC, runCompact,
   runRetentionStats, runUsageCompute, runBackfillRemoteURL, runBackfillForks,
   runBackfillFiles, runNormalizePaths, runAnalyze, runReplay, runSuggest, runFix,
   runSkillsValidate, runSkillObserve, runFresh, runStored, runSessionErrors, runRecentErrors,
   runReclassify, runHealth, runAlertsList, runAck, runUsersList, runSetKind, runSetRole,
   runSetSlack, runUserLink, runBackfillKind, runSyncSlack, runScan, runPush, runPull, runSync,
   runConfigSet, runConfigList, runAddPattern, runInit, runProjectInit, runHooks,
   runProjectList, runProjectShow, runSyncPRs, runAgentsTree, runAgentsShow, runAgentsList,
   runUpdatePrices}
=============================================================================
