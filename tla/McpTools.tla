------------------------------ MODULE McpTools ------------------------------
(***************************************************************************)
(* The tools of the MCP server (internal/mcp), in the form of the commands *)
(* of module Commands: each tool has the ways its handler may run.         *)
(* Unlike a command, the process that serves them lives on: the session    *)
(* service it was given at its start answers all of its calls.             *)
(***************************************************************************)
EXTENDS Commands

\* A tool of one operation of the session service.
Tool(name, op, opts) == Command(name, {<<Ask(op, opts)>>})

handleCapture ==
  LET opts == {"project_path", "branch", "mode", "provider", "message"} IN
  Command("aisync_capture", {<<Ask("Capture", opts)>>,
                             <<Ask("CaptureByID", opts \cup {"session_id"})>>})

\* No dry run, no file and no worktree among its arguments.
handleRestore ==
  Tool("aisync_restore", "Restore", {"session_id", "project_path", "branch", "provider",
                                     "agent", "as_context", "pr_number"})

handleGet == Tool("aisync_get", "Get", {"id"})

handleList == Tool("aisync_list", "List", {"project_path", "branch", "provider", "pr_number",
                                           "all"})

handleDelete == Tool("aisync_delete", "Delete", {"id"})

handleExport ==
  Tool("aisync_export", "Export", {"session_id", "project_path", "branch", "format"})

handleImport == Tool("aisync_import", "Import", {"data", "source_format", "into_target"})

handleLink ==
  Tool("aisync_link", "Link", {"session_id", "project_path", "branch", "pr_number",
                               "commit_sha", "auto_detect"})

handleComment ==
  Tool("aisync_comment", "Comment", {"session_id", "project_path", "branch", "pr_number"})

handleSearch ==
  Tool("aisync_search", "Search", {"keyword", "project_path", "branch", "provider",
                                   "owner_id", "since", "until", "limit", "offset"})

\* With several files, the one in "file" is left out.
handleBlame ==
  Command("aisync_blame", {<<Ask("Blame", {"file", "branch", "provider", "all"})>>,
                           <<Ask("Blame", {"files", "branch", "provider", "all"})>>})

handleExplain == Tool("aisync_explain", "Explain", {"session_id", "model", "short"})

handleRewind == Tool("aisync_rewind", "Rewind", {"session_id", "at_message"})

handleStats ==
  Tool("aisync_stats", "Stats", {"project_path", "branch", "provider", "all", "tools"})

handleCost == Tool("aisync_cost", "EstimateCost", {"id"})

handleToolUsage == Tool("aisync_tool_usage", "ToolUsage", {"id"})

handleEfficiency == Tool("aisync_efficiency", "AnalyzeEfficiency", {"session_id", "model"})

handleGC == Tool("aisync_gc", "GarbageCollect", {"older_than", "keep_latest", "dry_run"})

handleDiff == Tool("aisync_diff", "Diff", {"left", "right"})

handleOffTopic ==
  Tool("aisync_off_topic", "DetectOffTopic", {"project_path", "branch", "threshold"})

handleForecast ==
  Tool("aisync_forecast", "Forecast", {"project_path", "branch", "period", "days"})

handleIngest ==
  Tool("aisync_ingest", "Ingest", {"provider", "messages", "agent", "project_path", "branch",
                                   "summary", "session_id", "remote_url", "delegated_from"})

\* Rewinds with the fix whenever a rewind is suggested, be the session valid or not.
handleValidate ==
  LET get == Ask("Get", {"id"}) IN
  Command("aisync_validate", {<<get>>, <<get, Ask("Rewind", {"session_id", "at_message"})>>})

\* The recent ones of a category, or those of a session, with a summary if there is one.
handleErrors ==
  [Command("aisync_errors", {<<Do("error", "ListRecent", {"limit", "category"})>>,
                             <<Do("error", "GetErrors", {}), Do("error", "GetSummary", {})>>})
     EXCEPT !.on = {"GetSummary"}]

handlePush  == Command("aisync_push", {<<Do("sync", "Push", {"remote"})>>})
handlePull  == Command("aisync_pull", {<<Do("sync", "Pull", {"remote"})>>})
handleSync  == Command("aisync_sync", {<<Do("sync", "Sync", {"remote"})>>})
handleIndex == Command("aisync_index", {<<Do("sync", "ReadIndex", {})>>})

\* Generated now by the session service, or what the own store has.
handleRecommendationsFresh  == <<Ask("GenerateRecommendations", {"project_path"})>>
handleRecommendationsStored == <<Store("ListRecommendations")>>

handleRecommendations ==
  Command("aisync_recommendations", {handleRecommendationsFresh, handleRecommendationsStored})

handleDiagnose == Tool("aisync_diagnose", "Diagnose", {"session_id"})

handleSkillObservation ==
  Command("aisync_skill_observation", {<<Ask("Get", {"id"}), Do("registry", "ScanProject", {})>>})

handleInspectSession ==
  [Command("aisync_inspect", {<<Ask("Get", {"id"}), Store("GetSessionEvents"), attachTrend>>})
     EXCEPT !.on = {"GetSessionEvents", "QueryAnalytics"}]

handleSessionEvents == Command("aisync_events", {<<Do("event", "GetSessionEvents", {"id", "type"})>>})

handleSessionEventSummary ==
  Command("aisync_event_summary", {<<Do("event", "GetSessionSummary", {"id"})>>})

handleEventBuckets ==
  Command("aisync_event_buckets",
          {<<Do("event", "QueryBuckets", {"project_path", "remote_url", "provider",
                                          "granularity", "since", "until"})>>})

SessionTools ==
  {handleCapture, handleRestore, handleGet, handleList, handleDelete, handleExport,
   handleImport, handleLink, handleComment, handleSearch, handleBlame, handleExplain,
   handleRewind, handleStats, handleCost, handleToolUsage, handleEfficiency, handleGC,
   handleDiff, handleOffTopic, handleForecast, handleIngest, handleValidate,
   handleRecommendations, handleDiagnose, handleSkillObservation, handleInspectSession}

ErrorTools == {handleErrors}

SyncTools == {handlePush, handlePull, handleSync, handleIndex}

EventTools == {handleSessionEvents, handleSessionEventSummary, handleEventBuckets}

\* A server has all of them; those of a service it was made without fail when called.
NewServer == SessionTools \cup ErrorTools \cup SyncTools \cup EventTools
=============================================================================
