---------------------------- MODULE RemoteService ----------------------------
(***************************************************************************)
(* A process that found a server: the client of the HTTP API (client) and  *)
(* the session service on top of it (internal/service/remote).             *)
(*                                                                         *)
(* Each method of the client sends one request to one handler of           *)
(* ApiServer.  What the caller puts into a request goes over as it is, so  *)
(* a method is the handler its path leads to, the options its request has  *)
(* fields for, the one it refuses to do without, and whether its path is   *)
(* one the server serves.                                                  *)
(*                                                                         *)
(* The service has every operation of the local one, and each goes through *)
(* a method of the client, fails at once, or answers with nothing.  An     *)
(* operation hands on the options it has a place for.                      *)
(***************************************************************************)
EXTENDS ApiServer

Call(handler, sends) ==
  [handler |-> handler, sends |-> sends, requires |-> {}, served |-> TRUE]

Capture == Call(handleCapture, Scope \cup {"mode", "message"})

Ingest ==
  Call(handleIngest, {"provider", "messages", "agent", "project_path", "branch", "summary",
                      "session_id"})

IngestOllama ==
  Call(handleIngestOllama, {"model", "messages", "agent", "project_path", "branch", "summary",
                            "session_id"})

Restore ==
  Call(handleRestore, Scope \cup {"session_id", "agent", "as_context", "pr_number",
                                  "file_path", "worktree", "dry_run"})

Get == Call(handleGetSession, {"id"})

List == Call(handleListSessions, Scope \cup {"owner_id", "pr_number", "all"})

Delete == Call(handleDeleteSession, {"id"})

PatchSession == Call(handlePatchSession, {"id", "session_type"})

Export == Call(handleExport, {"session_id", "project_path", "branch", "format"})

Import == Call(handleImport, {"data", "source_format", "into_target"})

ExportAll == Call(handleExportAll, Scope \cup {"all", "global"})

\* Takes the request of Import and leaves its source format out.
ImportBundle == Call(handleImportBundle, {"data", "into_target"})

Link ==
  Call(handleLink, {"session_id", "project_path", "branch", "pr_number", "commit_sha",
                    "auto_detect"})

Comment == Call(handleComment, {"session_id", "project_path", "branch", "pr_number"})

Search ==
  Call(handleSearch, Scope \cup {"keyword", "owner_id", "since", "until", "limit", "offset",
                                 "voice"})

Explain == Call(handleExplain, {"session_id", "model", "short"})

Rewind == Call(handleRewind, {"session_id", "at_message"})

Blame ==
  [Call(handleBlame, {"file", "branch", "provider", "all"}) EXCEPT !.requires = {"file"}]

WorkItems == Call(handleWorkItems, {"project_path", "remote_url", "kind", "source"})

WorkItem ==
  [Call(handleWorkItem, {"ref", "project_path", "remote_url", "source"})
     EXCEPT !.requires = {"ref"}]

Stats == Call(handleStats, Scope \cup {"owner_id", "all", "tools"})

EstimateCost == Call(handleCost, {"id"})

ToolUsage == Call(handleToolUsage, {"id"})

GarbageCollect == Call(handleGC, {"older_than", "keep_latest", "dry_run"})

AnalyzeEfficiency == Call(handleEfficiency, {"session_id", "model"})

Diff == Call(handleDiff, {"left", "right"})

DetectOffTopic == Call(handleOffTopic, {"project_path", "branch", "threshold"})

Forecast == Call(handleForecast, {"project_path", "branch", "period", "days"})

ListProjects == Call(handleListProjects, {})

\* The three paths of session links are not the ones the server has routes for.
LinkSessions ==
  [Call(handleLinkSessions, {"source_id", "target_id", "link_type", "description"})
     EXCEPT !.served = FALSE]

GetLinkedSessions == [Call(handleGetSessionLinks, {"id"}) EXCEPT !.served = FALSE]

DeleteSessionLink == [Call(handleDeleteSessionLink, {"id"}) EXCEPT !.served = FALSE]

AnalyzeSession == Call(handleAnalyze, {"id", "trigger"})

GetAnalysis == Call(handleGetAnalysis, {"id"})

ListAnalyses == Call(handleListAnalyses, {"id"})

ReplaySession ==
  Call(handleReplay, {"id", "provider", "agent", "model", "commit_sha", "max_messages"})

ResolveSkills == Call(handleSkillResolve, {"id", "skill_names", "dry_run"})

Push      == Call(handleSyncPush, {"remote"})
Pull      == Call(handleSyncPull, {"remote"})
Sync      == Call(handleSyncSync, {"remote"})
ReadIndex == Call(handleSyncIndex, {})

-----------------------------------------------------------------------------
(* One exchange.  Statuses of 400 and more are errors to the caller, and    *)
(* so is an exchange that ends without an answer, be it that the request    *)
(* never arrived or that its answer did not come in time.                   *)

readResponse(status) ==
  IF status >= 400 THEN [ok |-> FALSE, status |-> status] ELSE [ok |-> TRUE, status |-> status]

-----------------------------------------------------------------------------
(* The operations of the service.                                          *)

Through(op, call, hands) == [op |-> op, kind |-> "call", call |-> {call}, hands |-> hands]

NotRemote(op) == [op |-> op, kind |-> "fails", call |-> {}, hands |-> {}]

Nothing(op) == [op |-> op, kind |-> "nothing", call |-> {}, hands |-> {}]

RemoteCapture == Through("Capture", Capture, Scope \cup {"mode", "message"})

\* The first session only, and not the one asked for.
RemoteCaptureAll  == [RemoteCapture EXCEPT !.op = "CaptureAll"]
RemoteCaptureByID == [RemoteCapture EXCEPT !.op = "CaptureByID"]

RemoteRestore ==
  Through("Restore", Restore, Scope \cup {"session_id", "agent", "as_context", "pr_number",
                                          "file_path", "worktree", "dry_run"})

RemoteGet == Through("Get", Get, {"id"})

RemoteList == Through("List", List, Scope \cup {"owner_id", "all"})

\* A tree without branches.
RemoteListTree == [RemoteList EXCEPT !.op = "ListTree"]

RemoteDelete == Through("Delete", Delete, {"id"})

RemoteTagSession == Through("TagSession", PatchSession, {"id", "session_type"})

RemoteExport == Through("Export", Export, {"session_id", "branch", "format"})

RemoteImport == Through("Import", Import, {"data", "source_format", "into_target"})

RemoteExportAll == Through("ExportAll", ExportAll, Scope \cup {"all", "global"})

RemoteImportBundle == Through("ImportBundle", ImportBundle, {"data", "into_target"})

RemoteLink ==
  Through("Link", Link, {"session_id", "project_path", "branch", "pr_number", "commit_sha",
                         "auto_detect"})

RemoteComment ==
  Through("Comment", Comment, {"session_id", "project_path", "branch", "pr_number"})

RemoteStats == Through("Stats", Stats, Scope \cup {"owner_id", "all", "tools"})

RemoteSearch ==
  Through("Search", Search, Scope \cup {"keyword", "since", "until", "limit", "offset",
                                        "voice"})

RemoteBlame == Through("Blame", Blame, {"file", "branch", "provider", "all"})

RemoteWorkItems ==
  Through("WorkItems", WorkItems, {"project_path", "remote_url", "kind", "source"})

RemoteWorkItem ==
  Through("WorkItem", WorkItem, {"ref", "project_path", "remote_url", "source"})

RemoteEstimateCost == Through("EstimateCost", EstimateCost, {"id"})

RemoteToolUsage == Through("ToolUsage", ToolUsage, {"id"})

RemoteForecast == Through("Forecast", Forecast, {"project_path", "branch", "period", "days"})

RemoteListProjects == Through("ListProjects", ListProjects, {})

RemoteExplain == Through("Explain", Explain, {"session_id", "model", "short"})

RemoteAnalyzeEfficiency ==
  Through("AnalyzeEfficiency", AnalyzeEfficiency, {"session_id", "model"})

RemoteRewind == Through("Rewind", Rewind, {"session_id", "at_message"})

RemoteGarbageCollect ==
  Through("GarbageCollect", GarbageCollect, {"older_than", "keep_latest", "dry_run"})

RemoteDiff == Through("Diff", Diff, {"left", "right"})

RemoteDetectOffTopic ==
  Through("DetectOffTopic", DetectOffTopic, {"project_path", "branch", "threshold"})

\* The remote URL and the delegating session stay behind.
RemoteIngest ==
  Through("Ingest", Ingest, {"provider", "messages", "agent", "project_path", "branch",
                             "summary", "session_id"})

RemoteLinkSessions ==
  Through("LinkSessions", LinkSessions, {"source_id", "target_id", "link_type", "description"})

RemoteGetLinkedSessions == Through("GetLinkedSessions", GetLinkedSessions, {"id"})

RemoteDeleteSessionLink == Through("DeleteSessionLink", DeleteSessionLink, {"id"})

\* The thresholds of the request stay behind.
RemoteAnalyze == Through("Analyze", AnalyzeSession, {"id", "trigger"})

RemoteGetLatestAnalysis == Through("GetLatestAnalysis", GetAnalysis, {"id"})

RemoteListAnalyses == Through("ListAnalyses", ListAnalyses, {"id"})

TagOps ==
  {"AddTags", "RemoveTags", "GetSessionTags", "ListAllTags", "ResolveCurrentSessionID"}

AnalyticsOps ==
  {"ComputeTokenBuckets", "QueryTokenUsage", "ToolCostSummary", "AgentCostSummary",
   "CacheEfficiency", "MCPCostMatrix", "ContextSaturation"}

ProjectOps == {"ClassifyProjectSessions", "BudgetStatus", "IndexAllSessions",
               "SessionSaturationCurve", "AgentROIAnalysis", "SkillROIAnalysis",
               "GenerateRecommendations", "ExtractAndSaveFiles", "BackfillFileBlame",
               "GetSessionFiles", "ComputeObjective", "GetObjective", "Diagnose"}

BackfillOps == {"BackfillRemoteURLs", "DetectForksBatch", "NormalizePaths"}

\* What cannot be done over a server.
Unsupported ==
  {NotRemote(op) : op \in {"Trends", "Summarize", "BranchTimeline"} \cup TagOps
                            \cup AnalyticsOps \cup ProjectOps \cup BackfillOps}

\* What is answered without asking it.
Empty == {Nothing("ClassifySession"), Nothing("SearchCapabilities"),
          Nothing("AvailableModules")}

RemoteOps ==
  {RemoteCapture, RemoteCaptureAll, RemoteCaptureByID, RemoteRestore, RemoteGet, RemoteList,
   RemoteListTree, RemoteDelete, RemoteTagSession, RemoteExport, RemoteImport,
   RemoteExportAll, RemoteImportBundle, RemoteLink, RemoteComment, RemoteStats, RemoteSearch,
   RemoteBlame, RemoteWorkItems, RemoteWorkItem, RemoteEstimateCost, RemoteToolUsage,
   RemoteForecast, RemoteListProjects, RemoteExplain, RemoteAnalyzeEfficiency, RemoteRewind,
   RemoteGarbageCollect, RemoteDiff, RemoteDetectOffTopic, RemoteIngest, RemoteLinkSessions,
   RemoteGetLinkedSessions, RemoteDeleteSessionLink, RemoteAnalyze, RemoteGetLatestAnalysis,
   RemoteListAnalyses} \cup Unsupported \cup Empty

RemoteOp(op) == CHOOSE r \in RemoteOps : r.op = op

=============================================================================
