------------------------------ MODULE ApiServer ------------------------------
(***************************************************************************)
(* The handlers of the HTTP API (internal/api).  Each one decodes a        *)
(* request, checks it, calls one operation of one service with the options *)
(* it passes on, and maps the error to a status.                           *)
(*                                                                         *)
(* A request is a record with the operation it is routed to, the options   *)
(* it gives and the ones among them that are malformed; the values of the  *)
(* options are left out.                                                   *)
(***************************************************************************)
EXTENDS Integers, Sequences, FiniteSets

\* What the services may answer.
Errors == {"session not found", "PR not found", "no provider", "no import", "no platform",
           "secret", "other"}

\* The status a service's error becomes.
mapServiceError(error) ==
  CASE error \in {"session not found", "PR not found"}          -> 404
    [] error \in {"no provider", "no import", "no platform"}    -> 400
    [] error = "secret"                                         -> 422
    [] OTHER                                                    -> 500

\* A handler of the session service: the operation it calls, the options it hands
\* on, the options it parses (and refuses when malformed), the ones it insists on and
\* those of which it insists on one; whether it decodes a body;
\* "fixed" is the status of every error, if it does not depend on the error.
Handle(op, passes) ==
  [port |-> "session", op |-> op, passes |-> passes, parses |-> {}, needs |-> {},
   oneOf |-> {}, decodes |-> TRUE, fixed |-> {}, ok |-> 200]

Scope == {"project_path", "branch", "provider"}

handleCapture ==
  [Handle("Capture", Scope \cup {"mode", "message"}) EXCEPT !.parses = {"mode", "provider"}]

handleCost == [Handle("EstimateCost", {"id"}) EXCEPT !.needs = {"id"}, !.decodes = FALSE]

\* file_path, worktree and dry_run are not fields of its request.
handleRestore ==
  [Handle("Restore", Scope \cup {"session_id", "agent", "as_context", "pr_number"})
     EXCEPT !.parses = {"provider"}]

handleGetSession == [Handle("Get", {"id"}) EXCEPT !.needs = {"id"}, !.decodes = FALSE]

handleGetMessageWindow ==
  [Handle("Get", {"id"}) EXCEPT !.needs = {"id", "index"}, !.parses = {"index"},
     !.decodes = FALSE, !.fixed = {404}]

handleListSessions ==
  [Handle("List", Scope \cup {"owner_id", "pr_number", "all"})
     EXCEPT !.parses = {"pr_number", "provider"}, !.decodes = FALSE]

handleDeleteSession ==
  [Handle("Delete", {"id"}) EXCEPT !.needs = {"id"}, !.decodes = FALSE, !.ok = 204]

handleExport == Handle("Export", {"session_id", "project_path", "branch", "format"})

handleImport ==
  [Handle("Import", {"data", "source_format", "into_target"}) EXCEPT !.parses = {"data"}]

handleLink ==
  Handle("Link", {"session_id", "project_path", "branch", "pr_number", "commit_sha",
                  "auto_detect"})

handleComment == Handle("Comment", {"session_id", "project_path", "branch", "pr_number"})

handleSearch ==
  [Handle("Search", Scope \cup {"keyword", "owner_id", "since", "until", "limit", "offset",
                                "voice"})
     EXCEPT !.parses = {"provider"}, !.decodes = FALSE]

handleBlame ==
  [Handle("Blame", {"file", "branch", "provider", "all"})
     EXCEPT !.needs = {"file"}, !.parses = {"provider"}, !.decodes = FALSE]

handleWorkItems ==
  [Handle("WorkItems", {"project_path", "remote_url", "kind", "source"})
     EXCEPT !.decodes = FALSE]

handleWorkItem ==
  [Handle("WorkItem", {"ref", "project_path", "remote_url", "source"})
     EXCEPT !.needs = {"ref"}, !.decodes = FALSE]

handleExplain ==
  [Handle("Explain", {"session_id", "model", "short"}) EXCEPT !.needs = {"session_id"}]

handleRewind ==
  [Handle("Rewind", {"session_id", "at_message"})
     EXCEPT !.needs = {"session_id", "at_message"}]

handleValidate ==
  [Handle("Validate", {"id"}) EXCEPT !.needs = {"id"}, !.decodes = FALSE]

\* Rewinds after validating, if the session is invalid and a rewind is suggested.
handleValidateWithFix ==
  [Handle("ValidateWithFix", {"id"}) EXCEPT !.needs = {"id"}, !.decodes = FALSE]

handleToolUsage == [Handle("ToolUsage", {"id"}) EXCEPT !.needs = {"id"}, !.decodes = FALSE]

handleEfficiency ==
  [Handle("AnalyzeEfficiency", {"session_id", "model"}) EXCEPT !.needs = {"session_id"}]

\* Mutant: the dry run is not among what the request decodes.
handleGCForReal == Handle("GarbageCollect", {"older_than", "keep_latest"})

handleGC == Handle("GarbageCollect", {"older_than", "keep_latest", "dry_run"})

handleDiff == [Handle("Diff", {"left", "right"}) EXCEPT !.needs = {"left", "right"}]

handleOffTopic ==
  [Handle("DetectOffTopic", {"project_path", "branch", "threshold"})
     EXCEPT !.needs = {"branch"}, !.parses = {"threshold"}, !.decodes = FALSE]

handleForecast ==
  [Handle("Forecast", {"project_path", "branch", "period", "days"})
     EXCEPT !.parses = {"period", "days"}, !.decodes = FALSE]

handleStats ==
  [Handle("Stats", Scope \cup {"owner_id", "all", "tools"})
     EXCEPT !.parses = {"provider"}, !.decodes = FALSE]

\* Listed, then exported one after the other.
handleExportAll ==
  [Handle("ExportAll", Scope \cup {"all", "global"}) EXCEPT !.parses = {"provider"}]

handleImportBundle ==
  [Handle("ImportBundle", {"data", "into_target"}) EXCEPT !.parses = {"data"}]

handleIngest ==
  [Handle("Ingest", {"provider", "messages", "agent", "project_path", "branch", "summary",
                     "session_id", "remote_url", "delegated_from"})
     EXCEPT !.fixed = {400}, !.ok = 201]

\* The conversation is converted and then ingested as any other.
handleIngestOllama ==
  [Handle("Ingest", {"model", "messages", "agent", "project_path", "branch", "summary",
                     "session_id"})
     EXCEPT !.parses = {"messages"}, !.fixed = {400}, !.ok = 201]

handleListProjects == [Handle("ListProjects", {}) EXCEPT !.decodes = FALSE]

\* A malformed period counts as none.
handleTrends ==
  [Handle("Trends", {"type", "provider", "period"}) EXCEPT !.decodes = FALSE]

handlePatchSession ==
  [Handle("TagSession", {"id", "session_type"}) EXCEPT !.needs = {"id"}]

handleLinkSessions ==
  [Handle("LinkSessions", {"source_id", "target_id", "link_type", "description"})
     EXCEPT !.fixed = {400}, !.ok = 201]

handleGetSessionLinks ==
  [Handle("GetLinkedSessions", {"id"}) EXCEPT !.needs = {"id"}, !.decodes = FALSE]

handleDeleteSessionLink ==
  [Handle("DeleteSessionLink", {"id"})
     EXCEPT !.needs = {"id"}, !.decodes = FALSE, !.ok = 204]

\* The body may be missing: the trigger is then the manual one.
handleAnalyze ==
  [Handle("Analyze", {"id", "trigger"})
     EXCEPT !.port = "analysis", !.needs = {"id"}, !.decodes = FALSE, !.ok = 201]

handleGetAnalysis ==
  [Handle("GetLatestAnalysis", {"id"})
     EXCEPT !.port = "analysis", !.needs = {"id"}, !.decodes = FALSE]

handleListAnalyses ==
  [Handle("ListAnalyses", {"id"})
     EXCEPT !.port = "analysis", !.needs = {"id"}, !.decodes = FALSE]

handleReplay ==
  [Handle("Replay", {"id", "provider", "agent", "model", "commit_sha", "max_messages"})
     EXCEPT !.port = "replay", !.needs = {"id"}, !.parses = {"provider"}, !.ok = 201]

\* Without a body, nothing but a dry run.
handleSkillResolve ==
  [Handle("ResolveSkills", {"id", "skill_names", "dry_run"})
     EXCEPT !.port = "skills", !.needs = {"id"}, !.decodes = FALSE]

Syncing(op) ==
  [Handle(op, {"remote"}) EXCEPT !.port = "sync", !.decodes = FALSE, !.fixed = {500}]

handleSyncPush  == Syncing("Push")
handleSyncPull  == Syncing("Pull")
handleSyncSync  == Syncing("Sync")
handleSyncIndex == [Syncing("ReadIndex") EXCEPT !.passes = {}]

Asking(port, op, passes) ==
  [Handle(op, passes) EXCEPT !.port = port, !.decodes = FALSE, !.fixed = {500}]

handleGetSessionErrors ==
  [Asking("error", "GetErrors", {"id"}) EXCEPT !.needs = {"id"}]

handleGetSessionErrorSummary ==
  [Asking("error", "GetErrorSummary", {"id"}) EXCEPT !.needs = {"id"}]

handleListRecentErrors ==
  [Asking("error", "ListRecentErrors", {"limit", "category"})
     EXCEPT !.parses = {"limit", "category"}]

handleGetSessionEvents ==
  [Asking("event", "GetSessionEvents", {"id", "type"})
     EXCEPT !.needs = {"id"}, !.parses = {"type"}]

handleGetSessionEventSummary ==
  [Asking("event", "GetSessionSummary", {"id"}) EXCEPT !.needs = {"id"}]

handleQueryEventBuckets ==
  [Asking("event", "QueryBuckets",
          {"project_path", "remote_url", "provider", "granularity", "since", "until"})
     EXCEPT !.parses = {"granularity", "since", "until"}]

\* The buckets are summed up: the answer has one total for each kind of event.
handleGetProjectEventOverview ==
  [Asking("event", "QueryBuckets", {"project_path", "remote_url", "days"})
     EXCEPT !.parses = {"days"}, !.oneOf = {"project_path", "remote_url"}]

Handlers ==
  {handleCapture, handleCost, handleRestore, handleGetSession, handleGetMessageWindow,
   handleListSessions, handleDeleteSession, handleExport, handleImport, handleLink,
   handleComment, handleSearch, handleBlame, handleWorkItems, handleWorkItem, handleExplain,
   handleRewind, handleValidate, handleValidateWithFix, handleToolUsage, handleEfficiency,
   handleGC, handleDiff, handleOffTopic, handleForecast, handleStats, handleExportAll, handleImportBundle,
   handleIngest, handleIngestOllama, handleListProjects, handleTrends, handlePatchSession,
   handleLinkSessions, handleGetSessionLinks, handleDeleteSessionLink, handleAnalyze,
   handleGetAnalysis, handleListAnalyses, handleReplay, handleSkillResolve, handleSyncPush,
   handleSyncPull, handleSyncSync, handleSyncIndex, handleGetSessionErrors,
   handleGetSessionErrorSummary, handleListRecentErrors, handleGetSessionEvents,
   handleGetSessionEventSummary, handleQueryEventBuckets, handleGetProjectEventOverview}

\* A handler of a service the server was started without.
Unavailable(port) == IF port = "sync" THEN 503 ELSE 404

\* The refusals of a handler, before anything is done: "ports" are the services the
\* server has, "request" the options given and the malformed ones among them.
Refusals(h, ports, request) ==
  {s \in {Unavailable(h.port)} : h.port \notin ports}
    \cup {s \in {400} : \/ h.decodes /\ request.broken
                        \/ h.needs \ request.gives # {}
                        \/ h.oneOf # {} /\ h.oneOf \cap request.gives = {}
                        \/ h.parses \cap request.malformed # {}}

\* The status of an error of the service.
ErrorStatus(h, error) ==
  IF h.fixed # {} THEN CHOOSE s \in h.fixed : TRUE ELSE mapServiceError(error)
=============================================================================
