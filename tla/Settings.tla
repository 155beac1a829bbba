------------------------------ MODULE Settings ------------------------------
(***************************************************************************)
(* One setting, whichever it is, from the moment somebody sets it to the   *)
(* moment another process reads it: in memory, in the two config files, in *)
(* the processes that loaded them, on the settings page.  Every operation  *)
(* treats the settings apart, so one at a time is enough.                  *)
(*                                                                         *)
(* "u" is the setting's default where it has one, "v" another value and    *)
(* "wrong" words that are neither a choice nor a schedule.                 *)
(***************************************************************************)
LOCAL INSTANCE Naturals
LOCAL INSTANCE TLC

CONSTANTS
  Processes,
  InRepo   \* those that run inside of a repository

VARIABLES
  key,     \* the setting
  kind,    \* what the code does with it
  file,    \* what the global and the repository's file have for it
  torn,    \* the files that are being written
  process     \* each process: whether it is up, its value, and what became of the value

settingsVars == <<key, kind, file, torn, process>>

-----------------------------------------------------------------------------
(* What Set makes of a value, by its type: `refused' is answered with an   *)
(* error, `usual' is what its getter has instead of an empty one.          *)

Text(d)     == [values |-> {"", "u", "v"}, zero |-> "", usual |-> "u", default |-> d, refused |-> {}]
Given(d)    == [Text(d) EXCEPT !.refused = {""}]
Schedule(d) == [Text(d) EXCEPT !.refused = {"wrong"}]
Choice(d)   == [Text(d) EXCEPT !.refused = {"", "wrong"}]
Flag(d)     == [values |-> BOOLEAN, zero |-> FALSE, usual |-> FALSE, default |-> d, refused |-> {}]
Number(d)   == [values |-> 0 .. 2, zero |-> 0, usual |-> 1, default |-> d, refused |-> {}]
Positive(d) == [Number(d) EXCEPT !.refused = {0}]
Pointer(d)  == [values |-> {"nil", "true", "false"}, zero |-> "nil", usual |-> "false", default |-> d, refused |-> {"nil"}]

SetGeneral ==
  "storage_mode" :> Choice("u") @@ "secrets.mode" :> Choice("u") @@ "secrets.custom_patterns.add" :> Text("") @@
  "auto_capture" :> Flag(TRUE) @@ "features.file_blame" :> Flag(FALSE) @@
  "summarize.enabled" :> Flag(FALSE) @@ "summarize.model" :> Text("") @@
  "analysis.auto" :> Flag(FALSE) @@ "analysis.profile" :> Text("") @@ "analysis.adapter" :> Choice("u") @@
  "analysis.error_threshold" :> Number(1) @@ "analysis.min_tool_calls" :> Number(1) @@
  "analysis.model" :> Text("") @@ "analysis.ollama_url" :> Text("") @@ "analysis.api_key" :> Text("") @@
  "analysis.schedule" :> Text("")

SetSearchAndProject ==
  "search.engine" :> Choice("") @@ "search.fallback" :> Schedule("") @@ "search.index_content" :> Pointer("nil") @@
  "project.category" :> Text("") @@ "project.categories" :> Text("") @@ "project.auto_detect" :> Flag(FALSE) @@
  "tagging.auto" :> Flag(FALSE) @@ "tagging.profile" :> Text("") @@ "tagging.tags" :> Text("")

SetDashboard ==
  "dashboard.page_size" :> Positive(1) @@ "dashboard.columns" :> Choice("u") @@ "dashboard.sort_by" :> Choice("u") @@
  "dashboard.sort_order" :> Choice("u") @@ "dashboard.default_provider" :> Schedule("") @@
  "dashboard.default_branch" :> Text("")

SetServer ==
  "server.url" :> Schedule("") @@ "server.auth.enabled" :> Flag(FALSE) @@ "server.auth.jwt_secret" :> Choice("") @@
  "database.path" :> Text("") @@ "database.driver" :> Choice("")

SetRetention ==
  "retention.enabled" :> Pointer("false") @@ "retention.cron" :> Schedule("u") @@
  "retention.compact_after_idle" :> Given("u") @@ "retention.archive_after_idle" :> Given("") @@
  "retention.max_tokens" :> Positive(1) @@ "retention.cold_enabled" :> Pointer("nil") @@
  "retention.keep_user_messages" :> Pointer("true") @@ "retention.keep_compactions" :> Pointer("true") @@
  "retention.keep_tool_outputs" :> Pointer("false") @@ "retention.keep_thinking" :> Pointer("false")

SetTasks ==
  "errors.classifier" :> Choice("u") @@ "errors.llm_fallback" :> Flag(FALSE) @@ "errors.llm_schedule" :> Schedule("") @@
  "errors.llm_profile" :> Text("") @@
  "scheduler.gc.enabled" :> Flag(FALSE) @@ "scheduler.gc.cron" :> Schedule("") @@
  "scheduler.gc.retention_days" :> Positive(0) @@
  "scheduler.capture_all.enabled" :> Flag(FALSE) @@ "scheduler.capture_all.cron" :> Schedule("") @@
  "scheduler.stats_report.enabled" :> Flag(FALSE) @@ "scheduler.stats_report.cron" :> Schedule("") @@
  "scheduler.registry_scan.enabled" :> Flag(FALSE) @@ "scheduler.registry_scan.cron" :> Schedule("") @@
  "telemetry.enabled" :> Flag(FALSE) @@ "github.token" :> Text("") @@ "github.default_owner" :> Text("") @@
  "github.default_repo" :> Text("") @@ "github.sync_enabled" :> Flag(FALSE) @@ "github.sync_cron" :> Schedule("")

SetNotification ==
  "notification.slack.webhook_url" :> Text("") @@ "notification.slack.bot_token" :> Text("") @@
  "notification.webhook.url" :> Text("") @@ "notification.webhook.secret" :> Text("") @@
  "notification.default_channel" :> Text("") @@ "notification.dashboard_url" :> Text("") @@
  "notification.alert_budget" :> Flag(FALSE) @@ "notification.alert_errors" :> Flag(FALSE) @@
  "notification.alert_stalls" :> Flag(TRUE) @@ "notification.alert_capture" :> Flag(FALSE) @@
  "notification.error_threshold" :> Positive(0) @@ "notification.error_window_mins" :> Positive(0) @@
  "notification.stall_live_count" :> Number(0) @@ "notification.stall_new_count_24h" :> Number(0) @@
  "notification.stall_cost_usd_24h" :> Number(0) @@ "notification.stall_alert_cron" :> Schedule("") @@
  "notification.digest_daily" :> Flag(FALSE) @@ "notification.digest_weekly" :> Flag(FALSE) @@
  "notification.digest_personal" :> Flag(FALSE) @@ "notification.daily_digest_cron" :> Schedule("") @@
  "notification.weekly_report_cron" :> Schedule("")

\* A provider's or a profile's entry under "llm.".
SetLLMDynamic ==
  "llm.providers.p.url" :> Text("") @@ "llm.providers.p.api_key" :> Text("") @@
  "llm.profiles.p.provider" :> Choice("") @@ "llm.profiles.p.model" :> Text("")

\* One project's classifier, whose patterns must compile, and its channel.
SetProjectClassifier == "projects.p" :> Choice("")
SetProjectChannel    == "notification.project_channels.p" :> Text("")

Settable == SetGeneral @@ SetSearchAndProject @@ SetDashboard @@ SetServer @@ SetRetention @@ SetTasks @@
            SetNotification @@ SetLLMDynamic @@ SetProjectClassifier @@ SetProjectChannel
Keys == DOMAIN Settable
ProjectKeys == {"projects.p", "notification.project_channels.p"}

-----------------------------------------------------------------------------
(* What loading a file makes of the value it has: taken if given, taken as *)
(* it is, taken if true.  Any other setting is never read.                 *)

LoadedGiven ==
  {"storage_mode", "secrets.mode", "secrets.custom_patterns.add", "summarize.model", "projects.p",
   "search.engine", "search.fallback", "search.index_content", "analysis.adapter", "analysis.error_threshold",
   "analysis.min_tool_calls", "analysis.model", "dashboard.page_size", "dashboard.columns", "dashboard.sort_by",
   "dashboard.sort_order", "dashboard.default_provider", "dashboard.default_branch", "server.url"}

LoadedGivenToo ==
  {"database.path", "database.driver", "project.category", "project.categories", "errors.classifier",
   "errors.llm_schedule", "errors.llm_profile", "scheduler.gc.cron", "scheduler.gc.retention_days",
   "scheduler.capture_all.cron", "scheduler.stats_report.cron", "github.token", "github.default_owner",
   "github.default_repo", "github.sync_cron"} \cup DOMAIN SetRetention

LoadedGivenLast ==
  {"notification.slack.webhook_url", "notification.slack.bot_token", "notification.webhook.url",
   "notification.webhook.secret", "notification.default_channel", "notification.project_channels.p",
   "notification.error_threshold", "notification.error_window_mins", "notification.stall_live_count",
   "notification.stall_new_count_24h", "notification.stall_cost_usd_24h", "notification.stall_alert_cron",
   "notification.daily_digest_cron", "notification.weekly_report_cron", "notification.dashboard_url"}

LoadedAlways ==
  {"auto_capture", "summarize.enabled", "analysis.auto", "errors.llm_fallback", "scheduler.gc.enabled",
   "scheduler.capture_all.enabled", "scheduler.stats_report.enabled", "telemetry.enabled", "features.file_blame",
   "github.sync_enabled", "notification.alert_budget", "notification.alert_errors", "notification.alert_stalls",
   "notification.alert_capture", "notification.digest_daily", "notification.digest_weekly",
   "notification.digest_personal"}

LoadedIfTrue == {"project.auto_detect"}

ReadBy(k) ==
  CASE k \in LoadedGiven \cup LoadedGivenToo \cup LoadedGivenLast -> "given"
    [] k \in LoadedAlways -> "always"
    [] k \in LoadedIfTrue -> "if true"
    [] OTHER              -> "never"

\* The value after a file is loaded over another one.  No file changes nothing.
loadFrom(value, loaded) ==
  IF loaded = << >> THEN value
  ELSE CASE kind.read = "given"   -> IF loaded[1] # kind.zero THEN loaded[1] ELSE value
         [] kind.read = "always"  -> loaded[1]
         [] kind.read = "if true" -> loaded[1] \/ value
         [] kind.read = "never"   -> value

\* Mutation of New: the repository's file first.
NewRepoFirst(p) ==
  LET repo == IF p \in InRepo THEN loadFrom(kind.default, file.repo) ELSE kind.default
  IN loadFrom(repo, file.global)

New(p) ==
  LET global == loadFrom(kind.default, file.global)
  IN IF p \in InRepo THEN loadFrom(global, file.repo) ELSE global

-----------------------------------------------------------------------------
(* What is made of an empty value by those who use it, and what the        *)
(* settings page shows and sends back.                                     *)

\* The getters that have a value of their own for an empty setting.
DefaultedBasics ==
  {"storage_mode", "secrets.mode"} \cup
  {"retention.cron", "retention.compact_after_idle", "retention.archive_after_idle", "retention.max_tokens"}

DefaultedAnalysis ==
  {"analysis.adapter", "analysis.error_threshold", "analysis.min_tool_calls", "analysis.ollama_url"}

DefaultedPages ==
  {"tagging.tags", "dashboard.page_size", "dashboard.columns", "dashboard.sort_by", "dashboard.sort_order",
   "errors.classifier", "search.engine", "search.fallback"}

DefaultedTasks ==
  {"scheduler.gc.cron", "scheduler.gc.retention_days", "scheduler.capture_all.cron", "scheduler.stats_report.cron",
   "scheduler.registry_scan.cron", "database.driver", "project.categories", "github.sync_cron"}

DefaultedNotices ==
  {"notification.error_threshold", "notification.error_window_mins", "notification.stall_live_count",
   "notification.stall_new_count_24h", "notification.stall_cost_usd_24h", "notification.stall_alert_cron",
   "notification.daily_digest_cron", "notification.weekly_report_cron"}

Defaulted == DefaultedBasics \cup DefaultedAnalysis \cup DefaultedPages \cup DefaultedTasks \cup DefaultedNotices

Used(value) == IF kind.defaulted /\ value = kind.zero THEN kind.usual ELSE value

\* What "config get" shows: the getter's value of these, a mask of those, nothing of
\* the ones it does not know, and the value as it is of the others.
GetGeneral ==
  [used |-> {"tagging.tags", "project.categories", "analysis.ollama_url", "database.driver"},
   masked |-> {"analysis.api_key", "server.auth.jwt_secret"},
   unknown |-> {"features.file_blame", "secrets.custom_patterns.add", "search.engine", "search.fallback",
                "search.index_content", "projects.p", "notification.project_channels.p"}]

GetTasks ==
  [used |-> DOMAIN SetRetention \cup {"errors.classifier"}, masked |-> {"github.token"}, unknown |-> {}]

GetNotification ==
  [used |-> DefaultedNotices,
   masked |-> {"notification.slack.webhook_url", "notification.slack.bot_token", "notification.webhook.secret"},
   unknown |-> {}]

getLLMDynamic == [used |-> {}, masked |-> {"llm.providers.p.api_key"}, unknown |-> {}]

Shown(part) == GetGeneral[part] \cup GetTasks[part] \cup GetNotification[part] \cup getLLMDynamic[part]
ShownBy(k) ==
  CASE k \in Shown("used")    -> "used"
    [] k \in Shown("masked")  -> "masked"
    [] k \in Shown("unknown") -> "unknown"
    [] OTHER                  -> "raw"
Get(value) == IF kind.shown = "used" THEN Used(value) ELSE value

\* The fields with an input that sends its text.  Some show words for an empty value.
PageTexts ==
  {"storage_mode", "search.engine", "search.fallback", "analysis.adapter", "analysis.model", "analysis.schedule",
   "analysis.min_tool_calls", "tagging.profile", "errors.classifier", "errors.llm_schedule",
   "dashboard.page_size", "dashboard.columns", "dashboard.sort_by", "dashboard.sort_order", "scheduler.gc.cron",
   "scheduler.capture_all.cron", "scheduler.stats_report.cron", "notification.webhook.url",
   "notification.default_channel", "notification.dashboard_url", "notification.error_threshold",
   "notification.daily_digest_cron", "notification.weekly_report_cron"}

PageWords ==
  {"analysis.model", "analysis.schedule", "tagging.profile", "errors.llm_schedule", "notification.default_channel",
   "notification.dashboard_url"}

OnPage(k) == IF k \in PageWords THEN "words" ELSE IF k \in PageTexts THEN "text" ELSE "no"
valueOrDefault(value) == IF kind.page = "words" /\ value = "" THEN "wrong" ELSE Used(value)

\* The value after somebody sets it to what is shown.
SetTo(value, shown) == IF shown \in kind.refused THEN value ELSE shown

-----------------------------------------------------------------------------
(* The processes: a daemon keeps its value while commands come and go.     *)

Kind(k) ==
  Settable[k] @@ [read |-> ReadBy(k), defaulted |-> k \in Defaulted, shown |-> ShownBy(k), page |-> OnPage(k)]

\* What every setting has: a default of its own type, empty or what is used for an
\* empty one where that is another.
SettingsAssumption ==
  \A k \in Keys :
    /\ Kind(k).default \in Kind(k).values
    /\ Kind(k).defaulted => Kind(k).default \in {Kind(k).zero, Kind(k).usual}
    /\ Kind(k).read \in {"given", "always", "if true", "never"}
    /\ Kind(k).read = "if true" => Kind(k).values = BOOLEAN
    /\ k = "projects.p" => "" \in Kind(k).values

Dir(p) == IF p \in InRepo THEN "repo" ELSE "global"
Down == [up |-> FALSE, value |-> kind.default, fate |-> "loaded", saving |-> FALSE]

SettingsTypeOK ==
  /\ key \in Keys
  /\ torn \subseteq {"global", "repo"}
  /\ \A d \in {"global", "repo"} : file[d] = << >> \/ file[d][1] \in kind.values
  /\ \A p \in Processes : process[p].value \in kind.values /\ process[p].fate \in {"loaded", "set", "saved", "old"}

SettingsInit ==
  /\ key \in Keys /\ kind = Kind(key)
  /\ file = [global |-> << >>, repo |-> << >>]
  /\ torn = {}
  /\ process = [p \in Processes |-> Down]

\* A file that is being written, or was when its writer died, cannot be parsed, and
\* the process does not come up.
Start(p) ==
  /\ ~process[p].up /\ "global" \notin torn /\ (p \in InRepo => "repo" \notin torn)
  /\ process' = [process EXCEPT ![p] = [Down EXCEPT !.up = TRUE, !.value = New(p)]]
  /\ UNCHANGED <<key, kind, file, torn>>

\* A command has set one setting, the page's forms and the wizards any number.
Set(p, v) ==
  /\ process[p].up /\ ~process[p].saving /\ key \notin ProjectKeys
  /\ v \notin kind.refused
  /\ process' = [process EXCEPT ![p].value = v, ![p].fate = IF @ = "old" THEN "old" ELSE "set"]
  /\ UNCHANGED <<key, kind, file, torn>>

\* A form has a project's classifier and its channel, where an empty one is deleted.
SaveClassifier(p, v) ==
  /\ process[p].up /\ ~process[p].saving /\ key \in ProjectKeys
  /\ v \notin kind.refused
  /\ process' = [process EXCEPT ![p].value = v, ![p].fate = IF @ = "old" THEN "old" ELSE "set"]
  /\ UNCHANGED <<key, kind, file, torn>>

\* The classifier is taken out of the map.
DeleteProjectClassifier(p) ==
  /\ process[p].up /\ ~process[p].saving
  /\ key = "projects.p" /\ process[p].value # ""
  /\ process' = [process EXCEPT ![p].value = "", ![p].fate = IF @ = "old" THEN "old" ELSE "set"]
  /\ UNCHANGED <<key, kind, file, torn>>

\* The file is truncated, and then written with all settings the process has.
SaveConfig(p) ==
  /\ process[p].up /\ ~process[p].saving
  /\ torn' = torn \cup {Dir(p)}
  /\ process' = [process EXCEPT ![p].saving = TRUE]
  /\ UNCHANGED <<key, kind, file>>

\* Whoever has loaded that file has an old value now.
Written(p) ==
  /\ process[p].saving
  /\ file' = [file EXCEPT ![Dir(p)] = <<process[p].value>>]
  /\ torn' = torn \ {Dir(p)}
  /\ process' = [q \in Processes |->
                IF q = p THEN [process[p] EXCEPT !.saving = FALSE, !.fate = IF @ \in {"set", "old"} THEN "saved" ELSE @]
                ELSE IF Dir(p) = "global" \/ q \in InRepo THEN [process[q] EXCEPT !.fate = "old"] ELSE process[q]]
  /\ UNCHANGED <<key, kind>>

Die(p) ==
  /\ process[p].up
  /\ process' = [process EXCEPT ![p] = Down]
  /\ UNCHANGED <<key, kind, file, torn>>

SettingsNext ==
  \E p \in Processes :
    \/ Start(p) \/ SaveConfig(p) \/ Written(p) \/ Die(p) \/ DeleteProjectClassifier(p)
    \/ \E v \in kind.values : Set(p, v) \/ SaveClassifier(p, v)

SettingsSpec == SettingsInit /\ [][SettingsNext]_settingsVars

-----------------------------------------------------------------------------

\* What a setting was last saved as comes back: all of those read as they are, any
\* other that is read at all if it is not empty, or nothing under it shows through.
ComesBack(v) ==
  \/ kind.read = "always"
  \/ kind.read = "if true" /\ v
  \/ kind.read = "given" /\ v # kind.zero
  \/ /\ kind.read = "given" /\ file.global \in {<< >>, <<kind.zero>>}
     /\ kind.default = kind.zero \/ kind.defaulted

\* A process that comes up uses what the last to save the setting used, and one that
\* only changes other settings, which saves all of them, changes nothing for this one.
SavedIsRead ==
  \A p \in Processes :
    process[p].up /\ torn = {} =>
      /\ process[p].fate = "loaded" => New(p) = process[p].value
      /\ process[p].fate = "saved" /\ ComesBack(process[p].value) => Used(New(p)) = Used(process[p].value)

\* Whoever sends a field of the settings page as it is shown, or sets a setting to what
\* "config get" said of it, changes nothing, unless the page shows words for an empty
\* value or the value is masked.
ShownIsSame ==
  \A p \in Processes :
    LET v == process[p].value IN
    /\ kind.page = "text" \/ (kind.page = "words" /\ v # "") => Used(SetTo(v, valueOrDefault(v))) = Used(v)
    /\ kind.shown \in {"used", "raw"} => Used(SetTo(v, Get(v))) = Used(v)
=============================================================================
