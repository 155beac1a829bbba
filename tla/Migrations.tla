----------------------------- MODULE Migrations -----------------------------
(***************************************************************************)
(* Opening the store: every process that opens the database creates the    *)
(* schema and runs all the migrations, one statement at a time and outside *)
(* of a transaction.  Statements with IF NOT EXISTS are one step "make";   *)
(* a column is looked up and then added, with what else its guard covers.  *)
(***************************************************************************)
EXTENDS Integers, Sequences, FiniteSets

CONSTANTS
  Openers,   \* processes that open the database
  Crashes    \* bound on the processes that die on the way

\* Statements: <<operation, what it makes, how much a guard skips>>.
Make(t)       == << <<"make", t, 0>> >>
Column(c)     == << <<"look", c, 1>>, <<"add", c, 0>> >>
With(c, then) == << <<"look", c, 2>>, <<"add", c, 0>>, <<"make", then, 0>> >>

Base    == Make("sessions") \o Make("session_links") \o Make("file_changes")
First   == Make("users") \o Column("owner_id") \o Make("session_analyses")
             \o Column("tool_call_count") \o With("error_count", "filled counts")
             \o Make("user_preferences") \o Column("source_updated_at")
             \o Make("stats_cache") \o Make("session_session_links")
Marks   == With("remote_url", "index remote_url") \o With("session_type", "index session_type")
             \o Make("auth") \o With("project_category", "index project_category")
             \o Make("session_forks") \o Make("session_objectives")
Buckets == Make("token_usage_buckets") \o Column("details") \o Column("status")
Events  == Make("session_errors") \o Make("session_events") \o Make("event_buckets")
Rekey   == Column("llm_backend") \o Column("costs") \o Make("index key")
             \o << <<"rekey", "old key", 2>>, <<"drop", "token_usage_buckets", 0>>,
                   <<"create", "token_usage_buckets", 0>> >>
Tools   == Make("tool_usage_buckets") \o << <<"force", "cache_tokens", 0>> >>
             \o Make("project_snapshots") \o Column("tool_name") \o Column("top_mcp_servers")
Pulls   == Make("pull_requests") \o Make("session_pull_requests") \o Column("kind")
Advice  == Make("recommendations") \o Column("estimated_cost") \o Make("project_capabilities")
Sidecar == Make("session_analytics") \o Make("session_agent_usage") \o Make("session_hotspots")
Prints  == Make("error_fingerprints") \o Column("fingerprint") \o Make("session_tags")
Ledgers == Make("session_stalls") \o Make("notification_log") \o Make("cron_jobs")
Tiers   == Column("retention_tier") \o Column("last_accessed_at") \o Make("index retention")

Steps == Base \o First \o Marks \o Buckets \o Events \o Rekey \o Tools
           \o Pulls \o Advice \o Sidecar \o Prints \o Ledgers \o Tiers

\* What is part of the one table that is dropped, and what its second form has at once.
Part    == {"details", "llm_backend", "costs", "cache_tokens", "index key"}
Created == {"details", "llm_backend", "costs"}

Tables  == LET all == Steps
           IN { all[i][2] : i \in { j \in DOMAIN all : all[j][1] \in {"make", "add", "force"} } }
Guarded == { Steps[i + 1][2] : i \in { j \in DOMAIN Steps \ {Len(Steps)} :
                                         Steps[j][1] = "add" /\ Steps[j - 1][3] = 2 } }

\* Where the buckets are made for the first time, dropped, and get their last column.
At(op, what) == CHOOSE i \in DOMAIN Steps : Steps[i][1] = op /\ Steps[i][2] = what
Made    == At("make", "token_usage_buckets")
Dropped == At("drop", "token_usage_buckets")
Forced  == At("force", "cache_tokens")

\* What a proof needs to know of the list: a look is followed by the column it looks
\* for and what the guard covers, and nothing else adds a column, each one once.
GuardsInPlace ==
  \A i \in DOMAIN Steps :
    /\ Steps[i][1] = "look" =>
         /\ Steps[i][3] \in {1, 2} /\ i + Steps[i][3] \in DOMAIN Steps
         /\ Steps[i + 1][1] = "add" /\ Steps[i + 1][2] = Steps[i][2]
         /\ Steps[i][3] = 2 => Steps[i + 2][1] = "make" /\ Steps[i + 2][2] \in Guarded
    /\ Steps[i][1] = "add" =>
         /\ i - 1 \in DOMAIN Steps /\ Steps[i - 1][1] = "look"
         /\ \A j \in DOMAIN Steps :
              Steps[j][2] = Steps[i][2] /\ Steps[j][1] \in {"add", "make", "force"} => j = i

\* The buckets are made once and made anew once, after which they get their last column.
BucketsInPlace ==
  /\ Made \in DOMAIN Steps /\ Dropped \in DOMAIN Steps /\ Forced \in DOMAIN Steps
  /\ Steps[Made][1] = "make" /\ Steps[Made][2] = "token_usage_buckets"
  /\ 1 < Made /\ Made < Dropped - 1 /\ Dropped + 1 < Forced
  /\ \A i \in DOMAIN Steps :
       /\ Steps[i][1] \in {"make", "add", "force"} /\ Steps[i][2] = "token_usage_buckets" => i = Made
       /\ Steps[i][1] = "rekey" <=> i = Dropped - 1
       /\ Steps[i][1] = "drop" <=> i = Dropped
       /\ Steps[i][1] = "create" <=> i = Dropped + 1
       /\ Steps[i][1] = "force" <=> i = Forced
       /\ i \in Dropped + 2 .. Forced - 1 => Steps[i][1] = "make" /\ Steps[i][2] \notin Part
  /\ Steps[Dropped - 1][3] = 2 /\ Steps[Dropped + 1][2] = "token_usage_buckets" /\ Steps[Forced][2] = "cache_tokens"
  /\ "token_usage_buckets" \in Tables \ (Guarded \cup Part) /\ Created \subseteq Tables /\ "old key" \notin Tables

MigrationsAssumption ==
  /\ Crashes \in Nat
  /\ Steps \in Seq(STRING \X STRING \X (0 .. 2)) /\ Len(Steps) > 0
  /\ \A i \in DOMAIN Steps : Steps[i][1] \in {"make", "look", "add", "rekey", "drop", "create", "force"}
  /\ GuardsInPlace /\ BucketsInPlace

VARIABLES
  schema,   \* the tables, columns and indexes, and "old key" while the buckets have theirs
  position, \* the statement each process is at, 0 before New, Ready after it
  crashed   \* how many have died

migVars == <<schema, position, crashed>>

Ready == Len(Steps) + 1

MigTypeOK ==
  /\ schema \subseteq Tables \cup {"old key"}
  /\ position \in [Openers -> 0 .. Ready]
  /\ crashed \in 0 .. Crashes
  /\ schema \cap (Part \cup {"old key"}) # {} => "token_usage_buckets" \in schema

MigInit ==
  /\ schema = {}
  /\ position = [o \in Openers |-> 0]
  /\ crashed = 0

New(o) ==
  /\ position[o] = 0
  /\ position' = [position EXCEPT ![o] = 1]
  /\ UNCHANGED <<schema, crashed>>

Close(o) ==
  /\ position[o] = Ready
  /\ position' = [position EXCEPT ![o] = 0]
  /\ UNCHANGED <<schema, crashed>>

Crash(o) ==
  /\ position[o] \in 1 .. Len(Steps) /\ crashed < Crashes
  /\ position' = [position EXCEPT ![o] = 0]
  /\ crashed' = crashed + 1
  /\ UNCHANGED schema

-----------------------------------------------------------------------------

Op(o)   == Steps[position[o]][1]
What(o) == Steps[position[o]][2]

Advance(o, n) == position' = [position EXCEPT ![o] = @ + n]
Error(o) == position' = [position EXCEPT ![o] = 0] /\ UNCHANGED schema

\* A statement about a table that is not there fails.
Lost(o) == What(o) \in Part /\ "token_usage_buckets" \notin schema

\* A bucket table that IF NOT EXISTS makes has the old key.
MakeIfMissing(o) ==
  /\ position[o] \in DOMAIN Steps /\ Op(o) = "make"
  /\ IF Lost(o) THEN Error(o)
     ELSE /\ schema' = schema \cup {What(o)} \cup
                 (IF What(o) = "token_usage_buckets" /\ What(o) \notin schema
                  THEN {"old key"} ELSE {})
          /\ Advance(o, 1)
  /\ UNCHANGED crashed

\* Mutation of ColumnExists: the statement after the guard is skipped as well.
LookTooFar(o) ==
  /\ position[o] \in DOMAIN Steps /\ Op(o) = "look"
  /\ Advance(o, IF What(o) \in schema THEN Steps[position[o]][3] + 2 ELSE 1)
  /\ UNCHANGED <<schema, crashed>>

\* The look at table_info, and what the guard covers is skipped for a column that is there.
ColumnExists(o) ==
  /\ position[o] \in DOMAIN Steps /\ Op(o) = "look"
  /\ Advance(o, IF What(o) \in schema THEN Steps[position[o]][3] + 1 ELSE 1)
  /\ UNCHANGED <<schema, crashed>>

\* ALTER TABLE: a column added by another process meanwhile is an error, unless ignored.
AddColumn(o) ==
  /\ position[o] \in DOMAIN Steps /\ Op(o) \in {"add", "force"}
  /\ IF Lost(o) \/ What(o) \in schema
     THEN IF Op(o) = "force" THEN Advance(o, 1) /\ UNCHANGED schema ELSE Error(o)
     ELSE schema' = schema \cup {What(o)} /\ Advance(o, 1)
  /\ UNCHANGED crashed

\* The primary key of the token buckets lacks the backend: the table is made anew.
HasBadPK(o) ==
  /\ position[o] \in DOMAIN Steps /\ Op(o) = "rekey"
  /\ Advance(o, IF "old key" \in schema THEN 1 ELSE Steps[position[o]][3] + 1)
  /\ UNCHANGED <<schema, crashed>>

DropTable(o) ==
  /\ position[o] \in DOMAIN Steps /\ Op(o) = "drop"
  /\ schema' = schema \ (Part \cup {"token_usage_buckets", "old key"})
  /\ Advance(o, 1)
  /\ UNCHANGED crashed

CreateTable(o) ==
  /\ position[o] \in DOMAIN Steps /\ Op(o) = "create"
  /\ IF What(o) \in schema THEN Error(o)
     ELSE schema' = schema \cup Created \cup {What(o)} /\ Advance(o, 1)
  /\ UNCHANGED crashed

RunMigrations(o) ==
  MakeIfMissing(o) \/ ColumnExists(o) \/ AddColumn(o) \/ HasBadPK(o) \/ DropTable(o) \/ CreateTable(o)

MigNext == \E o \in Openers : New(o) \/ Close(o) \/ Crash(o) \/ RunMigrations(o)

MigSpec == MigInit /\ [][MigNext]_migVars

-----------------------------------------------------------------------------
(* Properties.                                                             *)

\* A store that is open, with nobody migrating, has every table and column, whoever
\* died on the way and whoever raced; what a guard covers and the one index that goes
\* with the dropped table are not claimed.
Usable ==
  (\A o \in Openers : position[o] \in {0, Ready}) /\ (\E o \in Openers : position[o] = Ready)
    => Tables \ (Guarded \cup {"index key"}) \subseteq schema /\ "old key" \notin schema

\* It has everything the migrations make (sqlite.go, runMigrations: "Backfill from
\* payload JSON for existing sessions", and the indexes of migrations 008 to 011).
Whole ==
  (\A o \in Openers : position[o] \in {0, Ready}) /\ (\E o \in Openers : position[o] = Ready)
    => Guarded \subseteq schema
=============================================================================
