------------------------------- MODULE Tables -------------------------------
(***************************************************************************)
(* The SQLite store as a value: every operation is a function from the     *)
(* tables to the tables, every query one from the tables to its answer.    *)
(* A table is a function from its primary key to the columns told apart.   *)
(* An operation that fails leaves the tables as they are.                  *)
(***************************************************************************)
LOCAL INSTANCE Integers
LOCAL INSTANCE FiniteSets
LOCAL INSTANCE Sequences
LOCAL INSTANCE SequencesExt

CONSTANTS
  BranchOf,   \* the branch each session is captured on
  CreatedAt,  \* when each session began, no two at once
  NormalizeTag, \* each tag as it is written to the tag it stands for, None for a blank
  None        \* an empty column

Put(f, k, v) == [x \in DOMAIN f \cup {k} |-> IF x = k THEN v ELSE f[x]]
Without(f, K) == [x \in DOMAIN f \ K |-> f[x]]
ListOf(f, k) == IF k \in DOMAIN f THEN f[k] ELSE << >>
Where(f, P(_)) == {k \in DOMAIN f : P(k)}

NoTables ==
  [sessions |-> << >>, links |-> << >>, tags |-> {}, analytics |-> << >>, agents |-> << >>, hotspots |-> << >>,
   forks |-> << >>, objectives |-> << >>, pairs |-> {}, stalls |-> << >>, notices |-> << >>, jobs |-> << >>,
   capabilities |-> << >>, users |-> << >>, pulls |-> << >>, onPull |-> {}, advice |-> << >>, analyses |-> << >>,
   preferences |-> << >>, snapshots |-> << >>]

Known(db, s) == s \in DOMAIN db.sessions
Ok(db) == [db |-> db, answer |-> "ok"]
Failed(db, why) == [db |-> db, answer |-> why]
Returned(db, answer) == [db |-> db, answer |-> answer]
\* An UPDATE of one session, which must touch a row.
Update(db, s, column, value) ==
  IF Known(db, s) THEN Ok([db EXCEPT !.sessions[s][column] = value]) ELSE Failed(db, "not found")

-----------------------------------------------------------------------------
(* Sessions and what is kept in their row.                                 *)

\* The row is inserted or overwritten whole, stamped hot where it has no tier; links
\* are replaced by those of the session.
Save(db, s, sess) ==
  Ok([db EXCEPT
    !.sessions = Put(@, s, [type |-> sess.type, payload |-> sess, summary |-> sess.summary, category |-> None,
                            remote |-> None, cost |-> 0, branch |-> BranchOf[s], created |-> CreatedAt[s],
                            tier |-> "hot", accessed |-> None]),
    !.links = SelectSeq(@, LAMBDA l : l.session # s)])

\* A payload with its empty fields filled from the columns.
Overlaid(row) ==
  [type     |-> IF row.payload.type = None THEN row.type ELSE row.payload.type,
   category |-> row.category,
   remote   |-> row.remote,
   summary  |-> row.payload.summary]

\* Links come from their table, by a query of their own.
Get(db, s) ==
  IF ~Known(db, s) THEN None
  ELSE [row |-> Overlaid(db.sessions[s]), links |-> SelectSeq(db.links, LAMBDA l : l.session = s)]

\* Mutation: a session without links is left out.
GetBatchJoined(db, ids) ==
  LET found == Where(db.sessions, LAMBDA s : s \in ids /\ \E i \in DOMAIN db.links : db.links[i].session = s)
  IN  [s \in found |-> [row |-> Overlaid(db.sessions[s]), links |-> SelectSeq(db.links, LAMBDA l : l.session = s)]]

\* One query for the rows and one for the links of all of them, handed out by session;
\* unknown ids are left out.
GetBatch(db, ids) ==
  LET rows  == [s \in Where(db.sessions, LAMBDA s : s \in ids) |-> db.sessions[s]]
      links == SelectSeq(db.links, LAMBDA l : l.session \in ids)
  IN  [s \in DOMAIN rows |-> [row |-> Overlaid(rows[s]), links |-> SelectSeq(links, LAMBDA l : l.session = s)]]

\* ON DELETE CASCADE empties the tables that declare it; forks, objectives and stalls do not.
Cascade(db, gone) ==
  [db EXCEPT
    !.sessions = Without(@, gone), !.links = SelectSeq(@, LAMBDA l : l.session \notin gone),
    !.tags = {t \in @ : t.session \notin gone}, !.analytics = Without(@, gone), !.agents = Without(@, gone),
    !.hotspots = Without(@, gone), !.onPull = {l \in @ : l.session \notin gone}, !.analyses = Without(@, gone),
    !.pairs = {p \in @ : {p.source, p.target} \cap gone = {}}]

Delete(db, s) == IF Known(db, s) THEN Ok(Cascade(db, {s})) ELSE Failed(db, "not found")

DeleteOlderThan(db, before) ==
  LET gone == Where(db.sessions, LAMBDA s : db.sessions[s].created < before)
  IN  Returned(Cascade(db, gone), Cardinality(gone))

\* A filter names the columns it restricts.
Matches(row, filter) == \A c \in DOMAIN filter : row[c] = filter[c]
Newest(db, ids) == SetToSortSeq(ids, LAMBDA a, b : db.sessions[a].created > db.sessions[b].created)
FirstOf(seq, limit) == SubSeq(seq, 1, IF Len(seq) < limit THEN Len(seq) ELSE limit)

List(db, filter) == Newest(db, Where(db.sessions, LAMBDA s : Matches(db.sessions[s], filter)))

GetLatestByBranch(db, branch) ==
  LET on == Where(db.sessions, LAMBDA s : db.sessions[s].branch = branch)
  IN  IF on = {} THEN None
      ELSE Get(db, CHOOSE s \in on : \A t \in on : db.sessions[t].created <= db.sessions[s].created)

CountByBranch(db, branch) == Cardinality(Where(db.sessions, LAMBDA s : db.sessions[s].branch = branch))

UpdateSummary(db, s, v)      == Update(db, s, "summary", v)
UpdateSessionType(db, s, v)  == Update(db, s, "type", v)
SetProjectCategory(db, s, v) == Update(db, s, "category", v)
UpdateRemoteURL(db, s, v)    == Update(db, s, "remote", v)
TouchSessionAccessed(db, s, at)     == Update(db, s, "accessed", at)
UpdateSessionRetention(db, s, tier) == Update(db, s, "tier", tier)

\* The only update that does not mind a missing row.
UpdateCosts(db, s, v) == Ok(Update(db, s, "cost", v).db)

\* Every session of the project that has no category yet.
UpdateProjectCategory(db, v) ==
  LET bare == Where(db.sessions, LAMBDA s : db.sessions[s].category = None)
  IN  Returned([db EXCEPT !.sessions = [s \in DOMAIN @ |-> IF s \in bare THEN [@[s] EXCEPT !.category = v] ELSE @[s]]],
               Cardinality(bare))

ListSessionsWithEmptyRemoteURL(db, limit) == FirstOf(List(db, [remote |-> None]), limit)
ListSessionsWithZeroCosts(db, limit)      == FirstOf(List(db, [cost |-> 0]), limit)

Oldest(db, tier, cutoff) ==
  SetToSortSeq(Where(db.sessions, LAMBDA s : db.sessions[s].tier = tier /\ db.sessions[s].created <= cutoff),
               LAMBDA a, b : db.sessions[a].created < db.sessions[b].created)
ListWarmCompactionCandidates(db, cutoff, limit) == FirstOf(Oldest(db, "hot", cutoff), limit)
ListColdCompactionCandidates(db, cutoff, limit) == FirstOf(Oldest(db, "warm", cutoff), limit)

RetentionStorageStats(db) ==
  LET tiers == {db.sessions[s].tier : s \in DOMAIN db.sessions}
  IN  [t \in tiers |-> Cardinality({s \in DOMAIN db.sessions : db.sessions[s].tier = t})]

-----------------------------------------------------------------------------
(* Search: a count, one page and the values to narrow it by.               *)

buildSearchWhere(db, q) == Where(db.sessions, LAMBDA s : Matches(db.sessions[s], q))

Search(db, q, limit, offset) ==
  LET found == Newest(db, buildSearchWhere(db, q))
  IN  [total |-> Len(found), page |-> FirstOf(SubSeq(found, offset + 1, Len(found)), limit)]

\* How many of the sessions found have each value of a column; empty values are left out.
SearchFacets(db, q, column) ==
  LET found == buildSearchWhere(db, q)
      values == {db.sessions[s][column] : s \in found} \ {None}
  IN  [v \in values |-> Cardinality({s \in found : db.sessions[s][column] = v})]

\* Sessions by remote, or each path on its own where there is none.
ListProjects(db) ==
  LET of(s) == IF db.sessions[s].remote = None THEN <<"path", s>> ELSE <<"remote", db.sessions[s].remote>>
  IN  [p \in {of(s) : s \in DOMAIN db.sessions} |-> Cardinality({s \in DOMAIN db.sessions : of(s) = p})]

-----------------------------------------------------------------------------
(* Links to branches, tickets and pull requests, and between sessions.     *)

AddLink(db, s, ref) ==
  IF Known(db, s) THEN Ok([db EXCEPT !.links = Append(@, [session |-> s, ref |-> ref])]) ELSE Failed(db, "not found")

\* The join has one row for each link, so a session linked twice is there twice.
GetByLink(db, ref) ==
  LET rows == SelectSeq(db.links, LAMBDA l : l.ref = ref)
  IN  IF rows = << >> THEN None ELSE [s \in {rows[i].session : i \in DOMAIN rows} |->
                                        Cardinality({i \in DOMAIN rows : rows[i].session = s})]

DistinctLinkRefs(db) == {db.links[i].ref : i \in DOMAIN db.links}

\* A link and its inverse in one transaction, each unless it is there already.
LinkSessions(db, s, t) ==
  IF ~(Known(db, s) /\ Known(db, t)) THEN Failed(db, "not found")
  ELSE Ok([db EXCEPT !.pairs = @ \cup {[source |-> s, target |-> t, kind |-> "delegates"],
                                         [source |-> t, target |-> s, kind |-> "delegated"]}])

GetLinkedSessions(db, s) == {p \in db.pairs : p.source = s}

\* By id: the inverse is another row and stays.
DeleteSessionLink(db, p) == IF p \in db.pairs THEN Ok([db EXCEPT !.pairs = @ \ {p}]) ELSE Failed(db, "not found")

SaveForkRelation(db, orig, fork, point) == Ok([db EXCEPT !.forks = Put(@, <<orig, fork>>, point)])
GetForkRelations(db, s) == {k \in DOMAIN db.forks : s \in {k[1], k[2]}}

\* Each relation goes to both of its ends that were asked for.
GetForkRelationsForSessions(db, ids) ==
  LET rows == {k \in DOMAIN db.forks : k[1] \in ids \/ k[2] \in ids}
      ends == {k[1] : k \in rows} \cup {k[2] : k \in rows}
  IN  [s \in ends \cap ids |-> {k \in rows : s \in {k[1], k[2]}}]

SaveObjective(db, s, intent) == Ok([db EXCEPT !.objectives = Put(@, s, intent)])
GetObjective(db, s) == IF s \in DOMAIN db.objectives THEN db.objectives[s] ELSE None
ListObjectives(db, ids) == [s \in ids \cap DOMAIN db.objectives |-> db.objectives[s]]

-----------------------------------------------------------------------------
(* Tags. A tag is compared as it is normalised.                            *)

dedupNormalizedTags(raw) == {NormalizeTag[r] : r \in raw} \ {None}
Tagging(s, raw) == {[session |-> s, tag |-> t] : t \in dedupNormalizedTags(raw)}

\* One statement for each tag, in a transaction; a tag that is there is ignored.
AddTags(db, s, raw) ==
  LET new == Tagging(s, raw) \ db.tags
  IN  CASE Tagging(s, raw) = {} -> Returned(db, 0)
        [] ~Known(db, s)  -> Failed(db, "foreign key")
        [] OTHER          -> Returned([db EXCEPT !.tags = @ \cup new], Cardinality(new))

RemoveTags(db, s, raw) ==
  LET old == Tagging(s, raw) \cap db.tags
  IN  Returned([db EXCEPT !.tags = @ \ old], Cardinality(old))

GetTags(db, s) == {t.tag : t \in {r \in db.tags : r.session = s}}
GetTagsBatch(db, ids) ==
  LET rows == {r \in db.tags : r.session \in ids}
  IN  [s \in {r.session : r \in rows} |-> {t.tag : t \in {r \in rows : r.session = s}}]
ListAllTags(db) == [t \in {r.tag : r \in db.tags} |-> Cardinality({r \in db.tags : r.tag = t})]

\* The sessions that have all of the tags, by counting those they have.
FilterSessionIDsByTags(db, ids, raw) ==
  LET tags == dedupNormalizedTags(raw) IN
  IF tags = {} \/ ids = {} THEN ids
  ELSE {s \in ids : Cardinality({r \in db.tags : r.session = s /\ r.tag \in tags}) = Cardinality(tags)}

-----------------------------------------------------------------------------
(* What is computed once for each session.                                 *)

\* The row and the rows of the agents, in one transaction.
UpsertSessionAnalytics(db, s, a) ==
  IF ~Known(db, s) THEN Failed(db, "foreign key")
  ELSE Ok([db EXCEPT !.analytics = Put(@, s, a), !.agents = Put(@, s, a.agents)])

GetSessionAnalytics(db, s) ==
  IF s \in DOMAIN db.analytics THEN [db.analytics[s] EXCEPT !.agents = db.agents[s]] ELSE None

\* Newest first, of the sessions that are there.
QueryAnalytics(db, filter, schema) ==
  Newest(db, {s \in DOMAIN db.analytics \cap DOMAIN db.sessions :
                Matches(db.sessions[s], filter) /\ db.analytics[s].schema >= schema})

NeedingRow(db, table, schema, limit) ==
  FirstOf(Newest(db, Where(db.sessions, LAMBDA s : s \notin DOMAIN table \/ table[s].schema < schema)), limit)

ListSessionsNeedingAnalytics(db, schema, limit) == NeedingRow(db, db.analytics, schema, limit)

SetHotspots(db, s, h) ==
  IF Known(db, s) THEN Ok([db EXCEPT !.hotspots = Put(@, s, h)]) ELSE Failed(db, "foreign key")

GetHotspots(db, s) == IF s \in DOMAIN db.hotspots THEN db.hotspots[s] ELSE None
ListSessionsNeedingHotspots(db, schema, limit) == NeedingRow(db, db.hotspots, schema, limit)

-----------------------------------------------------------------------------
(* Stalls, the notification log, cron jobs, capabilities and users.        *)

Larger(a, b) == IF a > b THEN a ELSE b
NextId(table) == Cardinality(DOMAIN table) + 1

\* One row for each tool call; what the detector does not know is kept.
UpsertStall(db, k, stall) ==
  LET old == db.stalls[k]
      new == [id |-> NextId(db.stalls), started |-> stall.started, ended |-> stall.ended,
              length |-> IF stall.ended = None THEN 0 ELSE stall.ended - stall.started, tokens |-> stall.tokens]
  IN  Ok([db EXCEPT !.stalls = Put(@, k,
        IF k \notin DOMAIN db.stalls THEN new
        ELSE [old EXCEPT !.ended = IF stall.ended = None THEN @ ELSE stall.ended,
                         !.length = IF new.length = 0 THEN @ ELSE new.length,
                         !.tokens = Larger(@, stall.tokens)])])

Sealed(stall, at) == [stall EXCEPT !.ended = at, !.length = at - stall.started]

\* Mutation: a stall that is sealed is sealed again.
SealStallAgain(db, id, at) ==
  Ok([db EXCEPT !.stalls = [k \in DOMAIN @ |-> IF @[k].id = id THEN Sealed(@[k], at) ELSE @[k]]])

SealStall(db, id, at) ==
  Ok([db EXCEPT !.stalls = [k \in DOMAIN @ |-> IF @[k].id = id /\ @[k].ended = None THEN Sealed(@[k], at) ELSE @[k]]])

GetStall(db, id) == {db.stalls[k] : k \in Where(db.stalls, LAMBDA k : db.stalls[k].id = id)}
ListStalls(db, live) == Where(db.stalls, LAMBDA k : live => db.stalls[k].ended = None)
ListLiveStalls(db) == ListStalls(db, TRUE)

StallStats(db) ==
  [count |-> Cardinality(DOMAIN db.stalls), live |-> Cardinality(ListLiveStalls(db)),
   length |-> {<<k, db.stalls[k].length>> : k \in DOMAIN db.stalls},
   tokens |-> {<<k, db.stalls[k].tokens>> : k \in DOMAIN db.stalls}]

\* A severity is given to an entry that has none; an entry without an event type is refused.
InsertNotificationLog(db, entry) ==
  IF entry.event = None THEN Failed(db, "event type required")
  ELSE LET id == Cardinality(DOMAIN db.notices) + 1
       IN  Returned([db EXCEPT !.notices = Put(@, id,
                        [entry EXCEPT !.severity = IF @ = None THEN "info" ELSE @])], id)

\* Newest first; the offset counts only where there is a limit.
ListNotificationLogs(db, unack, limit, offset) ==
  LET found == SetToSortSeq(Where(db.notices, LAMBDA i : unack => db.notices[i].by = None), LAMBDA a, b : a > b)
  IN  IF limit = 0 THEN found ELSE FirstOf(SubSeq(found, offset + 1, Len(found)), limit)

UnacknowledgedNotificationCount(db) == Len(ListNotificationLogs(db, TRUE, 0, 0))

\* The first acknowledgement counts.
AcknowledgeNotification(db, i, actor) ==
  IF i = 0 THEN Failed(db, "id required")
  ELSE Ok([db EXCEPT !.notices = [n \in DOMAIN @ |->
               IF n = i /\ @[n].by = None THEN [@[n] EXCEPT !.by = actor] ELSE @[n]]])

AcknowledgeAllNotifications(db, actor) ==
  Returned([db EXCEPT !.notices = [n \in DOMAIN @ |-> IF @[n].by = None THEN [@[n] EXCEPT !.by = actor] ELSE @[n]]],
           UnacknowledgedNotificationCount(db))

\* A job is replaced whole; jobs are never removed.
UpsertCronJob(db, j, job) == Ok([db EXCEPT !.jobs = Put(@, j, job)])
ListCronJobs(db, provider) == Where(db.jobs, LAMBDA j : provider \in {None, db.jobs[j].provider})
GetCronJob(db, j) == IF j \in DOMAIN db.jobs THEN db.jobs[j] ELSE None

\* A scan: what it finds is active, what it does not find any more is not, and stays.
UpsertCapabilities(db, found, now) ==
  Ok([db EXCEPT !.capabilities = [c \in DOMAIN @ \cup found |->
          [active |-> c \in found,
           first  |-> IF c \in DOMAIN db.capabilities THEN db.capabilities[c].first ELSE now,
           last   |-> IF c \in found THEN now ELSE db.capabilities[c].last]]])

ListCapabilities(db, activeOnly) == Where(db.capabilities, LAMBDA c : activeOnly => db.capabilities[c].active)

\* Mutation: the address is not unique.
SaveUserAgain(db, u, user) == Ok([db EXCEPT !.users = Put(@, u, user)])

\* Users are one for each address: a second one gives the first its name, kind and role.
SaveUser(db, u, user) ==
  LET same == Where(db.users, LAMBDA v : db.users[v].email = user.email)
  IN  Ok([db EXCEPT !.users =
         IF same = {} THEN Put(@, u, user)
         ELSE [v \in DOMAIN @ |-> IF v \in same THEN [user EXCEPT !.slack = db.users[v].slack] ELSE @[v]]])

GetUser(db, u) == IF u \in DOMAIN db.users THEN db.users[u] ELSE None
GetUserByEmail(db, email) == Where(db.users, LAMBDA u : db.users[u].email = email)
ListUsersByKind(db, kind) == Where(db.users, LAMBDA u : db.users[u].kind = kind)

UpdateUser(db, u, column, v) ==
  IF u \in DOMAIN db.users THEN Ok([db EXCEPT !.users[u][column] = v]) ELSE Failed(db, "not found")
UpdateUserSlack(db, u, v) == UpdateUser(db, u, "slack", v)
UpdateUserKind(db, u, v)  == UpdateUser(db, u, "kind", v)
UpdateUserRole(db, u, v)  == UpdateUser(db, u, "role", v)

\* Sessions are counted by their owner, known or not.
OwnerStats(db, OwnerOf) ==
  LET owners == {OwnerOf[s] : s \in DOMAIN db.sessions}
  IN  [o \in owners |-> [count |-> Cardinality({s \in DOMAIN db.sessions : OwnerOf[s] = o}),
                         kind  |-> IF o \in DOMAIN db.users THEN db.users[o].kind ELSE "unknown"]]

-----------------------------------------------------------------------------
(* Pull requests, recommendations, analyses, preferences and snapshots.    *)

SavePullRequest(db, p, pull) == Ok([db EXCEPT !.pulls = Put(@, p, pull)])
GetPullRequest(db, p) == IF p \in DOMAIN db.pulls THEN db.pulls[p] ELSE None
ListPullRequests(db, state) == Where(db.pulls, LAMBDA p : state \in {None, db.pulls[p].state})
LinkSessionPR(db, s, p) ==
  IF Known(db, s) THEN Ok([db EXCEPT !.onPull = @ \cup {[session |-> s, pull |-> p]}]) ELSE Failed(db, "foreign key")

\* Both are joins: a link to a pull request that was not fetched shows nowhere.
GetSessionsForPR(db, p) == {s \in DOMAIN db.sessions : [session |-> s, pull |-> p] \in db.onPull}
GetPRsForSession(db, s) == {p \in DOMAIN db.pulls : [session |-> s, pull |-> p] \in db.onPull}
ListPRsWithSessions(db, state) == [p \in ListPullRequests(db, state) |-> GetSessionsForPR(db, p)]

UpsertRecommendation(db, f, title) ==
  Ok([db EXCEPT !.advice =
    IF f \notin DOMAIN @ THEN Put(@, f, [title |-> title, status |-> "active"])
    ELSE IF @[f].status = "active" THEN [@ EXCEPT ![f].title = title] ELSE @])

Resolve(db, f, status) ==
  Ok([db EXCEPT !.advice = [g \in DOMAIN @ |-> IF g = f THEN [@[g] EXCEPT !.status = status] ELSE @[g]]])
DismissRecommendation(db, f) == Resolve(db, f, "dismissed")
SnoozeRecommendation(db, f)  == Resolve(db, f, "snoozed")

ListRecommendations(db, status) == Where(db.advice, LAMBDA f : status \in {None, db.advice[f].status})

RecommendationStats(db) ==
  LET of(status) == Cardinality(Where(db.advice, LAMBDA f : db.advice[f].status = status))
  IN  [total |-> Cardinality(DOMAIN db.advice), active |-> of("active"), dismissed |-> of("dismissed"),
       snoozed |-> of("snoozed")]

DeleteRecommendationsByProject(db) == Returned([db EXCEPT !.advice = << >>], Cardinality(DOMAIN db.advice))

\* The analyses of a session, the newest first.
SaveAnalysis(db, s, a) ==
  IF ~Known(db, s) THEN Failed(db, "foreign key")
  ELSE Ok([db EXCEPT !.analyses = Put(@, s, <<a>> \o ListOf(@, s))])
ListAnalyses(db, s) == ListOf(db.analyses, s)
GetAnalysisBySession(db, s) == IF ListAnalyses(db, s) = << >> THEN None ELSE ListAnalyses(db, s)[1]

\* Those of a user, or of no user for everybody's.
SavePreferences(db, u, prefs) == Ok([db EXCEPT !.preferences = Put(@, u, prefs)])
GetPreferences(db, u) == IF u \in DOMAIN db.preferences THEN db.preferences[u] ELSE None

SaveProjectSnapshot(db, p, snapshot) == Ok([db EXCEPT !.snapshots = Put(@, p, <<snapshot>> \o ListOf(@, p))])
ListSnapshots(db, p, limit) == FirstOf(ListOf(db.snapshots, p), limit)
GetLatestSnapshot(db, p) == IF ListOf(db.snapshots, p) = << >> THEN None ELSE ListOf(db.snapshots, p)[1]
=============================================================================
