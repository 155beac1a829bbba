----------------------------- MODULE MockStore -----------------------------
(***************************************************************************)
(* The store in memory that the tests of the services run on, beside the   *)
(* one in SQLite: every call is made on both, and what the tests see of    *)
(* the one should be what the program sees of the other.                   *)
(*                                                                         *)
(* The calls are those on which the two are meant to agree: of sessions    *)
(* that are stored, of links from a session to another that is not linked  *)
(* to it yet.  What they differ in is in README.md.                        *)
(***************************************************************************)
EXTENDS Tables, Integers, Sequences, FiniteSets
LOCAL INSTANCE SequencesExt
LOCAL INSTANCE FiniteSetsExt

CONSTANTS
  Sessions,  \* ids
  Raw,       \* tags as they are written
  MaxCalls   \* calls to the stores

VARIABLES
  topic,   \* the tables the calls are about
  db,      \* the SQLite store
  double,  \* the store in memory
  same,    \* whether all calls have had the same answer from both
  calls    \* how many

mockVars == <<topic, db, double, same, calls>>

-----------------------------------------------------------------------------
(* The store in memory. Nothing in it refers to anything else.             *)

NewMockStore ==
  [sessions |-> << >>, links |-> << >>, tags |-> << >>, analytics |-> << >>, forks |-> << >>, stalls |-> << >>,
   nextStall |-> 0, notices |-> << >>, nextNotice |-> 0, advice |-> << >>, analyses |-> {}]

MockSave(m, s, sess) ==
  Ok([m EXCEPT !.sessions = Put(@, s, [type |-> sess.type, summary |-> sess.summary, category |-> None,
                                       remote |-> None, cost |-> 0, branch |-> BranchOf[s]])])

MockUpdate(m, s, column, v) ==
  IF s \in DOMAIN m.sessions THEN Ok([m EXCEPT !.sessions[s][column] = v]) ELSE Failed(m, "not found")
MockUpdateSummary(m, s, v)      == MockUpdate(m, s, "summary", v)
MockUpdateSessionType(m, s, v)  == MockUpdate(m, s, "type", v)
MockSetProjectCategory(m, s, v) == MockUpdate(m, s, "category", v)
MockUpdateRemoteURL(m, s, v)    == MockUpdate(m, s, "remote", v)
MockUpdateCosts(m, s, v)        == MockUpdate(m, s, "cost", v)

MockUpdateProjectCategory(m, v) ==
  LET bare == Where(m.sessions, LAMBDA s : m.sessions[s].category = None)
  IN  Returned([m EXCEPT !.sessions = [s \in DOMAIN @ |-> IF s \in bare THEN [@[s] EXCEPT !.category = v] ELSE @[s]]],
               Cardinality(bare))

MockDelete(m, s) == Ok([m EXCEPT !.sessions = Without(@, {s})])
MockGetBatch(m, ids) == [s \in DOMAIN m.sessions \cap ids |-> m.sessions[s]]
MockList(m, branch) == Where(m.sessions, LAMBDA s : branch \in {None, m.sessions[s].branch})
MockListSessionsWithEmptyRemoteURL(m) == Where(m.sessions, LAMBDA s : m.sessions[s].remote = None)
MockListSessionsWithZeroCosts(m) == Where(m.sessions, LAMBDA s : m.sessions[s].cost = 0)

\* Summaries by reference, as they were when the link was made.
MockAddLink(m, s, ref) ==
  Ok([m EXCEPT !.links = IF s \in DOMAIN m.sessions THEN Put(@, ref, Append(ListOf(@, ref), s)) ELSE @])
MockGetByLink(m, ref) == IF ListOf(m.links, ref) = << >> THEN None ELSE m.links[ref]
MockDistinctLinkRefs(m) == Where(m.links, LAMBDA r : m.links[r] # << >>)

MockAddTags(m, s, raw) ==
  LET had == IF s \in DOMAIN m.tags THEN m.tags[s] ELSE {}
      new == dedupNormalizedTags(raw) \ had
  IN  Returned([m EXCEPT !.tags = Put(@, s, had \cup new)], Cardinality(new))

MockRemoveTags(m, s, raw) ==
  LET old == IF s \in DOMAIN m.tags THEN m.tags[s] \cap dedupNormalizedTags(raw) ELSE {}
  IN  Returned([m EXCEPT !.tags = [t \in DOMAIN @ |-> IF t = s THEN @[t] \ old ELSE @[t]]], Cardinality(old))

MockGetTags(m, s) == IF s \in DOMAIN m.tags THEN m.tags[s] ELSE {}
MockGetTagsBatch(m, ids) == [s \in {i \in ids : MockGetTags(m, i) # {}} |-> MockGetTags(m, s)]
MockListAllTags(m) ==
  [t \in UNION {m.tags[s] : s \in DOMAIN m.tags} |-> Cardinality(Where(m.tags, LAMBDA s : t \in m.tags[s]))]

\* Mutation: of a session that has some of the tags.
MockFilterBySome(m, ids, raw) ==
  IF dedupNormalizedTags(raw) = {} THEN ids ELSE {s \in ids : dedupNormalizedTags(raw) \cap MockGetTags(m, s) # {}}

MockFilterSessionIDsByTags(m, ids, raw) == {s \in ids : dedupNormalizedTags(raw) \subseteq MockGetTags(m, s)}

MockUpsertSessionAnalytics(m, s, a) == Ok([m EXCEPT !.analytics = Put(@, s, a)])
MockGetSessionAnalytics(m, s) == IF s \in DOMAIN m.analytics THEN m.analytics[s] ELSE None
MockQueryAnalytics(m, schema) ==
  Where(m.analytics, LAMBDA s : s \in DOMAIN m.sessions /\ m.analytics[s].schema >= schema)
MockListSessionsNeedingAnalytics(m, schema) ==
  Where(m.sessions, LAMBDA s : s \notin DOMAIN m.analytics \/ m.analytics[s].schema < schema)

MockSaveForkRelation(m, orig, fork, point) ==
  LET i == SelectInSeq(m.forks, LAMBDA r : r.orig = orig /\ r.fork = fork)
      r == [orig |-> orig, fork |-> fork, point |-> point]
  IN  Ok([m EXCEPT !.forks = IF i = 0 THEN Append(@, r) ELSE [@ EXCEPT ![i] = r]])
MockGetForkRelations(m, s) ==
  {<<m.forks[i].orig, m.forks[i].fork, m.forks[i].point>> : i \in {j \in DOMAIN m.forks : s \in {m.forks[j].orig, m.forks[j].fork}}}

\* By the tool call: a stall that is known is ended and grows, one that is not gets the next id.
MockUpsertStall(m, k, stall) ==
  LET found == Where(m.stalls, LAMBDA i : m.stalls[i].key = k)
      ended(s) == IF stall.ended = None THEN s ELSE [s EXCEPT !.ended = stall.ended, !.length = stall.ended - s.started]
      new == [key |-> k, started |-> stall.started, ended |-> None, length |-> 0, tokens |-> stall.tokens]
  IN  IF found = {} THEN Ok([m EXCEPT !.stalls = Put(@, m.nextStall + 1, ended(new)), !.nextStall = @ + 1])
      ELSE Ok([m EXCEPT !.stalls = [i \in DOMAIN @ |-> IF i \in found THEN [ended(@[i]) EXCEPT !.tokens = Larger(@, stall.tokens)]
                                                        ELSE @[i]]])

MockStall(m, k) == CHOOSE i \in DOMAIN m.stalls : m.stalls[i].key = k
MockSealStall(m, id, at) ==
  IF id \notin DOMAIN m.stalls \/ m.stalls[id].ended # None THEN Ok(m)
  ELSE Ok([m EXCEPT !.stalls[id].ended = at, !.stalls[id].length = at - m.stalls[id].started])

MockListStalls(m, live) == {m.stalls[i].key : i \in Where(m.stalls, LAMBDA i : live => m.stalls[i].ended = None)}
MockStallStats(m) ==
  [count |-> Cardinality(DOMAIN m.stalls), live |-> Cardinality(MockListStalls(m, TRUE)),
   length |-> {<<m.stalls[i].key, m.stalls[i].length>> : i \in DOMAIN m.stalls},
   tokens |-> {<<m.stalls[i].key, m.stalls[i].tokens>> : i \in DOMAIN m.stalls}]

MockInsertNotificationLog(m, entry) ==
  IF entry.event = None THEN Failed(m, "event type required")
  ELSE Returned([m EXCEPT !.nextNotice = @ + 1,
                          !.notices = Put(@, m.nextNotice + 1, [entry EXCEPT !.severity = IF @ = None THEN "info" ELSE @])],
                m.nextNotice + 1)

\* The offset counts before the limit, and without one as well.
MockListNotificationLogs(m, unack, limit, offset) ==
  LET found == SetToSortSeq(Where(m.notices, LAMBDA i : unack => m.notices[i].by = None), LAMBDA a, b : a > b)
      rest  == SubSeq(found, offset + 1, Len(found))
  IN  IF limit = 0 THEN rest ELSE FirstOf(rest, limit)

MockAcknowledgeNotification(m, i, actor) ==
  IF i \notin DOMAIN m.notices \/ m.notices[i].by # None THEN Ok(m) ELSE Ok([m EXCEPT !.notices[i].by = actor])
MockUnacknowledged(m) == Where(m.notices, LAMBDA i : m.notices[i].by = None)
MockAcknowledgeAllNotifications(m, actor) ==
  Returned([m EXCEPT !.notices = [i \in DOMAIN @ |-> IF @[i].by = None THEN [@[i] EXCEPT !.by = actor] ELSE @[i]]],
           Cardinality(MockUnacknowledged(m)))

MockUpsertRecommendation(m, f, title) ==
  LET i == SelectInSeq(m.advice, LAMBDA r : r.fingerprint = f)
  IN  Ok([m EXCEPT !.advice =
         IF i = 0 THEN Append(@, [fingerprint |-> f, title |-> title, status |-> "active"])
         ELSE IF @[i].status = "active" THEN [@ EXCEPT ![i].title = title] ELSE @])
MockResolve(m, f, status) ==
  LET i == SelectInSeq(m.advice, LAMBDA r : r.fingerprint = f)
  IN  IF i = 0 THEN Failed(m, "not found") ELSE Ok([m EXCEPT !.advice[i].status = status])
MockListRecommendations(m, status) ==
  {m.advice[i].fingerprint : i \in {j \in DOMAIN m.advice : status \in {None, m.advice[j].status}}}
MockRecommendationStats(m) ==
  LET of(status) == Len(SelectSeq(m.advice, LAMBDA r : r.status = status))
  IN  [total |-> Len(m.advice), active |-> of("active"), dismissed |-> of("dismissed"), snoozed |-> of("snoozed")]
MockDeleteRecommendationsByProject(m) == Returned([m EXCEPT !.advice = << >>], Len(m.advice))

MockSaveAnalysis(m, s, a) == Ok([m EXCEPT !.analyses = @ \cup {<<s, a>>}])
MockListAnalyses(m, s) == {p[2] : p \in {q \in m.analyses : q[1] = s}}

-----------------------------------------------------------------------------
(* The same call on both.                                                  *)

MockInit ==
  /\ topic \in {"rows", "links", "tags", "analytics", "stalls", "notices", "advice", "people"}
  /\ db = NoTables /\ double = NewMockStore
  /\ same = TRUE /\ calls = 0

Both(real, mock) ==
  /\ db' = real.db /\ double' = mock.db
  /\ same' = (same /\ real.answer = mock.answer)

Stored == DOMAIN db.sessions

\* A session is saved without a type of its own, as captures do.
SaveCall == \E s \in Sessions :
  LET sess == [type |-> None, summary |-> None] IN Both(Save(db, s, sess), MockSave(double, s, sess))

RowCall ==
  \/ SaveCall
  \/ \E s \in Stored : Both(Delete(db, s), MockDelete(double, s))
  \/ \E s \in Sessions :
       \/ Both(UpdateSummary(db, s, "new"), MockUpdateSummary(double, s, "new"))
       \/ Both(UpdateSessionType(db, s, "bug"), MockUpdateSessionType(double, s, "bug"))
       \/ Both(SetProjectCategory(db, s, "own"), MockSetProjectCategory(double, s, "own"))
       \/ Both(UpdateRemoteURL(db, s, "origin"), MockUpdateRemoteURL(double, s, "origin"))
       \/ s \in Stored /\ Both(UpdateCosts(db, s, 1), MockUpdateCosts(double, s, 1))
       \* The store in memory has no compaction.
       \/ \E tier \in {"warm", "cold"} : s \in Stored /\ Both(UpdateSessionRetention(db, s, tier), Ok(double))
       \/ s \in Stored /\ Both(TouchSessionAccessed(db, s, 1), Ok(double))
  \/ Both(UpdateProjectCategory(db, "all"), MockUpdateProjectCategory(double, "all"))

LinkCall ==
  \/ SaveCall /\ db.links = << >>
  \/ \E s \in Stored, ref \in {"T-1", "main"} : Both(AddLink(db, s, ref), MockAddLink(double, s, ref))
  \/ \E s, t \in Stored, point \in {1, 2} :
       s # t /\ Both(SaveForkRelation(db, s, t, point), MockSaveForkRelation(double, s, t, point))
  \/ \E s, t \in Stored : s # t /\ Both(LinkSessions(db, s, t), Ok(double))
  \/ \E p \in db.pairs : Both(DeleteSessionLink(db, p), Ok(double))
  \/ \E s \in Stored : Both(SaveObjective(db, s, "intent"), Ok(double))

TagCall ==
  \/ SaveCall
  \/ \E s \in Stored, raw \in SUBSET Raw : Both(AddTags(db, s, raw), MockAddTags(double, s, raw))
  \/ \E s \in Sessions, raw \in SUBSET Raw : Both(RemoveTags(db, s, raw), MockRemoveTags(double, s, raw))

AnalyticsCall ==
  \/ SaveCall
  \/ \E s \in Stored, schema \in {1, 2}, agents \in {{}, {"build"}} :
       LET a == [schema |-> schema, agents |-> agents]
       IN  Both(UpsertSessionAnalytics(db, s, a), MockUpsertSessionAnalytics(double, s, a))
  \/ \E s \in Stored : Both(SetHotspots(db, s, [schema |-> 1]), Ok(double))
  \/ \E s \in Stored, a \in {"first", "second"} :
       <<s, a>> \notin double.analyses /\ Both(SaveAnalysis(db, s, a), MockSaveAnalysis(double, s, a))

StallCall ==
  \/ \E k \in {"call1", "call2"}, ended \in {None, 3, 4}, tokens \in {0, 5} :
       LET stall == [started |-> 1, ended |-> ended, tokens |-> tokens]
       IN  Both(UpsertStall(db, k, stall), MockUpsertStall(double, k, stall))
  \/ \E k \in DOMAIN db.stalls, at \in {3, 4} :
       Both(SealStall(db, db.stalls[k].id, at), MockSealStall(double, MockStall(double, k), at))

NoticeCall ==
  \/ \E event \in {None, "stall"}, severity \in {None, "high"} :
       LET entry == [event |-> event, severity |-> severity, by |-> None]
       IN  Both(InsertNotificationLog(db, entry), MockInsertNotificationLog(double, entry))
  \/ \E i \in {1, 2}, actor \in {"ann", "bob"} :
       Both(AcknowledgeNotification(db, i, actor), MockAcknowledgeNotification(double, i, actor))
  \/ Both(AcknowledgeAllNotifications(db, "ann"), MockAcknowledgeAllNotifications(double, "ann"))

AdviceCall ==
  \/ \E f \in {"f", "g"}, title \in {"old", "new"} :
       Both(UpsertRecommendation(db, f, title), MockUpsertRecommendation(double, f, title))
  \/ \E f \in DOMAIN db.advice :
       \/ Both(DismissRecommendation(db, f), MockResolve(double, f, "dismissed"))
       \/ Both(SnoozeRecommendation(db, f), MockResolve(double, f, "snoozed"))
  \/ Both(DeleteRecommendationsByProject(db), MockDeleteRecommendationsByProject(double))

\* What the store in memory does not keep at all.
PeopleCall ==
  \/ SaveCall
  \/ \E u \in {"u1", "u2"}, email \in {"a@x", "b@x"}, kind \in {"human", "machine"} :
       /\ u \notin DOMAIN db.users
       /\ Both(SaveUser(db, u, [email |-> email, name |-> u, kind |-> kind, role |-> "member", slack |-> None]), Ok(double))
  \/ \E u \in DOMAIN db.users :
       \/ Both(UpdateUserSlack(db, u, "S1"), Ok(double))
       \/ Both(UpdateUserKind(db, u, "machine"), Ok(double))
       \/ Both(UpdateUserRole(db, u, "admin"), Ok(double))
  \/ \E p \in {"p1", "p2"}, state \in {"open", "merged"} :
       Both(SavePullRequest(db, p, [state |-> state]), Ok(double))
  \/ \E s \in Stored, p \in {"p1", "p2"} : Both(LinkSessionPR(db, s, p), Ok(double))
  \/ \E s \in Stored : Both(Delete(db, s), MockDelete(double, s))
  \/ \E j \in {"j1", "j2"} : Both(UpsertCronJob(db, j, [provider |-> "hermes"]), Ok(double))
  \/ \E found \in SUBSET {"c1", "c2"} : Both(UpsertCapabilities(db, found, calls), Ok(double))
  \/ \E u \in {None, "u1"} : Both(SavePreferences(db, u, calls), Ok(double))
  \/ Both(SaveProjectSnapshot(db, "project", calls), Ok(double))

MockNext ==
  /\ calls < MaxCalls /\ calls' = calls + 1 /\ UNCHANGED topic
  /\ \/ topic = "rows" /\ RowCall
     \/ topic = "links" /\ LinkCall
     \/ topic = "tags" /\ TagCall
     \/ topic = "analytics" /\ AnalyticsCall
     \/ topic = "stalls" /\ StallCall
     \/ topic = "notices" /\ NoticeCall
     \/ topic = "advice" /\ AdviceCall
     \/ topic = "people" /\ PeopleCall

-----------------------------------------------------------------------------
(* Properties.                                                             *)

MockTypeOK ==
  /\ same \in BOOLEAN /\ calls \in 0 .. MaxCalls
  /\ DOMAIN db.sessions \subseteq Sessions /\ DOMAIN double.sessions \subseteq Sessions
  /\ \A s \in Stored : db.sessions[s].branch = BranchOf[s]

Set(seq) == {seq[i] : i \in DOMAIN seq}

\* Both stores answer every call and every query alike: sessions by id and by what
\* they lack, links, tags, relations of forks, stalls, the log and recommendations
\* (internal/testutil/mock_store.go).
StandsIn ==
  /\ same
  /\ topic = "rows" =>
       /\ \A s \in Sessions : LET batch == GetBatch(db, Sessions)  mock == MockGetBatch(double, Sessions) IN
            /\ s \in DOMAIN batch <=> s \in DOMAIN mock
            /\ s \in DOMAIN batch => \A c \in {"type", "category", "remote"} : batch[s].row[c] = mock[s][c]
       /\ \A b \in {BranchOf[s] : s \in Sessions} : Set(List(db, [branch |-> b])) = MockList(double, b)
       /\ \A s \in Stored : db.sessions[s].summary = double.sessions[s].summary
       /\ Set(ListSessionsWithEmptyRemoteURL(db, 9)) = MockListSessionsWithEmptyRemoteURL(double)
       /\ Set(ListSessionsWithZeroCosts(db, 9)) = MockListSessionsWithZeroCosts(double)
  /\ topic = "links" =>
       /\ DistinctLinkRefs(db) = MockDistinctLinkRefs(double)
       /\ \A r \in {"T-1", "main"} : LET mock == MockGetByLink(double, r)  real == GetByLink(db, r) IN
            IF real = None THEN mock = None
            ELSE real = [s \in Set(mock) |-> Cardinality({i \in DOMAIN mock : mock[i] = s})]
       /\ \A s \in Sessions :
            {<<k[1], k[2], db.forks[k]>> : k \in GetForkRelations(db, s)} = MockGetForkRelations(double, s)
  /\ topic = "tags" =>
       /\ GetTagsBatch(db, Sessions) = MockGetTagsBatch(double, Sessions)
       /\ ListAllTags(db) = MockListAllTags(double)
       /\ \A raw \in SUBSET Raw :
            FilterSessionIDsByTags(db, Sessions, raw) = MockFilterSessionIDsByTags(double, Sessions, raw)
  /\ topic = "analytics" => \A schema \in {1, 2} :
       /\ \A s \in Sessions : GetSessionAnalytics(db, s) = MockGetSessionAnalytics(double, s)
       /\ Set(QueryAnalytics(db, << >>, schema)) = MockQueryAnalytics(double, schema)
       /\ Set(ListSessionsNeedingAnalytics(db, schema, 9)) = MockListSessionsNeedingAnalytics(double, schema)
       /\ \A s \in Sessions : Set(ListAnalyses(db, s)) = MockListAnalyses(double, s)
  /\ topic = "stalls" =>
       /\ ListLiveStalls(db) = MockListStalls(double, TRUE)
       /\ StallStats(db) = MockStallStats(double)
       /\ \A k \in DOMAIN db.stalls : \A st \in GetStall(db, db.stalls[k].id), c \in {"started", "ended", "length", "tokens"} :
            st[c] = double.stalls[MockStall(double, k)][c]
  /\ topic = "notices" => \A unack \in BOOLEAN, limit \in {0, 1, 2}, offset \in {0, 1} : limit >= offset =>
       ListNotificationLogs(db, unack, limit, offset) = MockListNotificationLogs(double, unack, limit, offset)
  /\ topic = "advice" =>
       /\ RecommendationStats(db) = MockRecommendationStats(double)
       /\ \A status \in {None, "active", "snoozed"} :
            ListRecommendations(db, status) = MockListRecommendations(double, status)

\* Sessions one by one and in a batch, the newest and the list, a count and the facets
\* beside it.
RowsAgree ==
  /\ GetBatch(db, Sessions) = [s \in Stored |-> Get(db, s)]
  /\ \A b \in {BranchOf[s] : s \in Sessions} :
       LET all == List(db, [branch |-> b]) IN
       /\ CountByBranch(db, b) = Len(all)
       /\ GetLatestByBranch(db, b) = IF all = << >> THEN None ELSE Get(db, all[1])
  /\ Search(db, << >>, 1, 0).page \o Search(db, << >>, 9, 1).page = List(db, << >>)
  /\ \A c \in {"type", "category", "remote"}, v \in {"bug", "own", "origin"} :
       LET facets == SearchFacets(db, << >>, c)
       IN  Search(db, [k \in {c} |-> v], 9, 0).total = IF v \in DOMAIN facets THEN facets[v] ELSE 0
  /\ Cardinality(Stored) = MapThenSumSet(LAMBDA p : ListProjects(db)[p], DOMAIN ListProjects(db))
  /\ Cardinality(Stored) = MapThenSumSet(LAMBDA t : RetentionStorageStats(db)[t], DOMAIN RetentionStorageStats(db))
  /\ Set(ListWarmCompactionCandidates(db, 9, 9)) \cap Set(ListColdCompactionCandidates(db, 9, 9)) = {}

\* Relations from both of their ends, and of one session and of many.
RelationsAgree ==
  LET tags  == GetTagsBatch(db, Sessions)
      forks == GetForkRelationsForSessions(db, Sessions)
  IN  /\ \A s \in Sessions :
            /\ GetTags(db, s) = IF s \in DOMAIN tags THEN tags[s] ELSE {}
            /\ GetForkRelations(db, s) = IF s \in DOMAIN forks THEN forks[s] ELSE {}
            /\ GetObjective(db, s) # None <=> s \in DOMAIN ListObjectives(db, Sessions)
            /\ \A p \in GetLinkedSessions(db, s) : p.target \in Stored \ {s}
            /\ \A p \in DOMAIN db.pulls : s \in ListPRsWithSessions(db, None)[p] <=> p \in GetPRsForSession(db, s)
            /\ \A schema \in {1, 2} : s \in Stored =>
                 (s \in Set(QueryAnalytics(db, << >>, schema)) <=> s \notin Set(ListSessionsNeedingAnalytics(db, schema, 9)))
            /\ GetHotspots(db, s) = None <=> s \notin Stored \/ s \in Set(ListSessionsNeedingHotspots(db, 1, 9))
      /\ \A t \in DOMAIN ListAllTags(db) : ListAllTags(db)[t] = Cardinality({s \in Sessions : t \in GetTags(db, s)})
      /\ UnacknowledgedNotificationCount(db) = Len(ListNotificationLogs(db, FALSE, 0, 0)) -
                                              Cardinality({i \in DOMAIN db.notices : db.notices[i].by # None})

\* No row of a table that belongs to the sessions outlives its session.
NoOrphans ==
  /\ {t.session : t \in db.tags} \cup {l.session : l \in db.onPull} \cup {l.session : l \in Set(db.links)} \subseteq Stored
  /\ DOMAIN db.analytics \cup DOMAIN db.hotspots \cup DOMAIN db.analyses \subseteq Stored
  /\ DOMAIN db.agents = DOMAIN db.analytics

\* An address is one user's, who is found by it; sessions are counted under their owners;
\* a capability is active when the last scan found it.
PeopleAgree ==
  /\ \A u \in DOMAIN db.users : LET user == GetUser(db, u) IN
       GetUserByEmail(db, user.email) = {u} /\ u \in ListUsersByKind(db, user.kind)
  /\ LET stats == OwnerStats(db, [s \in Sessions |-> "u1"]) IN
       \A o \in DOMAIN stats : stats[o].count = Cardinality(Stored)
  /\ \A c \in ListCapabilities(db, FALSE), d \in ListCapabilities(db, TRUE) :
       LET last(x) == db.capabilities[x].last
       IN  db.capabilities[c].first <= last(c) /\ (c \in ListCapabilities(db, TRUE) <=> last(c) = last(d))

\* What the tables answer in one way they answer in another, and what they refer to is
\* there (internal/storage/sqlite).
TablesAgree == RowsAgree /\ RelationsAgree /\ NoOrphans /\ PeopleAgree
=============================================================================
