---------------------------- MODULE SessionPages ----------------------------
(***************************************************************************)
(* The pages of the dashboard about single sessions: a session with its    *)
(* messages, its subagents' messages and its relatives; a branch with its  *)
(* commits; the graph of sessions by project, branch or pull request; and  *)
(* the files sessions touched.  Sessions are captured, grow, are linked    *)
(* and deleted while somebody reads: a page is shown piece by piece, each  *)
(* piece computed from what is stored when it is asked for.                *)
(***************************************************************************)
EXTENDS Integers, Sequences, FiniteSets, FiniteSetsExt, SequencesExt

CONSTANTS
  None,         \* no session, no offset, every project
  Ids,          \* session ids
  Scenes,       \* what the sessions are, once they are captured: id -> row
  Old,          \* those stored by a version that kept the paths of files absolute
  Commits,      \* branch -> set of [sha, at]
  PRs,          \* pull request -> its state
  Tracked,      \* the paths of the files git has
  NoExtension,  \* the names without an extension
  Batch,        \* messages (msgPageSize) shown at a time
  MaxChildren,  \* subagents shown at a time
  Window, Since, Limit,  \* of a branch's timeline: hours after a session's start, first hour, entries
  MaxEdits

VARIABLES
  scene,      \* of Scenes
  size,       \* id -> messages stored, 0 if the session is not
  absolute,   \* the sessions whose file rows hold absolute paths
  family,     \* fork relations: <<original, fork>>
  delegated,  \* <<from, to>>, the newest first; each has its inverse link
  inPR,       \* <<session, pull request>>
  marked,     \* <<session, commit>> -> how many rows of this link there are
  reading,    \* the page somebody reads, and what it has shown
  edits

pageVars == <<scene, size, absolute, family, delegated, inPR, marked, reading, edits>>

Stored == {s \in Ids : size[s] > 0}
Nothing == [page |-> "none", of |-> None, next |-> None, shown |-> << >>, shifted |-> FALSE]
Newest(ids) == {s \in ids : \A t \in ids : scene[t].created <= scene[s].created}

PagesTypeOK ==
  /\ scene \in Scenes /\ size \in [Ids -> Nat] /\ absolute \subseteq Ids
  /\ family \subseteq Ids \X Ids /\ inPR \subseteq Stored \X DOMAIN PRs
  /\ \A i \in DOMAIN delegated : delegated[i] \in Stored \X Stored
  /\ \A m \in DOMAIN marked : m[1] \in Stored /\ marked[m] \in Nat \ {0}
  /\ reading.page \in {"none", "messages", "exchanges"} /\ edits \in 0 .. MaxEdits

PagesInit ==
  /\ scene \in Scenes
  /\ size = [s \in Ids |-> IF s \in Old THEN 1 ELSE 0] /\ absolute = Old
  /\ family = {} /\ delegated = << >> /\ inPR = {} /\ marked = << >>
  /\ reading = Nothing /\ edits = 0

-----------------------------------------------------------------------------
(* Trees: a session hangs below its parent if the parent is listed too.    *)

\* The branch is looked at only where not all sessions are asked for.
List(branch, all) == {s \in Stored : all \/ scene[s].branch = branch}

Forks(ids) == {s \in ids : scene[s].parent \in ids}

\* Parents are captured of older conversations: no session is above itself.
buildTree(ids) ==
  LET depth[s \in ids] == IF s \in Forks(ids) THEN 1 + depth[scene[s].parent] ELSE 0
  IN [s \in ids |-> [depth |-> depth[s], fork |-> s \in Forks(ids),
                     children |-> {t \in ids : scene[t].parent = s}]]

BranchTreeStats(tree) ==
  [sessions |-> Cardinality(DOMAIN tree), roots |-> Cardinality({s \in DOMAIN tree : ~tree[s].fork}),
   forks |-> Cardinality({s \in DOMAIN tree : tree[s].fork}),
   depth |-> Max({0} \cup {tree[s].depth : s \in DOMAIN tree})]

\* The page of a branch asks for its sessions and for all of them: it gets all.
BranchTree(branch) ==
  LET tree == buildTree(List(branch, TRUE)) IN
  [tree |-> tree, stats |-> BranchTreeStats(tree),
   relations |-> {r \in family : r[1] \in DOMAIN tree \/ r[2] \in DOMAIN tree}]

-----------------------------------------------------------------------------
(* One session.                                                            *)

\* Links are found by their source; the inverse of a delegation is a link of its own.
Links(s) ==
  {[to |-> d[2], type |-> "delegated_to"] : d \in {e \in Range(delegated) : e[1] = s}} \cup
  {[to |-> d[1], type |-> "delegated_from"] : d \in {e \in Range(delegated) : e[2] = s}}

DetailForks(s) ==
  {[id |-> r[2], direction |-> "parent"] : r \in {q \in family : q[1] = s}} \cup
  {[id |-> r[1], direction |-> "fork"] : r \in {q \in family : q[2] = s}}

DetailPRs(s) == {p \in DOMAIN PRs : <<s, p>> \in inPR}
DetailFiles(s) == scene[s].files

\* The subagents within the session, or else those it delegated to that are stored.
Children(s) ==
  IF scene[s].kids # << >> THEN scene[s].kids
  ELSE LET of == SelectSeq(delegated, LAMBDA d : d[1] = s) IN [i \in DOMAIN of |-> of[i][2]]

\* Whoever is shown already is not shown again as a fork's other side.
TimelineGraph(s) ==
  LET parent == IF scene[s].parent = None THEN {} ELSE {[id |-> scene[s].parent, relation |-> "parent"]}
      near   == parent \cup {[id |-> s, relation |-> "self"]}
                  \cup {[id |-> c, relation |-> "child"] : c \in Range(scene[s].kids)}
      forks  == {[id |-> r[2], relation |-> "fork"] : r \in {q \in family : q[1] = s}}
                  \cup {[id |-> r[1], relation |-> "parent"] : r \in {q \in family : q[2] = s}}
  IN near \cup {e \in forks : \A n \in near : n.id # e.id}

\* Where a message's bar begins and how wide it is, in 200ths of the session's duration.
TimelineBars(s) ==
  LET at(i) == scene[s].times[i]
      total == Max({1, at(size[s]) - at(1)})
      clamp(x) == Max({0, Min({200, x})})
      offset(i) == clamp((200 * (at(i) - at(1))) \div total)
      gap(i) == IF i < size[s] THEN (200 * (at(i + 1) - at(i))) \div total ELSE 200 - offset(i)
      width(i) == Min({200 - offset(i), Max({1, gap(i)})})
  IN [i \in 1 .. size[s] |-> [offset |-> offset(i), width |-> width(i)]]

-----------------------------------------------------------------------------
(* The graph of sessions, and the pull requests.                           *)

SessionsOf(p) == {s \in Stored : <<s, p>> \in inPR}

\* What groups have together: a session is counted in each of its groups, a link at both ends.
Graph(groups) ==
  [groups |-> groups,
   sessions |-> MapThenSumSet(LAMBDA g : Cardinality(g.ids), groups),
   forks |-> MapThenSumSet(LAMBDA g : Cardinality(Forks(g.ids)), groups),
   links |-> MapThenSumSet(LAMBDA g : MapThenSumSet(LAMBDA s : Cardinality(Links(s)), g.ids), groups)]

InProject(project) == {s \in Stored : project = None \/ scene[s].project = project}

\* A pull request with a session of the project is shown with all its sessions.
buildGraphByPR(project) ==
  LET shown == {p \in DOMAIN PRs : SessionsOf(p) \cap InProject(project) # {}} IN
  Graph({[key |-> p, ids |-> SessionsOf(p)] : p \in shown})

buildGraphByProject(project) ==
  LET key(s) == scene[s].project IN
  Graph({[key |-> k, ids |-> {s \in InProject(project) : key(s) = k}] : k \in {key(s) : s \in InProject(project)}})

buildGraphByBranch(project) ==
  LET key(s) == scene[s].branch IN
  Graph({[key |-> k, ids |-> {s \in InProject(project) : key(s) = k}] : k \in {key(s) : s \in InProject(project)}})

handlePulls(state) ==
  LET shown == {p \in DOMAIN PRs : state \in {None, PRs[p]}} IN
  [rows   |-> [p \in shown |-> [count |-> Cardinality(SessionsOf(p)), latest |-> Newest(SessionsOf(p))]],
   linked |-> MapThenSumSet(LAMBDA p : Cardinality(SessionsOf(p)), shown)]

-----------------------------------------------------------------------------
(* A branch's sessions and commits, the newest first.                      *)

Timed(branch) == {s \in List(branch, FALSE) : scene[s].created >= Since}

\* A commit is of the newest session that began less than Window before it.
SessionOf(commit, branch) ==
  LET open == {s \in Timed(branch) : scene[s].created < commit.at /\ commit.at < scene[s].created + Window}
  IN IF open = {} THEN None ELSE CHOOSE s \in Newest(open) : TRUE

\* The newest Limit commits.
CommitsOf(branch) ==
  LET all == {c \in Commits[branch] : c.at >= Since} IN
  {c \in all : Cardinality({d \in all : d.at > c.at}) < Limit}

\* Every fork of which a session is the original is counted at it.
BranchTimeline(branch) ==
  LET all == {[type |-> "session", id |-> s, at |-> scene[s].created, of |-> None,
               forks |-> Cardinality({r \in family : r[1] = s})] : s \in Timed(branch)}
             \cup {[type |-> "commit", id |-> c.sha, at |-> c.at, of |-> SessionOf(c, branch), forks |-> 0] :
                     c \in CommitsOf(branch)}
  IN {e \in all : Cardinality({f \in all : f.at > e.at}) < Limit}

-----------------------------------------------------------------------------
(* Files: a path is the sequence of its names below the project.           *)

Within(dir, path) == Len(path) > Len(dir) /\ SubSeq(path, 1, Len(dir)) = dir

\* Each path, in each form it is stored in, with the sessions that wrote it. It is listed
\* once for each session of the instant it was last written at, and each change it made.
FilesForProject(project, dir) ==
  LET touched(s) == {f \in scene[s].files : Within(dir, f.path)}
      mine == InProject(project)
      keys == UNION {{<<f.path, s \in absolute>> : f \in {g \in touched(s) : g.change # "read"}} : s \in mine}
      has(s, k) == {f \in touched(s) : <<f.path, s \in absolute>> = k}
      writers(k) == {s \in mine : \E f \in has(s, k) : f.change # "read"}
      at(k) == Max({scene[s].created : s \in writers(k)})
      entries(k) == UNION {{[path |-> k[1], absolute |-> k[2], count |-> Cardinality(writers(k)), last |-> s,
                             change |-> f.change] : f \in has(s, k)} : s \in {t \in mine : scene[t].created = at(k)}}
  IN UNION {entries(k) : k \in keys}

sessionHeatClass(count, max) ==
  IF 4 * count >= 3 * max THEN "fire" ELSE IF 4 * count >= 2 * max THEN "hot"
  ELSE IF 4 * count >= max THEN "warm" ELSE "cold"

MostSessions(entries) == Max({0} \cup {e.count : e \in entries})

\* A directory and those in it are open; the ones in these are shut and show how many files
\* they have. An open directory shows how many of its own.
buildFileTree(entries, base, max) ==
  LET depth(e) == Len(e.path) - Len(base)
      shut == {SubSeq(e.path, 1, Len(base) + 2) : e \in {f \in entries : depth(f) > 2}}
      open == {SubSeq(e.path, 1, Len(base) + 1) : e \in {f \in entries : depth(f) > 1}}
  IN [files |-> {[entry |-> e, heat |-> sessionHeatClass(e.count, max)] : e \in {f \in entries : depth(f) <= 2}},
      total |-> Cardinality(entries), max |-> max,
      open  |-> [d \in open |-> Cardinality({e \in entries : Within(d, e.path) /\ depth(e) = 2})],
      shut  |-> [d \in shut |-> Cardinality({e \in entries : Within(d, e.path)})]]

handleFileTree(project) ==
  LET entries == FilesForProject(project, << >>) IN buildFileTree(entries, << >>, MostSessions(entries))

\* Mutation of handleFileTreeChildren: the most sessions of the page are not asked for.
ChildrenAlone(project, dir, max) ==
  LET entries == FilesForProject(project, dir) IN buildFileTree(entries, dir, MostSessions(entries))

\* A shut directory, asked for when it is opened, with the most sessions of the page.
handleFileTreeChildren(project, dir, max) ==
  LET entries == FilesForProject(project, dir) IN
  buildFileTree(entries, dir, Max({max, MostSessions(entries)}))

\* The sessions of a file are asked for by its absolute path only.
handleFileTreeSessions(project, path) ==
  {s \in absolute \cap InProject(project) : \E f \in scene[s].files : f.path = path /\ f.change # "read"}
handleBlame(project, path) == {s \in absolute \cap InProject(project) : \E f \in scene[s].files : f.path = path}

\* Blame asks for both forms; a relative path is the same in every project.
Blame(project, path, all) ==
  LET ids == {s \in Stored : /\ \E f \in scene[s].files : f.path = path
                             /\ s \in absolute => scene[s].project = project}
  IN IF all THEN ids ELSE Newest(ids)

groupBlameByFile(project, paths, all) == [p \in paths |-> Blame(project, p, all)]

\* A file that has the name of a directory beside it, and no extension, is taken for it.
ExplorerInfo(project, dir) ==
  LET entries == FilesForProject(project, dir)
      here == {e \in entries : Len(e.path) = Len(dir) + 1}
      dirs == {SubSeq(e.path, 1, Len(dir) + 1) : e \in entries \ here}
  IN [dirs |-> [d \in dirs |-> Cardinality({e \in entries \ here : Within(d, e.path)})],
      files |-> {e \in here : e.path \notin dirs \/ Last(e.path) \notin NoExtension}]

\* With git, the rows are git's, and what sessions did to them is said beside.
ExplorerRows(project, dir, git) ==
  LET info == ExplorerInfo(project, dir)
      below == {p \in Tracked : Within(dir, p)}
      here == {p \in below : Len(p) = Len(dir) + 1}
  IN IF git
     THEN [dirs |-> {SubSeq(p, 1, Len(dir) + 1) : p \in below \ here},
           files |-> [p \in here |-> {e \in info.files : e.path = p}]]
     ELSE [dirs |-> DOMAIN info.dirs,
           files |-> [p \in {e.path : e \in info.files} |-> {e \in info.files : e.path = p}]]

-----------------------------------------------------------------------------
(* What changes while somebody reads.                                      *)

Edit == edits < MaxEdits /\ edits' = edits + 1

\* The children of a page of exchanges change their places.
Shift(s) == reading' = [reading EXCEPT !.shifted = @ \/ (reading.page = "exchanges" /\ reading.of = s)]

\* Saving makes the paths of files relative.
Capture(s) ==
  /\ Edit /\ s \notin Stored
  /\ size' = [size EXCEPT ![s] = 1] /\ absolute' = absolute \ {s}
  /\ UNCHANGED <<scene, family, delegated, inPR, marked, reading>>

Without(s) == [m \in {n \in DOMAIN marked : n[1] # s} |-> marked[m]]

\* A whole export replaces the links; one that appends messages has them.
Grow(s) ==
  /\ Edit /\ s \in Stored /\ size[s] < Len(scene[s].times)
  /\ size' = [size EXCEPT ![s] = @ + 1] /\ absolute' = absolute \ {s}
  /\ marked' \in {marked, Without(s)}
  /\ UNCHANGED <<scene, family, delegated, inPR, reading>>

\* The fork relations stay, all else that names the session goes with it.
Delete(s) ==
  /\ Edit /\ s \in Stored
  /\ size' = [size EXCEPT ![s] = 0] /\ absolute' = absolute \ {s}
  /\ delegated' = SelectSeq(delegated, LAMBDA d : s \notin Range(d))
  /\ inPR' = {l \in inPR : l[1] # s} /\ marked' = Without(s)
  /\ reading' = [reading EXCEPT !.shifted = @ \/ delegated' # delegated]
  /\ UNCHANGED <<scene, family>>

NormalizeFilePaths ==
  /\ Edit /\ absolute # {} /\ absolute' = {}
  /\ UNCHANGED <<scene, size, family, delegated, inPR, marked, reading>>

Delegate(s, t) ==
  /\ Edit /\ s # t /\ {s, t} \subseteq Stored /\ <<s, t>> \notin Range(delegated)
  /\ delegated' = <<<<s, t>>>> \o delegated /\ Shift(s)
  /\ UNCHANGED <<scene, size, absolute, family, inPR, marked>>

DetectFork(s, t) ==
  /\ Edit /\ {s, t} \subseteq Stored /\ scene[s].created < scene[t].created
  /\ family' = family \cup {<<s, t>>}
  /\ UNCHANGED <<scene, size, absolute, delegated, inPR, marked, reading>>

LinkPR(s, p) ==
  /\ Edit /\ s \in Stored /\ inPR' = inPR \cup {<<s, p>>}
  /\ UNCHANGED <<scene, size, absolute, family, delegated, marked, reading>>

\* Showing a branch links its commits to their sessions, once more each time.
ViewBranch(branch) ==
  LET new == {<<SessionOf(c, branch), c.sha>> : c \in {d \in CommitsOf(branch) : SessionOf(d, branch) # None}} IN
  /\ Edit
  /\ marked' = [m \in DOMAIN marked \cup new |->
                  (IF m \in DOMAIN marked THEN marked[m] ELSE 0) + (IF m \in new THEN 1 ELSE 0)]
  /\ UNCHANGED <<scene, size, absolute, family, delegated, inPR, reading>>

-----------------------------------------------------------------------------
(* Reading: a page shows its first piece and says where the next begins.   *)

Numbers(s) == [i \in 1 .. size[s] |-> i]
Piece(all, from, n) == SubSeq(all, from + 1, Min({from + n, Len(all)}))
NextOf(all, end) == IF end < Len(all) THEN end ELSE None

handleSessionDetail(s) ==
  /\ s \in Stored
  /\ reading' = [Nothing EXCEPT !.page = "messages", !.of = s, !.shown = Piece(Numbers(s), 0, Batch),
                                !.next = NextOf(Numbers(s), Batch)]

handleSessionExchanges(s) ==
  /\ s \in Stored
  /\ reading' = [Nothing EXCEPT !.page = "exchanges", !.of = s, !.shown = Piece(Children(s), 0, MaxChildren),
                                !.next = NextOf(Children(s), MaxChildren)]

\* The next piece; nothing at all if there is none any more.
More(all, n) ==
  reading' = IF reading.next >= Len(all) THEN [reading EXCEPT !.next = None]
             ELSE [reading EXCEPT !.shown = @ \o Piece(all, reading.next, n),
                                  !.next = NextOf(all, reading.next + n)]

handleSessionMessagesMore ==
  /\ reading.page = "messages" /\ reading.next # None /\ reading.of \in Stored
  /\ More(Numbers(reading.of), Batch)

\* The messages of the session itself are in every piece.
handleSessionExchangesMore ==
  /\ reading.page = "exchanges" /\ reading.next # None /\ reading.of \in Stored
  /\ More(Children(reading.of), MaxChildren)

Read ==
  /\ \/ \E s \in Ids : reading.page = "none" /\ (handleSessionDetail(s) \/ handleSessionExchanges(s))
     \/ handleSessionMessagesMore \/ handleSessionExchangesMore
  /\ UNCHANGED <<scene, size, absolute, family, delegated, inPR, marked, edits>>

PagesNext ==
  \/ \E s \in Ids : Capture(s) \/ Grow(s) \/ Delete(s)
  \/ \E s, t \in Ids : Delegate(s, t) \/ DetectFork(s, t)
  \/ \E s \in Ids, p \in DOMAIN PRs : LinkPR(s, p)
  \/ \E b \in DOMAIN Commits : ViewBranch(b)
  \/ NormalizeFilePaths \/ Read

PagesSpec == PagesInit /\ [][PagesNext]_pageVars

-----------------------------------------------------------------------------
(* Properties.                                                             *)

Projects == {scene[s].project : s \in Ids}
FilePaths == UNION {{f.path : f \in scene[s].files} : s \in Ids}
Dirs == UNION {{SubSeq(p, 1, n) : n \in 0 .. Len(p) - 1} : p \in FilePaths}

\* However the session grows while its page is read, the page shows its messages from the
\* first on, each once; and each subagent once, unless one is added or goes meanwhile, and
\* all of them when there is nothing more to ask for.
ReadsOnce ==
  /\ reading.page = "messages" => reading.shown = [i \in DOMAIN reading.shown |-> i]
  /\ reading.page = "exchanges" /\ ~reading.shifted =>
       /\ Cardinality(Range(reading.shown)) = Len(reading.shown)
       /\ reading.of \in Stored /\ reading.next = None =>
            Range(reading.shown) = Range(Children(reading.of))

\* A tree has every session listed once; whichever way they are grouped, the graph has all
\* sessions of all projects and both ends of every delegation, and as many forks as the tree
\* of all at most. The graph by pull requests counts what the pages of the sessions show.
GraphsAgree ==
  LET tree == buildTree(Stored)
      all(g) == g.sessions = Cardinality(Stored) /\ g.links = 2 * Len(delegated)
      below == UNION {tree[s].children : s \in Stored}
  IN /\ BranchTreeStats(tree).roots + Cardinality(below) = Cardinality(Stored)
     /\ all(buildGraphByProject(None)) /\ all(buildGraphByBranch(None))
     /\ buildGraphByBranch(None).forks <= BranchTreeStats(tree).forks
     /\ LET shown == MapThenSumSet(LAMBDA s : Cardinality(DetailPRs(s)), Stored) IN
        shown = buildGraphByPR(None).sessions /\ shown = handlePulls(None).linked
     /\ \A p \in Projects : buildGraphByPR(p).sessions <= buildGraphByPR(None).sessions
     /\ \A b \in DOMAIN Commits : Timed(b) \subseteq DOMAIN BranchTree(b).tree

\* Nobody is twice in a session's graph, and a fork is above its fork in both of theirs,
\* as the pages of both say.
RelativesAgree ==
  /\ \A s \in Stored : \A e, f \in TimelineGraph(s) : e.id = f.id => e = f
  /\ \A r \in family :
       /\ r[1] \in Stored => /\ [id |-> r[2], direction |-> "parent"] \in DetailForks(r[1])
                             /\ \E e \in TimelineGraph(r[1]) : e.id = r[2] /\ e.relation \in {"fork", "child"}
       /\ r[2] \in Stored => /\ [id |-> r[1], direction |-> "fork"] \in DetailForks(r[2])
                             /\ [id |-> r[1], relation |-> "parent"] \in TimelineGraph(r[2])

\* A commit is linked to sessions of a branch it is in that began less than Window before it.
CommitsHaveSessions ==
  \A m \in DOMAIN marked : \E b \in DOMAIN Commits : \E c \in Commits[b] :
    LET row == scene[m[1]] IN
    c.sha = m[2] /\ row.branch = b /\ row.created < c.at /\ c.at < row.created + Window

\* Bars stay within the timeline, whatever the order of the messages' times.
BarsFit ==
  \A s \in Stored : \A i \in 1 .. size[s] :
    LET bar == TimelineBars(s)[i] IN bar.offset >= 0 /\ bar.width >= 0 /\ bar.offset + bar.width <= 200

\* Every file is in the tree, as a row or counted in one shut directory, which shows just
\* that many when it is opened, as hot as they would be in the whole tree. The explorer
\* shows the same, but for the files it takes for directories.
TreeIsWhole ==
  \A p \in Projects :
    LET tree == handleFileTree(p)
        all  == FilesForProject(p, << >>)
        sum(f) == MapThenSumSet(LAMBDA d : f[d], DOMAIN f)
    IN /\ tree.total = Cardinality(tree.files) + sum(tree.shut)
       /\ \A d \in DOMAIN tree.shut :
            LET more == handleFileTreeChildren(p, d, tree.max) IN
            /\ more.total = tree.shut[d] /\ more.max = tree.max
            /\ \A f \in more.files : f.entry \in all /\ f.heat = sessionHeatClass(f.entry.count, tree.max)
       /\ \A d \in Dirs :
            LET info == ExplorerInfo(p, d)
                hidden == {e \in all : e.path \in DOMAIN info.dirs} \ info.files
            IN /\ Cardinality(info.files) + Cardinality(hidden) + sum(info.dirs)
                    = Cardinality(FilesForProject(p, d))
               /\ \A q \in DOMAIN ExplorerRows(p, d, TRUE).files :
                    ExplorerRows(p, d, TRUE).files[q] \subseteq {e \in all : e.path = q}

\* Blame finds every session that wrote a file, in whichever form its path is stored; the
\* lists of the tree and of the explorer find no other, and all where it is absolute.
BlameFinds ==
  \A p \in Projects : \A e \in FilesForProject(p, << >>) :
    LET list == handleFileTreeSessions(p, e.path)
        found == Blame(p, e.path, TRUE)
    IN /\ list \subseteq handleBlame(p, e.path) /\ handleBlame(p, e.path) \subseteq found
       /\ Cardinality(found \cap InProject(p)) >= e.count
       /\ e.absolute => Cardinality(list) = e.count
       /\ groupBlameByFile(p, {e.path}, FALSE)[e.path] \subseteq Newest(found)

SessionPagesRight ==
  ReadsOnce /\ GraphsAgree /\ RelativesAgree /\ CommitsHaveSessions /\ BarsFit /\ TreeIsWhole /\ BlameFinds
=============================================================================
