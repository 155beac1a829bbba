---------------------------- MODULE PullRequests ----------------------------
(***************************************************************************)
(* Sessions and the pull requests of their branches: the pr_sync task, for *)
(* one repository or for each configured one, and the links it stores.     *)
(***************************************************************************)
CONSTANTS
  Sessions, Branches,
  PRs,        \* pull requests
  HeadBranch, \* HeadBranch[p], the branch of p
  NoBranch

VARIABLES
  branch,   \* the branch of each session, NoBranch while it is not stored
  opened,   \* the pull requests the platform has
  known,    \* pull_requests
  linked,   \* session_pull_requests: pairs of a session and a pull request
  toLink    \* the pair or pairs the task has yet to link

prVars == <<branch, opened, known, linked, toLink>>

PRTypeOK ==
  /\ branch \in [Sessions -> Branches \cup {NoBranch}]
  /\ opened \subseteq PRs /\ known \subseteq opened
  /\ linked \subseteq { l \in Sessions \X known : branch[l[1]] # NoBranch }
  /\ toLink \subseteq Sessions \X PRs

PRInit ==
  /\ branch = [s \in Sessions |-> NoBranch]
  /\ opened = {} /\ known = {} /\ linked = {} /\ toLink = {}

Open(p) ==
  /\ p \notin opened
  /\ opened' = opened \cup {p}
  /\ UNCHANGED <<branch, known, linked, toLink>>

Save(s, b) ==
  /\ branch[s] = NoBranch
  /\ branch' = [branch EXCEPT ![s] = b]
  /\ UNCHANGED <<opened, known, linked, toLink>>

Delete(s) ==
  /\ branch[s] # NoBranch
  /\ branch' = [branch EXCEPT ![s] = NoBranch]
  /\ linked' = { l \in linked : l[1] # s }
  /\ UNCHANGED <<opened, known, toLink>>

\* List: the branch is looked at only where not all sessions are asked for.
List(all, b) == { s \in Sessions : branch[s] # NoBranch /\ (all \/ branch[s] = b) }

SavePullRequest(p) ==
  /\ toLink = {} /\ p \in opened
  /\ known' = known \cup {p}
  /\ toLink' = List(TRUE, HeadBranch[p]) \X {p}
  /\ UNCHANGED <<branch, opened, linked>>

\* Mutation of LinkSessionPR: the session's row is not asked for.
LinkAnyway(s, p) ==
  /\ <<s, p>> \in toLink
  /\ toLink' = toLink \ {<<s, p>>}
  /\ linked' = linked \cup {<<s, p>>}
  /\ UNCHANGED <<branch, opened, known>>

\* INSERT OR IGNORE; the foreign key fails for a session deleted meanwhile.
LinkSessionPR(s, p) ==
  /\ <<s, p>> \in toLink
  /\ toLink' = toLink \ {<<s, p>>}
  /\ linked' = IF branch[s] = NoBranch THEN linked ELSE linked \cup {<<s, p>>}
  /\ UNCHANGED <<branch, opened, known>>

Stop ==
  /\ toLink # {}
  /\ toLink' = {}
  /\ UNCHANGED <<branch, opened, known, linked>>

PRNext ==
  \/ \E p \in PRs : Open(p) \/ SavePullRequest(p)
  \/ \E s \in Sessions, b \in Branches : Save(s, b)
  \/ \E s \in Sessions : Delete(s)
  \/ \E s \in Sessions, p \in PRs : LinkSessionPR(s, p)
  \/ Stop

PRSpec == PRInit /\ [][PRNext]_prVars

-----------------------------------------------------------------------------
(* Properties.                                                             *)

\* A pull request has the sessions of its branch (prsync_task.go: "links sessions
\* to them by branch name").
LinkedByBranch == \A l \in linked : branch[l[1]] = HeadBranch[l[2]]
=============================================================================
