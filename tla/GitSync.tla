------------------------------- MODULE GitSync -------------------------------
(***************************************************************************)
(* Sharing sessions over the orphan branch aisync/sessions: gitsync's Push *)
(* and Pull, the Sync that runs one after the other, and the git plumbing  *)
(* below them.  Each machine has a store, a local branch and one temporary *)
(* index file; the command line, the HTTP API and the MCP server may all   *)
(* run an operation on the same machine at the same time.                  *)
(*                                                                         *)
(* No operation ever merges, so a branch is the sequence of its commits    *)
(* and git's fast-forward test is IsPrefix.                                *)
(***************************************************************************)
EXTENDS Naturals, SequencesExt

CONSTANTS
  Machines,
  Procs,          \* processes that push, pull or sync
  Host,           \* Host[p], the machine of the process
  Sessions,
  Writers,        \* the machines on which sessions take place
  Ops,            \* Ops[p], the operations the process calls
  Remotes,        \* the values of their remote flag
  MaxFaults       \* bound on network failures, failed reads and crashes

ASSUME HostAssumption == Host \in [Procs -> Machines] /\ Writers \subseteq Machines
ASSUME OpsAssumption ==
  /\ Ops \in [Procs -> SUBSET {"push", "pull", "sync"}] /\ Remotes \subseteq BOOLEAN
  /\ MaxFaults \in Nat

\* What a commit's tree holds: the ids index.json lists and the session files.
Tree == [index : SUBSET Sessions, files : SUBSET Sessions]
EmptyTree == [index |-> {}, files |-> {}]

\* Two commits are equal when author, parent and tree are, the parent being the
\* commit before it in the sequence: the same author makes no such pair.
Commit == [author : Procs, tree : Tree]

VARIABLES
  held,     \* the sessions in each machine's store
  branch,   \* each machine's refs/heads/aisync/sessions; empty: no such ref
  remote,   \* the branch at origin
  tmp,      \* each machine's .git/aisync-tmp-index
  pc,
  call,     \* the operation each process runs
  seen,     \* what the operation has read: sessions, index, parent, new tree
  acked,    \* history: sessions whose push reported Remote = true
  misread,  \* history: a push took a failed read for a missing branch or index
  faults

vars == <<held, branch, remote, tmp, pc, call, seen, acked, misread, faults>>

Pushing == {"ensure", "init", "list", "index", "base", "add", "tree", "ref", "clean", "remote"}
Pulling == {"fetch", "read", "import"}

Idle == [op |-> "none", remote |-> FALSE]
Nothing == [listed |-> {}, index |-> {}, parent |-> << >>, tree |-> EmptyTree]

TypeOK ==
  /\ held \in [Machines -> SUBSET Sessions]
  /\ branch \in [Machines -> Seq(Commit)]
  /\ remote \in Seq(Commit)
  /\ tmp \in [Machines -> Tree]
  /\ pc \in [Procs -> Pushing \cup Pulling \cup {"idle"}]
  /\ call \in [Procs -> [op : {"push", "pull", "sync"}, remote : Remotes] \cup {Idle}]
  /\ seen \in [Procs -> [listed : SUBSET Sessions, index : SUBSET Sessions,
                         parent : Seq(Commit), tree : Tree]]
  /\ acked \in SUBSET Sessions
  /\ misread \in BOOLEAN
  /\ faults \in 0 .. MaxFaults

Init ==
  /\ held = [m \in Machines |-> {}]
  /\ branch = [m \in Machines |-> << >>]
  /\ remote = << >>
  /\ tmp = [m \in Machines |-> EmptyTree]
  /\ pc = [p \in Procs |-> "idle"]
  /\ call = [p \in Procs |-> Idle]
  /\ seen = [p \in Procs |-> Nothing]
  /\ acked = {}
  /\ misread = FALSE
  /\ faults = 0

\* A commit's tree; a missing branch or file reads as empty.
TreeOf(commits) == IF commits = << >> THEN EmptyTree ELSE commits[Len(commits)].tree

Branch(p) == branch[Host[p]]
MoveBranch(p, commits) == branch' = [branch EXCEPT ![Host[p]] = commits]
SetTmp(p, tree) == tmp' = [tmp EXCEPT ![Host[p]] = tree]

Goto(p, from, to) == pc[p] = from /\ pc' = [pc EXCEPT ![p] = to] /\ UNCHANGED call
Note(p, field, value) == seen' = [seen EXCEPT ![p][field] = value]

\* The operation returns and its variables are gone.
Return(p) ==
  /\ pc' = [pc EXCEPT ![p] = "idle"]
  /\ call' = [call EXCEPT ![p] = Idle]
  /\ seen' = [seen EXCEPT ![p] = Nothing]

Fault == faults < MaxFaults /\ faults' = faults + 1 /\ UNCHANGED misread
Misread == faults < MaxFaults /\ faults' = faults + 1 /\ misread' = TRUE

-----------------------------------------------------------------------------
(* The world: sessions are captured, operations are called.                *)

\* Session ids are unique: a session takes place once.
Record(m, s) ==
  /\ m \in Writers /\ \A n \in Machines : s \notin held[n]
  /\ held' = [held EXCEPT ![m] = @ \cup {s}]
  /\ UNCHANGED <<branch, remote, tmp, pc, call, seen, acked, misread, faults>>

Begin(p) ==
  /\ pc[p] = "idle"
  /\ \E op \in Ops[p], r \in Remotes :
       /\ call' = [call EXCEPT ![p] = [op |-> op, remote |-> r]]
       /\ pc' = [pc EXCEPT ![p] = IF op = "push" THEN "ensure" ELSE "fetch"]
  /\ UNCHANGED <<held, branch, remote, tmp, seen, acked, misread, faults>>

-----------------------------------------------------------------------------
(* Pull.                                                                   *)

\* Mutation of Fetch: only a branch that exists is fetched.
FetchExisting(p) ==
  /\ Goto(p, "fetch", "read")
  /\ IF call[p].remote /\ Branch(p) # << >> /\ IsPrefix(Branch(p), remote)
     THEN MoveBranch(p, remote)
     ELSE UNCHANGED branch
  /\ UNCHANGED <<held, remote, tmp, seen, acked, misread, faults>>

\* A failed fetch, a missing remote branch and a branch that has diverged are
\* all ignored.
Fetch(p) ==
  /\ Goto(p, "fetch", "read")
  /\ IF call[p].remote /\ IsPrefix(Branch(p), remote)
     THEN MoveBranch(p, remote)
     ELSE UNCHANGED branch
  /\ UNCHANGED <<held, remote, tmp, seen, acked, misread, faults>>

FetchFails(p) ==
  /\ Goto(p, "fetch", "read") /\ call[p].remote /\ Fault
  /\ UNCHANGED <<held, branch, remote, tmp, seen, acked>>

\* No branch reads as an empty index: nothing is imported, which is no error.
ReadForPull(p) ==
  /\ Goto(p, "read", "import")
  /\ Note(p, "index", TreeOf(Branch(p)).index)
  /\ UNCHANGED <<held, branch, remote, tmp, acked, misread, faults>>

\* A git command that fails reads as a missing branch or index too.
ReadForPullFails(p) ==
  /\ Goto(p, "read", "import") /\ Fault
  /\ Note(p, "index", {})
  /\ UNCHANGED <<held, branch, remote, tmp, acked>>

\* Each listed session not held is read from the branch and saved; Sync goes on
\* with a push.
Import(p) ==
  /\ pc[p] = "import"
  /\ held' = [held EXCEPT ![Host[p]] =
                @ \cup (seen[p].index \cap TreeOf(Branch(p)).files)]
  /\ IF call[p].op = "sync" THEN Goto(p, "import", "ensure") /\ UNCHANGED seen ELSE Return(p)
  /\ UNCHANGED <<branch, remote, tmp, acked, misread, faults>>

\* A session whose file cannot be read or that cannot be saved is passed over.
ImportFails(p) ==
  /\ pc[p] = "import" /\ Fault
  /\ \E got \in SUBSET (seen[p].index \cap TreeOf(Branch(p)).files) :
       held' = [held EXCEPT ![Host[p]] = @ \cup got]
  /\ IF call[p].op = "sync" THEN Goto(p, "import", "ensure") /\ UNCHANGED seen ELSE Return(p)
  /\ UNCHANGED <<branch, remote, tmp, acked>>

-----------------------------------------------------------------------------
(* Push.                                                                   *)

Ensure(p) ==
  /\ Goto(p, "ensure", IF Branch(p) = << >> THEN "init" ELSE "list")
  /\ UNCHANGED <<held, branch, remote, tmp, seen, acked, misread, faults>>

\* SyncBranchExists: a rev-parse that fails, for whatever reason, reads as "no".
EnsureFails(p) ==
  /\ Goto(p, "ensure", "init") /\ Misread
  /\ UNCHANGED <<held, branch, remote, tmp, seen, acked>>

\* InitSyncBranch: a root commit, set without looking at the ref again.
InitSyncBranch(p) ==
  /\ Goto(p, "init", "list")
  /\ MoveBranch(p, << [author |-> p, tree |-> EmptyTree] >>)
  /\ UNCHANGED <<held, remote, tmp, seen, acked, misread, faults>>

List(p) ==
  /\ pc[p] = "list"
  /\ IF held[Host[p]] = {}
     THEN Return(p)
     ELSE Goto(p, "list", "index") /\ Note(p, "listed", held[Host[p]])
  /\ UNCHANGED <<held, branch, remote, tmp, acked, misread, faults>>

\* A session that cannot be loaded is passed over.
ListFails(p) ==
  /\ Goto(p, "list", "index") /\ Fault
  /\ \E got \in SUBSET held[Host[p]] : Note(p, "listed", got)
  /\ UNCHANGED <<held, branch, remote, tmp, acked>>

New(p) == seen[p].listed \ seen[p].index

\* The index is read; the sessions it lists are pushed already.
ReadIndex(p) ==
  /\ Goto(p, "index", "base")
  /\ Note(p, "index", TreeOf(Branch(p)).index)
  /\ UNCHANGED <<held, branch, remote, tmp, acked, misread, faults>>

\* A git show that fails reads as a missing index, that is an empty one.
ReadIndexFails(p) ==
  /\ Goto(p, "index", "base") /\ Misread
  /\ Note(p, "index", {})
  /\ UNCHANGED <<held, branch, remote, tmp, acked>>

\* Nothing new: the push returns, and the remote is not pushed to.
NothingNew(p) ==
  /\ pc[p] = "base" /\ New(p) = {}
  /\ Return(p)
  /\ UNCHANGED <<held, branch, remote, tmp, acked, misread, faults>>

\* Mutation of ReadBase: the commit is loaded where its tree is wanted.
ReadBaseCommit(p) ==
  /\ New(p) # {} /\ Goto(p, "base", "add")
  /\ Note(p, "parent", Branch(p))
  /\ SetTmp(p, Branch(p)[Len(Branch(p))])
  /\ UNCHANGED <<held, branch, remote, acked, misread, faults>>

\* WriteSyncFiles: the tree and the commit to build on are read, and the tree is
\* loaded into the temporary index ...
ReadBase(p) ==
  /\ New(p) # {} /\ Goto(p, "base", "add")
  /\ Note(p, "parent", Branch(p))
  /\ SetTmp(p, TreeOf(Branch(p)))
  /\ UNCHANGED <<held, branch, remote, acked, misread, faults>>

\* Mutation of AddFiles: the index lists the new sessions only.
AddFilesOnlyNew(p) ==
  /\ Goto(p, "add", "tree")
  /\ SetTmp(p, [index |-> New(p), files |-> tmp[Host[p]].files \cup New(p)])
  /\ UNCHANGED <<held, branch, remote, seen, acked, misread, faults>>

\* Mutation of AddFiles: the session files are left out.
AddFilesIndexOnly(p) ==
  /\ Goto(p, "add", "tree")
  /\ SetTmp(p, [index |-> seen[p].index \cup New(p), files |-> tmp[Host[p]].files])
  /\ UNCHANGED <<held, branch, remote, seen, acked, misread, faults>>

\* ... the new session files and the new index.json are put into it ...
AddFiles(p) ==
  /\ Goto(p, "add", "tree")
  /\ SetTmp(p, [index |-> seen[p].index \cup New(p),
                files |-> tmp[Host[p]].files \cup New(p)])
  /\ UNCHANGED <<held, branch, remote, seen, acked, misread, faults>>

\* ... it is written as a tree and committed ...
WriteTree(p) ==
  /\ Goto(p, "tree", "ref")
  /\ Note(p, "tree", tmp[Host[p]])
  /\ UNCHANGED <<held, branch, remote, tmp, acked, misread, faults>>

\* ... and the branch is set to the commit, whatever it is by now.
UpdateRef(p) ==
  /\ Goto(p, "ref", "clean")
  /\ MoveBranch(p, Append(seen[p].parent, [author |-> p, tree |-> seen[p].tree]))
  /\ UNCHANGED <<held, remote, tmp, seen, acked, misread, faults>>

RemoveTmp(p) ==
  /\ pc[p] = "clean"
  /\ SetTmp(p, EmptyTree)
  /\ IF call[p].remote THEN Goto(p, "clean", "remote") /\ UNCHANGED seen ELSE Return(p)
  /\ UNCHANGED <<held, branch, remote, acked, misread, faults>>

\* git push: accepted if it is a fast-forward; the push reports Remote = true.
PushAccepted(p) ==
  /\ pc[p] = "remote" /\ IsPrefix(remote, Branch(p))
  /\ remote' = Branch(p)
  /\ acked' = acked \cup New(p)
  /\ Return(p)
  /\ UNCHANGED <<held, branch, tmp, misread, faults>>

\* Mutation of PushRejected: a forced push.
PushForced(p) ==
  /\ pc[p] = "remote" /\ ~IsPrefix(remote, Branch(p))
  /\ remote' = Branch(p)
  /\ Return(p)
  /\ UNCHANGED <<held, branch, tmp, acked, misread, faults>>

\* Rejected: the push returns an error, and the local commit stays.
PushRejected(p) ==
  /\ pc[p] = "remote" /\ ~IsPrefix(remote, Branch(p))
  /\ Return(p)
  /\ UNCHANGED <<held, branch, remote, tmp, acked, misread, faults>>

\* The network fails before the push or, once the remote has it, before the reply.
PushFails(p) ==
  /\ pc[p] = "remote" /\ Fault
  /\ \/ UNCHANGED remote
     \/ IsPrefix(remote, Branch(p)) /\ remote' = Branch(p)
  /\ Return(p)
  /\ UNCHANGED <<held, branch, tmp, acked>>

\* The process dies between two git commands; the temporary index stays.
Crash(p) ==
  /\ pc[p] # "idle" /\ Fault
  /\ Return(p)
  /\ UNCHANGED <<held, branch, remote, tmp, acked>>

Pull(p) == Fetch(p) \/ ReadForPull(p) \/ Import(p)
Push(p) ==
  \/ Ensure(p) \/ InitSyncBranch(p) \/ List(p) \/ ReadIndex(p) \/ NothingNew(p)
  \/ ReadBase(p) \/ AddFiles(p) \/ WriteTree(p) \/ UpdateRef(p) \/ RemoveTmp(p)
  \/ PushAccepted(p) \/ PushRejected(p)
Failure(p) ==
  \/ FetchFails(p) \/ ReadForPullFails(p) \/ ImportFails(p)
  \/ EnsureFails(p) \/ ListFails(p) \/ ReadIndexFails(p) \/ PushFails(p) \/ Crash(p)

Next ==
  \/ \E m \in Machines, s \in Sessions : Record(m, s)
  \/ \E p \in Procs : Begin(p) \/ Pull(p) \/ Push(p) \/ Failure(p)

\* Every process calls its operations again and again, and an operation that
\* runs goes on.  Sessions need not take place.
Fairness == \A p \in Procs : WF_vars(Begin(p) \/ Pull(p) \/ Push(p))

Spec == Init /\ [][Next]_vars
FairSpec == Spec /\ Fairness

-----------------------------------------------------------------------------
(* Properties.                                                             *)

Listed(commits) == TreeOf(commits).index

\* Sharing works as the team sees it: what the remote lists only grows, by sessions the
\* pushing machine holds, and a pull brings shared sessions only.  It is the promise
\* of TeamShare for as long as no push takes a failed read for a missing branch.
Team == INSTANCE TeamShare WITH shared <- Listed(remote)
SharesAsPromised == Team!Init /\ [][~misread' => Team!Next]_(Team!vars)

\* A session whose push reported success stays readable at the remote: listed
\* in the index and with its file, whoever pushes afterwards and whatever fails, apart
\* from a read taken for a missing branch or index.
AckedIsShared == ~misread => acked \subseteq Listed(remote) \cap TreeOf(remote).files

\* Every branch a machine may read from lists only sessions it has files for,
\* whatever fails.
IndexHasFiles ==
  \A commits \in {remote} \cup { branch[m] : m \in Machines } :
    Listed(commits) \subseteq TreeOf(commits).files

\* A local branch never loses a listed session (gitsync's TestPush_appendOnly), unless a
\* failed read was taken for a missing branch or index.
AppendOnly ==
  [][ ~misread' => \A m \in Machines : Listed(branch[m]) \subseteq Listed(branch[m])' ]_vars

\* The same without the exception.
AlwaysAppendOnly ==
  [][ \A m \in Machines : Listed(branch[m]) \subseteq Listed(branch[m])' ]_vars

\* Every session is shared with every machine in the end (README: "Push sessions
\* to a shared aisync/sessions Git branch so colleagues can pull them").
Delivered ==
  \A s \in Sessions :
    (\E m \in Machines : s \in held[m]) ~> (\A m \in Machines : s \in held[m])
=============================================================================
