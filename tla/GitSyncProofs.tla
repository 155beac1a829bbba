---------------------------- MODULE GitSyncProofs ----------------------------
(***************************************************************************)
(* Proofs about GitSync for every number of machines, sessions and faults. *)
(* The types hold whatever runs together.  The rest is about machines that *)
(* run one operation at a time (OneProcess): two operations on one machine *)
(* share its temporary index file and its branch, and lock neither.        *)
(*                                                                         *)
(* ShareInv is the inductive invariant.  It says what an operation has in  *)
(* its hands at each step (OpInv), that every commit's index lists files   *)
(* the commit has, and, as long as no push has taken a failed read for a   *)
(* missing branch or index, that no commit lists less than the one before  *)
(* it and that a branch lists only what its machine holds or the remote    *)
(* lists.                                                                  *)
(***************************************************************************)
EXTENDS GitSync, SequenceTheorems, TLAPS

OneProcess == \A p, q \in Procs : Host[p] = Host[q] => p = q

-----------------------------------------------------------------------------
(* Types.                                                                  *)

Seen == [listed : SUBSET Sessions, index : SUBSET Sessions,
         parent : Seq(Commit), tree : Tree]

LEMMA TreeFacts ==
  /\ EmptyTree \in Tree
  /\ \A t \in Tree : t.index \in SUBSET Sessions /\ t.files \in SUBSET Sessions
  /\ \A c \in Commit : c.tree \in Tree
BY DEF Tree, EmptyTree, Commit

\* The tree of a branch, also of a missing one.
LEMMA TreeOfType ==
  ASSUME NEW commits \in Seq(Commit)
  PROVE  /\ TreeOf(commits) \in Tree
         /\ TreeOf(commits).index \in SUBSET Sessions
         /\ TreeOf(commits).files \in SUBSET Sessions
<1>1. TreeOf(commits) \in Tree
  <2>1. CASE commits = << >>
    BY <2>1, TreeFacts DEF TreeOf
  <2>2. CASE commits # << >>
    <3>1. commits[Len(commits)] \in Commit
      BY <2>2
    <3>. QED
      BY <2>2, <3>1, TreeFacts DEF TreeOf
  <2>. QED
    BY <2>1, <2>2
<1>. QED
  BY <1>1, TreeFacts

LEMMA SeenType ==
  ASSUME NEW s \in Seen
  PROVE  /\ s.listed \in SUBSET Sessions /\ s.index \in SUBSET Sessions
         /\ s.parent \in Seq(Commit) /\ s.tree \in Tree
         /\ \A x \in SUBSET Sessions : [s EXCEPT !["listed"] = x] \in Seen
         /\ \A x \in SUBSET Sessions : [s EXCEPT !["index"] = x] \in Seen
         /\ \A x \in Seq(Commit) : [s EXCEPT !["parent"] = x] \in Seen
         /\ \A x \in Tree : [s EXCEPT !["tree"] = x] \in Seen
BY DEF Seen

LEMMA GitTypeInit == Init => TypeOK
<1>. SUFFICES ASSUME Init PROVE TypeOK
  OBVIOUS
<1>1. Nothing \in Seen
  BY TreeFacts DEF Nothing, Seen
<1>2. faults \in 0 .. MaxFaults
  BY OpsAssumption DEF Init
<1>3. misread \in BOOLEAN
  BY DEF Init
<1>. QED
  BY <1>1, <1>2, <1>3, TreeFacts DEF Init, TypeOK, Seen

\* What is common to the steps of an operation.
LEMMA ReturnType ==
  ASSUME TypeOK, NEW p \in Procs, Return(p)
  PROVE  /\ pc' \in [Procs -> Pushing \cup Pulling \cup {"idle"}]
         /\ call' \in [Procs -> [op : {"push", "pull", "sync"}, remote : Remotes] \cup {Idle}]
         /\ seen' \in [Procs -> Seen]
<1>1. Nothing \in Seen
  BY TreeFacts DEF Nothing, Seen
<1>. QED
  BY <1>1 DEF Return, TypeOK, Seen

LEMMA FaultType ==
  ASSUME TypeOK, Fault \/ Misread
  PROVE  faults' \in 0 .. MaxFaults /\ misread' \in BOOLEAN
<1>1. faults' \in 0 .. MaxFaults
  BY OpsAssumption DEF TypeOK, Fault, Misread
<1>2. misread' \in BOOLEAN
  BY DEF TypeOK, Fault, Misread
<1>. QED
  BY <1>1, <1>2

LEMMA GitTypeStep == TypeOK /\ [Next]_vars => TypeOK'
<1>. SUFFICES ASSUME TypeOK, [Next]_vars PROVE TypeOK'
  OBVIOUS
<1>. DEFINE Typed ==
       /\ held \in [Machines -> SUBSET Sessions]
       /\ branch \in [Machines -> Seq(Commit)]
       /\ remote \in Seq(Commit)
       /\ tmp \in [Machines -> Tree]
       /\ pc \in [Procs -> Pushing \cup Pulling \cup {"idle"}]
       /\ call \in [Procs -> [op : {"push", "pull", "sync"}, remote : Remotes] \cup {Idle}]
       /\ seen \in [Procs -> Seen]
       /\ acked \in SUBSET Sessions
       /\ misread \in BOOLEAN
       /\ faults \in 0 .. MaxFaults
<1>1. Typed
  BY DEF TypeOK, Seen
<1>2. SUFFICES Typed'
  BY DEF TypeOK, Seen
<1>3. ASSUME NEW m \in Machines, NEW s \in Sessions, Record(m, s)
      PROVE  Typed'
  BY <1>1, <1>3 DEF Record
<1>4. ASSUME NEW p \in Procs PROVE /\ Host[p] \in Machines
                                   /\ Branch(p) \in Seq(Commit)
                                   /\ seen[p] \in Seen
                                   /\ New(p) \in SUBSET Sessions
                                   /\ tmp[Host[p]] \in Tree
  <2>1. Host[p] \in Machines
    BY HostAssumption
  <2>2. seen[p] \in Seen /\ Branch(p) \in Seq(Commit) /\ tmp[Host[p]] \in Tree
    BY <1>1, <2>1 DEF Branch
  <2>. QED
    BY <2>1, <2>2, SeenType DEF New
<1>5. ASSUME NEW p \in Procs, Begin(p)
      PROVE  Typed'
  <2>1. PICK op \in Ops[p], r \in Remotes :
          /\ call' = [call EXCEPT ![p] = [op |-> op, remote |-> r]]
          /\ pc' = [pc EXCEPT ![p] = IF op = "push" THEN "ensure" ELSE "fetch"]
    BY <1>5 DEF Begin
  <2>2. op \in {"push", "pull", "sync"}
    BY OpsAssumption
  <2>3. [op |-> op, remote |-> r] \in [op : {"push", "pull", "sync"}, remote : Remotes]
    BY <2>2
  <2>4. pc' \in [Procs -> Pushing \cup Pulling \cup {"idle"}]
    BY <1>1, <2>1 DEF Pushing, Pulling
  <2>. HIDE DEF Pushing, Pulling
  <2>5. call' \in [Procs -> [op : {"push", "pull", "sync"}, remote : Remotes] \cup {Idle}]
    BY <1>1, <2>1, <2>3
  <2>. QED
    BY <1>1, <1>5, <2>4, <2>5 DEF Begin
<1>6. ASSUME NEW p \in Procs,
             Pull(p) \/ FetchFails(p) \/ ReadForPullFails(p) \/ ImportFails(p)
      PROVE  Typed'
  <2>1. CASE Fetch(p) \/ FetchFails(p)
    BY <1>1, <1>4, <2>1, FaultType DEF Fetch, FetchFails, Goto, MoveBranch, Pulling
  <2>2. CASE ReadForPull(p)
    <3>1. TreeOf(Branch(p)).index \in SUBSET Sessions
      BY <1>4, TreeOfType
    <3>2. seen' \in [Procs -> Seen]
      BY <1>1, <1>4, <2>2, <3>1, SeenType DEF ReadForPull, Note
    <3>. QED
      BY <1>1, <2>2, <3>2 DEF ReadForPull, Goto, Pulling
  <2>3. CASE Import(p)
    <3>1. held' \in [Machines -> SUBSET Sessions]
      BY <1>1, <1>4, <2>3, SeenType DEF Import
    <3>. QED
      BY <1>1, <2>3, <3>1, ReturnType DEF Import, Goto, Pushing
  <2>4. CASE ReadForPullFails(p)
    <3>1. seen' \in [Procs -> Seen]
      BY <1>1, <1>4, <2>4, SeenType DEF ReadForPullFails, Note
    <3>. QED
      BY <1>1, <2>4, <3>1, FaultType DEF ReadForPullFails, Goto, Pulling
  <2>5. CASE ImportFails(p)
    <3>1. held' \in [Machines -> SUBSET Sessions]
      BY <1>1, <1>4, <2>5, SeenType DEF ImportFails
    <3>2. /\ pc' \in [Procs -> Pushing \cup Pulling \cup {"idle"}]
          /\ call' \in [Procs -> [op : {"push", "pull", "sync"}, remote : Remotes] \cup {Idle}]
          /\ seen' \in [Procs -> Seen]
      BY <1>1, <2>5, ReturnType DEF ImportFails, Goto, Pushing
    <3>. QED
      BY <1>1, <2>5, <3>1, <3>2, FaultType DEF ImportFails
  <2>. QED
    BY <1>6, <2>1, <2>2, <2>3, <2>4, <2>5 DEF Pull
<1>7. ASSUME NEW p \in Procs,
             \/ Push(p) \/ EnsureFails(p) \/ ListFails(p) \/ ReadIndexFails(p)
             \/ PushFails(p) \/ Crash(p)
      PROVE  Typed'
  <2>1. CASE Ensure(p) \/ EnsureFails(p)
    BY <1>1, <2>1, FaultType DEF Ensure, EnsureFails, Goto, Pushing
  <2>2. CASE InitSyncBranch(p)
    <3>1. << [author |-> p, tree |-> EmptyTree] >> \in Seq(Commit)
      BY TreeFacts DEF Commit
    <3>. QED
      BY <1>1, <2>2, <3>1 DEF InitSyncBranch, Goto, MoveBranch, Pushing
  <2>3. CASE List(p)
    <3>1. held[Host[p]] \in SUBSET Sessions
      BY <1>1, <1>4
    <3>2. seen' \in [Procs -> Seen]
      <4>1. CASE held[Host[p]] = {}
        BY <2>3, <4>1, ReturnType DEF List
      <4>2. CASE held[Host[p]] # {}
        <5>1. [seen[p] EXCEPT !["listed"] = held[Host[p]]] \in Seen
          BY <1>4, <3>1, SeenType
        <5>. QED
          BY <1>1, <2>3, <4>2, <5>1 DEF List, Note
      <4>. QED
        BY <4>1, <4>2
    <3>. QED
      BY <1>1, <2>3, <3>2, ReturnType DEF List, Goto, Pushing
  <2>4. CASE ReadIndex(p) \/ ReadIndexFails(p)
    <3>1. TreeOf(Branch(p)).index \in SUBSET Sessions
      BY <1>4, TreeOfType
    <3>2. seen' \in [Procs -> Seen]
      <4>1. PICK x \in SUBSET Sessions : Note(p, "index", x)
        BY <2>4, <3>1 DEF ReadIndex, ReadIndexFails
      <4>2. [seen[p] EXCEPT !["index"] = x] \in Seen
        BY <1>4, SeenType
      <4>. QED
        BY <1>1, <4>1, <4>2 DEF Note
    <3>. QED
      BY <1>1, <2>4, <3>2, FaultType DEF ReadIndex, ReadIndexFails, Goto, Pushing
  <2>5. CASE NothingNew(p) \/ PushRejected(p)
    BY <1>1, <2>5, ReturnType DEF NothingNew, PushRejected
  <2>6. CASE ReadBase(p)
    <3>1. seen' \in [Procs -> Seen]
      BY <1>1, <1>4, <2>6, SeenType DEF ReadBase, Note
    <3>2. tmp' \in [Machines -> Tree]
      BY <1>1, <1>4, <2>6, TreeOfType DEF ReadBase, SetTmp
    <3>. QED
      BY <1>1, <2>6, <3>1, <3>2 DEF ReadBase, Goto, Pushing
  <2>7. CASE AddFiles(p)
    <3>1. [index |-> seen[p].index \cup New(p), files |-> tmp[Host[p]].files \cup New(p)] \in Tree
      BY <1>4, SeenType, TreeFacts DEF Tree
    <3>. QED
      BY <1>1, <2>7, <3>1 DEF AddFiles, SetTmp, Goto, Pushing
  <2>8. CASE WriteTree(p)
    <3>1. seen' \in [Procs -> Seen]
      BY <1>1, <1>4, <2>8, SeenType DEF WriteTree, Note
    <3>. QED
      BY <1>1, <2>8, <3>1 DEF WriteTree, Goto, Pushing
  <2>9. CASE UpdateRef(p)
    <3>1. Append(seen[p].parent, [author |-> p, tree |-> seen[p].tree]) \in Seq(Commit)
      <4>1. [author |-> p, tree |-> seen[p].tree] \in Commit
        BY <1>4, SeenType DEF Commit
      <4>2. seen[p].parent \in Seq(Commit)
        BY <1>4, SeenType
      <4>. QED
        BY <4>1, <4>2
    <3>. QED
      BY <1>1, <2>9, <3>1 DEF UpdateRef, MoveBranch, Goto, Pushing
  <2>10. CASE RemoveTmp(p)
    BY <1>1, <2>10, TreeFacts, ReturnType DEF RemoveTmp, SetTmp, Goto, Pushing
  <2>11. CASE PushAccepted(p)
    BY <1>1, <1>4, <2>11, ReturnType DEF PushAccepted
  <2>12. CASE PushFails(p) \/ Crash(p)
    BY <1>1, <1>4, <2>12, FaultType, ReturnType DEF PushFails, Crash
  <2>13. CASE ListFails(p)
    <3>1. PICK got \in SUBSET held[Host[p]] : Note(p, "listed", got)
      BY <2>13 DEF ListFails
    <3>2. got \in SUBSET Sessions
      BY <1>1, <1>4
    <3>3. [seen[p] EXCEPT !["listed"] = got] \in Seen
      BY <1>4, <3>2, SeenType
    <3>4. seen' \in [Procs -> Seen]
      BY <1>1, <3>1, <3>3 DEF Note
    <3>. QED
      BY <1>1, <2>13, <3>4, FaultType DEF ListFails, Goto, Pushing
  <2>. QED
    BY <1>7, <2>1, <2>2, <2>3, <2>4, <2>5, <2>6, <2>7, <2>8, <2>9, <2>10, <2>11, <2>12, <2>13
       DEF Push
<1>8. CASE UNCHANGED vars
  BY <1>1, <1>8 DEF vars
<1>. QED
  BY <1>3, <1>5, <1>6, <1>7, <1>8 DEF Next, Failure

\* Every state of every push, pull and sync is of the declared types, however
\* many processes run on a machine: in particular a branch never gets a commit
\* where a tree belongs.
THEOREM GitTypeCorrect == Spec => []TypeOK
BY GitTypeInit, GitTypeStep, PTL DEF Spec
-----------------------------------------------------------------------------
(* Commits.                                                                *)

\* Every commit has the files its index lists.
Complete(commits) ==
  \A i \in 1 .. Len(commits) : commits[i].tree.index \subseteq commits[i].tree.files

\* No commit lists less than an earlier one.
Growing(commits) ==
  \A i, j \in 1 .. Len(commits) :
    i <= j => commits[i].tree.index \subseteq commits[j].tree.index

LEMMA CompleteListed ==
  ASSUME NEW commits \in Seq(Commit), Complete(commits)
  PROVE  Listed(commits) \subseteq TreeOf(commits).files
<1>1. CASE commits = << >>
  BY <1>1 DEF Listed, TreeOf, EmptyTree
<1>2. CASE commits # << >>
  <2>1. Len(commits) \in 1 .. Len(commits)
    BY <1>2
  <2>2. commits[Len(commits)].tree.index \subseteq commits[Len(commits)].tree.files
    BY <2>1 DEF Complete
  <2>. QED
    BY <1>2, <2>2 DEF Listed, TreeOf
<1>. QED
  BY <1>1, <1>2

\* A fast-forward lists no less.
LEMMA PrefixListed ==
  ASSUME NEW commits \in Seq(Commit), NEW more \in Seq(Commit),
         IsPrefix(commits, more), Growing(more)
  PROVE  Listed(commits) \subseteq Listed(more)
<1>1. CASE commits = << >>
  BY <1>1 DEF Listed, TreeOf, EmptyTree
<1>2. CASE commits # << >>
  <2>. DEFINE n == Len(commits)
  <2>1. n \in Nat /\ n >= 1 /\ n <= Len(more) /\ SubSeq(commits, 1, n) = SubSeq(more, 1, n)
    BY <1>2 DEF IsPrefix
  <2>2. SubSeq(commits, 1, n)[n] = commits[n] /\ SubSeq(more, 1, n)[n] = more[n]
    BY <2>1, SubSeqProperties
  <2>3. commits[n] = more[n]
    BY <2>1, <2>2
  <2>4. Len(more) \in 1 .. Len(more) /\ n \in 1 .. Len(more)
    BY <2>1
  <2>5. more[n].tree.index \subseteq more[Len(more)].tree.index
    BY <2>1, <2>4 DEF Growing
  <2>6. more # << >>
    BY <2>1
  <2>. QED
    BY <1>2, <2>3, <2>5, <2>6 DEF Listed, TreeOf
<1>. QED
  BY <1>1, <1>2

\* A commit added to a branch.
LEMMA AppendCommit ==
  ASSUME NEW commits \in Seq(Commit), NEW c \in Commit
  PROVE  /\ TreeOf(Append(commits, c)) = c.tree
         /\ Complete(commits) /\ c.tree.index \subseteq c.tree.files
              => Complete(Append(commits, c))
         /\ Growing(commits) /\ Listed(commits) \subseteq c.tree.index
              => Growing(Append(commits, c))
<1>. DEFINE more == Append(commits, c)
<1>1. /\ more \in Seq(Commit) /\ Len(more) = Len(commits) + 1 /\ Len(commits) \in Nat
      /\ more[Len(commits) + 1] = c
      /\ \A i \in 1 .. Len(commits) : more[i] = commits[i]
  OBVIOUS
<1>. HIDE DEF more
<1>2. TreeOf(more) = c.tree
  <2>1. more # << >>
    BY <1>1
  <2>. QED
    BY <1>1, <2>1 DEF TreeOf
<1>3. ASSUME Complete(commits), c.tree.index \subseteq c.tree.files
      PROVE  Complete(more)
  <2>. SUFFICES ASSUME NEW i \in 1 .. Len(more)
                PROVE  more[i].tree.index \subseteq more[i].tree.files
    BY DEF Complete
  <2>1. CASE i = Len(commits) + 1
    BY <1>1, <1>3, <2>1
  <2>2. CASE i # Len(commits) + 1
    <3>1. i \in 1 .. Len(commits)
      BY <1>1, <2>2
    <3>. QED
      BY <1>1, <1>3, <3>1 DEF Complete
  <2>. QED
    BY <2>1, <2>2
<1>4. ASSUME Growing(commits), Listed(commits) \subseteq c.tree.index
      PROVE  Growing(more)
  <2>. SUFFICES ASSUME NEW i \in 1 .. Len(more), NEW j \in 1 .. Len(more), i <= j
                PROVE  more[i].tree.index \subseteq more[j].tree.index
    BY DEF Growing
  <2>1. CASE i = Len(commits) + 1
    <3>1. i = j
      BY <1>1, <2>1
    <3>. QED
      BY <3>1
  <2>2. CASE i # Len(commits) + 1 /\ j # Len(commits) + 1
    <3>1. i \in 1 .. Len(commits) /\ j \in 1 .. Len(commits)
      BY <1>1, <2>2
    <3>. QED
      BY <1>1, <1>4, <3>1 DEF Growing
  <2>3. CASE i # Len(commits) + 1 /\ j = Len(commits) + 1
    <3>1. i \in 1 .. Len(commits) /\ Len(commits) \in 1 .. Len(commits) /\ i <= Len(commits)
      BY <1>1, <2>3
    <3>2. commits[i].tree.index \subseteq commits[Len(commits)].tree.index
      BY <1>4, <3>1 DEF Growing
    <3>3. commits # << >>
      BY <3>1
    <3>4. commits[Len(commits)].tree.index = Listed(commits)
      BY <3>3 DEF Listed, TreeOf
    <3>. QED
      BY <1>1, <1>4, <2>3, <3>1, <3>2, <3>4
  <2>. QED
    BY <2>1, <2>2, <2>3
<1>. QED
  BY <1>2, <1>3, <1>4 DEF more

LEMMA EmptyBranch ==
  /\ TreeOf(<< >>) = EmptyTree /\ Listed(<< >>) = {}
  /\ Complete(<< >>) /\ Growing(<< >>)
BY DEF TreeOf, Listed, EmptyTree, Complete, Growing

\* The root commit of a new branch.
LEMMA RootCommit ==
  ASSUME NEW p \in Procs
  PROVE  LET root == << [author |-> p, tree |-> EmptyTree] >>
         IN  /\ root \in Seq(Commit) /\ Listed(root) = {}
             /\ Complete(root) /\ Growing(root)
<1>. DEFINE root == << [author |-> p, tree |-> EmptyTree] >>
<1>1. root \in Seq(Commit) /\ Len(root) = 1 /\ root[1].tree = EmptyTree /\ root # << >>
  BY TreeFacts DEF Commit
<1>. HIDE DEF root
<1>2. EmptyTree.index = {} /\ EmptyTree.files = {}
  BY DEF EmptyTree
<1>3. Listed(root) = {}
  BY <1>1, <1>2 DEF Listed, TreeOf
<1>4. Complete(root) /\ Growing(root)
  BY <1>1, <1>2 DEF Complete, Growing
<1>. QED
  BY <1>1, <1>3, <1>4 DEF root
-----------------------------------------------------------------------------
(* The inductive invariant.                                                *)

\* What the operation of a process has in its hands: nobody else works on its
\* machine, so what it read still holds when it is used.
OpInv(p) ==
  /\ pc[p] = "init" /\ ~misread => Branch(p) = << >>
  /\ pc[p] \in {"import", "base", "add", "tree", "ref"} => seen[p].index \subseteq Listed(Branch(p))
  /\ pc[p] \in {"index", "base", "add", "tree", "ref"} => seen[p].listed \subseteq held[Host[p]]
  /\ pc[p] \in {"add", "tree", "ref"} => seen[p].parent = Branch(p)
  /\ pc[p] \in {"base", "add", "tree", "ref"} /\ ~misread
       => Listed(Branch(p)) \subseteq seen[p].index
  /\ pc[p] = "add" => tmp[Host[p]] = TreeOf(Branch(p))
  /\ pc[p] = "tree" => /\ tmp[Host[p]].index = seen[p].index \cup New(p)
                       /\ tmp[Host[p]].index \subseteq tmp[Host[p]].files
  /\ pc[p] = "ref" => /\ seen[p].tree.index = seen[p].index \cup New(p)
                      /\ seen[p].tree.index \subseteq seen[p].tree.files
  /\ pc[p] \in {"clean", "remote"} => New(p) \subseteq Listed(Branch(p))

Good(commits) == Complete(commits) /\ (~misread => Growing(commits))

\* Every branch, here and at the remote.
BranchesGood == Good(remote) /\ \A m \in Machines : Good(branch[m])

\* A local branch lists what was pushed here or fetched.
ListedIsHeld ==
  ~misread => \A m \in Machines : Listed(branch[m]) \subseteq held[m] \cup Listed(remote)

ShareInv == BranchesGood /\ ListedIsHeld /\ \A p \in Procs : OpInv(p)

LEMMA ShareInit == Init => ShareInv
BY HostAssumption, EmptyBranch
   DEF Init, ShareInv, BranchesGood, Good, ListedIsHeld, OpInv, Branch

\* What holds of the process at each step of its operation.
LEMMA StepTypes ==
  ASSUME TypeOK, NEW p \in Procs
  PROVE  /\ Host[p] \in Machines /\ Branch(p) \in Seq(Commit) /\ branch[Host[p]] = Branch(p)
         /\ seen[p] \in Seen /\ remote \in Seq(Commit)
         /\ held[Host[p]] \in SUBSET Sessions /\ tmp[Host[p]] \in Tree
         /\ TreeOf(Branch(p)) \in Tree
<1>1. Host[p] \in Machines
  BY HostAssumption
<1>2. Branch(p) \in Seq(Commit)
  BY <1>1 DEF TypeOK, Branch
<1>. QED
  BY <1>1, <1>2, TreeOfType DEF TypeOK, Branch, Seen

\* History stays.
LEMMA MisreadStays ==
  ASSUME TypeOK, [Next]_vars, misread
  PROVE  misread'
BY DEF Next, vars, Record, Begin, Pull, Push, Failure, Fetch, FetchFails, ReadForPull, Import,
       Ensure, InitSyncBranch, List, ReadIndex, ReadIndexFails, NothingNew, ReadBase, AddFiles,
       WriteTree, UpdateRef, RemoveTmp, PushAccepted, PushRejected, PushFails, Crash,
       ReadForPullFails, ImportFails, EnsureFails, ListFails, Fault, Misread

\* A process leaves alone what the processes of other machines work with.
LEMMA OthersKeep ==
  ASSUME TypeOK, OneProcess, NEW p \in Procs, NEW q \in Procs, q # p,
         Begin(p) \/ Pull(p) \/ Push(p) \/ Failure(p), OpInv(q)
  PROVE  OpInv(q)'
<1>1. Host[p] \in Machines /\ Host[q] \in Machines /\ Host[p] # Host[q]
  BY HostAssumption DEF OneProcess
<1>2. pc'[q] = pc[q] /\ seen'[q] = seen[q]
  BY DEF TypeOK, Begin, Pull, Push, Failure, Fetch, FetchFails, ReadForPull, Import, Ensure,
         InitSyncBranch, List, ReadIndex, ReadIndexFails, NothingNew, ReadBase, AddFiles,
         WriteTree, UpdateRef, RemoveTmp, PushAccepted, PushRejected, PushFails, Crash,
         ReadForPullFails, ImportFails, EnsureFails, ListFails, Fault, Misread,
         Goto, Note, Return
<1>3. held'[Host[q]] = held[Host[q]] /\ branch'[Host[q]] = branch[Host[q]]
      /\ tmp'[Host[q]] = tmp[Host[q]]
  BY <1>1
     DEF TypeOK, Begin, Pull, Push, Failure, Fetch, FetchFails, ReadForPull, Import, Ensure,
         InitSyncBranch, List, ReadIndex, ReadIndexFails, NothingNew, ReadBase, AddFiles,
         WriteTree, UpdateRef, RemoveTmp, PushAccepted, PushRejected, PushFails, Crash,
         ReadForPullFails, ImportFails, EnsureFails, ListFails, Fault, Misread,
         MoveBranch, SetTmp
<1>4. Branch(q)' = Branch(q) /\ New(q)' = New(q)
  BY <1>2, <1>3 DEF Branch, New
<1>5. Listed(Branch(q))' = Listed(Branch(q)) /\ TreeOf(Branch(q))' = TreeOf(Branch(q))
  BY <1>4 DEF Listed, TreeOf
<1>6. misread => misread'
  BY MisreadStays DEF Next
<1>. QED
  BY <1>2, <1>3, <1>4, <1>5, <1>6 DEF OpInv

\* The operation's own next step finds what the step before it left.
LEMMA OwnStep ==
  ASSUME TypeOK, ShareInv, NEW p \in Procs, Begin(p) \/ Pull(p) \/ Push(p) \/ Failure(p)
  PROVE  OpInv(p)'
<1>. DEFINE m == Host[p]
<1>1. /\ m \in Machines /\ Branch(p) \in Seq(Commit) /\ branch[m] = Branch(p)
      /\ seen[p] \in Seen /\ remote \in Seq(Commit)
      /\ held[m] \in SUBSET Sessions /\ tmp[m] \in Tree
      /\ TreeOf(Branch(p)) \in Tree
  BY StepTypes
<1>2. OpInv(p) /\ Good(Branch(p)) /\ Good(remote)
  BY <1>1 DEF ShareInv, BranchesGood
<1>3. Listed(Branch(p)) \subseteq TreeOf(Branch(p)).files
  BY <1>1, <1>2, CompleteListed DEF Good
<1>4. pc \in [Procs -> Pushing \cup Pulling \cup {"idle"}] /\ seen \in [Procs -> Seen]
      /\ branch \in [Machines -> Seq(Commit)] /\ tmp \in [Machines -> Tree]
      /\ held \in [Machines -> SUBSET Sessions]
  BY DEF TypeOK, Seen
<1>5. ASSUME pc'[p] \in {"idle", "ensure", "fetch", "read", "list"}
      PROVE  OpInv(p)'
  BY <1>5 DEF OpInv
<1>0. misread => misread'
  BY MisreadStays DEF Next
<1>6. CASE Begin(p) \/ Fetch(p) \/ FetchFails(p) \/ Import(p) \/ ImportFails(p)
           \/ InitSyncBranch(p) \/ NothingNew(p) \/ PushRejected(p) \/ PushAccepted(p)
           \/ PushFails(p) \/ Crash(p)
  <2>1. pc'[p] \in {"idle", "ensure", "fetch", "read", "list"}
    BY <1>4, <1>6 DEF Begin, Fetch, FetchFails, Import, ImportFails, InitSyncBranch, NothingNew, PushRejected,
         PushAccepted, PushFails, Crash, Goto, Return
  <2>. QED
    BY <1>5, <2>1
<1>7. CASE ReadForPull(p) \/ ReadForPullFails(p) \/ ReadIndex(p) \/ ReadIndexFails(p)
  <2>1. pc[p] = "index" => pc'[p] = "base"
    BY <1>4, <1>7 DEF ReadForPull, ReadForPullFails, ReadIndex, ReadIndexFails, Goto
  <2>2. pc'[p] \in {"import", "base"} /\ (pc'[p] = "base" => pc[p] = "index")
    BY <1>4, <1>7 DEF ReadForPull, ReadForPullFails, ReadIndex, ReadIndexFails, Goto
  <2>3. UNCHANGED <<held, branch, tmp>>
    BY <1>7 DEF ReadForPull, ReadForPullFails, ReadIndex, ReadIndexFails
  <2>4. seen'[p].listed = seen[p].listed
    BY <1>1, <1>4, <1>7 DEF ReadForPull, ReadForPullFails, ReadIndex, ReadIndexFails, Note, Seen
  <2>5. seen'[p].index \subseteq Listed(Branch(p))
        /\ (~misread' /\ pc'[p] = "base" => seen'[p].index = Listed(Branch(p)))
    BY <1>1, <1>4, <1>7
       DEF ReadForPull, ReadForPullFails, ReadIndex, ReadIndexFails, Goto, Note, Seen, Listed, Misread
  <2>6. Branch(p)' = Branch(p) /\ Listed(Branch(p))' = Listed(Branch(p))
    BY <2>3 DEF Branch, Listed, TreeOf
  <2>. QED
    BY <1>2, <2>2, <2>3, <2>4, <2>5, <2>6 DEF OpInv
<1>8. CASE Ensure(p) \/ EnsureFails(p)
  BY <1>4, <1>8 DEF Ensure, EnsureFails, Misread, Goto, OpInv, Branch
<1>9. CASE List(p)
  <2>1. CASE held[m] = {}
    BY <1>4, <1>5, <1>9, <2>1 DEF List, Return
  <2>2. CASE held[m] # {}
    <3>1. pc'[p] = "index" /\ held' = held
      BY <1>4, <1>9, <2>2 DEF List, Goto
    <3>2. seen'[p].listed = held[m]
      BY <1>1, <1>4, <1>9, <2>2 DEF List, Note, Seen
    <3>. QED
      BY <3>1, <3>2 DEF OpInv
  <2>. QED
    BY <2>1, <2>2
<1>15. CASE ListFails(p)
  <2>1. PICK got \in SUBSET held[m] : Note(p, "listed", got)
    BY <1>15 DEF ListFails
  <2>2. pc'[p] = "index" /\ held' = held
    BY <1>4, <1>15 DEF ListFails, Goto
  <2>3. seen'[p].listed = got
    BY <1>1, <1>4, <2>1 DEF Note, Seen
  <2>. QED
    BY <2>1, <2>2, <2>3 DEF OpInv
<1>10. CASE ReadBase(p)
  <2>1. pc[p] = "base" /\ pc'[p] = "add" /\ UNCHANGED <<held, branch>>
    BY <1>4, <1>10 DEF ReadBase, Goto
  <2>2. /\ seen'[p].parent = Branch(p) /\ seen'[p].index = seen[p].index
        /\ seen'[p].listed = seen[p].listed
    BY <1>1, <1>4, <1>10 DEF ReadBase, Note, Seen
  <2>3. tmp'[m] = TreeOf(Branch(p))
    BY <1>1, <1>4, <1>10 DEF ReadBase, SetTmp
  <2>4. Branch(p)' = Branch(p) /\ Listed(Branch(p))' = Listed(Branch(p))
        /\ TreeOf(Branch(p))' = TreeOf(Branch(p))
    BY <2>1 DEF Branch, Listed, TreeOf
  <2>. QED
    BY <1>0, <1>2, <2>1, <2>2, <2>3, <2>4 DEF OpInv
<1>11. CASE AddFiles(p)
  <2>1. pc[p] = "add" /\ pc'[p] = "tree" /\ UNCHANGED <<held, branch, seen>>
    BY <1>4, <1>11 DEF AddFiles, Goto
  <2>2. tmp'[m] = [index |-> seen[p].index \cup New(p), files |-> tmp[m].files \cup New(p)]
    BY <1>1, <1>4, <1>11 DEF AddFiles, SetTmp
  <2>3. tmp'[m].index = seen[p].index \cup New(p) /\ tmp'[m].files = tmp[m].files \cup New(p)
    BY <2>2
  <2>4. tmp[m] = TreeOf(Branch(p)) /\ seen[p].index \subseteq Listed(Branch(p))
    BY <1>0, <1>2, <2>1 DEF OpInv
  <2>5. tmp'[m].index \subseteq tmp'[m].files
    BY <1>3, <2>3, <2>4
  <2>6. Branch(p)' = Branch(p) /\ Listed(Branch(p))' = Listed(Branch(p)) /\ New(p)' = New(p)
    BY <2>1 DEF Branch, Listed, TreeOf, New
  <2>. QED
    BY <1>0, <1>2, <2>1, <2>3, <2>5, <2>6 DEF OpInv
<1>12. CASE WriteTree(p)
  <2>1. pc[p] = "tree" /\ pc'[p] = "ref" /\ UNCHANGED <<held, branch, tmp>>
    BY <1>4, <1>12 DEF WriteTree, Goto
  <2>2. /\ seen'[p].tree = tmp[m] /\ seen'[p].index = seen[p].index
        /\ seen'[p].listed = seen[p].listed /\ seen'[p].parent = seen[p].parent
    BY <1>1, <1>4, <1>12 DEF WriteTree, Note, Seen
  <2>3. Branch(p)' = Branch(p) /\ Listed(Branch(p))' = Listed(Branch(p)) /\ New(p)' = New(p)
    BY <2>1, <2>2 DEF Branch, Listed, TreeOf, New
  <2>. QED
    BY <1>0, <1>2, <2>1, <2>2, <2>3 DEF OpInv
<1>13. CASE UpdateRef(p)
  <2>. DEFINE c == [author |-> p, tree |-> seen[p].tree]
  <2>1. pc[p] = "ref" /\ pc'[p] = "clean" /\ UNCHANGED seen
    BY <1>4, <1>13 DEF UpdateRef, Goto
  <2>2. seen[p].parent = Branch(p) /\ seen[p].tree.index = seen[p].index \cup New(p)
    BY <1>0, <1>2, <2>1 DEF OpInv
  <2>3. c \in Commit /\ c.tree = seen[p].tree
    BY <1>1 DEF Seen, Commit
  <2>4. branch'[m] = Append(Branch(p), c)
    BY <1>1, <1>4, <1>13, <2>2 DEF UpdateRef, MoveBranch
  <2>. HIDE DEF c
  <2>5. TreeOf(Append(Branch(p), c)) = c.tree
    BY <1>1, <2>3, AppendCommit
  <2>6. Listed(Branch(p))' = seen[p].tree.index
    BY <2>3, <2>4, <2>5 DEF Branch, Listed, TreeOf
  <2>7. New(p)' = New(p)
    BY <2>1 DEF New
  <2>. QED
    BY <1>0, <2>1, <2>2, <2>6, <2>7 DEF OpInv
<1>14. CASE RemoveTmp(p)
  <2>1. CASE call[p].remote
    <3>1. pc[p] = "clean" /\ pc'[p] = "remote" /\ UNCHANGED <<seen, branch>>
      BY <1>4, <1>14, <2>1 DEF RemoveTmp, Goto
    <3>2. Listed(Branch(p))' = Listed(Branch(p)) /\ New(p)' = New(p)
      BY <3>1 DEF Branch, Listed, TreeOf, New
    <3>. QED
      BY <1>0, <1>2, <3>1, <3>2 DEF OpInv
  <2>2. CASE ~call[p].remote
    BY <1>4, <1>5, <1>14, <2>2 DEF RemoveTmp, Return
  <2>. QED
    BY <2>1, <2>2
<1>. QED
  BY <1>6, <1>7, <1>8, <1>9, <1>10, <1>11, <1>12, <1>13, <1>14, <1>15
     DEF Pull, Push, Failure

\* What a step does to its machine's branch.  As long as no failed read is taken for a
\* missing branch or index, nothing that was listed is lost, and what comes to be
\* listed is held here or listed at the remote.
LEMMA BranchStep ==
  ASSUME TypeOK, ShareInv, NEW p \in Procs, Begin(p) \/ Pull(p) \/ Push(p) \/ Failure(p)
  PROVE  /\ \A n \in Machines \ {Host[p]} : branch'[n] = branch[n]
         /\ Good(branch'[Host[p]])
         /\ ~misread => /\ Listed(branch[Host[p]]) \subseteq Listed(branch'[Host[p]])
                          /\ Listed(branch'[Host[p]]) \subseteq held[Host[p]] \cup Listed(remote)
<1>. DEFINE m == Host[p]
<1>1. /\ m \in Machines /\ Branch(p) \in Seq(Commit) /\ branch[m] = Branch(p)
      /\ seen[p] \in Seen /\ remote \in Seq(Commit)
      /\ branch \in [Machines -> Seq(Commit)]
  BY StepTypes DEF TypeOK
<1>2. OpInv(p) /\ Good(Branch(p)) /\ Good(remote)
  BY <1>1 DEF ShareInv, BranchesGood
<1>3. ~misread => Listed(branch[m]) \subseteq held[m] \cup Listed(remote)
  BY <1>1 DEF ShareInv, ListedIsHeld
<1>4. CASE UNCHANGED branch
  BY <1>1, <1>2, <1>3, <1>4
<1>5. CASE Fetch(p) /\ call[p].remote /\ IsPrefix(Branch(p), remote)
  <2>1. branch' = [branch EXCEPT ![m] = remote]
    BY <1>5 DEF Fetch, MoveBranch
  <2>2. ~misread => Listed(Branch(p)) \subseteq Listed(remote)
    BY <1>1, <1>2, <1>5, PrefixListed DEF Good
  <2>. QED
    BY <1>1, <1>2, <2>1, <2>2
<1>6. CASE InitSyncBranch(p)
  <2>. DEFINE root == << [author |-> p, tree |-> EmptyTree] >>
  <2>1. ~misread => Branch(p) = << >>
    BY <1>2, <1>6 DEF InitSyncBranch, Goto, OpInv
  <2>2. branch' = [branch EXCEPT ![m] = root]
    BY <1>6 DEF InitSyncBranch, MoveBranch
  <2>3. Listed(root) = {} /\ Good(root)
    BY RootCommit DEF Good
  <2>4. ~misread => Listed(branch[m]) = {}
    BY <1>1, <2>1, EmptyBranch
  <2>. HIDE DEF root
  <2>. QED
    BY <1>1, <2>2, <2>3, <2>4
<1>7. CASE UpdateRef(p)
  <2>. DEFINE c == [author |-> p, tree |-> seen[p].tree]
              more == Append(Branch(p), c)
  <2>1. pc[p] = "ref"
    BY <1>7 DEF UpdateRef, Goto
  <2>2. /\ seen[p].parent = Branch(p) /\ seen[p].tree.index = seen[p].index \cup New(p)
        /\ seen[p].tree.index \subseteq seen[p].tree.files
        /\ seen[p].index \subseteq Listed(Branch(p)) /\ seen[p].listed \subseteq held[m]
        /\ ~misread => Listed(Branch(p)) \subseteq seen[p].index
    BY <1>2, <2>1 DEF OpInv
  <2>3. c \in Commit /\ c.tree = seen[p].tree
    BY <1>1 DEF Seen, Commit
  <2>4. branch' = [branch EXCEPT ![m] = more]
    BY <1>7, <2>2 DEF UpdateRef, MoveBranch
  <2>. HIDE DEF c
  <2>5. TreeOf(more) = c.tree /\ Good(more)
    BY <1>1, <1>2, <2>2, <2>3, AppendCommit DEF Good
  <2>6. Listed(more) = seen[p].index \cup New(p)
    BY <2>2, <2>3, <2>5 DEF Listed
  <2>7. New(p) \subseteq held[m]
    BY <2>2 DEF New
  <2>. HIDE DEF more
  <2>8. branch'[m] = more /\ \A n \in Machines \ {m} : branch'[n] = branch[n]
    BY <1>1, <2>4
  <2>. QED
    BY <1>1, <1>3, <2>2, <2>5, <2>6, <2>7, <2>8
<1>. QED
  <2>1. UNCHANGED branch \/ InitSyncBranch(p) \/ UpdateRef(p) \/ Fetch(p)
    BY DEF Begin, Pull, Push, Failure, FetchFails, ReadForPull, Import, Ensure,
           List, ReadIndex, ReadIndexFails, NothingNew, ReadBase, AddFiles, WriteTree,
           RemoveTmp, PushAccepted, PushRejected, PushFails, Crash,
         ReadForPullFails, ImportFails, EnsureFails, ListFails
  <2>2. ASSUME Fetch(p), ~(call[p].remote /\ IsPrefix(Branch(p), remote))
        PROVE  UNCHANGED branch
    BY <2>2 DEF Fetch
  <2>. QED
    BY <1>4, <1>5, <1>6, <1>7, <2>1, <2>2

\* The remote only moves forward, to the branch of the machine that pushes.
LEMMA RemoteStep ==
  ASSUME TypeOK, ShareInv, NEW p \in Procs, Begin(p) \/ Pull(p) \/ Push(p) \/ Failure(p)
  PROVE  /\ \/ UNCHANGED <<remote, acked>>
            \/ /\ remote' = Branch(p) /\ acked \subseteq acked' /\ acked' \subseteq acked \cup New(p)
               /\ New(p) \subseteq Listed(Branch(p)) /\ UNCHANGED <<held, branch>>
         /\ ~misread => Listed(remote) \subseteq Listed(remote')
<1>1. Branch(p) \in Seq(Commit) /\ remote \in Seq(Commit) /\ Host[p] \in Machines
  BY StepTypes
<1>2. OpInv(p) /\ Good(Branch(p))
  BY <1>1 DEF ShareInv, BranchesGood, Branch
<1>3. CASE (PushAccepted(p) \/ PushFails(p)) /\ remote' = Branch(p) /\ IsPrefix(remote, Branch(p))
  <2>1. New(p) \subseteq Listed(Branch(p))
    BY <1>2, <1>3 DEF PushAccepted, PushFails, OpInv
  <2>2. ~misread => Listed(remote) \subseteq Listed(Branch(p))
    BY <1>1, <1>2, <1>3, PrefixListed DEF Good
  <2>. QED
    BY <1>3, <2>1, <2>2 DEF PushAccepted, PushFails
<1>4. CASE UNCHANGED <<remote, acked>>
  BY <1>4
<1>5. UNCHANGED <<remote, acked>> \/ PushAccepted(p) \/ PushFails(p)
  BY DEF Begin, Pull, Push, Failure, Fetch, FetchFails, ReadForPull, Import, Ensure,
         InitSyncBranch, List, ReadIndex, ReadIndexFails, NothingNew, ReadBase, AddFiles,
         WriteTree, UpdateRef, RemoveTmp, PushRejected, Crash, ReadForPullFails, ImportFails,
         EnsureFails, ListFails
<1>. QED
  BY <1>3, <1>4, <1>5 DEF PushAccepted, PushFails

\* A store only grows, by what the branch lists.
LEMMA HeldStep ==
  ASSUME TypeOK, ShareInv, NEW p \in Procs, Begin(p) \/ Pull(p) \/ Push(p) \/ Failure(p)
  PROVE  \E S \in SUBSET Listed(Branch(p)) :
           held' = [held EXCEPT ![Host[p]] = @ \cup S]
<1>1. held \in [Machines -> SUBSET Sessions] /\ Host[p] \in Machines
  BY StepTypes DEF TypeOK
<1>2. OpInv(p)
  BY DEF ShareInv
<1>3. CASE Import(p)
  <2>1. seen[p].index \subseteq Listed(Branch(p))
    BY <1>2, <1>3 DEF Import, OpInv
  <2>2. seen[p].index \cap TreeOf(Branch(p)).files \in SUBSET Listed(Branch(p))
    BY <2>1
  <2>. QED
    BY <1>3, <2>2 DEF Import
<1>6. CASE ImportFails(p)
  <2>1. seen[p].index \subseteq Listed(Branch(p))
    BY <1>2, <1>6 DEF ImportFails, OpInv
  <2>2. PICK got \in SUBSET (seen[p].index \cap TreeOf(Branch(p)).files) :
          held' = [held EXCEPT ![Host[p]] = @ \cup got]
    BY <1>6 DEF ImportFails
  <2>. QED
    BY <2>1, <2>2
<1>4. CASE UNCHANGED held
  <2>1. held' = [held EXCEPT ![Host[p]] = @ \cup {}]
    BY <1>1, <1>4
  <2>. QED
    BY <2>1
<1>5. UNCHANGED held \/ Import(p) \/ ImportFails(p)
  BY DEF Begin, Pull, Push, Failure, Fetch, FetchFails, ReadForPull, Ensure,
         InitSyncBranch, List, ReadIndex, ReadIndexFails, NothingNew, ReadBase, AddFiles,
         WriteTree, UpdateRef, RemoveTmp, PushAccepted, PushRejected, PushFails, Crash,
         ReadForPullFails, EnsureFails, ListFails
<1>. QED
  BY <1>3, <1>4, <1>5, <1>6

\* A session that takes place is in one store more, and nothing else changes.
LEMMA RecordStep ==
  ASSUME TypeOK, ShareInv, NEW m \in Machines, NEW s \in Sessions, Record(m, s)
  PROVE  ShareInv'
<1>1. /\ UNCHANGED <<branch, remote, tmp, pc, seen, misread>>
      /\ \A n \in Machines : held[n] \subseteq held'[n]
  BY DEF Record, TypeOK
<1>2. BranchesGood'
  BY <1>1 DEF ShareInv, BranchesGood, Good, Complete, Growing
<1>3. ListedIsHeld'
  BY <1>1 DEF ShareInv, ListedIsHeld, Listed, TreeOf
<1>4. ASSUME NEW p \in Procs
      PROVE  OpInv(p)'
  <2>1. Host[p] \in Machines /\ OpInv(p)
    BY HostAssumption DEF ShareInv
  <2>2. Branch(p)' = Branch(p) /\ New(p)' = New(p)
    BY <1>1 DEF Branch, New
  <2>3. Listed(Branch(p))' = Listed(Branch(p)) /\ TreeOf(Branch(p))' = TreeOf(Branch(p))
    BY <2>2 DEF Listed, TreeOf
  <2>. QED
    BY <1>1, <2>1, <2>2, <2>3 DEF OpInv
<1>. QED
  BY <1>2, <1>3, <1>4 DEF ShareInv

LEMMA ShareStep ==
  ASSUME OneProcess, TypeOK, ShareInv, [Next]_vars
  PROVE  ShareInv'
<1>1. ASSUME NEW p \in Procs, Begin(p) \/ Pull(p) \/ Push(p) \/ Failure(p)
      PROVE  ShareInv'
  <2>1. Host[p] \in Machines /\ held \in [Machines -> SUBSET Sessions]
    BY StepTypes DEF TypeOK
  <2>2. ASSUME NEW q \in Procs
        PROVE  OpInv(q)'
    BY <1>1, OwnStep, OthersKeep DEF ShareInv
  <2>3. Good(remote')
    BY <1>1, <2>1, RemoteStep DEF ShareInv, BranchesGood, Branch
  <2>4. \A n \in Machines : Good(branch'[n])
    BY <1>1, BranchStep DEF ShareInv, BranchesGood
  <2>5. \A n \in Machines : held[n] \subseteq held'[n]
    BY <1>1, <2>1, HeldStep
  <2>6. ~misread => Listed(remote) \subseteq Listed(remote')
    BY <1>1, RemoteStep
  <2>0. misread => misread'
    BY <1>1, MisreadStays DEF Next
  <2>7. ASSUME NEW n \in Machines, ~misread
        PROVE  Listed(branch'[n]) \subseteq held'[n] \cup Listed(remote')
    <3>1. Listed(branch'[n]) \subseteq held[n] \cup Listed(remote)
      BY <1>1, <2>7, BranchStep DEF ShareInv, ListedIsHeld
    <3>. QED
      BY <2>5, <2>6, <2>7, <3>1
  <2>8. ListedIsHeld'
    BY <2>0, <2>7 DEF ListedIsHeld, Listed, TreeOf
  <2>9. BranchesGood'
    BY <2>0, <2>3, <2>4 DEF BranchesGood, Good, Complete, Growing
  <2>. QED
    BY <2>2, <2>8, <2>9 DEF ShareInv
<1>2. ASSUME UNCHANGED vars
      PROVE  ShareInv'
  BY <1>2 DEF vars, ShareInv, BranchesGood, Good, Complete, Growing, ListedIsHeld, Listed, TreeOf,
              OpInv, Branch, New
<1>. QED
  BY <1>1, <1>2, RecordStep DEF Next
-----------------------------------------------------------------------------
(* The theorems.                                                           *)

LEMMA ShareInvariant ==
  ASSUME OneProcess
  PROVE  Spec => [](TypeOK /\ ShareInv)
<1>1. Init => TypeOK /\ ShareInv
  BY GitTypeInit, ShareInit
<1>2. (TypeOK /\ ShareInv) /\ [Next]_vars => (TypeOK /\ ShareInv)'
  BY GitTypeStep, ShareStep
<1>. QED
  BY <1>1, <1>2, PTL DEF Spec

\* Whoever reads any branch finds the file of each session its index lists,
\* whatever crashes or fails, where a machine runs one operation at a time.
THEOREM IndexedFilesExist ==
  ASSUME OneProcess
  PROVE  Spec => []IndexHasFiles
<1>1. TypeOK /\ ShareInv => IndexHasFiles
  <2>. SUFFICES ASSUME TypeOK, ShareInv, NEW commits \in {remote} \cup { branch[m] : m \in Machines }
                PROVE  Listed(commits) \subseteq TreeOf(commits).files
    BY DEF IndexHasFiles
  <2>1. commits \in Seq(Commit) /\ Complete(commits)
    BY DEF TypeOK, ShareInv, BranchesGood, Good
  <2>. QED
    BY <2>1, CompleteListed
<1>. QED
  BY <1>1, ShareInvariant, PTL

\* No step of any push, pull or sync takes a session off a machine's branch, as long
\* as no push takes a failed read for a missing branch or index.
THEOREM BranchesOnlyGrow ==
  ASSUME OneProcess
  PROVE  Spec => AppendOnly
<1>1. TypeOK /\ ShareInv /\ [Next]_vars
        => [~misread' => \A m \in Machines : Listed(branch[m]) \subseteq Listed(branch[m])']_vars
  <2>. SUFFICES ASSUME TypeOK, ShareInv, Next, ~misread', NEW m \in Machines
                PROVE  Listed(branch[m]) \subseteq Listed(branch'[m])
    BY DEF Listed, TreeOf
  <2>0. ~misread
    BY MisreadStays
  <2>1. ASSUME NEW p \in Procs, Begin(p) \/ Pull(p) \/ Push(p) \/ Failure(p)
        PROVE  Listed(branch[m]) \subseteq Listed(branch'[m])
    BY <2>0, <2>1, BranchStep
  <2>2. ASSUME NEW n \in Machines, NEW s \in Sessions, Record(n, s)
        PROVE  Listed(branch[m]) \subseteq Listed(branch'[m])
    BY <2>2 DEF Record
  <2>. QED
    BY <2>1, <2>2 DEF Next
<1>. QED
  BY <1>1, ShareInvariant, PTL DEF Spec, AppendOnly

\* A session whose push reported success stays listed at the remote, with its
\* file, whoever pushes afterwards, as long as no failed read is taken for a missing
\* branch or index.
THEOREM AckedStaysShared ==
  ASSUME OneProcess
  PROVE  Spec => []AckedIsShared
<1>. DEFINE Shared == ~misread => acked \subseteq Listed(remote)
<1>1. Init => Shared
  BY DEF Init
<1>2. ASSUME TypeOK, ShareInv, [Next]_vars, Shared
      PROVE  Shared'
  <2>. SUFFICES ASSUME ~misread' PROVE Shared'
    OBVIOUS
  <2>0. ~misread
    BY <1>2, MisreadStays
  <2>1. ASSUME NEW p \in Procs, Begin(p) \/ Pull(p) \/ Push(p) \/ Failure(p)
        PROVE  Shared'
    <3>1. Listed(remote) \subseteq Listed(remote')
      BY <1>2, <2>0, <2>1, RemoteStep
    <3>2. acked' \subseteq Listed(remote')
      BY <1>2, <2>0, <2>1, <3>1, RemoteStep
    <3>. QED
      BY <3>2 DEF Listed, TreeOf
  <2>2. ASSUME NEW m \in Machines, NEW s \in Sessions, Record(m, s)
        PROVE  Shared'
    BY <1>2, <2>0, <2>2 DEF Record, Listed, TreeOf
  <2>3. CASE UNCHANGED vars
    BY <1>2, <2>0, <2>3 DEF vars, Listed, TreeOf
  <2>. QED
    BY <1>2, <2>1, <2>2, <2>3 DEF Next
<1>3. TypeOK /\ ShareInv /\ Shared => AckedIsShared
  BY CompleteListed DEF TypeOK, ShareInv, BranchesGood, Good, AckedIsShared
<1>. HIDE DEF Shared
<1>. QED
  BY <1>1, <1>2, <1>3, ShareInvariant, PTL DEF Spec

\* GitSync implements TeamShare: to the team, a git push is one step that
\* publishes sessions the machine holds, a pull one that brings shared
\* sessions, and all else of both is a stutter.
THEOREM GitSharesAsPromised ==
  ASSUME OneProcess
  PROVE  Spec => SharesAsPromised
<1>1. Init => Team!Init
  BY EmptyBranch DEF Init, Team!Init
<1>2. ASSUME TypeOK, ShareInv, [Next]_vars, ~misread'
      PROVE  [Team!Next]_(Team!vars)
  <2>0. ~misread
    BY <1>2, MisreadStays
  <2>1. ASSUME NEW p \in Procs, Begin(p) \/ Pull(p) \/ Push(p) \/ Failure(p)
        PROVE  [Team!Next]_(Team!vars)
    <3>. DEFINE m == Host[p]
    <3>1. /\ m \in Machines /\ branch[m] = Branch(p)
          /\ held \in [Machines -> SUBSET Sessions]
      BY <1>2, StepTypes DEF TypeOK
    <3>2. Listed(Branch(p)) \subseteq held[m] \cup Listed(remote)
      BY <1>2, <2>0, <3>1 DEF ShareInv, ListedIsHeld
    <3>3. Listed(remote)' = Listed(remote')
      BY DEF Listed, TreeOf
    <3>4. CASE UNCHANGED remote
      <4>1. PICK S \in SUBSET Listed(Branch(p)) : held' = [held EXCEPT ![m] = @ \cup S]
        BY <1>2, <2>1, HeldStep
      <4>. DEFINE R == S \cap Listed(remote)
      <4>2. held[m] \cup S = held[m] \cup R
        BY <3>2
      <4>3. held' = [held EXCEPT ![m] = @ \cup R]
        BY <3>1, <4>1, <4>2
      <4>4. R \in SUBSET Listed(remote)
        OBVIOUS
      <4>5. Listed(remote)' = Listed(remote)
        BY <3>3, <3>4
      <4>. HIDE DEF R
      <4>6. Team!Receive(m)
        BY <4>3, <4>4, <4>5 DEF Team!Receive
      <4>. QED
        BY <3>1, <4>6 DEF Team!Next
    <3>5. CASE remote' = Branch(p) /\ UNCHANGED held
      <4>1. Listed(remote) \subseteq Listed(Branch(p))
        BY <1>2, <2>0, <2>1, <3>5, RemoteStep
      <4>. DEFINE P == held[m] \cap Listed(Branch(p))
      <4>2. P \in SUBSET held[m] /\ Listed(Branch(p)) = Listed(remote) \cup P
        BY <3>2, <4>1
      <4>3. Listed(remote)' = Listed(remote) \cup P
        BY <3>3, <3>5, <4>2
      <4>. HIDE DEF P
      <4>4. Team!Publish(m)
        BY <3>5, <4>2, <4>3 DEF Team!Publish
      <4>. QED
        BY <3>1, <4>4 DEF Team!Next
    <3>. QED
      BY <1>2, <2>1, <3>4, <3>5, RemoteStep
  <2>2. ASSUME NEW m \in Machines, NEW s \in Sessions, Record(m, s)
        PROVE  [Team!Next]_(Team!vars)
    <3>1. Listed(remote)' = Listed(remote)
      BY <2>2 DEF Record, Listed, TreeOf
    <3>2. Team!Record(m, s)
      BY <2>2, <3>1 DEF Record, Team!Record
    <3>. QED
      BY <3>2 DEF Team!Next
  <2>3. CASE UNCHANGED vars
    BY <2>3 DEF vars, Team!vars, Listed, TreeOf
  <2>. QED
    BY <1>2, <2>1, <2>2, <2>3 DEF Next
<1>3. TypeOK /\ ShareInv /\ [Next]_vars => [~misread' => Team!Next]_(Team!vars)
  BY <1>2
<1>. QED
  BY <1>1, <1>3, ShareInvariant, PTL DEF Spec, SharesAsPromised
=============================================================================
