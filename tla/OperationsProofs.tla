-------------------------- MODULE OperationsProofs --------------------------
(***************************************************************************)
(* What holds of the work that goes on beside the requests of the users:   *)
(* of Scheduler, for all tasks, goroutines and warm-up lists; of Replay,   *)
(* for all libraries, outcomes and replays at the same time; of Ingest,    *)
(* for all clients and all that agents may say; and of Migrations, for all *)
(* processes that open the store.                                          *)
(***************************************************************************)
EXTENDS Scheduler, Replay, Migrations, TLAPS

CONSTANTS Parent, Child, ClientOf, Said, MaxSaid
VARIABLES chat, here, links, place, todo, told, cut, losses

Sent == INSTANCE Ingest WITH talk <- chat, pc <- place, faults <- losses

\* A run that begins has a task, whoever begins it.
LEMMA BeginType ==
  ASSUME TypeOK, NEW r \in Runs, NEW t \in Tasks, Begin(r, t)
  PROVE  /\ pc' \in [Runs -> RunSteps]
         /\ task' \in [Runs -> Tasks \cup {None}]
         /\ began' \in [Runs -> Nat]
         /\ starts' \in Nat
BY DEF TypeOK, Begin, RunSteps

LEMMA InitType == Init => TypeOK
BY RunsAssumption, BoundsAssumption DEF Init, TypeOK, RunSteps, StopSteps

\* A step of a goroutine keeps the types.
LEMMA WorkType ==
  ASSUME TypeOK, NEW r \in Runs, Work(r)
  PROVE  TypeOK'
<1>1. CASE TaskReturns(r)
  BY <1>1 DEF TypeOK, TaskReturns, RunSteps
<1>2. CASE Lock(r)
  BY <1>2 DEF TypeOK, Lock, RunSteps
<1>3. CASE Record(r)
  <2>1. results' \in [Tasks -> Nat]
    BY <1>3 DEF TypeOK, Record
  <2>2. task' \in [Runs -> Tasks \cup {None}] /\ began' \in [Runs -> Nat]
    BY <1>3 DEF TypeOK, Record
  <2>. QED
    BY <1>3, <2>1, <2>2 DEF TypeOK, Record, RunSteps
<1>. QED
  BY <1>1, <1>2, <1>3 DEF Work

LEMMA StepType == TypeOK /\ [Next]_vars => TypeOK'
<1>. SUFFICES ASSUME TypeOK, [Next]_vars PROVE TypeOK'
  OBVIOUS
<1>1. ASSUME NEW r \in Runs, Fire(r) PROVE TypeOK'
  <2>1. PICK t \in Tasks : Begin(r, t)
    BY <1>1 DEF Fire
  <2>2. /\ pc' \in [Runs -> RunSteps] /\ task' \in [Runs -> Tasks \cup {None}]
        /\ began' \in [Runs -> Nat] /\ starts' \in Nat
    BY <2>1, BeginType
  <2>. QED
    BY <1>1, <2>2 DEF TypeOK, Fire
<1>2. ASSUME NEW r \in Runs, Work(r) PROVE TypeOK'
  BY <1>2, WorkType
<1>3. CASE WarmUpNext
  <2>1. Head(warmLeft) \in Tasks /\ Tail(warmLeft) \in Seq(Tasks)
    BY <1>3 DEF TypeOK, WarmUpNext
  <2>2. WarmUp \in Runs /\ Begin(WarmUp, Head(warmLeft))
    BY <1>3 DEF Runs, WarmUpNext
  <2>3. /\ pc' \in [Runs -> RunSteps] /\ task' \in [Runs -> Tasks \cup {None}]
        /\ began' \in [Runs -> Nat] /\ starts' \in Nat
    BY <2>1, <2>2, BeginType
  <2>. QED
    BY <1>3, <2>1, <2>3 DEF TypeOK, WarmUpNext
<1>4. CASE Signal
  BY <1>4 DEF TypeOK, Signal, StopSteps, runVars
<1>5. CASE StopStep
  BY <1>5 DEF TypeOK, StopStep, StopLock, StopCron, StopJoined, StopSteps, runVars
<1>6. CASE UNCHANGED vars
  BY <1>6 DEF TypeOK, vars, runVars
<1>. QED
  BY <1>1, <1>2, <1>3, <1>4, <1>5, <1>6 DEF Next

\* Type correctness, whatever the tasks, goroutines and bounds.
THEOREM SchedulerTypeCorrect == Spec => []TypeOK
<1>. QED
  BY InitType, StepType, PTL DEF Spec

-----------------------------------------------------------------------------
(* What Stop is doing, whom the mutex belongs to and whether cron starts.  *)

\* Stop holds the mutex from StopLock on, a goroutine while it records; past
\* StopCron no entry is started; past StopJoined nothing of cron is running.
StopInv ==
  /\ stop \in {"cron", "join"} => mu = "stop"
  /\ \A r \in Runs : pc[r] = "record" => mu = r
  /\ stop \in {"join", "stopped"} => ~cron
  /\ Quiet

LEMMA InitStop == Init => StopInv
BY DEF Init, StopInv, Quiet, Runs

\* A step of a goroutine: nothing of cron leaves "idle" but by Fire, and only the
\* holder of the mutex records.
LEMMA WorkStop ==
  ASSUME TypeOK, StopInv, NEW r \in Runs, Work(r)
  PROVE  StopInv'
<1>. USE RunsAssumption DEF TypeOK, StopInv, Quiet, Runs
<1>1. CASE TaskReturns(r)
  BY <1>1 DEF TaskReturns
<1>2. CASE Lock(r)
  BY <1>2 DEF Lock
<1>3. CASE Record(r)
  <2>1. mu = r /\ mu # "stop" /\ stop \notin {"cron", "join"}
    BY <1>3 DEF Record
  <2>2. \A q \in Runs \ {r} : pc[q] # "record" /\ pc'[q] = pc[q]
    BY <1>3, <2>1 DEF Record
  <2>3. pc'[r] = "idle" /\ stop' = stop /\ cron' = cron
    BY <1>3 DEF Record
  <2>. QED
    BY <2>1, <2>2, <2>3
<1>. QED
  BY <1>1, <1>2, <1>3 DEF Work

LEMMA StepStop == TypeOK /\ StopInv /\ [Next]_vars => StopInv'
<1>. SUFFICES ASSUME TypeOK, StopInv, [Next]_vars PROVE StopInv'
  OBVIOUS
<1>. USE RunsAssumption DEF TypeOK, StopInv, Quiet, Runs
<1>1. ASSUME NEW r \in Runs, Fire(r) PROVE StopInv'
  BY <1>1 DEF Fire, Begin
<1>2. ASSUME NEW r \in Runs, Work(r) PROVE StopInv'
  BY <1>2, WorkStop
<1>3. CASE WarmUpNext
  BY <1>3 DEF WarmUpNext, Begin
<1>4. CASE Signal
  BY <1>4 DEF Signal, runVars
<1>5. CASE StopStep
  <2>1. CASE StopLock
    BY <1>5, <2>1 DEF StopLock, runVars
  <2>2. CASE StopCron
    BY <1>5, <2>2 DEF StopCron, runVars
  <2>3. CASE StopJoined
    BY <1>5, <2>3 DEF StopJoined, runVars
  <2>. QED
    BY <1>5, <2>1, <2>2, <2>3 DEF StopStep
<1>6. CASE UNCHANGED vars
  BY <1>6 DEF vars, runVars
<1>. QED
  BY <1>1, <1>2, <1>3, <1>4, <1>5, <1>6 DEF Next

\* When Stop has returned, nothing cron started is running, and nothing will.
THEOREM StopsQuietly == Spec => []Quiet
<1>1. Init => TypeOK /\ StopInv
  BY InitType, InitStop
<1>2. TypeOK /\ StopInv /\ [Next]_vars => TypeOK' /\ StopInv'
  BY StepType, StepStop
<1>3. StopInv => Quiet
  BY DEF StopInv
<1>. QED
  BY <1>1, <1>2, <1>3, PTL DEF Spec

\* Whenever Stop finds a goroutine of cron at work, it waits for ever, whatever
\* tasks there are: the goroutine cannot reach "idle" while Stop holds the mutex.
THEOREM StopWaitsForEver ==
  ASSUME NEW r \in CronRuns
  PROVE  Spec => [][ stop = "join" /\ pc[r] # "idle"
                       => stop' = "join" /\ pc'[r] # "idle" ]_vars
<1>1. Init => TypeOK /\ StopInv
  BY InitType, InitStop
<1>2. TypeOK /\ StopInv /\ [Next]_vars => TypeOK' /\ StopInv'
  BY StepType, StepStop
<1>3. TypeOK /\ StopInv /\ [Next]_vars
        => [ stop = "join" /\ pc[r] # "idle" => stop' = "join" /\ pc'[r] # "idle" ]_vars
  <2>. SUFFICES ASSUME TypeOK, StopInv, Next, stop = "join", pc[r] # "idle"
                PROVE  stop' = "join" /\ pc'[r] # "idle"
    OBVIOUS
  <2>. USE RunsAssumption DEF TypeOK, StopInv, Runs
  <2>1. mu = "stop" /\ ~cron
    OBVIOUS
  <2>2. ASSUME NEW q \in Runs, Fire(q) PROVE stop' = "join" /\ pc'[r] # "idle"
    BY <2>1, <2>2 DEF Fire
  <2>3. ASSUME NEW q \in Runs, Work(q) PROVE stop' = "join" /\ pc'[r] # "idle"
    BY <2>1, <2>3 DEF Work, TaskReturns, Lock, Record
  <2>4. CASE WarmUpNext
    BY <2>4 DEF WarmUpNext, Begin
  <2>5. CASE Signal \/ StopStep
    BY <2>5 DEF Signal, StopStep, StopLock, StopCron, StopJoined, runVars
  <2>. QED
    BY <2>2, <2>3, <2>4, <2>5 DEF Next
<1>. QED
  BY <1>1, <1>2, <1>3, PTL DEF Spec

-----------------------------------------------------------------------------
(* Replays.  What a replay has sent is what there is of conversations in   *)
(* its directory (ReplayInv), so the newest one it finds there is its own, *)
(* whatever is sent elsewhere meanwhile; and a fix that is replayed has    *)
(* been written before the first message went out.                         *)

WorkFields ==
  {"of", "max", "session", "agent", "left", "sent", "batch", "file", "raced", "applied", "before", "talk", "verdict",
   "error"}
IsWork(w) == w = [f \in WorkFields |-> w[f]]

Early    == {"new", "read", "write", "load"}
Captured == {"save", "link", "compare"}
Working  == {"load", "add", "adding", "run"} \cup Captured
Ended    == {"remove", "over", "stuck", "dead"}
ReplaySteps == Early \cup Working \cup Ended

Talks ==
  [tree : Replays \cup {"home"},
   agent : Agents \cup {Library[i].provider : i \in DOMAIN Library},
   figures : Outcomes \cup {Library[i].figures : i \in DOMAIN Library}]

\* What is in the directory of r is what r has sent, to its agent, the last one last.
SentInv(r) ==
  /\ work[r].sent = {n \in DOMAIN talks : talks[n].tree = r}
  /\ \A n \in work[r].sent : talks[n].agent = work[r].agent
  /\ work[r].sent # {} => \E n \in work[r].sent : \A m \in work[r].sent : m <= n
  /\ at[r] \in Early => work[r].sent = {}
  /\ at[r] \in Working \ Early => work[r].agent \in Agents

CapturedInv(r) ==
  /\ at[r] \in Early \cup {"add", "adding", "run"} => work[r].talk = 0
  /\ at[r] \in Captured => work[r].talk # 0
  /\ work[r].talk # 0 => work[r].talk \in work[r].sent /\ \A n \in work[r].sent : n <= work[r].talk

FixInv(r) ==
  /\ at[r] \in Working /\ work[r].batch # Nothing =>
       /\ work[r].applied > 0 /\ work[r].before \in Nat /\ work[r].before <= Len(talks)
       /\ \A n \in work[r].sent : n > work[r].before
  /\ work[r].verdict = "validated" =>
       at[r] \in Ended /\ work[r].applied > 0 /\ work[r].talk > work[r].before

ReplayInv(r) ==
  /\ at[r] \in ReplaySteps /\ IsWork(work[r])
  /\ r \in trees => at[r] \in (Working \ {"load", "add"}) \cup {"remove", "stuck", "dead"}
  /\ SentInv(r) /\ CapturedInv(r) /\ FixInv(r)

\* A link is as it was made by a replay that has been over with it since.
RelatedInv ==
  \A l \in related :
    /\ l = <<l[1], l[2], l[3]>> /\ l[1] \in kept /\ l[2] \in kept
    /\ <<l[2], l[1], l[3]>> \in related
    /\ \E r \in Replays : at[r] \in {"compare"} \cup Ended /\ {work[r].of, work[r].talk} = {l[1], l[2]}

ReplaysInv ==
  /\ at = [r \in Replays |-> at[r]] /\ work = [r \in Replays |-> work[r]]
  /\ talks \in Seq(Talks) /\ kept \subseteq DOMAIN talks
  /\ trees \subseteq Replays /\ known \subseteq Replays /\ faults \in 0 .. MaxFaults
  /\ \A r \in Replays : ReplayInv(r)
  /\ RelatedInv

LEMMA WorkFacts ==
  /\ IsWork(NoWork) /\ NoWork.sent = {} /\ NoWork.talk = 0 /\ NoWork.verdict = "" /\ NoWork.batch = Nothing
  /\ ReplaySteps = {"new", "read", "write", "load", "add", "adding", "run", "save", "link", "compare", "remove",
                    "over", "stuck", "dead"}
BY DEF IsWork, WorkFields, NoWork, ReplaySteps, Early, Working, Captured, Ended

LEMMA ReplaysStart == ReplayAssumption /\ ReplayInit => ReplaysInv
<1>. SUFFICES ASSUME ReplayAssumption, ReplayInit PROVE ReplaysInv
  OBVIOUS
<1>1. /\ talks \in Seq(Talks) /\ DOMAIN talks = DOMAIN Library
      /\ \A i \in DOMAIN talks : talks[i].tree = "home"
  <2>. DEFINE talk(i) == [tree |-> "home", agent |-> Library[i].provider, figures |-> Library[i].figures]
  <2>1. DOMAIN Library = 1 .. Len(Library) /\ Len(Library) \in Nat
    BY DEF ReplayAssumption
  <2>2. talks = [i \in 1 .. Len(Library) |-> talk(i)]
    BY <2>1 DEF ReplayInit
  <2>3. \A i \in 1 .. Len(Library) : talk(i) \in Talks /\ talk(i).tree = "home"
    BY <2>1 DEF Talks
  <2>. HIDE DEF talk
  <2>. QED
    BY <2>1, <2>2, <2>3
<1>2. ASSUME NEW r \in Replays PROVE ReplayInv(r)
  <2>1. at[r] = "new" /\ work[r] = NoWork /\ trees = {}
    BY DEF ReplayInit
  <2>2. {n \in DOMAIN talks : talks[n].tree = r} = {}
    BY <1>1 DEF ReplayAssumption
  <2>. QED
    BY <2>1, <2>2, WorkFacts DEF ReplayInv, SentInv, CapturedInv, FixInv, Early, Working, Captured
<1>3. RelatedInv
  BY DEF ReplayInit, RelatedInv
<1>. QED
  BY <1>1, <1>2, <1>3 DEF ReplayInit, ReplaysInv, ReplayAssumption

\* What there is of conversations, with one more.
LEMMA OneTalkMore ==
  ASSUME talks \in Seq(Talks), NEW t \in Talks, talks' = Append(talks, t)
  PROVE  /\ talks' \in Seq(Talks) /\ Len(talks) \in Nat /\ Len(talks') = Len(talks) + 1
         /\ DOMAIN talks = 1 .. Len(talks) /\ DOMAIN talks' = 1 .. Len(talks) + 1
         /\ \A n \in DOMAIN talks : n \in DOMAIN talks' /\ talks'[n] = talks[n]
         /\ talks'[Len(talks) + 1] = t
OBVIOUS

\* A replay that does nothing itself: another one may send, or write the skill's file.
LEMMA OthersKeep ==
  ASSUME talks \in Seq(Talks), NEW q \in Replays, ReplayInv(q), at'[q] = at[q],
         work'[q] = work[q] \/ work'[q] = [work[q] EXCEPT !.raced = TRUE],
         q \in trees' => q \in trees,
         talks' = talks \/ \E t \in Talks : t.tree # q /\ talks' = Append(talks, t)
  PROVE  ReplayInv(q)'
<1>1. /\ IsWork(work'[q]) /\ work'[q].sent = work[q].sent /\ work'[q].talk = work[q].talk
      /\ work'[q].agent = work[q].agent /\ work'[q].batch = work[q].batch /\ work'[q].applied = work[q].applied
      /\ work'[q].before = work[q].before /\ work'[q].verdict = work[q].verdict
  BY DEF ReplayInv, IsWork, WorkFields
<1>2. /\ {n \in DOMAIN talks' : talks'[n].tree = q} = {n \in DOMAIN talks : talks[n].tree = q}
      /\ \A n \in DOMAIN talks : talks'[n] = talks[n]
      /\ Len(talks) \in Nat /\ Len(talks') \in Nat /\ Len(talks) <= Len(talks')
  <2>1. CASE talks' = talks
    BY <2>1
  <2>2. CASE talks' # talks
    <3>1. PICK t \in Talks : t.tree # q /\ talks' = Append(talks, t)
      BY <2>2
    <3>. QED
      BY <3>1, OneTalkMore
  <2>. QED
    BY <2>1, <2>2
<1>3. SentInv(q)'
  BY <1>1, <1>2 DEF ReplayInv, SentInv
<1>4. CapturedInv(q)'
  BY <1>1 DEF ReplayInv, CapturedInv
<1>5. FixInv(q)'
  BY <1>1, <1>2 DEF ReplayInv, FixInv
<1>. QED
  BY <1>1, <1>3, <1>4, <1>5 DEF ReplayInv

\* The links stay true while what was linked is held on to.
LEMMA RelatedStays ==
  ASSUME RelatedInv, related' = related, kept \subseteq kept',
         \A q \in Replays : at[q] \in {"compare"} \cup Ended =>
           at'[q] \in {"compare"} \cup Ended /\ work'[q].of = work[q].of /\ work'[q].talk = work[q].talk
  PROVE  RelatedInv'
<1>. SUFFICES ASSUME NEW l \in related
              PROVE  /\ l = <<l[1], l[2], l[3]>> /\ l[1] \in kept' /\ l[2] \in kept'
                     /\ <<l[2], l[1], l[3]>> \in related
                     /\ \E r \in Replays : at'[r] \in {"compare"} \cup Ended
                                           /\ {work'[r].of, work'[r].talk} = {l[1], l[2]}
  BY DEF RelatedInv
<1>1. PICK r \in Replays : at[r] \in {"compare"} \cup Ended /\ {work[r].of, work[r].talk} = {l[1], l[2]}
  BY DEF RelatedInv
<1>2. at'[r] \in {"compare"} \cup Ended /\ {work'[r].of, work'[r].talk} = {l[1], l[2]}
  BY <1>1
<1>. QED
  BY <1>2 DEF RelatedInv

\* One replay goes on, and nothing changes for the others.
LEMMA OneReplay ==
  ASSUME ReplaysInv, NEW r \in Replays, NEW to, NEW w,
         at' = [at EXCEPT ![r] = to], work' = [work EXCEPT ![r] = w], at'[r] = to /\ work'[r] = w => ReplayInv(r)',
         related' = related \/ RelatedInv', kept \subseteq kept', kept' \subseteq DOMAIN talks',
         trees' \subseteq trees \cup {r}, known' \subseteq known \cup {r},
         UNCHANGED faults \/ (faults < MaxFaults /\ faults' = faults + 1), MaxFaults \in Nat,
         talks' = talks \/ \E t \in Talks : t.tree = r /\ talks' = Append(talks, t),
         at[r] \in {"compare"} \cup Ended =>
           to \in {"compare"} \cup Ended /\ w.of = work[r].of /\ w.talk = work[r].talk
  PROVE  ReplaysInv'
<1>1. /\ at' = [q \in Replays |-> at'[q]] /\ work' = [q \in Replays |-> work'[q]]
      /\ at'[r] = to /\ work'[r] = w
      /\ \A q \in Replays \ {r} : at'[q] = at[q] /\ work'[q] = work[q]
  BY DEF ReplaysInv
<1>2. ASSUME NEW q \in Replays PROVE ReplayInv(q)'
  <2>1. CASE q = r
    BY <1>1, <2>1
  <2>2. CASE q # r
    <3>1. talks' = talks \/ \E t \in Talks : t.tree # q /\ talks' = Append(talks, t)
      BY <2>2
    <3>2. q \in trees' => q \in trees
      BY <2>2
    <3>. QED
      BY <1>1, <2>2, <3>1, <3>2, OthersKeep DEF ReplaysInv
  <2>. QED
    BY <2>1, <2>2
<1>3. RelatedInv'
  BY <1>1, RelatedStays DEF ReplaysInv
<1>4. talks' \in Seq(Talks)
  BY OneTalkMore DEF ReplaysInv
<1>5. faults' \in 0 .. MaxFaults
  BY DEF ReplaysInv
<1>. QED
  BY <1>1, <1>2, <1>3, <1>4, <1>5 DEF ReplaysInv

\* What Go, Holds and Failed do to a replay.
LEMMA ReplayGoes ==
  ASSUME ReplaysInv, NEW r \in Replays
  PROVE  /\ ReplayInv(r) /\ IsWork(work[r])
         /\ \A from, to : Go(r, from, to) => at[r] = from /\ at' = [at EXCEPT ![r] = to]
         /\ UNCHANGED work => work' = [work EXCEPT ![r] = work[r]]
         /\ Fault => faults < MaxFaults /\ faults' = faults + 1
BY DEF ReplaysInv, ReplayInv, Go, Fault

\* A replay that has sent nothing yet.
LEMMA UnsentKeeps ==
  ASSUME NEW r \in Replays, ReplayInv(r), work[r].sent = {}, talks' = talks,
         IsWork(work'[r]), work'[r].sent = {}, work'[r].talk = 0, work'[r].verdict # "validated",
         at'[r] \in ReplaySteps \ Captured,
         r \in trees' => at'[r] \in (Working \ {"load", "add"}) \cup {"remove", "stuck", "dead"},
         at'[r] \in Working \ Early => work'[r].agent \in Agents,
         at'[r] \in Working /\ work'[r].batch # Nothing =>
           work'[r].applied > 0 /\ work'[r].before \in Nat /\ work'[r].before <= Len(talks)
  PROVE  ReplayInv(r)'
<1>1. SentInv(r)'
  BY DEF ReplayInv, SentInv
<1>2. CapturedInv(r)'
  BY DEF CapturedInv
<1>3. FixInv(r)'
  BY DEF FixInv
<1>. QED
  BY <1>1, <1>2, <1>3 DEF ReplayInv

\* A replay that is new, and one that is asked for.
LEMMA AskedKeeps ==
  ASSUME ReplayAssumption, ReplaysInv, NEW r \in Replays, Resolve(r) \/ Request(r)
  PROVE  ReplaysInv'
<1>1. PICK w, to : /\ at[r] = "new" /\ at' = [at EXCEPT ![r] = to] /\ work' = [work EXCEPT ![r] = w]
                   /\ IsWork(w) /\ w.sent = {} /\ w.talk = 0 /\ w.verdict = ""
                   /\ to = "read" \/ (to = "load" /\ w.batch = Nothing)
  <2>1. CASE Resolve(r)
    <3>1. PICK q \in Requests, batch \in Batches :
            Holds(r, [NoWork EXCEPT !.of = q.of, !.agent = q.agent, !.batch = batch])
      BY <2>1 DEF Resolve
    <3>2. LET w == [NoWork EXCEPT !.of = q.of, !.agent = q.agent, !.batch = batch] IN
          IsWork(w) /\ w.sent = {} /\ w.talk = 0 /\ w.verdict = ""
      BY WorkFacts DEF IsWork, WorkFields
    <3>. QED
      BY <2>1, <3>1, <3>2 DEF Resolve, Go, Holds
  <2>2. CASE Request(r)
    <3>1. PICK q \in Requests : Holds(r, [NoWork EXCEPT !.of = q.of, !.agent = q.agent, !.max = q.max])
      BY <2>2 DEF Request
    <3>2. LET w == [NoWork EXCEPT !.of = q.of, !.agent = q.agent, !.max = q.max] IN
          IsWork(w) /\ w.sent = {} /\ w.talk = 0 /\ w.verdict = "" /\ w.batch = Nothing
      BY WorkFacts DEF IsWork, WorkFields
    <3>. QED
      BY <2>2, <3>1, <3>2 DEF Request, Go, Holds
  <2>. QED
    BY <2>1, <2>2
<1>2. UNCHANGED <<kept, related, talks, trees, known, faults>>
  BY DEF Resolve, Request
<1>3. ReplayInv(r) /\ work[r].sent = {}
  BY <1>1 DEF ReplaysInv, ReplayInv, SentInv, Early
<1>4. ASSUME at'[r] = to, work'[r] = w PROVE ReplayInv(r)'
  <2>1. r \notin trees'
    BY <1>1, <1>2, <1>3 DEF ReplayInv, Working, Captured
  <2>2. to \in ReplaySteps \ Captured /\ to \in Early /\ (to \in Working => w.batch = Nothing)
    BY <1>1, WorkFacts DEF Early, Working, Captured
  <2>. QED
    BY <1>1, <1>2, <1>3, <1>4, <2>1, <2>2, UnsentKeeps
<1>5. at[r] \notin {"compare"} \cup Ended
  BY <1>1 DEF Ended
<1>. QED
  BY <1>1, <1>2, <1>4, <1>5, OneReplay DEF ReplaysInv, ReplayAssumption

LEMMA ReadKeeps ==
  ASSUME ReplayAssumption, ReplaysInv, NEW r \in Replays, ReadSkillFile(r)
  PROVE  ReplaysInv'
<1>. DEFINE w == [work[r] EXCEPT !.file = <<skill>>, !.applied = CountApplied(skill, work[r].batch)]
<1>1. /\ at[r] = "read" /\ at' = [at EXCEPT ![r] = "write"] /\ work' = [work EXCEPT ![r] = w]
      /\ UNCHANGED <<kept, related, talks, trees, known, faults>>
  BY DEF ReadSkillFile, Go, Holds
<1>2. /\ ReplayInv(r) /\ IsWork(w) /\ w.sent = work[r].sent /\ w.talk = work[r].talk /\ w.agent = work[r].agent
      /\ w.verdict = work[r].verdict
  BY DEF ReplaysInv, ReplayInv, IsWork, WorkFields
<1>. HIDE DEF w
<1>3. ASSUME at'[r] = "write", work'[r] = w PROVE ReplayInv(r)'
  <2>1. r \notin trees' /\ w.sent = {} /\ work[r].sent = {} /\ w.talk = 0 /\ w.verdict # "validated"
    BY <1>1, <1>2 DEF ReplayInv, SentInv, CapturedInv, FixInv, Early, Working, Captured, Ended
  <2>2. "write" \in ReplaySteps \ Captured /\ "write" \notin Working
    BY WorkFacts DEF Working, Captured
  <2>. QED
    BY <1>1, <1>2, <1>3, <2>1, <2>2, UnsentKeeps
<1>4. at[r] \notin {"compare"} \cup Ended
  BY <1>1 DEF Ended
<1>. QED
  BY <1>1, <1>3, <1>4, OneReplay DEF ReplaysInv, ReplayAssumption

\* The file is written before anything is sent, and everyone else learns of it.
LEMMA WriteKeeps ==
  ASSUME ReplayAssumption, ReplaysInv, NEW r \in Replays, WriteSkillFile(r)
  PROVE  ReplaysInv'
<1>1. /\ at[r] = "write" /\ UNCHANGED <<kept, related, talks, trees, known>>
      /\ ReplayInv(r) /\ IsWork(work[r]) /\ work[r].sent = {} /\ work[r].talk = 0 /\ work[r].verdict # "validated"
      /\ Len(talks) \in Nat /\ talks \in Seq(Talks) /\ MaxFaults \in Nat
  BY DEF WriteSkillFile, ReplaysInv, ReplayInv, SentInv, CapturedInv, FixInv, Early, Ended, ReplayAssumption
<1>2. CASE /\ work[r].applied > 0 /\ at' = [at EXCEPT ![r] = "load"] /\ UNCHANGED faults
           /\ work' = [q \in Replays |->
                         IF q = r THEN [work[r] EXCEPT !.before = Len(talks), !.raced = FALSE]
                         ELSE [work[q] EXCEPT !.raced = TRUE]]
  <2>1. /\ at' = [q \in Replays |-> at'[q]] /\ work' = [q \in Replays |-> work'[q]] /\ at'[r] = "load"
        /\ \A q \in Replays \ {r} : at'[q] = at[q] /\ work'[q] = [work[q] EXCEPT !.raced = TRUE]
    BY <1>2 DEF ReplaysInv
  <2>. DEFINE w == [work[r] EXCEPT !.before = Len(talks), !.raced = FALSE]
  <2>2. /\ work'[r] = w /\ IsWork(w) /\ w.before = Len(talks) /\ w.applied = work[r].applied
        /\ w.sent = {} /\ w.talk = 0 /\ w.verdict = work[r].verdict
    BY <1>1, <1>2 DEF IsWork, WorkFields
  <2>. HIDE DEF w
  <2>3. ReplayInv(r)'
    <3>1. r \notin trees'
      BY <1>1 DEF ReplayInv, Working, Captured
    <3>2. "load" \in ReplaySteps \ Captured /\ "load" \in Early
      BY WorkFacts DEF Early, Captured
    <3>3. w.before \in Nat /\ w.before <= Len(talks) /\ w.applied > 0 /\ w.verdict # "validated"
      BY <1>1, <1>2, <2>2
    <3>4. talks' = talks /\ trees' = trees
      BY <1>1
    <3>. QED
      BY <1>1, <2>1, <2>2, <3>1, <3>2, <3>3, <3>4, UnsentKeeps
  <2>4. \A q \in Replays : ReplayInv(q)'
    BY <1>1, <2>1, <2>3, OthersKeep DEF ReplaysInv
  <2>5. ASSUME NEW q \in Replays, at[q] \in {"compare"} \cup Ended
        PROVE  at'[q] = at[q] /\ work'[q].of = work[q].of /\ work'[q].talk = work[q].talk
    <3>1. q # r /\ IsWork(work[q])
      BY <1>1, <2>5 DEF Ended, ReplaysInv, ReplayInv
    <3>. QED
      BY <2>1, <3>1 DEF IsWork, WorkFields
  <2>6. RelatedInv'
    BY <1>1, <2>5, RelatedStays DEF ReplaysInv
  <2>. QED
    BY <1>1, <1>2, <2>1, <2>4, <2>6 DEF ReplaysInv
<1>3. ASSUME NEW w, at' = [at EXCEPT ![r] = "over"], work' = [work EXCEPT ![r] = w],
             Fault \/ UNCHANGED faults,
             IsWork(w), w.sent = {}, w.talk = 0, w.agent = work[r].agent, w.verdict = "not_applied"
      PROVE  ReplaysInv'
  <2>1. r \notin trees
    BY <1>1, WorkFacts DEF ReplayInv, Working, Captured
  <2>2. ASSUME at'[r] = "over", work'[r] = w PROVE ReplayInv(r)'
    <3>1. "over" \in ReplaySteps \ Captured /\ "over" \notin Working
      BY WorkFacts DEF Working, Captured
    <3>. QED
      BY <1>1, <1>3, <2>1, <2>2, <3>1, UnsentKeeps
  <2>3. at[r] \notin {"compare"} \cup Ended
    BY <1>1 DEF Ended
  <2>. QED
    BY <1>1, <1>3, <2>2, <2>3, OneReplay DEF ReplaysInv, Fault
<1>. DEFINE unwritten == [work[r] EXCEPT !.applied = 0, !.verdict = "not_applied"]
            unchanged == [work[r] EXCEPT !.verdict = "not_applied"]
<1>4. CASE Fault /\ at' = [at EXCEPT ![r] = "over"] /\ work' = [work EXCEPT ![r] = unwritten]
  <2>1. /\ IsWork(unwritten) /\ unwritten.sent = {} /\ unwritten.talk = 0 /\ unwritten.agent = work[r].agent
        /\ unwritten.verdict = "not_applied"
    BY <1>1 DEF IsWork, WorkFields
  <2>. HIDE DEF unwritten
  <2>. QED
    BY <1>3, <1>4, <2>1
<1>5. CASE UNCHANGED faults /\ at' = [at EXCEPT ![r] = "over"] /\ work' = [work EXCEPT ![r] = unchanged]
  <2>1. /\ IsWork(unchanged) /\ unchanged.sent = {} /\ unchanged.talk = 0 /\ unchanged.agent = work[r].agent
        /\ unchanged.verdict = "not_applied"
    BY <1>1 DEF IsWork, WorkFields
  <2>. HIDE DEF unchanged
  <2>. QED
    BY <1>3, <1>5, <2>1
<1>. QED
  BY <1>2, <1>4, <1>5 DEF WriteSkillFile, Holds

LEMMA LoadKeeps ==
  ASSUME ReplayAssumption, ReplaysInv, NEW r \in Replays, Load(r)
  PROVE  ReplaysInv'
<1>1. /\ at[r] = "load" /\ UNCHANGED <<kept, related, talks, trees, known, faults>>
      /\ ReplayInv(r) /\ IsWork(work[r]) /\ work[r].sent = {} /\ work[r].talk = 0 /\ work[r].verdict # "validated"
      /\ r \notin trees'
      /\ work[r].batch # Nothing =>
           work[r].applied > 0 /\ work[r].before \in Nat /\ work[r].before <= Len(talks)
  BY DEF Load, Go, ReplaysInv, ReplayInv, SentInv, CapturedInv, FixInv, Early, Working, Captured, Ended
<1>2. at[r] \notin {"compare"} \cup Ended
  BY <1>1 DEF Ended
<1>3. ASSUME NEW by \in Agents, NEW original, NEW texts, at' = [at EXCEPT ![r] = "add"],
             work' = [work EXCEPT ![r] = [work[r] EXCEPT !.session = <<original>>, !.agent = by, !.left = texts]]
      PROVE  ReplaysInv'
  <2>. DEFINE w == [work[r] EXCEPT !.session = <<original>>, !.agent = by, !.left = texts]
  <2>1. /\ IsWork(w) /\ w.sent = {} /\ w.talk = 0 /\ w.verdict = work[r].verdict /\ w.agent = by
        /\ w.batch = work[r].batch /\ w.applied = work[r].applied /\ w.before = work[r].before
    BY <1>1 DEF IsWork, WorkFields
  <2>2. work' = [work EXCEPT ![r] = w]
    BY <1>3
  <2>. HIDE DEF w
  <2>3. ASSUME at'[r] = "add", work'[r] = w PROVE ReplayInv(r)'
    <3>1. "add" \in ReplaySteps \ Captured
      BY WorkFacts DEF Captured
    <3>. QED
      BY <1>1, <2>1, <2>3, <3>1, UnsentKeeps
  <2>. QED
    BY <1>1, <1>2, <1>3, <2>2, <2>3, OneReplay DEF ReplaysInv, ReplayAssumption
<1>4. ASSUME at' = [at EXCEPT ![r] = "over"], work' = [work EXCEPT ![r] = [work[r] EXCEPT !.error = "refused"]]
      PROVE  ReplaysInv'
  <2>. DEFINE w == [work[r] EXCEPT !.error = "refused"]
  <2>1. IsWork(w) /\ w.sent = {} /\ w.talk = 0 /\ w.verdict = work[r].verdict
    BY <1>1 DEF IsWork, WorkFields
  <2>2. work' = [work EXCEPT ![r] = w]
    BY <1>4
  <2>. HIDE DEF w
  <2>3. ASSUME at'[r] = "over", work'[r] = w PROVE ReplayInv(r)'
    <3>1. "over" \in ReplaySteps \ Captured /\ "over" \notin Working
      BY WorkFacts DEF Working, Captured
    <3>. QED
      BY <1>1, <2>1, <2>3, <3>1, UnsentKeeps
  <2>. QED
    BY <1>1, <1>2, <1>4, <2>2, <2>3, OneReplay DEF ReplaysInv, ReplayAssumption
<1>. DEFINE id == work[r].of
            by == IF work[r].agent = "" THEN Library[id].provider ELSE work[r].agent
            texts == extractUserMessages(Library[id].said, work[r].max)
<1>5. CASE id \in kept /\ by \in Agents /\ texts # <<>> /\ Library[id].project = "repo"
  <2>1. /\ at' = [at EXCEPT ![r] = "add"]
        /\ work' = [work EXCEPT ![r] = [work[r] EXCEPT !.session = <<Library[id]>>, !.agent = by, !.left = texts]]
    BY <1>5 DEF Load, Go, Holds
  <2>. HIDE DEF by, texts
  <2>. QED
    BY <1>3, <1>5, <2>1
<1>6. CASE ~(id \in kept /\ by \in Agents /\ texts # <<>> /\ Library[id].project = "repo")
  BY <1>4, <1>6 DEF Load, Go, Failed, Holds
<1>. QED
  BY <1>5, <1>6

\* The directory is there from when git is asked to add it.
LEMMA CreateKeeps ==
  ASSUME ReplayAssumption, ReplaysInv, NEW r \in Replays, CreateWorktree(r)
  PROVE  ReplaysInv'
<1>1. /\ ReplayInv(r) /\ IsWork(work[r]) /\ at[r] \in {"add", "adding"}
      /\ UNCHANGED <<kept, related, talks>> /\ talks \in Seq(Talks) /\ MaxFaults \in Nat
  BY DEF CreateWorktree, Go, ReplaysInv, ReplayInv, ReplayAssumption
<1>2. /\ at[r] \notin {"compare"} \cup Ended /\ at[r] \in Working \ Early
      /\ work[r].talk = 0 /\ work[r].verdict # "validated"
  BY <1>1 DEF ReplayInv, CapturedInv, FixInv, Early, Working, Captured, Ended
<1>3. ASSUME NEW to \in {"adding", "run", "over", "stuck"}, NEW w, at' = [at EXCEPT ![r] = to],
             work' = [work EXCEPT ![r] = w], IsWork(w), \A f \in WorkFields \ {"error"} : w[f] = work[r][f],
             trees' \subseteq trees \cup {r}, to = "over" => r \notin trees', known' \subseteq known \cup {r},
             Fault \/ UNCHANGED faults
      PROVE  ReplaysInv'
  <2>1. /\ w.sent = work[r].sent /\ w.talk = 0 /\ w.agent = work[r].agent /\ w.batch = work[r].batch
        /\ w.applied = work[r].applied /\ w.before = work[r].before /\ w.verdict = work[r].verdict
    BY <1>2, <1>3 DEF WorkFields
  <2>2. ASSUME at'[r] = to, work'[r] = w PROVE ReplayInv(r)'
    <3>1. SentInv(r)'
      BY <1>1, <1>2, <1>3, <2>1, <2>2 DEF ReplayInv, SentInv, Early
    <3>2. CapturedInv(r)'
      BY <1>2, <2>1, <2>2 DEF CapturedInv, Captured
    <3>3. FixInv(r)'
      BY <1>1, <1>2, <1>3, <2>1, <2>2 DEF ReplayInv, FixInv
    <3>. QED
      <4>1. to \in ReplaySteps /\ (to \notin {"over", "stuck"} => to \in Working \ {"load", "add"})
        BY WorkFacts DEF Working
      <4>. QED
        BY <1>3, <2>2, <3>1, <3>2, <3>3, <4>1 DEF ReplayInv
  <2>. QED
    BY <1>1, <1>2, <1>3, <2>2, OneReplay DEF ReplaysInv, Fault
<1>4. CASE Go(r, "add", "adding") /\ trees' = trees \cup {r} /\ UNCHANGED <<known, work, faults>>
  BY <1>1, <1>3, <1>4, ReplayGoes
<1>5. CASE Go(r, "adding", "run") /\ known' = known \cup {r} /\ UNCHANGED <<trees, work, faults>>
  BY <1>1, <1>3, <1>5, ReplayGoes
<1>6. CASE /\ Fault /\ Failed(r, "worktree") /\ UNCHANGED known
           /\ \/ Go(r, "adding", "over") /\ trees' = trees \ {r}
              \/ Go(r, "adding", "stuck") /\ UNCHANGED trees
  <2>. DEFINE w == [work[r] EXCEPT !.error = "worktree"]
  <2>1. IsWork(w) /\ \A f \in WorkFields \ {"error"} : w[f] = work[r][f]
    BY <1>1 DEF IsWork, WorkFields
  <2>2. PICK to \in {"over", "stuck"} : /\ at' = [at EXCEPT ![r] = to] /\ trees' \subseteq trees
                                        /\ to = "over" => r \notin trees'
    BY <1>6 DEF Go
  <2>3. work' = [work EXCEPT ![r] = w]
    BY <1>6 DEF Failed, Holds
  <2>. HIDE DEF w
  <2>. QED
    BY <1>3, <1>6, <2>1, <2>2, <2>3
<1>. QED
  BY <1>4, <1>5, <1>6 DEF CreateWorktree

\* What a message leaves is in the directory, and newer than all there is.
LEMMA RunKeeps ==
  ASSUME ReplayAssumption, ReplaysInv, NEW r \in Replays, Run(r)
  PROVE  ReplaysInv'
<1>1. /\ ReplayInv(r) /\ IsWork(work[r]) /\ at[r] = "run" /\ at' = [at EXCEPT ![r] = "run"]
      /\ UNCHANGED <<kept, related, trees, known>> /\ talks \in Seq(Talks) /\ MaxFaults \in Nat
      /\ kept \subseteq DOMAIN talks
  BY DEF Run, Go, ReplaysInv, ReplayInv, ReplayAssumption
<1>2. /\ at[r] \notin {"compare"} \cup Ended /\ at[r] \in Working \ Early
      /\ work[r].talk = 0 /\ work[r].verdict # "validated" /\ work[r].agent \in Agents
  BY <1>1 DEF ReplayInv, SentInv, CapturedInv, FixInv, Early, Working, Captured, Ended
<1>3. CASE \E figures \in Outcomes :
             /\ talks' = Append(talks, [tree |-> r, agent |-> work[r].agent, figures |-> figures])
             /\ Holds(r, [work[r] EXCEPT !.left = Tail(@), !.sent = @ \cup {Len(talks')}])
             /\ UNCHANGED faults \/ Fault
  <2>1. PICK figures \in Outcomes :
          /\ talks' = Append(talks, [tree |-> r, agent |-> work[r].agent, figures |-> figures])
          /\ Holds(r, [work[r] EXCEPT !.left = Tail(@), !.sent = @ \cup {Len(talks')}])
    BY <1>3
  <2>. DEFINE t == [tree |-> r, agent |-> work[r].agent, figures |-> figures]
              n == Len(talks')
              w == [work[r] EXCEPT !.left = Tail(@), !.sent = @ \cup {n}]
  <2>2. t \in Talks /\ t.tree = r /\ t.agent = work[r].agent /\ talks' = Append(talks, t)
    BY <1>2, <2>1 DEF Talks
  <2>3. work' = [work EXCEPT ![r] = w]
    BY <2>1 DEF Holds
  <2>4. /\ IsWork(w) /\ w.sent = work[r].sent \cup {n} /\ w.talk = 0 /\ w.agent = work[r].agent
        /\ w.batch = work[r].batch /\ w.applied = work[r].applied /\ w.before = work[r].before
        /\ w.verdict = work[r].verdict
    BY <1>1, <1>2 DEF IsWork, WorkFields
  <2>. HIDE DEF t, w
  <2>5. /\ n = Len(talks) + 1 /\ Len(talks) \in Nat /\ DOMAIN talks = 1 .. Len(talks)
        /\ DOMAIN talks' = 1 .. Len(talks) + 1 /\ talks'[n] = t
        /\ \A m \in DOMAIN talks : m \in DOMAIN talks' /\ talks'[m] = talks[m]
    BY <1>1, <2>2, OneTalkMore
  <2>. HIDE DEF n
  <2>6. ASSUME at'[r] = "run", work'[r] = w PROVE ReplayInv(r)'
    <3>1. DOMAIN talks' = DOMAIN talks \cup {n} /\ n \in Nat /\ \A m \in DOMAIN talks : m \in Nat /\ m < n
      BY <2>5
    <3>2. work[r].sent = {m \in DOMAIN talks : talks[m].tree = r}
      BY <1>1 DEF ReplayInv, SentInv
    <3>3. w.sent = {m \in DOMAIN talks' : talks'[m].tree = r}
      BY <2>2, <2>4, <2>5, <3>1, <3>2
    <3>4. \A m \in w.sent : talks'[m].agent = w.agent
      BY <1>1, <2>2, <2>4, <2>5, <3>2 DEF ReplayInv, SentInv
    <3>5. n \in w.sent /\ \A m \in w.sent : m <= n
      BY <2>4, <3>1, <3>2
    <3>6. SentInv(r)'
      BY <1>2, <2>4, <2>6, <3>3, <3>4, <3>5 DEF SentInv, Early
    <3>7. CapturedInv(r)'
      BY <2>4, <2>6 DEF CapturedInv, Captured
    <3>8. FixInv(r)'
      <4>1. ASSUME w.batch # Nothing
            PROVE  w.applied > 0 /\ w.before \in Nat /\ w.before <= Len(talks') /\ \A m \in w.sent : m > w.before
        <5>1. /\ w.applied > 0 /\ w.before \in Nat /\ w.before <= Len(talks)
              /\ \A m \in work[r].sent : m > w.before
          BY <1>1, <1>2, <2>4, <4>1 DEF ReplayInv, FixInv
        <5>2. n > w.before /\ w.before <= n
          BY <2>5, <5>1
        <5>3. Len(talks') = n
          BY DEF n
        <5>. QED
          BY <2>4, <5>1, <5>2, <5>3
      <4>. QED
        BY <1>2, <2>4, <2>6, <4>1 DEF FixInv
    <3>. QED
      BY <1>1, <2>4, <2>6, <3>6, <3>7, <3>8 DEF ReplayInv
  <2>7. kept' \subseteq DOMAIN talks'
    BY <1>1, <2>5
  <2>8. UNCHANGED faults \/ (faults < MaxFaults /\ faults' = faults + 1)
    BY <1>3 DEF Fault
  <2>. QED
    BY <1>1, <1>2, <2>2, <2>3, <2>6, <2>7, <2>8, OneReplay
<1>4. CASE Fault /\ Holds(r, [work[r] EXCEPT !.left = Tail(@)]) /\ UNCHANGED talks
  <2>. DEFINE w == [work[r] EXCEPT !.left = Tail(@)]
  <2>1. /\ IsWork(w) /\ w.sent = work[r].sent /\ w.talk = 0 /\ w.agent = work[r].agent
        /\ w.batch = work[r].batch /\ w.applied = work[r].applied /\ w.before = work[r].before
        /\ w.verdict = work[r].verdict /\ work' = [work EXCEPT ![r] = w]
    BY <1>1, <1>2, <1>4 DEF IsWork, WorkFields, Holds
  <2>. HIDE DEF w
  <2>2. ASSUME at'[r] = "run", work'[r] = w PROVE ReplayInv(r)'
    <3>1. SentInv(r)'
      BY <1>1, <1>4, <2>1, <2>2 DEF ReplayInv, SentInv
    <3>2. CapturedInv(r)'
      BY <2>1, <2>2 DEF CapturedInv, Captured
    <3>3. FixInv(r)'
      BY <1>1, <1>2, <1>4, <2>1, <2>2 DEF ReplayInv, FixInv
    <3>. QED
      BY <1>1, <2>1, <2>2, <3>1, <3>2, <3>3 DEF ReplayInv
  <2>. QED
    BY <1>1, <1>2, <1>4, <2>1, <2>2, OneReplay DEF Fault
<1>. QED
  BY <1>3, <1>4 DEF Run

\* A replay that goes on to its end without anything more to tell, and one that captures.
LEMMA TurnKeeps ==
  ASSUME ReplayAssumption, ReplaysInv, NEW r \in Replays, NEW from, NEW to, NEW w,
         at[r] = from, from \in {"run", "save", "link"}, to \in Captured \cup {"remove"},
         at' = [at EXCEPT ![r] = to], work' = [work EXCEPT ![r] = w],
         IsWork(w), \A f \in WorkFields \ {"error", "talk"} : w[f] = work[r][f],
         to \in Captured => w.talk \in w.sent /\ w.talk # 0 /\ \A n \in w.sent : n <= w.talk,
         to = "remove" => w.talk = 0,
         related' = related \/ RelatedInv', UNCHANGED <<talks, trees, known>>,
         kept \subseteq kept', kept' \subseteq DOMAIN talks,
         Fault \/ UNCHANGED faults
  PROVE  ReplaysInv'
<1>1. /\ w.sent = work[r].sent /\ w.agent = work[r].agent /\ w.batch = work[r].batch
      /\ w.applied = work[r].applied /\ w.before = work[r].before /\ w.verdict = work[r].verdict
  BY DEF WorkFields
<1>2. ReplayInv(r) /\ MaxFaults \in Nat
  BY DEF ReplaysInv, ReplayAssumption
<1>3. /\ from \notin {"compare"} \cup Ended /\ from \in Working \ Early /\ work[r].verdict # "validated"
      /\ to \in ReplaySteps \ Early /\ to \notin {"add", "adding", "run"}
      /\ to \in (Working \ {"load", "add"}) \cup {"remove", "stuck", "dead"}
  BY <1>2, WorkFacts DEF ReplayInv, FixInv, Early, Working, Captured, Ended
<1>4. ASSUME at'[r] = to, work'[r] = w PROVE ReplayInv(r)'
  <2>1. SentInv(r)'
    BY <1>1, <1>2, <1>3, <1>4 DEF ReplayInv, SentInv
  <2>2. CapturedInv(r)'
    BY <1>3, <1>4 DEF CapturedInv
  <2>3. FixInv(r)'
    BY <1>1, <1>2, <1>3, <1>4 DEF ReplayInv, FixInv
  <2>. QED
    BY <1>3, <1>4, <2>1, <2>2, <2>3 DEF ReplayInv
<1>. QED
  BY <1>2, <1>3, <1>4, OneReplay DEF Fault

LEMMA CancelKeeps ==
  ASSUME ReplayAssumption, ReplaysInv, NEW r \in Replays, Cancelled(r)
  PROVE  ReplaysInv'
<1>. DEFINE w == [work[r] EXCEPT !.error = "cancelled"]
<1>1. /\ at[r] = "run" /\ at' = [at EXCEPT ![r] = "remove"] /\ work' = [work EXCEPT ![r] = w] /\ Fault
      /\ UNCHANGED <<kept, related, talks, trees, known>> /\ kept \subseteq DOMAIN talks
      /\ IsWork(work[r]) /\ work[r].talk = 0
  BY DEF Cancelled, Go, Failed, Holds, ReplaysInv, ReplayInv, CapturedInv
<1>2. IsWork(w) /\ w.talk = 0 /\ \A f \in WorkFields \ {"error", "talk"} : w[f] = work[r][f]
  BY <1>1 DEF IsWork, WorkFields
<1>. HIDE DEF w
<1>. QED
  BY <1>1, <1>2, TurnKeeps DEF Captured

\* The newest one in the directory is the last that was sent.
LEMMA CaptureKeeps ==
  ASSUME ReplayAssumption, ReplaysInv, NEW r \in Replays, CaptureReplay(r)
  PROVE  ReplaysInv'
<1>. DEFINE n    == CHOOSE n \in Detect(r) : \A m \in Detect(r) : m <= n
            has  == [work[r] EXCEPT !.talk = n]
            hasNot == [work[r] EXCEPT !.error = "not captured"]
<1>1. /\ at[r] = "run" /\ UNCHANGED <<kept, related, talks, trees, known>> /\ kept \subseteq DOMAIN talks
      /\ ReplayInv(r) /\ IsWork(work[r]) /\ work[r].talk = 0 /\ talks \in Seq(Talks)
  BY DEF CaptureReplay, Go, ReplaysInv, ReplayInv, CapturedInv
<1>2. Detect(r) = work[r].sent
  BY <1>1 DEF ReplayInv, SentInv, Detect
<1>3. CASE Detect(r) # {} /\ Go(r, "run", "save") /\ Holds(r, has) /\ UNCHANGED faults
  <2>1. \E k \in Detect(r) : \A m \in Detect(r) : m <= k
    BY <1>1, <1>2, <1>3 DEF ReplayInv, SentInv
  <2>2. n \in Detect(r) /\ \A m \in Detect(r) : m <= n
    BY <2>1
  <2>3. n # 0
    BY <1>1, <2>2 DEF Detect
  <2>. HIDE DEF n
  <2>4. IsWork(has) /\ has.talk = n /\ \A f \in WorkFields \ {"error", "talk"} : has[f] = work[r][f]
    BY <1>1 DEF IsWork, WorkFields
  <2>5. at' = [at EXCEPT ![r] = "save"] /\ work' = [work EXCEPT ![r] = has] /\ has.sent = work[r].sent
    BY <1>1, <1>3 DEF Go, Holds, IsWork, WorkFields
  <2>. HIDE DEF has
  <2>. QED
    BY <1>1, <1>2, <1>3, <2>2, <2>3, <2>4, <2>5, TurnKeeps DEF Captured
<1>4. CASE Go(r, "run", "remove") /\ Failed(r, "not captured") /\ (Fault \/ UNCHANGED faults)
  <2>1. /\ at' = [at EXCEPT ![r] = "remove"] /\ work' = [work EXCEPT ![r] = hasNot]
        /\ IsWork(hasNot) /\ hasNot.talk = 0
        /\ \A f \in WorkFields \ {"error", "talk"} : hasNot[f] = work[r][f]
    BY <1>1, <1>4 DEF Go, Failed, Holds, IsWork, WorkFields
  <2>. HIDE DEF hasNot
  <2>. QED
    BY <1>1, <1>4, <2>1, TurnKeeps DEF Captured
<1>. QED
  BY <1>3, <1>4 DEF CaptureReplay

LEMMA SaveKeeps ==
  ASSUME ReplayAssumption, ReplaysInv, NEW r \in Replays, SaveReplay(r)
  PROVE  ReplaysInv'
<1>1. /\ at[r] = "save" /\ UNCHANGED <<related, talks, trees, known>> /\ kept \subseteq DOMAIN talks
      /\ ReplayInv(r) /\ IsWork(work[r]) /\ work[r].talk # 0 /\ work[r].talk \in work[r].sent
      /\ \A n \in work[r].sent : n <= work[r].talk
  BY DEF SaveReplay, Go, ReplaysInv, ReplayInv, CapturedInv, Captured
<1>2. work[r].talk \in DOMAIN talks
  BY <1>1 DEF ReplayInv, SentInv
<1>3. CASE Go(r, "save", "link") /\ kept' = kept \cup {work[r].talk} /\ UNCHANGED <<work, faults>>
  BY <1>1, <1>2, <1>3, ReplayGoes, TurnKeeps DEF Captured
<1>4. CASE /\ Go(r, "save", "remove") /\ Fault /\ UNCHANGED kept
           /\ Holds(r, [work[r] EXCEPT !.talk = 0, !.error = "not captured"])
  <2>. DEFINE w == [work[r] EXCEPT !.talk = 0, !.error = "not captured"]
  <2>1. /\ at' = [at EXCEPT ![r] = "remove"] /\ work' = [work EXCEPT ![r] = w] /\ IsWork(w) /\ w.talk = 0
        /\ \A f \in WorkFields \ {"error", "talk"} : w[f] = work[r][f]
    BY <1>1, <1>4 DEF Go, Holds, IsWork, WorkFields
  <2>. HIDE DEF w
  <2>. QED
    BY <1>1, <1>4, <2>1, TurnKeeps DEF Captured
<1>. QED
  BY <1>3, <1>4 DEF SaveReplay

\* Both rows are inserted, of two sessions that are there.
LEMMA LinkKeeps ==
  ASSUME ReplayAssumption, ReplaysInv, NEW r \in Replays, LinkReplay(r)
  PROVE  ReplaysInv'
<1>. DEFINE id == work[r].of
            talk == work[r].talk
            new == {<<talk, id, "replay_of">>, <<id, talk, "replay_of">>}
<1>1. /\ at[r] = "link" /\ at' = [at EXCEPT ![r] = "compare"] /\ UNCHANGED <<kept, talks, trees, known, work>>
      /\ kept \subseteq DOMAIN talks
      /\ ReplayInv(r) /\ IsWork(work[r]) /\ work[r].talk # 0 /\ work[r].talk \in work[r].sent
      /\ \A n \in work[r].sent : n <= work[r].talk
  BY DEF LinkReplay, Go, ReplaysInv, ReplayInv, CapturedInv, Captured
<1>2. related' = related \/ ({id, talk} \subseteq kept /\ related' = related \cup new)
  BY DEF LinkReplay
<1>3. Fault \/ UNCHANGED faults
  BY DEF LinkReplay
<1>4. ASSUME {id, talk} \subseteq kept, related' = related \cup new PROVE RelatedInv'
  <2>1. at'[r] = "compare" /\ \A q \in Replays : at'[q] = at[q] \/ q = r
    BY <1>1 DEF ReplaysInv
  <2>. SUFFICES ASSUME NEW l \in related'
                PROVE  /\ l = <<l[1], l[2], l[3]>> /\ l[1] \in kept /\ l[2] \in kept
                       /\ <<l[2], l[1], l[3]>> \in related'
                       /\ \E q \in Replays : at'[q] \in {"compare"} \cup Ended
                                             /\ {work[q].of, work[q].talk} = {l[1], l[2]}
    BY <1>1 DEF RelatedInv
  <2>2. CASE l \in related
    <3>1. /\ l = <<l[1], l[2], l[3]>> /\ l[1] \in kept /\ l[2] \in kept /\ <<l[2], l[1], l[3]>> \in related
      BY <2>2 DEF ReplaysInv, RelatedInv
    <3>2. PICK q \in Replays : at[q] \in {"compare"} \cup Ended /\ {work[q].of, work[q].talk} = {l[1], l[2]}
      BY <2>2 DEF ReplaysInv, RelatedInv
    <3>3. at'[q] \in {"compare"} \cup Ended
      BY <2>1, <3>2
    <3>. QED
      BY <1>4, <3>1, <3>2, <3>3
  <2>3. CASE l \in new
    <3>1. /\ l = <<talk, id, "replay_of">> \/ l = <<id, talk, "replay_of">>
          /\ l[3] = "replay_of" /\ l = <<l[1], l[2], l[3]>>
      BY <2>3
    <3>2. {l[1], l[2]} = {id, talk} /\ <<l[2], l[1], l[3]>> \in new
      BY <3>1
    <3>. QED
      BY <1>4, <2>1, <3>1, <3>2
  <2>. QED
    BY <1>4, <2>2, <2>3
<1>5. related' = related \/ RelatedInv'
  BY <1>2, <1>4
<1>. HIDE DEF new
<1>. QED
  BY <1>1, <1>3, <1>5, ReplayGoes, TurnKeeps DEF Captured

\* Only a fix is called validated, and what was captured is newer than it.
LEMMA CompareKeeps ==
  ASSUME ReplayAssumption, ReplaysInv, NEW r \in Replays, Compare(r)
  PROVE  ReplaysInv'
<1>. DEFINE original == work[r].session[1].figures
            replay == talks[work[r].talk].figures
            verdict == IF work[r].batch = Nothing THEN computeVerdict(original, replay)
                       ELSE IF Skill \in NewSkillsLoaded(original, replay) THEN "validated" ELSE "not_improved"
            w == [work[r] EXCEPT !.verdict = verdict]
<1>1. /\ at[r] = "compare" /\ at' = [at EXCEPT ![r] = "remove"] /\ work' = [work EXCEPT ![r] = w]
      /\ UNCHANGED <<kept, related, talks, trees, known, faults>>
  BY DEF Compare, Go, Holds
<1>2. verdict = "validated" => work[r].batch # Nothing
  BY DEF computeVerdict
<1>. HIDE DEF verdict
<1>3. /\ ReplayInv(r) /\ IsWork(w) /\ w.verdict = verdict
      /\ \A f \in WorkFields \ {"verdict"} : w[f] = work[r][f]
  BY DEF ReplaysInv, ReplayInv, IsWork, WorkFields
<1>. HIDE DEF w
<1>4. /\ w.sent = work[r].sent /\ w.agent = work[r].agent /\ w.batch = work[r].batch /\ w.of = work[r].of
      /\ w.applied = work[r].applied /\ w.before = work[r].before /\ w.talk = work[r].talk
  BY <1>3 DEF WorkFields
<1>5. work[r].talk \in work[r].sent
  BY <1>1, <1>3 DEF ReplayInv, CapturedInv, Captured
<1>6. ASSUME at'[r] = "remove", work'[r] = w PROVE ReplayInv(r)'
  <2>1. SentInv(r)'
    BY <1>1, <1>3, <1>4, <1>6 DEF ReplayInv, SentInv, Early, Working, Captured
  <2>2. CapturedInv(r)'
    BY <1>3, <1>4, <1>6 DEF ReplayInv, CapturedInv, Early, Captured
  <2>3. w.verdict = "validated" => w.applied > 0 /\ w.talk > w.before
    BY <1>1, <1>2, <1>3, <1>4, <1>5 DEF ReplayInv, FixInv, Working, Captured
  <2>4. FixInv(r)'
    BY <1>6, <2>3 DEF FixInv, Early, Working, Captured, Ended
  <2>. QED
    BY <1>3, <1>6, <2>1, <2>2, <2>4, WorkFacts DEF ReplayInv
<1>. QED
  BY <1>1, <1>4, <1>6, OneReplay DEF ReplaysInv, ReplayAssumption, Ended

\* Nothing changes for a replay that is over or dead, but where its directory is.
LEMMA EndKeeps ==
  ASSUME ReplayAssumption, ReplaysInv, NEW r \in Replays, RemoveWorktree(r) \/ Die(r)
  PROVE  ReplaysInv'
<1>1. /\ ReplayInv(r) /\ UNCHANGED <<kept, related, talks, work>> /\ trees' \subseteq trees /\ known' \subseteq known
      /\ Fault \/ UNCHANGED faults
  BY DEF RemoveWorktree, Die, ReplaysInv
<1>2. PICK to \in {"over", "stuck", "dead"} : /\ at' = [at EXCEPT ![r] = to] /\ at[r] \notin {"new"}
                                              /\ to = "over" => r \notin trees'
  BY DEF RemoveWorktree, Die, Go
<1>3. ASSUME at'[r] = to, work'[r] = work[r] PROVE ReplayInv(r)'
  <2>1. to \in ReplaySteps /\ to \in Ended /\ to \notin Working /\ to \notin Early \cup {"add", "adding", "run"}
    BY WorkFacts DEF Early, Working, Captured, Ended
  <2>2. SentInv(r)'
    BY <1>1, <1>3, <2>1 DEF ReplayInv, SentInv
  <2>3. CapturedInv(r)'
    BY <1>1, <1>3, <2>1 DEF ReplayInv, CapturedInv, Working
  <2>4. FixInv(r)'
    BY <1>1, <1>3, <2>1 DEF ReplayInv, FixInv
  <2>. QED
    BY <1>1, <1>2, <1>3, <2>1, <2>2, <2>3, <2>4 DEF ReplayInv
<1>4. to \in Ended /\ kept \subseteq DOMAIN talks /\ MaxFaults \in Nat
  BY DEF Ended, ReplaysInv, ReplayAssumption
<1>. QED
  BY <1>1, <1>2, <1>3, <1>4, ReplayGoes, OneReplay DEF Fault

\* The links go with the session, from both ends.
LEMMA DeleteKeeps ==
  ASSUME ReplayAssumption, ReplaysInv, NEW id \in kept, Delete(id)
  PROVE  ReplaysInv'
<1>1. /\ kept' = kept \ {id} /\ related' = {l \in related : id \notin {l[1], l[2]}}
      /\ UNCHANGED <<talks, trees, known, skill, at, work>> /\ faults < MaxFaults /\ faults' = faults + 1
  BY DEF Delete, Fault
<1>2. \A r \in Replays : ReplayInv(r)'
  BY <1>1 DEF ReplaysInv, ReplayInv, SentInv, CapturedInv, FixInv
<1>3. RelatedInv'
  <2>. SUFFICES ASSUME NEW l \in related'
                PROVE  /\ l = <<l[1], l[2], l[3]>> /\ l[1] \in kept' /\ l[2] \in kept'
                       /\ <<l[2], l[1], l[3]>> \in related'
                       /\ \E q \in Replays : at[q] \in {"compare"} \cup Ended
                                             /\ {work[q].of, work[q].talk} = {l[1], l[2]}
    BY <1>1 DEF RelatedInv
  <2>1. /\ l \in related /\ id \notin {l[1], l[2]}
        /\ l = <<l[1], l[2], l[3]>> /\ l[1] \in kept /\ l[2] \in kept /\ <<l[2], l[1], l[3]>> \in related
    BY <1>1 DEF ReplaysInv, RelatedInv
  <2>2. <<l[2], l[1], l[3]>> \in related'
    <3>. DEFINE k == <<l[2], l[1], l[3]>>
    <3>1. k[1] = l[2] /\ k[2] = l[1] /\ k \in related
      BY <2>1
    <3>. HIDE DEF k
    <3>2. k \in related'
      BY <1>1, <2>1, <3>1
    <3>. QED
      BY <3>2 DEF k
  <2>3. \E q \in Replays : at[q] \in {"compare"} \cup Ended /\ {work[q].of, work[q].talk} = {l[1], l[2]}
    BY <2>1 DEF ReplaysInv, RelatedInv
  <2>. QED
    BY <1>1, <2>1, <2>2, <2>3
<1>. QED
  BY <1>1, <1>2, <1>3 DEF ReplaysInv, ReplayAssumption

LEMMA ReplaysStep == ReplayAssumption /\ ReplaysInv /\ [ReplayNext]_replayVars => ReplaysInv'
<1>. SUFFICES ASSUME ReplayAssumption, ReplaysInv, [ReplayNext]_replayVars PROVE ReplaysInv'
  OBVIOUS
<1>1. ASSUME NEW r \in Replays,
             \/ Resolve(r) \/ ReadSkillFile(r) \/ WriteSkillFile(r) \/ Request(r) \/ Load(r) \/ CreateWorktree(r)
             \/ Run(r) \/ Cancelled(r) \/ CaptureReplay(r) \/ SaveReplay(r) \/ LinkReplay(r) \/ Compare(r)
             \/ RemoveWorktree(r) \/ Die(r)
      PROVE  ReplaysInv'
  BY <1>1, AskedKeeps, ReadKeeps, WriteKeeps, LoadKeeps, CreateKeeps, RunKeeps, CancelKeeps, CaptureKeeps,
     SaveKeeps, LinkKeeps, CompareKeeps, EndKeeps
<1>2. CASE UNCHANGED replayVars
  <2>1. \A r \in Replays : ReplayInv(r)'
    BY <1>2 DEF replayVars, ReplaysInv, ReplayInv, SentInv, CapturedInv, FixInv
  <2>. QED
    BY <1>2, <2>1 DEF replayVars, ReplaysInv, RelatedInv
<1>. QED
  BY <1>1, <1>2, DeleteKeeps DEF ReplayNext

\* Errors weigh as much as tokens and skills together.
LEMMA ErrorsWeigh ==
  ASSUME NEW a, NEW b, a.errors \in Nat, b.errors \in Nat, a.tokens \in Nat, b.tokens \in Nat
  PROVE  /\ computeVerdict(a, b) = "improved" => b.errors <= a.errors
         /\ computeVerdict(a, b) = "degraded" => b.errors >= a.errors
         /\ computeVerdict(a, a) = "same"
<1>. DEFINE score(x, y) ==
              If(y.errors < x.errors, 2) - If(y.errors > x.errors, 2)
              + If((x.tokens - y.tokens) * 10 > x.tokens, 1)
              - If(x.tokens > 0 /\ (y.tokens - x.tokens) * 10 > x.tokens, 1)
              + If(NewSkillsLoaded(x, y) # {}, 1) - If(SkillsLost(x, y) # {}, 1)
            verdict(n) == CASE n > 0 -> "improved" [] n < 0 -> "degraded" [] OTHER -> "same"
<1>1. \A n \in Int : /\ verdict(n) = "improved" => n > 0
                     /\ verdict(n) = "degraded" => n < 0
                     /\ n = 0 => verdict(n) = "same"
  OBVIOUS
<1>2. computeVerdict(a, b) = verdict(score(a, b)) /\ computeVerdict(a, a) = verdict(score(a, a))
  BY DEF computeVerdict
<1>3. score(a, b) \in Int /\ (b.errors > a.errors => score(a, b) <= 0) /\ (b.errors < a.errors => score(a, b) >= 0)
  BY DEF If
<1>4. score(a, a) = 0
  BY DEF If, NewSkillsLoaded, SkillsLost
<1>. HIDE DEF score, verdict
<1>. QED
  BY <1>1, <1>2, <1>3, <1>4

\* All of ReplaysRight but what the improvements make of the file, and the types.
ReplaysTidy ==
  /\ ReplayTypeOK /\ NoTreeLeft /\ CapturesItsOwn /\ LinkedBothWays /\ VerdictFollowsErrors
  /\ ValidatedAfterFix

LEMMA InvMeansTidy ==
  ASSUME ReplayAssumption, ReplaysInv
  PROVE  ReplaysTidy
<1>1. ReplayTypeOK
  BY DEF ReplaysInv, RelatedInv, ReplayTypeOK
<1>2. NoTreeLeft
  BY DEF ReplaysInv, ReplayInv, NoTreeLeft, Working, Captured
<1>3. CapturesItsOwn
  BY DEF ReplaysInv, ReplayInv, CapturedInv, CapturesItsOwn
<1>4. LinkedBothWays
  BY DEF ReplaysInv, RelatedInv, LinkedBothWays
<1>5. VerdictFollowsErrors
  BY ErrorsWeigh DEF VerdictFollowsErrors, ReplayAssumption
<1>6. ValidatedAfterFix
  BY DEF ReplaysInv, ReplayInv, FixInv, ValidatedAfterFix
<1>. QED
  BY <1>1, <1>2, <1>3, <1>4, <1>5, <1>6 DEF ReplaysTidy

\* Whatever is replayed at the same time, killed, cancelled or deleted: a replay takes
\* its own last conversation for its result, is linked with its original from both ends
\* or from none, calls a skill validated only by what was said after it had been
\* written, and leaves no directory behind (internal/replay/engine.go,
\* internal/skillresolver).
THEOREM ReplaysKeepToThemselves == ReplayAssumption /\ ReplaySpec => []ReplaysTidy
<1>. SUFFICES ASSUME ReplayAssumption PROVE ReplaySpec => []ReplaysTidy
  OBVIOUS
<1>1. ReplayInit => ReplaysInv
  BY ReplaysStart
<1>2. ReplaysInv /\ [ReplayNext]_replayVars => ReplaysInv'
  BY ReplaysStep
<1>3. ReplaysInv => ReplaysTidy
  BY InvMeansTidy
<1>. QED
  BY <1>1, <1>2, <1>3, PTL DEF ReplaySpec

-----------------------------------------------------------------------------
(* Sent sessions.  That both have told is about the end of two requests;   *)
(* TellInv says what holds while they are on their way: a request that     *)
(* still counts has its session in the store, and who has tried to link    *)
(* the two counts as having told.  Whoever is second finds both there.     *)

IngestSteps == {"idle", "save", "link"}
Row(from, to, type) == [source |-> from, target |-> to, type |-> type]
Rows == [source : Sent!Sessions, target : Sent!Sessions, type : {"to", "from"}]
Pair == {Parent, Child}
Partner(id) == IF id = Parent THEN Child ELSE Parent
Tale(id) == [by |-> id, pair |-> Pair]

RequestFields == {"of", "left", "tried", "counts"}
IsRequest(t) == t = [f \in RequestFields |-> t[f]]

\* A request has tried to link the session with its partner, and still counts.
HasTried(c, id) ==
  place[c] = "link" /\ todo[c].counts /\ todo[c].of = id /\ Partner(id) \in todo[c].tried

HasTold(id) == Tale(id) \in told \/ \E c \in Sent!Clients : HasTried(c, id)

RequestInv(c) ==
  /\ IsRequest(todo[c])
  /\ place[c] = "idle" => todo[c] = Sent!NoRequest
  /\ place[c] # "idle" => todo[c].of = ClientOf[c]
  /\ place[c] = "save" => todo[c].tried = {}
  /\ place[c] = "link" /\ todo[c].counts => todo[c].of \in here

LinksInv == links \subseteq Rows /\ Sent!LinksArePaired

ToldInv ==
  /\ \A id \in Sent!Sessions : HasTold(id) => id \in here
  /\ HasTold(Parent) /\ HasTold(Child) /\ Pair \notin cut => Row(Parent, Child, "to") \in links

TellInv ==
  /\ here \subseteq Sent!Sessions
  /\ place \in [Sent!Clients -> IngestSteps] /\ todo = [c \in Sent!Clients |-> todo[c]]
  /\ \A c \in Sent!Clients : RequestInv(c)
  /\ LinksInv /\ ToldInv

LEMMA SentFacts ==
  ASSUME Sent!IngestAssumption
  PROVE  /\ Parent \in Sent!Sessions /\ Child \in Sent!Sessions /\ Parent # Child
         /\ "" \notin Sent!Sessions /\ Sent!Sessions = {Parent, Child}
         /\ \A c \in Sent!Clients : ClientOf[c] \in Sent!Sessions
         /\ IsRequest(Sent!NoRequest) /\ Sent!NoRequest.of = ""
BY DEF Sent!IngestAssumption, Sent!Sessions, IsRequest, RequestFields, Sent!NoRequest

LEMMA RequestsStart == Sent!IngestAssumption /\ Sent!IngestInit => TellInv
<1>. SUFFICES ASSUME Sent!IngestAssumption, Sent!IngestInit PROVE TellInv
  OBVIOUS
<1>1. ASSUME NEW c \in Sent!Clients PROVE RequestInv(c)
  BY SentFacts DEF Sent!IngestInit, RequestInv
<1>2. LinksInv
  BY DEF Sent!IngestInit, LinksInv, Sent!LinksArePaired
<1>3. \A id : ~HasTold(id)
  BY DEF Sent!IngestInit, HasTold, HasTried
<1>4. ToldInv
  BY <1>3 DEF ToldInv
<1>. QED
  BY <1>1, <1>2, <1>4 DEF Sent!IngestInit, TellInv, IngestSteps

\* One request goes on: only what it has tried can have been told anew.
LEMMA OneRequest ==
  ASSUME TellInv, NEW c \in Sent!Clients, NEW to \in IngestSteps, NEW t, IsRequest(t),
         place' = [place EXCEPT ![c] = to], todo' = [todo EXCEPT ![c] = t]
  PROVE  /\ place' \in [Sent!Clients -> IngestSteps] /\ todo' = [d \in Sent!Clients |-> todo'[d]]
         /\ place'[c] = to /\ todo'[c] = t
         /\ \A d \in Sent!Clients \ {c} : place'[d] = place[d] /\ todo'[d] = todo[d]
BY DEF TellInv

\* More is in the store and linked, and no more is told: nothing else is due.
LEMMA NoMoreTold ==
  ASSUME ToldInv, here \subseteq here', links \subseteq links', cut \subseteq cut',
         \A id \in Sent!Sessions : HasTold(id)' => HasTold(id),
         Parent \in Sent!Sessions, Child \in Sent!Sessions
  PROVE  ToldInv'
BY DEF ToldInv, Pair

LEMMA SentSaysKeeps == TellInv /\ Sent!Say => TellInv'
BY DEF TellInv, Sent!Say, RequestInv, LinksInv, Sent!LinksArePaired, ToldInv, HasTold, HasTried

LEMMA SentRequestKeeps ==
  ASSUME Sent!IngestAssumption, TellInv, NEW c \in Sent!Clients, Sent!Request(c)
  PROVE  TellInv'
<1>. DEFINE others == IF ClientOf[c] = Parent
                      THEN Sent!Delegations(Sent!Convert(chat), ClientOf[c]) ELSE <<Parent>>
            t == [of |-> ClientOf[c], left |-> others, tried |-> {}, counts |-> TRUE]
<1>1. /\ place[c] = "idle" /\ place' = [place EXCEPT ![c] = "save"] /\ todo' = [todo EXCEPT ![c] = t]
      /\ UNCHANGED <<chat, here, links, told, cut, losses>>
  BY DEF Sent!Request
<1>2. IsRequest(t) /\ t.of = ClientOf[c] /\ t.tried = {}
  BY DEF IsRequest, RequestFields
<1>. HIDE DEF t
<1>3. /\ place' \in [Sent!Clients -> IngestSteps] /\ todo' = [d \in Sent!Clients |-> todo'[d]]
      /\ place'[c] = "save" /\ todo'[c] = t
      /\ \A d \in Sent!Clients \ {c} : place'[d] = place[d] /\ todo'[d] = todo[d]
  BY <1>1, <1>2, OneRequest DEF IngestSteps
<1>4. ASSUME NEW d \in Sent!Clients PROVE RequestInv(d)'
  <2>1. CASE d = c
    BY <1>2, <1>3, <2>1 DEF RequestInv
  <2>2. CASE d # c
    BY <1>1, <1>3, <2>2 DEF TellInv, RequestInv
  <2>. QED
    BY <2>1, <2>2
<1>5. \A id \in Sent!Sessions : HasTold(id)' => HasTold(id)
  BY <1>1, <1>3 DEF HasTold, HasTried
<1>6. LinksInv'
  BY <1>1 DEF TellInv, LinksInv, Sent!LinksArePaired
<1>7. ToldInv'
  BY <1>1, <1>5, SentFacts, NoMoreTold DEF TellInv
<1>. QED
  BY <1>1, <1>3, <1>4, <1>6, <1>7 DEF TellInv

LEMMA SentSaveKeeps ==
  ASSUME Sent!IngestAssumption, TellInv, NEW c \in Sent!Clients, Sent!Save(c)
  PROVE  TellInv'
<1>1. /\ place[c] = "save" /\ place' = [place EXCEPT ![c] = "link"] /\ here' = here \cup {todo[c].of}
      /\ UNCHANGED <<chat, links, todo, told, cut, losses>>
  BY DEF Sent!Save
<1>2. /\ place' \in [Sent!Clients -> IngestSteps] /\ place'[c] = "link"
      /\ \A d \in Sent!Clients \ {c} : place'[d] = place[d]
  BY <1>1 DEF TellInv, IngestSteps
<1>3. RequestInv(c) /\ todo[c].of \in Sent!Sessions /\ todo[c].tried = {}
  BY <1>1, SentFacts DEF TellInv, RequestInv
<1>4. ASSUME NEW d \in Sent!Clients PROVE RequestInv(d)'
  <2>1. CASE d = c
    BY <1>1, <1>2, <1>3, <2>1 DEF RequestInv
  <2>2. CASE d # c
    BY <1>1, <1>2, <2>2 DEF TellInv, RequestInv
  <2>. QED
    BY <2>1, <2>2
<1>5. \A id \in Sent!Sessions : HasTold(id)' => HasTold(id)
  BY <1>1, <1>2, <1>3 DEF HasTold, HasTried
<1>6. LinksInv'
  BY <1>1 DEF TellInv, LinksInv, Sent!LinksArePaired
<1>7. ToldInv'
  BY <1>1, <1>5, SentFacts, NoMoreTold DEF TellInv
<1>. QED
  BY <1>1, <1>2, <1>3, <1>4, <1>6, <1>7 DEF TellInv

\* What linking does to the rows: both are added, or an end is not there.
LEMMA LinkingFacts ==
  ASSUME here \subseteq Sent!Sessions, links \subseteq Rows,
         NEW from, NEW to, NEW type \in {"to", "from"}, links' = Sent!LinkSessions(Row(from, to, type))
  PROVE  /\ links' \subseteq Rows /\ links \subseteq links'
         /\ from \in here /\ to \in here =>
              Row(from, to, type) \in links' /\ Row(to, from, Sent!InverseType(type)) \in links'
         /\ Sent!LinksArePaired /\ UNCHANGED <<here, cut>> => Sent!LinksArePaired'
<1>. DEFINE a == Row(from, to, type)
            b == Row(to, from, Sent!InverseType(type))
<1>1. /\ a.source = from /\ a.target = to /\ a.type = type
      /\ b.source = to /\ b.target = from /\ b.type = Sent!InverseType(type)
      /\ Sent!InverseType(type) \in {"to", "from"} /\ Sent!InverseType(Sent!InverseType(type)) = type
  BY DEF Row, Sent!InverseType
<1>2. links' = IF {from, to} \subseteq here THEN links \cup {a, b} ELSE links
  BY <1>1 DEF Sent!LinkSessions, Row
<1>3. {from, to} \subseteq here => a \in Rows /\ b \in Rows
  BY <1>1 DEF Row, Rows
<1>4. ASSUME Sent!LinksArePaired, UNCHANGED <<here, cut>> PROVE Sent!LinksArePaired'
  <2>. SUFFICES ASSUME NEW l \in links'
                PROVE  /\ {l.source, l.target} \subseteq here
                       /\ \/ {l.source, l.target} \in cut
                          \/ Row(l.target, l.source, Sent!InverseType(l.type)) \in links'
    BY <1>4 DEF Sent!LinksArePaired, Row
  <2>1. CASE l \in links
    BY <1>2, <1>4, <2>1 DEF Sent!LinksArePaired, Row
  <2>2. CASE l \notin links
    <3>1. {from, to} \subseteq here /\ (l = a \/ l = b)
      BY <1>2, <2>2
    <3>2. CASE l = a
      BY <1>1, <1>2, <3>1, <3>2
    <3>3. CASE l = b
      BY <1>1, <1>2, <3>1, <3>3
    <3>. QED
      BY <3>1, <3>2, <3>3
  <2>. QED
    BY <2>1, <2>2
<1>. QED
  BY <1>2, <1>3, <1>4

\* The second of the two to try finds the first one's session there, and its own.
LEMMA SentLinkKeeps ==
  ASSUME Sent!IngestAssumption, TellInv, NEW c \in Sent!Clients, Sent!Link(c)
  PROVE  TellInv'
<1>. DEFINE t    == todo[c]
            to   == Head(t.left)
            type == IF t.of = Parent THEN "to" ELSE "from"
            u    == [t EXCEPT !.left = Tail(t.left), !.tried = t.tried \cup {to}]
<1>1. IsRequest(t) /\ RequestInv(c) /\ place[c] = "link" /\ t.of = ClientOf[c] /\ t.of \in Sent!Sessions
  BY SentFacts DEF Sent!Link, TellInv, RequestInv
<1>2. [t EXCEPT !.left = Tail(@), !.tried = @ \cup {Head(t.left)}] = u
  OBVIOUS
<1>3. /\ todo' = [todo EXCEPT ![c] = u] /\ links' = Sent!LinkSessions(Row(t.of, to, type))
      /\ UNCHANGED <<chat, here, place, told, cut, losses>>
  BY <1>2 DEF Sent!Link, Sent!Wanted, Row
<1>4. u.of = t.of /\ u.tried = t.tried \cup {to} /\ u.counts = t.counts /\ IsRequest(u)
  BY <1>1 DEF IsRequest, RequestFields
<1>. HIDE DEF u
<1>5. /\ todo' = [d \in Sent!Clients |-> todo'[d]] /\ todo'[c] = u
      /\ \A d \in Sent!Clients \ {c} : todo'[d] = todo[d]
  BY <1>3 DEF TellInv
<1>6. /\ links' \subseteq Rows /\ links \subseteq links' /\ Sent!LinksArePaired'
      /\ t.of \in here /\ to \in here =>
           Row(t.of, to, type) \in links' /\ Row(to, t.of, Sent!InverseType(type)) \in links'
  <2>. HIDE DEF to
  <2>. QED
    BY <1>3, LinkingFacts DEF TellInv, LinksInv
<1>7. ASSUME NEW d \in Sent!Clients PROVE RequestInv(d)'
  <2>1. CASE d = c
    BY <1>1, <1>3, <1>4, <1>5, <2>1 DEF RequestInv
  <2>2. CASE d # c
    BY <1>3, <1>5, <2>2 DEF TellInv, RequestInv
  <2>. QED
    BY <2>1, <2>2
<1>8. ASSUME NEW id \in Sent!Sessions, HasTold(id)' PROVE HasTold(id) \/ (t.counts /\ t.of = id /\ to = Partner(id))
  BY <1>1, <1>3, <1>4, <1>5, <1>8 DEF HasTold, HasTried
<1>9. ASSUME NEW id \in Sent!Sessions, HasTold(id)' PROVE id \in here'
  BY <1>1, <1>3, <1>8, <1>9 DEF TellInv, ToldInv, RequestInv
<1>10. ASSUME HasTold(Parent)', HasTold(Child)', Pair \notin cut'
       PROVE  Row(Parent, Child, "to") \in links'
  <2>1. CASE HasTold(Parent) /\ HasTold(Child)
    BY <1>3, <1>6, <1>10, <2>1 DEF TellInv, ToldInv
  <2>2. Parent \in here /\ Child \in here
    BY <1>3, <1>9, <1>10, SentFacts
  <2>3. CASE t.of = Parent /\ to = Partner(Parent)
    BY <1>6, <2>2, <2>3 DEF Partner
  <2>4. CASE t.of = Child /\ to = Partner(Child)
    BY <1>6, <2>2, <2>4, SentFacts DEF Partner, Sent!InverseType
  <2>. QED
    BY <1>8, <1>10, <2>1, <2>3, <2>4, SentFacts
<1>11. ToldInv'
  BY <1>9, <1>10 DEF ToldInv, Pair
<1>. QED
  BY <1>3, <1>5, <1>6, <1>7, <1>11 DEF TellInv, LinksInv

\* A statement that fails leaves the links, and has told nothing.
LEMMA SentMissKeeps ==
  ASSUME Sent!IngestAssumption, TellInv, NEW c \in Sent!Clients, Sent!LinkFails(c)
  PROVE  TellInv'
<1>. DEFINE t == todo[c]
            u == [t EXCEPT !.left = Tail(t.left)]
<1>1. /\ place[c] = "link" /\ todo' = [todo EXCEPT ![c] = u]
      /\ UNCHANGED <<chat, here, links, place, told, cut>>
  BY DEF Sent!LinkFails
<1>2. RequestInv(c) /\ IsRequest(t)
  BY DEF TellInv, RequestInv
<1>3. u.of = t.of /\ u.tried = t.tried /\ u.counts = t.counts /\ IsRequest(u)
  BY <1>2 DEF IsRequest, RequestFields
<1>. HIDE DEF u
<1>4. /\ todo' = [d \in Sent!Clients |-> todo'[d]] /\ todo'[c] = u
      /\ \A d \in Sent!Clients \ {c} : todo'[d] = todo[d]
  BY <1>1 DEF TellInv
<1>5. ASSUME NEW d \in Sent!Clients PROVE RequestInv(d)'
  <2>1. CASE d = c
    BY <1>1, <1>2, <1>3, <1>4, <2>1 DEF RequestInv
  <2>2. CASE d # c
    BY <1>1, <1>4, <2>2 DEF TellInv, RequestInv
  <2>. QED
    BY <2>1, <2>2
<1>6. \A id \in Sent!Sessions : HasTold(id)' => HasTold(id)
  BY <1>1, <1>3, <1>4 DEF HasTold, HasTried
<1>7. LinksInv'
  BY <1>1 DEF TellInv, LinksInv, Sent!LinksArePaired
<1>8. ToldInv'
  BY <1>1, <1>6, SentFacts, NoMoreTold DEF TellInv
<1>. QED
  BY <1>1, <1>4, <1>5, <1>7, <1>8 DEF TellInv

\* What a request has tried is what it tells.
LEMMA SentAnswerKeeps ==
  ASSUME Sent!IngestAssumption, TellInv, NEW c \in Sent!Clients, Sent!Answer(c)
  PROVE  TellInv'
<1>. DEFINE t == todo[c]
<1>1. /\ place[c] = "link" /\ place' = [place EXCEPT ![c] = "idle"]
      /\ todo' = [todo EXCEPT ![c] = Sent!NoRequest]
      /\ UNCHANGED <<chat, here, links, cut, losses>>
      /\ told' = IF t.counts
                 THEN told \cup {[by |-> t.of, pair |-> {t.of, other}] : other \in t.tried} ELSE told
  BY DEF Sent!Answer
<1>2. RequestInv(c) /\ t.of \in Sent!Sessions
  BY <1>1, SentFacts DEF TellInv, RequestInv
<1>3. /\ place' \in [Sent!Clients -> IngestSteps] /\ todo' = [d \in Sent!Clients |-> todo'[d]]
      /\ place'[c] = "idle" /\ todo'[c] = Sent!NoRequest
      /\ \A d \in Sent!Clients \ {c} : place'[d] = place[d] /\ todo'[d] = todo[d]
  BY <1>1, SentFacts, OneRequest DEF IngestSteps
<1>4. ASSUME NEW d \in Sent!Clients PROVE RequestInv(d)'
  <2>1. CASE d = c
    BY <1>3, <2>1, SentFacts DEF RequestInv
  <2>2. CASE d # c
    BY <1>1, <1>3, <2>2 DEF TellInv, RequestInv
  <2>. QED
    BY <2>1, <2>2
<1>5. ASSUME NEW id \in Sent!Sessions, Tale(id) \in told', Tale(id) \notin told
      PROVE  HasTried(c, id)
  <2>1. PICK other \in t.tried : Tale(id) = [by |-> t.of, pair |-> {t.of, other}]
    BY <1>1, <1>5
  <2>2. t.counts
    BY <1>1, <1>5
  <2>3. id = t.of /\ Pair = {t.of, other}
    BY <2>1 DEF Tale
  <2>4. other = Partner(id)
    BY <1>2, <2>3, SentFacts DEF Pair, Partner
  <2>. QED
    BY <1>1, <2>2, <2>3, <2>4 DEF HasTried
<1>6. ASSUME NEW id \in Sent!Sessions, HasTold(id)' PROVE HasTold(id)
  BY <1>1, <1>3, <1>5, <1>6 DEF HasTold, HasTried
<1>7. LinksInv'
  BY <1>1 DEF TellInv, LinksInv, Sent!LinksArePaired
<1>8. told \subseteq told'
  BY <1>1
<1>9. ToldInv'
  BY <1>1, <1>6, SentFacts, NoMoreTold DEF TellInv
<1>. QED
  BY <1>1, <1>3, <1>4, <1>7, <1>9 DEF TellInv

LEMMA SentFailKeeps ==
  ASSUME Sent!IngestAssumption, TellInv, NEW c \in Sent!Clients, Sent!Fail(c)
  PROVE  TellInv'
<1>1. /\ place' = [place EXCEPT ![c] = "idle"] /\ todo' = [todo EXCEPT ![c] = Sent!NoRequest]
      /\ UNCHANGED <<chat, here, links, told, cut>>
  BY DEF Sent!Fail
<1>2. /\ place' \in [Sent!Clients -> IngestSteps] /\ todo' = [d \in Sent!Clients |-> todo'[d]]
      /\ place'[c] = "idle" /\ todo'[c] = Sent!NoRequest
      /\ \A d \in Sent!Clients \ {c} : place'[d] = place[d] /\ todo'[d] = todo[d]
  BY <1>1, SentFacts, OneRequest DEF IngestSteps
<1>3. ASSUME NEW d \in Sent!Clients PROVE RequestInv(d)'
  <2>1. CASE d = c
    BY <1>2, <2>1, SentFacts DEF RequestInv
  <2>2. CASE d # c
    BY <1>1, <1>2, <2>2 DEF TellInv, RequestInv
  <2>. QED
    BY <2>1, <2>2
<1>4. \A id \in Sent!Sessions : HasTold(id)' => HasTold(id)
  BY <1>1, <1>2 DEF HasTold, HasTried
<1>5. LinksInv'
  BY <1>1 DEF TellInv, LinksInv, Sent!LinksArePaired
<1>6. ToldInv'
  BY <1>1, <1>4, SentFacts, NoMoreTold DEF TellInv
<1>. QED
  BY <1>1, <1>2, <1>3, <1>5, <1>6 DEF TellInv

\* After a deletion no request counts, and nothing has been told.
LEMMA SentDeleteKeeps ==
  ASSUME Sent!IngestAssumption, TellInv, NEW id \in here, Sent!Delete(id)
  PROVE  TellInv'
<1>1. /\ here' = here \ {id} /\ links' = {l \in links : id \notin {l.source, l.target}} /\ told' = {}
      /\ UNCHANGED <<chat, place, cut>>
      /\ todo' = [c \in Sent!Clients |->
                   IF place[c] = "idle" THEN todo[c] ELSE [todo[c] EXCEPT !.counts = FALSE]]
  BY DEF Sent!Delete
<1>2. ASSUME NEW c \in Sent!Clients, place[c] # "idle"
      PROVE  /\ IsRequest(todo'[c]) /\ todo'[c].of = todo[c].of /\ todo'[c].tried = todo[c].tried
             /\ todo'[c].counts = FALSE
  BY <1>1, <1>2 DEF TellInv, RequestInv, IsRequest, RequestFields
<1>3. ASSUME NEW c \in Sent!Clients PROVE RequestInv(c)'
  <2>1. CASE place[c] = "idle"
    BY <1>1, <2>1 DEF TellInv, RequestInv
  <2>2. CASE place[c] # "idle"
    BY <1>1, <1>2, <2>2 DEF TellInv, RequestInv
  <2>. QED
    BY <2>1, <2>2
<1>4. ASSUME NEW i \in Sent!Sessions PROVE ~HasTold(i)'
  BY <1>1, <1>2 DEF HasTold, HasTried
<1>5. ToldInv'
  BY <1>4, SentFacts DEF ToldInv
<1>6. Sent!LinksArePaired'
  <2>. SUFFICES ASSUME NEW l \in links'
                PROVE  /\ {l.source, l.target} \subseteq here'
                       /\ \/ {l.source, l.target} \in cut
                          \/ Row(l.target, l.source, Sent!InverseType(l.type)) \in links'
    BY <1>1 DEF Sent!LinksArePaired, Row
  <2>1. /\ l \in links /\ id \notin {l.source, l.target} /\ {l.source, l.target} \subseteq here
        /\ \/ {l.source, l.target} \in cut
           \/ Row(l.target, l.source, Sent!InverseType(l.type)) \in links
    BY <1>1 DEF TellInv, LinksInv, Sent!LinksArePaired, Row
  <2>2. /\ Row(l.target, l.source, Sent!InverseType(l.type)).source = l.target
        /\ Row(l.target, l.source, Sent!InverseType(l.type)).target = l.source
    BY DEF Row
  <2>. QED
    BY <1>1, <2>1, <2>2
<1>. QED
  BY <1>1, <1>3, <1>5, <1>6 DEF TellInv, LinksInv

LEMMA SentCutKeeps ==
  ASSUME Sent!IngestAssumption, TellInv, NEW l \in links, Sent!DeleteSessionLink(l)
  PROVE  TellInv'
<1>1. /\ links' = links \ {l} /\ cut' = cut \cup {{l.source, l.target}}
      /\ UNCHANGED <<chat, here, place, todo, told>>
  BY DEF Sent!DeleteSessionLink
<1>2. \A c \in Sent!Clients : RequestInv(c)'
  BY <1>1 DEF TellInv, RequestInv
<1>3. \A id \in Sent!Sessions : HasTold(id)' <=> HasTold(id)
  BY <1>1 DEF HasTold, HasTried
<1>4. Row(Parent, Child, "to") = l => Pair \in cut'
  BY <1>1 DEF Row, Pair
<1>5. ToldInv'
  BY <1>1, <1>3, <1>4, SentFacts DEF TellInv, ToldInv, Pair
<1>6. Sent!LinksArePaired'
  <2>. SUFFICES ASSUME NEW k \in links'
                PROVE  /\ {k.source, k.target} \subseteq here
                       /\ \/ {k.source, k.target} \in cut'
                          \/ Row(k.target, k.source, Sent!InverseType(k.type)) \in links'
    BY <1>1 DEF Sent!LinksArePaired, Row
  <2>1. /\ {k.source, k.target} \subseteq here
        /\ \/ {k.source, k.target} \in cut
           \/ Row(k.target, k.source, Sent!InverseType(k.type)) \in links
    BY <1>1 DEF TellInv, LinksInv, Sent!LinksArePaired, Row
  <2>2. Row(k.target, k.source, Sent!InverseType(k.type)) = l => {k.source, k.target} = {l.source, l.target}
    BY DEF Row
  <2>. QED
    BY <1>1, <2>1, <2>2
<1>. QED
  BY <1>1, <1>2, <1>5, <1>6 DEF TellInv, LinksInv

LEMMA TellStep == Sent!IngestAssumption /\ TellInv /\ [Sent!IngestNext]_(Sent!ingestVars) => TellInv'
<1>. SUFFICES ASSUME Sent!IngestAssumption, TellInv, [Sent!IngestNext]_(Sent!ingestVars) PROVE TellInv'
  OBVIOUS
<1>1. ASSUME NEW c \in Sent!Clients,
             \/ Sent!Request(c) \/ Sent!Save(c) \/ Sent!Link(c) \/ Sent!LinkFails(c)
             \/ Sent!Answer(c) \/ Sent!Fail(c)
      PROVE  TellInv'
  BY <1>1, SentRequestKeeps, SentSaveKeeps, SentLinkKeeps, SentMissKeeps, SentAnswerKeeps,
     SentFailKeeps
<1>2. CASE UNCHANGED Sent!ingestVars
  BY <1>2 DEF Sent!ingestVars, TellInv, RequestInv, LinksInv, Sent!LinksArePaired, ToldInv, HasTold, HasTried
<1>. QED
  BY <1>1, <1>2, SentSaysKeeps, SentDeleteKeeps, SentCutKeeps DEF Sent!IngestNext

LEMMA TellMeansRight ==
  ASSUME Sent!IngestAssumption, TellInv
  PROVE  Sent!DelegationsRight
<1>1. Sent!LinksArePaired
  BY DEF TellInv, LinksInv
<1>2. Sent!BothTellIsLinked
  BY SentFacts DEF TellInv, ToldInv, HasTold, Tale, Row, Pair, Sent!BothTellIsLinked
<1>. QED
  BY <1>1, <1>2 DEF Sent!DelegationsRight

\* A delegation that the parent's and the child's requests both tell the store, with a
\* statement that does not fail, is linked, from both ends, whatever the two agents say, however many clients send them how often,
\* and however their requests and a deletion fall together
\* (service/session_ingest.go:204-245).
THEOREM DelegationsAreLinked ==
  Sent!IngestAssumption /\ Sent!IngestSpec => []Sent!DelegationsRight
<1>. SUFFICES ASSUME Sent!IngestAssumption PROVE Sent!IngestSpec => []Sent!DelegationsRight
  OBVIOUS
<1>1. Sent!IngestInit => TellInv
  BY RequestsStart
<1>2. TellInv /\ [Sent!IngestNext]_(Sent!ingestVars) => TellInv'
  BY TellStep
<1>3. TellInv => Sent!DelegationsRight
  BY TellMeansRight
<1>. QED
  BY <1>1, <1>2, <1>3, PTL DEF Sent!IngestSpec

-----------------------------------------------------------------------------
(* Opening the store.  Usable is about the end of the migrations and not   *)
(* inductive.  LastingInv says what everybody who is past a statement      *)
(* finds; BucketsInv, for the one table that is dropped on the way, that   *)
(* somebody is going to add what it lacks: of those that are at it, one    *)
(* does not fail at its next statement.                                    *)

BucketTable == "token_usage_buckets"

\* A process that is at the buckets' own migrations and does not fail at its next
\* statement, a column that another process has added after it looked.
Sound(o) ==
  /\ position[o] \in Made + 1 .. Dropped
  /\ ~(Op(o) = "add" /\ What(o) \in schema)

AllBefore(i) == \A o \in Openers : position[o] <= i

HasTable == BucketTable \in schema \/ (\E o \in Openers : position[o] = Dropped + 1) \/ AllBefore(Made)
HasKey == "old key" \in schema => (\E o \in Openers : Sound(o)) \/ AllBefore(Made)
HasColumns == BucketTable \in schema /\ "old key" \notin schema => Created \subseteq schema
HasLast ==
  BucketTable \in schema /\ "old key" \notin schema /\ "cache_tokens" \notin schema =>
    (\E o \in Openers : position[o] \in Dropped + 2 .. Forced) \/ AllBefore(Forced)

\* What the buckets lack somebody is going to add, unless nobody has come so far.
BucketsInv == HasTable /\ HasKey /\ HasColumns /\ HasLast

\* A statement makes something that is never dropped and that no guard may skip.
Lasting(i) ==
  /\ Steps[i][1] \in {"make", "add"}
  /\ Steps[i][2] \notin Part /\ Steps[i][2] \notin Guarded /\ Steps[i][2] # BucketTable

\* Whoever is past such a statement finds what it makes.
LastingInv == \A o \in Openers : \A i \in DOMAIN Steps : i < position[o] /\ Lasting(i) => Steps[i][2] \in schema

MigInv == MigTypeOK /\ BucketsInv /\ LastingInv

-----------------------------------------------------------------------------
(* The list of the statements.                                             *)

LEMMA ListFacts ==
  ASSUME MigrationsAssumption
  PROVE  /\ Len(Steps) \in Nat /\ Len(Steps) > 0 /\ DOMAIN Steps = 1 .. Len(Steps) /\ Ready = Len(Steps) + 1
         /\ \A i \in DOMAIN Steps : Steps[i][3] \in 0 .. 2
         /\ Made \in 1 .. Len(Steps) /\ Dropped \in 1 .. Len(Steps) /\ Forced \in 1 .. Len(Steps)
         /\ 1 < Made /\ Made < Dropped - 1 /\ Dropped + 1 < Forced
<1>1. Steps \in Seq(STRING \X STRING \X (0 .. 2))
  BY DEF MigrationsAssumption
<1>2. Len(Steps) \in Nat /\ DOMAIN Steps = 1 .. Len(Steps)
  BY <1>1
<1>3. \A i \in DOMAIN Steps : Steps[i] \in STRING \X STRING \X (0 .. 2)
  BY <1>1, <1>2
<1>4. \A i \in DOMAIN Steps : Steps[i][3] \in 0 .. 2
  BY <1>3
<1> QED
  BY <1>2, <1>4 DEF MigrationsAssumption, BucketsInPlace, Ready

\* No guard skips a statement that is neither a column nor what a guard covers.
LEMMA NotSkipped ==
  ASSUME MigrationsAssumption, NEW i \in DOMAIN Steps, Steps[i][1] = "look", NEW k \in DOMAIN Steps, i <= k,
         Steps[k][1] \in {"rekey", "force"} \/ k = Made
  PROVE  i + Steps[i][3] + 1 <= k
<1>1. /\ Steps[i][3] \in {1, 2} /\ i + Steps[i][3] \in DOMAIN Steps
      /\ Steps[i + 1][1] = "add"
      /\ Steps[i][3] = 2 => Steps[i + 2][1] = "make" /\ Steps[i + 2][2] \in Guarded
  BY DEF MigrationsAssumption, GuardsInPlace
<1>2. Steps[Made][1] = "make" /\ Steps[Made][2] \notin Guarded
  BY DEF MigrationsAssumption, BucketsInPlace
<1>3. k # i
  BY <1>2
<1>4. k # i + 1
  BY <1>1, <1>2
<1>5. Steps[i][3] = 2 => k # i + 2
  BY <1>1, <1>2
<1> QED
  BY <1>1, <1>3, <1>4, <1>5, ListFacts

\* What comes after a guard, a column or any other statement is no column.
LEMMA NoColumnAfter ==
  ASSUME MigrationsAssumption, NEW i \in DOMAIN Steps, Steps[i][1] # "look", i + 1 \in DOMAIN Steps
  PROVE  Steps[i + 1][1] # "add"
<1>1. (i + 1) - 1 = i
  BY ListFacts
<1> QED
  BY <1>1 DEF MigrationsAssumption, GuardsInPlace

LEMMA NoColumnAfterGuard ==
  ASSUME MigrationsAssumption, NEW i \in DOMAIN Steps, Steps[i][1] = "look", NEW n, n = i + Steps[i][3] + 1,
         n \in DOMAIN Steps
  PROVE  Steps[n][1] # "add"
<1>1. /\ Steps[i][3] \in {1, 2} /\ i + Steps[i][3] \in DOMAIN Steps
      /\ Steps[i + 1][1] = "add"
      /\ Steps[i][3] = 2 => Steps[i + 2][1] = "make"
  BY DEF MigrationsAssumption, GuardsInPlace
<1>2. Steps[i + Steps[i][3]][1] # "look"
  BY <1>1
<1>3. (i + Steps[i][3]) + 1 = n
  OBVIOUS
<1> QED
  BY <1>1, <1>2, <1>3, NoColumnAfter

LEMMA MadeIsTable ==
  ASSUME NEW i \in DOMAIN Steps, Steps[i][1] \in {"make", "add", "force"} PROVE Steps[i][2] \in Tables
BY DEF Tables

-----------------------------------------------------------------------------
(* What a step of one process keeps.                                       *)

\* A step that neither makes nor drops the buckets or their old key.
LEMMA BucketsMove ==
  ASSUME MigrationsAssumption, MigTypeOK, BucketsInv, NEW p \in Openers, NEW j \in 0 .. Ready,
         position' = [position EXCEPT ![p] = j], schema \subseteq schema',
         "old key" \in schema' <=> "old key" \in schema, BucketTable \in schema' <=> BucketTable \in schema,
         position[p] = Dropped + 1 => BucketTable \in schema,
         position[p] <= Made => j <= Made \/ (BucketTable \in schema /\ Sound(p)'),
         \A o \in Openers : "old key" \in schema /\ Sound(o) => Sound(o)' \/ Sound(p)',
         BucketTable \in schema /\ "cache_tokens" \notin schema' /\ position[p] \in Dropped + 2 .. Forced
           => j \in Dropped + 2 .. Forced,
         BucketTable \in schema /\ "cache_tokens" \notin schema' /\ position[p] <= Forced => j <= Forced
  PROVE  BucketsInv'
<1>1. position \in [Openers -> 0 .. Ready]
  BY DEF MigTypeOK
<1>2. position'[p] = j /\ \A o \in Openers : o # p => position'[o] = position[o]
  BY <1>1
<1>3. HasTable'
  BY <1>1, <1>2 DEF BucketsInv, HasTable, AllBefore
<1>4. HasKey'
  BY <1>1, <1>2 DEF BucketsInv, HasKey, AllBefore
<1>5. HasColumns'
  BY DEF BucketsInv, HasColumns
<1>6. HasLast'
  BY <1>1, <1>2 DEF BucketsInv, HasLast, AllBefore
<1> QED
  BY <1>3, <1>4, <1>5, <1>6 DEF BucketsInv

\* A step drops nothing lasting; it makes what it goes past.
NothingGone == \A t \in schema : t \in Part \/ t = BucketTable \/ t = "old key" \/ t \in schema'
MadeOnTheWay(i, j) == \A k \in DOMAIN Steps : i <= k /\ k < j /\ Lasting(k) => Steps[k][2] \in schema'

LEMMA LastingMove ==
  ASSUME MigrationsAssumption, MigTypeOK, LastingInv, NEW p \in Openers, NEW j \in 0 .. Ready,
         position' = [position EXCEPT ![p] = j],
         NothingGone, MadeOnTheWay(position[p], j)
  PROVE  LastingInv'
<1>1. position \in [Openers -> 0 .. Ready]
  BY DEF MigTypeOK
<1>2. position'[p] = j /\ \A o \in Openers : o # p => position'[o] = position[o]
  BY <1>1
<1> SUFFICES ASSUME NEW o \in Openers, NEW i \in DOMAIN Steps, i < position'[o], Lasting(i)
             PROVE  Steps[i][2] \in schema'
  BY DEF LastingInv, Lasting
<1>3. Steps[i][2] # "old key"
  BY MadeIsTable DEF Lasting, MigrationsAssumption, BucketsInPlace
<1>4. i < position[o] => Steps[i][2] \in schema'
  BY <1>3 DEF LastingInv, Lasting, NothingGone
<1>5. o # p => i < position[o]
  BY <1>2
<1>6. i \in Nat /\ Ready \in Nat
  BY ListFacts
<1>7. position[p] \in Nat /\ j \in Nat
  BY <1>1, <1>6
<1>8. i < position[p] \/ position[p] <= i
  BY <1>6, <1>7
<1>9. o = p => i < position[p] \/ (position[p] <= i /\ i < j)
  BY <1>2, <1>8
<1> QED
  BY <1>4, <1>5, <1>9 DEF MadeOnTheWay

-----------------------------------------------------------------------------
(* One lemma for every action.                                             *)

\* Where a statement is, by what it does.
LEMMA PlaceOf ==
  ASSUME MigrationsAssumption, NEW i \in DOMAIN Steps
  PROVE  /\ Steps[i][1] \in {"make", "look", "add"} => i # Dropped - 1 /\ i # Dropped /\ i # Dropped + 1 /\ i # Forced
         /\ Steps[i][1] \in {"make", "add", "force"} => i # Dropped /\ i # Dropped + 1
         /\ Steps[i][1] = "rekey" => i = Dropped - 1
         /\ Steps[i][1] = "drop" => i = Dropped
         /\ Steps[i][1] = "create" => i = Dropped + 1 /\ Steps[i][2] = BucketTable
         /\ Steps[i][1] = "force" => i = Forced /\ Steps[i][2] = "cache_tokens"
         /\ Steps[i][1] # "make" => i # Made
         /\ Steps[i][1] \in {"make", "add", "force"} =>
              /\ Steps[i][2] = BucketTable => i = Made
              /\ Steps[i][2] # "old key" /\ Steps[i][2] \in Tables
         /\ i \in Dropped + 2 .. Forced - 1 => Steps[i][1] = "make" /\ Steps[i][2] \notin Part
<1>1. /\ Steps[i][1] \in {"make", "add", "force"} /\ Steps[i][2] = BucketTable => i = Made
      /\ Steps[i][1] = "rekey" <=> i = Dropped - 1
      /\ Steps[i][1] = "drop" <=> i = Dropped
      /\ Steps[i][1] = "create" <=> i = Dropped + 1
      /\ Steps[i][1] = "force" <=> i = Forced
      /\ i \in Dropped + 2 .. Forced - 1 => Steps[i][1] = "make" /\ Steps[i][2] \notin Part
  BY DEF MigrationsAssumption, BucketsInPlace, BucketTable
<1>2. /\ Steps[Made][1] = "make" /\ Steps[Dropped + 1][2] = BucketTable /\ Steps[Forced][2] = "cache_tokens"
      /\ "old key" \notin Tables
  BY DEF MigrationsAssumption, BucketsInPlace, BucketTable
<1>3. Steps[i][1] \in {"make", "add", "force"} => Steps[i][2] \in Tables
  BY MadeIsTable
<1> QED
  BY <1>1, <1>2, <1>3

\* The place of a process among the statements, in numbers.
LEMMA PositionFacts ==
  ASSUME MigrationsAssumption, MigTypeOK, NEW o \in Openers
  PROVE  /\ position[o] \in Nat /\ position[o] <= Ready /\ Ready \in Nat
         /\ Made \in Nat /\ Dropped \in Nat /\ Forced \in Nat
         /\ 1 < Made /\ Made < Dropped - 1 /\ Dropped + 1 < Forced /\ Forced < Ready
         /\ position[o] \in DOMAIN Steps => position[o] > 0 /\ position[o] < Ready
<1>1. position[o] \in 0 .. Ready
  BY DEF MigTypeOK
<1> QED
  BY <1>1, ListFacts

\* Nothing of what another process is at changes.
LEMMA SoundStays ==
  ASSUME MigTypeOK, NEW p \in Openers, NEW j, position' = [position EXCEPT ![p] = j],
         NEW o \in Openers, o # p, Sound(o), schema' = schema
  PROVE  Sound(o)'
<1>1. position'[o] = position[o]
  BY DEF MigTypeOK
<1> QED
  BY <1>1 DEF Sound, Op, What

LEMMA NewKeeps ==
  ASSUME MigrationsAssumption, MigInv, NEW p \in Openers, New(p) PROVE MigInv'
<1>1. position[p] = 0 /\ position' = [position EXCEPT ![p] = 1] /\ schema' = schema /\ crashed' = crashed
  BY DEF New
<1>2. 1 \in 0 .. Ready
  BY PositionFacts DEF MigInv
<1>3. MigTypeOK'
  BY <1>1, <1>2 DEF MigInv, MigTypeOK
<1>4. ~Sound(p)
  BY <1>1, PositionFacts DEF Sound, MigInv
<1>5. \A o \in Openers : "old key" \in schema /\ Sound(o) => Sound(o)' \/ Sound(p)'
  BY <1>1, <1>4, SoundStays DEF MigInv
<1>6. /\ position[p] # Dropped + 1 /\ 1 <= Made /\ position[p] \notin Dropped + 2 .. Forced /\ 1 <= Forced
  BY <1>1, PositionFacts DEF MigInv
<1>7. BucketsInv'
  BY <1>1, <1>2, <1>5, <1>6, BucketsMove DEF MigInv
<1>8. MadeOnTheWay(position[p], 1)
  BY <1>1, ListFacts DEF MadeOnTheWay
<1>9. LastingInv'
  BY <1>1, <1>2, <1>8, LastingMove DEF MigInv, NothingGone
<1> QED
  BY <1>3, <1>7, <1>9 DEF MigInv

\* A process that gives up, or closes the store, is not the one that has to go on.
MayGoBack(p) ==
  /\ position[p] = Dropped + 1 => BucketTable \in schema
  /\ "old key" \in schema => ~Sound(p)
  /\ BucketTable \in schema => position[p] \notin Dropped + 2 .. Forced

LEMMA BackKeeps ==
  ASSUME MigrationsAssumption, MigInv, NEW p \in Openers, position' = [position EXCEPT ![p] = 0],
         schema' = schema, crashed' = crashed, MayGoBack(p)
  PROVE  MigInv'
<1>2. 0 \in 0 .. Ready /\ 0 <= Made /\ 0 <= Forced
  BY PositionFacts DEF MigInv
<1>3. MigTypeOK'
  BY <1>2 DEF MigInv, MigTypeOK
<1>5. \A o \in Openers : "old key" \in schema /\ Sound(o) => Sound(o)' \/ Sound(p)'
  BY SoundStays DEF MigInv, MayGoBack
<1>7. BucketsInv'
  BY <1>2, <1>5, BucketsMove DEF MigInv, MayGoBack
<1>8. MadeOnTheWay(position[p], 0)
  BY ListFacts, PositionFacts DEF MadeOnTheWay, MigInv
<1>9. LastingInv'
  BY <1>2, <1>8, LastingMove DEF MigInv, NothingGone
<1> QED
  BY <1>3, <1>7, <1>9 DEF MigInv

LEMMA CloseKeeps ==
  ASSUME MigrationsAssumption, MigInv, NEW p \in Openers, Close(p) PROVE MigInv'
<1>1. position[p] = Ready /\ position' = [position EXCEPT ![p] = 0] /\ schema' = schema /\ crashed' = crashed
  BY DEF Close
<1>2. position[p] # Dropped + 1 /\ position[p] \notin Dropped + 2 .. Forced /\ position[p] \notin Made + 1 .. Dropped
  BY <1>1, PositionFacts DEF MigInv
<1> QED
  BY <1>1, <1>2, BackKeeps DEF Sound, MayGoBack

LEMMA LookKeeps ==
  ASSUME MigrationsAssumption, MigInv, NEW p \in Openers, ColumnExists(p) PROVE MigInv'
<1> DEFINE i == position[p]
           j == IF What(p) \in schema THEN i + Steps[i][3] + 1 ELSE i + 1
<1>1. i \in DOMAIN Steps /\ Steps[i][1] = "look" /\ schema' = schema /\ crashed' = crashed
  BY DEF ColumnExists, Op
<1>2. /\ Steps[i][3] \in {1, 2} /\ i + Steps[i][3] \in DOMAIN Steps
      /\ Steps[i + 1][1] = "add" /\ Steps[i + 1][2] = Steps[i][2]
      /\ Steps[i][3] = 2 => Steps[i + 2][2] \in Guarded
  BY <1>1 DEF MigrationsAssumption, GuardsInPlace
<1>3. Steps[i][3] \in {1, 2} /\ i + Steps[i][3] \in DOMAIN Steps /\ i \in DOMAIN Steps
  BY <1>1, <1>2
<1>4. i + (Steps[i][3] + 1) = i + Steps[i][3] + 1 /\ i + 1 \in DOMAIN Steps
  <2>1. Len(Steps) \in Nat /\ DOMAIN Steps = 1 .. Len(Steps)
    BY ListFacts
  <2>2. \A n \in Nat : \A k \in 1 .. n : \A d \in {1, 2} :
          k + d \in 1 .. n => k + (d + 1) = k + d + 1 /\ k + 1 \in 1 .. n
    OBVIOUS
  <2>3. i \in 1 .. Len(Steps) /\ i + Steps[i][3] \in 1 .. Len(Steps)
    BY <1>3, <2>1
  <2> QED
    BY <1>3, <2>1, <2>2, <2>3
<1>5. Ready = Len(Steps) + 1 /\ Len(Steps) \in Nat /\ i \in 1 .. Len(Steps) /\ i + Steps[i][3] \in 1 .. Len(Steps)
  BY <1>3, ListFacts
<1>6. i + 1 \in 0 .. Ready
  BY <1>5
<1>7. i + Steps[i][3] + 1 \in 0 .. Ready
  BY <1>3, <1>5
<1>8. j \in 0 .. Ready
  BY <1>6, <1>7
<1>9. position' = [position EXCEPT ![p] = j]
  BY <1>4 DEF ColumnExists, Advance
<1>10. position'[p] = j
  BY <1>9 DEF MigInv, MigTypeOK
<1>11. MigTypeOK'
  BY <1>1, <1>8, <1>9 DEF MigInv, MigTypeOK
<1>12. i # Dropped - 1 /\ i # Dropped /\ i # Dropped + 1 /\ i # Forced /\ i # Made /\ i \notin Dropped + 2 .. Forced - 1
  BY <1>1, PlaceOf
<1>13. /\ Steps[Dropped - 1][1] = "rekey" /\ Steps[Forced][1] = "force"
       /\ Made \in DOMAIN Steps /\ Forced \in DOMAIN Steps /\ Dropped - 1 \in DOMAIN Steps
  <2>1. Dropped - 1 \in DOMAIN Steps
    BY ListFacts
  <2> QED
    BY <2>1 DEF MigrationsAssumption, BucketsInPlace
<1>14. /\ i <= Made => i + Steps[i][3] + 1 <= Made
       /\ i <= Dropped - 1 => i + Steps[i][3] + 1 <= Dropped - 1
       /\ i <= Forced => i + Steps[i][3] + 1 <= Forced
  BY <1>1, <1>13, NotSkipped
<1>15. /\ i <= Made => j <= Made
       /\ i <= Dropped => j <= Dropped
       /\ i <= Forced => j <= Forced
       /\ i < j
  BY <1>1, <1>2, <1>12, <1>14, PositionFacts DEF MigInv
<1>16. Sound(p) => Sound(p)'
  <2>1. CASE What(p) \in schema
    <3>1. j = i + Steps[i][3] + 1
      BY <2>1
    <3>2. j \in DOMAIN Steps => Steps[j][1] # "add"
      BY <1>1, <3>1, NoColumnAfterGuard
    <3>3. i \in Made + 1 .. Dropped => j \in Made + 1 .. Dropped /\ j \in DOMAIN Steps
      BY <1>15, PositionFacts, ListFacts DEF MigInv
    <3> QED
      BY <1>10, <3>2, <3>3 DEF Sound, Op
  <2>2. CASE What(p) \notin schema
    <3>1. j = i + 1
      BY <2>2
    <3>2. Steps[j][2] \notin schema'
      BY <1>1, <1>2, <2>2, <3>1 DEF What
    <3>3. i \in Made + 1 .. Dropped => j \in Made + 1 .. Dropped
      BY <1>15, <3>1, PositionFacts DEF MigInv
    <3> QED
      BY <1>10, <3>2, <3>3 DEF Sound, What
  <2> QED
    BY <2>1, <2>2
<1> HIDE DEF j
<1>17. \A o \in Openers : "old key" \in schema /\ Sound(o) => Sound(o)' \/ Sound(p)'
  BY <1>1, <1>9, <1>16, SoundStays DEF MigInv
<1>18. i \notin Dropped + 2 .. Forced
  BY <1>12, PositionFacts DEF MigInv
<1>19. BucketsInv'
  BY <1>1, <1>8, <1>9, <1>12, <1>15, <1>17, <1>18, BucketsMove DEF MigInv
<1>20. MadeOnTheWay(i, j)
  <2> SUFFICES ASSUME NEW k \in DOMAIN Steps, i <= k, k < j, Lasting(k) PROVE Steps[k][2] \in schema'
    BY DEF MadeOnTheWay
  <2>1. k # i
    BY <1>1 DEF Lasting
  <2>2. k = i + 1 \/ (Steps[i][3] = 2 /\ k = i + 2)
    BY <1>1, <1>2, <2>1, ListFacts, PositionFacts DEF MigInv, j
  <2>3. ~(Steps[i][3] = 2 /\ k = i + 2)
    BY <1>2 DEF Lasting
  <2>4. What(p) \in schema
    BY <2>1, <2>2, <2>3, ListFacts DEF j
  <2> QED
    BY <1>1, <1>2, <2>2, <2>3, <2>4 DEF What
<1>21. LastingInv'
  BY <1>1, <1>8, <1>9, <1>20, LastingMove DEF MigInv, NothingGone
<1> QED
  BY <1>11, <1>19, <1>21 DEF MigInv

\* A process makes or adds something and goes to the next statement.
Making(p) ==
  /\ position[p] \in DOMAIN Steps /\ Op(p) \in {"make", "add", "force"}
  /\ position' = [position EXCEPT ![p] = position[p] + 1]

MakesOnly(p) == schema' \subseteq schema \cup {What(p), "old key"}

\* Who makes or adds something goes to the next statement; from the buckets' own
\* migrations to one of them that it does not fail at.
LEMMA NextStatement ==
  ASSUME MigrationsAssumption, MigInv, NEW p \in Openers, Making(p)
  PROVE  /\ position[p] + 1 \in 0 .. Ready
         /\ Op(p) # "force" => position[p] # Dropped + 1 /\ position[p] # Dropped /\ position[p] # Forced
         /\ position[p] \in Made .. Dropped => Sound(p)'
         /\ position[p] <= Made => position[p] + 1 <= Made \/ (Op(p) = "make" /\ position[p] = Made)
         /\ Op(p) # "force" /\ position[p] \in Dropped + 2 .. Forced => position[p] + 1 \in Dropped + 2 .. Forced
         /\ Op(p) # "force" /\ position[p] <= Forced => position[p] + 1 <= Forced
<1> DEFINE i == position[p]
<1>0. i \in DOMAIN Steps /\ Steps[i][1] \in {"make", "add", "force"}
  BY DEF Making, Op
<1>1. /\ i \in Nat /\ i <= Ready /\ Ready \in Nat /\ i < Ready
      /\ Made \in Nat /\ Dropped \in Nat /\ Forced \in Nat
      /\ 1 < Made /\ Made < Dropped - 1 /\ Dropped + 1 < Forced /\ Forced < Ready
  BY <1>0, PositionFacts DEF MigInv
<1>2. Op(p) # "force" => i # Dropped + 1 /\ i # Dropped /\ i # Forced
  BY <1>0, PlaceOf DEF Op
<1>3. Op(p) # "make" => i # Made
  BY <1>0, PlaceOf DEF Op
<1>4. i \in Made .. Dropped => i + 1 \in Made + 1 .. Dropped /\ i + 1 \in DOMAIN Steps
  <2>1. i # Dropped
    BY <1>0, PlaceOf
  <2> QED
    BY <1>0, <1>1, <2>1, ListFacts
<1>5. i \in Made .. Dropped => Steps[i + 1][1] # "add"
  BY <1>0, <1>4, NoColumnAfter
<1>6. position'[p] = i + 1
  BY DEF MigInv, MigTypeOK, Making
<1>7. i \in Made .. Dropped => Sound(p)'
  BY <1>4, <1>5, <1>6 DEF Sound, Op
<1> QED
  BY <1>0, <1>1, <1>2, <1>3, <1>7 DEF Op

\* Nobody else fails because of what this process has just made, but one that was to add
\* the same column.
LEMMA OthersSound ==
  ASSUME MigrationsAssumption, MigInv, NEW p \in Openers, Making(p),
         MakesOnly(p), NEW o \in Openers, Sound(o)
  PROVE  Sound(o)' \/ Sound(p)'
<1>1. position[o] \in Made + 1 .. Dropped /\ position[o] \in DOMAIN Steps
  <2>1. position[o] \in Made + 1 .. Dropped
    BY DEF Sound
  <2> QED
    BY <2>1, ListFacts
<1>2. CASE position[o] = position[p]
  <2>1. position[p] \in Made .. Dropped
    BY <1>1, <1>2, ListFacts
  <2> QED
    BY <2>1, NextStatement
<1>3. CASE position[o] # position[p]
  <2>1. position'[o] = position[o]
    BY <1>3 DEF MigInv, MigTypeOK, Making
  <2>2. Op(o) = "add" => What(o) # What(p)
    BY <1>1, <1>3 DEF MigrationsAssumption, GuardsInPlace, Op, What, Making
  <2>3. Op(o) = "add" => What(o) # "old key"
    BY <1>1, PlaceOf DEF Op, What
  <2> QED
    BY <1>1, <2>1, <2>2, <2>3 DEF Sound, Op, What, MakesOnly
<1> QED
  BY <1>2, <1>3

\* What is made or added, but neither the buckets nor the old key of theirs.
LEMMA MakingKeeps ==
  ASSUME MigrationsAssumption, MigInv, NEW p \in Openers, Making(p), crashed' = crashed,
         schema \subseteq schema', schema' \subseteq schema \cup {What(p)}, ~Lost(p) \/ schema' = schema,
         What(p) \in schema' \/ (Op(p) = "force" /\ BucketTable \notin schema),
         What(p) = BucketTable => BucketTable \in schema
  PROVE  MigInv'
<1>1. position[p] + 1 \in 0 .. Ready
  BY NextStatement
<1>2. What(p) \in Tables /\ What(p) # "old key"
  BY PlaceOf DEF Op, What, Making
<1>3. ("old key" \in schema' <=> "old key" \in schema) /\ (BucketTable \in schema' <=> BucketTable \in schema)
  BY <1>2
<1>4. MigTypeOK'
  <2>1. schema' \subseteq Tables \cup {"old key"} /\ position' \in [Openers -> 0 .. Ready] /\ crashed' \in 0 .. Crashes
    BY <1>1, <1>2 DEF MigInv, MigTypeOK, Making
  <2>2. What(p) \in Part => BucketTable \in schema' \/ schema' = schema
    BY <1>3 DEF Lost, BucketTable
  <2>3. schema' \cap (Part \cup {"old key"}) # {} => "token_usage_buckets" \in schema'
    BY <1>2, <1>3, <2>2 DEF MigInv, MigTypeOK, BucketTable
  <2> QED
    BY <2>1, <2>3 DEF MigTypeOK
<1>5. Op(p) = "force" => position[p] = Forced /\ What(p) = "cache_tokens"
  BY PlaceOf DEF Op, What, Making
<1>6. position[p] = Made => BucketTable \in schema /\ position[p] \in Made .. Dropped
  <2>1. position[p] = Made => What(p) = BucketTable
    BY DEF MigrationsAssumption, BucketsInPlace, What, BucketTable
  <2>2. position[p] = Made => position[p] \in Made .. Dropped
    BY PositionFacts DEF MigInv
  <2> QED
    BY <2>1, <2>2
<1>7. position[p] <= Made => position[p] + 1 <= Made \/ (BucketTable \in schema /\ Sound(p)')
  BY <1>6, NextStatement
<1>8. \A o \in Openers : "old key" \in schema /\ Sound(o) => Sound(o)' \/ Sound(p)'
  BY OthersSound DEF MakesOnly
<1>9. position[p] # Dropped + 1
  BY PlaceOf DEF Op, Making
<1>10. BucketTable \in schema /\ "cache_tokens" \notin schema' => Op(p) # "force"
  BY <1>5
<1>11. BucketsInv'
  BY <1>1, <1>3, <1>7, <1>8, <1>9, <1>10, NextStatement, BucketsMove DEF MigInv, Making
<1>12. MadeOnTheWay(position[p], position[p] + 1)
  <2> SUFFICES ASSUME NEW k \in DOMAIN Steps, position[p] <= k, k < position[p] + 1, Lasting(k)
               PROVE  Steps[k][2] \in schema'
    BY DEF MadeOnTheWay
  <2>1. k = position[p]
    BY ListFacts, PositionFacts DEF MigInv
  <2>2. Op(p) # "force"
    BY <2>1 DEF Lasting, Op
  <2> QED
    BY <2>1, <2>2 DEF What
<1>13. LastingInv'
  BY <1>1, <1>12, LastingMove DEF MigInv, Making, NothingGone
<1> QED
  BY <1>4, <1>11, <1>13 DEF MigInv

\* A process whose statement fails is back before the store is opened.
LEMMA FailureKeeps ==
  ASSUME MigrationsAssumption, MigInv, NEW p \in Openers, position[p] \in DOMAIN Steps, Error(p), crashed' = crashed,
         \/ Op(p) \in {"make", "add"} /\ BucketTable \notin schema
         \/ Op(p) = "add" /\ What(p) \in schema
         \/ Op(p) = "create" /\ BucketTable \in schema
  PROVE  MigInv'
<1>1. position' = [position EXCEPT ![p] = 0] /\ schema' = schema
  BY DEF Error
<1>2. "old key" \in schema => BucketTable \in schema
  BY DEF MigInv, MigTypeOK, BucketTable
<1>3. Op(p) \in {"make", "add"} => position[p] # Dropped + 1
  BY PlaceOf DEF Op
<1>4. Op(p) = "create" => position[p] = Dropped + 1
  BY PlaceOf DEF Op
<1>5. Op(p) = "add" => position[p] \notin Dropped + 2 .. Forced
  <2>1. Op(p) = "add" => position[p] # Forced /\ position[p] \notin Dropped + 2 .. Forced - 1
    BY PlaceOf DEF Op
  <2>2. position[p] \in Dropped + 2 .. Forced => position[p] = Forced \/ position[p] \in Dropped + 2 .. Forced - 1
    BY ListFacts
  <2> QED
    BY <2>1, <2>2
<1>6. position[p] = Dropped + 1 => position[p] \notin Dropped + 2 .. Forced /\ position[p] \notin Made + 1 .. Dropped
  BY ListFacts
<1>7. MayGoBack(p)
  <2>1. CASE Op(p) \in {"make", "add"} /\ BucketTable \notin schema
    BY <1>2, <1>3, <2>1 DEF MayGoBack
  <2>2. CASE Op(p) = "add" /\ What(p) \in schema
    BY <1>3, <1>5, <2>2 DEF MayGoBack, Sound
  <2>3. CASE Op(p) = "create" /\ BucketTable \in schema
    BY <1>4, <1>6, <2>3 DEF MayGoBack, Sound
  <2> QED
    BY <2>1, <2>2, <2>3
<1> QED
  BY <1>1, <1>7, BackKeeps

\* The buckets are there again, with their old key: their maker will do something about it.
FirstTable == schema' = schema \cup {BucketTable, "old key"}

LEMMA FirstMade ==
  ASSUME MigrationsAssumption, MigInv, NEW p \in Openers, Making(p), crashed' = crashed,
         BucketTable \notin schema, position[p] = Made, FirstTable
  PROVE  MigInv'
<1>1. position[p] + 1 \in 0 .. Ready /\ position[p] \in Made .. Dropped
  BY NextStatement, PositionFacts DEF MigInv
<1>2. Sound(p)'
  BY <1>1, NextStatement
<1>3. BucketsInv'
  BY <1>2 DEF BucketsInv, HasTable, HasKey, HasColumns, HasLast, FirstTable
<1>4. MigTypeOK'
  BY <1>1 DEF MigInv, MigTypeOK, Making, FirstTable, MigrationsAssumption, BucketsInPlace, BucketTable
<1>5. MadeOnTheWay(position[p], position[p] + 1)
  <2> SUFFICES ASSUME NEW k \in DOMAIN Steps, position[p] <= k, k < position[p] + 1, Lasting(k) PROVE FALSE
    BY DEF MadeOnTheWay
  <2>1. k = Made
    BY ListFacts
  <2> QED
    BY <2>1 DEF Lasting, MigrationsAssumption, BucketsInPlace, BucketTable
<1>6. LastingInv'
  BY <1>1, <1>5, LastingMove DEF MigInv, NothingGone, Making, FirstTable
<1> QED
  BY <1>3, <1>4, <1>6 DEF MigInv

LEMMA MakeKeeps ==
  ASSUME MigrationsAssumption, MigInv, NEW p \in Openers, MakeIfMissing(p) PROVE MigInv'
<1>1. position[p] \in DOMAIN Steps /\ Op(p) = "make" /\ crashed' = crashed
  BY DEF MakeIfMissing
<1>2. CASE Lost(p)
  BY <1>1, <1>2, FailureKeeps DEF MakeIfMissing, Lost, BucketTable
<1>3. CASE ~Lost(p)
  <2>1. /\ schema' = schema \cup {What(p)} \cup
                       (IF What(p) = BucketTable /\ What(p) \notin schema THEN {"old key"} ELSE {})
        /\ Making(p)
    BY <1>1, <1>3 DEF MakeIfMissing, Making, Advance, BucketTable
  <2>2. CASE What(p) = BucketTable /\ BucketTable \notin schema
    <3>1. position[p] = Made
      BY <1>1, <2>2, PlaceOf DEF Op, What
    <3>2. schema' = schema \cup {BucketTable, "old key"}
      BY <2>1, <2>2
    <3> QED
      BY <1>1, <2>1, <2>2, <3>1, <3>2, FirstMade DEF FirstTable
  <2>3. CASE ~(What(p) = BucketTable /\ BucketTable \notin schema)
    <3>1. schema' = schema \cup {What(p)}
      BY <2>1, <2>3
    <3> QED
      BY <1>1, <1>3, <2>1, <2>3, <3>1, MakingKeeps
  <2> QED
    BY <2>2, <2>3
<1> QED
  BY <1>2, <1>3

LEMMA AddKeeps ==
  ASSUME MigrationsAssumption, MigInv, NEW p \in Openers, AddColumn(p) PROVE MigInv'
<1>1. position[p] \in DOMAIN Steps /\ Op(p) \in {"add", "force"} /\ crashed' = crashed
  BY DEF AddColumn
<1>2. What(p) = BucketTable => position[p] = Made /\ Op(p) = "make"
  BY <1>1, PlaceOf DEF Op, What, MigrationsAssumption, BucketsInPlace
<1>3. CASE ~Lost(p) /\ What(p) \notin schema
  <2>1. schema' = schema \cup {What(p)} /\ Making(p)
    BY <1>1, <1>3 DEF AddColumn, Advance, Making
  <2> QED
    BY <1>1, <1>2, <1>3, <2>1, MakingKeeps
<1>4. CASE (Lost(p) \/ What(p) \in schema) /\ Op(p) = "force"
  <2>1. schema' = schema /\ Making(p)
    BY <1>1, <1>4 DEF AddColumn, Advance, Making
  <2>2. What(p) \in schema' \/ BucketTable \notin schema
    BY <1>4, <2>1 DEF Lost, BucketTable
  <2> QED
    BY <1>1, <1>2, <1>4, <2>1, <2>2, MakingKeeps
<1>5. CASE (Lost(p) \/ What(p) \in schema) /\ Op(p) = "add"
  <2>1. Error(p)
    BY <1>5 DEF AddColumn
  <2> QED
    BY <1>1, <1>5, <2>1, FailureKeeps DEF Lost, BucketTable
<1> QED
  BY <1>1, <1>3, <1>4, <1>5

LEMMA RekeyKeeps ==
  ASSUME MigrationsAssumption, MigInv, NEW p \in Openers, HasBadPK(p) PROVE MigInv'
<1> DEFINE j == IF "old key" \in schema THEN Dropped ELSE Dropped + 2
<1>1. position[p] \in DOMAIN Steps /\ Steps[position[p]][1] = "rekey" /\ schema' = schema /\ crashed' = crashed
  BY DEF HasBadPK, Op
<1>2. position[p] = Dropped - 1 /\ Steps[position[p]][3] = 2
  BY <1>1, PlaceOf DEF MigrationsAssumption, BucketsInPlace
<1>3. (Dropped - 1) + 1 = Dropped /\ (Dropped - 1) + (2 + 1) = Dropped + 2
      /\ Dropped \in 0 .. Ready /\ Dropped + 2 \in 0 .. Ready
  BY ListFacts
<1>4. position' = [position EXCEPT ![p] = j] /\ j \in 0 .. Ready
  <2>1. CASE "old key" \in schema
    BY <1>2, <1>3, <2>1 DEF HasBadPK, Advance
  <2>2. CASE "old key" \notin schema
    BY <1>2, <1>3, <2>2 DEF HasBadPK, Advance
  <2> QED
    BY <2>1, <2>2
<1>5. position'[p] = j
  BY <1>4 DEF MigInv, MigTypeOK
<1>6. Steps[Dropped][1] = "drop" /\ Steps[Dropped + 1][1] = "create"
  <2>1. Dropped \in DOMAIN Steps /\ Dropped + 1 \in DOMAIN Steps
    BY ListFacts
  <2> QED
    BY <2>1 DEF MigrationsAssumption, BucketsInPlace
<1>7. "old key" \in schema => Sound(p)'
  <2>1. Dropped \in Made + 1 .. Dropped
    BY ListFacts
  <2> QED
    BY <1>5, <1>6, <2>1 DEF Sound, Op
<1>8. MigTypeOK'
  BY <1>1, <1>4 DEF MigInv, MigTypeOK
<1>9. /\ position[p] # Dropped + 1 /\ ~(position[p] <= Made) /\ position[p] \notin Dropped + 2 .. Forced
      /\ Dropped <= Forced /\ Dropped + 2 <= Forced
  BY <1>2, ListFacts
<1>10. j <= Forced
  BY <1>9
<1>11. \A o \in Openers : "old key" \in schema /\ Sound(o) => Sound(o)' \/ Sound(p)'
  BY <1>7
<1>12. MadeOnTheWay(position[p], j)
  <2> SUFFICES ASSUME NEW k \in DOMAIN Steps, position[p] <= k, k < j, Lasting(k) PROVE FALSE
    BY DEF MadeOnTheWay
  <2>0. j = Dropped \/ j = Dropped + 2
    OBVIOUS
  <2> HIDE DEF j
  <2>1. j <= Dropped + 2 /\ j \in Int
    BY <2>0, ListFacts
  <2>2. k \in Int /\ Dropped \in Int /\ Dropped - 1 <= k
    BY <1>2, ListFacts
  <2>3. k = Dropped - 1 \/ k = Dropped \/ k = Dropped + 1
    BY <2>1, <2>2
  <2> QED
    BY <1>1, <1>2, <1>6, <2>3 DEF Lasting
<1> HIDE DEF j
<1>13. BucketsInv'
  BY <1>1, <1>4, <1>9, <1>10, <1>11, BucketsMove DEF MigInv
<1>14. LastingInv'
  BY <1>1, <1>4, <1>12, LastingMove DEF MigInv, NothingGone
<1> QED
  BY <1>8, <1>13, <1>14 DEF MigInv

LEMMA DropKeeps ==
  ASSUME MigrationsAssumption, MigInv, NEW p \in Openers, DropTable(p) PROVE MigInv'
<1>1. /\ position[p] \in DOMAIN Steps /\ Steps[position[p]][1] = "drop" /\ crashed' = crashed
      /\ schema' = schema \ (Part \cup {BucketTable, "old key"})
      /\ position' = [position EXCEPT ![p] = position[p] + 1]
  BY DEF DropTable, Op, Advance, BucketTable
<1>2. position[p] = Dropped
  BY <1>1, PlaceOf
<1>3. position[p] + 1 \in 0 .. Ready
  BY <1>2, ListFacts
<1>4. position'[p] = Dropped + 1
  BY <1>1, <1>2 DEF MigInv, MigTypeOK
<1>5. MigTypeOK'
  BY <1>1, <1>3 DEF MigInv, MigTypeOK, BucketTable
<1>6. BucketsInv'
  BY <1>1, <1>4 DEF BucketsInv, HasTable, HasKey, HasColumns, HasLast
<1>7. MadeOnTheWay(position[p], position[p] + 1)
  <2> SUFFICES ASSUME NEW k \in DOMAIN Steps, position[p] <= k, k < position[p] + 1, Lasting(k) PROVE FALSE
    BY DEF MadeOnTheWay
  <2>1. k = position[p]
    BY <1>2, ListFacts
  <2> QED
    BY <1>1, <2>1 DEF Lasting
<1>8. LastingInv'
  BY <1>1, <1>3, <1>7, LastingMove DEF MigInv, NothingGone
<1> QED
  BY <1>5, <1>6, <1>8 DEF MigInv

LEMMA RecreateKeeps ==
  ASSUME MigrationsAssumption, MigInv, NEW p \in Openers, CreateTable(p) PROVE MigInv'
<1>1. position[p] \in DOMAIN Steps /\ Op(p) = "create" /\ crashed' = crashed
  BY DEF CreateTable
<1>2. position[p] = Dropped + 1 /\ What(p) = BucketTable
  BY <1>1, PlaceOf DEF Op, What
<1>3. CASE BucketTable \in schema
  BY <1>1, <1>2, <1>3, FailureKeeps DEF CreateTable
<1>4. CASE BucketTable \notin schema
  <2>1. schema' = schema \cup Created \cup {BucketTable} /\ position' = [position EXCEPT ![p] = position[p] + 1]
    BY <1>2, <1>4 DEF CreateTable, Advance
  <2>2. position[p] + 1 \in 0 .. Ready /\ position[p] + 1 \in Dropped + 2 .. Forced
    BY <1>2, ListFacts
  <2>3. position'[p] = position[p] + 1
    BY <2>1 DEF MigInv, MigTypeOK
  <2>4. "old key" \notin schema'
    BY <1>4, <2>1 DEF MigInv, MigTypeOK, BucketTable, Created
  <2>5. MigTypeOK'
    BY <1>1, <2>1, <2>2 DEF MigInv, MigTypeOK, BucketTable, MigrationsAssumption, BucketsInPlace
  <2>6. BucketsInv'
    BY <2>1, <2>2, <2>3, <2>4 DEF BucketsInv, HasTable, HasKey, HasColumns, HasLast
  <2>7. MadeOnTheWay(position[p], position[p] + 1)
    <3> SUFFICES ASSUME NEW k \in DOMAIN Steps, position[p] <= k, k < position[p] + 1, Lasting(k) PROVE FALSE
      BY DEF MadeOnTheWay
    <3>1. k = position[p]
      BY <1>2, ListFacts
    <3> QED
      BY <1>1, <3>1 DEF Lasting, Op
  <2>8. LastingInv'
    BY <2>1, <2>2, <2>7, LastingMove DEF MigInv, NothingGone
  <2> QED
    BY <2>5, <2>6, <2>8 DEF MigInv
<1> QED
  BY <1>3, <1>4

-----------------------------------------------------------------------------
(* A process that dies between the drop and the create leaves nothing for  *)
(* those that have the store open: nobody dies, or one opens at a time.    *)

OneAtATime == Crashes = 0 \/ \A a, b \in Openers : a = b

LEMMA CrashKeeps ==
  ASSUME MigrationsAssumption, OneAtATime, MigInv, NEW p \in Openers, Crash(p) PROVE MigInv'
<1>1. position' = [position EXCEPT ![p] = 0] /\ crashed' = crashed + 1 /\ schema' = schema /\ crashed < Crashes
  BY DEF Crash
<1>2. crashed \in 0 .. Crashes /\ Crashes \in Nat
  BY DEF MigInv, MigTypeOK, MigrationsAssumption
<1>3. Crashes # 0 /\ crashed' \in 0 .. Crashes
  BY <1>1, <1>2
<1>4. \A o \in Openers : o = p
  BY <1>3 DEF OneAtATime
<1>5. 0 \in 0 .. Ready /\ 0 <= Made /\ 0 <= Forced
  BY PositionFacts DEF MigInv
<1>6. MigTypeOK'
  BY <1>1, <1>3, <1>5 DEF MigInv, MigTypeOK
<1>7. \A o \in Openers : position'[o] = 0
  BY <1>1, <1>4 DEF MigInv, MigTypeOK
<1>8. AllBefore(Made)' /\ AllBefore(Forced)'
  BY <1>5, <1>7 DEF AllBefore
<1>9. BucketsInv'
  BY <1>1, <1>8 DEF MigInv, BucketsInv, HasTable, HasKey, HasColumns, HasLast
<1>10. MadeOnTheWay(position[p], 0)
  BY ListFacts, PositionFacts DEF MadeOnTheWay, MigInv
<1>11. LastingInv'
  BY <1>1, <1>5, <1>10, LastingMove DEF MigInv, NothingGone
<1> QED
  BY <1>6, <1>9, <1>11 DEF MigInv

LEMMA MigInvInit ==
  ASSUME MigrationsAssumption, MigInit PROVE MigInv
<1>1. 0 \in 0 .. Ready /\ 0 <= Made /\ 0 \in 0 .. Crashes
  BY ListFacts DEF MigrationsAssumption
<1>2. MigTypeOK
  BY <1>1 DEF MigInit, MigTypeOK
<1>3. BucketsInv
  BY <1>1 DEF MigInit, BucketsInv, HasTable, HasKey, HasColumns, HasLast, AllBefore
<1>4. \A o \in Openers : position[o] = 0
  BY DEF MigInit
<1>5. LastingInv
  BY <1>4, ListFacts DEF LastingInv
<1> QED
  BY <1>2, <1>3, <1>5 DEF MigInv

LEMMA MigStep ==
  ASSUME MigrationsAssumption, OneAtATime, MigInv, [MigNext]_migVars PROVE MigInv'
<1>1. CASE UNCHANGED migVars
  <2>1. schema' = schema /\ position' = position /\ crashed' = crashed
    BY <1>1 DEF migVars
  <2> QED
    BY <2>1 DEF MigInv, MigTypeOK, BucketsInv, LastingInv, HasTable, HasKey, HasColumns, HasLast, AllBefore,
               Sound, Op, What, Lasting
<1>2. CASE MigNext
  <2> PICK o \in Openers : New(o) \/ Close(o) \/ Crash(o) \/ RunMigrations(o)
    BY <1>2 DEF MigNext
  <2>1. CASE RunMigrations(o)
    BY <2>1, MakeKeeps, LookKeeps, AddKeeps, RekeyKeeps, DropKeeps, RecreateKeeps DEF RunMigrations
  <2> QED
    BY <2>1, NewKeeps, CloseKeeps, CrashKeeps
<1> QED
  BY <1>1, <1>2

\* Whoever has opened the store is past all the statements, and nobody else is at one.
LEMMA OpenIsUsable ==
  ASSUME MigrationsAssumption, MigInv PROVE Usable
<1> SUFFICES ASSUME \A o \in Openers : position[o] \in {0, Ready}, NEW a \in Openers, position[a] = Ready
             PROVE  Tables \ (Guarded \cup {"index key"}) \subseteq schema /\ "old key" \notin schema
  BY DEF Usable
<1>1. Ready > Forced /\ Ready > Made
  BY ListFacts
<1>2. ~AllBefore(Made) /\ ~AllBefore(Forced)
  BY <1>1, ListFacts DEF AllBefore
<1>3. \A o \in Openers : /\ position[o] \notin Made + 1 .. Dropped /\ position[o] # Dropped + 1
                         /\ position[o] \notin Dropped + 2 .. Forced
  BY ListFacts
<1>4. BucketTable \in schema /\ "old key" \notin schema
  BY <1>2, <1>3 DEF MigInv, BucketsInv, HasTable, HasKey, Sound
<1>5. Created \subseteq schema /\ "cache_tokens" \in schema
  BY <1>2, <1>3, <1>4 DEF MigInv, BucketsInv, HasColumns, HasLast
<1>6. ASSUME NEW t \in Tables, t \notin Guarded, t # "index key" PROVE t \in schema
  <2>1. PICK i \in DOMAIN Steps : Steps[i][1] \in {"make", "add", "force"} /\ t = Steps[i][2]
    BY DEF Tables
  <2>2. CASE t \in Part \/ t = BucketTable
    BY <1>4, <1>5, <1>6, <2>2 DEF Part, Created
  <2>3. CASE t \notin Part /\ t # BucketTable
    <3>1. Steps[i][1] # "force"
      BY <2>1, <2>3, PlaceOf DEF Part
    <3>2. Lasting(i)
      BY <1>6, <2>1, <2>3, <3>1 DEF Lasting
    <3>3. i < position[a]
      BY ListFacts
    <3> QED
      BY <2>1, <3>2, <3>3 DEF MigInv, LastingInv
  <2> QED
    BY <2>2, <2>3
<1> QED
  BY <1>4, <1>6

\* For any number of processes that open the database at the same time and do not die,
\* and for one at a time that dies as often as it likes: when nobody is migrating, a store
\* that is open has every table and column, but what a guard covers.
THEOREM OpenedIsUsable ==
  ASSUME MigrationsAssumption, OneAtATime
  PROVE  MigSpec => [](MigTypeOK /\ Usable)
<1>1. MigInit => MigInv
  BY MigInvInit
<1>2. MigInv /\ [MigNext]_migVars => MigInv'
  BY MigStep
<1>3. MigInv => MigTypeOK /\ Usable
  BY OpenIsUsable DEF MigInv
<1> QED
  BY <1>1, <1>2, <1>3, PTL DEF MigSpec
=============================================================================
