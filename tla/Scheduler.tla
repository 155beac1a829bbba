------------------------------ MODULE Scheduler ------------------------------
(***************************************************************************)
(* The task scheduler of `aisync serve`: the cron goroutines and the       *)
(* warm-up goroutine that execute runTask, the results they record under   *)
(* the scheduler's mutex, and Stop.  robfig/cron starts a goroutine for    *)
(* every due entry, whether or not the last one of that entry has ended.   *)
(***************************************************************************)
EXTENDS Naturals, Sequences, FiniteSets

CONSTANTS
  Tasks,
  CronRuns,      \* goroutines cron may have at the same time
  WarmUp,        \* the goroutine of WarmUp
  WarmTasks,     \* the tasks it is given, in order
  Stops,         \* the daemon is shut down at some time
  MaxStarts,     \* bound on the runs cron starts
  None

Runs == CronRuns \cup {WarmUp}

ASSUME RunsAssumption ==
  WarmUp \notin CronRuns /\ None \notin Runs \cup Tasks \cup {"stop"} /\ "stop" \notin Runs
ASSUME BoundsAssumption ==
  WarmTasks \in Seq(Tasks) /\ Stops \in BOOLEAN /\ MaxStarts \in Nat

VARIABLES
  mu,        \* who holds the mutex: a run, "stop" or None
  running,
  cron,      \* cron starts due entries
  pc,        \* where each goroutine is
  task,      \* the task it executes
  began,     \* when its run began
  warmLeft,  \* the tasks the warm-up has still to run
  results,   \* results[t]: when the recorded run of t began, 0 if none
  starts,    \* the clock: runs begun so far
  stop       \* where Stop is

runVars == <<pc, task, began, warmLeft, starts>>
vars == <<mu, running, cron, runVars, results, stop>>

RunSteps == {"idle", "run", "lock", "record"}
StopSteps == {"up", "lock", "cron", "join", "stopped"}

TypeOK ==
  /\ mu \in Runs \cup {"stop", None}
  /\ running \in BOOLEAN /\ cron \in BOOLEAN
  /\ pc \in [Runs -> RunSteps]
  /\ task \in [Runs -> Tasks \cup {None}]
  /\ began \in [Runs -> Nat]
  /\ warmLeft \in Seq(Tasks)
  /\ results \in [Tasks -> Nat]
  /\ starts \in Nat
  /\ stop \in StopSteps

\* Start and WarmUp have returned.
Init ==
  /\ mu = None /\ running = TRUE /\ cron = TRUE
  /\ pc = [r \in Runs |-> "idle"]
  /\ task = [r \in Runs |-> None]
  /\ began = [r \in Runs |-> 0]
  /\ warmLeft = WarmTasks
  /\ results = [t \in Tasks |-> 0]
  /\ starts = 0
  /\ stop = "up"

-----------------------------------------------------------------------------
(* runTask                                                                 *)

Begin(r, t) ==
  /\ pc[r] = "idle"
  /\ starts' = starts + 1
  /\ pc' = [pc EXCEPT ![r] = "run"]
  /\ task' = [task EXCEPT ![r] = t]
  /\ began' = [began EXCEPT ![r] = starts + 1]

\* An entry is due.
Fire(r) ==
  /\ cron /\ r \in CronRuns /\ starts < MaxStarts
  /\ \E t \in Tasks : Begin(r, t)
  /\ UNCHANGED <<mu, running, cron, warmLeft, results, stop>>

WarmUpNext ==
  /\ warmLeft # << >>
  /\ Begin(WarmUp, Head(warmLeft))
  /\ warmLeft' = Tail(warmLeft)
  /\ UNCHANGED <<mu, running, cron, results, stop>>

\* task.Run returns, with an error or without.
TaskReturns(r) ==
  /\ pc[r] = "run"
  /\ pc' = [pc EXCEPT ![r] = "lock"]
  /\ UNCHANGED <<mu, running, cron, task, began, warmLeft, starts, results, stop>>

Lock(r) ==
  /\ pc[r] = "lock" /\ mu = None
  /\ mu' = r
  /\ pc' = [pc EXCEPT ![r] = "record"]
  /\ UNCHANGED <<running, cron, task, began, warmLeft, starts, results, stop>>

\* Mutation of Record: the start of the run is read where its task is kept.
RecordSwapped(r) ==
  /\ pc[r] = "record"
  /\ results' = [results EXCEPT ![task[r]] = task[r]]
  /\ mu' = None
  /\ pc' = [pc EXCEPT ![r] = "idle"]
  /\ task' = [task EXCEPT ![r] = None]
  /\ began' = [began EXCEPT ![r] = 0]
  /\ UNCHANGED <<running, cron, warmLeft, starts, stop>>

\* Mutation of Record: the mutex is not released.
RecordKeepsLock(r) ==
  /\ pc[r] = "record"
  /\ results' = [results EXCEPT ![task[r]] = began[r]]
  /\ pc' = [pc EXCEPT ![r] = "idle"]
  /\ task' = [task EXCEPT ![r] = None]
  /\ began' = [began EXCEPT ![r] = 0]
  /\ UNCHANGED <<mu, running, cron, warmLeft, starts, stop>>

\* The result replaces whatever is recorded for the task.
Record(r) ==
  /\ pc[r] = "record"
  /\ results' = [results EXCEPT ![task[r]] = began[r]]
  /\ mu' = None
  /\ pc' = [pc EXCEPT ![r] = "idle"]
  /\ task' = [task EXCEPT ![r] = None]
  /\ began' = [began EXCEPT ![r] = 0]
  /\ UNCHANGED <<running, cron, warmLeft, starts, stop>>

Work(r) == TaskReturns(r) \/ Lock(r) \/ Record(r)

-----------------------------------------------------------------------------
(* Stop                                                                    *)

\* The signal arrives; serve calls Stop.
Signal ==
  /\ Stops /\ stop = "up" /\ stop' = "lock"
  /\ UNCHANGED <<mu, running, cron, runVars, results>>

StopLock ==
  /\ stop = "lock" /\ mu = None
  /\ mu' = "stop" /\ stop' = "cron"
  /\ UNCHANGED <<running, cron, runVars, results>>

\* cron.Stop: no entry is started any more.
StopCron ==
  /\ stop = "cron" /\ stop' = "join" /\ cron' = FALSE
  /\ UNCHANGED <<mu, running, runVars, results>>

\* Mutation of StopJoined: the jobs of cron are not waited for.
StopAtOnce ==
  /\ stop = "join"
  /\ stop' = "stopped" /\ running' = FALSE /\ mu' = None
  /\ UNCHANGED <<cron, runVars, results>>

\* Its context is done when every goroutine cron started has ended.
StopJoined ==
  /\ stop = "join" /\ \A r \in CronRuns : pc[r] = "idle"
  /\ stop' = "stopped" /\ running' = FALSE /\ mu' = None
  /\ UNCHANGED <<cron, runVars, results>>

StopStep == StopLock \/ StopCron \/ StopJoined

Next ==
  \/ \E r \in Runs : Fire(r) \/ Work(r)
  \/ WarmUpNext
  \/ Signal \/ StopStep

\* Tasks return (each has a timeout), a mutex that is free again and again is
\* got (sync.Mutex hands itself over to a waiter that starves), and what has
\* begun goes on.  Cron need not fire and the signal need not come.
Fairness ==
  /\ \A r \in Runs : WF_vars(TaskReturns(r) \/ Record(r)) /\ SF_vars(Lock(r))
  /\ WF_vars(WarmUpNext)
  /\ SF_vars(StopLock) /\ WF_vars(StopCron \/ StopJoined)

Spec == Init /\ [][Next]_vars
FairSpec == Spec /\ Fairness

-----------------------------------------------------------------------------
(* Properties.                                                             *)

\* Once Stop has returned, nothing cron started is running or will run.
Quiet == stop = "stopped" => \A r \in CronRuns : pc[r] = "idle"

\* While the daemon is up, a run that has begun ends and its task has a result: no
\* run waits for the mutex for ever.
Recorded ==
  \A r \in Runs, t \in Tasks :
    task[r] = t ~> (task[r] = None /\ results[t] # 0) \/ stop # "up"

\* Stop returns (scheduler.go: Stop "gracefully stops the scheduler and waits for
\* running tasks to finish").
StopReturns == stop = "lock" ~> stop = "stopped"
=============================================================================
