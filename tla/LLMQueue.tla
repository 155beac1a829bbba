------------------------------ MODULE LLMQueue ------------------------------
(***************************************************************************)
(* The job queue that serializes calls to a local model: a buffered Go     *)
(* channel, MaxConcurrency worker goroutines, and the goroutines that use  *)
(* it.  Each job is one QueuedAnalyzer.Analyze call, whose goroutine       *)
(* submits the job and then waits for its result or for its own context.   *)
(* Another goroutine, the daemon's shutdown, drains and stops the queue.   *)
(***************************************************************************)
EXTENDS Naturals, Sequences, FiniteSets

CONSTANTS
  Jobs,            \* the Analyze calls
  Workers,         \* the worker goroutines, MaxConcurrency of them
  QueueSize,       \* capacity of the channel
  Deadlined,       \* the jobs whose caller's context may be cancelled
  Shutdown,        \* the daemon is shut down at some time
  NoJob

ASSUME QueueSizeAssumption == QueueSize \in Nat \ {0}
ASSUME JobsAssumption == IsFiniteSet(Jobs) /\ NoJob \notin Jobs
ASSUME WorkersAssumption == IsFiniteSet(Workers)
ASSUME CallersAssumption == Deadlined \subseteq Jobs /\ Shutdown \in BOOLEAN

VARIABLES
  jobs,       \* the channel
  closed,     \* the channel is closed
  cancelled,  \* the queue's context is done
  wpc,        \* where each worker is
  hand,       \* the job each worker holds
  running,    \* the atomic counter of running jobs
  completed,
  errors,
  caller,     \* where each Analyze call is
  result,     \* what resultCh of each call holds
  stop,       \* where the shutdown is
  accepted,   \* history: the jobs Submit returned true for, in order
  fate        \* history: what became of each accepted job

queueVars   == <<jobs, closed, cancelled>>
workerVars  == <<wpc, hand, running>>
metricVars  == <<completed, errors>>
callVars    == <<caller, result>>
historyVars == <<accepted, fate>>
vars == <<queueVars, workerVars, metricVars, callVars, stop, historyVars>>

WorkerSteps == {"receive", "check", "acquire", "run", "release", "count", "exit"}
CallerSteps == {"new", "waiting", "answered", "cancelled", "full", "panicked"}
StopSteps == {"up", "drain", "emptied", "stop", "close", "wait", "stopped"}
Fates == {"none", "accepted", "finished", "dropped"}

TypeOK ==
  /\ jobs \in Seq(Jobs) /\ Len(jobs) <= QueueSize
  /\ closed \in BOOLEAN /\ cancelled \in BOOLEAN
  /\ wpc \in [Workers -> WorkerSteps]
  /\ hand \in [Workers -> Jobs \cup {NoJob}]
  /\ running \in Nat /\ completed \in Nat /\ errors \in Nat
  /\ caller \in [Jobs -> CallerSteps]
  /\ result \in [Jobs -> {"none", "ok", "error"}]
  /\ stop \in StopSteps
  /\ accepted \in Seq(Jobs)
  /\ fate \in [Jobs -> Fates]

Init ==
  /\ jobs = << >> /\ closed = FALSE /\ cancelled = FALSE
  /\ wpc = [w \in Workers |-> "receive"]
  /\ hand = [w \in Workers |-> NoJob]
  /\ running = 0 /\ completed = 0 /\ errors = 0
  /\ caller = [j \in Jobs |-> "new"]
  /\ result = [j \in Jobs |-> "none"]
  /\ stop = "up"
  /\ accepted = << >>
  /\ fate = [j \in Jobs |-> "none"]

-----------------------------------------------------------------------------
(* Analyze: Submit, then wait.                                             *)

Reaches(j, step) == caller' = [caller EXCEPT ![j] = step]

\* Mutation of Submit: the capacity compared with <=.
SubmitOnePast(j) ==
  /\ caller[j] = "new" /\ ~closed /\ Len(jobs) <= QueueSize
  /\ jobs' = Append(jobs, j)
  /\ accepted' = Append(accepted, j)
  /\ fate' = [fate EXCEPT ![j] = "accepted"]
  /\ Reaches(j, "waiting")
  /\ UNCHANGED <<closed, cancelled, workerVars, metricVars, result, stop>>

\* The non-blocking send succeeds.
Submit(j) ==
  /\ caller[j] = "new" /\ ~closed /\ Len(jobs) < QueueSize
  /\ jobs' = Append(jobs, j)
  /\ accepted' = Append(accepted, j)
  /\ fate' = [fate EXCEPT ![j] = "accepted"]
  /\ Reaches(j, "waiting")
  /\ UNCHANGED <<closed, cancelled, workerVars, metricVars, result, stop>>

\* The channel is full: the job is refused, Analyze returns an error.
SubmitFull(j) ==
  /\ caller[j] = "new" /\ ~closed /\ Len(jobs) = QueueSize
  /\ Reaches(j, "full")
  /\ UNCHANGED <<queueVars, workerVars, metricVars, result, stop, historyVars>>

\* A send on a closed channel panics, default case or not.
SubmitClosed(j) ==
  /\ caller[j] = "new" /\ closed
  /\ Reaches(j, "panicked")
  /\ UNCHANGED <<queueVars, workerVars, metricVars, result, stop, historyVars>>

Answer(j) ==
  /\ caller[j] = "waiting" /\ result[j] # "none"
  /\ Reaches(j, "answered")
  /\ UNCHANGED <<queueVars, workerVars, metricVars, result, stop, historyVars>>

\* The caller's own context ends first; its job stays in the queue.
GiveUp(j) ==
  /\ caller[j] = "waiting" /\ j \in Deadlined
  /\ Reaches(j, "cancelled")
  /\ UNCHANGED <<queueVars, workerVars, metricVars, result, stop, historyVars>>

Call(j) == Submit(j) \/ SubmitFull(j) \/ SubmitClosed(j) \/ Answer(j) \/ GiveUp(j)

-----------------------------------------------------------------------------
(* worker                                                                  *)

Step(w, from, to) == wpc[w] = from /\ wpc' = [wpc EXCEPT ![w] = to]

\* Mutation of Receive: the newest job first.
ReceiveNewest(w) ==
  /\ jobs # << >>
  /\ Step(w, "receive", "check")
  /\ hand' = [hand EXCEPT ![w] = jobs[Len(jobs)]]
  /\ jobs' = SubSeq(jobs, 1, Len(jobs) - 1)
  /\ UNCHANGED <<closed, cancelled, running, metricVars, callVars, stop, historyVars>>

\* Mutation of Receive: the job is looked at and left in the channel.
ReceivePeeks(w) ==
  /\ jobs # << >>
  /\ Step(w, "receive", "check")
  /\ hand' = [hand EXCEPT ![w] = Head(jobs)]
  /\ UNCHANGED <<queueVars, running, metricVars, callVars, stop, historyVars>>

\* range q.jobs takes the oldest job, closed channel or not ...
Receive(w) ==
  /\ jobs # << >>
  /\ Step(w, "receive", "check")
  /\ hand' = [hand EXCEPT ![w] = Head(jobs)]
  /\ jobs' = Tail(jobs)
  /\ UNCHANGED <<closed, cancelled, running, metricVars, callVars, stop, historyVars>>

\* ... and ends when the channel is closed and empty.
Exhausted(w) ==
  /\ jobs = << >> /\ closed
  /\ Step(w, "receive", "exit")
  /\ UNCHANGED <<queueVars, hand, running, metricVars, callVars, stop, historyVars>>

\* Mutation of Discard: the worker skips the job and goes on receiving.
DiscardGoesOn(w) ==
  /\ cancelled
  /\ Step(w, "check", "receive")
  /\ UNCHANGED <<queueVars, hand, running, metricVars, callVars, stop, historyVars>>

\* Shutting down: the worker returns, and the job in its hand is lost.
Discard(w) ==
  /\ cancelled
  /\ Step(w, "check", "exit")
  /\ fate' = [fate EXCEPT ![hand[w]] = "dropped"]
  /\ hand' = [hand EXCEPT ![w] = NoJob]
  /\ UNCHANGED <<queueVars, running, metricVars, callVars, stop, accepted>>

GoOn(w) ==
  /\ ~cancelled
  /\ Step(w, "check", "acquire")
  /\ UNCHANGED <<queueVars, hand, running, metricVars, callVars, stop, historyVars>>

\* A slot of the semaphore, never waited for since there is one per worker, and
\* the counter Drain and Stats read.
Acquire(w) ==
  /\ Step(w, "acquire", "run")
  /\ running' = running + 1
  /\ UNCHANGED <<queueVars, hand, metricVars, callVars, stop, historyVars>>

\* Fn returns; it has sent its report and error to the caller's channel.
Run(w) ==
  /\ Step(w, "run", "release")
  /\ \E outcome \in {"ok", "error"} : result' = [result EXCEPT ![hand[w]] = outcome]
  /\ fate' = [fate EXCEPT ![hand[w]] = "finished"]
  /\ UNCHANGED <<queueVars, hand, running, metricVars, caller, stop, accepted>>

Release(w) ==
  /\ Step(w, "release", "count")
  /\ running' = running - 1
  /\ UNCHANGED <<queueVars, hand, metricVars, callVars, stop, historyVars>>

\* Mutation of Count: a failed job is counted twice over.
CountBoth(w) ==
  /\ Step(w, "count", "receive")
  /\ completed' = completed + 1
  /\ errors' = errors + (IF result[hand[w]] = "error" THEN 1 ELSE 0)
  /\ hand' = [hand EXCEPT ![w] = NoJob]
  /\ UNCHANGED <<queueVars, running, callVars, stop, historyVars>>

\* Mutation of Count: a worker whose job failed returns.
CountGivesUp(w) ==
  /\ wpc[w] = "count"
  /\ wpc' = [wpc EXCEPT ![w] = IF result[hand[w]] = "error" THEN "exit" ELSE "receive"]
  /\ completed' = completed + 1
  /\ hand' = [hand EXCEPT ![w] = NoJob]
  /\ UNCHANGED <<queueVars, running, errors, callVars, stop, historyVars>>

\* The metrics and the callback, which is nil for an Analyze job.
Count(w) ==
  /\ Step(w, "count", "receive")
  /\ IF result[hand[w]] = "error"
     THEN errors' = errors + 1 /\ UNCHANGED completed
     ELSE completed' = completed + 1 /\ UNCHANGED errors
  /\ hand' = [hand EXCEPT ![w] = NoJob]
  /\ UNCHANGED <<queueVars, running, callVars, stop, historyVars>>

Work(w) ==
  \/ Receive(w) \/ Exhausted(w) \/ Discard(w) \/ GoOn(w)
  \/ Acquire(w) \/ Run(w) \/ Release(w) \/ Count(w)

-----------------------------------------------------------------------------
(* The shutdown of the daemon: Drain, then Stop.                           *)

InHand == { hand[w] : w \in Workers } \ {NoJob}
Pending == { jobs[i] : i \in 1 .. Len(jobs) }

BeginDrain ==
  /\ Shutdown /\ stop = "up"
  /\ stop' = "drain"
  /\ UNCHANGED <<queueVars, workerVars, metricVars, callVars, historyVars>>

Advance(from, to) ==
  /\ stop = from /\ stop' = to
  /\ UNCHANGED <<workerVars, metricVars, callVars, historyVars>>

\* len(q.jobs) == 0, then running == 0: two reads, and both again if not.
SeeEmpty   == jobs = << >> /\ Advance("drain", "emptied") /\ UNCHANGED queueVars
SeeIdle    == running = 0 /\ Advance("emptied", "stop") /\ UNCHANGED queueVars
SeeRunning == running # 0 /\ Advance("emptied", "drain") /\ UNCHANGED queueVars

\* The deadline passes.
DrainTimeout ==
  /\ stop \in {"drain", "emptied"}
  /\ Advance(stop, "stop") /\ UNCHANGED queueVars

\* Mutation of Close: the channel stays open.
CloseForgotten == Advance("close", "wait") /\ UNCHANGED queueVars

Cancel == Advance("stop", "close") /\ cancelled' = TRUE /\ UNCHANGED <<jobs, closed>>
Close  == Advance("close", "wait") /\ closed' = TRUE /\ UNCHANGED <<jobs, cancelled>>

\* wg.Wait returns.
Joined ==
  /\ \A w \in Workers : wpc[w] = "exit"
  /\ Advance("wait", "stopped")
  /\ UNCHANGED queueVars

StopQueue ==
  \/ SeeEmpty \/ SeeIdle \/ SeeRunning \/ DrainTimeout \/ Cancel \/ Close \/ Joined

Next ==
  \/ \E j \in Jobs : Call(j)
  \/ \E w \in Workers : Work(w)
  \/ BeginDrain \/ StopQueue

\* Goroutines that can run do; Fn returns (the calls of a model time out); a
\* shutdown that has begun goes on.  Nothing obliges a caller to submit, a
\* context to be cancelled or the daemon to be shut down.
Fairness ==
  /\ \A w \in Workers : WF_vars(Work(w))
  /\ \A j \in Jobs : WF_vars(Answer(j))
  /\ WF_vars(StopQueue)

Spec == Init /\ [][Next]_vars
FairSpec == Spec /\ Fairness

-----------------------------------------------------------------------------
(* Properties.                                                             *)

\* A job is in one place: once in the channel or in the hand of one worker,
\* whichever workers receive at the same time.
Exclusive ==
  /\ \A i, k \in 1 .. Len(jobs) : i # k => jobs[i] # jobs[k]
  /\ \A v, w \in Workers : v # w /\ hand[v] = hand[w] => hand[v] = NoJob
  /\ Pending \cap InHand = {}

\* A job Submit accepted and nobody has finished or dropped is still in the
\* channel or with a worker that has yet to run it; no other job is.
BeforeRun == {"check", "acquire", "run"}
NothingLost ==
  { j \in Jobs : fate[j] = "accepted" }
    = Pending \cup { hand[w] : w \in { v \in Workers : wpc[v] \in BeforeRun } }

\* The metrics account for every accepted job.
Dropped == { j \in Jobs : fate[j] = "dropped" }
Accounted ==
  Len(accepted) =
    Len(jobs) + Cardinality(InHand) + completed + errors + Cardinality(Dropped)

\* Jobs end in the order Submit accepted them, but for those a worker still has
\* in its hand: with one worker that is FIFO (queue.go: "Jobs are processed one at
\* a time in FIFO order"), with more none is overtaken while it waits.
FIFO ==
  \A i, k \in 1 .. Len(accepted) :
    i < k /\ fate[accepted[k]] # "accepted"
      => fate[accepted[i]] # "accepted" \/ accepted[i] \in InHand

\* While the daemon is up every Analyze call returns, the calls whose context
\* never ends too.
Answered ==
  \A j \in Jobs : caller[j] = "waiting" ~> caller[j] # "waiting" \/ stop # "up"

\* A shutdown that has begun gets through Drain and Stop.
StopReturns == stop = "drain" ~> stop = "stopped"
=============================================================================
