--------------------------- MODULE LLMQueueProofs ---------------------------
(***************************************************************************)
(* Proofs about LLMQueue, for every number of jobs and of workers and for  *)
(* every capacity of the channel: the type invariant, that a job is never  *)
(* in two places, that no accepted job is lost or overtaken while it       *)
(* waits, and that the metrics account for all of them.                    *)
(*                                                                         *)
(* None of them is inductive.  The strengthening QueueInv says that        *)
(* running counts the workers inside Fn, that a worker holds a job exactly *)
(* between receive and count, that a call which has not submitted yet has  *)
(* no job, and that a job its worker has run is finished.  HistoryInv adds *)
(* what the jobs' history says: the channel is the end of what has been    *)
(* accepted, and the counters count the jobs that ended each way.          *)
(***************************************************************************)
EXTENDS LLMQueue, FiniteSetTheorems, TLAPS

Holding == {"check", "acquire", "run", "release", "count"}

\* The workers between running.Add(1) and running.Add(-1).
InFn == { w \in Workers : wpc[w] \in {"run", "release"} }

Counted == running = Cardinality(InFn)
Handling ==
  \A w \in Workers : IF wpc[w] \in Holding THEN hand[w] \in Jobs ELSE hand[w] = NoJob
Unsubmitted == \A j \in Jobs : caller[j] = "new" => fate[j] = "none"
RunIsFinished ==
  \A w \in Workers : wpc[w] \in {"release", "count"} => fate[hand[w]] = "finished"

QueueInv ==
  /\ TypeOK /\ Counted /\ Handling
  /\ Unsubmitted /\ RunIsFinished
  /\ Exclusive /\ NothingLost

-----------------------------------------------------------------------------
(* The channel as a sequence.                                              *)

LEMMA AppendFacts ==
  ASSUME NEW s \in Seq(Jobs), NEW j \in Jobs
  PROVE  /\ Append(s, j) \in Seq(Jobs)
         /\ Len(Append(s, j)) = Len(s) + 1
         /\ \A i \in 1 .. Len(s) : Append(s, j)[i] = s[i]
         /\ Append(s, j)[Len(s) + 1] = j
OBVIOUS

LEMMA TailFacts ==
  ASSUME NEW s \in Seq(Jobs), s # << >>
  PROVE  /\ Head(s) \in Jobs /\ Head(s) = s[1]
         /\ Tail(s) \in Seq(Jobs)
         /\ Len(s) \in Nat \ {0} /\ Len(Tail(s)) = Len(s) - 1
         /\ \A i \in 1 .. Len(s) - 1 : Tail(s)[i] = s[i + 1]
OBVIOUS

-----------------------------------------------------------------------------
(* The counter of running jobs.                                            *)

LEMMA CountedInit == Init => Counted
<1> SUFFICES ASSUME Init PROVE Counted
  OBVIOUS
<1>1. InFn = {}
  BY DEF Init, InFn
<1> QED
  BY <1>1, FS_EmptySet DEF Init, Counted

\* A worker enters Fn, leaves it, or none does.
LEMMA CountedStep ==
  ASSUME QueueInv, [Next]_vars
  PROVE  Counted' /\ running' \in Nat
<1> USE DEF QueueInv
<1>1. IsFiniteSet(InFn)
  BY WorkersAssumption, FS_Subset DEF InFn
<1>2. ASSUME UNCHANGED running, InFn' = InFn
      PROVE  Counted' /\ running' \in Nat
  BY <1>2 DEF Counted, TypeOK
<1>3. ASSUME NEW w \in Workers, Acquire(w)
      PROVE  Counted' /\ running' \in Nat
  <2>1. w \notin InFn /\ InFn' = InFn \cup {w}
    BY <1>3 DEF Acquire, Step, InFn, TypeOK
  <2>2. Cardinality(InFn \cup {w}) = Cardinality(InFn) + 1
    BY <1>1, <2>1, FS_AddElement
  <2> QED
    BY <1>3, <2>1, <2>2 DEF Acquire, Counted, TypeOK
<1>4. ASSUME NEW w \in Workers, Release(w)
      PROVE  Counted' /\ running' \in Nat
  <2>1. w \in InFn /\ InFn' = InFn \ {w}
    BY <1>4 DEF Release, Step, InFn, TypeOK
  <2>2. Cardinality(InFn \ {w}) = Cardinality(InFn) - 1 /\ Cardinality(InFn \ {w}) \in Nat
    BY <1>1, <2>1, FS_RemoveElement, FS_CardinalityType, FS_Subset
  <2> QED
    BY <1>4, <2>1, <2>2 DEF Release, Counted
<1>5. ASSUME NEW w \in Workers,
             Receive(w) \/ Exhausted(w) \/ Discard(w) \/ GoOn(w) \/ Run(w) \/ Count(w)
      PROVE  UNCHANGED running /\ InFn' = InFn
  BY <1>5 DEF Receive, Exhausted, Discard, GoOn, Run, Count, Step, InFn, TypeOK
<1>6. CASE UNCHANGED <<workerVars>>
  BY <1>2, <1>6 DEF workerVars, InFn
<1>7. ASSUME NEW j \in Jobs, Call(j)
      PROVE  UNCHANGED <<workerVars>>
  BY <1>7 DEF Call, Submit, SubmitFull, SubmitClosed, Answer, GiveUp
<1>8. ASSUME BeginDrain \/ StopQueue
      PROVE  UNCHANGED <<workerVars>>
  BY <1>8 DEF BeginDrain, StopQueue, SeeEmpty, SeeIdle, SeeRunning, DrainTimeout,
              Cancel, Close, Joined, Advance
<1> QED
  BY <1>2, <1>3, <1>4, <1>5, <1>6, <1>7, <1>8 DEF Next, Work, vars

-----------------------------------------------------------------------------
(* The type invariant.                                                     *)

LEMMA TypeInit == Init => TypeOK
<1> SUFFICES ASSUME Init PROVE TypeOK
  OBVIOUS
<1>1. jobs \in Seq(Jobs) /\ Len(jobs) <= QueueSize /\ accepted \in Seq(Jobs)
  BY QueueSizeAssumption DEF Init
<1>2. \A S : {} \in SUBSET S
  OBVIOUS
<1>3. hand \in [Workers -> Jobs \cup {NoJob}]
  BY DEF Init
<1> QED
  BY <1>1, <1>2, <1>3 DEF Init, TypeOK, WorkerSteps, CallerSteps, StopSteps, Fates

LEMMA TypeStep ==
  ASSUME QueueInv, [Next]_vars
  PROVE  TypeOK'
<1> USE DEF QueueInv, TypeOK
<1>1. running' \in Nat
  BY CountedStep
<1>2. ASSUME NEW j \in Jobs, Call(j)
      PROVE  TypeOK'
  <2>1. CASE Submit(j)
    <3>1. jobs' \in Seq(Jobs) /\ Len(jobs') <= QueueSize /\ accepted' \in Seq(Jobs)
      <4>1. Len(jobs) \in Nat /\ Len(jobs) # QueueSize
        BY <2>1 DEF Submit
      <4> QED
        BY <2>1, <4>1, AppendFacts, QueueSizeAssumption DEF Submit
    <3> QED
      BY <1>1, <2>1, <3>1
       DEF Submit, Reaches, CallerSteps, Fates, queueVars, workerVars, metricVars
  <2>2. CASE SubmitFull(j) \/ SubmitClosed(j) \/ Answer(j) \/ GiveUp(j)
    BY <1>1, <2>2 DEF SubmitFull, SubmitClosed, Answer, GiveUp, Reaches, CallerSteps,
                      queueVars, workerVars, metricVars, historyVars
  <2> QED
    BY <1>2, <2>1, <2>2 DEF Call
<1>3. ASSUME NEW w \in Workers, Work(w)
      PROVE  TypeOK'
  <2>1. CASE Receive(w)
    <3>1. jobs' \in Seq(Jobs) /\ Len(jobs') <= QueueSize /\ Head(jobs) \in Jobs
      BY <2>1, TailFacts, QueueSizeAssumption DEF Receive
    <3> QED
      BY <1>1, <2>1, <3>1 DEF Receive, Step, WorkerSteps, metricVars, callVars, historyVars
  <2>2. CASE Exhausted(w) \/ GoOn(w) \/ Acquire(w) \/ Release(w)
    BY <1>1, <2>2 DEF Exhausted, GoOn, Acquire, Release, Step, WorkerSteps,
                      queueVars, metricVars, callVars, historyVars
  <2>3. CASE Discard(w)
    BY <1>1, <2>3 DEF Discard, Step, WorkerSteps, Fates, queueVars, metricVars, callVars
  <2>4. CASE Run(w)
    BY <1>1, <2>4 DEF Run, Step, WorkerSteps, Fates, queueVars, metricVars
  <2>5. CASE Count(w)
    BY <1>1, <2>5 DEF Count, Step, WorkerSteps, queueVars, callVars, historyVars
  <2> QED
    BY <1>3, <2>1, <2>2, <2>3, <2>4, <2>5 DEF Work
<1>4. CASE BeginDrain
  BY <1>1, <1>4 DEF BeginDrain, StopSteps, queueVars, workerVars, metricVars, callVars,
       historyVars
<1>5. CASE StopQueue
  BY <1>1, <1>5 DEF StopQueue, SeeEmpty, SeeIdle, SeeRunning, DrainTimeout, Cancel, Close,
       Joined, Advance, StopSteps, queueVars, workerVars, metricVars, callVars, historyVars
<1>6. CASE UNCHANGED vars
  BY <1>6 DEF vars, queueVars, workerVars, metricVars, callVars, historyVars
<1> QED
  BY <1>2, <1>3, <1>4, <1>5, <1>6 DEF Next

-----------------------------------------------------------------------------
(* What each worker and each call knows of its job.                        *)

\* A job accepted and not yet run is in the channel or with a worker that has
\* yet to run it, and the other way round.
LEMMA Lost ==
  ASSUME NothingLost, TypeOK
  PROVE  /\ \A i \in 1 .. Len(jobs) : jobs[i] \in Jobs /\ fate[jobs[i]] = "accepted"
         /\ \A w \in Workers : wpc[w] \in BeforeRun => fate[hand[w]] = "accepted"
BY DEF NothingLost, TypeOK, Pending

LEMMA LocalStep ==
  ASSUME QueueInv, [Next]_vars
  PROVE  Handling' /\ Unsubmitted' /\ RunIsFinished'
<1> USE DEF QueueInv
<1> DEFINE Local == Handling /\ Unsubmitted /\ RunIsFinished
<1>1. ASSUME UNCHANGED <<wpc, hand, caller, fate>>
      PROVE  Local'
  BY <1>1 DEF Handling, Unsubmitted, RunIsFinished
<1>2. ASSUME NEW j \in Jobs, Call(j)
      PROVE  Local'
  <2>1. CASE Submit(j)
    <3>1. fate[j] = "none"
      BY <2>1 DEF Submit, Unsubmitted
    <3>2. \A w \in Workers : wpc[w] \in {"release", "count"} => hand[w] # j
      BY <3>1 DEF RunIsFinished
    <3> QED
      BY <2>1, <3>2 DEF Submit, Reaches, TypeOK, workerVars, Handling, Unsubmitted, RunIsFinished
  <2>2. CASE SubmitFull(j) \/ SubmitClosed(j) \/ Answer(j) \/ GiveUp(j)
    BY <2>2 DEF SubmitFull, SubmitClosed, Answer, GiveUp, Reaches, TypeOK, workerVars,
                historyVars, Handling, Unsubmitted, RunIsFinished
  <2> QED
    BY <1>2, <2>1, <2>2 DEF Call
<1>3. ASSUME NEW w \in Workers, Work(w)
      PROVE  Local'
  <2>1. CASE Receive(w)
    <3>1. Head(jobs) \in Jobs
      BY <2>1, TailFacts DEF Receive, TypeOK
    <3> QED
      BY <2>1, <3>1 DEF Receive, Step, TypeOK, callVars, historyVars, Holding, Handling,
                        Unsubmitted, RunIsFinished
  <2>2. CASE Exhausted(w) \/ GoOn(w) \/ Acquire(w) \/ Release(w)
    BY <2>2 DEF Exhausted, GoOn, Acquire, Release, Step, TypeOK, callVars, historyVars,
                Holding, Handling, Unsubmitted, RunIsFinished
  <2>3. ASSUME Discard(w) \/ Run(w)
        PROVE  /\ wpc[w] \in BeforeRun /\ hand[w] \in Jobs /\ fate[hand[w]] = "accepted"
               /\ caller[hand[w]] # "new"
               /\ \A v \in Workers \ {w} : hand[v] # hand[w]
    <3>1. wpc[w] \in BeforeRun /\ hand[w] \in Jobs
      BY <2>3 DEF Discard, Run, Step, BeforeRun, Handling, Holding
    <3>2. fate[hand[w]] = "accepted"
      BY <3>1, Lost
    <3> QED
      BY <3>1, <3>2, JobsAssumption DEF Unsubmitted, Exclusive
  <2>4. CASE Discard(w)
    BY <2>3, <2>4 DEF Discard, Step, TypeOK, callVars, Holding, Handling, Unsubmitted,
                      RunIsFinished
  <2>5. CASE Run(w)
    BY <2>3, <2>5 DEF Run, Step, TypeOK, Holding, Handling, Unsubmitted, RunIsFinished
  <2>6. CASE Count(w)
    BY <2>6 DEF Count, Step, TypeOK, callVars, historyVars, Holding, Handling, Unsubmitted,
                RunIsFinished
  <2> QED
    BY <1>3, <2>1, <2>2, <2>4, <2>5, <2>6 DEF Work
<1>4. ASSUME BeginDrain \/ StopQueue
      PROVE  UNCHANGED <<wpc, hand, caller, fate>>
  BY <1>4 DEF BeginDrain, StopQueue, SeeEmpty, SeeIdle, SeeRunning, DrainTimeout, Cancel,
              Close, Joined, Advance, workerVars, callVars, historyVars
<1> QED
  BY <1>1, <1>2, <1>3, <1>4 DEF Next, vars, workerVars, callVars, historyVars

-----------------------------------------------------------------------------
(* Where each job is.                                                      *)

LEMMA PlacesStep ==
  ASSUME QueueInv, [Next]_vars
  PROVE  Exclusive' /\ NothingLost'
<1> USE DEF QueueInv
<1> DEFINE Early == { hand[w] : w \in { v \in Workers : wpc[v] \in BeforeRun } }
           Accepted == { j \in Jobs : fate[j] = "accepted" }
<1>1. Accepted = Pending \cup Early
  BY DEF NothingLost
<1>2. ASSUME UNCHANGED <<jobs, wpc, hand, fate>>
      PROVE  Exclusive' /\ NothingLost'
  BY <1>2 DEF Exclusive, NothingLost, Pending, InHand
<1>3. ASSUME NEW j \in Jobs, Submit(j)
      PROVE  Exclusive' /\ NothingLost'
  <2>1. fate[j] = "none" /\ UNCHANGED <<wpc, hand>> /\ Accepted' = Accepted \cup {j}
    BY <1>3 DEF Submit, Unsubmitted, workerVars, TypeOK
  <2>2. j \notin Pending /\ j \notin InHand
    <3>1. j \notin Pending /\ j \notin Early
      BY <1>1, <2>1
    <3>2. \A w \in Workers : wpc[w] \in {"release", "count"} => hand[w] # j
      BY <2>1 DEF RunIsFinished
    <3>3. \A w \in Workers : wpc[w] \notin Holding => hand[w] # j
      BY JobsAssumption DEF Handling
    <3> QED
      BY <3>1, <3>2, <3>3 DEF InHand, BeforeRun, Holding
  <2>3. /\ Len(jobs') = Len(jobs) + 1 /\ jobs'[Len(jobs) + 1] = j
        /\ \A i \in 1 .. Len(jobs) : jobs'[i] = jobs[i]
        /\ Len(jobs) \in Nat
    BY <1>3, AppendFacts DEF Submit, TypeOK
  <2>4. Pending' = Pending \cup {j}
    BY <2>3 DEF Pending
  <2>5. \A i, k \in 1 .. Len(jobs') : i # k => jobs'[i] # jobs'[k]
    BY <2>2, <2>3 DEF Pending, Exclusive
  <2>6. Early' = Early /\ InHand' = InHand
    BY <2>1 DEF InHand
  <2>7. Exclusive'
    BY <2>1, <2>2, <2>4, <2>5, <2>6 DEF Exclusive
  <2>8. Accepted' = Pending' \cup Early'
    BY <1>1, <2>1, <2>4, <2>6
  <2> QED
    BY <2>7, <2>8 DEF NothingLost
<1>4. ASSUME NEW w \in Workers, Receive(w)
      PROVE  Exclusive' /\ NothingLost'
  <2>1. /\ Len(jobs) \in Nat \ {0} /\ Len(jobs') = Len(jobs) - 1
        /\ Head(jobs) = jobs[1] /\ Head(jobs) \in Jobs
        /\ \A i \in 1 .. Len(jobs) - 1 : jobs'[i] = jobs[i + 1]
    BY <1>4, TailFacts DEF Receive, TypeOK
  <2>2. UNCHANGED fate
    BY <1>4 DEF Receive, historyVars
  <2>3. /\ hand[w] = NoJob /\ hand'[w] = Head(jobs)
        /\ \A v \in Workers \ {w} : hand'[v] = hand[v] /\ wpc'[v] = wpc[v]
        /\ wpc[w] = "receive" /\ wpc'[w] = "check"
    BY <1>4 DEF Receive, Step, Handling, Holding, TypeOK
  <2>4. Pending = Pending' \cup {Head(jobs)} /\ Head(jobs) \notin Pending'
    <3>1. \A i \in 1 .. Len(jobs) - 1 : i + 1 \in 1 .. Len(jobs)
      BY <2>1
    <3>2. \A k \in 1 .. Len(jobs) : k = 1 \/ k - 1 \in 1 .. Len(jobs) - 1
      BY <2>1
    <3>3. \A k \in 1 .. Len(jobs) : k = 1 \/ jobs'[k - 1] = jobs[k]
      BY <2>1, <3>2
    <3>4. \A i \in 1 .. Len(jobs) - 1 : jobs'[i] # jobs[1]
      BY <2>1 DEF Exclusive
    <3> QED
      BY <2>1, <3>1, <3>2, <3>3, <3>4 DEF Pending
  <2>5. \A i, k \in 1 .. Len(jobs') : i # k => jobs'[i] # jobs'[k]
    BY <2>1 DEF Exclusive
  <2>6. Early' = Early \cup {Head(jobs)} /\ InHand' = InHand \cup {Head(jobs)}
    BY <2>1, <2>3, JobsAssumption DEF InHand, BeforeRun
  <2>7. \A v \in Workers \ {w} : hand[v] # Head(jobs)
    BY <2>1, <2>4, JobsAssumption DEF Exclusive, InHand
  <2>8. Exclusive'
    <3>1. Pending' \cap InHand' = {}
      BY <2>4, <2>6 DEF Exclusive
    <3>2. \A u, v \in Workers : u # v /\ hand'[u] = hand'[v] => hand'[u] = NoJob
      BY <2>3, <2>7 DEF Exclusive
    <3> QED
      BY <2>5, <3>1, <3>2 DEF Exclusive
  <2>9. Accepted' = Pending' \cup Early'
    BY <1>1, <2>2, <2>4, <2>6
  <2> QED
    BY <2>8, <2>9 DEF NothingLost
<1>5. ASSUME NEW w \in Workers, Discard(w) \/ Run(w)
      PROVE  Exclusive' /\ NothingLost'
  <2>1. wpc[w] \in BeforeRun /\ hand[w] \in Jobs /\ UNCHANGED jobs
    BY <1>5 DEF Discard, Run, Step, BeforeRun, Handling, Holding, queueVars
  <2>2. Accepted' = Accepted \ {hand[w]}
    BY <1>5, <2>1 DEF Discard, Run, TypeOK
  <2>3. /\ wpc'[w] \notin BeforeRun
        /\ hand'[w] \in {hand[w], NoJob}
        /\ \A v \in Workers \ {w} : hand'[v] = hand[v] /\ wpc'[v] = wpc[v]
    BY <1>5 DEF Discard, Run, Step, BeforeRun, TypeOK
  <2>4. hand[w] \notin Pending /\ \A v \in Workers \ {w} : hand[v] # hand[w]
    BY <2>1, JobsAssumption DEF Exclusive, InHand
  <2>5. Early' = Early \ {hand[w]}
    BY <2>1, <2>3, <2>4
  <2>6. Pending' = Pending
    BY <2>1 DEF Pending
  <2>7. Exclusive'
    <3>1. InHand' \subseteq InHand
      BY <2>3 DEF InHand
    <3>2. \A u, v \in Workers : u # v /\ hand'[u] = hand'[v] => hand'[u] = NoJob
      BY <2>3, <2>4 DEF Exclusive
    <3> QED
      BY <2>1, <2>6, <3>1, <3>2 DEF Exclusive
  <2>8. Accepted' = Pending' \cup Early'
    BY <1>1, <2>2, <2>4, <2>5, <2>6
  <2> QED
    BY <2>7, <2>8 DEF NothingLost
<1>6. ASSUME NEW w \in Workers,
             Exhausted(w) \/ GoOn(w) \/ Acquire(w) \/ Release(w) \/ Count(w)
      PROVE  Exclusive' /\ NothingLost'
  <2>1. UNCHANGED <<jobs, fate>>
    BY <1>6 DEF Exhausted, GoOn, Acquire, Release, Count, queueVars, historyVars
  <2>2. \A v \in Workers : hand'[v] \in {hand[v], NoJob}
    BY <1>6 DEF Exhausted, GoOn, Acquire, Release, Count, TypeOK
  <2>3. \A v \in Workers :
          /\ wpc'[v] \in BeforeRun <=> wpc[v] \in BeforeRun
          /\ wpc[v] \in BeforeRun => hand'[v] = hand[v]
    BY <1>6 DEF Exhausted, GoOn, Acquire, Release, Count, Step, BeforeRun, TypeOK
  <2>4. Early' = Early /\ InHand' \subseteq InHand /\ Pending' = Pending
    BY <2>1, <2>2, <2>3 DEF InHand, Pending
  <2>5. Exclusive'
    <3>1. \A u, v \in Workers : u # v /\ hand'[u] = hand'[v] => hand'[u] = NoJob
      BY <2>2 DEF Exclusive
    <3> QED
      BY <2>1, <2>4, <3>1 DEF Exclusive
  <2> QED
    BY <1>1, <2>1, <2>4, <2>5 DEF NothingLost
<1>7. ASSUME NEW j \in Jobs, SubmitFull(j) \/ SubmitClosed(j) \/ Answer(j) \/ GiveUp(j)
      PROVE  UNCHANGED <<jobs, wpc, hand, fate>>
  BY <1>7 DEF SubmitFull, SubmitClosed, Answer, GiveUp, queueVars, workerVars, historyVars
<1>8. ASSUME BeginDrain \/ StopQueue
      PROVE  UNCHANGED <<jobs, wpc, hand, fate>>
  BY <1>8 DEF BeginDrain, StopQueue, SeeEmpty, SeeIdle, SeeRunning, DrainTimeout, Cancel,
              Close, Joined, Advance, queueVars, workerVars, historyVars
<1>9. ASSUME UNCHANGED vars
      PROVE  UNCHANGED <<jobs, wpc, hand, fate>>
  BY <1>9 DEF vars, queueVars, workerVars, historyVars
<1> QED
  BY <1>2, <1>3, <1>4, <1>5, <1>6, <1>7, <1>8, <1>9 DEF Next, Call, Work

-----------------------------------------------------------------------------
(* The theorems.                                                           *)

LEMMA QueueInvInit == Init => QueueInv
<1> SUFFICES ASSUME Init PROVE QueueInv
  OBVIOUS
<1>1. Pending = {} /\ \A w \in Workers : wpc[w] = "receive" /\ hand[w] = NoJob
  BY DEF Init, Pending
<1>2. Handling /\ Unsubmitted /\ RunIsFinished
  BY <1>1 DEF Init, Handling, Holding, Unsubmitted, RunIsFinished
<1>3. Exclusive /\ NothingLost
  BY <1>1 DEF Init, Exclusive, NothingLost, BeforeRun
<1> QED
  BY <1>2, <1>3, TypeInit, CountedInit DEF QueueInv

LEMMA QueueInvStep == QueueInv /\ [Next]_vars => QueueInv'
BY TypeStep, CountedStep, LocalStep, PlacesStep DEF QueueInv

\* The strengthening is an invariant of the queue (queue.go, analyzer.go).
THEOREM QueueInvariant == Spec => []QueueInv
<1>1. Init => QueueInv
  BY QueueInvInit
<1>2. QueueInv /\ [Next]_vars => QueueInv'
  BY QueueInvStep
<1> QED
  BY <1>1, <1>2, PTL DEF Spec

\* Every variable has its type: in particular the channel never holds more than
\* QueueSize jobs and running never goes below zero.
THEOREM QueueTypeCorrect == Spec => []TypeOK
<1>1. QueueInv => TypeOK
  BY DEF QueueInv
<1> QED
  BY <1>1, QueueInvariant, PTL

\* No job is in two places at once: worker's receive from the channel hands each
\* job to one worker, so Fn runs at most once.
THEOREM JobsExclusive == Spec => []Exclusive
<1>1. QueueInv => Exclusive
  BY DEF QueueInv
<1> QED
  BY <1>1, QueueInvariant, PTL

\* A job Submit accepted stays in the channel or with a worker until it has been
\* run or, once the queue is cancelled, dropped.
THEOREM NoJobLost == Spec => []NothingLost
<1>1. QueueInv => NothingLost
  BY DEF QueueInv
<1> QED
  BY <1>1, QueueInvariant, PTL

-----------------------------------------------------------------------------
(* The metrics, and the order of the jobs: what they need beside QueueInv  *)
(* is that the channel is the end of the sequence of accepted jobs, and    *)
(* that no job was accepted twice.                                         *)

ChannelIsSuffix ==
  /\ Len(jobs) <= Len(accepted)
  /\ \A i \in 1 .. Len(jobs) : jobs[i] = accepted[Len(accepted) - Len(jobs) + i]
AcceptedOnce == \A i, k \in 1 .. Len(accepted) : i # k => accepted[i] # accepted[k]
AcceptedHasFate == \A i \in 1 .. Len(accepted) : fate[accepted[i]] # "none"

HistoryInv ==
  /\ QueueInv
  /\ Accounted
  /\ ChannelIsSuffix /\ AcceptedOnce /\ AcceptedHasFate

\* The jobs in hand and the dropped ones are finitely many.
LEMMA FiniteParts ==
  ASSUME QueueInv
  PROVE  /\ IsFiniteSet(InHand) /\ Cardinality(InHand) \in Nat
         /\ IsFiniteSet(Dropped) /\ Cardinality(Dropped) \in Nat
         /\ Len(jobs) \in Nat /\ Len(accepted) \in Nat
         /\ completed \in Nat /\ errors \in Nat
<1>1. InHand \in SUBSET Jobs /\ Dropped \in SUBSET Jobs
  BY DEF InHand, Dropped, QueueInv, TypeOK
<1>2. IsFiniteSet(InHand) /\ IsFiniteSet(Dropped)
  BY <1>1, FS_Subset, JobsAssumption
<1> QED
  BY <1>2, FS_CardinalityType DEF QueueInv, TypeOK

\* Every step leaves what is accounted for alone, or moves one job on.
LEMMA AccountedStep ==
  ASSUME QueueInv, Accounted, [Next]_vars
  PROVE  Accounted'
<1> USE DEF QueueInv
<1>1. ASSUME UNCHANGED <<jobs, hand, completed, errors, accepted>>,
             \A j \in Jobs : fate'[j] = "dropped" <=> fate[j] = "dropped"
      PROVE  Accounted'
  <2>1. InHand' = InHand /\ Dropped' = Dropped
    BY <1>1 DEF InHand, Dropped
  <2> QED
    BY <1>1, <2>1 DEF Accounted
<1>2. ASSUME NEW j \in Jobs, Submit(j)
      PROVE  Accounted'
  <2>1. fate[j] = "none" /\ InHand' = InHand
    BY <1>2 DEF Submit, Unsubmitted, workerVars, InHand
  <2>2. Dropped' = Dropped
    BY <1>2, <2>1 DEF Submit, Dropped, TypeOK
  <2>3. Len(jobs') = Len(jobs) + 1 /\ Len(accepted') = Len(accepted) + 1
    BY <1>2, AppendFacts DEF Submit, TypeOK
  <2> QED
    BY <1>2, <2>1, <2>2, <2>3, FiniteParts DEF Submit, metricVars, Accounted
<1>3. ASSUME NEW w \in Workers, Receive(w)
      PROVE  Accounted'
  <2>1. Len(jobs') = Len(jobs) - 1 /\ Head(jobs) \in Pending /\ Head(jobs) \in Jobs
    BY <1>3, TailFacts DEF Receive, Pending, TypeOK
  <2>2. Head(jobs) \notin InHand
    BY <2>1 DEF Exclusive
  <2>3. hand[w] = NoJob
    BY <1>3 DEF Receive, Step, Handling, Holding
  <2>4. InHand' = InHand \cup {Head(jobs)}
    BY <1>3, <2>1, <2>3, JobsAssumption DEF Receive, InHand, TypeOK
  <2>5. Cardinality(InHand') = Cardinality(InHand) + 1
    BY <2>2, <2>4, FiniteParts, FS_AddElement
  <2>6. Dropped' = Dropped /\ UNCHANGED <<accepted, completed, errors>>
    BY <1>3 DEF Receive, Dropped, historyVars, metricVars
  <2> QED
    BY <2>1, <2>5, <2>6, FiniteParts DEF Accounted
<1>4. ASSUME NEW w \in Workers, hand[w] \in Jobs, hand' = [hand EXCEPT ![w] = NoJob]
      PROVE  Cardinality(InHand') = Cardinality(InHand) - 1
  <2>1. \A v \in Workers \ {w} : hand[v] # hand[w]
    BY <1>4, JobsAssumption DEF Exclusive
  <2>2. InHand' = InHand \ {hand[w]} /\ hand[w] \in InHand
    BY <1>4, <2>1, JobsAssumption DEF InHand, TypeOK
  <2> QED
    BY <2>2, FiniteParts, FS_RemoveElement
<1>5. ASSUME NEW w \in Workers, Discard(w)
      PROVE  Accounted'
  <2>1. hand[w] \in Jobs /\ fate[hand[w]] = "accepted"
    BY <1>5, Lost DEF Discard, Step, BeforeRun, Handling, Holding
  <2>2. Dropped' = Dropped \cup {hand[w]} /\ hand[w] \notin Dropped
    BY <1>5, <2>1 DEF Discard, Dropped, TypeOK
  <2>3. Cardinality(Dropped') = Cardinality(Dropped) + 1
    BY <2>2, FiniteParts, FS_AddElement
  <2>4. Cardinality(InHand') = Cardinality(InHand) - 1
    BY <1>4, <1>5, <2>1 DEF Discard
  <2> QED
    BY <1>5, <2>3, <2>4, FiniteParts DEF Discard, queueVars, metricVars, Accounted
<1>6. ASSUME NEW w \in Workers, Run(w)
      PROVE  Accounted'
  <2>1. hand[w] \in Jobs /\ fate[hand[w]] = "accepted"
    BY <1>6, Lost DEF Run, Step, BeforeRun, Handling, Holding
  <2>2. \A j \in Jobs : fate'[j] = "dropped" <=> fate[j] = "dropped"
    BY <1>6, <2>1 DEF Run, TypeOK
  <2> QED
    BY <1>1, <1>6, <2>2 DEF Run, queueVars, metricVars
<1>7. ASSUME NEW w \in Workers, Count(w)
      PROVE  Accounted'
  <2>1. hand[w] \in Jobs
    BY <1>7 DEF Count, Step, Handling, Holding
  <2>2. Cardinality(InHand') = Cardinality(InHand) - 1
    BY <1>4, <1>7, <2>1 DEF Count
  <2>3. completed' + errors' = completed + errors + 1
    BY <1>7, FiniteParts DEF Count
  <2>4. Dropped' = Dropped /\ UNCHANGED <<jobs, accepted>>
    BY <1>7 DEF Count, Dropped, historyVars, queueVars
  <2>5. completed' \in Nat /\ errors' \in Nat
    BY <1>7, FiniteParts DEF Count
  <2> QED
    BY <2>2, <2>3, <2>4, <2>5, FiniteParts DEF Accounted
<1>8. ASSUME NEW w \in Workers, Exhausted(w) \/ GoOn(w) \/ Acquire(w) \/ Release(w)
      PROVE  UNCHANGED <<jobs, hand, completed, errors, accepted, fate>>
  BY <1>8 DEF Exhausted, GoOn, Acquire, Release, queueVars, metricVars, historyVars
<1>9. ASSUME NEW j \in Jobs, SubmitFull(j) \/ SubmitClosed(j) \/ Answer(j) \/ GiveUp(j)
      PROVE  UNCHANGED <<jobs, hand, completed, errors, accepted, fate>>
  BY <1>9 DEF SubmitFull, SubmitClosed, Answer, GiveUp, queueVars, workerVars, metricVars,
              historyVars
<1>10. ASSUME BeginDrain \/ StopQueue
       PROVE  UNCHANGED <<jobs, hand, completed, errors, accepted, fate>>
  BY <1>10 DEF BeginDrain, StopQueue, SeeEmpty, SeeIdle, SeeRunning, DrainTimeout, Cancel,
               Close, Joined, Advance, queueVars, workerVars, metricVars, historyVars
<1>11. ASSUME UNCHANGED vars
       PROVE  UNCHANGED <<jobs, hand, completed, errors, accepted, fate>>
  BY <1>11 DEF vars, queueVars, workerVars, metricVars, historyVars
<1> QED
  BY <1>1, <1>2, <1>3, <1>5, <1>6, <1>7, <1>8, <1>9, <1>10, <1>11 DEF Next, Call, Work

\* Submit appends a job that is new to both sequences, Receive takes the oldest
\* of the channel, and no other step touches either.
LEMMA OrderStep ==
  ASSUME QueueInv, ChannelIsSuffix, AcceptedOnce, AcceptedHasFate, [Next]_vars
  PROVE  ChannelIsSuffix' /\ AcceptedOnce' /\ AcceptedHasFate'
<1> USE DEF QueueInv
<1>1. ASSUME UNCHANGED <<jobs, accepted>>,
             \A j \in Jobs : fate[j] # "none" => fate'[j] # "none"
      PROVE  ChannelIsSuffix' /\ AcceptedOnce' /\ AcceptedHasFate'
  <2>1. \A i \in 1 .. Len(accepted) : accepted[i] \in Jobs
    BY DEF TypeOK
  <2> QED
    BY <1>1, <2>1 DEF ChannelIsSuffix, AcceptedOnce, AcceptedHasFate
<1>2. ASSUME NEW j \in Jobs, Submit(j)
      PROVE  ChannelIsSuffix' /\ AcceptedOnce' /\ AcceptedHasFate'
  <2>1. fate[j] = "none"
    BY <1>2 DEF Submit, Unsubmitted
  <2>2. /\ Len(jobs') = Len(jobs) + 1 /\ jobs'[Len(jobs) + 1] = j
        /\ \A i \in 1 .. Len(jobs) : jobs'[i] = jobs[i]
        /\ Len(jobs) \in Nat
    BY <1>2, AppendFacts DEF Submit, TypeOK
  <2>3. /\ Len(accepted') = Len(accepted) + 1 /\ accepted'[Len(accepted) + 1] = j
        /\ \A i \in 1 .. Len(accepted) : accepted'[i] = accepted[i]
        /\ Len(accepted) \in Nat
    BY <1>2, AppendFacts DEF Submit, TypeOK
  <2>4. \A i \in 1 .. Len(accepted) : accepted[i] \in Jobs /\ accepted[i] # j
    BY <2>1 DEF TypeOK, AcceptedHasFate
  <2>5. ChannelIsSuffix'
    <3>1. Len(jobs') <= Len(accepted')
      BY <2>2, <2>3 DEF ChannelIsSuffix
    <3>2. ASSUME NEW i \in 1 .. Len(jobs')
          PROVE  jobs'[i] = accepted'[Len(accepted') - Len(jobs') + i]
      <4>1. CASE i = Len(jobs) + 1
        BY <2>2, <2>3, <4>1
      <4>2. CASE i \in 1 .. Len(jobs)
        <5>1. Len(accepted) - Len(jobs) + i \in 1 .. Len(accepted)
          BY <2>2, <2>3, <4>2 DEF ChannelIsSuffix
        <5> QED
          BY <2>2, <2>3, <4>2, <5>1 DEF ChannelIsSuffix
      <4> QED
        BY <2>2, <4>1, <4>2
    <3> QED
      BY <3>1, <3>2 DEF ChannelIsSuffix
  <2>6. AcceptedOnce'
    BY <2>3, <2>4 DEF AcceptedOnce
  <2>7. AcceptedHasFate'
    BY <1>2, <2>3, <2>4 DEF Submit, TypeOK, AcceptedHasFate
  <2> QED
    BY <2>5, <2>6, <2>7
<1>3. ASSUME NEW w \in Workers, Receive(w)
      PROVE  ChannelIsSuffix' /\ AcceptedOnce' /\ AcceptedHasFate'
  <2>1. /\ Len(jobs) \in Nat \ {0} /\ Len(jobs') = Len(jobs) - 1
        /\ \A i \in 1 .. Len(jobs) - 1 : jobs'[i] = jobs[i + 1]
    BY <1>3, TailFacts DEF Receive, TypeOK
  <2>2. UNCHANGED <<accepted, fate>> /\ Len(accepted) \in Nat
    BY <1>3 DEF Receive, historyVars, TypeOK
  <2>3. ASSUME NEW i \in 1 .. Len(jobs')
        PROVE  jobs'[i] = accepted'[Len(accepted') - Len(jobs') + i]
    <3>1. i + 1 \in 1 .. Len(jobs) /\ jobs'[i] = jobs[i + 1]
      BY <2>1
    <3>2. jobs[i + 1] = accepted[Len(accepted) - Len(jobs) + (i + 1)]
      BY <3>1 DEF ChannelIsSuffix
    <3>3. Len(accepted) - Len(jobs) + (i + 1) = Len(accepted') - Len(jobs') + i
      BY <2>1, <2>2
    <3> QED
      BY <2>2, <3>1, <3>2, <3>3
  <2>4. Len(jobs') <= Len(accepted')
    BY <2>1, <2>2 DEF ChannelIsSuffix
  <2> QED
    BY <2>2, <2>3, <2>4 DEF ChannelIsSuffix, AcceptedOnce, AcceptedHasFate
<1>4. ASSUME NEW w \in Workers, Discard(w) \/ Run(w)
      PROVE  ChannelIsSuffix' /\ AcceptedOnce' /\ AcceptedHasFate'
  <2>1. \A j \in Jobs : fate[j] # "none" => fate'[j] # "none"
    BY <1>4 DEF Discard, Run, TypeOK
  <2> QED
    BY <1>1, <1>4, <2>1 DEF Discard, Run, queueVars
<1>5. ASSUME NEW w \in Workers,
             Exhausted(w) \/ GoOn(w) \/ Acquire(w) \/ Release(w) \/ Count(w)
      PROVE  UNCHANGED <<jobs, accepted, fate>>
  BY <1>5 DEF Exhausted, GoOn, Acquire, Release, Count, queueVars, historyVars
<1>6. ASSUME NEW j \in Jobs, SubmitFull(j) \/ SubmitClosed(j) \/ Answer(j) \/ GiveUp(j)
      PROVE  UNCHANGED <<jobs, accepted, fate>>
  BY <1>6 DEF SubmitFull, SubmitClosed, Answer, GiveUp, queueVars, historyVars
<1>7. ASSUME BeginDrain \/ StopQueue
      PROVE  UNCHANGED <<jobs, accepted, fate>>
  BY <1>7 DEF BeginDrain, StopQueue, SeeEmpty, SeeIdle, SeeRunning, DrainTimeout, Cancel,
              Close, Joined, Advance, queueVars, historyVars
<1>8. ASSUME UNCHANGED vars
      PROVE  UNCHANGED <<jobs, accepted, fate>>
  BY <1>8 DEF vars, queueVars, historyVars
<1> QED
  BY <1>1, <1>2, <1>3, <1>4, <1>5, <1>6, <1>7, <1>8 DEF Next, Call, Work

\* The accepted jobs that have left the channel are those before its first, and
\* what is left of a job that has neither ended nor waits is its worker's hand.
LEMMA OrderGivesFIFO == HistoryInv => FIFO
<1> SUFFICES ASSUME HistoryInv,
                    NEW i \in 1 .. Len(accepted), NEW k \in 1 .. Len(accepted),
                    i < k, fate[accepted[k]] # "accepted", fate[accepted[i]] = "accepted"
             PROVE  accepted[i] \in InHand
  BY DEF FIFO
<1> USE DEF HistoryInv, QueueInv
<1> DEFINE first == Len(accepted) - Len(jobs)
<1>1. /\ Len(accepted) \in Nat /\ Len(jobs) \in Nat /\ first \in Nat
      /\ accepted[i] \in Jobs /\ i \in Nat /\ k \in Nat
  BY DEF TypeOK, ChannelIsSuffix
<1>2. k <= first
  <2> SUFFICES ASSUME k > first PROVE FALSE
    BY <1>1
  <2>1. k - first \in 1 .. Len(jobs) /\ first + (k - first) = k
    BY <1>1
  <2>2. jobs[k - first] = accepted[k]
    BY <2>1 DEF ChannelIsSuffix
  <2> QED
    BY <2>1, <2>2, Lost
<1>3. accepted[i] \notin Pending
  <2> SUFFICES ASSUME NEW m \in 1 .. Len(jobs), jobs[m] = accepted[i] PROVE FALSE
    BY DEF Pending
  <2>1. first + m \in 1 .. Len(accepted) /\ first + m # i
    BY <1>1, <1>2
  <2>2. jobs[m] = accepted[first + m]
    BY DEF ChannelIsSuffix
  <2> QED
    BY <2>1, <2>2 DEF AcceptedOnce
<1>4. \E w \in Workers : wpc[w] \in BeforeRun /\ hand[w] = accepted[i]
  BY <1>1, <1>3 DEF NothingLost
<1> QED
  BY <1>1, <1>4, JobsAssumption DEF InHand

\* Nothing is accepted and nothing is dropped at the start.
LEMMA HistoryInvInit == Init => HistoryInv
<1> SUFFICES ASSUME Init PROVE HistoryInv
  OBVIOUS
<1>1. InHand = {} /\ Dropped = {} /\ Len(jobs) = 0 /\ Len(accepted) = 0
  BY DEF Init, InHand, Dropped
<1>2. Accounted
  BY <1>1, FS_EmptySet DEF Init, Accounted
<1>3. ChannelIsSuffix /\ AcceptedOnce /\ AcceptedHasFate
  BY <1>1 DEF ChannelIsSuffix, AcceptedOnce, AcceptedHasFate
<1> QED
  BY <1>2, <1>3, QueueInvInit DEF HistoryInv

\* The accounts and the order of the channel are kept by every step.
THEOREM HistoryInvariant == Spec => []HistoryInv
<1>1. Init => HistoryInv
  BY HistoryInvInit
<1>2. HistoryInv /\ [Next]_vars => HistoryInv'
  BY QueueInvStep, AccountedStep, OrderStep DEF HistoryInv
<1> QED
  BY <1>1, <1>2, PTL DEF Spec

\* The metrics account for every job Submit returned true for: it is in the
\* channel, in a worker's hand, counted as completed or failed, or dropped by the
\* shutdown (queue.go, worker and Stats).
THEOREM MetricsAccountForJobs == Spec => []Accounted
<1>1. HistoryInv => Accounted
  BY DEF HistoryInv
<1> QED
  BY <1>1, HistoryInvariant, PTL

\* No job is overtaken while it waits: when one has ended, every job accepted
\* before it has ended or is in the hand of a worker.
THEOREM JobsEndInOrder == Spec => []FIFO
BY OrderGivesFIFO, HistoryInvariant, PTL
=============================================================================
