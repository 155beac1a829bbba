------------------------------ MODULE Analysis ------------------------------
(***************************************************************************)
(* The analyses of sessions: those a user asks for on a page, through the  *)
(* API or by a command, those a capture asks for when a session had many   *)
(* errors, and the daily task's.  Each loads the session, runs the         *)
(* analyzer and the modules it was asked for in parallel and stores one    *)
(* row, while sessions grow and are deleted and other runs do the same.    *)
(***************************************************************************)
EXTENDS Naturals, Sequences, FiniteSets

CONSTANTS
  Sessions,
  DailyRuns, PageRuns, CommandRuns, CaptureRuns,  \* the goroutines that analyse
  Registered,     \* the modules beside the core one
  MaxIterations,  \* rounds of tool calls the analyzer grants its model
  MinToolCalls, ErrorThreshold,
  Lookback,
  MaxTime, MaxMessages, MaxRows, MaxFaults  \* bounds

Runs == DailyRuns \cup PageRuns \cup CommandRuns \cup CaptureRuns
Core == "session_quality"
Unknown == "nosuch"

AnalysisAssumption ==
  /\ Sessions # {} /\ MaxTime \in Nat /\ MaxFaults \in Nat
  /\ DailyRuns \cap (PageRuns \cup CommandRuns \cup CaptureRuns) = {}
  /\ MaxIterations \in Nat /\ MinToolCalls \in Nat /\ ErrorThreshold \in 0..100
  /\ Core \notin Registered /\ Unknown \notin Registered

VARIABLES
  clock,    \* seconds
  content,  \* the messages of the sessions that exist
  created,
  rows,     \* session_analyses, by their ids
  saved,    \* how many rows there have been; no two have the same id
  pc,
  job,      \* what each run holds
  todo,     \* the candidates the daily runs have not come to
  mishaps

analysisVars == <<clock, content, created, rows, saved, pc, job, todo, mishaps>>

Here == DOMAIN content
Messages == {"text", "ok", "error"}
Idle == [session |-> CHOOSE s \in Sessions : TRUE, asked |-> {}, after |-> {}, at |-> 0,
         unseen |-> FALSE, rounds |-> 0, ended |-> {}, results |-> {}]

AnalysisTypeOK ==
  /\ clock \in 0..MaxTime /\ mishaps \in 0..MaxFaults
  /\ Here \subseteq Sessions /\ DOMAIN created = Here
  /\ \A s \in Here : content[s] \in Seq(Messages) /\ created[s] \in 0..MaxTime
  /\ saved \in Nat /\ DOMAIN rows \subseteq 1..saved
  /\ \A i \in DOMAIN rows : rows[i].session \in Here /\ rows[i].run \in Runs
  /\ pc \in [Runs -> {"idle", "next", "load", "stamp", "run"}]
  /\ todo \in [DailyRuns -> SUBSET [session : Sessions, calls : Nat, errors : Nat]]

AnalysisInit ==
  /\ clock = 0 /\ mishaps = 0
  /\ content = [s \in Sessions |-> <<"error">>] /\ created = [s \in Sessions |-> 0]
  /\ rows = << >> /\ saved = 0
  /\ pc = [r \in Runs |-> "idle"] /\ job = [r \in Runs |-> Idle]
  /\ todo = [r \in DailyRuns |-> {}]

Step(r, from, to) == pc[r] = from /\ pc' = [pc EXCEPT ![r] = to]
\* A daily run goes on with its next candidate, any other run is over.
After(r) == IF r \in DailyRuns THEN "next" ELSE "idle"
GiveUp(r) == pc' = [pc EXCEPT ![r] = After(r)] /\ job' = [job EXCEPT ![r] = Idle]

-----------------------------------------------------------------------------
(* Which sessions are worth it.                                            *)

CallsOf(msgs) == Cardinality({i \in DOMAIN msgs : msgs[i] # "text"})
ErrorsOf(msgs) == Cardinality({i \in DOMAIN msgs : msgs[i] = "error"})

\* Mutation of ShouldAutoAnalyze: more than the threshold instead of at least it.
ShouldAutoAnalyzeAbove(msgs) ==
  /\ msgs # << >> /\ CallsOf(msgs) >= MinToolCalls
  /\ CallsOf(msgs) > 0 /\ ErrorsOf(msgs) * 100 > ErrorThreshold * CallsOf(msgs)

\* Without a call the rate is 0/0, which is not at least anything.
ShouldAutoAnalyze(msgs) ==
  /\ msgs # << >> /\ CallsOf(msgs) >= MinToolCalls
  /\ CallsOf(msgs) > 0 /\ ErrorsOf(msgs) * 100 >= ErrorThreshold * CallsOf(msgs)

\* The daily task looks at the columns, and lets a session without calls pass.
PassesThresholds(c) ==
  /\ MinToolCalls > 0 => c.calls >= MinToolCalls
  /\ ErrorThreshold > 0 /\ c.calls > 0 => c.errors * 100 >= ErrorThreshold * c.calls

-----------------------------------------------------------------------------
(* The stored rows.                                                        *)

RowsOf(s) == {i \in DOMAIN rows : rows[i].session = s}

\* Mutation of GetAnalysisBySession: without DESC.
OldestOf(s) == {i \in RowsOf(s) : \A j \in RowsOf(s) : rows[i].at <= rows[j].at}

\* The rows the query may return: seconds are all that created_at tells.
GetAnalysisBySession(s) == {i \in RowsOf(s) : \A j \in RowsOf(s) : rows[i].at >= rows[j].at}

-----------------------------------------------------------------------------
(* Who asks for an analysis.                                               *)

Asks(r, s, modules) == job' = [job EXCEPT ![r] = [Idle EXCEPT !.session = s, !.asked = modules]]

\* The daily task asks for none; it knows whether it could look for the session's rows.
AsksDaily(r, s, failed) == job' = [job EXCEPT ![r] = [Idle EXCEPT !.session = s, !.unseen = failed]]

\* The analyzer is there, so the core module is always offered.
AvailableModules == Registered \cup {Core}

\* A page asks for the modules that are ticked; one it was given before may be gone.
HandleRunAnalysis(r) ==
  /\ Step(r, "idle", "load")
  /\ \E s \in Sessions, modules \in SUBSET (AvailableModules \cup {Unknown}) : Asks(r, s, modules)
  /\ UNCHANGED <<clock, content, created, rows, saved, todo, mishaps>>

\* The API and the command ask for none.
RunAnalyze(r) ==
  /\ Step(r, "idle", "load")
  /\ \E s \in Here : Asks(r, s, {})
  /\ UNCHANGED <<clock, content, created, rows, saved, todo, mishaps>>

\* A capture has just saved the session, with one more message.
PostCapture(r, s) ==
  /\ s \in Here /\ Len(content[s]) < MaxMessages /\ pc[r] = "idle"
  /\ \E m \in Messages : content' = [content EXCEPT ![s] = Append(@, m)]
  /\ IF ShouldAutoAnalyze(content'[s])
     THEN Step(r, "idle", "load") /\ Asks(r, s, {})
     ELSE UNCHANGED <<pc, job>>
  /\ UNCHANGED <<clock, created, rows, saved, todo, mishaps>>

\* The candidates, with the counts their columns have now.
ListCandidates(r) ==
  /\ Step(r, "idle", "next")
  /\ LET recent == {s \in Here : created[s] + Lookback > clock}
         summary(s) == [session |-> s, calls |-> CallsOf(content[s]), errors |-> ErrorsOf(content[s])]
     IN todo' = [todo EXCEPT ![r] = {summary(s) : s \in recent}]
  /\ UNCHANGED <<clock, content, created, rows, saved, job, mishaps>>

\* Mutation of NextCandidate: whether the session has an analysis is not looked up.
NextCandidateAgain(r) ==
  /\ pc[r] = "next"
  /\ \E c \in todo[r] :
       /\ todo' = [todo EXCEPT ![r] = @ \ {c}]
       /\ IF PassesThresholds(c)
          THEN Step(r, "next", "load") /\ AsksDaily(r, c.session, FALSE)
          ELSE UNCHANGED <<pc, job>>
  /\ UNCHANGED <<clock, content, created, rows, saved, mishaps>>

\* In the order of the list, which any may be.  A failed analysis is a row too: it is
\* not tried again.  But the error of the look for rows is ignored, and one that fails
\* is as good as one that finds none.
NextCandidate(r) ==
  /\ pc[r] = "next"
  /\ \E c \in todo[r], failed \in BOOLEAN :
       /\ todo' = [todo EXCEPT ![r] = @ \ {c}]
       /\ IF failed THEN mishaps < MaxFaults /\ mishaps' = mishaps + 1 ELSE UNCHANGED mishaps
       /\ IF (failed \/ RowsOf(c.session) = {}) /\ PassesThresholds(c)
          THEN Step(r, "next", "load") /\ AsksDaily(r, c.session, failed)
          ELSE UNCHANGED <<pc, job>>
  /\ UNCHANGED <<clock, content, created, rows, saved>>

\* No candidate is left, or the scheduler is stopped.
RunEnds(r) ==
  /\ Step(r, "next", "idle")
  /\ todo' = [todo EXCEPT ![r] = {}]
  /\ UNCHANGED <<clock, content, created, rows, saved, job, mishaps>>

-----------------------------------------------------------------------------
(* Analyze.                                                                *)

\* Nothing is stored of a session that is not there, cannot be read or has no messages.
Load(r) ==
  LET s == job[r].session IN
  /\ pc[r] = "load"
  /\ IF s \in Here /\ content[s] # << >>
     THEN \/ /\ Step(r, "load", "stamp")
             /\ job' = [job EXCEPT ![r].after = RowsOf(s)]
             /\ UNCHANGED mishaps
          \/ GiveUp(r) /\ mishaps < MaxFaults /\ mishaps' = mishaps + 1
     ELSE GiveUp(r) /\ UNCHANGED mishaps
  /\ UNCHANGED <<clock, content, created, rows, saved, todo>>

\* The diagnostics are done; created_at is taken before anything is run.
Stamp(r) ==
  /\ Step(r, "stamp", "run")
  /\ job' = [job EXCEPT ![r].at = clock]
  /\ UNCHANGED <<clock, content, created, rows, saved, todo, mishaps>>

runCore(asked) == asked = {} \/ Core \in asked
\* What is run: names that are not registered are passed over.
ToRun(asked) == (IF runCore(asked) THEN {Core} ELSE {}) \cup (asked \cap Registered)

\* Mutation of Collect: a goroutine appends to the slice as it was before the others did.
CollectLast(r, m) ==
  job' = [job EXCEPT ![r].ended = @ \cup {m}, ![r].results = {m}]

\* A goroutine is done; what it reports, or its error, goes with the others under the lock.
Collect(r, m) ==
  job' = [job EXCEPT ![r].ended = @ \cup {m}, ![r].results = @ \cup {m}]

Running(r) == IF pc[r] = "run" THEN ToRun(job[r].asked) \ job[r].ended ELSE {}

\* One call of the API.  The tools its answer asks for are run and their results go
\* with the next call; at the last call they are not, and what text there is counts.
\* The context may have ended, the API fail, the report be unusable: that ends it too.
Converse(r) ==
  /\ Core \in Running(r)
  /\ \/ job[r].rounds < MaxIterations /\ job' = [job EXCEPT ![r].rounds = @ + 1]
     \/ Collect(r, Core)
  /\ UNCHANGED <<clock, content, created, pc, rows, saved, todo, mishaps>>

\* A module's failure is a result too.
ModuleEnds(r, m) ==
  /\ m \in Running(r) \ {Core}
  /\ Collect(r, m)
  /\ UNCHANGED <<clock, content, created, pc, rows, saved, todo, mishaps>>

\* The row of a run: with what it lacks of what was run, the rows there were when its
\* session was loaded, and whether the look for rows had failed.
Row(r) ==
  [session |-> job[r].session, run |-> r, at |-> job[r].at, after |-> job[r].after, unseen |-> job[r].unseen,
   lacks |-> ToRun(job[r].asked) \ job[r].results]

\* The row is stored whatever came of it, unless the session has been deleted
\* meanwhile, or the statement fails.
SaveAnalysis(r) ==
  /\ pc[r] = "run" /\ Running(r) = {}
  /\ GiveUp(r)
  /\ \/ /\ job[r].session \in Here
        /\ saved' = saved + 1
        /\ rows' = [i \in DOMAIN rows \cup {saved'} |-> IF i = saved' THEN Row(r) ELSE rows[i]]
        /\ UNCHANGED mishaps
     \/ /\ job[r].session \notin Here
        /\ UNCHANGED <<rows, saved, mishaps>>
     \/ /\ mishaps < MaxFaults /\ mishaps' = mishaps + 1
        /\ UNCHANGED <<rows, saved>>
  /\ UNCHANGED <<clock, content, created, todo>>

-----------------------------------------------------------------------------
(* The rest.                                                               *)

\* The rows of a session go with it.
DeleteSession(s) ==
  /\ s \in Here /\ mishaps < MaxFaults /\ mishaps' = mishaps + 1
  /\ content' = [t \in Here \ {s} |-> content[t]] /\ created' = [t \in Here \ {s} |-> created[t]]
  /\ rows' = [i \in DOMAIN rows \ RowsOf(s) |-> rows[i]]
  /\ UNCHANGED <<clock, saved, pc, job, todo>>

SaveSession(s) ==
  /\ s \in Sessions \ Here
  /\ \E msgs \in {<< >>, <<"error">>} : content' = [t \in Here \cup {s} |-> IF t = s THEN msgs ELSE content[t]]
  /\ created' = [t \in Here \cup {s} |-> IF t = s THEN clock ELSE created[t]]
  /\ UNCHANGED <<clock, rows, saved, pc, job, todo, mishaps>>

PassTime ==
  /\ clock < MaxTime /\ clock' = clock + 1
  /\ UNCHANGED <<content, created, rows, saved, pc, job, todo, mishaps>>

Analyze(r) == Load(r) \/ Stamp(r) \/ Converse(r) \/ (\E m \in Registered : ModuleEnds(r, m)) \/ SaveAnalysis(r)

AnalysisNext ==
  \/ PassTime
  \/ \E s \in Sessions : DeleteSession(s) \/ SaveSession(s)
  \/ \E r \in Runs : Cardinality(DOMAIN rows) < MaxRows /\ Analyze(r)
  \/ \E r \in PageRuns : HandleRunAnalysis(r)
  \/ \E r \in CommandRuns : RunAnalyze(r)
  \/ \E r \in CaptureRuns, s \in Sessions : PostCapture(r, s)
  \/ \E r \in DailyRuns : ListCandidates(r) \/ NextCandidate(r) \/ RunEnds(r)

AnalysisSpec == AnalysisInit /\ [][AnalysisNext]_analysisVars

-----------------------------------------------------------------------------
(* Properties.                                                             *)

\* The daily task pays for a session once, unless its look for rows failed: between
\* that and the saving of its own row lie the whole analysis, and those of the others.
DailyOnce == \A i, j \in DOMAIN rows :
  i < j /\ {rows[i].run, rows[j].run} \subseteq DailyRuns /\ rows[i].session = rows[j].session => rows[j].unseen

\* The analysis shown of a session is never one that had been stored when another
\* stored one began, however long each took; but for those of the same second.
LatestShown == \A s \in Here : \A i \in GetAnalysisBySession(s) :
  \A j \in RowsOf(s) : i \in rows[j].after => rows[i].at = rows[j].at

\* Every row has the results of all that was to be run, in whichever order the
\* goroutines ended.
RowsAreWhole == \A i \in DOMAIN rows : rows[i].lacks = {}

\* The two ways a session is found worth an analysis agree on those with tool calls.
GatesAgree == \A s \in Here :
  LET msgs == content[s] IN
  CallsOf(msgs) > 0 =>
    (ShouldAutoAnalyze(msgs) <=> PassesThresholds([calls |-> CallsOf(msgs), errors |-> ErrorsOf(msgs)]))

AnalysesRight == DailyOnce /\ LatestShown /\ RowsAreWhole /\ GatesAgree
=============================================================================
