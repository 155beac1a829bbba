----------------------------- MODULE StallLedger -----------------------------
(***************************************************************************)
(* The ledger of stuck sessions: the stall_detector task reads the tool    *)
(* parts and errored messages of OpenCode's database, upserts what it      *)
(* found into session_stalls, and seals the rows it no longer finds live.  *)
(* The scheduler may run the task twice at a time (at startup, or when a   *)
(* run is longer than the period), and every statement is a step.          *)
(*                                                                         *)
(* A key stands for a row's (provider_session_id, started_at, root_cause); *)
(* time 0 is NULL.                                                         *)
(***************************************************************************)
EXTENDS Naturals, FiniteSets

CONSTANTS
  Tools,       \* keys of tool calls
  Messages,    \* keys of messages with an error
  Runs,        \* executions of the task at the same time
  Threshold,   \* how long a tool runs before it is stalled
  Lookback,    \* how far back errored messages are read
  MaxTime,     \* bound on the clock
  MaxMishaps   \* bound on failing statements and crashes

Keys == Tools \cup Messages

ASSUME StallLedgerAssumption ==
  /\ Tools \cap Messages = {}
  /\ Threshold \in Nat /\ Lookback \in Nat /\ MaxTime \in Nat \ {0} /\ MaxMishaps \in Nat

VARIABLES
  now,
  status,     \* OpenCode's tool parts and messages
  started,    \* state.time.start of the part, time.created of the message
  completed,  \* time.completed of the message
  row,        \* session_stalls
  pc,
  at,         \* the instant each run took as now
  found,      \* what a run found and has not upserted yet: key to ended_at
  live,       \* its LiveKeys
  open,       \* the rows it listed as live and is to seal
  mishaps

sourceVars == <<now, status, started, completed>>
vars == <<sourceVars, row, pc, at, found, live, open, mishaps>>

Row == [exists : BOOLEAN, ended : Nat, duration : Nat]
NoRow == [exists |-> FALSE, ended |-> 0, duration |-> 0]
Nothing == [k \in {} |-> 0]

TypeOK ==
  /\ now \in 1 .. MaxTime
  /\ status \in [Keys -> {"absent", "running", "errored", "over"}]
  /\ started \in [Keys -> 0 .. now] /\ completed \in [Keys -> 0 .. now]
  /\ row \in [Keys -> Row]
  /\ pc \in [Runs -> {"idle", "errors", "upsert", "seal"}]
  /\ at \in [Runs -> 0 .. now]
  /\ \A r \in Runs : DOMAIN found[r] \subseteq Keys
  /\ live \in [Runs -> SUBSET Tools] /\ open \in [Runs -> SUBSET Keys]
  /\ mishaps \in 0 .. MaxMishaps

Init ==
  /\ now = 1
  /\ status = [k \in Keys |-> "absent"]
  /\ started = [k \in Keys |-> 0] /\ completed = [k \in Keys |-> 0]
  /\ row = [k \in Keys |-> NoRow]
  /\ pc = [r \in Runs |-> "idle"]
  /\ at = [r \in Runs |-> 0]
  /\ found = [r \in Runs |-> Nothing]
  /\ live = [r \in Runs |-> {}] /\ open = [r \in Runs |-> {}]
  /\ mishaps = 0

-----------------------------------------------------------------------------
(* OpenCode.                                                               *)

Occurs(k, from, to) == status[k] = from /\ status' = [status EXCEPT ![k] = to]

SourceStep == UNCHANGED <<row, pc, at, found, live, open, mishaps>>

StartTool(k) ==
  /\ k \in Tools /\ Occurs(k, "absent", "running")
  /\ started' = [started EXCEPT ![k] = now]
  /\ UNCHANGED <<now, completed>> /\ SourceStep

FinishTool(k) ==
  /\ k \in Tools /\ Occurs(k, "running", "over")
  /\ UNCHANGED <<now, started, completed>> /\ SourceStep

\* A message gets its error, and its completion time with it, later or never.
FailMessage(k) ==
  /\ k \in Messages
  /\ \/ Occurs(k, "absent", "errored") /\ UNCHANGED completed
     \/ Occurs(k, "absent", "over") /\ completed' = [completed EXCEPT ![k] = now]
  /\ started' = [started EXCEPT ![k] = now]
  /\ UNCHANGED now /\ SourceStep

CompleteMessage(k) ==
  /\ k \in Messages /\ started[k] < now /\ Occurs(k, "errored", "over")
  /\ completed' = [completed EXCEPT ![k] = now]
  /\ UNCHANGED <<now, started>> /\ SourceStep

Tick ==
  /\ now < MaxTime /\ now' = now + 1
  /\ UNCHANGED <<status, started, completed>> /\ SourceStep

-----------------------------------------------------------------------------
(* A run of the task.                                                      *)

Goto(r, from, to) == pc[r] = from /\ pc' = [pc EXCEPT ![r] = to]

Return(r) ==
  /\ pc' = [pc EXCEPT ![r] = "idle"]
  /\ at' = [at EXCEPT ![r] = 0]
  /\ found' = [found EXCEPT ![r] = Nothing]
  /\ live' = [live EXCEPT ![r] = {}]
  /\ open' = [open EXCEPT ![r] = {}]

\* Mutation of ScanLive: the comparison with the cutoff the other way round.
ScanLiveYoung(r) ==
  LET young == { k \in Tools : status[k] = "running" /\ started[k] + Threshold > now } IN
  /\ Goto(r, "idle", "errors")
  /\ at' = [at EXCEPT ![r] = now]
  /\ live' = [live EXCEPT ![r] = young]
  /\ found' = [found EXCEPT ![r] = [k \in young |-> 0]]
  /\ UNCHANGED <<sourceVars, row, open, mishaps>>

\* scanLiveStalls.
ScanLive(r) ==
  LET stalled == { k \in Tools : status[k] = "running" /\ started[k] + Threshold < now } IN
  /\ Goto(r, "idle", "errors")
  /\ at' = [at EXCEPT ![r] = now]
  /\ live' = [live EXCEPT ![r] = stalled]
  /\ found' = [found EXCEPT ![r] = [k \in stalled |-> 0]]
  /\ UNCHANGED <<sourceVars, row, open, mishaps>>

\* scanErroredMessages: a message without a completion time has no end.
ScanErrored(r) ==
  LET errored == { k \in Messages : /\ status[k] \in {"errored", "over"}
                                    /\ started[k] + Lookback >= at[r] } IN
  /\ Goto(r, "errors", "upsert")
  /\ found' = [found EXCEPT ![r] =
                 [k \in DOMAIN @ \cup errored |-> IF k \in errored THEN completed[k] ELSE 0]]
  /\ UNCHANGED <<sourceVars, row, at, live, open, mishaps>>

\* The duration a run computes: of a tool up to now, of a message up to its end.
Duration(k, ended, moment) ==
  IF k \in Tools THEN moment - started[k]
  ELSE IF ended = 0 THEN 0 ELSE ended - started[k]

\* UpsertStall keeps a stored end or duration when the new one is NULL.
Upserted(old, ended, duration) ==
  [exists   |-> TRUE,
   ended    |-> IF ended # 0 THEN ended ELSE old.ended,
   duration |-> IF duration # 0 THEN duration ELSE old.duration]

Rest(r, k) == [j \in DOMAIN found[r] \ {k} |-> found[r][j]]

Upsert(r) ==
  /\ pc[r] = "upsert"
  /\ \E k \in DOMAIN found[r] :
       /\ row' = [row EXCEPT ![k] =
                    Upserted(@, found[r][k], Duration(k, found[r][k], at[r]))]
       /\ found' = [found EXCEPT ![r] = Rest(r, k)]
  /\ UNCHANGED <<sourceVars, pc, at, live, open, mishaps>>

\* Mutation of ListLive: the test of LiveKeys is negated.
ListLiveFound(r) ==
  /\ DOMAIN found[r] = {} /\ Goto(r, "upsert", "seal")
  /\ at' = [at EXCEPT ![r] = now]
  /\ open' = [open EXCEPT ![r] =
                { k \in Keys : row[k].exists /\ row[k].ended = 0 } \cap live[r]]
  /\ UNCHANGED <<sourceVars, row, found, live, mishaps>>

\* ListLiveStalls, and the rows among them this run did not find live.
ListLive(r) ==
  /\ DOMAIN found[r] = {} /\ Goto(r, "upsert", "seal")
  /\ at' = [at EXCEPT ![r] = now]
  /\ open' = [open EXCEPT ![r] =
                { k \in Keys : row[k].exists /\ row[k].ended = 0 } \ live[r]]
  /\ UNCHANGED <<sourceVars, row, found, live, mishaps>>

\* Mutations of Sealed: the duration is left as it was; two arguments of the
\* UPDATE are swapped.
SealedOnly(k, old, moment) == IF old.ended = 0 THEN [old EXCEPT !.ended = moment] ELSE old
SealedSwapped(k, old, moment) ==
  IF old.ended = 0 THEN [old EXCEPT !.ended = k, !.duration = moment] ELSE old

\* SealStall: an open row gets an end, and its duration anew.
Sealed(k, old, moment) ==
  IF old.ended = 0
  THEN [old EXCEPT !.ended = moment, !.duration = moment - started[k]]
  ELSE old

Seal(r) ==
  /\ pc[r] = "seal"
  /\ \E k \in open[r] :
       /\ row' = [row EXCEPT ![k] = Sealed(k, @, at[r])]
       /\ open' = [open EXCEPT ![r] = @ \ {k}]
  /\ UNCHANGED <<sourceVars, pc, at, found, live, mishaps>>

Done(r) ==
  /\ pc[r] = "seal" /\ open[r] = {}
  /\ Return(r)
  /\ UNCHANGED <<sourceVars, row, mishaps>>

\* An upsert or a seal fails and the run goes on with the next; listing the live
\* rows fails, a scan fails or the process dies, and the run ends.
StatementFails(r) ==
  /\ mishaps < MaxMishaps /\ mishaps' = mishaps + 1
  /\ \/ /\ pc[r] = "upsert"
        /\ \E k \in DOMAIN found[r] : found' = [found EXCEPT ![r] = Rest(r, k)]
        /\ UNCHANGED open
     \/ /\ pc[r] = "seal"
        /\ \E k \in open[r] : open' = [open EXCEPT ![r] = @ \ {k}]
        /\ UNCHANGED found
  /\ UNCHANGED <<sourceVars, row, pc, at, live>>

RunEnds(r) ==
  /\ pc[r] # "idle" /\ mishaps < MaxMishaps /\ mishaps' = mishaps + 1
  /\ Return(r)
  /\ UNCHANGED <<sourceVars, row>>

Detect(r) == ScanLive(r) \/ ScanErrored(r)
Run(r) == Detect(r) \/ Upsert(r) \/ ListLive(r) \/ Seal(r) \/ Done(r)

Next ==
  \/ \E k \in Keys : StartTool(k) \/ FinishTool(k) \/ FailMessage(k) \/ CompleteMessage(k)
  \/ Tick
  \/ \E r \in Runs : Run(r) \/ StatementFails(r) \/ RunEnds(r)

\* Cron runs the task again and again, and a run that has begun goes on.
Fairness == \A r \in Runs : WF_vars(Run(r))

Spec == Init /\ [][Next]_vars
FairSpec == Spec /\ Fairness

-----------------------------------------------------------------------------
(* Properties.                                                             *)

\* A tool whose stall is sealed is no longer running (stall_detector_task.go:
\* "Seals previously-live rows in session_stalls whose tool is no longer running").
SealedMeansOver == \A k \in Tools : row[k].ended # 0 => status[k] # "running"

\* Of a sealed row, start, end and duration agree although three statements
\* write them.
DurationMatches ==
  \A k \in Keys : row[k].ended # 0 => row[k].duration = row[k].ended - started[k]

\* A sealed stall is over and has the duration its start and end say.
StallsRight == SealedMeansOver /\ DurationMatches

\* A stalled tool gets a row unless it ends first, whatever fails on the way.
StallsAreFound ==
  \A k \in Tools :
    status[k] = "running" /\ started[k] + Threshold < now
      ~> row[k].exists \/ status[k] # "running"

\* No row stays live after its tool or message is over.
OverIsSealed ==
  \A k \in Keys : row[k].exists /\ status[k] # "running" ~> row[k].ended # 0
=============================================================================
