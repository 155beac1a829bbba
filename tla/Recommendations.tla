-------------------------- MODULE Recommendations --------------------------
(***************************************************************************)
(* The lifecycle of a stored recommendation: the nightly task expires,     *)
(* reactivates, generates and upserts; users dismiss and snooze cards of a *)
(* page that may be old.                                                   *)
(*                                                                         *)
(* The columns updated_at and snoozed_until are texts, and SQLite compares *)
(* them as texts.  SQLite's own CURRENT_TIMESTAMP has a blank between date *)
(* and time where the program writes a "T", and the task writes local      *)
(* time.  Times are ages in ticks, DayLength of them to the day; an age    *)
(* beyond every limit stays at its bound.                                  *)
(***************************************************************************)
EXTENDS Integers

CONSTANTS
  Recs,        \* the fingerprints
  DayLength,   \* ticks of a day
  ExpireAfter, \* ticks an active recommendation lives without being refreshed
  SnoozeFor,   \* the ticks a user may snooze for
  Offset       \* ticks local time is ahead of UTC, below zero when it is behind

ASSUME RecommendationsAssumption ==
  /\ DayLength \in Nat \ {0} /\ ExpireAfter \in Nat /\ Offset \in -DayLength + 1 .. DayLength - 1
  /\ SnoozeFor \subseteq Nat

VARIABLES
  hour,    \* tick of the day
  holds,   \* whether the condition behind a recommendation holds
  rec,     \* the row of each fingerprint
  phase,   \* what the task does next
  toSave   \* recommendations generated and not yet upserted

recVars == <<hour, holds, rec, phase, toSave>>

Oldest == ExpireAfter + DayLength + 1
LongAgo == -2 * DayLength
Null == LongAgo - 1  \* snoozed_until IS NULL

\* A row as a statement writes it.  Nobody reads the age of one that is not active.
Fresh(s, t, n) == [status |-> s, age |-> 0, text |-> t, left |-> n]
NoRec == Fresh("none", "sql", Null)
Touched == Fresh("active", "sql", Null)
Inserted == Fresh("active", "local", Null)
Snoozed(n) == Fresh("snoozed", "sql", n)
\* These statements leave the time a row was to sleep for as it is.
RecDismissed(r) == Fresh("dismissed", "sql", r.left)
RecExpired(r) == Fresh("expired", "sql", r.left)
Phases == {"idle", "reactivate", "generate", "save"}

RecTypeOK ==
  /\ hour \in 0 .. DayLength - 1
  /\ holds \in [Recs -> BOOLEAN]
  /\ \A f \in Recs :
       /\ rec[f].status \in {"none", "active", "dismissed", "snoozed", "expired"}
       /\ rec[f].age \in 0 .. Oldest /\ rec[f].text \in {"sql", "local"}
       /\ rec[f].status = "snoozed" => rec[f].left >= LongAgo
       /\ rec[f].status \in {"none", "active", "expired"} => rec[f].left = Null
  /\ phase \in Phases
  /\ toSave \subseteq Recs /\ (phase # "save" => toSave = {})

RecInit ==
  /\ hour = 0
  /\ holds = [f \in Recs |-> FALSE]
  /\ rec = [f \in Recs |-> NoRec]
  /\ phase = "idle" /\ toSave = {}

-----------------------------------------------------------------------------
(* Times as texts.                                                         *)

Day(ticks) == (hour + ticks) \div DayLength   \* 0 is today; \div rounds down

\* updated_at < cutoff, where the cutoff has a "T": on the cutoff's own day a text
\* with a blank is always smaller; a local time is Offset too large.
Stale(r) ==
  IF r.text = "local" THEN r.age - Offset > ExpireAfter
  ELSE r.age > ExpireAfter \/ Day(-r.age) = Day(-ExpireAfter)

\* Mutation of Awake: only on the day itself.
AwakeOnTheDay(r) == Day(r.left) = -1

\* snoozed_until <= CURRENT_TIMESTAMP, where snoozed_until has the "T": not before
\* its day is over.
Awake(r) == Day(r.left) < 0

HourPasses ==
  /\ hour' = (hour + 1) % DayLength
  /\ rec' = [f \in Recs |->
       [rec[f] EXCEPT
          !.age = IF rec[f].status = "active" /\ @ < Oldest THEN @ + 1 ELSE @,
          !.left = IF @ > LongAgo THEN @ - 1 ELSE @]]
  /\ UNCHANGED <<holds, phase, toSave>>

Flip(f) ==
  /\ holds' = [holds EXCEPT ![f] = ~@]
  /\ UNCHANGED <<hour, rec, phase, toSave>>

-----------------------------------------------------------------------------
(* The task.                                                               *)

ExpireRecommendations ==
  /\ phase = "idle"
  /\ phase' = "reactivate"
  /\ rec' = [f \in Recs |->
       IF rec[f].status = "active" /\ Stale(rec[f]) THEN RecExpired(rec[f]) ELSE rec[f]]
  /\ UNCHANGED <<hour, holds, toSave>>

\* Mutation of ReactivateSnoozed: snoozed_until is not reset.
ReactivateKeeps ==
  /\ phase = "reactivate"
  /\ phase' = "generate"
  /\ rec' = [f \in Recs |->
       IF rec[f].status = "snoozed" /\ Awake(rec[f]) THEN Fresh("active", "sql", rec[f].left) ELSE rec[f]]
  /\ UNCHANGED <<hour, holds, toSave>>

ReactivateSnoozed ==
  /\ phase = "reactivate"
  /\ phase' = "generate"
  /\ rec' = [f \in Recs |->
       IF rec[f].status = "snoozed" /\ Awake(rec[f]) THEN Touched ELSE rec[f]]
  /\ UNCHANGED <<hour, holds, toSave>>

GenerateRecommendations ==
  /\ phase = "generate"
  /\ toSave' = { f \in Recs : holds[f] }
  /\ phase' = IF toSave' = {} THEN "idle" ELSE "save"
  /\ UNCHANGED <<hour, holds, rec>>

\* Mutation of UpsertRecommendation: the conflict clause has no condition.
UpsertAlways(f) ==
  /\ f \in toSave
  /\ rec' = [rec EXCEPT ![f] =
               IF @.status = "none" THEN Inserted ELSE Touched]
  /\ toSave' = toSave \ {f}
  /\ phase' = IF toSave' = {} THEN "idle" ELSE "save"
  /\ UNCHANGED <<hour, holds>>

\* INSERT ... ON CONFLICT DO UPDATE ... WHERE status = 'active'.
UpsertRecommendation(f) ==
  /\ f \in toSave
  /\ rec' = [rec EXCEPT ![f] =
               CASE @.status = "none"   -> Inserted
                 [] @.status = "active" -> Touched
                 [] OTHER               -> @]
  /\ toSave' = toSave \ {f}
  /\ phase' = IF toSave' = {} THEN "idle" ELSE "save"
  /\ UNCHANGED <<hour, holds>>

\* The daemon stops in the middle of a run.
StopTask ==
  /\ phase # "idle"
  /\ phase' = "idle" /\ toSave' = {}
  /\ UNCHANGED <<hour, holds, rec>>

-----------------------------------------------------------------------------
(* The users.  A card is any row that was once active, whatever it is now. *)

DismissRecommendation(f) ==
  /\ rec[f].status # "none"
  /\ rec' = [rec EXCEPT ![f] = RecDismissed(@)]
  /\ UNCHANGED <<hour, holds, phase, toSave>>

SnoozeRecommendation(f, n) ==
  /\ rec[f].status # "none"
  /\ rec' = [rec EXCEPT ![f] = Snoozed(n)]
  /\ UNCHANGED <<hour, holds, phase, toSave>>

Task ==
  \/ ExpireRecommendations \/ ReactivateSnoozed \/ GenerateRecommendations
  \/ \E f \in Recs : UpsertRecommendation(f)

RecNext ==
  \/ HourPasses \/ Task \/ StopTask
  \/ \E f \in Recs : Flip(f) \/ DismissRecommendation(f)
  \/ \E f \in Recs, n \in SnoozeFor : SnoozeRecommendation(f, n)

\* cron starts the task every night, time passes, and it is not for ever that the
\* daemon stops before a given statement.
RecFairness ==
  /\ WF_recVars(HourPasses) /\ WF_recVars(ExpireRecommendations)
  /\ SF_recVars(ReactivateSnoozed) /\ SF_recVars(GenerateRecommendations)
  /\ \A f \in Recs : SF_recVars(UpsertRecommendation(f))

RecSpec == RecInit /\ [][RecNext]_recVars /\ RecFairness

-----------------------------------------------------------------------------
(* Properties.                                                             *)

\* What the user has put away stays away: a dismissed recommendation changes only by
\* his own hand, a snoozed one is not active before its time (store.go:
\* "Dismissed/snoozed recs are NOT overwritten (user intent is preserved)"); and what
\* he has not put away lives for ExpireAfter, less the rest of the cutoff's day.
UserDecides ==
  [][ \A f \in Recs :
        /\ rec[f].status = "dismissed" /\ rec'[f].status # "dismissed" =>
             rec'[f].status = "snoozed"
        /\ rec[f].status = "snoozed" /\ rec'[f].status = "active" => rec[f].left < 0
        /\ rec[f].status = "active" /\ rec'[f].status = "expired" =>
             rec[f].age > ExpireAfter - DayLength
    ]_recVars

\* Whatever stops the daemon and whoever clicks when, a snoozed recommendation is
\* not asleep for ever.
WakesUp ==
  \A f \in Recs : rec[f].status = "snoozed" /\ rec[f].left < 0 ~>
                    rec[f].status # "snoozed" \/ rec[f].left >= 0

\* A recommendation whose condition goes on holding is on the page in the end,
\* unless a user has put it away (recommendation.go: "if the same recommendation is
\* regenerated, it updates the existing record").
Regenerated ==
  \A f \in Recs : holds[f] ~> ~holds[f] \/ rec[f].status \in {"active", "dismissed", "snoozed"}
=============================================================================
