------------------------------- MODULE Alerts -------------------------------
(***************************************************************************)
(* Alerts of the daemon: the scheduled tasks that look at budgets, errors  *)
(* and stalls, the deduplicator, the router and the channels that deliver. *)
(*                                                                         *)
(* Two tasks may notify at the same time.  An event gets its timestamp     *)
(* before the deduplicator's mutex is taken, its time is recorded before   *)
(* it is delivered, and every delivery is a goroutine of its own.  Times   *)
(* are ages, so that time never ends: an age of Expired is "long ago".     *)
(***************************************************************************)
EXTENDS Naturals, Sequences, FiniteSets

CONSTANTS
  AlertTasks,     \* the scheduled tasks
  Watches,        \* Watches[t], the conditions task t reports on, in its order
  AlertType,      \* AlertType[c], the event type of condition c
  Scope,          \* Scope[c], the project of the event, or Global
  Global,
  Enabled,        \* the event types the router lets through
  Routed,         \* the scopes with a recipient: a project's or the default channel
  Channels,
  Tries,          \* Tries[ch], the attempts of one delivery
  Limit,          \* the threshold of every condition
  Cooldown,       \* minimum time between two alerts of one key
  Period,         \* Period[t], the time between two runs of a task
  MaxLag,         \* bound on the time a run takes
  MaxFaults       \* bound on failed attempts and restarts

ASSUME AlertsAssumption ==
  /\ Cooldown \in Nat \ {0} /\ MaxLag \in Nat /\ MaxFaults \in Nat /\ Limit \in Nat \ {0}
  /\ \A t \in AlertTasks : Period[t] \in Nat /\ MaxLag <= Period[t]
  /\ \A t \in AlertTasks : Watches[t] \in Seq(DOMAIN AlertType)
  /\ \A ch \in Channels : Tries[ch] \in Nat \ {0}
  /\ Routed \subseteq { Scope[c] : c \in DOMAIN Scope } \cup {Global}

Conditions == DOMAIN AlertType
Expired == Cooldown + MaxLag

VARIABLES
  value,     \* what each condition measures: spend, errors, live stalls
  seen,      \* the deduplicator's map, as the age of each key's entry
  ran,       \* the time since each task's last run began
  todo,      \* the events a task run has yet to notify: place in Watches[t] to level
  event,     \* the event in a task's call of Notify
  sends,     \* deliveries under way
  told,      \* history: the channels that know the current level of a condition
  since,     \* history: the time since the last alert of each key was handed to the channels
  faults

alertVars == <<value, seen, ran, todo, event, sends, told, since, faults>>

Levels == {"none", "warning", "exceeded"}
Key(c) == <<AlertType[c], Scope[c]>>
AlertKeys == { Key(c) : c \in Conditions }
NoEvent == [cond |-> "none", level |-> "none", lag |-> 0]
NoEvents == [i \in {} |-> "none"]
Values == 0 .. 3 * Limit

Digests == {"daily.digest", "weekly.report", "personal.daily", "recommendation"}

\* A budget is exceeded at its limit and a warning from AlertAtPercent on, a spike
\* is critical at three times its threshold: here, a warning from Limit on and
\* exceeded from three times Limit on.  A digest always has something to tell.
Level(c, v) ==
  IF v >= 3 * Limit THEN "exceeded"
  ELSE IF v >= Limit \/ AlertType[c] \in Digests THEN "warning" ELSE "none"

AlertsTypeOK ==
  /\ value \in [Conditions -> Values]
  /\ seen \in [AlertKeys -> 0 .. Expired]
  /\ \A t \in AlertTasks : ran[t] \in 0 .. Period[t]
  /\ \A t \in AlertTasks : /\ DOMAIN todo[t] \subseteq DOMAIN Watches[t]
                           /\ \A i \in DOMAIN todo[t] : todo[t][i] \in Levels \ {"none"}
  /\ \A t \in AlertTasks : event[t] = NoEvent \/ event[t].lag \in 0 .. MaxLag
  /\ \A d \in sends : d.ch \in Channels /\ d.cond \in Conditions /\ d.try \in 1 .. Tries[d.ch]
  /\ told \in [Conditions -> SUBSET Channels]
  /\ since \in [AlertKeys -> 0 .. Expired]
  /\ faults \in 0 .. MaxFaults

AlertsInit ==
  /\ value = [c \in Conditions |-> 0]
  /\ seen = [k \in AlertKeys |-> Expired]
  /\ ran = [t \in AlertTasks |-> Period[t]]
  /\ todo = [t \in AlertTasks |-> NoEvents]
  /\ event = [t \in AlertTasks |-> NoEvent]
  /\ sends = {}
  /\ told = [c \in Conditions |-> {}]
  /\ since = [k \in AlertKeys |-> Expired]
  /\ faults = 0

Idle(t) == DOMAIN todo[t] = {} /\ event[t] = NoEvent
Older(age, cap) == IF age < cap THEN age + 1 ELSE cap

-----------------------------------------------------------------------------
(* The world: spend, errors and stalls change, time passes.                *)

Measure(c, v) ==
  /\ v # value[c] /\ AlertType[c] \notin Digests
  /\ value' = [value EXCEPT ![c] = v]
  /\ told' = [told EXCEPT ![c] = IF Level(c, v) = Level(c, value[c]) THEN @ ELSE {}]
  /\ UNCHANGED <<seen, ran, todo, event, sends, since, faults>>

\* A run does not take longer than MaxLag, and deliveries, whose attempts have ten
\* seconds, are over within a tick.
PassTime ==
  /\ sends = {}
  /\ \A t \in AlertTasks : Idle(t) \/ ran[t] < MaxLag
  /\ seen' = [k \in AlertKeys |-> Older(seen[k], Expired)]
  /\ since' = [k \in AlertKeys |-> Older(since[k], Expired)]
  /\ ran' = [t \in AlertTasks |-> Older(ran[t], Period[t])]
  /\ event' = [t \in AlertTasks |->
                 IF event[t] = NoEvent THEN NoEvent
                 ELSE [event[t] EXCEPT !.lag = @ + 1]]
  /\ UNCHANGED <<value, todo, sends, told, faults>>

-----------------------------------------------------------------------------
(* The tasks.                                                              *)

Raised(c) == Level(c, value[c]) # "none"

\* cron starts a run: the statuses are read once, and an event is made for each that
\* is alarming.
Collect(t) ==
  /\ Idle(t) /\ ran[t] = Period[t]
  /\ ran' = [ran EXCEPT ![t] = 0]
  /\ LET alarming == { i \in DOMAIN Watches[t] : Raised(Watches[t][i]) } IN
     /\ alarming # {}
     /\ todo' = [todo EXCEPT ![t] =
          [i \in alarming |-> Level(Watches[t][i], value[Watches[t][i]])]]
  /\ UNCHANGED <<value, seen, event, sends, told, since, faults>>

\* The next event is stamped with the time and Notify is called.
Stamp(t) ==
  /\ event[t] = NoEvent
  /\ \E i \in DOMAIN todo[t] :
       /\ \A j \in DOMAIN todo[t] : i <= j
       /\ event' = [event EXCEPT ![t] = [cond |-> Watches[t][i], level |-> todo[t][i], lag |-> 0]]
       /\ todo' = [todo EXCEPT ![t] = [j \in DOMAIN @ \ {i} |-> @[j]]]
  /\ UNCHANGED <<value, seen, ran, sends, told, since, faults>>

-----------------------------------------------------------------------------
(* The notification service.                                               *)

\* Route: recipients there are none if the type is switched off, or if the project
\* has no channel and there is no default.
Route(c) == IF AlertType[c] \in Enabled /\ Scope[c] \in Routed THEN Channels ELSE {}

\* ShouldSend: the key was seen less than the cooldown before this event.
TooSoon(c, lag) == seen[Key(c)] < Cooldown + lag

Suppress(t) ==
  /\ event[t] # NoEvent
  /\ AlertType[event[t].cond] \notin Digests /\ TooSoon(event[t].cond, event[t].lag)
  /\ event' = [event EXCEPT ![t] = NoEvent]
  /\ UNCHANGED <<value, seen, ran, todo, sends, told, since, faults>>

Deliveries(e) ==
  { [ch |-> ch, cond |-> e.cond, level |-> e.level, try |-> 1] : ch \in Route(e.cond) }

\* Mutation of Admit: the time is recorded, and the event is not handed on.
AdmitOnly(t) ==
  /\ event[t] # NoEvent
  /\ AlertType[event[t].cond] \in Digests \/ ~TooSoon(event[t].cond, event[t].lag)
  /\ event' = [event EXCEPT ![t] = NoEvent]
  /\ seen' = [seen EXCEPT ![Key(event[t].cond)] = event[t].lag]
  /\ since' = [since EXCEPT ![Key(event[t].cond)] = 0]
  /\ UNCHANGED <<value, ran, todo, sends, told, faults>>

\* Mutation of Admit: its time is left to be recorded by whoever delivers it.
AdmitUnrecorded(t) ==
  /\ event[t] # NoEvent
  /\ AlertType[event[t].cond] \in Digests \/ ~TooSoon(event[t].cond, event[t].lag)
  /\ since' = IF AlertType[event[t].cond] \in Digests THEN since
              ELSE [since EXCEPT ![Key(event[t].cond)] = 0]
  /\ event' = [event EXCEPT ![t] = NoEvent]
  /\ sends' = sends \cup Deliveries(event[t])
  /\ UNCHANGED <<value, seen, ran, todo, told, faults>>

\* Otherwise its time is recorded, unless it is a digest, and a goroutine is
\* started for each recipient of each channel.
Admit(t) ==
  LET e == event[t] k == Key(e.cond) IN
  /\ e # NoEvent
  /\ \/ AlertType[e.cond] \in Digests /\ UNCHANGED <<seen, since>>
     \/ /\ AlertType[e.cond] \notin Digests /\ ~TooSoon(e.cond, e.lag)
        /\ seen' = [seen EXCEPT ![k] = e.lag]
        /\ since' = [since EXCEPT ![k] = 0]
  /\ event' = [event EXCEPT ![t] = NoEvent]
  /\ sends' = sends \cup Deliveries(e)
  /\ UNCHANGED <<value, ran, todo, told, faults>>

\* Send succeeds: a POST, or a row of notification_log.
Arrive(d) ==
  /\ sends' = sends \ {d}
  /\ told' = [told EXCEPT ![d.cond] =
                IF d.level = Level(d.cond, value[d.cond]) THEN @ \cup {d.ch} ELSE @]
  /\ UNCHANGED <<value, seen, ran, todo, event, since, faults>>

\* Send fails: the webhook channel tries again, the error of the others is logged.
Fail(d) ==
  /\ faults < MaxFaults
  /\ faults' = faults + 1
  /\ sends' = (sends \ {d}) \cup
                (IF d.try < Tries[d.ch] THEN {[d EXCEPT !.try = @ + 1]} ELSE {})
  /\ UNCHANGED <<value, seen, ran, todo, event, told, since>>

\* The daemon is restarted: the map, the runs and the deliveries were in memory.
Restart ==
  /\ faults < MaxFaults
  /\ faults' = faults + 1
  /\ seen' = [k \in AlertKeys |-> Expired] /\ since' = [k \in AlertKeys |-> Expired]
  /\ todo' = [t \in AlertTasks |-> NoEvents]
  /\ event' = [t \in AlertTasks |-> NoEvent]
  /\ sends' = {}
  /\ UNCHANGED <<value, ran, told>>

RunTask(t) == Collect(t) \/ Stamp(t) \/ Suppress(t) \/ Admit(t)

AlertsNext ==
  \/ \E c \in Conditions, v \in {0, Limit, 3 * Limit} : Measure(c, v)
  \/ PassTime
  \/ \E t \in AlertTasks : RunTask(t)
  \/ \E d \in sends : Arrive(d) \/ Fail(d)
  \/ Restart

AllDeliveries ==
  UNION { [ch : {ch}, cond : Conditions, level : Levels \ {"none"}, try : 1 .. Tries[ch]] :
          ch \in Channels }

\* cron starts the tasks again and again, what runs goes on, time passes and a
\* POST ends.
AlertsFairness ==
  /\ WF_alertVars(PassTime)
  /\ \A t \in AlertTasks : WF_alertVars(RunTask(t))
  /\ \A d \in AllDeliveries : WF_alertVars(d \in sends /\ Arrive(d))

AlertsSpec == AlertsInit /\ [][AlertsNext]_alertVars /\ AlertsFairness

-----------------------------------------------------------------------------
(* Properties.                                                             *)

\* Two alerts of one type and project are handed to the channels a cooldown apart, less
\* what a run may take between an event's timestamp and the mutex, whichever tasks
\* notify at the same time (SLACK_SPEC.md: "1 alerte / 30 min / projet").
Spaced ==
  [][ \A t \in AlertTasks :
        Admit(t) /\ AlertType[event[t].cond] \notin Digests
          => since[Key(event[t].cond)] >= Cooldown - MaxLag ]_alertVars

\* The condition a task reports first of those that share a key.
First(c) ==
  \A t \in AlertTasks : \A i, j \in 1 .. Len(Watches[t]) :
    Watches[t][j] = c /\ i < j => Key(Watches[t][i]) # Key(c)
At(c, l) == Level(c, value[c]) = l
Told(c, l) == ~At(c, l) \/ told[c] = Channels

\* Every alarm is told (serve.go: "notifstore persists every event so /alerts and
\* `aisync alerts` work without any external channel configured").
TellsAll == \A c \in Conditions, l \in {"warning", "exceeded"} : At(c, l) ~> Told(c, l)
=============================================================================
