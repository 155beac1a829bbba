----------------------------- MODULE MCServices -----------------------------
(***************************************************************************)
(* The services of the daemon that promise something for later, for TLC:   *)
(* each setup is one of the modules, and the variables of the others stay  *)
(* as they are initially.                                                  *)
(***************************************************************************)
EXTENDS Alerts, Recommendations, Daemon, StallLedger

\* One task with two conditions of one key, and one that sends digests.
WatchesOf == [budget |-> <<"monthly", "daily">>, digest |-> <<"digest">>]
TypeOf    == [monthly |-> "budget.alert", daily |-> "budget.alert", digest |-> "daily.digest"]
ScopeOf   == [monthly |-> "p", daily |-> "p", digest |-> "all"]
TriesOf   == [hook |-> 2]
PeriodOf  == [budget |-> 3, digest |-> 3]

VARIABLE setup  \* chosen at the start

ServicesInit ==
  /\ setup \in {"alerts", "recommend", "daemon", "stall"}
  /\ AlertsInit /\ RecInit /\ DaemonInit /\ Init

ServicesNext ==
  /\ UNCHANGED setup
  /\ \/ setup = "alerts" /\ AlertsNext /\ UNCHANGED <<recVars, daemonVars, vars>>
     \/ setup = "recommend" /\ RecNext /\ UNCHANGED <<alertVars, daemonVars, vars>>
     \/ setup = "daemon" /\ DaemonNext /\ UNCHANGED <<alertVars, recVars, vars>>
     \/ setup = "stall" /\ Next /\ UNCHANGED <<alertVars, recVars, daemonVars>>

\* The fairness each module states, for the setup it governs.
ServicesSpec ==
  /\ ServicesInit /\ [][ServicesNext]_<<setup, alertVars, recVars, daemonVars, vars>>
  /\ WF_alertVars(setup = "alerts" /\ PassTime)
  /\ \A t \in AlertTasks : WF_alertVars(setup = "alerts" /\ RunTask(t))
  /\ \A d \in AllDeliveries : WF_alertVars(setup = "alerts" /\ d \in sends /\ Arrive(d))
  /\ WF_recVars(setup = "recommend" /\ HourPasses)
  /\ WF_recVars(setup = "recommend" /\ ExpireRecommendations)
  /\ SF_recVars(setup = "recommend" /\ ReactivateSnoozed)
  /\ SF_recVars(setup = "recommend" /\ GenerateRecommendations)
  /\ \A f \in Recs : SF_recVars(setup = "recommend" /\ UpsertRecommendation(f))
  /\ \A r \in Runs : WF_vars(setup = "stall" /\ Run(r))

-----------------------------------------------------------------------------
(* Properties.                                                             *)

\* The values each module's variables may have.
ServicesTypeOK == AlertsTypeOK /\ RecTypeOK /\ DaemonTypeOK /\ TypeOK

\* What an alarm's first condition has reached is told to every channel in the end,
\* though deliveries fail, daemons restart and earlier levels had their alert: a
\* failed or suppressed alert is sent again while the condition lasts.
TellsFirst == \A c \in Conditions, l \in {"warning", "exceeded"} :
  setup = "alerts" /\ At(c, l) /\ First(c) /\ Route(c) # {} ~> Told(c, l)
=============================================================================
