----------------------------- MODULE ServicesProofs -----------------------------
(***************************************************************************)
(* Proofs about the services of the daemon that promise something for      *)
(* later, for every value of their constants: alerts are spaced, users'    *)
(* decisions last, the PID file stands for its daemon, and sealed stalls   *)
(* are over.                                                               *)
(***************************************************************************)
EXTENDS MCServices, TLAPS

-----------------------------------------------------------------------------
(* Alerts.  The deduplicator's entry of a key is never much older than its *)
(* last alert (SpacedInv): it is the age of the event when it got through, *)
(* and an event that a run has not notified yet is no older than the run.  *)

Alarm == [cond : Conditions, level : Levels, lag : Nat]

SpacedInv ==
  /\ seen \in [AlertKeys -> Nat] /\ since \in [AlertKeys -> Nat]
  /\ ran \in [AlertTasks -> Nat]
  /\ event \in [AlertTasks -> Alarm \cup {NoEvent}]
  /\ todo = [t \in AlertTasks |-> todo[t]]
  /\ \A t \in AlertTasks : DOMAIN todo[t] \subseteq DOMAIN Watches[t]
                         /\ \A i \in DOMAIN todo[t] : todo[t][i] \in Levels
  /\ \A t \in AlertTasks : event[t] # NoEvent =>
       event[t] \in Alarm /\ event[t].lag <= ran[t] /\ event[t].lag <= MaxLag
  /\ \A k \in AlertKeys : since[k] = Expired \/ seen[k] <= since[k] + MaxLag

LEMMA AlertsFacts ==
  /\ Cooldown \in Nat /\ MaxLag \in Nat /\ Expired \in Nat
  /\ \A t \in AlertTasks : Period[t] \in Nat /\ MaxLag <= Period[t]
  /\ \A t \in AlertTasks : \A i \in DOMAIN Watches[t] : Watches[t][i] \in Conditions
  /\ \A c \in Conditions : Key(c) \in AlertKeys
  /\ NoEvent.lag = 0
BY AlertsAssumption DEF Expired, Conditions, AlertKeys, NoEvent

LEMMA SpacedInit == AlertsInit => SpacedInv
BY AlertsFacts DEF AlertsInit, SpacedInv, NoEvents

LEMMA AgeFacts ==
  ASSUME NEW age \in Nat, NEW cap \in Nat
  PROVE  /\ Older(age, cap) \in Nat
         /\ Older(age, cap) = cap \/ Older(age, cap) = age + 1
         /\ age < cap => Older(age, cap) = age + 1
BY DEF Older
LEMMA SpacedStep == SpacedInv /\ [AlertsNext]_alertVars => SpacedInv'
<1>. SUFFICES ASSUME SpacedInv, [AlertsNext]_alertVars PROVE SpacedInv'
  OBVIOUS
<1>1. /\ seen \in [AlertKeys -> Nat] /\ since \in [AlertKeys -> Nat]
      /\ ran \in [AlertTasks -> Nat]
      /\ event \in [AlertTasks -> Alarm \cup {NoEvent}]
      /\ todo = [t \in AlertTasks |-> todo[t]]
      /\ \A t \in AlertTasks : DOMAIN todo[t] \subseteq DOMAIN Watches[t]
                             /\ \A i \in DOMAIN todo[t] : todo[t][i] \in Levels
      /\ \A t \in AlertTasks : event[t] # NoEvent =>
           event[t] \in Alarm /\ event[t].lag <= ran[t] /\ event[t].lag <= MaxLag
      /\ \A k \in AlertKeys : since[k] = Expired \/ seen[k] <= since[k] + MaxLag
  BY DEF SpacedInv
<1>2. CASE UNCHANGED <<seen, ran, todo, event, since>>
  BY <1>2 DEF SpacedInv
<1>3. CASE PassTime
  <2>1. /\ seen' = [k \in AlertKeys |-> Older(seen[k], Expired)]
        /\ since' = [k \in AlertKeys |-> Older(since[k], Expired)]
        /\ ran' = [t \in AlertTasks |-> Older(ran[t], Period[t])]
        /\ todo' = todo
        /\ \A t \in AlertTasks : event[t] # NoEvent => ran[t] < MaxLag
    BY <1>3 DEF PassTime, Idle
  <2>2. \A t \in AlertTasks :
          event'[t] = IF event[t] = NoEvent THEN NoEvent ELSE [event[t] EXCEPT !.lag = @ + 1]
    BY <1>3 DEF PassTime
  <2>3. seen' \in [AlertKeys -> Nat] /\ since' \in [AlertKeys -> Nat] /\ ran' \in [AlertTasks -> Nat]
    BY <1>1, <2>1, AlertsFacts, AgeFacts
  <2>4. ASSUME NEW t \in AlertTasks, event'[t] # NoEvent
        PROVE  event'[t] \in Alarm /\ event'[t].lag <= ran'[t] /\ event'[t].lag <= MaxLag
    <3>1. event[t] # NoEvent /\ event[t] \in Alarm /\ event[t].lag <= ran[t]
      BY <1>1, <2>2, <2>4
    <3>2. event'[t] = [event[t] EXCEPT !.lag = event[t].lag + 1] /\ event[t].lag \in Nat
      BY <2>2, <3>1 DEF Alarm
    <3>3. event'[t] \in Alarm /\ event'[t].lag = event[t].lag + 1
      BY <3>1, <3>2 DEF Alarm
    <3>4. ran[t] \in Nat /\ ran[t] < MaxLag /\ Period[t] \in Nat /\ MaxLag <= Period[t] /\ MaxLag \in Nat
      BY <1>1, <2>1, <3>1, AlertsFacts
    <3>5. ran'[t] = ran[t] + 1
      BY <2>1, <3>4, AgeFacts
    <3>. QED
      BY <3>1, <3>2, <3>3, <3>4, <3>5
  <2>5. event' \in [AlertTasks -> Alarm \cup {NoEvent}]
    <3>1. event' = [t \in AlertTasks |-> event'[t]]
      BY <1>3 DEF PassTime
    <3>. QED
      BY <2>4, <3>1
  <2>6. ASSUME NEW k \in AlertKeys
        PROVE  since'[k] = Expired \/ seen'[k] <= since'[k] + MaxLag
    <3>1. /\ since'[k] = Older(since[k], Expired) /\ seen'[k] = Older(seen[k], Expired)
          /\ since[k] \in Nat /\ seen[k] \in Nat /\ Expired \in Nat /\ MaxLag \in Nat
          /\ since[k] = Expired \/ seen[k] <= since[k] + MaxLag
      BY <1>1, <2>1, AlertsFacts
    <3>. QED
      BY <3>1 DEF Older
  <2>. QED
    BY <1>1, <2>1, <2>3, <2>4, <2>5, <2>6 DEF SpacedInv
<1>4. ASSUME NEW t \in AlertTasks, Collect(t)
      PROVE  SpacedInv'
  <2>. DEFINE alarming == { i \in DOMAIN Watches[t] : Raised(Watches[t][i]) }
              raised == [i \in alarming |-> Level(Watches[t][i], value[Watches[t][i]])]
  <2>1. /\ ran' = [ran EXCEPT ![t] = 0] /\ todo' = [todo EXCEPT ![t] = raised]
        /\ UNCHANGED <<seen, event, since>> /\ event[t] = NoEvent
    BY <1>4 DEF Collect, Idle
  <2>2. DOMAIN raised \subseteq DOMAIN Watches[t] /\ \A i \in DOMAIN raised : raised[i] \in Levels
    BY DEF Level, Levels
  <2>. HIDE DEF raised
  <2>3. todo' = [s \in AlertTasks |-> todo'[s]]
    BY <1>1, <2>1
  <2>4. \A s \in AlertTasks : DOMAIN todo'[s] \subseteq DOMAIN Watches[s]
                           /\ \A i \in DOMAIN todo'[s] : todo'[s][i] \in Levels
    BY <1>1, <2>1, <2>2
  <2>. QED
    BY <1>1, <2>1, <2>3, <2>4 DEF SpacedInv
<1>5. ASSUME NEW t \in AlertTasks, Stamp(t)
      PROVE  SpacedInv'
  <2>1. PICK i \in DOMAIN todo[t] :
          /\ event' = [event EXCEPT ![t] = [cond |-> Watches[t][i], level |-> todo[t][i], lag |-> 0]]
          /\ todo' = [todo EXCEPT ![t] = [j \in DOMAIN @ \ {i} |-> @[j]]]
    BY <1>5 DEF Stamp
  <2>. DEFINE new == [cond |-> Watches[t][i], level |-> todo[t][i], lag |-> 0]
              rest == [j \in DOMAIN todo[t] \ {i} |-> todo[t][j]]
  <2>2. new \in Alarm /\ new.lag = 0
    BY <1>1, AlertsFacts DEF Alarm
  <2>3. DOMAIN rest \subseteq DOMAIN Watches[t] /\ \A j \in DOMAIN rest : rest[j] \in Levels
    BY <1>1
  <2>4. event' = [event EXCEPT ![t] = new] /\ todo' = [todo EXCEPT ![t] = rest]
        /\ UNCHANGED <<seen, ran, since>>
    BY <1>5, <2>1 DEF Stamp
  <2>. HIDE DEF new, rest
  <2>5. event' \in [AlertTasks -> Alarm \cup {NoEvent}] /\ todo' = [s \in AlertTasks |-> todo'[s]]
    BY <1>1, <2>2, <2>4
  <2>6. \A s \in AlertTasks : DOMAIN todo'[s] \subseteq DOMAIN Watches[s]
                           /\ \A j \in DOMAIN todo'[s] : todo'[s][j] \in Levels
    BY <1>1, <2>3, <2>4
  <2>7. ASSUME NEW s \in AlertTasks, event'[s] # NoEvent
        PROVE  event'[s] \in Alarm /\ event'[s].lag <= ran[s] /\ event'[s].lag <= MaxLag
    <3>1. CASE s = t
      BY <1>1, <2>2, <2>4, <3>1, AlertsFacts
    <3>2. CASE s # t
      BY <1>1, <2>4, <2>7, <3>2
    <3>. QED
      BY <3>1, <3>2
  <2>. QED
    BY <1>1, <2>4, <2>5, <2>6, <2>7 DEF SpacedInv
<1>6. ASSUME NEW t \in AlertTasks, Suppress(t)
      PROVE  SpacedInv'
  BY <1>1, <1>6 DEF Suppress, SpacedInv
<1>7. ASSUME NEW t \in AlertTasks, Admit(t)
      PROVE  SpacedInv'
  <2>. DEFINE k == Key(event[t].cond)
  <2>1. event[t] # NoEvent /\ event' = [event EXCEPT ![t] = NoEvent] /\ UNCHANGED <<ran, todo>>
    BY <1>7 DEF Admit
  <2>2. k \in AlertKeys /\ event[t].lag \in Nat /\ event[t].lag <= MaxLag
    BY <1>1, <2>1, AlertsFacts DEF Alarm
  <2>3. \/ UNCHANGED <<seen, since>>
        \/ seen' = [seen EXCEPT ![k] = event[t].lag] /\ since' = [since EXCEPT ![k] = 0]
    BY <1>7 DEF Admit
  <2>. HIDE DEF k
  <2>4. /\ seen' \in [AlertKeys -> Nat] /\ since' \in [AlertKeys -> Nat]
        /\ \A x \in AlertKeys : since'[x] = Expired \/ seen'[x] <= since'[x] + MaxLag
    BY <1>1, <2>2, <2>3, AlertsFacts
  <2>5. event' \in [AlertTasks -> Alarm \cup {NoEvent}]
        /\ \A s \in AlertTasks : event'[s] # NoEvent => s # t /\ event'[s] = event[s]
    BY <1>1, <2>1
  <2>. QED
    BY <1>1, <2>1, <2>4, <2>5 DEF SpacedInv
<1>8. CASE Restart
  BY <1>1, <1>8, AlertsFacts DEF Restart, SpacedInv, NoEvents
<1>. QED
  BY <1>2, <1>3, <1>4, <1>5, <1>6, <1>7, <1>8
     DEF AlertsNext, RunTask, Measure, Arrive, Fail, alertVars

\* Two alerts of one type and project are a cooldown apart, less what a run may
\* take between an event's timestamp and the mutex, whatever tasks notify at the
\* same time, deliveries fail and daemons restart.
THEOREM AlertsAreSpaced == AlertsSpec => Spaced
<1>1. ASSUME SpacedInv, NEW t \in AlertTasks, Admit(t),
             AlertType[event[t].cond] \notin Digests
      PROVE  since[Key(event[t].cond)] >= Cooldown - MaxLag
  <2>. DEFINE k == Key(event[t].cond)
  <2>1. event[t] \in Alarm
    BY <1>1 DEF Admit, SpacedInv
  <2>2. ~TooSoon(event[t].cond, event[t].lag)
    BY <1>1 DEF Admit
  <2>3. /\ k \in AlertKeys /\ event[t].lag \in Nat /\ seen[k] \in Nat /\ since[k] \in Nat
        /\ since[k] = Expired \/ seen[k] <= since[k] + MaxLag
    BY <1>1, <2>1, AlertsFacts DEF Alarm, SpacedInv
  <2>4. seen[k] >= Cooldown + event[t].lag
    BY <2>2, <2>3, AlertsFacts DEF TooSoon
  <2>. QED
    BY <2>3, <2>4, AlertsFacts DEF Expired
<1>2. SpacedInv /\ [AlertsNext]_alertVars
        => [\A t \in AlertTasks : Admit(t) /\ AlertType[event[t].cond] \notin Digests
              => since[Key(event[t].cond)] >= Cooldown - MaxLag]_alertVars
  BY <1>1
<1>. QED
  BY <1>2, SpacedInit, SpacedStep, PTL DEF AlertsSpec, Spaced

\* A delivery on its way, whole, so that its next try is one.
Sending ==
  /\ \A d \in sends : d = [ch |-> d.ch, cond |-> d.cond, level |-> d.level, try |-> d.try]
  /\ since \in [AlertKeys -> 0 .. Expired]

LEMMA AlertsTypeInit == AlertsInit => AlertsTypeOK /\ Sending
BY AlertsAssumption, AlertsFacts DEF AlertsInit, AlertsTypeOK, Sending, NoEvents, Values

LEMMA AgeIsBounded ==
  ASSUME NEW cap \in Nat, NEW age \in 0 .. cap
  PROVE  Older(age, cap) \in 0 .. cap
BY DEF Older

LEMMA LevelFacts ==
  ASSUME NEW c, NEW v
  PROVE  Level(c, v) \in Levels
BY DEF Level, Levels

LEMMA AlertsTypeStep ==
  ASSUME SpacedInv, AlertsTypeOK, Sending, [AlertsNext]_alertVars
  PROVE  AlertsTypeOK' /\ Sending'
<1>1. /\ value \in [Conditions -> Values] /\ seen \in [AlertKeys -> 0 .. Expired]
      /\ since \in [AlertKeys -> 0 .. Expired] /\ told \in [Conditions -> SUBSET Channels]
      /\ ran = [t \in AlertTasks |-> ran[t]] /\ todo = [t \in AlertTasks |-> todo[t]]
      /\ \A t \in AlertTasks : ran[t] \in 0 .. Period[t] /\ Period[t] \in Nat
      /\ \A t \in AlertTasks : event[t] # NoEvent =>
           event[t] \in Alarm /\ event[t].lag \in 0 .. MaxLag
      /\ faults \in 0 .. MaxFaults /\ MaxFaults \in Nat /\ MaxLag \in Nat /\ Expired \in Nat
  BY AlertsAssumption, AlertsFacts DEF SpacedInv, AlertsTypeOK, Sending, Alarm
<1>2. SpacedInv' /\ \A t \in AlertTasks : event'[t] = NoEvent \/ event'[t].lag \in 0 .. MaxLag
  BY SpacedStep, AlertsFacts DEF SpacedInv, Alarm
<1>3. CASE UNCHANGED alertVars
  BY <1>3 DEF alertVars, AlertsTypeOK, Sending
<1>4. ASSUME NEW c \in Conditions, NEW v \in {0, Limit, 3 * Limit}, Measure(c, v)
      PROVE  AlertsTypeOK' /\ Sending'
  <2>1. v \in Values
    BY AlertsAssumption DEF Values
  <2>2. value' \in [Conditions -> Values] /\ told' \in [Conditions -> SUBSET Channels]
    BY <1>1, <1>4, <2>1 DEF Measure
  <2>. QED
    BY <1>4, <2>2 DEF Measure, AlertsTypeOK, Sending
<1>5. CASE PassTime
  <2>1. /\ seen' \in [AlertKeys -> 0 .. Expired] /\ since' \in [AlertKeys -> 0 .. Expired]
        /\ \A t \in AlertTasks : ran'[t] \in 0 .. Period[t]
    BY <1>1, <1>5, AgeIsBounded DEF PassTime
  <2>. QED
    BY <1>2, <1>5, <2>1 DEF PassTime, AlertsTypeOK, Sending
<1>6. ASSUME NEW t \in AlertTasks, Collect(t)
      PROVE  AlertsTypeOK' /\ Sending'
  <2>. DEFINE alarming == { i \in DOMAIN Watches[t] : Raised(Watches[t][i]) }
              raised == [i \in alarming |-> Level(Watches[t][i], value[Watches[t][i]])]
  <2>1. /\ ran' = [ran EXCEPT ![t] = 0] /\ todo' = [todo EXCEPT ![t] = raised]
        /\ UNCHANGED <<value, seen, event, sends, told, since, faults>>
    BY <1>6 DEF Collect
  <2>2. /\ DOMAIN raised \subseteq DOMAIN Watches[t]
        /\ \A i \in DOMAIN raised : raised[i] \in Levels \ {"none"}
    BY LevelFacts DEF Raised
  <2>. HIDE DEF raised
  <2>3. \A s \in AlertTasks : ran'[s] \in 0 .. Period[s]
    <3>. TAKE s \in AlertTasks
    <3>1. ran'[s] = IF s = t THEN 0 ELSE ran[s]
      BY <1>1, <2>1
    <3>. QED
      BY <1>1, <3>1
  <2>4. \A s \in AlertTasks : /\ DOMAIN todo'[s] \subseteq DOMAIN Watches[s]
                              /\ \A i \in DOMAIN todo'[s] : todo'[s][i] \in Levels \ {"none"}
    BY <1>1, <2>1, <2>2 DEF AlertsTypeOK
  <2>. QED
    BY <2>1, <2>3, <2>4 DEF AlertsTypeOK, Sending
<1>7. ASSUME NEW t \in AlertTasks, Stamp(t)
      PROVE  AlertsTypeOK' /\ Sending'
  <2>1. PICK i \in DOMAIN todo[t] : todo' = [todo EXCEPT ![t] = [j \in DOMAIN @ \ {i} |-> @[j]]]
    BY <1>7 DEF Stamp
  <2>. DEFINE rest == [j \in DOMAIN todo[t] \ {i} |-> todo[t][j]]
  <2>2. /\ DOMAIN rest \subseteq DOMAIN Watches[t]
        /\ \A j \in DOMAIN rest : rest[j] \in Levels \ {"none"}
    BY DEF AlertsTypeOK
  <2>3. todo' = [todo EXCEPT ![t] = rest]
    BY <2>1
  <2>. HIDE DEF rest
  <2>4. \A s \in AlertTasks : /\ DOMAIN todo'[s] \subseteq DOMAIN Watches[s]
                              /\ \A j \in DOMAIN todo'[s] : todo'[s][j] \in Levels \ {"none"}
    BY <1>1, <2>2, <2>3 DEF AlertsTypeOK
  <2>. QED
    BY <1>2, <1>7, <2>4 DEF Stamp, AlertsTypeOK, Sending
<1>8. ASSUME NEW t \in AlertTasks, Suppress(t)
      PROVE  AlertsTypeOK' /\ Sending'
  BY <1>2, <1>8 DEF Suppress, AlertsTypeOK, Sending
<1>9. ASSUME NEW t \in AlertTasks, Admit(t)
      PROVE  AlertsTypeOK' /\ Sending'
  <2>. DEFINE k == Key(event[t].cond)
  <2>1. /\ event[t] \in Alarm /\ event[t].lag \in 0 .. Expired
        /\ \/ UNCHANGED <<seen, since>>
           \/ seen' = [seen EXCEPT ![k] = event[t].lag] /\ since' = [since EXCEPT ![k] = 0]
    BY <1>1, <1>9, AlertsAssumption DEF Admit, Expired
  <2>. HIDE DEF k
  <2>2. seen' \in [AlertKeys -> 0 .. Expired] /\ since' \in [AlertKeys -> 0 .. Expired]
    BY <1>1, <2>1
  <2>3. ASSUME NEW d \in sends'
        PROVE  /\ d.ch \in Channels /\ d.cond \in Conditions /\ d.try \in 1 .. Tries[d.ch]
               /\ d = [ch |-> d.ch, cond |-> d.cond, level |-> d.level, try |-> d.try]
    <3>1. d \in sends \/ d \in Deliveries(event[t])
      BY <1>9 DEF Admit
    <3>2. CASE d \in sends
      BY <3>2 DEF AlertsTypeOK, Sending
    <3>3. CASE d \in Deliveries(event[t])
      <4>1. PICK ch \in Route(event[t].cond) :
              d = [ch |-> ch, cond |-> event[t].cond, level |-> event[t].level, try |-> 1]
        BY <3>3 DEF Deliveries
      <4>2. ch \in Channels /\ event[t].cond \in Conditions /\ 1 \in 1 .. Tries[ch]
        BY <2>1, AlertsAssumption DEF Route, Alarm
      <4>. QED
        BY <4>1, <4>2
    <3>. QED
      BY <3>1, <3>2, <3>3
  <2>. QED
    BY <1>2, <1>9, <2>2, <2>3 DEF Admit, AlertsTypeOK, Sending
<1>10. ASSUME NEW d \in sends, Arrive(d)
       PROVE  AlertsTypeOK' /\ Sending'
  <2>1. told' \in [Conditions -> SUBSET Channels] /\ sends' \subseteq sends
    BY <1>1, <1>10 DEF Arrive, AlertsTypeOK
  <2>. QED
    BY <1>10, <2>1 DEF Arrive, AlertsTypeOK, Sending
<1>11. ASSUME NEW d \in sends, Fail(d)
       PROVE  AlertsTypeOK' /\ Sending'
  <2>. DEFINE again == [ch |-> d.ch, cond |-> d.cond, level |-> d.level, try |-> d.try + 1]
  <2>1. /\ d = [ch |-> d.ch, cond |-> d.cond, level |-> d.level, try |-> d.try]
        /\ d.ch \in Channels /\ d.cond \in Conditions /\ d.try \in 1 .. Tries[d.ch] /\ Tries[d.ch] \in Nat
    BY AlertsAssumption DEF AlertsTypeOK, Sending
  <2>2. [d EXCEPT !.try = @ + 1] = again
    BY <2>1
  <2>3. \A e \in sends' : e \in sends \/ (e = again /\ d.try < Tries[d.ch])
    BY <1>11, <2>2 DEF Fail
  <2>4. faults' \in 0 .. MaxFaults
    BY <1>1, <1>11 DEF Fail
  <2>5. ASSUME NEW e \in sends'
        PROVE  /\ e.ch \in Channels /\ e.cond \in Conditions /\ e.try \in 1 .. Tries[e.ch]
               /\ e = [ch |-> e.ch, cond |-> e.cond, level |-> e.level, try |-> e.try]
    <3>1. CASE e \in sends
      BY <3>1 DEF AlertsTypeOK, Sending
    <3>2. CASE e = again /\ d.try < Tries[d.ch]
      BY <2>1, <3>2
    <3>. QED
      BY <2>3, <3>1, <3>2
  <2>. QED
    BY <1>11, <2>4, <2>5 DEF Fail, AlertsTypeOK, Sending
<1>12. CASE Restart
  <2>1. faults' \in 0 .. MaxFaults
    BY <1>1, <1>12 DEF Restart
  <2>2. \A t \in AlertTasks : todo'[t] = NoEvents /\ event'[t] = NoEvent
    BY <1>12 DEF Restart
  <2>. QED
    BY <1>1, <1>12, <2>1, <2>2 DEF Restart, AlertsTypeOK, Sending, NoEvents
<1>. QED
  BY <1>3, <1>4, <1>5, <1>6, <1>7, <1>8, <1>9, <1>10, <1>11, <1>12 DEF AlertsNext, RunTask

\* Type correctness, with deliveries as they are handed on: whole, and within their tries.
THEOREM AlertsTypeCorrect == AlertsSpec => []AlertsTypeOK
<1>1. SpacedInv /\ AlertsTypeOK /\ Sending /\ [AlertsNext]_alertVars
        => SpacedInv' /\ AlertsTypeOK' /\ Sending'
  BY SpacedStep, AlertsTypeStep
<1>. QED
  BY <1>1, SpacedInit, AlertsTypeInit, PTL DEF AlertsSpec

-----------------------------------------------------------------------------
(* Recommendations.  The two comparisons of times as texts (DayFacts), and *)
(* the rows they read (RowsInv).                                           *)

RecRow == [status : {"none", "active", "dismissed", "snoozed", "expired"},
           age : Nat, text : {"sql", "local"}, left : Int]

RowsInv == hour \in Nat /\ rec \in [Recs -> RecRow]

LEMMA DayFacts ==
  ASSUME hour \in Nat, NEW n \in Int, NEW m \in Int
  PROVE  /\ Day(n) < 0 => n < 0
         /\ Day(-n) = Day(-m) => n > m - DayLength
<1>1. DayLength \in Nat \ {0}
  BY RecommendationsAssumption
<1>2. \A x \in Int : /\ x \div DayLength \in Int
                    /\ DayLength * (x \div DayLength) <= x
                    /\ x < DayLength * (x \div DayLength) + DayLength
  BY <1>1, Z3
<1>3. ASSUME n >= 0 PROVE Day(n) >= 0
  BY <1>1, <1>3, Z3 DEF Day
<1>4. Day(n) \in Int
  BY <1>2 DEF Day
<1>5. ASSUME Day(-n) = Day(-m) PROVE n > m - DayLength
  <2>. DEFINE q == Day(-n)
  <2>1. q \in Int /\ DayLength * q <= hour + (-m) /\ hour + (-n) < DayLength * q + DayLength
    BY <1>2, <1>5 DEF Day
  <2>. HIDE DEF q
  <2>. DEFINE start == DayLength * q
  <2>2. start \in Int /\ start <= hour - m /\ hour - n < start + DayLength
    BY <1>1, <2>1
  <2>. HIDE DEF start
  <2>. QED
    BY <1>1, <2>2
<1>. QED
  BY <1>3, <1>4, <1>5

\* The rows the statements write.
LEMMA FreshFacts ==
  ASSUME NEW s \in {"none", "active", "dismissed", "snoozed", "expired"},
         NEW t \in {"sql", "local"}, NEW n \in Int
  PROVE  /\ Fresh(s, t, n) \in RecRow
         /\ Fresh(s, t, n).status = s /\ Fresh(s, t, n).left = n
BY DEF Fresh, RecRow

LEMMA Floors == DayLength \in Nat \ {0} /\ LongAgo \in Int /\ Null \in Int /\ Null < LongAgo /\ LongAgo <= 0
BY RecommendationsAssumption DEF LongAgo, Null

LEMMA RecRowFacts ==
  /\ NoRec \in RecRow
  /\ Touched \in RecRow /\ Touched.status = "active"
  /\ Inserted \in RecRow /\ Inserted.status = "active"
  /\ \A n \in Int : Snoozed(n) \in RecRow /\ Snoozed(n).status = "snoozed"
  /\ \A r \in RecRow : /\ RecExpired(r) \in RecRow /\ RecExpired(r).status = "expired"
                       /\ RecDismissed(r) \in RecRow /\ RecDismissed(r).status = "dismissed"
<1>1. ASSUME NEW r \in RecRow PROVE r.left \in Int
  BY DEF RecRow
<1>. QED
  BY <1>1, Floors, FreshFacts DEF NoRec, Touched, Inserted, Snoozed, RecExpired, RecDismissed

\* What a step may do to a row, besides making it older.
RowStep(f) ==
  \/ rec'[f].status = rec[f].status
  \/ rec[f].status = "none" /\ rec'[f].status = "active"
  \/ rec[f].status = "active" /\ Stale(rec[f]) /\ rec'[f].status = "expired"
  \/ rec[f].status = "snoozed" /\ Awake(rec[f]) /\ rec'[f].status = "active"
  \/ rec'[f].status \in {"dismissed", "snoozed"}

LEMMA RowsStep ==
  ASSUME RowsInv, [RecNext]_recVars
  PROVE  RowsInv' /\ \A f \in Recs : RowStep(f)
<1>1. /\ hour \in Nat /\ rec \in [Recs -> RecRow]
      /\ DayLength \in Nat \ {0} /\ SnoozeFor \subseteq Nat
  BY RecommendationsAssumption DEF RowsInv
<1>2. CASE HourPasses
  <2>1. hour' \in Nat
    <3>1. \A x \in Nat : x % DayLength \in Nat
      BY <1>1, Z3
    <3>2. hour' = (hour + 1) % DayLength
      BY <1>2 DEF HourPasses
    <3>3. hour + 1 \in Nat
      BY <1>1
    <3>. QED
      BY <3>1, <3>2, <3>3, Zenon
  <2>2. rec' = [f \in Recs |-> rec'[f]]
    BY <1>2 DEF HourPasses
  <2>3. ASSUME NEW f \in Recs
        PROVE  rec'[f] \in RecRow /\ rec'[f].status = rec[f].status
    <3>1. rec[f] \in RecRow /\ rec[f].age \in Nat /\ rec[f].left \in Int
      BY <1>1 DEF RecRow
    <3>. DEFINE a == IF rec[f].status = "active" /\ rec[f].age < Oldest THEN rec[f].age + 1 ELSE rec[f].age
                b == IF rec[f].left > LongAgo THEN rec[f].left - 1 ELSE rec[f].left
    <3>2. a \in Nat /\ b \in Int
      BY <3>1
    <3>3. rec'[f] = [rec[f] EXCEPT !.age = a, !.left = b]
      BY <1>2, <3>1 DEF HourPasses
    <3>. HIDE DEF a, b
    <3>. QED
      BY <3>1, <3>2, <3>3 DEF RecRow
  <2>. QED
    BY <2>1, <2>2, <2>3 DEF RowsInv, RowStep
<1>3. CASE ExpireRecommendations
  <2>1. hour' = hour /\ rec' = [f \in Recs |->
          IF rec[f].status = "active" /\ Stale(rec[f]) THEN RecExpired(rec[f]) ELSE rec[f]]
    BY <1>3 DEF ExpireRecommendations
  <2>. QED
    BY <1>1, <2>1, RecRowFacts DEF RowsInv, RowStep
<1>4. CASE ReactivateSnoozed
  <2>1. hour' = hour /\ rec' = [f \in Recs |->
          IF rec[f].status = "snoozed" /\ Awake(rec[f]) THEN Touched ELSE rec[f]]
    BY <1>4 DEF ReactivateSnoozed
  <2>. QED
    BY <1>1, <2>1, RecRowFacts DEF RowsInv, RowStep
<1>5. ASSUME NEW f \in Recs, UpsertRecommendation(f)
      PROVE  RowsInv' /\ \A g \in Recs : RowStep(g)
  <2>. DEFINE new == CASE rec[f].status = "none"   -> Inserted
                       [] rec[f].status = "active" -> Touched
                       [] OTHER                    -> rec[f]
  <2>1. hour' = hour /\ rec' = [rec EXCEPT ![f] = new]
    BY <1>5 DEF UpsertRecommendation
  <2>2. /\ new \in RecRow
        /\ \/ new.status = rec[f].status
           \/ rec[f].status = "none" /\ new.status = "active"
    <3>1. CASE rec[f].status = "none"
      BY <3>1, RecRowFacts
    <3>2. CASE rec[f].status = "active"
      BY <3>2, RecRowFacts
    <3>3. CASE rec[f].status \notin {"none", "active"}
      <4>1. new = rec[f]
        BY <3>3
      <4>2. rec[f] \in RecRow
        BY <1>1
      <4>. QED
        BY <4>1, <4>2, Zenon
    <3>. QED
      BY <3>1, <3>2, <3>3
  <2>. HIDE DEF new
  <2>. QED
    BY <1>1, <2>1, <2>2 DEF RowsInv, RowStep
<1>6. ASSUME NEW f \in Recs, DismissRecommendation(f)
      PROVE  RowsInv' /\ \A g \in Recs : RowStep(g)
  BY <1>1, <1>6, RecRowFacts DEF DismissRecommendation, RowsInv, RowStep
<1>7. ASSUME NEW f \in Recs, NEW n \in SnoozeFor, SnoozeRecommendation(f, n)
      PROVE  RowsInv' /\ \A g \in Recs : RowStep(g)
  <2>. DEFINE new == Snoozed(n)
  <2>1. new \in RecRow /\ new.status = "snoozed"
    <3>1. n \in Int
      BY <1>1
    <3>. QED
      BY <3>1, RecRowFacts
  <2>2. hour' = hour /\ rec' = [rec EXCEPT ![f] = new]
    BY <1>7 DEF SnoozeRecommendation
  <2>. HIDE DEF new
  <2>. QED
    BY <1>1, <2>1, <2>2 DEF RowsInv, RowStep
<1>8. CASE UNCHANGED <<hour, rec>>
  BY <1>1, <1>8 DEF RowsInv, RowStep
<1>. QED
  BY <1>2, <1>3, <1>4, <1>5, <1>6, <1>7, <1>8
     DEF RecNext, Task, GenerateRecommendations, StopTask, Flip, recVars

LEMMA RowsInit == RecInit => RowsInv
BY RecRowFacts DEF RecInit, RowsInv

\* What a user has put away stays away until its time, though the task compares
\* times of two forms as texts, and what he has not put away is not expired more
\* than a day early.
THEOREM UsersDecide == RecSpec => UserDecides
<1>1. ASSUME RowsInv, [RecNext]_recVars, NEW f \in Recs
      PROVE  /\ rec[f].status = "dismissed" /\ rec'[f].status # "dismissed" =>
                  rec'[f].status = "snoozed"
             /\ rec[f].status = "snoozed" /\ rec'[f].status = "active" => rec[f].left < 0
             /\ rec[f].status = "active" /\ rec'[f].status = "expired" =>
                  rec[f].age > ExpireAfter - DayLength
  <2>1. RowStep(f)
    BY <1>1, RowsStep
  <2>2. hour \in Nat /\ rec[f].age \in Nat /\ rec[f].left \in Int
        /\ DayLength \in Nat \ {0} /\ ExpireAfter \in Nat /\ Offset \in Int /\ Offset > -DayLength
    BY <1>1, RecommendationsAssumption DEF RowsInv, RecRow
  <2>3. Awake(rec[f]) => rec[f].left < 0
    BY <2>2, DayFacts DEF Awake
  <2>4. ASSUME Stale(rec[f]) PROVE rec[f].age > ExpireAfter - DayLength
    <3>1. CASE rec[f].text = "local"
      BY <2>2, <2>4, <3>1 DEF Stale
    <3>2. CASE rec[f].text # "local" /\ rec[f].age > ExpireAfter
      BY <2>2, <3>2
    <3>3. CASE Day(-rec[f].age) = Day(-ExpireAfter)
      BY <2>2, <3>3, DayFacts
    <3>. QED
      BY <2>4, <3>1, <3>2, <3>3 DEF Stale
  <2>. QED
    BY <2>1, <2>3, <2>4 DEF RowStep
<1>2. RowsInv /\ [RecNext]_recVars => RowsInv'
  BY RowsStep
<1>3. RowsInv /\ [RecNext]_recVars => [\A f \in Recs :
        /\ rec[f].status = "dismissed" /\ rec'[f].status # "dismissed" =>
             rec'[f].status = "snoozed"
        /\ rec[f].status = "snoozed" /\ rec'[f].status = "active" => rec[f].left < 0
        /\ rec[f].status = "active" /\ rec'[f].status = "expired" =>
             rec[f].age > ExpireAfter - DayLength]_recVars
  BY <1>1
<1>. QED
  BY <1>2, <1>3, RowsInit, PTL DEF RecSpec, UserDecides

LEMMA RecTypeInit == RecInit => RecTypeOK
BY Floors, RecommendationsAssumption DEF RecInit, RecTypeOK, NoRec, Fresh, Oldest, Phases

\* A row as a statement writes it has its times bounded.
LEMMA WrittenRows ==
  /\ \A s, t, n : LET r == Fresh(s, t, n) IN r.status = s /\ r.age = 0 /\ r.text = t /\ r.left = n
  /\ Oldest \in Nat
BY RecommendationsAssumption DEF Fresh, Oldest

RowTyped(r) ==
  /\ r.status \in {"none", "active", "dismissed", "snoozed", "expired"}
  /\ r.age \in 0 .. Oldest /\ r.text \in {"sql", "local"}
  /\ r.status = "snoozed" => r.left >= LongAgo
  /\ r.status \in {"none", "active", "expired"} => r.left = Null

LEMMA WrittenTyped ==
  /\ RowTyped(NoRec) /\ RowTyped(Touched) /\ RowTyped(Inserted)
  /\ \A n \in Nat : RowTyped(Snoozed(n))
  /\ \A r : RowTyped(RecDismissed(r)) /\ (r.left = Null => RowTyped(RecExpired(r)))
<1>1. \A n \in Nat : n >= LongAgo
  BY Floors
<1>. QED
  BY <1>1, WrittenRows DEF RowTyped, NoRec, Touched, Inserted, RecDismissed, RecExpired, Snoozed

LEMMA HourFacts ==
  ASSUME NEW n \in Nat, NEW d \in Nat \ {0}
  PROVE  n % d \in 0 .. d - 1
OBVIOUS

LEMMA RecTypeStep ==
  ASSUME RowsInv, RecTypeOK, [RecNext]_recVars
  PROVE  RecTypeOK'
<1>1. /\ hour \in 0 .. DayLength - 1 /\ DayLength \in Nat \ {0} /\ SnoozeFor \subseteq Nat
      /\ holds \in [Recs -> BOOLEAN]
      /\ rec \in [Recs -> RecRow] /\ \A f \in Recs : RowTyped(rec[f])
      /\ phase \in Phases /\ toSave \subseteq Recs /\ (phase # "save" => toSave = {})
  BY RecommendationsAssumption DEF RowsInv, RecTypeOK, RowTyped
<1>2. SUFFICES /\ hour' \in 0 .. DayLength - 1 /\ holds' \in [Recs -> BOOLEAN]
               /\ \A f \in Recs : RowTyped(rec'[f])
               /\ phase' \in Phases /\ toSave' \subseteq Recs /\ (phase' # "save" => toSave' = {})
  BY DEF RecTypeOK, RowTyped
<1>3. CASE UNCHANGED recVars
  BY <1>1, <1>3 DEF recVars
<1>4. CASE HourPasses
  <2>1. hour' \in 0 .. DayLength - 1
    <3>1. hour + 1 \in Nat
      BY <1>1
    <3>2. hour' = (hour + 1) % DayLength
      BY <1>4, Zenon DEF HourPasses
    <3>. QED
      BY <1>1, <3>1, <3>2, HourFacts
  <2>2. ASSUME NEW f \in Recs PROVE RowTyped(rec'[f])
    <3>1. rec'[f] = [rec[f] EXCEPT
            !.age = IF rec[f].status = "active" /\ rec[f].age < Oldest THEN rec[f].age + 1 ELSE rec[f].age,
            !.left = IF rec[f].left > LongAgo THEN rec[f].left - 1 ELSE rec[f].left]
      BY <1>4 DEF HourPasses
    <3>2. rec[f] \in RecRow /\ RowTyped(rec[f]) /\ Oldest \in Nat
      BY <1>1, WrittenRows
    <3>3. /\ rec'[f].status = rec[f].status /\ rec'[f].text = rec[f].text
          /\ rec'[f].age = IF rec[f].status = "active" /\ rec[f].age < Oldest THEN rec[f].age + 1 ELSE rec[f].age
          /\ rec'[f].left = IF rec[f].left > LongAgo THEN rec[f].left - 1 ELSE rec[f].left
          /\ rec[f].left \in Int /\ rec[f].age \in Nat
      BY <3>1, <3>2 DEF RecRow
    <3>4. /\ rec[f].left = Null => rec'[f].left = Null
          /\ rec[f].left >= LongAgo => rec'[f].left >= LongAgo
      BY <3>3, Floors
    <3>5. rec[f].age \in 0 .. Oldest => rec'[f].age \in 0 .. Oldest
      BY <3>2, <3>3
    <3>. QED
      BY <3>2, <3>3, <3>4, <3>5 DEF RowTyped
  <2>. QED
    BY <1>1, <1>4, <2>1, <2>2 DEF HourPasses
<1>5. CASE ExpireRecommendations
  <2>1. rec' = [f \in Recs |-> IF rec[f].status = "active" /\ Stale(rec[f]) THEN RecExpired(rec[f]) ELSE rec[f]]
    BY <1>5 DEF ExpireRecommendations
  <2>2. \A f \in Recs : rec[f].status = "active" => rec[f].left = Null
    BY <1>1 DEF RowTyped
  <2>3. \A f \in Recs : RowTyped(rec'[f])
    BY <1>1, <2>1, <2>2, WrittenTyped
  <2>. QED
    BY <1>1, <1>5, <2>3 DEF ExpireRecommendations, Phases
<1>6. CASE ReactivateSnoozed
  BY <1>1, <1>6, WrittenTyped DEF ReactivateSnoozed, Phases
<1>7. CASE GenerateRecommendations
  BY <1>1, <1>7 DEF GenerateRecommendations, Phases
<1>8. ASSUME NEW f \in Recs, UpsertRecommendation(f)
      PROVE  /\ \A g \in Recs : RowTyped(rec'[g])
             /\ phase' \in Phases /\ toSave' \subseteq Recs /\ (phase' # "save" => toSave' = {})
  <2>. DEFINE new == CASE rec[f].status = "none" -> Inserted [] rec[f].status = "active" -> Touched [] OTHER -> rec[f]
  <2>1. rec' = [rec EXCEPT ![f] = new]
    BY <1>8 DEF UpsertRecommendation
  <2>2. RowTyped(new)
    BY <1>1, WrittenTyped
  <2>. HIDE DEF new
  <2>3. \A g \in Recs : RowTyped(rec'[g])
    BY <1>1, <2>1, <2>2
  <2>. QED
    BY <1>1, <1>8, <2>3 DEF UpsertRecommendation, Phases
<1>9. CASE StopTask
  BY <1>1, <1>9 DEF StopTask, Phases
<1>10. ASSUME NEW f \in Recs, Flip(f) \/ DismissRecommendation(f) \/ \E n \in SnoozeFor : SnoozeRecommendation(f, n)
       PROVE  /\ holds' \in [Recs -> BOOLEAN] /\ \A g \in Recs : RowTyped(rec'[g])
              /\ UNCHANGED <<hour, phase, toSave>>
  BY <1>1, <1>10, WrittenTyped DEF Flip, DismissRecommendation, SnoozeRecommendation
<1>. QED
  BY <1>1, <1>3, <1>4, <1>5, <1>6, <1>7, <1>8, <1>9, <1>10
     DEF RecNext, Task, ExpireRecommendations, ReactivateSnoozed, GenerateRecommendations, UpsertRecommendation,
         StopTask

\* Type correctness: a row that sleeps has a time to wake up at, and only one that the
\* user has put away can have one.
THEOREM RecTypeCorrect == RecSpec => []RecTypeOK
<1>1. RowsInv /\ RecTypeOK /\ [RecNext]_recVars => RowsInv' /\ RecTypeOK'
  BY RowsStep, RecTypeStep
<1>. QED
  BY <1>1, RowsInit, RecTypeInit, PTL DEF RecSpec

-----------------------------------------------------------------------------
(* The daemon.  DaemonInv is the inductive invariant of what happens before *)
(* the first failure, where the user waits for a command to be over before  *)
(* the next (OneAtATime): one child lives at a time, whoever waits for it   *)
(* or stops it finds it in a state that fits, and PID file and port are its *)
(* own.                                                                     *)

DaemonInv ==
  failures = 0 =>
    /\ \A p, q \in Daemons : Alive(p) /\ Alive(q) => p = q
    /\ \A p \in Daemons : launcher[p] \in {"waiting", "verified"} =>
         proc[p] \in {"started", "named", "bound", "serving"}
    /\ \A p \in Daemons : proc[p] \in {"named", "bound", "serving", "draining", "closed"} =>
         pidFile = p
    /\ pidFile # NoPid => Alive(pidFile)
    /\ port # NoPid => proc[port] \in {"bound", "serving", "draining"}
    /\ stopper # NoPid => /\ proc[stopper] = "serving"
                          /\ \A p \in Daemons : launcher[p] \notin {"waiting", "verified"}

LEMMA DaemonTypeInit == DaemonInit => DaemonTypeOK
BY DaemonAssumption DEF DaemonInit, DaemonTypeOK, ProcStates

LEMMA DaemonTypeStep == DaemonTypeOK /\ [DaemonNext]_daemonVars => DaemonTypeOK'
<1>. SUFFICES ASSUME DaemonTypeOK, [DaemonNext]_daemonVars PROVE DaemonTypeOK'
  OBVIOUS
<1>. USE DaemonAssumption DEF DaemonTypeOK, ProcStates
<1>1. CASE UNCHANGED daemonVars
  BY <1>1 DEF daemonVars
<1>2. CASE ReadPIDFile
  BY <1>2 DEF ReadPIDFile
<1>3. ASSUME NEW p \in Daemons, Launch(p) \/ Parent(p)
      PROVE  DaemonTypeOK'
  BY <1>3 DEF Launch, Parent, Verify, Report, Becomes
<1>4. ASSUME NEW p \in Daemons, Child(p)
      PROVE  DaemonTypeOK'
  BY <1>4 DEF Child, WritePIDFile, Listen, Notify, Shutdown, RemovePIDFile, Becomes
<1>5. ASSUME NEW p \in Daemons, Terminate(p)
      PROVE  DaemonTypeOK'
  <2>1. proc' \in [Daemons -> ProcStates] /\ pidFile' \in Daemons \cup {NoPid}
        /\ port' \in Daemons \cup {NoPid}
    BY <1>5 DEF Terminate, Becomes
  <2>. QED
    BY <1>5, <2>1 DEF Terminate
<1>6. ASSUME NEW p \in Daemons, ShutdownFails(p) \/ Crash(p)
      PROVE  DaemonTypeOK'
  BY <1>6 DEF ShutdownFails, Crash, Becomes
<1>. QED
  BY <1>1, <1>2, <1>3, <1>4, <1>5, <1>6 DEF DaemonNext

LEMMA DaemonInvInit == DaemonInit => DaemonInv
BY DEF DaemonInit, DaemonInv, Alive

LEMMA DaemonInvStep ==
  ASSUME OneAtATime, DaemonTypeOK, DaemonInv, [DaemonNext]_daemonVars
  PROVE  DaemonInv'
<1>. SUFFICES ASSUME failures' = 0 PROVE DaemonInv'
  BY DEF DaemonInv
<1>. USE DaemonAssumption DEF DaemonTypeOK, ProcStates
<1>1. CASE UNCHANGED daemonVars
  BY <1>1 DEF daemonVars, DaemonInv, Alive
<1>2. CASE ReadPIDFile
  BY <1>2 DEF ReadPIDFile, DaemonInv, Alive, Settled
<1>3. ASSUME NEW p \in Daemons, Launch(p)
      PROVE  DaemonInv'
  BY <1>3 DEF Launch, Becomes, DaemonInv, Alive, Settled
<1>4. ASSUME NEW p \in Daemons, Verify(p)
      PROVE  DaemonInv'
  BY <1>4 DEF Verify, IsProcessAlive, DaemonInv, Alive
<1>5. ASSUME NEW p \in Daemons, Report(p)
      PROVE  DaemonInv'
  BY <1>5 DEF Report, DaemonInv, Alive
<1>6. ASSUME NEW p \in Daemons, WritePIDFile(p)
      PROVE  DaemonInv'
  BY <1>6 DEF WritePIDFile, Becomes, DaemonInv, Alive
<1>7. ASSUME NEW p \in Daemons, Listen(p)
      PROVE  DaemonInv'
  BY <1>7 DEF Listen, Becomes, DaemonInv, Alive
<1>8. ASSUME NEW p \in Daemons, Notify(p)
      PROVE  DaemonInv'
  BY <1>8 DEF Notify, Becomes, DaemonInv, Alive
<1>9. ASSUME NEW p \in Daemons, Shutdown(p)
      PROVE  DaemonInv'
  BY <1>9 DEF Shutdown, Becomes, DaemonInv, Alive
<1>10. ASSUME NEW p \in Daemons, RemovePIDFile(p)
       PROVE  DaemonInv'
  BY <1>10 DEF RemovePIDFile, Becomes, DaemonInv, Alive
<1>11. ASSUME NEW p \in Daemons, Terminate(p)
       PROVE  DaemonInv'
  <2>1. failures = 0 /\ stopper = p /\ proc[p] = "serving"
    BY <1>11 DEF Terminate, DaemonInv
  <2>2. proc' = [proc EXCEPT ![p] = "draining"] /\ stopper' = NoPid
        /\ UNCHANGED <<launcher, pidFile, port, failures>>
    BY <1>11, <2>1 DEF Terminate, Becomes
  <2>. QED
    BY <2>1, <2>2 DEF DaemonInv, Alive
\* A failure is no longer before the first failure.
<1>12. ASSUME NEW p \in Daemons, ShutdownFails(p) \/ Crash(p)
       PROVE  DaemonInv'
  BY <1>12 DEF ShutdownFails, Crash
<1>. QED
  BY <1>1, <1>2, <1>3, <1>4, <1>5, <1>6, <1>7, <1>8, <1>9, <1>10, <1>11, <1>12
     DEF DaemonNext, Parent, Child

\* When everything has settled and nothing has failed, the PID file is there
\* exactly as long as the daemon it names, where commands are given one at a time.
THEOREM PidFileIsTheDaemons ==
  ASSUME OneAtATime
  PROVE  DaemonSpec => []FileMeansDaemon
<1>1. DaemonTypeOK /\ DaemonInv => FileMeansDaemon
  BY DEF DaemonTypeOK, DaemonInv, FileMeansDaemon, StopFindsDaemon, Settled, Alive
<1>. QED
  BY <1>1, DaemonTypeInit, DaemonTypeStep, DaemonInvInit, DaemonInvStep, PTL DEF DaemonSpec

-----------------------------------------------------------------------------
(* The stall ledger, where its task runs once at a time (OneRun; two runs  *)
(* at a time can seal a stall that is live).  The core of LedgerInv is     *)
(* what a run knows: a stored tool that still runs was found by the scan   *)
(* the run began with, so what it lists as open and did not find is over.  *)

OneRun == \A r, q \in Runs : r = q

\* What a scan may have found: some keys, with their ends.
Found == UNION { [K -> Nat] : K \in SUBSET Keys }

LedgerTypeOK ==
  /\ now \in Nat \ {0}
  /\ status \in [Keys -> {"absent", "running", "errored", "over"}]
  /\ started \in [Keys -> Nat] /\ completed \in [Keys -> Nat]
  /\ row \in [Keys -> Row]
  /\ pc \in [Runs -> {"idle", "errors", "upsert", "seal"}]
  /\ at \in [Runs -> Nat]
  /\ found \in [Runs -> Found]
  /\ live \in [Runs -> SUBSET Tools] /\ open \in [Runs -> SUBSET Keys]
  /\ mishaps \in Nat

\* OpenCode: only messages have an error, and a message is over when it has its
\* completion time.
SourceInv ==
  /\ \A k \in Keys : started[k] <= now /\ completed[k] <= now
  /\ \A k \in Tools : status[k] \in {"absent", "running", "over"}
  /\ \A k \in Messages :
       /\ status[k] \in {"absent", "errored", "over"}
       /\ status[k] # "over" => completed[k] = 0
       /\ status[k] = "over" => completed[k] # 0 /\ started[k] <= completed[k]

\* A row is about something that began, is sealed only if that is over and with
\* the duration its ends say; a message that began and ended in one instant gets
\* its end with its row.
RowInv ==
  \A k \in Keys :
    /\ row[k].exists => status[k] # "absent"
    /\ row[k].ended <= now
    /\ ~row[k].exists => row[k] = NoRow
    /\ row[k].ended # 0 => row[k].duration + started[k] = row[k].ended
    /\ k \in Tools => /\ row[k].exists => started[k] + Threshold < now
                      /\ row[k].ended # 0 => status[k] # "running"
    /\ k \in Messages /\ status[k] = "over" /\ completed[k] = started[k] /\ row[k].exists =>
         row[k].ended = completed[k]

\* A tool among what a run found.
LiveFound(r, k) == k \in live[r] /\ found[r][k] = 0

\* A message among what a run found.
ErroredFound(r, k) ==
  /\ k \in Messages /\ status[k] # "absent" /\ found[r][k] \in {0, completed[k]}
  /\ status[k] = "over" /\ completed[k] = started[k] => found[r][k] = completed[k]

RunInv(r) ==
  /\ at[r] <= now
  /\ pc[r] # "idle" => at[r] # 0
  /\ pc[r] = "idle" => DOMAIN found[r] = {}
  /\ pc[r] # "seal" => open[r] = {}
  /\ pc[r] = "seal" => DOMAIN found[r] = {}
  /\ pc[r] = "errors" => \A k \in DOMAIN found[r] : LiveFound(r, k)
  /\ \A k \in live[r] : /\ started[k] + Threshold < at[r] /\ status[k] # "absent"
                        /\ pc[r] # "seal" => row[k].ended = 0
  /\ pc[r] \in {"errors", "upsert"} =>
       \A k \in Tools : row[k].exists /\ status[k] = "running" => k \in live[r]
  /\ \A k \in DOMAIN found[r] : LiveFound(r, k) \/ ErroredFound(r, k)
  /\ \A k \in open[r] : /\ row[k].exists /\ row[k].ended = 0 /\ started[k] <= at[r]
                        /\ k \in Tools => status[k] = "over"

LedgerInv == LedgerTypeOK /\ SourceInv /\ RowInv /\ \A r \in Runs : RunInv(r)

-----------------------------------------------------------------------------

LEMMA FoundType ==
  /\ Nothing \in Found /\ DOMAIN Nothing = {}
  /\ \A f \in Found : DOMAIN f \subseteq Keys /\ \A k \in DOMAIN f : f[k] \in Nat
  /\ \A K \in SUBSET Keys : \A f : f \in [K -> Nat] => f \in Found
<1>1. Nothing \in [{} -> Nat] /\ DOMAIN Nothing = {}
  BY DEF Nothing
<1>2. \A f \in Found : \E K \in SUBSET Keys : f \in [K -> Nat]
  BY DEF Found
<1>3. \A K \in SUBSET Keys : \A f : f \in [K -> Nat] => f \in Found
  BY DEF Found
<1>. QED
  BY <1>1, <1>2, <1>3

LEMMA LedgerInit == Init => LedgerInv
<1>. SUFFICES ASSUME Init PROVE LedgerInv
  OBVIOUS
<1>1. LedgerTypeOK
  BY FoundType DEF Init, LedgerTypeOK, NoRow, Row
<1>2. SourceInv
  BY DEF Init, SourceInv, Keys
<1>3. RowInv
  BY DEF Init, RowInv, NoRow, Keys
<1>4. ASSUME NEW r \in Runs PROVE RunInv(r)
  BY FoundType DEF Init, RunInv
<1>. QED
  BY <1>1, <1>2, <1>3, <1>4 DEF LedgerInv

\* OpenCode's steps.
LEMMA SourceEffect ==
  ASSUME LedgerTypeOK, SourceInv,
         \/ \E k \in Keys : StartTool(k) \/ FinishTool(k) \/ FailMessage(k) \/ CompleteMessage(k)
         \/ Tick
  PROVE  /\ UNCHANGED <<row, pc, at, found, live, open, mishaps>>
         /\ LedgerTypeOK' /\ SourceInv' /\ now <= now'
         /\ \A j \in Keys : status[j] # "absent" =>
              /\ status'[j] # "absent" /\ started'[j] = started[j]
              /\ status'[j] = "running" => status[j] = "running"
              /\ status[j] = "over" => status'[j] = "over" /\ completed'[j] = completed[j]
              /\ j \in Messages /\ status[j] # "over" =>
                   /\ completed[j] = 0
                   /\ status'[j] = "over" => started[j] < completed'[j]
<1>. USE StallLedgerAssumption
<1>1. UNCHANGED <<row, pc, at, found, live, open, mishaps>>
  BY DEF StartTool, FinishTool, FailMessage, CompleteMessage, Tick, SourceStep
\* What a key's step does to it: it begins, or goes on to its end.
<1>2. \/ /\ now' = now + 1 /\ UNCHANGED <<status, started, completed>>
      \/ \E k \in Keys :
           /\ now' = now
           /\ \A j \in Keys \ {k} : /\ status'[j] = status[j] /\ started'[j] = started[j]
                                    /\ completed'[j] = completed[j]
           /\ \/ /\ status[k] = "absent" /\ started'[k] = now
                 /\ \/ k \in Tools /\ status'[k] = "running" /\ completed'[k] = completed[k]
                    \/ k \in Messages /\ status'[k] = "errored" /\ completed'[k] = completed[k]
                    \/ k \in Messages /\ status'[k] = "over" /\ completed'[k] = now
              \/ /\ started'[k] = started[k] /\ status'[k] = "over"
                 /\ \/ k \in Tools /\ status[k] = "running" /\ completed'[k] = completed[k]
                    \/ /\ k \in Messages /\ status[k] = "errored" /\ started[k] < now
                       /\ completed'[k] = now
  <2>1. CASE Tick
    BY <2>1 DEF Tick
  <2>2. ASSUME NEW k \in Keys,
               StartTool(k) \/ FinishTool(k) \/ FailMessage(k) \/ CompleteMessage(k)
        PROVE  /\ now' = now
               /\ \A j \in Keys \ {k} : /\ status'[j] = status[j] /\ started'[j] = started[j]
                                        /\ completed'[j] = completed[j]
               /\ \/ /\ status[k] = "absent" /\ started'[k] = now
                     /\ \/ k \in Tools /\ status'[k] = "running" /\ completed'[k] = completed[k]
                        \/ k \in Messages /\ status'[k] = "errored" /\ completed'[k] = completed[k]
                        \/ k \in Messages /\ status'[k] = "over" /\ completed'[k] = now
                  \/ /\ started'[k] = started[k] /\ status'[k] = "over"
                     /\ \/ k \in Tools /\ status[k] = "running" /\ completed'[k] = completed[k]
                        \/ /\ k \in Messages /\ status[k] = "errored" /\ started[k] < now
                           /\ completed'[k] = now
    BY <2>2 DEF LedgerTypeOK, StartTool, FinishTool, FailMessage, CompleteMessage, Occurs
  <2>. QED
    BY <2>1, <2>2
<1>3. LedgerTypeOK'
  BY <1>1 DEF LedgerTypeOK, StartTool, FinishTool, FailMessage, CompleteMessage, Tick, Occurs
<1>4. SourceInv'
  BY <1>2 DEF SourceInv, LedgerTypeOK, Keys
\* What has begun goes on, with its start, and an error ends later than it began.
<1>5. ASSUME NEW j \in Keys, status[j] # "absent"
      PROVE  /\ status'[j] # "absent" /\ started'[j] = started[j]
             /\ status'[j] = "running" => status[j] = "running"
             /\ status[j] = "over" => status'[j] = "over" /\ completed'[j] = completed[j]
             /\ j \in Messages /\ status[j] # "over" =>
                  /\ completed[j] = 0
                  /\ status'[j] = "over" => started[j] < completed'[j]
  BY <1>2, <1>5 DEF SourceInv, LedgerTypeOK, Keys
<1>6. now <= now'
  BY <1>2 DEF LedgerTypeOK
<1>. QED
  BY <1>1, <1>3, <1>4, <1>5, <1>6

LEMMA SourceStepKeeps ==
  ASSUME LedgerInv,
         \/ \E k \in Keys : StartTool(k) \/ FinishTool(k) \/ FailMessage(k) \/ CompleteMessage(k)
         \/ Tick
  PROVE  LedgerInv'
<1>. USE StallLedgerAssumption
<1>1. LedgerTypeOK /\ SourceInv /\ RowInv /\ \A r \in Runs : RunInv(r)
  BY DEF LedgerInv
<1>2. UNCHANGED <<row, pc, at, found, live, open, mishaps>> /\ LedgerTypeOK' /\ SourceInv'
  BY <1>1, SourceEffect
<1>3. ASSUME NEW j \in Keys, status[j] # "absent"
      PROVE  /\ status'[j] # "absent" /\ started'[j] = started[j]
             /\ status'[j] = "running" => status[j] = "running"
             /\ status[j] = "over" => status'[j] = "over" /\ completed'[j] = completed[j]
             /\ j \in Messages /\ status[j] # "over" =>
                  /\ completed[j] = 0
                  /\ status'[j] = "over" => started[j] < completed'[j]
  BY <1>1, <1>3, SourceEffect
<1>4. now <= now' /\ now' \in Nat
  BY <1>2, <1>1, SourceEffect DEF LedgerTypeOK
<1>5. RowInv'
  <2>. SUFFICES ASSUME NEW k \in Keys
                PROVE  /\ row[k].exists => status'[k] # "absent"
                       /\ row[k].ended <= now'
                       /\ ~row[k].exists => row[k] = NoRow
                       /\ row[k].ended # 0 => row[k].duration + started'[k] = row[k].ended
                       /\ k \in Tools => /\ row[k].exists => started'[k] + Threshold < now'
                                         /\ row[k].ended # 0 => status'[k] # "running"
                       /\ k \in Messages /\ status'[k] = "over" /\ completed'[k] = started'[k]
                            /\ row[k].exists => row[k].ended = completed'[k]
    BY <1>2 DEF RowInv
  <2>1. row[k] \in Row /\ started[k] \in Nat /\ now \in Nat
    BY <1>1 DEF LedgerTypeOK
  <2>2. CASE ~row[k].exists
    <3>1. row[k] = NoRow
      BY <1>1, <2>2 DEF RowInv
    <3>. QED
      BY <1>4, <3>1 DEF NoRow
  <2>3. CASE row[k].exists
    <3>1. status[k] # "absent"
      BY <1>1, <2>3 DEF RowInv
    <3>. QED
      BY <1>1, <1>3, <1>4, <2>1, <2>3, <3>1 DEF RowInv, Row
  <2>. QED
    BY <2>2, <2>3
<1>6. ASSUME NEW r \in Runs PROVE RunInv(r)'
  <2>1. RunInv(r) /\ live[r] \subseteq Keys /\ open[r] \subseteq Keys
        /\ found[r] \in Found /\ at[r] \in Nat /\ now \in Nat
    BY <1>1 DEF LedgerTypeOK, Keys
  <2>2. DOMAIN found[r] \subseteq Keys
    BY <2>1, FoundType
  <2>3. \A k \in live[r] : started'[k] + Threshold < at[r] /\ status'[k] # "absent"
    BY <1>3, <2>1 DEF RunInv
  <2>4. \A k \in Tools : row[k].exists /\ status'[k] = "running" => status[k] = "running"
    BY <1>1, <1>3 DEF RowInv, Keys
  <2>5. ASSUME NEW k \in DOMAIN found[r]
        PROVE  /\ LiveFound(r, k) => LiveFound(r, k)'
               /\ ErroredFound(r, k) => ErroredFound(r, k)'
    <3>1. k \in Keys /\ found'[r][k] = found[r][k] /\ live'[r] = live[r]
      BY <1>2, <2>2
    <3>2. ASSUME ErroredFound(r, k), status[k] = "over"
          PROVE  ErroredFound(r, k)'
      BY <1>3, <3>1, <3>2 DEF ErroredFound
    <3>3. ASSUME ErroredFound(r, k), status[k] # "over"
          PROVE  ErroredFound(r, k)'
      <4>1. k \in Messages /\ status[k] # "absent" /\ found[r][k] \in {0, completed[k]}
        BY <3>3 DEF ErroredFound
      <4>2. /\ completed[k] = 0 /\ status'[k] # "absent" /\ started'[k] = started[k]
            /\ status'[k] = "over" => started[k] < completed'[k]
        BY <1>3, <3>1, <3>3, <4>1
      <4>3. started[k] \in Nat /\ found[r][k] = 0
        BY <1>1, <3>1, <4>1, <4>2 DEF LedgerTypeOK
      <4>. QED
        BY <3>1, <4>1, <4>2, <4>3 DEF ErroredFound
    <3>. QED
      BY <3>1, <3>2, <3>3 DEF LiveFound
  <2>6. \A k \in open[r] : /\ started'[k] <= at[r]
                           /\ k \in Tools => status'[k] = "over"
    <3>1. \A k \in open[r] : row[k].exists /\ started[k] <= at[r] /\ (k \in Tools => status[k] = "over")
      BY <2>1 DEF RunInv
    <3>2. \A k \in open[r] : status[k] # "absent"
      BY <1>1, <2>1, <3>1 DEF RowInv
    <3>. QED
      BY <1>3, <2>1, <3>1, <3>2
  <2>7. at[r] <= now'
    BY <1>4, <2>1 DEF RunInv
  <2>. QED
    BY <1>2, <2>1, <2>3, <2>4, <2>5, <2>6, <2>7 DEF RunInv
<1>. QED
  BY <1>2, <1>5, <1>6 DEF LedgerInv
-----------------------------------------------------------------------------
(* The steps of a run.                                                     *)

LEMMA RunFacts ==
  ASSUME LedgerInv, NEW r \in Runs
  PROVE  /\ RunInv(r) /\ found[r] \in Found /\ live[r] \subseteq Tools /\ open[r] \subseteq Keys
         /\ at[r] \in Nat /\ now \in Nat \ {0}
         /\ DOMAIN found[r] \subseteq Keys
         /\ \A k \in Keys : /\ started[k] \in Nat /\ completed[k] \in Nat
                            /\ row[k] \in Row /\ row[k].ended \in Nat /\ row[k].duration \in Nat
                            /\ row[k].exists \in BOOLEAN
BY FoundType DEF LedgerInv, LedgerTypeOK, Row

\* A run that ends forgets what it had.
LEMMA ReturnKeeps ==
  ASSUME OneRun, LedgerInv, NEW r \in Runs, Return(r), UNCHANGED <<sourceVars, row>>,
         mishaps' \in Nat
  PROVE  LedgerInv'
<1>1. LedgerTypeOK /\ SourceInv /\ RowInv
  BY DEF LedgerInv
<1>2. LedgerTypeOK'
  BY <1>1, FoundType DEF LedgerTypeOK, Return, sourceVars
<1>3. SourceInv' /\ RowInv'
  BY <1>1 DEF SourceInv, RowInv, sourceVars
<1>4. ASSUME NEW q \in Runs PROVE RunInv(q)'
  <2>1. q = r
    BY DEF OneRun
  <2>2. /\ pc'[r] = "idle" /\ at'[r] = 0 /\ found'[r] = Nothing /\ live'[r] = {} /\ open'[r] = {}
    BY <1>1 DEF Return, LedgerTypeOK
  <2>. QED
    BY <1>1, <2>1, <2>2, FoundType DEF RunInv, LedgerTypeOK, sourceVars
<1>. QED
  BY <1>2, <1>3, <1>4 DEF LedgerInv

LEMMA ScanLiveKeeps ==
  ASSUME OneRun, LedgerInv, NEW r \in Runs, ScanLive(r)
  PROVE  LedgerInv'
<1>. DEFINE stalled == { k \in Tools : status[k] = "running" /\ started[k] + Threshold < now }
<1>1. LedgerTypeOK /\ SourceInv /\ RowInv /\ RunInv(r)
  BY DEF LedgerInv
<1>2. UNCHANGED <<sourceVars, row, open, mishaps>> /\ pc[r] = "idle"
  BY DEF ScanLive, Goto
<1>3. [k \in stalled |-> 0] \in Found /\ DOMAIN [k \in stalled |-> 0] = stalled
      /\ stalled \subseteq Tools /\ \A k \in stalled : [j \in stalled |-> 0][k] = 0
  BY FoundType DEF Keys
<1>4. LedgerTypeOK'
  BY <1>1, <1>3 DEF LedgerTypeOK, ScanLive, Goto, sourceVars
<1>5. SourceInv' /\ RowInv'
  BY <1>1, <1>2 DEF SourceInv, RowInv, sourceVars
<1>6. ASSUME NEW q \in Runs PROVE RunInv(q)'
  <2>1. q = r
    BY DEF OneRun
  <2>2. /\ pc'[r] = "errors" /\ at'[r] = now /\ live'[r] = stalled
        /\ found'[r] = [k \in stalled |-> 0]
    BY <1>1 DEF ScanLive, Goto, LedgerTypeOK
  <2>3. \A k \in stalled : status[k] = "running" /\ started[k] + Threshold < now
    OBVIOUS
  <2>4. \A k \in Tools : row[k].exists /\ status[k] = "running" => k \in stalled
    BY <1>1 DEF RowInv, Keys
  <2>5. \A k \in stalled : row[k].ended = 0
    BY <1>1, <1>3, <2>3 DEF RowInv, Keys
  <2>. HIDE DEF stalled
  <2>6. open'[r] = {} /\ at'[r] # 0 /\ at'[r] <= now'
    BY <1>1, <1>2, <2>2 DEF RunInv, LedgerTypeOK, sourceVars
  <2>7. \A k \in DOMAIN found'[r] : LiveFound(r, k)'
    BY <1>3, <2>2 DEF LiveFound
  <2>8. \A k \in live'[r] : /\ started'[k] + Threshold < at'[r] /\ status'[k] # "absent"
                           /\ row'[k].ended = 0
    BY <1>2, <2>2, <2>3, <2>5 DEF sourceVars
  <2>9. \A k \in Tools : row'[k].exists /\ status'[k] = "running" => k \in live'[r]
    BY <1>2, <2>2, <2>4 DEF sourceVars
  <2>10. RunInv(r)'
    BY <2>2, <2>6, <2>7, <2>8, <2>9 DEF RunInv
  <2>. QED
    BY <2>1, <2>10
<1>. QED
  BY <1>4, <1>5, <1>6 DEF LedgerInv

LEMMA ScanErroredKeeps ==
  ASSUME OneRun, LedgerInv, NEW r \in Runs, ScanErrored(r)
  PROVE  LedgerInv'
<1>. DEFINE errored == { k \in Messages : /\ status[k] \in {"errored", "over"}
                                         /\ started[k] + Lookback >= at[r] }
            all == DOMAIN found[r] \cup errored
            more == [k \in all |-> IF k \in errored THEN completed[k] ELSE 0]
<1>1. LedgerTypeOK /\ SourceInv /\ RowInv /\ RunInv(r)
  BY DEF LedgerInv
<1>2. UNCHANGED <<sourceVars, row, at, live, open, mishaps>> /\ pc[r] = "errors"
  BY DEF ScanErrored, Goto
<1>3. all \subseteq Keys /\ DOMAIN found[r] \subseteq Keys
  BY RunFacts DEF Keys
<1>4. more \in Found /\ DOMAIN more = all
  <2>1. more \in [all -> Nat]
    BY <1>1, <1>3 DEF LedgerTypeOK
  <2>. QED
    BY <1>3, <2>1, FoundType
<1>5. \A k \in all : more[k] = IF k \in errored THEN completed[k] ELSE 0
  OBVIOUS
<1>6. \A k \in errored : k \in Messages /\ status[k] \in {"errored", "over"}
  OBVIOUS
<1>7. found' = [found EXCEPT ![r] = more]
  BY DEF ScanErrored
<1>. HIDE DEF more, errored
<1>8. LedgerTypeOK'
  BY <1>1, <1>2, <1>4, <1>7 DEF LedgerTypeOK, ScanErrored, Goto, sourceVars
<1>9. SourceInv' /\ RowInv'
  BY <1>1, <1>2 DEF SourceInv, RowInv, sourceVars
<1>10. ASSUME NEW q \in Runs PROVE RunInv(q)'
  <2>1. q = r
    BY DEF OneRun
  <2>2. pc'[r] = "upsert" /\ found'[r] = more /\ UNCHANGED <<at, live, open, row, sourceVars>>
    BY <1>1, <1>2, <1>7 DEF ScanErrored, Goto, LedgerTypeOK
  <2>3. ASSUME NEW k \in all
        PROVE  LiveFound(r, k)' \/ ErroredFound(r, k)'
    <3>1. CASE k \in errored
      BY <1>5, <1>6, <2>2, <3>1 DEF ErroredFound, sourceVars
    <3>2. CASE k \notin errored
      BY <1>1, <1>2, <1>5, <2>2, <3>2 DEF LiveFound, RunInv
    <3>. QED
      BY <3>1, <3>2
  <2>4. RunInv(r)'
    BY <1>1, <1>2, <1>4, <2>2, <2>3 DEF RunInv, sourceVars
  <2>. QED
    BY <2>1, <2>4
<1>. QED
  BY <1>8, <1>9, <1>10 DEF LedgerInv
\* What is left of the findings when one of them is done with.
LEMMA RestTyped ==
  ASSUME LedgerTypeOK, NEW r \in Runs, NEW k
  PROVE  /\ Rest(r, k) \in Found /\ DOMAIN Rest(r, k) = DOMAIN found[r] \ {k}
         /\ \A j \in DOMAIN found[r] \ {k} : Rest(r, k)[j] = found[r][j]
<1>1. DOMAIN found[r] \subseteq Keys /\ \A j \in DOMAIN found[r] : found[r][j] \in Nat
  BY FoundType DEF LedgerTypeOK
<1>2. Rest(r, k) \in [DOMAIN found[r] \ {k} -> Nat]
  BY <1>1 DEF Rest
<1>3. DOMAIN found[r] \ {k} \in SUBSET Keys
  BY <1>1
<1>. QED
  BY <1>2, <1>3, FoundType DEF Rest

LEMMA RestFacts ==
  ASSUME LedgerInv, NEW r \in Runs, NEW k
  PROVE  /\ Rest(r, k) \in Found /\ DOMAIN Rest(r, k) = DOMAIN found[r] \ {k}
         /\ \A j \in DOMAIN found[r] \ {k} : Rest(r, k)[j] = found[r][j]
BY RestTyped DEF LedgerInv

LEMMA RowFacts ==
  ASSUME NEW e \in Nat, NEW d \in Nat
  PROVE  LET r == [exists |-> TRUE, ended |-> e, duration |-> d]
         IN  r \in Row /\ r.exists = TRUE /\ r.ended = e /\ r.duration = d
BY DEF Row

LEMMA UpsertKeeps ==
  ASSUME OneRun, LedgerInv, NEW r \in Runs, Upsert(r)
  PROVE  LedgerInv'
<1>. USE StallLedgerAssumption
<1>1. LedgerTypeOK /\ SourceInv /\ RowInv /\ RunInv(r)
  BY DEF LedgerInv
<1>2. pc[r] = "upsert" /\ UNCHANGED <<sourceVars, pc, at, live, open, mishaps>>
  BY DEF Upsert
<1>3. PICK k \in DOMAIN found[r] :
        /\ row' = [row EXCEPT ![k] = Upserted(@, found[r][k], Duration(k, found[r][k], at[r]))]
        /\ found' = [found EXCEPT ![r] = Rest(r, k)]
  BY DEF Upsert
<1>. DEFINE new == Upserted(row[k], found[r][k], Duration(k, found[r][k], at[r]))
<1>4. k \in Keys /\ found[r][k] \in Nat /\ at[r] \in Nat /\ now \in Nat /\ at[r] <= now
      /\ started[k] \in Nat /\ completed[k] \in Nat
      /\ row[k] \in Row /\ row[k].ended \in Nat /\ row[k].duration \in Nat
  BY <1>1, RunFacts, FoundType DEF RunInv
<1>5. row'[k] = new /\ \A j \in Keys \ {k} : row'[j] = row[j]
  BY <1>1, <1>3, <1>4 DEF LedgerTypeOK
<1>6. LiveFound(r, k) \/ ErroredFound(r, k)
  BY <1>1 DEF RunInv
\* The row as it is now.
<1>7. /\ new \in Row /\ new.exists /\ status[k] # "absent" /\ new.ended <= now
      /\ new.ended # 0 => new.duration + started[k] = new.ended
      /\ k \in Tools => k \in live[r] /\ started[k] + Threshold < now /\ new.ended = 0
      /\ k \in Messages /\ status[k] = "over" /\ completed[k] = started[k] =>
           new.ended = completed[k]
  <2>1. CASE LiveFound(r, k)
    <3>1. k \in live[r] /\ k \in Tools /\ k \notin Messages /\ found[r][k] = 0
          /\ started[k] + Threshold < at[r] /\ row[k].ended = 0 /\ status[k] # "absent"
      BY <1>1, <1>2, <2>1, RunFacts DEF LiveFound, RunInv
    <3>2. Duration(k, found[r][k], at[r]) = at[r] - started[k] /\ at[r] - started[k] \in Nat
      BY <1>4, <3>1 DEF Duration
    <3>3. new = [exists |-> TRUE, ended |-> 0,
                 duration |-> IF at[r] - started[k] # 0 THEN at[r] - started[k] ELSE row[k].duration]
      BY <3>1, <3>2 DEF Upserted
    <3>4. new \in Row /\ new.exists = TRUE /\ new.ended = 0
      <4>. DEFINE d == IF at[r] - started[k] # 0 THEN at[r] - started[k] ELSE row[k].duration
      <4>1. d \in Nat /\ new = [exists |-> TRUE, ended |-> 0, duration |-> d]
        BY <1>4, <3>2, <3>3
      <4>. HIDE DEF new, d
      <4>. QED
        BY <4>1, RowFacts
    <3>5. started[k] + Threshold < now
      BY <1>4, <3>1
    <3>. HIDE DEF new
    <3>. QED
      BY <1>4, <3>1, <3>4, <3>5
  <2>2. CASE ErroredFound(r, k)
    <3>1. k \in Messages /\ k \notin Tools /\ status[k] # "absent" /\ found[r][k] \in {0, completed[k]}
          /\ (status[k] = "over" /\ completed[k] = started[k] => found[r][k] = completed[k])
      BY <2>2 DEF ErroredFound
    <3>2. /\ status[k] # "over" => completed[k] = 0
          /\ status[k] = "over" => completed[k] # 0 /\ started[k] <= completed[k]
          /\ completed[k] <= now
      BY <1>1, <1>4, <3>1 DEF SourceInv
    <3>3. /\ ~row[k].exists => row[k].ended = 0 /\ row[k].duration = 0
          /\ row[k].ended # 0 => row[k].duration + started[k] = row[k].ended
          /\ row[k].ended <= now
          /\ status[k] = "over" /\ completed[k] = started[k] /\ row[k].exists =>
               row[k].ended = completed[k]
      BY <1>1, <1>4, <3>1 DEF RowInv, NoRow
    <3>4. CASE found[r][k] = 0
      <4>1. Duration(k, found[r][k], at[r]) = 0
        BY <3>1, <3>4 DEF Duration
      <4>2. new = [exists |-> TRUE, ended |-> row[k].ended, duration |-> row[k].duration]
        BY <3>4, <4>1 DEF Upserted
      <4>3. /\ new \in Row /\ new.exists = TRUE /\ new.ended = row[k].ended
            /\ new.duration = row[k].duration
        BY <1>4, <4>2 DEF Row
      <4>4. ~(status[k] = "over" /\ completed[k] = started[k])
        BY <3>1, <3>2, <3>4
      <4>. HIDE DEF new
      <4>. QED
        BY <1>4, <3>1, <3>3, <4>3, <4>4
    <3>5. CASE found[r][k] # 0
      <4>1. found[r][k] = completed[k] /\ status[k] = "over" /\ started[k] <= completed[k]
        BY <3>1, <3>2, <3>5
      <4>2. Duration(k, found[r][k], at[r]) = completed[k] - started[k]
            /\ completed[k] - started[k] \in Nat
        BY <1>4, <3>1, <3>5, <4>1 DEF Duration
      <4>3. new = [exists |-> TRUE, ended |-> completed[k],
                   duration |-> IF completed[k] - started[k] # 0 THEN completed[k] - started[k]
                                ELSE row[k].duration]
        BY <3>5, <4>1, <4>2 DEF Upserted
      <4>4. completed[k] = started[k] => row[k].duration = 0
        BY <1>4, <3>2, <3>3, <4>1
      <4>5. new.duration = completed[k] - started[k]
        BY <1>4, <4>2, <4>3, <4>4
      <4>6. new \in Row /\ new.exists = TRUE /\ new.ended = completed[k]
        <5>. DEFINE d == IF completed[k] - started[k] # 0 THEN completed[k] - started[k]
                         ELSE row[k].duration
        <5>1. d \in Nat /\ new = [exists |-> TRUE, ended |-> completed[k], duration |-> d]
          BY <1>4, <4>2, <4>3
        <5>. HIDE DEF new, d
        <5>. QED
          BY <1>4, <5>1, RowFacts
      <4>. HIDE DEF new
      <4>. QED
        BY <1>4, <3>1, <3>2, <4>1, <4>5, <4>6
    <3>. QED
      BY <3>4, <3>5
  <2>. QED
    BY <1>6, <2>1, <2>2
<1>. HIDE DEF new
<1>8. Rest(r, k) \in Found
  BY RestFacts
<1>9. LedgerTypeOK'
  <2>1. row' \in [Keys -> Row] /\ found' \in [Runs -> Found]
    <3>1. row' = [row EXCEPT ![k] = new]
      BY <1>3 DEF new
    <3>2. row' \in [Keys -> Row]
      BY <1>1, <1>7, <3>1 DEF LedgerTypeOK
    <3>. QED
      BY <1>1, <1>3, <1>8, <3>2 DEF LedgerTypeOK
  <2>. QED
    BY <1>1, <1>2, <2>1 DEF LedgerTypeOK, sourceVars
<1>10. SourceInv'
  BY <1>1, <1>2 DEF SourceInv, sourceVars
<1>11. RowInv'
  <2>1. ASSUME NEW j \in Keys
        PROVE  /\ row'[j].exists => status[j] # "absent"
               /\ row'[j].ended <= now
               /\ ~row'[j].exists => row'[j] = NoRow
               /\ row'[j].ended # 0 => row'[j].duration + started[j] = row'[j].ended
               /\ j \in Tools => /\ row'[j].exists => started[j] + Threshold < now
                                 /\ row'[j].ended # 0 => status[j] # "running"
               /\ j \in Messages /\ status[j] = "over" /\ completed[j] = started[j]
                    /\ row'[j].exists => row'[j].ended = completed[j]
    <3>1. CASE j = k
      BY <1>5, <1>7, <3>1
    <3>2. CASE j # k
      BY <1>1, <1>5, <3>2 DEF RowInv
    <3>. QED
      BY <3>1, <3>2
  <2>. QED
    BY <1>2, <2>1 DEF RowInv, sourceVars
<1>12. ASSUME NEW q \in Runs PROVE RunInv(q)'
  <2>1. q = r
    BY DEF OneRun
  <2>2. found'[r] = Rest(r, k)
    BY <1>1, <1>3 DEF LedgerTypeOK
  <2>3. open[r] = {}
    BY <1>1, <1>2 DEF RunInv
  <2>4. ASSUME NEW j \in live[r]
        PROVE  started[j] + Threshold < at[r] /\ status[j] # "absent" /\ row'[j].ended = 0
    <3>1. j \in Tools /\ j \in Keys
      BY RunFacts DEF Keys
    <3>. QED
      BY <1>1, <1>2, <1>5, <1>7, <3>1 DEF RunInv
  <2>5. \A j \in Tools : row'[j].exists /\ status[j] = "running" => j \in live[r]
    BY <1>1, <1>2, <1>5, <1>7 DEF RunInv, Keys
  <2>6. ASSUME NEW j \in DOMAIN found'[r]
        PROVE  LiveFound(r, j)' \/ ErroredFound(r, j)'
    <3>1. j \in DOMAIN found[r] /\ found'[r][j] = found[r][j]
      <4>1. /\ DOMAIN Rest(r, k) = DOMAIN found[r] \ {k}
            /\ \A i \in DOMAIN found[r] \ {k} : Rest(r, k)[i] = found[r][i]
        BY RestFacts
      <4>2. j \in DOMAIN found[r] \ {k}
        BY <2>2, <4>1
      <4>. QED
        BY <2>2, <4>1, <4>2
    <3>2. LiveFound(r, j) \/ ErroredFound(r, j)
      BY <1>1, <3>1 DEF RunInv
    <3>. QED
      BY <1>2, <3>1, <3>2 DEF LiveFound, ErroredFound, sourceVars
  <2>7. RunInv(r)'
    BY <1>1, <1>2, <2>3, <2>4, <2>5, <2>6 DEF RunInv, sourceVars
  <2>. QED
    BY <2>1, <2>7
<1>. QED
  BY <1>9, <1>10, <1>11, <1>12 DEF LedgerInv

LEMMA ListLiveKeeps ==
  ASSUME OneRun, LedgerInv, NEW r \in Runs, ListLive(r)
  PROVE  LedgerInv'
<1>. USE StallLedgerAssumption
<1>. DEFINE left == { k \in Keys : row[k].exists /\ row[k].ended = 0 } \ live[r]
<1>1. LedgerTypeOK /\ SourceInv /\ RowInv /\ RunInv(r)
  BY DEF LedgerInv
<1>2. /\ pc[r] = "upsert" /\ DOMAIN found[r] = {}
      /\ UNCHANGED <<sourceVars, row, found, live, mishaps>>
  BY DEF ListLive, Goto
<1>3. pc'[r] = "seal" /\ at'[r] = now /\ open'[r] = left
  BY <1>1 DEF ListLive, Goto, LedgerTypeOK
<1>4. LedgerTypeOK'
  BY <1>1, <1>2 DEF LedgerTypeOK, ListLive, Goto, sourceVars
<1>5. SourceInv' /\ RowInv'
  BY <1>1, <1>2 DEF SourceInv, RowInv, sourceVars
<1>6. ASSUME NEW q \in Runs PROVE RunInv(q)'
  <2>1. q = r
    BY DEF OneRun
  <2>2. ASSUME NEW k \in left
        PROVE  /\ row[k].exists /\ row[k].ended = 0 /\ started[k] <= now
               /\ k \in Tools => status[k] = "over"
    <3>1. k \in Keys /\ row[k].exists /\ row[k].ended = 0 /\ k \notin live[r]
      OBVIOUS
    <3>2. status[k] # "absent" /\ started[k] <= now
      BY <1>1, <3>1 DEF RowInv, SourceInv
    <3>3. k \in Tools => status[k] # "running" /\ status[k] \in {"absent", "running", "over"}
      BY <1>1, <1>2, <3>1 DEF RunInv, SourceInv
    <3>. QED
      BY <3>1, <3>2, <3>3
  <2>3. ASSUME NEW k \in live[r]
        PROVE  started[k] + Threshold < now /\ status[k] # "absent"
    <3>1. k \in Keys
      BY RunFacts DEF Keys
    <3>2. started[k] \in Nat /\ at[r] \in Nat /\ now \in Nat /\ at[r] <= now
      BY <1>1, <3>1 DEF LedgerTypeOK, RunInv
    <3>3. started[k] + Threshold < at[r] /\ status[k] # "absent"
      BY <1>1 DEF RunInv
    <3>. QED
      BY <3>2, <3>3
  <2>4. now # 0 /\ now <= now
    BY <1>1 DEF LedgerTypeOK
  <2>. HIDE DEF left
  <2>5. RunInv(r)'
    BY <1>2, <1>3, <2>2, <2>3, <2>4 DEF RunInv, sourceVars
  <2>. QED
    BY <2>1, <2>5
<1>. QED
  BY <1>4, <1>5, <1>6 DEF LedgerInv

LEMMA SealKeeps ==
  ASSUME OneRun, LedgerInv, NEW r \in Runs, Seal(r)
  PROVE  LedgerInv'
<1>. USE StallLedgerAssumption
<1>1. LedgerTypeOK /\ SourceInv /\ RowInv /\ RunInv(r)
  BY DEF LedgerInv
<1>2. pc[r] = "seal" /\ UNCHANGED <<sourceVars, pc, at, found, live, mishaps>>
  BY DEF Seal
<1>3. PICK k \in open[r] : /\ row' = [row EXCEPT ![k] = Sealed(k, @, at[r])]
                           /\ open' = [open EXCEPT ![r] = @ \ {k}]
  BY DEF Seal
<1>. DEFINE new == [row[k] EXCEPT !.ended = at[r], !.duration = at[r] - started[k]]
<1>4. /\ k \in Keys /\ row[k].exists /\ row[k].ended = 0 /\ started[k] <= at[r]
      /\ k \in Tools => status[k] = "over"
      /\ at[r] \in Nat /\ at[r] # 0 /\ at[r] <= now /\ now \in Nat
      /\ started[k] \in Nat /\ row[k] \in Row
  BY <1>1, <1>2, RunFacts DEF RunInv
<1>5. Sealed(k, row[k], at[r]) = new
  BY <1>4 DEF Sealed
<1>6. at[r] - started[k] \in Nat
  BY <1>4
<1>7. new \in Row /\ new.exists /\ new.ended = at[r] /\ new.duration = at[r] - started[k]
  BY <1>4, <1>6 DEF Row
<1>. HIDE DEF new
<1>8. row' = [row EXCEPT ![k] = new]
  BY <1>3, <1>5
<1>9. row'[k] = new /\ \A j \in Keys \ {k} : row'[j] = row[j]
  BY <1>1, <1>4, <1>8 DEF LedgerTypeOK
<1>10. LedgerTypeOK'
  <2>1. row' \in [Keys -> Row] /\ open' \in [Runs -> SUBSET Keys]
    BY <1>1, <1>3, <1>7, <1>8 DEF LedgerTypeOK
  <2>. QED
    BY <1>1, <1>2, <2>1 DEF LedgerTypeOK, sourceVars
<1>11. SourceInv'
  BY <1>1, <1>2 DEF SourceInv, sourceVars
<1>12. RowInv'
  <2>1. ASSUME NEW j \in Keys
        PROVE  /\ row'[j].exists => status[j] # "absent"
               /\ row'[j].ended <= now
               /\ ~row'[j].exists => row'[j] = NoRow
               /\ row'[j].ended # 0 => row'[j].duration + started[j] = row'[j].ended
               /\ j \in Tools => /\ row'[j].exists => started[j] + Threshold < now
                                 /\ row'[j].ended # 0 => status[j] # "running"
               /\ j \in Messages /\ status[j] = "over" /\ completed[j] = started[j]
                    /\ row'[j].exists => row'[j].ended = completed[j]
    <3>1. CASE j = k
      <4>1. /\ status[k] # "absent"
            /\ k \in Tools => started[k] + Threshold < now
            /\ ~(k \in Messages /\ status[k] = "over" /\ completed[k] = started[k])
        BY <1>1, <1>4 DEF RowInv, SourceInv
      <4>2. at[r] - started[k] + started[k] = at[r]
        BY <1>4
      <4>. QED
        BY <1>4, <1>7, <1>9, <3>1, <4>1, <4>2
    <3>2. CASE j # k
      BY <1>1, <1>9, <3>2 DEF RowInv
    <3>. QED
      BY <3>1, <3>2
  <2>. QED
    BY <1>2, <2>1 DEF RowInv, sourceVars
<1>13. ASSUME NEW q \in Runs PROVE RunInv(q)'
  <2>1. q = r
    BY DEF OneRun
  <2>2. open'[r] = open[r] \ {k} /\ open[r] \subseteq Keys
    BY <1>1, <1>3 DEF LedgerTypeOK
  <2>3. ASSUME NEW j \in open'[r]
        PROVE  /\ row'[j].exists /\ row'[j].ended = 0 /\ started[j] <= at[r]
               /\ j \in Tools => status[j] = "over"
    BY <1>1, <1>9, <2>2 DEF RunInv
  <2>4. RunInv(r)'
    BY <1>1, <1>2, <2>3 DEF RunInv, sourceVars
  <2>. QED
    BY <2>1, <2>4
<1>. QED
  BY <1>10, <1>11, <1>12, <1>13 DEF LedgerInv

\* A failed statement loses one finding or one row to seal.
LEMMA FailureKeeps ==
  ASSUME OneRun, LedgerInv, NEW r \in Runs, StatementFails(r)
  PROVE  LedgerInv'
<1>1. LedgerTypeOK /\ SourceInv /\ RowInv /\ RunInv(r)
  BY DEF LedgerInv
<1>2. UNCHANGED <<sourceVars, row, pc, at, live>> /\ mishaps' = mishaps + 1
  BY DEF StatementFails
<1>3. \/ /\ pc[r] = "upsert" /\ open' = open
         /\ \E k \in DOMAIN found[r] : found' = [found EXCEPT ![r] = Rest(r, k)]
      \/ /\ pc[r] = "seal" /\ found' = found
         /\ \E k \in open[r] : open' = [open EXCEPT ![r] = @ \ {k}]
  BY DEF StatementFails
<1>4. SourceInv' /\ RowInv'
  BY <1>1, <1>2 DEF SourceInv, RowInv, sourceVars
<1>5. ASSUME NEW k, found' = [found EXCEPT ![r] = Rest(r, k)]
      PROVE  /\ found' \in [Runs -> Found]
             /\ DOMAIN found'[r] \subseteq DOMAIN found[r]
             /\ \A j \in DOMAIN found'[r] : found'[r][j] = found[r][j]
  <2>1. found'[r] = Rest(r, k)
    BY <1>1, <1>5 DEF LedgerTypeOK
  <2>2. /\ Rest(r, k) \in Found /\ DOMAIN Rest(r, k) = DOMAIN found[r] \ {k}
        /\ \A j \in DOMAIN found[r] \ {k} : Rest(r, k)[j] = found[r][j]
    BY RestFacts
  <2>3. found' \in [Runs -> Found]
    BY <1>1, <1>5, <2>2 DEF LedgerTypeOK
  <2>. QED
    BY <2>1, <2>2, <2>3
<1>6. LedgerTypeOK'
  <2>1. found' \in [Runs -> Found] /\ open' \in [Runs -> SUBSET Keys]
    BY <1>1, <1>3, <1>5 DEF LedgerTypeOK
  <2>. QED
    BY <1>1, <1>2, <2>1 DEF LedgerTypeOK, sourceVars
<1>7. ASSUME NEW q \in Runs PROVE RunInv(q)'
  <2>1. q = r
    BY DEF OneRun
  <2>2. open'[r] \subseteq open[r]
    BY <1>1, <1>3 DEF LedgerTypeOK
  <2>3. /\ DOMAIN found'[r] \subseteq DOMAIN found[r]
        /\ \A j \in DOMAIN found'[r] : found'[r][j] = found[r][j]
    BY <1>3, <1>5
  <2>4. ASSUME NEW j \in DOMAIN found'[r]
        PROVE  /\ LiveFound(r, j) => LiveFound(r, j)'
               /\ ErroredFound(r, j) => ErroredFound(r, j)'
    BY <1>2, <2>3 DEF LiveFound, ErroredFound, sourceVars
  <2>5. RunInv(r)'
    BY <1>1, <1>2, <2>2, <2>3, <2>4 DEF RunInv, sourceVars
  <2>. QED
    BY <2>1, <2>5
<1>. QED
  BY <1>4, <1>6, <1>7 DEF LedgerInv

LEMMA LedgerStep == OneRun /\ LedgerInv /\ [Next]_vars => LedgerInv'
<1>. SUFFICES ASSUME OneRun, LedgerInv, [Next]_vars PROVE LedgerInv'
  OBVIOUS
<1>1. mishaps \in Nat
  BY DEF LedgerInv, LedgerTypeOK
<1>2. ASSUME NEW r \in Runs, Run(r) \/ StatementFails(r) \/ RunEnds(r)
      PROVE  LedgerInv'
  <2>1. CASE Done(r) \/ RunEnds(r)
    BY <1>1, <2>1, ReturnKeeps DEF Done, RunEnds
  <2>. QED
    BY <1>2, <2>1, ScanLiveKeeps, ScanErroredKeeps, UpsertKeeps, ListLiveKeeps, SealKeeps,
       FailureKeeps DEF Run, Detect
<1>3. CASE UNCHANGED vars
  <2>1. LedgerTypeOK' /\ SourceInv' /\ RowInv'
    BY <1>3 DEF LedgerInv, LedgerTypeOK, SourceInv, RowInv, vars, sourceVars
  <2>2. \A r \in Runs : RunInv(r)'
    BY <1>3 DEF LedgerInv, RunInv, LiveFound, ErroredFound, vars, sourceVars
  <2>. QED
    BY <2>1, <2>2 DEF LedgerInv
<1>. QED
  BY <1>2, <1>3, SourceStepKeeps DEF Next

\* Where the task runs once at a time, a stall that is sealed is over and has the
\* duration its start and end say, though three statements write them, statements
\* fail and the process dies between them.
THEOREM SealedStallsAreRight ==
  ASSUME OneRun
  PROVE  Spec => []StallsRight
<1>1. LedgerInv => StallsRight
  <2>. SUFFICES ASSUME LedgerInv, NEW k \in Keys, row[k].ended # 0
                PROVE  /\ k \in Tools => status[k] # "running"
                       /\ row[k].duration = row[k].ended - started[k]
    BY DEF StallsRight, SealedMeansOver, DurationMatches, Keys
  <2>1. /\ row[k].duration + started[k] = row[k].ended
        /\ k \in Tools => status[k] # "running"
        /\ row[k] \in Row /\ started[k] \in Nat
    BY DEF LedgerInv, RowInv, LedgerTypeOK
  <2>. QED
    BY <2>1 DEF Row
<1>. QED
  BY <1>1, LedgerInit, LedgerStep, PTL DEF Spec

-----------------------------------------------------------------------------
(* The times of the ledger, for any number of runs at the same time: what  *)
(* a run has found or is to seal had begun by the instant the run goes by, *)
(* so no duration is negative (TimesInv).                                  *)

FoundTimes(r) ==
  \A k \in DOMAIN found[r] :
    /\ status[k] # "absent"
    /\ k \in Tools => started[k] <= at[r]
    /\ found[r][k] # 0 => started[k] <= found[r][k]

OpenTimes(r) == \A k \in open[r] : status[k] # "absent" /\ started[k] <= at[r]

TimesInv ==
  /\ LedgerTypeOK /\ SourceInv
  /\ now <= MaxTime /\ mishaps <= MaxMishaps
  /\ \A k \in Keys : row[k].exists => status[k] # "absent"
  /\ \A r \in Runs : at[r] <= now /\ FoundTimes(r) /\ OpenTimes(r)

LEMMA TimesInit == Init => TimesInv
<1>. SUFFICES ASSUME Init PROVE TimesInv
  OBVIOUS
<1>1. LedgerTypeOK /\ SourceInv
  BY LedgerInit DEF LedgerInv
<1>2. \A r \in Runs : at[r] = 0 /\ DOMAIN found[r] = {} /\ open[r] = {}
  BY FoundType DEF Init
<1>3. \A k \in Keys : ~row[k].exists
  BY DEF Init, NoRow
<1>. QED
  BY <1>1, <1>2, <1>3, StallLedgerAssumption DEF Init, TimesInv, FoundTimes, OpenTimes

LEMMA TimesFacts ==
  ASSUME TimesInv, NEW r \in Runs
  PROVE  /\ found[r] \in Found /\ DOMAIN found[r] \subseteq Keys /\ \A k \in DOMAIN found[r] : found[r][k] \in Nat
         /\ live[r] \subseteq Tools /\ open[r] \subseteq Keys /\ at[r] \in Nat /\ now \in Nat \ {0}
         /\ \A k \in Keys : started[k] \in Nat /\ completed[k] \in Nat /\ row[k] \in Row
         /\ at[r] <= now /\ FoundTimes(r) /\ OpenTimes(r)
BY FoundType DEF TimesInv, LedgerTypeOK

\* A run goes on, and the others are where they were.
LEMMA OneRunGoes ==
  ASSUME TimesInv, NEW r \in Runs, LedgerTypeOK', UNCHANGED sourceVars, mishaps' <= MaxMishaps,
         \A k \in Keys : row'[k].exists => status[k] # "absent",
         \A q \in Runs \ {r} : at'[q] = at[q] /\ found'[q] = found[q] /\ open'[q] = open[q],
         at'[r] <= now,
         \A k \in DOMAIN found'[r] :
           /\ status[k] # "absent"
           /\ k \in Tools => started[k] <= at'[r]
           /\ found'[r][k] # 0 => started[k] <= found'[r][k],
         \A k \in open'[r] : status[k] # "absent" /\ started[k] <= at'[r]
  PROVE  TimesInv'
<1>1. SourceInv'
  BY DEF TimesInv, SourceInv, sourceVars
<1>2. ASSUME NEW q \in Runs PROVE at'[q] <= now' /\ FoundTimes(q)' /\ OpenTimes(q)'
  <2>1. CASE q = r
    BY <2>1 DEF FoundTimes, OpenTimes, sourceVars
  <2>2. CASE q # r
    BY <2>2 DEF TimesInv, FoundTimes, OpenTimes, sourceVars
  <2>. QED
    BY <2>1, <2>2
<1>. QED
  BY <1>1, <1>2 DEF TimesInv, sourceVars

LEMMA TimesReturn ==
  ASSUME TimesInv, NEW r \in Runs, Return(r), UNCHANGED <<sourceVars, row>>,
         mishaps' \in Nat, mishaps' <= MaxMishaps
  PROVE  TimesInv'
<1>1. LedgerTypeOK'
  BY FoundType DEF TimesInv, LedgerTypeOK, Return, sourceVars
<1>2. at'[r] = 0 /\ found'[r] = Nothing /\ open'[r] = {}
      /\ \A q \in Runs \ {r} : at'[q] = at[q] /\ found'[q] = found[q] /\ open'[q] = open[q]
  BY DEF TimesInv, LedgerTypeOK, Return
<1>3. 0 <= now /\ \A k \in Keys : row'[k].exists => status[k] # "absent"
  BY DEF TimesInv, LedgerTypeOK
<1>. QED
  BY <1>1, <1>2, <1>3, FoundType, OneRunGoes

LEMMA TimesScan ==
  ASSUME TimesInv, NEW r \in Runs, ScanLive(r)
  PROVE  TimesInv'
<1>. DEFINE stalled == { k \in Tools : status[k] = "running" /\ started[k] + Threshold < now }
            new == [k \in stalled |-> 0]
<1>1. new \in Found /\ DOMAIN new = stalled /\ stalled \subseteq Tools /\ \A k \in stalled : new[k] = 0
  BY FoundType DEF Keys
<1>2. /\ found' = [found EXCEPT ![r] = new] /\ at' = [at EXCEPT ![r] = now] /\ live' = [live EXCEPT ![r] = stalled]
      /\ pc' = [pc EXCEPT ![r] = "errors"] /\ UNCHANGED <<sourceVars, row, open, mishaps>>
  BY DEF ScanLive, Goto
<1>3. \A k \in stalled : status[k] # "absent" /\ started[k] <= now
  BY TimesFacts, StallLedgerAssumption DEF Keys
<1>. HIDE DEF new, stalled
<1>4. LedgerTypeOK'
  BY <1>1, <1>2 DEF TimesInv, LedgerTypeOK, sourceVars
<1>5. at'[r] = now /\ found'[r] = new /\ open'[r] = open[r]
      /\ \A q \in Runs \ {r} : at'[q] = at[q] /\ found'[q] = found[q] /\ open'[q] = open[q]
  BY <1>2 DEF TimesInv, LedgerTypeOK
<1>6. \A k \in open[r] : status[k] # "absent" /\ started[k] <= now
  BY TimesFacts DEF OpenTimes, Keys
<1>7. /\ now <= now /\ UNCHANGED sourceVars /\ mishaps' <= MaxMishaps
      /\ \A k \in Keys : row'[k].exists => status[k] # "absent"
  BY <1>2, TimesFacts DEF TimesInv
<1>. QED
  BY <1>1, <1>3, <1>4, <1>5, <1>6, <1>7, OneRunGoes

LEMMA TimesErrored ==
  ASSUME TimesInv, NEW r \in Runs, ScanErrored(r)
  PROVE  TimesInv'
<1>. DEFINE errored == { k \in Messages : /\ status[k] \in {"errored", "over"}
                                         /\ started[k] + Lookback >= at[r] }
            all == DOMAIN found[r] \cup errored
            new == [k \in all |-> IF k \in errored THEN completed[k] ELSE 0]
<1>1. all \subseteq Keys /\ errored \subseteq Messages
  BY TimesFacts DEF Keys
<1>2. new \in Found /\ DOMAIN new = all /\ \A k \in all : new[k] = IF k \in errored THEN completed[k] ELSE 0
  <2>1. new \in [all -> Nat]
    BY <1>1, TimesFacts
  <2>. QED
    BY <1>1, <2>1, FoundType
<1>3. /\ found' = [found EXCEPT ![r] = new] /\ pc' = [pc EXCEPT ![r] = "upsert"]
      /\ UNCHANGED <<sourceVars, row, at, live, open, mishaps>>
  BY DEF ScanErrored, Goto
<1>4. ASSUME NEW k \in all
      PROVE  /\ status[k] # "absent"
             /\ k \in Tools => started[k] <= at[r]
             /\ new[k] # 0 => started[k] <= new[k]
  <2>1. CASE k \in errored
    <3>1. k \in Messages /\ k \notin Tools /\ status[k] # "absent"
      BY <1>1, <2>1, StallLedgerAssumption
    <3>2. completed[k] # 0 => started[k] <= completed[k]
      BY <3>1 DEF TimesInv, SourceInv
    <3>. QED
      BY <1>2, <2>1, <3>1, <3>2
  <2>2. CASE k \notin errored
    BY <1>2, <2>2, TimesFacts DEF FoundTimes
  <2>. QED
    BY <2>1, <2>2
<1>. HIDE DEF new, errored
<1>5. LedgerTypeOK'
  BY <1>2, <1>3 DEF TimesInv, LedgerTypeOK, sourceVars
<1>6. at'[r] = at[r] /\ found'[r] = new /\ open'[r] = open[r]
      /\ \A q \in Runs \ {r} : at'[q] = at[q] /\ found'[q] = found[q] /\ open'[q] = open[q]
  BY <1>3 DEF TimesInv, LedgerTypeOK
<1>7. /\ at[r] <= now /\ UNCHANGED sourceVars /\ mishaps' <= MaxMishaps
      /\ \A k \in Keys : row'[k].exists => status[k] # "absent"
      /\ \A k \in open[r] : status[k] # "absent" /\ started[k] <= at[r]
  BY <1>3, TimesFacts DEF TimesInv, OpenTimes
<1>. QED
  BY <1>2, <1>4, <1>5, <1>6, <1>7, OneRunGoes

\* The row of a finding is one: its duration is of times that came one after the other.
LEMMA UpsertedIsRow ==
  ASSUME TimesInv, NEW r \in Runs, NEW k \in DOMAIN found[r]
  PROVE  Upserted(row[k], found[r][k], Duration(k, found[r][k], at[r])) \in Row
<1>1. /\ k \in Keys /\ found[r][k] \in Nat /\ at[r] \in Nat /\ started[k] \in Nat /\ row[k] \in Row
      /\ k \in Tools => started[k] <= at[r]
      /\ found[r][k] # 0 => started[k] <= found[r][k]
  BY TimesFacts DEF FoundTimes
<1>2. Duration(k, found[r][k], at[r]) \in Nat
  BY <1>1 DEF Duration
<1>. HIDE DEF Duration
<1>. QED
  BY <1>1, <1>2 DEF Upserted, Row

LEMMA TimesUpsert ==
  ASSUME TimesInv, NEW r \in Runs, Upsert(r)
  PROVE  TimesInv'
<1>1. UNCHANGED <<sourceVars, pc, at, live, open, mishaps>>
  BY DEF Upsert
<1>2. PICK k \in DOMAIN found[r] :
        /\ row' = [row EXCEPT ![k] = Upserted(@, found[r][k], Duration(k, found[r][k], at[r]))]
        /\ found' = [found EXCEPT ![r] = Rest(r, k)]
  BY DEF Upsert
<1>. DEFINE new == Upserted(row[k], found[r][k], Duration(k, found[r][k], at[r]))
<1>3. k \in Keys /\ new \in Row /\ status[k] # "absent" /\ row' = [row EXCEPT ![k] = new]
  BY <1>2, TimesFacts, UpsertedIsRow DEF FoundTimes
<1>. HIDE DEF new
<1>4. /\ Rest(r, k) \in Found /\ DOMAIN Rest(r, k) \subseteq DOMAIN found[r]
      /\ \A j \in DOMAIN Rest(r, k) : Rest(r, k)[j] = found[r][j]
  BY RestTyped DEF TimesInv
<1>5. LedgerTypeOK'
  BY <1>1, <1>2, <1>3, <1>4 DEF TimesInv, LedgerTypeOK, sourceVars
<1>6. at'[r] = at[r] /\ found'[r] = Rest(r, k) /\ open'[r] = open[r]
      /\ \A q \in Runs \ {r} : at'[q] = at[q] /\ found'[q] = found[q] /\ open'[q] = open[q]
  BY <1>1, <1>2 DEF TimesInv, LedgerTypeOK
<1>7. \A j \in Keys : row'[j].exists => status[j] # "absent"
  BY <1>3 DEF TimesInv, LedgerTypeOK
<1>8. /\ at[r] <= now /\ UNCHANGED sourceVars /\ mishaps' <= MaxMishaps
      /\ \A j \in open[r] : status[j] # "absent" /\ started[j] <= at[r]
  BY <1>1, TimesFacts DEF TimesInv, OpenTimes
<1>9. \A j \in DOMAIN Rest(r, k) :
         /\ status[j] # "absent" /\ (j \in Tools => started[j] <= at[r])
         /\ Rest(r, k)[j] # 0 => started[j] <= Rest(r, k)[j]
  BY <1>4, TimesFacts DEF FoundTimes
<1>. QED
  BY <1>5, <1>6, <1>7, <1>8, <1>9, OneRunGoes

LEMMA TimesList ==
  ASSUME TimesInv, NEW r \in Runs, ListLive(r)
  PROVE  TimesInv'
<1>. DEFINE rest == { k \in Keys : row[k].exists /\ row[k].ended = 0 } \ live[r]
<1>1. /\ open' = [open EXCEPT ![r] = rest] /\ at' = [at EXCEPT ![r] = now] /\ pc' = [pc EXCEPT ![r] = "seal"]
      /\ UNCHANGED <<sourceVars, row, found, live, mishaps>> /\ DOMAIN found[r] = {}
  BY DEF ListLive, Goto
<1>2. rest \subseteq Keys /\ \A k \in rest : status[k] # "absent" /\ started[k] <= now
  BY DEF TimesInv, SourceInv
<1>. HIDE DEF rest
<1>3. LedgerTypeOK'
  BY <1>1, <1>2 DEF TimesInv, LedgerTypeOK, sourceVars
<1>4. at'[r] = now /\ open'[r] = rest /\ found'[r] = found[r]
      /\ \A q \in Runs \ {r} : at'[q] = at[q] /\ found'[q] = found[q] /\ open'[q] = open[q]
  BY <1>1 DEF TimesInv, LedgerTypeOK
<1>5. /\ now <= now /\ UNCHANGED sourceVars /\ mishaps' <= MaxMishaps
      /\ \A k \in Keys : row'[k].exists => status[k] # "absent"
  BY <1>1, TimesFacts DEF TimesInv
<1>. QED
  BY <1>1, <1>2, <1>3, <1>4, <1>5, OneRunGoes

LEMMA TimesSeal ==
  ASSUME TimesInv, NEW r \in Runs, Seal(r)
  PROVE  TimesInv'
<1>1. UNCHANGED <<sourceVars, pc, at, found, live, mishaps>>
  BY DEF Seal
<1>2. PICK k \in open[r] :
        /\ row' = [row EXCEPT ![k] = Sealed(k, @, at[r])]
        /\ open' = [open EXCEPT ![r] = @ \ {k}]
  BY DEF Seal
<1>. DEFINE new == Sealed(k, row[k], at[r])
<1>3. /\ k \in Keys /\ status[k] # "absent" /\ row[k] \in Row /\ at[r] - started[k] \in Nat /\ at[r] \in Nat
      /\ row' = [row EXCEPT ![k] = new]
  BY <1>2, TimesFacts DEF OpenTimes
<1>4. new \in Row
  BY <1>3 DEF Sealed, Row
<1>. HIDE DEF new
<1>5. LedgerTypeOK'
  BY <1>1, <1>2, <1>3, <1>4 DEF TimesInv, LedgerTypeOK, sourceVars
<1>6. at'[r] = at[r] /\ found'[r] = found[r] /\ open'[r] \subseteq open[r]
      /\ \A q \in Runs \ {r} : at'[q] = at[q] /\ found'[q] = found[q] /\ open'[q] = open[q]
  BY <1>1, <1>2 DEF TimesInv, LedgerTypeOK
<1>7. \A j \in Keys : row'[j].exists => status[j] # "absent"
  BY <1>3 DEF TimesInv, LedgerTypeOK
<1>8. /\ at[r] <= now /\ UNCHANGED sourceVars /\ mishaps' <= MaxMishaps
      /\ \A j \in open'[r] : status[j] # "absent" /\ started[j] <= at[r]
  BY <1>1, <1>6, TimesFacts DEF TimesInv, OpenTimes
<1>9. \A j \in DOMAIN found[r] :
         /\ status[j] # "absent" /\ (j \in Tools => started[j] <= at[r])
         /\ found[r][j] # 0 => started[j] <= found[r][j]
  BY TimesFacts DEF FoundTimes
<1>. QED
  BY <1>5, <1>6, <1>7, <1>8, <1>9, OneRunGoes

LEMMA TimesFails ==
  ASSUME TimesInv, NEW r \in Runs, StatementFails(r)
  PROVE  TimesInv'
<1>1. UNCHANGED <<sourceVars, row, pc, at, live>> /\ mishaps' \in Nat /\ mishaps' <= MaxMishaps
  BY StallLedgerAssumption DEF StatementFails, TimesInv, LedgerTypeOK
<1>2. \/ /\ UNCHANGED open
         /\ \E k \in DOMAIN found[r] : found' = [found EXCEPT ![r] = Rest(r, k)]
      \/ /\ UNCHANGED found
         /\ \E k \in open[r] : open' = [open EXCEPT ![r] = open[r] \ {k}]
  BY DEF StatementFails
<1>3. \A k : /\ Rest(r, k) \in Found /\ DOMAIN Rest(r, k) \subseteq DOMAIN found[r]
             /\ \A j \in DOMAIN Rest(r, k) : Rest(r, k)[j] = found[r][j]
  BY RestTyped DEF TimesInv
<1>4. LedgerTypeOK'
  BY <1>1, <1>2, <1>3 DEF TimesInv, LedgerTypeOK, sourceVars
<1>5. /\ at'[r] = at[r] /\ open'[r] \subseteq open[r] /\ DOMAIN found'[r] \subseteq DOMAIN found[r]
      /\ \A j \in DOMAIN found'[r] : found'[r][j] = found[r][j]
      /\ \A q \in Runs \ {r} : at'[q] = at[q] /\ found'[q] = found[q] /\ open'[q] = open[q]
  BY <1>1, <1>2, <1>3 DEF TimesInv, LedgerTypeOK
<1>6. /\ at[r] <= now /\ UNCHANGED sourceVars
      /\ \A k \in Keys : row'[k].exists => status[k] # "absent"
      /\ \A j \in open'[r] : status[j] # "absent" /\ started[j] <= at[r]
  BY <1>1, <1>5, TimesFacts DEF TimesInv, OpenTimes
<1>7. \A j \in DOMAIN found'[r] :
         /\ status[j] # "absent" /\ (j \in Tools => started[j] <= at[r])
         /\ found'[r][j] # 0 => started[j] <= found'[r][j]
  BY <1>5, TimesFacts DEF FoundTimes
<1>. QED
  BY <1>1, <1>4, <1>5, <1>6, <1>7, OneRunGoes

LEMMA TimesSource ==
  ASSUME TimesInv,
         \/ \E k \in Keys : StartTool(k) \/ FinishTool(k) \/ FailMessage(k) \/ CompleteMessage(k)
         \/ Tick
  PROVE  TimesInv'
<1>1. /\ UNCHANGED <<row, pc, at, found, live, open, mishaps>> /\ LedgerTypeOK' /\ SourceInv' /\ now <= now'
      /\ \A j \in Keys : status[j] # "absent" => status'[j] # "absent" /\ started'[j] = started[j]
  BY SourceEffect DEF TimesInv
<1>2. now' <= MaxTime
  BY StallLedgerAssumption
     DEF TimesInv, LedgerTypeOK, StartTool, FinishTool, FailMessage, CompleteMessage, Tick
<1>3. ASSUME NEW r \in Runs PROVE at'[r] <= now' /\ FoundTimes(r)' /\ OpenTimes(r)'
  <2>1. at[r] \in Nat /\ now \in Nat /\ now' \in Nat
    BY <1>1, TimesFacts DEF LedgerTypeOK
  <2>2. at'[r] <= now'
    BY <1>1, <2>1, TimesFacts
  <2>. QED
    BY <1>1, <2>2, TimesFacts DEF FoundTimes, OpenTimes
<1>. QED
  BY <1>1, <1>2, <1>3 DEF TimesInv

LEMMA TimesStep == TimesInv /\ [Next]_vars => TimesInv'
<1>. SUFFICES ASSUME TimesInv, [Next]_vars PROVE TimesInv'
  OBVIOUS
<1>1. ASSUME NEW r \in Runs, Run(r) \/ StatementFails(r) \/ RunEnds(r) PROVE TimesInv'
  <2>1. CASE Done(r)
    BY <2>1, TimesReturn DEF Done, TimesInv, LedgerTypeOK
  <2>2. CASE RunEnds(r)
    <3>1. mishaps' \in Nat /\ mishaps' <= MaxMishaps
      BY <2>2, StallLedgerAssumption DEF RunEnds, TimesInv, LedgerTypeOK
    <3>. QED
      BY <2>2, <3>1, TimesReturn DEF RunEnds
  <2>. QED
    BY <1>1, <2>1, <2>2, TimesScan, TimesErrored, TimesUpsert, TimesList, TimesSeal, TimesFails DEF Run, Detect
<1>2. CASE UNCHANGED vars
  BY <1>2 DEF vars, sourceVars, TimesInv, LedgerTypeOK, SourceInv, FoundTimes, OpenTimes
<1>. QED
  BY <1>1, <1>2, TimesSource DEF Next

LEMMA TimesMeanTypes ==
  ASSUME TimesInv
  PROVE  TypeOK
<1>1. started \in [Keys -> 0 .. now] /\ completed \in [Keys -> 0 .. now]
  BY DEF TimesInv, LedgerTypeOK, SourceInv
<1>2. at \in [Runs -> 0 .. now]
  BY DEF TimesInv, LedgerTypeOK
<1>. QED
  BY <1>1, <1>2, TimesFacts, StallLedgerAssumption DEF TimesInv, LedgerTypeOK, TypeOK

\* Type correctness, for any number of runs at the same time.
THEOREM LedgerTypeCorrect == Spec => []TypeOK
<1>. QED
  BY TimesInit, TimesStep, TimesMeanTypes, PTL DEF Spec

-----------------------------------------------------------------------------
(* All four, as they are put together for model checking: a step of one    *)
(* leaves the others alone.                                                *)

ServicesInv ==
  /\ SpacedInv /\ AlertsTypeOK /\ Sending
  /\ RowsInv /\ RecTypeOK
  /\ DaemonTypeOK /\ TimesInv

\* The values each module's variables may have, whatever the services do.
THEOREM ServicesTypeCorrect == ServicesSpec => []ServicesTypeOK
<1>1. ServicesInit => ServicesInv
  BY SpacedInit, AlertsTypeInit, RowsInit, RecTypeInit, DaemonTypeInit, TimesInit DEF ServicesInit, ServicesInv
<1>2. ServicesInv /\ [ServicesNext]_<<setup, alertVars, recVars, daemonVars, vars>> => ServicesInv'
  <2>1. [ServicesNext]_<<setup, alertVars, recVars, daemonVars, vars>> =>
          [AlertsNext]_alertVars /\ [RecNext]_recVars /\ [DaemonNext]_daemonVars /\ [Next]_vars
    BY DEF ServicesNext
  <2>. QED
    BY <2>1, SpacedStep, AlertsTypeStep, RowsStep, RecTypeStep, DaemonTypeStep, TimesStep DEF ServicesInv
<1>3. ServicesInv => ServicesTypeOK
  BY TimesMeanTypes DEF ServicesInv, ServicesTypeOK
<1>. QED
  BY <1>1, <1>2, <1>3, PTL DEF ServicesSpec
=============================================================================
