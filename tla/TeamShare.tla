------------------------------ MODULE TeamShare ------------------------------
(***************************************************************************)
(* What `aisync push`, `pull` and `sync` promise a team, git aside: a pool *)
(* of shared sessions that only grows, filled from the members' stores and *)
(* copied into them.                                                       *)
(***************************************************************************)
CONSTANTS Machines, Sessions

VARIABLES
  held,     \* the sessions in each machine's store
  shared    \* the sessions the team's remote branch lists

vars == <<held, shared>>

Init ==
  /\ held = [m \in Machines |-> {}]
  /\ shared = {}

\* A session is captured on the machine where it took place.
Record(m, s) ==
  /\ \A n \in Machines : s \notin held[n]
  /\ held' = [held EXCEPT ![m] = @ \cup {s}]
  /\ UNCHANGED shared

\* A push publishes sessions its machine holds and withdraws none.
Publish(m) ==
  /\ \E S \in SUBSET held[m] : shared' = shared \cup S
  /\ UNCHANGED held

\* A pull brings shared sessions.
Receive(m) ==
  /\ \E S \in SUBSET shared : held' = [held EXCEPT ![m] = @ \cup S]
  /\ UNCHANGED shared

Next ==
  \E m \in Machines : (\E s \in Sessions : Record(m, s)) \/ Publish(m) \/ Receive(m)

Spec == Init /\ [][Next]_vars
=============================================================================
