------------------------------ MODULE MCGitSync ------------------------------
(***************************************************************************)
(* GitSync for TLC: two machines with one process each, in either of two   *)
(* setups: both do everything while things fail ("share"), or one syncs    *)
(* what it writes and nothing fails ("deliver").                           *)
(***************************************************************************)
EXTENDS GitSync

CONSTANTS
  m1, m2, p1, p2,
  Setups,         \* the setups of the run
  DeliverOps      \* the operations of each process in the second one

HostOf == [p \in Procs |-> IF p = p2 THEN m2 ELSE m1]

AllOps == [p \in Procs |-> {"push", "pull", "sync"}]
SyncOnly == [p \in Procs |-> {"sync"}]
WriterAndReader == [p \in Procs |-> IF p = p2 THEN {"pull"} ELSE {"sync"}]

VARIABLE setup  \* chosen at the start

Deliver == INSTANCE GitSync WITH
             Writers <- {m1}, Ops <- DeliverOps, Remotes <- {TRUE},
             MaxFaults <- 0

AnyInit == setup \in Setups /\ Init

AnyNext == \/ setup = "share" /\ Next /\ UNCHANGED setup
           \/ setup = "deliver" /\ Deliver!Next /\ UNCHANGED setup

AnySpec ==
  /\ AnyInit /\ [][AnyNext]_<<vars, setup>>
  /\ \A p \in Procs :
       WF_vars(setup = "deliver" /\ (Deliver!Begin(p) \/ Deliver!Pull(p) \/ Deliver!Push(p)))

\* Where one machine writes and syncs and the other pulls, every session is shared with
\* every machine in the end (README: "Push sessions to a shared aisync/sessions Git
\* branch so colleagues can pull them").
DeliveredToReaders ==
  \A s \in Sessions :
    setup = "deliver" /\ (\E m \in Machines : s \in held[m]) ~> (\A m \in Machines : s \in held[m])
=============================================================================
