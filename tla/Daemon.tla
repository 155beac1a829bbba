------------------------------- MODULE Daemon -------------------------------
(***************************************************************************)
(* aisync serve --daemon and --stop: the process that is asked for a       *)
(* daemon starts a child, gives it a second, looks whether it is alive and *)
(* writes its number into the PID file; the child writes it too, binds the *)
(* port, serves until a signal, shuts down in order and removes the file.  *)
(***************************************************************************)
EXTENDS Naturals, FiniteSets

CONSTANTS
  Daemons,     \* the children, one for each launch
  NoPid,
  OneAtATime,  \* whether the user waits for one command to be over before the next
  MaxFailures  \* bound on crashes and on requests that outlast the shutdown

ASSUME DaemonAssumption ==
  NoPid \notin Daemons /\ OneAtATime \in BOOLEAN /\ MaxFailures \in Nat

VARIABLES
  proc,       \* the state of each child
  launcher,   \* the state of each child's parent
  pidFile,
  port,       \* who listens
  stopper,    \* the number serve --stop has read
  failures

daemonVars == <<proc, launcher, pidFile, port, stopper, failures>>

ProcStates == {"unborn", "started", "named", "bound", "serving", "draining", "closed", "dead"}
Alive(p) == proc[p] \notin {"unborn", "dead"}

DaemonTypeOK ==
  /\ proc \in [Daemons -> ProcStates]
  /\ launcher \in [Daemons -> {"none", "waiting", "verified", "reported", "failed"}]
  /\ pidFile \in Daemons \cup {NoPid} /\ port \in Daemons \cup {NoPid}
  /\ stopper \in Daemons \cup {NoPid}
  /\ failures \in 0 .. MaxFailures

DaemonInit ==
  /\ proc = [p \in Daemons |-> "unborn"]
  /\ launcher = [p \in Daemons |-> "none"]
  /\ pidFile = NoPid /\ port = NoPid /\ stopper = NoPid
  /\ failures = 0

\* No command runs and no process starts or stops.
Settled ==
  /\ \A p \in Daemons : proc[p] \in {"unborn", "serving", "dead"}
  /\ \A p \in Daemons : launcher[p] \notin {"waiting", "verified"}
  /\ stopper = NoPid

Becomes(p, state) == proc' = [proc EXCEPT ![p] = state]

-----------------------------------------------------------------------------
(* The parent.                                                             *)

Launch(p) ==
  /\ proc[p] = "unborn"
  /\ OneAtATime => Settled /\ \A x \in Daemons : ~Alive(x)
  /\ Becomes(p, "started")
  /\ launcher' = [launcher EXCEPT ![p] = "waiting"]
  /\ UNCHANGED <<pidFile, port, stopper, failures>>

\* isProcessAlive sends signal 0, which a dead child that was not waited for still takes.
IsProcessAlive(p) == proc[p] # "unborn"

Verify(p) ==
  /\ launcher[p] = "waiting"
  /\ launcher' = [launcher EXCEPT ![p] = IF IsProcessAlive(p) THEN "verified" ELSE "failed"]
  /\ UNCHANGED <<proc, pidFile, port, stopper, failures>>

Report(p) ==
  /\ launcher[p] = "verified"
  /\ launcher' = [launcher EXCEPT ![p] = "reported"]
  /\ pidFile' = p
  /\ UNCHANGED <<proc, port, stopper, failures>>

-----------------------------------------------------------------------------
(* The child.                                                              *)

WritePIDFile(p) ==
  /\ proc[p] = "started"
  /\ Becomes(p, "named")
  /\ pidFile' = p
  /\ UNCHANGED <<launcher, port, stopper, failures>>

\* Without the port it exits, and the PID file stays as it is.
Listen(p) ==
  /\ proc[p] = "named"
  /\ Becomes(p, IF port = NoPid THEN "bound" ELSE "dead")
  /\ port' = IF port = NoPid THEN p ELSE port
  /\ UNCHANGED <<launcher, pidFile, stopper, failures>>

Notify(p) ==
  /\ proc[p] = "bound"
  /\ Becomes(p, "serving")
  /\ UNCHANGED <<launcher, pidFile, port, stopper, failures>>

\* The scheduler has stopped and the queue is drained: the listener is closed.
Shutdown(p) ==
  /\ proc[p] = "draining"
  /\ Becomes(p, "closed")
  /\ port' = NoPid
  /\ UNCHANGED <<launcher, pidFile, stopper, failures>>

\* Mutation of RemovePIDFile: the file is left behind.
LeavePIDFile(p) ==
  /\ proc[p] = "closed"
  /\ Becomes(p, "dead")
  /\ UNCHANGED <<launcher, pidFile, port, stopper, failures>>

\* Whoever's number it holds.
RemovePIDFile(p) ==
  /\ proc[p] = "closed"
  /\ Becomes(p, "dead")
  /\ pidFile' = NoPid
  /\ UNCHANGED <<launcher, port, stopper, failures>>

\* Requests that last longer than ten seconds: the process returns an error instead.
ShutdownFails(p) ==
  /\ proc[p] = "closed" /\ failures < MaxFailures
  /\ Becomes(p, "dead")
  /\ failures' = failures + 1
  /\ UNCHANGED <<launcher, pidFile, port, stopper>>

Crash(p) ==
  /\ Alive(p) /\ failures < MaxFailures
  /\ Becomes(p, "dead")
  /\ port' = IF port = p THEN NoPid ELSE port
  /\ failures' = failures + 1
  /\ UNCHANGED <<launcher, pidFile, stopper>>

-----------------------------------------------------------------------------
(* serve --stop.                                                           *)

ReadPIDFile ==
  /\ stopper = NoPid /\ pidFile # NoPid
  /\ OneAtATime => Settled
  /\ stopper' = pidFile
  /\ UNCHANGED <<proc, launcher, pidFile, port, failures>>

\* A process that does not wait for signals yet just dies of it; the file of one that
\* is dead is removed.
Terminate(p) ==
  /\ stopper = p
  /\ stopper' = NoPid
  /\ CASE proc[p] = "serving" -> Becomes(p, "draining") /\ UNCHANGED <<pidFile, port>>
       [] proc[p] \in {"started", "named", "bound"} ->
            /\ Becomes(p, "dead")
            /\ port' = IF port = p THEN NoPid ELSE port
            /\ UNCHANGED pidFile
       [] proc[p] \in {"draining", "closed"} -> UNCHANGED <<proc, pidFile, port>>
       [] OTHER -> pidFile' = NoPid /\ UNCHANGED <<proc, port>>
  /\ UNCHANGED <<launcher, failures>>

Child(p) ==
  \/ WritePIDFile(p) \/ Listen(p) \/ Notify(p)
  \/ Shutdown(p) \/ RemovePIDFile(p)

Parent(p) == Verify(p) \/ Report(p)

DaemonNext ==
  \/ ReadPIDFile
  \/ \E p \in Daemons :
       Launch(p) \/ Parent(p) \/ Child(p) \/ Terminate(p) \/ ShutdownFails(p) \/ Crash(p)

DaemonSpec == DaemonInit /\ [][DaemonNext]_daemonVars

-----------------------------------------------------------------------------
(* Properties.                                                             *)

\* When everything has settled, a daemon that serves is the one the PID file names:
\* serve --stop can stop it (serve.go: "Use --stop to stop a running daemon").
StopFindsDaemon ==
  Settled => \A p \in Daemons : proc[p] = "serving" => pidFile = p

\* Used one command at a time and without a crash the file is there exactly as long as
\* its daemon.
FileMeansDaemon ==
  Settled /\ failures = 0 =>
    /\ StopFindsDaemon
    /\ pidFile # NoPid => proc[pidFile] = "serving"

\* serve.go: "Give the child a moment to start, then verify it's alive."
VerifiedAlive ==
  [][\A p \in Daemons : launcher[p] = "waiting" /\ launcher'[p] = "verified" => Alive(p)]_daemonVars
=============================================================================
