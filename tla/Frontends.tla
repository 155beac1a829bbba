------------------------------ MODULE Frontends ------------------------------
(***************************************************************************)
(* A process in front of the services and a server it may find: a command  *)
(* (module Commands), an MCP server (McpTools) that answers one call after *)
(* the other, or a program that uses the client library.                   *)
(*                                                                         *)
(* The factory (pkg/cmd/factory) decides once per process whether its      *)
(* sessions are the server's or its own, when they are first asked for.    *)
(* From then on each operation on sessions goes over the wire, where it    *)
(* may be refused, fail, be lost, or be done with nobody waiting for its   *)
(* answer any more; the server may stop and start in between.              *)
(***************************************************************************)
EXTENDS RemoteService

CONSTANTS
  MaxCalls,   \* how many tools an MCP process is asked for,
  LaterTools, \* and which, after the first
  MaxStops,   \* how often the server stops
  Served      \* the services the server has beside that of sessions

VARIABLES
  begun,    \* how many commands or tools the process has begun
  todo,     \* the operations of the way it has begun, from the next one on
  goesOn,   \* the operations whose failure does not end it
  flags,    \* the options given
  svc,      \* whose sessions the process works on: "unset", "local" or "remote"
  up,       \* whether the server runs
  stops,    \* how often it has stopped
  waiting,  \* the request the process waits for, as a set of at most one
  arrived,  \* the requests the server has yet to serve
  done,     \* what was done, in order
  told      \* what the process was told of each operation, in order

frontVars == <<begun, todo, goesOn, flags, svc, up, stops, waiting, arrived, done, told>>

Cli == INSTANCE Commands
Mcp == INSTANCE McpTools

\* What a program may do with the client library.
Methods ==
  {Capture, Ingest, IngestOllama, Restore, Get, List, Delete, PatchSession, Export, Import,
   ExportAll, ImportBundle, Link, Comment, Search, Explain, Rewind, Blame, WorkItems, WorkItem,
   Stats, EstimateCost, ToolUsage, GarbageCollect, AnalyzeEfficiency, Diff, DetectOffTopic,
   Forecast, ListProjects, LinkSessions, GetLinkedSessions, DeleteSessionLink, AnalyzeSession,
   GetAnalysis, ListAnalyses, ReplaySession, ResolveSkills, Push, Pull, Sync, ReadIndex}

Programs ==
  {[name |-> "program", on |-> {},
    ways |-> {<<[port |-> "client", op |-> m.handler.op, opts |-> m.sends]>>}] : m \in Methods}

Options(way) == UNION {way[i].opts : i \in DOMAIN way}

\* All the options of a way, none of them, or all but one.
Choices(way) == {Options(way), {}} \cup {Options(way) \ {o} : o \in Options(way)}

\* What can only be done by the server a program talks to, or by the one its sessions
\* were found on.
Remote(step) ==
  \/ step.port = "client"
  \/ step.port \in {"session", "analysis"} /\ svc = "remote"

Told(answer) == told' = Append(told, answer)

Steps == [port : STRING, op : STRING, opts : SUBSET STRING]

\* What is relied on: only programs use the client library, and a handler has statuses
\* of its own for success and for failure.
FrontAssumption ==
  /\ MaxCalls \in Nat \ {0}
  /\ \A front \in Cli!Commands \cup Mcp!NewServer : \A way \in front.ways :
       way \in Seq(Steps) /\ \A i \in DOMAIN way : way[i].port # "client"
  /\ \A call \in Methods \cup UNION {r.call : r \in RemoteOps} :
       /\ call.handler.ok \in 0..399
       /\ \A status \in call.handler.fixed : status \in Nat /\ status >= 400

\* The operation is over: the way goes on, unless a failure ends it.
Over(answer) ==
  /\ Told(answer)
  /\ todo' = IF answer = "ok" \/ Head(todo).op \in goesOn THEN Tail(todo) ELSE << >>

Request(step, call, opts) ==
  [nr |-> Len(told) + 1, asks |-> [op |-> step.op, opts |-> flags \cap step.opts],
   served |-> call.served, handler |-> call.handler, opts |-> opts]

Done(place, step, op, opts) ==
  [nr |-> Len(told) + 1, port |-> step.port, place |-> place,
   asks |-> [op |-> step.op, opts |-> flags \cap step.opts],
   does |-> [op |-> op, opts |-> opts]]

FrontInit ==
  /\ begun = 0
  /\ todo = << >> /\ goesOn = {} /\ flags = {}
  /\ svc = "unset" /\ up = TRUE /\ stops = 0
  /\ waiting = {} /\ arrived = {}
  /\ done = << >> /\ told = << >>

-----------------------------------------------------------------------------
(* The process.                                                            *)

Begin(front, way, given) ==
  /\ todo' = way /\ goesOn' = front.on /\ flags' = given
  /\ UNCHANGED <<svc, up, stops, waiting, arrived, done, told>>

\* A command or a program runs once; an MCP process is called again and again.
Run ==
  /\ begun = 0 /\ begun' = MaxCalls
  /\ \E front \in Cli!Commands \cup Programs : \E way \in front.ways :
       \E given \in Choices(way) : Begin(front, way, given)

CallTool ==
  /\ begun < MaxCalls /\ begun' = begun + 1
  /\ todo = << >> /\ waiting = {}
  /\ \E tool \in Mcp!NewServer :
       /\ begun = 0 \/ tool.name \in LaterTools
       /\ \E way \in tool.ways : Begin(tool, way, Options(way))

\* Once per process: a server that is configured and answers its health check in time.
SessionService ==
  /\ todo # << >> /\ Head(todo).port = "session" /\ svc = "unset"
  /\ svc' \in {"local"} \cup {s \in {"remote"} : up}
  /\ UNCHANGED <<begun, todo, goesOn, flags, up, stops, waiting, arrived, done, told>>

\* Done by the process itself, with the options given.
Locally(ok) ==
  /\ todo # << >> /\ ~ Remote(Head(todo))
  /\ Head(todo).port = "session" => svc = "local"
  /\ IF ok
       THEN /\ done' = Append(done, Done("local", Head(todo), Head(todo).op,
                                         flags \cap Head(todo).opts))
            /\ Over("ok")
       ELSE Over("failed") /\ UNCHANGED done
  /\ UNCHANGED <<begun, goesOn, flags, svc, up, stops, waiting, arrived>>

\* The call of the client an operation is made with.
CallOf(step) ==
  IF step.port = "client"
    THEN {c \in Methods : c.handler.op = step.op /\ c.sends = step.opts}
    ELSE UNION {r.call : r \in {q \in RemoteOps : q.op = step.op}}

\* The options that leave the process.
Leaves(step, call) ==
  (flags \cap step.opts \cap call.sends)
    \cap (IF step.port = "client" THEN call.sends ELSE RemoteOp(step.op).hands)

\* Refused before anything is sent: the operation is not one of the remote service's,
\* or an option is missing that the client insists on.
RefuseHere ==
  /\ todo # << >> /\ Remote(Head(todo)) /\ waiting = {}
  /\ \A call \in CallOf(Head(todo)) : ~ call.requires \subseteq Leaves(Head(todo), call)
  /\ Over("refused")
  /\ UNCHANGED <<begun, goesOn, flags, svc, up, stops, waiting, arrived, done>>

Send ==
  /\ todo # << >> /\ Remote(Head(todo)) /\ waiting = {}
  /\ \E call \in CallOf(Head(todo)) :
       LET request == Request(Head(todo), call, Leaves(Head(todo), call)) IN
       /\ call.requires \subseteq request.opts
       /\ waiting' = {request}
       /\ arrived' = IF up THEN arrived \cup {request} ELSE arrived
  /\ UNCHANGED <<begun, todo, goesOn, flags, svc, up, stops, done, told>>

\* The process stops waiting: nothing came back in time, or the connection was refused
\* or broke.
GiveUp ==
  /\ waiting # {}
  /\ Over("no answer") /\ waiting' = {}
  /\ UNCHANGED <<begun, goesOn, flags, svc, up, stops, arrived, done>>

-----------------------------------------------------------------------------
(* The server.                                                             *)

\* What the process is told, if it still waits for this request.
Answer(request, status) ==
  IF request \in waiting
    THEN Over(IF readResponse(status).ok THEN "ok"
              ELSE IF status \in {400, 404, 405, 503} THEN "refused" ELSE "failed")
         /\ waiting' = {}
    ELSE UNCHANGED <<todo, told, waiting>>

\* What a handler refuses its request with, if some of its options are malformed; a
\* path with no route has no handler.
RefusedWith(request, malformed) ==
  IF ~ request.served THEN {404}
  ELSE Refusals(request.handler, Served \cup {"session"},
                [gives |-> request.opts, malformed |-> malformed, broken |-> FALSE])

Refuse(request) ==
  /\ up /\ request \in arrived
  /\ \E malformed \in SUBSET (request.opts \cap request.handler.parses) :
       \E status \in RefusedWith(request, malformed) : Answer(request, status)
  /\ arrived' = arrived \ {request}
  /\ UNCHANGED <<begun, goesOn, flags, svc, up, stops, done>>

\* The handler calls its service.
Serve(request) ==
  /\ up /\ request \in arrived
  /\ RefusedWith(request, {}) = {}
  /\ done' = Append(done, [nr |-> request.nr, port |-> request.handler.port, place |-> "server",
                           asks |-> request.asks,
                           does |-> [op |-> request.handler.op,
                                     opts |-> request.opts \cap request.handler.passes]])
  /\ \/ Answer(request, request.handler.ok)
     \/ UNCHANGED <<todo, told, waiting>>
  /\ arrived' = arrived \ {request}
  /\ UNCHANGED <<begun, goesOn, flags, svc, up, stops>>

\* The service fails.
Fail(request, error) ==
  /\ up /\ request \in arrived
  /\ RefusedWith(request, {}) = {}
  /\ Answer(request, ErrorStatus(request.handler, error))
  /\ arrived' = arrived \ {request}
  /\ UNCHANGED <<begun, goesOn, flags, svc, up, stops, done>>

\* What it had not served is gone.
Stop ==
  /\ up /\ stops < MaxStops
  /\ up' = FALSE /\ stops' = stops + 1 /\ arrived' = {}
  /\ UNCHANGED <<begun, todo, goesOn, flags, svc, waiting, done, told>>

StartServer ==
  /\ ~ up
  /\ up' = TRUE
  /\ UNCHANGED <<begun, todo, goesOn, flags, svc, stops, waiting, arrived, done, told>>

FrontNext ==
  \/ Run \/ CallTool \/ SessionService
  \/ \E ok \in BOOLEAN : Locally(ok)
  \/ RefuseHere \/ Send \/ GiveUp
  \/ \E request \in arrived :
       \/ Refuse(request) \/ Serve(request)
       \/ \E error \in {"session not found", "secret", "other"} : Fail(request, error)
  \/ Stop \/ StartServer

FrontSpec == FrontInit /\ [][FrontNext]_frontVars

-----------------------------------------------------------------------------
(* Properties.                                                             *)

Places  == {"local", "server"}
Answers == {"ok", "failed", "refused", "no answer"}

FrontTypeOK ==
  /\ begun \in 0..MaxCalls /\ stops \in 0..MaxStops /\ up \in BOOLEAN
  /\ svc \in {"unset", "local", "remote"}
  /\ Cardinality(waiting) <= 1 /\ \A r \in waiting : r.nr = Len(told) + 1
  /\ \A i \in DOMAIN told : told[i] \in Answers
  /\ \A i \in DOMAIN done : done[i].place \in Places

\* What adds to the stored sessions, changes or deletes them.
Changing ==
  {"Capture", "CaptureAll", "CaptureByID", "Import", "ImportBundle", "Ingest", "Link",
   "LinkSessions", "DeleteSessionLink", "Delete", "TagSession", "Rewind", "GarbageCollect"}

\* What the remote service does in another way than the local one: all sessions of a
\* provider or one by its name become the newest one, an ingested session loses where
\* it came from, and a bundle the format it is in.
Different == {"CaptureAll", "CaptureByID", "Ingest", "ImportBundle"}

\* Stored sessions are changed as the user of a command, a tool or the client library
\* asked for, with every option given, wherever they are and however many hands the
\* request went through.
AsAsked ==
  \A i \in DOMAIN done :
    done[i].asks.op \in Changing \ Different => done[i].does = done[i].asks

\* Who is told that something was done, or refused, can rely on it: it was done by
\* then, once, or is not and never will be.
AnswerIsTrue ==
  \A i \in DOMAIN told :
    LET times == Cardinality({j \in DOMAIN done : done[j].nr = i}) IN
    /\ told[i] = "ok" => times = 1
    /\ told[i] \in {"refused", "failed"} => times = 0
    /\ times <= 1

\* A process never works on two sets of sessions, whatever the server does meanwhile.
NoSplit ==
  \A i, j \in DOMAIN done :
    done[i].port = "session" /\ done[j].port = "session" => done[i].place = done[j].place
=============================================================================
