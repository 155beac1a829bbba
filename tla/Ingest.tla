------------------------------- MODULE Ingest -------------------------------
(***************************************************************************)
(* Sessions that are sent to aisync instead of being captured              *)
(* (service/session_ingest.go, internal/ingest/ollama).  A conversation in *)
(* Ollama's form is converted, the session is stored, and who delegated to *)
(* whom is linked: as the child's request says, and as the parent's tool   *)
(* calls name the child.  The two are sent by different clients, in any    *)
(* order, and each again whenever its conversation has gone on.            *)
(*                                                                         *)
(* External: the agents, which talk, and their clients, which send.        *)
(***************************************************************************)
EXTENDS Naturals, Sequences, FiniteSets, SequencesExt

CONSTANTS
  Parent, Child, \* two sessions
  ClientOf,      \* whose session each client sends, one request at a time
  Said,          \* the messages an agent may add to the parent's conversation
  MaxSaid, MaxFaults  \* bounds

Sessions == {Parent, Child}
Clients == DOMAIN ClientOf
DelegateTools == {"delegate"}  \* stands for the names in delegateToolNames

IngestAssumption ==
  /\ Parent # Child /\ "" \notin Sessions
  /\ \A c \in Clients : ClientOf[c] \in Sessions
  /\ MaxSaid \in Nat /\ MaxFaults \in Nat

VARIABLES
  talk,   \* the parent's conversation
  here,   \* the sessions in the store
  links,  \* session_session_links: source, target, type
  pc,     \* where each request is
  todo,   \* what each request has yet to link its session with, and what the store has tried
  told,   \* the delegations that requests have told the store and were answered: by whom, between whom
  cut,    \* pairs of which a row was deleted by its id
  faults

ingestVars == <<talk, here, links, pc, todo, told, cut, faults>>

-----------------------------------------------------------------------------
(* Converting a conversation.                                              *)
(* A message is a user's, an assistant's with its calls, or a tool's       *)
(* result; calls and results say the session they name, or "".             *)

NoOutput == ""

\* The calls of the last assistant message that have no result yet, in their order.
Waiting(messages, name) ==
  LET turns == {i \in DOMAIN messages : messages[i].role = "assistant"} IN
  IF turns = {} THEN {}
  ELSE LET t == CHOOSE i \in turns : \A j \in turns : j <= i IN
       {<<t, c>> : c \in {c \in DOMAIN messages[t].calls :
                            messages[t].calls[c].name = name /\ ~messages[t].calls[c].done}}

\* Mutation of ConvertMessage: the last call waiting gets the result.
ConvertToLast(messages, m) ==
  LET waiting == Waiting(messages, m.name)
      ref == CHOOSE w \in waiting : \A v \in waiting : v[2] <= w[2]
  IN CASE m.role # "tool" -> Append(messages, m)
       [] m.role = "tool" /\ m.name = "" -> messages
       [] m.role = "tool" /\ m.name # "" /\ waiting = {} -> Append(messages, m)
       [] OTHER -> [messages EXCEPT ![ref[1]].calls[ref[2]].output = m.names, ![ref[1]].calls[ref[2]].done = TRUE]

\* A result goes to the first call of its name that waits; without one it stays a
\* message, and without a name it is dropped.
ConvertMessage(messages, m) ==
  LET waiting == Waiting(messages, m.name)
      ref == CHOOSE w \in waiting : \A v \in waiting : w[2] <= v[2]
  IN CASE m.role # "tool" -> Append(messages, m)
       [] m.role = "tool" /\ m.name = "" -> messages
       [] m.role = "tool" /\ m.name # "" /\ waiting = {} -> Append(messages, m)
       [] OTHER -> [messages EXCEPT ![ref[1]].calls[ref[2]].output = m.names, ![ref[1]].calls[ref[2]].done = TRUE]

Convert(conversation) == FoldLeft(ConvertMessage, <<>>, conversation)

\* The calls of a stored session, one after the other.
CallsOf(messages) ==
  FlattenSeq([i \in DOMAIN messages |-> IF messages[i].role = "assistant" THEN messages[i].calls ELSE <<>>])

\* A call names the session in its input or, if that has none, in its output.
extractSessionID(call) == IF call.input # "" THEN call.input ELSE call.output

\* Whom a session delegates to, as its calls tell.
Delegations(messages, id) ==
  LET calls == SelectSeq(CallsOf(messages), LAMBDA c : c.name \in DelegateTools)
  IN SelectSeq([i \in DOMAIN calls |-> extractSessionID(calls[i])], LAMBDA t : t \notin {"", id})

-----------------------------------------------------------------------------
(* Storing it.                                                             *)

NoRequest == [of |-> "", left |-> <<>>, tried |-> {}, counts |-> TRUE]

IngestInit ==
  /\ talk = <<>> /\ here = {} /\ links = {} /\ told = {} /\ cut = {} /\ faults = 0
  /\ pc = [c \in Clients |-> "idle"]
  /\ todo = [c \in Clients |-> NoRequest]

Fault == faults < MaxFaults /\ faults' = faults + 1

\* The agent goes on.
Say ==
  /\ Len(talk) < MaxSaid
  /\ \E m \in Said : talk' = Append(talk, m)
  /\ UNCHANGED <<here, links, pc, todo, told, cut, faults>>

\* The parent's request has its conversation, the child's the session it was called
\* from. There must be a message.
Request(c) ==
  /\ pc[c] = "idle" /\ pc' = [pc EXCEPT ![c] = "save"]
  /\ ClientOf[c] = Parent => Convert(talk) # <<>>
  /\ LET id == ClientOf[c]
         others == IF id = Parent THEN Delegations(Convert(talk), id) ELSE <<Parent>>
     IN todo' = [todo EXCEPT ![c] = [of |-> id, left |-> others, tried |-> {}, counts |-> TRUE]]
  /\ UNCHANGED <<talk, here, links, told, cut, faults>>

\* What was stored of the session is replaced.
Save(c) ==
  /\ pc[c] = "save" /\ pc' = [pc EXCEPT ![c] = "link"]
  /\ here' = here \cup {todo[c].of}
  /\ UNCHANGED <<talk, links, todo, told, cut, faults>>

InverseType(type) == IF type = "to" THEN "from" ELSE "to"

\* Mutation of LinkSessions: the inverse row is not inserted.
LinkOneWay(l) ==
  IF {l.source, l.target} \subseteq here THEN links \cup {l} ELSE links

\* Both sessions must be there; rows that are there stay.
LinkSessions(l) ==
  IF {l.source, l.target} \subseteq here
  THEN links \cup {l, [source |-> l.target, target |-> l.source, type |-> InverseType(l.type)]}
  ELSE links

\* The row a request is about to link: the parent delegates to, the child is from.
Wanted(t) ==
  [source |-> t.of, target |-> Head(t.left), type |-> IF t.of = Parent THEN "to" ELSE "from"]

\* What cannot be linked is passed over.
Link(c) ==
  LET t == todo[c] IN
  /\ pc[c] = "link" /\ t.left # <<>>
  /\ links' = LinkSessions(Wanted(t))
  /\ todo' = [todo EXCEPT ![c] = [t EXCEPT !.left = Tail(@), !.tried = @ \cup {Head(t.left)}]]
  /\ UNCHANGED <<talk, here, pc, told, cut, faults>>

\* The store fails, in its transaction or before it, and its error is ignored: the
\* request goes on, and is answered, without having told this one.
LinkFails(c) ==
  LET t == todo[c] IN
  /\ pc[c] = "link" /\ t.left # <<>> /\ Fault
  /\ todo' = [todo EXCEPT ![c] = [t EXCEPT !.left = Tail(@)]]
  /\ UNCHANGED <<talk, here, links, pc, told, cut>>

Answer(c) ==
  LET t == todo[c] IN
  /\ pc[c] = "link" /\ t.left = <<>>
  /\ pc' = [pc EXCEPT ![c] = "idle"]
  /\ told' = IF t.counts
             THEN told \cup {[by |-> t.of, pair |-> {t.of, other}] : other \in t.tried} ELSE told
  /\ todo' = [todo EXCEPT ![c] = NoRequest]
  /\ UNCHANGED <<talk, here, links, cut, faults>>

\* The server dies with the request, or the session cannot be stored.
Fail(c) ==
  /\ pc[c] # "idle" /\ Fault
  /\ pc' = [pc EXCEPT ![c] = "idle"] /\ todo' = [todo EXCEPT ![c] = NoRequest]
  /\ UNCHANGED <<talk, here, links, told, cut>>

\* The links go with the session; what was told of it is not due any more.
Delete(id) ==
  /\ id \in here /\ Fault
  /\ here' = here \ {id}
  /\ links' = {l \in links : id \notin {l.source, l.target}}
  /\ told' = {}
  /\ todo' = [c \in Clients |-> IF pc[c] = "idle" THEN todo[c] ELSE [todo[c] EXCEPT !.counts = FALSE]]
  /\ UNCHANGED <<talk, pc, cut>>

\* A row is deleted by its id, and its inverse stays.
DeleteSessionLink(l) ==
  /\ l \in links /\ Fault
  /\ links' = links \ {l} /\ cut' = cut \cup {{l.source, l.target}}
  /\ UNCHANGED <<talk, here, pc, todo, told>>

IngestNext ==
  \/ Say
  \/ \E c \in Clients : Request(c) \/ Save(c) \/ Link(c) \/ LinkFails(c) \/ Answer(c) \/ Fail(c)
  \/ \E id \in here : Delete(id)
  \/ \E l \in links : DeleteSessionLink(l)

IngestSpec == IngestInit /\ [][IngestNext]_ingestVars

-----------------------------------------------------------------------------
(* Properties.                                                             *)

IngestTypeOK ==
  /\ here \subseteq Sessions /\ faults \in 0..MaxFaults
  /\ links \subseteq [source : Sessions, target : Sessions, type : {"to", "from"}]
  /\ pc \in [Clients -> {"idle", "save", "link"}]

\* The n-th call of a name in an assistant's turn has the n-th result of that name that
\* came before the next turn, and is without one if there is none.
ResultsInPlace ==
  LET turns == {i \in DOMAIN talk : talk[i].role = "assistant"}
      made  == SelectSeq(Convert(talk), LAMBDA m : m.role = "assistant")
      nth(t) == Cardinality({u \in turns : u <= t})
      results(t, name) ==
        SelectSeq([i \in DOMAIN talk |->
                     IF i > t /\ ~(\E u \in turns : t < u /\ u < i) /\ talk[i].role = "tool" /\ talk[i].name = name
                     THEN <<talk[i].names>> ELSE <<>>], LAMBDA r : r # <<>>)
  IN \A t \in turns : \A c \in DOMAIN talk[t].calls :
       LET name == talk[t].calls[c].name
           rank == Cardinality({d \in 1..c : talk[t].calls[d].name = name})
           got  == results(t, name)
       IN made[nth(t)].calls[c].output = IF rank <= Len(got) THEN got[rank][1] ELSE NoOutput

\* Nothing that was said and has a name is lost: messages and outputs are as many.
NothingDropped ==
  LET filled == SelectSeq(CallsOf(Convert(talk)), LAMBDA c : c.done)
      named  == SelectSeq(talk, LAMBDA m : m.role # "tool" \/ m.name # "")
  IN Len(Convert(talk)) + Len(filled) = Len(named)

\* A link is there from both of its ends, between sessions that are there, unless one
\* of its rows was deleted by its id.
LinksArePaired ==
  \A l \in links :
    /\ {l.source, l.target} \subseteq here
    /\ \/ {l.source, l.target} \in cut
       \/ [source |-> l.target, target |-> l.source, type |-> InverseType(l.type)] \in links

\* A delegation that both sides have told is linked, in whichever order and however
\* interleaved their requests were.  A request whose statement failed was answered all
\* the same, but has not told: until it is sent again nothing is due.
BothTellIsLinked ==
  LET pair == {Parent, Child} IN
  [by |-> Parent, pair |-> pair] \in told /\ [by |-> Child, pair |-> pair] \in told /\ pair \notin cut =>
    [source |-> Parent, target |-> Child, type |-> "to"] \in links

\* What the store makes of sent sessions (service/session_ingest.go:189-245).
DelegationsRight == LinksArePaired /\ BothTellIsLinked
=============================================================================
