--------------------------- MODULE SessionRecord ---------------------------
(***************************************************************************)
(* One session's row, its payload and its links, under the writers that    *)
(* share them: captures (whole or incremental) with their post-capture     *)
(* hook, the classifier of `aisync usage compute`, and the users who tag   *)
(* and link.  Save writes every column and replaces the links; the others  *)
(* update one column or add one link, each in a statement of its own.      *)
(***************************************************************************)
EXTENDS Naturals, FiniteSets

CONSTANTS
  Writers,     \* processes that capture or classify
  Branch,      \* the link of the branch, which every capture adds
  Tickets,     \* the links of the tickets in the branch and summary
  Linked,      \* the links users add: pull requests, commits
  Rule,        \* the types the project's rules give the session
  Tags,        \* the types the tagger or a user may give it
  MaxSaves,    \* bound on captures
  MaxCopies    \* rows of one link beyond this are not counted

ASSUME CountsAssumption == MaxSaves \in Nat /\ MaxCopies \in Nat \ {0}
ASSUME SessionRecordAssumption ==
  /\ Branch \notin Tickets \cup Linked /\ Tickets \cap Linked = {}
  /\ Rule # {} /\ "" \notin Rule \cup Tags

VARIABLES
  column,   \* sessions.session_type
  payload,  \* the session type in the payload
  links,    \* session_links: how many rows each link has; all 0 without a session
  proc,     \* each writer
  saves,    \* captures begun
  owed,     \* history: whether a hook stopped after Save, or a statement of one failed
  tagged    \* history: the type a user gave last, "" if none did

recordVars == <<column, payload, links, proc, saves, owed, tagged>>

Types == Rule \cup Tags \cup {""}
Links == {Branch} \cup Tickets \cup Linked
Stored == links[Branch] > 0
Ready == [step |-> "idle", type |-> "", links |-> [l \in Links |-> 0], todo |-> {}]
Steps == {"idle", "save", "tag", "tickets", "type"}

RecordTypeOK ==
  /\ column \in Types /\ payload \in Types /\ tagged \in Types
  /\ links \in [Links -> Nat]
  /\ \A w \in Writers :
       /\ proc[w].step \in Steps /\ proc[w].type \in Types
       /\ proc[w].links \in [Links -> Nat] /\ proc[w].todo \subseteq Tickets
  /\ saves \in 0 .. MaxSaves /\ owed \in BOOLEAN
  /\ ~Stored => column = "" /\ payload = "" /\ \A l \in Links : links[l] = 0

RecordInit ==
  /\ column = "" /\ payload = ""
  /\ links = [l \in Links |-> 0]
  /\ proc = [w \in Writers |-> Ready]
  /\ saves = 0 /\ owed = FALSE /\ tagged = ""

\* Get: the column counts only where the payload has no type.
GetType == IF payload # "" THEN payload ELSE column
Plus(ls, l) == [ls EXCEPT ![l] = IF @ < MaxCopies THEN @ + 1 ELSE @]

-----------------------------------------------------------------------------
(* Captures.                                                               *)

Begin(w, s, ls, type) ==
  /\ proc[w] = Ready /\ saves < MaxSaves
  /\ saves' = saves + 1
  /\ proc' = [proc EXCEPT ![w] = [Ready EXCEPT !.step = s, !.type = type, !.links = ls]]
  /\ UNCHANGED <<column, payload, links, owed, tagged>>

\* A whole export knows neither type nor links.
Export(w) == Begin(w, "save", Plus(Ready.links, Branch), "")

\* New messages are appended to the stored session, which has its links; the
\* branch's is added once more.
ExportIncremental(w) == Stored /\ Begin(w, "save", Plus(links, Branch), GetType)

\* Mutation of Save: the hook is not run, as it is not for a caller without one.
SaveOnly(w) ==
  /\ proc[w].step = "save"
  /\ column' = proc[w].type /\ payload' = proc[w].type
  /\ links' = proc[w].links
  /\ proc' = [proc EXCEPT ![w] = Ready]
  /\ UNCHANGED <<saves, owed, tagged>>

Save(w) ==
  /\ proc[w].step = "save"
  /\ column' = proc[w].type /\ payload' = proc[w].type
  /\ links' = proc[w].links
  /\ proc' = [proc EXCEPT ![w] = [@ EXCEPT !.step = "tag", !.links = Ready.links]]
  /\ UNCHANGED <<saves, owed, tagged>>

\* Save fails: one capture ends there, one of many goes on with its hook.
SaveFails(w) ==
  /\ proc[w].step = "save"
  /\ \/ proc' = [proc EXCEPT ![w] = Ready]
     \/ proc' = [proc EXCEPT ![w] = [@ EXCEPT !.step = "tag", !.links = Ready.links]]
  /\ UNCHANGED <<column, payload, links, saves, owed, tagged>>

\* The LLM is asked for a type if the capture had none; it may not know one.
AutoTag(w) ==
  /\ proc[w].step = "tag"
  /\ \/ UNCHANGED column
        /\ proc' = [proc EXCEPT ![w].step = "tickets", ![w].todo = Tickets]
     \/ /\ proc[w].type = ""
        /\ \E t \in Tags :
             /\ column' = IF Stored THEN t ELSE column
             /\ proc' = [proc EXCEPT ![w] = [@ EXCEPT !.step = "tickets", !.todo = Tickets, !.type = t]]
  /\ UNCHANGED <<payload, links, saves, owed, tagged>>

-----------------------------------------------------------------------------
(* The classifier: part of the hook, and run over all stored sessions.     *)

ClassifyProjectSessions(w) ==
  /\ Stored
  /\ proc[w] = Ready
  /\ proc' = [proc EXCEPT ![w] = [@ EXCEPT !.step = "tickets", !.type = GetType, !.todo = Tickets]]
  /\ UNCHANGED <<column, payload, links, saves, owed, tagged>>

\* Mutation of AddTicket: the tickets are looked for, and not linked.
AddNone(w, l) ==
  /\ proc[w].step = "tickets" /\ l \in proc[w].todo
  /\ proc' = [proc EXCEPT ![w].todo = @ \ {l}]
  /\ UNCHANGED <<column, payload, links, saves, owed, tagged>>

\* AddLink inserts a row if there is a session, whether it is linked already or not.
AddTicket(w, l) ==
  /\ proc[w].step = "tickets" /\ l \in proc[w].todo
  /\ links' = IF Stored THEN Plus(links, l) ELSE links
  /\ proc' = [proc EXCEPT ![w].todo = @ \ {l}]
  /\ UNCHANGED <<column, payload, saves, owed, tagged>>

\* AddLink fails: it is logged, and the next ticket is taken.
AddTicketFails(w, l) ==
  /\ proc[w].step = "tickets" /\ l \in proc[w].todo
  /\ proc' = [proc EXCEPT ![w].todo = @ \ {l}]
  /\ owed' = TRUE
  /\ UNCHANGED <<column, payload, links, saves, tagged>>

\* classifyType: the rules are a map; when several match, any may come first.
ClassifyType(w) ==
  /\ proc[w].step = "tickets" /\ proc[w].todo = {}
  /\ IF proc[w].type = "" /\ Stored THEN column' \in Rule ELSE UNCHANGED column
  /\ proc' = [proc EXCEPT ![w] = Ready]
  /\ UNCHANGED <<payload, links, saves, owed, tagged>>

\* UpdateSessionType fails, which ends the hook as well.
ClassifyTypeFails(w) ==
  /\ proc[w].step = "tickets" /\ proc[w].todo = {} /\ proc[w].type = ""
  /\ proc' = [proc EXCEPT ![w] = Ready]
  /\ owed' = TRUE
  /\ UNCHANGED <<column, payload, links, saves, tagged>>

-----------------------------------------------------------------------------
(* Users, crashes.                                                         *)

TagSession(t) ==
  /\ Stored /\ column # t
  /\ column' = t /\ tagged' = t
  /\ UNCHANGED <<payload, links, proc, saves, owed>>

Link(l) ==
  /\ Stored
  /\ links' = Plus(links, l)
  /\ UNCHANGED <<column, payload, proc, saves, owed, tagged>>

\* What a capture did not come to is not made up for: the next finds the session
\* unchanged.
Crash(w) ==
  /\ proc[w] # Ready
  /\ proc' = [proc EXCEPT ![w] = Ready]
  /\ owed' = (owed \/ proc[w].step # "save")
  /\ UNCHANGED <<column, payload, links, saves, tagged>>

RecordNext ==
  \/ \E w \in Writers :
       \/ Export(w) \/ ExportIncremental(w) \/ Save(w) \/ SaveFails(w) \/ AutoTag(w)
       \/ ClassifyProjectSessions(w) \/ ClassifyType(w)
       \/ (\E l \in Tickets : AddTicket(w, l) \/ AddTicketFails(w, l))
       \/ ClassifyTypeFails(w) \/ Crash(w)
  \/ \E t \in Tags : TagSession(t)
  \/ \E l \in Linked : Link(l)

RecordSpec == RecordInit /\ [][RecordNext]_recordVars

-----------------------------------------------------------------------------
(* Properties.                                                             *)

AtRest == \A w \in Writers : proc[w] = Ready

\* When all writers are done, a stored session has its branch's and its tickets'
\* links and a type, whichever of them replaced what the others had written
\* between two of their statements.
Classified ==
  Stored /\ AtRest /\ ~owed => column # "" /\ \A l \in Tickets : links[l] > 0

\* No link is stored twice (session_classifier.go: an insert that fails with
\* "UNIQUE" is not an error).
LinksOnce == \A l \in Links : links[l] <= 1

\* Only a user changes the type a user gave (default.go: "classify session type if
\* not already tagged"; session_classifier.go: "Only classify if not already typed").
TagKept == tagged # "" => column = tagged
=============================================================================
