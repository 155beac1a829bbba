----------------------------- MODULE RecordsProofs -----------------------------
(***************************************************************************)
(* Proofs about what is stored beside the sessions and about those who ask *)
(* for it, for every value of the constants: a stored session gets its     *)
(* type and its tickets' links, no page shows what has long not been true, *)
(* who asks a server is told the truth about what was done, settings come  *)
(* back as they were saved, links have their two ends, and a value a       *)
(* search page offers finds as many sessions as the page says.             *)
(***************************************************************************)
EXTENDS SessionRecord, WebCache, Analysis, Settings, FiniteSetTheorems, SequenceTheorems, TLAPS

CONSTANTS MaxCalls, LaterTools, MaxStops, Offered
VARIABLES begun, ahead, goesOn, flags, svc, up, stops, waiting, arrived, done, told

Front == INSTANCE Frontends WITH Served <- Offered, todo <- ahead

-----------------------------------------------------------------------------
(* The record of a session.  Classified is about the end of every writer's *)
(* work and not inductive.  OwedInv says what holds in between: what a     *)
(* stored session lacks, unless a capture was killed in its hook, some     *)
(* writer is still to write, the one that has saved last.                  *)

Writer == [step : Steps, type : Types, links : [Links -> Nat], todo : SUBSET Tickets]

\* Writer w will see to the type, to the link l.
WillType(w) == proc[w].step \in {"tag", "tickets"} /\ proc[w].type = ""
WillLink(w, l) == proc[w].step = "tag" \/ (proc[w].step = "tickets" /\ l \in proc[w].todo)

OwedInv ==
  /\ column \in Types /\ payload \in Types /\ owed \in BOOLEAN
  /\ links \in [Links -> Nat] /\ proc \in [Writers -> Writer]
  /\ Stored /\ ~owed =>
       /\ column # "" \/ \E w \in Writers : WillType(w)
       /\ \A l \in Tickets : links[l] > 0 \/ \E w \in Writers : WillLink(w, l)

-----------------------------------------------------------------------------
(* The writers' records.                                                   *)

LEMMA ReadyFacts ==
  /\ Ready \in Writer /\ Ready.step = "idle" /\ Ready.links \in [Links -> Nat]
  /\ "" \in Types /\ Rule \subseteq Types /\ Tags \subseteq Types /\ Tickets \subseteq Links
  /\ "" \notin Rule /\ "" \notin Tags
BY SessionRecordAssumption DEF Ready, Writer, Steps, Types, Links

LEMMA WriterFields ==
  ASSUME NEW x \in Writer
  PROVE  /\ x.step \in Steps /\ x.type \in Types
         /\ x.links \in [Links -> Nat] /\ x.todo \in SUBSET Tickets
BY DEF Writer

\* With another type; with other tickets to look for.
LEMMA WriterTyped ==
  ASSUME NEW x \in Writer, NEW t \in Types
  PROVE  /\ [x EXCEPT !.type = t] \in Writer
         /\ [x EXCEPT !.type = t].step = x.step /\ [x EXCEPT !.type = t].todo = x.todo
BY DEF Writer

LEMMA WriterLooks ==
  ASSUME NEW x \in Writer, NEW T \in SUBSET Tickets
  PROVE  /\ [x EXCEPT !.todo = T] \in Writer
         /\ [x EXCEPT !.todo = T].step = x.step /\ [x EXCEPT !.todo = T].type = x.type
         /\ [x EXCEPT !.todo = T].todo = T
BY DEF Writer

\* One writer goes on, as x.
LEMMA OneWriter ==
  ASSUME proc \in [Writers -> Writer], NEW w \in Writers, NEW x \in Writer,
         proc' = [proc EXCEPT ![w] = x]
  PROVE  /\ proc' \in [Writers -> Writer] /\ proc'[w] = x
         /\ \A v \in Writers \ {w} : proc'[v] = proc[v]
OBVIOUS

\* One link more.
LEMMA PlusFacts ==
  ASSUME NEW ls \in [Links -> Nat], NEW k \in Links
  PROVE  /\ Plus(ls, k) \in [Links -> Nat] /\ Plus(ls, k)[k] > 0
         /\ \A l \in Links : Plus(ls, k)[l] >= ls[l]
<1>. DEFINE n == IF ls[k] < MaxCopies THEN ls[k] + 1 ELSE ls[k]
<1>1. n \in Nat /\ n > 0 /\ n >= ls[k]
  BY CountsAssumption
<1>2. Plus(ls, k) = [ls EXCEPT ![k] = n]
  BY DEF Plus
<1>. HIDE DEF n
<1>. QED
  BY <1>1, <1>2

-----------------------------------------------------------------------------
(* The invariant.                                                          *)

LEMMA CountFacts ==
  /\ ~(0 > 0) /\ \A n \in Nat : n >= n
  /\ \A n, m \in Nat : m >= n /\ ~(m > 0) => ~(n > 0)
OBVIOUS

\* A step that takes no link and no type away and after which every writer will
\* still do what it was to do, or it is done.
LEMMA NothingLost ==
  ASSUME OwedInv,
         column' \in Types, payload' \in Types, owed' \in BOOLEAN,
         links' \in [Links -> Nat], proc' \in [Writers -> Writer],
         Stored' => Stored, owed => owed',
         column # "" => column' # "",
         \A l \in Tickets : links'[l] >= links[l],
         \A v \in Writers : WillType(v) /\ Stored /\ ~owed' => WillType(v)' \/ column' # "",
         \A v \in Writers, l \in Tickets :
           WillLink(v, l) /\ Stored /\ ~owed' => WillLink(v, l)' \/ links'[l] > 0
  PROVE  OwedInv'
<1>1. ASSUME Stored', ~owed', column' = "" PROVE \E w \in Writers : WillType(w)'
  <2>1. PICK w \in Writers : WillType(w)
    BY <1>1 DEF OwedInv
  <2>. QED
    BY <1>1, <2>1
<1>2. ASSUME Stored', ~owed', NEW l \in Tickets, ~(links'[l] > 0)
      PROVE  \E w \in Writers : WillLink(w, l)'
  <2>1. l \in Links /\ links[l] \in Nat /\ links'[l] \in Nat
    BY ReadyFacts DEF OwedInv
  <2>2. ~(links[l] > 0)
    <3>1. links'[l] >= links[l]
      OBVIOUS
    <3>. QED
      BY <1>2, <2>1, <3>1, CountFacts
  <2>3. PICK w \in Writers : WillLink(w, l)
    BY <1>2, <2>2 DEF OwedInv
  <2>. QED
    BY <1>2, <2>3
<1>. QED
  BY <1>1, <1>2 DEF OwedInv

\* The same of a step that leaves links alone and moves one writer, who has nothing
\* to do but to give a type, and gives it.
LEMMA OneGoesOn ==
  ASSUME OwedInv, NEW w \in Writers,
         column' \in Types, payload' = payload, owed' \in BOOLEAN, links' = links,
         proc' \in [Writers -> Writer], \A v \in Writers \ {w} : proc'[v] = proc[v],
         owed => owed', column # "" => column' # "",
         WillType(w) /\ Stored /\ ~owed' => column' # "",
         ~owed' => \A l \in Tickets : ~WillLink(w, l)
  PROVE  OwedInv'
<1>1. /\ links \in [Links -> Nat] /\ payload \in Types
      /\ \A l \in Tickets : links[l] \in Nat
  BY ReadyFacts DEF OwedInv
<1>2. Stored' => Stored
  BY DEF Stored
<1>3. \A l \in Tickets : links'[l] >= links[l]
  BY <1>1, CountFacts
<1>4. \A v \in Writers : WillType(v) /\ Stored /\ ~owed' => WillType(v)' \/ column' # ""
  BY DEF WillType
<1>5. \A v \in Writers, l \in Tickets :
        WillLink(v, l) /\ Stored /\ ~owed' => WillLink(v, l)' \/ links'[l] > 0
  BY DEF WillLink
<1>. QED
  BY <1>1, <1>2, <1>3, <1>4, <1>5, NothingLost

LEMMA OwedStep == OwedInv /\ [RecordNext]_recordVars => OwedInv'
<1>. SUFFICES ASSUME OwedInv, [RecordNext]_recordVars PROVE OwedInv'
  OBVIOUS
<1>1. /\ column \in Types /\ payload \in Types /\ owed \in BOOLEAN
      /\ links \in [Links -> Nat] /\ proc \in [Writers -> Writer]
  BY DEF OwedInv
<1>2. \A l \in Tickets : l \in Links /\ links[l] \in Nat
  BY <1>1, ReadyFacts
<1>3. CASE UNCHANGED recordVars
  BY <1>1, <1>3 DEF recordVars, OwedInv, Stored, WillType, WillLink
<1>4. ASSUME NEW w \in Writers, NEW s \in {"save"}, NEW ls \in [Links -> Nat], NEW t \in Types,
             Begin(w, s, ls, t)
      PROVE  OwedInv'
  <2>. DEFINE x == [Ready EXCEPT !.step = s, !.type = t, !.links = ls]
  <2>1. x \in Writer /\ x.step = "save"
    BY <1>4, ReadyFacts DEF Writer, Steps
  <2>. HIDE DEF x
  <2>2. /\ UNCHANGED <<column, payload, links, owed>> /\ proc[w].step = "idle"
        /\ proc' = [proc EXCEPT ![w] = x]
    BY <1>4, ReadyFacts DEF Begin, x
  <2>3. ~WillType(w) /\ \A l \in Tickets : ~WillLink(w, l)
    BY <2>2 DEF WillType, WillLink
  <2>4. /\ proc' \in [Writers -> Writer]
        /\ \A v \in Writers \ {w} : proc'[v] = proc[v]
    BY <1>1, <2>1, <2>2, OneWriter
  <2>. QED
    BY <1>1, <2>2, <2>3, <2>4, OneGoesOn
<1>5. ASSUME NEW w \in Writers, Export(w) \/ ExportIncremental(w) PROVE OwedInv'
  <2>1. Branch \in Links /\ GetType \in Types
    BY <1>1 DEF Links, GetType
  <2>2. Plus(links, Branch) \in [Links -> Nat] /\ Plus(Ready.links, Branch) \in [Links -> Nat]
    BY <1>1, <2>1, PlusFacts, ReadyFacts
  <2>. QED
    BY <1>4, <1>5, <2>1, <2>2, ReadyFacts DEF Export, ExportIncremental
<1>6. ASSUME NEW w \in Writers, Save(w) PROVE OwedInv'
  <2>. DEFINE y == [proc[w] EXCEPT !.step = "tag", !.links = Ready.links]
  <2>1. y \in Writer /\ y.step = "tag" /\ y.type = proc[w].type
    BY <1>1, ReadyFacts DEF Writer, Steps
  <2>. HIDE DEF y
  <2>2. /\ column' = proc[w].type /\ payload' = proc[w].type /\ links' = proc[w].links
        /\ owed' = owed /\ proc' = [proc EXCEPT ![w] = y]
    BY <1>6 DEF Save, y
  <2>3. proc' \in [Writers -> Writer] /\ proc'[w] = y
    BY <1>1, <2>1, <2>2, OneWriter
  <2>4. proc[w].type \in Types /\ proc[w].links \in [Links -> Nat]
    BY <1>1, WriterFields
  <2>5. \A l \in Tickets : WillLink(w, l)'
    BY <2>1, <2>3 DEF WillLink
  <2>6. column' = "" => WillType(w)'
    BY <2>1, <2>2, <2>3 DEF WillType
  <2>. QED
    BY <1>1, <2>2, <2>3, <2>4, <2>5, <2>6 DEF OwedInv
<1>7. ASSUME NEW w \in Writers, SaveFails(w) PROVE OwedInv'
  <2>. DEFINE y == [proc[w] EXCEPT !.step = "tag", !.links = Ready.links]
  <2>1. y \in Writer
    BY <1>1, ReadyFacts DEF Writer, Steps
  <2>. HIDE DEF y
  <2>2. /\ UNCHANGED <<column, payload, links, owed>> /\ proc[w].step = "save"
        /\ proc' = [proc EXCEPT ![w] = Ready] \/ proc' = [proc EXCEPT ![w] = y]
    BY <1>7 DEF SaveFails, y
  <2>3. ~WillType(w) /\ \A l \in Tickets : ~WillLink(w, l)
    BY <2>2 DEF WillType, WillLink
  <2>4. /\ proc' \in [Writers -> Writer]
        /\ \A v \in Writers \ {w} : proc'[v] = proc[v]
    BY <1>1, <2>1, <2>2, OneWriter, ReadyFacts
  <2>. QED
    BY <1>1, <2>2, <2>3, <2>4, OneGoesOn
<1>8. ASSUME NEW w \in Writers, AutoTag(w) PROVE OwedInv'
  <2>. DEFINE x == [proc[w] EXCEPT !.step = "tickets", !.todo = Tickets]
  <2>1. /\ x \in Writer /\ x.step = "tickets" /\ x.todo = Tickets /\ x.type = proc[w].type
        /\ \A t \in Tags : [x EXCEPT !.type = t] \in Writer
                           /\ [x EXCEPT !.type = t].step = "tickets" /\ [x EXCEPT !.type = t].todo = Tickets
    <3>1. proc[w] \in Writer /\ "tickets" \in Steps
      BY <1>1 DEF Steps
    <3>2. /\ x \in Writer /\ x.step = "tickets" /\ x.todo = Tickets /\ x.type = proc[w].type
      BY <3>1 DEF Writer
    <3>. HIDE DEF x
    <3>. QED
      BY <3>2, WriterTyped, ReadyFacts
  <2>2. /\ UNCHANGED <<payload, links, owed>>
        /\ \/ column' = column /\ proc' = [proc EXCEPT ![w] = x]
           \/ \E t \in Tags : /\ column' = IF Stored THEN t ELSE column
                              /\ proc' = [proc EXCEPT ![w] = [x EXCEPT !.type = t]]
    BY <1>1, <1>8 DEF AutoTag, Writer
  <2>. HIDE DEF x
  <2>3. \A v \in Writers \ {w} : proc'[v] = proc[v]
    BY <1>1, <2>1, <2>2
  <2>4. /\ proc' \in [Writers -> Writer] /\ proc'[w].step = "tickets" /\ proc'[w].todo = Tickets
        /\ column' \in Types /\ (column # "" => column' # "")
        /\ Stored => column' # "" \/ proc'[w].type = proc[w].type
    <3>1. CASE column' = column /\ proc' = [proc EXCEPT ![w] = x]
      BY <1>1, <2>1, <3>1
    <3>2. CASE \E t \in Tags : /\ column' = IF Stored THEN t ELSE column
                               /\ proc' = [proc EXCEPT ![w] = [x EXCEPT !.type = t]]
      <4>1. PICK t \in Tags : /\ column' = IF Stored THEN t ELSE column
                              /\ proc' = [proc EXCEPT ![w] = [x EXCEPT !.type = t]]
        BY <3>2
      <4>2. proc' \in [Writers -> Writer] /\ proc'[w] = [x EXCEPT !.type = t]
        BY <1>1, <2>1, <4>1, OneWriter
      <4>3. t \in Types /\ t # ""
        BY ReadyFacts
      <4>. QED
        BY <1>1, <2>1, <4>1, <4>2, <4>3
    <3>. QED
      BY <2>2, <3>1, <3>2
  <2>5. \A l \in Tickets : WillLink(w, l)'
    BY <2>4 DEF WillLink
  <2>6. WillType(w) /\ Stored => WillType(w)' \/ column' # ""
    BY <2>4 DEF WillType
  <2>7. ASSUME NEW v \in Writers, WillType(v), Stored PROVE WillType(v)' \/ column' # ""
    BY <2>3, <2>6, <2>7 DEF WillType
  <2>8. ASSUME NEW v \in Writers, NEW l \in Tickets, WillLink(v, l) PROVE WillLink(v, l)'
    BY <2>3, <2>5, <2>8 DEF WillLink
  <2>9. (Stored' => Stored) /\ \A l \in Tickets : links'[l] >= links[l]
    BY <1>2, <2>2 DEF Stored
  <2>. QED
    BY <1>1, <2>2, <2>4, <2>7, <2>8, <2>9, NothingLost
<1>9. ASSUME NEW w \in Writers, ClassifyProjectSessions(w) PROVE OwedInv'
  <2>. DEFINE x == [proc[w] EXCEPT !.step = "tickets", !.type = GetType, !.todo = Tickets]
  <2>1. x \in Writer
    BY <1>1 DEF Writer, Steps, GetType
  <2>. HIDE DEF x
  <2>2. /\ UNCHANGED <<column, payload, links, owed>> /\ proc[w].step = "idle"
        /\ proc' = [proc EXCEPT ![w] = x]
    BY <1>9, ReadyFacts DEF ClassifyProjectSessions, x
  <2>3. ~WillType(w) /\ \A l \in Tickets : ~WillLink(w, l)
    BY <2>2 DEF WillType, WillLink
  <2>4. /\ proc' \in [Writers -> Writer]
        /\ \A v \in Writers \ {w} : proc'[v] = proc[v]
    BY <1>1, <2>1, <2>2, OneWriter
  <2>. QED
    BY <1>1, <2>2, <2>3, <2>4, OneGoesOn
<1>10. ASSUME NEW w \in Writers, NEW k \in Tickets, AddTicket(w, k) PROVE OwedInv'
  <2>. DEFINE T == proc[w].todo \ {k}
              x == [proc[w] EXCEPT !.todo = T]
  <2>1. x \in Writer /\ x.step = "tickets" /\ x.type = proc[w].type /\ x.todo = T
    <3>1. proc[w] \in Writer /\ T \in SUBSET Tickets /\ proc[w].step = "tickets"
      BY <1>1, <1>10, WriterFields DEF AddTicket
    <3>. QED
      BY <3>1, WriterLooks
  <2>2. /\ UNCHANGED <<column, payload, owed>> /\ proc[w].step = "tickets"
        /\ links' = (IF Stored THEN Plus(links, k) ELSE links)
        /\ proc' = [proc EXCEPT ![w] = x]
    BY <1>1, <1>10 DEF AddTicket
  <2>. HIDE DEF x
  <2>3. /\ proc' \in [Writers -> Writer] /\ proc'[w] = x
        /\ \A v \in Writers \ {w} : proc'[v] = proc[v]
    BY <1>1, <2>1, <2>2, OneWriter
  <2>4. /\ links' \in [Links -> Nat] /\ \A l \in Links : links'[l] >= links[l]
        /\ Stored => links'[k] > 0
    BY <1>1, <1>2, <2>2, PlusFacts
  <2>5. Stored' => Stored
    <3>1. ASSUME ~Stored PROVE ~Stored'
      BY <2>2, <3>1 DEF Stored
    <3>. QED
      BY <3>1
  <2>6. \A v \in Writers : WillType(v) => WillType(v)'
    BY <2>1, <2>2, <2>3 DEF WillType
  <2>7. ASSUME NEW v \in Writers, NEW l \in Tickets, WillLink(v, l), Stored
        PROVE  WillLink(v, l)' \/ links'[l] > 0
    BY <2>1, <2>2, <2>3, <2>4, <2>7 DEF WillLink
  <2>. QED
    BY <1>1, <1>2, <2>2, <2>3, <2>4, <2>5, <2>6, <2>7, NothingLost
<1>11. ASSUME NEW w \in Writers, ClassifyType(w) PROVE OwedInv'
  <2>1. /\ UNCHANGED <<payload, links, owed>>
        /\ proc[w].step = "tickets" /\ proc[w].todo = {} /\ proc' = [proc EXCEPT ![w] = Ready]
        /\ IF proc[w].type = "" /\ Stored THEN column' \in Rule ELSE column' = column
    BY <1>11 DEF ClassifyType
  <2>2. /\ proc' \in [Writers -> Writer]
        /\ \A v \in Writers \ {w} : proc'[v] = proc[v]
    BY <1>1, <2>1, OneWriter, ReadyFacts
  <2>3. column' \in Types /\ (column # "" => column' # "") /\ (WillType(w) /\ Stored => column' # "")
    BY <1>1, <2>1, ReadyFacts DEF WillType
  <2>4. \A l \in Tickets : ~WillLink(w, l)
    BY <2>1 DEF WillLink
  <2>. QED
    BY <1>1, <2>1, <2>2, <2>3, <2>4, OneGoesOn
<1>12. ASSUME NEW w \in Writers, Crash(w) PROVE OwedInv'
  <2>1. /\ UNCHANGED <<column, payload, links>> /\ proc' = [proc EXCEPT ![w] = Ready]
        /\ owed' = (owed \/ proc[w].step # "save")
    BY <1>12 DEF Crash
  <2>2. /\ proc' \in [Writers -> Writer]
        /\ \A v \in Writers \ {w} : proc'[v] = proc[v]
    BY <1>1, <2>1, OneWriter, ReadyFacts
  <2>3. owed' \in BOOLEAN /\ (owed => owed')
    BY <2>1
  <2>4. ~owed' => ~WillType(w) /\ \A l \in Tickets : ~WillLink(w, l)
    BY <2>1 DEF WillType, WillLink
  <2>. QED
    BY <1>1, <2>1, <2>2, <2>3, <2>4, OneGoesOn
<1>13. ASSUME NEW t \in Tags, TagSession(t) PROVE OwedInv'
  <2>1. UNCHANGED <<payload, links, proc, owed>> /\ column' = t /\ t \in Types /\ t # ""
    BY <1>13, ReadyFacts DEF TagSession
  <2>2. (Stored' => Stored) /\ \A l \in Tickets : links'[l] >= links[l]
    BY <1>2, <2>1, CountFacts DEF Stored
  <2>3. \A v \in Writers, l \in Tickets : WillLink(v, l) => WillLink(v, l)'
    BY <2>1 DEF WillLink
  <2>. QED
    BY <1>1, <2>1, <2>2, <2>3, NothingLost
<1>14. ASSUME NEW k \in Linked, Link(k) PROVE OwedInv'
  <2>1. UNCHANGED <<column, payload, proc, owed>> /\ Stored /\ links' = Plus(links, k) /\ k \in Links
    BY <1>14 DEF Link, Links
  <2>2. links' \in [Links -> Nat] /\ \A l \in Links : links'[l] >= links[l]
    BY <1>1, <2>1, PlusFacts
  <2>. QED
    BY <1>1, <1>2, <2>1, <2>2, NothingLost DEF WillType, WillLink
<1>15. ASSUME NEW w \in Writers, NEW k \in Tickets, AddTicketFails(w, k) PROVE OwedInv'
  <2>1. /\ UNCHANGED <<column, payload, links>> /\ owed' = TRUE
        /\ proc' = [proc EXCEPT ![w] = [proc[w] EXCEPT !.todo = @ \ {k}]]
    BY <1>1, <1>15 DEF AddTicketFails
  <2>2. [proc[w] EXCEPT !.todo = @ \ {k}] \in Writer
    BY <1>1, WriterFields DEF Writer
  <2>3. proc' \in [Writers -> Writer]
    BY <1>1, <2>1, <2>2, OneWriter
  <2>. QED
    BY <1>1, <2>1, <2>3 DEF OwedInv
<1>16. ASSUME NEW w \in Writers, ClassifyTypeFails(w) PROVE OwedInv'
  <2>1. UNCHANGED <<column, payload, links>> /\ owed' = TRUE /\ proc' = [proc EXCEPT ![w] = Ready]
    BY <1>16 DEF ClassifyTypeFails
  <2>2. proc' \in [Writers -> Writer]
    BY <1>1, <2>1, OneWriter, ReadyFacts
  <2>. QED
    BY <1>1, <2>1, <2>2 DEF OwedInv
<1>. QED
  BY <1>3, <1>5, <1>6, <1>7, <1>8, <1>9, <1>10, <1>11, <1>12, <1>13, <1>14, <1>15, <1>16 DEF RecordNext

\* When all writers are done, none was killed in its hook and no statement of a hook failed, a stored session has
\* its type and the links of its tickets, whichever of them replaced what the
\* others had written between two of their statements.
THEOREM SessionsAreClassified == RecordSpec => []Classified
<1>1. RecordInit => OwedInv
  <2>. SUFFICES ASSUME RecordInit PROVE OwedInv
    OBVIOUS
  <2>1. ~Stored
    <3>1. Branch \in Links
      BY DEF Links
    <3>. QED
      BY <3>1, CountFacts DEF RecordInit, Stored
  <2>. QED
    BY <2>1, ReadyFacts DEF RecordInit, OwedInv
<1>2. OwedInv => Classified
  <2>. SUFFICES ASSUME OwedInv, Stored, AtRest, ~owed
                PROVE  column # "" /\ \A l \in Tickets : links[l] > 0
    BY DEF Classified
  <2>1. \A w \in Writers : proc[w].step = "idle"
    BY ReadyFacts DEF AtRest
  <2>2. \A w \in Writers : ~WillType(w) /\ \A l \in Tickets : ~WillLink(w, l)
    BY <2>1 DEF WillType, WillLink
  <2>. QED
    BY <2>2 DEF OwedInv
<1>. QED
  BY <1>1, <1>2, OwedStep, PTL DEF RecordSpec

\* Who is to save has the link of the branch, and without a session nothing is beside it.
HasBranch(x) == x.step = "save" => x.links[Branch] > 0

Bare == ~Stored => column = "" /\ payload = "" /\ \A l \in Links : links[l] = 0

RecordInv ==
  /\ OwedInv /\ tagged \in Types /\ saves \in 0 .. MaxSaves
  /\ \A w \in Writers : HasBranch(proc[w])
  /\ Bare

\* A session stays stored, its links as long as there is none, and a writer goes on who
\* is not to save, or is and has the branch's link.
LEMMA BareKeeps ==
  ASSUME Bare, Stored => Stored', ~Stored => column' = column /\ payload' = payload /\ links' = links
  PROVE  Bare'
BY DEF Bare

LEMMA BranchKeeps ==
  ASSUME NEW w \in Writers, NEW x \in Writer, OwedInv, \A v \in Writers : HasBranch(proc[v]),
         proc' = [proc EXCEPT ![w] = x], HasBranch(x)
  PROVE  \A v \in Writers : HasBranch(proc'[v])
<1>1. proc'[w] = x /\ \A v \in Writers \ {w} : proc'[v] = proc[v]
  BY DEF OwedInv
<1> QED
  BY <1>1

LEMMA BeginKeeps ==
  ASSUME RecordInv, NEW w \in Writers, NEW s \in Steps, NEW ls \in [Links -> Nat], NEW t \in Types,
         ls[Branch] > 0, Begin(w, s, ls, t)
  PROVE  /\ tagged' \in Types /\ saves' \in 0 .. MaxSaves
         /\ (\A v \in Writers : HasBranch(proc'[v])) /\ Bare'
<1> DEFINE x == [Ready EXCEPT !.step = s, !.type = t, !.links = ls]
<1>1. saves < MaxSaves /\ saves' = saves + 1 /\ proc' = [proc EXCEPT ![w] = x]
      /\ column' = column /\ payload' = payload /\ links' = links /\ tagged' = tagged
  BY DEF Begin
<1>2. x \in Writer /\ x.links = ls
  BY DEF Ready, Writer
<1>3. HasBranch(x)
  BY <1>2 DEF HasBranch
<1> HIDE DEF x
<1>4. \A v \in Writers : HasBranch(proc'[v])
  BY <1>1, <1>2, <1>3, BranchKeeps DEF RecordInv
<1>5. Bare'
  BY <1>1 DEF RecordInv, Bare, Stored
<1>6. saves' \in 0 .. MaxSaves
  BY <1>1, CountsAssumption DEF RecordInv
<1> QED
  BY <1>1, <1>4, <1>5, <1>6 DEF RecordInv

LEMMA RecordStep == RecordInv /\ [RecordNext]_recordVars => RecordInv'
<1> SUFFICES ASSUME RecordInv, [RecordNext]_recordVars PROVE RecordInv'
  OBVIOUS
<1> DEFINE Rest == /\ tagged' \in Types /\ saves' \in 0 .. MaxSaves
                   /\ (\A v \in Writers : HasBranch(proc'[v])) /\ Bare'
<1>1. OwedInv'
  BY OwedStep DEF RecordInv
<1>2. Branch \in Links /\ links \in [Links -> Nat] /\ Tickets \subseteq Links
  BY DEF RecordInv, OwedInv, Links
<1>3. \A w \in Writers : proc[w] \in Writer
  BY DEF RecordInv, OwedInv
<1>4. \A s \in Steps \ {"save"}, w \in Writers : HasBranch([proc[w] EXCEPT !.step = s, !.links = Ready.links])
  BY <1>3 DEF HasBranch, Writer
<1>5. HasBranch(Ready) /\ Ready \in Writer
  BY ReadyFacts DEF HasBranch
<1>6. ASSUME NEW w \in Writers, Export(w) PROVE Rest
  <2>1. Plus(Ready.links, Branch) \in [Links -> Nat] /\ Plus(Ready.links, Branch)[Branch] > 0
    BY <1>2, ReadyFacts, PlusFacts
  <2> QED
    BY <1>6, <2>1, ReadyFacts, BeginKeeps DEF Export, Steps
<1>7. ASSUME NEW w \in Writers, ExportIncremental(w) PROVE Rest
  <2>1. Plus(links, Branch) \in [Links -> Nat] /\ Plus(links, Branch)[Branch] > 0
    BY <1>2, PlusFacts
  <2>2. GetType \in Types
    BY DEF GetType, RecordInv, OwedInv
  <2> QED
    BY <1>7, <2>1, <2>2, BeginKeeps DEF ExportIncremental, Steps
<1>8. ASSUME NEW w \in Writers, Save(w) PROVE Rest
  <2> DEFINE x == [proc[w] EXCEPT !.step = "tag", !.links = Ready.links]
  <2>1. /\ links' = proc[w].links /\ proc[w].step = "save" /\ tagged' = tagged /\ saves' = saves
        /\ proc' = [proc EXCEPT ![w] = x]
    BY <1>8 DEF Save
  <2>2. Stored'
    BY <2>1 DEF RecordInv, HasBranch, Stored
  <2>3. x \in Writer /\ x.step = "tag"
    BY <1>3, ReadyFacts DEF Writer, Steps
  <2>4. HasBranch(x)
    BY <2>3 DEF HasBranch
  <2> HIDE DEF x
  <2>5. \A v \in Writers : HasBranch(proc'[v])
    BY <2>1, <2>3, <2>4, BranchKeeps DEF RecordInv
  <2> QED
    BY <2>1, <2>2, <2>5 DEF RecordInv, Bare
\* The other steps of a writer: where it goes, it is not to save.
<1>9. ASSUME NEW w \in Writers, NEW x \in Writer, x.step # "save", proc' = [proc EXCEPT ![w] = x],
             tagged' = tagged, saves' = saves, Bare'
      PROVE  Rest
  <2>1. HasBranch(x)
    BY <1>9 DEF HasBranch
  <2>2. \A v \in Writers : HasBranch(proc'[v])
    BY <1>9, <2>1, BranchKeeps DEF RecordInv
  <2> QED
    BY <1>9, <2>2 DEF RecordInv
<1>10. ASSUME NEW w \in Writers, SaveFails(w) PROVE Rest
  <2> DEFINE x == [proc[w] EXCEPT !.step = "tag", !.links = Ready.links]
  <2>1. x \in Writer /\ x.step = "tag"
    BY <1>3, ReadyFacts DEF Writer, Steps
  <2>2. Ready \in Writer /\ Ready.step # "save"
    BY ReadyFacts
  <2>3. /\ tagged' = tagged /\ saves' = saves /\ column' = column /\ payload' = payload /\ links' = links
        /\ proc' = [proc EXCEPT ![w] = Ready] \/ proc' = [proc EXCEPT ![w] = x]
    BY <1>10 DEF SaveFails
  <2>4. Bare'
    BY <2>3 DEF RecordInv, Bare, Stored
  <2> HIDE DEF x
  <2> QED
    BY <2>1, <2>2, <2>3, <2>4, <1>9
<1>11. ASSUME NEW w \in Writers, AutoTag(w) PROVE Rest
  <2>1. PICK t \in Types : proc' = [proc EXCEPT ![w] = [proc[w] EXCEPT !.step = "tickets", !.todo = Tickets, !.type = t]]
    <3>1. CASE proc' = [proc EXCEPT ![w].step = "tickets", ![w].todo = Tickets]
      <4>1. proc[w] \in Writer /\ proc \in [Writers -> Writer]
        BY <1>3 DEF RecordInv, OwedInv
      <4>2. proc' = [proc EXCEPT ![w] = [proc[w] EXCEPT !.step = "tickets", !.todo = Tickets]]
        BY <3>1, <4>1
      <4>3. [proc[w] EXCEPT !.step = "tickets", !.todo = Tickets]
              = [proc[w] EXCEPT !.step = "tickets", !.todo = Tickets, !.type = proc[w].type]
        BY <4>1 DEF Writer
      <4>4. proc[w].type \in Types
        BY <4>1 DEF Writer
      <4> QED
        BY <4>2, <4>3, <4>4
    <3>2. CASE \E t \in Tags : proc' = [proc EXCEPT ![w] = [@ EXCEPT !.step = "tickets", !.todo = Tickets, !.type = t]]
      BY <3>2, ReadyFacts
    <3> QED
      BY <1>11, <3>1, <3>2 DEF AutoTag
  <2> DEFINE x == [proc[w] EXCEPT !.step = "tickets", !.todo = Tickets, !.type = t]
  <2>2. x \in Writer /\ x.step = "tickets"
    BY <1>3 DEF Writer, Steps
  <2>3. /\ payload' = payload /\ links' = links /\ saves' = saves /\ tagged' = tagged
        /\ ~Stored => column' = column
    BY <1>11 DEF AutoTag
  <2>4. Bare'
    BY <2>3 DEF RecordInv, Bare, Stored
  <2> HIDE DEF x
  <2>5. proc' = [proc EXCEPT ![w] = x]
    BY <2>1 DEF x
  <2> QED
    BY <2>2, <2>3, <2>4, <2>5, <1>9
<1>12. ASSUME NEW w \in Writers, ClassifyProjectSessions(w) PROVE Rest
  <2> DEFINE x == [proc[w] EXCEPT !.step = "tickets", !.type = GetType, !.todo = Tickets]
  <2>1. GetType \in Types
    BY DEF GetType, RecordInv, OwedInv
  <2>2. x \in Writer /\ x.step = "tickets"
    BY <1>3, <2>1 DEF Writer, Steps
  <2>3. /\ proc' = [proc EXCEPT ![w] = x]
        /\ column' = column /\ payload' = payload /\ links' = links /\ saves' = saves /\ tagged' = tagged
    BY <1>12 DEF ClassifyProjectSessions
  <2>4. Bare'
    BY <2>3 DEF RecordInv, Bare, Stored
  <2> HIDE DEF x
  <2> QED
    BY <2>2, <2>3, <2>4, <1>9
<1>13. ASSUME NEW w \in Writers, NEW l \in Tickets, AddTicket(w, l) PROVE Rest
  <2> DEFINE x == [proc[w] EXCEPT !.todo = @ \ {l}]
  <2>1. x \in Writer /\ x.step = "tickets"
    <3>1. proc[w] \in Writer /\ proc[w].step = "tickets"
      BY <1>3, <1>13 DEF AddTicket
    <3>2. proc[w].todo \ {l} \in SUBSET Tickets
      BY <3>1, WriterFields
    <3> QED
      BY <3>1, <3>2, WriterLooks
  <2>2. /\ proc' = [proc EXCEPT ![w] = x] /\ links' = IF Stored THEN Plus(links, l) ELSE links
        /\ column' = column /\ payload' = payload /\ saves' = saves /\ tagged' = tagged
    <3>1. proc' = [proc EXCEPT ![w].todo = @ \ {l}]
      BY <1>13 DEF AddTicket
    <3>2. proc' = [proc EXCEPT ![w] = x]
      BY <3>1
    <3> QED
      BY <1>13, <3>2 DEF AddTicket
  <2>3. Stored => Stored'
    <3>1. l \in Links
      BY <1>2
    <3>2. Plus(links, l)[Branch] >= links[Branch] /\ Plus(links, l)[Branch] \in Nat /\ links[Branch] \in Nat
      BY <1>2, <3>1, PlusFacts
    <3> QED
      BY <2>2, <3>2 DEF Stored
  <2>4. Bare'
    BY <2>2, <2>3, BareKeeps DEF RecordInv
  <2> HIDE DEF x
  <2> QED
    BY <2>1, <2>2, <2>4, <1>9
<1>14. ASSUME NEW w \in Writers, ClassifyType(w) PROVE Rest
  <2>1. /\ proc' = [proc EXCEPT ![w] = Ready] /\ (~Stored => column' = column)
        /\ payload' = payload /\ links' = links /\ saves' = saves /\ tagged' = tagged
    BY <1>14 DEF ClassifyType
  <2>2. Bare'
    BY <2>1 DEF RecordInv, Bare, Stored
  <2> QED
    BY <2>1, <2>2, <1>9, ReadyFacts
<1>15. ASSUME NEW w \in Writers, Crash(w) PROVE Rest
  <2>1. /\ proc' = [proc EXCEPT ![w] = Ready]
        /\ column' = column /\ payload' = payload /\ links' = links /\ saves' = saves /\ tagged' = tagged
    BY <1>15 DEF Crash
  <2>2. Bare'
    BY <2>1 DEF RecordInv, Bare, Stored
  <2> QED
    BY <2>1, <2>2, <1>9, ReadyFacts
<1>16. ASSUME NEW t \in Tags, TagSession(t) PROVE Rest
  <2>1. Stored /\ links' = links /\ payload' = payload /\ proc' = proc /\ saves' = saves /\ tagged' = t
    BY <1>16 DEF TagSession
  <2>2. Stored' /\ t \in Types
    BY <2>1, ReadyFacts DEF Stored
  <2> QED
    BY <2>1, <2>2 DEF RecordInv, Bare
<1>17. ASSUME NEW l \in Linked, Link(l) PROVE Rest
  <2>1. /\ Stored /\ links' = Plus(links, l) /\ column' = column /\ payload' = payload
        /\ proc' = proc /\ saves' = saves /\ tagged' = tagged
    BY <1>17 DEF Link
  <2>2. Plus(links, l)[Branch] >= links[Branch] /\ Plus(links, l)[Branch] \in Nat /\ links[Branch] \in Nat
    BY <1>2, PlusFacts DEF Links
  <2>3. Stored'
    BY <2>1, <2>2 DEF Stored
  <2> QED
    BY <2>1, <2>3 DEF RecordInv, Bare
<1>18. ASSUME NEW w \in Writers, NEW l \in Tickets, AddTicketFails(w, l) PROVE Rest
  <2> DEFINE x == [proc[w] EXCEPT !.todo = @ \ {l}]
  <2>1. proc[w] \in Writer /\ proc[w].step = "tickets" /\ proc[w].todo \ {l} \in SUBSET Tickets
    BY <1>3, <1>18, WriterFields DEF AddTicketFails
  <2>2. x \in Writer /\ x.step = "tickets"
    BY <2>1, WriterLooks
  <2>3. /\ proc' = [proc EXCEPT ![w].todo = @ \ {l}]
        /\ column' = column /\ payload' = payload /\ links' = links /\ saves' = saves /\ tagged' = tagged
    BY <1>18 DEF AddTicketFails
  <2>4. proc' = [proc EXCEPT ![w] = x]
    BY <2>3
  <2>5. Bare'
    BY <2>3 DEF RecordInv, Bare, Stored
  <2> HIDE DEF x
  <2> QED
    BY <2>2, <2>3, <2>4, <2>5, <1>9
<1>19. ASSUME NEW w \in Writers, ClassifyTypeFails(w) PROVE Rest
  <2>1. /\ proc' = [proc EXCEPT ![w] = Ready] /\ column' = column
        /\ payload' = payload /\ links' = links /\ saves' = saves /\ tagged' = tagged
    BY <1>19 DEF ClassifyTypeFails
  <2>2. Bare'
    BY <2>1 DEF RecordInv, Bare, Stored
  <2> QED
    BY <2>1, <2>2, <1>9, ReadyFacts
<1> QED
  <2>1. RecordNext => Rest
    BY <1>6, <1>7, <1>8, <1>10, <1>11, <1>12, <1>13, <1>14, <1>15, <1>16, <1>17, <1>18, <1>19 DEF RecordNext
  <2>2. UNCHANGED recordVars => Rest
    BY DEF recordVars, RecordInv, Bare, Stored
  <2> HIDE DEF Rest
  <2>3. Rest
    BY <2>1, <2>2
  <2> QED
    BY <1>1, <2>3 DEF Rest, RecordInv

\* Whoever captures, classifies, tags and links, and wherever they are killed: nothing
\* stays of a session that is not stored, no type and no link (AddLink's insert is by the
\* session's row), and every writer's work has its type.
THEOREM RecordTypeCorrect == RecordSpec => []RecordTypeOK
<1>1. RecordInit => RecordInv
  <2> SUFFICES ASSUME RecordInit PROVE RecordInv
    OBVIOUS
  <2>1. ~Stored
    <3>1. Branch \in Links
      BY DEF Links
    <3> QED
      BY <3>1, CountFacts DEF RecordInit, Stored
  <2>2. OwedInv
    BY <2>1, ReadyFacts DEF RecordInit, OwedInv
  <2>3. \A w \in Writers : HasBranch(proc[w])
    BY ReadyFacts DEF RecordInit, HasBranch
  <2>4. 0 \in 0 .. MaxSaves
    BY CountsAssumption
  <2> QED
    BY <2>2, <2>3, <2>4, ReadyFacts DEF RecordInit, RecordInv, Bare
<1>2. RecordInv => RecordTypeOK
  <2> SUFFICES ASSUME RecordInv PROVE RecordTypeOK
    OBVIOUS
  <2>1. \A w \in Writers : /\ proc[w].step \in Steps /\ proc[w].type \in Types
                           /\ proc[w].links \in [Links -> Nat] /\ proc[w].todo \subseteq Tickets
    BY DEF RecordInv, OwedInv, Writer
  <2> QED
    BY <2>1 DEF RecordInv, OwedInv, Bare, RecordTypeOK
<1> QED
  BY <1>1, <1>2, RecordStep, PTL DEF RecordSpec

-----------------------------------------------------------------------------
(* The cache of the pages.  AgeInv is the inductive invariant.  An entry's *)
(* age says only when it was stored: what it holds may have been untrue    *)
(* for as much longer as its computation took.                             *)

Served == [step : {"idle", "computed", "served"}, value : SUBSET Projects, spent : Nat, untrue : Nat]

AgeInv ==
  /\ projects \subseteq Projects
  /\ entry \in [value : SUBSET Projects, age : Nat, untrue : Nat]
  /\ entry.age <= MaxAge => entry.untrue <= entry.age + MaxCompute
  /\ request \in [Requests -> Served]
  /\ \A r \in Requests :
       /\ request[r].step = "computed" => /\ request[r].untrue <= request[r].spent
                                          /\ request[r].spent <= MaxCompute
       /\ request[r].step = "served" => request[r].untrue <= MaxAge + MaxCompute

\* What is not true any more gets older by one at a time.
LEMMA UntrueFacts ==
  ASSUME MaxAge \in Nat, MaxCompute \in Nat, NEW value, NEW n \in Nat
  PROVE  Untrue(value, n) \in Nat /\ Untrue(value, n) <= n + 1
BY DEF Untrue, Aged, Cap

LEMMA AgeInit ==
  ASSUME MaxAge \in Nat, MaxCompute \in Nat, CacheInit
  PROVE  AgeInv
BY DEF CacheInit, AgeInv, Served, NoEntry, Waiting, Cap

\* Time: an entry gets older with what it holds, and so does a computation.
LEMMA AgeTick ==
  ASSUME MaxAge \in Nat, MaxCompute \in Nat, AgeInv, Tick
  PROVE  AgeInv'
<1>1. /\ entry'.value = entry.value /\ entry'.untrue = Untrue(entry.value, entry.untrue)
      /\ entry'.age = IF entry.age <= MaxAge THEN entry.age + 1 ELSE entry.age
      /\ entry' \in [value : SUBSET Projects, age : Nat, untrue : Nat]
  <2>. DEFINE old == IF entry.age <= MaxAge THEN entry.age + 1 ELSE entry.age
              long == Untrue(entry.value, entry.untrue)
  <2>1. entry' = [entry EXCEPT !.age = old, !.untrue = long]
    BY DEF Tick
  <2>2. entry \in [value : SUBSET Projects, age : Nat, untrue : Nat]
    BY DEF AgeInv
  <2>3. old \in Nat /\ long \in Nat
    BY <2>2, UntrueFacts
  <2>4. entry'.value = entry.value /\ entry'.untrue = long /\ entry'.age = old
    <3>. HIDE DEF old, long
    <3>. QED
      BY <2>1, <2>2
  <2>5. entry' \in [value : SUBSET Projects, age : Nat, untrue : Nat]
    <3>. HIDE DEF old, long
    <3>. QED
      BY <2>1, <2>2, <2>3
  <2>. QED
    BY <2>4, <2>5
<1>2. entry'.age <= MaxAge => entry'.untrue <= entry'.age + MaxCompute
  BY <1>1, UntrueFacts DEF AgeInv
<1>3. ASSUME NEW r \in Requests
      PROVE  /\ request'[r] \in Served
             /\ request'[r].step = "computed" => /\ request'[r].untrue <= request'[r].spent
                                                 /\ request'[r].spent <= MaxCompute
             /\ request'[r].step # "served"
  <2>1. request[r] \in Served /\ request[r].step # "served" /\ request[r].spent < MaxCompute
    BY DEF AgeInv, Tick
  <2>2. CASE request[r].step = "computed"
    <3>1. /\ request'[r].step = request[r].step /\ request'[r].value = request[r].value
          /\ request'[r].spent = request[r].spent + 1
          /\ request'[r].untrue = Untrue(request[r].value, request[r].untrue)
          /\ request'[r] \in Served
      <4>. DEFINE long == Untrue(request[r].value, request[r].untrue)
                  more == request[r].spent + 1
      <4>1. request'[r] = [request[r] EXCEPT !.spent = more, !.untrue = long]
        BY <2>2 DEF Tick
      <4>2. long \in Nat /\ more \in Nat
        BY <2>1, UntrueFacts DEF Served
      <4>. HIDE DEF long, more
      <4>3. /\ request'[r] \in Served
            /\ request'[r].step = request[r].step /\ request'[r].value = request[r].value
            /\ request'[r].spent = more /\ request'[r].untrue = long
        BY <2>1, <4>1, <4>2 DEF Served
      <4>. QED
        BY <4>3 DEF long, more
    <3>2. /\ request[r].untrue \in Nat /\ request[r].spent \in Nat
          /\ request[r].untrue <= request[r].spent
      BY <2>1, <2>2 DEF AgeInv, Served
    <3>3. request'[r].untrue <= request'[r].spent /\ request'[r].spent <= MaxCompute
      BY <2>1, <3>1, <3>2, UntrueFacts
    <3>. QED
      BY <2>2, <3>1, <3>3
  <2>3. CASE request[r].step # "computed"
    BY <2>1, <2>3 DEF Tick
  <2>. QED
    BY <2>2, <2>3
<1>4. request' \in [Requests -> Served]
  BY <1>3 DEF Tick
<1>. QED
  BY <1>1, <1>2, <1>3, <1>4 DEF Tick, AgeInv

LEMMA AgeStep ==
  ASSUME MaxAge \in Nat, MaxCompute \in Nat, AgeInv, [CacheNext]_cacheVars
  PROVE  AgeInv'
<1>1. CASE Tick
  BY <1>1, AgeTick
<1>2. ASSUME NEW p \in Projects, Change(p) PROVE AgeInv'
  <2>1. projects' \subseteq Projects /\ UNCHANGED request
    BY <1>2 DEF Change, AgeInv
  <2>2. /\ entry' \in [value : SUBSET Projects, age : Nat, untrue : Nat]
        /\ entry'.age <= MaxAge => entry'.untrue <= entry'.age + MaxCompute
    BY <1>2 DEF Change, InvalidateCache, NoEntry, Cap, AgeInv
  <2>. QED
    BY <2>1, <2>2 DEF AgeInv
<1>3. ASSUME NEW r \in Requests, Hit(r) PROVE AgeInv'
  <2>1. request[r] \in Served /\ entry.untrue \in Nat /\ entry.untrue <= MaxAge + MaxCompute
    BY <1>3 DEF Hit, GetCache, AgeInv
  <2>. DEFINE hit == [request[r] EXCEPT !.step = "served", !.value = entry.value, !.untrue = entry.untrue]
  <2>2. hit \in Served /\ hit.step = "served" /\ hit.untrue = entry.untrue
    BY <2>1 DEF Served, AgeInv
  <2>3. request' = [request EXCEPT ![r] = hit] /\ UNCHANGED <<projects, entry>>
    BY <1>3 DEF Hit
  <2>. HIDE DEF hit
  <2>. QED
    BY <2>1, <2>2, <2>3 DEF AgeInv
<1>4. ASSUME NEW r \in Requests, Compute(r) PROVE AgeInv'
  <2>. DEFINE new == [step |-> "computed", value |-> projects, spent |-> 0, untrue |-> 0]
  <2>1. new \in Served /\ new.step = "computed" /\ new.spent = 0 /\ new.untrue = 0
    BY DEF Served, AgeInv
  <2>2. request' = [request EXCEPT ![r] = new] /\ UNCHANGED <<projects, entry>>
    BY <1>4 DEF Compute
  <2>. HIDE DEF new
  <2>. QED
    BY <2>1, <2>2 DEF AgeInv
<1>5. ASSUME NEW r \in Requests, SetCache(r) PROVE AgeInv'
  <2>1. /\ request[r] \in Served
        /\ request[r].untrue <= request[r].spent /\ request[r].spent <= MaxCompute
    BY <1>5 DEF SetCache, AgeInv
  <2>2. request[r].untrue \in Nat /\ request[r].untrue <= MaxCompute
    BY <2>1 DEF Served
  <2>3. /\ entry' \in [value : SUBSET Projects, age : Nat, untrue : Nat]
        /\ entry'.age = 0 /\ entry'.untrue = request[r].untrue
    BY <1>5, <2>1, <2>2 DEF SetCache, Served
  <2>. DEFINE over == [request[r] EXCEPT !.step = "served"]
  <2>4. over \in Served /\ over.step = "served" /\ over.untrue = request[r].untrue
    BY <2>1 DEF Served
  <2>5. request' = [request EXCEPT ![r] = over] /\ UNCHANGED projects
    BY <1>5 DEF SetCache
  <2>. HIDE DEF over
  <2>. QED
    BY <2>2, <2>3, <2>4, <2>5 DEF AgeInv
<1>6. ASSUME NEW r \in Requests, Answer(r) PROVE AgeInv'
  <2>1. Waiting \in Served /\ Waiting.step = "idle"
    BY DEF Waiting, Served
  <2>. QED
    BY <1>6, <2>1 DEF Answer, AgeInv
<1>7. ASSUME NEW r \in Requests, SetCacheFails(r) PROVE AgeInv'
  <2>1. /\ request[r] \in Served
        /\ request[r].untrue <= request[r].spent /\ request[r].spent <= MaxCompute
    BY <1>7 DEF SetCacheFails, AgeInv
  <2>2. request[r].untrue \in Nat /\ request[r].untrue <= MaxAge + MaxCompute
    BY <2>1 DEF Served
  <2>. DEFINE over == [request[r] EXCEPT !.step = "served"]
  <2>3. over \in Served /\ over.step = "served" /\ over.untrue = request[r].untrue
    BY <2>1 DEF Served
  <2>4. request' = [request EXCEPT ![r] = over] /\ UNCHANGED <<projects, entry>>
    BY <1>7 DEF SetCacheFails
  <2>. HIDE DEF over
  <2>. QED
    BY <2>2, <2>3, <2>4 DEF AgeInv
<1>8. CASE UNCHANGED cacheVars
  BY <1>8 DEF cacheVars, AgeInv
<1>. QED
  BY <1>1, <1>2, <1>3, <1>4, <1>5, <1>6, <1>7, <1>8 DEF CacheNext

\* Whatever requests overwrite each other's entries with, and whether or not the
\* page's key has an invalidated prefix, no page shows what has not been true for
\* longer than an entry lives and one computation takes.
THEOREM ServedWasTrueLately ==
  ASSUME MaxAge \in Nat, MaxCompute \in Nat
  PROVE  CacheSpec => []ServedWasTrue
<1>1. AgeInv => ServedWasTrue
  BY DEF AgeInv, ServedWasTrue
<1>. QED
  BY <1>1, AgeInit, AgeStep, PTL DEF CacheSpec

-----------------------------------------------------------------------------
(* Analyses.  What the properties say of stored rows, JobInv says of the   *)
(* runs that have yet to store theirs: what a run found when it loaded its *)
(* session is older than its own time, and while the one daily run is at   *)
(* work on a session, no daily run has a row of it, or its look for one    *)
(* had failed.                                                             *)

Names == AvailableModules \cup {Unknown}
Jobs == [session : Sessions, asked : SUBSET Names, after : SUBSET Nat, at : Nat,
         unseen : BOOLEAN, rounds : Nat, ended : SUBSET Names, results : SUBSET Names]

RowsInv ==
  /\ saved \in Nat /\ DOMAIN rows \subseteq 1..saved
  /\ \A i \in DOMAIN rows :
       /\ rows[i].at \in Nat /\ rows[i].at <= clock
       /\ rows[i].lacks = {} /\ rows[i].after \subseteq 1..saved
  /\ \A i, j \in DOMAIN rows : i \in rows[j].after => rows[i].at <= rows[j].at

JobInv(r) ==
  /\ job[r].results = job[r].ended
  /\ job[r].after \subseteq 1..saved /\ job[r].at <= clock
  /\ pc[r] = "run" => \A i \in job[r].after \cap DOMAIN rows : rows[i].at <= job[r].at

\* The daily task does not overlap with itself.
OneDaily == \A q, r \in DailyRuns : q = r

AtWork == {"load", "stamp", "run"}
NoDailyRow(s) == \A i \in DOMAIN rows : rows[i].run \in DailyRuns => rows[i].session # s
DailyInv ==
  /\ \A r \in DailyRuns : pc[r] \in AtWork => job[r].unseen \/ NoDailyRow(job[r].session)
  /\ DailyOnce

AnalysisInv ==
  /\ AnalysisTypeOK /\ job \in [Runs -> Jobs]
  /\ RowsInv /\ \A r \in Runs : JobInv(r)
  /\ OneDaily => DailyInv

\* A run takes a step of its own and stores nothing.
LEMMA RunMoves ==
  ASSUME RowsInv, \A q \in Runs : JobInv(q), OneDaily => DailyInv, NEW r \in Runs,
         clock' = clock, rows' = rows, saved' = saved, JobInv(r)',
         \A q \in Runs \ {r} : pc'[q] = pc[q] /\ job'[q] = job[q],
         r \in DailyRuns /\ pc'[r] \in AtWork =>
           \/ job'[r].unseen \/ NoDailyRow(job'[r].session)
           \/ pc[r] \in AtWork /\ job'[r].session = job[r].session /\ job'[r].unseen = job[r].unseen
  PROVE  RowsInv' /\ (\A q \in Runs : JobInv(q)') /\ (OneDaily => DailyInv')
<1>1. RowsInv'
  BY DEF RowsInv
<1>2. \A q \in Runs : JobInv(q)'
  BY DEF JobInv
<1>3. ASSUME OneDaily PROVE DailyInv'
  <2>1. ASSUME NEW q \in DailyRuns, pc'[q] \in AtWork PROVE job'[q].unseen \/ NoDailyRow(job'[q].session)
    <3>1. q \in Runs
      BY DEF Runs
    <3>. QED
      BY <1>3, <2>1, <3>1 DEF DailyInv
  <2>2. DailyInv
    BY <1>3
  <2>. QED
    BY <2>1, <2>2 DEF DailyInv, DailyOnce, NoDailyRow
<1>. QED
  BY <1>1, <1>2, <1>3

\* The daily runs are none of those that are asked.
LEMMA AskedAreNotDaily ==
  ASSUME AnalysisAssumption, NEW r \in PageRuns \cup CommandRuns \cup CaptureRuns
  PROVE  r \in Runs /\ r \notin DailyRuns
BY DEF AnalysisAssumption, Runs

LEMMA CountsOf ==
  ASSUME NEW msgs \in Seq(Messages)
  PROVE  CallsOf(msgs) \in Nat /\ ErrorsOf(msgs) \in Nat
<1>1. IsFiniteSet(DOMAIN msgs)
  <2>1. Len(msgs) \in Nat /\ DOMAIN msgs = 1..Len(msgs)
    OBVIOUS
  <2>. QED
    BY <2>1, FS_Interval
<1>. QED
  BY <1>1, FS_Subset, FS_CardinalityType DEF CallsOf, ErrorsOf

LEMMA AnalysisStart == AnalysisAssumption /\ AnalysisInit => AnalysisInv
<1>. SUFFICES ASSUME AnalysisAssumption, AnalysisInit PROVE AnalysisInv
  OBVIOUS
<1>1. Idle \in Jobs
  BY DEF AnalysisAssumption, Idle, Jobs
<1>2. DOMAIN rows = {}
  BY DEF AnalysisInit
<1>3. AnalysisTypeOK
  BY <1>2 DEF AnalysisAssumption, AnalysisInit, AnalysisTypeOK, Here, Messages
<1>4. RowsInv
  BY <1>2 DEF AnalysisInit, RowsInv
<1>5. ASSUME NEW r \in Runs PROVE JobInv(r)
  <2>1. /\ job[r].results = {} /\ job[r].ended = {} /\ job[r].after = {} /\ job[r].at = 0
        /\ pc[r] # "run" /\ clock = 0
    BY DEF AnalysisInit, Idle
  <2>. QED
    BY <2>1 DEF JobInv
<1>6. DailyInv
  BY <1>2 DEF DailyInv, DailyOnce, NoDailyRow
<1>. QED
  BY <1>1, <1>3, <1>4, <1>5, <1>6 DEF AnalysisInv, AnalysisInit

\* An analysis is asked for: the run has its session, and nothing yet.
LEMMA AsksFresh ==
  ASSUME AnalysisAssumption, AnalysisInv, NEW r \in Runs, NEW s \in Sessions,
         NEW modules \in SUBSET Names, NEW failed \in BOOLEAN,
         Asks(r, s, modules) \/ AsksDaily(r, s, failed),
         Step(r, "idle", "load") \/ Step(r, "next", "load"),
         clock' = clock, rows' = rows, saved' = saved,
         r \in DailyRuns => (failed /\ AsksDaily(r, s, failed)) \/ NoDailyRow(s)
  PROVE  /\ job' \in [Runs -> Jobs]
         /\ RowsInv' /\ (\A q \in Runs : JobInv(q)') /\ (OneDaily => DailyInv')
<1>1. /\ job'[r] \in Jobs /\ job'[r].session = s /\ job'[r].results = job'[r].ended
      /\ job'[r].after = {} /\ job'[r].at = 0
      /\ \A q \in Runs \ {r} : job'[q] = job[q]
      /\ DOMAIN job' = Runs
  <2>1. /\ Idle \in Jobs /\ Idle.results = {} /\ Idle.ended = {} /\ Idle.after = {} /\ Idle.at = 0
        /\ job \in [Runs -> Jobs]
    BY DEF AnalysisAssumption, AnalysisInv, Idle, Jobs
  <2>2. CASE Asks(r, s, modules)
    <3>. DEFINE new == [Idle EXCEPT !.session = s, !.asked = modules]
    <3>1. new \in Jobs /\ new.session = s /\ new.results = {} /\ new.ended = {} /\ new.after = {} /\ new.at = 0
      BY <2>1 DEF Jobs
    <3>2. job' = [job EXCEPT ![r] = new]
      BY <2>2 DEF Asks
    <3>. HIDE DEF new
    <3>. QED
      BY <2>1, <3>1, <3>2
  <2>3. CASE AsksDaily(r, s, failed)
    <3>. DEFINE new == [Idle EXCEPT !.session = s, !.unseen = failed]
    <3>1. new \in Jobs /\ new.session = s /\ new.results = {} /\ new.ended = {} /\ new.after = {} /\ new.at = 0
      BY <2>1 DEF Jobs
    <3>2. job' = [job EXCEPT ![r] = new]
      BY <2>3 DEF AsksDaily
    <3>. HIDE DEF new
    <3>. QED
      BY <2>1, <3>1, <3>2
  <2>. QED
    BY <2>2, <2>3
<1>2. pc'[r] = "load" /\ \A q \in Runs \ {r} : pc'[q] = pc[q]
  BY DEF AnalysisInv, AnalysisTypeOK, Step
<1>3. job' \in [Runs -> Jobs]
  BY <1>1 DEF AnalysisInv, Asks, AsksDaily
<1>4. JobInv(r)'
  <2>1. clock \in Nat
    BY DEF AnalysisInv, AnalysisTypeOK, AnalysisAssumption
  <2>2. job'[r].at <= clock'
    BY <1>1, <2>1
  <2>. QED
    BY <1>1, <1>2, <2>2 DEF JobInv
<1>5. r \in DailyRuns => job'[r].unseen \/ NoDailyRow(job'[r].session)
  <2>1. AsksDaily(r, s, failed) => job'[r].unseen = failed
    BY DEF AnalysisInv, AsksDaily
  <2>. QED
    BY <1>1, <2>1
<1>. QED
  BY <1>1, <1>2, <1>3, <1>4, <1>5, RunMoves DEF AnalysisInv

\* What the runs do, but for the last step of an analysis.
LEMMA AskingKeeps ==
  ASSUME AnalysisAssumption, AnalysisInv,
         \/ \E r \in PageRuns : HandleRunAnalysis(r)
         \/ \E r \in CommandRuns : RunAnalyze(r)
         \/ \E r \in CaptureRuns, s \in Sessions : PostCapture(r, s)
  PROVE  AnalysisInv'
<1>1. PICK r \in PageRuns \cup CommandRuns \cup CaptureRuns :
        /\ clock' = clock /\ rows' = rows /\ saved' = saved /\ created' = created
        /\ todo' = todo /\ mishaps' = mishaps
        /\ content' = content
             \/ \E s \in Here, m \in Messages : content' = [content EXCEPT ![s] = Append(@, m)]
        /\ \/ Step(r, "idle", "load") /\ \E s \in Sessions, modules \in SUBSET Names : Asks(r, s, modules)
           \/ pc' = pc /\ job' = job
  BY DEF HandleRunAnalysis, RunAnalyze, PostCapture, Names, AnalysisInv, AnalysisTypeOK
<1>2. r \in Runs /\ r \notin DailyRuns
  BY AskedAreNotDaily
<1>3. AnalysisTypeOK'
  <2>1. pc' \in [Runs -> {"idle", "next", "load", "stamp", "run"}]
    BY <1>1 DEF AnalysisInv, AnalysisTypeOK, Step
  <2>2. Here' = Here /\ \A s \in Here : content'[s] \in Seq(Messages)
    <3>1. \A s \in Here : content[s] \in Seq(Messages)
      BY DEF AnalysisInv, AnalysisTypeOK
    <3>2. ASSUME NEW t \in Here, NEW m \in Messages, content' = [content EXCEPT ![t] = Append(@, m)]
          PROVE  Here' = Here /\ \A s \in Here : content'[s] \in Seq(Messages)
      <4>1. Append(content[t], m) \in Seq(Messages)
        BY <3>1
      <4>2. \A s \in Here : content'[s] = IF s = t THEN Append(content[t], m) ELSE content[s]
        BY <3>2 DEF Here
      <4>. QED
        BY <3>1, <3>2, <4>1, <4>2 DEF Here
    <3>. QED
      BY <1>1, <3>1, <3>2 DEF Here
  <2>. QED
    BY <1>1, <2>1, <2>2 DEF AnalysisInv, AnalysisTypeOK
<1>4. CASE pc' = pc /\ job' = job
  BY <1>1, <1>3, <1>4 DEF AnalysisInv, RowsInv, JobInv, DailyInv, DailyOnce, NoDailyRow
<1>5. CASE Step(r, "idle", "load") /\ \E s \in Sessions, modules \in SUBSET Names : Asks(r, s, modules)
  BY <1>1, <1>2, <1>3, <1>5, AsksFresh DEF AnalysisInv
<1>. QED
  BY <1>1, <1>4, <1>5

LEMMA ListKeeps ==
  ASSUME AnalysisAssumption, AnalysisInv, NEW r \in DailyRuns, ListCandidates(r)
  PROVE  AnalysisInv'
<1>0. r \in Runs
  BY DEF Runs
<1>1. AnalysisTypeOK'
  <2>. DEFINE recent == {s \in Here : created[s] + Lookback > clock}
              summary(s) == [session |-> s, calls |-> CallsOf(content[s]), errors |-> ErrorsOf(content[s])]
  <2>1. \A s \in Here : summary(s) \in [session : Sessions, calls : Nat, errors : Nat]
    BY CountsOf DEF AnalysisInv, AnalysisTypeOK
  <2>2. todo' = [todo EXCEPT ![r] = {summary(s) : s \in recent}]
    BY DEF ListCandidates
  <2>3. todo' \in [DailyRuns -> SUBSET [session : Sessions, calls : Nat, errors : Nat]]
    BY <2>1, <2>2 DEF AnalysisInv, AnalysisTypeOK
  <2>4. pc' \in [Runs -> {"idle", "next", "load", "stamp", "run"}]
    BY DEF ListCandidates, AnalysisInv, AnalysisTypeOK, Step
  <2>. QED
    BY <2>3, <2>4 DEF ListCandidates, AnalysisInv, AnalysisTypeOK, Here
<1>2. /\ pc'[r] = "next" /\ (\A q \in Runs \ {r} : pc'[q] = pc[q])
      /\ job' = job /\ rows' = rows /\ saved' = saved /\ clock' = clock
  BY <1>0 DEF ListCandidates, Step, AnalysisInv, AnalysisTypeOK
<1>3. JobInv(r)'
  BY <1>0, <1>2 DEF AnalysisInv, JobInv
<1>. QED
  BY <1>0, <1>1, <1>2, <1>3, RunMoves DEF AnalysisInv, AtWork

LEMMA NextKeeps ==
  ASSUME AnalysisAssumption, AnalysisInv, NEW r \in DailyRuns, NextCandidate(r)
  PROVE  AnalysisInv'
<1>0. r \in Runs
  BY DEF Runs
<1>1. PICK c \in todo[r], failed \in BOOLEAN :
        /\ todo' = [todo EXCEPT ![r] = @ \ {c}]
        /\ IF failed THEN mishaps < MaxFaults /\ mishaps' = mishaps + 1 ELSE mishaps' = mishaps
        /\ IF (failed \/ RowsOf(c.session) = {}) /\ PassesThresholds(c)
           THEN Step(r, "next", "load") /\ AsksDaily(r, c.session, failed)
           ELSE pc' = pc /\ job' = job
  BY DEF NextCandidate
<1>2. c.session \in Sessions
  BY DEF AnalysisInv, AnalysisTypeOK
<1>3. /\ clock' = clock /\ rows' = rows /\ saved' = saved
      /\ content' = content /\ created' = created
  BY DEF NextCandidate
<1>4. AnalysisTypeOK'
  <2>0. mishaps' \in 0..MaxFaults
    BY <1>1 DEF AnalysisInv, AnalysisTypeOK, AnalysisAssumption
  <2>1. pc' \in [Runs -> {"idle", "next", "load", "stamp", "run"}]
    BY <1>1 DEF AnalysisInv, AnalysisTypeOK, Step
  <2>2. todo' \in [DailyRuns -> SUBSET [session : Sessions, calls : Nat, errors : Nat]]
    BY <1>1 DEF AnalysisInv, AnalysisTypeOK
  <2>. QED
    BY <1>3, <2>0, <2>1, <2>2 DEF AnalysisInv, AnalysisTypeOK, Here
<1>5. CASE pc' = pc /\ job' = job
  BY <1>3, <1>4, <1>5 DEF AnalysisInv, RowsInv, JobInv, DailyInv, DailyOnce, NoDailyRow
<1>6. CASE (failed \/ RowsOf(c.session) = {}) /\ Step(r, "next", "load") /\ AsksDaily(r, c.session, failed)
  <2>1. failed \/ NoDailyRow(c.session)
    BY <1>6 DEF NoDailyRow, RowsOf
  <2>. QED
    BY <1>0, <1>2, <1>3, <1>4, <1>6, <2>1, AsksFresh DEF AnalysisInv
<1>. QED
  BY <1>1, <1>5, <1>6

LEMMA EndKeeps ==
  ASSUME AnalysisAssumption, AnalysisInv, NEW r \in DailyRuns, RunEnds(r)
  PROVE  AnalysisInv'
<1>0. r \in Runs
  BY DEF Runs
<1>1. AnalysisTypeOK'
  <2>1. pc' \in [Runs -> {"idle", "next", "load", "stamp", "run"}]
    BY DEF RunEnds, AnalysisInv, AnalysisTypeOK, Step
  <2>2. todo' \in [DailyRuns -> SUBSET [session : Sessions, calls : Nat, errors : Nat]]
    BY DEF RunEnds, AnalysisInv, AnalysisTypeOK
  <2>. QED
    BY <2>1, <2>2 DEF RunEnds, AnalysisInv, AnalysisTypeOK, Here
<1>2. /\ pc'[r] = "idle" /\ (\A q \in Runs \ {r} : pc'[q] = pc[q])
      /\ job' = job /\ rows' = rows /\ saved' = saved /\ clock' = clock
  BY <1>0 DEF RunEnds, Step, AnalysisInv, AnalysisTypeOK
<1>3. JobInv(r)'
  BY <1>0, <1>2 DEF AnalysisInv, JobInv
<1>. QED
  BY <1>0, <1>1, <1>2, <1>3, RunMoves DEF AnalysisInv, AtWork

\* A run stops before it stores anything.
LEMMA GivesUpKeeps ==
  ASSUME AnalysisAssumption, AnalysisInv, NEW r \in Runs, GiveUp(r),
         clock' = clock, rows' = rows, saved' = saved, content' = content, created' = created,
         todo' = todo, mishaps' \in 0..MaxFaults
  PROVE  AnalysisInv'
<1>1. Idle \in Jobs
  BY DEF AnalysisAssumption, Idle, Jobs
<1>2. /\ pc'[r] \in {"next", "idle"} /\ (\A q \in Runs \ {r} : pc'[q] = pc[q])
      /\ job'[r] = Idle /\ (\A q \in Runs \ {r} : job'[q] = job[q])
      /\ pc' \in [Runs -> {"idle", "next", "load", "stamp", "run"}] /\ job' \in [Runs -> Jobs]
  BY <1>1 DEF GiveUp, After, AnalysisInv, AnalysisTypeOK
<1>3. AnalysisTypeOK'
  BY <1>2 DEF AnalysisInv, AnalysisTypeOK, Here
<1>4. JobInv(r)'
  <2>1. job'[r].results = {} /\ job'[r].ended = {} /\ job'[r].after = {} /\ job'[r].at = 0
    BY <1>2 DEF Idle
  <2>2. 0 <= clock'
    BY DEF AnalysisInv, AnalysisTypeOK, AnalysisAssumption
  <2>. QED
    BY <1>2, <2>1, <2>2 DEF JobInv
<1>. QED
  BY <1>2, <1>3, <1>4, RunMoves DEF AnalysisInv, AtWork

\* The steps of an analysis.
LEMMA AnalyzingKeeps ==
  ASSUME AnalysisAssumption, AnalysisInv, NEW r \in Runs,
         Load(r) \/ Stamp(r) \/ Converse(r) \/ \E m \in Registered : ModuleEnds(r, m)
  PROVE  AnalysisInv'
<1>1. /\ clock' = clock /\ rows' = rows /\ saved' = saved /\ content' = content
      /\ created' = created /\ todo' = todo /\ mishaps' \in 0..MaxFaults
  BY DEF Load, Stamp, Converse, ModuleEnds, AnalysisInv, AnalysisTypeOK, AnalysisAssumption
<1>2. CASE Load(r) /\ GiveUp(r)
  BY <1>1, <1>2, GivesUpKeeps
<1>3. ASSUME pc' \in [Runs -> {"idle", "next", "load", "stamp", "run"}],
             \A q \in Runs \ {r} : pc'[q] = pc[q], pc[r] \in AtWork,
             job' \in [Runs -> Jobs], \A q \in Runs \ {r} : job'[q] = job[q],
             job'[r].session = job[r].session, job'[r].unseen = job[r].unseen, JobInv(r)'
      PROVE  AnalysisInv'
  <2>1. AnalysisTypeOK'
    BY <1>1, <1>3 DEF AnalysisInv, AnalysisTypeOK, Here
  <2>. QED
    BY <1>1, <1>3, <2>1, RunMoves DEF AnalysisInv
<1>4. job[r] \in Jobs /\ job \in [Runs -> Jobs]
  BY DEF AnalysisInv
<1>5. CASE Load(r) /\ ~ GiveUp(r)
  <2>1. Step(r, "load", "stamp") /\ job' = [job EXCEPT ![r].after = RowsOf(job[r].session)]
    BY <1>5 DEF Load
  <2>2. RowsOf(job[r].session) \subseteq 1..saved /\ 1..saved \subseteq Nat
    BY DEF RowsOf, AnalysisInv, RowsInv
  <2>3. /\ job'[r] \in Jobs /\ job' \in [Runs -> Jobs] /\ \A q \in Runs \ {r} : job'[q] = job[q]
        /\ job'[r].after \subseteq 1..saved /\ job'[r].session = job[r].session /\ job'[r].at = job[r].at
        /\ job'[r].unseen = job[r].unseen
        /\ job'[r].results = job[r].results /\ job'[r].ended = job[r].ended
    BY <1>4, <2>1, <2>2 DEF Jobs
  <2>4. /\ pc' \in [Runs -> {"idle", "next", "load", "stamp", "run"}]
        /\ \A q \in Runs \ {r} : pc'[q] = pc[q]
        /\ pc[r] = "load" /\ pc'[r] = "stamp"
    BY <2>1 DEF Step, AnalysisInv, AnalysisTypeOK
  <2>5. JobInv(r)'
    BY <1>1, <2>3, <2>4 DEF JobInv, AnalysisInv
  <2>. QED
    BY <1>3, <2>3, <2>4, <2>5 DEF AtWork
<1>6. CASE Stamp(r)
  <2>1. Step(r, "stamp", "run") /\ job' = [job EXCEPT ![r].at = clock]
    BY <1>6 DEF Stamp
  <2>2. clock \in Nat
    BY DEF AnalysisInv, AnalysisTypeOK, AnalysisAssumption
  <2>3. /\ job'[r] \in Jobs /\ job' \in [Runs -> Jobs] /\ \A q \in Runs \ {r} : job'[q] = job[q]
        /\ job'[r].after = job[r].after /\ job'[r].session = job[r].session /\ job'[r].at = clock
        /\ job'[r].unseen = job[r].unseen
        /\ job'[r].results = job[r].results /\ job'[r].ended = job[r].ended
    BY <1>4, <2>1, <2>2 DEF Jobs
  <2>4. /\ pc' \in [Runs -> {"idle", "next", "load", "stamp", "run"}]
        /\ \A q \in Runs \ {r} : pc'[q] = pc[q]
        /\ pc[r] = "stamp" /\ pc'[r] = "run"
    BY <2>1 DEF Step, AnalysisInv, AnalysisTypeOK
  <2>5. JobInv(r)'
    BY <1>1, <2>2, <2>3, <2>4 DEF JobInv, AnalysisInv, RowsInv
  <2>. QED
    BY <1>3, <2>3, <2>4, <2>5 DEF AtWork
<1>7. CASE Converse(r) \/ \E m \in Registered : ModuleEnds(r, m)
  <2>1. pc' = pc /\ pc[r] = "run"
    BY <1>7 DEF Converse, ModuleEnds, Running
  <2>2. \/ job' = [job EXCEPT ![r].rounds = @ + 1]
        \/ \E m \in Names : job' = [job EXCEPT ![r].ended = @ \cup {m}, ![r].results = @ \cup {m}]
    BY <1>7 DEF Converse, ModuleEnds, Collect, Names, AvailableModules
  <2>3. /\ job'[r] \in Jobs /\ job' \in [Runs -> Jobs] /\ \A q \in Runs \ {r} : job'[q] = job[q]
        /\ job'[r].after = job[r].after /\ job'[r].session = job[r].session /\ job'[r].at = job[r].at
        /\ job'[r].unseen = job[r].unseen
        /\ job[r].results = job[r].ended => job'[r].results = job'[r].ended
    <3>1. CASE job' = [job EXCEPT ![r].rounds = @ + 1]
      BY <1>4, <3>1 DEF Jobs
    <3>2. ASSUME NEW m \in Names, job' = [job EXCEPT ![r].ended = @ \cup {m}, ![r].results = @ \cup {m}]
          PROVE  <2>3
      BY <1>4, <3>2 DEF Jobs
    <3>. QED
      BY <2>2, <3>1, <3>2
  <2>4. JobInv(r)'
    BY <1>1, <2>1, <2>3 DEF JobInv, AnalysisInv
  <2>. QED
    BY <1>3, <2>1, <2>3, <2>4 DEF AtWork, AnalysisInv, AnalysisTypeOK
<1>. QED
  BY <1>2, <1>5, <1>6, <1>7

\* The analysis of r is stored.
LEMMA StoringKeeps ==
  ASSUME AnalysisAssumption, AnalysisInv, NEW r \in Runs, SaveAnalysis(r)
  PROVE  AnalysisInv'
<1>1. /\ pc[r] = "run" /\ Running(r) = {} /\ GiveUp(r)
      /\ clock' = clock /\ content' = content /\ created' = created /\ todo' = todo
  BY DEF SaveAnalysis
<1>2. CASE rows' = rows /\ saved' = saved
  <2>1. mishaps' \in 0..MaxFaults
    BY <1>2 DEF SaveAnalysis, AnalysisInv, AnalysisTypeOK, AnalysisAssumption
  <2>. QED
    BY <1>1, <1>2, <2>1, GivesUpKeeps
<1>3. CASE ~ (rows' = rows /\ saved' = saved)
  <2>. DEFINE new == saved + 1
  <2>1. /\ job[r].session \in Here /\ saved' = new /\ mishaps' = mishaps
        /\ rows' = [i \in DOMAIN rows \cup {new} |-> IF i = new THEN Row(r) ELSE rows[i]]
    BY <1>3 DEF SaveAnalysis
  <2>2. /\ saved \in Nat /\ new \in Nat /\ DOMAIN rows \subseteq 1..saved /\ new \notin 1..saved
        /\ 1..new = (1..saved) \cup {new}
    BY DEF AnalysisInv, RowsInv
  <2>. HIDE DEF new
  <2>3. /\ DOMAIN rows' = DOMAIN rows \cup {new} /\ rows'[new] = Row(r) /\ new \notin DOMAIN rows
        /\ \A i \in DOMAIN rows : rows'[i] = rows[i]
    BY <2>1, <2>2
  <2>4. job[r] \in Jobs /\ JobInv(r)
    BY DEF AnalysisInv
  <2>5. /\ Row(r).session = job[r].session /\ Row(r).run = r /\ Row(r).at = job[r].at
        /\ Row(r).after = job[r].after /\ Row(r).lacks = {} /\ Row(r).unseen = job[r].unseen
    <3>1. ToRun(job[r].asked) \ job[r].results = {}
      BY <1>1, <2>4 DEF Running, JobInv
    <3>. QED
      BY <3>1 DEF Row
  <2>6. Idle \in Jobs
    BY DEF AnalysisAssumption, Idle, Jobs
  <2>7. /\ pc'[r] \in {"next", "idle"} /\ (\A q \in Runs \ {r} : pc'[q] = pc[q])
        /\ job'[r] = Idle /\ (\A q \in Runs \ {r} : job'[q] = job[q])
        /\ pc' \in [Runs -> {"idle", "next", "load", "stamp", "run"}] /\ job' \in [Runs -> Jobs]
    BY <1>1, <2>6 DEF GiveUp, After, AnalysisInv, AnalysisTypeOK
  <2>8. AnalysisTypeOK'
    <3>1. ASSUME NEW i \in DOMAIN rows' PROVE rows'[i].session \in Here /\ rows'[i].run \in Runs
      BY <2>1, <2>3, <2>5 DEF AnalysisInv, AnalysisTypeOK
    <3>. QED
      BY <1>1, <2>1, <2>2, <2>3, <2>7, <3>1 DEF AnalysisInv, AnalysisTypeOK, Here
  <2>9. RowsInv'
    <3>1. job[r].at \in Nat /\ job[r].at <= clock /\ job[r].after \subseteq 1..saved
      BY <2>4 DEF Jobs, JobInv
    <3>2. \A i \in DOMAIN rows' :
            /\ rows'[i].at \in Nat /\ rows'[i].at <= clock' /\ rows'[i].lacks = {}
            /\ rows'[i].after \subseteq 1..saved
      BY <1>1, <2>3, <2>5, <3>1 DEF AnalysisInv, RowsInv
    <3>3. ASSUME NEW i \in DOMAIN rows', NEW j \in DOMAIN rows', i \in rows'[j].after
          PROVE  rows'[i].at <= rows'[j].at
      <4>1. i \in DOMAIN rows
        BY <2>2, <2>3, <3>2, <3>3
      <4>2. CASE j = new
        BY <1>1, <2>3, <2>4, <2>5, <3>3, <4>1, <4>2 DEF JobInv
      <4>3. CASE j \in DOMAIN rows
        BY <2>3, <3>3, <4>1, <4>3 DEF AnalysisInv, RowsInv
      <4>. QED
        BY <2>3, <4>2, <4>3
    <3>. QED
      BY <2>1, <2>2, <2>3, <3>2, <3>3 DEF RowsInv
  <2>10. ASSUME NEW q \in Runs PROVE JobInv(q)'
    <3>1. CASE q = r
      <4>1. job'[r].results = {} /\ job'[r].ended = {} /\ job'[r].after = {} /\ job'[r].at = 0
        BY <2>7 DEF Idle
      <4>2. 0 <= clock'
        BY <1>1 DEF AnalysisInv, AnalysisTypeOK, AnalysisAssumption
      <4>. QED
        BY <2>7, <3>1, <4>1, <4>2 DEF JobInv
    <3>2. CASE q # r
      <4>1. JobInv(q)
        BY DEF AnalysisInv
      <4>. QED
        BY <1>1, <2>1, <2>2, <2>3, <2>7, <3>2, <4>1 DEF JobInv
    <3>. QED
      BY <3>1, <3>2
  <2>11. ASSUME OneDaily PROVE DailyInv'
    <3>0. DailyInv
      BY <2>11 DEF AnalysisInv
    <3>1. ASSUME NEW q \in DailyRuns, pc'[q] \in AtWork 
          PROVE  \/ job'[q].unseen
                 \/ \A i \in DOMAIN rows' : rows'[i].run \in DailyRuns => rows'[i].session # job'[q].session
      <4>1. q # r /\ q \in Runs
        BY <2>7, <3>1 DEF AtWork, Runs
      <4>2. r \notin DailyRuns
        BY <2>11, <4>1 DEF OneDaily
      <4>3. (job[q].unseen \/ NoDailyRow(job[q].session)) /\ job'[q] = job[q]
        BY <2>7, <3>0, <3>1, <4>1 DEF DailyInv
      <4>. QED
        BY <2>3, <2>5, <4>2, <4>3 DEF NoDailyRow
    <3>2. ASSUME NEW i \in DOMAIN rows', NEW j \in DOMAIN rows', i < j,
                 {rows'[i].run, rows'[j].run} \subseteq DailyRuns, rows'[i].session = rows'[j].session
          PROVE  rows'[j].unseen
      <4>1. r \in DailyRuns => job[r].unseen \/ NoDailyRow(job[r].session)
        BY <1>1, <3>0 DEF DailyInv, AtWork
      <4>2. CASE j \in DOMAIN rows
        <5>1. i \in DOMAIN rows
          BY <2>2, <2>3, <3>2, <4>2
        <5>. QED
          BY <2>3, <3>0, <3>2, <4>2, <5>1 DEF DailyInv, DailyOnce
      <4>3. CASE j = new
        <5>1. i \in DOMAIN rows
          BY <2>2, <2>3, <3>2, <4>3
        <5>2. rows'[i] = rows[i] /\ rows'[j] = Row(r)
          BY <2>3, <4>3, <5>1
        <5>3. rows[i].run \in DailyRuns /\ r \in DailyRuns
          BY <2>5, <3>2, <5>2
        <5>4. rows[i].session = job[r].session
          BY <2>5, <3>2, <5>2
        <5>5. ~NoDailyRow(job[r].session)
          BY <5>1, <5>3, <5>4 DEF NoDailyRow
        <5>. QED
          BY <2>5, <4>1, <5>2, <5>3, <5>5
      <4>. QED
        BY <2>3, <4>2, <4>3
    <3>. QED
      BY <3>1, <3>2 DEF DailyInv, DailyOnce, NoDailyRow, AtWork
  <2>. QED
    BY <2>7, <2>8, <2>9, <2>10, <2>11 DEF AnalysisInv
<1>. QED
  BY <1>2, <1>3

LEMMA DeleteKeeps ==
  ASSUME AnalysisAssumption, AnalysisInv, NEW s \in Sessions, DeleteSession(s)
  PROVE  AnalysisInv'
<1>1. /\ clock' = clock /\ saved' = saved /\ pc' = pc /\ job' = job /\ todo' = todo
      /\ content' = [t \in Here \ {s} |-> content[t]] /\ created' = [t \in Here \ {s} |-> created[t]]
      /\ rows' = [i \in DOMAIN rows \ RowsOf(s) |-> rows[i]]
  BY DEF DeleteSession
<1>2. mishaps' \in 0..MaxFaults
  BY DEF DeleteSession, AnalysisInv, AnalysisTypeOK, AnalysisAssumption
<1>3. /\ DOMAIN rows' = {i \in DOMAIN rows : rows[i].session # s}
      /\ \A i \in DOMAIN rows' : rows'[i] = rows[i]
      /\ DOMAIN content' = Here \ {s} /\ DOMAIN created' = Here \ {s}
      /\ \A t \in Here \ {s} : content'[t] = content[t] /\ created'[t] = created[t]
  BY <1>1 DEF RowsOf
<1>4. AnalysisTypeOK'
  BY <1>1, <1>2, <1>3 DEF AnalysisInv, AnalysisTypeOK, Here
<1>5. RowsInv' /\ \A r \in Runs : JobInv(r)'
  BY <1>1, <1>3 DEF AnalysisInv, RowsInv, JobInv
<1>6. ASSUME OneDaily PROVE DailyInv'
  BY <1>1, <1>3, <1>6 DEF AnalysisInv, DailyInv, DailyOnce, NoDailyRow
<1>. QED
  BY <1>1, <1>4, <1>5, <1>6 DEF AnalysisInv

LEMMA SessionSaveKeeps ==
  ASSUME AnalysisAssumption, AnalysisInv, NEW s \in Sessions, SaveSession(s)
  PROVE  AnalysisInv'
<1>1. /\ clock' = clock /\ saved' = saved /\ pc' = pc /\ job' = job /\ todo' = todo
      /\ rows' = rows /\ mishaps' = mishaps
  BY DEF SaveSession
<1>2. PICK msgs \in {<< >>, <<"error">>} :
        content' = [t \in Here \cup {s} |-> IF t = s THEN msgs ELSE content[t]]
  BY DEF SaveSession
<1>3. msgs \in Seq(Messages)
  <2>1. "error" \in Messages
    BY DEF Messages
  <2>2. << >> \in Seq(Messages)
    OBVIOUS
  <2>3. <<"error">> \in Seq(Messages)
    BY <2>1
  <2>. QED
    BY <2>2, <2>3
<1>4. AnalysisTypeOK'
  <2>1. Here' = Here \cup {s}
    BY <1>2 DEF Here
  <2>2. ASSUME NEW t \in Here' PROVE content'[t] \in Seq(Messages)
    <3>1. content'[t] = IF t = s THEN msgs ELSE content[t]
      BY <1>2, <2>1
    <3>. QED
      BY <1>3, <2>1, <3>1 DEF AnalysisInv, AnalysisTypeOK
  <2>3. DOMAIN created' = Here \cup {s} /\ \A t \in Here \cup {s} : created'[t] \in 0..MaxTime
    BY DEF SaveSession, AnalysisInv, AnalysisTypeOK
  <2>. QED
    BY <1>1, <2>1, <2>2, <2>3 DEF AnalysisInv, AnalysisTypeOK
<1>. QED
  BY <1>1, <1>4 DEF AnalysisInv, RowsInv, JobInv, DailyInv, DailyOnce, NoDailyRow

LEMMA TimeKeeps == ASSUME AnalysisAssumption, AnalysisInv, PassTime PROVE AnalysisInv'
<1>1. /\ clock' = clock + 1 /\ clock' \in 0..MaxTime /\ content' = content /\ created' = created
      /\ rows' = rows /\ saved' = saved /\ pc' = pc /\ job' = job /\ todo' = todo /\ mishaps' = mishaps
  BY DEF PassTime, AnalysisInv, AnalysisTypeOK, AnalysisAssumption
<1>2. AnalysisTypeOK'
  BY <1>1 DEF AnalysisInv, AnalysisTypeOK, Here
<1>3. \A n \in Nat : n <= clock => n <= clock'
  BY <1>1 DEF AnalysisInv, AnalysisTypeOK, AnalysisAssumption
<1>4. RowsInv'
  BY <1>1, <1>3 DEF AnalysisInv, RowsInv
<1>5. ASSUME NEW r \in Runs PROVE JobInv(r)'
  <2>1. job[r].at \in Nat
    BY DEF AnalysisInv, Jobs
  <2>. QED
    BY <1>1, <1>3, <2>1 DEF AnalysisInv, JobInv
<1>6. ASSUME OneDaily PROVE DailyInv'
  BY <1>1, <1>6 DEF AnalysisInv, DailyInv, DailyOnce, NoDailyRow
<1>. QED
  BY <1>1, <1>2, <1>4, <1>5, <1>6 DEF AnalysisInv

LEMMA AnalysisStep ==
  ASSUME AnalysisAssumption, AnalysisInv, [AnalysisNext]_analysisVars
  PROVE  AnalysisInv'
<1>1. CASE UNCHANGED analysisVars
  BY <1>1 DEF analysisVars, AnalysisInv, AnalysisTypeOK, Here, RowsInv, JobInv, DailyInv, DailyOnce, NoDailyRow
<1>2. CASE PassTime \/ \E s \in Sessions : DeleteSession(s) \/ SaveSession(s)
  BY <1>2, TimeKeeps, DeleteKeeps, SessionSaveKeeps
<1>3. CASE \E r \in Runs : Cardinality(DOMAIN rows) < MaxRows /\ Analyze(r)
  BY <1>3, AnalyzingKeeps, StoringKeeps DEF Analyze
<1>4. CASE \/ \E r \in PageRuns : HandleRunAnalysis(r)
           \/ \E r \in CommandRuns : RunAnalyze(r)
           \/ \E r \in CaptureRuns, s \in Sessions : PostCapture(r, s)
  BY <1>4, AskingKeeps
<1>5. CASE \E r \in DailyRuns : ListCandidates(r) \/ NextCandidate(r) \/ RunEnds(r)
  BY <1>5, ListKeeps, NextKeeps, EndKeeps
<1>. QED
  BY <1>1, <1>2, <1>3, <1>4, <1>5 DEF AnalysisNext

\* The two ways to count agree for all counts.
LEMMA GatesMeet == AnalysisAssumption /\ AnalysisInv => GatesAgree
<1>. SUFFICES ASSUME AnalysisAssumption, AnalysisInv, NEW s \in Here, CallsOf(content[s]) > 0
              PROVE  ShouldAutoAnalyze(content[s])
                       <=> PassesThresholds([calls |-> CallsOf(content[s]), errors |-> ErrorsOf(content[s])])
  BY DEF GatesAgree
<1>. DEFINE calls == CallsOf(content[s])
            errors == ErrorsOf(content[s])
<1>1. content[s] \in Seq(Messages)
  BY DEF AnalysisInv, AnalysisTypeOK
<1>2. calls \in Nat /\ errors \in Nat /\ calls > 0
  BY <1>1, CountsOf
<1>3. content[s] # << >>
  <2>1. ASSUME content[s] = << >> PROVE calls = 0
    <3>1. {i \in DOMAIN content[s] : content[s][i] # "text"} = {}
      BY <2>1
    <3>. QED
      BY <3>1, FS_EmptySet DEF CallsOf
  <2>. QED
    BY <1>2, <2>1
<1>4. /\ PassesThresholds([calls |-> calls, errors |-> errors]) <=>
           /\ MinToolCalls > 0 => calls >= MinToolCalls
           /\ ErrorThreshold > 0 /\ calls > 0 => errors * 100 >= ErrorThreshold * calls
      /\ ShouldAutoAnalyze(content[s]) <=>
           calls >= MinToolCalls /\ errors * 100 >= ErrorThreshold * calls
  BY <1>2, <1>3 DEF PassesThresholds, ShouldAutoAnalyze
<1>. HIDE DEF calls, errors
<1>5. ErrorThreshold = 0 => errors * 100 >= ErrorThreshold * calls
  BY <1>2
<1>6. MinToolCalls \in Nat /\ ErrorThreshold \in Nat
  BY DEF AnalysisAssumption
<1>. QED
  BY <1>2, <1>4, <1>5, <1>6 DEF calls, errors

\* Whoever asks for analyses, and at the same time: the stored ones are of sessions that
\* are there and have numbers of their own, and a daily run's candidates are counted.
THEOREM AnalysesTypeCorrect ==
  AnalysisAssumption /\ AnalysisSpec => []AnalysisTypeOK
<1>. SUFFICES ASSUME AnalysisAssumption PROVE AnalysisSpec => []AnalysisTypeOK
  OBVIOUS
<1>1. AnalysisInit => AnalysisInv
  BY AnalysisStart
<1>2. AnalysisInv /\ [AnalysisNext]_analysisVars => AnalysisInv'
  BY AnalysisStep
<1>3. AnalysisInv => AnalysisTypeOK
  BY DEF AnalysisInv
<1>. QED
  BY <1>1, <1>2, <1>3, PTL DEF AnalysisSpec

\* However many users and captures ask for analyses while the daily task makes its own:
\* the daily task stores one per session, unless its look for an earlier one failed; the
\* one that is shown is the last, and never
\* one that had been stored when another stored one began; every row has the results of
\* all that was to be run; and the two gates agree on sessions with tool calls.
THEOREM AnalysesAreRight ==
  ASSUME AnalysisAssumption, OneDaily
  PROVE  AnalysisSpec => []AnalysesRight
<1>1. AnalysisInit => AnalysisInv
  BY AnalysisStart
<1>2. AnalysisInv /\ [AnalysisNext]_analysisVars => AnalysisInv'
  BY AnalysisStep
<1>3. AnalysisInv => AnalysesRight
  <2>. SUFFICES ASSUME AnalysisInv PROVE AnalysesRight
    OBVIOUS
  <2>1. DailyOnce /\ RowsAreWhole
    BY DEF AnalysisInv, DailyInv, RowsInv, RowsAreWhole
  <2>2. LatestShown
    <3>1. ASSUME NEW s \in Here, NEW i \in GetAnalysisBySession(s), NEW j \in RowsOf(s), i \in rows[j].after
          PROVE  rows[i].at = rows[j].at
      <4>1. /\ i \in DOMAIN rows /\ j \in DOMAIN rows /\ rows[i].at >= rows[j].at
            /\ rows[i].at \in Nat /\ rows[j].at \in Nat
        BY DEF GetAnalysisBySession, RowsOf, AnalysisInv, RowsInv
      <4>2. rows[i].at <= rows[j].at
        BY <3>1, <4>1 DEF AnalysisInv, RowsInv
      <4>. QED
        BY <4>1, <4>2
    <3>. QED
      BY <3>1 DEF LatestShown
  <2>. QED
    BY <2>1, <2>2, GatesMeet DEF AnalysesRight
<1>. QED
  BY <1>1, <1>2, <1>3, PTL DEF AnalysisSpec

-----------------------------------------------------------------------------
(* A process and the server.  AnswerIsTrue is about the whole past; what   *)
(* keeps it true is where a request and its answer can be: TruthInv says   *)
(* of each request on its way and of everything done that it has one       *)
(* number, and of each number whether somebody still waits for it.         *)

IsSeq(s) == s \in Seq({s[i] : i \in DOMAIN s})

\* The number of the operation the process is at, and the ones done with number n.
This == Len(told) + 1

DoneAs(list, n) == {j \in DOMAIN list : list[j].nr = n}

Handles(h) ==
  /\ h.ok \in 0..399
  /\ \A status \in h.fixed : status \in Nat /\ status >= 400

WaitInv ==
  /\ begun \in Nat
  /\ begun = 0 => ahead = << >> /\ waiting = {} /\ arrived = {} /\ done = << >>
  /\ \A r \in waiting : waiting = {r} /\ r.nr = This /\ ahead # << >> /\ Front!Remote(Head(ahead))
  /\ \A r \in arrived \cup waiting : Handles(r.handler)

\* A request on its way is the one waited for, or nobody will ever ask for it.
OnItsWay(r) ==
  /\ \/ r.nr = This /\ r \in waiting
     \/ r.nr \in DOMAIN told /\ told[r.nr] = "no answer"
  /\ DoneAs(done, r.nr) = {}
  /\ \A q \in arrived : q.nr = r.nr => q = r

\* What was done was done once; either the process has been told, or has given up, or
\* still waits.
DoneOnce(i) ==
  /\ \/ done[i].nr = This /\ waiting # {}
     \/ done[i].nr \in DOMAIN told /\ told[done[i].nr] \in {"ok", "no answer"}
  /\ DoneAs(done, done[i].nr) = {i}

HistoryInv ==
  /\ told \in Seq(Front!Answers) /\ IsSeq(done)
  /\ \A i \in DOMAIN done : DoneOnce(i)
  /\ \A n \in DOMAIN told : told[n] = "ok" => DoneAs(done, n) # {}

TruthInv == WaitInv /\ HistoryInv /\ \A r \in arrived : OnItsWay(r)

\* A command or a tool does its part on the sessions it was given, at home or at the
\* server; a program has one call of the server to make.
OwnWay(way) == way \in Seq(Front!Steps) /\ \A i \in DOMAIN way : way[i].port # "client"

ClientWay(way) == way # << >> => Head(way).port = "client" /\ Tail(way) = << >>

OwnSide ==
  /\ OwnWay(ahead)
  /\ \A i \in DOMAIN done : done[i].port = "session" =>
       \/ svc = "local" /\ done[i].place = "local"
       \/ svc = "remote" /\ done[i].place = "server"
  /\ \A r \in arrived : svc = "remote"

AtServer ==
  /\ begun = MaxCalls /\ ClientWay(ahead)
  /\ \A i \in DOMAIN done : done[i].place = "server"

FrontInv == TruthInv /\ (OwnSide \/ AtServer)

\* A sequence over any set is one over its own elements.
LEMMA OwnElements ==
  ASSUME NEW S, NEW s \in Seq(S)
  PROVE  IsSeq(s)
<1>. DEFINE R == {s[i] : i \in DOMAIN s}
<1>1. Len(s) \in Nat /\ s \in [1..Len(s) -> S] /\ DOMAIN s = 1..Len(s)
  BY LenProperties
<1>2. s \in [1..Len(s) -> R]
  BY <1>1
<1>. HIDE DEF R
<1>3. s \in Seq(R)
  BY <1>1, <1>2
<1>. QED
  BY <1>3 DEF IsSeq, R

\* What appending does to a sequence of anything, as "done" is.
LEMMA Appended ==
  ASSUME NEW s, IsSeq(s), NEW e
  PROVE  /\ Len(s) \in Nat /\ DOMAIN s = 1..Len(s)
         /\ IsSeq(Append(s, e)) /\ Len(Append(s, e)) = Len(s) + 1
         /\ DOMAIN Append(s, e) = 1..(Len(s) + 1)
         /\ Append(s, e)[Len(s) + 1] = e
         /\ \A i \in 1..Len(s) : Append(s, e)[i] = s[i]
<1>. DEFINE R == {s[i] : i \in DOMAIN s}
            S == R \cup {e}
            t == Append(s, e)
<1>1. s \in Seq(R) /\ R \subseteq S /\ e \in S
  BY DEF IsSeq
<1>. HIDE DEF R, S
<1>2. s \in Seq(S)
  BY <1>1
<1>3. /\ t \in Seq(S) /\ Len(t) = Len(s) + 1
      /\ t[Len(s) + 1] = e /\ \A i \in 1..Len(s) : t[i] = s[i]
  BY <1>1, <1>2, AppendProperties
<1>4. Len(s) \in Nat /\ DOMAIN s = 1..Len(s) /\ DOMAIN t = 1..Len(t) /\ IsSeq(t)
  BY <1>2, <1>3, LenProperties, OwnElements
<1>. QED
  BY <1>3, <1>4

\* One more operation is told of, and the numbers move on by one.
LEMMA OneMoreTold ==
  ASSUME told \in Seq(Front!Answers), NEW a \in Front!Answers, told' = Append(told, a)
  PROVE  /\ told' \in Seq(Front!Answers)
         /\ This \notin DOMAIN told /\ This' \notin DOMAIN told' /\ This' # This
         /\ DOMAIN told' = DOMAIN told \cup {This} /\ This' \notin DOMAIN told
         /\ told'[This] = a /\ \A n \in DOMAIN told : told'[n] = told[n]
<1>1. /\ told' \in Seq(Front!Answers) /\ Len(told') = Len(told) + 1
      /\ told'[Len(told) + 1] = a /\ \A n \in 1..Len(told) : told'[n] = told[n]
  BY AppendProperties
<1>2. Len(told) \in Nat /\ DOMAIN told = 1..Len(told) /\ DOMAIN told' = 1..Len(told')
  BY <1>1, LenProperties
<1>3. 1..(Len(told) + 1) = 1..Len(told) \cup {Len(told) + 1}
  BY <1>2
<1>. QED
  BY <1>1, <1>2, <1>3 DEF This

\* Nobody has done the operation at hand, or will.
Untouched == DoneAs(done, This) = {} /\ \A r \in arrived' : r.nr # This

\* The operation at hand ends without success.
LEMMA EndsUndone ==
  ASSUME TruthInv, NEW a \in {"failed", "refused", "no answer"},
         told' = Append(told, a), waiting' = {}, arrived' \in SUBSET arrived, begun # 0,
         begun' = begun, done' = done, a = "no answer" \/ Untouched
  PROVE  TruthInv'
<1>1. /\ told' \in Seq(Front!Answers)
      /\ This \notin DOMAIN told /\ This' \notin DOMAIN told'
      /\ DOMAIN told' = DOMAIN told \cup {This}
      /\ told'[This] = a /\ \A n \in DOMAIN told : told'[n] = told[n]
  BY OneMoreTold DEF TruthInv, HistoryInv, Front!Answers
<1>2. WaitInv'
  BY DEF TruthInv, WaitInv
<1>3. ASSUME NEW q \in arrived' PROVE OnItsWay(q)'
  BY <1>1 DEF TruthInv, OnItsWay, Untouched
<1>4. ASSUME NEW i \in DOMAIN done' PROVE DoneOnce(i)'
  BY <1>1 DEF TruthInv, HistoryInv, DoneOnce, Untouched
<1>5. ASSUME NEW n \in DOMAIN told', told'[n] = "ok" PROVE DoneAs(done', n) # {}
  BY <1>1, <1>5 DEF TruthInv, HistoryInv
<1>. QED
  BY <1>1, <1>2, <1>3, <1>4, <1>5 DEF TruthInv, HistoryInv, IsSeq

\* What is done is entered once.
LEMMA DoneEntered ==
  ASSUME IsSeq(done), NEW d, done' = Append(done, d)
  PROVE  \E new :
           /\ new \notin DOMAIN done /\ DOMAIN done' = DOMAIN done \cup {new} /\ IsSeq(done')
           /\ done'[new] = d /\ \A i \in DOMAIN done : done'[i] = done[i]
           /\ DoneAs(done', d.nr) = DoneAs(done, d.nr) \cup {new}
           /\ \A n : n # d.nr => DoneAs(done', n) = DoneAs(done, n)
<1>. DEFINE new == Len(done) + 1
<1>1. /\ Len(done) \in Nat /\ DOMAIN done = 1..Len(done) /\ IsSeq(done')
      /\ DOMAIN done' = 1..(Len(done) + 1)
      /\ done'[new] = d /\ \A i \in 1..Len(done) : done'[i] = done[i]
  BY Appended
<1>2. new \notin DOMAIN done /\ DOMAIN done' = DOMAIN done \cup {new}
  BY <1>1
<1>. HIDE DEF new
<1>. QED
  BY <1>1, <1>2 DEF DoneAs

\* The operation at hand is done, and the process told so.
LEMMA EndsDone ==
  ASSUME TruthInv, NEW d, d.nr = This, done' = Append(done, d), Untouched,
         told' = Append(told, "ok"), waiting' = {}, arrived' \in SUBSET arrived,
         begun # 0, begun' = begun
  PROVE  TruthInv'
<1>1. /\ told' \in Seq(Front!Answers)
      /\ This \notin DOMAIN told /\ This' \notin DOMAIN told'
      /\ DOMAIN told' = DOMAIN told \cup {This}
      /\ told'[This] = "ok" /\ \A n \in DOMAIN told : told'[n] = told[n]
  BY OneMoreTold DEF TruthInv, HistoryInv, Front!Answers
<1>2. PICK new : /\ new \notin DOMAIN done /\ DOMAIN done' = DOMAIN done \cup {new} /\ IsSeq(done')
                 /\ done'[new] = d /\ \A i \in DOMAIN done : done'[i] = done[i]
                 /\ DoneAs(done', This) = DoneAs(done, This) \cup {new}
                 /\ \A n : n # This => DoneAs(done', n) = DoneAs(done, n)
  BY DoneEntered DEF TruthInv, HistoryInv
<1>3. WaitInv'
  BY DEF TruthInv, WaitInv
<1>4. ASSUME NEW q \in arrived' PROVE OnItsWay(q)'
  BY <1>1, <1>2 DEF TruthInv, OnItsWay, Untouched
<1>5. ASSUME NEW i \in DOMAIN done' PROVE DoneOnce(i)'
  <2>1. CASE i = new
    BY <1>1, <1>2, <2>1 DEF DoneOnce, Untouched
  <2>2. CASE i \in DOMAIN done
    <3>1. DoneOnce(i) /\ done'[i] = done[i]
      BY <1>2, <2>2 DEF TruthInv, HistoryInv
    <3>2. done[i].nr # This
      BY <2>2, <3>1 DEF DoneOnce, Untouched
    <3>. QED
      BY <1>1, <1>2, <3>1, <3>2 DEF DoneOnce
  <2>. QED
    BY <1>2, <2>1, <2>2
<1>6. ASSUME NEW n \in DOMAIN told', told'[n] = "ok" PROVE DoneAs(done', n) # {}
  BY <1>1, <1>2, <1>6 DEF TruthInv, HistoryInv
<1>. QED
  BY <1>1, <1>2, <1>3, <1>4, <1>5, <1>6 DEF TruthInv, HistoryInv

\* A request is done, and nobody learns of it.
LEMMA DoneUnseen ==
  ASSUME TruthInv, NEW r \in arrived, NEW d, d.nr = r.nr, done' = Append(done, d),
         arrived' = arrived \ {r}, begun # 0, begun' = begun, ahead' = ahead, svc' = svc,
         told' = told, waiting' = waiting
  PROVE  TruthInv'
<1>1. PICK new : /\ new \notin DOMAIN done /\ DOMAIN done' = DOMAIN done \cup {new} /\ IsSeq(done')
                 /\ done'[new] = d /\ \A i \in DOMAIN done : done'[i] = done[i]
                 /\ DoneAs(done', r.nr) = DoneAs(done, r.nr) \cup {new}
                 /\ \A n : n # r.nr => DoneAs(done', n) = DoneAs(done, n)
  BY DoneEntered DEF TruthInv, HistoryInv
<1>2. OnItsWay(r) /\ This' = This
  BY DEF TruthInv, This
<1>3. WaitInv'
  BY <1>2 DEF TruthInv, WaitInv, Front!Remote
<1>4. ASSUME NEW q \in arrived' PROVE OnItsWay(q)'
  BY <1>1, <1>2 DEF TruthInv, OnItsWay
<1>5. ASSUME NEW i \in DOMAIN done' PROVE DoneOnce(i)'
  <2>1. CASE i = new
    BY <1>1, <1>2, <2>1 DEF DoneOnce, OnItsWay
  <2>2. CASE i \in DOMAIN done
    <3>1. DoneOnce(i) /\ done'[i] = done[i]
      BY <1>1, <2>2 DEF TruthInv, HistoryInv
    <3>2. done[i].nr # r.nr
      BY <1>2, <2>2, <3>1 DEF DoneOnce, OnItsWay
    <3>. QED
      BY <1>1, <1>2, <3>1, <3>2 DEF DoneOnce
  <2>. QED
    BY <1>1, <2>1, <2>2
<1>6. ASSUME NEW n \in DOMAIN told, told[n] = "ok" PROVE DoneAs(done', n) # {}
  BY <1>1, <1>6 DEF TruthInv, HistoryInv
<1>. QED
  BY <1>1, <1>3, <1>4, <1>5, <1>6 DEF TruthInv, HistoryInv


\* Every call of the client leads to a handler with statuses of its own.
LEMMA CallsHandle ==
  ASSUME Front!FrontAssumption, NEW step, NEW call \in Front!CallOf(step)
  PROVE  Handles(call.handler)
BY DEF Front!FrontAssumption, Front!CallOf, Handles

LEMMA ErrorsAreErrors ==
  ASSUME NEW h, Handles(h), NEW error
  PROVE  Front!ErrorStatus(h, error) \in Nat /\ Front!ErrorStatus(h, error) >= 400
BY DEF Front!ErrorStatus, Front!mapServiceError, Handles

LEMMA RefusalsAreErrors ==
  ASSUME NEW r, NEW m, NEW s \in Front!RefusedWith(r, m)
  PROVE  s \in Nat /\ s >= 400
BY DEF Front!RefusedWith, Front!Refusals, Front!Unavailable

\* Who waits for a request is told "ok" for a status below 400 only.
LEMMA AnswerTells ==
  ASSUME NEW r \in waiting, NEW s \in Nat, Front!Answer(r, s)
  PROVE  /\ waiting' = {}
         /\ s < 400 => told' = Append(told, "ok")
         /\ s >= 400 => \E a \in {"failed", "refused"} : told' = Append(told, a)
BY DEF Front!Answer, Front!Over, Front!Told, Front!readResponse

\* What is on its way and waited for has not been done and is on its way once.
LEMMA WaitedUntouched ==
  ASSUME TruthInv, NEW r \in arrived, r \in waiting, arrived' = arrived \ {r}
  PROVE  Untouched /\ r.nr = This /\ begun # 0
<1>1. r.nr = This /\ OnItsWay(r) /\ begun # 0
  BY DEF TruthInv, WaitInv
<1>. QED
  BY <1>1 DEF OnItsWay, Untouched

\* As long as nobody waits, nothing was done for the operation at hand or will be.
LEMMA UnwaitedUntouched ==
  ASSUME TruthInv, waiting = {}
  PROVE  /\ This \notin DOMAIN told /\ DoneAs(done, This) = {}
         /\ \A r \in arrived : r.nr # This
<1>1. This \notin DOMAIN told
  BY LenProperties DEF TruthInv, HistoryInv, This
<1>2. \A r \in arrived : r.nr # This
  BY <1>1 DEF TruthInv, OnItsWay
<1>3. \A i \in DOMAIN done : done[i].nr # This
  BY <1>1 DEF TruthInv, HistoryInv, DoneOnce
<1>. QED
  BY <1>1, <1>2, <1>3 DEF DoneAs

LEMMA TruthStart == Front!FrontInit => TruthInv
<1>. SUFFICES ASSUME Front!FrontInit PROVE TruthInv
  OBVIOUS
<1>1. << >> \in Seq(Front!Answers) /\ IsSeq(<< >>)
  BY OwnElements, EmptySeq
<1>. QED
  BY <1>1 DEF Front!FrontInit, TruthInv, WaitInv, HistoryInv

\* Requests may be lost, and nothing else happens to them.
LEMMA HistoryStays ==
  ASSUME TruthInv, waiting' = waiting, arrived' \in SUBSET arrived, told' = told, done' = done
  PROVE  HistoryInv' /\ This' = This /\ \A q \in arrived' : OnItsWay(q)'
<1>1. This' = This
  BY DEF This
<1>2. ASSUME NEW q \in arrived' PROVE OnItsWay(q)'
  <2>1. q \in arrived /\ OnItsWay(q)
    BY DEF TruthInv
  <2>. QED
    BY <1>1, <2>1 DEF OnItsWay
<1>3. ASSUME NEW i \in DOMAIN done' PROVE DoneOnce(i)'
  <2>1. DoneOnce(i)
    BY DEF TruthInv, HistoryInv
  <2>. QED
    BY <1>1, <2>1 DEF DoneOnce
<1>4. IsSeq(done)' /\ \A n \in DOMAIN told' : told'[n] = "ok" => DoneAs(done', n) # {}
  BY DEF TruthInv, HistoryInv
<1>. QED
  BY <1>1, <1>2, <1>3, <1>4 DEF TruthInv, HistoryInv

\* A way begins while nobody waits.
LEMMA OnlyBegins ==
  ASSUME TruthInv, begun' \in Nat, begun' # 0, waiting = {}, waiting' = waiting,
         arrived' = arrived, told' = told, done' = done
  PROVE  TruthInv'
<1>1. WaitInv'
  BY DEF TruthInv, WaitInv
<1>. QED
  BY <1>1, HistoryStays DEF TruthInv

\* The server stops or starts, a service is chosen, or an answer comes too late.
LEMMA OnlyLoses ==
  ASSUME TruthInv, begun' = begun, ahead' = ahead, waiting' = waiting, arrived' \in SUBSET arrived,
         told' = told, done' = done, Front!Remote(Head(ahead)) => Front!Remote(Head(ahead))'
  PROVE  TruthInv'
<1>1. WaitInv'
  BY HistoryStays DEF TruthInv, WaitInv
<1>. QED
  BY <1>1, HistoryStays DEF TruthInv

\* The steps of the process keep the truth.
LEMMA LocallyKeeps ==
  ASSUME TruthInv, NEW ok \in BOOLEAN, Front!Locally(ok)
  PROVE  TruthInv'
<1>1. waiting = {} /\ begun # 0 /\ arrived' = arrived /\ waiting' = waiting /\ begun' = begun
  BY DEF TruthInv, WaitInv, Front!Locally
<1>2. Untouched
  BY <1>1, UnwaitedUntouched DEF Untouched
<1>3. CASE ok
  <2>. DEFINE d == Front!Done("local", Head(ahead), Head(ahead).op, flags \cap Head(ahead).opts)
  <2>1. done' = Append(done, d) /\ told' = Append(told, "ok") /\ d.nr = This
    BY <1>3 DEF Front!Locally, Front!Over, Front!Told, Front!Done, This
  <2>. HIDE DEF d
  <2>. QED
    BY <1>1, <1>2, <2>1, EndsDone
<1>4. CASE ~ ok
  <2>1. done' = done /\ told' = Append(told, "failed")
    BY <1>4 DEF Front!Locally, Front!Over, Front!Told
  <2>. QED
    BY <1>1, <1>2, <2>1, EndsUndone
<1>. QED
  BY <1>3, <1>4

LEMMA RefuseHereKeeps == TruthInv /\ Front!RefuseHere => TruthInv'
<1>. SUFFICES ASSUME TruthInv, Front!RefuseHere PROVE TruthInv'
  OBVIOUS
<1>1. /\ waiting = {} /\ begun # 0 /\ arrived' = arrived /\ waiting' = waiting
      /\ begun' = begun /\ done' = done /\ told' = Append(told, "refused")
  BY DEF TruthInv, WaitInv, Front!RefuseHere, Front!Over, Front!Told
<1>. QED
  BY <1>1, UnwaitedUntouched, EndsUndone DEF Untouched

LEMMA GiveUpKeeps == TruthInv /\ Front!GiveUp => TruthInv'
<1>. SUFFICES ASSUME TruthInv, Front!GiveUp PROVE TruthInv'
  OBVIOUS
<1>1. /\ begun # 0 /\ arrived' = arrived /\ waiting' = {}
      /\ begun' = begun /\ done' = done /\ told' = Append(told, "no answer")
  BY DEF TruthInv, WaitInv, Front!GiveUp, Front!Over, Front!Told
<1>. QED
  BY <1>1, EndsUndone

LEMMA SendKeeps == Front!FrontAssumption /\ TruthInv /\ Front!Send => TruthInv'
<1>. SUFFICES ASSUME Front!FrontAssumption, TruthInv, Front!Send PROVE TruthInv'
  OBVIOUS
<1>1. PICK call \in Front!CallOf(Head(ahead)) :
        LET sent == Front!Request(Head(ahead), call, Front!Leaves(Head(ahead), call)) IN
        waiting' = {sent} /\ arrived' \in {arrived, arrived \cup {sent}}
  BY DEF Front!Send
<1>. DEFINE sent == Front!Request(Head(ahead), call, Front!Leaves(Head(ahead), call))
<1>2. /\ ahead # << >> /\ Front!Remote(Head(ahead)) /\ waiting = {} /\ begun # 0
      /\ begun' = begun /\ ahead' = ahead /\ svc' = svc /\ done' = done /\ told' = told
  BY DEF Front!Send, TruthInv, WaitInv
<1>3. sent.nr = This /\ Handles(sent.handler)
  BY <1>1, CallsHandle DEF Front!Request, This
<1>4. waiting' = {sent} /\ arrived' \in {arrived, arrived \cup {sent}}
  BY <1>1
<1>. HIDE DEF sent
<1>5. Front!Remote(Head(ahead))' /\ This' = This
  BY <1>2 DEF Front!Remote, This
<1>6. /\ This \notin DOMAIN told /\ DoneAs(done, This) = {}
      /\ \A r \in arrived : r.nr # This
  BY <1>2, UnwaitedUntouched
<1>7. WaitInv'
  BY <1>4, <1>2, <1>3, <1>5 DEF TruthInv, WaitInv
<1>8. ASSUME NEW q \in arrived' PROVE OnItsWay(q)'
  <2>1. CASE q = sent
    BY <1>4, <1>2, <1>3, <1>5, <1>6, <2>1 DEF OnItsWay
  <2>2. CASE q \in arrived
    <3>1. OnItsWay(q)
      BY <2>2 DEF TruthInv
    <3>. QED
      BY <1>4, <1>2, <1>3, <1>6, <2>2, <3>1 DEF OnItsWay
  <2>. QED
    BY <1>4, <2>1, <2>2
<1>9. ASSUME NEW i \in DOMAIN done' PROVE DoneOnce(i)'
  <2>1. DoneOnce(i) /\ This' = This
    BY <1>2, <1>5 DEF TruthInv, HistoryInv
  <2>. QED
    BY <1>4, <1>2, <2>1 DEF DoneOnce
<1>10. IsSeq(done)' /\ \A n \in DOMAIN told' : told'[n] = "ok" => DoneAs(done', n) # {}
  BY <1>2 DEF TruthInv, HistoryInv
<1>. QED
  BY <1>2, <1>7, <1>8, <1>9, <1>10 DEF TruthInv, HistoryInv

\* The steps of the server keep the truth.
LEMMA RefuseKeeps == ASSUME TruthInv, NEW r \in arrived, Front!Refuse(r) PROVE TruthInv'
<1>1. /\ arrived' = arrived \ {r} /\ begun' = begun /\ done' = done /\ svc' = svc
      /\ \E s \in Nat : s >= 400 /\ Front!Answer(r, s)
  BY RefusalsAreErrors DEF Front!Refuse
<1>2. CASE r \in waiting
  BY <1>1, <1>2, AnswerTells, WaitedUntouched, EndsUndone
<1>3. CASE r \notin waiting
  <2>1. ahead' = ahead /\ told' = told /\ waiting' = waiting
    BY <1>1, <1>3 DEF Front!Answer
  <2>. QED
    BY <1>1, <2>1, OnlyLoses DEF Front!Remote
<1>. QED
  BY <1>2, <1>3

LEMMA FailKeeps ==
  ASSUME TruthInv, NEW r \in arrived, NEW error, Front!Fail(r, error)
  PROVE  TruthInv'
<1>1. Handles(r.handler)
  BY DEF TruthInv, WaitInv
<1>2. /\ arrived' = arrived \ {r} /\ begun' = begun /\ done' = done /\ svc' = svc
      /\ \E s \in Nat : s >= 400 /\ Front!Answer(r, s)
  BY <1>1, ErrorsAreErrors DEF Front!Fail
<1>3. CASE r \in waiting
  BY <1>2, <1>3, AnswerTells, WaitedUntouched, EndsUndone
<1>4. CASE r \notin waiting
  <2>1. ahead' = ahead /\ told' = told /\ waiting' = waiting
    BY <1>2, <1>4 DEF Front!Answer
  <2>. QED
    BY <1>2, <2>1, OnlyLoses DEF Front!Remote
<1>. QED
  BY <1>3, <1>4

LEMMA ServeKeeps == ASSUME TruthInv, NEW r \in arrived, Front!Serve(r) PROVE TruthInv'
<1>1. PICK d : d.nr = r.nr /\ done' = Append(done, d)
  BY DEF Front!Serve
<1>2. /\ arrived' = arrived \ {r} /\ begun' = begun /\ svc' = svc
      /\ Front!Answer(r, r.handler.ok) \/ (ahead' = ahead /\ told' = told /\ waiting' = waiting)
  BY DEF Front!Serve
<1>0. Handles(r.handler)
  BY DEF TruthInv, WaitInv
<1>3. r.handler.ok \in Nat /\ r.handler.ok < 400
  BY <1>0 DEF Handles
<1>4. CASE r \in waiting /\ Front!Answer(r, r.handler.ok)
  <2>1. told' = Append(told, "ok") /\ waiting' = {}
    BY <1>3, <1>4, AnswerTells
  <2>. QED
    BY <1>1, <1>2, <1>4, <2>1, WaitedUntouched, EndsDone
<1>5. CASE ahead' = ahead /\ told' = told /\ waiting' = waiting
  <2>1. begun # 0
    BY DEF TruthInv, WaitInv
  <2>. QED
    BY <1>1, <1>2, <1>5, <2>1, DoneUnseen
<1>. QED
  BY <1>2, <1>4, <1>5 DEF Front!Answer

LEMMA TruthStep ==
  Front!FrontAssumption /\ TruthInv /\ [Front!FrontNext]_(Front!frontVars) => TruthInv'
<1>. SUFFICES ASSUME Front!FrontAssumption, TruthInv, [Front!FrontNext]_(Front!frontVars)
              PROVE  TruthInv'
  OBVIOUS
<1>1. ASSUME Front!Run \/ Front!CallTool PROVE TruthInv'
  <2>1. /\ begun' \in Nat /\ begun' # 0 /\ waiting = {} /\ waiting' = waiting
        /\ arrived' = arrived /\ told' = told /\ done' = done
    BY <1>1 DEF Front!Run, Front!CallTool, Front!Begin, Front!FrontAssumption, TruthInv, WaitInv
  <2>. QED
    BY <2>1, OnlyBegins
<1>2. ASSUME Front!SessionService \/ Front!Stop \/ Front!StartServer \/ UNCHANGED Front!frontVars
      PROVE  TruthInv'
  <2>1. /\ begun' = begun /\ ahead' = ahead /\ waiting' = waiting /\ arrived' \in SUBSET arrived
        /\ told' = told /\ done' = done
    BY <1>2 DEF Front!SessionService, Front!Stop, Front!StartServer, Front!frontVars
  <2>2. Front!Remote(Head(ahead)) => Front!Remote(Head(ahead))'
    BY <1>2, <2>1 DEF Front!SessionService, Front!Stop, Front!StartServer, Front!frontVars, Front!Remote
  <2>. QED
    BY <2>1, <2>2, OnlyLoses
<1>3. ASSUME NEW r \in arrived,
             Front!Refuse(r) \/ Front!Serve(r)
               \/ \E error \in {"session not found", "secret", "other"} : Front!Fail(r, error)
      PROVE  TruthInv'
  BY <1>3, RefuseKeeps, ServeKeeps, FailKeeps
<1>. QED
  BY <1>1, <1>2, <1>3, LocallyKeeps, RefuseHereKeeps, GiveUpKeeps, SendKeeps DEF Front!FrontNext

\* The instance has a copy of the operator of its own.
LEMMA SameCardinality == ASSUME NEW S PROVE Front!Cardinality(S) = Cardinality(S)
BY DEF Front!Cardinality, Cardinality

\* The invariants imply the properties.
LEMMA TruthMeans == TruthInv => Front!AnswerIsTrue
<1>. SUFFICES ASSUME TruthInv, NEW n \in DOMAIN told
              PROVE  LET times == Cardinality(DoneAs(done, n)) IN
                     /\ told[n] = "ok" => times = 1
                     /\ told[n] \in {"refused", "failed"} => times = 0
                     /\ times <= 1
  BY SameCardinality DEF Front!AnswerIsTrue, DoneAs
<1>1. This \notin DOMAIN told
  BY LenProperties DEF TruthInv, HistoryInv, This
<1>2. ASSUME NEW i \in DoneAs(done, n)
      PROVE  DoneAs(done, n) = {i} /\ told[n] \in {"ok", "no answer"}
  <2>1. i \in DOMAIN done /\ done[i].nr = n
    BY DEF DoneAs
  <2>. QED
    BY <1>1, <2>1 DEF TruthInv, HistoryInv, DoneOnce
<1>3. CASE DoneAs(done, n) = {}
  <2>1. Cardinality(DoneAs(done, n)) = 0 /\ told[n] # "ok"
    BY <1>3, FS_EmptySet DEF TruthInv, HistoryInv
  <2>. QED
    BY <2>1
<1>4. CASE DoneAs(done, n) # {}
  <2>1. PICK i : i \in DoneAs(done, n)
    BY <1>4
  <2>2. Cardinality(DoneAs(done, n)) = 1 /\ told[n] \notin {"refused", "failed"}
    BY <1>2, <2>1, FS_Singleton
  <2>. QED
    BY <2>2
<1>. QED
  BY <1>3, <1>4

\* What is left of a way is of its kind.
LEMMA WayGoesOn ==
  ASSUME ahead' = ahead \/ (ahead # << >> /\ ahead' \in {Tail(ahead), << >>})
  PROVE  /\ OwnWay(ahead) => OwnWay(ahead')
         /\ ClientWay(ahead) => ClientWay(ahead')
<1>1. ASSUME OwnWay(ahead), ahead # << >> PROVE OwnWay(Tail(ahead))
  <2>1. /\ Tail(ahead) \in Seq(Front!Steps) /\ Len(Tail(ahead)) = Len(ahead) - 1
        /\ \A i \in 1..Len(Tail(ahead)) : Tail(ahead)[i] = ahead[i + 1]
    BY <1>1, HeadTailProperties DEF OwnWay
  <2>2. /\ Len(ahead) \in Nat /\ DOMAIN ahead = 1..Len(ahead)
        /\ DOMAIN Tail(ahead) = 1..Len(Tail(ahead))
    BY <1>1, <2>1, LenProperties DEF OwnWay
  <2>3. ASSUME NEW i \in DOMAIN Tail(ahead) PROVE Tail(ahead)[i].port # "client"
    <3>1. i \in 1..Len(Tail(ahead)) /\ i + 1 \in DOMAIN ahead
      BY <2>1, <2>2
    <3>2. Tail(ahead)[i] = ahead[i + 1]
      BY <2>1, <3>1
    <3>. QED
      BY <1>1, <3>1, <3>2 DEF OwnWay
  <2>. QED
    BY <2>1, <2>3 DEF OwnWay
<1>2. OwnWay(<< >>)
  BY EmptySeq DEF OwnWay
<1>3. ASSUME ClientWay(ahead), ahead # << >> PROVE Tail(ahead) = << >>
  BY <1>3 DEF ClientWay
<1>4. ClientWay(<< >>)
  BY DEF ClientWay
<1>5. CASE ahead' = ahead
  BY <1>5
<1>6. CASE ahead # << >> /\ ahead' = Tail(ahead)
  BY <1>1, <1>3, <1>4, <1>6
<1>7. CASE ahead' = << >>
  BY <1>2, <1>4, <1>7
<1>. QED
  BY <1>5, <1>6, <1>7

\* An operation ends, and nothing was done.
LEMMA SideGoesOn ==
  ASSUME OwnSide \/ AtServer, ahead' = ahead \/ (ahead # << >> /\ ahead' \in {Tail(ahead), << >>}),
         begun' = begun, svc' = svc, arrived' \in SUBSET arrived, done' = done
  PROVE  (OwnSide \/ AtServer)'
BY WayGoesOn DEF OwnSide, AtServer

\* It ends, and something was done by this process or the server.
LEMMA SideDoes ==
  ASSUME TruthInv, OwnSide \/ AtServer, ahead' = ahead \/ (ahead # << >> /\ ahead' \in {Tail(ahead), << >>}),
         begun' = begun, svc' = svc, arrived' \in SUBSET arrived, NEW d, done' = Append(done, d),
         OwnSide => (d.port = "session" =>
                       \/ svc = "local" /\ d.place = "local"
                       \/ svc = "remote" /\ d.place = "server"),
         AtServer => d.place = "server"
  PROVE  (OwnSide \/ AtServer)'
<1>1. PICK new : /\ DOMAIN done' = DOMAIN done \cup {new} /\ done'[new] = d
                 /\ \A i \in DOMAIN done : done'[i] = done[i]
  BY DoneEntered DEF TruthInv, HistoryInv
<1>2. ASSUME OwnSide PROVE OwnSide'
  BY <1>1, <1>2, WayGoesOn DEF OwnSide
<1>3. ASSUME AtServer PROVE AtServer'
  BY <1>1, <1>3, WayGoesOn DEF AtServer
<1>. QED
  BY <1>2, <1>3

LEMMA SideStart == Front!FrontInit => OwnSide
BY EmptySeq DEF Front!FrontInit, OwnSide, OwnWay

\* A process begins on one side, and the steps of the process and of the server keep it.
LEMMA BeginsOnASide ==
  ASSUME Front!FrontAssumption, TruthInv, OwnSide \/ AtServer, Front!Run \/ Front!CallTool
  PROVE  (OwnSide \/ AtServer)'
<1>1. OwnSide
  BY DEF Front!FrontAssumption, Front!Run, Front!CallTool, AtServer
<1>2. svc' = svc /\ arrived' = arrived /\ done' = done
  BY DEF Front!Run, Front!CallTool, Front!Begin
<1>3. CASE \E front \in Front!Cli!Commands \cup Front!Mcp!NewServer : ahead' \in front.ways
  <2>1. OwnWay(ahead')
    BY <1>3 DEF Front!FrontAssumption, OwnWay
  <2>. QED
    BY <1>1, <1>2, <2>1 DEF OwnSide
<1>4. CASE Front!Run /\ \E front \in Front!Programs : ahead' \in front.ways
  <2>1. done = << >> /\ begun' = MaxCalls
    BY <1>4 DEF Front!Run, TruthInv, WaitInv
  <2>2. PICK step : step.port = "client" /\ ahead' = <<step>>
    BY <1>4 DEF Front!Programs
  <2>3. ClientWay(<<step>>)
    BY <2>2 DEF ClientWay
  <2>. QED
    BY <1>2, <2>1, <2>2, <2>3 DEF AtServer
<1>. QED
  BY <1>3, <1>4 DEF Front!Run, Front!CallTool, Front!Begin

LEMMA ProcessKeepsSide ==
  ASSUME TruthInv, OwnSide \/ AtServer,
         \/ \E ok \in BOOLEAN : Front!Locally(ok)
         \/ Front!SessionService \/ Front!RefuseHere \/ Front!Send \/ Front!GiveUp
  PROVE  (OwnSide \/ AtServer)'
<1>1. CASE Front!SessionService
  BY <1>1 DEF Front!SessionService, OwnSide, AtServer, ClientWay
<1>2. CASE Front!RefuseHere \/ Front!GiveUp
  <2>1. /\ ahead' = ahead \/ (ahead # << >> /\ ahead' \in {Tail(ahead), << >>})
        /\ begun' = begun /\ svc' = svc /\ arrived' = arrived /\ done' = done
    BY <1>2 DEF Front!RefuseHere, Front!GiveUp, Front!Over, TruthInv, WaitInv
  <2>. QED
    BY <2>1, SideGoesOn
<1>3. CASE Front!Send
  <2>1. /\ begun' = begun /\ ahead' = ahead /\ svc' = svc /\ done' = done
        /\ ahead # << >> /\ Front!Remote(Head(ahead))
    BY <1>3 DEF Front!Send
  <2>2. OwnSide => svc = "remote"
    <3>1. OwnSide => Head(ahead).port # "client"
      BY <2>1, LenProperties DEF OwnSide, OwnWay
    <3>. QED
      BY <2>1, <3>1 DEF Front!Remote
  <2>. QED
    BY <2>1, <2>2 DEF OwnSide, AtServer
<1>4. ASSUME NEW ok \in BOOLEAN, Front!Locally(ok) PROVE (OwnSide \/ AtServer)'
  <2>1. /\ ahead' = ahead \/ (ahead # << >> /\ ahead' \in {Tail(ahead), << >>})
        /\ begun' = begun /\ svc' = svc /\ arrived' = arrived
    BY <1>4 DEF Front!Locally, Front!Over
  <2>2. ~ AtServer
    BY <1>4 DEF Front!Locally, Front!Remote, AtServer, ClientWay
  <2>3. CASE done' = done
    BY <2>1, <2>3, SideGoesOn
  <2>4. CASE done' # done
    <3>. DEFINE d == Front!Done("local", Head(ahead), Head(ahead).op, flags \cap Head(ahead).opts)
    <3>1. done' = Append(done, d) /\ d.port = Head(ahead).port /\ d.place = "local"
      BY <1>4, <2>4 DEF Front!Locally, Front!Done
    <3>2. d.port = "session" => svc = "local"
      BY <1>4, <3>1 DEF Front!Locally
    <3>. HIDE DEF d
    <3>. QED
      BY <2>1, <2>2, <3>1, <3>2, SideDoes
  <2>. QED
    BY <2>3, <2>4
<1>. QED
  BY <1>1, <1>2, <1>3, <1>4

LEMMA ServerKeepsSide ==
  ASSUME TruthInv, OwnSide \/ AtServer, NEW r \in arrived,
         \/ Front!Refuse(r) \/ Front!Serve(r)
         \/ \E error \in {"session not found", "secret", "other"} : Front!Fail(r, error)
  PROVE  (OwnSide \/ AtServer)'
<1>1. begun' = begun /\ svc' = svc /\ arrived' \in SUBSET arrived
  BY DEF Front!Refuse, Front!Serve, Front!Fail
<1>2. ahead' = ahead \/ (ahead # << >> /\ ahead' \in {Tail(ahead), << >>})
  <2>1. ahead' = ahead \/ (r \in waiting /\ ahead' \in {Tail(ahead), << >>})
    BY DEF Front!Refuse, Front!Serve, Front!Fail, Front!Answer, Front!Over
  <2>. QED
    BY <2>1 DEF TruthInv, WaitInv
<1>3. CASE ~ Front!Serve(r)
  <2>1. done' = done
    BY <1>3 DEF Front!Refuse, Front!Fail
  <2>. QED
    BY <1>1, <1>2, <2>1, SideGoesOn DEF OwnSide, AtServer
<1>4. CASE Front!Serve(r)
  <2>1. PICK d : d.place = "server" /\ done' = Append(done, d)
    BY <1>4 DEF Front!Serve
  <2>2. OwnSide => svc = "remote"
    BY DEF OwnSide
  <2>. QED
    BY <1>1, <1>2, <2>1, <2>2, SideDoes
<1>. QED
  BY <1>3, <1>4

LEMMA SideStep ==
  ASSUME Front!FrontAssumption, TruthInv, OwnSide \/ AtServer, [Front!FrontNext]_(Front!frontVars)
  PROVE  (OwnSide \/ AtServer)'
<1>1. CASE Front!Stop \/ Front!StartServer \/ UNCHANGED Front!frontVars
  BY <1>1 DEF Front!Stop, Front!StartServer, Front!frontVars, OwnSide, AtServer
<1>. QED
  BY <1>1, BeginsOnASide, ProcessKeepsSide, ServerKeepsSide DEF Front!FrontNext

LEMMA SideMeans == TruthInv /\ (OwnSide \/ AtServer) => Front!NoSplit
BY DEF OwnSide, AtServer, Front!NoSplit

\* Who is told by a command, a tool or the client library that something was done can
\* rely on it, and who is told that it was refused or failed likewise: it was done once
\* by then, or is not and never will be, whichever requests are lost, answered late or
\* served after their sender has given up, and however often the server stops.
THEOREM AnswersAreTrue ==
  Front!FrontAssumption /\ Front!FrontSpec => []Front!AnswerIsTrue
<1>. SUFFICES ASSUME Front!FrontAssumption PROVE Front!FrontSpec => []Front!AnswerIsTrue
  OBVIOUS
<1>1. Front!FrontInit => TruthInv
  BY TruthStart
<1>2. TruthInv /\ [Front!FrontNext]_(Front!frontVars) => TruthInv'
  BY TruthStep
<1>3. TruthInv => Front!AnswerIsTrue
  BY TruthMeans
<1>. QED
  BY <1>1, <1>2, <1>3, PTL DEF Front!FrontSpec

\* A process never works on two sets of sessions, for it decides once whose they are
\* (pkg/cmd/factory/default.go:318-334), and whatever the server does meanwhile.
THEOREM ProcessesDoNotSplit ==
  Front!FrontAssumption /\ Front!FrontSpec => []Front!NoSplit
<1>. SUFFICES ASSUME Front!FrontAssumption PROVE Front!FrontSpec => []Front!NoSplit
  OBVIOUS
<1>1. Front!FrontInit => FrontInv
  BY TruthStart, SideStart DEF FrontInv
<1>2. FrontInv /\ [Front!FrontNext]_(Front!frontVars) => FrontInv'
  BY TruthStep, SideStep DEF FrontInv
<1>3. FrontInv => Front!NoSplit
  BY SideMeans DEF FrontInv
<1>. QED
  BY <1>1, <1>2, <1>3, PTL DEF Front!FrontSpec

-----------------------------------------------------------------------------
(* Settings.  What a process has loaded is what loading its files again     *)
(* would give, and what one has saved is in its file, unless somebody has  *)
(* written a file it has loaded since.                                     *)

KindInv ==
  /\ kind.default \in kind.values
  /\ kind.defaulted => kind.default \in {kind.zero, kind.usual}
  /\ kind.read \in {"given", "always", "if true", "never"}
  /\ kind.read = "if true" => kind.values = BOOLEAN
  /\ key = "projects.p" => "" \in kind.values

FileValues == {<< >>} \cup {<<v>> : v \in kind.values}
ProcessType ==
  [up : BOOLEAN, value : kind.values, fate : {"loaded", "set", "saved", "old"}, saving : BOOLEAN]

SettingsShape ==
  /\ key \in Keys
  /\ torn \subseteq {"global", "repo"}
  /\ file \in [{"global", "repo"} -> FileValues]
  /\ process \in [Processes -> ProcessType]

\* What a process has that changed nothing is what its files give, and what another
\* has saved is in its file; the others have an old value or have just set one.
FatesInv ==
  \A p \in Processes :
    /\ process[p].up /\ process[p].fate = "loaded" => process[p].value = New(p)
    /\ process[p].fate = "saved" => file[Dir(p)] = <<process[p].value>>

SettingsInv == KindInv /\ SettingsShape /\ FatesInv

\* A file is loaded into a value of the setting's type.
LEMMA LoadTyped ==
  ASSUME KindInv, NEW value \in kind.values, NEW loaded \in FileValues
  PROVE  loadFrom(value, loaded) \in kind.values
<1>1. CASE loaded = << >>
  BY <1>1 DEF loadFrom
<1>2. CASE \E v \in kind.values : loaded = <<v>>
  <2> PICK v \in kind.values : loaded = <<v>>
    BY <1>2
  <2> loaded # << >> /\ loaded[1] = v
    OBVIOUS
  <2>1. CASE kind.read = "if true"
    BY <2>1 DEF loadFrom, KindInv
  <2>2. CASE kind.read \in {"given", "always", "never"}
    BY <2>2 DEF loadFrom
  <2> QED
    BY <2>1, <2>2 DEF KindInv
<1> QED
  BY <1>1, <1>2 DEF FileValues

\* Loading a file again that has what the first time has given gives the same.
LEMMA LoadTwice ==
  ASSUME KindInv, NEW value \in kind.values, NEW loaded \in FileValues
  PROVE  loadFrom(value, <<loadFrom(value, loaded)>>) = loadFrom(value, loaded)
<1> DEFINE once == loadFrom(value, loaded)
<1>1. once \in kind.values /\ <<once>> # << >> /\ <<once>>[1] = once
  BY LoadTyped
<1>2. loaded = << >> \/ loaded[1] \in kind.values
  BY DEF FileValues
<1>3. CASE kind.read = "given"
  BY <1>1, <1>3 DEF loadFrom
<1>4. CASE kind.read = "always"
  BY <1>1, <1>4 DEF loadFrom
<1>5. CASE kind.read = "if true"
  <2>1. value \in BOOLEAN /\ once \in BOOLEAN /\ kind.read # "given" /\ kind.read # "always"
    BY <1>1, <1>5 DEF KindInv
  <2>2. loadFrom(value, <<once>>) = (once \/ value)
    BY <1>1, <1>5, <2>1 DEF loadFrom
  <2>3. loaded # << >> => once = (loaded[1] \/ value) /\ loaded[1] \in BOOLEAN
    BY <1>2, <1>5, <2>1 DEF loadFrom, KindInv
  <2>4. loaded = << >> => once = value
    BY DEF loadFrom
  <2> HIDE DEF once
  <2>5. (once \/ value) = once
    BY <2>1, <2>3, <2>4
  <2> QED
    BY <2>2, <2>5 DEF once
<1>6. CASE kind.read = "never"
  BY <1>1, <1>6 DEF loadFrom
<1> QED
  BY <1>3, <1>4, <1>5, <1>6 DEF KindInv

LEMMA NewTyped ==
  ASSUME KindInv, SettingsShape, NEW p \in Processes
  PROVE  New(p) \in kind.values
<1>1. file.global \in FileValues /\ file.repo \in FileValues /\ kind.default \in kind.values
  BY DEF SettingsShape, KindInv
<1>2. loadFrom(kind.default, file.global) \in kind.values
  BY <1>1, LoadTyped
<1>3. loadFrom(loadFrom(kind.default, file.global), file.repo) \in kind.values
  BY <1>1, <1>2, LoadTyped
<1> QED
  BY <1>2, <1>3 DEF New

-----------------------------------------------------------------------------
(* What the shape of one step keeps.                                       *)

LEMMA DownTyped ==
  ASSUME KindInv PROVE Down \in ProcessType
BY DEF Down, ProcessType, KindInv

\* Without a write, New gives what it gave.
LEMMA SameFiles ==
  ASSUME file' = file, kind' = kind, NEW p \in Processes
  PROVE  New(p)' = New(p) /\ Down' = Down
BY DEF New, loadFrom, Down

\* A step of one process that writes no file.
LEMMA OneProcess ==
  ASSUME SettingsInv, NEW p \in Processes, NEW new \in ProcessType,
         key' = key, kind' = kind, file' = file, torn' \subseteq {"global", "repo"},
         process' = [process EXCEPT ![p] = new],
         new.up /\ new.fate = "loaded" => new.value = New(p),
         new.fate = "saved" => file[Dir(p)] = <<new.value>>
  PROVE  SettingsInv'
<1>1. process' \in [Processes -> ProcessType] /\ process'[p] = new
      /\ \A q \in Processes : q # p => process'[q] = process[q]
  BY DEF SettingsInv, SettingsShape
<1>2. KindInv' /\ FileValues' = FileValues /\ ProcessType' = ProcessType
  BY DEF SettingsInv, KindInv, FileValues, ProcessType
<1>3. SettingsShape'
  BY <1>1, <1>2 DEF SettingsInv, SettingsShape
<1>4. FatesInv'
  <2> SUFFICES ASSUME NEW q \in Processes
               PROVE  /\ process'[q].up /\ process'[q].fate = "loaded" => process'[q].value = New(q)'
                      /\ process'[q].fate = "saved" => file'[Dir(q)] = <<process'[q].value>>
    BY DEF FatesInv, Dir
  <2>1. New(q)' = New(q)
    BY SameFiles
  <2>2. CASE q = p
    BY <1>1, <2>1, <2>2
  <2>3. CASE q # p
    BY <1>1, <2>1, <2>3 DEF SettingsInv, FatesInv
  <2> QED
    BY <2>2, <2>3
<1> QED
  BY <1>2, <1>3, <1>4 DEF SettingsInv

LEMMA StartKeeps ==
  ASSUME SettingsInv, NEW p \in Processes, Start(p) PROVE SettingsInv'
<1> DEFINE new == [Down EXCEPT !.up = TRUE, !.value = New(p)]
<1>1. Down \in ProcessType /\ New(p) \in kind.values
  BY DownTyped, NewTyped DEF SettingsInv
<1>2. new \in ProcessType /\ new.fate = "loaded" /\ new.value = New(p)
  BY <1>1 DEF ProcessType, Down
<1>3. key' = key /\ kind' = kind /\ file' = file /\ torn' = torn /\ process' = [process EXCEPT ![p] = new]
  BY DEF Start
<1>4. torn' \subseteq {"global", "repo"}
  BY <1>3 DEF SettingsInv, SettingsShape
<1> HIDE DEF new
<1> QED
  BY <1>2, <1>3, <1>4, OneProcess

\* Whatever sets a process's value to another.
LEMMA SettingKeeps ==
  ASSUME SettingsInv, NEW p \in Processes, NEW v \in kind.values, key' = key, kind' = kind, file' = file, torn' = torn,
         process' = [process EXCEPT ![p].value = v, ![p].fate = IF @ = "old" THEN "old" ELSE "set"]
  PROVE  SettingsInv'
<1> DEFINE new == [process[p] EXCEPT !.value = v, !.fate = IF @ = "old" THEN "old" ELSE "set"]
<1>1. process[p] \in ProcessType /\ process' = [process EXCEPT ![p] = new]
  BY DEF SettingsInv, SettingsShape
<1>2. new \in ProcessType /\ new.fate \in {"set", "old"}
  BY <1>1 DEF ProcessType
<1>3. torn' \subseteq {"global", "repo"}
  BY DEF SettingsInv, SettingsShape
<1> HIDE DEF new
<1> QED
  BY <1>1, <1>2, <1>3, OneProcess

LEMMA SaveKeeps ==
  ASSUME SettingsInv, NEW p \in Processes, SaveConfig(p) PROVE SettingsInv'
<1> DEFINE new == [process[p] EXCEPT !.saving = TRUE]
<1>1. process[p] \in ProcessType
  BY DEF SettingsInv, SettingsShape
<1>2. new \in ProcessType /\ new.up = process[p].up /\ new.fate = process[p].fate /\ new.value = process[p].value
  BY <1>1 DEF ProcessType
<1>3. key' = key /\ kind' = kind /\ file' = file /\ process' = [process EXCEPT ![p] = new]
  BY DEF SaveConfig
<1>4. torn' \subseteq {"global", "repo"}
  BY DEF SaveConfig, SettingsInv, SettingsShape, Dir
<1>5. (new.up /\ new.fate = "loaded" => new.value = New(p)) /\ (new.fate = "saved" => file[Dir(p)] = <<new.value>>)
  BY <1>2 DEF SettingsInv, FatesInv
<1> HIDE DEF new
<1> QED
  BY <1>2, <1>3, <1>4, <1>5, OneProcess

LEMMA DieKeeps ==
  ASSUME SettingsInv, NEW p \in Processes, Die(p) PROVE SettingsInv'
<1>1. Down \in ProcessType /\ ~Down.up /\ Down.fate = "loaded"
  BY DownTyped DEF SettingsInv, Down
<1>2. key' = key /\ kind' = kind /\ file' = file /\ process' = [process EXCEPT ![p] = Down]
  BY DEF Die
<1>3. torn' \subseteq {"global", "repo"}
  BY DEF Die, SettingsInv, SettingsShape
<1> QED
  BY <1>1, <1>2, <1>3, OneProcess

\* What New gives after a step that leaves the kind of the setting alone.
LEMMA NewAfter ==
  ASSUME KindInv, kind' = kind, NEW p \in Processes
  PROVE  /\ p \in InRepo => New(p)' = loadFrom(loadFrom(kind.default, file'.global), file'.repo)
         /\ p \notin InRepo => New(p)' = loadFrom(kind.default, file'.global)
<1>1. CASE kind.read = "given"
  BY <1>1 DEF New, loadFrom
<1>2. CASE kind.read = "always"
  BY <1>2 DEF New, loadFrom
<1>3. CASE kind.read = "if true"
  BY <1>3 DEF New, loadFrom
<1>4. CASE kind.read = "never"
  BY <1>4 DEF New, loadFrom
<1> QED
  BY <1>1, <1>2, <1>3, <1>4 DEF KindInv

\* Only what a process reads has a say in what it has loaded; and one that writes what
\* it has loaded has written what it would load.
LEMMA WrittenNew ==
  ASSUME SettingsInv, NEW p \in Processes, NEW q \in Processes, kind' = kind,
         file' = [file EXCEPT ![Dir(p)] = <<process[p].value>>]
  PROVE  /\ q # p /\ Dir(p) # "global" /\ q \notin InRepo => New(q)' = New(q) /\ file'[Dir(q)] = file[Dir(q)]
         /\ process[p].value = New(p) => New(p)' = New(p)
<1>1. file \in [{"global", "repo"} -> FileValues] /\ Dir(p) \in {"global", "repo"} /\ kind.default \in kind.values
  BY DEF SettingsInv, SettingsShape, Dir, KindInv
<1>2. CASE p \in InRepo
  <2>1. Dir(p) = "repo" /\ file'.repo = <<process[p].value>> /\ file'.global = file.global
    BY <1>1, <1>2 DEF Dir
  <2>2. q \notin InRepo => New(q)' = New(q) /\ file'[Dir(q)] = file[Dir(q)]
    BY <2>1, NewAfter DEF New, Dir, SettingsInv
  <2> DEFINE under == loadFrom(kind.default, file.global)
  <2>3. under \in kind.values
    BY <1>1, LoadTyped DEF SettingsInv
  <2>4. New(p) = loadFrom(under, file.repo)
    BY <1>2 DEF New
  <2>5. New(p)' = loadFrom(under, <<process[p].value>>)
    BY <1>2, <2>1, NewAfter DEF SettingsInv
  <2>6. loadFrom(under, <<loadFrom(under, file.repo)>>) = loadFrom(under, file.repo)
    BY <1>1, <2>3, LoadTwice DEF SettingsInv
  <2> QED
    BY <2>2, <2>4, <2>5, <2>6
<1>3. CASE p \notin InRepo
  <2>1. Dir(p) = "global" /\ file'.global = <<process[p].value>>
    BY <1>1, <1>3 DEF Dir
  <2>2. New(p) = loadFrom(kind.default, file.global)
    BY <1>3 DEF New
  <2>3. New(p)' = loadFrom(kind.default, <<process[p].value>>)
    BY <1>3, <2>1, NewAfter DEF SettingsInv
  <2>4. loadFrom(kind.default, <<loadFrom(kind.default, file.global)>>) = loadFrom(kind.default, file.global)
    BY <1>1, LoadTwice DEF SettingsInv
  <2> QED
    BY <2>1, <2>2, <2>3, <2>4
<1> QED
  BY <1>2, <1>3

LEMMA WrittenKeeps ==
  ASSUME SettingsInv, NEW p \in Processes, Written(p) PROVE SettingsInv'
<1>1. /\ key' = key /\ kind' = kind /\ torn' = torn \ {Dir(p)}
      /\ file' = [file EXCEPT ![Dir(p)] = <<process[p].value>>]
  BY DEF Written
<1> DEFINE own   == [process[p] EXCEPT !.saving = FALSE, !.fate = IF @ \in {"set", "old"} THEN "saved" ELSE @]
           of(q) == IF q = p THEN own
                    ELSE IF Dir(p) = "global" \/ q \in InRepo THEN [process[q] EXCEPT !.fate = "old"] ELSE process[q]
<1>2. process' = [q \in Processes |-> of(q)]
  BY DEF Written
<1>3. process \in [Processes -> ProcessType] /\ process[p].value \in kind.values
  BY DEF SettingsInv, SettingsShape, ProcessType
<1>4. /\ own \in ProcessType /\ own.value = process[p].value /\ own.up = process[p].up
      /\ own.fate = "loaded" => process[p].fate = "loaded"
  BY <1>3 DEF ProcessType
<1>5. ASSUME NEW q \in Processes
      PROVE  [process[q] EXCEPT !.fate = "old"] \in ProcessType /\ [process[q] EXCEPT !.fate = "old"].fate = "old"
  BY <1>3 DEF ProcessType
<1> HIDE DEF own
<1>6. process' \in [Processes -> ProcessType]
  BY <1>2, <1>3, <1>4, <1>5
<1>7. KindInv' /\ FileValues' = FileValues /\ ProcessType' = ProcessType
  BY <1>1 DEF SettingsInv, KindInv, FileValues, ProcessType
<1>8. file' \in [{"global", "repo"} -> FileValues]
  BY <1>1, <1>3 DEF SettingsInv, SettingsShape, FileValues
<1>9. SettingsShape'
  BY <1>1, <1>6, <1>7, <1>8 DEF SettingsInv, SettingsShape
<1>10. FatesInv'
  <2> SUFFICES ASSUME NEW q \in Processes
               PROVE  /\ process'[q].up /\ process'[q].fate = "loaded" => process'[q].value = New(q)'
                      /\ process'[q].fate = "saved" => file'[Dir(q)] = <<process'[q].value>>
    BY DEF FatesInv, Dir
  <2>1. CASE q = p
    <3>1. process'[q] = own
      BY <1>2, <2>1
    <3>2. file'[Dir(p)] = <<process[p].value>>
      BY <1>1 DEF SettingsInv, SettingsShape, Dir
    <3>3. own.up /\ own.fate = "loaded" => process[p].value = New(p)
      BY <1>4 DEF SettingsInv, FatesInv
    <3>4. process[p].value = New(p) => New(p)' = New(p)
      BY <1>1, WrittenNew
    <3> QED
      BY <1>4, <2>1, <3>1, <3>2, <3>3, <3>4
  <2>2. CASE q # p /\ (Dir(p) = "global" \/ q \in InRepo)
    BY <1>2, <1>5, <2>2
  <2>3. CASE q # p /\ Dir(p) # "global" /\ q \notin InRepo
    <3>1. process'[q] = process[q]
      BY <1>2, <2>3
    <3>2. New(q)' = New(q) /\ file'[Dir(q)] = file[Dir(q)]
      BY <1>1, <2>3, WrittenNew
    <3> QED
      BY <3>1, <3>2 DEF SettingsInv, FatesInv
  <2> QED
    BY <2>1, <2>2, <2>3
<1> QED
  BY <1>7, <1>9, <1>10 DEF SettingsInv

-----------------------------------------------------------------------------
(* The invariant and what follows from it.                                 *)

LEMMA SettingsInvInit ==
  ASSUME SettingsAssumption, SettingsInit PROVE SettingsInv
<1>1. KindInv
  BY DEF SettingsAssumption, SettingsInit, KindInv
<1>2. process = [p \in Processes |-> Down] /\ Down \in ProcessType /\ ~Down.up /\ Down.fate = "loaded"
  BY <1>1, DownTyped DEF SettingsInit, Down
<1>3. file \in [{"global", "repo"} -> FileValues]
  BY DEF SettingsInit, FileValues
<1>4. SettingsShape
  BY <1>2, <1>3 DEF SettingsInit, SettingsShape
<1>5. FatesInv
  BY <1>2 DEF FatesInv
<1> QED
  BY <1>1, <1>4, <1>5 DEF SettingsInv

LEMMA SettingsStep ==
  ASSUME SettingsInv, [SettingsNext]_settingsVars PROVE SettingsInv'
<1>1. CASE UNCHANGED settingsVars
  <2>1. key' = key /\ kind' = kind /\ file' = file /\ torn' = torn /\ process' = process
    BY <1>1 DEF settingsVars
  <2> QED
    BY <2>1 DEF SettingsInv, KindInv, SettingsShape, FatesInv, FileValues, ProcessType, New, loadFrom, Dir
<1>2. CASE SettingsNext
  <2> PICK p \in Processes :
         \/ Start(p) \/ SaveConfig(p) \/ Written(p) \/ Die(p) \/ DeleteProjectClassifier(p)
         \/ \E v \in kind.values : Set(p, v) \/ SaveClassifier(p, v)
    BY <1>2 DEF SettingsNext
  <2>1. CASE Start(p) \/ SaveConfig(p) \/ Written(p) \/ Die(p)
    BY <2>1, StartKeeps, SaveKeeps, WrittenKeeps, DieKeeps
  <2>2. CASE DeleteProjectClassifier(p)
    <3>1. "" \in kind.values
      BY <2>2 DEF DeleteProjectClassifier, SettingsInv, KindInv
    <3> QED
      BY <2>2, <3>1, SettingKeeps DEF DeleteProjectClassifier
  <2>3. CASE \E v \in kind.values : Set(p, v) \/ SaveClassifier(p, v)
    BY <2>3, SettingKeeps DEF Set, SaveClassifier
  <2> QED
    BY <2>1, <2>2, <2>3
<1> QED
  BY <1>1, <1>2

\* What comes back of a value that is in the last file a process reads is used like it.
LEMMA SavedComesBack ==
  ASSUME SettingsInv, NEW p \in Processes, NEW v \in kind.values, file[Dir(p)] = <<v>>, ComesBack(v)
  PROVE  Used(New(p)) = Used(v)
<1> DEFINE over(x) == loadFrom(x, <<v>>)
<1>1. <<v>> # << >> /\ <<v>>[1] = v
  OBVIOUS
<1>2. CASE kind.read = "always"
  BY <1>1, <1>2 DEF New, loadFrom, Dir
<1>3. CASE kind.read = "if true" /\ v
  <2>1. v = TRUE
    BY <1>3 DEF SettingsInv, KindInv
  <2> QED
    BY <1>1, <1>3, <2>1 DEF New, loadFrom, Dir
<1>4. CASE kind.read = "given" /\ v # kind.zero
  BY <1>1, <1>4 DEF New, loadFrom, Dir
<1>5. CASE /\ kind.read = "given" /\ file.global \in {<< >>, <<kind.zero>>} /\ v = kind.zero
           /\ kind.default = kind.zero \/ kind.defaulted
  <2>1. loadFrom(kind.default, <<v>>) = kind.default
    BY <1>1, <1>5 DEF loadFrom
  <2>2. loadFrom(kind.default, file.global) = kind.default
    BY <1>5, <2>1 DEF loadFrom
  <2>3. New(p) = kind.default
    BY <2>1, <2>2 DEF New, Dir
  <2> QED
    BY <1>5, <2>3 DEF Used, SettingsInv, KindInv
<1> QED
  BY <1>2, <1>3, <1>4, <1>5 DEF ComesBack

LEMMA SavedIsReadHolds ==
  ASSUME SettingsInv PROVE SavedIsRead
<1> SUFFICES ASSUME NEW p \in Processes, process[p].up
             PROVE  /\ process[p].fate = "loaded" => New(p) = process[p].value
                    /\ process[p].fate = "saved" /\ ComesBack(process[p].value) => Used(New(p)) = Used(process[p].value)
  BY DEF SavedIsRead
<1>1. process[p].value \in kind.values
  BY DEF SettingsInv, SettingsShape, ProcessType
<1>2. /\ process[p].fate = "loaded" => process[p].value = New(p)
      /\ process[p].fate = "saved" => file[Dir(p)] = <<process[p].value>>
  BY DEF SettingsInv, FatesInv
<1> QED
  BY <1>1, <1>2, SavedComesBack

LEMMA ShownIsSameHolds == ShownIsSame
<1> SUFFICES ASSUME NEW p \in Processes, NEW v, v = process[p].value
             PROVE  /\ kind.page = "text" \/ (kind.page = "words" /\ v # "") =>
                         Used(SetTo(v, valueOrDefault(v))) = Used(v)
                    /\ kind.shown \in {"used", "raw"} => Used(SetTo(v, Get(v))) = Used(v)
  BY DEF ShownIsSame
<1>1. Used(Used(v)) = Used(v)
  BY DEF Used
<1> QED
  BY <1>1 DEF SetTo, valueOrDefault, Get, Used

LEMMA SettingsTyped ==
  ASSUME SettingsInv PROVE SettingsTypeOK
BY DEF SettingsInv, SettingsShape, SettingsTypeOK, ProcessType, FileValues

\* For any processes, in a repository or not, and any of the settings: one that comes up
\* uses what the last to save the setting used, whoever wrote which file in between, one
\* that only changes other settings changes nothing for this one, and what is shown and
\* sent back is the same.
THEOREM SettingsComeBack ==
  ASSUME SettingsAssumption
  PROVE  SettingsSpec => [](SettingsTypeOK /\ SavedIsRead /\ ShownIsSame)
<1>1. SettingsInit => SettingsInv
  BY SettingsInvInit
<1>2. SettingsInv /\ [SettingsNext]_settingsVars => SettingsInv'
  BY SettingsStep
<1>3. SettingsInv => SettingsTypeOK /\ SavedIsRead /\ ShownIsSame
  BY SettingsTyped, SavedIsReadHolds, ShownIsSameHolds
<1> QED
  BY <1>1, <1>2, <1>3, PTL DEF SettingsSpec
-----------------------------------------------------------------------------
(* Pull requests, linked with the sessions of their branch.                *)

CONSTANTS Known, Branches, PRs, HeadBranch, NoBranch
VARIABLES branch, opened, known, linked, toLink

Pulls == INSTANCE PullRequests WITH Sessions <- Known

\* What a task has yet to link are pull requests it has stored.
PRInv == Pulls!PRTypeOK /\ toLink \subseteq Known \X known

\* A link has a session and a pull request that are stored, however many are deleted
\* between the listing of a branch's sessions and their links (the foreign keys of
\* session_pull_requests).
THEOREM LinksHaveTheirRows ==
  ASSUME NoBranch \notin Branches
  PROVE  Pulls!PRSpec => []Pulls!PRTypeOK
<1>1. Pulls!PRInit => PRInv
  BY DEF Pulls!PRInit, PRInv, Pulls!PRTypeOK
<1>2. PRInv /\ [Pulls!PRNext]_Pulls!prVars => PRInv'
  <2> SUFFICES ASSUME PRInv, [Pulls!PRNext]_Pulls!prVars PROVE PRInv'
    OBVIOUS
  <2> USE DEF PRInv, Pulls!PRTypeOK
  <2>1. ASSUME NEW p \in PRs, Pulls!Open(p) PROVE PRInv'
    BY <2>1 DEF Pulls!Open
  <2>2. ASSUME NEW p \in PRs, Pulls!SavePullRequest(p) PROVE PRInv'
    BY <2>2 DEF Pulls!SavePullRequest, Pulls!List
  <2>3. ASSUME NEW s \in Known, NEW b \in Branches, Pulls!Save(s, b) PROVE PRInv'
    BY <2>3 DEF Pulls!Save
  <2>4. ASSUME NEW s \in Known, Pulls!Delete(s) PROVE PRInv'
    <3>1. branch' = [branch EXCEPT ![s] = NoBranch] /\ linked' = {l \in linked : l[1] # s}
          /\ opened' = opened /\ known' = known /\ toLink' = toLink
      BY <2>4 DEF Pulls!Delete
    <3>2. \A l \in linked' : l \in Known \X known /\ l[1] # s /\ l[1] \in Known /\ branch[l[1]] # NoBranch
      BY <3>1
    <3>3. \A l \in linked' : branch'[l[1]] # NoBranch
      BY <3>1, <3>2
    <3> QED
      BY <3>1, <3>2, <3>3
  <2>5. ASSUME NEW s \in Known, NEW p \in PRs, Pulls!LinkSessionPR(s, p) PROVE PRInv'
    <3>1. /\ <<s, p>> \in Known \X known /\ toLink' \subseteq toLink
          /\ linked' \subseteq linked \cup {<<s, p>>} /\ (branch[s] = NoBranch => linked' = linked)
          /\ branch' = branch /\ opened' = opened /\ known' = known
      BY <2>5 DEF Pulls!LinkSessionPR
    <3>2. <<s, p>>[1] = s
      OBVIOUS
    <3> QED
      BY <3>1, <3>2
  <2>6. CASE Pulls!Stop
    BY <2>6 DEF Pulls!Stop
  <2>7. CASE UNCHANGED Pulls!prVars
    BY <2>7 DEF Pulls!prVars
  <2> QED
    BY <2>1, <2>2, <2>3, <2>4, <2>5, <2>6, <2>7 DEF Pulls!PRNext
<1>3. PRInv => Pulls!PRTypeOK
  BY DEF PRInv
<1> QED
  BY <1>1, <1>2, <1>3, PTL DEF Pulls!PRSpec

-----------------------------------------------------------------------------
(* Search: the values a page offers, with their counts.                    *)

CONSTANTS Ids, Found, Bm25, Boost, Pool, PageSize, MaxWrites, None
VARIABLES engine, answers, kept, docs, unindexed, changes

Find == INSTANCE Search WITH Rows <- Found, up <- answers, rows <- kept, writes <- changes

LEMMA FoundCardinality == \A S : Find!Cardinality(S) = Cardinality(S)
BY DEF Find!Cardinality, Cardinality

LEMMA SingleTyped ==
  ASSUME NEW columns, NEW filters \in Find!Single(columns)
  PROVE  filters = [c \in Find!Columns |-> filters[c]]
BY DEF Find!Single, Find!Anything

\* Whatever is stored and already asked for: picking one of the values that a search page
\* offers finds as many sessions as the page counts for it (SearchFacets and Search count
\* what the same WHERE clause finds), but for the columns the page counts otherwise.
THEOREM CountsAreWhatIsFound ==
  ASSUME None \notin Find!Values
  PROVE  Find!SearchSpec => []Find!FacetsLead
<1>1. Find!FacetsLead
  <2> SUFFICES ASSUME NEW filters \in Find!Single(Find!Columns),
                      NEW c \in Find!Columns \ {"project", "errors", "since"}, filters[c] = None, NEW v \in Find!Values
               PROVE  LET counts == Find!SearchFacets("", filters, c) IN
                      Find!StoreSearch("", [filters EXCEPT ![c] = v], 0, 0).total
                        = (IF v \in DOMAIN counts THEN counts[v] ELSE 0)
    BY DEF Find!FacetsLead
  <2> DEFINE found == Find!buildSearchWhere("", filters)
             has(w) == {i \in found : kept[i][c] = w}
             counts == [w \in {kept[i][c] : i \in found} \ {""} |-> Cardinality(has(w))]
  <2>1. Find!SearchFacets("", filters, c) = counts
    <3>1. Find!SearchFacets("", filters, c)
            = [w \in {kept[i][c] : i \in found} \ {""} |-> Find!Cardinality(has(w))]
      BY DEF Find!SearchFacets
    <3>2. \A w : Find!Cardinality(has(w)) = Cardinality(has(w))
      BY FoundCardinality
    <3> QED
      BY <3>1, <3>2
  <2>2. Find!StoreSearch("", [filters EXCEPT ![c] = v], 0, 0).total = Cardinality(has(v))
    <3>1. v # None
      OBVIOUS
    <3>2. PICK picked : picked = [filters EXCEPT ![c] = v]
      OBVIOUS
    <3>3. filters = [x \in Find!Columns |-> filters[x]] /\ c \in Find!Columns
      BY SingleTyped
    <3>4. picked[c] = v /\ \A x \in Find!Columns \ {c} : picked[x] = filters[x]
      BY <3>2, <3>3
    <3>5. Find!buildSearchWhere("", picked) = {i \in Find!buildSearchWhere("", filters) : kept[i][c] = v}
      <4> HIDE DEF counts, has, found
      <4>1. ASSUME NEW i PROVE Find!Fits(kept[i], picked) <=> Find!Fits(kept[i], filters) /\ kept[i][c] = v
        BY <3>1, <3>3, <3>4 DEF Find!Fits
      <4>2. Find!buildSearchWhere("", picked) = {i \in Find!buildSearchWhere("", filters) : kept[i][c] = v}
        BY <4>1 DEF Find!buildSearchWhere
      <4> QED
        BY <4>2
    <3> QED
      BY <3>2, <3>5, FoundCardinality DEF Find!StoreSearch
  <2>3. v # ""
    BY DEF Find!Values
  <2>4. v \notin DOMAIN counts => has(v) = {}
    BY <2>3
  <2>5. v \in DOMAIN counts => counts[v] = Cardinality(has(v))
    OBVIOUS
  <2>6. Cardinality({}) = 0
    BY FS_EmptySet
  <2> HIDE DEF counts, has, found
  <2> QED
    BY <2>1, <2>2, <2>4, <2>5, <2>6
<1> QED
  BY <1>1, PTL
=============================================================================
