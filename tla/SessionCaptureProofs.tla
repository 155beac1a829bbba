------------------------ MODULE SessionCaptureProofs ------------------------
(***************************************************************************)
(* What holds of SessionCapture for every number of capturers, every       *)
(* behaviour of the source and every bound.                                *)
(***************************************************************************)
EXTENDS SessionCapture, TLAPS

\* Saving a session derives the message count and keeps the rest.
LEMMA SavedType ==
  ASSUME NEW sess \in Row
  PROVE  Saved(sess) \in Row
BY DEF Saved, Row

\* A retention update writes a row.
LEMMA RetainedType ==
  ASSUME NEW r \in Row, NEW sess \in Row
  PROVE  Retained(r, sess) \in Row
BY DEF Retained, Row

\* Window retention returns a sequence of messages.
LEMMA WindowType ==
  ASSUME NEW s \in Seq(Msg), NEW w \in Windows(s)
  PROVE  w \in Seq(Msg)
<1>0. PICK n \in 0 .. Len(s) : w \in { [i \in 1 .. n |-> s[f[i]]] : f \in Picks(n, Len(s)) }
  BY DEF Windows
<1>1. PICK f \in Picks(n, Len(s)) : w = [i \in 1 .. n |-> s[f[i]]]
  BY <1>0
<1>2. \A i \in 1 .. n : f[i] \in 1 .. Len(s)
  BY DEF Picks
<1>3. \A i \in 1 .. n : s[f[i]] \in Msg
  BY <1>2
<1>4. w \in [1 .. n -> Msg]
  BY <1>1, <1>3
<1>. QED
  BY <1>4

\* A message is created with all of its parts or with none.
LEMMA NewMessageType ==
  ASSUME NEW id \in Nat
  PROVE  NewMessage(id) \in Msg /\ NewMessage(id).id = id
BY DEF NewMessage, Msg

\* A list of messages names the messages, in their order, and holds no parts.
LEMMA ListedType ==
  ASSUME NEW s \in Seq(Msg)
  PROVE  /\ Listed(s) \in Seq(Msg) /\ Len(Listed(s)) = Len(s)
         /\ \A i \in 1 .. Len(s) : Listed(s)[i] \in Msg /\ Listed(s)[i].id = s[i].id
                                   /\ Listed(s)[i].rev = 0
<1>. DEFINE p == [i \in 1 .. Len(s) |-> [s[i] EXCEPT !.rev = 0]]
<1>1. Len(s) \in Nat /\ \A i \in 1 .. Len(s) : s[i] \in Msg
  OBVIOUS
<1>2. \A m \in Msg : /\ [m EXCEPT !.rev = 0] \in Msg /\ [m EXCEPT !.rev = 0].id = m.id
                     /\ [m EXCEPT !.rev = 0].rev = 0
  BY DEF Msg
<1>3. \A i \in 1 .. Len(s) : p[i] \in Msg /\ p[i].id = s[i].id /\ p[i].rev = 0
  BY <1>1, <1>2
<1>4. DOMAIN p = 1 .. Len(s) /\ p \in [1 .. Len(s) -> Msg]
  BY <1>3
<1>. HIDE DEF p
<1>5. p \in Seq(Msg) /\ Len(p) = Len(s)
  BY <1>1, <1>4
<1>. QED
  BY <1>3, <1>5 DEF Listed, p

\* The source holds a sequence of messages at every instant.
LEMMA SourceType ==
  ASSUME TypeOK
  PROVE  now \in Nat /\ Source \in Seq(Msg) /\ Len(Source) \in Nat
BY DEF TypeOK, now, Source

\* The parts are those of the message of that identity, if the source has it.
LEMMA WithPartsType ==
  ASSUME TypeOK, NEW m \in Msg
  PROVE  /\ WithParts(m) \in Msg /\ WithParts(m).id = m.id
         /\ \/ WithParts(m) \in Elements(Source)
            \/ WithParts(m) = m /\ m.id \notin Ids(Source)
<1>1. Elements(Source) \subseteq Msg
  BY SourceType DEF Elements
<1>2. CASE \E s \in Elements(Source) : s.id = m.id
  BY <1>1, <1>2 DEF WithParts
<1>3. CASE ~ \E s \in Elements(Source) : s.id = m.id
  BY <1>3 DEF WithParts, Elements, Ids
<1>. QED
  BY <1>2, <1>3

\* One query that gives all parts keeps the list and its order.
LEMMA AllPartsRead ==
  ASSUME TypeOK, NEW c \in Capturers, NEW from \in Steps, NEW to \in Steps,
         LoadAllParts(c, from, to)
  PROVE  /\ pc[c] = from /\ pc' = [pc EXCEPT ![c] = to]
         /\ UNCHANGED <<sourceVars, row, seen, retainVars, faults>>
         /\ draft' \in [Capturers -> Row]
         /\ \A d \in Capturers \ {c} : draft'[d] = draft[d]
         /\ \E p \in Seq(Msg) :
              /\ draft'[c] = [draft[c] EXCEPT !.payload = p]
              /\ Len(p) = Len(draft[c].payload)
              /\ \A i \in 1 .. Len(p) : p[i] = WithParts(draft[c].payload[i])
<1>. DEFINE msgs == draft[c].payload
            p == [i \in 1 .. Len(msgs) |-> WithParts(msgs[i])]
<1>1. draft[c] \in Row /\ msgs \in Seq(Msg) /\ Len(msgs) \in Nat
  BY DEF TypeOK, Row
<1>2. \A i \in 1 .. Len(msgs) : p[i] \in Msg
  <2>1. \A i \in 1 .. Len(msgs) : msgs[i] \in Msg
    BY <1>1
  <2>. QED
    BY <2>1, WithPartsType
<1>3. p \in [1 .. Len(msgs) -> Msg] /\ DOMAIN p = 1 .. Len(msgs)
  BY <1>2
<1>4. \A i \in 1 .. Len(msgs) : p[i] = WithParts(msgs[i])
  OBVIOUS
<1>5. draft' = [draft EXCEPT ![c].payload = p]
  BY DEF LoadAllParts
<1>. HIDE DEF p
<1>6. p \in Seq(Msg) /\ Len(p) = Len(msgs)
  BY <1>1, <1>3
<1>7. draft'[c] = [draft[c] EXCEPT !.payload = p] /\ [draft[c] EXCEPT !.payload = p] \in Row
  BY <1>1, <1>5, <1>6 DEF TypeOK, Row
<1>8. draft' \in [Capturers -> Row] /\ \A d \in Capturers \ {c} : draft'[d] = draft[d]
  BY <1>5, <1>7 DEF TypeOK
<1>. QED
  BY <1>4, <1>6, <1>7, <1>8 DEF LoadAllParts, Goto

\* A query for the parts of one message changes that message alone.
LEMMA PartRead ==
  ASSUME TypeOK, NEW c \in Capturers, ReadPart(c)
  PROVE  /\ pc[c] = "part" /\ \E to \in {"part", "save"} : pc' = [pc EXCEPT ![c] = to]
         /\ UNCHANGED <<sourceVars, row, seen, retainVars, faults>>
         /\ draft' \in [Capturers -> Row]
         /\ \A d \in Capturers \ {c} : draft'[d] = draft[d]
         /\ \E p \in Seq(Msg), n \in Nat :
              /\ draft'[c] = [draft[c] EXCEPT !.payload = p, !.count = n]
              /\ Len(p) = Len(draft[c].payload)
              /\ \A i \in 1 .. Len(p) :
                   p[i] \in {draft[c].payload[i], WithParts(draft[c].payload[i])}
<1>. DEFINE msgs == draft[c].payload
            k == draft[c].count + 1
<1>1. draft[c] \in Row /\ msgs \in Seq(Msg) /\ Len(msgs) \in Nat /\ k \in Nat
  BY DEF TypeOK, Row
<1>2. PICK m \in {msgs[k], WithParts(msgs[k])} :
        draft' = [draft EXCEPT ![c].payload[k] = m, ![c].count = k]
  BY DEF ReadPart
<1>. DEFINE p == [msgs EXCEPT ![k] = m]
<1>3. p \in Seq(Msg) /\ Len(p) = Len(msgs)
  <2>1. CASE k \in 1 .. Len(msgs)
    <3>1. msgs[k] \in Msg
      BY <1>1, <2>1
    <3>2. m \in Msg
      BY <1>2, <3>1, WithPartsType
    <3>. QED
      BY <1>1, <2>1, <3>2
  <2>2. CASE k \notin 1 .. Len(msgs)
    <3>1. p = msgs
      BY <1>1, <2>2
    <3>. QED
      BY <1>1, <3>1
  <2>. QED
    BY <2>1, <2>2
<1>4. \A i \in 1 .. Len(msgs) : p[i] \in {msgs[i], WithParts(msgs[i])}
  BY <1>1, <1>2
<1>5. draft' = [draft EXCEPT ![c] = [draft[c] EXCEPT !.payload = p, !.count = k]]
  BY <1>1, <1>2 DEF TypeOK, Row
<1>. HIDE DEF p, k
<1>6. /\ [draft[c] EXCEPT !.payload = p, !.count = k] \in Row
      /\ draft'[c] = [draft[c] EXCEPT !.payload = p, !.count = k]
  BY <1>1, <1>3, <1>5 DEF TypeOK, Row
<1>7. draft' \in [Capturers -> Row] /\ \A d \in Capturers \ {c} : draft'[d] = draft[d]
  BY <1>5, <1>6 DEF TypeOK
<1>8. pc[c] = "part" /\ \E to \in {"part", "save"} : pc' = [pc EXCEPT ![c] = to]
  BY DEF ReadPart, Goto
<1>. QED
  BY <1>1, <1>3, <1>4, <1>6, <1>7, <1>8 DEF ReadPart

-----------------------------------------------------------------------------

LEMMA InitType == Init => TypeOK
<1>. SUFFICES ASSUME Init PROVE TypeOK
  OBVIOUS
<1>1. NewMessage(1) \in Msg
  BY NewMessageType
<1>2. NoRow \in Row
  BY DEF NoRow, Row
<1>3. timeline \in Seq(Seq(Msg)) /\ Len(timeline) = 1
  <2>. DEFINE first == NewMessage(1)
  <2>1. timeline = << << first >> >> /\ first \in Msg
    BY <1>1 DEF Init
  <2>. HIDE DEF first
  <2>. QED
    BY <2>1
<1>. QED
  BY <1>2, <1>3 DEF Init, TypeOK, now, Steps, RetainSteps, Freshness, NoFreshness

\* A write of the source appends to the timeline.
LEMMA WriteType ==
  ASSUME TypeOK, NEW msgs \in Seq(Msg), SourceWrite(msgs)
  PROVE  TypeOK'
<1>1. timeline' \in Seq(Seq(Msg)) /\ Len(timeline') = Len(timeline) + 1
  BY DEF TypeOK, SourceWrite
<1>. QED
  BY <1>1 DEF TypeOK, SourceWrite, now, captureVars, retainVars

LEMMA SourceStepType ==
  TypeOK /\ (AppendMessage \/ ReviseLast \/ Rewind \/ Tick) => TypeOK'
<1>. SUFFICES ASSUME TypeOK, AppendMessage \/ ReviseLast \/ Rewind \/ Tick
              PROVE  TypeOK'
  OBVIOUS
<1>0. now \in Nat /\ Source \in Seq(Msg) /\ Len(Source) \in Nat
  BY SourceType
<1>1. CASE AppendMessage
  <2>1. NewMessage(FreshId) \in Msg
    BY <1>0, NewMessageType DEF FreshId
  <2>2. Append(Source, NewMessage(FreshId)) \in Seq(Msg)
    BY <1>0, <2>1
  <2>. QED
    BY <1>1, <2>2, WriteType DEF AppendMessage
<1>2. CASE ReviseLast
  <2>. DEFINE L == Len(Source)
  <2>1. L \in 1 .. Len(Source)
    BY <1>0, <1>2 DEF ReviseLast
  <2>2. Source[L] \in Msg
    BY <1>0, <2>1
  <2>3. [Source[L] EXCEPT !.rev = 1] \in Msg
    BY <2>2 DEF Msg
  <2>4. [Source EXCEPT ![L].rev = 1] \in Seq(Msg)
    BY <1>0, <2>1, <2>3
  <2>. QED
    BY <1>2, <2>4, WriteType DEF ReviseLast
<1>3. CASE Rewind
  <2>1. PICK n \in 1 .. Len(Source) - 1 : SourceWrite(SubSeq(Source, 1, n))
    BY <1>3 DEF Rewind
  <2>2. SubSeq(Source, 1, n) \in Seq(Msg)
    BY <1>0, <2>1
  <2>. QED
    BY <2>1, <2>2, WriteType
<1>4. CASE Tick
  <2>1. timeline' \in Seq(Seq(Msg)) /\ Len(timeline') = Len(timeline) + 1
    BY <1>0, <1>4 DEF Tick, TypeOK
  <2>. QED
    BY <1>4, <2>1 DEF TypeOK, Tick, now, captureVars, retainVars
<1>. QED
  BY <1>1, <1>2, <1>3, <1>4

CaptureStep(c) == Capture(c) \/ Abort(c) \/ ReadFails(c)

\* What a step of a capture leaves alone: the source, retention, other captures.
LEMMA CaptureFrame ==
  ASSUME TypeOK, NEW c \in Capturers, CaptureStep(c)
  PROVE  /\ UNCHANGED <<timeline, updated, rpc, runAt, copy>>
         /\ now' = now /\ Source' = Source
         /\ faults' \in Nat /\ faults' >= faults
         /\ \A d \in Capturers \ {c} : pc'[d] = pc[d] /\ draft'[d] = draft[d]
<1>1. UNCHANGED <<sourceVars, retainVars>> /\ faults' \in {faults, faults + 1}
  BY DEF CaptureStep, Capture, CountSource, StampSource, Skip, ChooseExport, ReadOffset,
     CheckOffset, ReadIncrementalStamp, ReadTail, ReadTailParts, LoadAllParts, Merge,
     ExportBegin, ListMessages, ReadParts, ReadPart, ReadStampLast, SaveSession, Abort, ReadFails
<1>2. \A d \in Capturers \ {c} : pc'[d] = pc[d]
  BY DEF CaptureStep, Capture, CountSource, StampSource, Skip, ChooseExport, ReadOffset,
     CheckOffset, ReadIncrementalStamp, ReadTail, ReadTailParts, LoadAllParts, Merge,
     ExportBegin, ListMessages, ReadParts, ReadPart, ReadStampLast, SaveSession, Abort, ReadFails,
     Finish, Goto, TypeOK
<1>3. ASSUME NEW d \in Capturers \ {c} PROVE draft'[d] = draft[d]
  <2>1. CASE CountSource(c) \/ StampSource(c) \/ ChooseExport(c) \/ CheckOffset(c) \/ ReadFails(c)
    BY <2>1 DEF CountSource, StampSource, ChooseExport, CheckOffset, ReadFails
  <2>2. CASE Skip(c) \/ Abort(c) \/ SaveSession(c)
    BY <2>2 DEF Skip, Abort, SaveSession, Finish, TypeOK
  <2>3. CASE ReadOffset(c) \/ ReadIncrementalStamp(c) \/ ReadTail(c) \/ Merge(c)
    BY <2>3 DEF ReadOffset, ReadIncrementalStamp, ReadTail, Merge, TypeOK
  <2>4. CASE ExportBegin(c) \/ ListMessages(c) \/ ReadStampLast(c)
    BY <2>4 DEF ExportBegin, ListMessages, ReadStampLast, TypeOK
  <2>5. CASE ReadTailParts(c) \/ ReadParts(c) \/ ReadPart(c)
    BY <2>5 DEF ReadTailParts, ReadParts, LoadAllParts, ReadPart, TypeOK
  <2>. QED
    BY <2>1, <2>2, <2>3, <2>4, <2>5 DEF CaptureStep, Capture
<1>. QED
  BY <1>1, <1>2, <1>3 DEF TypeOK, sourceVars, retainVars, now, Source

\* A step of a capture, of a crash or of a failing query writes drafts and rows.
LEMMA CaptureStepType ==
  ASSUME TypeOK, NEW c \in Capturers, CaptureStep(c)
  PROVE  TypeOK'
<1>0. /\ now \in Nat /\ Source \in Seq(Msg) /\ Len(Source) \in Nat
      /\ updated \in Nat /\ << >> \in Seq(Msg)
      /\ NoRow \in Row /\ NoFreshness \in Freshness
  BY SourceType DEF TypeOK, NoRow, Row, NoFreshness, Freshness
<1>1. /\ row' \in Row
      /\ pc' \in [Capturers -> Steps]
      /\ seen' \in [Capturers -> Freshness]
      /\ draft' \in [Capturers -> Row]
  <2>1. CASE CountSource(c)
    BY <1>0, <2>1 DEF CountSource, Goto, TypeOK, Steps, Freshness
  <2>2. CASE StampSource(c)
    BY <1>0, <2>2 DEF StampSource, Goto, TypeOK, Steps, Freshness
  <2>3. CASE Skip(c)
    BY <1>0, <2>3 DEF Skip, Finish, Goto, TypeOK, Steps
  <2>4. CASE ChooseExport(c)
    BY <2>4 DEF ChooseExport, Goto, TypeOK, Steps
  <2>5. CASE ReadOffset(c)
    BY <2>5 DEF ReadOffset, Goto, TypeOK, Steps, Row
  <2>6. CASE CheckOffset(c)
    BY <2>6 DEF CheckOffset, Goto, TypeOK, Steps
  <2>7. CASE ReadIncrementalStamp(c)
    BY <1>0, <2>7 DEF ReadIncrementalStamp, Goto, TypeOK, Steps, Row
  <2>8. CASE ReadTail(c)
    <3>1. draft[c].count \in Nat
      BY DEF TypeOK, Row
    <3>2. SubSeq(Source, draft[c].count + 1, Len(Source)) \in Seq(Msg)
      BY <1>0, <3>1
    <3>3. LoadMessagesFrom(draft[c].count) \in Seq(Msg)
      BY <3>2, ListedType DEF LoadMessagesFrom
    <3>. QED
      BY <2>8, <3>3 DEF ReadTail, Goto, TypeOK, Steps, Row
  <2>9. CASE ReadTailParts(c)
    <3>1. LoadAllParts(c, "incParts", "merge") /\ "incParts" \in Steps /\ "merge" \in Steps
      BY <2>9 DEF ReadTailParts, Steps
    <3>2. pc' = [pc EXCEPT ![c] = "merge"] /\ UNCHANGED <<row, seen>>
      BY <3>1 DEF LoadAllParts, Goto
    <3>3. draft' \in [Capturers -> Row]
      BY <3>1, AllPartsRead
    <3>. QED
      BY <3>1, <3>2, <3>3 DEF TypeOK
  <2>10. CASE Merge(c)
    <3>1. row.payload \o draft[c].payload \in Seq(Msg)
      BY DEF TypeOK, Row
    <3>. QED
      BY <2>10, <3>1 DEF Merge, Goto, TypeOK, Steps, Row
  <2>11. CASE ExportBegin(c)
    <3>1. [NoRow EXCEPT !.tier = "hot", !.accessed = now,
             !.updatedAt = IF StampFirst THEN updated ELSE 0,
             !.payload = IF StampFirst THEN << >> ELSE Source] \in Row
      BY <1>0 DEF NoRow, Row, Tier
    <3>. QED
      BY <2>11, <3>1 DEF ExportBegin, Goto, TypeOK, Steps
  <2>12. CASE ListMessages(c)
    <3>1. Listed(Source) \in Seq(Msg)
      BY <1>0, ListedType
    <3>. QED
      BY <2>12, <3>1 DEF ListMessages, Goto, TypeOK, Steps, Row
  <2>13. CASE ReadParts(c)
    <3>1. LoadAllParts(c, "parts", "save") /\ "parts" \in Steps /\ "save" \in Steps
      BY <2>13 DEF ReadParts, Steps
    <3>2. pc' = [pc EXCEPT ![c] = "save"] /\ UNCHANGED <<row, seen>>
      BY <3>1 DEF LoadAllParts, Goto
    <3>3. draft' \in [Capturers -> Row]
      BY <3>1, AllPartsRead
    <3>. QED
      BY <3>1, <3>2, <3>3 DEF TypeOK
  <2>14. CASE ReadPart(c)
    <3>1. PICK to \in {"part", "save"} : pc' = [pc EXCEPT ![c] = to]
      BY <2>14, PartRead
    <3>2. UNCHANGED <<row, seen>> /\ draft' \in [Capturers -> Row]
      BY <2>14, PartRead
    <3>. QED
      BY <3>1, <3>2 DEF TypeOK, Steps
  <2>15. CASE ReadStampLast(c)
    BY <1>0, <2>15 DEF ReadStampLast, Goto, TypeOK, Steps, Row
  <2>16. CASE SaveSession(c)
    BY <1>0, <2>16, SavedType DEF SaveSession, Finish, Goto, TypeOK, Steps
  <2>17. CASE Abort(c)
    BY <1>0, <2>17 DEF Abort, Finish, Goto, TypeOK, Steps
  <2>18. CASE ReadFails(c)
    BY <2>18 DEF ReadFails, Goto, TypeOK, Steps
  <2>. QED
    BY <2>1, <2>2, <2>3, <2>4, <2>5, <2>6, <2>7, <2>8, <2>9, <2>10, <2>11, <2>12,
       <2>13, <2>14, <2>15, <2>16, <2>17, <2>18 DEF CaptureStep, Capture
<1>. QED
  BY <1>1, CaptureFrame DEF TypeOK

\* A step of a retention run loads a windowed copy of the row or writes it.
LEMMA RetentionStepType == TypeOK /\ RetentionRun => TypeOK'
<1>. SUFFICES ASSUME TypeOK, RetentionRun PROVE TypeOK'
  OBVIOUS
<1>0. now \in Nat /\ NoRow \in Row /\ << >> \in Seq(Msg)
  BY SourceType DEF NoRow, Row
<1>1. /\ UNCHANGED <<sourceVars, captureVars, faults>>
      /\ row' \in Row
      /\ rpc' \in RetainSteps
      /\ runAt' \in Nat
      /\ copy' \in Row
  <2>1. CASE ListWarm
    BY <1>0, <2>1 DEF ListWarm, Run, TypeOK, RetainSteps
  <2>2. CASE GetWarm
    <3>1. CASE UNCHANGED copy
      BY <2>2, <3>1 DEF GetWarm, Run, TypeOK, RetainSteps
    <3>2. ASSUME NEW w \in Windows(row.payload),
                 copy' = [row EXCEPT !.payload = w, !.tier = "warm", !.compacted = TRUE]
          PROVE  copy' \in Row
      BY <3>2, WindowType DEF TypeOK, Row, Tier
    <3>. QED
      BY <2>2, <3>1, <3>2 DEF GetWarm, Run, TypeOK, RetainSteps
  <2>3. CASE PutWarm
    BY <1>0, <2>3, RetainedType DEF PutWarm, PutRetained, Run, TypeOK, RetainSteps
  <2>4. CASE ListCold
    BY <2>4 DEF ListCold, EndRun, Run, TypeOK, RetainSteps
  <2>5. CASE GetCold
    <3>1. [row EXCEPT !.payload = << >>, !.tier = "cold", !.compacted = TRUE] \in Row
      BY <1>0 DEF TypeOK, Row, Tier
    <3>. QED
      BY <2>5, <3>1 DEF GetCold, EndRun, Run, TypeOK, RetainSteps
  <2>6. CASE PutCold
    BY <1>0, <2>6, RetainedType DEF PutCold, PutRetained, Run, TypeOK, RetainSteps
  <2>. QED
    BY <2>1, <2>2, <2>3, <2>4, <2>5, <2>6 DEF RetentionRun
<1>. QED
  BY <1>1 DEF TypeOK, sourceVars, captureVars, now

\* Reading and deleting a session leave a row or none.
LEMMA ReaderStepType == TypeOK /\ (Touch \/ Delete) => TypeOK'
<1>1. TypeOK => now \in Nat /\ NoRow \in Row
  BY SourceType DEF NoRow, Row
<1>2. TypeOK /\ Touch => TypeOK'
  BY <1>1 DEF Touch, Touched, TypeOK, Row, sourceVars, captureVars, retainVars, now
<1>3. TypeOK /\ Delete => TypeOK'
  BY <1>1 DEF Delete, TypeOK, sourceVars, captureVars, retainVars, now
<1>. QED
  BY <1>2, <1>3

LEMMA NextType == TypeOK /\ [Next]_vars => TypeOK'
<1>1. TypeOK /\ Next => TypeOK'
  BY SourceStepType, CaptureStepType, RetentionStepType, ReaderStepType DEF Next, CaptureStep
<1>2. TypeOK /\ UNCHANGED vars => TypeOK'
  BY DEF TypeOK, vars, now
<1>. QED
  BY <1>1, <1>2

\* Every state of every capture and retention is of the declared types.
THEOREM TypeCorrect == Spec => []TypeOK
BY InitType, NextType, PTL DEF Spec

-----------------------------------------------------------------------------
(* The order of the source.                                                *)

Ascending(p) == \A i, j \in 1 .. Len(p) : i < j => p[i].id < p[j].id

\* The tool writes its messages in order, with identities it has not used yet.
SourceOrdered ==
  \A t \in 1 .. now :
    Ascending(timeline[t]) /\ \A i \in 1 .. Len(timeline[t]) : timeline[t][i].id <= t

\* A new instant whose messages are in order keeps the source ordered.
LEMMA InstantAdded ==
  ASSUME TypeOK, SourceOrdered, NEW msgs \in Seq(Msg), Ascending(msgs),
         \A i \in 1 .. Len(msgs) : msgs[i].id <= now + 1,
         timeline' = Append(timeline, msgs)
  PROVE  /\ SourceOrdered'
         /\ now' = now + 1 /\ timeline'[now + 1] = msgs
         /\ \A t \in 1 .. now : timeline'[t] = timeline[t]
<1>1. /\ now \in Nat /\ now' = now + 1 /\ timeline'[now + 1] = msgs
      /\ \A t \in 1 .. now : timeline'[t] = timeline[t]
  BY DEF TypeOK, now
<1>2. ASSUME NEW t \in 1 .. now + 1
      PROVE  /\ Ascending(timeline'[t])
             /\ \A i \in 1 .. Len(timeline'[t]) : timeline'[t][i].id <= t
  <2>1. CASE t = now + 1
    <3>1. timeline'[t] = msgs
      BY <1>1, <2>1
    <3>. QED
      BY <2>1, <3>1
  <2>2. CASE t \in 1 .. now
    <3>1. timeline'[t] = timeline[t]
      BY <1>1, <2>2
    <3>. QED
      BY <2>2, <3>1 DEF SourceOrdered
  <2>3. t = now + 1 \/ t \in 1 .. now
    BY <1>1
  <2>. QED
    BY <2>1, <2>2, <2>3
<1>3. SourceOrdered'
  BY <1>1, <1>2 DEF SourceOrdered, Ascending
<1>. QED
  BY <1>1, <1>3

\* Every write of the source adds such an instant.
LEMMA SourceAdds ==
  ASSUME TypeOK, SourceOrdered, AppendMessage \/ ReviseLast \/ Rewind \/ Tick
  PROVE  \E msgs \in Seq(Msg) :
           /\ Ascending(msgs)
           /\ \A i \in 1 .. Len(msgs) : msgs[i].id <= now + 1
           /\ timeline' = Append(timeline, msgs)
<1>0. /\ now \in Nat /\ now > 0 /\ Source \in Seq(Msg) /\ Len(Source) \in Nat
      /\ \A i \in 1 .. Len(Source) : Source[i] \in Msg /\ Source[i].id \in Nat
  <2>1. now \in Nat /\ now > 0 /\ Source \in Seq(Msg) /\ Len(Source) \in Nat
    BY SourceType DEF TypeOK
  <2>2. \A m \in Msg : m.id \in Nat
    BY DEF Msg
  <2>3. \A i \in 1 .. Len(Source) : Source[i] \in Msg
    BY <2>1
  <2>. QED
    BY <2>1, <2>2, <2>3
<1>1. Ascending(Source) /\ \A i \in 1 .. Len(Source) : Source[i].id <= now
  BY <1>0 DEF SourceOrdered, Source
<1>2. CASE AppendMessage
  <2>. DEFINE m == NewMessage(FreshId)
              msgs == Append(Source, m)
  <2>1. m \in Msg /\ m.id = now + 1
    BY <1>0, NewMessageType DEF FreshId
  <2>2. /\ msgs \in Seq(Msg) /\ Len(msgs) = Len(Source) + 1
        /\ msgs[Len(Source) + 1] = m
        /\ \A i \in 1 .. Len(Source) : msgs[i] = Source[i]
    BY <1>0, <2>1
  <2>3. \A i \in 1 .. Len(msgs) : i \in 1 .. Len(Source) \/ i = Len(Source) + 1
    BY <1>0, <2>2
  <2>. HIDE DEF m, msgs
  <2>4. Ascending(msgs)
    BY <1>0, <1>1, <2>1, <2>2, <2>3 DEF Ascending
  <2>5. \A i \in 1 .. Len(msgs) : msgs[i].id <= now + 1
    BY <1>0, <1>1, <2>1, <2>2, <2>3
  <2>6. timeline' = Append(timeline, msgs)
    BY <1>2 DEF AppendMessage, SourceWrite, m, msgs
  <2>. QED
    BY <2>2, <2>4, <2>5, <2>6
<1>3. CASE ReviseLast
  <2>. DEFINE L == Len(Source)
              msgs == [Source EXCEPT ![L].rev = 1]
  <2>1. L \in 1 .. Len(Source)
    BY <1>0, <1>3 DEF ReviseLast
  <2>2. [Source[L] EXCEPT !.rev = 1] \in Msg /\ [Source[L] EXCEPT !.rev = 1].id = Source[L].id
    BY <1>0, <2>1 DEF Msg
  <2>3. msgs \in Seq(Msg) /\ Len(msgs) = Len(Source)
    BY <1>0, <2>1, <2>2
  <2>4. \A i \in 1 .. Len(Source) : msgs[i].id = Source[i].id
    BY <1>0, <2>1, <2>2
  <2>5. timeline' = Append(timeline, msgs)
    BY <1>3 DEF ReviseLast, SourceWrite
  <2>. HIDE DEF msgs
  <2>6. Ascending(msgs) /\ \A i \in 1 .. Len(msgs) : msgs[i].id <= now + 1
    BY <1>0, <1>1, <2>3, <2>4 DEF Ascending
  <2>. QED
    BY <2>3, <2>5, <2>6
<1>4. CASE Rewind
  <2>1. PICK n \in 1 .. Len(Source) - 1 : SourceWrite(SubSeq(Source, 1, n))
    BY <1>4 DEF Rewind
  <2>. DEFINE msgs == SubSeq(Source, 1, n)
  <2>2. /\ msgs \in Seq(Msg) /\ Len(msgs) = n
        /\ \A i \in 1 .. n : i \in 1 .. Len(Source) /\ msgs[i] = Source[i]
    BY <1>0
  <2>3. timeline' = Append(timeline, msgs)
    BY <2>1 DEF SourceWrite
  <2>. HIDE DEF msgs
  <2>4. Ascending(msgs) /\ \A i \in 1 .. Len(msgs) : msgs[i].id <= now + 1
    BY <1>0, <1>1, <2>2 DEF Ascending
  <2>. QED
    BY <2>2, <2>3, <2>4
<1>5. CASE Tick
  BY <1>0, <1>1, <1>5 DEF Tick
<1>. QED
  BY <1>2, <1>3, <1>4, <1>5

LEMMA SourceOrderedInit == Init => SourceOrdered
<1>. SUFFICES ASSUME Init PROVE SourceOrdered
  OBVIOUS
<1>. DEFINE m == NewMessage(1)
            first == << m >>
<1>1. now = 1 /\ timeline[1] = first
  BY DEF Init, now
<1>2. m.id = 1
  BY NewMessageType
<1>. HIDE DEF m
<1>3. Len(first) = 1 /\ first[1].id = 1
  BY <1>2
<1>. HIDE DEF first
<1>. QED
  BY <1>1, <1>3 DEF SourceOrdered, Ascending

\* The order is kept by every step, and so is the past.
LEMMA SourceStepOrdered ==
  ASSUME TypeOK, SourceOrdered, AppendMessage \/ ReviseLast \/ Rewind \/ Tick
  PROVE  /\ SourceOrdered' /\ now' = now + 1
         /\ \A t \in 1 .. now : timeline'[t] = timeline[t]
<1>1. PICK msgs \in Seq(Msg) :
        /\ Ascending(msgs)
        /\ \A i \in 1 .. Len(msgs) : msgs[i].id <= now + 1
        /\ timeline' = Append(timeline, msgs)
  BY SourceAdds
<1>. QED
  BY <1>1, InstantAdded

LEMMA SourceStays ==
  ASSUME SourceOrdered, UNCHANGED timeline
  PROVE  SourceOrdered'
<1>1. now' = now
  BY DEF now
<1>. QED
  BY <1>1 DEF SourceOrdered

\* No two messages of the source have one identity.
LEMMA SourceDistinct ==
  ASSUME TypeOK, SourceOrdered, NEW i \in 1 .. Len(Source), NEW m \in Msg, m.id = Source[i].id
  PROVE  WithParts(m) = Source[i]
<1>1. Source \in Seq(Msg) /\ now \in 1 .. now /\ Len(Source) \in Nat
  BY SourceType DEF TypeOK
<1>2. Ascending(Source)
  BY <1>1 DEF SourceOrdered, Source
<1>3. \A j \in 1 .. Len(Source) : Source[j].id \in Nat
  <2>1. \A j \in 1 .. Len(Source) : Source[j] \in Msg
    BY <1>1
  <2>. QED
    BY <2>1 DEF Msg
<1>4. \A j \in 1 .. Len(Source) : Source[j].id = Source[i].id => j = i
  BY <1>1, <1>2, <1>3 DEF Ascending
<1>5. Source[i] \in Elements(Source)
  BY DEF Elements
<1>6. WithParts(m) \in Elements(Source) /\ WithParts(m).id = m.id
  BY <1>5 DEF WithParts
<1>. QED
  BY <1>4, <1>6 DEF Elements

-----------------------------------------------------------------------------
(* Full exports that read the stamp before the messages.                   *)

\* Sequences that have the messages of the source, one by one.
HoldsAll(p) == Len(p) = Len(Source) /\ \A i \in 1 .. Len(Source) : Holds(p[i], Source[i])

\* If nothing was written since the stamp was read, the payload is complete.
Snapshot(r) == r.updatedAt \in 1 .. updated /\ (r.updatedAt = updated => HoldsAll(r.payload))

\* The inductive invariant behind HotIsComplete.  Stored, Stamped, Listing, Saving: a
\* stamp is never newer than the messages that go with it, in the row and in every
\* capture on its way to the row, and parts are read one by one after a failure only.
\* Compacting: what retention writes is not hot.
Stored     == row.tier = "hot" => Snapshot(row)
NoTail     == \A c \in Capturers :
                pc[c] \in {"idle", "stamp", "compare", "export", "list", "parts", "part",
                           "finish", "save"}
Stamped    == \A c \in Capturers :
                /\ pc[c] # "finish"
                /\ pc[c] \in {"list", "parts"} => draft[c].updatedAt \in 1 .. updated
Listing    == \A c \in Capturers :
                pc[c] = "parts" /\ draft[c].updatedAt = updated => draft[c].payload = Listed(Source)
Saving     == \A c \in Capturers :
                /\ pc[c] = "part" => faults > 0
                /\ pc[c] \in {"part", "save"} => Snapshot(draft[c])
Compacting == rpc \in {"warmPut", "coldPut"} => copy.tier # "hot"

HotInv ==
  TypeOK /\ SourceOrdered /\ Stored /\ NoTail /\ Stamped /\ Listing /\ Saving /\ Compacting

FullExports == ~Incremental /\ StampFirst

\* A fresh hot row was read after the last change of the source.
LEMMA HotInvImplies == HotInv => HotIsComplete
BY DEF HotInv, Stored, Snapshot, HoldsAll, HotIsComplete, Complete, Fresh, Unchanged

LEMMA HotInit == Init => HotInv
<1>. SUFFICES ASSUME Init PROVE HotInv
  OBVIOUS
<1>1. TypeOK /\ SourceOrdered
  BY InitType, SourceOrderedInit
<1>. QED
  BY <1>1 DEF Init, HotInv, Stored, NoTail, Stamped, Listing, Saving, Compacting, NoRow

\* What is complete under the stamp stays so: the source is not written without
\* the stamp, and what has failed has failed.
LEMMA SnapshotKept ==
  ASSUME faults \in Nat, faults' \in Nat, faults' >= faults,
         updated \in Nat, updated' \in Nat,
         \/ updated' > updated
         \/ updated' = updated /\ Source' = Source
  PROVE  \A r \in Row : Snapshot(r) => Snapshot(r)'
<1>. SUFFICES ASSUME NEW r \in Row, Snapshot(r) PROVE Snapshot(r)'
  OBVIOUS
<1>1. r.updatedAt \in 1 .. updated /\ r.updatedAt \in Nat
  BY DEF Snapshot, Row
<1>2. CASE updated' > updated
  BY <1>1, <1>2 DEF Snapshot
<1>3. CASE updated' = updated /\ Source' = Source
  <2>1. HoldsAll(r.payload) => HoldsAll(r.payload)'
    BY <1>3 DEF HoldsAll, Holds
  <2>. QED
    BY <1>1, <1>3, <2>1 DEF Snapshot
<1>. QED
  BY <1>2, <1>3

LEMMA HotSourceStep ==
  ASSUME HotInv, AppendMessage \/ ReviseLast \/ Rewind \/ Tick
  PROVE  HotInv'
<1>0. /\ TypeOK /\ TypeOK' /\ SourceOrdered' /\ now \in Nat /\ now' = now + 1
      /\ updated \in 1 .. now /\ faults \in Nat
  BY SourceStepType, SourceStepOrdered, SourceType DEF HotInv, TypeOK
<1>1. /\ UNCHANGED <<row, pc, draft, rpc, copy, faults>>
      /\ \/ updated' = now + 1
         \/ updated' = updated /\ timeline' = Append(timeline, Source)
  BY DEF AppendMessage, ReviseLast, Rewind, Tick, SourceWrite, captureVars, retainVars
<1>2. \/ updated' > updated
      \/ updated' = updated /\ Source' = Source
  BY <1>0, <1>1 DEF Source, now, TypeOK
<1>3. updated' \in Nat /\ updated \in Nat /\ updated <= updated'
  BY <1>0, <1>1
<1>4. \A r \in Row : Snapshot(r) => Snapshot(r)'
  BY <1>0, <1>1, <1>2, <1>3, SnapshotKept
<1>5. row \in Row /\ \A c \in Capturers : draft[c] \in Row /\ draft[c].updatedAt \in Nat
  BY <1>0 DEF TypeOK, Row
<1>6. Stored'
  BY <1>1, <1>4, <1>5 DEF Stored, HotInv
<1>7. NoTail' /\ Compacting'
  BY <1>1 DEF NoTail, Compacting, HotInv
<1>8. Stamped'
  BY <1>1, <1>3, <1>5 DEF Stamped, HotInv
<1>9. Listing'
  BY <1>1, <1>2, <1>3, <1>5 DEF Listing, Stamped, HotInv
<1>10. Saving'
  BY <1>1, <1>4, <1>5 DEF Saving, HotInv
<1>. QED
  BY <1>0, <1>6, <1>7, <1>8, <1>9, <1>10 DEF HotInv

\* The parts of listed messages are those of the source.
LEMMA FilledHolds ==
  ASSUME TypeOK, SourceOrdered, NEW q \in Seq(Msg), NEW p, Len(p) = Len(Source),
         \/ q = Listed(Source) /\ \A i \in 1 .. Len(Source) : p[i] = WithParts(q[i])
         \/ HoldsAll(q) /\ \A i \in 1 .. Len(Source) : p[i] \in {q[i], WithParts(q[i])}
  PROVE  HoldsAll(p)
<1>1. Source \in Seq(Msg)
  BY SourceType
<1>2. ASSUME NEW i \in 1 .. Len(Source) PROVE Holds(p[i], Source[i])
  <2>1. Source[i] \in Msg
    BY <1>1
  <2>2. [Source[i] EXCEPT !.rev = 0] \in Msg /\ [Source[i] EXCEPT !.rev = 0].id = Source[i].id
    BY <2>1 DEF Msg
  <2>3. CASE q = Listed(Source) /\ p[i] = WithParts(q[i])
    <3>1. q[i] \in Msg /\ q[i].id = Source[i].id
      BY <1>1, <2>3, ListedType
    <3>. QED
      BY <2>3, <3>1, SourceDistinct DEF Holds
  <2>4. CASE HoldsAll(q) /\ p[i] \in {q[i], WithParts(q[i])}
    <3>1. Holds(q[i], Source[i])
      BY <2>4 DEF HoldsAll
    <3>2. q[i] \in Msg /\ q[i].id = Source[i].id
      BY <2>1, <2>2, <3>1 DEF Holds
    <3>3. WithParts(q[i]) = Source[i]
      BY <3>2, SourceDistinct
    <3>. QED
      BY <2>4, <3>1, <3>3 DEF Holds
  <2>. QED
    BY <2>3, <2>4
<1>. QED
  BY <1>2 DEF HoldsAll

\* A capture step that leaves the row alone moves a snapshot along; the save
\* writes it.
LEMMA HotCaptureStep ==
  ASSUME HotInv, FullExports, NEW c \in Capturers, CaptureStep(c)
  PROVE  HotInv'
<1>0. /\ TypeOK /\ TypeOK' /\ updated \in Nat /\ updated > 0 /\ faults \in Nat
      /\ UNCHANGED <<timeline, updated, rpc, copy>> /\ Source' = Source
      /\ faults' \in Nat /\ faults' >= faults
      /\ \A d \in Capturers \ {c} : pc'[d] = pc[d] /\ draft'[d] = draft[d]
      /\ row \in Row /\ draft[c] \in Row
  BY CaptureStepType, CaptureFrame DEF HotInv, TypeOK
<1>1. SourceOrdered' /\ Compacting'
  BY <1>0, SourceStays DEF HotInv, Compacting
<1>2. \A r \in Row : Snapshot(r) => Snapshot(r)'
  BY <1>0, SnapshotKept
<1>3. /\ row' = row \/ Snapshot(row')
      /\ pc'[c] \in {"idle", "stamp", "compare", "export", "list", "parts", "part", "save"}
      /\ pc'[c] \in {"list", "parts"} => draft'[c].updatedAt \in 1 .. updated
      /\ pc'[c] = "parts" /\ draft'[c].updatedAt = updated => draft'[c].payload = Listed(Source)
      /\ pc'[c] = "part" => faults' > 0
      /\ pc'[c] = "save" => Snapshot(draft'[c])
      /\ pc'[c] = "part" => Snapshot(draft[c])'
  <2>1. CASE CountSource(c) \/ StampSource(c) \/ ChooseExport(c)
    BY <2>1 DEF CountSource, StampSource, ChooseExport, Goto, FullExports, HotInv, TypeOK
  <2>2. CASE Skip(c) \/ Abort(c)
    BY <2>2 DEF Skip, Abort, Finish, Goto, HotInv, TypeOK
  <2>3. CASE ReadOffset(c) \/ CheckOffset(c) \/ ReadIncrementalStamp(c) \/ ReadTail(c)
             \/ ReadTailParts(c) \/ Merge(c) \/ ReadStampLast(c)
    BY <2>3 DEF ReadOffset, CheckOffset, ReadIncrementalStamp, ReadTail, ReadTailParts,
       LoadAllParts, Merge, ReadStampLast, Goto, HotInv, NoTail, Stamped
  <2>4. CASE ExportBegin(c)
    <3>1. pc'[c] = "list" /\ row' = row
      BY <2>4 DEF ExportBegin, Goto, FullExports, HotInv, TypeOK
    <3>2. draft'[c].updatedAt = updated
      BY <2>4 DEF ExportBegin, FullExports, HotInv, TypeOK, NoRow
    <3>. QED
      BY <1>0, <3>1, <3>2
  <2>5. CASE ListMessages(c)
    <3>1. pc[c] = "list" /\ pc'[c] = "parts" /\ row' = row
      BY <2>5 DEF ListMessages, Goto, HotInv, TypeOK
    <3>2. draft'[c].updatedAt = draft[c].updatedAt /\ draft'[c].payload = Listed(Source)
      BY <2>5 DEF ListMessages, HotInv, TypeOK, Row
    <3>. QED
      BY <3>1, <3>2 DEF HotInv, Stamped
  <2>6. CASE ReadParts(c)
    <3>1. LoadAllParts(c, "parts", "save") /\ "parts" \in Steps /\ "save" \in Steps
      BY <2>6 DEF ReadParts, Steps
    <3>2. pc[c] = "parts" /\ pc'[c] = "save" /\ row' = row
      BY <1>0, <3>1 DEF LoadAllParts, Goto, TypeOK
    <3>3. PICK p \in Seq(Msg) :
            /\ draft'[c] = [draft[c] EXCEPT !.payload = p]
            /\ Len(p) = Len(draft[c].payload)
            /\ \A i \in 1 .. Len(p) : p[i] = WithParts(draft[c].payload[i])
      BY <1>0, <3>1, AllPartsRead
    <3>4. draft'[c].payload = p /\ draft'[c].updatedAt = draft[c].updatedAt
      BY <1>0, <3>3 DEF Row
    <3>5. draft[c].updatedAt \in 1 .. updated
      BY <3>2 DEF HotInv, Stamped
    <3>6. ASSUME draft[c].updatedAt = updated PROVE HoldsAll(p)
      <4>1. draft[c].payload = Listed(Source) /\ Source \in Seq(Msg)
        BY <1>0, <3>2, <3>6, SourceType DEF HotInv, Listing
      <4>2. Len(p) = Len(Source) /\ draft[c].payload \in Seq(Msg)
        BY <3>3, <4>1, ListedType
      <4>. QED
        BY <1>0, <3>3, <4>1, <4>2, FilledHolds DEF HotInv
    <3>. QED
      BY <3>2, <3>4, <3>5, <3>6 DEF Snapshot
  <2>7. CASE ReadPart(c)
    <3>1. pc[c] = "part" /\ pc'[c] \in {"part", "save"} /\ row' = row /\ faults' = faults
      BY <1>0, <2>7, PartRead DEF TypeOK
    <3>2. PICK p \in Seq(Msg), n \in Nat :
            /\ draft'[c] = [draft[c] EXCEPT !.payload = p, !.count = n]
            /\ Len(p) = Len(draft[c].payload)
            /\ \A i \in 1 .. Len(p) : p[i] \in {draft[c].payload[i], WithParts(draft[c].payload[i])}
      BY <1>0, <2>7, PartRead
    <3>3. draft'[c].payload = p /\ draft'[c].updatedAt = draft[c].updatedAt
      BY <1>0, <3>2 DEF Row
    <3>4. Snapshot(draft[c]) /\ faults > 0
      BY <3>1 DEF HotInv, Saving
    <3>5. ASSUME HoldsAll(draft[c].payload) PROVE HoldsAll(p)
      <4>1. Len(p) = Len(Source) /\ draft[c].payload \in Seq(Msg)
        BY <1>0, <3>2, <3>5 DEF HoldsAll, Row
      <4>. QED
        BY <1>0, <3>2, <3>5, <4>1, FilledHolds DEF HotInv
    <3>6. Snapshot(draft'[c]) /\ draft'[c] \in Row
      BY <1>0, <3>3, <3>4, <3>5 DEF Snapshot, TypeOK
    <3>. QED
      BY <1>2, <3>1, <3>4, <3>6
  <2>8. CASE SaveSession(c)
    <3>1. Snapshot(draft[c]) /\ pc'[c] = "idle"
      BY <2>8 DEF SaveSession, Finish, Goto, HotInv, Saving, TypeOK
    <3>2. row'.payload = draft[c].payload /\ row'.updatedAt = draft[c].updatedAt
      BY <2>8 DEF SaveSession, Saved, HotInv, TypeOK, Row
    <3>. QED
      BY <3>1, <3>2 DEF Snapshot
  <2>9. CASE ReadFails(c)
    <3>1. /\ row' = row /\ draft'[c] = draft[c] /\ faults' = faults + 1
          /\ \/ pc[c] \in {"stamp", "compare"} /\ pc'[c] = "export"
             \/ pc[c] = "parts" /\ pc'[c] = "part"
      BY <2>9 DEF ReadFails, Goto, FullExports, HotInv, NoTail, Stamped, TypeOK
    <3>2. ASSUME pc[c] = "parts" PROVE Snapshot(draft[c])'
      <4>1. draft[c].updatedAt \in 1 .. updated
        BY <3>2 DEF HotInv, Stamped
      <4>2. ASSUME draft[c].updatedAt = updated PROVE HoldsAll(draft[c].payload)'
        <5>1. draft[c].payload = Listed(Source) /\ Source \in Seq(Msg)
          BY <1>0, <3>2, <4>2, SourceType DEF HotInv, Listing
        <5>2. Len(Listed(Source)) = Len(Source)
          BY <5>1, ListedType
        <5>3. \A i \in 1 .. Len(Source) : Listed(Source)[i] = [Source[i] EXCEPT !.rev = 0]
          BY DEF Listed
        <5>4. faults' > 0
          BY <1>0, <3>1
        <5>. QED
          BY <1>0, <3>1, <5>1, <5>2, <5>3, <5>4 DEF HoldsAll, Holds
      <4>. QED
        BY <1>0, <3>1, <4>1, <4>2 DEF Snapshot
    <3>. QED
      BY <1>0, <3>1, <3>2
  <2>. QED
    BY <2>1, <2>2, <2>3, <2>4, <2>5, <2>6, <2>7, <2>8, <2>9 DEF CaptureStep, Capture
<1>4. Stored'
  <2>1. CASE row' = row
    BY <1>0, <1>2, <2>1 DEF Stored, HotInv
  <2>2. CASE Snapshot(row')
    BY <1>0, <1>2, <2>2 DEF Stored, TypeOK
  <2>. QED
    BY <1>3, <2>1, <2>2
<1>5. NoTail' /\ Stamped'
  BY <1>0, <1>3 DEF NoTail, Stamped, HotInv
<1>6. Listing'
  BY <1>0, <1>3 DEF Listing, HotInv
<1>7. Saving'
  <2>1. ASSUME NEW d \in Capturers
        PROVE  /\ pc'[d] = "part" => faults' > 0
               /\ pc'[d] \in {"part", "save"} => Snapshot(draft[d])'
    <3>1. CASE d = c
      <4>1. draft'[c] \in Row
        BY <1>0 DEF TypeOK
      <4>. QED
        BY <1>2, <1>3, <3>1, <4>1
    <3>2. CASE d # c
      <4>1. draft[d] \in Row /\ draft'[d] = draft[d] /\ pc'[d] = pc[d]
        BY <1>0, <3>2 DEF TypeOK
      <4>2. pc[d] = "part" => faults' > 0
        BY <1>0 DEF HotInv, Saving
      <4>. QED
        BY <1>2, <4>1, <4>2 DEF HotInv, Saving
    <3>. QED
      BY <3>1, <3>2
  <2>. QED
    BY <2>1 DEF Saving
<1>. QED
  BY <1>0, <1>1, <1>4, <1>5, <1>6, <1>7 DEF HotInv

\* Retention only ever writes warm and cold payloads.
LEMMA HotRetentionStep == HotInv /\ RetentionRun => HotInv'
<1>. SUFFICES ASSUME HotInv, RetentionRun PROVE HotInv'
  OBVIOUS
<1>0. TypeOK' /\ UNCHANGED <<sourceVars, captureVars, faults>>
  BY RetentionStepType DEF HotInv, RetentionRun, ListWarm, GetWarm, PutWarm, PutRetained,
     ListCold, GetCold, PutCold
<1>1. SourceOrdered' /\ NoTail' /\ Stamped' /\ Listing' /\ Saving'
  BY <1>0, SourceStays DEF HotInv, NoTail, Stamped, Listing, Saving, Snapshot, HoldsAll, Holds,
     Source, now, sourceVars, captureVars
<1>2. Compacting' /\ (row' = row \/ row'.tier # "hot")
  <2>1. CASE ListWarm \/ ListCold
    BY <2>1 DEF ListWarm, ListCold, EndRun, Run, Compacting
  <2>2. CASE GetWarm
    BY <2>2 DEF GetWarm, Run, Compacting, HotInv, TypeOK, Row
  <2>3. CASE GetCold
    BY <2>3 DEF GetCold, EndRun, Run, Compacting, HotInv, TypeOK, Row
  <2>4. CASE PutWarm \/ PutCold
    BY <2>4 DEF PutWarm, PutCold, PutRetained, Retained, Run, Compacting, HotInv, TypeOK, Row
  <2>. QED
    BY <2>1, <2>2, <2>3, <2>4 DEF RetentionRun
<1>3. Stored'
  BY <1>0, <1>2 DEF Stored, Snapshot, HoldsAll, Holds, HotInv, Source, now, sourceVars
<1>. QED
  BY <1>0, <1>1, <1>2, <1>3 DEF HotInv

\* A reader moves last_accessed_at, the garbage collector removes the row.
LEMMA HotReaderStep == HotInv /\ (Touch \/ Delete) => HotInv'
<1>. SUFFICES ASSUME HotInv, Touch \/ Delete PROVE HotInv'
  OBVIOUS
<1>0. /\ TypeOK /\ TypeOK' /\ UNCHANGED <<timeline, updated, pc, draft, rpc, copy>>
      /\ faults' \in {faults, faults + 1} /\ faults \in Nat
  BY ReaderStepType DEF HotInv, TypeOK, Touch, Delete, sourceVars, captureVars, retainVars
<1>1. \/ row' = NoRow
      \/ /\ row'.tier = row.tier /\ row'.payload = row.payload
         /\ row'.updatedAt = row.updatedAt
  BY DEF Touch, Touched, Delete, HotInv, TypeOK, Row
<1>2. Source' = Source /\ updated \in Nat /\ faults' \in Nat /\ faults' >= faults
  BY <1>0 DEF Source, now, TypeOK
<1>3. \A r \in Row : Snapshot(r) => Snapshot(r)'
  BY <1>0, <1>2, SnapshotKept
<1>4. Stored'
  <2>1. CASE row' = NoRow
    BY <2>1 DEF Stored, NoRow
  <2>2. CASE row'.tier = row.tier /\ row'.payload = row.payload /\ row'.updatedAt = row.updatedAt
    <3>1. row'.tier = "hot" => Snapshot(row')
      BY <2>2 DEF Stored, Snapshot, HotInv
    <3>. QED
      BY <1>0, <1>3, <3>1 DEF Stored, TypeOK
  <2>. QED
    BY <1>1, <2>1, <2>2
<1>5. SourceOrdered' /\ NoTail' /\ Stamped' /\ Compacting'
  BY <1>0, SourceStays DEF HotInv, NoTail, Stamped, Compacting
<1>6. Listing'
  BY <1>0, <1>2 DEF HotInv, Listing
<1>7. Saving'
  BY <1>0, <1>2, <1>3 DEF HotInv, Saving, TypeOK
<1>. QED
  BY <1>0, <1>4, <1>5, <1>6, <1>7 DEF HotInv

LEMMA HotNext == FullExports /\ HotInv /\ [Next]_vars => HotInv'
<1>1. FullExports /\ HotInv /\ Next => HotInv'
  BY HotSourceStep, HotCaptureStep, HotRetentionStep, HotReaderStep DEF Next, CaptureStep
<1>2. HotInv /\ UNCHANGED vars => HotInv'
  BY NextType, SourceStays DEF HotInv, Stored, NoTail, Stamped, Listing, Saving, Compacting,
     Snapshot, HoldsAll, Holds, Source, now, vars
<1>. QED
  BY <1>1, <1>2

\* With full exports that read the stamp first (OpenCode's), a hot session whose
\* stored count and stamp match the source is stored completely, apart from parts a
\* failed query did not give, whatever other captures, retention, readers and the
\* garbage collector do in between: hot sessions keep their original payload.
THEOREM HotComplete ==
  ASSUME FullExports
  PROVE  Spec => []HotIsComplete
<1>1. HotInv /\ [Next]_vars => HotInv'
  BY HotNext
<1>. QED
  BY HotInit, <1>1, HotInvImplies, PTL DEF Spec

-----------------------------------------------------------------------------
(* Without retention every stored session is hot.                          *)

NeverCompacted ==
  /\ rpc = "idle"
  /\ row.tier # "hot" => row = NoRow
  /\ \A c \in Capturers : pc[c] \in {"list", "parts", "part", "save"} => draft[c].tier = "hot"

LEMMA NeverCompactedStep ==
  ~Retention /\ FullExports /\ HotInv /\ NeverCompacted /\ [Next]_vars => NeverCompacted'
<1>. SUFFICES ASSUME ~Retention, FullExports, HotInv, NeverCompacted, [Next]_vars
              PROVE  NeverCompacted'
  OBVIOUS
<1>1. ASSUME NEW c \in Capturers, CaptureStep(c) PROVE NeverCompacted'
  <2>0. /\ UNCHANGED rpc /\ draft[c] \in Row
        /\ \A d \in Capturers \ {c} : pc'[d] = pc[d] /\ draft'[d] = draft[d]
    BY <1>1, CaptureFrame DEF HotInv, TypeOK
  <2>1. /\ row' = row \/ row'.tier = "hot"
        /\ pc'[c] \in {"list", "parts", "part", "save"} => draft'[c].tier = "hot"
    <3>1. CASE CountSource(c) \/ StampSource(c) \/ ChooseExport(c)
      BY <3>1 DEF CountSource, StampSource, ChooseExport, Goto, FullExports, HotInv, TypeOK
    <3>2. CASE Skip(c) \/ Abort(c)
      BY <3>2 DEF Skip, Abort, Finish, Goto, HotInv, TypeOK
    <3>3. CASE ReadOffset(c) \/ CheckOffset(c) \/ ReadIncrementalStamp(c) \/ ReadTail(c)
               \/ ReadTailParts(c) \/ Merge(c) \/ ReadStampLast(c)
      BY <3>3 DEF ReadOffset, CheckOffset, ReadIncrementalStamp, ReadTail, ReadTailParts,
         LoadAllParts, Merge, ReadStampLast, Goto, HotInv, NoTail, Stamped
    <3>4. CASE ExportBegin(c)
      BY <3>4 DEF ExportBegin, HotInv, TypeOK, NoRow
    <3>5. CASE ListMessages(c)
      BY <2>0, <3>5 DEF ListMessages, Goto, HotInv, TypeOK, Row, NeverCompacted
    <3>6. CASE ReadParts(c)
      <4>1. LoadAllParts(c, "parts", "save") /\ "parts" \in Steps /\ "save" \in Steps
        BY <3>6 DEF ReadParts, Steps
      <4>2. pc[c] = "parts" /\ row' = row
        BY <4>1 DEF LoadAllParts, Goto
      <4>3. draft'[c].tier = draft[c].tier
        BY <2>0, <4>1, AllPartsRead DEF HotInv, Row
      <4>. QED
        BY <4>2, <4>3 DEF NeverCompacted
    <3>7. CASE ReadPart(c)
      <4>1. pc[c] = "part" /\ row' = row
        BY <3>7 DEF ReadPart, Goto
      <4>2. draft'[c].tier = draft[c].tier
        BY <2>0, <3>7, PartRead DEF HotInv, Row
      <4>. QED
        BY <4>1, <4>2 DEF NeverCompacted
    <3>8. CASE SaveSession(c)
      BY <2>0, <3>8 DEF SaveSession, Finish, Goto, Saved, HotInv, TypeOK, Row, NeverCompacted
    <3>9. CASE ReadFails(c)
      BY <3>9 DEF ReadFails, Goto, FullExports, HotInv, NoTail, Stamped, TypeOK, NeverCompacted
    <3>. QED
      BY <1>1, <3>1, <3>2, <3>3, <3>4, <3>5, <3>6, <3>7, <3>8, <3>9 DEF CaptureStep, Capture
  <2>. QED
    BY <2>0, <2>1 DEF NeverCompacted
<1>2. CASE AppendMessage \/ ReviseLast \/ Rewind \/ Tick
  BY <1>2 DEF AppendMessage, ReviseLast, Rewind, Tick, SourceWrite, NeverCompacted,
     captureVars, retainVars
<1>3. CASE RetentionRun
  BY <1>3 DEF RetentionRun, ListWarm, GetWarm, PutWarm, PutRetained, ListCold, GetCold,
     PutCold, EndRun, Run, NeverCompacted
<1>4. CASE Touch \/ Delete
  BY <1>4 DEF Touch, Delete, NeverCompacted, captureVars, retainVars
<1>5. CASE UNCHANGED vars
  BY <1>5 DEF vars, NeverCompacted
<1>. QED
  BY <1>1, <1>2, <1>3, <1>4, <1>5 DEF Next, CaptureStep

\* Where retention is off, a session that would be skipped as unchanged is
\* stored completely, apart from parts a failed query did not give, whatever the
\* tool streams or rewinds and however many processes capture at once.
THEOREM SkipSound ==
  ASSUME FullExports, ~Retention
  PROVE  Spec => []SkipIsSound
<1>1. Init => HotInv /\ NeverCompacted
  BY HotInit DEF Init, NeverCompacted
<1>2. HotInv /\ NeverCompacted /\ [Next]_vars => (HotInv /\ NeverCompacted)'
  BY HotNext, NeverCompactedStep
<1>3. HotInv /\ NeverCompacted => SkipIsSound
  BY HotInvImplies DEF HotIsComplete, SkipIsSound, NeverCompacted, Fresh, Unchanged, NoRow
<1>. QED
  BY <1>1, <1>2, <1>3, PTL DEF Spec
-----------------------------------------------------------------------------
(* The tier and the compaction mark.                                       *)

Marked(r) == Exists(r) => (r.tier = "hot" <=> ~r.compacted)

\* Whoever is about to write the row writes a tier and a mark that agree.
Exporting == {"list", "parts", "part", "finish", "save"}

MarkInv ==
  /\ TypeOK
  /\ Marked(row)
  /\ \A c \in Capturers : pc[c] \in Exporting => Marked(draft[c])
  /\ rpc \in {"warmPut", "coldPut"} => Exists(copy) /\ Marked(copy)

LEMMA MarkCaptureStep ==
  ASSUME MarkInv, NEW c \in Capturers, CaptureStep(c)
  PROVE  MarkInv'
<1>0. /\ TypeOK /\ TypeOK' /\ UNCHANGED <<rpc, copy>> /\ draft[c] \in Row
      /\ \A d \in Capturers \ {c} : pc'[d] = pc[d] /\ draft'[d] = draft[d]
  BY CaptureStepType, CaptureFrame DEF MarkInv, TypeOK
<1>1. Marked(row') /\ (pc'[c] \in Exporting => Marked(draft'[c]))
  <2>1. CASE CountSource(c) \/ StampSource(c) \/ ChooseExport(c)
    BY <2>1 DEF CountSource, StampSource, ChooseExport, Goto, MarkInv, TypeOK, Exporting
  <2>2. CASE Skip(c) \/ Abort(c)
    BY <2>2 DEF Skip, Abort, Finish, Goto, MarkInv, TypeOK, Exporting
  <2>3. CASE ReadOffset(c) \/ CheckOffset(c) \/ ReadIncrementalStamp(c) \/ ReadTail(c)
             \/ ReadTailParts(c)
    BY <2>3 DEF ReadOffset, CheckOffset, ReadIncrementalStamp, ReadTail, ReadTailParts,
       LoadAllParts, Goto, MarkInv, TypeOK, Exporting
  <2>4. CASE Merge(c)
    BY <1>0, <2>4 DEF Merge, Goto, MarkInv, TypeOK, Row, Marked, Exists, Exporting
  <2>5. CASE ExportBegin(c)
    BY <2>5 DEF ExportBegin, MarkInv, TypeOK, Marked, Exists, NoRow
  <2>6. CASE ListMessages(c) \/ ReadStampLast(c)
    <3>1. row' = row /\ pc[c] \in Exporting
      BY <2>6 DEF ListMessages, ReadStampLast, Goto, Exporting
    <3>2. draft'[c].tier = draft[c].tier /\ draft'[c].compacted = draft[c].compacted
      BY <2>6 DEF ListMessages, ReadStampLast, MarkInv, TypeOK, Row
    <3>. QED
      BY <3>1, <3>2 DEF MarkInv, Marked, Exists
  <2>7. CASE ReadParts(c)
    <3>1. LoadAllParts(c, "parts", "save") /\ "parts" \in Steps /\ "save" \in Steps
      BY <2>7 DEF ReadParts, Steps
    <3>2. row' = row /\ pc[c] \in Exporting
      BY <3>1 DEF LoadAllParts, Goto, Exporting
    <3>3. draft'[c].tier = draft[c].tier /\ draft'[c].compacted = draft[c].compacted
      BY <1>0, <3>1, AllPartsRead DEF Row
    <3>. QED
      BY <3>2, <3>3 DEF MarkInv, Marked, Exists
  <2>8. CASE ReadPart(c)
    <3>1. row' = row /\ pc[c] \in Exporting
      BY <2>8 DEF ReadPart, Goto, Exporting
    <3>2. PICK p \in Seq(Msg), n \in Nat :
            /\ draft'[c] = [draft[c] EXCEPT !.payload = p, !.count = n]
            /\ Len(p) = Len(draft[c].payload)
            /\ \A i \in 1 .. Len(p) : p[i] \in {draft[c].payload[i], WithParts(draft[c].payload[i])}
      BY <1>0, <2>8, PartRead
    <3>3. draft'[c].tier = draft[c].tier /\ draft'[c].compacted = draft[c].compacted
      BY <1>0, <3>2 DEF Row
    <3>. QED
      BY <3>1, <3>3 DEF MarkInv, Marked, Exists
  <2>9. CASE SaveSession(c)
    <3>1. row' = Saved(draft[c]) /\ Marked(draft[c]) /\ pc'[c] = "idle"
      BY <2>9 DEF SaveSession, Finish, Goto, MarkInv, TypeOK, Exporting
    <3>2. Marked(row')
      BY <1>0, <3>1 DEF Saved, Row, Marked, Exists
    <3>. QED
      BY <3>1, <3>2 DEF Exporting
  <2>10. CASE ReadFails(c)
    <3>1. /\ row' = row /\ draft'[c] = draft[c]
          /\ pc'[c] \in Exporting => pc[c] \in Exporting
      BY <2>10 DEF ReadFails, Goto, MarkInv, TypeOK, Exporting
    <3>. QED
      BY <3>1 DEF MarkInv
  <2>. QED
    BY <2>1, <2>2, <2>3, <2>4, <2>5, <2>6, <2>7, <2>8, <2>9, <2>10 DEF CaptureStep, Capture
<1>. QED
  BY <1>0, <1>1 DEF MarkInv, Marked, Exists

LEMMA MarkRetentionStep == MarkInv /\ RetentionRun => MarkInv'
<1>. SUFFICES ASSUME MarkInv, RetentionRun PROVE MarkInv'
  OBVIOUS
<1>0. TypeOK' /\ UNCHANGED captureVars
  BY RetentionStepType DEF MarkInv, RetentionRun, ListWarm, GetWarm, PutWarm, PutRetained,
     ListCold, GetCold, PutCold
<1>1. Marked(row') /\ (rpc' \in {"warmPut", "coldPut"} => Exists(copy') /\ Marked(copy'))
  <2>1. CASE ListWarm \/ ListCold
    BY <2>1 DEF ListWarm, ListCold, EndRun, Run, MarkInv
  <2>2. CASE GetWarm
    <3>1. rpc' = "warmPut" => copy'.tier = "warm" /\ copy'.compacted
      BY <2>2 DEF GetWarm, Run, MarkInv, TypeOK, Row
    <3>2. rpc' \in {"warmPut", "coldList"} /\ row' = row
      BY <2>2 DEF GetWarm, Run
    <3>. QED
      BY <3>1, <3>2 DEF MarkInv, Marked, Exists
  <2>3. CASE GetCold
    <3>1. rpc' = "coldPut" => copy'.tier = "cold" /\ copy'.compacted
      BY <2>3 DEF GetCold, EndRun, Run, MarkInv, TypeOK, Row
    <3>2. rpc' \in {"coldPut", "idle"} /\ row' = row
      BY <2>3 DEF GetCold, EndRun, Run
    <3>. QED
      BY <3>1, <3>2 DEF MarkInv, Marked, Exists
  <2>4. CASE PutWarm \/ PutCold
    <3>1. rpc \in {"warmPut", "coldPut"} /\ rpc' \in {"coldList", "idle"}
      BY <2>4 DEF PutWarm, PutCold, PutRetained, Run
    <3>2. row' = row \/ row' = Retained(row, copy)
      BY <2>4 DEF PutWarm, PutCold, PutRetained
    <3>3. Retained(row, copy).tier = copy.tier /\ Retained(row, copy).compacted = copy.compacted
      BY DEF Retained, MarkInv, TypeOK, Row
    <3>. QED
      BY <3>1, <3>2, <3>3 DEF MarkInv, Marked
  <2>. QED
    BY <2>1, <2>2, <2>3, <2>4 DEF RetentionRun
<1>. QED
  BY <1>0, <1>1 DEF MarkInv, captureVars, Marked, Exists

LEMMA MarkNext == MarkInv /\ [Next]_vars => MarkInv'
<1>. SUFFICES ASSUME MarkInv, [Next]_vars PROVE MarkInv'
  OBVIOUS
<1>0. TypeOK'
  BY NextType DEF MarkInv
<1>1. ASSUME UNCHANGED <<row, captureVars, retainVars>> PROVE MarkInv'
  BY <1>0, <1>1 DEF MarkInv, captureVars, retainVars, Marked, Exists
<1>2. CASE AppendMessage \/ ReviseLast \/ Rewind \/ Tick
  BY <1>1, <1>2 DEF AppendMessage, ReviseLast, Rewind, Tick, SourceWrite
<1>3. CASE Touch \/ Delete
  <2>1. ASSUME Touch PROVE Marked(row')
    <3>1. row'.tier = row.tier /\ row'.compacted = row.compacted
      BY <2>1 DEF Touch, Touched, MarkInv, TypeOK, Row
    <3>. QED
      BY <2>1, <3>1 DEF MarkInv, Marked, Exists
  <2>2. ASSUME Delete PROVE Marked(row')
    BY <2>2 DEF Delete, NoRow, Marked, Exists
  <2>3. Marked(row')
    BY <1>3, <2>1, <2>2
  <2>. QED
    BY <1>0, <1>3, <2>3 DEF Touch, Delete, MarkInv, captureVars, retainVars, Marked, Exists
<1>4. CASE UNCHANGED vars
  BY <1>1, <1>4 DEF vars, captureVars, retainVars
<1>. QED
  BY <1>2, <1>3, <1>4, MarkCaptureStep, MarkRetentionStep DEF Next, CaptureStep

\* The tier, written by the save and by UpdateSessionRetention, and the compaction
\* mark agree at every instant, whatever is captured, compacted, deleted or read
\* in between: no hot session is hidden from the warm pass by a stale mark.
THEOREM TierAndMarkAgree == Spec => []TierMatchesMark
<1>1. Init => MarkInv
  BY InitType DEF Init, MarkInv, Marked, Exists, NoRow, Exporting
<1>2. MarkInv => TierMatchesMark
  BY DEF MarkInv, Marked, TierMatchesMark
<1>. QED
  BY <1>1, <1>2, MarkNext, PTL DEF Spec

-----------------------------------------------------------------------------
(* One listing of the source.                                              *)

Coherent(p) == Ascending(p) /\ \E t \in 1 .. now : \A i \in 1 .. Len(p) : ReadSince(p[i], t)

\* A list of messages, no parts of which have been read.
Bare(p) ==
  /\ Ascending(p)
  /\ \E t \in 1 .. now : \A i \in 1 .. Len(p) : p[i].rev = 0 /\ p[i].id \in Ids(timeline[t])

\* The row, and whatever a capture or a retention run is about to write to it,
\* is a selection of one listing.
InstantInv ==
  /\ TypeOK /\ SourceOrdered /\ NoTail
  /\ Coherent(row.payload)
  /\ \A c \in Capturers :
       /\ pc[c] = "parts" => Bare(draft[c].payload)
       /\ pc[c] = "part" => faults > 0
       /\ pc[c] \in {"part", "finish", "save"} => Coherent(draft[c].payload)
  /\ rpc \in {"warmPut", "coldPut"} => Coherent(copy.payload)

\* The empty payload, the source and a list of its messages.
LEMMA CoherentParts ==
  ASSUME TypeOK, SourceOrdered
  PROVE  Coherent(<< >>) /\ Coherent(Source) /\ Bare(Listed(Source))
<1>1. /\ now \in Nat /\ now > 0 /\ Source \in Seq(Msg) /\ now \in now .. now
      /\ Len(Source) \in Nat /\ timeline[now] = Source
  BY SourceType DEF TypeOK, Source
<1>2. Coherent(<< >>)
  BY <1>1 DEF Coherent, Ascending
<1>3. Ascending(Source)
  BY <1>1 DEF SourceOrdered
<1>4. \A i \in 1 .. Len(Source) : Source[i] \in Elements(Source) /\ Source[i].id \in Ids(Source)
  BY DEF Elements, Ids
<1>5. \A i \in 1 .. Len(Source) : ReadSince(Source[i], now)
  BY <1>1, <1>4 DEF ReadSince
<1>6. Coherent(Source)
  BY <1>1, <1>3, <1>5 DEF Coherent
<1>7. /\ Len(Listed(Source)) = Len(Source)
      /\ \A i \in 1 .. Len(Source) : Listed(Source)[i].id = Source[i].id /\ Listed(Source)[i].rev = 0
  BY <1>1, ListedType
<1>8. Bare(Listed(Source))
  BY <1>1, <1>3, <1>4, <1>7 DEF Bare, Ascending
<1>. QED
  BY <1>2, <1>6, <1>8

\* A list whose messages get their parts now is one listing, and so is one some of
\* whose messages get them now and the others did before.
LEMMA PartsCoherent ==
  ASSUME TypeOK, NEW q \in Seq(Msg), NEW p \in Seq(Msg), Len(p) = Len(q),
         \/ Bare(q) /\ \A i \in 1 .. Len(p) : p[i] = WithParts(q[i])
         \/ Coherent(q) /\ \A i \in 1 .. Len(p) : p[i] \in {q[i], WithParts(q[i])}
  PROVE  Coherent(p)
<1>0. /\ now \in Nat /\ now > 0 /\ timeline[now] = Source
      /\ \A i \in 1 .. Len(p) : q[i] \in Msg
  <2>1. \A i \in 1 .. Len(p) : q[i] \in Msg
    OBVIOUS
  <2>2. now \in Nat /\ now > 0
    BY SourceType DEF TypeOK
  <2>. QED
    BY <2>1, <2>2 DEF Source
<1>1. \A i \in 1 .. Len(p) : p[i].id = q[i].id
  BY <1>0, WithPartsType
<1>2. Ascending(p)
  BY <1>1 DEF Ascending, Bare, Coherent
<1>3. ASSUME NEW t \in 1 .. now, NEW i \in 1 .. Len(p), q[i].id \in Ids(timeline[t]),
             p[i] = WithParts(q[i]), q[i].rev = 0 \/ ReadSince(q[i], t)
      PROVE  ReadSince(p[i], t)
  <2>1. now \in t .. now /\ p[i].id \in Ids(timeline[t])
    BY <1>0, <1>1, <1>3
  <2>2. CASE p[i] \in Elements(Source)
    BY <1>0, <2>1, <2>2 DEF ReadSince
  <2>3. CASE p[i] = q[i] /\ q[i].id \notin Ids(Source)
    BY <1>0, <1>3, <2>1, <2>3 DEF ReadSince
  <2>. QED
    BY <1>0, <1>3, <2>2, <2>3, WithPartsType
<1>4. CASE Bare(q) /\ \A i \in 1 .. Len(p) : p[i] = WithParts(q[i])
  <2>1. PICK t \in 1 .. now : \A i \in 1 .. Len(q) : q[i].rev = 0 /\ q[i].id \in Ids(timeline[t])
    BY <1>4 DEF Bare
  <2>2. \A i \in 1 .. Len(p) : ReadSince(p[i], t)
    BY <1>3, <1>4, <2>1
  <2>. QED
    BY <1>2, <2>2 DEF Coherent
<1>5. CASE Coherent(q) /\ \A i \in 1 .. Len(p) : p[i] \in {q[i], WithParts(q[i])}
  <2>1. PICK t \in 1 .. now : \A i \in 1 .. Len(q) : ReadSince(q[i], t)
    BY <1>5 DEF Coherent
  <2>2. \A i \in 1 .. Len(p) : q[i].id \in Ids(timeline[t])
    BY <2>1 DEF ReadSince
  <2>3. \A i \in 1 .. Len(p) : ReadSince(p[i], t)
    BY <1>3, <1>5, <2>1, <2>2
  <2>. QED
    BY <1>2, <2>3 DEF Coherent
<1>. QED
  BY <1>4, <1>5

\* What the window keeps is in the order it had.
LEMMA WindowCoherent ==
  ASSUME TypeOK, NEW s \in Seq(Msg), Coherent(s), NEW w \in Windows(s)
  PROVE  Coherent(w)
<1>0. PICK n \in 0 .. Len(s) : w \in { [i \in 1 .. n |-> s[f[i]]] : f \in Picks(n, Len(s)) }
  BY DEF Windows
<1>1. PICK f \in Picks(n, Len(s)) : w = [i \in 1 .. n |-> s[f[i]]]
  BY <1>0
<1>2. /\ \A i \in 1 .. n : f[i] \in 1 .. Len(s)
      /\ \A i, j \in 1 .. n : i < j => f[i] < f[j]
  BY DEF Picks
<1>3. w \in Seq(Msg) /\ Len(w) = n /\ \A i \in 1 .. n : w[i] = s[f[i]]
  <2>1. w \in Seq(Msg)
    BY WindowType
  <2>2. DOMAIN w = 1 .. n /\ n \in Nat
    BY <1>1
  <2>3. Len(w) = n
    BY <2>1, <2>2
  <2>. QED
    BY <1>1, <2>1, <2>3
<1>4. Ascending(w)
  BY <1>2, <1>3 DEF Ascending, Coherent
<1>5. PICK t \in 1 .. now : \A i \in 1 .. Len(s) : ReadSince(s[i], t)
  BY DEF Coherent
<1>6. \A i \in 1 .. Len(w) : ReadSince(w[i], t)
  BY <1>2, <1>3, <1>5
<1>. QED
  BY <1>4, <1>6 DEF Coherent

\* What was one listing remains one as the past stays and failures are not undone.
LEMMA CoherentKept ==
  ASSUME now \in Nat, now' \in Nat, now' >= now,
         \A t \in 1 .. now : timeline'[t] = timeline[t],
         faults \in Nat, faults' \in Nat, faults' >= faults
  PROVE  \A p : (Coherent(p) => Coherent(p)') /\ (Bare(p) => Bare(p)')
<1>1. ASSUME NEW m, NEW t \in 1 .. now, ReadSince(m, t) PROVE ReadSince(m, t)'
  <2>1. m.id \in Ids(timeline'[t]) /\ Ids(timeline'[t]) = Ids(timeline[t])
    BY <1>1 DEF ReadSince
  <2>2. CASE m.rev = 0 /\ faults > 0
    BY <2>1, <2>2 DEF ReadSince, Ids
  <2>3. ASSUME NEW u \in t .. now,
               \/ m \in Elements(timeline[u])
               \/ m.rev = 0 /\ m.id \notin Ids(timeline[u])
        PROVE  ReadSince(m, t)'
    <3>1. u \in t .. now' /\ timeline'[u] = timeline[u]
      OBVIOUS
    <3>2. \/ m \in Elements(timeline'[u])
          \/ m.rev = 0 /\ m.id \notin Ids(timeline'[u])
      BY <2>3, <3>1
    <3>. QED
      BY <2>1, <3>1, <3>2 DEF ReadSince, Ids, Elements
  <2>. QED
    BY <1>1, <2>2, <2>3 DEF ReadSince
<1>2. ASSUME NEW p, Coherent(p) PROVE Coherent(p)'
  <2>1. PICK t \in 1 .. now : \A i \in 1 .. Len(p) : ReadSince(p[i], t)
    BY <1>2 DEF Coherent
  <2>2. t \in 1 .. now' /\ \A i \in 1 .. Len(p) : ReadSince(p[i], t)'
    BY <1>1, <2>1
  <2>. QED
    BY <1>2, <2>2 DEF Coherent, Ascending
<1>3. ASSUME NEW p, Bare(p) PROVE Bare(p)'
  <2>1. PICK t \in 1 .. now : \A i \in 1 .. Len(p) : p[i].rev = 0 /\ p[i].id \in Ids(timeline[t])
    BY <1>3 DEF Bare
  <2>2. t \in 1 .. now' /\ timeline'[t] = timeline[t]
    OBVIOUS
  <2>3. \A i \in 1 .. Len(p) : p[i].rev = 0 /\ p[i].id \in Ids(timeline'[t])
    BY <2>1, <2>2
  <2>. QED
    BY <1>3, <2>2, <2>3 DEF Bare, Ascending, Ids
<1>. QED
  BY <1>2, <1>3

LEMMA InstantCaptureStep ==
  ASSUME InstantInv, ~Incremental, NEW c \in Capturers, CaptureStep(c)
  PROVE  InstantInv'
<1>0. /\ TypeOK /\ TypeOK' /\ UNCHANGED <<timeline, rpc, copy>>
      /\ now \in Nat /\ now' = now /\ Source' = Source
      /\ faults \in Nat /\ faults' \in Nat /\ faults' >= faults
      /\ \A d \in Capturers \ {c} : pc'[d] = pc[d] /\ draft'[d] = draft[d]
      /\ draft[c] \in Row /\ draft[c].payload \in Seq(Msg)
  <2>1. TypeOK /\ TypeOK'
    BY CaptureStepType DEF InstantInv
  <2>2. now \in Nat /\ faults \in Nat /\ draft[c] \in Row
    BY <2>1, SourceType DEF TypeOK
  <2>3. draft[c].payload \in Seq(Msg)
    BY <2>2 DEF Row
  <2>. QED
    BY <2>1, <2>2, <2>3, CaptureFrame
<1>1. SourceOrdered' /\ \A p : (Coherent(p) => Coherent(p)') /\ (Bare(p) => Bare(p)')
  BY <1>0, SourceStays, CoherentKept DEF InstantInv
<1>2. Coherent(<< >>) /\ Coherent(Source) /\ Bare(Listed(Source))
  BY <1>0, CoherentParts DEF InstantInv
<1>3. /\ Coherent(row'.payload)
      /\ pc'[c] \in {"idle", "stamp", "compare", "export", "list", "parts", "part", "finish", "save"}
      /\ pc'[c] = "parts" => Bare(draft'[c].payload)
      /\ pc'[c] = "part" => faults' > 0
      /\ \/ pc'[c] \notin {"part", "finish", "save"}
         \/ Coherent(draft'[c].payload)
         \/ pc'[c] = "part" /\ Bare(draft[c].payload) /\ draft'[c] = draft[c]
  <2>1. CASE CountSource(c) \/ StampSource(c) \/ ChooseExport(c)
    BY <2>1 DEF CountSource, StampSource, ChooseExport, Goto, InstantInv, TypeOK
  <2>2. CASE Skip(c) \/ Abort(c)
    BY <2>2 DEF Skip, Abort, Finish, Goto, InstantInv, TypeOK
  <2>3. CASE ReadOffset(c) \/ CheckOffset(c) \/ ReadIncrementalStamp(c) \/ ReadTail(c)
             \/ ReadTailParts(c) \/ Merge(c)
    BY <2>3 DEF ReadOffset, CheckOffset, ReadIncrementalStamp, ReadTail, ReadTailParts,
       LoadAllParts, Merge, Goto, InstantInv, NoTail
  <2>4. CASE ExportBegin(c)
    <3>1. /\ row' = row /\ pc'[c] \in {"list", "finish"}
          /\ pc'[c] = "finish" => ~StampFirst
      BY <2>4 DEF ExportBegin, Goto, InstantInv, TypeOK
    <3>2. draft'[c].payload = IF StampFirst THEN << >> ELSE Source
      BY <2>4 DEF ExportBegin, InstantInv, TypeOK, NoRow
    <3>. QED
      BY <1>2, <3>1, <3>2 DEF InstantInv
  <2>5. CASE ListMessages(c)
    <3>1. row' = row /\ pc'[c] = "parts"
      BY <2>5 DEF ListMessages, Goto, InstantInv, TypeOK
    <3>2. draft'[c].payload = Listed(Source)
      BY <2>5 DEF ListMessages, InstantInv, TypeOK, Row
    <3>. QED
      BY <1>2, <3>1, <3>2 DEF InstantInv
  <2>6. CASE ReadParts(c)
    <3>1. LoadAllParts(c, "parts", "save") /\ "parts" \in Steps /\ "save" \in Steps
      BY <2>6 DEF ReadParts, Steps
    <3>2. pc[c] = "parts" /\ pc'[c] = "save" /\ row' = row
      BY <1>0, <3>1 DEF LoadAllParts, Goto, TypeOK
    <3>3. PICK p \in Seq(Msg) :
            /\ draft'[c] = [draft[c] EXCEPT !.payload = p]
            /\ Len(p) = Len(draft[c].payload)
            /\ \A i \in 1 .. Len(p) : p[i] = WithParts(draft[c].payload[i])
      BY <1>0, <3>1, AllPartsRead
    <3>4. draft'[c].payload = p
      BY <1>0, <3>3 DEF Row
    <3>5. Bare(draft[c].payload)
      BY <3>2 DEF InstantInv
    <3>6. Coherent(p)
      BY <1>0, <3>3, <3>5, PartsCoherent
    <3>. QED
      BY <3>2, <3>4, <3>6 DEF InstantInv
  <2>7. CASE ReadPart(c)
    <3>1. pc[c] = "part" /\ pc'[c] \in {"part", "save"} /\ row' = row /\ faults' = faults
      BY <1>0, <2>7, PartRead DEF TypeOK
    <3>2. PICK p \in Seq(Msg), n \in Nat :
            /\ draft'[c] = [draft[c] EXCEPT !.payload = p, !.count = n]
            /\ Len(p) = Len(draft[c].payload)
            /\ \A i \in 1 .. Len(p) : p[i] \in {draft[c].payload[i], WithParts(draft[c].payload[i])}
      BY <1>0, <2>7, PartRead
    <3>3. draft'[c].payload = p
      BY <1>0, <3>2 DEF Row
    <3>4. Coherent(draft[c].payload) /\ faults > 0
      BY <3>1 DEF InstantInv
    <3>5. Coherent(p)
      BY <1>0, <3>2, <3>4, PartsCoherent
    <3>. QED
      BY <3>1, <3>3, <3>4, <3>5 DEF InstantInv
  <2>8. CASE ReadStampLast(c)
    <3>1. row' = row /\ pc[c] = "finish" /\ pc'[c] = "save"
      BY <2>8 DEF ReadStampLast, Goto, InstantInv, TypeOK
    <3>2. draft'[c].payload = draft[c].payload
      BY <2>8 DEF ReadStampLast, InstantInv, TypeOK, Row
    <3>. QED
      BY <3>1, <3>2 DEF InstantInv
  <2>9. CASE SaveSession(c)
    <3>1. pc[c] = "save" /\ pc'[c] = "idle"
      BY <2>9 DEF SaveSession, Finish, Goto, InstantInv, TypeOK
    <3>2. row'.payload = draft[c].payload
      BY <1>0, <2>9 DEF SaveSession, Saved, Row
    <3>. QED
      BY <3>1, <3>2 DEF InstantInv
  <2>10. CASE ReadFails(c)
    <3>1. /\ row' = row /\ draft'[c] = draft[c] /\ faults' = faults + 1
          /\ \/ pc[c] \in {"stamp", "compare"} /\ pc'[c] = "export"
             \/ pc[c] = "parts" /\ pc'[c] = "part"
             \/ pc[c] = "finish" /\ pc'[c] = "save"
      BY <2>10 DEF ReadFails, Goto, InstantInv, NoTail, TypeOK
    <3>. QED
      BY <1>0, <3>1 DEF InstantInv
  <2>. QED
    BY <2>1, <2>2, <2>3, <2>4, <2>5, <2>6, <2>7, <2>8, <2>9, <2>10 DEF CaptureStep, Capture
<1>4. NoTail'
  BY <1>0, <1>3 DEF NoTail, InstantInv
<1>5. Coherent(row.payload)'
  BY <1>1, <1>3 DEF Coherent
<1>6. ASSUME NEW p, Bare(p), faults' > 0 PROVE Coherent(p)'
  <2>1. PICK t \in 1 .. now : \A i \in 1 .. Len(p) : p[i].rev = 0 /\ p[i].id \in Ids(timeline[t])
    BY <1>6 DEF Bare
  <2>2. \A i \in 1 .. Len(p) : ReadSince(p[i], t)'
    BY <1>0, <1>6, <2>1 DEF ReadSince, Ids
  <2>. QED
    BY <1>0, <1>6, <2>2 DEF Coherent, Ascending, Bare
<1>7. ASSUME NEW d \in Capturers
      PROVE  /\ pc'[d] = "parts" => Bare(draft[d].payload)'
             /\ pc'[d] = "part" => faults' > 0
             /\ pc'[d] \in {"part", "finish", "save"} => Coherent(draft[d].payload)'
  <2>1. CASE d = c
    <3>1. Bare(draft'[c].payload) => Bare(draft[c].payload)'
      BY <1>1 DEF Bare
    <3>2. Coherent(draft'[c].payload) => Coherent(draft[c].payload)'
      BY <1>1 DEF Coherent
    <3>3. ASSUME pc'[c] = "part", Bare(draft[c].payload), draft'[c] = draft[c]
          PROVE  Coherent(draft[c].payload)'
      BY <1>3, <1>6, <3>3
    <3>. QED
      BY <1>3, <2>1, <3>1, <3>2, <3>3
  <2>2. CASE d # c
    <3>1. draft'[d] = draft[d] /\ pc'[d] = pc[d]
      BY <1>0, <2>2
    <3>2. /\ Bare(draft[d].payload) => Bare(draft[d].payload)'
          /\ Coherent(draft[d].payload) => Coherent(draft[d].payload)'
      BY <1>1, <3>1
    <3>3. pc[d] = "part" => faults' > 0
      BY <1>0 DEF InstantInv
    <3>. QED
      BY <3>1, <3>2, <3>3 DEF InstantInv
  <2>. QED
    BY <2>1, <2>2
<1>8. (rpc \in {"warmPut", "coldPut"} => Coherent(copy.payload))'
  BY <1>0, <1>1 DEF InstantInv
<1>. QED
  BY <1>0, <1>1, <1>4, <1>5, <1>7, <1>8 DEF InstantInv

\* The retention run keeps a window of what it loaded, or nothing.
LEMMA InstantRetentionStep == InstantInv /\ RetentionRun => InstantInv'
<1>. SUFFICES ASSUME InstantInv, RetentionRun PROVE InstantInv'
  OBVIOUS
<1>0. TypeOK /\ TypeOK' /\ UNCHANGED <<timeline, pc, draft, faults>>
  BY RetentionStepType DEF InstantInv, RetentionRun, ListWarm, GetWarm, PutWarm, PutRetained,
     ListCold, GetCold, PutCold, sourceVars, captureVars
<1>1. /\ SourceOrdered' /\ NoTail'
      /\ \A p : (Coherent(p) => Coherent(p)') /\ (Bare(p) => Bare(p)')
  BY <1>0, SourceStays, CoherentKept DEF InstantInv, NoTail, now, TypeOK
<1>2. /\ Coherent(row'.payload)
      /\ rpc' \in {"warmPut", "coldPut"} => Coherent(copy'.payload)
  <2>1. CASE ListWarm \/ ListCold
    BY <2>1 DEF ListWarm, ListCold, EndRun, Run, InstantInv
  <2>2. CASE GetWarm
    <3>1. row' = row /\ rpc' \in {"warmPut", "coldList"}
      BY <2>2 DEF GetWarm, Run
    <3>2. ASSUME rpc' = "warmPut" PROVE Coherent(copy'.payload)
      <4>1. PICK w \in Windows(row.payload) :
              copy' = [row EXCEPT !.payload = w, !.tier = "warm", !.compacted = TRUE]
        BY <2>2, <3>2 DEF GetWarm, Run
      <4>2. copy'.payload = w /\ row.payload \in Seq(Msg)
        BY <1>0, <4>1 DEF TypeOK, Row
      <4>3. Coherent(w)
        BY <1>0, <4>2, WindowCoherent DEF InstantInv
      <4>. QED
        BY <4>2, <4>3
    <3>. QED
      BY <3>1, <3>2 DEF InstantInv
  <2>3. CASE GetCold
    <3>1. row' = row /\ rpc' \in {"coldPut", "idle"}
      BY <2>3 DEF GetCold, EndRun, Run
    <3>2. rpc' = "coldPut" => copy'.payload = << >>
      BY <1>0, <2>3 DEF GetCold, EndRun, Run, TypeOK, Row
    <3>3. Coherent(<< >>)
      BY <1>0, CoherentParts DEF InstantInv
    <3>. QED
      BY <3>1, <3>2, <3>3 DEF InstantInv
  <2>4. CASE PutWarm \/ PutCold
    <3>1. rpc \in {"warmPut", "coldPut"} /\ rpc' \in {"coldList", "idle"}
      BY <2>4 DEF PutWarm, PutCold, PutRetained, Run
    <3>2. row' = row \/ row' = Retained(row, copy)
      BY <2>4 DEF PutWarm, PutCold, PutRetained
    <3>3. Retained(row, copy).payload = copy.payload
      BY <1>0 DEF Retained, TypeOK, Row
    <3>. QED
      BY <3>1, <3>2, <3>3 DEF InstantInv
  <2>. QED
    BY <2>1, <2>2, <2>3, <2>4 DEF RetentionRun
<1>3. /\ Coherent(row.payload)'
      /\ (rpc \in {"warmPut", "coldPut"} => Coherent(copy.payload))'
  BY <1>1, <1>2
<1>4. ASSUME NEW c \in Capturers
      PROVE  /\ pc'[c] = "parts" => Bare(draft[c].payload)'
             /\ pc'[c] = "part" => faults' > 0
             /\ pc'[c] \in {"part", "finish", "save"} => Coherent(draft[c].payload)'
  BY <1>0, <1>1 DEF InstantInv
<1>. QED
  BY <1>0, <1>1, <1>3, <1>4 DEF InstantInv

LEMMA InstantNext == ~Incremental /\ InstantInv /\ [Next]_vars => InstantInv'
<1>. SUFFICES ASSUME ~Incremental, InstantInv, [Next]_vars PROVE InstantInv'
  OBVIOUS
<1>0. TypeOK /\ TypeOK'
  BY NextType DEF InstantInv
<1>1. ASSUME UNCHANGED <<pc, draft, rpc, copy>>, SourceOrdered', Coherent(row.payload)',
             faults' >= faults,
             \A p : (Coherent(p) => Coherent(p)') /\ (Bare(p) => Bare(p)')
      PROVE  InstantInv'
  <2>1. NoTail'
    BY <1>1 DEF InstantInv, NoTail
  <2>2. ASSUME NEW c \in Capturers
        PROVE  /\ pc'[c] = "parts" => Bare(draft[c].payload)'
               /\ pc'[c] = "part" => faults' > 0
               /\ pc'[c] \in {"part", "finish", "save"} => Coherent(draft[c].payload)'
    <3>1. pc[c] = "part" => faults' > 0
      BY <1>0, <1>1 DEF InstantInv, TypeOK
    <3>. QED
      BY <1>1, <3>1 DEF InstantInv
  <2>3. (rpc \in {"warmPut", "coldPut"} => Coherent(copy.payload))'
    BY <1>1 DEF InstantInv
  <2>. QED
    BY <1>0, <1>1, <2>1, <2>2, <2>3 DEF InstantInv
<1>2. CASE AppendMessage \/ ReviseLast \/ Rewind \/ Tick
  <2>1. UNCHANGED <<row, pc, draft, rpc, copy, faults>>
    BY <1>2 DEF AppendMessage, ReviseLast, Rewind, Tick, SourceWrite, captureVars, retainVars
  <2>2. SourceOrdered' /\ now' = now + 1 /\ \A t \in 1 .. now : timeline'[t] = timeline[t]
    BY <1>0, <1>2, SourceStepOrdered DEF InstantInv
  <2>3. now \in Nat /\ faults \in Nat
    BY <1>0 DEF TypeOK, now
  <2>4. \A p : (Coherent(p) => Coherent(p)') /\ (Bare(p) => Bare(p)')
    BY <2>1, <2>2, <2>3, CoherentKept
  <2>5. Coherent(row.payload)'
    BY <2>1, <2>4 DEF InstantInv
  <2>. QED
    BY <1>1, <2>1, <2>2, <2>3, <2>4, <2>5
<1>3. CASE Touch \/ Delete \/ UNCHANGED vars
  <2>1. /\ UNCHANGED <<timeline, pc, draft, rpc, copy>>
        /\ faults \in Nat /\ faults' \in Nat /\ faults' >= faults
    <3>1. UNCHANGED <<timeline, pc, draft, rpc, copy>> /\ faults' \in {faults, faults + 1}
      BY <1>3 DEF Touch, Delete, vars, sourceVars, captureVars, retainVars
    <3>. QED
      BY <1>0, <3>1 DEF TypeOK
  <2>2. row'.payload \in {row.payload, << >>}
    <3>1. CASE Touch
      BY <1>0, <3>1 DEF Touch, Touched, TypeOK, Row
    <3>2. CASE Delete
      BY <3>2 DEF Delete, NoRow
    <3>. QED
      BY <1>3, <3>1, <3>2 DEF vars
  <2>3. Coherent(row'.payload)
    BY <1>0, <2>2, CoherentParts DEF InstantInv
  <2>4. SourceOrdered' /\ now' = now /\ now \in Nat
    BY <1>0, <2>1, SourceStays DEF InstantInv, now, TypeOK
  <2>5. \A p : (Coherent(p) => Coherent(p)') /\ (Bare(p) => Bare(p)')
    BY <2>1, <2>4, CoherentKept
  <2>6. Coherent(row.payload)'
    BY <2>3, <2>5
  <2>. QED
    BY <1>1, <2>1, <2>4, <2>5, <2>6
<1>. QED
  BY <1>2, <1>3, InstantCaptureStep, InstantRetentionStep DEF Next, CaptureStep

LEMMA InstantInit == Init => InstantInv
<1>. SUFFICES ASSUME Init PROVE InstantInv
  OBVIOUS
<1>1. TypeOK /\ SourceOrdered
  BY InitType, SourceOrderedInit
<1>2. Coherent(row.payload)
  BY <1>1, CoherentParts DEF Init, NoRow
<1>. QED
  BY <1>1, <1>2 DEF Init, InstantInv, NoTail

\* Full exports and retention never mix two versions of a session: whatever is
\* captured, compacted, deleted and captured again by however many processes,
\* whatever fails, and whatever the tool streams or rewinds between the list and the
\* parts, the stored payload is in order, without duplicates, and part of what one
\* listing gave, each message with what an instant since had of it.
THEOREM StoredFromOneListing ==
  ASSUME ~Incremental
  PROVE  Spec => []OfOneListing
<1>1. InstantInv => OfOneListing
  BY DEF InstantInv, Coherent, Ascending, OfOneListing, InOrder
<1>2. InstantInv /\ [Next]_vars => InstantInv'
  BY InstantNext
<1>. QED
  BY InstantInit, <1>1, <1>2, PTL DEF Spec
-----------------------------------------------------------------------------
(* Incremental exports.  One process captures, nothing is rewound and      *)
(* nothing compacted: then the row always holds the first messages of the  *)
(* source, and the count it stores says how many.                          *)

AppendOnly == ~Rewinds /\ ~Retention /\ \A c, d \in Capturers : c = d

\* As far as p goes it has the messages of the source, in some revision.
Begins(p) == Len(p) <= Len(Source) /\ \A i \in 1 .. Len(p) : p[i].id = Source[i].id

\* The offset of a capture is the count of the row, unless the row is gone; the
\* tail it has read continues the row.
TailInv ==
  /\ TypeOK /\ SourceOrdered /\ rpc = "idle"
  /\ Begins(row.payload) /\ row.count = Len(row.payload)
  /\ \A c \in Capturers :
       /\ pc[c] \in {"incCount", "incMeta", "incTail"}
            => ~Exists(row) \/ draft[c].count = row.count
       /\ pc[c] \in {"incParts", "merge"} /\ Exists(row)
            => Begins(row.payload \o draft[c].payload)
       /\ pc[c] \in {"parts", "part", "finish", "save"} => Begins(draft[c].payload)

\* A sequence that begins like the source is in its order.
LEMMA BeginsInOrder ==
  ASSUME TypeOK, SourceOrdered, NEW p \in Seq(Msg), Begins(p)
  PROVE  Ascending(p)
<1>1. now \in 1 .. now
  BY DEF TypeOK, now
<1>2. Ascending(Source)
  BY <1>1 DEF SourceOrdered, Source
<1>3. \A i \in 1 .. Len(p) : i \in 1 .. Len(Source)
  BY SourceType DEF Begins
<1>. QED
  BY <1>2, <1>3 DEF Ascending, Begins

\* The messages after the first n, added to n messages that begin like the
\* source, begin like the source.
LEMMA TailBegins ==
  ASSUME TypeOK, NEW p \in Seq(Msg), Begins(p)
  PROVE  Begins(p \o LoadMessagesFrom(Len(p)))
<1>. DEFINE n == Len(p)
            tail == LoadMessagesFrom(n)
            all == p \o tail
<1>1. Source \in Seq(Msg) /\ Len(Source) \in Nat /\ n \in Nat /\ n <= Len(Source)
  BY SourceType DEF Begins
<1>2. /\ tail \in Seq(Msg) /\ Len(tail) = Len(Source) - n
      /\ \A i \in 1 .. Len(tail) : tail[i].id = Source[n + i].id
  <2>. DEFINE s == SubSeq(Source, n + 1, Len(Source))
  <2>1. /\ s \in Seq(Msg) /\ Len(s) = Len(Source) - n
        /\ \A i \in 1 .. Len(s) : s[i] = Source[n + i]
    BY <1>1
  <2>2. tail = Listed(s)
    BY DEF LoadMessagesFrom
  <2>. HIDE DEF s
  <2>3. /\ Listed(s) \in Seq(Msg) /\ Len(Listed(s)) = Len(s)
        /\ \A i \in 1 .. Len(s) : Listed(s)[i].id = s[i].id
    BY <2>1, ListedType
  <2>4. /\ tail \in Seq(Msg) /\ Len(tail) = Len(s)
        /\ \A i \in 1 .. Len(s) : tail[i].id = s[i].id
    BY <2>2, <2>3
  <2>. HIDE DEF tail
  <2>5. \A i \in 1 .. Len(tail) : tail[i].id = Source[n + i].id
    BY <2>1, <2>4
  <2>. QED
    BY <2>1, <2>4, <2>5
<1>. HIDE DEF tail
<1>3. /\ all \in Seq(Msg) /\ Len(all) = n + Len(tail)
      /\ \A i \in 1 .. n : all[i] = p[i]
      /\ \A i \in 1 .. Len(tail) : all[n + i] = tail[i]
  BY <1>1, <1>2
<1>. HIDE DEF all
<1>4. ASSUME NEW i \in 1 .. Len(all) PROVE all[i].id = Source[i].id
  <2>1. CASE i \in 1 .. n
    BY <1>3, <2>1 DEF Begins
  <2>2. CASE i \notin 1 .. n
    <3>1. i - n \in 1 .. Len(tail) /\ n + (i - n) = i
      BY <1>1, <1>2, <1>3, <2>2
    <3>. QED
      BY <1>2, <1>3, <3>1
  <2>. QED
    BY <2>1, <2>2
<1>5. Begins(all)
  BY <1>1, <1>2, <1>3, <1>4 DEF Begins
<1>. QED
  BY <1>5 DEF all, tail

\* The length of two sequences, one after the other.
LEMMA JoinedLength ==
  ASSUME NEW p \in Seq(Msg), NEW q \in Seq(Msg)
  PROVE  Len(p \o q) = Len(p) + Len(q)
OBVIOUS

\* A sequence of the same identities begins like the source too, alone or after p.
LEMMA BeginsById ==
  ASSUME NEW p \in Seq(Msg), NEW q \in Seq(Msg), NEW r \in Seq(Msg), Len(r) = Len(q),
         \A i \in 1 .. Len(q) : r[i].id = q[i].id
  PROVE  /\ Begins(q) => Begins(r)
         /\ Begins(p \o q) => Begins(p \o r)
<1>0. Len(p) \in Nat /\ Len(q) \in Nat
  OBVIOUS
<1>1. Begins(q) => Begins(r)
  <2>. SUFFICES ASSUME Begins(q) PROVE Begins(r)
    OBVIOUS
  <2>1. Len(r) <= Len(Source)
    BY DEF Begins
  <2>2. ASSUME NEW i \in 1 .. Len(r) PROVE r[i].id = Source[i].id
    BY DEF Begins
  <2>. QED
    BY <2>1, <2>2 DEF Begins
<1>2. Len(p \o q) = Len(p) + Len(q) /\ Len(p \o r) = Len(p) + Len(q)
  BY JoinedLength
<1>3. ASSUME NEW i \in 1 .. Len(p \o q) PROVE (p \o r)[i].id = (p \o q)[i].id
  <2>1. CASE i <= Len(p)
    <3>1. (p \o r)[i] = p[i] /\ (p \o q)[i] = p[i]
      BY <2>1
    <3>. QED
      BY <3>1
  <2>2. CASE i > Len(p)
    <3>1. i - Len(p) \in 1 .. Len(q)
      BY <1>2, <2>2
    <3>2. (p \o r)[i] = r[i - Len(p)] /\ (p \o q)[i] = q[i - Len(p)]
      BY <1>2, <2>2
    <3>. QED
      BY <3>1, <3>2
  <2>. QED
    BY <2>1, <2>2
<1>4. Begins(p \o q) => Begins(p \o r)
  <2>. DEFINE a == p \o q
              b == p \o r
  <2>1. Len(a) = Len(b) /\ \A i \in 1 .. Len(a) : b[i].id = a[i].id
    BY <1>2, <1>3
  <2>. HIDE DEF a, b
  <2>2. Begins(a) => Begins(b)
    BY <2>1 DEF Begins
  <2>. QED
    BY <2>2 DEF a, b
<1>. QED
  BY <1>1, <1>4

\* Reading parts keeps the identities.
LEMMA PartsKeepIds ==
  ASSUME TypeOK, NEW c \in Capturers,
         \/ ReadPart(c)
         \/ \E from \in Steps, to \in Steps : LoadAllParts(c, from, to)
  PROVE  /\ draft'[c].payload \in Seq(Msg) /\ Len(draft'[c].payload) = Len(draft[c].payload)
         /\ \A i \in 1 .. Len(draft[c].payload) : draft'[c].payload[i].id = draft[c].payload[i].id
<1>1. draft[c] \in Row /\ draft[c].payload \in Seq(Msg)
  BY DEF TypeOK, Row
<1>2. \A i \in 1 .. Len(draft[c].payload) : draft[c].payload[i] \in Msg
  BY <1>1
<1>3. CASE ReadPart(c)
  <2>1. PICK p \in Seq(Msg), n \in Nat :
          /\ draft'[c] = [draft[c] EXCEPT !.payload = p, !.count = n]
          /\ Len(p) = Len(draft[c].payload)
          /\ \A i \in 1 .. Len(p) : p[i] \in {draft[c].payload[i], WithParts(draft[c].payload[i])}
    BY <1>3, PartRead
  <2>2. draft'[c].payload = p
    BY <1>1, <2>1 DEF Row
  <2>3. \A i \in 1 .. Len(p) : p[i].id = draft[c].payload[i].id
    BY <1>2, <2>1, WithPartsType
  <2>. QED
    BY <2>1, <2>2, <2>3
<1>4. ASSUME NEW from \in Steps, NEW to \in Steps, LoadAllParts(c, from, to)
      PROVE  /\ draft'[c].payload \in Seq(Msg) /\ Len(draft'[c].payload) = Len(draft[c].payload)
             /\ \A i \in 1 .. Len(draft[c].payload) :
                  draft'[c].payload[i].id = draft[c].payload[i].id
  <2>1. PICK p \in Seq(Msg) :
          /\ draft'[c] = [draft[c] EXCEPT !.payload = p]
          /\ Len(p) = Len(draft[c].payload)
          /\ \A i \in 1 .. Len(p) : p[i] = WithParts(draft[c].payload[i])
    BY <1>4, AllPartsRead
  <2>2. draft'[c].payload = p
    BY <1>1, <2>1 DEF Row
  <2>3. \A i \in 1 .. Len(p) : p[i].id = draft[c].payload[i].id
    BY <1>2, <2>1, WithPartsType
  <2>. QED
    BY <2>1, <2>2, <2>3
<1>. QED
  BY <1>3, <1>4

\* The tool adds messages and revises them; it changes no identity.
LEMMA SourceKeepsBegins ==
  ASSUME TypeOK, ~Rewinds, AppendMessage \/ ReviseLast \/ Rewind \/ Tick
  PROVE  \A p : Len(p) \in Nat /\ Begins(p) => Begins(p)'
<1>0. now \in Nat /\ now > 0 /\ Source \in Seq(Msg) /\ Len(Source) \in Nat
  BY SourceType DEF TypeOK
<1>1. ASSUME NEW msgs \in Seq(Msg), timeline' = Append(timeline, msgs),
             Len(Source) <= Len(msgs),
             \A i \in 1 .. Len(Source) : msgs[i].id = Source[i].id
      PROVE  \A p : Len(p) \in Nat /\ Begins(p) => Begins(p)'
  <2>1. Source' = msgs
    BY <1>0, <1>1 DEF Source, now, TypeOK
  <2>2. ASSUME NEW p, Len(p) \in Nat, Begins(p) PROVE Begins(p)'
    <3>1. Len(p) <= Len(msgs) /\ \A i \in 1 .. Len(p) : i \in 1 .. Len(Source)
      BY <1>0, <1>1, <2>2 DEF Begins
    <3>2. \A i \in 1 .. Len(p) : p[i].id = msgs[i].id
      BY <1>1, <2>2, <3>1 DEF Begins
    <3>. QED
      BY <2>1, <3>1, <3>2 DEF Begins
  <2>. QED
    BY <2>2
<1>2. CASE AppendMessage
  <2>. DEFINE m == NewMessage(FreshId)
              msgs == Append(Source, m)
  <2>1. m \in Msg
    BY <1>0, NewMessageType DEF FreshId
  <2>2. /\ msgs \in Seq(Msg) /\ Len(msgs) = Len(Source) + 1
        /\ \A i \in 1 .. Len(Source) : msgs[i] = Source[i]
    BY <1>0, <2>1
  <2>3. timeline' = Append(timeline, msgs)
    BY <1>2 DEF AppendMessage, SourceWrite
  <2>. HIDE DEF msgs
  <2>. QED
    BY <1>0, <1>1, <2>2, <2>3
<1>3. CASE ReviseLast
  <2>. DEFINE L == Len(Source)
              msgs == [Source EXCEPT ![L].rev = 1]
  <2>1. L \in 1 .. Len(Source)
    BY <1>0, <1>3 DEF ReviseLast
  <2>2. [Source[L] EXCEPT !.rev = 1] \in Msg /\ [Source[L] EXCEPT !.rev = 1].id = Source[L].id
    <3>1. Source[L] \in Msg
      BY <1>0, <2>1
    <3>. QED
      BY <3>1 DEF Msg
  <2>3. msgs \in Seq(Msg) /\ Len(msgs) = Len(Source)
    BY <1>0, <2>1, <2>2
  <2>4. \A i \in 1 .. Len(Source) : msgs[i].id = Source[i].id
    BY <1>0, <2>1, <2>2
  <2>5. timeline' = Append(timeline, msgs)
    BY <1>3 DEF ReviseLast, SourceWrite
  <2>. HIDE DEF msgs
  <2>. QED
    BY <1>0, <1>1, <2>3, <2>4, <2>5
<1>4. CASE Tick
  BY <1>0, <1>1, <1>4 DEF Tick
<1>5. ~Rewind
  BY DEF Rewind
<1>. QED
  BY <1>2, <1>3, <1>4, <1>5

LEMMA TailSourceStep ==
  ASSUME TailInv, AppendOnly, AppendMessage \/ ReviseLast \/ Rewind \/ Tick
  PROVE  TailInv'
<1>0. TypeOK /\ TypeOK' /\ UNCHANGED <<row, captureVars, retainVars>>
  BY SourceStepType DEF TailInv, AppendMessage, ReviseLast, Rewind, Tick, SourceWrite
<1>1. SourceOrdered' /\ \A p : Len(p) \in Nat /\ Begins(p) => Begins(p)'
  BY <1>0, SourceStepOrdered, SourceKeepsBegins DEF TailInv, AppendOnly
<1>2. \A r \in Row : r.payload \in Seq(Msg) /\ Len(r.payload) \in Nat
  BY DEF Row
<1>3. Begins(row.payload)'
  BY <1>0, <1>1, <1>2 DEF TailInv, TypeOK
<1>4. ASSUME NEW c \in Capturers
      PROVE  /\ pc'[c] \in {"incCount", "incMeta", "incTail"}
                  => ~Exists(row') \/ draft'[c].count = row'.count
             /\ pc'[c] \in {"incParts", "merge"} /\ Exists(row')
                  => Begins(row.payload \o draft[c].payload)'
             /\ pc'[c] \in {"parts", "part", "finish", "save"} => Begins(draft[c].payload)'
  <2>1. draft[c].payload \in Seq(Msg) /\ row.payload \in Seq(Msg)
    BY <1>0, <1>2 DEF TypeOK
  <2>2. Len(row.payload \o draft[c].payload) \in Nat /\ Len(draft[c].payload) \in Nat
    <3>1. \A s, t \in Seq(Msg) : Len(s \o t) \in Nat /\ Len(t) \in Nat
      OBVIOUS
    <3>. QED
      BY <2>1, <3>1
  <2>3. UNCHANGED <<row, pc, draft>>
    BY <1>0 DEF captureVars
  <2>4. Begins(draft[c].payload) => Begins(draft[c].payload)'
    BY <1>1, <2>2, <2>3
  <2>5. Begins(row.payload \o draft[c].payload) => Begins(row.payload \o draft[c].payload)'
    BY <1>1, <2>2, <2>3
  <2>. QED
    BY <2>3, <2>4, <2>5 DEF TailInv, Exists
<1>. QED
  BY <1>0, <1>1, <1>3, <1>4 DEF TailInv, retainVars, Exists

\* The one capturer reads a tail after the messages the row holds, and appends
\* it to a row nobody else has saved in between.
LEMMA TailCaptureStep ==
  ASSUME TailInv, AppendOnly, NEW c \in Capturers, CaptureStep(c)
  PROVE  TailInv'
<1>0. /\ TypeOK /\ TypeOK' /\ UNCHANGED <<timeline, rpc>> /\ Source' = Source
      /\ Capturers = {c} /\ draft[c] \in Row
  BY CaptureStepType, CaptureFrame DEF TailInv, AppendOnly, TypeOK
<1>1. /\ Begins(<< >>) /\ Begins(Source) /\ Begins(Listed(Source))
      /\ row.payload \in Seq(Msg) /\ draft[c].payload \in Seq(Msg)
  <2>1. Source \in Seq(Msg) /\ Len(Source) \in Nat
    BY <1>0, SourceType
  <2>2. /\ Len(Listed(Source)) = Len(Source)
        /\ \A i \in 1 .. Len(Source) : Listed(Source)[i].id = Source[i].id
    BY <2>1, ListedType
  <2>3. Begins(<< >>) /\ Begins(Source)
    BY <2>1 DEF Begins
  <2>4. Begins(Listed(Source))
    BY <2>1, <2>2 DEF Begins
  <2>. QED
    BY <1>0, <2>3, <2>4 DEF TypeOK, Row
<1>2. /\ Begins(row'.payload) /\ row'.count = Len(row'.payload)
      /\ pc'[c] \in {"incCount", "incMeta", "incTail"}
           => ~Exists(row') \/ draft'[c].count = row'.count
      /\ pc'[c] \in {"incParts", "merge"} /\ Exists(row')
           => Begins(row'.payload \o draft'[c].payload)
      /\ pc'[c] \in {"parts", "part", "finish", "save"} => Begins(draft'[c].payload)
  <2>1. CASE CountSource(c) \/ StampSource(c) \/ ChooseExport(c)
    BY <1>0, <2>1 DEF CountSource, StampSource, ChooseExport, Goto, TailInv, TypeOK
  <2>2. CASE Skip(c) \/ Abort(c)
    BY <1>0, <2>2 DEF Skip, Abort, Finish, Goto, TailInv, TypeOK
  <2>3. CASE ReadOffset(c)
    <3>1. draft'[c].count = row.count
      BY <1>0, <2>3 DEF ReadOffset, TypeOK, Row
    <3>. QED
      BY <1>0, <2>3, <3>1 DEF ReadOffset, Goto, TailInv, TypeOK
  <2>4. CASE CheckOffset(c)
    BY <1>0, <2>4 DEF CheckOffset, Goto, TailInv, TypeOK
  <2>5. CASE ReadIncrementalStamp(c)
    <3>1. draft'[c].count = draft[c].count
      BY <1>0, <2>5 DEF ReadIncrementalStamp, TypeOK, Row
    <3>. QED
      BY <1>0, <2>5, <3>1 DEF ReadIncrementalStamp, Goto, TailInv, TypeOK
  <2>6. CASE ReadTail(c)
    <3>1. row' = row /\ pc[c] = "incTail" /\ pc'[c] \in {"export", "incParts"}
      BY <1>0, <2>6 DEF ReadTail, Goto, TypeOK
    <3>2. draft'[c].payload = LoadMessagesFrom(draft[c].count)
      BY <1>0, <2>6 DEF ReadTail, TypeOK, Row
    <3>3. ASSUME Exists(row) PROVE Begins(row.payload \o draft'[c].payload)
      <4>1. draft[c].count = Len(row.payload)
        BY <3>1, <3>3 DEF TailInv
      <4>. QED
        BY <1>0, <1>1, <3>2, <4>1, TailBegins DEF TailInv
    <3>. QED
      BY <3>1, <3>3 DEF TailInv
  <2>7. CASE ReadTailParts(c)
    <3>1. LoadAllParts(c, "incParts", "merge") /\ "incParts" \in Steps /\ "merge" \in Steps
      BY <2>7 DEF ReadTailParts, Steps
    <3>2. pc[c] = "incParts" /\ pc'[c] = "merge" /\ row' = row
      BY <1>0, <3>1 DEF LoadAllParts, Goto, TypeOK
    <3>3. \A i \in 1 .. Len(draft[c].payload) : draft'[c].payload[i].id = draft[c].payload[i].id
      BY <1>0, <3>1, PartsKeepIds
    <3>4. draft'[c].payload \in Seq(Msg) /\ Len(draft'[c].payload) = Len(draft[c].payload)
      BY <1>0, <3>1, PartsKeepIds
    <3>5. Exists(row) => Begins(row.payload \o draft'[c].payload)
      BY <1>1, <3>2, <3>3, <3>4, BeginsById DEF TailInv
    <3>. QED
      BY <3>2, <3>5 DEF TailInv
  <2>8. CASE Merge(c)
    <3>1. /\ row' = row /\ pc[c] = "merge"
          /\ pc'[c] = IF Exists(row) THEN "save" ELSE "export"
      BY <1>0, <2>8 DEF Merge, Goto, TypeOK
    <3>2. Exists(row) => draft'[c].payload = row.payload \o draft[c].payload
      BY <1>0, <2>8 DEF Merge, TypeOK, Row
    <3>. QED
      BY <3>1, <3>2 DEF TailInv
  <2>9. CASE ExportBegin(c)
    <3>1. draft'[c].payload = IF StampFirst THEN << >> ELSE Source
      BY <1>0, <2>9 DEF ExportBegin, TypeOK, NoRow
    <3>2. Begins(draft'[c].payload)
      BY <1>1, <3>1
    <3>. QED
      BY <1>0, <2>9, <3>2 DEF ExportBegin, Goto, TailInv, TypeOK
  <2>10. CASE ListMessages(c)
    <3>1. draft'[c].payload = Listed(Source)
      BY <1>0, <2>10 DEF ListMessages, TypeOK, Row
    <3>. QED
      BY <1>0, <1>1, <2>10, <3>1 DEF ListMessages, Goto, TailInv, TypeOK
  <2>11. CASE ReadParts(c)
    <3>1. LoadAllParts(c, "parts", "save") /\ "parts" \in Steps /\ "save" \in Steps
      BY <2>11 DEF ReadParts, Steps
    <3>2. pc[c] = "parts" /\ pc'[c] = "save" /\ row' = row
      BY <1>0, <3>1 DEF LoadAllParts, Goto, TypeOK
    <3>3. \A i \in 1 .. Len(draft[c].payload) : draft'[c].payload[i].id = draft[c].payload[i].id
      BY <1>0, <3>1, PartsKeepIds
    <3>4. draft'[c].payload \in Seq(Msg) /\ Len(draft'[c].payload) = Len(draft[c].payload)
      BY <1>0, <3>1, PartsKeepIds
    <3>5. Begins(draft'[c].payload)
      BY <1>1, <3>2, <3>3, <3>4, BeginsById DEF TailInv
    <3>. QED
      BY <3>2, <3>5 DEF TailInv
  <2>12. CASE ReadPart(c)
    <3>1. pc[c] = "part" /\ pc'[c] \in {"part", "save"} /\ row' = row
      BY <1>0, <2>12, PartRead DEF TypeOK
    <3>2. \A i \in 1 .. Len(draft[c].payload) : draft'[c].payload[i].id = draft[c].payload[i].id
      BY <1>0, <2>12, PartsKeepIds
    <3>3. draft'[c].payload \in Seq(Msg) /\ Len(draft'[c].payload) = Len(draft[c].payload)
      BY <1>0, <2>12, PartsKeepIds
    <3>4. Begins(draft'[c].payload)
      BY <1>1, <3>1, <3>2, <3>3, BeginsById DEF TailInv
    <3>. QED
      BY <3>1, <3>4 DEF TailInv
  <2>13. CASE ReadStampLast(c)
    <3>1. draft'[c].payload = draft[c].payload
      BY <1>0, <2>13 DEF ReadStampLast, TypeOK, Row
    <3>2. row' = row /\ pc[c] = "finish" /\ pc'[c] = "save"
      BY <1>0, <2>13 DEF ReadStampLast, Goto, TypeOK
    <3>. QED
      BY <3>1, <3>2 DEF TailInv
  <2>14. CASE SaveSession(c)
    <3>1. Begins(draft[c].payload) /\ pc'[c] = "idle"
      BY <2>14 DEF SaveSession, Finish, Goto, TailInv, TypeOK
    <3>2. row'.payload = draft[c].payload /\ row'.count = Len(draft[c].payload)
      BY <1>0, <2>14 DEF SaveSession, Saved, TypeOK, Row
    <3>. QED
      BY <3>1, <3>2
  <2>15. CASE ReadFails(c)
    <3>1. /\ row' = row /\ draft'[c] = draft[c]
          /\ \/ pc'[c] \in {"offset", "export"}
             \/ pc[c] = "incParts" /\ pc'[c] = "merge"
             \/ pc[c] = "parts" /\ pc'[c] = "part"
             \/ pc[c] = "finish" /\ pc'[c] = "save"
      BY <1>0, <2>15 DEF ReadFails, Goto, TypeOK
    <3>. QED
      BY <3>1 DEF TailInv
  <2>. QED
    BY <2>1, <2>2, <2>3, <2>4, <2>5, <2>6, <2>7, <2>8, <2>9, <2>10, <2>11, <2>12, <2>13,
       <2>14, <2>15 DEF CaptureStep, Capture
<1>3. SourceOrdered'
  BY <1>0, SourceStays DEF TailInv
<1>4. /\ Begins(row.payload)' /\ (row.count = Len(row.payload))'
      /\ (\A d \in Capturers :
            /\ pc[d] \in {"incCount", "incMeta", "incTail"}
                 => ~Exists(row) \/ draft[d].count = row.count
            /\ pc[d] \in {"incParts", "merge"} /\ Exists(row)
                 => Begins(row.payload \o draft[d].payload)
            /\ pc[d] \in {"parts", "part", "finish", "save"} => Begins(draft[d].payload))'
  BY <1>0, <1>2 DEF Begins, Exists
<1>. QED
  BY <1>0, <1>3, <1>4 DEF TailInv

LEMMA TailNext == AppendOnly /\ TailInv /\ [Next]_vars => TailInv'
<1>. SUFFICES ASSUME AppendOnly, TailInv, [Next]_vars PROVE TailInv'
  OBVIOUS
<1>0. TypeOK /\ TypeOK'
  BY NextType DEF TailInv
<1>1. ~RetentionRun /\ ~Touch
  BY DEF AppendOnly, TailInv, RetentionRun, ListWarm, GetWarm, PutWarm, PutRetained,
     ListCold, GetCold, PutCold, EndRun, Run, Touch
<1>2. ASSUME UNCHANGED <<sourceVars, captureVars, retainVars>>, row' \in {row, NoRow}
      PROVE  TailInv'
  <2>1. now' = now /\ Source' = Source
    BY <1>2 DEF now, Source, sourceVars
  <2>2. Begins(row.payload)' /\ (row.count = Len(row.payload))'
    <3>1. CASE row' = row
      BY <2>1, <3>1 DEF TailInv, Begins
    <3>2. CASE row' = NoRow
      <4>1. row'.payload = << >> /\ row'.count = 0
        BY <3>2 DEF NoRow
      <4>2. Len(Source) \in Nat
        BY <1>0, SourceType
      <4>. QED
        BY <2>1, <4>1, <4>2 DEF Begins
    <3>. QED
      BY <1>2, <3>1, <3>2
  <2>3. SourceOrdered'
    BY <1>2, SourceStays DEF TailInv, sourceVars
  <2>4. Exists(row') => row' = row
    BY <1>2 DEF NoRow, Exists
  <2>5. UNCHANGED <<pc, draft, rpc>>
    BY <1>2 DEF captureVars, retainVars
  <2>. QED
    BY <1>0, <2>1, <2>2, <2>3, <2>4, <2>5 DEF TailInv, Begins, Exists
<1>3. CASE Delete
  BY <1>2, <1>3 DEF Delete
<1>4. CASE UNCHANGED vars
  BY <1>2, <1>4 DEF vars, sourceVars, captureVars, retainVars
<1>. QED
  BY <1>1, <1>3, <1>4, TailSourceStep, TailCaptureStep DEF Next, CaptureStep

LEMMA TailInit == Init => TailInv
<1>. SUFFICES ASSUME Init PROVE TailInv
  OBVIOUS
<1>1. TypeOK /\ SourceOrdered
  BY InitType, SourceOrderedInit
<1>2. row.payload = << >> /\ row.count = 0
  BY DEF Init, NoRow
<1>3. Begins(row.payload) /\ row.count = Len(row.payload)
  BY <1>1, <1>2, SourceType DEF Begins
<1>. QED
  BY <1>1, <1>3 DEF Init, TailInv

\* Where one process at a time captures a session the tool only adds to, and
\* retention is off, incremental exports neither lose the order of the messages
\* nor store one twice, crashed captures and deleted rows included.
THEOREM IncrementalInOrder ==
  ASSUME AppendOnly
  PROVE  Spec => []InOrder
<1>1. TailInv => InOrder
  <2>. SUFFICES ASSUME TailInv PROVE InOrder
    OBVIOUS
  <2>1. row.payload \in Seq(Msg)
    BY DEF TailInv, TypeOK, Row
  <2>2. Ascending(row.payload)
    BY <2>1, BeginsInOrder DEF TailInv
  <2>. QED
    BY <2>2 DEF Ascending, InOrder
<1>2. TailInv /\ [Next]_vars => TailInv'
  BY TailNext
<1>. QED
  BY TailInit, <1>1, <1>2, PTL DEF Spec

-----------------------------------------------------------------------------
(* Incremental exports of a tool that writes messages whole: what is       *)
(* stored is then not only in order but the messages themselves, as long   *)
(* as no query fails.                                                      *)

Whole(p) == \A i \in 1 .. Len(p) : p[i].rev = 1

\* The source still has the messages.
Kept(p) == \A i \in 1 .. Len(p) : p[i].id \in Ids(Source)

\* Between the list and the parts a capture has messages the source still has;
\* before and after it has whole ones.
WholeInv ==
  /\ Whole(Source)
  /\ faults = 0 =>
       /\ Whole(row.payload)
       /\ \A c \in Capturers :
            /\ pc[c] \in {"merge", "finish", "save"} => Whole(draft[c].payload)
            /\ pc[c] \in {"incParts", "parts"} => Kept(draft[c].payload)
            /\ pc[c] # "part"

\* Whole messages before whole messages.
LEMMA WholeJoined ==
  ASSUME NEW p \in Seq(Msg), NEW q \in Seq(Msg), Whole(p), Whole(q)
  PROVE  Whole(p \o q)
<1>1. Len(p \o q) = Len(p) + Len(q) /\ Len(p) \in Nat /\ Len(q) \in Nat
  BY JoinedLength
<1>2. ASSUME NEW i \in 1 .. Len(p \o q) PROVE (p \o q)[i].rev = 1
  <2>1. CASE i <= Len(p)
    BY <2>1 DEF Whole
  <2>2. CASE i > Len(p)
    <3>1. i - Len(p) \in 1 .. Len(q) /\ (p \o q)[i] = q[i - Len(p)]
      BY <1>1, <2>2
    <3>. QED
      BY <3>1 DEF Whole
  <2>. QED
    BY <2>1, <2>2
<1>. QED
  BY <1>2 DEF Whole

\* What is listed of the source is in the source.
LEMMA ListedKept ==
  ASSUME TypeOK
  PROVE  Kept(Listed(Source)) /\ \A n \in Nat : Kept(LoadMessagesFrom(n))
<1>1. Source \in Seq(Msg) /\ Len(Source) \in Nat
  BY SourceType
<1>2. Kept(Listed(Source))
  <2>1. /\ Len(Listed(Source)) = Len(Source)
        /\ \A i \in 1 .. Len(Source) : Listed(Source)[i].id = Source[i].id
    BY <1>1, ListedType
  <2>. QED
    BY <2>1 DEF Kept, Ids
<1>3. ASSUME NEW n \in Nat PROVE Kept(LoadMessagesFrom(n))
  <2>. DEFINE s == SubSeq(Source, n + 1, Len(Source))
  <2>1. /\ s \in Seq(Msg)
        /\ \A i \in 1 .. Len(s) : n + i \in 1 .. Len(Source) /\ s[i] = Source[n + i]
    BY <1>1
  <2>2. LoadMessagesFrom(n) = Listed(s)
    BY DEF LoadMessagesFrom
  <2>. HIDE DEF s
  <2>3. /\ Len(Listed(s)) = Len(s)
        /\ \A i \in 1 .. Len(s) : Listed(s)[i].id = s[i].id
    BY <2>1, ListedType
  <2>4. ASSUME NEW i \in 1 .. Len(s) PROVE Listed(s)[i].id \in Ids(Source)
    BY <2>1, <2>3 DEF Ids
  <2>. QED
    BY <2>2, <2>3, <2>4 DEF Kept
<1>. QED
  BY <1>2, <1>3

\* The parts of messages a whole source still has are all there.
LEMMA PartsWhole ==
  ASSUME TypeOK, NEW c \in Capturers, NEW from \in Steps, NEW to \in Steps,
         LoadAllParts(c, from, to), Whole(Source), Kept(draft[c].payload)
  PROVE  Whole(draft'[c].payload)
<1>1. draft[c] \in Row /\ draft[c].payload \in Seq(Msg)
  BY DEF TypeOK, Row
<1>2. PICK p \in Seq(Msg) :
        /\ draft'[c] = [draft[c] EXCEPT !.payload = p]
        /\ Len(p) = Len(draft[c].payload)
        /\ \A i \in 1 .. Len(p) : p[i] = WithParts(draft[c].payload[i])
  BY AllPartsRead
<1>3. draft'[c].payload = p
  BY <1>1, <1>2 DEF Row
<1>4. \A m \in Elements(Source) : m.rev = 1
  BY DEF Elements, Whole
<1>5. ASSUME NEW i \in 1 .. Len(p) PROVE p[i].rev = 1
  <2>1. draft[c].payload[i] \in Msg /\ draft[c].payload[i].id \in Ids(Source)
    BY <1>1, <1>2 DEF Kept
  <2>2. WithParts(draft[c].payload[i]) \in Elements(Source)
    BY <2>1, WithPartsType
  <2>. QED
    BY <1>2, <1>4, <2>2
<1>. QED
  BY <1>3, <1>5 DEF Whole

LEMMA WholeSourceStep ==
  ASSUME TypeOK, WholeInv, ~Streams, ~Rewinds, AppendMessage \/ ReviseLast \/ Rewind \/ Tick
  PROVE  WholeInv'
<1>0. now \in Nat /\ now > 0 /\ Source \in Seq(Msg) /\ timeline \in Seq(Seq(Msg))
  BY SourceType DEF TypeOK
<1>1. UNCHANGED <<row, pc, draft, faults>>
  BY DEF AppendMessage, ReviseLast, Rewind, Tick, SourceWrite, captureVars
<1>2. Whole(Source)' /\ Ids(Source) \subseteq Ids(Source)'
  <2>1. CASE AppendMessage
    <3>. DEFINE m == NewMessage(FreshId)
                s == Append(Source, m)
    <3>1. m \in Msg /\ m.rev = 1
      BY <1>0, NewMessageType DEF FreshId, NewMessage
    <3>. HIDE DEF m
    <3>2. /\ s \in Seq(Msg) /\ Len(s) = Len(Source) + 1
          /\ \A i \in 1 .. Len(Source) : s[i] = Source[i] /\ i \in 1 .. Len(s)
          /\ s[Len(Source) + 1] = m
      BY <1>0, <3>1
    <3>3. timeline' = Append(timeline, s)
      BY <2>1 DEF AppendMessage, SourceWrite, m
    <3>. HIDE DEF s
    <3>4. Source' = s
      BY <1>0, <3>2, <3>3 DEF Source, now
    <3>5. ASSUME NEW i \in 1 .. Len(s) PROVE s[i].rev = 1
      <4>1. i \in 1 .. Len(Source) \/ i = Len(Source) + 1
        BY <1>0, <3>2
      <4>. QED
        BY <3>1, <3>2, <4>1 DEF WholeInv, Whole
    <3>6. Ids(Source) \subseteq Ids(s)
      BY <3>2 DEF Ids
    <3>. QED
      BY <3>4, <3>5, <3>6 DEF Whole, Ids
  <2>2. CASE Tick
    <3>1. Source' = Source
      BY <1>0, <2>2 DEF Tick, Source, now
    <3>. QED
      BY <3>1 DEF WholeInv, Whole, Ids
  <2>. QED
    BY <2>1, <2>2 DEF ReviseLast, Rewind
<1>3. ASSUME NEW c \in Capturers, Kept(draft[c].payload) PROVE Kept(draft[c].payload)'
  BY <1>1, <1>2, <1>3 DEF Kept
<1>. QED
  BY <1>1, <1>2, <1>3 DEF WholeInv, Whole

LEMMA WholeCaptureStep ==
  ASSUME TypeOK, WholeInv, NEW c \in Capturers, CaptureStep(c)
  PROVE  WholeInv'
<1>0. /\ Source' = Source /\ faults' \in Nat /\ faults' >= faults /\ faults \in Nat
      /\ row.payload \in Seq(Msg) /\ Source \in Seq(Msg)
      /\ draft[c] \in Row /\ draft[c].payload \in Seq(Msg) /\ draft[c].count \in Nat
      /\ \A d \in Capturers \ {c} : pc'[d] = pc[d] /\ draft'[d] = draft[d]
  BY CaptureFrame, SourceType DEF TypeOK, Row
<1>1. Whole(Source) /\ Whole(Source)'
  BY <1>0 DEF WholeInv, Whole
<1>2. CASE faults' # 0
  BY <1>1, <1>2 DEF WholeInv
<1>3. CASE faults' = 0
  <2>0. faults = 0
    BY <1>0, <1>3
  <2>1. /\ Whole(row.payload)
        /\ pc[c] \in {"merge", "finish", "save"} => Whole(draft[c].payload)
        /\ pc[c] \in {"incParts", "parts"} => Kept(draft[c].payload)
        /\ pc[c] # "part"
    BY <2>0 DEF WholeInv
  <2>2. /\ Whole(row'.payload)
        /\ pc'[c] \in {"merge", "finish", "save"} => Whole(draft'[c].payload)
        /\ pc'[c] \in {"incParts", "parts"} => Kept(draft'[c].payload)
        /\ pc'[c] # "part"
    <3>1. CASE CountSource(c) \/ StampSource(c) \/ ChooseExport(c) \/ CheckOffset(c)
      BY <2>1, <3>1 DEF CountSource, StampSource, ChooseExport, CheckOffset, Goto, TypeOK
    <3>2. CASE Skip(c) \/ ReadOffset(c) \/ ReadIncrementalStamp(c)
      BY <2>1, <3>2 DEF Skip, ReadOffset, ReadIncrementalStamp, Finish, Goto, TypeOK
    <3>3. CASE ReadTail(c)
      <4>1. row' = row /\ pc'[c] \in {"export", "incParts"}
        BY <3>3 DEF ReadTail, Goto, TypeOK
      <4>2. draft'[c].payload = LoadMessagesFrom(draft[c].count)
        BY <1>0, <3>3 DEF ReadTail, TypeOK, Row
      <4>3. Kept(draft'[c].payload)
        BY <1>0, <4>2, ListedKept
      <4>. QED
        BY <2>1, <4>1, <4>3
    <3>4. CASE ReadTailParts(c) \/ ReadParts(c)
      <4>1. PICK from \in {"incParts", "parts"}, to \in {"merge", "save"} :
              LoadAllParts(c, from, to)
        BY <3>4 DEF ReadTailParts, ReadParts
      <4>2. from \in Steps /\ to \in Steps
        BY <4>1 DEF Steps
      <4>3. pc[c] = from /\ pc'[c] = to /\ row' = row
        BY <4>1 DEF LoadAllParts, Goto, TypeOK
      <4>4. Whole(draft'[c].payload)
        BY <1>1, <2>1, <4>1, <4>2, <4>3, PartsWhole
      <4>. QED
        BY <2>1, <4>3, <4>4
    <3>5. CASE Merge(c)
      <4>1. /\ row' = row /\ pc[c] = "merge"
            /\ pc'[c] = IF Exists(row) THEN "save" ELSE "export"
        BY <3>5 DEF Merge, Goto, TypeOK
      <4>2. Exists(row) => draft'[c].payload = row.payload \o draft[c].payload
        BY <1>0, <3>5 DEF Merge, TypeOK, Row
      <4>3. Whole(row.payload \o draft[c].payload)
        BY <1>0, <2>1, <4>1, WholeJoined
      <4>. QED
        BY <2>1, <4>1, <4>2, <4>3
    <3>6. CASE ExportBegin(c)
      <4>1. /\ row' = row /\ pc'[c] = IF StampFirst THEN "list" ELSE "finish"
            /\ draft'[c].payload = IF StampFirst THEN << >> ELSE Source
        BY <1>0, <3>6 DEF ExportBegin, Goto, TypeOK, NoRow
      <4>. QED
        BY <1>1, <2>1, <4>1
    <3>7. CASE ListMessages(c)
      <4>1. row' = row /\ pc'[c] = "parts" /\ draft'[c].payload = Listed(Source)
        BY <1>0, <3>7 DEF ListMessages, Goto, TypeOK, Row
      <4>2. Kept(draft'[c].payload)
        BY <4>1, ListedKept
      <4>. QED
        BY <2>1, <4>1, <4>2
    <3>8. CASE ReadPart(c)
      BY <2>1, <3>8 DEF ReadPart, Goto
    <3>9. CASE ReadStampLast(c)
      <4>1. draft'[c].payload = draft[c].payload
        BY <1>0, <3>9 DEF ReadStampLast, TypeOK, Row
      <4>2. row' = row /\ pc[c] = "finish" /\ pc'[c] = "save"
        BY <3>9 DEF ReadStampLast, Goto, TypeOK
      <4>. QED
        BY <2>1, <4>1, <4>2
    <3>10. CASE SaveSession(c)
      <4>1. row'.payload = draft[c].payload /\ pc[c] = "save" /\ pc'[c] = "idle"
        BY <1>0, <3>10 DEF SaveSession, Finish, Goto, Saved, TypeOK, Row
      <4>. QED
        BY <2>1, <4>1
    <3>11. CASE Abort(c) \/ ReadFails(c)
      BY <1>0, <1>3, <2>0, <3>11 DEF Abort, ReadFails
    <3>. QED
      BY <3>1, <3>2, <3>3, <3>4, <3>5, <3>6, <3>7, <3>8, <3>9, <3>10, <3>11
         DEF CaptureStep, Capture
  <2>3. Kept(draft'[c].payload) => Kept(draft[c].payload)'
    BY <1>0 DEF Kept, Ids
  <2>4. ASSUME NEW d \in Capturers
        PROVE  /\ pc'[d] \in {"merge", "finish", "save"} => Whole(draft'[d].payload)
               /\ pc'[d] \in {"incParts", "parts"} => Kept(draft[d].payload)'
               /\ pc'[d] # "part"
    <3>1. CASE d = c
      BY <2>2, <2>3, <3>1
    <3>2. CASE d # c
      <4>1. pc'[d] = pc[d] /\ draft'[d] = draft[d]
        BY <1>0, <3>2
      <4>2. Kept(draft[d].payload) => Kept(draft[d].payload)'
        BY <1>0, <4>1 DEF Kept, Ids
      <4>. QED
        BY <2>0, <4>1, <4>2 DEF WholeInv
    <3>. QED
      BY <3>1, <3>2
  <2>5. Whole(row.payload)'
    BY <2>2 DEF Whole
  <2>. QED
    BY <1>1, <2>4, <2>5 DEF WholeInv, Whole
<1>. QED
  BY <1>2, <1>3

\* Where one process captures, the tool writes messages whole and never takes one
\* back, and retention is off, a session that incremental exports have left with
\* the count and the stamp of the source has its very messages; after a failed
\* query some may be without their parts.
THEOREM IncrementalSkipSound ==
  ASSUME AppendOnly, ~Streams
  PROVE  Spec => []SkipIsSound
<1>1. TailInv /\ WholeInv => SkipIsSound
  <2>. SUFFICES ASSUME TailInv, WholeInv, Fresh PROVE Complete
    BY DEF SkipIsSound
  <2>1. row.payload \in Seq(Msg) /\ Source \in Seq(Msg) /\ faults \in Nat
    BY SourceType DEF TailInv, TypeOK, Row
  <2>2. Len(row.payload) = Len(Source)
    BY DEF Fresh, Unchanged, TailInv
  <2>3. ASSUME NEW i \in 1 .. Len(Source) PROVE Holds(row.payload[i], Source[i])
    <3>1. row.payload[i] \in Msg /\ Source[i] \in Msg
      BY <2>1, <2>2
    <3>2. row.payload[i].id = Source[i].id /\ Source[i].rev = 1
      BY <2>2 DEF TailInv, Begins, WholeInv, Whole
    <3>3. CASE row.payload[i].rev = 1
      <4>1. row.payload[i] = Source[i]
        BY <3>1, <3>2, <3>3 DEF Msg
      <4>. QED
        BY <4>1 DEF Holds
    <3>4. CASE row.payload[i].rev # 1
      <4>1. faults > 0
        BY <2>1, <2>2, <3>4 DEF WholeInv, Whole
      <4>2. row.payload[i] = [Source[i] EXCEPT !.rev = 0]
        BY <3>1, <3>2, <3>4 DEF Msg
      <4>. QED
        BY <4>1, <4>2 DEF Holds
    <3>. QED
      BY <3>3, <3>4
  <2>. QED
    BY <2>2, <2>3 DEF Complete
<1>2. Init => WholeInv
  <2>. SUFFICES ASSUME Init PROVE WholeInv
    OBVIOUS
  <2>1. /\ Source = << NewMessage(1) >> /\ NewMessage(1).rev = 1
        /\ row.payload = << >> /\ \A c \in Capturers : pc[c] = "idle"
    BY DEF Init, Source, now, NoRow, NewMessage
  <2>. QED
    BY <2>1 DEF WholeInv, Whole
<1>3. TailInv /\ WholeInv /\ [Next]_vars => WholeInv'
  <2>. SUFFICES ASSUME TailInv, WholeInv, [Next]_vars PROVE WholeInv'
    OBVIOUS
  <2>1. TypeOK /\ ~RetentionRun /\ ~Touch
    BY DEF AppendOnly, TailInv, RetentionRun, ListWarm, GetWarm, PutWarm, PutRetained,
       ListCold, GetCold, PutCold, EndRun, Run, Touch
  <2>2. CASE Delete
    <3>1. timeline' = timeline /\ faults' # 0
      BY <2>1, <2>2 DEF Delete, sourceVars, TypeOK
    <3>2. Source' = Source
      BY <3>1 DEF Source, now
    <3>. QED
      BY <3>1, <3>2 DEF WholeInv, Whole
  <2>3. CASE UNCHANGED vars
    <3>1. UNCHANGED <<timeline, pc, draft, row, faults>>
      BY <2>3 DEF vars
    <3>2. Source' = Source
      BY <3>1 DEF Source, now
    <3>. QED
      BY <3>1, <3>2 DEF WholeInv, Whole, Kept, Ids
  <2>. QED
    BY <2>1, <2>2, <2>3, WholeSourceStep, WholeCaptureStep DEF Next, AppendOnly, CaptureStep
<1>4. TailInv /\ [Next]_vars => TailInv'
  BY TailNext
<1>. QED
  BY TailInit, <1>1, <1>2, <1>3, <1>4, PTL DEF Spec
=============================================================================
