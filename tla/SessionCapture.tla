--------------------------- MODULE SessionCapture ---------------------------
(***************************************************************************)
(* Capturing one session of an AI tool into the store while the tool keeps *)
(* writing it, while other processes capture it too (git hook, editor      *)
(* plugin, scheduled capture) and while retention compacts it.             *)
(*                                                                         *)
(* The components share nothing but two databases, the tool's and aisync's,*)
(* and lock neither: every query is a step of its own, and every query of  *)
(* a capture may fail.  There is one session, for rows of different        *)
(* sessions never meet.                                                    *)
(***************************************************************************)
EXTENDS SessionStore

CONSTANTS
  Capturers,     \* processes that run captureOne and then Save
  Incremental,   \* the provider implements IncrementalExporter
  StampFirst,    \* Export reads the updated-at stamp before the messages
  Streams,       \* the tool revises its last message after creating it
  Rewinds,       \* the tool drops messages from the end and goes on
  Retention,     \* retention is enabled
  CompactAfter,  \* compact_after_idle
  ArchiveAfter,  \* archive_after_idle
  MaxTime,       \* bound on the clock
  MaxFaults      \* bound on crashed captures, failed reads and deleted rows

ASSUME FlagsAssumption ==
  /\ Incremental \in BOOLEAN /\ StampFirst \in BOOLEAN
  /\ Streams \in BOOLEAN /\ Rewinds \in BOOLEAN /\ Retention \in BOOLEAN
ASSUME BoundsAssumption ==
  /\ CompactAfter \in Nat /\ ArchiveAfter \in Nat
  /\ MaxTime \in Nat \ {0} /\ MaxFaults \in Nat

VARIABLES
  timeline,   \* what the source held at each instant: timeline[t], newest last
  updated,    \* the source's own updated-at stamp
  row,        \* aisync's row for the session
  pc,         \* where each capturer is
  seen,       \* the source freshness each capturer read
  draft,      \* the session each capturer is building
  rpc,        \* where the retention run is
  runAt,      \* the instant the retention run took as now
  copy,       \* the session the retention run loaded
  faults      \* crashes, failed reads and deletions so far

sourceVars  == <<timeline, updated>>
captureVars == <<pc, seen, draft>>
retainVars  == <<rpc, runAt, copy>>
vars == <<timeline, updated, row, pc, seen, draft, rpc, runAt, copy, faults>>

Elements(s) == { s[i] : i \in 1 .. Len(s) }

now == Len(timeline)
Source == timeline[now]

Steps == {"idle", "stamp", "compare", "offset", "incCount", "incMeta", "incTail",
          "incParts", "merge", "export", "list", "parts", "part", "finish", "save"}
RetainSteps == {"idle", "warmGet", "warmPut", "coldList", "coldGet", "coldPut"}

Freshness == [count : Nat, updatedAt : Nat]
NoFreshness == [count |-> 0, updatedAt |-> 0]

TypeOK ==
  /\ timeline \in Seq(Seq(Msg)) /\ now > 0
  /\ updated \in 1 .. now
  /\ row \in Row
  /\ pc \in [Capturers -> Steps]
  /\ seen \in [Capturers -> Freshness]
  /\ draft \in [Capturers -> Row]
  /\ rpc \in RetainSteps
  /\ runAt \in Nat
  /\ copy \in Row
  /\ faults \in Nat

\* A message as the tool creates it.
NewMessage(id) == [id |-> id, rev |-> IF Streams THEN 0 ELSE 1]

Init ==
  /\ timeline = << << NewMessage(1) >> >>
  /\ updated = 1
  /\ row = NoRow
  /\ pc = [c \in Capturers |-> "idle"]
  /\ seen = [c \in Capturers |-> NoFreshness]
  /\ draft = [c \in Capturers |-> NoRow]
  /\ rpc = "idle" /\ runAt = 0 /\ copy = NoRow
  /\ faults = 0

-----------------------------------------------------------------------------
(* The source: the AI tool's own database, written by the tool.  Every     *)
(* write bumps the session's updated-at stamp.                             *)

SourceWrite(msgs) ==
  /\ now < MaxTime
  /\ timeline' = Append(timeline, msgs)
  /\ updated' = now + 1
  /\ UNCHANGED <<row, captureVars, retainVars, faults>>

\* A message identity no instant of the source has used.
FreshId == now + 1

AppendMessage == SourceWrite(Append(Source, NewMessage(FreshId)))

\* The streamed parts of the last message arrive.
ReviseLast ==
  /\ Streams /\ Source # << >> /\ Source[Len(Source)].rev = 0
  /\ SourceWrite([Source EXCEPT ![Len(Source)].rev = 1])

\* The user rewinds the conversation: its last messages are removed.
Rewind ==
  /\ Rewinds
  /\ \E n \in 1 .. Len(Source) - 1 : SourceWrite(SubSeq(Source, 1, n))

\* Time passes and the source does not change.
Tick ==
  /\ now < MaxTime
  /\ timeline' = Append(timeline, Source)
  /\ UNCHANGED <<updated, row, captureVars, retainVars, faults>>

-----------------------------------------------------------------------------
(* A capture: captureOne of the capture service, then the Save of the      *)
(* session service.                                                        *)

Goto(c, from, to) == pc[c] = from /\ pc' = [pc EXCEPT ![c] = to]

\* The capture ends; its variables die with it.
Finish(c, from) ==
  /\ Goto(c, from, "idle")
  /\ seen' = [seen EXCEPT ![c] = NoFreshness]
  /\ draft' = [draft EXCEPT ![c] = NoRow]

\* SessionFreshness counts the messages ...
CountSource(c) ==
  /\ Goto(c, "idle", "stamp")
  /\ seen' = [seen EXCEPT ![c].count = Len(Source)]
  /\ UNCHANGED <<sourceVars, row, draft, retainVars, faults>>

\* ... and then reads the stamp with a second query.
StampSource(c) ==
  /\ Goto(c, "stamp", "compare")
  /\ seen' = [seen EXCEPT ![c].updatedAt = updated]
  /\ UNCHANGED <<sourceVars, row, draft, retainVars, faults>>

\* Mutations of Unchanged: only the count or only the stamp is compared.
UnchangedByCount(r, fresh) == r.count # 0 /\ r.count = fresh.count
UnchangedByStamp(r, fresh) == r.updatedAt # 0 /\ r.updatedAt = fresh.updatedAt

\* The row and the source freshness agree: skipIfUnchanged says unchanged.
Unchanged(r, fresh) ==
  /\ ~(r.count = 0 /\ r.updatedAt = 0)
  /\ r.count = fresh.count /\ r.updatedAt = fresh.updatedAt

Skip(c) ==
  /\ Unchanged(row, seen[c])
  /\ Finish(c, "compare")
  /\ UNCHANGED <<sourceVars, row, retainVars, faults>>

\* exportSession: a provider with incremental export is asked for the tail.
ChooseExport(c) ==
  /\ ~Unchanged(row, seen[c])
  /\ Goto(c, "compare", IF Incremental THEN "offset" ELSE "export")
  /\ UNCHANGED <<sourceVars, row, seen, draft, retainVars, faults>>

\* A second GetFreshness gives the offset; draft.count holds it until merge.
ReadOffset(c) ==
  /\ Goto(c, "offset", IF row.count = 0 THEN "export" ELSE "incCount")
  /\ draft' = [draft EXCEPT ![c].count = row.count]
  /\ UNCHANGED <<sourceVars, row, seen, retainVars, faults>>

\* ExportIncremental: the four queries it makes of the source.
CheckOffset(c) ==
  /\ Goto(c, "incCount", IF Len(Source) <= draft[c].count THEN "export" ELSE "incMeta")
  /\ UNCHANGED <<sourceVars, row, seen, draft, retainVars, faults>>

ReadIncrementalStamp(c) ==
  /\ Goto(c, "incMeta", "incTail")
  /\ draft' = [draft EXCEPT ![c].updatedAt = updated]
  /\ UNCHANGED <<sourceVars, row, seen, retainVars, faults>>

\* The table of messages does not hold their parts.
Listed(msgs) == [i \in 1 .. Len(msgs) |-> [msgs[i] EXCEPT !.rev = 0]]

\* The message with the parts the source now has of it: none when the tool has
\* removed it since it was listed.
WithParts(m) ==
  IF \E s \in Elements(Source) : s.id = m.id
  THEN CHOOSE s \in Elements(Source) : s.id = m.id
  ELSE m

\* Mutation of LoadMessagesFrom: the offset taken as the last message wanted.
LoadMessagesInclusive(offset) == Listed(SubSeq(Source, offset, Len(Source)))

LoadMessagesFrom(offset) == Listed(SubSeq(Source, offset + 1, Len(Source)))

ReadTail(c) ==
  LET tail == LoadMessagesFrom(draft[c].count) IN
  /\ Goto(c, "incTail", IF tail = << >> THEN "export" ELSE "incParts")
  /\ draft' = [draft EXCEPT ![c].payload = tail]
  /\ UNCHANGED <<sourceVars, row, seen, retainVars, faults>>

\* All parts of the listed messages, in one query.
LoadAllParts(c, from, to) ==
  LET msgs == draft[c].payload IN
  /\ Goto(c, from, to)
  /\ draft' = [draft EXCEPT ![c].payload = [i \in 1 .. Len(msgs) |-> WithParts(msgs[i])]]
  /\ UNCHANGED <<sourceVars, row, seen, retainVars, faults>>

ReadTailParts(c) == LoadAllParts(c, "incParts", "merge")

\* Mutation of Merge: the tail replaces the stored messages.
MergeReplaces(c) ==
  /\ Goto(c, "merge", IF Exists(row) THEN "save" ELSE "export")
  /\ draft' = [draft EXCEPT ![c] =
                 IF Exists(row)
                 THEN [row EXCEPT !.payload = draft[c].payload,
                                  !.updatedAt = draft[c].updatedAt]
                 ELSE @]
  /\ UNCHANGED <<sourceVars, row, seen, retainVars, faults>>

\* Get the stored session as it is now and append the tail to its payload.
Merge(c) ==
  /\ Goto(c, "merge", IF Exists(row) THEN "save" ELSE "export")
  /\ draft' = [draft EXCEPT ![c] =
                 IF Exists(row)
                 THEN [row EXCEPT !.payload = row.payload \o draft[c].payload,
                                  !.updatedAt = draft[c].updatedAt]
                 ELSE @]
  /\ UNCHANGED <<sourceVars, row, seen, retainVars, faults>>

\* Export reads the whole session anew: a new, hot session.  OpenCode's stamp is
\* read first, then the list of messages, then their parts.  Claude's file is read
\* in one pass, and captureOne asks for the stamp afterwards.
ExportBegin(c) ==
  /\ Goto(c, "export", IF StampFirst THEN "list" ELSE "finish")
  /\ draft' = [draft EXCEPT ![c] =
                 [NoRow EXCEPT !.tier = "hot", !.accessed = now,
                    !.updatedAt = IF StampFirst THEN updated ELSE 0,
                    !.payload = IF StampFirst THEN << >> ELSE Source]]
  /\ UNCHANGED <<sourceVars, row, seen, retainVars, faults>>

\* Mutation of ListMessages: the export is added to what is stored.
ListMessagesAdds(c) ==
  /\ Goto(c, "list", "parts")
  /\ draft' = [draft EXCEPT ![c].payload = row.payload \o Listed(Source)]
  /\ UNCHANGED <<sourceVars, row, seen, retainVars, faults>>

ListMessages(c) ==
  /\ Goto(c, "list", "parts")
  /\ draft' = [draft EXCEPT ![c].payload = Listed(Source)]
  /\ UNCHANGED <<sourceVars, row, seen, retainVars, faults>>

ReadParts(c) == LoadAllParts(c, "parts", "save")

\* When that query fails the parts are loaded message by message, an error read as
\* "no parts"; draft.count holds how many messages are done.
ReadPart(c) ==
  LET k == draft[c].count + 1 IN
  /\ Goto(c, "part", IF k < Len(draft[c].payload) THEN "part" ELSE "save")
  /\ \E m \in {draft[c].payload[k], WithParts(draft[c].payload[k])} :
       draft' = [draft EXCEPT ![c].payload[k] = m, ![c].count = k]
  /\ UNCHANGED <<sourceVars, row, seen, retainVars, faults>>

ReadStampLast(c) ==
  /\ Goto(c, "finish", "save")
  /\ draft' = [draft EXCEPT ![c].updatedAt = updated]
  /\ UNCHANGED <<sourceVars, row, seen, retainVars, faults>>

SaveSession(c) ==
  /\ row' = Saved(draft[c])
  /\ Finish(c, "save")
  /\ UNCHANGED <<sourceVars, retainVars, faults>>

\* The process dies, a query whose error is returned fails, or the secret scanner
\* blocks the capture: nothing is saved.
Abort(c) ==
  /\ pc[c] # "idle" /\ faults < MaxFaults
  /\ Finish(c, pc[c])
  /\ faults' = faults + 1
  /\ UNCHANGED <<sourceVars, row, retainVars>>

\* A query fails and the capture goes on without its answer: what cannot be compared
\* is captured, an incremental export becomes a full one, a session is saved
\* without the stamp or the parts that could not be read.
ReadFails(c) ==
  /\ faults < MaxFaults /\ faults' = faults + 1
  /\ \/ /\ pc[c] \in {"stamp", "compare"}
        /\ Goto(c, pc[c], IF Incremental THEN "offset" ELSE "export")
     \/ /\ pc[c] \in {"offset", "incCount", "incMeta", "incTail", "merge"}
        /\ Goto(c, pc[c], "export")
     \/ Goto(c, "incParts", "merge")
     \/ Goto(c, "parts", "part")
     \/ Goto(c, "finish", "save")
  /\ UNCHANGED <<sourceVars, row, seen, draft, retainVars>>

Capture(c) ==
  \/ CountSource(c) \/ StampSource(c) \/ Skip(c) \/ ChooseExport(c)
  \/ ReadOffset(c) \/ CheckOffset(c) \/ ReadIncrementalStamp(c)
  \/ ReadTail(c) \/ ReadTailParts(c) \/ Merge(c)
  \/ ExportBegin(c) \/ ListMessages(c) \/ ReadParts(c) \/ ReadPart(c) \/ ReadStampLast(c)
  \/ SaveSession(c)

-----------------------------------------------------------------------------
(* CompactIdleSessions: the warm pass, then the cold pass of the same run. *)

\* x - y on naturals; the cutoff of an idle time longer than the past.
Cutoff(at, idleFor) == IF at > idleFor THEN at - idleFor ELSE 0

Run(from, to) == rpc = from /\ rpc' = to

\* A run starts and lists the warm candidates.
ListWarm ==
  /\ Retention
  /\ Run("idle", IF WarmCandidate(row, Cutoff(now, CompactAfter))
                 THEN "warmGet" ELSE "coldList")
  /\ runAt' = now
  /\ UNCHANGED <<sourceVars, row, captureVars, copy, faults>>

\* Load the session; its tier is looked at again, its idle time is not.
GetWarm ==
  /\ \/ /\ row.tier = "hot" /\ ~row.compacted
        /\ Run("warmGet", "warmPut")
        /\ \E w \in Windows(row.payload) :
             copy' = [row EXCEPT !.payload = w, !.tier = "warm", !.compacted = TRUE]
     \/ /\ row.tier # "hot" \/ row.compacted
        /\ Run("warmGet", "coldList")
        /\ UNCHANGED copy
  /\ UNCHANGED <<sourceVars, row, captureVars, runAt, faults>>

PutRetained(from, to) ==
  /\ Run(from, to)
  /\ row' = IF Exists(row) THEN Retained(row, copy) ELSE row
  /\ copy' = NoRow
  /\ UNCHANGED <<sourceVars, captureVars, faults>>

PutWarm == PutRetained("warmPut", "coldList") /\ UNCHANGED runAt

EndRun(from) == Run(from, "idle") /\ runAt' = 0

ListCold ==
  /\ \/ /\ ColdCandidate(row, Cutoff(runAt, ArchiveAfter))
        /\ Run("coldList", "coldGet")
        /\ UNCHANGED runAt
     \/ /\ ~ColdCandidate(row, Cutoff(runAt, ArchiveAfter))
        /\ EndRun("coldList")
  /\ UNCHANGED <<sourceVars, row, captureVars, copy, faults>>

\* coldArchivable: still warm, with a summary and a token count.  A session
\* without either is skipped.
GetCold ==
  /\ \/ /\ row.tier = "warm"
        /\ Run("coldGet", "coldPut")
        /\ copy' = [row EXCEPT !.payload = << >>, !.tier = "cold", !.compacted = TRUE]
        /\ UNCHANGED runAt
     \/ EndRun("coldGet") /\ UNCHANGED copy
  /\ UNCHANGED <<sourceVars, row, captureVars, faults>>

PutCold == PutRetained("coldPut", "idle") /\ runAt' = 0

RetentionRun == ListWarm \/ GetWarm \/ PutWarm \/ ListCold \/ GetCold \/ PutCold

-----------------------------------------------------------------------------
(* Readers and the garbage collector.                                      *)

\* A session is viewed or restored: service Get touches it.
Touch ==
  /\ Retention /\ Exists(row) /\ row.accessed # now
  /\ row' = Touched(row, now)
  /\ UNCHANGED <<sourceVars, captureVars, retainVars, faults>>

\* GarbageCollect or a user deletes the row.
Delete ==
  /\ Exists(row) /\ faults < MaxFaults
  /\ row' = NoRow
  /\ faults' = faults + 1
  /\ UNCHANGED <<sourceVars, captureVars, retainVars>>

Next ==
  \/ AppendMessage \/ ReviseLast \/ Rewind \/ Tick
  \/ \E c \in Capturers : Capture(c) \/ Abort(c) \/ ReadFails(c)
  \/ RetentionRun
  \/ Touch \/ Delete

\* The scheduler captures again and again, and a capture that runs goes on.
\* Nothing obliges the tool, a reader or the garbage collector to act.
Fairness == \A c \in Capturers : WF_vars(Capture(c))

Spec == Init /\ [][Next]_vars
FairSpec == Spec /\ Fairness

-----------------------------------------------------------------------------
(* Properties.                                                             *)

\* What skipIfUnchanged would answer if it ran in one instant.
Fresh == Unchanged(row, [count |-> Len(Source), updatedAt |-> updated])

\* The stored message is m; where something failed it may be m without its parts.
Holds(stored, m) == stored = m \/ (faults > 0 /\ stored = [m EXCEPT !.rev = 0])

\* The row has the messages of the source, one by one.
Complete ==
  /\ Len(row.payload) = Len(Source)
  /\ \A i \in 1 .. Len(Source) : Holds(row.payload[i], Source[i])

\* A session that would be skipped as unchanged is stored completely, apart from
\* the parts of messages a failed query did not give (capture/service.go: "Returns
\* true (skip) when both match exactly - the session is unchanged").
SkipIsSound == Fresh => Complete

\* The same for the sessions retention has not touched: a hot session keeps its
\* original payload, whichever way captures, retention and readers interleave.
HotIsComplete == row.tier = "hot" /\ Fresh => Complete

\* The messages of the stored payload are in the order the tool wrote them and
\* none is stored twice.
InOrder ==
  \A i, j \in 1 .. Len(row.payload) : i < j => row.payload[i].id < row.payload[j].id

Ids(s) == { s[i].id : i \in 1 .. Len(s) }

\* The message was listed at instant t; its parts were read at an instant since,
\* when it was as it is here, or gone and without parts.
ReadSince(m, t) ==
  /\ m.id \in Ids(timeline[t])
  /\ \/ \E u \in t .. now :
          \/ m \in Elements(timeline[u])
          \/ m.rev = 0 /\ m.id \notin Ids(timeline[u])
     \/ m.rev = 0 /\ faults > 0

\* Compaction and re-capture never mix two versions of the session: what is
\* stored is a selection of what one listing of the source gave, each message with
\* the parts an instant since gave it.
OfOneListing ==
  /\ InOrder
  /\ \E t \in 1 .. now : \A i \in 1 .. Len(row.payload) : ReadSince(row.payload[i], t)

\* The tier and the compaction mark, written by different statements, agree: a
\* hot row may still be compacted, a warm or cold row has been.
TierMatchesMark == Exists(row) => (row.tier = "hot" <=> ~row.compacted)

\* When the tool stops writing, the store ends up with the whole session or, once
\* retention has been at it, with a compacted one, whatever crashed, failed or was
\* deleted on the way; parts a query did not give may be missing for good.
Settles == <>[](Exists(row) /\ (row.tier = "hot" => Complete))
=============================================================================
