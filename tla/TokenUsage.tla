----------------------------- MODULE TokenUsage -----------------------------
(***************************************************************************)
(* The token usage buckets: ComputeTokenBuckets counts the messages of     *)
(* each hour over the stored sessions, the nightly task incrementally, the *)
(* command from scratch.  A session has at most one message an hour, and a *)
(* bucket counts messages.  A fork's first messages belong to its original *)
(* and are left out once the fork has been detected.  One computation runs *)
(* at a time here; nothing in the code keeps two from running at once.     *)
(***************************************************************************)
EXTENDS Integers, FiniteSets, TLAPS

CONSTANTS
  Sessions,
  LastHour,   \* bound on the time of the run
  ForkPoint,  \* ForkPoint[s], how many of s's messages are copies of another session's
  Crashes     \* whether a computation may stop half-way, and its reads and writes fail

Hours == 0 .. LastHour
Never == -1

VARIABLES
  now,       \* the hour
  msgs,      \* the hours of each session's messages
  stored,    \* the same as of its last capture; empty without a session
  forks,     \* the forks detected
  buckets,   \* token_usage_buckets, Never without a row
  computed,  \* the latest computed_at
  todo,      \* what a computation has yet to upsert: a set of <<hour, count>>
  full,      \* history: nothing happened since a computation from scratch read the sessions
  caughtUp   \* history: nothing was captured since a computation of any kind read them;
             \* both only of a computation none of whose statements failed

usageVars == <<now, msgs, stored, forks, buckets, computed, todo, full, caughtUp>>

UsageTypeOK ==
  /\ now \in Hours
  /\ msgs \in [Sessions -> SUBSET Hours]
  /\ \A s \in Sessions : stored[s] \subseteq msgs[s]
  /\ forks \subseteq Sessions
  /\ buckets \in [Hours -> {Never} \cup 1 .. Cardinality(Sessions)]
  /\ computed \in Hours \cup {Never}
  /\ todo \subseteq Hours \X (1 .. Cardinality(Sessions))
  /\ full \in BOOLEAN /\ caughtUp \in BOOLEAN

UsageInit ==
  /\ now = 0
  /\ msgs = [s \in Sessions |-> {}] /\ stored = msgs
  /\ forks = {}
  /\ buckets = [h \in Hours |-> Never]
  /\ computed = Never
  /\ todo = {}
  /\ full = FALSE /\ caughtUp = FALSE

Tick ==
  /\ now < LastHour
  /\ now' = now + 1
  /\ UNCHANGED <<msgs, stored, forks, buckets, computed, todo, full, caughtUp>>

Message(s) ==
  /\ now \notin msgs[s]
  /\ msgs' = [msgs EXCEPT ![s] = @ \cup {now}]
  /\ UNCHANGED <<now, stored, forks, buckets, computed, todo, full, caughtUp>>

Save(s) ==
  /\ stored[s] # msgs[s]
  /\ stored' = [stored EXCEPT ![s] = msgs[s]]
  /\ full' = FALSE /\ caughtUp' = FALSE
  /\ UNCHANGED <<now, msgs, forks, buckets, computed, todo>>

\* The relations of the session stay.
Delete(s) ==
  /\ stored[s] # {}
  /\ stored' = [stored EXCEPT ![s] = {}]
  /\ full' = FALSE /\ caughtUp' = FALSE
  /\ UNCHANGED <<now, msgs, forks, buckets, computed, todo>>

\* SaveForkRelation, by the nightly detection.
SaveForkRelation(s) ==
  /\ s \notin forks /\ stored[s] # {} /\ ForkPoint[s] > 0
  /\ forks' = forks \cup {s}
  /\ full' = FALSE
  /\ UNCHANGED <<now, msgs, stored, buckets, computed, todo, caughtUp>>

-----------------------------------------------------------------------------

\* created_at: the first message.
Created(s) == CHOOSE h \in stored[s] : \A g \in stored[s] : h <= g

\* The messages of s that are not copies, as far as the known forks tell.
Own(s, known) ==
  IF s \in known
  THEN { h \in stored[s] : Cardinality({ g \in stored[s] : g < h }) >= ForkPoint[s] }
  ELSE stored[s]

Counted(listed, known, h) == Cardinality({ s \in listed : h \in Own(s, known) })
Counts(listed, known) ==
  { <<h, Counted(listed, known, h)>> : h \in { g \in Hours : Counted(listed, known, g) > 0 } }

\* Every stored session, or those created since an hour before the last computation.
Listed(incremental) ==
  { s \in Sessions : stored[s] # {} /\ (incremental /\ computed # Never => Created(s) >= computed - 1) }

ComputeTokenBuckets(incremental) ==
  /\ todo = {} /\ Listed(incremental) # {}
  /\ todo' = Counts(Listed(incremental), forks)
  /\ full' = ~incremental /\ caughtUp' = TRUE
  /\ UNCHANGED <<now, msgs, stored, forks, buckets, computed>>

\* The time of the last computation cannot be read (all sessions are listed), or some
\* sessions (they are left out), or the forks (there are none): it goes on with the rest.
ComputeUnread ==
  /\ Crashes /\ todo = {}
  /\ \E read \in SUBSET Listed(FALSE), known \in {forks, {}} : todo' = Counts(read, known)
  /\ full' = FALSE /\ caughtUp' = FALSE
  /\ UNCHANGED <<now, msgs, stored, forks, buckets, computed>>

\* Mutation of UpsertTokenBucket: a row that is there stays.
InsertOrIgnore(h, n) ==
  /\ <<h, n>> \in todo
  /\ todo' = todo \ {<<h, n>>}
  /\ buckets' = [buckets EXCEPT ![h] = IF @ = Never THEN n ELSE @]
  /\ computed' = now
  /\ UNCHANGED <<now, msgs, stored, forks, full, caughtUp>>

\* The counters of the row are replaced.
UpsertTokenBucket(h, n) ==
  /\ <<h, n>> \in todo
  /\ todo' = todo \ {<<h, n>>}
  /\ buckets' = [buckets EXCEPT ![h] = n]
  /\ computed' = now
  /\ UNCHANGED <<now, msgs, stored, forks, full, caughtUp>>

\* A row that cannot be written is logged, and the next one is.
UpsertFails(h, n) ==
  /\ Crashes /\ <<h, n>> \in todo
  /\ todo' = todo \ {<<h, n>>}
  /\ full' = FALSE /\ caughtUp' = FALSE
  /\ UNCHANGED <<now, msgs, stored, forks, buckets, computed>>

Crash ==
  /\ Crashes /\ todo # {}
  /\ todo' = {}
  /\ full' = FALSE /\ caughtUp' = FALSE
  /\ UNCHANGED <<now, msgs, stored, forks, buckets, computed>>

UsageNext ==
  \/ Tick \/ Crash \/ ComputeUnread
  \/ \E s \in Sessions : Message(s) \/ Save(s) \/ Delete(s) \/ SaveForkRelation(s)
  \/ \E incremental \in BOOLEAN : ComputeTokenBuckets(incremental)
  \/ \E h \in Hours, n \in 1 .. Cardinality(Sessions) : UpsertTokenBucket(h, n) \/ UpsertFails(h, n)

UsageSpec == UsageInit /\ [][UsageNext]_usageVars

-----------------------------------------------------------------------------
(* Properties.                                                             *)

Right(h) == Counted(Sessions, forks, h) > 0 => buckets[h] = Counted(Sessions, forks, h)

\* A computation from scratch mends every bucket that still has messages, whatever
\* incremental ones, crashes, failed statements, deletions and late fork detections
\* have left.
FullIsRight == todo = {} /\ full => \A h \in Hours : Right(h)

\* The nightly computation has every message that was captured before it
\* (session_usage.go: "only processes sessions captured after the last compute").
IncrementalIsRight ==
  todo = {} /\ caughtUp /\ forks = {} => \A h \in Hours : Right(h)

-----------------------------------------------------------------------------
(* A computation from scratch mends the buckets, for any number of         *)
(* sessions and hours, wherever forks leave their originals.  MendingInv   *)
(* is the inductive invariant: from the time such a computation has read   *)
(* the sessions until something happens to them, what it has yet to upsert *)
(* is right, and so is every bucket it has nothing to upsert of.           *)

MendingInv ==
  /\ buckets = [h \in Hours |-> buckets[h]]
  /\ full => /\ todo \subseteq Counts(Sessions, forks)
             /\ \A h \in Hours : Right(h) \/ <<h, Counted(Sessions, forks, h)>> \in todo

\* Only a session that is stored has messages of its own.
LEMMA ListedCount ==
  ASSUME NEW h \in Hours
  PROVE  Counted(Listed(FALSE), forks, h) = Counted(Sessions, forks, h)
<1>1. \A s : Own(s, forks) \subseteq stored[s]
  BY DEF Own
<1>2. { s \in Listed(FALSE) : h \in Own(s, forks) } = { s \in Sessions : h \in Own(s, forks) }
  BY <1>1 DEF Listed
<1>. QED
  BY <1>2 DEF Counted

\* The counts are those of what is stored and of the forks detected.
LEMMA SameCounts ==
  ASSUME UNCHANGED <<stored, forks>>
  PROVE  /\ \A h : Counted(Sessions, forks, h)' = Counted(Sessions, forks, h)
         /\ Counts(Sessions, forks)' = Counts(Sessions, forks)
<1>1. \A s : Own(s, forks)' = Own(s, forks)
  BY DEF Own
<1>2. \A h : Counted(Sessions, forks, h)' = Counted(Sessions, forks, h)
  BY <1>1 DEF Counted
<1>. QED
  BY <1>2 DEF Counts

LEMMA MendingInit == UsageInit => MendingInv
BY DEF UsageInit, MendingInv

LEMMA MendingStep ==
  ASSUME MendingInv, [UsageNext]_usageVars
  PROVE  MendingInv'
<1>1. ASSUME UNCHANGED <<stored, forks, buckets, todo, full>> PROVE MendingInv'
  BY <1>1, SameCounts DEF MendingInv, Right
<1>2. ASSUME UNCHANGED buckets, full' = FALSE PROVE MendingInv'
  BY <1>2 DEF MendingInv
<1>3. CASE Tick
  BY <1>1, <1>3 DEF Tick
<1>4. CASE Crash \/ ComputeUnread
  BY <1>2, <1>4 DEF Crash, ComputeUnread
<1>5. ASSUME NEW s \in Sessions, Message(s) PROVE MendingInv'
  BY <1>1, <1>5 DEF Message
<1>6. ASSUME NEW s \in Sessions, Save(s) \/ Delete(s) \/ SaveForkRelation(s) PROVE MendingInv'
  BY <1>2, <1>6 DEF Save, Delete, SaveForkRelation
<1>7. CASE ComputeTokenBuckets(TRUE)
  BY <1>2, <1>7 DEF ComputeTokenBuckets
<1>8. CASE ComputeTokenBuckets(FALSE)
  <2>1. UNCHANGED <<stored, forks, buckets>> /\ todo' = Counts(Listed(FALSE), forks)
    BY <1>8 DEF ComputeTokenBuckets
  <2>2. todo' = Counts(Sessions, forks)
    BY <2>1, ListedCount DEF Counts
  <2>3. ASSUME NEW h \in Hours PROVE Right(h)' \/ <<h, Counted(Sessions, forks, h)>>' \in todo'
    BY <2>1, <2>2, SameCounts DEF Right, Counts
  <2>. QED
    BY <2>1, <2>2, <2>3, SameCounts DEF MendingInv
<1>9. ASSUME NEW h \in Hours, NEW n \in 1 .. Cardinality(Sessions), UpsertTokenBucket(h, n)
      PROVE  MendingInv'
  <2>1. /\ UNCHANGED <<stored, forks, full>> /\ <<h, n>> \in todo
        /\ todo' = todo \ {<<h, n>>} /\ buckets' = [buckets EXCEPT ![h] = n]
    BY <1>9 DEF UpsertTokenBucket
  <2>2. buckets' = [g \in Hours |-> buckets'[g]]
    BY <2>1 DEF MendingInv
  <2>3. ASSUME full, NEW g \in Hours PROVE Right(g)' \/ <<g, Counted(Sessions, forks, g)>>' \in todo'
    <3>1. buckets'[h] = n /\ (g # h => buckets'[g] = buckets[g])
      BY <2>1 DEF MendingInv
    <3>2. Counted(Sessions, forks, h) = n
      BY <2>1, <2>3 DEF MendingInv, Counts
    <3>3. CASE g = h
      BY <2>1, <3>1, <3>2, <3>3, SameCounts DEF Right
    <3>4. CASE g # h
      BY <2>1, <2>3, <3>1, <3>4, SameCounts DEF MendingInv, Right
    <3>. QED
      BY <3>3, <3>4
  <2>4. full => todo' \subseteq Counts(Sessions, forks)'
    BY <2>1, SameCounts DEF MendingInv
  <2>. QED
    BY <2>1, <2>2, <2>3, <2>4 DEF MendingInv
<1>10. ASSUME NEW h \in Hours, NEW n \in 1 .. Cardinality(Sessions), UpsertFails(h, n)
       PROVE  MendingInv'
  BY <1>2, <1>10 DEF UpsertFails
<1>. QED
  <2>1. UNCHANGED usageVars => MendingInv'
    BY <1>1 DEF usageVars
  <2>. QED
    BY <2>1, <1>3, <1>4, <1>5, <1>6, <1>7, <1>8, <1>9, <1>10 DEF UsageNext

\* A computation from scratch mends every bucket that still has messages, whatever
\* incremental computations, crashes, failed statements, deletions and late fork
\* detections have left in the table (session_usage.go: an upsert replaces the counters of a row).
THEOREM ScratchMendsBuckets == UsageSpec => []FullIsRight
<1>1. MendingInv => FullIsRight
  BY DEF MendingInv, FullIsRight
<1>. QED
  BY <1>1, MendingInit, MendingStep, PTL DEF UsageSpec
=============================================================================
