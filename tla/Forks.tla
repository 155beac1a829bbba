------------------------------- MODULE Forks -------------------------------
(***************************************************************************)
(* Fork detection.  Sessions that begin alike are copies of one another:   *)
(* the nightly task compares the stored sessions pair by pair and records  *)
(* <<original, fork, point>>, and whoever sums up tokens leaves out the    *)
(* messages of a fork that come before its point.  A rewound session says  *)
(* in its summary what it is a copy of.  Relations outlive their sessions. *)
(***************************************************************************)
EXTENDS Naturals, Sequences, FiniteSets, SequencesExt

CONSTANTS
  Listing,    \* the sessions in the order of List, newest first
  Script,     \* Script[s], the messages session s will have had in the end
  Sample,     \* the messages that are compared (the first 200 or more)
  MaxRewinds, \* bound on the rewound sessions, which take sessions without a script
  MaxStale    \* bound on the changes after the first detection

VARIABLES
  text,    \* the messages of each stored session; << >> without a session
  grown,   \* the messages a session is known to have had
  rewind,  \* [of, at] of a rewound session
  forks,   \* session_forks, a set of <<original, fork, point>>
  toSave,  \* the relations a detection has yet to save
  stale,   \* history: how often a session changed after the first detection
  mixed    \* history: whether a rewound session was compared by its content

forkVars == <<text, grown, rewind, forks, toSave, stale, mixed>>

ForkSessions == { Listing[i] : i \in 1 .. Len(Listing) }
NoRewind == [of |-> "none", at |-> 0]
Stored == { s \in ForkSessions : text[s] # << >> }
Messages == UNION { { Script[s][i] : i \in DOMAIN Script[s] } : s \in ForkSessions }
Points == 0 .. Sample + Cardinality(Messages)

ForkTypeOK ==
  LET written == Messages
      points == Points
  IN /\ \A s \in ForkSessions : \A i \in DOMAIN text[s] : text[s][i] \in written
     /\ \A s \in ForkSessions : grown[s] \in 0 .. Len(Script[s])
     /\ \A r \in forks \cup toSave :
          r[1] \in ForkSessions /\ r[2] \in ForkSessions \ {r[1]} /\ r[3] \in points
     /\ stale \in 0 .. MaxStale /\ mixed \in BOOLEAN

ForkInit ==
  /\ text = [s \in ForkSessions |-> << >>]
  /\ grown = [s \in ForkSessions |-> 0]
  /\ rewind = [s \in ForkSessions |-> NoRewind]
  /\ forks = {} /\ toSave = {}
  /\ stale = 0 /\ mixed = FALSE

Changed ==
  /\ forks \cup toSave = {} \/ stale < MaxStale
  /\ stale' = IF forks \cup toSave = {} THEN stale ELSE stale + 1
  /\ UNCHANGED mixed

\* A capture stores the session with the messages it has by then.
Save(s, n) ==
  /\ rewind[s] = NoRewind /\ n \in grown[s] .. Len(Script[s]) /\ n > Len(text[s])
  /\ text' = [text EXCEPT ![s] = SubSeq(Script[s], 1, n)]
  /\ grown' = [grown EXCEPT ![s] = n]
  /\ Changed
  /\ UNCHANGED <<rewind, forks, toSave>>

Rewind(s, o, n) ==
  /\ Script[s] = << >> /\ s \notin Stored /\ n \in 1 .. Len(text[o])
  /\ Cardinality({ x \in Stored : rewind[x] # NoRewind }) < MaxRewinds
  /\ text' = [text EXCEPT ![s] = SubSeq(text[o], 1, n)]
  /\ rewind' = [rewind EXCEPT ![s] = [of |-> o, at |-> n]]
  /\ Changed
  /\ UNCHANGED <<grown, forks, toSave>>

\* The relations of the session stay.
Delete(s) ==
  /\ s \in Stored
  /\ text' = [text EXCEPT ![s] = << >>]
  /\ rewind' = [rewind EXCEPT ![s] = NoRewind]
  /\ Changed
  /\ UNCHANGED <<grown, forks, toSave>>

-----------------------------------------------------------------------------
(* Detection.                                                              *)

Hashes(s) == SubSeq(text[s], 1, IF Len(text[s]) < Sample THEN Len(text[s]) ELSE Sample)
Least(S) == CHOOSE n \in S : \A m \in S : n <= m

\* Mutation of CommonPrefixLen: the index of the first difference is taken for a length.
PrefixFromOne(a, b) ==
  LET n == Least({Len(a), Len(b)})
  IN Least({ i \in 1 .. n : a[i] # b[i] } \cup {n})

CommonPrefixLen(a, b) ==
  LET n == Least({Len(a), Len(b)})
  IN Least({ i - 1 : i \in { k \in 1 .. n : a[k] # b[k] } } \cup {n})

\* The shorter of the two is the original, at equal lengths the first listed: as a
\* set, which is empty when the sessions have too little in common.
CompareByContentHash(a, b) ==
  LET prefix == CommonPrefixLen(Hashes(a), Hashes(b))
      sampled == Least({Len(Hashes(a)), Len(Hashes(b))})
  IN IF prefix < 3 \/ 2 * prefix < sampled THEN {}
     ELSE IF Len(text[b]) < Len(text[a]) THEN {<<b, a, prefix>>} ELSE {<<a, b, prefix>>}

\* The inner loop goes on when its own session has turned out to be a fork: a
\* session is passed over when it is the fork of an earlier one of the list.
DetectForks(list) ==
  LET Place(s) == CHOOSE i \in DOMAIN list : list[i] = s
      places == [i \in DOMAIN list |-> i]
      PassedOver(rels, s) == \E r \in rels : r[2] = s /\ Place(r[1]) < Place(s)
      Compare(rels, i, j) ==
        IF PassedOver(rels, list[i]) \/ PassedOver(rels, list[j]) THEN rels
        ELSE rels \cup CompareByContentHash(list[i], list[j])
      CompareWithLater(rels, i) ==
        FoldLeft(LAMBDA acc, j : Compare(acc, i, j), rels, SubSeq(places, i + 1, Len(list)))
  IN FoldLeft(CompareWithLater, {}, places)

Rewinds == { s \in Stored : rewind[s].of \in Stored }

\* Rewound sessions by their summaries, the others of the project by their
\* content.  Sessions of less than three messages have no fingerprint.
Detected(rewinds, others) ==
  { <<rewind[s].of, s, rewind[s].at>> : s \in rewinds }
    \cup DetectForks(SelectSeq(Listing, LAMBDA s : Len(text[s]) >= 3 /\ s \in others))

DetectForksBatch ==
  /\ toSave = {} /\ Stored # {}
  /\ toSave' = Detected(Rewinds, Stored \ Rewinds)
  /\ toSave' # {}
  /\ UNCHANGED <<text, grown, rewind, forks, stale, mixed>>

\* What cannot be read is left out.  A rewound session whose original cannot be read,
\* or whose relation cannot be saved, is compared by its content.
DetectUnread ==
  /\ toSave = {} /\ Stored # {}
  /\ \E known \in SUBSET Rewinds, unread \in SUBSET Stored :
       /\ toSave' = Detected(known, Stored \ (known \cup unread))
       /\ mixed' = (mixed \/ known # Rewinds)
  /\ toSave' # {}
  /\ UNCHANGED <<text, grown, rewind, forks, stale>>

SaveForkRelation(r) ==
  /\ r \in toSave
  /\ toSave' = toSave \ {r}
  /\ forks' = { x \in forks : <<x[1], x[2]>> # <<r[1], r[2]>> } \cup {r}
  /\ UNCHANGED <<text, grown, rewind, stale, mixed>>

\* Cancelled, killed, or the rest cannot be saved.
Stop ==
  /\ toSave # {}
  /\ toSave' = {}
  /\ UNCHANGED <<text, grown, rewind, forks, stale, mixed>>

ForkNext ==
  \/ \E s \in ForkSessions : Delete(s)
  \/ \E s \in ForkSessions : \E n \in DOMAIN Script[s] : Save(s, n)
  \/ \E s \in ForkSessions \ Stored, o \in Stored : \E n \in DOMAIN text[o] : Rewind(s, o, n)
  \/ DetectForksBatch \/ DetectUnread \/ Stop
  \/ \E r \in toSave : SaveForkRelation(r)

ForkSpec == ForkInit /\ [][ForkNext]_forkVars

-----------------------------------------------------------------------------
(* What is made of the relations.                                          *)

PointsOf(s) == { r[3] : r \in { x \in forks : x[2] = s } }

\* The token buckets leave out the most messages, the session's analytics the
\* fewest: they take the first relation, in the order of the points.
BuildForkPoint(s) == IF PointsOf(s) = {} THEN 0 ELSE CHOOSE n \in PointsOf(s) : \A m \in PointsOf(s) : m <= n
ForkOffset(s) == IF PointsOf(s) = {} THEN 0 ELSE Least(PointsOf(s))

Same(s, o, k) == Len(text[o]) >= k /\ SubSeq(text[o], 1, k) = SubSeq(text[s], 1, k)
CountedOnce == \A s \in Stored : \A k \in 1 .. Len(text[s]) :
                 \E o \in Stored : Same(s, o, k) /\ k > BuildForkPoint(o)

\* However sessions are copied from one another, and however many of the relations
\* have been saved so far, every message that is left out of one session is counted
\* in another: leaving out duplicates never loses the tokens themselves.  Unless a
\* rewound session was once compared by its content: a whole copy is then the
\* original, and each of the two the other's fork when the detection next succeeds.
NothingUncounted == stale = 0 /\ ~mixed => CountedOnce

\* The same when sessions go on, or are deleted, after a detection.
NeverUncounted == CountedOnce
=============================================================================
