-------------------------- MODULE SessionEventsProofs --------------------------
(***************************************************************************)
(* Captures one after the other leave every bucket exact, and a            *)
(* recomputation alone mends what overlapping runs, deletions, failures    *)
(* and crashes have left, for any sessions, hours, days and faults, where  *)
(* no zone shifts the stored times and all events have one remote: else    *)
(* the text comparison and the sum that is written last lose some.         *)
(*                                                                         *)
(* BucketsInv is the inductive invariant.  While its one run goes on, a    *)
(* bucket is wrong only if an event of that run falls into its window, and *)
(* an hour's bucket only before the run has replaced those of the hours.   *)
(***************************************************************************)
EXTENDS SessionEvents, FunctionTheorems, FiniteSetTheorems, WellFoundedInduction, TLAPS

Plain ==
  /\ SessionEventsAssumption
  /\ Offset = 0 /\ \A s, t \in Sessions : Remote[s] = Remote[t]

Grans == {"1h", "1d"}

In(h, w) == truncateTime(h, w[1]) = w
Exact(b, evs, w) == b[w] = Count(evs, w)
AreEvents(evs) == IsFiniteSet(evs) /\ \A e \in evs : e[1] \in Sessions /\ e[2] \in Hours

\* An event of the run r falls into the window.
Touched(r, w) == \E h \in r.got : In(h, w)

RunInv(r, evs, b, rows) ==
  /\ r.step \in {"delete", "save", "query1h", "replace1h", "query1d", "replace1d"} =>
       /\ r.got # {}
       /\ \A w \in Windows : Touched(r, w) \/ Exact(b, evs, w)
  /\ r.step \in {"delete", "save"} => r.sess \in rows
  /\ r.step = "delete" => \A e \in evs : e[1] = r.sess => e[2] \in r.got
  /\ r.step \in {"query1h", "replace1h", "query1d", "replace1d"} =>
       \A h \in r.got : \E e \in evs : e[2] = h
  /\ r.step \in {"query1d", "replace1d", "all1d"} =>
       \A w \in Windows : w[1] = "1h" => Exact(b, evs, w)
  /\ \A gran \in Grans :
       /\ r.step = Of(gran, "replace1h", "replace1d") =>
            r.read = { e \in evs : e[2] \in TimeRange(r.got, gran) }
       /\ r.step = Of(gran, "clear1d", "all1d") => \A w \in Windows : w[1] = gran => b[w] = 0
  /\ r.step \in {"queryAll", "all1h"} => \A w \in Windows : b[w] = 0
  /\ r.step \in {"all1h", "all1d"} => r.read = evs

IsRun(r) ==
  /\ r \in [step : Steps, sess : Sessions \cup {"none"}, got : SUBSET Hours, read : {r.read}]
  /\ r.step = "idle" => r = Idle

TablesInv ==
  /\ stored \subseteq Sessions /\ source \in [Sessions -> SUBSET Hours]
  /\ AreEvents(events)
  /\ buckets = [w \in Windows |-> buckets[w]]
  /\ run = [p \in Runs |-> run[p]] /\ \A p \in Runs : IsRun(run[p])
  /\ stale \in BOOLEAN

CleanInv ==
  ~stale => /\ Quiet => \A w \in Windows : Exact(buckets, events, w)
            /\ \A p, q \in Runs : run[p] # Idle /\ run[q] # Idle => p = q
            /\ \A p \in Runs : RunInv(run[p], events, buckets, stored)

BucketsInv == TablesInv /\ CleanInv

-----------------------------------------------------------------------------
(* Counting and windows.                                                   *)

LEMMA CountFacts ==
  ASSUME NEW evs, IsFiniteSet(evs), NEW w
  PROVE  /\ Count(evs, w) \in Nat
         /\ Count(evs, w) > 0 <=> \E e \in evs : In(e[2], w)
         /\ (\A e \in evs : ~In(e[2], w)) => Count(evs, w) = 0
<1>. DEFINE inside == { e \in evs : truncateTime(e[2], w[1]) = w }
<1>1. inside \subseteq evs
  OBVIOUS
<1>2. IsFiniteSet(inside)
  BY <1>1, FS_Subset
<1>3. Cardinality(inside) \in Nat /\ (Cardinality(inside) = 0 <=> inside = {})
  BY <1>2, FS_CardinalityType, FS_EmptySet
<1>4. Count(evs, w) = Cardinality(inside)
  BY DEF Count
<1>5. inside # {} <=> \E e \in evs : In(e[2], w)
  BY DEF In
<1>. HIDE DEF inside
<1>. QED
  BY <1>3, <1>4, <1>5

\* Two tables with the same events in a window count alike.
LEMMA SameCount ==
  ASSUME NEW evs, NEW those, NEW w,
         \A e \in evs \cup those : In(e[2], w) => (e \in evs <=> e \in those)
  PROVE  Count(evs, w) = Count(those, w)
<1>1. { e \in evs : truncateTime(e[2], w[1]) = w } = { e \in those : truncateTime(e[2], w[1]) = w }
  BY DEF In
<1>. QED
  BY <1>1 DEF Count

LEMMA GranOfWindow == \A w \in Windows : w[1] \in Grans
BY DEF Windows, Grans

\* Some hours have a first and a last one.
LEMMA Ends ==
  ASSUME NEW got, got # {}, IsFiniteSet(got), got \subseteq Nat
  PROVE  /\ \E h \in got : \A g \in got : h <= g
         /\ \E h \in got : \A g \in got : h >= g
<1>. DEFINE R == StrictSubsetOrdering(got)
<1>1. IsWellFoundedOn(R, SUBSET got)
  BY FS_StrictSubsetOrderingWellFounded, FS_FiniteSubsetsOfFinite
<1>2. \A T : T \subseteq SUBSET got /\ T # {} => \E x \in T : \A y \in T : <<y, x>> \notin R
  <2>. HIDE DEF R
  <2>. QED
    BY <1>1, WFMin
<1>3. \A A, B \in SUBSET got : A \subseteq B /\ A # B => <<A, B>> \in R
  BY DEF StrictSubsetOrdering
<1>. HIDE DEF R
<1>4. \E h \in got : \A g \in got : h <= g
  <2>. DEFINE down(h) == { g \in got : g <= h }
              downs == { down(h) : h \in got }
  <2>0. downs \subseteq SUBSET got /\ downs # {}
    OBVIOUS
  <2>1. PICK x \in downs : \A y \in downs : <<y, x>> \notin R
    <3>. HIDE DEF downs
    <3>. QED
      BY <1>2, <2>0
  <2>2. PICK h \in got : x = down(h)
    BY <2>1
  <2>3. ASSUME NEW g \in got, ~(h <= g) PROVE FALSE
    <3>1. \A y \in got : y <= g => y <= h
      BY <2>3
    <3>2. h \in down(h) /\ h \notin down(g)
      BY <2>3
    <3>3. down(g) \subseteq down(h) /\ down(g) # down(h)
      BY <3>1, <3>2
    <3>4. down(g) \in downs /\ down(g) \in SUBSET got /\ down(h) \in SUBSET got
      OBVIOUS
    <3>. HIDE DEF down, downs
    <3>. QED
      BY <1>3, <2>1, <2>2, <3>3, <3>4
  <2>. QED
    BY <2>3
<1>5. \E h \in got : \A g \in got : h >= g
  <2>. DEFINE above(h) == { g \in got : g >= h }
              aboves == { above(h) : h \in got }
  <2>0. aboves \subseteq SUBSET got /\ aboves # {}
    OBVIOUS
  <2>1. PICK x \in aboves : \A y \in aboves : <<y, x>> \notin R
    <3>. HIDE DEF aboves
    <3>. QED
      BY <1>2, <2>0
  <2>2. PICK h \in got : x = above(h)
    BY <2>1
  <2>3. ASSUME NEW g \in got, ~(h >= g) PROVE FALSE
    <3>1. \A y \in got : y >= g => y >= h
      BY <2>3
    <3>2. h \in above(h) /\ h \notin above(g)
      BY <2>3
    <3>3. above(g) \subseteq above(h) /\ above(g) # above(h)
      BY <3>1, <3>2
    <3>4. above(g) \in aboves /\ above(g) \in SUBSET got /\ above(h) \in SUBSET got
      OBVIOUS
    <3>. HIDE DEF above, aboves
    <3>. QED
      BY <1>3, <2>1, <2>2, <3>3, <3>4
  <2>. QED
    BY <2>3
<1>. QED
  BY <1>4, <1>5

LEMMA TimesMonotone ==
  ASSUME NEW d \in Nat, NEW m \in Int, NEW n \in Int, m <= n
  PROVE  d * m <= d * n
BY Z3

LEMMA Division ==
  ASSUME NEW d \in Nat \ {0}, NEW n \in Nat
  PROVE  n \div d \in Int /\ d * (n \div d) <= n /\ n < d * (n \div d) + d
BY Z3

\* The hours from the start of one window to the end of another are those whose
\* windows are not before the one nor after the other.
LEMMA WholeWindows ==
  ASSUME NEW d \in Nat \ {0}, NEW lo \in Nat, NEW hi \in Nat, NEW n \in Nat
  PROVE  n \in d * (lo \div d) .. d * (hi \div d) + d - 1 <=> lo \div d <= n \div d /\ n \div d <= hi \div d
<1>. DEFINE a == lo \div d  b == hi \div d  c == n \div d
<1>1. a \in Int /\ b \in Int /\ c \in Int /\ d * c <= n /\ n < d * c + d
  BY Division
<1>. HIDE DEF a, b, c
<1>2. d * a \in Int /\ d * b \in Int /\ d * c \in Int /\ d * (c + 1) = d * c + d /\ d * (b + 1) = d * b + d
  BY <1>1, Z3
<1>3. a <= c => d * a <= d * c
  BY <1>1, TimesMonotone
<1>4. ~(a <= c) => d * (c + 1) <= d * a
  BY <1>1, TimesMonotone
<1>5. c <= b => d * c <= d * b
  BY <1>1, TimesMonotone
<1>6. ~(c <= b) => d * (b + 1) <= d * c
  BY <1>1, TimesMonotone
<1>7. n \in d * a .. d * b + d - 1 <=> d * a <= n /\ n <= d * b + d - 1
  BY <1>2
<1>8. n \in d * a .. d * b + d - 1 <=> a <= c /\ c <= b
  BY <1>1, <1>2, <1>3, <1>4, <1>5, <1>6, <1>7
<1>. QED
  BY <1>8 DEF a, b, c

\* The range of a run's events has them all, and whole windows.
LEMMA RangeFacts ==
  ASSUME Plain, NEW got, got # {}, got \subseteq Hours, NEW gran \in Grans
  PROVE  /\ \A h \in got : h \in TimeRange(got, gran)
         /\ \A g, h \in Hours : truncateTime(g, gran) = truncateTime(h, gran) /\ g \in TimeRange(got, gran) =>
              h \in TimeRange(got, gran)
<1>. DEFINE lo == CHOOSE h \in got : \A g \in got : h <= g
            hi == CHOOSE h \in got : \A g \in got : h >= g
            d == Size(gran)
<1>1. got \subseteq Nat /\ IsFiniteSet(got) /\ DayLength \in Nat \ {0} /\ Hours \subseteq Nat
  BY FS_Subset DEF Plain, SessionEventsAssumption
<1>2. lo \in got /\ \A g \in got : lo <= g
  BY <1>1, Ends
<1>3. hi \in got /\ \A g \in got : hi >= g
  BY <1>1, Ends
<1>4. d \in Nat \ {0}
  BY <1>1 DEF Size, Of
<1>5. TimeRange(got, gran) = d * (lo \div d) .. d * (hi \div d) + d - 1
  BY DEF TimeRange
<1>6. \A h \in Nat : Of(gran, h, h \div DayLength) = h \div d
  <2>1. \A h \in Nat : h \div 1 = h
    BY Z3
  <2>. QED
    BY <2>1 DEF Size, Of, Grans
<1>. HIDE DEF lo, hi, d
<1>7. \A h \in Nat : h \in TimeRange(got, gran) <=> lo \div d <= h \div d /\ h \div d <= hi \div d
  BY <1>1, <1>2, <1>3, <1>4, <1>5, WholeWindows
<1>8. ASSUME NEW h \in got PROVE h \in TimeRange(got, gran)
  <2>1. \A m, n \in Nat : m <= n => m \div d <= n \div d
    <3>. SUFFICES ASSUME NEW m \in Nat, NEW n \in Nat, m <= n, ~(m \div d <= n \div d) PROVE FALSE
      OBVIOUS
    <3>1. /\ m \div d \in Int /\ d * (m \div d) <= m
          /\ n \div d \in Int /\ n < d * (n \div d) + d
      BY <1>4, Division
    <3>2. d * (n \div d + 1) <= d * (m \div d)
      BY <1>4, <3>1, TimesMonotone
    <3>3. d * (n \div d + 1) = d * (n \div d) + d
      BY <1>4, <3>1, Z3
    <3>. QED
      BY <1>4, <3>1, <3>2, <3>3, Z3
  <2>. QED
    BY <1>1, <1>2, <1>3, <1>7, <2>1
<1>9. ASSUME NEW g \in Hours, NEW h \in Hours, truncateTime(g, gran) = truncateTime(h, gran),
             g \in TimeRange(got, gran)
      PROVE  h \in TimeRange(got, gran)
  <2>1. Of(gran, g, g \div DayLength) = Of(gran, h, h \div DayLength)
    BY <1>9 DEF truncateTime
  <2>. QED
    BY <1>1, <1>6, <1>7, <1>9, <2>1
<1>. QED
  BY <1>8, <1>9

-----------------------------------------------------------------------------
(* One granularity's buckets are replaced by sums over some events.        *)

\* Where all events have one remote, there is one sum for a window.
LEMMA Replaced ==
  ASSUME Plain, NEW evs, AreEvents(evs), NEW gran \in Grans, NEW b, Aggregated(evs, gran, b)
  PROVE  /\ b = [w \in Windows |-> b[w]]
         /\ \A w \in Windows : b[w] = IF w[1] = gran /\ Count(evs, w) > 0 THEN Count(evs, w) ELSE buckets[w]
<1>. DEFINE D == { w \in Windows : w[1] = gran /\ Count(evs, w) > 0 }
            remotes == { Remote[e[1]] : e \in evs }
<1>1. PICK last \in [D -> remotes] :
        b = [w \in Windows |-> IF w \in DOMAIN last THEN Row(evs, w, last[w]) ELSE buckets[w]]
  BY DEF Aggregated
<1>2. ASSUME NEW w \in D PROVE Row(evs, w, last[w]) = Count(evs, w)
  <2>1. last[w] \in remotes
    BY <1>2
  <2>2. \A e \in evs : Remote[e[1]] = last[w]
    BY <2>1 DEF Plain, AreEvents
  <2>3. { e \in evs : Remote[e[1]] = last[w] } = evs
    BY <2>2
  <2>. QED
    BY <2>3 DEF Row
<1>3. DOMAIN last = D
  BY <1>1
<1>. QED
  BY <1>1, <1>2, <1>3

\* The events a run has read are all those of the windows that they are in.
LEMMA ReadCounts ==
  ASSUME Plain, NEW evs, AreEvents(evs), NEW got, got # {}, got \subseteq Hours, NEW gran \in Grans,
         NEW w \in Windows, w[1] = gran,
         Count({ e \in evs : e[2] \in TimeRange(got, gran) }, w) > 0
  PROVE  Count({ e \in evs : e[2] \in TimeRange(got, gran) }, w) = Count(evs, w)
<1>. DEFINE read == { e \in evs : e[2] \in TimeRange(got, gran) }
<1>1. read \subseteq evs
  OBVIOUS
<1>2. IsFiniteSet(read)
  BY <1>1, FS_Subset DEF AreEvents
<1>3. \A g, h \in Hours : truncateTime(g, gran) = truncateTime(h, gran) /\ g \in TimeRange(got, gran) =>
         h \in TimeRange(got, gran)
  BY RangeFacts
<1>4. \A e \in read : e \in evs /\ e[2] \in TimeRange(got, gran)
  OBVIOUS
<1>5. \A e \in evs : e[2] \in TimeRange(got, gran) => e \in read
  OBVIOUS
<1>6. Count(read, w) > 0
  OBVIOUS
<1>. HIDE DEF read
<1>7. PICK d \in read : In(d[2], w)
  BY <1>2, <1>6, CountFacts
<1>8. \A e \in evs \cup read : In(e[2], w) => (e \in evs <=> e \in read)
  BY <1>3, <1>4, <1>5, <1>7 DEF In, AreEvents
<1>9. Count(read, w) = Count(evs, w)
  BY <1>8, SameCount
<1>. QED
  BY <1>9 DEF read

\* What replacing one granularity's buckets leaves, when they were wrong only in
\* windows with an event of the run.
LEMMA ReplacedExact ==
  ASSUME Plain, NEW evs, AreEvents(evs), NEW r, IsRun(r), r.got # {}, NEW gran \in Grans, NEW b,
         r.read = { e \in evs : e[2] \in TimeRange(r.got, gran) },
         \A h \in r.got : \E e \in evs : e[2] = h,
         \A w \in Windows : Touched(r, w) \/ Exact(buckets, evs, w),
         Aggregated(r.read, gran, b)
  PROVE  \A w \in Windows : w[1] = gran => Exact(b, evs, w)
<1>1. r.got \subseteq Hours /\ r.read \subseteq evs
  BY DEF IsRun
<1>2. AreEvents(r.read)
  BY <1>1, FS_Subset DEF AreEvents
<1>3. /\ b = [w \in Windows |-> b[w]]
      /\ \A w \in Windows : b[w] = IF w[1] = gran /\ Count(r.read, w) > 0 THEN Count(r.read, w) ELSE buckets[w]
  <2>. DEFINE read == r.read
  <2>1. AreEvents(read) /\ Aggregated(read, gran, b)
    BY <1>2
  <2>2. /\ b = [w \in Windows |-> b[w]]
        /\ \A w \in Windows : b[w] = IF w[1] = gran /\ Count(read, w) > 0 THEN Count(read, w) ELSE buckets[w]
    <3>. HIDE DEF read
    <3>. QED
      BY <2>1, Replaced
  <2>. QED
    BY <2>2
<1>4. ASSUME NEW w \in Windows, w[1] = gran PROVE Exact(b, evs, w)
  <2>1. Count(r.read, w) > 0 => Count(r.read, w) = Count(evs, w)
    BY <1>1, <1>4, ReadCounts
  <2>2. CASE Count(r.read, w) > 0
    BY <1>3, <1>4, <2>1, <2>2 DEF Exact
  <2>3. CASE ~(Count(r.read, w) > 0)
    <3>1. ~Touched(r, w)
      <4>1. SUFFICES ASSUME NEW h \in r.got, In(h, w) PROVE FALSE
        BY DEF Touched
      <4>2. PICK e \in evs : e[2] = h
        OBVIOUS
      <4>3. h \in TimeRange(r.got, gran)
        BY <1>1, RangeFacts
      <4>4. e \in r.read /\ In(e[2], w)
        BY <4>1, <4>2, <4>3
      <4>. QED
        BY <1>2, <2>3, <4>4, CountFacts DEF AreEvents
    <3>. QED
      BY <1>3, <2>3, <3>1 DEF Exact
  <2>. QED
    BY <2>2, <2>3
<1>. QED
  BY <1>3, <1>4

-----------------------------------------------------------------------------
(* The steps.                                                              *)

LEMMA Moved ==
  ASSUME NEW r, IsRun(r), NEW step \in Steps \ {"idle"}
  PROVE  LET n == [r EXCEPT !.step = step]
         IN /\ IsRun(n) /\ n.step = step /\ n.sess = r.sess
            /\ n.got = r.got /\ n.read = r.read
<1>. DEFINE n == [r EXCEPT !.step = step]
<1>1. r \in [step : Steps, sess : Sessions \cup {"none"}, got : SUBSET Hours, read : {r.read}]
  BY DEF IsRun
<1>2. /\ n \in [step : Steps, sess : Sessions \cup {"none"}, got : SUBSET Hours, read : {r.read}]
      /\ n.step = step /\ n.sess = r.sess /\ n.got = r.got /\ n.read = r.read
  BY <1>1
<1>. HIDE DEF n
<1>3. IsRun(n)
  BY <1>2 DEF IsRun
<1>. QED
  BY <1>2, <1>3 DEF n

LEMMA Told ==
  ASSUME NEW r, IsRun(r), NEW step \in Steps \ {"idle"}, NEW read,
         NEW n, n = [r EXCEPT !.step = step, !.read = read]
  PROVE  IsRun(n)
<1>1. r \in [step : Steps, sess : Sessions \cup {"none"}, got : SUBSET Hours, read : {r.read}]
  BY DEF IsRun
<1>2. /\ n \in [step : Steps, sess : Sessions \cup {"none"}, got : SUBSET Hours, read : {read}]
      /\ n.step = step /\ n.sess = r.sess /\ n.got = r.got /\ n.read = read
  BY <1>1
<1>. QED
  BY <1>2 DEF IsRun

LEMMA IdleRun == IsRun(Idle) /\ \A evs, b, rows : RunInv(Idle, evs, b, rows)
BY DEF IsRun, RunInv, Idle, Of, Grans, Steps

\* A step of the only run there is.
LEMMA OneRun ==
  ASSUME BucketsInv, ~stale, NEW p \in Runs, run[p].step # "idle",
         NEW r, run' = [run EXCEPT ![p] = r],
         RunInv(r, events', buckets', stored'),
         r = Idle => \A w \in Windows : Exact(buckets', events', w)
  PROVE  CleanInv'
<1>1. \A q \in Runs : q # p => run[q] = Idle
  BY DEF BucketsInv, CleanInv, Idle
<1>2. run'[p] = r /\ \A q \in Runs : q # p => run'[q] = Idle
  BY <1>1 DEF BucketsInv, TablesInv
<1>. QED
  BY <1>2, IdleRun DEF CleanInv, Quiet

\* A step that begins a run, or that leaves the runs alone.
LEMMA RunsTable ==
  ASSUME TablesInv, NEW p \in Runs, NEW r, IsRun(r), run' = [run EXCEPT ![p] = r]
  PROVE  run' = [q \in Runs |-> run'[q]] /\ \A q \in Runs : IsRun(run'[q])
BY DEF TablesInv

LEMMA SubsetOfEvents ==
  ASSUME NEW evs, AreEvents(evs), NEW some \in SUBSET evs
  PROVE  AreEvents(some)
BY FS_Subset DEF AreEvents

\* The sources move, or a session is deleted, or a run gives up.
LEMMA OutsideStep ==
  ASSUME BucketsInv,
         \/ \E s \in Sessions, h \in Hours : Grow(s, h) \/ Rewind(s, h)
         \/ \E s \in Sessions : Delete(s)
         \/ \E p \in Runs : Crash(p)
         \/ UNCHANGED evVars
  PROVE  BucketsInv'
<1>1. ASSUME source' \in [Sessions -> SUBSET Hours], UNCHANGED <<stored, events, buckets, run, stale>>
      PROVE  BucketsInv'
  BY <1>1 DEF BucketsInv, TablesInv, CleanInv, Quiet
<1>2. ASSUME NEW s \in Sessions, NEW h \in Hours, Grow(s, h) \/ Rewind(s, h) PROVE BucketsInv'
  BY <1>1, <1>2 DEF Grow, Rewind, BucketsInv, TablesInv
<1>3. ASSUME NEW s \in Sessions, Delete(s) PROVE BucketsInv'
  <2>1. AreEvents(events')
    BY <1>3, SubsetOfEvents DEF Delete, BucketsInv, TablesInv
  <2>. QED
    BY <1>3, <2>1 DEF Delete, BucketsInv, TablesInv, CleanInv
<1>4. ASSUME NEW p \in Runs, Crash(p) PROVE BucketsInv'
  <2>1. run' = [q \in Runs |-> run'[q]] /\ \A q \in Runs : IsRun(run'[q])
    BY <1>4, RunsTable, IdleRun DEF Crash, BucketsInv
  <2>. QED
    BY <1>4, <2>1 DEF Crash, BucketsInv, TablesInv, CleanInv
<1>5. CASE UNCHANGED evVars
  BY <1>1, <1>5 DEF evVars, BucketsInv, TablesInv
<1>. QED
  BY <1>2, <1>3, <1>4, <1>5

\* A run that begins alone begins with exact buckets, and its session's events are
\* among those it has got.
LEMMA ExtractStep ==
  ASSUME BucketsInv, NEW p \in Runs, NEW s \in Sessions, ExtractAll(p, s)
  PROVE  BucketsInv'
<1>. DEFINE r == [Idle EXCEPT !.step = "delete", !.sess = s, !.got = source[s]]
<1>1. /\ run[p] = Idle /\ source[s] # {} /\ stored' = stored \cup {s}
      /\ run' = [run EXCEPT ![p] = r] /\ UNCHANGED <<source, events, buckets>>
      /\ stale' = (stale \/ ~Quiet \/ \E e \in events : e[1] = s /\ e[2] \notin source[s])
  BY DEF ExtractAll
<1>2. r.step = "delete" /\ r.sess = s /\ r.got = source[s] /\ source[s] \subseteq Hours
  BY DEF Idle, BucketsInv, TablesInv
<1>3. r \in [step : Steps, sess : Sessions \cup {"none"}, got : SUBSET Hours, read : {r.read}]
  BY <1>2 DEF Idle, Steps
<1>. HIDE DEF r
<1>4. IsRun(r)
  BY <1>2, <1>3 DEF IsRun
<1>5. TablesInv'
  BY <1>1, <1>4, RunsTable DEF BucketsInv, TablesInv
<1>6. ASSUME ~stale' PROVE CleanInv'
  <2>1. ~stale /\ Quiet /\ \A e \in events : e[1] = s => e[2] \in source[s]
    BY <1>1, <1>6
  <2>2. \A w \in Windows : Exact(buckets, events, w)
    BY <2>1 DEF BucketsInv, CleanInv
  <2>3. RunInv(r, events', buckets', stored')
    BY <1>1, <1>2, <2>1, <2>2 DEF RunInv, Of, Grans
  <2>4. run'[p] = r /\ \A q \in Runs : q # p => run'[q] = Idle
    BY <1>1, <2>1 DEF Quiet, BucketsInv, TablesInv
  <2>5. r # Idle
    BY <1>2 DEF Idle
  <2>. QED
    BY <2>3, <2>4, <2>5, IdleRun DEF CleanInv, Quiet
<1>. QED
  BY <1>5, <1>6 DEF BucketsInv, CleanInv

LEMMA DeleteStep ==
  ASSUME BucketsInv, NEW p \in Runs, DeleteSessionEvents(p)
  PROVE  BucketsInv'
<1>. DEFINE r == [run[p] EXCEPT !.step = "save"]
<1>1. /\ run[p].step = "delete" /\ run' = [run EXCEPT ![p] = r]
      /\ UNCHANGED <<source, stored, buckets>> /\ events' \subseteq events
      /\ \/ events' = { e \in events : e[1] # run[p].sess } /\ UNCHANGED stale
         \/ stale' = TRUE
  BY DEF DeleteSessionEvents, Goto
<1>2. IsRun(run[p])
  BY DEF BucketsInv, TablesInv
<1>3. IsRun(r) /\ r.step = "save" /\ r.sess = run[p].sess /\ r.got = run[p].got
  <2>1. "save" \in Steps \ {"idle"}
    BY DEF Steps
  <2>. QED
    BY <1>2, <2>1, Moved
<1>. HIDE DEF r
<1>4. TablesInv'
  BY <1>1, <1>3, RunsTable, SubsetOfEvents DEF BucketsInv, TablesInv
<1>5. ASSUME ~stale' PROVE CleanInv'
  <2>1. ~stale /\ events' = { e \in events : e[1] # run[p].sess }
    BY <1>1, <1>5
  <2>2. RunInv(run[p], events, buckets, stored)
    BY <2>1 DEF BucketsInv, CleanInv
  <2>3. ASSUME NEW w \in Windows, ~Touched(r, w) PROVE Exact(buckets', events', w)
    <3>1. Exact(buckets, events, w)
      BY <1>1, <1>3, <2>2, <2>3 DEF RunInv, Touched
    <3>2. \A e \in events \cup events' : In(e[2], w) => (e \in events <=> e \in events')
      BY <1>1, <1>3, <2>1, <2>2, <2>3 DEF RunInv, Touched
    <3>3. Count(events, w) = Count(events', w)
      BY <3>2, SameCount
    <3>. QED
      BY <1>1, <3>1, <3>3 DEF Exact
  <2>4. r.got # {} /\ r.sess \in stored'
    BY <1>1, <1>3, <2>2 DEF RunInv
  <2>5. RunInv(r, events', buckets', stored')
    BY <1>3, <2>3, <2>4 DEF RunInv, Of, Grans
  <2>6. r # Idle /\ run[p].step # "idle"
    BY <1>1, <1>3 DEF Idle
  <2>. QED
    BY <1>1, <2>1, <2>5, <2>6, OneRun
<1>. QED
  BY <1>4, <1>5 DEF BucketsInv, CleanInv

\* The session's events are stored, all in hours of the run.
LEMMA SaveStep ==
  ASSUME Plain, BucketsInv, NEW p \in Runs, SaveEvents(p)
  PROVE  BucketsInv'
<1>. DEFINE s == run[p].sess
            new == {s} \X run[p].got \X {Fresh(s)}
            r == [run[p] EXCEPT !.step = "query1h"]
<1>1. run[p].step = "save" /\ UNCHANGED <<source, stored, buckets, stale>>
  BY DEF SaveEvents
<1>2. \/ s \in stored /\ events' = events \cup new /\ run' = [run EXCEPT ![p] = r]
      \/ s \notin stored /\ events' = events /\ run' = [run EXCEPT ![p] = Idle]
  BY DEF SaveEvents, Goto
<1>3. IsRun(run[p]) /\ run[p].got \subseteq Hours
  BY DEF BucketsInv, TablesInv, IsRun
<1>4. IsRun(r) /\ r.step = "query1h" /\ r.sess = s /\ r.got = run[p].got
  <2>1. "query1h" \in Steps \ {"idle"}
    BY DEF Steps
  <2>. QED
    BY <1>3, <2>1, Moved
<1>5. IsFiniteSet(new)
  <2>. DEFINE put == [h \in run[p].got |-> <<s, h, Fresh(s)>>]
  <2>1. IsFiniteSet(run[p].got)
    BY <1>3, FS_Subset DEF Plain, SessionEventsAssumption
  <2>2. put \in Surjection(run[p].got, new)
    <3>1. put \in [run[p].got -> new]
      OBVIOUS
    <3>2. \A t \in new : t = <<s, t[2], Fresh(s)>> /\ t[2] \in run[p].got
      OBVIOUS
    <3>3. \A t \in new : put[t[2]] = t
      BY <3>2
    <3>. HIDE DEF put, new
    <3>. QED
      BY <3>1, <3>2, <3>3 DEF Surjection
  <2>. HIDE DEF put, new
  <2>. QED
    BY <2>1, <2>2, FS_Surjection
<1>6. \A e \in new : e[1] = s /\ e[2] \in run[p].got
  OBVIOUS
<1>7. \A h \in run[p].got : \E e \in new : e[2] = h
  <2>1. \A h \in run[p].got : <<s, h, Fresh(s)>> \in new /\ <<s, h, Fresh(s)>>[2] = h
    OBVIOUS
  <2>. HIDE DEF new
  <2>. QED
    BY <2>1
<1>. HIDE DEF new, r
<1>8. CASE s \notin stored
  <2>1. TablesInv'
    BY <1>1, <1>2, <1>8, RunsTable, IdleRun DEF BucketsInv, TablesInv
  <2>2. ASSUME ~stale PROVE FALSE
    <3>1. RunInv(run[p], events, buckets, stored)
      BY <2>2 DEF BucketsInv, CleanInv
    <3>. QED
      BY <1>1, <1>8, <3>1 DEF RunInv
  <2>. QED
    BY <1>1, <2>1, <2>2 DEF BucketsInv, CleanInv
<1>9. CASE s \in stored
  <2>1. events' = events \cup new /\ run' = [run EXCEPT ![p] = r]
    BY <1>2, <1>9
  <2>2. AreEvents(events')
    <3>1. IsFiniteSet(events')
      BY <1>5, <2>1, FS_Union DEF BucketsInv, TablesInv, AreEvents
    <3>. QED
      BY <1>3, <1>6, <1>9, <2>1, <3>1 DEF BucketsInv, TablesInv, AreEvents
  <2>3. TablesInv'
    BY <1>1, <1>4, <2>1, <2>2, RunsTable DEF BucketsInv, TablesInv
  <2>4. ASSUME ~stale PROVE CleanInv'
    <3>1. RunInv(run[p], events, buckets, stored)
      BY <2>4 DEF BucketsInv, CleanInv
    <3>2. ASSUME NEW w \in Windows, ~Touched(r, w) PROVE Exact(buckets', events', w)
      <4>1. Exact(buckets, events, w)
        BY <1>1, <1>4, <3>1, <3>2 DEF RunInv, Touched
      <4>2. \A e \in events \cup events' : In(e[2], w) => (e \in events <=> e \in events')
        BY <1>4, <1>6, <2>1, <3>2 DEF Touched
      <4>3. Count(events, w) = Count(events', w)
        BY <4>2, SameCount
      <4>. QED
        BY <1>1, <4>1, <4>3 DEF Exact
    <3>3. r.got # {} /\ \A h \in r.got : \E e \in events' : e[2] = h
      BY <1>1, <1>4, <1>7, <2>1, <3>1 DEF RunInv
    <3>4. RunInv(r, events', buckets', stored')
      BY <1>4, <3>2, <3>3 DEF RunInv, Of, Grans
    <3>5. r # Idle /\ run[p].step # "idle"
      BY <1>1, <1>4 DEF Idle
    <3>. QED
      BY <2>1, <2>4, <3>4, <3>5, OneRun
  <2>. QED
    BY <1>1, <2>3, <2>4 DEF BucketsInv, CleanInv
<1>. QED
  BY <1>8, <1>9

LEMMA QueryStep ==
  ASSUME Plain, BucketsInv, NEW p \in Runs, NEW gran \in Grans, QueryEvents(p, gran)
  PROVE  BucketsInv'
<1>. DEFINE next == Of(gran, "replace1h", "replace1d")
            read == { e \in events : e[2] + Offset \in TimeRange(run[p].got, gran) }
            r == [run[p] EXCEPT !.step = next, !.read = read]
<1>1. /\ run[p].step = Of(gran, "query1h", "query1d") /\ run' = [run EXCEPT ![p] = r]
      /\ UNCHANGED <<source, stored, events, buckets, stale>>
  BY DEF QueryEvents
<1>2. IsRun(r) /\ r.step = next /\ r.sess = run[p].sess /\ r.got = run[p].got /\ r.read = read
  <2>1. next \in Steps \ {"idle"}
    BY DEF Steps, Of
  <2>2. IsRun(run[p])
    BY DEF BucketsInv, TablesInv
  <2>3. r = [run[p] EXCEPT !.step = next, !.read = read]
    OBVIOUS
  <2>4. run[p] \in [step : Steps, sess : Sessions \cup {"none"}, got : SUBSET Hours, read : {run[p].read}]
    BY <2>2 DEF IsRun
  <2>. HIDE DEF next, read, r
  <2>5. IsRun(r)
    BY <2>1, <2>2, <2>3, Told
  <2>. QED
    BY <2>3, <2>4, <2>5
<1>3. read = { e \in events : e[2] \in TimeRange(run[p].got, gran) }
  <2>1. \A e \in events : e[2] + Offset = e[2]
    BY DEF Plain, SessionEventsAssumption, BucketsInv, TablesInv, AreEvents
  <2>. QED
    BY <2>1
<1>. HIDE DEF r, read
<1>4. TablesInv'
  BY <1>1, <1>2, RunsTable DEF BucketsInv, TablesInv
<1>5. ASSUME ~stale PROVE CleanInv'
  <2>1. RunInv(run[p], events, buckets, stored)
    BY <1>5 DEF BucketsInv, CleanInv
  <2>2. RunInv(r, events, buckets, stored)
    <3>1. CASE gran = "1h"
      BY <1>1, <1>2, <1>3, <2>1, <3>1 DEF RunInv, Of, Grans, Touched
    <3>2. CASE gran = "1d"
      BY <1>1, <1>2, <1>3, <2>1, <3>2 DEF RunInv, Of, Grans, Touched
    <3>. QED
      BY <3>1, <3>2 DEF Grans
  <2>3. r # Idle /\ run[p].step # "idle"
    BY <1>1, <1>2 DEF Idle, Of
  <2>4. RunInv(r, events', buckets', stored')
    BY <1>1, <2>2
  <2>. QED
    BY <1>1, <1>5, <2>3, <2>4, OneRun
<1>. QED
  BY <1>1, <1>4, <1>5 DEF BucketsInv, CleanInv

LEMMA ReplaceStep ==
  ASSUME Plain, BucketsInv, NEW p \in Runs, NEW gran \in Grans, ReplaceEventBuckets(p, gran)
  PROVE  BucketsInv'
<1>. DEFINE read == {}
            r == [run[p] EXCEPT !.step = "query1d", !.read = read]
            next == IF gran = "1h" THEN r ELSE Idle
<1>1. run[p].step = Of(gran, "replace1h", "replace1d") /\ UNCHANGED <<source, stored, events>>
  BY DEF ReplaceEventBuckets
<1>2. \/ /\ Aggregated(run[p].read, gran, buckets')
         /\ run' = [run EXCEPT ![p] = next] /\ UNCHANGED stale
      \/ run' = [run EXCEPT ![p] = Idle] /\ stale' = TRUE /\ UNCHANGED buckets
  BY DEF ReplaceEventBuckets
<1>3. IsRun(run[p])
  BY DEF BucketsInv, TablesInv
<1>4. IsRun(r) /\ r.step = "query1d" /\ r.got = run[p].got
  <2>1. "query1d" \in Steps \ {"idle"}
    BY DEF Steps
  <2>2. run[p] \in [step : Steps, sess : Sessions \cup {"none"}, got : SUBSET Hours, read : {run[p].read}]
    BY <1>3 DEF IsRun
  <2>3. r = [run[p] EXCEPT !.step = "query1d", !.read = read]
    OBVIOUS
  <2>. HIDE DEF read, r
  <2>4. IsRun(r)
    BY <1>3, <2>1, <2>3, Told
  <2>. QED
    BY <2>2, <2>3, <2>4
<1>5. IsRun(next)
  BY <1>4, IdleRun
<1>. HIDE DEF r
<1>6. CASE run' = [run EXCEPT ![p] = Idle] /\ stale' = TRUE /\ UNCHANGED buckets
  BY <1>1, <1>6, RunsTable, IdleRun DEF BucketsInv, TablesInv, CleanInv
<1>7. CASE Aggregated(run[p].read, gran, buckets') /\ run' = [run EXCEPT ![p] = next] /\ UNCHANGED stale
  <2>1. run' = [q \in Runs |-> run'[q]] /\ \A q \in Runs : IsRun(run'[q])
    <3>. HIDE DEF next
    <3>. QED
      BY <1>5, <1>7, RunsTable DEF BucketsInv
  <2>2. buckets' = [w \in Windows |-> buckets'[w]]
    BY <1>7 DEF Aggregated
  <2>3. TablesInv'
    BY <1>1, <1>7, <2>1, <2>2 DEF BucketsInv, TablesInv
  <2>4. ASSUME ~stale PROVE CleanInv'
    <3>1. RunInv(run[p], events, buckets, stored)
      BY <2>4 DEF BucketsInv, CleanInv
    <3>2. /\ run[p].read = { e \in events : e[2] \in TimeRange(run[p].got, gran) }
          /\ run[p].got # {} /\ \A h \in run[p].got : \E e \in events : e[2] = h
          /\ \A w \in Windows : Touched(run[p], w) \/ Exact(buckets, events, w)
      BY <1>1, <3>1 DEF RunInv, Of, Grans
    <3>3. /\ \A w \in Windows : w[1] = gran => Exact(buckets', events, w)
          /\ \A w \in Windows : w[1] = gran \/ buckets'[w] = buckets[w]
      <4>. DEFINE old == run[p]
                  new == buckets'
      <4>1. AreEvents(events) /\ IsRun(old) /\ Aggregated(old.read, gran, new)
        BY <1>3, <1>7 DEF BucketsInv, TablesInv
      <4>2. /\ old.read = { e \in events : e[2] \in TimeRange(old.got, gran) }
            /\ old.got # {} /\ \A h \in old.got : \E e \in events : e[2] = h
            /\ \A w \in Windows : Touched(old, w) \/ Exact(buckets, events, w)
        BY <3>2
      <4>3. \A w \in Windows : w[1] = gran => Exact(new, events, w)
        <5>. HIDE DEF old, new
        <5>. QED
          BY <4>1, <4>2, ReplacedExact
      <4>4. AreEvents(old.read)
        BY <4>1, <4>2, SubsetOfEvents
      <4>5. \A w \in Windows :
              new[w] = IF w[1] = gran /\ Count(old.read, w) > 0 THEN Count(old.read, w) ELSE buckets[w]
        <5>. HIDE DEF old, new
        <5>. QED
          BY <4>1, <4>4, Replaced
      <4>. QED
        BY <4>3, <4>5
    <3>4. CASE gran = "1h"
      <4>1. \A w \in Windows : Touched(r, w) \/ Exact(buckets', events', w)
        BY <1>1, <1>4, <3>2, <3>3 DEF Touched, Exact
      <4>2. \A h \in r.got : \E e \in events' : e[2] = h
        BY <1>1, <1>4, <3>2
      <4>3. \A w \in Windows : w[1] = "1h" => Exact(buckets', events', w)
        BY <1>1, <3>3, <3>4
      <4>4. RunInv(r, events', buckets', stored')
        BY <1>4, <3>2, <4>1, <4>2, <4>3 DEF RunInv, Of, Grans
      <4>5. r # Idle /\ run[p].step # "idle"
        BY <1>1, <1>4 DEF Idle, Of
      <4>6. run' = [run EXCEPT ![p] = r]
        BY <1>7, <3>4
      <4>. QED
        BY <2>4, <4>4, <4>5, <4>6, OneRun
    <3>5. CASE gran = "1d"
      <4>1. \A w \in Windows : w[1] = "1h" => Exact(buckets, events, w)
        BY <1>1, <3>1, <3>5 DEF RunInv, Of
      <4>2. \A w \in Windows : Exact(buckets', events', w)
        BY <1>1, <3>3, <3>5, <4>1, GranOfWindow DEF Grans, Exact
      <4>3. run' = [run EXCEPT ![p] = Idle] /\ run[p].step # "idle"
        BY <1>1, <1>7, <3>5 DEF Of
      <4>. QED
        BY <2>4, <4>2, <4>3, IdleRun, OneRun
    <3>. QED
      BY <3>4, <3>5 DEF Grans
  <2>. QED
    BY <1>7, <2>3, <2>4 DEF BucketsInv, CleanInv
<1>. QED
  BY <1>2, <1>6, <1>7

-----------------------------------------------------------------------------
(* A recomputation counts the table as it is.                              *)

LEMMA RecomputeStep ==
  ASSUME BucketsInv, NEW p \in Runs, Recompute(p)
  PROVE  BucketsInv'
<1>. DEFINE r == [run[p] EXCEPT !.step = "clear1h"]
<1>1. /\ run[p] = Idle /\ run' = [run EXCEPT ![p] = r] /\ stale' = ~Quiet
      /\ UNCHANGED <<source, stored, events, buckets>>
  BY DEF Recompute, Goto
<1>2. IsRun(r) /\ r.step = "clear1h"
  <2>1. "clear1h" \in Steps \ {"idle"}
    BY DEF Steps
  <2>. QED
    BY <1>1, <2>1, IdleRun, Moved
<1>. HIDE DEF r
<1>3. TablesInv'
  BY <1>1, <1>2, RunsTable DEF BucketsInv, TablesInv
<1>4. ASSUME ~stale' PROVE CleanInv'
  <2>1. run'[p] = r /\ \A q \in Runs : q # p => run'[q] = Idle
    BY <1>1, <1>4 DEF Quiet, BucketsInv, TablesInv
  <2>2. RunInv(r, events', buckets', stored') /\ r # Idle
    BY <1>2 DEF RunInv, Of, Grans, Idle
  <2>. QED
    BY <2>1, <2>2, IdleRun DEF CleanInv, Quiet
<1>. QED
  BY <1>3, <1>4 DEF BucketsInv, CleanInv

LEMMA ClearStep ==
  ASSUME BucketsInv, NEW p \in Runs, NEW gran \in Grans, DeleteEventBuckets(p, gran)
  PROVE  BucketsInv'
<1>. DEFINE next == IF gran = "1h" THEN "clear1d" ELSE "queryAll"
            r == [run[p] EXCEPT !.step = next]
<1>1. /\ run[p].step = Of(gran, "clear1h", "clear1d") /\ run' = [run EXCEPT ![p] = r]
      /\ buckets' = [w \in Windows |-> IF w[1] = gran THEN 0 ELSE buckets[w]]
      /\ UNCHANGED <<source, stored, events, stale>>
  BY DEF DeleteEventBuckets, Goto
<1>2. IsRun(r) /\ r.step = next
  <2>1. next \in Steps \ {"idle"} /\ IsRun(run[p])
    BY DEF Steps, BucketsInv, TablesInv
  <2>. HIDE DEF next
  <2>. QED
    BY <2>1, Moved
<1>. HIDE DEF r
<1>3. TablesInv'
  BY <1>1, <1>2, RunsTable DEF BucketsInv, TablesInv
<1>4. ASSUME ~stale PROVE CleanInv'
  <2>1. RunInv(run[p], events, buckets, stored)
    BY <1>4 DEF BucketsInv, CleanInv
  <2>2. /\ r.step \in {"clear1d", "queryAll"}
        /\ r.step = "clear1d" => \A w \in Windows : w[1] = "1h" => buckets'[w] = 0
        /\ r.step = "queryAll" => \A w \in Windows : buckets'[w] = 0
    <3>1. CASE gran = "1h"
      BY <1>1, <1>2, <3>1
    <3>2. CASE gran = "1d"
      <4>1. \A w \in Windows : w[1] = "1h" => buckets[w] = 0
        BY <1>1, <2>1, <3>2 DEF RunInv, Of, Grans
      <4>. QED
        BY <1>1, <1>2, <3>2, <4>1, GranOfWindow DEF Grans
    <3>. QED
      BY <3>1, <3>2 DEF Grans
  <2>3. RunInv(r, events', buckets', stored')
    BY <2>2 DEF RunInv, Of, Grans
  <2>4. r # Idle /\ run[p].step # "idle"
    BY <1>1, <2>2 DEF Idle, Of
  <2>. QED
    BY <1>1, <1>4, <2>3, <2>4, OneRun
<1>. QED
  BY <1>1, <1>3, <1>4 DEF BucketsInv, CleanInv

LEMMA QueryAllStep ==
  ASSUME BucketsInv, NEW p \in Runs, QueryAll(p)
  PROVE  BucketsInv'
<1>. DEFINE r == [run[p] EXCEPT !.step = "all1h", !.read = events]
<1>1. /\ run[p].step = "queryAll"
      /\ \/ events = {} /\ run' = [run EXCEPT ![p] = Idle]
         \/ run' = [run EXCEPT ![p] = r]
      /\ UNCHANGED <<source, stored, events, buckets, stale>>
  BY DEF QueryAll
<1>2. IsRun(r) /\ r.step = "all1h" /\ r.read = events
  <2>1. "all1h" \in Steps \ {"idle"} /\ IsRun(run[p])
    BY DEF Steps, BucketsInv, TablesInv
  <2>2. run[p] \in [step : Steps, sess : Sessions \cup {"none"}, got : SUBSET Hours, read : {run[p].read}]
    BY <2>1 DEF IsRun
  <2>3. r = [run[p] EXCEPT !.step = "all1h", !.read = events]
    OBVIOUS
  <2>. HIDE DEF r
  <2>4. IsRun(r)
    BY <2>1, <2>3, Told
  <2>. QED
    BY <2>2, <2>3, <2>4
<1>. HIDE DEF r
<1>3. TablesInv'
  <2>1. run' = [q \in Runs |-> run'[q]] /\ \A q \in Runs : IsRun(run'[q])
    BY <1>1, <1>2, IdleRun, RunsTable DEF BucketsInv
  <2>. QED
    BY <1>1, <2>1 DEF BucketsInv, TablesInv
<1>4. ASSUME ~stale PROVE CleanInv'
  <2>1. RunInv(run[p], events, buckets, stored)
    BY <1>4 DEF BucketsInv, CleanInv
  <2>2. \A w \in Windows : buckets'[w] = 0
    BY <1>1, <2>1 DEF RunInv
  <2>3. CASE run' = [run EXCEPT ![p] = r]
    <3>1. RunInv(r, events', buckets', stored')
      BY <1>1, <1>2, <2>2 DEF RunInv, Of, Grans
    <3>2. r # Idle /\ run[p].step # "idle"
      BY <1>1, <1>2 DEF Idle
    <3>. QED
      BY <1>4, <2>3, <3>1, <3>2, OneRun
  <2>4. CASE events = {} /\ run' = [run EXCEPT ![p] = Idle]
    <3>1. \A w \in Windows : Count(events, w) = 0
      BY <2>4, CountFacts, FS_EmptySet
    <3>2. \A w \in Windows : Exact(buckets', events', w)
      BY <1>1, <2>2, <3>1 DEF Exact
    <3>3. run[p].step # "idle"
      BY <1>1
    <3>. QED
      BY <1>4, <2>4, <3>2, <3>3, IdleRun, OneRun
  <2>. QED
    BY <1>1, <2>3, <2>4
<1>. QED
  BY <1>1, <1>3, <1>4 DEF BucketsInv, CleanInv

LEMMA ReplaceAllStep ==
  ASSUME Plain, BucketsInv, NEW p \in Runs, NEW gran \in Grans, ReplaceAll(p, gran)
  PROVE  BucketsInv'
<1>. DEFINE r == [run[p] EXCEPT !.step = "all1d"]
            next == IF gran = "1h" THEN r ELSE Idle
<1>1. /\ run[p].step = Of(gran, "all1h", "all1d") /\ run' = [run EXCEPT ![p] = next]
      /\ Aggregated(run[p].read, gran, buckets') /\ UNCHANGED <<source, stored, events, stale>>
  BY DEF ReplaceAll
<1>2. IsRun(r) /\ r.step = "all1d" /\ r.read = run[p].read
  <2>1. "all1d" \in Steps \ {"idle"} /\ IsRun(run[p])
    BY DEF Steps, BucketsInv, TablesInv
  <2>. QED
    BY <2>1, Moved
<1>3. IsRun(next)
  BY <1>2, IdleRun
<1>. HIDE DEF r
<1>4. TablesInv'
  <2>1. buckets' = [w \in Windows |-> buckets'[w]]
    BY <1>1 DEF Aggregated
  <2>2. run' = [q \in Runs |-> run'[q]] /\ \A q \in Runs : IsRun(run'[q])
    <3>. HIDE DEF next
    <3>. QED
      BY <1>1, <1>3, RunsTable DEF BucketsInv
  <2>. QED
    BY <1>1, <2>1, <2>2 DEF BucketsInv, TablesInv
<1>5. ASSUME ~stale PROVE CleanInv'
  <2>1. RunInv(run[p], events, buckets, stored)
    BY <1>5 DEF BucketsInv, CleanInv
  <2>2. run[p].read = events /\ \A w \in Windows : w[1] = gran => buckets[w] = 0
    <3>1. CASE gran = "1h"
      BY <1>1, <2>1, <3>1 DEF RunInv, Of
    <3>2. CASE gran = "1d"
      BY <1>1, <2>1, <3>2 DEF RunInv, Of, Grans
    <3>. QED
      BY <3>1, <3>2 DEF Grans
  <2>3. AreEvents(events) /\ \A w \in Windows : Count(events, w) \in Nat
    BY CountFacts DEF BucketsInv, TablesInv, AreEvents
  <2>4. \A w \in Windows : buckets'[w] = IF w[1] = gran /\ Count(events, w) > 0 THEN Count(events, w) ELSE buckets[w]
    BY <1>1, <2>2, <2>3, Replaced
  <2>5. \A w \in Windows : IF w[1] = gran THEN Exact(buckets', events', w) ELSE buckets'[w] = buckets[w]
    <3>1. \A w \in Windows : ~(Count(events, w) > 0) => Count(events, w) = 0
      BY <2>3
    <3>. QED
      BY <1>1, <2>2, <2>4, <3>1 DEF Exact
  <2>6. CASE gran = "1h"
    <3>1. \A w \in Windows : w[1] = "1d" => buckets[w] = 0
      BY <1>1, <2>1, <2>6 DEF RunInv, Of
    <3>2. /\ \A w \in Windows : w[1] = "1h" => Exact(buckets', events', w)
          /\ \A w \in Windows : w[1] = "1d" => buckets'[w] = 0
      BY <2>5, <2>6, <3>1
    <3>3. RunInv(r, events', buckets', stored')
      BY <1>1, <1>2, <2>2, <3>2 DEF RunInv, Of, Grans
    <3>4. r # Idle /\ run[p].step # "idle" /\ run' = [run EXCEPT ![p] = r]
      BY <1>1, <1>2, <2>6 DEF Idle, Of
    <3>. QED
      BY <1>5, <3>3, <3>4, OneRun
  <2>7. CASE gran = "1d"
    <3>1. \A w \in Windows : w[1] = "1h" => Exact(buckets, events, w)
      BY <1>1, <2>1, <2>7 DEF RunInv, Of
    <3>2. \A w \in Windows : Exact(buckets', events', w)
      BY <1>1, <2>5, <2>7, <3>1, GranOfWindow DEF Grans, Exact
    <3>3. run' = [run EXCEPT ![p] = Idle] /\ run[p].step # "idle"
      BY <1>1, <2>7 DEF Of
    <3>. QED
      BY <1>5, <3>2, <3>3, IdleRun, OneRun
  <2>. QED
    BY <2>6, <2>7 DEF Grans
<1>. QED
  BY <1>1, <1>4, <1>5 DEF BucketsInv, CleanInv

-----------------------------------------------------------------------------

LEMMA BucketsInit ==
  ASSUME Plain, EventsInit
  PROVE  BucketsInv
<1>1. AreEvents(events)
  BY FS_EmptySet DEF EventsInit, AreEvents
<1>2. TablesInv
  BY <1>1, IdleRun DEF EventsInit, TablesInv
<1>3. \A w \in Windows : Exact(buckets, events, w)
  BY CountFacts, FS_EmptySet DEF EventsInit, Exact
<1>. QED
  BY <1>2, <1>3, IdleRun DEF EventsInit, BucketsInv, CleanInv

LEMMA BucketsStep ==
  ASSUME Plain, BucketsInv, [EventsNext]_evVars
  PROVE  BucketsInv'
<1>1. ASSUME NEW p \in Runs, ProcessSession(p) PROVE BucketsInv'
  BY <1>1, DeleteStep, SaveStep, QueryStep, ReplaceStep DEF ProcessSession, Grans
<1>2. ASSUME NEW p \in Runs, RecomputeAllBuckets(p) PROVE BucketsInv'
  BY <1>2, QueryAllStep, ClearStep, ReplaceAllStep DEF RecomputeAllBuckets, Grans
<1>. QED
  BY <1>1, <1>2, OutsideStep, ExtractStep, RecomputeStep DEF EventsNext

\* When no capture and no recomputation goes on, every bucket counts the events of its
\* window, unless something happened since that only a recomputation repairs
\* (service.go: "fully idempotent"; "fixes any staleness from deleted sessions").
THEOREM BucketsAreExact ==
  ASSUME Plain
  PROVE  EventsSpec => []QuietExact
<1>1. BucketsInv => QuietExact
  BY DEF BucketsInv, CleanInv, QuietExact, Exact
<1>. QED
  BY <1>1, BucketsInit, BucketsStep, PTL DEF EventsSpec
=============================================================================
