---------------------------- MODULE SessionStore ----------------------------
(***************************************************************************)
(* One row of the sessions table of storage/sqlite, as far as capture and  *)
(* retention tell its columns apart, and the operators of the store that   *)
(* read or write it.  A row is written by one SQL statement or one         *)
(* transaction, so each operator is one atomic step of its caller.         *)
(*                                                                         *)
(* A message is an identity together with a revision: 0 while it has none  *)
(* of its parts (text, tool calls), 1 once it has them.  The AI tool       *)
(* creates the message first and may stream the parts into it afterwards.  *)
(***************************************************************************)
EXTENDS Naturals, Sequences

Msg == [id : Nat, rev : {0, 1}]

Tier == {"hot", "warm", "cold"}

\* payload: the messages inside the compressed JSON; count: message_count;
\* updatedAt: source_updated_at; accessed: last_accessed_at;
\* compacted: compacted_at is set.
Row == [tier      : Tier \cup {"none"},
        payload   : Seq(Msg),
        count     : Nat,
        updatedAt : Nat,
        accessed  : Nat,
        compacted : BOOLEAN]

\* No row with this id.  GetFreshness answers (0, 0) for it.
NoRow == [tier |-> "none", payload |-> << >>, count |-> 0,
          updatedAt |-> 0, accessed |-> 0, compacted |-> FALSE]

Exists(r) == r.tier # "none"

\* Save: an upsert of every column; message_count is derived from the payload.
Saved(sess) == [sess EXCEPT !.count = Len(sess.payload)]

\* Mutations of Retained: the tier is not normalized, the empty string is stored;
\* the tier or the compaction mark is left out of the SET list.
RetainedEmptyTier(r, sess) ==
  [r EXCEPT !.payload = sess.payload, !.tier = "",
            !.compacted = sess.compacted, !.accessed = sess.accessed]
RetainedWithoutTier(r, sess) ==
  [r EXCEPT !.payload = sess.payload, !.compacted = sess.compacted]
RetainedWithoutMark(r, sess) ==
  [r EXCEPT !.payload = sess.payload, !.tier = sess.tier]

\* UpdateSessionRetention: an UPDATE of the payload and of the retention
\* columns only, on whatever the row holds now; message_count and
\* source_updated_at keep the values of the last Save.
Retained(r, sess) ==
  [r EXCEPT !.payload   = sess.payload,
            !.tier      = sess.tier,
            !.compacted = sess.compacted,
            !.accessed  = sess.accessed]

\* TouchSessionAccessed.
Touched(r, at) == [r EXCEPT !.accessed = at]

\* The last sign of life retentionInactive looks at: a full export stamps
\* created_at no later than source_updated_at.
LastActivity(r) == IF r.accessed > r.updatedAt THEN r.accessed ELSE r.updatedAt

\* ListWarmCompactionCandidates followed by retentionInactive.
WarmCandidate(r, cutoff) ==
  r.tier = "hot" /\ ~r.compacted /\ LastActivity(r) <= cutoff

\* ListColdCompactionCandidates followed by retentionInactive.
ColdCandidate(r, cutoff) == r.tier = "warm" /\ LastActivity(r) <= cutoff

\* The increasing choices of n among the indices 1 .. len that take the last.
Picks(n, len) ==
  { f \in [1 .. n -> 1 .. len] :
      /\ \A i, j \in 1 .. n : i < j => f[i] < f[j]
      /\ len > 0 => n > 0 /\ f[n] = len }

\* What ApplyWindowRetention may leave of a payload: the newest message is
\* always in the window, every older one may stay or go (token budget, role,
\* compaction marker).
Windows(s) ==
  UNION { { [i \in 1 .. n |-> s[f[i]]] : f \in Picks(n, Len(s)) } : n \in 0 .. Len(s) }
=============================================================================
