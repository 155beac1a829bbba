----------------------------- MODULE Transcript -----------------------------
(***************************************************************************)
(* What the analytics read out of a growing transcript: the compactions,   *)
(* seen as drops of the input tokens, merged into cascades, and the phases *)
(* between them.  Tokens are in thousands.                                 *)
(***************************************************************************)
EXTENDS Naturals, Sequences, FiniteSets, SequencesExt

CONSTANTS
  Entries,     \* the messages of the assistant, with their input tokens
  MaxMessages  \* bound on the transcript

VARIABLE transcript

transcriptVars == transcript

Threshold(before, after) == 100 * after < 55 * before
Secondary(before, after) == 100 * after < 65 * before /\ before - after > 40

\* A message without token data, the user's above all, or one of the assistant.
PossibleEntries == [input : {0}, cached : {FALSE}] \cup Entries

TranscriptInit == transcript = << >>
AddEntry(m) == Len(transcript) < MaxMessages /\ transcript' = Append(transcript, m)
TranscriptNext == \E m \in PossibleEntries : AddEntry(m)
TranscriptSpec == TranscriptInit /\ [][TranscriptNext]_transcriptVars

-----------------------------------------------------------------------------
(* Compactions.                                                            *)

Indices(t) == [i \in DOMAIN t |-> i]
WithTokens(t) == SelectSeq(Indices(t), LAMBDA i : t[i].input > 0)

\* A drop by 45 percent, or by 35 and forty thousand tokens with the cache gone, from
\* more than ten thousand.
Compacted(before, after) ==
  /\ before.input > 10
  /\ \/ Threshold(before.input, after.input)
     \/ Secondary(before.input, after.input) /\ before.cached /\ ~after.cached

\* The raw events, in order, as places with the tokens before and after.
RawEvents(t) ==
  LET w == WithTokens(t)
      hit == SelectSeq(Indices(w), LAMBDA k : k > 1 /\ Compacted(t[w[k - 1]], t[w[k]]))
  IN [e \in DOMAIN hit |->
        [from |-> w[hit[e] - 1], to |-> w[hit[e]],
         before |-> t[w[hit[e] - 1]].input, after |-> t[w[hit[e]]].input, legs |-> 1]]

\* Mutation of Continues: whether the context recovered in between is not looked at.
ContinuesSoon(current, next) == next.from - current.to <= 3

\* Within three messages, and the context has not grown by half again.
Continues(current, next) ==
  next.from - current.to <= 3 /\ 2 * next.before <= 3 * current.after

MergeCascades(events) ==
  LET Merge(done, next) ==
        IF done = << >> \/ ~Continues(done[Len(done)], next) THEN Append(done, next)
        ELSE [done EXCEPT ![Len(done)] =
                [@ EXCEPT !.to = next.to, !.after = next.after, !.legs = @ + 1]]
  IN FoldLeft(Merge, << >>, events)

DetectCompactions(t) == MergeCascades(RawEvents(t))

-----------------------------------------------------------------------------
(* Phases.                                                                 *)

\* Where the phases begin: at the first message and at the end of each compaction.
Boundaries(t) ==
  LET events == SelectSeq(DetectCompactions(t), LAMBDA e : e.to > 1)
  IN <<1>> \o [k \in DOMAIN events |-> events[k].to]

Phase(t, p) ==
  Boundaries(t)[p] .. (IF p < Len(Boundaries(t)) THEN Boundaries(t)[p + 1] ELSE Len(t) + 1) - 1

-----------------------------------------------------------------------------
(* Properties.                                                             *)

TranscriptTypeOK == transcript \in Seq(PossibleEntries) /\ Len(transcript) <= MaxMessages

\* The compactions come one after the other, every one a loss of more than a third of
\* the context however many legs it has; and the phases between them hold every
\* message once, so that no quality figure counts one twice.
Segmented ==
  LET events == DetectCompactions(transcript)
      phases == DOMAIN Boundaries(transcript)
  IN /\ \A k \in DOMAIN events :
          /\ events[k].from < events[k].to
          /\ 100 * events[k].after < 65 * events[k].before
          /\ k < Len(events) => events[k].to <= events[k + 1].from
     /\ transcript # << >> =>
          \A i \in DOMAIN transcript : Cardinality({ p \in phases : i \in Phase(transcript, p) }) = 1

\* A message that is added never takes a compaction back that was reported before: it
\* adds one, or extends the last one by a leg.
NothingTakenBack ==
  [][Len(transcript') > Len(transcript) =>
       LET old == DetectCompactions(transcript)
           new == DetectCompactions(transcript')
       IN /\ Len(old) <= Len(new) /\ Len(new) <= Len(old) + 1
          /\ \A k \in 1 .. Len(old) - 1 : new[k] = old[k]
          /\ old # << >> => /\ new[Len(old)].from = old[Len(old)].from
                            /\ new[Len(old)].after <= old[Len(old)].after]_transcriptVars

\* compaction.go: a cascade is a compaction "where the context does NOT recover between
\* passes".
NoRecovery ==
  LET events == DetectCompactions(transcript)
  IN \A k \in DOMAIN events : \A i \in events[k].from + 1 .. events[k].to :
       transcript[i].input < events[k].before
=============================================================================
