---------------------------- MODULE Conversation ----------------------------
(***************************************************************************)
(* The messages of a session as Validate judges them, as the filters of a  *)
(* restore mend them and as a rewind cuts them.  A tool call of the        *)
(* assistant wants a result, in its own state or in the user's next        *)
(* message; a restored conversation without one is refused by the model.   *)
(***************************************************************************)
EXTENDS Naturals, Sequences, FiniteSets, SequencesExt

CONSTANTS
  Ids,         \* the ids of the tool calls
  InBlocks,    \* those that content blocks may name
  Reuse,       \* whether an id may name a second call
  MaxMessages  \* bound on the conversation

VARIABLE messages

convVars == messages

\* The state of a message's call of each id: none, without a result, or completed
\* or failed.  A user's message may hold results, as calls or as content blocks, which
\* are read alike.  The assistant's may name its calls in tool_use content blocks too,
\* or in these alone: no provider writes them, but an import or an ingest may bring them.
CallStates == {"no", "open", "closed"}
NoCalls == [id \in Ids |-> "no"]
MessageOK(m) ==
  /\ m.empty => m.calls = NoCalls /\ m.blocks = {}
  /\ m.role = "user" => (\A id \in Ids : m.calls[id] # "open") /\ m.blocks = {}
  /\ m.role = "system" => m.calls = NoCalls /\ m.blocks = {} /\ ~m.empty
PossibleMessages ==
  { m \in [role : {"assistant", "user", "system"}, calls : [Ids -> CallStates], blocks : SUBSET InBlocks,
           empty : BOOLEAN] : MessageOK(m) }

Named(m) == m.blocks \cup { id \in Ids : m.calls[id] # "no" }
Called == UNION { Named(messages[i]) : i \in { k \in DOMAIN messages : messages[k].role = "assistant" } }

ConvInit == messages = << >>

\* A message arrives: a call with an id of its own, a result of a call there was.
Arrive(m) ==
  /\ m.role = "assistant" /\ ~Reuse => Named(m) \cap Called = {}
  /\ m.role = "user" => Named(m) \subseteq Called
  /\ messages' = Append(messages, m)

ConvNext == Len(messages) < MaxMessages /\ \E m \in PossibleMessages : Arrive(m)
ConvSpec == ConvInit /\ [][ConvNext]_convVars

-----------------------------------------------------------------------------
(* Validate.                                                               *)

NonePending == [id \in Ids |-> 0]

\* What a message of the assistant waits for: its calls without a result; and what it
\* names in content blocks, which have no state, if that is not waited for already.
Waits(pending, m, id) ==
  /\ m.role = "assistant"
  /\ m.calls[id] = "open" \/ (id \in m.blocks /\ pending[id] = 0)

\* The calls without a result so far, each with the place of its message.
Resolve(pending, m, i) ==
  [id \in Ids |-> IF Waits(pending, m, id) THEN i
                  ELSE IF m.role = "user" /\ m.calls[id] # "no" THEN 0
                  ELSE pending[id]]

\* At a message of the assistant: the calls of its messages before the last one.
Late(pending, m, i) ==
  IF m.role = "assistant" THEN { id \in Ids : pending[id] # 0 /\ pending[id] + 1 < i } ELSE {}

Dropped(pending, ids) == [id \in Ids |-> IF id \in ids THEN 0 ELSE pending[id]]
Places(pending, ids) == { <<pending[id], id>> : id \in { x \in ids : pending[x] # 0 } }

\* The orphan tool uses, the only issues that make a session invalid, as <<place, id>>.
Validate(msgs) ==
  LET Look(st, i) ==
        LET open == Resolve(st.pending, msgs[i], i)
            late == Late(open, msgs[i], i)
        IN [pending |-> Dropped(open, late), errors |-> st.errors \cup Places(open, late)]
      end == FoldLeft(Look, [pending |-> NonePending, errors |-> {}], [i \in DOMAIN msgs |-> i])
  IN end.errors \cup Places(end.pending, Ids)

Valid(msgs) == Validate(msgs) = {}

\* To how many messages to rewind, 0 for no suggestion: up to the first broken one.
SuggestedRewindTo(msgs) ==
  LET places == { e[1] - 1 : e \in Validate(msgs) } \ {0}
  IN IF places = {} THEN 0 ELSE CHOOSE n \in places : \A k \in places : n <= k

\* The message and everything after it are cut off.
RewindAt(msgs, n) == SubSeq(msgs, 1, n)

-----------------------------------------------------------------------------
(* The filters of a restore.                                               *)

\* Mutation of FindOrphans: what is open when the conversation ends is not collected.
FindOrphansInside(msgs) ==
  LET Look(st, i) ==
        LET late == Late(st.pending, msgs[i], i)
        IN [pending |-> Resolve(Dropped(st.pending, late), msgs[i], i),
            errors |-> st.errors \cup Places(st.pending, late)]
  IN FoldLeft(Look, [pending |-> NonePending, errors |-> {}], [i \in DOMAIN msgs |-> i]).errors

\* findOrphansClean: looks for the late calls before it takes note of the message's.
FindOrphans(msgs) ==
  LET Look(st, i) ==
        LET late == Late(st.pending, msgs[i], i)
        IN [pending |-> Resolve(Dropped(st.pending, late), msgs[i], i),
            errors |-> st.errors \cup Places(st.pending, late)]
      end == FoldLeft(Look, [pending |-> NonePending, errors |-> {}], [i \in DOMAIN msgs |-> i])
  IN end.errors \cup Places(end.pending, Ids)

\* The calls of every orphan become calls that failed; what is only a content block
\* has no call to change, and content blocks stay.
FixOrphans(msgs) ==
  LET orphans == FindOrphans(msgs)
  IN [i \in DOMAIN msgs |->
        [msgs[i] EXCEPT !.calls = [id \in Ids |-> IF @[id] # "no" /\ <<i, id>> \in orphans
                                                 THEN "closed" ELSE @[id]]]]

StripEmpty(msgs) == SelectSeq(msgs, LAMBDA m : ~m.empty)

\* By index, which also stands for a role and for a pattern.
Exclude(msgs, indices) ==
  LET kept == SelectSeq([i \in DOMAIN msgs |-> i], LAMBDA i : i \notin indices)
  IN [k \in DOMAIN kept |-> msgs[kept[k]]]

\* The filters of the command line, in their order.
Restored(msgs, indices, fix, strip) ==
  LET rest == Exclude(msgs, indices)
      fixed == IF fix THEN FixOrphans(rest) ELSE rest
  IN IF strip THEN StripEmpty(fixed) ELSE fixed

-----------------------------------------------------------------------------
(* Properties.                                                             *)

ConvTypeOK == messages \in Seq(PossibleMessages) /\ Len(messages) <= MaxMessages

\* A restore with the orphan fixer leaves no orphan but those that their message names
\* in a content block, whatever messages are excluded before it and although empty ones
\* are removed after it.  So a conversation without tool_use blocks comes out valid; one
\* with them need not (orphan_tool_fixer.go: they "don't need separate fixing").
FixMends ==
  \A indices \in SUBSET DOMAIN messages, strip \in BOOLEAN :
    LET mended == Restored(messages, indices, TRUE, strip)
    IN \A e \in Validate(mended) : e[2] \in mended[e[1]].blocks

\* The fixer writes a failure into the calls that Validate complains of and into no
\* other (orphan_tool_fixer.go: "mirrors the logic in session.Validate()").
FixesOnlyOrphans == FindOrphans(messages) = Validate(messages)

\* validate.go: the suggestion is where a rewind "would fix ALL error-severity
\* issues. Zero means no rewind needed."
RewindMends ==
  IF SuggestedRewindTo(messages) = 0 THEN Valid(messages)
  ELSE Valid(RewindAt(messages, SuggestedRewindTo(messages)))
=============================================================================
