------------------------------- MODULE Replay -------------------------------
(***************************************************************************)
(* Replaying a session (internal/replay): its user messages are sent, one  *)
(* by one, to an agent in a worktree of its own, the conversation that     *)
(* comes of it is captured, linked to the original and compared with it.   *)
(* `aisync skills validate` improves a skill's file first                  *)
(* (internal/skillresolver) and looks whether the agent loads it now.      *)
(*                                                                         *)
(* External: the agents, which start a conversation for each message they  *)
(* are sent, and git.                                                      *)
(***************************************************************************)
EXTENDS Naturals, Integers, Sequences, FiniteSets, SequencesExt

CONSTANTS
  Replays,     \* processes that replay
  Validators,  \* those of them that run `skills validate`
  Library,     \* the originals: provider, project, said, figures
  Batches,     \* what the analyzer may propose: sequences of improvements
  Outcomes,    \* the figures a conversation may have
  Requests,    \* what is asked for: of, agent ("" for the original's), max (0 for no limit)
  MaxFaults    \* bound

Agents == {"opencode", "claude"}  \* the runners there are
Skill == "skill"
Nothing == <<>>

\* Each replay has a directory of its own, and none is where the originals were.
ReplayAssumption ==
  /\ Library \in Seq(Range(Library)) /\ \A id \in DOMAIN Library : Library[id].figures.tokens \in Nat
  /\ \A figures \in Outcomes : figures.tokens \in Nat /\ figures.errors \in Nat
  /\ "home" \notin Replays /\ Validators \subseteq Replays /\ MaxFaults \in Nat
  /\ \A q \in Requests : q.of \in DOMAIN Library /\ q.max \in Nat

VARIABLES
  kept,    \* the conversations that are in the store as sessions
  related, \* links between sessions
  talks,   \* the conversations the agents keep, the originals first, the newest last
  trees,   \* the directories of worktrees
  known,   \* the worktrees git has registered
  skill,   \* the skill's file
  at,      \* where each replay is; one is "stuck" that is over, its directory not removed
  work,    \* what each replay holds
  faults

replayVars == <<kept, related, talks, trees, known, skill, at, work, faults>>

NoWork ==
  [of |-> 0, max |-> 0, session |-> Nothing, agent |-> "", left |-> <<>>, sent |-> {}, batch |-> Nothing, file |-> Nothing,
   raced |-> FALSE, applied |-> 0, before |-> 0, talk |-> 0, verdict |-> "", error |-> ""]

-----------------------------------------------------------------------------
(* What is sent, and how two sessions compare.                             *)

\* What a user said that has a text, up to the limit.
extractUserMessages(said, max) ==
  LET texts == SelectSeq(said, LAMBDA m : m # "") IN
  IF max > 0 /\ max < Len(texts) THEN SubSeq(texts, 1, max) ELSE texts

NewSkillsLoaded(original, replay) == replay.skills \ original.skills
SkillsLost(original, replay)      == original.skills \ replay.skills

If(condition, points) == IF condition THEN points ELSE 0

\* Mutation of computeVerdict: errors count as much as the rest.
VerdictEven(original, replay) ==
  LET score ==
        If(replay.errors < original.errors, 1) - If(replay.errors > original.errors, 1)
        + If((original.tokens - replay.tokens) * 10 > original.tokens, 1)
        - If(original.tokens > 0 /\ (replay.tokens - original.tokens) * 10 > original.tokens, 1)
        + If(NewSkillsLoaded(original, replay) # {}, 1) - If(SkillsLost(original, replay) # {}, 1)
  IN CASE score > 0 -> "improved" [] score < 0 -> "degraded" [] OTHER -> "same"

\* More than a tenth of the tokens counts, if the original had any.
computeVerdict(original, replay) ==
  LET score ==
        If(replay.errors < original.errors, 2) - If(replay.errors > original.errors, 2)
        + If((original.tokens - replay.tokens) * 10 > original.tokens, 1)
        - If(original.tokens > 0 /\ (replay.tokens - original.tokens) * 10 > original.tokens, 1)
        + If(NewSkillsLoaded(original, replay) # {}, 1) - If(SkillsLost(original, replay) # {}, 1)
  IN CASE score > 0 -> "improved" [] score < 0 -> "degraded" [] OTHER -> "same"

-----------------------------------------------------------------------------
(* The skill's file: a description that may end with keywords, and a body. *)

\* A description or a content replaces what earlier improvements put there.
ApplyImprovement(file, kind) ==
  CASE kind = "description" -> [file EXCEPT !.text = "new", !.keywords = FALSE]
    [] kind = "keywords"    -> [file EXCEPT !.keywords = TRUE]
    [] kind = "pattern"     -> [file EXCEPT !.patterns = IF @ < 2 THEN @ + 1 ELSE @]
    [] kind = "content"     -> [file EXCEPT !.body = "new", !.patterns = 0]

\* Mutation of Applied: each improvement is made to the file as it was read.
AppliedApart(file, batch) == IF batch = <<>> THEN file ELSE ApplyImprovement(file, Last(batch))

Applied(file, batch) == FoldLeft(ApplyImprovement, file, batch)

\* All of a file's improvements count when one of them changed it.
CountApplied(file, batch) ==
  LET after(i) == Applied(file, SubSeq(batch, 1, i)) IN
  IF \E i \in DOMAIN batch : after(i) # after(i - 1) THEN Len(batch) ELSE 0

-----------------------------------------------------------------------------
(* Steps.                                                                  *)

Go(r, from, to) == at[r] = from /\ at' = [at EXCEPT ![r] = to]
Fault == faults < MaxFaults /\ faults' = faults + 1
Holds(r, new) == work' = [work EXCEPT ![r] = new]
Failed(r, why) == Holds(r, [work[r] EXCEPT !.error = why])

ReplayInit ==
  /\ kept = DOMAIN Library /\ related = {}
  /\ talks = [i \in DOMAIN Library |->
               [tree |-> "home", agent |-> Library[i].provider, figures |-> Library[i].figures]]
  /\ trees = {} /\ known = {}
  /\ skill = [text |-> "old", keywords |-> FALSE, body |-> "old", patterns |-> 0]
  /\ at = [r \in Replays |-> "new"] /\ work = [r \in Replays |-> NoWork]
  /\ faults = 0

\* The resolver has read the session, its latest analysis and the file, and the
\* analyzer has answered.
Resolve(r) ==
  /\ Go(r, "new", "read") /\ r \in Validators
  /\ \E q \in Requests, batch \in Batches :
       q.of \in kept /\ Holds(r, [NoWork EXCEPT !.of = q.of, !.agent = q.agent, !.batch = batch])
  /\ UNCHANGED <<kept, related, talks, trees, known, skill, faults>>

\* The file is read again, for the changes.
ReadSkillFile(r) ==
  /\ Go(r, "read", "write")
  /\ Holds(r, [work[r] EXCEPT !.file = <<skill>>, !.applied = CountApplied(skill, work[r].batch)])
  /\ UNCHANGED <<kept, related, talks, trees, known, skill, faults>>

\* Without a change, or when the file cannot be written, nothing is replayed.
WriteSkillFile(r) ==
  LET file == work[r].file[1] IN
  /\ at[r] = "write"
  /\ \/ /\ work[r].applied > 0
        /\ skill' = Applied(file, work[r].batch)
        /\ at' = [at EXCEPT ![r] = "load"]
        /\ work' = [q \in Replays |->
                      IF q = r THEN [work[r] EXCEPT !.before = Len(talks), !.raced = FALSE]
                      ELSE [work[q] EXCEPT !.raced = TRUE]]
        /\ UNCHANGED faults
     \/ /\ work[r].applied > 0 /\ Fault
        /\ at' = [at EXCEPT ![r] = "over"] /\ Holds(r, [work[r] EXCEPT !.applied = 0, !.verdict = "not_applied"])
        /\ UNCHANGED skill
     \/ /\ work[r].applied = 0
        /\ at' = [at EXCEPT ![r] = "over"] /\ Holds(r, [work[r] EXCEPT !.verdict = "not_applied"])
        /\ UNCHANGED <<skill, faults>>
  /\ UNCHANGED <<kept, related, talks, trees, known>>

\* A request without a fix.
Request(r) ==
  /\ Go(r, "new", "load") /\ r \notin Validators
  /\ \E q \in Requests : Holds(r, [NoWork EXCEPT !.of = q.of, !.agent = q.agent, !.max = q.max])
  /\ UNCHANGED <<kept, related, talks, trees, known, skill, faults>>

\* The provider is the original's if none is asked for.
Load(r) ==
  LET id == work[r].of
      original == Library[id]
      by    == IF work[r].agent = "" THEN original.provider ELSE work[r].agent
      texts == extractUserMessages(original.said, work[r].max)
  IN /\ IF id \in kept /\ by \in Agents /\ texts # <<>> /\ original.project = "repo"
        THEN /\ Go(r, "load", "add")
             /\ Holds(r, [work[r] EXCEPT !.session = <<original>>, !.agent = by, !.left = texts])
        ELSE Go(r, "load", "over") /\ Failed(r, "refused")
     /\ UNCHANGED <<kept, related, talks, trees, known, skill, faults>>

\* The directory of a worktree that cannot be added is removed again, if it can be.
CreateWorktree(r) ==
  \/ /\ Go(r, "add", "adding") /\ trees' = trees \cup {r}
     /\ UNCHANGED <<kept, related, talks, known, skill, work, faults>>
  \/ /\ Go(r, "adding", "run") /\ known' = known \cup {r}
     /\ UNCHANGED <<kept, related, talks, trees, skill, work, faults>>
  \/ /\ Fault /\ Failed(r, "worktree")
     /\ \/ Go(r, "adding", "over") /\ trees' = trees \ {r}
        \/ Go(r, "adding", "stuck") /\ UNCHANGED trees
     /\ UNCHANGED <<kept, related, talks, known, skill>>

\* A run that fails may have left a conversation, and the next message is sent anyway.
Run(r) ==
  /\ Go(r, "run", "run") /\ work[r].left # <<>>
  /\ \/ /\ \E figures \in Outcomes : talks' = Append(talks, [tree |-> r, agent |-> work[r].agent, figures |-> figures])
        /\ Holds(r, [work[r] EXCEPT !.left = Tail(@), !.sent = @ \cup {Len(talks')}])
        /\ UNCHANGED faults \/ Fault
     \/ /\ Fault /\ Holds(r, [work[r] EXCEPT !.left = Tail(@)])
        /\ UNCHANGED talks
  /\ UNCHANGED <<kept, related, trees, known, skill>>

\* Whoever asked has gone: between two messages, the replay ends.
Cancelled(r) ==
  /\ Go(r, "run", "remove") /\ work[r].left # <<>>
  /\ Fault /\ Failed(r, "cancelled")
  /\ UNCHANGED <<kept, related, talks, trees, known, skill>>

\* Mutation of Detect: the conversations of all worktrees.
DetectAnywhere(r) == {n \in DOMAIN talks : talks[n].agent = work[r].agent}

\* The conversations of the agent in the worktree.
Detect(r) == {n \in DOMAIN talks : talks[n].tree = r /\ talks[n].agent = work[r].agent}

\* The newest one is exported.
CaptureReplay(r) ==
  /\ at[r] = "run" /\ work[r].left = <<>>
  /\ \/ /\ Detect(r) # {}
        /\ Go(r, "run", "save")
        /\ Holds(r, [work[r] EXCEPT !.talk = CHOOSE n \in Detect(r) : \A m \in Detect(r) : m <= n])
        /\ UNCHANGED faults
     \/ Detect(r) = {} /\ Go(r, "run", "remove") /\ Failed(r, "not captured") /\ UNCHANGED faults
     \/ Fault /\ Go(r, "run", "remove") /\ Failed(r, "not captured")
  /\ UNCHANGED <<kept, related, talks, trees, known, skill>>

SaveReplay(r) ==
  \/ /\ Go(r, "save", "link") /\ kept' = kept \cup {work[r].talk}
     /\ UNCHANGED <<related, talks, trees, known, skill, work, faults>>
  \/ /\ Go(r, "save", "remove") /\ Fault /\ Holds(r, [work[r] EXCEPT !.talk = 0, !.error = "not captured"])
     /\ UNCHANGED <<kept, related, talks, trees, known, skill>>

\* Both sessions must be there; a link that cannot be made is only logged.
LinkReplay(r) ==
  LET id == work[r].of  talk == work[r].talk IN
  /\ Go(r, "link", "compare")
  /\ \/ /\ related' = related \cup (IF {id, talk} \subseteq kept
                                    THEN {<<talk, id, "replay_of">>, <<id, talk, "replay_of">>} ELSE {})
        /\ UNCHANGED faults
     \/ Fault /\ UNCHANGED related
  /\ UNCHANGED <<kept, talks, trees, known, skill, work>>

\* What was loaded is compared with what was captured.
Compare(r) ==
  LET w == work[r]  original == w.session[1].figures  replay == talks[w.talk].figures IN
  /\ Go(r, "compare", "remove")
  /\ Holds(r, [w EXCEPT !.verdict =
                 IF w.batch = Nothing THEN computeVerdict(original, replay)
                 ELSE IF Skill \in NewSkillsLoaded(original, replay) THEN "validated" ELSE "not_improved"])
  /\ UNCHANGED <<kept, related, talks, trees, known, skill, faults>>

\* Mutation of RemoveWorktree: only git is asked to.
RemoveByGit(r) ==
  /\ Go(r, "remove", "over")
  /\ \/ known' = known \ {r} /\ trees' = trees \ {r} /\ UNCHANGED faults
     \/ Fault /\ UNCHANGED <<known, trees>>
  /\ UNCHANGED <<kept, related, talks, skill, work>>

\* The directory goes, whether git can remove its entry or not, unless neither git nor
\* os.RemoveAll can remove it, which is only logged.
RemoveWorktree(r) ==
  /\ \/ Go(r, "remove", "over") /\ known' = known \ {r} /\ trees' = trees \ {r} /\ UNCHANGED faults
     \/ Go(r, "remove", "over") /\ Fault /\ trees' = trees \ {r} /\ UNCHANGED known
     \/ Go(r, "remove", "stuck") /\ Fault /\ known' \in {known, known \ {r}} /\ UNCHANGED trees
  /\ UNCHANGED <<kept, related, talks, skill, work>>

Die(r) ==
  /\ at[r] \notin {"new", "over", "stuck", "dead"} /\ Fault
  /\ at' = [at EXCEPT ![r] = "dead"]
  /\ UNCHANGED <<kept, related, talks, trees, known, skill, work>>

\* The links of a deleted session go with it.
Delete(id) ==
  /\ id \in kept /\ Fault
  /\ kept' = kept \ {id} /\ related' = {l \in related : id \notin {l[1], l[2]}}
  /\ UNCHANGED <<talks, trees, known, skill, at, work>>

ReplayNext ==
  \/ \E r \in Replays :
       \/ Resolve(r) \/ ReadSkillFile(r) \/ WriteSkillFile(r) \/ Request(r) \/ Load(r) \/ CreateWorktree(r)
       \/ Run(r) \/ Cancelled(r) \/ CaptureReplay(r) \/ SaveReplay(r) \/ LinkReplay(r) \/ Compare(r)
       \/ RemoveWorktree(r) \/ Die(r)
  \/ \E id \in kept : Delete(id)

ReplaySpec == ReplayInit /\ [][ReplayNext]_replayVars

-----------------------------------------------------------------------------
(* Properties.                                                             *)

ReplayTypeOK ==
  /\ trees \subseteq Replays /\ known \subseteq Replays /\ faults \in 0..MaxFaults
  /\ kept \subseteq DOMAIN talks
  /\ \A l \in related : l[1] \in kept /\ l[2] \in kept

\* A replay that is over has left no directory, in whichever way it ended, but one it
\* tried to remove and could not.
NoTreeLeft == \A r \in Replays : at[r] = "over" => r \notin trees

\* What a replay captures is what its own agent was last told that left anything,
\* whatever is replayed beside it.
CapturesItsOwn ==
  \A r \in Replays :
    work[r].talk # 0 => work[r].talk \in work[r].sent /\ \A n \in work[r].sent : n <= work[r].talk

\* A replay is linked with its original both ways or not at all, and never with another.
LinkedBothWays ==
  \A l \in related :
    /\ <<l[2], l[1], l[3]>> \in related
    /\ \E r \in Replays : {work[r].of, work[r].talk} = {l[1], l[2]}

\* More errors never count as better nor fewer as worse, whatever else has changed, and
\* a session compared with its like is the same.
VerdictFollowsErrors ==
  \A a, b \in Outcomes :
    /\ computeVerdict(a, b) = "improved" => b.errors <= a.errors
    /\ computeVerdict(a, b) = "degraded" => b.errors >= a.errors
    /\ computeVerdict(a, a) = "same"

\* A file has, right after it was written, each improvement that no later one of the
\* same proposal replaces, unless another process has written it since.
FixIsThere ==
  \A r \in Replays :
    LET batch == work[r].batch
        replaced(i, by) == \E j \in i + 1 .. Len(batch) : batch[j] = by
    IN at[r] = "load" /\ batch # Nothing /\ ~work[r].raced =>
         \A i \in DOMAIN batch :
           CASE batch[i] = "description" -> skill.text = "new"
             [] batch[i] = "keywords"    -> skill.keywords \/ replaced(i, "description")
             [] batch[i] = "pattern"     -> skill.patterns > 0 \/ replaced(i, "content")
             [] batch[i] = "content"     -> skill.body = "new"

\* A skill is called validated only by a conversation that began after it was written.
ValidatedAfterFix ==
  \A r \in Replays : work[r].verdict = "validated" => work[r].applied > 0 /\ work[r].talk > work[r].before

\* A replay cleans up after itself, keeps to itself, and tells the truth
\* (internal/replay, internal/skillresolver).
ReplaysRight ==
  /\ NoTreeLeft /\ CapturesItsOwn /\ LinkedBothWays /\ VerdictFollowsErrors
  /\ FixIsThere /\ ValidatedAfterFix
=============================================================================
