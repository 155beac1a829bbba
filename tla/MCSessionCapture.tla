-------------------------- MODULE MCSessionCapture --------------------------
(***************************************************************************)
(* SessionCapture for TLC without retention, in either of two setups: one  *)
(* capturer that reads what is new, or two that read the whole session,    *)
(* stamp last, for one instant less.  The capturers of the other setup are *)
(* at no statement, and stay there.                                        *)
(***************************************************************************)
EXTENDS SessionCapture

CONSTANTS c1, c2, c3

Two == {c1, c2}

Whole == INSTANCE SessionCapture WITH
           Capturers <- Two, Incremental <- FALSE, StampFirst <- FALSE, MaxTime <- MaxTime - 1

Beginning == INSTANCE SessionCapture WITH
               Capturers <- Two \cup {c3}, pc <- [c \in Two \cup {c3} |-> "idle"]

AnyInit ==
  /\ Beginning!Init
  /\ \E here \in {Two, {c3}} : pc = [c \in Two \cup {c3} |-> IF c \in here THEN "idle" ELSE "elsewhere"]

\* ReadStampLast is the same with either setup's constants, and named so that TLC counts it.
AnyNext ==
  \/ \E c \in Capturers : Capture(c)
  \/ \E c \in Two : Whole!Capture(c) \/ ReadStampLast(c)
  \/ pc[c3] # "elsewhere" /\ (AppendMessage \/ ReviseLast \/ Tick \/ Abort(c3) \/ ReadFails(c3) \/ Delete)
  \/ /\ pc[c3] = "elsewhere"
     /\ \/ Whole!AppendMessage \/ Whole!ReviseLast \/ Whole!Tick \/ Whole!Delete
        \/ \E c \in Two : Whole!Abort(c) \/ Whole!ReadFails(c)

AnySpec == AnyInit /\ [][AnyNext]_vars /\ Fairness /\ Whole!Fairness
=============================================================================
