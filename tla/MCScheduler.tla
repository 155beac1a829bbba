----------------------------- MODULE MCScheduler -----------------------------
(***************************************************************************)
(* Scheduler for TLC: two tasks, up to two goroutines of cron.             *)
(***************************************************************************)
EXTENDS Scheduler

CONSTANTS t1, t2, r1, r2, warm

WarmBoth == <<t1, t2>>
WarmNone == << >>
=============================================================================
