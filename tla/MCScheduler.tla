---------------------------- MODULE MCScheduler ----------------------------
(***************************************************************************)
(* Scheduler with three tasks.  They differ by their priority only and may *)
(* be submitted in any order, so up to renaming these are all the rankings *)
(* of three tasks with two priorities.                                     *)
(***************************************************************************)
EXTENDS Scheduler

CONSTANTS t1, t2, t3, w1, w2

Ranked(urgent) == [t \in {t1, t2, t3} |-> IF t \in urgent THEN 100 ELSE 10]
MCRankings == {Ranked({}), Ranked({t1}), Ranked({t1, t2})}
PairRankings == {[t \in {t1, t2} |-> 10]}
=============================================================================
