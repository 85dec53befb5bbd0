----------------------------- MODULE MCTaskPool -----------------------------
(***************************************************************************)
(* TaskPool with two tasks, two workers and a channel of one slot: enough  *)
(* for a blocked sender, two busy workers and a task overtaken by Wait.    *)
(***************************************************************************)
EXTENDS TaskPool

CONSTANTS t1, t2, w1, w2
=============================================================================
