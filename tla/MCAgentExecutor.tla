-------------------------- MODULE MCAgentExecutor --------------------------
(***************************************************************************)
(* AgentExecutor on every plan over a few task names: every dependency     *)
(* graph, unknown names and cycles included, is an initial state.          *)
(***************************************************************************)
EXTENDS AgentExecutor

CONSTANTS t1, t2, t3, t4
=============================================================================
