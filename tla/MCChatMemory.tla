---------------------------- MODULE MCChatMemory ----------------------------
(***************************************************************************)
(* ChatMemory on small instances; turns are interchangeable.               *)
(***************************************************************************)
EXTENDS ChatMemory

CONSTANTS q1, q2, q3, q4
Symmetry == Permutations(Turns)
=============================================================================
