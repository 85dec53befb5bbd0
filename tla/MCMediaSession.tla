--------------------------- MODULE MCMediaSession ---------------------------
(***************************************************************************)
(* MediaSession with one input and one output: every set of hanging        *)
(* transports is an initial state.                                         *)
(***************************************************************************)
EXTENDS MediaSession, TLC

CONSTANTS in1, out1, p1, p2, a1, b1, b2
Symmetry == Permutations(BusWorkers) \union Permutations(Packets)
=============================================================================
