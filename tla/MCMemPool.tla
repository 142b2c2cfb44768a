------------------------------ MODULE MCMemPool ------------------------------
(***************************************************************************)
(* Pools small enough for chunks to fill up and be set aside, three at a   *)
(* time.                                                                   *)
(***************************************************************************)
EXTENDS MemPool

MCPoolSizes == 1 .. 2
MCRequests == 1 .. 3
\* What a plain call passes, and what the pool's operator new passes.
MCGrowSizes == {0, 1}
=============================================================================
