-------------------------------- MODULE MCMlfq --------------------------------
(***************************************************************************)
(* Mlfq.tla for TLC.  The quanta of 4, 6 and 8 ticks become none, so that   *)
(* each turn ends a quantum, or one tick at every level.  CPUs are          *)
(* interchangeable, and so are all processes but initproc.                 *)
(***************************************************************************)
EXTENDS Mlfq, TLC

NoTick == [l \in 0..2 |-> 0]
OneTick == [l \in 0..2 |-> 1]
Symmetry == Permutations(CPUs) \cup Permutations(Procs \ {InitProc})
===============================================================================
