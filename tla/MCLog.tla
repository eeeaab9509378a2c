-------------------------------- MODULE MCLog --------------------------------
(***************************************************************************)
(* Log.tla for TLC.  Data is interchangeable, and so are the processes     *)
(* that play the same part.                                                *)
(***************************************************************************)
EXTENDS Log, TLC

Symmetry == Permutations(Data) \cup Permutations(Procs \ Syncers)
=============================================================================
