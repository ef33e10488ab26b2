----------------------------- MODULE MCProcesses -----------------------------
(***************************************************************************)
(* Processes for TLC: a few services, interchangeable.                     *)
(***************************************************************************)
EXTENDS Processes, TLC

Symmetry == Permutations(Process)
=============================================================================
