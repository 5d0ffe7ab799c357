---------------------------- MODULE MCExecution ----------------------------
(***************************************************************************)
(* Execution for TLC. Windows are interchangeable.                         *)
(***************************************************************************)
EXTENDS Execution

Symmetry == Permutations(Windows)
=============================================================================
