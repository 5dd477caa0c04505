------------------------------ MODULE MCCowMem ------------------------------
(* Instances of CowMem for TLC. *)
EXTENDS CowMem, TLC

\* All processes but the first are alike.
Symmetry == Permutations(Proc \ {FirstProc})
=============================================================================
