---------------------------- MODULE MCBufCache ----------------------------
(* Instances of BufCache for TLC. *)
EXTENDS BufCache, TLC

\* Processes are alike, and so are blocks: each holds a content of its own.
Symmetry == Permutations(Proc) \cup Permutations(Block)
=============================================================================
