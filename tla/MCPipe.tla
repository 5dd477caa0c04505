------------------------------- MODULE MCPipe ------------------------------
(* The instance of Pipe for TLC: two readers and a writer, or a reader and   *)
(* two writers.  Readers are alike, and so are writers, but symmetry would   *)
(* not be sound for the liveness property.                                   *)
EXTENDS Pipe

CONSTANTS r1, r2, w1, w2
Ends == {{r1, r2, w1}, {r1, w1, w2}}
=============================================================================
