------------------------------- MODULE MCPipe -------------------------------
(* Small instances of Pipe for TLC.                                        *)
EXTENDS Pipe, TLC

\* Byte values are interchangeable, and so are the processes forked later.
Symmetry == Permutations(Byte) \cup Permutations(Proc \ {creator})
=============================================================================
