------------------------------- MODULE MCLog -------------------------------
(* Small instances of Log for TLC.                                         *)
EXTENDS Log, TLC

\* Processes, blocks and contents are interchangeable.
Symmetry == Permutations(Proc) \cup Permutations(Block) \cup Permutations(Val)

\* No operation that keeps to MAXOPBLOCKS blocks makes the kernel panic:
\* begin_op waits as long as "this op might exhaust log space".
NoPanic == ~panicked
=============================================================================
