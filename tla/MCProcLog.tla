----------------------------- MODULE MCProcLog ------------------------------
(* The process table and the log under one specification.  They share no state, so
   one of them works while the other one rests: which one is chosen at the start. *)
EXTENDS Log, Proc, TLC

VARIABLE part

\* Where the log rests its disk is blank.
Blank == \A b \in Block, i \in 1..LOGSIZE :
           home[b] = (CHOOSE v \in Val : TRUE) /\ dlog[i] = home[b]

PartInit ==
  /\ part \in {"processes", "log"}
  /\ Init /\ ProcInit
  /\ part = "processes" => Blank

PartNext ==
  \/ part = "processes" /\ ProcNext /\ UNCHANGED <<part, vars>>
  \/ part = "log" /\ Next /\ UNCHANGED <<part, procvars>>

PartSpec == PartInit /\ [][PartNext]_<<part, vars, procvars>>

\* CPUs are interchangeable, and so are the processes that use the log.
Symmetry == Permutations(CPU) \cup Permutations(Proc)
=============================================================================
