----------------------------- MODULE AtomicDisk -----------------------------
(***************************************************************************)
(* What the xv6 log promises to the file system: operations run between    *)
(* begin and end, see each other's writes at once, and reach the disk in   *)
(* groups, each group as one indivisible step taken while no operation is  *)
(* running.  A crash throws away exactly what was written since the last   *)
(* such step.  Module Log is shown to implement this specification.        *)
(***************************************************************************)
CONSTANTS Proc,   \* processes that may run a file-system operation
          Block,  \* home block numbers
          Val     \* block contents

VARIABLES active,   \* the processes inside an operation
          current,  \* what a reader of the disk sees now
          durable   \* what a reader would see after a crash now

avars == <<active, current, durable>>

Init ==
  /\ active = {}
  /\ current \in [Block -> Val]
  /\ durable = current

Begin(p) ==
  /\ p \notin active
  /\ active' = active \cup {p}
  /\ UNCHANGED <<current, durable>>

Write(p, b, v) ==
  /\ p \in active
  /\ current' = [current EXCEPT ![b] = v]
  /\ UNCHANGED <<active, durable>>

End(p) ==
  /\ p \in active
  /\ active' = active \ {p}
  /\ UNCHANGED <<current, durable>>

Commit ==
  /\ active = {}
  /\ durable' = current
  /\ UNCHANGED <<active, current>>

Crash ==
  /\ active' = {}
  /\ current' = durable
  /\ UNCHANGED durable

Next ==
  \/ \E p \in Proc : Begin(p) \/ End(p)
  \/ \E p \in Proc, b \in Block, v \in Val : Write(p, b, v)
  \/ Commit
  \/ Crash

Spec == Init /\ [][Next]_avars
=============================================================================
