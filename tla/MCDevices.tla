----------------------------- MODULE MCDevices ------------------------------
(* The two device drivers under one specification, the disk with two sizes of its
   cache.  They share no state, so one of them works while the other one rests:
   which one is chosen at the start.                                          *)
EXTENDS Console, Disk, TLC

CONSTANTS c1, c2, p1, p2, q2, p3, k1, k2, k3

VARIABLE side

Load(r, w, k, n) == [read |-> r, write |-> w, kill |-> k, keys |-> n]

\* A reader that is killed, a reader and a long line, two writers and a key, a
\* reader and a writer.
MCLoads == {Load({c1}, {}, {c1}, 2), Load({c1}, {}, {}, 4), Load({}, {c1, c2}, {}, 1), Load({c1}, {c2}, {}, 1)}

\* As many buffers as blocks but descriptors for one request, so that two processes
\* wait for descriptors: p1 writes one block and pins another, p2 writes the pinned
\* one back, p3 reads.
MCJobs ==
  p1 :> {<<k1, "write">>, <<k2, "pin">>} @@ p2 :> {<<k2, "flush">>} @@ p3 :> {<<k3, "read">>} @@ q2 :> {}
MCOther == [p \in DProc |-> "none"]

\* Descriptors for two requests but two buffers for three blocks, so that buffers are
\* recycled and may run out: p3 reads what p1 wrote, and the committer writes the
\* pinned block back (p2) while it has a block of the log (q2).
Small == INSTANCE Disk WITH
  NBUF <- 2, NUM <- 7, MaxGets <- 4, Second <- {p2},
  Other <- p1 :> "none" @@ p3 :> "none" @@ p2 :> q2 @@ q2 :> p2,
  Jobs <- p1 :> {<<k1, "write">>, <<k2, "pin">>} @@ p3 :> {<<k1, "read">>} @@
          p2 :> {<<k2, "flush">>} @@ q2 :> {<<k3, "read">>}

Init ==
  /\ ConsInit
  /\ \/ side = "uart" /\ DiskInit
     \/ side = "disk" /\ DiskInit
     \/ side = "small" /\ Small!DiskInit
  /\ side # "uart" => todo = Load({c1}, {}, {}, 4)

Next ==
  \/ side = "uart" /\ ConsNext /\ UNCHANGED <<side, diskvars>>
  \/ side = "disk" /\ DiskNext /\ UNCHANGED <<side, consvars>>
  \/ side = "small" /\ Small!DiskNext /\ UNCHANGED <<side, consvars>>

\* The fairness of ConsSpec and of DiskSpec; what a process does next depends on the
\* number of buffers, what the device and its interrupt handler do does not.
Fairness ==
  /\ ConsFair
  /\ \A p \in DProc : WF_diskvars((side = "disk" /\ DiskStep(p)) \/ (side = "small" /\ Small!DiskStep(p)))
  /\ WF_diskvars(Device)
  /\ WF_diskvars(Handler)

Spec == Init /\ [][Next]_<<side, consvars, diskvars>> /\ Fairness
=============================================================================
