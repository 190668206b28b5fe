-------------------------------- MODULE Pipe --------------------------------
(***************************************************************************)
(* A pipe of xv6 (kernel/pipe.c) shared by several processes, from         *)
(* pipealloc() to the kfree() in pipeclose(), with the reference counts    *)
(* that fork() and fileclose() keep on its two ends.                       *)
(*                                                                         *)
(* pi->lock is a variable; with it held a step is one turn of a loop, so   *)
(* that a kill() or a page fault can come between any two bytes.           *)
(***************************************************************************)
EXTENDS Integers, FiniteSets

CONSTANTS Proc,      \* the processes
          creator,   \* the process that calls pipe()
          None,      \* the lock is free
          Byte,      \* values of a byte
          PIPESIZE,  \* bytes in pi->data
          UINT,      \* nread and nwrite are counted modulo this (2^32)
          MaxN,      \* bound: the longest read or write that is explored
          Victims    \* the processes that kill() is called on

\* nwrite++ % PIPESIZE stays in step over the wrap of an unsigned int.
ASSUME PipeAssumption ==
  /\ creator \in Proc
  /\ None \notin Proc
  /\ PIPESIZE \in Nat \ {0}
  /\ UINT \in Nat /\ UINT > PIPESIZE /\ UINT % PIPESIZE = 0
  /\ MaxN \in Nat
  /\ Victims \subseteq Proc

VARIABLES
  data, nread, nwrite, readopen, writeopen,  \* struct pipe
  lock,    \* the holder of pi->lock, or None
  freed,   \* times the page of the pipe was given to kfree()
  wfd, rfd,  \* processes with an open descriptor of the write, the read end
  pc,        \* where a process is
  left,      \* n - i: the turns its loop still has to make
  killed

ring == <<data, nread, nwrite>>
ends == <<readopen, writeopen>>
fds == <<wfd, rfd>>
vars == <<ring, ends, lock, freed, fds, pc, left, killed>>

\* "none": not yet forked; "wacq", "racq": about to acquire pi->lock in
\* pipewrite() and piperead(); "wsleep", "rsleep": asleep there.
PCs == {"none", "idle", "wacq", "write", "wfull", "wsleep", "racq", "wait",
        "rempty", "rsleep", "read", "read_end", "wclose", "rclose"}

TypeOK ==
  /\ data \in [0..PIPESIZE - 1 -> Byte]
  /\ nread \in 0..UINT - 1
  /\ nwrite \in 0..UINT - 1
  /\ readopen \in BOOLEAN
  /\ writeopen \in BOOLEAN
  /\ lock \in Proc \cup {None}
  /\ freed \in Nat
  /\ wfd \subseteq Proc
  /\ rfd \subseteq Proc
  /\ pc \in [Proc -> PCs]
  /\ left \in [Proc -> 0..MaxN]
  /\ killed \in [Proc -> BOOLEAN]

\* pipealloc() has returned; kalloc() leaves the data undefined.
Init ==
  /\ \E b \in Byte : data = [k \in 0..PIPESIZE - 1 |-> b]
  /\ nread = 0
  /\ nwrite = 0
  /\ readopen = TRUE
  /\ writeopen = TRUE
  /\ lock = None
  /\ freed = 0
  /\ wfd = {creator}
  /\ rfd = {creator}
  /\ pc = [p \in Proc |-> IF p = creator THEN "idle" ELSE "none"]
  /\ left = [p \in Proc |-> 0]
  /\ killed = [p \in Proc |-> FALSE]

-----------------------------------------------------------------------------

Empty == nread = nwrite

\* Mutant: one byte too many fits.
Full_Off == nwrite = (nread + PIPESIZE + 1) % UINT

Full == nwrite = (nread + PIPESIZE) % UINT

\* wakeup(): every process at label l goes to m; p itself goes to s.
WakeupAnd(l, m, p, s) ==
  [q \in Proc |-> IF q = p THEN s ELSE IF pc[q] = l THEN m ELSE pc[q]]

\* Mutant: a wakeup is forgotten.
WakeWritersAnd_None(p, s) == [pc EXCEPT ![p] = s]

WakeReadersAnd(p, s) == WakeupAnd("rsleep", "racq", p, s)
WakeWritersAnd(p, s) == WakeupAnd("wsleep", "wacq", p, s)

\* Process p runs at label l with pi->lock held.
In(p, l) == lock = p /\ pc[p] = l

\* acquire(&pi->lock), on entry and at the end of sleep().
acquire(p, l, m) ==
  /\ pc[p] = l
  /\ lock = None
  /\ lock' = p
  /\ pc' = [pc EXCEPT ![p] = m]
  /\ UNCHANGED <<ring, ends, freed, fds, left, killed>>

-----------------------------------------------------------------------------
(* pipewrite                                                               *)

pipewrite(p, len) ==
  /\ pc[p] = "idle" /\ ~killed[p] /\ p \in wfd
  /\ pc' = [pc EXCEPT ![p] = "wacq"]
  /\ left' = [left EXCEPT ![p] = len]
  /\ UNCHANGED <<ring, ends, lock, freed, fds, killed>>

pipewrite_acquire(p) == acquire(p, "wacq", "write")

\* Nobody can read, or the writer is killed: return -1, and wake nobody.
pipewrite_fail(p) ==
  /\ In(p, "write")
  /\ left[p] > 0
  /\ ~readopen \/ killed[p]
  /\ lock' = None
  /\ pc' = [pc EXCEPT ![p] = "idle"]
  /\ left' = [left EXCEPT ![p] = 0]
  /\ UNCHANGED <<ring, ends, freed, fds, killed>>

pipewrite_full(p) ==
  /\ In(p, "write")
  /\ left[p] > 0
  /\ readopen /\ ~killed[p]
  /\ Full
  /\ pc' = WakeReadersAnd(p, "wfull")
  /\ UNCHANGED <<ring, ends, lock, freed, fds, left, killed>>

\* sleep() of a writer at "wfull" and of a reader at "rempty".  A kill() that comes
\* after the test of p->killed and before this step does not wake the victim.
sleep(p, l, m) ==
  /\ In(p, l)
  /\ lock' = None
  /\ pc' = [pc EXCEPT ![p] = m]
  /\ UNCHANGED <<ring, ends, freed, fds, left, killed>>

pipewrite_sleep(p) == sleep(p, "wfull", "wsleep")

pipewrite_byte(p, ch) ==
  /\ In(p, "write")
  /\ left[p] > 0
  /\ readopen /\ ~killed[p]
  /\ ~Full
  /\ data' = [data EXCEPT ![nwrite % PIPESIZE] = ch]
  /\ nwrite' = (nwrite + 1) % UINT
  /\ left' = [left EXCEPT ![p] = @ - 1]
  /\ UNCHANGED <<nread, ends, lock, freed, fds, pc, killed>>

\* Mutant: the readers are not woken when the loop is done.
pipewrite_done_Silent(p) ==
  /\ In(p, "write")
  /\ left[p] = 0 \/ (readopen /\ ~killed[p] /\ ~Full)
  /\ lock' = None
  /\ pc' = [pc EXCEPT ![p] = "idle"]
  /\ left' = [left EXCEPT ![p] = 0]
  /\ UNCHANGED <<ring, ends, freed, fds, killed>>

\* The loop ends, or copyin() fails and breaks it.
pipewrite_done(p) ==
  /\ In(p, "write")
  /\ left[p] = 0 \/ (readopen /\ ~killed[p] /\ ~Full)
  /\ lock' = None
  /\ pc' = WakeReadersAnd(p, "idle")
  /\ left' = [left EXCEPT ![p] = 0]
  /\ UNCHANGED <<ring, ends, freed, fds, killed>>

-----------------------------------------------------------------------------
(* piperead                                                                *)

piperead(p, len) ==
  /\ pc[p] = "idle" /\ ~killed[p] /\ p \in rfd
  /\ pc' = [pc EXCEPT ![p] = "racq"]
  /\ left' = [left EXCEPT ![p] = len]
  /\ UNCHANGED <<ring, ends, lock, freed, fds, killed>>

piperead_acquire(p) == acquire(p, "racq", "wait")

\* The test of the first loop.
piperead_wait(p) ==
  /\ In(p, "wait")
  /\ ~(Empty /\ writeopen /\ killed[p])
  /\ pc' = [pc EXCEPT ![p] = IF Empty /\ writeopen THEN "rempty" ELSE "read"]
  /\ UNCHANGED <<ring, ends, lock, freed, fds, left, killed>>

piperead_killed(p) ==
  /\ In(p, "wait")
  /\ Empty /\ writeopen /\ killed[p]
  /\ lock' = None
  /\ pc' = [pc EXCEPT ![p] = "idle"]
  /\ left' = [left EXCEPT ![p] = 0]
  /\ UNCHANGED <<ring, ends, freed, fds, killed>>

piperead_sleep(p) == sleep(p, "rempty", "rsleep")

\* One byte.  If copyout() fails the byte is gone and the loop ends.
piperead_byte(p) ==
  /\ In(p, "read")
  /\ left[p] > 0
  /\ ~Empty
  /\ nread' = (nread + 1) % UINT
  /\ \/ left' = [left EXCEPT ![p] = @ - 1] /\ UNCHANGED pc
     \/ pc' = [pc EXCEPT ![p] = "read_end"] /\ UNCHANGED left
  /\ UNCHANGED <<data, nwrite, ends, lock, freed, fds, killed>>

piperead_done(p) ==
  /\ In(p, "read") \/ In(p, "read_end")
  /\ left[p] = 0 \/ Empty \/ pc[p] = "read_end"
  /\ lock' = None
  /\ pc' = WakeWritersAnd(p, "idle")
  /\ left' = [left EXCEPT ![p] = 0]
  /\ UNCHANGED <<ring, ends, freed, fds, killed>>

-----------------------------------------------------------------------------
(* Descriptors: fork(), close() and the closing of files in exit().        *)

fork(p, q) ==
  /\ pc[p] = "idle" /\ ~killed[p]
  /\ pc[q] = "none"
  /\ pc' = [pc EXCEPT ![q] = "idle"]
  /\ wfd' = IF p \in wfd THEN wfd \cup {q} ELSE wfd
  /\ rfd' = IF p \in rfd THEN rfd \cup {q} ELSE rfd
  /\ UNCHANGED <<ring, ends, lock, freed, left, killed>>

\* Mutant: fileclose() does not count the other references.
close_write_Any(p) ==
  /\ pc[p] = "idle" /\ p \in wfd
  /\ wfd' = wfd \ {p}
  /\ pc' = [pc EXCEPT ![p] = "wclose"]
  /\ UNCHANGED <<ring, ends, lock, freed, rfd, left, killed>>

\* fileclose(): the last reference goes on to pipeclose().
close_write(p) ==
  /\ pc[p] = "idle" /\ p \in wfd
  /\ wfd' = wfd \ {p}
  /\ pc' = IF wfd = {p} THEN [pc EXCEPT ![p] = "wclose"] ELSE pc
  /\ UNCHANGED <<ring, ends, lock, freed, rfd, left, killed>>

close_read(p) ==
  /\ pc[p] = "idle" /\ p \in rfd
  /\ rfd' = rfd \ {p}
  /\ pc' = IF rfd = {p} THEN [pc EXCEPT ![p] = "rclose"] ELSE pc
  /\ UNCHANGED <<ring, ends, lock, freed, wfd, left, killed>>

pipeclose(p) ==
  /\ pc[p] \in {"wclose", "rclose"}
  /\ lock = None
  /\ IF pc[p] = "wclose"
     THEN /\ writeopen' = FALSE
          /\ pc' = WakeReadersAnd(p, "idle")
          /\ UNCHANGED readopen
     ELSE /\ readopen' = FALSE
          /\ pc' = WakeWritersAnd(p, "idle")
          /\ UNCHANGED writeopen
  /\ freed' = IF ~readopen' /\ ~writeopen' THEN freed + 1 ELSE freed
  /\ UNCHANGED <<ring, lock, fds, left, killed>>

\* kill() wakes a sleeper; the victim makes no further calls and exit() closes
\* its descriptors.
kill(p) ==
  /\ p \in Victims
  /\ pc[p] # "none" /\ ~killed[p]
  /\ killed' = [killed EXCEPT ![p] = TRUE]
  /\ pc' = [pc EXCEPT ![p] = CASE @ = "wsleep" -> "wacq"
                               [] @ = "rsleep" -> "racq"
                               [] OTHER -> @]
  /\ UNCHANGED <<ring, ends, lock, freed, fds, left>>

-----------------------------------------------------------------------------

\* What a process does next once it is in the pipe code.
Busy(p) ==
  \/ pipewrite_acquire(p) \/ pipewrite_fail(p) \/ pipewrite_full(p)
  \/ pipewrite_sleep(p) \/ pipewrite_done(p)
  \/ \E ch \in Byte : pipewrite_byte(p, ch)
  \/ piperead_acquire(p) \/ piperead_wait(p) \/ piperead_killed(p)
  \/ piperead_sleep(p) \/ piperead_byte(p) \/ piperead_done(p)
  \/ pipeclose(p)

Next ==
  \E p \in Proc :
    \/ Busy(p)
    \/ \E len \in 0..MaxN : pipewrite(p, len) \/ piperead(p, len)
    \/ \E q \in Proc : fork(p, q)
    \/ close_write(p) \/ close_read(p) \/ kill(p)

Spec == Init /\ [][Next]_vars

\* A process inside the pipe code goes on, and no one is kept from pi->lock for
\* ever.  No process has to start a read, a write or a close.
FairSpec ==
  /\ Spec
  /\ \A p \in Proc : SF_vars(Busy(p))

-----------------------------------------------------------------------------
(* Properties.                                                             *)

Count == (nwrite + UINT - nread) % UINT

S == INSTANCE ByteStream WITH
       queue    <- [k \in 1..Count |-> data[(nread + k - 1) % PIPESIZE]],
       wopen    <- writeopen,
       ropen    <- readopen,
       Capacity <- PIPESIZE

\* The ring buffer behaves as a bounded first-in first-out queue, over any
\* interleaving of readers and writers and over the wrap of the counters
\* (pipe.c pipewrite, piperead).
ImplementsByteStream == S!Spec

\* Whenever the lock is free, a reader asleep and a writer asleep still have the
\* reason they went to sleep for: the pipe is empty, or full, and its other end open.
\* No wakeup of pipewrite(), piperead() or pipeclose() is lost, except that a killed
\* writer may leave bytes and a sleeping reader behind (pipe.c).
NoLostWakeup ==
  lock = None =>
    \A p \in Proc :
      /\ pc[p] = "rsleep" => writeopen /\ (Empty \/ \E q \in Proc : killed[q])
      /\ pc[p] = "wsleep" => Full /\ readopen

\* The page of the pipe is freed once, by the second pipeclose(), and not while a
\* process is in pipe code or still can enter it (fileclose's reference counts
\* against the two flags of struct pipe).
NoUseAfterFree ==
  /\ freed <= 1
  /\ freed = 1 => /\ wfd = {} /\ rfd = {}
                  /\ \A p \in Proc : pc[p] \in {"none", "idle"}

\* When the last read end is closed a blocked writer returns from pipewrite(), and
\* when the last write end is closed every reader gets its end of file.
ClosedReleases ==
  \A p \in Proc :
    /\ (pc[p] = "wsleep" /\ ~readopen) ~> pc[p] = "idle"
    /\ (pc[p] \in {"racq", "rsleep"} /\ ~writeopen) ~> pc[p] = "idle"
=============================================================================
