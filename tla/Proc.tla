-------------------------------- MODULE Proc --------------------------------
(***************************************************************************)
(* The life of a process in xv6 (kernel/proc.c): fork, exit, wait, kill,   *)
(* yield, sleep and wakeup, and the switching between a process and the    *)
(* scheduler of the CPU it runs on.                                        *)
(*                                                                         *)
(* A step is one critical section of a p->lock.  Two locks outlive a step  *)
(* and are modelled: wait_lock, and the p->lock that is taken before a     *)
(* swtch and released on the other side of it.                             *)
(***************************************************************************)
EXTENDS Integers, FiniteSets

CONSTANTS NPROC,    \* number of slots in the process table
          CPU,      \* the CPUs
          None,     \* a null pointer
          KillArgs, \* the pids that processes pass to kill()
          MaxPid    \* bound: fork() is not explored past this pid

ASSUME ProcAssumption ==
  /\ NPROC \in Nat \ {0}
  /\ None \notin 1..NPROC
  /\ KillArgs \subseteq Nat
  /\ MaxPid \in Nat \ {0}

Slot == 1..NPROC
initproc == 1

VARIABLES
  state, parent, killed, pid, chan,  \* fields of struct proc
  plock,      \* p->lock is held across a swtch
  wait_lock,  \* the process that holds wait_lock, or None
  nextpid,
  cpu,        \* c->proc: whose kernel stack a CPU runs on, or None
  kpc,         \* where the process is in the kernel
  ret,        \* where it goes on after its next swtch
  child,      \* np, while the process is in fork()
  signalled,  \* whom kill() and faults marked: slots, with the pid they had then
  stopped    \* "init exiting"

fields == <<state, parent, killed, pid, chan>>
procvars == <<fields, plock, wait_lock, nextpid, cpu, kpc, ret, child, signalled,
              stopped>>

States == {"UNUSED", "USED", "SLEEPING", "RUNNABLE", "RUNNING", "ZOMBIE"}
PCs == {"user", "trap", "fork_parent", "fork_run", "exit", "exit_reparent",
        "exit_wakeup", "exit_zombie", "wait", "wait_scan", "wait_sleep",
        "swtch", "resume", "none"}

\* In the kernel with no lock held and interrupts on: a timer interrupt is taken.
Preemptible == {"trap", "fork_parent", "fork_run", "exit", "wait"}

ProcTypeOK ==
  /\ state \in [Slot -> States]
  /\ parent \in [Slot -> Slot \cup {None}]
  /\ killed \in [Slot -> BOOLEAN]
  /\ pid \in [Slot -> Nat]
  /\ chan \in [Slot -> Slot \cup {None}]
  /\ plock \in [Slot -> BOOLEAN]
  /\ wait_lock \in Slot \cup {None}
  /\ nextpid \in Nat
  /\ cpu \in [CPU -> Slot \cup {None}]
  /\ kpc \in [Slot -> PCs]
  /\ ret \in [Slot -> {"user", "none"} \cup Preemptible]
  /\ child \in [Slot -> Slot \cup {None}]
  /\ signalled \subseteq Slot \X Nat
  /\ stopped \in BOOLEAN

\* userinit() has run: the first process waits for a CPU.
ProcInit ==
  /\ state = [s \in Slot |-> IF s = initproc THEN "RUNNABLE" ELSE "UNUSED"]
  /\ parent = [s \in Slot |-> None]
  /\ killed = [s \in Slot |-> FALSE]
  /\ pid = [s \in Slot |-> IF s = initproc THEN 1 ELSE 0]
  /\ chan = [s \in Slot |-> None]
  /\ plock = [s \in Slot |-> FALSE]
  /\ wait_lock = None
  /\ nextpid = 2
  /\ cpu = [c \in CPU |-> None]
  /\ kpc = [s \in Slot |-> IF s = initproc THEN "resume" ELSE "none"]
  /\ ret = [s \in Slot |-> IF s = initproc THEN "user" ELSE "none"]
  /\ child = [s \in Slot |-> None]
  /\ signalled = {}
  /\ stopped = FALSE

-----------------------------------------------------------------------------
(* The scheduler and the two sides of swtch.                               *)

OnCPU(s) == \E c \in CPU : cpu[c] = s

\* Process s executes kernel code at label l.
At(s, l) == OnCPU(s) /\ kpc[s] = l /\ ~stopped

\* scheduler(): take p->lock, mark p RUNNING and switch to its stack.
scheduler(c, s) ==
  /\ cpu[c] = None
  /\ state[s] = "RUNNABLE"
  /\ ~plock[s]
  /\ state' = [state EXCEPT ![s] = "RUNNING"]
  /\ plock' = [plock EXCEPT ![s] = TRUE]
  /\ cpu' = [cpu EXCEPT ![c] = s]
  /\ UNCHANGED <<parent, killed, pid, chan, wait_lock, nextpid, kpc, ret, child,
                 signalled, stopped>>

\* The process comes out of swtch and releases its lock: forkret(), the end of
\* yield(), or the end of sleep(), which also clears p->chan.
resume(s) ==
  /\ At(s, "resume")
  /\ plock' = [plock EXCEPT ![s] = FALSE]
  /\ chan' = [chan EXCEPT ![s] = None]
  /\ kpc' = [kpc EXCEPT ![s] = ret[s]]
  /\ UNCHANGED <<state, parent, killed, pid, wait_lock, nextpid, cpu, ret, child,
                 signalled, stopped>>

\* sched(): the CPU leaves the process's stack; its scheduler sets c->proc = 0
\* and releases the lock.
sched(c, s) ==
  /\ cpu[c] = s
  /\ kpc[s] = "swtch"
  /\ cpu' = [cpu EXCEPT ![c] = None]
  /\ plock' = [plock EXCEPT ![s] = FALSE]
  /\ kpc' = [kpc EXCEPT ![s] = IF state[s] = "ZOMBIE" THEN "none" ELSE "resume"]
  /\ UNCHANGED <<fields, wait_lock, nextpid, ret, child, signalled, stopped>>

\* Mutant: p->lock is not held across swtch.
GoTo_Unlocked(s, st, r) ==
  /\ ~plock[s]
  /\ state' = [state EXCEPT ![s] = st]
  /\ kpc' = [kpc EXCEPT ![s] = "swtch"]
  /\ ret' = [ret EXCEPT ![s] = r]
  /\ UNCHANGED plock

\* The process takes its own lock, changes its state and calls sched().
GoTo(s, st, r) ==
  /\ ~plock[s]
  /\ state' = [state EXCEPT ![s] = st]
  /\ plock' = [plock EXCEPT ![s] = TRUE]
  /\ kpc' = [kpc EXCEPT ![s] = "swtch"]
  /\ ret' = [ret EXCEPT ![s] = r]

\* usertrap(): a system call or an interrupt enters the kernel, and finds that
\* the process is not killed.  kill() may come between this test and the call.
usertrap(s) ==
  /\ At(s, "user")
  /\ ~killed[s]
  /\ kpc' = [kpc EXCEPT ![s] = "trap"]
  /\ UNCHANGED <<fields, plock, wait_lock, nextpid, cpu, ret, child, signalled,
                 stopped>>

\* usertrap() finds an exception that is no system call and no device: the process
\* is marked, and exits in the same trap (exit).
setkilled(s) ==
  /\ At(s, "user")
  /\ ~killed[s]
  /\ ~plock[s]
  /\ killed' = [killed EXCEPT ![s] = TRUE]
  /\ signalled' = signalled \cup {<<s, pid[s]>>}
  /\ UNCHANGED <<state, parent, pid, chan, plock, wait_lock, nextpid, cpu, kpc, ret,
                 child, stopped>>

\* A timer interrupt, taken in user space (usertrap) or in the kernel
\* (kerneltrap), which then goes on where it was.  acquire() turns interrupts
\* off before it spins: a process that waits for wait_lock keeps its CPU.
yield(s) ==
  /\ \E l \in Preemptible : At(s, l)
  /\ kpc[s] \in {"fork_parent", "exit", "wait"} => wait_lock = None
  /\ GoTo(s, "RUNNABLE", IF kpc[s] = "trap" THEN "user" ELSE kpc[s])
  /\ UNCHANGED <<parent, killed, pid, chan, wait_lock, nextpid, cpu, child,
                 signalled, stopped>>

-----------------------------------------------------------------------------
(* fork                                                                    *)

\* A free slot and a new pid.  The scan locks one slot at a time, so a slot that
\* is freed behind it is passed over.  p->killed is not set here.
allocproc(np) ==
  /\ state[np] = "UNUSED"
  /\ ~plock[np]
  /\ nextpid <= MaxPid
  /\ nextpid' = nextpid + 1

\* Mutant: p->killed is not cleared.
freeproc_Marked(q) ==
  /\ state' = [state EXCEPT ![q] = "UNUSED"]
  /\ parent' = [parent EXCEPT ![q] = None]
  /\ pid' = [pid EXCEPT ![q] = 0]
  /\ chan' = [chan EXCEPT ![q] = None]
  /\ signalled' = signalled \ {<<q, 0>>}
  /\ UNCHANGED killed

\* The slot is cleared, a mark that kill(0) left on it while it was free included.
freeproc(q) ==
  /\ state' = [state EXCEPT ![q] = "UNUSED"]
  /\ parent' = [parent EXCEPT ![q] = None]
  /\ killed' = [killed EXCEPT ![q] = FALSE]
  /\ pid' = [pid EXCEPT ![q] = 0]
  /\ chan' = [chan EXCEPT ![q] = None]
  /\ signalled' = signalled \ {<<q, 0>>}

\* fork() fills the slot in, or gives it back when memory runs out and returns
\* -1.  With no free slot it returns -1 at once.
fork(s, np) ==
  /\ At(s, "trap")
  /\ allocproc(np)
  /\ \/ /\ freeproc(np)
        /\ kpc' = [kpc EXCEPT ![s] = "user"]
        /\ UNCHANGED <<child, ret>>
     \/ /\ state' = [state EXCEPT ![np] = "USED"]
        /\ pid' = [pid EXCEPT ![np] = nextpid]
        /\ child' = [child EXCEPT ![s] = np]
        /\ kpc' = [kpc EXCEPT ![s] = "fork_parent", ![np] = "resume"]
        /\ ret' = [ret EXCEPT ![np] = "user"]
        /\ UNCHANGED <<parent, killed, chan, signalled>>
  /\ UNCHANGED <<plock, wait_lock, cpu, stopped>>

fork_parent(s) ==
  /\ At(s, "fork_parent")
  /\ wait_lock = None
  /\ parent' = [parent EXCEPT ![child[s]] = s]
  /\ kpc' = [kpc EXCEPT ![s] = "fork_run"]
  /\ UNCHANGED <<state, killed, pid, chan, plock, wait_lock, nextpid, cpu, ret,
                 child, signalled, stopped>>

fork_run(s) ==
  /\ At(s, "fork_run")
  /\ ~plock[child[s]]
  /\ state' = [state EXCEPT ![child[s]] = "RUNNABLE"]
  /\ child' = [child EXCEPT ![s] = None]
  /\ kpc' = [kpc EXCEPT ![s] = "user"]
  /\ UNCHANGED <<parent, killed, pid, chan, plock, wait_lock, nextpid, cpu, ret,
                 signalled, stopped>>

-----------------------------------------------------------------------------
(* exit                                                                    *)

\* The slots wakeup(ch), called by process s, finds asleep.
Sleepers(s, ch) == {q \in Slot \ {s} : state[q] = "SLEEPING" /\ chan[q] = ch}

wakeup(s, ch) ==
  /\ \A q \in Sleepers(s, ch) : ~plock[q]
  /\ state' = [q \in Slot |-> IF q \in Sleepers(s, ch) THEN "RUNNABLE" ELSE state[q]]

\* Mutant: usertrap() does not look at p->killed.
exit_Deaf(s) ==
  /\ At(s, "trap")
  /\ IF s = initproc
     THEN stopped' = TRUE /\ UNCHANGED kpc
     ELSE kpc' = [kpc EXCEPT ![s] = "exit"] /\ UNCHANGED stopped
  /\ UNCHANGED <<fields, plock, wait_lock, nextpid, cpu, ret, child, signalled>>

\* A system call, or usertrap() finding p->killed set.
exit(s) ==
  /\ At(s, "trap") \/ (At(s, "user") /\ killed[s])
  /\ IF s = initproc
     THEN stopped' = TRUE /\ UNCHANGED kpc
     ELSE kpc' = [kpc EXCEPT ![s] = "exit"] /\ UNCHANGED stopped
  /\ UNCHANGED <<fields, plock, wait_lock, nextpid, cpu, ret, child, signalled>>

exit_lock(s) ==
  /\ At(s, "exit")
  /\ wait_lock = None
  /\ wait_lock' = s
  /\ kpc' = [kpc EXCEPT ![s] = "exit_reparent"]
  /\ UNCHANGED <<fields, plock, nextpid, cpu, ret, child, signalled, stopped>>

\* Mutant: only children that have exited are handed to init.
reparent_Zombies(s) ==
  LET orphans == {q \in Slot : parent[q] = s /\ state[q] = "ZOMBIE"} IN
  /\ At(s, "exit_reparent")
  /\ parent' = [q \in Slot |-> IF q \in orphans THEN initproc ELSE parent[q]]
  /\ IF orphans = {} THEN UNCHANGED state ELSE wakeup(s, initproc)
  /\ kpc' = [kpc EXCEPT ![s] = "exit_wakeup"]
  /\ UNCHANGED <<killed, pid, chan, plock, wait_lock, nextpid, cpu, ret, child,
                 signalled, stopped>>

reparent(s) ==
  LET orphans == {q \in Slot : parent[q] = s} IN
  /\ At(s, "exit_reparent")
  /\ parent' = [q \in Slot |-> IF q \in orphans THEN initproc ELSE parent[q]]
  /\ IF orphans = {} THEN UNCHANGED state ELSE wakeup(s, initproc)
  /\ kpc' = [kpc EXCEPT ![s] = "exit_wakeup"]
  /\ UNCHANGED <<killed, pid, chan, plock, wait_lock, nextpid, cpu, ret, child,
                 signalled, stopped>>

\* Mutant: the parent is not woken.
exit_wakeup_None(s) ==
  /\ At(s, "exit_wakeup")
  /\ kpc' = [kpc EXCEPT ![s] = "exit_zombie"]
  /\ UNCHANGED <<fields, plock, wait_lock, nextpid, cpu, ret, child, signalled,
                 stopped>>

exit_wakeup(s) ==
  /\ At(s, "exit_wakeup")
  /\ wakeup(s, parent[s])
  /\ kpc' = [kpc EXCEPT ![s] = "exit_zombie"]
  /\ UNCHANGED <<parent, killed, pid, chan, plock, wait_lock, nextpid, cpu, ret,
                 child, signalled, stopped>>

exit_zombie(s) ==
  /\ At(s, "exit_zombie")
  /\ GoTo(s, "ZOMBIE", "none")
  /\ wait_lock' = None
  /\ UNCHANGED <<parent, killed, pid, chan, nextpid, cpu, child, signalled, stopped>>

-----------------------------------------------------------------------------
(* wait                                                                    *)

wait(s) ==
  /\ At(s, "trap")
  /\ kpc' = [kpc EXCEPT ![s] = "wait"]
  /\ UNCHANGED <<fields, plock, wait_lock, nextpid, cpu, ret, child, signalled,
                 stopped>>

wait_acquire(s) ==
  /\ At(s, "wait")
  /\ wait_lock = None
  /\ wait_lock' = s
  /\ kpc' = [kpc EXCEPT ![s] = "wait_scan"]
  /\ UNCHANGED <<fields, plock, nextpid, cpu, ret, child, signalled, stopped>>

Kids(s) == {q \in Slot : parent[q] = s}
Zombies(s) == {q \in Kids(s) : state[q] = "ZOMBIE"}

\* The scan stops at the first zombie in the table, once it is off its CPU.
FirstZombie(s, q) == q \in Zombies(s) /\ (\A r \in Zombies(s) : q <= r) /\ ~plock[q]

\* The child is freed.
wait_reap(s) ==
  /\ At(s, "wait_scan")
  /\ \E q \in Slot : FirstZombie(s, q) /\ freeproc(q)
  /\ wait_lock' = None
  /\ kpc' = [kpc EXCEPT ![s] = "user"]
  /\ UNCHANGED <<plock, nextpid, cpu, ret, child, stopped>>

\* The status cannot be copied out: wait() fails and the zombie stays.  init
\* passes a null pointer, for which nothing is copied.
wait_fault(s) ==
  /\ At(s, "wait_scan")
  /\ s # initproc
  /\ \E q \in Slot : FirstZombie(s, q)
  /\ wait_lock' = None
  /\ kpc' = [kpc EXCEPT ![s] = "user"]
  /\ UNCHANGED <<fields, plock, nextpid, cpu, ret, child, signalled, stopped>>

\* No zombie: give up without children or when killed, else go to sleep.
wait_none(s) ==
  /\ At(s, "wait_scan")
  /\ Zombies(s) = {}
  /\ IF Kids(s) = {} \/ killed[s]
     THEN wait_lock' = None /\ kpc' = [kpc EXCEPT ![s] = "user"]
     ELSE kpc' = [kpc EXCEPT ![s] = "wait_sleep"] /\ UNCHANGED wait_lock
  /\ UNCHANGED <<fields, plock, nextpid, cpu, ret, child, signalled, stopped>>

\* sleep(p, &wait_lock)
sleep(s) ==
  /\ At(s, "wait_sleep")
  /\ GoTo(s, "SLEEPING", "wait")
  /\ wait_lock' = None
  /\ chan' = [chan EXCEPT ![s] = s]
  /\ UNCHANGED <<parent, killed, pid, nextpid, cpu, child, signalled, stopped>>

-----------------------------------------------------------------------------
(* kill                                                                    *)

\* kill(k) stops at the first slot whose pid is k, which for k = 0 is a free one;
\* with no such slot it only returns -1.
kill(s, k) ==
  /\ At(s, "trap")
  /\ \E q \in Slot :
       /\ pid[q] = k
       /\ \A r \in Slot : pid[r] = k => q <= r
       /\ ~plock[q]
       /\ killed' = [killed EXCEPT ![q] = TRUE]
       /\ state' = [state EXCEPT ![q] = IF @ = "SLEEPING" THEN "RUNNABLE" ELSE @]
       /\ signalled' = signalled \cup {<<q, k>>}
  /\ kpc' = [kpc EXCEPT ![s] = "user"]
  /\ UNCHANGED <<parent, pid, chan, plock, wait_lock, nextpid, cpu, ret, child,
                 stopped>>

-----------------------------------------------------------------------------

\* What process s does next in the kernel, once it is there.
Kernel(s) ==
  \/ fork_parent(s) \/ fork_run(s)
  \/ exit_lock(s) \/ reparent(s) \/ exit_wakeup(s) \/ exit_zombie(s)
  \/ wait_acquire(s) \/ wait_reap(s) \/ wait_none(s) \/ sleep(s)

ProcNext ==
  \/ \E c \in CPU, s \in Slot : scheduler(c, s) \/ sched(c, s)
  \/ \E s \in Slot :
       \/ resume(s)
       \/ fork_parent(s) \/ fork_run(s)
       \/ exit(s)
       \/ exit_lock(s) \/ reparent(s) \/ exit_wakeup(s) \/ exit_zombie(s)
       \/ wait(s) \/ wait_acquire(s)
       \/ wait_reap(s) \/ wait_fault(s) \/ wait_none(s) \/ sleep(s)
       \/ usertrap(s) \/ setkilled(s) \/ yield(s)
  \/ \E s, np \in Slot : fork(s, np)
  \/ \E s \in Slot, k \in KillArgs : kill(s, k)

ProcSpec == ProcInit /\ [][ProcNext]_procvars

\* The scheduler's scan comes to every runnable process again and again, an
\* interrupt ends every stay in user space, a process in the kernel goes on and
\* is not starved at a spinlock or by preemption for ever, and init keeps
\* calling wait() (user/init.c).
ProcFairSpec ==
  /\ ProcSpec
  /\ \A s \in Slot :
       /\ SF_procvars(\E c \in CPU : scheduler(c, s))
       /\ WF_procvars(\E c \in CPU : sched(c, s))
       /\ WF_procvars(resume(s))
       /\ SF_procvars(Kernel(s))
       /\ WF_procvars(usertrap(s) \/ (kpc[s] = "user" /\ exit(s)))
       /\ SF_procvars(kpc[s] = "trap" /\ yield(s))
  /\ SF_procvars(wait(initproc))

-----------------------------------------------------------------------------
(* Properties.                                                             *)

\* No process runs on two CPUs' worth of its one kernel stack, and no slot is
\* freed while some CPU still runs on its stack: the reason why p->lock is
\* held across swtch (proc.c scheduler, sched, wait).
StackExclusive ==
  /\ \A c, d \in CPU : cpu[c] = cpu[d] /\ cpu[c] # None => c = d
  /\ \A c \in CPU : cpu[c] # None => state[cpu[c]] # "UNUSED"

\* Every process that can run, sleeps or is a zombie has a parent that still
\* can wait for it, and a parent asleep in wait() has no exited child: exit()
\* leaves no child to a zombie or to a freed slot, and no wakeup of exit() or
\* reparent() is lost (proc.c exit, reparent, wait, sleep; wait_lock).
ChildrenAreWaitedFor ==
  /\ \A s \in Slot \ {initproc} :
       state[s] \in {"RUNNABLE", "RUNNING", "SLEEPING", "ZOMBIE"} =>
         parent[s] # None /\ state[parent[s]] \notin {"UNUSED", "USED", "ZOMBIE"}
  /\ \A s \in Slot : state[s] = "SLEEPING" => Zombies(s) = {}

\* A process is marked killed only when it faulted or kill() was called with its own
\* pid, or when kill(0) had hit its slot while that was free: no mark of a slot's
\* former owner is left to the next one (proc.c kill, setkilled, allocproc, freeproc).
MarkedForCause ==
  \A s \in Slot :
    state[s] # "UNUSED" /\ killed[s] =>
      <<s, pid[s]>> \in signalled \/ <<s, 0>> \in signalled

\* A zombie handed to init is freed in the end.
OrphanReaped ==
  \A s \in Slot \ {initproc} :
    (state[s] = "ZOMBIE" /\ parent[s] = initproc)
      ~> (state[s] = "UNUSED" \/ stopped)

\* A killed process leaves user space for exit(), and so becomes a zombie,
\* unless it sleeps in wait() for a child that never exits.
KilledExits ==
  \A s \in Slot \ {initproc} :
    (killed[s] /\ state[s] \in {"RUNNABLE", "RUNNING"})
      ~> (state[s] \in {"ZOMBIE", "UNUSED", "SLEEPING"} \/ stopped)
=============================================================================
