-------------------------- MODULE ProcPagingProofs --------------------------
(***************************************************************************)
(* Proofs about Proc for any number of slots and CPUs: no kernel stack is  *)
(* used twice, every child has a parent that will find it, no wakeup of    *)
(* wait() is lost, and kill() marks only the process that was named; and   *)
(* about Paging for any table, cache and workload: the records of the      *)
(* cache are the mapped pages, and each policy gives up the page it means. *)
(***************************************************************************)
EXTENDS Proc, Paging, RingLemmas, FiniteSetTheorems

(***************************************************************************)
(* The inductive invariant, in parts.                                      *)
(***************************************************************************)

Alive == {"RUNNABLE", "RUNNING", "SLEEPING"}
Exiting == {"exit", "exit_reparent", "exit_wakeup", "exit_zombie"}
InFork == {"fork_parent", "fork_run"}

\* Labels at which a process holds wait_lock.
HoldsWait == {"exit_reparent", "exit_wakeup", "exit_zombie", "wait_scan", "wait_sleep"}

\* Where a process is in the kernel, whether or not it is being switched.
Where(s) == IF kpc[s] \in {"swtch", "resume"} THEN ret[s] ELSE kpc[s]

\* How the state of a slot goes with its place in the kernel.
Lifecycle ==
  \A s \in Slot :
    /\ state[s] = "UNUSED" => kpc[s] = "none"
    /\ state[s] = "USED" => kpc[s] = "resume"
    /\ state[s] \in {"RUNNABLE", "SLEEPING"} => kpc[s] \in {"resume", "swtch"}
    /\ state[s] = "RUNNING" => kpc[s] \notin {"none", "swtch"}
    /\ state[s] = "ZOMBIE" => kpc[s] \in {"swtch", "none"}
    /\ Where(s) = "none" <=> state[s] \in {"UNUSED", "ZOMBIE"}

\* A CPU is on the stack of a RUNNING process, or of one that is about to leave it,
\* and p->lock is held around every swtch.
OnStack ==
  \A s \in Slot :
    /\ OnCPU(s) <=> (state[s] = "RUNNING" \/ kpc[s] = "swtch")
    /\ plock[s] <=> (kpc[s] = "swtch" \/ (state[s] = "RUNNING" /\ kpc[s] = "resume"))

OneStack == \A c, d \in CPU : cpu[c] = cpu[d] /\ cpu[c] # None => c = d

WaitLock == \A s \in Slot : kpc[s] \in HoldsWait <=> wait_lock = s

\* The first process never exits.
InitStays == state[initproc] \in Alive /\ Where(initproc) \notin Exiting

\* A process in fork() has a child of its own that is not yet runnable.
Forking ==
  \A s \in Slot :
    /\ child[s] # None <=> Where(s) \in InFork
    /\ child[s] # None => state[child[s]] = "USED"
    /\ Where(s) = "fork_run" => parent[child[s]] = s

OneFork == \A s, r \in Slot : child[s] = child[r] /\ child[s] # None => s = r

\* Only living processes are parents, and all but the first process have one.
Parents ==
  \A s \in Slot :
    /\ parent[s] # None => state[parent[s]] \in Alive
    /\ state[s] = "UNUSED" => parent[s] = None
    /\ s # initproc /\ state[s] \in Alive \cup {"ZOMBIE"} => parent[s] # None
    /\ kpc[s] \in {"exit_wakeup", "exit_zombie"} => Kids(s) = {}

\* A sleeper waits for its own children and none of them has exited; neither has one
\* when its parent is about to sleep, nor does the parent sleep when one is about
\* to become a zombie.
Waking ==
  \A s \in Slot :
    /\ state[s] = "SLEEPING" => chan[s] = s /\ Zombies(s) = {}
    /\ kpc[s] = "wait_sleep" => Zombies(s) = {}
    /\ kpc[s] = "exit_zombie" => state[parent[s]] # "SLEEPING"

IInv ==
  /\ ProcTypeOK
  /\ Lifecycle
  /\ OnStack
  /\ OneStack
  /\ WaitLock
  /\ InitStays
  /\ Forking
  /\ OneFork
  /\ Parents
  /\ Waking

-----------------------------------------------------------------------------

\* What the proofs use about the table: it has init's slot, and None names no slot.
LEMMA SlotFacts == initproc \in Slot /\ None \notin Slot
  BY ProcAssumption DEF Slot, initproc

LEMMA InitIInv == ProcInit => IInv
<1> SUFFICES ASSUME ProcInit PROVE IInv
  OBVIOUS
<1> USE SlotFacts DEF ProcInit
<1>1. ProcTypeOK /\ Lifecycle /\ OnStack /\ OneStack
  BY DEF ProcTypeOK, States, PCs, Lifecycle, Where, OnStack, OnCPU, OneStack
<1>2. WaitLock /\ InitStays /\ Forking /\ OneFork
  BY DEF WaitLock, HoldsWait, InitStays, Alive, Exiting, Where, Forking, InFork,
    OneFork
<1>3. Parents /\ Waking
  BY DEF Parents, Alive, Waking
<1> QED
  BY <1>1, <1>2, <1>3 DEF IInv

LEMMA SwitchingStep ==
  ASSUME IInv,
         NEW c \in CPU, NEW s \in Slot,
         scheduler(c, s) \/ sched(c, s)
  PROVE  IInv'
<1> USE SlotFacts
<1>1. CASE scheduler(c, s)
  <2>1. ProcTypeOK'
    BY <1>1 DEF IInv, ProcTypeOK, States, scheduler
  <2>2. Lifecycle'
    BY <1>1 DEF IInv, Lifecycle, OnStack, Where, scheduler
  <2>3. OnStack'
    BY <1>1 DEF IInv, ProcTypeOK, Lifecycle, OnStack, OnCPU, scheduler
  <2>4. OneStack'
    BY <1>1 DEF IInv, OneStack, OnStack, OnCPU, scheduler
  <2>5. WaitLock'
    BY <1>1 DEF IInv, WaitLock, scheduler
  <2>6. InitStays'
    BY <1>1 DEF IInv, InitStays, Alive, Where, scheduler
  <2>7. Forking'
    BY <1>1 DEF IInv, Forking, Where, scheduler
  <2>8. OneFork'
    BY <1>1 DEF IInv, OneFork, scheduler
  <2>9. Parents'
    BY <1>1 DEF IInv, Parents, Kids, Alive, scheduler
  <2>10. Waking'
    BY <1>1 DEF IInv, Waking, Zombies, Kids, scheduler
  <2> QED
    BY <2>1, <2>2, <2>3, <2>4, <2>5, <2>6, <2>7, <2>8, <2>9, <2>10 DEF IInv
<1>2. CASE sched(c, s)
  <2>1. ProcTypeOK'
    BY <1>2 DEF IInv, ProcTypeOK, PCs, sched, fields
  <2>2. Lifecycle'
    BY <1>2 DEF IInv, Lifecycle, Where, sched, fields
  <2>3. OnStack'
    BY <1>2 DEF IInv, ProcTypeOK, Lifecycle, OnStack, OneStack, OnCPU, sched, fields
  <2>4. OneStack'
    BY <1>2 DEF IInv, OneStack, sched, fields
  <2>5. WaitLock'
    BY <1>2 DEF IInv, WaitLock, HoldsWait, sched, fields
  <2>6. InitStays'
    BY <1>2 DEF IInv, InitStays, Lifecycle, Where, sched, fields
  <2>7. Forking'
    BY <1>2 DEF IInv, Lifecycle, Forking, Where, sched, fields
  <2>8. OneFork'
    BY <1>2 DEF IInv, OneFork, sched, fields
  <2>9. Parents'
    BY <1>2 DEF IInv, Parents, Kids, sched, fields
  <2>10. Waking'
    BY <1>2 DEF IInv, Waking, Zombies, Kids, sched, fields
  <2> QED
    BY <2>1, <2>2, <2>3, <2>4, <2>5, <2>6, <2>7, <2>8, <2>9, <2>10 DEF IInv
<1> QED
  BY <1>1, <1>2

LEMMA RunningStep ==
  ASSUME IInv,
         NEW s \in Slot,
         resume(s) \/ usertrap(s) \/ setkilled(s) \/ yield(s)
  PROVE  IInv'
<1> USE SlotFacts
<1>1. CASE resume(s)
  <2>1. ProcTypeOK'
    BY <1>1 DEF IInv, ProcTypeOK, PCs, Preemptible, resume, At
  <2>2. Lifecycle'
    BY <1>1 DEF IInv, ProcTypeOK, Lifecycle, OnStack, Where, Preemptible, resume, At
  <2>3. OnStack'
    BY <1>1 DEF IInv, ProcTypeOK, OnStack, Preemptible, OnCPU, resume, At
  <2>4. OneStack'
    BY <1>1 DEF IInv, OneStack, resume, At
  <2>5. WaitLock'
    BY <1>1 DEF IInv, ProcTypeOK, WaitLock, HoldsWait, Preemptible, resume, At
  <2>6. InitStays'
    BY <1>1 DEF IInv, InitStays, Where, resume, At
  <2>7. Forking'
    BY <1>1 DEF IInv, Forking, Where, resume, At
  <2>8. OneFork'
    BY <1>1 DEF IInv, OneFork, resume, At
  <2>9. Parents'
    BY <1>1 DEF IInv, ProcTypeOK, Parents, Kids, Preemptible, resume, At
  <2>10. Waking'
    BY <1>1 DEF IInv, ProcTypeOK, OnStack, Waking, Zombies, Kids, Preemptible,
      resume, At
  <2> QED
    BY <2>1, <2>2, <2>3, <2>4, <2>5, <2>6, <2>7, <2>8, <2>9, <2>10 DEF IInv
<1>2. CASE usertrap(s)
  <2>1. ProcTypeOK'
    BY <1>2 DEF IInv, ProcTypeOK, PCs, usertrap, At, fields
  <2>2. Lifecycle'
    BY <1>2 DEF IInv, Lifecycle, Where, usertrap, At, fields
  <2>3. OnStack'
    BY <1>2 DEF IInv, OnStack, OnCPU, usertrap, At, fields
  <2>4. OneStack'
    BY <1>2 DEF IInv, OneStack, usertrap, At, fields
  <2>5. WaitLock'
    BY <1>2 DEF IInv, WaitLock, HoldsWait, usertrap, At, fields
  <2>6. InitStays'
    BY <1>2 DEF IInv, InitStays, Exiting, Where, usertrap, At, fields
  <2>7. Forking'
    BY <1>2 DEF IInv, Forking, InFork, Where, usertrap, At, fields
  <2>8. OneFork'
    BY <1>2 DEF IInv, OneFork, usertrap, At, fields
  <2>9. Parents'
    BY <1>2 DEF IInv, Parents, Kids, usertrap, At, fields
  <2>10. Waking'
    BY <1>2 DEF IInv, Waking, Zombies, Kids, usertrap, At, fields
  <2> QED
    BY <2>1, <2>2, <2>3, <2>4, <2>5, <2>6, <2>7, <2>8, <2>9, <2>10 DEF IInv
<1>3. CASE yield(s)
  <2>1. ProcTypeOK'
    BY <1>3 DEF IInv, ProcTypeOK, States, PCs, yield, At, GoTo
  <2>2. Lifecycle'
    BY <1>3 DEF IInv, ProcTypeOK, Lifecycle, OnStack, Where, yield, At, GoTo
  <2>3. OnStack'
    BY <1>3 DEF IInv, ProcTypeOK, OnStack, OnCPU, yield, At, GoTo
  <2>4. OneStack'
    BY <1>3 DEF IInv, OneStack, yield, At, GoTo
  <2>5. WaitLock'
    BY <1>3 DEF IInv, WaitLock, HoldsWait, Preemptible, yield, At, GoTo
  <2>6. InitStays'
    BY <1>3 DEF IInv, ProcTypeOK, InitStays, Alive, Exiting, Where, yield, At, GoTo
  <2>7. Forking'
    BY <1>3 DEF IInv, ProcTypeOK, OnStack, Forking, InFork, Where, yield, At, GoTo
  <2>8. OneFork'
    BY <1>3 DEF IInv, OneFork, yield, At, GoTo
  <2>9. Parents'
    BY <1>3 DEF IInv, OnStack, Parents, Kids, Alive, yield, At, GoTo
  <2>10. Waking'
    BY <1>3 DEF IInv, Waking, Zombies, Kids, yield, At, GoTo
  <2> QED
    BY <2>1, <2>2, <2>3, <2>4, <2>5, <2>6, <2>7, <2>8, <2>9, <2>10 DEF IInv
<1>4. CASE setkilled(s)
  <2>1. ProcTypeOK'
    BY <1>4 DEF IInv, ProcTypeOK, setkilled, At
  <2>2. Lifecycle'
    BY <1>4 DEF IInv, Lifecycle, Where, setkilled, At
  <2>3. OnStack'
    BY <1>4 DEF IInv, OnStack, OnCPU, setkilled, At
  <2>4. OneStack'
    BY <1>4 DEF IInv, OneStack, setkilled, At
  <2>5. WaitLock'
    BY <1>4 DEF IInv, WaitLock, HoldsWait, setkilled, At
  <2>6. InitStays'
    BY <1>4 DEF IInv, InitStays, Exiting, Where, setkilled, At
  <2>7. Forking'
    BY <1>4 DEF IInv, Forking, InFork, Where, setkilled, At
  <2>8. OneFork'
    BY <1>4 DEF IInv, OneFork, setkilled, At
  <2>9. Parents'
    BY <1>4 DEF IInv, Parents, Kids, setkilled, At
  <2>10. Waking'
    BY <1>4 DEF IInv, Waking, Zombies, Kids, setkilled, At
  <2> QED
    BY <2>1, <2>2, <2>3, <2>4, <2>5, <2>6, <2>7, <2>8, <2>9, <2>10 DEF IInv
<1> QED
  BY <1>1, <1>2, <1>3, <1>4

LEMMA ForkStep ==
  ASSUME IInv,
         NEW s \in Slot, NEW np \in Slot,
         fork(s, np) \/ fork_parent(s) \/ fork_run(s)
  PROVE  IInv'
<1> USE SlotFacts
<1>1. CASE fork(s, np)
  <2>1. ProcTypeOK'
    <3>1. nextpid' \in Nat /\ nextpid \in Nat
      BY <1>1 DEF IInv, ProcTypeOK, fork, allocproc
    <3>2. state' \in [Slot -> States] /\ parent' \in [Slot -> Slot \cup {None}]
      BY <1>1 DEF IInv, ProcTypeOK, States, fork, freeproc
    <3>3. /\ killed' \in [Slot -> BOOLEAN]
          /\ pid' \in [Slot -> Nat]
      <4>1. killed' \in [Slot -> BOOLEAN]
        BY <1>1 DEF IInv, ProcTypeOK, fork, freeproc
      <4>2. pid' \in [Slot -> Nat]
        BY <1>1, <3>1 DEF IInv, ProcTypeOK, fork, freeproc
      <4> QED
        BY <4>1, <4>2
    <3>4. chan' \in [Slot -> Slot \cup {None}] /\ child' \in [Slot -> Slot \cup {None}]
      BY <1>1 DEF IInv, ProcTypeOK, fork, freeproc
    <3>5. kpc' \in [Slot -> PCs] /\ ret' \in [Slot -> {"user", "none"} \cup Preemptible]
      BY <1>1 DEF IInv, ProcTypeOK, PCs, fork
    <3>6. signalled' \subseteq Slot \X Nat
      BY <1>1 DEF IInv, ProcTypeOK, fork, freeproc
    <3> QED
      BY <1>1, <3>1, <3>2, <3>3, <3>4, <3>5, <3>6 DEF IInv, ProcTypeOK, fork
  <2>2. Lifecycle'
    BY <1>1 DEF IInv, ProcTypeOK, Lifecycle, Where, fork, At, allocproc, freeproc
  <2>3. OnStack'
    BY <1>1 DEF IInv, ProcTypeOK, OnStack, OnCPU, fork, At, allocproc, freeproc
  <2>4. OneStack'
    BY <1>1 DEF IInv, OneStack, fork, At, allocproc, freeproc
  <2>5. WaitLock'
    BY <1>1 DEF IInv, ProcTypeOK, WaitLock, HoldsWait, Lifecycle, fork, At,
      allocproc, freeproc
  <2>6. InitStays'
    BY <1>1 DEF IInv, ProcTypeOK, InitStays, Alive, Exiting, Where, fork, At,
      allocproc, freeproc
  <2>7. Forking'
    BY <1>1 DEF IInv, ProcTypeOK, Lifecycle, Forking, InFork, Where, fork, At,
      allocproc, freeproc
  <2>8. OneFork'
    BY <1>1 DEF IInv, ProcTypeOK, Forking, OneFork, fork, At, allocproc, freeproc
  <2>9. Parents'
    BY <1>1 DEF IInv, ProcTypeOK, Parents, Kids, Alive, fork, At, allocproc,
      freeproc
  <2>10. Waking'
    <3>1. state[np] = "UNUSED" /\ kpc[np] = "none" /\ np # s /\ kpc[s] = "trap"
      BY <1>1 DEF IInv, Lifecycle, fork, At, allocproc
    <3>2. /\ \A r \in Slot \ {np} : state'[r] = state[r] /\ chan'[r] = chan[r]
          /\ \A r \in Slot \ {np} : parent'[r] = parent[r]
          /\ state'[np] \in {"UNUSED", "USED"} /\ parent'[np] = None
      BY <1>1, <3>1 DEF IInv, ProcTypeOK, Parents, fork, freeproc
    <3>3. \A r \in Slot : Zombies(r)' = Zombies(r)
      BY <3>1, <3>2 DEF Zombies, Kids
    <3>4. /\ kpc'[s] \in {"user", "fork_parent"} /\ kpc'[np] \in {"none", "resume"}
          /\ \A r \in Slot \ {s, np} : kpc'[r] = kpc[r]
      BY <1>1, <3>1 DEF IInv, ProcTypeOK, fork
    <3>5. \A r \in Slot : kpc[r] = "exit_zombie" => parent[r] \in Slot /\ parent[r] # np
      BY <3>1 DEF IInv, ProcTypeOK, States, Lifecycle, InitStays, Parents, Alive,
        Where, Exiting
    <3> QED
      BY <3>1, <3>2, <3>3, <3>4, <3>5 DEF IInv, Waking
  <2> QED
    BY <2>1, <2>2, <2>3, <2>4, <2>5, <2>6, <2>7, <2>8, <2>9, <2>10 DEF IInv
<1>2. CASE fork_parent(s)
  <2>1. ProcTypeOK'
    BY <1>2 DEF IInv, ProcTypeOK, PCs, fork_parent, At
  <2>2. Lifecycle'
    BY <1>2 DEF IInv, Lifecycle, Where, fork_parent, At
  <2>3. OnStack'
    BY <1>2 DEF IInv, OnStack, OnCPU, fork_parent, At
  <2>4. OneStack'
    BY <1>2 DEF IInv, OneStack, fork_parent, At
  <2>5. WaitLock'
    BY <1>2 DEF IInv, WaitLock, HoldsWait, fork_parent, At
  <2>6. InitStays'
    BY <1>2 DEF IInv, InitStays, Exiting, Where, fork_parent, At
  <2>7. Forking'
    BY <1>2 DEF IInv, ProcTypeOK, Forking, OneFork, InFork, Where, fork_parent, At
  <2>8. OneFork'
    BY <1>2 DEF IInv, OneFork, fork_parent, At
  <2>9. Parents'
    BY <1>2 DEF IInv, OnStack, WaitLock, HoldsWait, Forking, Parents, Alive,
      fork_parent, At
  <2>10. Waking'
    BY <1>2 DEF IInv, Lifecycle, Waking, Zombies, Kids, fork_parent, At
  <2> QED
    BY <2>1, <2>2, <2>3, <2>4, <2>5, <2>6, <2>7, <2>8, <2>9, <2>10 DEF IInv
<1>3. CASE fork_run(s)
  <2>1. ProcTypeOK'
    BY <1>3 DEF IInv, ProcTypeOK, States, PCs, fork_run, At
  <2>2. Lifecycle'
    BY <1>3 DEF IInv, Lifecycle, Forking, Where, fork_run, At
  <2>3. OnStack'
    BY <1>3 DEF IInv, OnStack, Forking, OnCPU, fork_run, At
  <2>4. OneStack'
    BY <1>3 DEF IInv, OneStack, fork_run, At
  <2>5. WaitLock'
    BY <1>3 DEF IInv, WaitLock, HoldsWait, fork_run, At
  <2>6. InitStays'
    BY <1>3 DEF IInv, InitStays, Alive, Exiting, Where, fork_run, At
  <2>7. Forking'
    BY <1>3 DEF IInv, ProcTypeOK, Forking, OneFork, InFork, Where, fork_run, At
  <2>8. OneFork'
    BY <1>3 DEF IInv, OneFork, fork_run, At
  <2>9. Parents'
    BY <1>3 DEF IInv, Forking, Where, Parents, Kids, Alive, fork_run, At
  <2>10. Waking'
    BY <1>3 DEF IInv, Waking, Zombies, Kids, fork_run, At
  <2> QED
    BY <2>1, <2>2, <2>3, <2>4, <2>5, <2>6, <2>7, <2>8, <2>9, <2>10 DEF IInv
<1> QED
  BY <1>1, <1>2, <1>3

LEMMA ExitStep ==
  ASSUME IInv,
         NEW s \in Slot,
         exit(s) \/ exit_lock(s) \/ reparent(s) \/ exit_wakeup(s) \/ exit_zombie(s)
  PROVE  IInv'
<1> USE SlotFacts
<1>1. CASE exit(s)
  <2>1. ProcTypeOK'
    BY <1>1 DEF IInv, ProcTypeOK, PCs, exit, At, fields
  <2>2. Lifecycle'
    BY <1>1 DEF IInv, ProcTypeOK, Lifecycle, Where, exit, At, fields
  <2>3. OnStack'
    BY <1>1 DEF IInv, ProcTypeOK, OnStack, OnCPU, exit, At, fields
  <2>4. OneStack'
    BY <1>1 DEF IInv, OneStack, exit, At, fields
  <2>5. WaitLock'
    BY <1>1 DEF IInv, ProcTypeOK, WaitLock, HoldsWait, exit, At, fields
  <2>6. InitStays'
    BY <1>1 DEF IInv, ProcTypeOK, InitStays, Where, exit, At, fields
  <2>7. Forking'
    BY <1>1 DEF IInv, ProcTypeOK, Forking, InFork, Where, exit, At, fields
  <2>8. OneFork'
    BY <1>1 DEF IInv, OneFork, exit, At, fields
  <2>9. Parents'
    BY <1>1 DEF IInv, ProcTypeOK, Parents, Kids, exit, At, fields
  <2>10. Waking'
    BY <1>1 DEF IInv, ProcTypeOK, Waking, Zombies, Kids, exit, At, fields
  <2> QED
    BY <2>1, <2>2, <2>3, <2>4, <2>5, <2>6, <2>7, <2>8, <2>9, <2>10 DEF IInv
<1>2. CASE exit_lock(s)
  <2>1. ProcTypeOK'
    BY <1>2 DEF IInv, ProcTypeOK, PCs, exit_lock, At, fields
  <2>2. Lifecycle'
    BY <1>2 DEF IInv, Lifecycle, Where, exit_lock, At, fields
  <2>3. OnStack'
    BY <1>2 DEF IInv, OnStack, OnCPU, exit_lock, At, fields
  <2>4. OneStack'
    BY <1>2 DEF IInv, OneStack, exit_lock, At, fields
  <2>5. WaitLock'
    BY <1>2 DEF IInv, ProcTypeOK, WaitLock, HoldsWait, exit_lock, At, fields
  <2>6. InitStays'
    BY <1>2 DEF IInv, InitStays, Exiting, Where, exit_lock, At, fields
  <2>7. Forking'
    BY <1>2 DEF IInv, Forking, InFork, Where, exit_lock, At, fields
  <2>8. OneFork'
    BY <1>2 DEF IInv, OneFork, exit_lock, At, fields
  <2>9. Parents'
    BY <1>2 DEF IInv, WaitLock, HoldsWait, Parents, exit_lock, At, fields
  <2>10. Waking'
    BY <1>2 DEF IInv, Waking, Zombies, Kids, exit_lock, At, fields
  <2> QED
    BY <2>1, <2>2, <2>3, <2>4, <2>5, <2>6, <2>7, <2>8, <2>9, <2>10 DEF IInv
<1>3. CASE reparent(s)
  <2>1. ProcTypeOK'
    BY <1>3 DEF IInv, ProcTypeOK, States, PCs, reparent, At, wakeup
  <2>2. Lifecycle'
    BY <1>3 DEF IInv, Lifecycle, Where, reparent, At, wakeup, Sleepers
  <2>3. OnStack'
    BY <1>3 DEF IInv, OnStack, OnCPU, reparent, At, wakeup, Sleepers
  <2>4. OneStack'
    BY <1>3 DEF IInv, OneStack, reparent, At, wakeup
  <2>5. WaitLock'
    BY <1>3 DEF IInv, WaitLock, HoldsWait, reparent, At, wakeup
  <2>6. InitStays'
    BY <1>3 DEF IInv, InitStays, Alive, Exiting, Where, reparent, At, wakeup
  <2>7. Forking'
    BY <1>3 DEF IInv, ProcTypeOK, Forking, InFork, Where, reparent, At, wakeup,
      Sleepers
  <2>8. OneFork'
    BY <1>3 DEF IInv, OneFork, reparent, At, wakeup
  <2>9. Parents'
    <3>1. /\ state[s] = "RUNNING" /\ s # initproc /\ kpc[s] = "exit_reparent"
          /\ \A r \in Slot \ {s} : kpc[r] \notin HoldsWait
      BY <1>3 DEF IInv, OnStack, WaitLock, HoldsWait, InitStays, Where, Exiting,
        reparent, At
    <3>2. \A r \in Slot : /\ state'[r] \in Alive <=> state[r] \in Alive
                          /\ state[r] \notin Alive => state'[r] = state[r]
      BY <1>3 DEF IInv, Alive, reparent, wakeup, Sleepers
    <3>3. \A r \in Slot : parent'[r] = IF parent[r] = s THEN initproc ELSE parent[r]
      BY <1>3 DEF reparent
    <3>4. Kids(s)' = {}
      BY <3>1, <3>3 DEF Kids
    <3>5. \A r \in Slot \ {s} : kpc'[r] = kpc[r]
      BY <1>3 DEF IInv, reparent
    <3> QED
      BY <3>1, <3>2, <3>3, <3>4, <3>5 DEF IInv, ProcTypeOK, Parents, InitStays,
        HoldsWait, Alive
  <2>10. Waking'
    BY <1>3 DEF IInv, WaitLock, HoldsWait, Waking, Zombies, Kids, reparent, At,
      wakeup, Sleepers
  <2> QED
    BY <2>1, <2>2, <2>3, <2>4, <2>5, <2>6, <2>7, <2>8, <2>9, <2>10 DEF IInv
<1>4. CASE exit_wakeup(s)
  <2>1. ProcTypeOK'
    BY <1>4 DEF IInv, ProcTypeOK, States, PCs, exit_wakeup, At, wakeup
  <2>2. Lifecycle'
    BY <1>4 DEF IInv, Lifecycle, Where, exit_wakeup, At, wakeup, Sleepers
  <2>3. OnStack'
    BY <1>4 DEF IInv, OnStack, OnCPU, exit_wakeup, At, wakeup, Sleepers
  <2>4. OneStack'
    BY <1>4 DEF IInv, OneStack, exit_wakeup, At, wakeup
  <2>5. WaitLock'
    BY <1>4 DEF IInv, WaitLock, HoldsWait, exit_wakeup, At, wakeup
  <2>6. InitStays'
    BY <1>4 DEF IInv, InitStays, Alive, Exiting, Where, exit_wakeup, At, wakeup
  <2>7. Forking'
    BY <1>4 DEF IInv, ProcTypeOK, Forking, InFork, Where, exit_wakeup, At, wakeup,
      Sleepers
  <2>8. OneFork'
    BY <1>4 DEF IInv, OneFork, exit_wakeup, At, wakeup
  <2>9. Parents'
    BY <1>4 DEF IInv, ProcTypeOK, Parents, Kids, Alive, exit_wakeup, At, wakeup,
      Sleepers
  <2>10. Waking'
    <3>1. /\ state[s] = "RUNNING" /\ s # initproc /\ kpc[s] = "exit_wakeup"
          /\ \A r \in Slot \ {s} : kpc[r] \notin HoldsWait
      BY <1>4 DEF IInv, OnStack, WaitLock, HoldsWait, InitStays, Where, Exiting,
        exit_wakeup, At
    <3>2. \A r \in Slot : /\ state'[r] = "SLEEPING" => state[r] = "SLEEPING"
                          /\ state'[r] = "ZOMBIE" <=> state[r] = "ZOMBIE"
      BY <1>4 DEF IInv, exit_wakeup, wakeup, Sleepers
    <3>3. \A r \in Slot : Zombies(r)' = Zombies(r)
      BY <1>4, <3>2 DEF Zombies, Kids, exit_wakeup
    <3>4. parent[s] \in Slot /\ (state[parent[s]] = "SLEEPING" => parent[s] \in Sleepers(s, parent[s]))
      BY <3>1 DEF IInv, ProcTypeOK, Parents, Alive, Waking, Sleepers
    <3>5. state'[parent[s]] # "SLEEPING"
      BY <1>4, <3>2, <3>4 DEF exit_wakeup, wakeup
    <3>6. /\ \A r \in Slot \ {s} : kpc'[r] = kpc[r]
          /\ kpc'[s] = "exit_zombie" /\ UNCHANGED <<chan, parent>>
      BY <1>4 DEF IInv, ProcTypeOK, exit_wakeup
    <3> QED
      BY <3>1, <3>2, <3>3, <3>5, <3>6 DEF IInv, Waking, HoldsWait
  <2> QED
    BY <2>1, <2>2, <2>3, <2>4, <2>5, <2>6, <2>7, <2>8, <2>9, <2>10 DEF IInv
<1>5. CASE exit_zombie(s)
  <2>1. ProcTypeOK'
    BY <1>5 DEF IInv, ProcTypeOK, States, PCs, exit_zombie, At, GoTo
  <2>2. Lifecycle'
    BY <1>5 DEF IInv, ProcTypeOK, Lifecycle, Where, exit_zombie, At, GoTo
  <2>3. OnStack'
    BY <1>5 DEF IInv, ProcTypeOK, OnStack, OnCPU, exit_zombie, At, GoTo
  <2>4. OneStack'
    BY <1>5 DEF IInv, OneStack, exit_zombie, At, GoTo
  <2>5. WaitLock'
    BY <1>5 DEF IInv, ProcTypeOK, WaitLock, HoldsWait, exit_zombie, At, GoTo
  <2>6. InitStays'
    BY <1>5 DEF IInv, InitStays, Exiting, Where, exit_zombie, At, GoTo
  <2>7. Forking'
    BY <1>5 DEF IInv, ProcTypeOK, Lifecycle, Forking, InFork, Where, exit_zombie,
      At, GoTo
  <2>8. OneFork'
    BY <1>5 DEF IInv, OneFork, exit_zombie, At, GoTo
  <2>9. Parents'
    BY <1>5 DEF IInv, OnStack, Parents, Kids, Alive, exit_zombie, At, GoTo
  <2>10. Waking'
    BY <1>5 DEF IInv, WaitLock, HoldsWait, Waking, Zombies, Kids, exit_zombie,
      At, GoTo
  <2> QED
    BY <2>1, <2>2, <2>3, <2>4, <2>5, <2>6, <2>7, <2>8, <2>9, <2>10 DEF IInv
<1> QED
  BY <1>1, <1>2, <1>3, <1>4, <1>5

LEMMA WaitStep ==
  ASSUME IInv,
         NEW s \in Slot,
         wait(s) \/ wait_acquire(s) \/ wait_reap(s) \/ wait_fault(s) \/ wait_none(s) \/ sleep(s)
  PROVE  IInv'
<1> USE SlotFacts
<1>1. CASE wait(s)
  <2>1. ProcTypeOK'
    BY <1>1 DEF IInv, ProcTypeOK, PCs, wait, At, fields
  <2>2. Lifecycle'
    BY <1>1 DEF IInv, Lifecycle, Where, wait, At, fields
  <2>3. OnStack'
    BY <1>1 DEF IInv, OnStack, OnCPU, wait, At, fields
  <2>4. OneStack'
    BY <1>1 DEF IInv, OneStack, wait, At, fields
  <2>5. WaitLock'
    BY <1>1 DEF IInv, WaitLock, HoldsWait, wait, At, fields
  <2>6. InitStays'
    BY <1>1 DEF IInv, InitStays, Exiting, Where, wait, At, fields
  <2>7. Forking'
    BY <1>1 DEF IInv, Forking, InFork, Where, wait, At, fields
  <2>8. OneFork'
    BY <1>1 DEF IInv, OneFork, wait, At, fields
  <2>9. Parents'
    BY <1>1 DEF IInv, Parents, Kids, wait, At, fields
  <2>10. Waking'
    BY <1>1 DEF IInv, Waking, Zombies, Kids, wait, At, fields
  <2> QED
    BY <2>1, <2>2, <2>3, <2>4, <2>5, <2>6, <2>7, <2>8, <2>9, <2>10 DEF IInv
<1>2. CASE wait_acquire(s)
  <2>1. ProcTypeOK'
    BY <1>2 DEF IInv, ProcTypeOK, PCs, wait_acquire, At, fields
  <2>2. Lifecycle'
    BY <1>2 DEF IInv, Lifecycle, Where, wait_acquire, At, fields
  <2>3. OnStack'
    BY <1>2 DEF IInv, OnStack, OnCPU, wait_acquire, At, fields
  <2>4. OneStack'
    BY <1>2 DEF IInv, OneStack, wait_acquire, At, fields
  <2>5. WaitLock'
    BY <1>2 DEF IInv, ProcTypeOK, WaitLock, HoldsWait, wait_acquire, At, fields
  <2>6. InitStays'
    BY <1>2 DEF IInv, InitStays, Exiting, Where, wait_acquire, At, fields
  <2>7. Forking'
    BY <1>2 DEF IInv, Forking, InFork, Where, wait_acquire, At, fields
  <2>8. OneFork'
    BY <1>2 DEF IInv, OneFork, wait_acquire, At, fields
  <2>9. Parents'
    BY <1>2 DEF IInv, WaitLock, HoldsWait, Parents, wait_acquire, At, fields
  <2>10. Waking'
    BY <1>2 DEF IInv, Waking, Zombies, Kids, wait_acquire, At, fields
  <2> QED
    BY <2>1, <2>2, <2>3, <2>4, <2>5, <2>6, <2>7, <2>8, <2>9, <2>10 DEF IInv
<1>3. CASE wait_reap(s)
  <2>a. PICK q \in Slot : q \in Zombies(s) /\ ~plock[q] /\ freeproc(q)
    BY <1>3 DEF wait_reap, FirstZombie
  <2>b. parent[q] = s /\ state[q] = "ZOMBIE" /\ kpc[q] = "none" /\ q # s
    BY <1>3, <2>a DEF IInv, wait_reap, At, Lifecycle, OnStack, Zombies, Kids
  <2>c. /\ wait_lock' = None
        /\ kpc' = [kpc EXCEPT ![s] = "user"]
        /\ UNCHANGED <<plock, nextpid, cpu, ret, child, stopped>>
        /\ OnCPU(s) /\ kpc[s] = "wait_scan"
    BY <1>3 DEF wait_reap, At
  <2>1. ProcTypeOK'
    BY <1>3, <2>a, <2>b, <2>c DEF IInv, ProcTypeOK, States, PCs, freeproc
  <2>2. Lifecycle'
    BY <1>3, <2>a, <2>b, <2>c DEF IInv, Lifecycle, Where, freeproc
  <2>3. OnStack'
    BY <1>3, <2>a, <2>b, <2>c DEF IInv, OnStack, OnCPU, freeproc
  <2>4. OneStack'
    BY <1>3, <2>a, <2>b, <2>c DEF IInv, OneStack, freeproc
  <2>5. WaitLock'
    BY <1>3, <2>a, <2>b, <2>c DEF IInv, ProcTypeOK, WaitLock, HoldsWait, freeproc
  <2>6. InitStays'
    BY <1>3, <2>a, <2>b, <2>c DEF IInv, InitStays, Alive, Exiting, Where,
      freeproc
  <2>7. Forking'
    BY <1>3, <2>a, <2>b, <2>c DEF IInv, Forking, InFork, Where, freeproc
  <2>8. OneFork'
    BY <1>3, <2>a, <2>b, <2>c DEF IInv, OneFork, freeproc
  <2>9. Parents'
    BY <1>3, <2>a, <2>b, <2>c DEF IInv, ProcTypeOK, WaitLock, HoldsWait, Parents,
      Alive, freeproc
  <2>10. Waking'
    BY <1>3, <2>a, <2>b, <2>c DEF IInv, Waking, Zombies, Kids, freeproc
  <2> QED
    BY <2>1, <2>2, <2>3, <2>4, <2>5, <2>6, <2>7, <2>8, <2>9, <2>10 DEF IInv
<1>4. CASE wait_fault(s)
  <2>1. ProcTypeOK'
    BY <1>4 DEF IInv, ProcTypeOK, PCs, wait_fault, At, fields
  <2>2. Lifecycle'
    BY <1>4 DEF IInv, Lifecycle, Where, wait_fault, At, fields
  <2>3. OnStack'
    BY <1>4 DEF IInv, OnStack, OnCPU, wait_fault, At, fields
  <2>4. OneStack'
    BY <1>4 DEF IInv, OneStack, wait_fault, At, fields
  <2>5. WaitLock'
    BY <1>4 DEF IInv, ProcTypeOK, WaitLock, HoldsWait, wait_fault, At, fields
  <2>6. InitStays'
    BY <1>4 DEF IInv, InitStays, Where, wait_fault, At, fields
  <2>7. Forking'
    BY <1>4 DEF IInv, Forking, InFork, Where, wait_fault, At, fields
  <2>8. OneFork'
    BY <1>4 DEF IInv, OneFork, wait_fault, At, fields
  <2>9. Parents'
    BY <1>4 DEF IInv, WaitLock, HoldsWait, Parents, wait_fault, At, fields
  <2>10. Waking'
    BY <1>4 DEF IInv, Waking, Zombies, Kids, wait_fault, At, fields
  <2> QED
    BY <2>1, <2>2, <2>3, <2>4, <2>5, <2>6, <2>7, <2>8, <2>9, <2>10 DEF IInv
<1>5. CASE wait_none(s)
  <2>1. ProcTypeOK'
    BY <1>5 DEF IInv, ProcTypeOK, PCs, wait_none, At, fields
  <2>2. Lifecycle'
    BY <1>5 DEF IInv, ProcTypeOK, Lifecycle, Where, wait_none, At, fields
  <2>3. OnStack'
    BY <1>5 DEF IInv, ProcTypeOK, OnStack, OnCPU, wait_none, At, fields
  <2>4. OneStack'
    BY <1>5 DEF IInv, OneStack, wait_none, At, fields
  <2>5. WaitLock'
    BY <1>5 DEF IInv, ProcTypeOK, WaitLock, HoldsWait, wait_none, At, fields
  <2>6. InitStays'
    BY <1>5 DEF IInv, ProcTypeOK, InitStays, Exiting, Where, wait_none, At, fields
  <2>7. Forking'
    BY <1>5 DEF IInv, ProcTypeOK, Forking, InFork, Where, wait_none, At, fields
  <2>8. OneFork'
    BY <1>5 DEF IInv, OneFork, wait_none, At, fields
  <2>9. Parents'
    BY <1>5 DEF IInv, ProcTypeOK, WaitLock, HoldsWait, Parents, wait_none, At,
      fields
  <2>10. Waking'
    BY <1>5 DEF IInv, ProcTypeOK, Waking, Zombies, Kids, wait_none, At, fields
  <2> QED
    BY <2>1, <2>2, <2>3, <2>4, <2>5, <2>6, <2>7, <2>8, <2>9, <2>10 DEF IInv
<1>6. CASE sleep(s)
  <2>1. ProcTypeOK'
    BY <1>6 DEF IInv, ProcTypeOK, States, PCs, Preemptible, sleep, At, GoTo
  <2>2. Lifecycle'
    BY <1>6 DEF IInv, ProcTypeOK, Lifecycle, Where, sleep, At, GoTo
  <2>3. OnStack'
    BY <1>6 DEF IInv, ProcTypeOK, OnStack, OnCPU, sleep, At, GoTo
  <2>4. OneStack'
    BY <1>6 DEF IInv, OneStack, sleep, At, GoTo
  <2>5. WaitLock'
    BY <1>6 DEF IInv, ProcTypeOK, WaitLock, HoldsWait, sleep, At, GoTo
  <2>6. InitStays'
    BY <1>6 DEF IInv, ProcTypeOK, InitStays, Alive, Exiting, Where, sleep, At, GoTo
  <2>7. Forking'
    BY <1>6 DEF IInv, ProcTypeOK, Lifecycle, Forking, InFork, Where, sleep, At, GoTo
  <2>8. OneFork'
    BY <1>6 DEF IInv, OneFork, sleep, At, GoTo
  <2>9. Parents'
    BY <1>6 DEF IInv, OnStack, WaitLock, HoldsWait, Parents, Alive, sleep, At,
      GoTo
  <2>10. Waking'
    BY <1>6 DEF IInv, ProcTypeOK, WaitLock, HoldsWait, Waking, Zombies, Kids, sleep,
      At, GoTo
  <2> QED
    BY <2>1, <2>2, <2>3, <2>4, <2>5, <2>6, <2>7, <2>8, <2>9, <2>10 DEF IInv
<1> QED
  BY <1>1, <1>2, <1>3, <1>4, <1>5, <1>6

LEMMA KillStep ==
  ASSUME IInv,
         NEW s \in Slot, NEW k \in KillArgs,
         kill(s, k)
  PROVE  IInv'
<1> USE SlotFacts
<1>1. CASE kill(s, k)
  <2>1. ProcTypeOK'
    <3>1. signalled' \subseteq Slot \X Nat
      BY <1>1, ProcAssumption DEF IInv, ProcTypeOK, kill
    <3>2. state' \in [Slot -> States] /\ killed' \in [Slot -> BOOLEAN]
      BY <1>1 DEF IInv, ProcTypeOK, States, kill
    <3> QED
      BY <1>1, <3>1, <3>2 DEF IInv, ProcTypeOK, PCs, kill
  <2>2. Lifecycle'
    BY <1>1 DEF IInv, Lifecycle, Where, kill, At
  <2>3. OnStack'
    BY <1>1 DEF IInv, OnStack, OnCPU, kill, At
  <2>4. OneStack'
    BY <1>1 DEF IInv, OneStack, kill, At
  <2>5. WaitLock'
    BY <1>1 DEF IInv, WaitLock, HoldsWait, kill, At
  <2>6. InitStays'
    BY <1>1 DEF IInv, InitStays, Alive, Exiting, Where, kill, At
  <2>7. Forking'
    BY <1>1 DEF IInv, Forking, InFork, Where, kill, At
  <2>8. OneFork'
    BY <1>1 DEF IInv, OneFork, kill, At
  <2>9. Parents'
    BY <1>1 DEF IInv, Parents, Kids, Alive, kill, At
  <2>10. Waking'
    BY <1>1 DEF IInv, Waking, Zombies, Kids, kill, At
  <2> QED
    BY <2>1, <2>2, <2>3, <2>4, <2>5, <2>6, <2>7, <2>8, <2>9, <2>10 DEF IInv
<1> QED
  BY <1>1

LEMMA NextIInv == IInv /\ [ProcNext]_procvars => IInv'
<1> SUFFICES ASSUME IInv, [ProcNext]_procvars PROVE IInv'
  OBVIOUS
<1>1. CASE UNCHANGED procvars
  BY <1>1 DEF procvars, fields, IInv, ProcTypeOK, Lifecycle, OnStack, OnCPU, OneStack,
    WaitLock, InitStays, Where, Forking, OneFork, Parents, Kids, Waking, Zombies
<1>2. CASE ProcNext
  BY <1>2, SwitchingStep, RunningStep, ForkStep, ExitStep, WaitStep, KillStep
    DEF ProcNext
<1> QED
  BY <1>1, <1>2

LEMMA Invariance == ProcSpec => []IInv
  BY InitIInv, NextIInv, PTL DEF ProcSpec

-----------------------------------------------------------------------------

\* A kernel stack is used by one CPU at a time, and no slot is freed under a CPU:
\* scheduler() takes a process only after sched() has released its p->lock, and so
\* does wait() (proc.c scheduler, sched, yield, exit, wait).
THEOREM StacksExclusive == ProcSpec => []StackExclusive
<1>1. IInv => StackExclusive
  BY DEF IInv, ProcTypeOK, Lifecycle, OnStack, OnCPU, OneStack, StackExclusive
<1> QED
  BY <1>1, Invariance, PTL

\* Every process that has started has a living parent to wait for it, and a parent
\* asleep in wait() has no zombie: exit(), reparent() and wait() agree on who waits
\* for whom because each holds wait_lock until it has made itself known.
THEOREM ChildrenWaited == ProcSpec => []ChildrenAreWaitedFor
<1>1. IInv => ChildrenAreWaitedFor
  BY DEF IInv, Parents, Waking, Alive, ChildrenAreWaitedFor
<1> QED
  BY <1>1, Invariance, PTL

-----------------------------------------------------------------------------

\* A free slot has no pid; a marked one was hit by kill() or by a fault, under its
\* present pid or, by kill(0), before it was taken.
Marks ==
  \A s \in Slot :
    /\ state[s] = "UNUSED" => pid[s] = 0
    /\ killed[s] => <<s, pid[s]>> \in signalled \/ <<s, 0>> \in signalled

\* The steps that neither take nor free a slot and do not signal leave the marks alone.
LEMMA MarksKept ==
  ASSUME Marks, UNCHANGED <<killed, pid, signalled>>,
         \A s \in Slot : state'[s] = "UNUSED" <=> state[s] = "UNUSED"
  PROVE  Marks'
  BY DEF Marks

LEMMA NextMarks ==
  ASSUME IInv, Marks, [ProcNext]_procvars
  PROVE  Marks'
<1> USE SlotFacts
<1>1. CASE UNCHANGED <<state, killed, pid, signalled>>
  BY <1>1 DEF Marks
<1>2. ASSUME NEW c \in CPU, NEW s \in Slot, scheduler(c, s)
      PROVE  Marks'
  BY <1>2, MarksKept DEF IInv, scheduler
<1>3. ASSUME NEW s \in Slot, yield(s) \/ exit_zombie(s) \/ sleep(s)
      PROVE  Marks'
  <2>1. state[s] = "RUNNING" \/ kpc[s] = "swtch"
    BY <1>3 DEF IInv, OnStack, yield, exit_zombie, sleep, At
  <2>2. state[s] # "UNUSED"
    BY <2>1 DEF IInv, Lifecycle
  <2> QED
    BY <1>3, <2>2, MarksKept DEF IInv, ProcTypeOK, yield, exit_zombie, sleep, GoTo
<1>4. ASSUME NEW s \in Slot, fork_run(s)
      PROVE  Marks'
  <2>1. child[s] \in Slot /\ state[child[s]] = "USED"
    BY <1>4 DEF IInv, ProcTypeOK, Forking, Where, InFork, fork_run, At
  <2> QED
    BY <1>4, <2>1, MarksKept DEF IInv, fork_run
<1>5. ASSUME NEW s \in Slot, reparent(s) \/ exit_wakeup(s)
      PROVE  Marks'
  BY <1>5, MarksKept DEF reparent, exit_wakeup, wakeup, Sleepers
<1>6. ASSUME NEW s \in Slot, NEW np \in Slot, fork(s, np)
      PROVE  Marks'
  BY <1>6 DEF IInv, ProcTypeOK, Marks, fork, allocproc, freeproc
<1>7. ASSUME NEW s \in Slot, wait_reap(s)
      PROVE  Marks'
  BY <1>7 DEF IInv, ProcTypeOK, Marks, wait_reap, freeproc
<1>8. ASSUME NEW s \in Slot, NEW k \in KillArgs, kill(s, k)
      PROVE  Marks'
  <2>1. PICK q \in Slot : /\ pid[q] = k
                          /\ killed' = [killed EXCEPT ![q] = TRUE]
                          /\ state' = [state EXCEPT ![q] = IF @ = "SLEEPING" THEN "RUNNABLE"
                                                           ELSE @]
                          /\ signalled' = signalled \cup {<<q, k>>}
    BY <1>8 DEF kill
  <2>2. pid' = pid
    BY <1>8 DEF kill
  <2> QED
    BY <2>1, <2>2 DEF IInv, ProcTypeOK, Marks
<1>9. ASSUME NEW s \in Slot,
             \/ resume(s) \/ usertrap(s) \/ fork_parent(s) \/ exit(s) \/ exit_lock(s) \/ wait(s)
             \/ wait_acquire(s) \/ wait_fault(s) \/ wait_none(s)
      PROVE  Marks'
  BY <1>1, <1>9 DEF fields, resume, usertrap, fork_parent, exit, exit_lock,
    wait, wait_acquire, wait_fault, wait_none
<1>10. ASSUME NEW c \in CPU, NEW s \in Slot, sched(c, s)
       PROVE  Marks'
  BY <1>1, <1>10 DEF fields, sched
<1>11. ASSUME NEW s \in Slot, setkilled(s)
       PROVE  Marks'
  BY <1>11 DEF IInv, ProcTypeOK, Marks, setkilled
<1> QED
  BY <1>1, <1>2, <1>3, <1>4, <1>5, <1>6, <1>7, <1>8, <1>9, <1>10, <1>11
    DEF ProcNext, procvars, fields

\* A process is marked killed only when it faulted or was named in a kill(), or when
\* kill(0) hit its slot since that was last freed: freeproc() clears every other mark
\* before the slot gets its next owner (proc.c kill, setkilled, allocproc, freeproc).
THEOREM MarksHaveCause == ProcSpec => []MarkedForCause
<1>1. ProcInit => Marks
  BY DEF ProcInit, Marks
<1>2. IInv /\ Marks /\ [ProcNext]_procvars => Marks'
  BY NextMarks
<1>3. Marks => MarkedForCause
  BY DEF Marks, MarkedForCause
<1> QED
  BY <1>1, <1>2, <1>3, Invariance, PTL DEF ProcSpec

-----------------------------------------------------------------------------
(***************************************************************************)
(* Paging: the inductive invariant, in parts.                              *)
(***************************************************************************)

PageRec == [base : Nat, last_acc : Nat, access_bit : {0, 1}]
PageAt == {"main", "setup", "loop", "read", "fault", "done", "failed"}

PageTypes ==
  /\ call \in Calls /\ at \in PageAt
  /\ i \in Nat /\ pos \in Nat /\ counter \in Nat /\ hand \in Nat
  /\ cache \in Seq(PageRec)
  /\ stats \in [total : Nat, faults : Nat, evictions : Nat]

\* A test routine stays inside the table; in the first workload an odd round looks at
\* the entry behind the one of the round before.
InTable ==
  /\ at \in {"main", "setup"} => i = 0
  /\ at \in {"read", "fault"} => pos < MAX_SQRTS
  /\ call.workload \notin {1, 2} /\ (IF i % 2 = 0 THEN at \in {"read", "fault"} ELSE at = "loop") => pos + 1 < MAX_SQRTS

\* One record per mapped page, and every page has its own square roots.
Bases == {cache[s].base : s \in 1 .. Len(cache)}
Mapping ==
  /\ at # "failed" => DOMAIN mem = Bases
  /\ \A q \in DOMAIN mem : q \in 0 .. NPages - 1 /\ mem[q] = q * PageLen
  /\ \A s, t \in 1 .. Len(cache) : cache[s].base = cache[t].base => s = t
  /\ at = "fault" => Page(pos) \notin DOMAIN mem

Counting ==
  /\ Len(cache) <= Slots \/ Len(cache) = 0
  /\ stats.evictions = stats.faults - Len(cache)
  /\ at \in {"main", "setup"} => stats.total = 0
  /\ at \in {"setup", "loop", "read", "fault", "done"} => Slots > 0
  /\ at = "failed" => Slots <= 0 \/ Slots > Limit \/ stats.total = 0

\* Slot s comes before slot t when one starts behind position h and goes round.
Before(s, t, h) == (s > h /\ t <= h) \/ (s < t /\ (s > h <=> t > h))

\* The slots from h on, once round, are in the order in which their pages came in, and
\* a page whose bit is not set came in before all that have it set.
Turn(h) ==
  /\ call.policy = "Clock" => hand = h
  /\ Slots > 0 => h < Slots
  /\ Len(cache) < Slots => h = 0
  /\ \A s, t \in 1 .. Len(cache) : Before(s, t, h) =>
       /\ cache[s].last_acc < cache[t].last_acc
       /\ call.policy = "Clock" /\ cache[s].access_bit = 1 => cache[t].access_bit = 1

Arrivals ==
  /\ \A s \in 1 .. Len(cache) : cache[s].last_acc <= counter
  /\ Len(cache) > 0 => \E v \in 1 .. Len(cache) : cache[v].last_acc = counter
  /\ call.policy # "MRU" => \E h \in Nat : Turn(h)

PInv == PageTypes /\ InTable /\ Mapping /\ Counting /\ Arrivals

-----------------------------------------------------------------------------
(***************************************************************************)
(* Paging: sizes and slots.                                                *)
(***************************************************************************)

LEMMA Entries ==
  /\ PageLen \in Nat \ {0} /\ NPages \in Nat \ {0} /\ MAX_SQRTS \in Nat /\ MAX_SQRTS > 1
  /\ Limit \in Nat /\ Rounds \in Nat /\ Stride \in Nat
<1>1. PageLen \in Nat \ {0} /\ NPages \in Nat \ {0} /\ Limit \in Nat /\ Rounds \in Nat /\ Stride \in Nat
  BY SizeAssumption
<1>2. NPages * PageLen > 1 /\ NPages * PageLen \in Nat
  BY <1>1, SizeAssumption
<1> QED
  BY <1>1, <1>2 DEF MAX_SQRTS

LEMMA CommandIs ==
  ASSUME PageTypes
  PROVE  /\ Slots \in Int /\ call.prog \in {"mmap1", "mmap2"} /\ call.policy \in {"LRU", "MRU", "Clock"}
         /\ call.prog = "mmap1" => Slots = 1
         /\ call.workload \in Int
<1>1. call \in [prog : {"mmap1", "mmap2"}, workload : Int, slots : Int, policy : {"LRU", "MRU", "Clock"}]
  BY CommandAssumption DEF PageTypes
<1> QED
  BY <1>1 DEF Slots

\* The page of an entry, and where the entry is in it.
LEMMA EntryIs ==
  ASSUME NEW n \in Nat, n < MAX_SQRTS
  PROVE  Page(n) \in 0 .. NPages - 1 /\ Page(n) * PageLen + (n % PageLen) = n /\ Page(n) * PageLen \in Nat
<1>1. PICK L \in Nat \ {0} : L = PageLen
  BY Entries
<1>2. PICK N \in Nat \ {0} : N = NPages
  BY Entries
<1>3. n % L \in 0 .. L - 1 /\ n \div L \in Int /\ n = L * (n \div L) + (n % L)
  BY ModDef
<1>4. PICK d \in Int : d = n \div L
  BY <1>3
<1>5. n < N * L
  BY <1>1, <1>2 DEF MAX_SQRTS
<1>6. n = L * d + (n % L) /\ n % L >= 0 /\ n % L < L /\ n % L \in Int
  BY <1>3, <1>4
<1>7. d >= 0
  <2>1. SUFFICES ASSUME d <= -1 PROVE FALSE
    OBVIOUS
  <2>2. L * d <= L * (-1)
    BY <2>1
  <2>3. L * (-1) = -L
    OBVIOUS
  <2> QED
    BY <1>6, <2>2, <2>3
<1>8. d < N
  <2>1. SUFFICES ASSUME d >= N PROVE FALSE
    OBVIOUS
  <2>2. L * d >= L * N
    BY <2>1
  <2>3. L * N = N * L
    OBVIOUS
  <2> QED
    BY <1>5, <1>6, <2>2, <2>3
<1>9. L * d = d * L /\ d * L \in Int
  OBVIOUS
<1>10. d * L >= 0
  BY <1>7
<1>11. Page(n) = d
  BY <1>1, <1>4 DEF Page
<1> QED
  BY <1>1, <1>2, <1>6, <1>7, <1>8, <1>9, <1>10, <1>11

\* The pages in the records are as many as the records.
LEMMA BasesAre ==
  ASSUME NEW c \in Seq(PageRec), \A s, t \in 1 .. Len(c) : c[s].base = c[t].base => s = t
  PROVE  LET B == {c[s].base : s \in 1 .. Len(c)} IN IsFiniteSet(B) /\ Cardinality(B) = Len(c)
<1>1. PICK B : B = {c[s].base : s \in 1 .. Len(c)}
  OBVIOUS
<1>2. PICK n \in Nat : n = Len(c)
  OBVIOUS
<1>3. PICK S : S = 1 .. n
  OBVIOUS
<1>4. IsFiniteSet(S) /\ Cardinality(S) = n
  BY <1>3, FS_Interval
<1>5. PICK f : f = [s \in S |-> c[s].base]
  OBVIOUS
<1>6. f \in [S -> B] /\ (\A b \in B : \E s \in S : f[s] = b) /\ (\A s, t \in S : f[s] = f[t] => s = t)
  BY <1>1, <1>2, <1>3, <1>5
<1>7. f \in Surjection(S, B)
  BY <1>6 DEF Surjection
<1>8. f \in Injection(S, B)
  BY <1>6 DEF Injection, IsInjective
<1>9. IsFiniteSet(B) /\ Cardinality(B) = Cardinality(S)
  BY <1>4, <1>7, <1>8, FS_Surjection
<1> QED
  BY <1>1, <1>2, <1>4, <1>9

LEMMA MaxIs ==
  ASSUME NEW n \in Int
  PROVE  Max({n, 0}) = IF n >= 0 THEN n ELSE 0
<1>1. PICK S : S = {n, 0}
  OBVIOUS
<1>2. PICK x : x = IF n >= 0 THEN n ELSE 0
  OBVIOUS
<1>3. x \in S /\ \A y \in S : x >= y
  BY <1>1, <1>2
<1>4. \A z \in S : (\A y \in S : z >= y) => z = x
  BY <1>1, <1>2, <1>3
<1>5. Max(S) \in S /\ \A y \in S : Max(S) >= y
  BY <1>3 DEF Max
<1> QED
  BY <1>1, <1>2, <1>4, <1>5

\* The first and the last steps of the clock hand.
LEMMA MinIs ==
  ASSUME NEW S \in SUBSET Int, NEW x \in S, \A y \in S : x <= y
  PROVE  Min(S) = x
<1>1. \A z \in S : (\A y \in S : z <= y) => z = x
  OBVIOUS
<1>2. Min(S) \in S /\ \A y \in S : Min(S) <= y
  BY DEF Min
<1> QED
  BY <1>1, <1>2

-----------------------------------------------------------------------------
(***************************************************************************)
(* Paging: the page that goes out.                                         *)
(***************************************************************************)

\* The clock hand changes nothing but bits.
LEMMA SweptIs ==
  ASSUME PageTypes
  PROVE  /\ Swept \in Seq(PageRec) /\ Len(Swept) = Len(cache)
         /\ \A s \in 1 .. Len(cache) : /\ Swept[s].base = cache[s].base /\ Swept[s].last_acc = cache[s].last_acc
                                       /\ Swept[s].access_bit = cache[s].access_bit \/ Swept[s].access_bit = 0
<1>1. PICK n \in Nat : n = Len(cache)
  BY DEF PageTypes
<1>2. \A s \in 1 .. n : cache[s] \in PageRec
  BY <1>1 DEF PageTypes
<1>3. PICK P : P = {s \in 1 .. n : Full /\ call.policy = "Clock" /\ \E k \in 0 .. Sweep - 1 : s = ((hand + k) % Slots) + 1}
  OBVIOUS
<1>4. PICK z : z = [s \in 1 .. n |-> IF s \in P THEN [cache[s] EXCEPT !.access_bit = 0] ELSE cache[s]]
  OBVIOUS
<1>5. \A s \in 1 .. n : s \in P <=> (Full /\ call.policy = "Clock" /\ \E k \in 0 .. Sweep - 1 : s = ((hand + k) % Slots) + 1)
  BY <1>3
<1>6. Swept = z
  BY <1>1, <1>4, <1>5 DEF Swept
<1>7. \A s \in 1 .. n : z[s] \in PageRec /\ z[s].base = cache[s].base /\ z[s].last_acc = cache[s].last_acc
                        /\ (z[s].access_bit = cache[s].access_bit \/ z[s].access_bit = 0)
  BY <1>2, <1>4 DEF PageRec
<1>8. z \in Seq(PageRec) /\ Len(z) = n
  <2>1. z \in [1 .. n -> PageRec]
    <3>1. DOMAIN z = 1 .. n /\ z = [s \in DOMAIN z |-> z[s]]
      BY <1>4
    <3> QED
      BY <1>7, <3>1
  <2>2. z \in Seq(PageRec)
    BY <2>1
  <2> QED
    BY <2>1, <2>2
<1> QED
  BY <1>1, <1>6, <1>7, <1>8

\* A full cache has a page in every slot.
LEMMA AllSlots ==
  ASSUME PageTypes, Counting, Slots > 0, Full
  PROVE  Slots \in Nat \ {0} /\ Len(cache) = Slots /\ \A s \in 1 .. Slots : cache[s] \in PageRec
<1>1. Slots \in Int /\ Len(cache) \in Nat
  BY CommandIs DEF PageTypes
<1>2. Len(cache) = Slots
  BY <1>1 DEF Full, Counting
<1> QED
  BY <1>1, <1>2 DEF PageTypes

\* A page whose bit is not set stops the hand at once; if there is none it goes round
\* once and clears every bit.
LEMMA SweepIs ==
  ASSUME PageTypes, Counting, Slots > 0, Full, call.policy = "Clock", Turn(hand)
  PROVE  /\ hand < Slots
         /\ cache[hand + 1].access_bit = 0 => Sweep = 0
         /\ cache[hand + 1].access_bit = 1 => Sweep = Slots
<1>1. PICK S \in Nat \ {0} : S = Slots
  BY AllSlots
<1>2. PICK h \in Nat : h = hand
  BY DEF PageTypes
<1>3. h < S
  BY <1>1, <1>2 DEF Turn
<1>4. \A s \in 1 .. S : cache[s] \in PageRec
  BY <1>1, AllSlots
<1>5. PICK K : K = {k \in 0 .. S : k = S \/ cache[((h + k) % S) + 1].access_bit = 0}
  OBVIOUS
<1>6. Sweep = Min(K)
  BY <1>1, <1>2, <1>5 DEF Sweep
<1>7. K \in SUBSET Int /\ \A k \in K : k >= 0 /\ k <= S
  BY <1>5
<1>8. ASSUME cache[h + 1].access_bit = 0 PROVE Sweep = 0
  <2>1. (h + 0) % S = h
    BY <1>3, ModSmall
  <2>2. 0 \in K
    BY <1>5, <1>8, <2>1
  <2> QED
    BY <1>6, <1>7, <2>2, MinIs
<1>9. ASSUME cache[h + 1].access_bit = 1 PROVE Sweep = S
  <2>1. \A s \in 1 .. S : cache[s].access_bit = 1
    <3>1. TAKE s \in 1 .. S
    <3>2. CASE s = h + 1
      BY <1>9, <3>2
    <3>3. CASE s # h + 1
      <4>1. h + 1 \in 1 .. S /\ Before(h + 1, s, h)
        BY <1>3, <3>3 DEF Before
      <4> QED
        BY <1>1, <1>2, <1>9, <4>1, AllSlots DEF Turn
    <3> QED
      BY <3>2, <3>3
  <2>2. ASSUME NEW k \in K PROVE k = S
    <3>1. k \in Int
      BY <1>5, <2>2
    <3>2. PICK m \in 0 .. S - 1 : m = (h + k) % S
      BY <3>1, ModDef
    <3>3. cache[m + 1].access_bit = 1
      BY <2>1, <3>2
    <3> QED
      BY <1>5, <2>2, <3>2, <3>3
  <2>3. S \in K
    BY <1>5
  <2> QED
    BY <1>6, <1>7, <2>2, <2>3, MinIs
<1> QED
  BY <1>1, <1>2, <1>3, <1>8, <1>9

\* The slot behind the hand comes round last.
LEMMA NextSlot ==
  ASSUME NEW S \in Nat \ {0}, NEW h \in Nat, h < S
  PROVE  /\ (h + 1) % S = IF h + 1 = S THEN 0 ELSE h + 1
         /\ (h + S + 1) % S = IF h + 1 = S THEN 0 ELSE h + 1
         /\ (h + S) % S = h /\ (h + 0) % S = h
<1>1. h % S = h /\ (h + S) % S = h
  <2>1. h + S \in S .. 2 * S - 1
    OBVIOUS
  <2> QED
    BY <2>1, ModSmall, ModOnce
<1>2. CASE h + 1 < S
  <2>1. h + 1 \in 0 .. S - 1 /\ h + S + 1 \in S .. 2 * S - 1
    BY <1>2
  <2>2. (h + 1) % S = h + 1
    BY <2>1, ModSmall
  <2>3. PICK a \in S .. 2 * S - 1 : a = h + S + 1
    BY <2>1
  <2>4. a % S = a - S
    BY <2>3, ModOnce
  <2> QED
    BY <1>1, <1>2, <2>2, <2>3, <2>4
<1>3. CASE h + 1 = S
  <2>1. h + 1 = S * 1 + 0 /\ h + S + 1 = S * 2 + 0 /\ 0 \in 0 .. S - 1
    BY <1>3
  <2>2. (S * 1 + 0) % S = 0 /\ (S * 2 + 0) % S = 0
    BY <2>1, ModUnique
  <2> QED
    BY <1>1, <1>3, <2>1, <2>2
<1> QED
  BY <1>1, <1>2, <1>3

\* Under LRU and Clock the page behind the hand is given up, and the hand moves on.
LEMMA OldestIs ==
  ASSUME PageTypes, Counting, Slots > 0, Full, NEW h \in Nat, Turn(h), call.policy # "MRU"
  PROVE  /\ Victim = h + 1 /\ h < Slots
         /\ call.policy = "Clock" => (hand + Sweep + 1) % Slots = IF h + 1 = Slots THEN 0 ELSE h + 1
<1>1. PICK S \in Nat \ {0} : S = Slots
  BY AllSlots
<1>2. h < S
  BY <1>1 DEF Turn
<1>3. call.prog = "mmap1" => h = 0
  BY <1>1, <1>2, CommandIs
<1>4. ASSUME call.policy = "Clock"
      PROVE  ((hand + Sweep) % S) + 1 = h + 1 /\ (hand + Sweep + 1) % S = IF h + 1 = S THEN 0 ELSE h + 1
  <2>1. hand = h
    BY <1>4 DEF Turn
  <2>2. cache[h + 1].access_bit \in {0, 1}
    <3>1. cache[h + 1] \in PageRec
      BY <1>1, <1>2, AllSlots
    <3> QED
      BY <3>1 DEF PageRec
  <2>3. Sweep = 0 \/ Sweep = S
    BY <1>1, <1>4, <2>1, <2>2, SweepIs
  <2>4. CASE Sweep = 0
    <3>1. hand + Sweep = h + 0 /\ hand + Sweep + 1 = h + 1
      BY <2>1, <2>4
    <3> QED
      BY <1>2, <3>1, NextSlot
  <2>5. CASE Sweep = S
    <3>1. PICK a \in Int, b \in Int : a = h + S /\ b = h + S + 1
      OBVIOUS
    <3>2. hand + Sweep = a /\ hand + Sweep + 1 = b
      BY <2>1, <2>5, <3>1
    <3>3. a % S = h /\ b % S = IF h + 1 = S THEN 0 ELSE h + 1
      BY <1>2, <3>1, NextSlot
    <3> QED
      BY <3>2, <3>3
  <2> QED
    BY <2>3, <2>4, <2>5
<1>5. ASSUME call.policy = "LRU"
      PROVE  (CHOOSE v \in 1 .. S : \A w \in 1 .. S : cache[v].last_acc <= cache[w].last_acc) = h + 1
  <2>1. \A w \in 1 .. S : w # h + 1 => cache[h + 1].last_acc < cache[w].last_acc
    <3>1. TAKE w \in 1 .. S
    <3>2. HAVE w # h + 1
    <3>3. h + 1 \in 1 .. S /\ Before(h + 1, w, h)
      BY <1>2, <3>2 DEF Before
    <3> QED
      BY <1>1, <3>3, AllSlots DEF Turn
  <2>2. \A w \in 1 .. S : cache[w].last_acc \in Nat
    BY <1>1, AllSlots DEF PageRec
  <2>3. h + 1 \in 1 .. S /\ \A w \in 1 .. S : cache[h + 1].last_acc <= cache[w].last_acc
    BY <1>2, <2>1, <2>2
  <2>4. \A v \in 1 .. S : (\A w \in 1 .. S : cache[v].last_acc <= cache[w].last_acc) => v = h + 1
    BY <2>1, <2>2, <2>3
  <2>5. PICK x : x = CHOOSE v \in 1 .. S : \A w \in 1 .. S : cache[v].last_acc <= cache[w].last_acc
    OBVIOUS
  <2>6. x \in 1 .. S /\ \A w \in 1 .. S : cache[x].last_acc <= cache[w].last_acc
    BY <2>3, <2>5
  <2> QED
    BY <2>4, <2>5, <2>6
<1>6. call.policy \in {"LRU", "Clock"}
  BY CommandIs
<1>7. CASE call.prog = "mmap1"
  BY <1>1, <1>2, <1>3, <1>4, <1>7 DEF Victim
<1>8. CASE call.prog # "mmap1" /\ call.policy = "LRU"
  BY <1>1, <1>2, <1>5, <1>8 DEF Victim
<1>9. CASE call.prog # "mmap1" /\ call.policy = "Clock"
  BY <1>1, <1>2, <1>4, <1>9 DEF Victim
<1> QED
  BY <1>6, <1>7, <1>8, <1>9

\* Under MRU it is a page that came in last.
LEMMA NewestIs ==
  ASSUME PageTypes, Counting, Arrivals, Slots > 0, Full, call.policy = "MRU"
  PROVE  Victim \in 1 .. Slots /\ \A w \in 1 .. Slots : cache[Victim].last_acc >= cache[w].last_acc
<1>1. PICK S \in Nat \ {0} : S = Slots
  BY AllSlots
<1>2. \A w \in 1 .. S : cache[w].last_acc \in Nat /\ cache[w].last_acc <= counter
  BY <1>1, AllSlots DEF PageRec, Arrivals
<1>3. CASE call.prog = "mmap1"
  <2>1. S = 1
    BY <1>1, <1>3, CommandIs
  <2> QED
    BY <1>1, <1>2, <1>3, <2>1 DEF Victim
<1>4. CASE call.prog # "mmap1"
  <2>1. PICK x : x = CHOOSE v \in 1 .. S : \A w \in 1 .. S : cache[v].last_acc >= cache[w].last_acc
    OBVIOUS
  <2>2. PICK v \in 1 .. S : cache[v].last_acc = counter
    BY <1>1, AllSlots DEF Arrivals
  <2>3. \A w \in 1 .. S : cache[v].last_acc >= cache[w].last_acc
    BY <1>2, <2>2 DEF PageTypes
  <2>4. x \in 1 .. S /\ \A w \in 1 .. S : cache[x].last_acc >= cache[w].last_acc
    BY <2>1, <2>3
  <2>5. Victim = x
    BY <1>1, <1>4, <2>1 DEF Victim
  <2> QED
    BY <1>1, <2>4, <2>5
<1> QED
  BY <1>3, <1>4

\* The victim of each policy.
LEMMA VictimIs ==
  ASSUME PageTypes, Counting, Arrivals, Slots > 0, Full
  PROVE  /\ Victim \in 1 .. Slots
         /\ \A w \in 1 .. Slots : IF call.policy = "MRU" THEN cache[Victim].last_acc >= cache[w].last_acc
                                  ELSE cache[Victim].last_acc <= cache[w].last_acc
<1>1. CASE call.policy = "MRU"
  BY <1>1, NewestIs
<1>2. CASE call.policy # "MRU"
  <2>1. PICK h \in Nat : Turn(h)
    BY <1>2 DEF Arrivals
  <2>2. PICK S \in Nat \ {0} : S = Slots
    BY AllSlots
  <2>3. Victim = h + 1 /\ h < S
    BY <1>2, <2>1, <2>2, OldestIs
  <2>4. \A w \in 1 .. S : cache[w].last_acc \in Nat
    BY <2>2, AllSlots DEF PageRec
  <2>5. ASSUME NEW w \in 1 .. S PROVE cache[h + 1].last_acc <= cache[w].last_acc
    <3>1. CASE w = h + 1
      BY <2>4, <3>1
    <3>2. CASE w # h + 1
      <4>1. h + 1 \in 1 .. S /\ Before(h + 1, w, h)
        BY <2>3, <3>2 DEF Before
      <4>2. cache[h + 1].last_acc < cache[w].last_acc
        BY <2>1, <2>2, <4>1, AllSlots DEF Turn
      <4> QED
        BY <2>4, <4>1, <4>2
    <3> QED
      BY <3>1, <3>2
  <2> QED
    BY <1>2, <2>2, <2>3, <2>5
<1> QED
  BY <1>1, <1>2

-----------------------------------------------------------------------------
(***************************************************************************)
(* Paging: the fault handler.                                              *)
(***************************************************************************)

LEMMA EntryRec ==
  ASSUME PageTypes, NEW page \in Nat
  PROVE  /\ Entry(page) \in PageRec /\ Entry(page).base = page /\ Entry(page).last_acc = counter + 1
         /\ call.policy = "Clock" => Entry(page).access_bit = 1
<1>1. counter + 1 \in Nat
  BY DEF PageTypes
<1> QED
  BY <1>1 DEF Entry, PageRec

\* What the handler knows when it starts.
LEMMA FaultStart ==
  ASSUME PInv, at = "fault"
  PROVE  /\ Slots \in Nat \ {0} /\ Len(cache) \in Nat /\ Len(cache) <= Slots
         /\ pos < MAX_SQRTS /\ Page(pos) \in Nat /\ Page(pos) \in 0 .. NPages - 1
         /\ Page(pos) \notin Bases /\ DOMAIN mem = Bases
<1>1. Slots \in Int /\ Slots > 0 /\ Len(cache) \in Nat /\ Len(cache) <= Slots
  BY CommandIs DEF PInv, PageTypes, Counting
<1>2. pos \in Nat /\ pos < MAX_SQRTS
  BY DEF PInv, PageTypes, InTable
<1>3. Page(pos) \in 0 .. NPages - 1
  BY <1>2, EntryIs
<1>4. NPages \in Nat
  BY Entries
<1>5. DOMAIN mem = Bases /\ Page(pos) \notin DOMAIN mem
  BY DEF PInv, Mapping
<1> QED
  BY <1>1, <1>2, <1>3, <1>4, <1>5

\* The records when a page has gone out ...
LEMMA EvictIs ==
  ASSUME PInv, load_page, Full
  PROVE  /\ Victim \in 1 .. Len(cache) /\ cache' \in Seq(PageRec) /\ Len(cache') = Len(cache)
         /\ cache'[Victim] = Entry(Page(pos))
         /\ \A s \in 1 .. Len(cache) : s # Victim => cache'[s] = Swept[s]
<1>1. at = "fault" /\ cache' = [Swept EXCEPT ![Victim] = Entry(Page(pos))]
  BY DEF load_page
<1>2. Slots \in Nat \ {0} /\ Len(cache) = Slots
  BY <1>1, FaultStart, AllSlots DEF PInv
<1>3. PICK v \in 1 .. Len(cache) : v = Victim
  BY <1>2, VictimIs DEF PInv
<1>4. PICK z \in Seq(PageRec) : z = Swept /\ Len(z) = Len(cache)
  BY SweptIs DEF PInv
<1>5. PICK e \in PageRec : e = Entry(Page(pos))
  BY <1>1, FaultStart, EntryRec DEF PInv
<1>6. cache' = [z EXCEPT ![v] = e]
  BY <1>1, <1>3, <1>4, <1>5
<1>7. cache' \in Seq(PageRec) /\ Len(cache') = Len(z) /\ cache'[v] = e /\ \A s \in 1 .. Len(z) : s # v => cache'[s] = z[s]
  BY <1>3, <1>4, <1>6
<1> QED
  BY <1>3, <1>4, <1>5, <1>7

\* ... and when there was room.
LEMMA RoomIs ==
  ASSUME PInv, load_page, ~Full
  PROVE  /\ Len(cache) < Slots /\ cache' \in Seq(PageRec) /\ Len(cache') = Len(cache) + 1
         /\ cache'[Len(cache) + 1] = Entry(Page(pos))
         /\ \A s \in 1 .. Len(cache) : cache'[s] = cache[s]
<1>1. at = "fault" /\ cache' = Append(cache, Entry(Page(pos)))
  BY DEF load_page
<1>2. Slots \in Nat \ {0} /\ Len(cache) \in Nat
  BY <1>1, FaultStart
<1>3. PICK e \in PageRec : e = Entry(Page(pos))
  BY <1>1, FaultStart, EntryRec DEF PInv
<1>4. cache \in Seq(PageRec) /\ cache' = Append(cache, e)
  BY <1>1, <1>3 DEF PInv, PageTypes
<1>5. Len(cache) < Slots
  BY <1>2 DEF Full
<1> QED
  BY <1>3, <1>4, <1>5

LEMMA FaultCounts ==
  ASSUME PInv, load_page
  PROVE  /\ stats' \in [total : Nat, faults : Nat, evictions : Nat]
         /\ stats'.total = stats.total /\ stats'.faults = stats.faults + 1
         /\ stats'.evictions = IF Full THEN stats.evictions + 1 ELSE stats.evictions
<1>1. stats \in [total : Nat, faults : Nat, evictions : Nat]
  BY DEF PInv, PageTypes
<1>2. PICK f \in Nat : f = stats.faults + 1
  BY <1>1
<1>3. PICK d \in Nat : d = IF Full THEN stats.evictions + 1 ELSE stats.evictions
  BY <1>1
<1>4. stats' = [stats EXCEPT !.faults = f, !.evictions = d]
  BY <1>2, <1>3 DEF load_page
<1> QED
  BY <1>1, <1>2, <1>3, <1>4

LEMMA FaultTypes ==
  ASSUME PInv, load_page
  PROVE  PageTypes' /\ InTable'
<1>1. at = "fault" /\ call' = call /\ i' = i /\ pos' = pos /\ at' \in {"read", "failed"} /\ counter' = counter + 1
  BY DEF load_page
<1>2. InTable'
  BY <1>1 DEF PInv, InTable, MAX_SQRTS
<1>3. cache' \in Seq(PageRec)
  BY EvictIs, RoomIs
<1>4. hand' \in Nat
  <2>1. CASE Full /\ call.policy = "Clock"
    <3>1. hand' = (hand + Sweep + 1) % Slots
      BY <2>1 DEF load_page
    <3>2. PICK h \in Nat : Turn(h)
      BY <2>1 DEF PInv, Arrivals
    <3>3. Slots > 0
      BY <1>1, FaultStart
    <3>4. hand' = IF h + 1 = Slots THEN 0 ELSE h + 1
      BY <2>1, <3>1, <3>2, <3>3, OldestIs DEF PInv
    <3> QED
      BY <3>4
  <2>2. CASE ~(Full /\ call.policy = "Clock")
    BY <2>2 DEF load_page, PInv, PageTypes
  <2> QED
    BY <2>1, <2>2
<1>5. stats' \in [total : Nat, faults : Nat, evictions : Nat]
  BY FaultCounts
<1> QED
  BY <1>1, <1>2, <1>3, <1>4, <1>5 DEF PInv, PageTypes, PageAt

\* The memory once the victim is unmapped, and how much of it there is.
LEMMA UnmappedIs ==
  ASSUME PInv, at = "fault"
  PROVE  /\ DOMAIN Unmapped = IF Full THEN Bases \ {cache[Victim].base} ELSE Bases
         /\ \A q \in DOMAIN Unmapped : Unmapped[q] = mem[q]
         /\ Cardinality(DOMAIN Unmapped) \in Nat
         /\ Cardinality(DOMAIN Unmapped) < Slots
<1>1. PICK n \in Nat : n = Len(cache)
  BY FaultStart
<1>2. PICK S \in Nat \ {0} : S = Slots
  BY FaultStart
<1>3. n <= S
  BY <1>1, <1>2, FaultStart
<1>4. DOMAIN mem = Bases
  BY FaultStart
<1>5. PICK B : B = Bases
  OBVIOUS
<1>6. IsFiniteSet(B) /\ Cardinality(B) = n
  BY <1>1, <1>5, BasesAre DEF Bases, PInv, PageTypes, Mapping
<1>7. CASE Full
  <2>1. n = S
    BY <1>1, <1>2, <1>7, AllSlots DEF PInv
  <2>2. Victim \in 1 .. n
    BY <1>2, <1>7, <2>1, VictimIs DEF PInv
  <2>3. PICK b : b = cache[Victim].base
    OBVIOUS
  <2>4. b \in B
    BY <1>1, <1>5, <2>2, <2>3 DEF Bases
  <2>5. Unmapped = [q \in B \ {b} |-> mem[q]]
    BY <1>4, <1>5, <1>7, <2>3 DEF Unmapped
  <2>6. IsFiniteSet(B \ {b}) /\ Cardinality(B \ {b}) = n - 1
    BY <1>6, <2>4, FS_RemoveElement
  <2>7. PICK U : U = Unmapped
    OBVIOUS
  <2>8. DOMAIN U = B \ {b} /\ \A q \in B \ {b} : U[q] = mem[q]
    BY <2>5, <2>7
  <2>9. n - 1 \in Nat /\ n - 1 < S
    BY <2>1
  <2> QED
    BY <1>2, <1>5, <1>7, <2>3, <2>6, <2>7, <2>8, <2>9
<1>8. CASE ~Full
  <2>1. Unmapped = mem
    BY <1>8 DEF Unmapped
  <2>2. n < S
    BY <1>1, <1>2, <1>8 DEF Full
  <2> QED
    BY <1>2, <1>4, <1>5, <1>6, <1>8, <2>1, <2>2
<1> QED
  BY <1>7, <1>8

\* The pages in the records: the victim's is replaced by the one that came in.
LEMMA BasesNow ==
  ASSUME PInv, load_page
  PROVE  /\ Bases' = DOMAIN Unmapped \cup {Page(pos)}
         /\ \A s, t \in 1 .. Len(cache') : cache'[s].base = cache'[t].base => s = t
<1>1. at = "fault"
  BY DEF load_page
<1>2. PICK p \in Nat : p = Page(pos)
  BY <1>1, FaultStart
<1>3. p \notin Bases
  BY <1>1, <1>2, FaultStart
<1>4. PICK e : e = Entry(p) /\ e.base = p
  BY <1>2, EntryRec DEF PInv
<1>5. PICK n \in Nat : n = Len(cache)
  BY <1>1, FaultStart
<1>6. \A s \in 1 .. n : cache[s].base # p
  BY <1>3, <1>5 DEF Bases
<1>7. \A s, t \in 1 .. n : cache[s].base = cache[t].base => s = t
  BY <1>5 DEF PInv, Mapping
<1>8. Bases = {cache[s].base : s \in 1 .. n}
  BY <1>5 DEF Bases
<1>9. CASE Full
  <2>1. PICK v \in 1 .. n : v = Victim
    BY <1>5, <1>9, EvictIs
  <2>2. Len(cache') = n /\ cache'[v].base = p
    BY <1>2, <1>4, <1>5, <1>9, <2>1, EvictIs
  <2>3. \A s \in 1 .. n : s # v => cache'[s].base = cache[s].base
    BY <1>5, <1>9, <2>1, EvictIs, SweptIs DEF PInv
  <2>4. Bases' = {cache'[s].base : s \in 1 .. n}
    BY <2>2 DEF Bases
  <2>5. Bases' = (Bases \ {cache[v].base}) \cup {p}
    BY <1>7, <1>8, <2>2, <2>3, <2>4
  <2>6. \A s, t \in 1 .. n : cache'[s].base = cache'[t].base => s = t
    BY <1>6, <1>7, <2>2, <2>3
  <2>7. DOMAIN Unmapped = Bases \ {cache[v].base}
    BY <1>1, <1>9, <2>1, UnmappedIs
  <2> QED
    BY <1>2, <2>2, <2>5, <2>6, <2>7
<1>10. CASE ~Full
  <2>1. Len(cache') = n + 1 /\ cache'[n + 1].base = p
    BY <1>2, <1>4, <1>5, <1>10, RoomIs
  <2>2. \A s \in 1 .. n : cache'[s].base = cache[s].base
    BY <1>5, <1>10, RoomIs
  <2>3. Bases' = {cache'[s].base : s \in 1 .. n + 1}
    BY <2>1 DEF Bases
  <2>4. Bases' = Bases \cup {p}
    BY <1>8, <2>1, <2>2, <2>3
  <2>5. \A s, t \in 1 .. n + 1 : cache'[s].base = cache'[t].base => s = t
    BY <1>6, <1>7, <2>1, <2>2
  <2>6. DOMAIN Unmapped = Bases
    BY <1>1, <1>10, UnmappedIs
  <2> QED
    BY <1>2, <2>1, <2>4, <2>5, <2>6
<1> QED
  BY <1>9, <1>10

LEMMA FaultMapping ==
  ASSUME PInv, load_page
  PROVE  Mapping' /\ Counting'
<1>1. at = "fault" /\ call' = call /\ pos' = pos
  BY DEF load_page
<1>2. PICK p \in 0 .. NPages - 1 : p = Page(pos)
  BY <1>1, FaultStart
<1>3. PICK D : D = DOMAIN Unmapped
  OBVIOUS
<1>4. D \subseteq Bases /\ DOMAIN mem = Bases /\ \A q \in D : Unmapped[q] = mem[q]
  BY <1>1, <1>3, FaultStart, UnmappedIs
<1>5. \A q \in D : q \in 0 .. NPages - 1 /\ mem[q] = q * PageLen
  BY <1>4 DEF PInv, Mapping
<1>6. PICK c \in Nat : c = Cardinality(D)
  BY <1>1, <1>3, UnmappedIs
<1>7. c < Slots
  BY <1>1, <1>3, <1>6, UnmappedIs
<1>8. Slots' = Slots
  BY <1>1 DEF Slots
<1>9. Slots \in Nat \ {0} /\ Len(cache) \in Nat /\ Len(cache) <= Slots
  BY <1>1, FaultStart
<1>10. Bases' = D \cup {p} /\ \A s, t \in 1 .. Len(cache') : cache'[s].base = cache'[t].base => s = t
  BY <1>2, <1>3, BasesNow
<1>11. stats'.evictions = stats'.faults - Len(cache') /\ Len(cache') <= Slots
  <2>1. stats \in [total : Nat, faults : Nat, evictions : Nat] /\ stats.evictions = stats.faults - Len(cache)
    BY DEF PInv, PageTypes, Counting
  <2>2. CASE Full
    <3>1. Len(cache') = Len(cache)
      BY <2>2, EvictIs
    <3> QED
      BY <1>9, <2>1, <2>2, <3>1, FaultCounts
  <2>3. CASE ~Full
    <3>1. Len(cache') = Len(cache) + 1 /\ Len(cache) < Slots
      BY <2>3, RoomIs
    <3> QED
      BY <1>9, <2>1, <2>3, <3>1, FaultCounts
  <2> QED
    BY <2>2, <2>3
<1>12. CASE c < Limit
  <2>1. at' = "read"
    BY <1>3, <1>6, <1>12 DEF load_page
  <2>2. mem' = [q \in D \cup {p} |-> IF q = p THEN p * PageLen ELSE mem[q]]
    BY <1>2, <1>3, <1>6, <1>12 DEF load_page
  <2>3. PICK m : m = mem'
    OBVIOUS
  <2>4. DOMAIN m = D \cup {p} /\ \A q \in DOMAIN m : q \in 0 .. NPages - 1 /\ m[q] = q * PageLen
    BY <1>5, <2>2, <2>3
  <2>5. Mapping'
    BY <1>10, <2>1, <2>3, <2>4 DEF Mapping
  <2>6. Counting'
    BY <1>8, <1>9, <1>11, <2>1 DEF Counting
  <2> QED
    BY <2>5, <2>6
<1>13. CASE ~(c < Limit)
  <2>1. at' = "failed" /\ mem' = Unmapped
    BY <1>3, <1>6, <1>13 DEF load_page
  <2>2. \A q \in DOMAIN mem' : q \in 0 .. NPages - 1 /\ mem'[q] = q * PageLen
    BY <1>3, <1>4, <1>5, <2>1
  <2>3. Mapping'
    BY <1>10, <2>1, <2>2 DEF Mapping
  <2>4. Slots > Limit
    BY <1>6, <1>7, <1>9, <1>13, Entries
  <2>5. Counting'
    BY <1>8, <1>9, <1>11, <2>1, <2>4 DEF Counting
  <2> QED
    BY <2>3, <2>5
<1> QED
  BY <1>12, <1>13

\* Where the order starts after a fault: behind the slot of the page that came in.
LEMMA TurnFull ==
  ASSUME PInv, load_page, Full, call.policy # "MRU"
  PROVE  \E h \in Nat : Turn(h)'
<1>1. at = "fault" /\ call' = call
  BY DEF load_page
<1>2. PICK h \in Nat : Turn(h)
  BY DEF PInv, Arrivals
<1>3. PICK S \in Nat \ {0} : S = Slots /\ S = Len(cache)
  BY <1>1, FaultStart, AllSlots DEF PInv
<1>4. Victim = h + 1 /\ h < S
  BY <1>2, <1>3, OldestIs DEF PInv
<1>5. PICK g \in Nat : g = IF h + 1 = S THEN 0 ELSE h + 1
  OBVIOUS
<1>6. Len(cache') = S /\ cache'[h + 1] = Entry(Page(pos)) /\ \A s \in 1 .. S : s # h + 1 => cache'[s] = Swept[s]
  BY <1>3, <1>4, EvictIs
<1>7. cache'[h + 1].last_acc = counter + 1 /\ (call.policy = "Clock" => cache'[h + 1].access_bit = 1)
  BY <1>1, <1>6, FaultStart, EntryRec DEF PInv
<1>8. \A s \in 1 .. S : /\ cache[s].last_acc \in Nat /\ cache[s].last_acc <= counter
                        /\ s # h + 1 => cache'[s].last_acc = cache[s].last_acc
  <2>1. \A s \in 1 .. S : cache[s].last_acc \in Nat
    BY <1>3, AllSlots DEF PInv, PageRec
  <2>2. \A s \in 1 .. S : cache[s].last_acc <= counter
    BY <1>3 DEF PInv, Arrivals
  <2>3. \A s \in 1 .. S : Swept[s].last_acc = cache[s].last_acc
    BY <1>3, SweptIs DEF PInv
  <2> QED
    BY <1>6, <2>1, <2>2, <2>3
<1>9. ASSUME call.policy = "Clock", NEW s \in 1 .. S, NEW t \in 1 .. S, Before(s, t, h), Swept[s].access_bit = 1
      PROVE  Swept[t].access_bit = 1
  <2>1. hand = h
    BY <1>2, <1>9 DEF Turn
  <2>2. cache[h + 1].access_bit \in {0, 1}
    BY <1>3, <1>4, AllSlots DEF PInv, PageRec
  <2>3. CASE Sweep = 0
    <3>1. \A w \in 1 .. S : Swept[w] = cache[w]
      BY <1>3, <2>3 DEF Swept
    <3>2. cache[s].access_bit = 1
      BY <1>9, <3>1
    <3>3. cache[t].access_bit = 1
      BY <1>2, <1>3, <1>9, <3>2 DEF Turn
    <3> QED
      BY <3>1, <3>3
  <2>4. CASE Sweep = S
    <3>1. PICK k \in 0 .. S - 1 : k = IF s > h THEN s - 1 - h ELSE s - 1 - h + S
      <4>1. CASE s > h
        <5>1. s - 1 - h \in 0 .. S - 1
          BY <4>1
        <5> QED
          BY <4>1, <5>1
      <4>2. CASE ~(s > h)
        <5>1. s - 1 - h + S \in 0 .. S - 1
          BY <1>4, <4>2
        <5> QED
          BY <4>2, <5>1
      <4> QED
        BY <4>1, <4>2
    <3>2. (h + k) % S = IF h + k < S THEN h + k ELSE h + k - S
      <4>1. h \in 0 .. S - 1
        BY <1>4
      <4> QED
        BY <4>1, ModPlus
    <3>3. s = ((h + k) % S) + 1
      BY <1>4, <3>1, <3>2
    <3>4. Swept[s] = [cache[s] EXCEPT !.access_bit = 0]
      BY <1>3, <1>9, <2>1, <2>4, <3>3 DEF Swept
    <3>5. cache[s] \in PageRec
      BY <1>3, AllSlots DEF PInv
    <3>6. Swept[s].access_bit = 0
      BY <3>4, <3>5 DEF PageRec
    <3> QED
      BY <1>9, <3>6
  <2> QED
    BY <1>2, <1>3, <1>9, <2>1, <2>2, <2>3, <2>4, SweepIs DEF PInv
<1>10. ASSUME NEW s \in 1 .. S, NEW t \in 1 .. S, Before(s, t, g)
       PROVE  /\ cache'[s].last_acc < cache'[t].last_acc
              /\ call.policy = "Clock" /\ cache'[s].access_bit = 1 => cache'[t].access_bit = 1
  <2>1. s # h + 1
    BY <1>4, <1>5, <1>10 DEF Before
  <2>2. CASE t = h + 1
    BY <1>7, <1>8, <2>1, <2>2 DEF PInv, PageTypes
  <2>3. CASE t # h + 1
    <3>1. Before(s, t, h)
      BY <1>4, <1>5, <1>10, <2>1, <2>3 DEF Before
    <3>2. cache[s].last_acc < cache[t].last_acc
      BY <1>2, <1>3, <3>1 DEF Turn
    <3> QED
      BY <1>6, <1>8, <1>9, <2>1, <2>3, <3>1, <3>2
  <2> QED
    BY <2>2, <2>3
<1>11. call.policy = "Clock" => hand' = g
  BY <1>2, <1>3, <1>5, OldestIs DEF PInv, load_page
<1>12. Slots' = S /\ g < S
  BY <1>1, <1>3, <1>4, <1>5 DEF Slots
<1>13. Turn(g)'
  BY <1>1, <1>6, <1>10, <1>11, <1>12 DEF Turn, Before
<1> QED
  BY <1>13

LEMMA TurnRoom ==
  ASSUME PInv, load_page, ~Full, call.policy # "MRU"
  PROVE  \E h \in Nat : Turn(h)'
<1>1. at = "fault" /\ call' = call /\ hand' = hand
  BY DEF load_page
<1>2. PICK h \in Nat : Turn(h)
  BY DEF PInv, Arrivals
<1>3. PICK n \in Nat : n = Len(cache)
  BY <1>1, FaultStart
<1>4. n < Slots /\ Len(cache') = n + 1 /\ cache'[n + 1] = Entry(Page(pos)) /\ \A s \in 1 .. n : cache'[s] = cache[s]
  BY <1>3, RoomIs
<1>5. h = 0
  BY <1>2, <1>3, <1>4 DEF Turn
<1>6. cache'[n + 1].last_acc = counter + 1 /\ (call.policy = "Clock" => cache'[n + 1].access_bit = 1)
  BY <1>1, <1>4, FaultStart, EntryRec DEF PInv
<1>7. \A s \in 1 .. n : cache[s].last_acc \in Nat /\ cache[s].last_acc <= counter
  <2>1. \A s \in 1 .. n : cache[s] \in PageRec
    BY <1>3 DEF PInv, PageTypes
  <2> QED
    BY <1>3, <2>1 DEF PInv, PageRec, Arrivals
<1>8. ASSUME NEW s \in 1 .. n + 1, NEW t \in 1 .. n + 1, Before(s, t, 0)
      PROVE  /\ cache'[s].last_acc < cache'[t].last_acc
             /\ call.policy = "Clock" /\ cache'[s].access_bit = 1 => cache'[t].access_bit = 1
  <2>1. s < t /\ s \in 1 .. n
    BY <1>8 DEF Before
  <2>2. CASE t = n + 1
    BY <1>4, <1>6, <1>7, <2>1, <2>2 DEF PInv, PageTypes
  <2>3. CASE t # n + 1
    <3>1. t \in 1 .. n
      BY <2>3
    <3>2. /\ cache[s].last_acc < cache[t].last_acc
          /\ call.policy = "Clock" /\ cache[s].access_bit = 1 => cache[t].access_bit = 1
      BY <1>2, <1>3, <1>5, <1>8, <2>1, <3>1 DEF Turn
    <3> QED
      BY <1>4, <2>1, <3>1, <3>2
  <2> QED
    BY <2>2, <2>3
<1>9. Slots' = Slots
  BY <1>1 DEF Slots
<1>10. call.policy = "Clock" => hand = 0
  BY <1>2, <1>5 DEF Turn
<1>11. Slots \in Nat \ {0}
  BY <1>1, FaultStart
<1>12. Turn(0)'
  BY <1>1, <1>4, <1>8, <1>9, <1>10, <1>11 DEF Turn, Before
<1> QED
  BY <1>12

LEMMA FaultArrivals ==
  ASSUME PInv, load_page
  PROVE  Arrivals'
<1>1. at = "fault" /\ call' = call /\ counter' = counter + 1
  BY DEF load_page
<1>2. PICK n \in Nat : n = Len(cache)
  BY <1>1, FaultStart
<1>3. counter \in Nat
  BY DEF PInv, PageTypes
<1>4. \A s \in 1 .. n : cache[s].last_acc \in Nat /\ cache[s].last_acc <= counter
  <2>1. \A s \in 1 .. n : cache[s] \in PageRec
    BY <1>2 DEF PInv, PageTypes
  <2> QED
    BY <1>2, <2>1 DEF PInv, PageRec, Arrivals
<1>5. PICK e : e = Entry(Page(pos)) /\ e.last_acc = counter + 1
  BY <1>1, FaultStart, EntryRec DEF PInv
<1>6. /\ \A s \in 1 .. Len(cache') : cache'[s].last_acc <= counter + 1
      /\ \E v \in 1 .. Len(cache') : cache'[v].last_acc = counter + 1
  <2>1. CASE Full
    <3>1. PICK v \in 1 .. n : v = Victim
      BY <1>2, <2>1, EvictIs
    <3>2. Len(cache') = n /\ cache'[v] = e /\ \A s \in 1 .. n : s # v => cache'[s].last_acc = cache[s].last_acc
      BY <1>2, <1>5, <2>1, <3>1, EvictIs, SweptIs DEF PInv
    <3> QED
      BY <1>3, <1>4, <1>5, <3>2
  <2>2. CASE ~Full
    <3>1. Len(cache') = n + 1 /\ cache'[n + 1] = e /\ \A s \in 1 .. n : cache'[s] = cache[s]
      BY <1>2, <1>5, <2>2, RoomIs
    <3>2. n + 1 \in 1 .. n + 1 /\ \A s \in 1 .. n + 1 : s = n + 1 \/ s \in 1 .. n
      OBVIOUS
    <3> QED
      BY <1>3, <1>4, <1>5, <3>1, <3>2
  <2> QED
    BY <2>1, <2>2
<1>7. call.policy # "MRU" => \E h \in Nat : Turn(h)'
  BY TurnFull, TurnRoom
<1> QED
  BY <1>1, <1>6, <1>7 DEF Arrivals

\* No access leaves the table: the handler always loads a page.
LEMMA FaultLoads ==
  ASSUME PInv, handle_sigsegv
  PROVE  load_page
<1>1. at = "fault"
  BY DEF handle_sigsegv, load_page
<1>2. Page(pos) \in 0 .. NPages - 1
  BY <1>1, FaultStart
<1> QED
  BY <1>2 DEF handle_sigsegv

LEMMA FaultStep ==
  ASSUME PInv, handle_sigsegv
  PROVE  PInv'
<1>1. load_page
  BY FaultLoads
<1> QED
  BY <1>1, FaultTypes, FaultMapping, FaultArrivals DEF PInv

-----------------------------------------------------------------------------
(***************************************************************************)
(* Paging: the other steps leave the cache alone.                          *)
(***************************************************************************)

LEMMA SameCache ==
  ASSUME PInv, UNCHANGED <<call, cache, hand, counter, mem>>
  PROVE  /\ Arrivals' /\ Slots' = Slots /\ Bases' = Bases
         /\ call' \in Calls /\ cache' \in Seq(PageRec) /\ hand' \in Nat /\ counter' \in Nat
<1>1. call' = call /\ cache' = cache /\ hand' = hand /\ counter' = counter
  OBVIOUS
<1>2. Slots' = Slots /\ Bases' = Bases
  BY <1>1 DEF Slots, Bases
<1>3. \A h : Turn(h)' = Turn(h)
  BY <1>1, <1>2 DEF Turn, Before
<1> QED
  BY <1>1, <1>2, <1>3 DEF PInv, PageTypes, Arrivals

LEMMA StartStep ==
  ASSUME PInv, main1 \/ main2 \/ setup_sqrt_region \/ test_done
  PROVE  PInv'
<1>1. /\ UNCHANGED <<call, i, pos, cache, hand, counter, mem, stats>>
      /\ at \in {"main", "setup", "loop"} /\ at' \in {"setup", "loop", "done", "failed"}
  BY DEF main1, main2, setup_sqrt_region, test_done
<1>2. /\ (at \in {"main", "setup"} /\ at' \in {"setup", "loop", "failed"}) \/ (at = "loop" /\ at' = "done")
      /\ at' \in {"setup", "loop", "done"} => Slots > 0
      /\ at = "main" => at' # "loop"
  <2>1. CASE main1
    BY <2>1, CommandIs DEF main1, PInv
  <2>2. CASE main2
    <3>1. at = "main" /\ at' = IF call.slots <= 0 THEN "failed" ELSE "setup"
      BY <2>2 DEF main2
    <3>2. Slots = call.slots /\ Slots \in Int
      BY <2>2, CommandIs DEF main2, Slots, PInv
    <3> QED
      BY <3>1, <3>2
  <2>3. CASE setup_sqrt_region
    BY <2>3 DEF setup_sqrt_region, PInv, Counting
  <2>4. CASE test_done
    BY <2>4 DEF test_done, PInv, Counting
  <2> QED
    BY <2>1, <2>2, <2>3, <2>4
<1>3. PageTypes' /\ Arrivals'
  BY <1>1, SameCache DEF PInv, PageTypes, PageAt
<1>4. InTable'
  BY <1>1, <1>2 DEF PInv, InTable, MAX_SQRTS
<1>5. Mapping'
  BY <1>1, <1>2, SameCache DEF PInv, Mapping
<1>6. Counting'
  BY <1>1, <1>2, SameCache DEF PInv, Counting
<1> QED
  BY <1>3, <1>4, <1>5, <1>6 DEF PInv

LEMMA EntryStep ==
  ASSUME PInv, next_entry
  PROVE  PInv'
<1>1. /\ at = "loop" /\ at' = "read" /\ pos' \in Workload.pos /\ i' = i
      /\ UNCHANGED <<call, i, cache, hand, counter, mem>> /\ stats' = [stats EXCEPT !.total = @ + 1]
  BY DEF next_entry
<1>2. PICK M \in Nat : M = MAX_SQRTS /\ M > 1
  BY Entries
<1>3. i \in Nat /\ pos \in Nat
  BY DEF PInv, PageTypes
<1>4. /\ pos' \in Nat /\ pos' < M
      /\ call.workload \notin {1, 2} /\ i % 2 = 0 => pos' + 1 < M
  <2>1. CASE call.workload \in {1, 2}
    <3>1. pos' = i % (M - 1)
      BY <1>1, <1>2, <2>1 DEF Workload, test_sqrt_region_1, test_sqrt_region_1000
    <3>2. M - 1 \in Nat \ {0}
      BY <1>2
    <3>3. i % (M - 1) \in 0 .. (M - 1) - 1
      BY <1>3, <3>2, ModDef
    <3> QED
      BY <2>1, <3>1, <3>3
  <2>2. CASE call.workload \notin {1, 2}
    <3>1. pos' \in IF i % 2 = 0 THEN 0 .. M - 2 ELSE {pos + 1}
      BY <1>1, <1>2, <2>2 DEF Workload, test_sqrt_region
    <3>2. CASE i % 2 = 0
      <4>1. pos' \in 0 .. M - 2
        BY <3>1, <3>2
      <4>2. PICK p \in 0 .. M - 2 : p = pos'
        BY <4>1
      <4>3. p \in Nat /\ p + 1 < M
        OBVIOUS
      <4>4. p < M
        BY <4>3
      <4> QED
        BY <4>2, <4>3, <4>4
    <3>3. CASE i % 2 # 0
      <4>1. pos + 1 < M
        BY <1>1, <1>2, <2>2, <3>3 DEF PInv, InTable
      <4> QED
        BY <1>3, <3>1, <3>3, <4>1
    <3> QED
      BY <3>2, <3>3
  <2> QED
    BY <2>1, <2>2
<1>5. PageTypes' /\ Arrivals'
  <2>1. stats' \in [total : Nat, faults : Nat, evictions : Nat]
    BY <1>1 DEF PInv, PageTypes
  <2>2. i' \in Nat /\ at' \in PageAt /\ pos' \in Nat
    BY <1>1, <1>3, <1>4 DEF PageAt
  <2> QED
    BY <1>1, <2>1, <2>2, SameCache DEF PageTypes
<1>6. InTable'
  BY <1>1, <1>2, <1>4 DEF InTable, MAX_SQRTS
<1>7. Mapping'
  BY <1>1, SameCache DEF PInv, Mapping
<1>8. Counting'
  <2>1. stats'.evictions = stats.evictions /\ stats'.faults = stats.faults
    BY <1>1 DEF PInv, PageTypes
  <2> QED
    BY <1>1, <2>1, SameCache DEF PInv, Counting
<1> QED
  BY <1>5, <1>6, <1>7, <1>8 DEF PInv

\* A page that is mapped has its own square roots, so the entry that is read is right.
LEMMA ReadStep ==
  ASSUME PInv, read_entry
  PROVE  PInv'
<1>1. at = "read" /\ UNCHANGED <<call, pos, cache, hand, counter, mem, stats>>
  BY DEF read_entry
<1>2. i \in Nat /\ pos \in Nat /\ pos < MAX_SQRTS
  BY <1>1 DEF PInv, PageTypes, InTable
<1>3. ASSUME Page(pos) \in DOMAIN mem PROVE mem[Page(pos)] + (pos % PageLen) = pos
  <2>1. mem[Page(pos)] = Page(pos) * PageLen
    BY <1>3 DEF PInv, Mapping
  <2> QED
    BY <1>2, <2>1, EntryIs
<1>4. CASE Page(pos) \notin DOMAIN mem
  <2>1. at' = "fault" /\ i' = i
    BY <1>4 DEF read_entry
  <2>2. PageTypes' /\ Arrivals'
    BY <1>1, <2>1, SameCache DEF PInv, PageTypes, PageAt
  <2>3. InTable'
    BY <1>1, <2>1 DEF PInv, InTable, MAX_SQRTS
  <2>4. Mapping'
    BY <1>1, <1>4, <2>1, SameCache DEF PInv, Mapping, Page
  <2>5. Counting'
    BY <1>1, <2>1, SameCache DEF PInv, Counting
  <2> QED
    BY <2>2, <2>3, <2>4, <2>5 DEF PInv
<1>5. CASE Page(pos) \in DOMAIN mem
  <2>1. at' = "loop" /\ i' = i + Workload.step
    BY <1>3, <1>5 DEF read_entry
  <2>2. Workload.step \in Nat /\ (call.workload \notin {1, 2} => Workload.step = 1)
    BY Entries DEF Workload, test_sqrt_region, test_sqrt_region_1, test_sqrt_region_1000
  <2>3. PageTypes' /\ Arrivals'
    <3>1. i' \in Nat
      BY <1>2, <2>1, <2>2
    <3> QED
      BY <1>1, <2>1, <3>1, SameCache DEF PInv, PageTypes, PageAt
  <2>4. InTable'
    <3>1. ASSUME call.workload \notin {1, 2}, i' % 2 # 0 PROVE pos + 1 < MAX_SQRTS
      <4>1. i' = i + 1
        BY <2>1, <2>2, <3>1
      <4>2. i % 2 = 0
        BY <1>2, <3>1, <4>1
      <4> QED
        BY <1>1, <3>1, <4>2 DEF PInv, InTable
    <3> QED
      BY <1>1, <2>1, <3>1 DEF InTable, MAX_SQRTS
  <2>5. Mapping'
    BY <1>1, <2>1, SameCache DEF PInv, Mapping
  <2>6. Counting'
    BY <1>1, <2>1, SameCache DEF PInv, Counting
  <2> QED
    BY <2>3, <2>4, <2>5, <2>6 DEF PInv
<1> QED
  BY <1>4, <1>5

LEMMA PageStart ==
  ASSUME PageInit
  PROVE  PInv
<1>1. /\ call \in Calls /\ at = "main" /\ i = 0 /\ pos = 0 /\ cache = <<>> /\ hand = 0 /\ counter = 0 /\ mem = <<>>
      /\ stats = [total |-> 0, faults |-> 0, evictions |-> 0]
  BY DEF PageInit
<1>2. cache \in Seq(PageRec) /\ Len(cache) = 0 /\ DOMAIN mem = {}
  BY <1>1
<1>3. PageTypes
  BY <1>1, <1>2 DEF PageTypes, PageAt
<1>4. Slots \in Int
  BY <1>3, CommandIs
<1>5. InTable
  BY <1>1, Entries DEF InTable
<1>6. Mapping
  BY <1>1, <1>2 DEF Mapping, Bases
<1>7. Counting
  BY <1>1, <1>2, <1>4 DEF Counting
<1>8. Turn(0)
  BY <1>1, <1>2, <1>4 DEF Turn
<1>9. Arrivals
  BY <1>1, <1>2, <1>8 DEF Arrivals
<1> QED
  BY <1>3, <1>5, <1>6, <1>7, <1>9 DEF PInv

LEMMA PageStutter ==
  ASSUME PInv, UNCHANGED pagevars
  PROVE  PInv'
<1>1. /\ call' = call /\ at' = at /\ i' = i /\ pos' = pos /\ cache' = cache /\ hand' = hand /\ counter' = counter
      /\ mem' = mem /\ stats' = stats
  BY DEF pagevars
<1>2. PageTypes' /\ Arrivals'
  BY <1>1, SameCache DEF PInv, PageTypes
<1>3. InTable'
  BY <1>1 DEF PInv, InTable, MAX_SQRTS
<1>4. Mapping'
  BY <1>1, SameCache DEF PInv, Mapping, Page
<1>5. Counting'
  BY <1>1, SameCache DEF PInv, Counting
<1> QED
  BY <1>2, <1>3, <1>4, <1>5 DEF PInv

LEMMA PageInductive == PageSpec => []PInv
<1>1. PageInit => PInv
  BY PageStart
<1>2. PInv /\ [PageNext]_pagevars => PInv'
  BY StartStep, EntryStep, ReadStep, FaultStep, PageStutter DEF PageNext
<1> QED
  BY <1>1, <1>2, PTL DEF PageSpec

\* The records are the mapped pages: one record per page, all inside the table and no more than there
\* are slots, as many pages taken out as faults exceed the records, and the program never fails once it
\* has begun to read, unless it was given more slots than memory (handle_sigsegv() of mmap1.c and mmap2.c),
\* for every size of the table, number of slots, policy and workload.
THEOREM CacheIsMemoryAlways == PageSpec => []CacheIsMemory
<1>1. PInv => CacheIsMemory
  <2> SUFFICES ASSUME PInv PROVE CacheIsMemory
    OBVIOUS
  <2>2. Cardinality(Bases) = Len(cache)
    BY BasesAre DEF Bases, PInv, PageTypes, Mapping
  <2>3. Slots \in Int /\ Len(cache) \in Nat
    BY CommandIs DEF PInv, PageTypes
  <2>4. Len(cache) <= Max({Slots, 0})
    <3>1. PICK m : m = Max({Slots, 0})
      OBVIOUS
    <3>2. m = IF Slots >= 0 THEN Slots ELSE 0
      BY <2>3, <3>1, MaxIs
    <3> QED
      BY <2>3, <3>1, <3>2 DEF PInv, Counting
  <2>5. DOMAIN mem \subseteq 0 .. NPages - 1
    BY DEF PInv, Mapping
  <2> QED
    BY <2>2, <2>4, <2>5 DEF PInv, Mapping, Counting, Bases, CacheIsMemory
<1> QED
  BY <1>1, PageInductive, PTL

\* LRU and Clock give up the page that came in first and MRU one that came in last, in every full cache
\* (the eviction in handle_sigsegv() of mmap2.c): no policy sees an access that hits.
THEOREM EvictionOrderAlways == PageSpec => EvictionOrder
<1> DEFINE InOrder(s) == \A w \in 1 .. Len(cache) :
         IF call.policy = "MRU" THEN cache[s].last_acc >= cache[w].last_acc ELSE cache[s].last_acc <= cache[w].last_acc
<1>1. ASSUME PInv, load_page, NEW s \in 1 .. Len(cache), cache'[s].base # cache[s].base
      PROVE  InOrder(s)
  <2>1. at = "fault"
    BY <1>1 DEF load_page
  <2>2. Full
    BY <1>1, RoomIs
  <2>3. s = Victim
    BY <1>1, <2>2, EvictIs, SweptIs DEF PInv
  <2>4. Slots > 0 /\ Len(cache) = Slots
    BY <1>1, <2>1, <2>2, FaultStart, AllSlots DEF PInv
  <2> QED
    BY <1>1, <2>2, <2>3, <2>4, VictimIs DEF PInv
<1>2. ASSUME PInv, [PageNext]_pagevars, NEW s \in 1 .. Len(cache), cache'[s].base # cache[s].base
      PROVE  InOrder(s)
  <2>1. handle_sigsegv
    BY <1>2 DEF PageNext, pagevars, main1, main2, setup_sqrt_region, next_entry, read_entry, test_done
  <2> QED
    BY <1>1, <1>2, <2>1, FaultLoads
<1>3. PInv /\ [PageNext]_pagevars =>
        [\A s \in 1 .. Len(cache) : cache'[s].base # cache[s].base => InOrder(s)]_pagevars
  BY <1>2
<1> QED
  BY <1>3, PageInductive, PTL DEF PageSpec, EvictionOrder
=============================================================================
