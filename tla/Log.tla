-------------------------------- MODULE Log --------------------------------
(***************************************************************************)
(* The write-ahead log of the xv6 file system (kernel/log.c) with the part *)
(* of the buffer cache it relies on (kernel/bio.c): buffers keep a block's *)
(* modified contents in memory, pins keep such buffers from being          *)
(* recycled, and a crash loses all of memory at any point.                 *)
(*                                                                         *)
(* A step is one critical section of log.lock, one access to a locked      *)
(* buffer, or one disk write; writing one block is atomic.  The buffers of *)
(* the log region itself always agree with the disk (they are written      *)
(* through at once), so dlog, hn and hblock stand for both.                *)
(***************************************************************************)
EXTENDS Integers, FiniteSets

CONSTANTS Proc,         \* processes that make file-system calls
          Block,        \* numbers of the blocks outside the log region
          Val,          \* block contents
          NoBlock,      \* block number 0, the boot block: never logged
          NotCached,    \* no buffer holds the block
          MAXOPBLOCKS,  \* most blocks one operation writes (param.h)
          LOGSIZE,      \* length of logheader.block
          nlog          \* blocks in the log region, header included

ASSUME LogAssumption ==
  /\ MAXOPBLOCKS \in Nat \ {0}
  /\ LOGSIZE \in Nat \ {0}
  /\ MAXOPBLOCKS <= LOGSIZE
  /\ nlog \in Nat
  /\ IsFiniteSet(Proc)
  /\ NoBlock \notin Block
  /\ NotCached \notin Val

VARIABLES
  home,         \* disk: contents of the home blocks
  dlog,         \* disk: data blocks of the log
  hn, hblock,   \* disk: the log header
  cache,        \* memory: buffer contents, or NotCached
  pin,          \* memory: references taken by bpin and not yet dropped
  n, block,     \* memory: log.lh
  outstanding,  \* memory: log.outstanding
  committing,   \* memory: log.committing
  pc,           \* where each process is
  bufOf,        \* the block whose buffer lock a process holds, or NoBlock
  wrote,        \* blocks a process has logged in its current operation
  phase, tail,  \* progress of commit() or of recover_from_log()
  recovering,   \* the argument of install_trans: TRUE during boot
  panicked      \* some process stopped in panic() holding log.lock

disk == <<home, dlog, hn, hblock>>
loghdr == <<n, block>>
procs == <<pc, bufOf, wrote>>
control == <<phase, tail, recovering>>
vars == <<disk, cache, pin, loghdr, outstanding, committing, procs, control,
          panicked>>

LogSlot == 1..LOGSIZE

\* A process is in an operation from begin_op's return to its call of end_op.
InOp == {"op", "modified", "logged"}
Holding == {"modified", "logged"}

TypeOK ==
  /\ home \in [Block -> Val]
  /\ dlog \in [LogSlot -> Val]
  /\ hn \in 0..LOGSIZE
  /\ hblock \in [LogSlot -> Block \cup {NoBlock}]
  /\ cache \in [Block -> Val \cup {NotCached}]
  /\ pin \in [Block -> Int]
  /\ n \in 0..LOGSIZE
  /\ block \in [LogSlot -> Block \cup {NoBlock}]
  /\ outstanding \in Int
  /\ committing \in BOOLEAN
  /\ pc \in [Proc -> {"idle", "sleep", "woken", "commit"} \cup InOp]
  /\ bufOf \in [Proc -> Block \cup {NoBlock}]
  /\ wrote \in [Proc -> SUBSET Block]
  /\ phase \in {"normal", "commit", "write_log", "write_head", "install",
                "erase", "finish", "read_head"}
  /\ tail \in LogSlot
  /\ recovering \in BOOLEAN
  /\ panicked \in BOOLEAN

\* A disk as mkfs leaves it, just before the first boot reads its header.
Init ==
  /\ home \in [Block -> Val]
  /\ \E v \in Val : dlog = [i \in LogSlot |-> v]
  /\ hn = 0
  /\ hblock = [i \in LogSlot |-> NoBlock]
  /\ cache = [b \in Block |-> NotCached]
  /\ pin = [b \in Block |-> 0]
  /\ n = 0
  /\ block = [i \in LogSlot |-> NoBlock]
  /\ outstanding = 0
  /\ committing = FALSE
  /\ pc = [p \in Proc |-> "idle"]
  /\ bufOf = [p \in Proc |-> NoBlock]
  /\ wrote = [p \in Proc |-> {}]
  /\ phase = "read_head"
  /\ tail = 1
  /\ recovering = TRUE
  /\ panicked = FALSE

-----------------------------------------------------------------------------
(* Buffers.                                                                *)

Locked(b) == \E p \in Proc : bufOf[p] = b

\* What bread(b) returns: the cached contents, or the block read from disk.
bread(b) == IF cache[b] = NotCached THEN home[b] ELSE cache[b]

\* A reader outside any transaction brings a block into the cache.
Fetch(b) ==
  /\ ~recovering
  /\ cache[b] = NotCached
  /\ cache' = [cache EXCEPT ![b] = bread(b)]
  /\ UNCHANGED <<disk, pin, loghdr, outstanding, committing, procs, control,
                 panicked>>

\* bget recycles the buffer of a block that nothing refers to.
Recycle(b) ==
  /\ cache[b] # NotCached
  /\ pin[b] = 0
  /\ ~Locked(b)
  /\ cache' = [cache EXCEPT ![b] = NotCached]
  /\ UNCHANGED <<disk, pin, loghdr, outstanding, committing, procs, control,
                 panicked>>

-----------------------------------------------------------------------------
(* begin_op, the writes of an operation, and end_op.                       *)

\* Mutant: the wakeup is forgotten.
WakeupAnd_None(p, s) == [pc EXCEPT ![p] = s]

\* wakeup(&log) on top of process p moving to state s.
WakeupAnd(p, s) ==
  [q \in Proc |-> IF q = p THEN s
                  ELSE IF pc[q] = "sleep" THEN "woken" ELSE pc[q]]

\* Mutant: the operation that is about to start is not counted.
NoSpace_Off == n + outstanding * MAXOPBLOCKS > LOGSIZE

NoSpace == n + (outstanding + 1) * MAXOPBLOCKS > LOGSIZE

begin_op(p) ==
  /\ pc[p] \in {"idle", "woken"}
  /\ ~recovering
  /\ ~panicked
  /\ IF committing \/ NoSpace
     THEN /\ pc' = [pc EXCEPT ![p] = "sleep"]
          /\ UNCHANGED <<outstanding, wrote>>
     ELSE /\ outstanding' = outstanding + 1
          /\ pc' = [pc EXCEPT ![p] = "op"]
          /\ wrote' = [wrote EXCEPT ![p] = {}]
  /\ UNCHANGED <<disk, cache, pin, loghdr, committing, bufOf, control, panicked>>

\* The operation reads a block into a locked buffer and changes it there.
\* It stays within the number of blocks param.h allows it.
modify(p, b, v) ==
  /\ pc[p] = "op"
  /\ ~Locked(b)
  /\ Cardinality(wrote[p] \cup {b}) <= MAXOPBLOCKS
  /\ cache' = [cache EXCEPT ![b] = v]
  /\ pc' = [pc EXCEPT ![p] = "modified"]
  /\ bufOf' = [bufOf EXCEPT ![p] = b]
  /\ UNCHANGED <<disk, pin, loghdr, outstanding, committing, wrote, control,
                 panicked>>

TooBig == n >= LOGSIZE \/ n >= nlog - 1

Absorbed(b) == \E i \in 1..n : block[i] = b

log_write(p) ==
  LET b == bufOf[p] IN
  /\ pc[p] = "modified"
  /\ ~panicked
  /\ IF TooBig \/ outstanding < 1
     THEN /\ panicked' = TRUE
          /\ UNCHANGED <<pc, wrote, n, block, pin>>
     ELSE /\ pc' = [pc EXCEPT ![p] = "logged"]
          /\ wrote' = [wrote EXCEPT ![p] = @ \cup {b}]
          /\ IF Absorbed(b)
             THEN UNCHANGED <<n, block, pin>>
             ELSE /\ block' = [block EXCEPT ![n + 1] = b]
                  /\ pin' = [pin EXCEPT ![b] = @ + 1]
                  /\ n' = n + 1
          /\ UNCHANGED panicked
  /\ UNCHANGED <<disk, cache, outstanding, committing, bufOf, control>>

brelse(p) ==
  /\ pc[p] = "logged"
  /\ pc' = [pc EXCEPT ![p] = "op"]
  /\ bufOf' = [bufOf EXCEPT ![p] = NoBlock]
  /\ UNCHANGED <<disk, cache, pin, loghdr, outstanding, committing, wrote,
                 control, panicked>>

end_op(p) ==
  /\ pc[p] = "op"
  /\ ~panicked
  /\ outstanding' = outstanding - 1
  /\ IF committing
     THEN panicked' = TRUE /\ UNCHANGED <<pc, committing, phase>>
     ELSE /\ UNCHANGED panicked
          /\ IF outstanding - 1 = 0
             THEN /\ committing' = TRUE
                  /\ phase' = "commit"
                  /\ pc' = [pc EXCEPT ![p] = "commit"]
             ELSE /\ pc' = WakeupAnd(p, "idle")
                  /\ UNCHANGED <<committing, phase>>
  /\ UNCHANGED <<disk, cache, pin, loghdr, bufOf, wrote, tail, recovering>>

-----------------------------------------------------------------------------
(* commit() and recover_from_log(), one disk write at a time.              *)

\* Mutants: a group of one block is not committed, and a group is installed
\* before its header is on disk.
commit_Off ==
  /\ phase = "commit"
  /\ phase' = IF n > 1 THEN "write_log" ELSE "finish"
  /\ tail' = 1
  /\ UNCHANGED <<disk, cache, pin, loghdr, outstanding, committing, procs,
                 recovering, panicked>>

commit_NoHead ==
  /\ phase = "commit"
  /\ phase' = IF n > 0 THEN "install" ELSE "finish"
  /\ tail' = 1
  /\ UNCHANGED <<disk, cache, pin, loghdr, outstanding, committing, procs,
                 recovering, panicked>>

commit ==
  /\ phase = "commit"
  /\ phase' = IF n > 0 THEN "write_log" ELSE "finish"
  /\ tail' = 1
  /\ UNCHANGED <<disk, cache, pin, loghdr, outstanding, committing, procs,
                 recovering, panicked>>

\* After the block at tail: the next one, or the phase that follows the loop.
Advance(after) ==
  IF tail < n THEN tail' = tail + 1 /\ phase' = phase
              ELSE tail' = 1 /\ phase' = after

write_log ==
  LET b == block[tail] IN
  /\ phase = "write_log"
  /\ ~Locked(b)
  /\ dlog' = [dlog EXCEPT ![tail] = bread(b)]
  /\ cache' = [cache EXCEPT ![b] = bread(b)]
  /\ Advance("write_head")
  /\ UNCHANGED <<home, hn, hblock, pin, loghdr, outstanding, committing, procs,
                 recovering, panicked>>

\* write_head() with log.lh.n = m.
WriteHead(m) ==
  /\ hn' = m
  /\ hblock' = [i \in LogSlot |-> IF i <= m THEN block[i] ELSE hblock[i]]

\* The real commit.
write_head ==
  /\ phase = "write_head"
  /\ WriteHead(n)
  /\ phase' = "install"
  /\ UNCHANGED <<home, dlog, cache, pin, loghdr, outstanding, committing, procs,
                 tail, recovering, panicked>>

install_trans ==
  LET b == block[tail] IN
  /\ phase = "install"
  /\ ~Locked(b)
  /\ home' = [home EXCEPT ![b] = dlog[tail]]
  /\ cache' = [cache EXCEPT ![b] = dlog[tail]]
  /\ pin' = IF recovering THEN pin ELSE [pin EXCEPT ![b] = @ - 1]
  /\ Advance("erase")
  /\ UNCHANGED <<dlog, hn, hblock, loghdr, outstanding, committing, procs,
                 recovering, panicked>>

\* log.lh.n = 0; write_head().  Boot ends here.
erase ==
  /\ phase = "erase"
  /\ n' = 0
  /\ WriteHead(0)
  /\ phase' = IF recovering THEN "normal" ELSE "finish"
  /\ recovering' = FALSE
  /\ UNCHANGED <<home, dlog, cache, pin, block, outstanding, committing, procs,
                 tail, panicked>>

\* The tail of end_op, back under log.lock.
finish(p) ==
  /\ phase = "finish"
  /\ pc[p] = "commit"
  /\ committing' = FALSE
  /\ pc' = WakeupAnd(p, "idle")
  /\ phase' = "normal"
  /\ UNCHANGED <<disk, cache, pin, loghdr, outstanding, bufOf, wrote, tail,
                 recovering, panicked>>

\* Mutant: recovery skips a group of one block.
read_head_Off ==
  /\ phase = "read_head"
  /\ n' = hn
  /\ block' = [i \in LogSlot |-> IF i <= hn THEN hblock[i] ELSE block[i]]
  /\ phase' = IF hn > 1 THEN "install" ELSE "erase"
  /\ UNCHANGED <<disk, cache, pin, outstanding, committing, procs, tail,
                 recovering, panicked>>

read_head ==
  /\ phase = "read_head"
  /\ n' = hn
  /\ block' = [i \in LogSlot |-> IF i <= hn THEN hblock[i] ELSE block[i]]
  /\ phase' = IF hn > 0 THEN "install" ELSE "erase"
  /\ UNCHANGED <<disk, cache, pin, outstanding, committing, procs, tail,
                 recovering, panicked>>

\* Power is lost and the machine boots again: the disk stays, memory is zeroed.
Crash ==
  /\ cache' = [b \in Block |-> NotCached]
  /\ pin' = [b \in Block |-> 0]
  /\ n' = 0
  /\ block' = [i \in LogSlot |-> NoBlock]
  /\ outstanding' = 0
  /\ committing' = FALSE
  /\ pc' = [p \in Proc |-> "idle"]
  /\ bufOf' = [p \in Proc |-> NoBlock]
  /\ wrote' = [p \in Proc |-> {}]
  /\ phase' = "read_head"
  /\ tail' = 1
  /\ recovering' = TRUE
  /\ panicked' = FALSE
  /\ UNCHANGED disk

-----------------------------------------------------------------------------

Next ==
  \/ \E p \in Proc : begin_op(p) \/ log_write(p) \/ brelse(p) \/ end_op(p)
  \/ \E p \in Proc, b \in Block, v \in Val : modify(p, b, v)
  \/ \E b \in Block : Fetch(b) \/ Recycle(b)
  \/ commit \/ write_log \/ write_head \/ install_trans \/ erase
  \/ \E p \in Proc : finish(p)
  \/ read_head
  \/ Crash

Spec == Init /\ [][Next]_vars

\* A process that was woken, holds a buffer or runs commit() goes on, boot goes
\* on, and an operation makes finitely many writes before it calls end_op.  No
\* process has to start an operation, and crashes are never required.
FairSpec ==
  /\ Spec
  /\ \A p \in Proc :
       /\ WF_vars(pc[p] = "woken" /\ begin_op(p))
       /\ WF_vars(log_write(p) \/ brelse(p))
       /\ SF_vars(end_op(p))
       /\ WF_vars(finish(p))
  /\ WF_vars(commit \/ write_log \/ write_head \/ install_trans \/ erase
             \/ read_head)

-----------------------------------------------------------------------------
(* Properties.                                                             *)

ActiveProcs == {p \in Proc : pc[p] \in InOp}

\* The slots of the on-disk header that name block b.
HeadSlots(b) == {i \in 1..hn : hblock[i] = b}

\* The home blocks as recover_from_log() would leave them after a crash now:
\* install_trans copies in order, so the last slot naming a block wins.
Recovered ==
  [b \in Block |->
     IF HeadSlots(b) = {} THEN home[b]
     ELSE dlog[CHOOSE i \in HeadSlots(b) : \A j \in HeadSlots(b) : j <= i]]

\* The home blocks as a reader sees them through the buffer cache.
Visible == [b \in Block |-> bread(b)]

A == INSTANCE AtomicDisk WITH
       active  <- ActiveProcs,
       current <- IF recovering THEN Recovered ELSE Visible,
       durable <- Recovered

\* Every behaviour of the log, crashes at any step included, is one of
\* AtomicDisk: operations reach the disk whole, in groups, with none running,
\* and a crash undoes exactly the operations since the last group
\* (log.c begin_op, end_op, commit, recover_from_log).
ImplementsAtomicDisk == A!Spec

\* Write-ahead rule: a home block changes on disk only to the contents a
\* committed header already records for it, so that a crash in the middle of
\* install_trans can repeat the copy (log.c install_trans, write_head).
WriteAhead ==
  [][\A b \in Block :
       home'[b] # home[b] =>
         \E i \in 1..hn : hblock[i] = b /\ dlog[i] = home'[b]]_vars

\* A buffer whose contents differ from what is on disk is locked or pinned,
\* so bget cannot recycle it and lose the write (log_write's bpin, the bunpin
\* in install_trans, bget's test of refcnt).
DirtyIsHeld ==
  \A b \in Block :
    cache[b] \notin {NotCached, home[b]} => Locked(b) \/ pin[b] > 0

\* When no operation runs and no commit is under way, everything written has
\* become durable: the call of end_op that ends a group returns only after the
\* whole group is on disk, and no pin is left behind.
QuietIsDurable ==
  phase = "normal" /\ ActiveProcs = {} =>
    /\ Visible = Recovered
    /\ \A b \in Block : pin[b] = 0

\* commit() and recovery run alone: no operation is in progress while the log
\* is being written, installed or erased, as the comment at the top of log.c
\* promises.
CommitAlone == phase # "normal" => ActiveProcs = {}

\* The writes of the running operations, each block once per operation.
Written == {w \in ActiveProcs \X Block : w[2] \in wrote[w[1]]}

\* The reservation begin_op makes is kept: the blocks already in the log and
\* the blocks every running operation may still add (MAXOPBLOCKS less those it
\* has written) fit into logheader.block (the test in begin_op against what
\* log_write adds later).
SpaceReserved ==
  n + Cardinality(ActiveProcs) * MAXOPBLOCKS - Cardinality(Written) <= LOGSIZE

\* A process sleeping in begin_op always has a waker to come: an operation
\* whose end_op, or a commit whose last step, will call wakeup(&log).
SleeperHasWaker ==
  \A p \in Proc : pc[p] = "sleep" => committing \/ outstanding > 0

\* A process that went to sleep in begin_op is woken (unless the machine
\* panicked), however the operations of the others interleave.
SleeperWakes == \A p \in Proc : pc[p] = "sleep" ~> pc[p] # "sleep" \/ panicked

\* Boot and commit always finish, unless crashes never stop: []<> says the
\* log keeps coming back to a state where begin_op can admit an operation.
LogReopens == []<><<Crash>>_vars \/ []<>(phase = "normal")
=============================================================================
