-------------------------------- MODULE Disk --------------------------------
(* The buffer cache (bio.c), the sleep lock of a buffer (sleeplock.c) and the
   virtio disk driver (virtio_disk.c), with the device that serves it.

   bcache.lock and a sleep lock's inner spinlock are held within one step.
   disk.vdisk_lock is held over several steps by the interrupt handler, while
   the device goes on working.  The rings are queues: at most NUM/3 chains are
   outstanding (DescriptorsOwned), so a ring entry is read before it is written
   again and the wrap of the 16-bit counters does not show.  sleep(chan, lk)
   gives up the lock and sleeps in one step (proc.c); a sleeper may also be woken
   by kill().                                                                 *)
EXTENDS Integers, Sequences, FiniteSets, SequencesExt, FiniteSetsExt

CONSTANTS
  DProc,    \* processes that use the disk; one that has two buffers at a time, as in
            \* install_trans() and write_log(), is two members, one for each buffer
  Other,    \* the member for the other buffer of the same process, or "none"
  Second,   \* the members for a buffer that is asked for while the other one is held
  Block,    \* blocks of the disk
  Jobs,     \* what each process may do: pairs of a block and "read", "write",
            \* "pin" (change and pin, log_write()) or "flush" (install_trans())
  NBUF,     \* buffers in the cache
  NUM,      \* descriptors, and entries of the two rings
  MaxPin,   \* at most this many buffers are pinned at a time
  MaxGets,  \* bound on the calls of bread()
  Victims   \* processes that are killed, once each

ASSUME BufAssumption == NBUF \in Nat /\ MaxPin \in Nat /\ IsFiniteSet(DProc)
ASSUME NumAssumption == NUM \in Nat
ASSUME JobAssumption == \A p \in DProc : Jobs[p] \subseteq Block \X {"read", "write", "pin", "flush"}
ASSUME OtherAssumption ==
  \A p \in DProc : Other[p] = "none" \/ (Other[p] \in DProc /\ Other[p] # p /\ Other[Other[p]] = p)
ASSUME NameAssumption == "none" \notin DProc \cup Block

VARIABLES
  buf,      \* bcache.buf: blk, valid, disk, refcnt, data, holder of the lock
  lru,      \* the list from bcache.head, most recently used first
  pr,       \* each process: where it is, its buffer, its descriptors
  dfree,    \* descriptors with disk.free set
  info,     \* disk.info, desc and ops of a chain, indexed by its head
  avail,    \* heads in the avail ring that the device has not seen
  used,     \* heads in the used ring between disk.used_idx and used->idx
  dev,      \* the device: heads it works on, interrupt line
  vlock,    \* virtio_disk_intr() holds vdisk_lock
  disk,     \* contents of the blocks
  latest,   \* what was last put into each block by a process that held it
  dpanic,   \* free_desc() or virtio_disk_intr() panicked
  gets,     \* calls of bread()
  killed,   \* processes that were killed
  stuck     \* who panicked in bget() and keeps bcache.lock, or "none"

diskvars == <<buf, lru, pr, dfree, info, avail, used, dev, vlock, disk, latest, dpanic, gets, killed, stuck>>

Buf == 1 .. NBUF
NoBlock == "none"
NoChain == [b |-> 0, ids |-> <<>>, write |-> FALSE, status |-> 0]
Resting == [pc |-> "idle", b |-> 0, job |-> NoBlock, write |-> FALSE, idx |-> 0, asleep |-> FALSE]

\* binit() and virtio_disk_init().
DiskInit ==
  /\ buf = [b \in Buf |-> [blk |-> NoBlock, valid |-> FALSE, disk |-> FALSE, refcnt |-> 0, pins |-> 0,
                           data |-> 0, holder |-> NoBlock]]
  /\ lru = [i \in Buf |-> NBUF + 1 - i]
  /\ pr = [p \in DProc |-> Resting]
  /\ dfree = 0 .. NUM - 1
  /\ info = [i \in 0 .. NUM - 1 |-> NoChain]
  /\ avail = <<>>
  /\ used = <<>>
  /\ dev = [busy |-> {}, irq |-> FALSE]
  /\ vlock = FALSE
  /\ disk = [k \in Block |-> 0]
  /\ latest = disk
  /\ dpanic = FALSE
  /\ gets = 0
  /\ killed = {}
  /\ stuck = "none"

B(p) == buf[pr[p].b]

\* The process is not in the middle of a call for its other buffer.
Runs(p) ==
  /\ p # stuck
  /\ Other[p] # "none" => Other[p] # stuck /\ pr[Other[p]].pc \notin {"lock", "rw", "wait", "relse"}

\* It asks for the second of two buffers when it has the first one.
InTurn(p) == p \in Second => pr[Other[p]].pc = "have"

At(p, pc) == pr[p].pc = pc /\ ~pr[p].asleep /\ Runs(p)

\* Nobody stopped with bcache.lock held.
CacheOpen == stuck = "none"

\* wakeup() of the processes at pc (and on buffer b), applied to the table f.
wakeup(f, pc, b) ==
  [p \in DProc |-> IF f[p].pc = pc /\ (b = 0 \/ f[p].b = b) THEN [f[p] EXCEPT !.asleep = FALSE] ELSE f[p]]
-----------------------------------------------------------------------------
Cached(blk) == {b \in Buf : buf[b].blk = blk}

\* Mutant: a buffer that someone still refers to may be recycled.
Recyclable_Any == {i \in Buf : buf[lru[i]].holder = NoBlock}

\* Places in the list of the buffers that bget() may recycle.
Recyclable == {i \in Buf : buf[lru[i]].refcnt = 0}

\* bget() under bcache.lock: the buffer of the block, or the least recently used
\* one that nobody refers to.
bget(p, blk, job) ==
  /\ At(p, "idle") /\ InTurn(p) /\ gets < MaxGets /\ CacheOpen
  /\ Cached(blk) # {} \/ Recyclable # {}
  /\ gets' = gets + 1
  /\ LET b == IF Cached(blk) # {} THEN CHOOSE c \in Cached(blk) : TRUE ELSE lru[Max(Recyclable)] IN
     /\ buf' = IF Cached(blk) # {}
               THEN [buf EXCEPT ![b].refcnt = @ + 1]
               ELSE [buf EXCEPT ![b].blk = blk, ![b].valid = FALSE, ![b].refcnt = 1]
     /\ pr' = [pr EXCEPT ![p] = [Resting EXCEPT !.pc = "lock", !.b = b, !.job = job]]
  /\ UNCHANGED <<lru, dfree, info, avail, used, dev, vlock, disk, latest, dpanic, killed, stuck>>

\* "bget: no buffers": the kernel panics, with bcache.lock held.
bget_panic(p, blk) ==
  /\ At(p, "idle") /\ InTurn(p) /\ gets < MaxGets /\ CacheOpen
  /\ Cached(blk) = {} /\ Recyclable = {}
  /\ stuck' = p
  /\ UNCHANGED <<buf, lru, pr, dfree, info, avail, used, dev, vlock, disk, latest, dpanic, gets, killed>>

\* acquiresleep(): sleep while the buffer is locked, then take it.  bread() goes
\* to the disk when the contents are not valid.
acquiresleep(p) ==
  /\ At(p, "lock")
  /\ IF B(p).holder # NoBlock
     THEN pr' = [pr EXCEPT ![p].asleep = TRUE] /\ UNCHANGED buf
     ELSE /\ buf' = [buf EXCEPT ![pr[p].b].holder = p]
          /\ pr' = [pr EXCEPT ![p].pc = IF B(p).valid THEN "have" ELSE "rw"]
  /\ UNCHANGED <<lru, dfree, info, avail, used, dev, vlock, disk, latest, dpanic, gets, killed, stuck>>

\* The caller of bread() changes the data and writes it with bwrite().
bwrite(p) ==
  /\ At(p, "have") /\ pr[p].job = "write"
  /\ buf' = [buf EXCEPT ![pr[p].b].data = @ + 1]
  /\ latest' = [latest EXCEPT ![B(p).blk] = @ + 1]
  /\ pr' = [pr EXCEPT ![p].pc = "rw", ![p].write = TRUE]
  /\ UNCHANGED <<lru, dfree, info, avail, used, dev, vlock, disk, dpanic, gets, killed, stuck>>

\* The caller changes the data and pins the buffer with bpin(), as log_write() does
\* unless the block is pinned already.
bpin(p) ==
  /\ At(p, "have") /\ pr[p].job = "pin" /\ CacheOpen
  /\ B(p).pins > 0 \/ Cardinality({b \in Buf : buf[b].pins > 0}) < MaxPin
  /\ buf' = [buf EXCEPT ![pr[p].b].data = @ + 1, ![pr[p].b].refcnt = @ + 1 - B(p).pins, ![pr[p].b].pins = 1]
  /\ latest' = [latest EXCEPT ![B(p).blk] = @ + 1]
  /\ pr' = [pr EXCEPT ![p].pc = "release"]
  /\ UNCHANGED <<lru, dfree, info, avail, used, dev, vlock, disk, dpanic, gets, killed, stuck>>

\* The committer writes a pinned buffer, then bunpin() lets it go: install_trans().
flush(p) ==
  /\ At(p, "have") /\ pr[p].job = "flush" /\ B(p).pins > 0
  /\ pr' = [pr EXCEPT ![p].pc = "rw", ![p].write = TRUE]
  /\ UNCHANGED <<buf, lru, dfree, info, avail, used, dev, vlock, disk, latest, dpanic, gets, killed, stuck>>

bunpin(p) ==
  /\ At(p, "unpin") /\ CacheOpen
  /\ buf' = [buf EXCEPT ![pr[p].b].refcnt = @ - 1, ![pr[p].b].pins = 0]
  /\ pr' = [pr EXCEPT ![p].pc = "release"]
  /\ UNCHANGED <<lru, dfree, info, avail, used, dev, vlock, disk, latest, dpanic, gets, killed, stuck>>

\* p has nothing more to do with the buffer it holds.
Finished(p) ==
  \/ At(p, "release")
  \/ At(p, "have") /\ pr[p].job = "read"
  \/ At(p, "have") /\ pr[p].job = "flush" /\ B(p).pins = 0

\* Mutant: nobody is woken.
releasesleep_Silent(p) ==
  /\ Finished(p)
  /\ buf' = [buf EXCEPT ![pr[p].b].holder = NoBlock]
  /\ pr' = [pr EXCEPT ![p].pc = "relse"]
  /\ UNCHANGED <<lru, dfree, info, avail, used, dev, vlock, disk, latest, dpanic, gets, killed, stuck>>

\* brelse() starts with releasesleep() ...
releasesleep(p) ==
  /\ Finished(p)
  /\ buf' = [buf EXCEPT ![pr[p].b].holder = NoBlock]
  /\ pr' = wakeup([pr EXCEPT ![p].pc = "relse"], "lock", pr[p].b)
  /\ UNCHANGED <<lru, dfree, info, avail, used, dev, vlock, disk, latest, dpanic, gets, killed, stuck>>

\* The list with b taken out of it and put at its front.
ToFront(b) ==
  LET k == CHOOSE i \in Buf : lru[i] = b
  IN  [i \in Buf |-> IF i = 1 THEN b ELSE IF i <= k THEN lru[i - 1] ELSE lru[i]]

\* ... and then drops the reference; the last one moves the buffer to the front.
brelse(p) ==
  /\ At(p, "relse") /\ CacheOpen
  /\ buf' = [buf EXCEPT ![pr[p].b].refcnt = @ - 1]
  /\ lru' = IF B(p).refcnt = 1 THEN ToFront(pr[p].b) ELSE lru
  /\ pr' = [pr EXCEPT ![p] = Resting]
  /\ UNCHANGED <<dfree, info, avail, used, dev, vlock, disk, latest, dpanic, gets, killed, stuck>>
-----------------------------------------------------------------------------
\* alloc_desc() takes the lowest free descriptor, alloc3_desc() three of them.
alloc_desc(free) == Min(free)
alloc3_desc ==
  LET i == alloc_desc(dfree)
      j == alloc_desc(dfree \ {i})
  IN  <<i, j, alloc_desc(dfree \ {i, j})>>

\* free_chain(): free_desc() of each descriptor, which panics on a free one.
free_chain(ids) ==
  /\ dfree' = dfree \cup ToSet(ids)
  /\ dpanic' = (dpanic \/ dfree \cap ToSet(ids) # {} \/ ids = <<>>)

\* virtio_disk_rw(): with three descriptors the request is put on the ring and
\* the process sleeps on its buffer.  With fewer, alloc3_desc() gives back the
\* ones it got, which wakes the other processes that wait for descriptors, and
\* the process sleeps.
virtio_disk_rw(p) ==
  /\ At(p, "rw") /\ ~vlock
  /\ IF Cardinality(dfree) >= 3
     THEN LET ids == alloc3_desc IN
          /\ dfree' = dfree \ ToSet(ids)
          /\ info' = [info EXCEPT ![ids[1]] = [b |-> pr[p].b, ids |-> ids, write |-> pr[p].write, status |-> 255]]
          /\ avail' = Append(avail, ids[1])
          /\ buf' = [buf EXCEPT ![pr[p].b].disk = TRUE]
          /\ pr' = [pr EXCEPT ![p].pc = "wait", ![p].idx = ids[1], ![p].asleep = TRUE]
     ELSE /\ pr' = [(IF dfree = {} THEN pr ELSE wakeup(pr, "rw", 0)) EXCEPT ![p].asleep = TRUE]
          /\ UNCHANGED <<buf, dfree, info, avail>>
  /\ UNCHANGED <<lru, used, dev, vlock, disk, latest, dpanic, gets, killed, stuck>>

\* Mutant: whatever wakes the process counts as the completion.
virtio_disk_done_Woken(p) ==
  LET ids == info[pr[p].idx].ids
  IN  /\ At(p, "wait") /\ ~vlock
      /\ info' = [info EXCEPT ![pr[p].idx] = NoChain]
      /\ dfree' = dfree \cup ToSet(ids)
      /\ pr' = [pr EXCEPT ![p].pc = "release"]
      /\ UNCHANGED <<buf, dpanic, lru, avail, used, dev, vlock, disk, latest, gets, killed, stuck>>

\* The process is awake: when the disk is done with the buffer the chain is freed
\* and the processes that wait for descriptors are woken (free_desc()).
virtio_disk_done(p) ==
  LET ids == info[pr[p].idx].ids
  IN  /\ At(p, "wait") /\ ~vlock
      /\ IF B(p).disk
         THEN pr' = [pr EXCEPT ![p].asleep = TRUE] /\ UNCHANGED <<buf, dfree, info, dpanic>>
         ELSE /\ info' = [info EXCEPT ![pr[p].idx] = NoChain]
              /\ free_chain(ids)
              /\ buf' = IF pr[p].write THEN buf ELSE [buf EXCEPT ![pr[p].b].valid = TRUE]
              /\ pr' = wakeup([pr EXCEPT ![p].pc = IF ~pr[p].write THEN "have"
                                                   ELSE IF pr[p].job = "flush" THEN "unpin" ELSE "release",
                                         ![p].write = FALSE, ![p].idx = 0], "rw", 0)
      /\ UNCHANGED <<lru, avail, used, dev, vlock, disk, latest, gets, killed, stuck>>

\* kill() makes a sleeping process runnable whatever it sleeps for.
kill(p) ==
  /\ pr[p].asleep /\ p \in Victims \ killed
  /\ killed' = killed \cup {p}
  /\ pr' = [pr EXCEPT ![p].asleep = FALSE]
  /\ UNCHANGED <<buf, lru, dfree, info, avail, used, dev, vlock, disk, latest, dpanic, gets, stuck>>
-----------------------------------------------------------------------------
\* The device takes the next entry of the ring.
DeviceTake ==
  /\ avail # <<>>
  /\ dev' = [dev EXCEPT !.busy = @ \cup {Head(avail)}]
  /\ avail' = Tail(avail)
  /\ UNCHANGED <<buf, lru, pr, dfree, info, used, vlock, disk, latest, dpanic, gets, killed, stuck>>

\* The device transfers the data of a chain, in any order, writes the status, adds
\* the head to the used ring and raises its interrupt.
DeviceFinish(head) ==
  LET c == info[head]
  IN  /\ head \in dev.busy
      /\ dev' = [dev EXCEPT !.busy = @ \ {head}, !.irq = TRUE]
      /\ info' = [info EXCEPT ![head].status = 0]
      /\ used' = Append(used, head)
      /\ IF c.b = 0 THEN UNCHANGED <<disk, buf>>
         ELSE IF c.write THEN disk' = [disk EXCEPT ![buf[c.b].blk] = buf[c.b].data] /\ UNCHANGED buf
         ELSE buf' = [buf EXCEPT ![c.b].data = disk[buf[c.b].blk]] /\ UNCHANGED disk
      /\ UNCHANGED <<lru, pr, dfree, avail, vlock, latest, dpanic, gets, killed, stuck>>

\* virtio_disk_intr() takes the lock and acknowledges the interrupt.
virtio_disk_intr ==
  /\ dev.irq /\ ~vlock
  /\ vlock' = TRUE
  /\ dev' = [dev EXCEPT !.irq = FALSE]
  /\ UNCHANGED <<buf, lru, pr, dfree, info, avail, used, disk, latest, dpanic, gets, killed, stuck>>

\* One turn of its loop: the buffer of the finished chain is done, its process woken.
intr_used ==
  LET id == Head(used)
  IN  /\ vlock /\ used # <<>>
      /\ dpanic' = (dpanic \/ info[id].status # 0 \/ info[id].b = 0)
      /\ buf' = IF info[id].b = 0 THEN buf ELSE [buf EXCEPT ![info[id].b].disk = FALSE]
      /\ pr' = wakeup(pr, "wait", info[id].b)
      /\ used' = Tail(used)
      /\ UNCHANGED <<lru, dfree, info, avail, dev, vlock, disk, latest, gets, killed, stuck>>

\* The loop has seen every entry; the lock is released.
intr_done ==
  /\ vlock /\ used = <<>>
  /\ vlock' = FALSE
  /\ UNCHANGED <<buf, lru, pr, dfree, info, avail, used, dev, disk, latest, dpanic, gets, killed, stuck>>

\* What a process does once it is in a call.
DiskStep(p) ==
  acquiresleep(p) \/ bwrite(p) \/ bpin(p) \/ flush(p) \/ bunpin(p) \/ releasesleep(p) \/ brelse(p) \/ virtio_disk_rw(p) \/ virtio_disk_done(p)

Device == DeviceTake \/ \E head \in dev.busy : DeviceFinish(head)
Handler == virtio_disk_intr \/ intr_used \/ intr_done

DiskNext ==
  \/ \E p \in DProc :
       \/ \E job \in Jobs[p] : bget(p, job[1], job[2]) \/ bget_panic(p, job[1])
       \/ kill(p)
       \/ DiskStep(p)
  \/ Device
  \/ Handler

\* Processes are scheduled, the device works, interrupts are taken.
DiskFair ==
  /\ \A p \in DProc : WF_diskvars(DiskStep(p))
  /\ WF_diskvars(Device)
  /\ WF_diskvars(Handler)

DiskSpec == DiskInit /\ [][DiskNext]_diskvars /\ DiskFair
-----------------------------------------------------------------------------
\* A process that has a buffer from bread() sees what the last holder of the block
\* left there, whether that went to the disk or is pinned, and no block has two
\* buffers (bio.c:1 "one copy of each disk block").
HolderSeesLatest ==
  /\ \A b, c \in DOMAIN buf : buf[b].blk = buf[c].blk /\ buf[b].blk # NoBlock => b = c
  /\ \A p \in DProc : pr[p].pc \in {"have", "unpin", "release"} =>
       B(p).valid /\ B(p).holder = p /\ B(p).data = latest[B(p).blk]

\* Descriptors are free or in the chain of exactly one process that waits for it,
\* the device and the rings name only such chains, and none of the driver's panics
\* is reached.
DescriptorsOwned ==
  LET waiting == {p \in DProc : pr[p].pc = "wait"}
      chain(p) == ToSet(info[pr[p].idx].ids)
      desc == DOMAIN info
  IN  /\ ~dpanic
      /\ dfree \cup UNION {chain(p) : p \in waiting} = desc
      /\ Cardinality(dfree) + 3 * Cardinality(waiting) = Cardinality(desc)
      /\ \A p \in waiting : info[pr[p].idx].b = pr[p].b
      /\ dev.busy \cup ToSet(avail) \cup ToSet(used) \subseteq {pr[p].idx : p \in waiting}
      /\ Len(avail) + Cardinality(dev.busy) + Len(used) <= Cardinality(desc) \div 3

\* Every process that asks for a block gets it, unless the cache ran out of buffers:
\* neither a sleep lock, nor a completion, nor the wait for descriptors loses a
\* wakeup, and processes that wake each other over too few descriptors do not keep
\* each other from them (virtio_disk_rw(), acquiresleep()).
RequestFinishes ==
  \A p \in DProc : pr[p].pc \in {"lock", "rw", "wait"} ~> pr[p].pc \in {"have", "unpin", "release"} \/ ~CacheOpen
=============================================================================
