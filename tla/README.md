# Formal models of team8

TLA+ models of this repository: the xv6 kernel under `CLab/xv6` with the lottery
scheduler the team added, its shell and its allocator, the demand paging and
malloc exercises under `CLab`, and the XMODEM library of the Raspberry Pi boot
loader under `lib/xmodem`. The modules are checked with TLC on small instances;
the write-ahead log, the buffer cache with the disk driver, the inode table and the
directories, the process table, pipes, the console and the lottery scheduler are also proved
correct with TLAPS for all sizes (section 4).

## 1. Inventory

| Part | State | Operations | What is hard |
|---|---|---|---|
| write-ahead log (`kernel/log.c`) | `log.lh`, `outstanding`, `committing`; header and log blocks on disk | `begin_op`, `log_write`, `end_op`, `commit`, `recover_from_log` | crash between any two disk writes, group commit, log space, lost wakeups |
| buffer cache (`kernel/bio.c`, `kernel/sleeplock.c`) | LRU list of buffers, `refcnt`, `valid`, sleep lock | `bread`, `bwrite`, `brelse`, `bpin`, `bunpin` | recycling a buffer someone waits for, running out of buffers |
| disk driver (`kernel/virtio_disk.c`) | descriptors, two rings | `virtio_disk_rw`, `virtio_disk_intr` | waiting for descriptors and for completion, the device goes on during the handler |
| inodes, directories, path names (`kernel/fs.c`, `kernel/sysfile.c`) | inode table, inodes, directory entries and bitmap on disk | `iget`, `ilock`, `iput`, `ialloc`, `namex`, `dirlink`; `open`, `mkdir`, `link`, `unlink`, `chdir` | freeing while others look the inode up, lock order, undoing half a call |
| file table (`kernel/file.c`) | `struct file`, `ref`, offset; descriptors | `fdalloc`, `filedup`, `fileclose`, `fileread`, `filewrite` | shared references over `fork` |
| pipes (`kernel/pipe.c`) | ring buffer, two counters, two open flags | `pipewrite`, `piperead`, `pipeclose` | sleep and wakeup on two channels, wrap of counters, freeing the page |
| console, UART (`kernel/console.c`, `kernel/uart.c`, `kernel/plic.c`) | input ring with three indices, transmit ring | `consoleread`, `consolewrite`, `consoleintr`, `uartputc`, `uartintr` | interrupt handler against reader and writer, echo past the lock |
| memory (`kernel/kalloc.c`, `kernel/vm.c`, `kernel/exec.c`) | free list, page tables, `p->sz` | `kalloc`, `kfree`, `uvmcopy`, `uvmalloc`, `exec`, `growproc` | undo after a failed allocation |
| processes (`kernel/proc.c`, `kernel/trap.c`) | process table, `wait_lock`, `c->proc` | `fork`, `exit`, `wait`, `kill`, `sleep`, `wakeup`, `yield`, `scheduler` | two CPUs on one stack, zombie against sleeping parent, orphans |
| lottery scheduler (`kernel/proc_our.c`) | `tickets`, `context_switches` | two passes of `scheduler` | the table changes between the passes |
| locks (`kernel/spinlock.c`) | holder, `noff` | `acquire`, `release`, `push_off` | interrupts while a lock is held |
| system calls (`kernel/sysproc.c`, `kernel/syscall.c`) | `priority` and `tickets` of a process | dispatch, priority calls | reads of another process without its locks |
| shell (`user/sh.c`) | command tree, descriptors | parser, `runcmd` | pipe ends left open, processes that run out |
| `user/umalloc.c` | circular free list | `malloc`, `free` | joining neighbours in every order of calls |
| XMODEM (`lib/xmodem`) | packet number, buffer, retries on both sides | `transmit`, `receive`, `read_packet`, `write_packet` | damaged bytes, retransmission, wrap of the packet number |
| demand paging (`CLab/mmap1.c`, `mmap2.c`) | cached pages, clock hand | SIGSEGV handler, three workloads | the cache and the mappings must agree |
| malloc exercise (`CLab/mem-allocator`) | bump heap; range list of the driver | `mm_malloc`, `mm_realloc`, `eval_mm_*` | overlapping payloads, a trace replayed on a reset heap |
| boot-loader kernel (`kern`), `lib/pi`, `lib/stack-vec`, `lib/shim`, `lib/ttywrite`, `lib/fat32` | allocators, console, shell line | `alloc`, `dealloc`, shell | one core, no interrupts; `fat32` is a set of stubs |

How the kernel parts meet: a system call of `sysfile.c` brackets its work with
`begin_op` and `end_op`; inside, `fs.c` changes buffers of `bio.c` and hands them
to `log_write`; `log.c` pins them until `commit` has copied them home through the
disk driver. Everything that waits does so with `sleep` and `wakeup` of
`proc.c`. `fork` and `exit` share and drop files, pipes and current directories.
On the Raspberry Pi side `ttywrite` on the host runs `transmit`, the boot loader
runs `receive`, and only a serial line joins them.

`PROJECT.json` lists every component with its status and every hazard with the
line where it bites and the properties that cover it.

## 2. Modules

| Module | Models | Run from |
|---|---|---|
| `AtomicDisk` | abstract: blocks that change by whole groups of operations; a crash loses the operations since the last group | `Log` |
| `Log` | `log.c` over buffers, pins and the disk, with crashes | `MCLog`, `MCProcLog`, `MCLive` |
| `Inode` | `fs.c` from `iget` to `namex`, and the calls on path names of `sysfile.c` | `MCInode`, `MCKernel` |
| `Memory` | `kalloc.c`, `vm.c`, `exec.c` and the memory side of `fork`, `sbrk`, `exit`, `wait` | `MCKernel` |
| `Proc` | `proc.c` and the traps that lead into it | `MCProcLog`, `MCLive` |
| `ByteStream` | abstract: a bounded queue of bytes with two ends | `Pipe` |
| `Pipe` | `pipe.c` with the file references behind it | `MCPipe` |
| `Disk` | `bio.c`, `sleeplock.c`, `virtio_disk.c` and the device | `MCDevices` |
| `Lines` | abstract: finished lines, and one line that can still be edited | `Console` |
| `Console` | `console.c`, `uart.c`, interrupts and `push_off` | `MCDevices` |
| `Lottery` | `scheduler()` of `proc_our.c` | `MCLottery`, itself |
| `Xmodem` | both sides of `lib/xmodem/src/lib.rs` and the line | `MCLottery` |
| `Shell` | parser and `runcmd` of `sh.c` | `MCPrograms` |
| `Umalloc` | `umalloc.c` | `MCPrograms` |
| `Paging` | `mmap1.c`, `mmap2.c` | `MCPrograms`, `MCEvict` |
| `MmDriver` | `mm.c`, `memlib.c`, `mdriver.c` | `MCPrograms` |
| `LogProofs`, `InodeProofs`, `MemoryProofs`, `PipeProofs`, `ProcPagingProofs`, `LotteryXmodemProofs` | theorems about the modules of that name | |
| `DeviceProofs` | theorems about `Disk` and `Console` | |
| `RingLemmas` | facts about ring buffers whose counters wrap, for `PipeProofs`, `DeviceProofs` and `ProcPagingProofs` | |

The `MC...` modules add symmetry sets, views and the inputs of an instance.
`MCKernel`, `MCProcLog`, `MCDevices`, `MCLottery`, `MCPrograms` and `MCLive` put several models that
share no state under one specification: the initial state chooses which of them works,
and the others rest in their initial states. The states of such a run are the
sum of those of its parts, and fairness is required only of the part that works.

A definition called `X_Something` under a comment that begins with "Mutant" is a
faulty variant of `X`; no specification uses it. Every checked property is
violated when one of these variants takes the place of its original.

### Log

`home`, `dlog`, `hn` and `hblock` are the disk; `cache`, `pin`, `n`, `block`,
`outstanding` and `committing` are memory and are lost by `Crash`. `phase` and
`tail` say which loop of `commit()` or `recover_from_log()` runs and how far it
is; a step there writes one block. A file-system operation is `begin_op`, then
`modify`, `log_write` and `brelse` of up to `MAXOPBLOCKS` blocks in any order and
number, then `end_op`. `Fetch` and `Recycle` let the cache read and drop any
buffer that is neither locked nor pinned. A block is written atomically: that is
what the log itself relies on for its header. An operation is assumed to log
every buffer it modifies; `writei()` breaks this when a copy from user memory
fails (section 6).

### Inode

`dinode`, `dents` and `bitmap` are the disk as the file system sees it, without
crashes (those are `Log`'s subject); `itable` and `lock` are the inode table.
A file's contents are reduced to the set of blocks it owns, a directory to a
function from names to inode numbers. `pr[p]` holds the program counter of a
system call and its inode pointers: `cur` (in `namex`), `ip`, `dp`, and `put`,
the argument of a running `iput()`. A step is a critical section of `itable.lock`
or of an inode lock; a lock that is held while the process waits for another one
stays in `lock`. `iput`, `ifree` and `iref` are the three parts of `iput()`: the
test under `itable.lock`, the freeing under `ip->lock`, and the final `ref--`.
`dirlink()` may fail with a full disk at any time.

### Memory

`freelist` counts how often a frame is on the free list, so that a double free
shows. A page table is its root, the page-table pages below it (`dir`) and its
leaf entries; `tab` has the table of each process and the one `exec()` is
building. Operators such as `mappages` and `uvmunmap` take a record of the free
list and a table and return what they become, with `ok` and `panic`; an action is
one turn of a loop in `vm.c`. Frames are few, so that any `kalloc()` may fail.
Contents are left out, sizes are in bytes and wrap at `UINT`.

### Proc

One step is one critical section of a `p->lock`. `wait_lock` and a `p->lock` that
is held across `swtch` are state; `pc` and `ret` say where a process is in the
kernel and where it goes on after it is switched in again. `exit()` takes five
steps, `fork()` three. A timer interrupt may come wherever the code runs with
interrupts on. `setkilled` is the mark that `usertrap()` gives a process for an
exception; the process exits in the same trap. `signalled` records for `MarkedForCause`
which slot was marked under which pid, by `kill()` or by an exception; the entry for
pid 0, left by `kill(0)` on a free slot, lasts until `freeproc()` clears the slot.

### Pipe

`pi->lock` is a variable and one step is one byte, so that `kill()` and failing
copies can come between bytes. `wfd` and `rfd` are the processes with a
descriptor of each end; `close` by the last of them goes on to `pipeclose()`.
The counters wrap at `UINT`, a multiple of `PIPESIZE` as 2^32 is of 512.

### Disk

A member of `DProc` calls `bread` for one of its jobs (read; write; change and pin as
`log_write` does; write back and unpin as `install_trans` does). A process that has
two buffers at a time, as `install_trans` and `write_log` do, is two members: `Other` names the
partner, one of them stands still while the other is in a call, and a member of `Second` asks
for its buffer only when the other one has the first. `bget_panic` is the panic "bget: no buffers":
the process keeps `bcache.lock` (`stuck`), so that nobody gets or releases a buffer any more, while
whoever waits for the disk goes on. `lru` is the list
from `bcache.head`. `info` indexes chains by their first descriptor. `avail` and
`used` are queues: at most NUM/3 chains are outstanding, part of
`DescriptorsOwned`, so no ring entry is written again before it is read. The device takes
chains in order and finishes them in any order, also while the handler holds
`vdisk_lock`. `kill()` wakes a sleeper whatever it waits for. `latest` is a
history variable: what the last holder left in each block.

### Console

Each process is on its own CPU. `noff` is the nesting of `push_off`; `devintr` is
possible where it is 0, and the handler then keeps the process of that CPU from
running. Locks are held over several steps. The receive register holds one key;
the transmit side of the UART is `busy` or raises `txint`. All bytes of an echo
count as one. The abstract `Lines` sees the ring through the three indices.

### Lottery

Each CPU walks through the table twice per round (`count`, `draw`, then the
`scan_*` steps), one slot per step, and other CPUs may change the table
in between. `draw` takes any ticket below the total. `p->lock` of a running
process is not modelled: no CPU changes a slot that is RUNNING.

### Xmodem

Bytes keep their values (so data can look like `SOH` or `EOT`); `toR` and `toS`
are the two directions of the line. The line keeps the order and may turn up to
`Budget(file)` bytes into a member of `Noise`. A read waits for ever, as the
code's does. Packets have `LEN` data bytes and `RETRIES` attempts (128 and 10 in
the code). Progress callbacks are left out.

### Shell, Umalloc, Paging, MmDriver

`Shell` parses token sequences with operators named after the functions of `sh.c`
(recursive, so this module is for TLC only); `LineTrees` is an independent
definition of the grammar over all ways to split a line. `runcmd` runs in a
tree of processes with descriptor tables; a program reads its input to the end,
or stops early, and exits. A first token "cd " is the word with its space, which is what makes
the line a builtin. `Umalloc` keeps the headers in an array of units and
lets the program call `sbrk()` in between; `AsInt` is the conversion of a length to
`sbrk()`'s `int`, with `IntUnits` units for 2^32 bytes. A request that is too long for it makes
`morecore()` put a header where the program has no memory (`beyond`); the program is followed no
further, and `HeapPartition` speaks of the time before. `Paging` keeps the records of the cache
and the mapped pages apart, as the code does. `MmDriver` chooses a trace request by
request during `eval_mm_valid` and replays it on the reset heap.

## 3. Runs

| Run | Instance | Shows |
|---|---|---|
| `proclog`, log | 2 processes, 2 blocks, 2 values, `LOGSIZE` 4, 2 blocks per operation | the write-ahead rule, the reservation of log space, and `Log` implements `AtomicDisk`, with crashes anywhere, also during recovery |
| `proclog`, processes | 3 slots, 2 CPUs, pids up to 4, `kill` of 0 and 3, exceptions in any process | stacks, parents and kill marks over every interleaving |
| `logmkfs` | 3 processes, 3 blocks, `nlog = LOGSIZE` as `mkfs` sets it | violation: admitted operations fill the log and `log_write` panics |
| `kernel`, files | 2 processes, 3 inodes, names x and y, 1 data block, 6 calls | reference counts are exact, copies are fresh, no entry dangles, blocks have one owner, no wait cycle, no panic |
| `kernel`, memory | 3 process slots, 23 frames, tables of 3 entries, 4 programs, 5 calls | every frame has one owner, no panic of `vm.c`, the mapped pages are those below `p->sz` |
| `live`, log | 3 processes, 1 block, `LOGSIZE` 2 | nobody sleeps in `begin_op` for ever, and every commit and boot ends unless crashes never stop |
| `live`, processes | 3 slots, 1 CPU | orphans are reaped and killed processes leave |
| `inodeleak` | files with 4 calls | violation: an inode without links and references that is not free |
| `pipe` | 3 processes, 2 byte values, `PIPESIZE` 2, counters modulo 4, calls of up to 3 bytes, kill of 2 processes | `Pipe` implements `ByteStream`; the page is freed once and not too early; nobody sleeps without a reason |
| `pipelive` | 3 processes, `PIPESIZE` 1, no kill | closing one end releases the other |
| `devices`, disk | 3 processes, 3 blocks, 3 buffers, 5 descriptors, 3 requests, one kill | chains have one owner, every request finishes while two processes wait for descriptors |
| `devices`, small | 4 members for 3 processes, 3 blocks, 2 buffers, 7 descriptors, 4 requests, one kill | a holder sees the latest contents although buffers are recycled and may run out |
| `devices`, console | 2 processes, ring of 2 bytes, indices modulo 4, transmit buffer of 1, up to 4 keys | the ring implements `Lines`, no CPU waits for itself, every write finishes |
| `lottery`, scheduler | 2 slots, 2 CPUs, tickets 1 and 2 | a process runs on one CPU at most and every runnable process runs in the end |
| `lottery`, transfer | files of 0 to 5 packets with up to 4 damaged bytes; one of 258 packets over a clean line | what arrives is a prefix of the file, success means the whole file, a clean line completes |
| `lotterydraw` | 3 slots, 1 CPU | violation: one draw runs several processes |
| `programs`, sh | every line of up to 3 tokens, four longer ones and three with `cd`, then a pipeline; 6 processes | a line runs as the grammar says, with the descriptors it asks for; the prompt returns |
| `programs`, mmap | 4 pages, 0, 2, 3 or 4 slots with memory for 3, all policies and workloads | records and mappings agree |
| `evict` | 4 pages, 2 or 3 slots, LRU and MRU | violation: LRU gives up a page that was read more recently than another |
| `programs`, umalloc | 12 units, 7 calls, one size too long for an `int` | memory is divided among free and used blocks, neighbours are joined |
| `programs`, mm | traces of 4 requests on 2 blocks, heap of 16 bytes | an accepted trace can be replayed; payloads are disjoint |

Why the bounds are enough for what is asked:

* In `proclog` two operations fit into the log at once and a third must wait for
  a commit; two values tell old from new contents; two blocks show that one
  of them may be installed while the other is not.
* In `kernel`, three inodes are the root, a directory and one thing in it, or two
  things in the root; six calls are enough to build such a tree, remove
  it from under a process and allocate its inodes again. Paths avoid "..", see
  section 6. `View` leaves out the fields of table entries that are written before
  they are next read. Two processes and a half fit into 23 frames, so `fork`,
  `exec` and `sbrk` fail at every one of their allocations.
* In `proclog` three slots of the process table are init, a parent and a child, and
  slots are used again by later processes; two CPUs are needed for a race on one
  stack.
* In `pipe` the ring and the counters wrap several times and a third process can
  hold either end while the others close theirs.
* In `devices`, disk, five descriptors are one chain and two left over: while one request
  is with the device, two others take the two descriptors in turn, give them back, wake each
  other and sleep. In `devices`, small, two buffers hold the three blocks of the jobs only in turn:
  a block that was written is recycled and read back, a pinned buffer leaves one for everybody
  else, and the committer, which holds a block of the log and asks for the pinned one, can run
  into the panic, as can the others. Seven descriptors are two chains and one left over. Four keys
  wrap the ring of two and its indices; one byte of transmit buffer makes writers
  sleep.
* In `lottery` one CPU can take the winner of the other's draw; five packets
  reach packet number 4, which is also `EOT`, and the one behind it; three attempts per packet let four
  errors use up the attempts; 258 packets wrap the packet number.
* In `programs` three tokens reach every rule of the grammar except nested ones,
  for which the longer lines are added; six processes run a pipeline of three and
  run out when a background command is still there; four slots are more than
  fit into the address space. Requests of `umalloc` are small against half of `IntUnits`, as
  those of the user programs are against 2 GB, but for one that `AsInt` makes negative.

Deadlock is checked in `logmkfs` and `lotterydraw`. The others may stop: all
processes idle at the bound of pids or calls, every descriptor closed, a
transfer ended or (true of the code) waiting for a byte for ever.

### Fairness

Where a run has several parts, its formula states one fairness condition for a
step of each part at a time: the parts that rest cannot take it, so it binds the
part that works.

* `Log`: a process that was woken, holds a buffer or commits goes on (weak
  fairness: the kernel schedules it). An operation reaches `end_op` after finitely
  many writes (strong fairness, as `modify` may be enabled too). No process has to
  start an operation; crashes are never required.
* `Proc`: every runnable slot is reached by the scan of `scheduler()` again and
  again; timer interrupts end every stay in user space; spinlocks do not starve a
  process; `init` calls `wait()` in a loop (`user/init.c`).
* `Pipe`: a process inside the pipe code goes on and gets `pi->lock` in the end;
  nobody has to start a read, a write or a close.
* `Disk`: processes, the device and the handler go on. The device has to finish some chain it
  has taken, not a certain one. Weak fairness is enough, also for the wait for descriptors.
* `Console`: CPUs go on and a spinning CPU gets a lock that is free again and
  again (strong fairness); the UART sends its byte and some CPU takes a pending
  interrupt. No key has to be typed.
* `Lottery`: CPUs go on, timer interrupts end runs and `wfi`, and among the draws
  of all CPUs ticket 0 comes up infinitely often. `rand()` is a linear
  congruential generator that all CPUs share.
* `Xmodem`: a side with input goes on.
* `Shell`: processes go on; a program that can see the end of its input exits.

## 4. Proofs

The theorems hold for every value of the constants that meets the assumptions of
the module; TLC evaluates the same assumptions in the runs. A property below that
also appears in a run has the same definition there.

| Theorem | Statement |
|---|---|
| **`LogProofs`** | |
| `TypeCorrect` | `lh.n` and the loops stay within `logheader.block` |
| `CommitsAlone` | no operation runs while a commit or recovery does |
| `DirtyHeld` | a buffer that differs from its home block is locked or pinned |
| `NoLostWakeup` | a sleeper in `begin_op` has an operation or a commit that will wake it |
| `WritesAhead` | a home block changes only to what a committed header records for it |
| `QuietDurable` | with no operation and no commit, everything visible is durable and nothing is pinned |
| `SpaceIsReserved` | `[]SpaceReserved`: what is logged and what the running operations may still log fits |
| `PanicsOnlyWhenFull` | `log_write` panics only where the log region ends before `logheader.block`, or for a block logged again in a full log |
| `Refinement` | `Log` implements `AtomicDisk` |
| **`DeviceProofs`** | |
| `BuffersAreLatest` | `[]HolderSeesLatest`: whoever has a buffer sees the latest contents of the block |
| `DescriptorsAreOwned` | `[]DescriptorsOwned`: no descriptor is lost or used twice, no panic of the driver |
| `OutOfBuffersOnlyInUse` | `bget` panics only when every buffer is in a call or pinned |
| `InterruptsAreSafe` | `[]NoSelfDeadlock`: no CPU waits for the process it interrupted, no sleeper is forgotten |
| `RingIsLines` | `Console` implements `Lines` |
| **`InodeProofs`** | |
| `RefExactAlways` | `[]RefExact`: `ip->ref` counts the pointers to the entry, and an inode has one entry |
| `CopyFreshAlways` | `[]CopyFresh`: a valid copy is the inode on disk |
| `BlocksOwnedAlways` | `[]BlocksOwned`: a block in use has one owner |
| `NoDanglingAlways` | without "..", `[]NoDangling`: no directory entry outlives its inode |
| `NoWaitCycleAlways` | without "..", `[]NoWaitCycle`: no processes wait in a circle for inode locks |
| `NoPanicAlways` | without "..", `[]NoPanic`: no "ilock: no type", no "unlink: nlink < 1" |
| **`MemoryProofs`** | |
| `FramesOwnedAlways` | `[]FramesOwned`: a frame is free once or has one owner, whatever allocation fails |
| `NoVmPanicAlways` | `[]NoVmPanic`: no panic of `vm.c` and `exec.c` is reached |
| `ImageMatchesAlways` | `[]ImageMatches`: the pages of a process are those below `p->sz`, and its trap pages |
| **`PipeProofs`** | |
| `FreedOnce` | `[]NoUseAfterFree`: the page is freed once, with no process in pipe code |
| `NoWakeupIsLost` | `[]NoLostWakeup`: nobody sleeps without a reason, but for a killed writer |
| `RingIsByteStream` | `Pipe` implements `ByteStream` |
| **`ProcPagingProofs`** | |
| `StacksExclusive` | `[]StackExclusive`: one CPU per kernel stack, none on a freed slot |
| `ChildrenWaited` | `[]ChildrenAreWaitedFor`: parents are alive, and none sleeps on a zombie |
| `MarksHaveCause` | `[]MarkedForCause`: a mark means an exception, `kill` of this pid, or `kill(0)` on the free slot |
| `CacheIsMemoryAlways` | `[]CacheIsMemory`: the records of the cache are the mapped pages, and no read is wrong |
| `EvictionOrderAlways` | `EvictionOrder`: LRU and Clock give up the page that came first, MRU one that came last |
| **`LotteryXmodemProofs`** | |
| `OneCPUPerProcess` | `[]OneCPU`: a process is RUNNING exactly while one CPU has it |
| `RoundIsBounded` | a round of a CPU switches to no slot twice |
| `DeliveredInOrderAlways` | `[]DeliveredInOrder`: the receiver has a prefix of the file, if the line makes no `ACK` |
| `SuccessIsTrueAlways` | `[]SuccessIsTrue`: a success that is reported is one, under the same condition |

None of these is inductive alone. Each proof module has an inductive invariant
`IInv` (`CInv` for `Console`, `MInv` for `Memory`, `PInv` for `Paging`, `XInv` for `Xmodem`, and `TableInv` and `TreeInv` for `Inode`), a conjunction of named parts, one lemma per action or group of actions that
says the action keeps it, and a lemma that puts them together. The refinements
take a step of the module under `IInv` and show that it is a step of the abstract
specification or leaves its variables alone.

### Log

Assumed (`LogAssumption`): a finite set of processes, any blocks and values, any
`MAXOPBLOCKS <= LOGSIZE` and `nlog`. The parts of `IInv`:
`outstanding` counts the running operations (`Counted`); how `committing` and
`recovering` follow the phase, and that operations and commits exclude each
other (`Flags`); who holds buffers (`Locks`); the ranges of the loops (`Loops`);
that `lh` names every block once, the effect of absorption (`LogEntries`); that
the header on disk is empty, or equals `lh` during install, and is always fit to
be read by a boot (`Header`); that the log is empty when nothing runs (`Quiet`);
that exactly the logged and not yet installed blocks are pinned, once (`Pins`);
that an unpinned, unlocked buffer agrees with the disk (`Buffers`); and how much
of the log is written or installed (`Progress`).

The refinement maps `durable` to the disk that recovery would produce now and
`current` to what readers see through the cache. The one step that changes
`durable` is the write of the header (`RefineCommitPoint`); installing a block
leaves it alone because the header still lists the block, and erasing the header
because every block is installed. A crash makes `current` fall back to `durable`.

The reservation needs a second invariant, `SpaceInv`: an operation has written at most
`MAXOPBLOCKS` blocks, and the header names every one of them (`Frugal`). So a block
that takes a new slot is new to its operation and is paid for by the reservation.
`PanicsOnlyWhenFull` says for every size of the log region what a panic of `log_write` means; with the size `mkfs`
gives it the first case happens (section 6). It counts the blocks of the running operations by
giving each operation `MAXOPBLOCKS` tickets, one for a block.

`TypeOK`, `CommitAlone`, `DirtyIsHeld` and `SleeperHasWaker` of `Log` are only
proved: no run lists them, since the theorems cover every instance.

### Disk

Assumed: finitely many processes, any number of buffers, pins and descriptors
(`BufAssumption`, `NumAssumption`), jobs on blocks (`JobAssumption`), no process or block with
the name of a marker (`NameAssumption`). `IInv` has a half for each file.

For `bio.c` (`CacheInv`): a block has one buffer (`OneBuffer`), a buffer's lock is held by
the process that is at such a place (`Holders`), and `refcnt` is the number of processes that
are in a call with the buffer plus one for a pin (`Refs`). So a buffer that `bget` recycles
is one nobody waits for. Valid contents are the latest (`Contents`); the disk is behind
only for a block whose buffer is pinned or being written (`Clean`), so that a buffer read
in again is the latest too; and once the device is done with a request its data has
moved (`Transferred`), also in the time before the handler and the process learn of it.

For `virtio_disk.c` (`DriverInv`): a waiting process has a chain of three descriptors that
are not free (`Chains`), chains are disjoint (`Apart`), every descriptor is free or in one
(`Kept`, `Counted`), the rings and the device hold the chains of processes whose buffer is
marked (`Rings`), each in one place (`Once`), as many as there are such processes (`Load`).
The last two give the bound NUM/3 that lets the model treat the rings as queues.

`OutOfBuffersOnlyInUse` follows from `Refs`: a buffer without a user and without a pin has `refcnt`
0 and could be recycled. It does not say that buffers suffice: `param.h` has `NBUF` = `LOGSIZE` = 30 and
64 processes, and the `devices` run reaches the panic. `Other` and `Second` play no part in the proof, which
holds for any number of members.

### Inode

Assumed: finitely many processes and names, none of them with the name of a marker
(`InodeAssumption`), and calls with paths over these names, "." and ".."
(`CallsAssumption`); any number of inodes, blocks and calls.

`TableInv` is about the inode table. It says which locals a process has at each
program counter (`Shapes`), which locks that means (`Locking`), that a locked entry is
valid (`HeldValid`), that `ref` counts all pointers (`Counted`), and that an inode has one
entry and a valid entry is the copy of an allocated inode (`Sound`). `Counted` makes
`iput()` safe: with `ref` 1 nobody else can hold or want the lock, so that the
`acquiresleep` in it does not wait, and no second process frees the inode.

`TreeInv` is about links and directories. Its parts are what each process relies on
(`Reliable`: its current directory is a directory, the entry it is about to remove is still
there, a new inode has no links yet), that nobody points to an inode that is being freed
or is not yet linked (`Apartness`), that free inodes have no links and files no entries
(`Tidy`), that directories form no cycle (`Acyclic`), and that `nlink` covers the
names of an inode, the ".." of its subdirectories and the calls of `link` and `unlink` that are
between two steps (`Stakes`). `Stakes` is the heart: an inode that somebody can still reach
through a name, or is about to link, has `nlink > 0` and is not freed. A process
waits for one lock while it holds another only in `create`, for an inode nobody else knows,
and in `unlink`, for an entry of the directory it holds. Processes waiting in a circle would
therefore be a cycle of directories.

The last three theorems assume `NoDotDot`, that no path has an element "..". Without it
`NoPanic` is false (section 6). `mkdir` and `unlink` still keep the ".." entries and their
links, and the first three theorems hold for all paths.

### Memory

Assumed: any process table with a first slot, and frames that are numbers other than 0
(`SlotAssumption`); any positive sizes (`TableAssumption`); fewer frames than the address
space has pages for users (`MemoryAssumption`: 128 MB against 256 GB); programs whose headers `exec()` does not
refuse (`ImageAssumption`); any arguments of `sbrk()` (`DeltaAssumption`).

`MInv` has four parts. `Owned` is `Keep` of the free list, the page tables and the trapframes: it
says of each table in turn that no frame is in it twice and that its frames, the free ones and
all others (`Others`) are disjoint and together all of memory (`Apart`). `Slots` says for each state
of a slot what its tables map: `Spans(pt, n, f)` are the pages below `n` and the trap pages for the trapframe `f`,
where `n` is `p->sz` rounded up, or what `uvmalloc()` has reached so far (`Growing`). The image
that `exec()` builds has its own case for each place in `exec()` (`ExecOK`). `Forks` is about the child
of a `fork()` that is under way: how many pages it has, with the flags of the parent's, and that no
second `fork()` has it (`ChildOK`).

The proof follows the calls from below. For a piece of code such as `walk`, `mappages`,
`uvmunmap` or `proc_pagetable`, a lemma says that a record that is `Sound` with the frames `R`
left to others becomes one that is again `Sound` with `R`, whether or not `ok` holds, and what
is mapped then. `KeepStep` carries this from the one table a step works on to all of them.
Page numbers of user memory stay below the trap pages because every page has a frame of its own
(`BelowTraps`): this is where `MemoryAssumption` is needed, and without it `uvmalloc()` would reach
"mappages: remap". `exit()` and `exec()` free with `p->sz` or the size reached so far; `NoVmPanic` follows from
`Spans` with that same size at every such call.

### Pipe

Assumed (`PipeAssumption`): any processes, `PIPESIZE > 0`, and `UINT` a multiple of
`PIPESIZE` that is larger, as 2^32 is of 512. The page is freed safely because a process
in pipe code still has the descriptor it came by (`Descriptors`), the flag of an
end is cleared only by the one process that gave up the last descriptor (`Closing`,
`OneCloser`), and the second flag to be cleared frees (`Flags`). No wakeup is lost
because the condition of a process that is about to sleep still holds, as it has
the lock (`Reasons`, `Locking`), and because a sleeper's reason can go only
while a process is in a loop that ends in a `wakeup` (`Sleepers`). The exception for
`killed` in `NoLostWakeup` came out of this proof: the early return of a killed
writer is the one way out of `pipewrite` that has written and does not wake.

The refinement maps the queue to the `Count` cells from `nread` on (`Queue`);
`Count <= PIPESIZE` (`Bounded`) keeps a write from reaching the cell at `nread`.

### Proc

Assumed (`ProcAssumption`): at least one slot, any CPUs, any pids for `kill`. The
key of `StacksExclusive` is `OnStack`: a CPU is on the stack of exactly the slots
that are RUNNING or between `sched` and `swtch`, and `p->lock` is held around every
`swtch`, so that `scheduler` and `wait` cannot take the slot earlier. `Lifecycle` says which
places in the kernel go with which state; `Where` is the place a process returns
to when it is switched in again. `ChildrenWaited` needs `WaitLock` (which places hold
`wait_lock`), `Parents`, `Forking` and `OneFork` (a child in `fork` belongs to one
parent, which is not exiting), `InitStays`, and `Waking`: a child becomes a zombie only
after the wakeup of its parent, and keeps `wait_lock` from one to the other.
`MarksHaveCause` adds `Marks`: a free slot has pid 0, and a mark on it comes from `kill(0)`.

### Console

Assumed: an index range that is a multiple of the ring (`IndexAssumption`), no
process with the name of a marker (`FreeAssumption`), lengths of calls that are numbers
(`LengthAssumption`), keys of the eight kinds the code tells apart (`KeysAssumption`).
`Locks` says which place holds which lock and that interrupts are off there;
`Interrupted` that the handler's CPU held no lock; `Sleeps` that a sleeping reader
has nothing to read and a sleeping writer no room; `Ordered` that `r`, `w` and `e`
follow each other and `e` does not lap `r`. The refinement maps `Lines` to the cells
between `r` and `w` and those between `w` and `e`. A new byte lands behind
both stretches by `Ordered`, a backspace shortens the second, and a finished
line moves it behind the first (`CellsCat`).

### RingLemmas

Both rings are read through `Cells(d, P, i, n)`, the sequence of `n` cells from
counter `i` on, and written through `Store`. The lemmas say that counters less than `P`
apart name different cells, that a counter wrapping at a multiple of `P` names the same cell
as the one that does not wrap, and what appending, dropping, cutting and joining
do to the stretch.

### Lottery

Assumed (`LotteryAssumption`): at least one slot, positive tickets, any CPUs. `IInv` adds to
`OneCPU` that a CPU has a process exactly while it runs it (`Runs`) and that
in a round it has switched at most once to each slot that it passed (`Ran`).
`RoundIsBounded` is what remains of "one draw, one process", which `lotterydraw`
refutes.

### Xmodem

Assumed (`XmodemAssumption`): any packet length and number of attempts, files of bytes, any
number of damaged bytes. The theorems have two hypotheses. `NoFalseAck`: no byte of `Noise`
is `ACK`, since the protocol cannot see a reply that has become one. `ChecksumDetects`: the
checksum is a byte and changes with any one byte of a packet. It is true of a sum modulo 256,
but `get_checksum` is a fold, so TLC checks it instead, for some bytes (`ChecksumDetectsSome`
in `MCLottery`).

`XInv` says that the transmitter has had some number `d` of packets acknowledged (`Sends`),
that the receiver has written some number `a` of them (`Has`), and in which of nine
situations the two are: at the start, the transmitter's turn, a frame being
read, a reply on the way, the end of the file, the receiver misled by an `SOH`
that became `EOT` or fooled by the packet number behind it, or one side failed. `a` is
`d` or, when an `ACK` was damaged, `d + 1`. In the second case the frame that comes again has the
wrong number and the wrong complement, and one damaged byte cannot hide both: the receiver never gets as far as
the checksum (`AtChecksum`), so no packet is written twice. In the first case a
checksum that agrees means that the data does. `ACK` is on the line only when the packet has been
written (`Replying`). The exception of `SuccessIsTrue` for packet 5 came out of this proof.

### Paging

Assumed (`SizeAssumption`, `CommandAssumption`): a table of more than one entry, any pages,
slots, memory limit, rounds and stride, and the policies that `main()` knows. `PInv` says
that the workloads stay inside the table, the random one because an odd round looks at
the entry behind an even round's, which is never the last (`InTable`); that a mapped page holds
its own square roots and has one record (`Mapping`); how faults, evictions and records add up
(`Counting`); and how records are ordered (`Arrivals`). For MRU the newest page is
somewhere. For LRU and Clock the slots, taken once round from some slot on,
are in the order in which their pages came (`Turn`), and under Clock that slot is the hand's and bits that are
not set come before bits that are. So the hand either stops at once or clears every bit and
comes back to where it was (`SweepIs`), and gives up the oldest page both times: the code's
Clock is FIFO, and so is its LRU.

### Only model-checked

* Everything that must happen in the end, and refinement of fairness: TLAPS
  supports neither fairness nor `ENABLED` here.
* `ChecksumDetects`, a hypothesis of the theorems about `Xmodem`: a fold over the data. `Shell` is
  recursive.
* `Umalloc` and `MmDriver` walk lists in memory; what such a walk computes needs induction over data.

## 5. Not modelled

* Argument fetching, dispatch and `printf`, boot code, the priority system calls of
  `sysproc.c` (a field no scheduler decides by: `proc_our.c` prints it), `ttywrite` and the
  register access of `lib/pi`: plain sequential code or I/O.
* The user programs other than `sh` and `umalloc`: `usertests.c`, `grind.c`,
  `priotest.c` and the small tools exercise the kernel and keep no state.
* `lib/fat32` consists of stubs and `lib/shim` is a copy of library code.
* The allocators of `kern`, its shell and `lib/stack-vec`: one core, no
  interrupts, and unit tests reach their cases.
* In the modelled parts: the block tree, offsets, device inodes and `mknod` in
  `Inode`, and more entries in use than `NINODE`; contents of pages in `Memory`;
  the offset of an open file that `fork` shares; the memory ordering of the atomic
  swap in `acquire()`; the 16-bit ring indices and feature negotiation of
  `virtio_disk.c`; options, trace files, timing and scores of `mdriver.c`.

## 6. What the models found

Runs that end in a violation, with the details under "findings" in
`PROJECT.json`:

* `logmkfs`: `mkfs` makes the log one block too small for `begin_op`'s
  reservation.
* `inodeleak`: `iput()` gives up `ip->lock` between freeing an inode and dropping
  its reference; an inode that is allocated again in that window can be lost.
* `lotterydraw`: the second pass goes on after the winner.
* `evict`: `mmap2.c:33` calls `last_acc` the "timestamp when last used", but only the fault
  handler sets it, so LRU gives up the page that was loaded first even if it was just
  read. `access_bit`, the "reference bit" of line 36, is likewise set on loading only, and the "second
  chance" of line 162 spares no page for having been used: Clock is FIFO too. The theorem
  `EvictionOrderAlways` states the order the code really follows.

Seen while modelling, and reproducible by changing the constants of a passing run:

* `kill(0)` marks a free slot (`proc.c:603`), and `allocproc()` does not clear the mark, so the
  next process of the slot starts killed. `MarkedForCause` has a disjunct for this case, and is
  violated in the `proclog` run, which calls `kill(0)`, without it.
* A writer that is killed halfway returns without `wakeup(&pi->nread)`
  (`pipe.c:84`), and a reader stays asleep although there is data: `NoLostWakeup`
  makes an exception for this case, and is violated in the `pipe` run without it.
* `Call("chdir", Rel(<<"..">>))` and `Call("unlink", Abs(<<"x", "x">>))` added to `MCCalls`,
  with `MaxCalls = 7` in `MCKernel.cfg`, violate `NoPanic`: a removed directory that
  is still a current directory keeps "..", without a link on its parent. When the
  parent goes too, ".." names a free inode ("ilock: no type") or whatever is
  allocated there next.

Seen while reading, not covered by a property:

* `create()` and `link()` do not look at `dp->nlink`, so they work in a removed
  directory, and the new inode is lost when the directory is freed.
* `log_write()` tests for a full log before it looks whether the block is in it already
  (`log.c:220`), so an operation that logs one of its own blocks again can panic when the
  operations have used up their reservations exactly.
* `writei()` (`fs.c:522`) releases a partly overwritten buffer without `log_write`
  when `either_copyin()` fails.
* `NBUF` equals `LOGSIZE`, so a full log can pin every buffer and `bget()` panics
  (`bio.c:88`); `bget_panic` is reached in the `devices` run.
* `wait()` and `consoleread()` may sleep although the process was killed after the
  test (`proc.c:427`, `console.c:92`); `kill(1)` ends in panic "init exiting".
* `either_copyout()` failing in `consoleread()` loses the byte it had taken.
* `proc_our.c`: a CPU may wait for an interrupt although a process is runnable
  (line 648); `rand()` has no lock (37); `p->parent->pid` is read without
  `wait_lock` (633).
* `mmap2.c`: the usage text says
  "1000 - sparse access" (line 376), the code tests for 2.
* `mdriver.c:409` does not see a payload that engulfs another one; `TraceAccepted`
  compares all pairs. The driver refuses a request of 0 bytes from `mm_malloc`,
  as its payload ends before it begins.
* `sh`: of two redirections of the same kind, as in `a < f < g`, the first one
  counts, because the last one parsed is opened first.
* `umalloc.c:54`: `nu * sizeof(Header)` is truncated to the `int` of `sbrk()`, so a
  request above 2 GB asks for the wrong amount, and `malloc()` writes a header at the end of
  memory it did not get (`beyond`).
* `xmodem`: an `SOH` damaged into `EOT` in front of packet number 4 lets `receive`
  return success with a truncated file. This is so too when the receiver has packet 4 and
  gets it again because its `ACK` was damaged; it then expects packet 5.
  `SuccessIsTrue` states exactly this exception. A reply damaged into `ACK` is not detected by the protocol at all;
  `ACK` is therefore not in `Noise`. No read has a timeout, and `receive`
  acknowledges a packet before `into.write_all` may fail.

## 7. Plan

1. Done: `Log` with `AtomicDisk` and its proofs, `Proc`, `Pipe` with `ByteStream`,
   `Lottery`, `Xmodem`, `Inode`, `Memory`, `Disk`, `Console` with `Lines`, `Shell`,
   `Umalloc`, `Paging`, `MmDriver`.
2. Done: proofs about `Log`, `Disk`, `Inode`, `Memory`, `Pipe`, `Proc`, `Paging`, `Console`,
   `Lottery` and `Xmodem` (section 4).
3. A reclaiming property for `Inode` that states which orphans the code can
   leave behind; the bin allocator of `kern`.
