----------------------------- MODULE LogProofs -----------------------------
(***************************************************************************)
(* Proofs about Log for any number of processes, blocks and log slots:     *)
(* type correctness, the invariants the TLC runs check, the write-ahead    *)
(* rule, and that Log implements AtomicDisk.                               *)
(***************************************************************************)
EXTENDS Log, FiniteSetTheorems, FunctionTheorems, TLAPS

(***************************************************************************)
(* The inductive invariant, in parts.                                      *)
(***************************************************************************)

\* log.outstanding counts the operations in progress.
Counted == outstanding = Cardinality(ActiveProcs)

\* How the flags follow the progress of commit() and of boot.
Flags ==
  /\ recovering => /\ phase \in {"read_head", "install", "erase"}
                   /\ ~committing
  /\ ~recovering => /\ phase # "read_head"
                    /\ committing <=> (phase # "normal")
  /\ phase # "normal" => ActiveProcs = {}

\* Buffer locks: held exactly from modify to brelse, by one process at a time.
Locks ==
  /\ \A p \in Proc : bufOf[p] # NoBlock <=> pc[p] \in Holding
  /\ \A p, q \in Proc : bufOf[p] = bufOf[q] /\ bufOf[p] # NoBlock => p = q

\* The loops over the log run within its length.
Loops ==
  /\ phase \in {"write_log", "write_head", "install"} => n > 0
  /\ phase \in {"write_log", "install"} => tail <= n
  /\ phase \in {"write_head", "read_head"} => tail = 1
  /\ phase = "finish" => n = 0

\* log.lh names each block once (log absorption).
LogEntries ==
  /\ \A i \in 1..n : block[i] \in Block
  /\ \A i, j \in 1..n : block[i] = block[j] => i = j

\* The header on disk: empty outside a commit, the in-memory header while it
\* is being installed, and always well formed, for boot may read it next.
Header ==
  /\ \A i \in 1..hn : hblock[i] \in Block
  /\ \A i, j \in 1..hn : hblock[i] = hblock[j] => i = j
  /\ phase \notin {"install", "erase", "read_head"} => hn = 0
  /\ phase \in {"install", "erase"} =>
       hn = n /\ \A i \in 1..n : hblock[i] = block[i]

\* With no operation running and no commit under way the log is empty.
Quiet == phase = "normal" /\ ActiveProcs = {} => n = 0

\* Block b is in log.lh and install_trans has not yet come to it.
InLog(b) ==
  /\ ~recovering
  /\ phase # "erase"
  /\ \E i \in 1..n : block[i] = b /\ (phase = "install" => tail <= i)

\* Pins: one for every such block.
Pins == \A b \in Block : pin[b] = IF InLog(b) THEN 1 ELSE 0

\* A buffer in use is in the cache, and one that is neither in the log nor
\* being modified agrees with the disk.
Buffers ==
  \A b \in Block :
    /\ InLog(b) \/ Locked(b) => cache[b] # NotCached
    /\ \/ cache[b] \in {NotCached, home[b]}
       \/ InLog(b)
       \/ \E p \in Proc : pc[p] = "modified" /\ bufOf[p] = b

\* What the loops of commit() and recovery have achieved so far.
Progress ==
  /\ phase = "write_log" => \A i \in 1..n : i < tail => dlog[i] = cache[block[i]]
  /\ phase = "write_head" => \A i \in 1..n : dlog[i] = cache[block[i]]
  /\ phase = "install" =>
       \A i \in 1..n :
         /\ i < tail => home[block[i]] = dlog[i]
         /\ i >= tail /\ ~recovering => cache[block[i]] = dlog[i]
  /\ phase = "erase" => \A i \in 1..n : home[block[i]] = dlog[i]

IInv ==
  /\ TypeOK
  /\ Counted
  /\ Flags
  /\ Locks
  /\ Loops
  /\ LogEntries
  /\ Header
  /\ Quiet
  /\ Pins
  /\ Buffers
  /\ Progress

-----------------------------------------------------------------------------
(***************************************************************************)
(* Type correctness.                                                       *)
(***************************************************************************)

PCs == {"idle", "sleep", "woken", "commit"} \cup InOp

\* Every step of the log keeps its variables within their types: log.lh.n never
\* passes the end of logheader.block, and the loops stay within the log.
LEMMA TypeStep ==
  ASSUME IInv, [Next]_vars
  PROVE  TypeOK'
<1> USE LogAssumption DEF LogSlot, disk, loghdr, procs, control
<1>0. TypeOK
  BY DEF IInv
<1>1. ASSUME NEW p \in Proc, begin_op(p)
      PROVE  TypeOK'
  <2>1. pc' \in [Proc -> PCs]
    BY <1>0, <1>1 DEF TypeOK, begin_op, PCs, InOp
  <2>2. wrote' \in [Proc -> SUBSET Block]
    BY <1>0, <1>1 DEF TypeOK, begin_op
  <2>3. outstanding' \in Int
    BY <1>0, <1>1 DEF TypeOK, begin_op
  <2>4. UNCHANGED <<disk, cache, pin, loghdr, committing, bufOf, control, panicked>>
    BY <1>1 DEF begin_op
  <2>5. QED BY <1>0, <2>1, <2>2, <2>3, <2>4 DEF TypeOK, PCs
<1>2. ASSUME NEW p \in Proc, log_write(p)
      PROVE  TypeOK'
  <2>1. bufOf[p] \in Block
    BY <1>0, <1>2 DEF IInv, TypeOK, log_write, Locks, Holding
  <2>2. /\ panicked' \in BOOLEAN
        /\ pc' \in [Proc -> PCs]
    BY <1>0, <1>2 DEF TypeOK, log_write, PCs, InOp
  <2>3. wrote' \in [Proc -> SUBSET Block]
    <3>1. wrote' = wrote \/ wrote' = [wrote EXCEPT ![p] = @ \cup {bufOf[p]}]
      BY <1>2 DEF log_write
    <3>2. wrote \in [Proc -> SUBSET Block]
      BY <1>0 DEF TypeOK
    <3>3. wrote[p] \cup {bufOf[p]} \in SUBSET Block
      BY <2>1, <3>2
    <3>4. QED BY <3>1, <3>2, <3>3
  <2>4. n' \in 0..LOGSIZE
    BY <1>0, <1>2 DEF TypeOK, log_write, TooBig
  <2>5. block' \in [LogSlot -> Block \cup {NoBlock}]
    BY <1>0, <1>2, <2>1 DEF TypeOK, log_write
  <2>6. pin' \in [Block -> Int]
    BY <1>0, <1>2, <2>1 DEF TypeOK, log_write
  <2>7. UNCHANGED <<disk, cache, outstanding, committing, bufOf, control>>
    BY <1>2 DEF log_write
  <2>8. QED BY <1>0, <2>2, <2>3, <2>4, <2>5, <2>6, <2>7 DEF TypeOK, PCs
<1>3. ASSUME NEW p \in Proc, brelse(p)
      PROVE  TypeOK'
  BY <1>0, <1>3 DEF TypeOK, brelse, InOp
<1>4. ASSUME NEW p \in Proc, NEW s \in PCs
      PROVE  WakeupAnd(p, s) \in [Proc -> PCs]
  BY <1>0 DEF TypeOK, WakeupAnd, PCs
<1>5. ASSUME NEW p \in Proc, end_op(p)
      PROVE  TypeOK'
  <2>1. pc' \in [Proc -> PCs]
    <3>1. WakeupAnd(p, "idle") \in [Proc -> PCs]
      BY <1>4 DEF PCs
    <3>2. QED BY <1>0, <1>5, <3>1 DEF TypeOK, end_op, PCs
  <2>2. /\ phase' \in {phase, "commit"}
        /\ committing' \in BOOLEAN
    BY <1>0, <1>5 DEF TypeOK, end_op
  <2>3. panicked' \in BOOLEAN
    BY <1>0, <1>5 DEF TypeOK, end_op
  <2>4. outstanding' \in Int
    BY <1>0, <1>5 DEF TypeOK, end_op
  <2>5. UNCHANGED <<disk, cache, pin, loghdr, bufOf, wrote, tail, recovering>>
    BY <1>5 DEF end_op
  <2>6. QED BY <1>0, <2>1, <2>2, <2>3, <2>4, <2>5 DEF TypeOK, PCs
<1>6. ASSUME NEW p \in Proc, NEW b \in Block, NEW v \in Val, modify(p, b, v)
      PROVE  TypeOK'
  BY <1>0, <1>6 DEF TypeOK, modify, InOp
<1>7. ASSUME NEW b \in Block, Fetch(b) \/ Recycle(b)
      PROVE  TypeOK'
  BY <1>0, <1>7 DEF TypeOK, Fetch, Recycle, bread
<1>8. CASE commit
  BY <1>0, <1>8 DEF TypeOK, commit
<1>9. phase \in {"write_log", "install"} => tail \in 1..n /\ block[tail] \in Block
  BY <1>0 DEF IInv, TypeOK, Loops, LogEntries
<1>10. CASE write_log
  BY <1>0, <1>9, <1>10 DEF TypeOK, write_log, Advance, bread
<1>11. CASE write_head
  BY <1>0, <1>11 DEF TypeOK, write_head, WriteHead
<1>12. CASE install_trans
  BY <1>0, <1>9, <1>12 DEF TypeOK, install_trans, Advance
<1>13. CASE erase
  <2>1. hblock' \in [LogSlot -> Block \cup {NoBlock}] /\ hn' \in 0..LOGSIZE
    BY <1>0, <1>13 DEF TypeOK, erase, WriteHead
  <2>2. recovering' \in BOOLEAN /\ phase' \in {"normal", "finish"}
    BY <1>13 DEF erase
  <2>3. n' \in 0..LOGSIZE
    BY <1>13 DEF erase
  <2>4. UNCHANGED <<home, dlog, cache, pin, block, outstanding, committing, procs,
                    tail, panicked>>
    BY <1>13 DEF erase
  <2>5. QED BY <1>0, <2>1, <2>2, <2>3, <2>4 DEF TypeOK
<1>14. ASSUME NEW p \in Proc, finish(p)
       PROVE  TypeOK'
  <2>1. pc' \in [Proc -> PCs]
    BY <1>4, <1>14 DEF finish, PCs
  <2>2. QED BY <1>0, <1>14, <2>1 DEF TypeOK, finish, PCs
<1>15. CASE read_head
  BY <1>0, <1>15 DEF TypeOK, read_head
<1>16. CASE Crash
  <2>1. /\ cache' \in [Block -> Val \cup {NotCached}]
        /\ pin' \in [Block -> Int]
        /\ block' \in [LogSlot -> Block \cup {NoBlock}]
        /\ bufOf' \in [Proc -> Block \cup {NoBlock}]
    BY <1>16 DEF Crash
  <2>2. wrote' \in [Proc -> SUBSET Block] /\ pc' \in [Proc -> PCs]
    BY <1>16 DEF Crash, PCs
  <2>3. /\ n' \in 0..LOGSIZE /\ tail' \in LogSlot /\ outstanding' \in Int
        /\ phase' = "read_head"
    BY <1>16 DEF Crash
  <2>4. committing' \in BOOLEAN /\ recovering' \in BOOLEAN /\ panicked' \in BOOLEAN
    BY <1>16 DEF Crash
  <2>5. UNCHANGED disk
    BY <1>16 DEF Crash
  <2>6. QED BY <1>0, <2>1, <2>2, <2>3, <2>4, <2>5 DEF TypeOK, PCs
<1>17. CASE UNCHANGED vars
  BY <1>0, <1>17 DEF TypeOK, vars
<1>18. QED
  BY <1>1, <1>2, <1>3, <1>5, <1>6, <1>7, <1>8, <1>10, <1>11, <1>12, <1>13,
     <1>14, <1>15, <1>16, <1>17 DEF Next

-----------------------------------------------------------------------------
(***************************************************************************)
(* The invariant is inductive: one lemma per action.                       *)
(***************************************************************************)

\* The disk mkfs makes, before the first boot, satisfies the invariant.
LEMMA InitIInv == Init => IInv
<1> SUFFICES ASSUME Init PROVE IInv
  OBVIOUS
<1> USE LogAssumption DEF LogSlot, InOp, Holding
<1>1. TypeOK
  <2>1. /\ home \in [Block -> Val] /\ dlog \in [LogSlot -> Val]
        /\ hn \in 0..LOGSIZE /\ n \in 0..LOGSIZE /\ tail \in LogSlot
        /\ hblock \in [LogSlot -> Block \cup {NoBlock}]
        /\ block \in [LogSlot -> Block \cup {NoBlock}]
    BY DEF Init
  <2>2. /\ cache \in [Block -> Val \cup {NotCached}]
        /\ pin \in [Block -> Int]
        /\ bufOf \in [Proc -> Block \cup {NoBlock}]
        /\ wrote \in [Proc -> SUBSET Block]
    BY DEF Init
  <2>3. /\ pc \in [Proc -> {"idle", "sleep", "woken", "commit"} \cup InOp]
        /\ phase = "read_head" /\ outstanding = 0
    BY DEF Init
  <2>4. committing \in BOOLEAN /\ recovering \in BOOLEAN /\ panicked \in BOOLEAN
    BY DEF Init
  <2>5. QED BY <2>1, <2>2, <2>3, <2>4 DEF TypeOK
<1>2. ActiveProcs = {}
  BY DEF Init, ActiveProcs
<1>3. Counted
  BY <1>2, FS_EmptySet DEF Init, Counted
<1>4. Flags
  BY <1>2 DEF Init, Flags
<1>5. Locks /\ Loops /\ LogEntries /\ Header /\ Progress
  BY DEF Init, Locks, Loops, LogEntries, Header, Progress
<1>6. Pins /\ Buffers
  BY DEF Init, Pins, Buffers, InLog, Locked
<1>7. Quiet
  BY DEF Init, Quiet
<1>8. QED BY <1>1, <1>3, <1>4, <1>5, <1>6, <1>7 DEF IInv

\* log_write adds at most one entry, pins its buffer and names no block twice.
LEMMA LogWriteStep ==
  ASSUME IInv, NEW p \in Proc, log_write(p), TypeOK'
  PROVE  IInv'
<1> USE LogAssumption DEF LogSlot, InOp, Holding, disk, loghdr, procs, control
<1> DEFINE b == bufOf[p]
<1>1. /\ b \in Block
      /\ pc[p] = "modified"
      /\ p \in ActiveProcs
  BY DEF IInv, TypeOK, log_write, Locks, ActiveProcs
<1>2. phase = "normal" /\ ~recovering /\ hn = 0
  BY <1>1 DEF IInv, Flags, Header
<1>3. UNCHANGED <<home, dlog, hn, hblock, cache, outstanding, committing, bufOf,
                  phase, tail, recovering>>
  BY DEF log_write
<1>4. ActiveProcs' = ActiveProcs
  BY DEF log_write, IInv, TypeOK, ActiveProcs
<1>5. Counted' /\ Flags' /\ Locks'
  <2>1. Counted' /\ Flags'
    BY <1>3, <1>4 DEF IInv, Counted, Flags
  <2>2. Locks'
    BY <1>3 DEF IInv, TypeOK, Locks, log_write
  <2>3. QED BY <2>1, <2>2
<1>6. Loops' /\ Header' /\ Progress'
  BY <1>2, <1>3 DEF Loops, Header, Progress
<1>7. /\ \/ n' = n /\ block' = block /\ pin' = pin
         \/ /\ ~Absorbed(b)
            /\ n' = n + 1
            /\ n < LOGSIZE
            /\ block' = [block EXCEPT ![n + 1] = b]
            /\ pin' = [pin EXCEPT ![b] = @ + 1]
      /\ \/ pc' = pc /\ n' = n
         \/ pc' = [pc EXCEPT ![p] = "logged"] /\ \E i \in 1..n' : block'[i] = b
  BY DEF log_write, Absorbed, TooBig, IInv, TypeOK
<1>8. LogEntries'
  <2>1. CASE n' = n /\ block' = block
    BY <2>1 DEF IInv, LogEntries
  <2>2. CASE ~Absorbed(b) /\ n' = n + 1 /\ n < LOGSIZE /\ block' = [block EXCEPT ![n + 1] = b]
    BY <1>1, <2>2 DEF IInv, TypeOK, LogEntries, Absorbed
  <2>3. QED BY <1>7, <2>1, <2>2
<1>9. \A c \in Block : InLog(c)' <=> InLog(c) \/ (n' # n /\ c = b)
  <2>1. CASE n' = n /\ block' = block
    BY <1>2, <1>3, <2>1 DEF InLog
  <2>2. CASE n' = n + 1 /\ n < LOGSIZE /\ block' = [block EXCEPT ![n + 1] = b]
    <3>1. n \in Nat /\ block \in [1..LOGSIZE -> Block \cup {NoBlock}]
      BY DEF IInv, TypeOK
    <3>2. \A i \in 1..n : block'[i] = block[i]
      BY <3>1, <2>2
    <3>3. block'[n + 1] = b
      BY <3>1, <2>2
    <3>4. 1..n' = (1..n) \cup {n + 1}
      BY <3>1, <2>2
    <3>5. QED
      BY <1>2, <1>3, <2>2, <3>1, <3>2, <3>3, <3>4 DEF InLog
  <2>3. QED BY <1>7, <2>1, <2>2
<1>10. Pins'
  <2>1. CASE n' = n /\ pin' = pin
    BY <1>9, <2>1 DEF IInv, Pins
  <2>2. CASE ~Absorbed(b) /\ n' = n + 1 /\ pin' = [pin EXCEPT ![b] = @ + 1]
    <3>1. ~InLog(b)
      BY <2>2 DEF InLog, Absorbed
    <3>2. pin \in [Block -> Int] /\ n \in Nat
      BY DEF IInv, TypeOK
    <3>3. pin[b] = 0
      BY <1>1, <3>1 DEF IInv, Pins
    <3>4. QED
      BY <1>1, <1>9, <2>2, <3>1, <3>2, <3>3 DEF IInv, Pins
  <2>3. QED BY <1>7, <2>1, <2>2
<1>11. Buffers'
  <2> SUFFICES ASSUME NEW c \in Block
               PROVE  /\ (InLog(c) \/ Locked(c))' => cache'[c] # NotCached
                      /\ \/ cache'[c] \in {NotCached, home'[c]}
                         \/ InLog(c)'
                         \/ \E q \in Proc : pc'[q] = "modified" /\ bufOf'[q] = c
    BY DEF Buffers
  <2>1. Locked(c)' <=> Locked(c)
    BY <1>3 DEF Locked
  <2>2. InLog(c)' => InLog(c) \/ Locked(c)
    BY <1>1, <1>9 DEF Locked
  <2>3. (InLog(c) \/ Locked(c))' => cache'[c] # NotCached
    BY <1>3, <2>1, <2>2 DEF IInv, Buffers
  <2>4. ASSUME cache[c] \notin {NotCached, home[c]}, ~InLog(c)'
        PROVE  \E q \in Proc : pc'[q] = "modified" /\ bufOf'[q] = c
    <3>1. ~InLog(c)
      BY <1>9, <2>4
    <3>2. PICK q \in Proc : pc[q] = "modified" /\ bufOf[q] = c
      BY <2>4, <3>1 DEF IInv, Buffers
    <3>3. CASE pc' = pc
      BY <1>3, <3>2, <3>3
    <3>4. CASE pc' = [pc EXCEPT ![p] = "logged"] /\ \E i \in 1..n' : block'[i] = b
      <4>1. c = b => InLog(c)'
        BY <1>2, <1>3, <3>4 DEF InLog
      <4>2. q # p
        BY <4>1, <2>4, <3>2
      <4>3. QED BY <1>3, <3>2, <3>4, <4>2 DEF IInv, TypeOK
    <3>5. QED BY <1>7, <3>3, <3>4
  <2>5. QED BY <1>3, <2>3, <2>4
<1>12. Quiet'
  BY <1>1, <1>4 DEF Quiet
<1>13. QED
  BY <1>5, <1>6, <1>8, <1>10, <1>11, <1>12 DEF IInv

\* begin_op counts the operation it admits, and admits none during a commit.
LEMMA BeginStep ==
  ASSUME IInv, NEW p \in Proc, begin_op(p), TypeOK'
  PROVE  IInv'
<1> USE LogAssumption DEF LogSlot, InOp, Holding, disk, loghdr, procs, control
<1>1. /\ UNCHANGED <<home, dlog, hn, hblock, cache, pin, n, block, committing,
                    bufOf, phase, tail, recovering>>
      /\ pc[p] \in {"idle", "woken"}
      /\ \/ pc' = [pc EXCEPT ![p] = "sleep"] /\ outstanding' = outstanding
         \/ /\ pc' = [pc EXCEPT ![p] = "op"]
            /\ outstanding' = outstanding + 1
            /\ ~committing /\ ~recovering
  BY DEF begin_op
<1>2. pc \in [Proc -> {"idle", "sleep", "woken", "commit"} \cup InOp]
  BY DEF IInv, TypeOK
<1>3. Counted' /\ Flags' /\ Quiet'
  <2>1. IsFiniteSet(ActiveProcs)
    BY FS_Subset DEF ActiveProcs
  <2>2. p \notin ActiveProcs
    BY <1>1 DEF ActiveProcs
  <2>3. CASE pc' = [pc EXCEPT ![p] = "sleep"] /\ outstanding' = outstanding
    <3>1. ActiveProcs' = ActiveProcs
      BY <1>1, <1>2, <2>3 DEF ActiveProcs
    <3>2. QED BY <1>1, <2>3, <3>1 DEF IInv, Counted, Flags, Quiet
  <2>4. CASE /\ pc' = [pc EXCEPT ![p] = "op"]
             /\ outstanding' = outstanding + 1
             /\ ~committing /\ ~recovering
    <3>1. ActiveProcs' = ActiveProcs \cup {p}
      BY <1>2, <2>4 DEF ActiveProcs
    <3>2. Cardinality(ActiveProcs') = Cardinality(ActiveProcs) + 1
      BY <2>1, <2>2, <3>1, FS_AddElement
    <3>3. phase = "normal"
      BY <2>4 DEF IInv, Flags
    <3>4. QED BY <1>1, <2>4, <3>1, <3>2, <3>3 DEF IInv, Counted, Flags, Quiet
  <2>5. QED BY <1>1, <2>3, <2>4
<1>4. \A q \in Proc : pc'[q] \in Holding <=> pc[q] \in Holding
  BY <1>1, <1>2
<1>5. \A q \in Proc : pc'[q] = "modified" <=> pc[q] = "modified"
  BY <1>1, <1>2
<1>6. Locks' /\ Loops' /\ LogEntries' /\ Header' /\ Progress'
  BY <1>1, <1>4 DEF IInv, Locks, Loops, LogEntries, Header, Progress
<1>7. Pins'
  BY <1>1 DEF IInv, Pins, InLog
<1>8. Buffers'
  BY <1>1, <1>5 DEF IInv, Buffers, InLog, Locked
<1>9. QED BY <1>3, <1>6, <1>7, <1>8 DEF IInv

\* end_op uncounts the operation; the last one starts the commit.
LEMMA EndStep ==
  ASSUME IInv, NEW p \in Proc, end_op(p), TypeOK'
  PROVE  IInv'
<1> USE LogAssumption DEF LogSlot, InOp, Holding, disk, loghdr, procs, control
<1>1. pc \in [Proc -> {"idle", "sleep", "woken", "commit"} \cup InOp]
  BY DEF IInv, TypeOK
<1>2. p \in ActiveProcs /\ phase = "normal" /\ ~recovering /\ ~committing /\ hn = 0
  BY DEF IInv, Flags, Header, ActiveProcs, end_op
<1>3. /\ UNCHANGED <<home, dlog, hn, hblock, cache, pin, n, block, bufOf, tail,
                    recovering>>
      /\ outstanding' = outstanding - 1
      /\ pc[p] = "op"
      /\ \/ /\ outstanding' = 0
            /\ committing' = TRUE
            /\ phase' = "commit"
            /\ pc' = [pc EXCEPT ![p] = "commit"]
         \/ /\ pc' = WakeupAnd(p, "idle")
            /\ UNCHANGED <<committing, phase>>
  BY <1>2 DEF end_op
<1>4. \A q \in Proc : pc'[q] \in Holding <=> pc[q] \in Holding
  BY <1>1, <1>3 DEF WakeupAnd
<1>5. \A q \in Proc : pc'[q] = "modified" <=> pc[q] = "modified"
  BY <1>1, <1>3 DEF WakeupAnd
<1>6. \A q \in Proc : pc'[q] \in InOp <=> pc[q] \in InOp /\ q # p
  BY <1>1, <1>3 DEF WakeupAnd
<1>7. ActiveProcs' = ActiveProcs \ {p}
  BY <1>6 DEF ActiveProcs
<1>8. IsFiniteSet(ActiveProcs)
  BY FS_Subset DEF ActiveProcs
<1>9. IsFiniteSet(ActiveProcs') /\ Cardinality(ActiveProcs') = Cardinality(ActiveProcs) - 1
  BY <1>2, <1>7, <1>8, FS_RemoveElement
<1>10. Counted'
  BY <1>3, <1>9 DEF IInv, Counted
<1>11. Flags'
  <2>1. CASE outstanding' = 0 /\ committing' = TRUE /\ phase' = "commit"
    <3>1. ActiveProcs' = {}
      BY <1>9, <1>10, <2>1, FS_EmptySet DEF Counted
    <3>2. QED BY <1>2, <1>3, <2>1, <3>1 DEF Flags
  <2>2. CASE UNCHANGED <<committing, phase>>
    BY <1>2, <1>3, <2>2 DEF Flags
  <2>3. QED BY <1>3, <2>1, <2>2
<1>12. phase' \in {"normal", "commit"}
  BY <1>2, <1>3
<1>13. Locks' /\ Loops' /\ LogEntries' /\ Header' /\ Progress'
  BY <1>2, <1>3, <1>4, <1>12 DEF IInv, Locks, Loops, LogEntries, Header, Progress
<1>14. \A c \in Block : InLog(c)' <=> InLog(c)
  BY <1>2, <1>3, <1>12 DEF InLog
<1>15. Pins'
  BY <1>3, <1>14 DEF IInv, Pins
<1>16. Buffers'
  BY <1>3, <1>5, <1>14 DEF IInv, Buffers, Locked
<1>17. Quiet'
  <2>1. ActiveProcs' = {} => outstanding' = 0
    BY <1>10, FS_EmptySet DEF Counted
  <2>2. outstanding' = 0 => phase' = "commit"
    BY <1>2 DEF end_op
  <2>3. QED BY <2>1, <2>2 DEF Quiet
<1>18. QED BY <1>10, <1>11, <1>13, <1>15, <1>16, <1>17 DEF IInv

\* An operation changes a buffer it has locked, pinned or not.
LEMMA ModifyStep ==
  ASSUME IInv, NEW p \in Proc, NEW c \in Block, NEW v \in Val, modify(p, c, v), TypeOK'
  PROVE IInv'
<1> USE LogAssumption DEF LogSlot, InOp, Holding, disk, loghdr, procs, control
<1>1. /\ pc \in [Proc -> {"idle", "sleep", "woken", "commit"} \cup InOp]
      /\ cache \in [Block -> Val \cup {NotCached}]
      /\ bufOf \in [Proc -> Block \cup {NoBlock}]
  BY DEF IInv, TypeOK
<1>2. /\ UNCHANGED <<home, dlog, hn, hblock, pin, n, block, outstanding,
                     committing, phase, tail, recovering>>
      /\ pc[p] = "op" /\ ~Locked(c)
      /\ cache' = [cache EXCEPT ![c] = v]
      /\ pc' = [pc EXCEPT ![p] = "modified"]
      /\ bufOf' = [bufOf EXCEPT ![p] = c]
  BY DEF modify
<1>3. ActiveProcs' = ActiveProcs /\ p \in ActiveProcs
  BY <1>1, <1>2 DEF ActiveProcs
<1>4. phase = "normal"
  BY <1>3 DEF IInv, Flags
<1>5. Counted' /\ Flags'
  BY <1>2, <1>3 DEF IInv, Counted, Flags
<1>6. Locks'
  <2>1. \A q \in Proc : bufOf[q] # c
    BY <1>2 DEF Locked
  <2>2. bufOf'[p] = c /\ pc'[p] = "modified"
    BY <1>1, <1>2
  <2>3. \A q \in Proc : q # p => bufOf'[q] = bufOf[q] /\ pc'[q] = pc[q]
    BY <1>1, <1>2
  <2>4. \A q \in Proc : bufOf'[q] # NoBlock <=> pc'[q] \in Holding
    BY <2>2, <2>3 DEF IInv, Locks
  <2>5. \A q, r \in Proc : bufOf'[q] = bufOf'[r] /\ bufOf'[q] # NoBlock => q = r
    BY <2>1, <2>2, <2>3 DEF IInv, Locks
  <2>6. QED BY <2>4, <2>5 DEF Locks
<1>7. Loops' /\ LogEntries' /\ Header' /\ Progress'
  BY <1>2, <1>4 DEF IInv, Loops, LogEntries, Header, Progress
<1>8. \A d \in Block : InLog(d)' <=> InLog(d)
  BY <1>2 DEF InLog
<1>9. Pins'
  BY <1>2, <1>8 DEF IInv, Pins
<1>10. Buffers'
  <2> SUFFICES ASSUME NEW d \in Block
               PROVE  /\ (InLog(d) \/ Locked(d))' => cache'[d] # NotCached
                      /\ \/ cache'[d] \in {NotCached, home'[d]}
                         \/ InLog(d)'
                         \/ \E q \in Proc : pc'[q] = "modified" /\ bufOf'[q] = d
    BY DEF Buffers
  <2>1. CASE d = c
    BY <1>1, <1>2, <2>1
  <2>2. CASE d # c
    <3>1. cache'[d] = cache[d]
      BY <1>1, <1>2, <2>2
    <3>2. \A q \in Proc : bufOf'[q] = d <=> bufOf[q] = d
      BY <1>1, <1>2, <2>2 DEF IInv, Locks
    <3>3. \A q \in Proc : bufOf[q] = d => pc'[q] = pc[q]
      BY <1>1, <1>2 DEF IInv, Locks
    <3>4. QED BY <1>2, <1>8, <3>1, <3>2, <3>3 DEF IInv, Buffers, Locked
  <2>3. QED BY <2>1, <2>2
<1>11. Quiet'
  BY <1>3 DEF Quiet
<1>12. QED BY <1>5, <1>6, <1>7, <1>9, <1>10, <1>11 DEF IInv

\* Pins and locks protect: what bget recycles or a reader fetches is clean.
LEMMA CacheStep ==
  ASSUME IInv, NEW c \in Block, Fetch(c) \/ Recycle(c), TypeOK'
  PROVE  IInv'
<1> USE LogAssumption DEF LogSlot, disk, loghdr, procs, control
<1>1. /\ UNCHANGED <<home, dlog, hn, hblock, pin, n, block, outstanding,
                     committing, pc, bufOf, wrote, phase, tail, recovering>>
      /\ cache \in [Block -> Val \cup {NotCached}]
      /\ \/ cache[c] = NotCached /\ cache' = [cache EXCEPT ![c] = home[c]]
         \/ /\ pin[c] = 0 /\ ~Locked(c)
            /\ cache' = [cache EXCEPT ![c] = NotCached]
  BY DEF IInv, TypeOK, Fetch, Recycle, bread
<1>2. ActiveProcs' = ActiveProcs
  BY <1>1 DEF ActiveProcs
<1>3. Counted' /\ Flags' /\ Locks' /\ Loops' /\ LogEntries' /\ Header' /\ Quiet'
  BY <1>1, <1>2 DEF IInv, Counted, Flags, Locks, Loops, LogEntries, Header, Quiet
<1>4. \A d \in Block : (InLog(d)' <=> InLog(d)) /\ (Locked(d)' <=> Locked(d))
  BY <1>1 DEF InLog, Locked
<1>5. Pins'
  BY <1>1, <1>4 DEF IInv, Pins
<1>6. ~InLog(c) /\ ~Locked(c)
  BY <1>1 DEF IInv, Pins, Buffers
<1>7. \A d \in Block : d # c => cache'[d] = cache[d]
  BY <1>1
<1>8. cache'[c] \in {NotCached, home[c]}
  BY <1>1
<1>9. Buffers'
  BY <1>1, <1>4, <1>6, <1>7, <1>8 DEF IInv, Buffers
<1>10. Progress'
  <2>1. \A i \in 1..n : InLog(block[i]) => cache'[block[i]] = cache[block[i]]
    BY <1>6, <1>7 DEF IInv, LogEntries
  <2>2. phase \in {"write_log", "write_head"} => \A i \in 1..n : InLog(block[i])
    BY DEF IInv, InLog, Flags
  <2>3. phase = "install" /\ ~recovering =>
          \A i \in 1..n : i >= tail => InLog(block[i])
    BY DEF IInv, TypeOK, InLog
  <2>4. QED BY <1>1, <2>1, <2>2, <2>3 DEF IInv, Progress
<1>11. QED BY <1>3, <1>5, <1>9, <1>10 DEF IInv

\* brelse gives up a buffer that is in the log by now.
LEMMA ReleaseStep ==
  ASSUME IInv, NEW p \in Proc, brelse(p), TypeOK'
  PROVE  IInv'
<1> USE LogAssumption DEF LogSlot, InOp, Holding, disk, loghdr, procs, control
<1>1. /\ pc \in [Proc -> {"idle", "sleep", "woken", "commit"} \cup InOp]
      /\ bufOf \in [Proc -> Block \cup {NoBlock}]
  BY DEF IInv, TypeOK
<1>2. /\ UNCHANGED <<home, dlog, hn, hblock, cache, pin, n, block, outstanding,
                     committing, wrote, phase, tail, recovering>>
      /\ pc[p] = "logged"
      /\ pc' = [pc EXCEPT ![p] = "op"]
      /\ bufOf' = [bufOf EXCEPT ![p] = NoBlock]
  BY DEF brelse
<1>3. ActiveProcs' = ActiveProcs
  BY <1>1, <1>2 DEF ActiveProcs
<1>4. Counted' /\ Flags' /\ Loops' /\ LogEntries' /\ Header' /\ Progress' /\ Quiet'
  BY <1>2, <1>3 DEF IInv, Counted, Flags, Loops, LogEntries, Header, Progress, Quiet
<1>5. Locks'
  BY <1>1, <1>2 DEF IInv, Locks
<1>6. Pins'
  BY <1>2 DEF IInv, Pins, InLog
<1>7. Buffers'
  BY <1>1, <1>2 DEF IInv, Buffers, InLog, Locked
<1>8. QED BY <1>4, <1>5, <1>6, <1>7 DEF IInv

\* The steps of commit() and of recovery run with no buffer in use.
LEMMA NobodyHolds ==
  ASSUME IInv, phase # "normal"
  PROVE  \A b \in Block : ~Locked(b)
  BY LogAssumption DEF IInv, Flags, Locks, Locked, ActiveProcs, InOp, Holding

\* commit() begins with an empty log or with copying its first block.
LEMMA CommitStep ==
  ASSUME IInv, commit, TypeOK'
  PROVE  IInv'
<1> USE LogAssumption DEF LogSlot, disk, loghdr, procs, control
<1>1. /\ UNCHANGED <<home, dlog, hn, hblock, cache, pin, n, block, outstanding,
                     committing, pc, bufOf, wrote, recovering>>
      /\ phase = "commit" /\ ~recovering /\ hn = 0
      /\ phase' = IF n > 0 THEN "write_log" ELSE "finish"
      /\ tail' = 1
  BY DEF IInv, Flags, Header, commit
<1>2. ActiveProcs' = ActiveProcs
  BY <1>1 DEF ActiveProcs
<1>3. Counted' /\ Flags' /\ Locks' /\ LogEntries' /\ Header' /\ Quiet'
  BY <1>1, <1>2 DEF IInv, Counted, Flags, Locks, LogEntries, Header, Quiet
<1>4. Loops' /\ Progress'
  BY <1>1 DEF IInv, TypeOK, Loops, Progress
<1>5. Pins' /\ Buffers'
  BY <1>1 DEF IInv, Pins, Buffers, InLog, Locked
<1>6. QED BY <1>3, <1>4, <1>5 DEF IInv

\* write_log copies the block at tail to its log slot.
LEMMA WriteLogStep ==
  ASSUME IInv, write_log, TypeOK'
  PROVE  IInv'
<1> USE LogAssumption DEF LogSlot, disk, loghdr, procs, control
<1>1. /\ UNCHANGED <<home, hn, hblock, pin, n, block, outstanding,
                     committing, pc, bufOf, wrote, recovering>>
      /\ phase = "write_log" /\ ~recovering /\ hn = 0
      /\ n \in 1..LOGSIZE /\ tail \in 1..n
      /\ block[tail] \in Block
      /\ dlog \in [LogSlot -> Val]
      /\ cache \in [Block -> Val \cup {NotCached}]
  BY DEF IInv, TypeOK, Flags, Header, Loops, LogEntries, write_log
<1>2. \/ tail < n /\ tail' = tail + 1 /\ phase' = "write_log"
      \/ tail = n /\ tail' = 1 /\ phase' = "write_head"
  BY <1>1 DEF write_log, Advance
<1>3. InLog(block[tail])
  BY <1>1 DEF InLog
<1>4. cache[block[tail]] # NotCached
  BY <1>1, <1>3 DEF IInv, Buffers
<1>5. cache' = cache /\ dlog' = [dlog EXCEPT ![tail] = cache[block[tail]]]
  BY <1>1, <1>4 DEF write_log, bread
<1>6. ActiveProcs' = ActiveProcs
  BY <1>1 DEF ActiveProcs
<1>7. Counted' /\ Flags' /\ Locks' /\ LogEntries' /\ Header' /\ Quiet'
  BY <1>1, <1>2, <1>6 DEF IInv, Counted, Flags, Locks, LogEntries, Header, Quiet
<1>8. Loops'
  BY <1>1, <1>2 DEF IInv, Loops
<1>9. \A c \in Block : InLog(c)' <=> InLog(c)
  BY <1>1, <1>2 DEF InLog
<1>10. Pins' /\ Buffers'
  BY <1>1, <1>5, <1>9 DEF IInv, Pins, Buffers, Locked
<1>11. Progress'
  BY <1>1, <1>2, <1>5 DEF IInv, Progress
<1>12. QED BY <1>7, <1>8, <1>10, <1>11 DEF IInv

\* write_head makes the header on disk the one in memory.
LEMMA WriteHeadStep ==
  ASSUME IInv, write_head, TypeOK'
  PROVE  IInv'
<1> USE LogAssumption DEF LogSlot, disk, loghdr, procs, control
<1>1. /\ UNCHANGED <<home, dlog, cache, pin, n, block, outstanding,
                     committing, pc, bufOf, wrote, tail, recovering>>
      /\ phase = "write_head" /\ ~recovering
      /\ n \in 1..LOGSIZE /\ tail = 1
      /\ phase' = "install"
      /\ hn' = n
      /\ \A i \in 1..n : hblock'[i] = block[i]
  BY DEF IInv, TypeOK, Flags, Loops, write_head, WriteHead
<1>2. ActiveProcs' = ActiveProcs
  BY <1>1 DEF ActiveProcs
<1>3. Counted' /\ Flags' /\ Locks' /\ LogEntries' /\ Loops' /\ Quiet'
  BY <1>1, <1>2 DEF IInv, Counted, Flags, Locks, LogEntries, Loops, Quiet
<1>4. Header'
  BY <1>1 DEF IInv, Header, LogEntries
<1>5. \A c \in Block : InLog(c)' <=> InLog(c)
  BY <1>1 DEF InLog
<1>6. Pins' /\ Buffers'
  BY <1>1, <1>5 DEF IInv, Pins, Buffers, Locked
<1>7. Progress'
  BY <1>1 DEF IInv, Progress
<1>8. QED BY <1>3, <1>4, <1>6, <1>7 DEF IInv

\* install_trans copies the block at tail home and unpins it in a commit.
LEMMA InstallStep ==
  ASSUME IInv, install_trans, TypeOK'
  PROVE  IInv'
<1> USE LogAssumption DEF LogSlot, disk, loghdr, procs, control
<1> DEFINE c == block[tail]
<1>1. /\ UNCHANGED <<dlog, hn, hblock, n, block, outstanding,
                     committing, pc, bufOf, wrote, recovering>>
      /\ phase = "install"
      /\ n \in 1..LOGSIZE /\ tail \in 1..n
      /\ c \in Block
      /\ home \in [Block -> Val] /\ dlog \in [LogSlot -> Val]
      /\ cache \in [Block -> Val \cup {NotCached}]
      /\ pin \in [Block -> Int]
      /\ home' = [home EXCEPT ![c] = dlog[tail]]
      /\ cache' = [cache EXCEPT ![c] = dlog[tail]]
      /\ pin' = IF recovering THEN pin ELSE [pin EXCEPT ![c] = @ - 1]
  BY DEF IInv, TypeOK, Loops, LogEntries, install_trans
<1>2. \/ tail < n /\ tail' = tail + 1 /\ phase' = "install"
      \/ tail = n /\ tail' = 1 /\ phase' = "erase"
  BY <1>1 DEF install_trans, Advance
<1>3. ActiveProcs' = ActiveProcs
  BY <1>1 DEF ActiveProcs
<1>4. Counted' /\ Flags' /\ Locks' /\ LogEntries' /\ Header' /\ Loops' /\ Quiet'
  BY <1>1, <1>2, <1>3 DEF IInv, Counted, Flags, Locks, LogEntries, Header, Loops,
                          Quiet
<1>5. \A i \in 1..n : block[i] = c <=> i = tail
  BY <1>1 DEF IInv, LogEntries
<1>6. \A d \in Block : InLog(d)' <=> InLog(d) /\ d # c
  BY <1>1, <1>2, <1>5 DEF InLog
<1>7. ~recovering => InLog(c)
  BY <1>1 DEF InLog
<1>8. Pins'
  <2>1. CASE recovering
    BY <1>1, <1>6, <2>1 DEF IInv, Pins, InLog
  <2>2. CASE ~recovering
    BY <1>1, <1>6, <1>7, <2>2 DEF IInv, Pins
  <2>3. QED BY <2>1, <2>2
<1>9. Buffers'
  <2>1. \A d \in Block : ~Locked(d) /\ ~Locked(d)'
    BY <1>1, NobodyHolds DEF Locked
  <2>2. \A d \in Block : d # c => home'[d] = home[d] /\ cache'[d] = cache[d]
    BY <1>1
  <2>3. home'[c] = cache'[c]
    BY <1>1
  <2>4. QED BY <1>1, <1>6, <2>1, <2>2, <2>3 DEF IInv, Buffers, Locked
<1>10. Progress'
  BY <1>1, <1>2, <1>5 DEF IInv, Progress, LogEntries
<1>11. QED BY <1>4, <1>8, <1>9, <1>10 DEF IInv

\* Erasing the header is safe: every block it named is installed.
LEMMA EraseStep ==
  ASSUME IInv, erase, TypeOK'
  PROVE  IInv'
<1> USE LogAssumption DEF LogSlot, disk, loghdr, procs, control
<1>1. /\ UNCHANGED <<home, dlog, cache, pin, block, outstanding,
                     committing, pc, bufOf, wrote, tail>>
      /\ phase = "erase"
      /\ n' = 0 /\ hn' = 0 /\ recovering' = FALSE
      /\ phase' = IF recovering THEN "normal" ELSE "finish"
  BY DEF erase, WriteHead
<1>2. ActiveProcs' = ActiveProcs
  BY <1>1 DEF ActiveProcs
<1>3. Counted' /\ Flags'
  BY <1>1, <1>2 DEF IInv, Counted, Flags
<1>4. Locks' /\ LogEntries' /\ Header' /\ Loops' /\ Progress' /\ Quiet'
  BY <1>1 DEF IInv, Locks, LogEntries, Header, Loops, Progress, Quiet
<1>5. \A c \in Block : ~InLog(c) /\ ~InLog(c)'
  BY <1>1 DEF InLog
<1>6. Pins' /\ Buffers'
  BY <1>1, <1>5 DEF IInv, Pins, Buffers, Locked
<1>7. QED BY <1>3, <1>4, <1>6 DEF IInv

\* The tail of end_op leaves an empty log and wakes the sleepers.
LEMMA FinishStep ==
  ASSUME IInv, NEW p \in Proc, finish(p), TypeOK'
  PROVE  IInv'
<1> USE LogAssumption DEF LogSlot, InOp, Holding, disk, loghdr, procs, control
<1>1. /\ pc \in [Proc -> {"idle", "sleep", "woken", "commit"} \cup InOp]
      /\ UNCHANGED <<home, dlog, hn, hblock, cache, pin, n, block, outstanding,
                     bufOf, wrote, tail, recovering>>
      /\ phase = "finish" /\ phase' = "normal" /\ ~recovering
      /\ committing' = FALSE
      /\ pc[p] = "commit" /\ pc' = WakeupAnd(p, "idle")
  BY DEF IInv, TypeOK, Flags, finish
<1>2. \A q \in Proc : /\ pc'[q] \in Holding <=> pc[q] \in Holding
                      /\ pc'[q] = "modified" <=> pc[q] = "modified"
                      /\ pc'[q] \in InOp <=> pc[q] \in InOp
  BY <1>1 DEF WakeupAnd
<1>3. ActiveProcs' = ActiveProcs
  BY <1>2 DEF ActiveProcs
<1>4. Counted' /\ Flags'
  BY <1>1, <1>3 DEF IInv, Counted, Flags
<1>5. Locks' /\ LogEntries' /\ Header' /\ Loops' /\ Progress' /\ Quiet'
  BY <1>1, <1>2 DEF IInv, Locks, LogEntries, Header, Loops, Progress, Quiet
<1>6. Pins' /\ Buffers'
  BY <1>1, <1>2 DEF IInv, Pins, Buffers, InLog, Locked
<1>7. QED BY <1>4, <1>5, <1>6 DEF IInv

\* Boot reads a header that is well formed, committed or empty.
LEMMA ReadHeadStep ==
  ASSUME IInv, read_head, TypeOK'
  PROVE  IInv'
<1> USE LogAssumption DEF LogSlot, disk, loghdr, procs, control
<1>1. /\ UNCHANGED <<home, dlog, hn, hblock, cache, pin, outstanding,
                     committing, pc, bufOf, wrote, tail, recovering>>
      /\ phase = "read_head" /\ recovering = TRUE /\ tail = 1
      /\ hn \in 0..LOGSIZE
      /\ n' = hn
      /\ \A i \in 1..hn : block'[i] = hblock[i]
      /\ phase' = IF hn > 0 THEN "install" ELSE "erase"
  BY DEF IInv, TypeOK, Flags, Loops, read_head
<1>2. ActiveProcs' = ActiveProcs
  BY <1>1 DEF ActiveProcs
<1>3. Counted' /\ Flags'
  BY <1>1, <1>2 DEF IInv, Counted, Flags
<1>4. Locks' /\ Loops' /\ Quiet'
  BY <1>1 DEF IInv, Locks, Loops, Quiet
<1>5. LogEntries' /\ Header'
  BY <1>1 DEF IInv, LogEntries, Header
<1>6. \A c \in Block : ~InLog(c) /\ ~InLog(c)'
  BY <1>1 DEF InLog
<1>7. Pins' /\ Buffers'
  BY <1>1, <1>6 DEF IInv, Pins, Buffers, Locked
<1>8. Progress'
  BY <1>1 DEF IInv, Progress
<1>9. QED BY <1>3, <1>4, <1>5, <1>7, <1>8 DEF IInv

\* A crash at any step leaves a disk from which boot can start.
LEMMA CrashStep ==
  ASSUME IInv, Crash, TypeOK'
  PROVE  IInv'
<1> USE LogAssumption DEF LogSlot, InOp, Holding, disk
<1>1. /\ UNCHANGED <<home, dlog, hn, hblock>>
      /\ cache' = [b \in Block |-> NotCached]
      /\ pin' = [b \in Block |-> 0]
      /\ n' = 0
      /\ outstanding' = 0
      /\ committing' = FALSE
      /\ pc' = [p \in Proc |-> "idle"]
      /\ bufOf' = [p \in Proc |-> NoBlock]
      /\ phase' = "read_head"
      /\ tail' = 1
      /\ recovering' = TRUE
  BY DEF Crash
<1>2. ActiveProcs' = {}
  BY <1>1 DEF ActiveProcs
<1>3. Counted'
  BY <1>1, <1>2, FS_EmptySet DEF Counted
<1>4. Flags'
  BY <1>1, <1>2 DEF Flags
<1>5. Locks' /\ Loops' /\ LogEntries' /\ Header' /\ Progress' /\ Quiet'
  BY <1>1 DEF IInv, Locks, Loops, LogEntries, Header, Progress, Quiet
<1>6. Pins' /\ Buffers'
  BY <1>1 DEF Pins, Buffers, InLog, Locked
<1>7. QED BY <1>3, <1>4, <1>5, <1>6 DEF IInv

\* Every step preserves the invariant.
LEMMA NextIInv ==
  ASSUME IInv, [Next]_vars
  PROVE  IInv'
<1>1. TypeOK'
  BY TypeStep
<1>2. CASE UNCHANGED vars
  BY <1>2 DEF IInv, vars, disk, loghdr, procs, control, TypeOK, Counted, Flags,
              Locks, Loops, LogEntries, Header, Quiet, Pins, Buffers, Progress, InLog,
              Locked, ActiveProcs
<1>3. QED
  BY <1>1, <1>2, BeginStep, LogWriteStep, ReleaseStep, EndStep, ModifyStep,
     CacheStep, CommitStep, WriteLogStep, WriteHeadStep, InstallStep, EraseStep,
     FinishStep, ReadHeadStep, CrashStep DEF Next

-----------------------------------------------------------------------------
(***************************************************************************)
(* The theorems.                                                           *)
(***************************************************************************)

\* The inductive invariant holds in every reachable state.
LEMMA Invariance == Spec => []IInv
<1>1. IInv /\ [Next]_vars => IInv'
  BY NextIInv
<1>2. QED
  BY InitIInv, <1>1, PTL DEF Spec

\* Every variable keeps its type; in particular log.lh.n and the loop index
\* never pass the end of logheader.block (log.c log_write, install_trans).
THEOREM TypeCorrect == Spec => []TypeOK
<1>1. IInv => TypeOK
  BY DEF IInv
<1>2. QED
  BY Invariance, <1>1, PTL

\* commit() and recovery never run while an operation is in progress, for any
\* number of processes (log.c end_op, begin_op).
THEOREM CommitsAlone == Spec => []CommitAlone
<1>1. IInv => CommitAlone
  BY DEF IInv, Flags, CommitAlone
<1>2. QED
  BY Invariance, <1>1, PTL

\* A buffer that is not what the disk holds is never recyclable (bio.c bget,
\* bpin; log.c log_write, install_trans).
THEOREM DirtyHeld == Spec => []DirtyIsHeld
<1>1. IInv => DirtyIsHeld
  BY DEF IInv, Buffers, Pins, Locked, DirtyIsHeld
<1>2. QED
  BY Invariance, <1>1, PTL

\* end_op's panic is unreachable: nothing commits while an operation runs.
LEMMA EndNotCommitting ==
  ASSUME IInv, NEW p \in Proc, end_op(p)
  PROVE  ~committing
  BY DEF IInv, Flags, ActiveProcs, end_op, InOp

-----------------------------------------------------------------------------
(***************************************************************************)
(* The space begin_op reserves.                                            *)
(***************************************************************************)

\* An operation keeps to MAXOPBLOCKS blocks, and log.lh names those it has written.
Frugal(p) ==
  /\ IsFiniteSet(wrote[p]) /\ Cardinality(wrote[p]) <= MAXOPBLOCKS
  /\ \A b \in wrote[p] : Absorbed(b)
  /\ pc[p] = "modified" => Cardinality(wrote[p] \cup {bufOf[p]}) <= MAXOPBLOCKS

SpaceInv ==
  /\ \A p \in ActiveProcs : Frugal(p)
  /\ IsFiniteSet(Written)
  /\ SpaceReserved

LEMMA ActiveFinite ==
  ASSUME TypeOK
  PROVE  /\ IsFiniteSet(ActiveProcs) /\ Cardinality(ActiveProcs) \in Nat
         /\ (Cardinality(ActiveProcs) * MAXOPBLOCKS) \in Nat
<1>1. IsFiniteSet(ActiveProcs)
  BY LogAssumption, FS_Subset DEF ActiveProcs
<1>2. Cardinality(ActiveProcs) \in Nat
  BY <1>1, FS_CardinalityType
<1> QED
  BY <1>1, <1>2, LogAssumption

\* Without operations there is nothing to keep.
LEMMA SpaceIdle ==
  ASSUME TypeOK', ActiveProcs' = {}
  PROVE  SpaceInv'
<1>1. Written' = {}
  BY DEF Written
<1>2. Cardinality(ActiveProcs') = 0 /\ Cardinality(Written') = 0 /\ IsFiniteSet(Written')
  BY <1>1, FS_EmptySet
<1>3. n' \in 0..LOGSIZE
  BY DEF TypeOK
<1>4. SpaceReserved'
  BY <1>2, <1>3, LogAssumption DEF SpaceReserved
<1> QED
  BY <1>2, <1>4 DEF SpaceInv

\* begin_op admits an operation only if all the space it may need is left.
LEMMA SpaceBegin ==
  ASSUME IInv, SpaceInv, NEW p \in Proc, begin_op(p)
  PROVE  SpaceInv'
<1> USE LogAssumption DEF InOp, Holding, loghdr
<1>1. /\ pc \in [Proc -> PCs] /\ wrote \in [Proc -> SUBSET Block] /\ n \in 0..LOGSIZE
      /\ IsFiniteSet(ActiveProcs) /\ Cardinality(ActiveProcs) \in Nat
  BY ActiveFinite DEF IInv, TypeOK, PCs
<1>2. /\ pc[p] \in {"idle", "woken"} /\ UNCHANGED <<n, block, bufOf>>
      /\ \/ pc' = [pc EXCEPT ![p] = "sleep"] /\ wrote' = wrote
         \/ /\ ~NoSpace /\ pc' = [pc EXCEPT ![p] = "op"]
            /\ wrote' = [wrote EXCEPT ![p] = {}]
  BY DEF begin_op
<1>3. p \notin ActiveProcs
  BY <1>2 DEF ActiveProcs
<1>4. \A q \in Proc : q # p => wrote'[q] = wrote[q] /\ pc'[q] = pc[q]
  BY <1>1, <1>2
<1>5. \A q \in ActiveProcs : Frugal(q)'
  BY <1>2, <1>3, <1>4 DEF SpaceInv, Frugal, Absorbed, ActiveProcs
<1>6. CASE pc' = [pc EXCEPT ![p] = "sleep"] /\ wrote' = wrote
  <2>1. ActiveProcs' = ActiveProcs
    BY <1>1, <1>2, <1>6 DEF ActiveProcs
  <2>2. Written' = Written
    BY <1>6, <2>1 DEF Written
  <2> QED
    BY <1>2, <1>5, <2>1, <2>2 DEF SpaceInv, SpaceReserved
<1>7. CASE ~NoSpace /\ pc' = [pc EXCEPT ![p] = "op"] /\ wrote' = [wrote EXCEPT ![p] = {}]
  <2>1. ActiveProcs' = ActiveProcs \cup {p} /\ wrote'[p] = {} /\ pc'[p] = "op"
    BY <1>1, <1>7 DEF ActiveProcs
  <2>2. Written' = Written
    BY <1>3, <1>4, <2>1 DEF Written, ActiveProcs
  <2>3. Frugal(p)'
    BY <2>1, FS_EmptySet DEF Frugal
  <2>4. Cardinality(ActiveProcs') = Cardinality(ActiveProcs) + 1
    BY <1>1, <1>3, <2>1, FS_AddElement
  <2>5. n + (Cardinality(ActiveProcs) + 1) * MAXOPBLOCKS <= LOGSIZE
    BY <1>1, <1>7 DEF NoSpace, IInv, Counted
  <2>6. IsFiniteSet(Written) /\ Cardinality(Written) \in Nat
    BY FS_CardinalityType DEF SpaceInv
  <2>7. PICK a \in Nat : a = (Cardinality(ActiveProcs) + 1) * MAXOPBLOCKS
    BY <1>1
  <2>8. SpaceReserved'
    BY <1>1, <1>2, <2>2, <2>4, <2>5, <2>6, <2>7 DEF SpaceReserved
  <2> QED
    BY <1>5, <2>1, <2>2, <2>3, <2>6, <2>8 DEF SpaceInv
<1> QED
  BY <1>2, <1>6, <1>7

\* log_write takes a slot only for a block that its operation had not yet written.
LEMMA SpaceLogWrite ==
  ASSUME IInv, SpaceInv, NEW p \in Proc, log_write(p)
  PROVE  SpaceInv'
<1> USE LogAssumption DEF InOp, Holding, LogSlot
<1>1. /\ pc \in [Proc -> PCs] /\ wrote \in [Proc -> SUBSET Block] /\ n \in 0..LOGSIZE
      /\ block \in [LogSlot -> Block \cup {NoBlock}]
      /\ Cardinality(ActiveProcs) \in Nat /\ (Cardinality(ActiveProcs) * MAXOPBLOCKS) \in Nat
  BY ActiveFinite DEF IInv, TypeOK, PCs
<1>2. PICK b \in Block : b = bufOf[p]
  BY DEF IInv, TypeOK, log_write, Locks
<1>3. pc[p] = "modified" /\ p \in ActiveProcs /\ bufOf' = bufOf
  BY DEF log_write, ActiveProcs
<1> DEFINE adds == \/ Absorbed(b) /\ n' = n /\ block' = block
                   \/ /\ ~Absorbed(b) /\ n' = n + 1 /\ n < LOGSIZE
                      /\ block' = [block EXCEPT ![n + 1] = b]
<1>4. \/ UNCHANGED <<pc, wrote, n, block>>
      \/ /\ pc' = [pc EXCEPT ![p] = "logged"] /\ wrote' = [wrote EXCEPT ![p] = @ \cup {b}]
         /\ adds
  BY <1>1, <1>2 DEF log_write, TooBig
<1>5. IsFiniteSet(Written) /\ Cardinality(Written) \in Nat
  BY FS_CardinalityType DEF SpaceInv
<1>6. CASE UNCHANGED <<pc, wrote, n, block>>
  BY <1>3, <1>6 DEF SpaceInv, Frugal, Absorbed, Written, SpaceReserved, ActiveProcs
<1>7. CASE /\ pc' = [pc EXCEPT ![p] = "logged"] /\ wrote' = [wrote EXCEPT ![p] = @ \cup {b}]
           /\ adds
  <2>1. /\ \A q \in Proc : q # p => wrote'[q] = wrote[q] /\ pc'[q] = pc[q]
        /\ wrote'[p] = wrote[p] \cup {b} /\ pc'[p] = "logged"
    BY <1>1, <1>7
  <2>2. ActiveProcs' = ActiveProcs
    BY <1>1, <1>3, <1>7 DEF ActiveProcs
  <2>3. /\ \A c \in Block : Absorbed(c) => Absorbed(c)'
        /\ Absorbed(b)'
    BY <1>1, <1>7 DEF Absorbed
  <2>4. \A q \in ActiveProcs : wrote[q] \subseteq Block
    BY <1>1 DEF ActiveProcs
  <2>5. \A q \in ActiveProcs : q # p => Frugal(q)'
    BY <1>3, <2>1, <2>3, <2>4 DEF SpaceInv, Frugal, ActiveProcs
  <2>6. Frugal(p)'
    <3>1. Frugal(p)
      BY <1>3 DEF SpaceInv
    <3>2. IsFiniteSet(wrote[p] \cup {b})
      BY <3>1, FS_AddElement DEF Frugal
    <3>3. Cardinality(wrote[p] \cup {b}) <= MAXOPBLOCKS
      BY <1>2, <1>3, <3>1 DEF Frugal
    <3>4. \A c \in wrote[p] \cup {b} : Absorbed(c)'
      BY <1>3, <2>3, <2>4, <3>1 DEF Frugal
    <3> QED
      BY <2>1, <3>2, <3>3, <3>4 DEF Frugal
  <2>7. Written' = Written \cup {<<p, b>>}
    <3>1. ASSUME NEW w \in ActiveProcs \X Block
          PROVE  w[2] \in wrote'[w[1]] <=> w[2] \in wrote[w[1]] \/ w = <<p, b>>
      <4>1. w = <<w[1], w[2]>> /\ w[1] \in Proc
        BY DEF ActiveProcs
      <4>2. CASE w[1] = p
        BY <2>1, <4>1, <4>2
      <4>3. CASE w[1] # p
        BY <2>1, <4>1, <4>3
      <4> QED
        BY <4>2, <4>3
    <3>2. <<p, b>> \in ActiveProcs \X Block
      BY <1>3
    <3> QED
      BY <2>2, <3>1, <3>2 DEF Written
  <2>8. /\ IsFiniteSet(Written')
        /\ Cardinality(Written') = IF <<p, b>> \in Written THEN Cardinality(Written)
                                   ELSE Cardinality(Written) + 1
    BY <1>5, <2>7, FS_AddElement
  <2>9. n' = n \/ (n' = n + 1 /\ <<p, b>> \notin Written)
    <3>1. ~Absorbed(b) => b \notin wrote[p]
      BY <1>3 DEF SpaceInv, Frugal
    <3>2. <<p, b>> \in Written => b \in wrote[p]
      BY DEF Written
    <3> QED
      BY <1>7, <3>1, <3>2
  <2>10. SpaceReserved'
    <3>1. n + Cardinality(ActiveProcs) * MAXOPBLOCKS - Cardinality(Written) <= LOGSIZE
      BY DEF SpaceInv, SpaceReserved
    <3>2. PICK a \in Nat : a = Cardinality(ActiveProcs) * MAXOPBLOCKS
      BY <1>1
    <3>3. n' + a - Cardinality(Written') <= LOGSIZE
      BY <1>1, <1>5, <2>8, <2>9, <3>1, <3>2
    <3> QED
      BY <2>2, <3>2, <3>3 DEF SpaceReserved
  <2> QED
    BY <2>2, <2>5, <2>6, <2>8, <2>10 DEF SpaceInv
<1> QED
  BY <1>4, <1>6, <1>7

\* end_op gives back the slots that its operation did not need.
LEMMA SpaceEnd ==
  ASSUME IInv, SpaceInv, NEW p \in Proc, end_op(p)
  PROVE  SpaceInv'
<1> USE LogAssumption DEF InOp, loghdr
<1>1. /\ pc \in [Proc -> PCs] /\ n \in 0..LOGSIZE
      /\ IsFiniteSet(ActiveProcs) /\ Cardinality(ActiveProcs) \in Nat
      /\ (Cardinality(ActiveProcs) * MAXOPBLOCKS) \in Nat
  BY ActiveFinite DEF IInv, TypeOK, PCs
<1>2. ~committing
  BY EndNotCommitting
<1>3. /\ UNCHANGED <<n, block, bufOf, wrote>> /\ pc[p] = "op"
      /\ pc' = [pc EXCEPT ![p] = "commit"] \/ pc' = WakeupAnd(p, "idle")
  BY <1>2 DEF end_op
<1>4. \A q \in Proc : /\ pc'[q] \in InOp <=> pc[q] \in InOp /\ q # p
                      /\ pc'[q] \in InOp => pc'[q] = pc[q]
  BY <1>1, <1>3 DEF WakeupAnd, PCs
<1>5. ActiveProcs' = ActiveProcs \ {p} /\ p \in ActiveProcs
  BY <1>3, <1>4 DEF ActiveProcs
<1>6. Cardinality(ActiveProcs') = Cardinality(ActiveProcs) - 1
  BY <1>1, <1>5, FS_RemoveElement
<1>7. \A q \in ActiveProcs' : Frugal(q)'
  BY <1>3, <1>4, <1>5 DEF SpaceInv, Frugal, Absorbed, ActiveProcs
<1>8. Frugal(p)
  BY <1>5 DEF SpaceInv
<1>9. PICK own : own = {p} \X wrote[p]
  OBVIOUS
<1>10. IsFiniteSet(own) /\ Cardinality(own) \in Nat /\ Cardinality(own) <= MAXOPBLOCKS
  <2>1. IsFiniteSet(wrote[p]) /\ Cardinality(wrote[p]) <= MAXOPBLOCKS
    BY <1>8 DEF Frugal
  <2>2. IsFiniteSet({p}) /\ Cardinality({p}) = 1
    BY FS_Singleton
  <2>3. IsFiniteSet(own) /\ Cardinality(own) = 1 * Cardinality(wrote[p])
    BY <1>9, <2>1, <2>2, FS_Product
  <2>4. Cardinality(wrote[p]) \in Nat
    BY <2>1, FS_CardinalityType
  <2> QED
    BY <2>1, <2>3, <2>4
<1>11. Written' = Written \ own
  BY <1>3, <1>5, <1>9 DEF Written
<1>12. IsFiniteSet(Written) /\ Cardinality(Written) \in Nat
  BY FS_CardinalityType DEF SpaceInv
<1>13. /\ IsFiniteSet(Written') /\ Cardinality(Written') \in Nat
       /\ Cardinality(Written') >= Cardinality(Written) - MAXOPBLOCKS
  <2>1. /\ IsFiniteSet(Written')
        /\ Cardinality(Written') = Cardinality(Written) - Cardinality(Written \cap own)
    BY <1>11, <1>12, FS_Difference
  <2>2. (Written \cap own) \in SUBSET own
    OBVIOUS
  <2>3. IsFiniteSet(Written \cap own) /\ Cardinality(Written \cap own) <= Cardinality(own)
    BY <1>10, <2>2, FS_Subset
  <2>4. Cardinality(Written \cap own) \in Nat /\ Cardinality(Written') \in Nat
    BY <2>1, <2>3, FS_CardinalityType
  <2> QED
    BY <1>10, <1>12, <2>1, <2>3, <2>4
<1>14. SpaceReserved'
  <2>1. PICK a \in Nat : a = Cardinality(ActiveProcs) * MAXOPBLOCKS
    BY <1>1
  <2>2. Cardinality(ActiveProcs') * MAXOPBLOCKS = a - MAXOPBLOCKS
    BY <1>1, <1>6, <2>1
  <2>3. n + a - Cardinality(Written) <= LOGSIZE
    BY <2>1 DEF SpaceInv, SpaceReserved
  <2>4. n' + (a - MAXOPBLOCKS) - Cardinality(Written') <= LOGSIZE
    BY <1>1, <1>3, <1>12, <1>13, <2>3
  <2> QED
    BY <2>2, <2>4 DEF SpaceReserved
<1> QED
  BY <1>7, <1>13, <1>14 DEF SpaceInv

\* The other steps of an operation write nothing to the log.
LEMMA SpaceModify ==
  ASSUME IInv, SpaceInv, NEW p \in Proc,
         brelse(p) \/ \E b \in Block, v \in Val : modify(p, b, v)
  PROVE  SpaceInv'
<1> USE DEF InOp, loghdr
<1>1. pc \in [Proc -> PCs] /\ bufOf \in [Proc -> Block \cup {NoBlock}]
  BY DEF IInv, TypeOK, PCs
<1>2. UNCHANGED <<n, block, wrote>> /\ p \in ActiveProcs
  BY DEF brelse, modify, ActiveProcs
<1>3. ActiveProcs' = ActiveProcs
  BY <1>1, <1>2 DEF brelse, modify, ActiveProcs
<1>4. \A q \in ActiveProcs : q # p => pc'[q] = pc[q] /\ bufOf'[q] = bufOf[q]
  BY <1>1, <1>2 DEF brelse, modify, ActiveProcs
<1>5. pc'[p] = "modified" => Cardinality(wrote[p] \cup {bufOf'[p]}) <= MAXOPBLOCKS
  BY <1>1, <1>2 DEF brelse, modify, ActiveProcs
<1>6. \A q \in ActiveProcs : Frugal(q)'
  BY <1>2, <1>4, <1>5 DEF SpaceInv, Frugal, Absorbed
<1>7. Written' = Written
  BY <1>2, <1>3 DEF Written
<1> QED
  BY <1>2, <1>3, <1>6, <1>7 DEF SpaceInv, SpaceReserved

LEMMA SpaceInvariant == Spec => [](IInv /\ SpaceInv)
<1>1. Init => SpaceInv
  <2> SUFFICES ASSUME Init PROVE SpaceInv
    OBVIOUS
  <2>1. ActiveProcs = {} /\ Written = {} /\ n = 0
    BY DEF Init, ActiveProcs, Written, InOp
  <2>2. Cardinality(ActiveProcs) = 0 /\ Cardinality(Written) = 0 /\ IsFiniteSet(Written)
    BY <2>1, FS_EmptySet
  <2> QED
    BY <2>1, <2>2, LogAssumption DEF SpaceInv, SpaceReserved
<1>2. ASSUME IInv, SpaceInv, [Next]_vars PROVE SpaceInv'
  <2> USE DEF InOp, procs, loghdr
  <2>1. TypeOK /\ TypeOK'
    BY <1>2, TypeStep DEF IInv
  <2>2. ASSUME NEW p \in Proc,
               \/ begin_op(p) \/ log_write(p) \/ brelse(p) \/ end_op(p)
               \/ \E b \in Block, v \in Val : modify(p, b, v)
        PROVE  SpaceInv'
    BY <1>2, <2>2, SpaceBegin, SpaceLogWrite, SpaceEnd, SpaceModify
  <2>3. CASE UNCHANGED vars \/ \E b \in Block : Fetch(b) \/ Recycle(b)
    <3>1. UNCHANGED <<pc, bufOf, wrote, n, block>>
      BY <2>3 DEF vars, Fetch, Recycle
    <3> QED
      BY <1>2, <3>1 DEF SpaceInv, Frugal, Absorbed, Written, SpaceReserved, ActiveProcs
  <2>4. CASE commit \/ write_log \/ write_head \/ install_trans \/ erase \/ read_head
    <3>1. phase # "normal" /\ pc' = pc
      BY <2>4 DEF commit, write_log, write_head, install_trans, erase, read_head
    <3>2. ActiveProcs' = {}
      BY <1>2, <3>1 DEF IInv, Flags, ActiveProcs
    <3> QED
      BY <2>1, <3>2, SpaceIdle
  <2>5. ASSUME NEW p \in Proc, finish(p) PROVE SpaceInv'
    <3>1. phase # "normal" /\ pc' = WakeupAnd(p, "idle")
      BY <2>5 DEF finish
    <3>2. ActiveProcs = {}
      BY <1>2, <3>1 DEF IInv, Flags
    <3>3. ActiveProcs' = {}
      BY <3>1, <3>2 DEF ActiveProcs, WakeupAnd
    <3> QED
      BY <2>1, <3>3, SpaceIdle
  <2>6. CASE Crash
    <3>1. ActiveProcs' = {}
      BY <2>6 DEF Crash, ActiveProcs
    <3> QED
      BY <2>1, <3>1, SpaceIdle
  <2> QED
    BY <1>2, <2>2, <2>3, <2>4, <2>5, <2>6 DEF Next
<1> QED
  BY <1>1, <1>2, Invariance, PTL DEF Spec

\* The blocks in the log and all that the running operations may still add fit into
\* logheader.block, for any number of processes (log.c begin_op, log_write, end_op).
THEOREM SpaceIsReserved == Spec => []SpaceReserved
<1>1. SpaceInv => SpaceReserved
  BY DEF SpaceInv
<1> QED
  BY <1>1, SpaceInvariant, PTL

\* A block that an operation logs for the first time always finds a slot.
FirstWriteFits ==
  \A p \in Proc : pc[p] = "modified" /\ bufOf[p] \notin wrote[p] => n < LOGSIZE

\* Every operation has its own MAXOPBLOCKS tickets, and the blocks it wrote or is about
\* to write take different ones.
LEMMA FitsInvariant ==
  ASSUME IInv, SpaceInv
  PROVE  FirstWriteFits
<1> SUFFICES ASSUME NEW p \in Proc, pc[p] = "modified", bufOf[p] \notin wrote[p]
             PROVE  n < LOGSIZE
  BY DEF FirstWriteFits
<1> USE LogAssumption
<1>1. PICK b \in Block : b = bufOf[p]
  BY DEF IInv, TypeOK, Locks, Holding
<1>2. p \in ActiveProcs
  BY DEF ActiveProcs, InOp
<1>3. PICK Own : Own = [q \in ActiveProcs |-> IF q = p THEN wrote[q] \cup {b} ELSE wrote[q]]
  OBVIOUS
<1>4. ASSUME NEW q \in ActiveProcs
      PROVE  \E f : f \in Injection(Own[q], 1..MAXOPBLOCKS)
  <2>1. PICK S : S = Own[q]
    OBVIOUS
  <2>2. Frugal(q)
    BY DEF SpaceInv
  <2>3. IsFiniteSet(S) /\ Cardinality(S) <= MAXOPBLOCKS
    BY <1>1, <1>3, <2>1, <2>2, FS_AddElement DEF Frugal
  <2>4. PICK k \in Nat : k = Cardinality(S)
    BY <2>3, FS_CardinalityType
  <2>5. ExistsBijection(S, 1..k)
    BY <2>3, <2>4, FS_CardinalityType, Fun_ExistsBijSymmetric
  <2>6. PICK f : f \in Bijection(S, 1..k)
    BY <2>5 DEF ExistsBijection
  <2>7. f \in Injection(S, 1..MAXOPBLOCKS)
    BY <2>3, <2>4, <2>6 DEF Bijection, Injection, IsInjective
  <2> QED
    BY <2>1, <2>7
<1>5. PICK t : t = [q \in ActiveProcs |-> CHOOSE f : f \in Injection(Own[q], 1..MAXOPBLOCKS)]
  OBVIOUS
<1>6. \A q \in ActiveProcs : t[q] \in Injection(Own[q], 1..MAXOPBLOCKS)
  BY <1>4, <1>5
<1>7. PICK W : W = Written \cup {<<p, b>>}
  OBVIOUS
<1>8. \A w \in W : w = <<w[1], w[2]>> /\ w[1] \in ActiveProcs /\ w[2] \in Own[w[1]]
  BY <1>2, <1>3, <1>7 DEF Written
<1>9. PICK g : g = [w \in W |-> <<w[1], t[w[1]][w[2]]>>]
  OBVIOUS
<1>10. g \in Injection(W, ActiveProcs \X (1..MAXOPBLOCKS))
  <2>1. ASSUME NEW w \in W PROVE t[w[1]][w[2]] \in 1..MAXOPBLOCKS
    BY <1>6, <1>8 DEF Injection
  <2>2. g \in [W -> ActiveProcs \X (1..MAXOPBLOCKS)]
    BY <1>8, <1>9, <2>1
  <2>3. ASSUME NEW w \in W, NEW v \in W, g[w] = g[v] PROVE w = v
    <3>1. w[1] = v[1] /\ t[w[1]][w[2]] = t[w[1]][v[2]]
      BY <1>9, <2>3
    <3>2. w[2] = v[2]
      BY <1>6, <1>8, <3>1 DEF Injection, IsInjective
    <3> QED
      BY <1>8, <3>1, <3>2
  <2> QED
    BY <2>2, <2>3 DEF Injection, IsInjective
<1>11. /\ IsFiniteSet(ActiveProcs) /\ Cardinality(ActiveProcs) \in Nat
       /\ (Cardinality(ActiveProcs) * MAXOPBLOCKS) \in Nat
  BY ActiveFinite DEF IInv
<1>12. PICK T : T = ActiveProcs \X (1..MAXOPBLOCKS)
  OBVIOUS
<1>13. IsFiniteSet(T) /\ Cardinality(T) = Cardinality(ActiveProcs) * MAXOPBLOCKS
  <2>1. IsFiniteSet(1..MAXOPBLOCKS) /\ Cardinality(1..MAXOPBLOCKS) = MAXOPBLOCKS
    BY FS_Interval
  <2> QED
    BY <1>11, <1>12, <2>1, FS_Product
<1>14. Cardinality(W) <= Cardinality(T)
  BY <1>10, <1>12, <1>13, FS_Injection DEF ExistsInjection
<1>15. IsFiniteSet(Written) /\ Cardinality(Written) \in Nat /\ <<p, b>> \notin Written
  BY <1>1, FS_CardinalityType DEF SpaceInv, Written
<1>16. Cardinality(W) = Cardinality(Written) + 1
  BY <1>7, <1>15, FS_AddElement
<1>17. PICK a \in Nat : a = Cardinality(ActiveProcs) * MAXOPBLOCKS
  BY <1>11
<1>18. n + a - Cardinality(Written) <= LOGSIZE /\ n \in Nat
  BY <1>17 DEF SpaceInv, SpaceReserved, IInv, TypeOK
<1> QED
  BY <1>13, <1>14, <1>15, <1>16, <1>17, <1>18

\* The log region ends at block n of the header, or the header is full and the process
\* logs a block again.
NoRoom(p) ==
  \/ n < LOGSIZE /\ n >= nlog - 1
  \/ n = LOGSIZE /\ bufOf[p] \in wrote[p]

\* Whatever the size of the log region, operations that keep to MAXOPBLOCKS blocks make
\* the kernel panic in two ways only, both in log_write: the region ends before
\* logheader.block does (with mkfs's nlog = LOGSIZE the header takes the place of the
\* last block begin_op promised), or logheader.block is full and a block is logged
\* again, because log_write tests the size before it looks for the block.  The panics
\* "log_write outside of trans" and "log.committing" cannot happen.
THEOREM PanicsOnlyWhenFull ==
  Spec => [][panicked' /\ ~panicked => \E p \in Proc : log_write(p) /\ NoRoom(p)]_vars
<1>1. ASSUME IInv, SpaceInv, Next, panicked', ~panicked
      PROVE  \E p \in Proc : log_write(p) /\ NoRoom(p)
  <2>1. PICK p \in Proc : log_write(p)
    <3>1. ASSUME NEW q \in Proc, end_op(q) PROVE FALSE
      BY <1>1, <3>1, EndNotCommitting DEF end_op
    <3> QED
      BY <1>1, <3>1 DEF Next, begin_op, brelse, modify, Fetch, Recycle, commit, write_log,
         write_head, install_trans, erase, finish, read_head, Crash
  <2>2. pc[p] = "modified" /\ (TooBig \/ outstanding < 1)
    BY <1>1, <2>1 DEF log_write
  <2>3. outstanding >= 1
    <3>1. ActiveProcs # {}
      BY <2>2 DEF ActiveProcs, InOp
    <3>2. IsFiniteSet(ActiveProcs) /\ Cardinality(ActiveProcs) \in Nat
      BY <1>1, ActiveFinite DEF IInv
    <3> QED
      BY <1>1, <3>1, <3>2, FS_EmptySet DEF IInv, Counted
  <2>4. n \in 0..LOGSIZE /\ outstanding \in Int
    BY <1>1 DEF IInv, TypeOK
  <2>5. n = LOGSIZE \/ (n < LOGSIZE /\ n >= nlog - 1)
    BY <2>2, <2>3, <2>4, LogAssumption DEF TooBig
  <2>6. ASSUME n = LOGSIZE PROVE bufOf[p] \in wrote[p]
    BY <1>1, <2>2, <2>4, <2>6, FitsInvariant, LogAssumption DEF FirstWriteFits
  <2> QED
    BY <2>1, <2>5, <2>6 DEF NoRoom
<1>2. IInv /\ SpaceInv /\ [Next]_vars =>
        [panicked' /\ ~panicked => \E p \in Proc : log_write(p) /\ NoRoom(p)]_vars
  BY <1>1
<1> QED
  BY <1>2, SpaceInvariant, PTL DEF Spec

\* A sleeper in begin_op always has somebody left to wake it: the rule behind
\* the wakeup calls of end_op.
THEOREM NoLostWakeup == Spec => []SleeperHasWaker
<1>1. Init => SleeperHasWaker
  BY DEF Init, SleeperHasWaker
<1>2. IInv /\ SleeperHasWaker /\ [Next]_vars => SleeperHasWaker'
  <2> SUFFICES ASSUME IInv, SleeperHasWaker, [Next]_vars
               PROVE  SleeperHasWaker'
    OBVIOUS
  <2> USE LogAssumption DEF disk, loghdr, procs, control
  <2>1. TypeOK
    BY DEF IInv
  <2>2. ASSUME NEW p \in Proc, begin_op(p)
        PROVE  SleeperHasWaker'
    <3>1. CASE pc' = [pc EXCEPT ![p] = "sleep"] /\ committing
      BY <2>1, <2>2, <3>1 DEF TypeOK, SleeperHasWaker, begin_op
    <3>2. CASE ~committing /\ outstanding' = outstanding /\ NoSpace
      <4>1. ActiveProcs = {} => n = 0 /\ outstanding = 0
        BY <2>2, <3>2, FS_EmptySet DEF IInv, Flags, Quiet, Counted, begin_op
      <4>2. outstanding \in Nat /\ (outstanding = 0 => ActiveProcs = {})
        <5>1. IsFiniteSet(ActiveProcs)
          BY FS_Subset DEF ActiveProcs
        <5>2. QED BY <5>1, FS_CardinalityType, FS_EmptySet DEF IInv, Counted
      <4>3. outstanding # 0
        BY <3>2, <4>1, <4>2 DEF NoSpace
      <4>4. QED BY <3>2, <4>2, <4>3 DEF SleeperHasWaker
    <3>3. CASE outstanding' = outstanding + 1
      <4>1. outstanding \in Nat
        <5>1. IsFiniteSet(ActiveProcs)
          BY FS_Subset DEF ActiveProcs
        <5>2. QED BY <5>1, FS_CardinalityType DEF IInv, Counted
      <4>2. QED BY <3>3, <4>1 DEF SleeperHasWaker
    <3>4. QED BY <2>2, <3>1, <3>2, <3>3 DEF begin_op
  <2>3. ASSUME NEW p \in Proc, end_op(p)
        PROVE  SleeperHasWaker'
    <3>1. CASE committing' = TRUE
      BY <3>1 DEF SleeperHasWaker
    <3>2. CASE pc' = WakeupAnd(p, "idle")
      BY <2>1, <3>2 DEF TypeOK, SleeperHasWaker, WakeupAnd
    <3>3. QED BY <2>3, <3>1, <3>2, EndNotCommitting DEF end_op
  <2>4. ASSUME NEW p \in Proc, finish(p)
        PROVE  SleeperHasWaker'
    BY <2>1, <2>4 DEF TypeOK, SleeperHasWaker, WakeupAnd, finish
  <2>5. ASSUME NEW p \in Proc,
               \/ log_write(p)
               \/ brelse(p)
               \/ \E b \in Block, v \in Val : modify(p, b, v)
        PROVE  SleeperHasWaker'
    BY <2>1, <2>5 DEF TypeOK, SleeperHasWaker, log_write, brelse, modify, Holding
  <2>6. CASE Crash
    BY <2>6 DEF SleeperHasWaker, Crash
  <2>7. CASE \/ UNCHANGED vars
             \/ commit \/ write_log \/ write_head \/ install_trans \/ erase
             \/ read_head
             \/ \E b \in Block : Fetch(b) \/ Recycle(b)
    <3>1. UNCHANGED <<pc, committing, outstanding>>
      BY <2>7 DEF vars, commit, write_log, write_head, install_trans, erase,
                  read_head, Fetch, Recycle
    <3>2. QED BY <3>1 DEF SleeperHasWaker
  <2>8. QED BY <2>2, <2>3, <2>4, <2>5, <2>6, <2>7 DEF Next
<1>3. QED
  BY Invariance, <1>1, <1>2, PTL DEF Spec

\* What recovery would install, slot by slot: each header entry is unique, so
\* the last one naming a block is the only one.
LEMMA RecoveredAt ==
  ASSUME IInv
  PROVE  /\ \A i \in 1..hn : Recovered[hblock[i]] = dlog[i]
         /\ \A b \in Block : (\A i \in 1..hn : hblock[i] # b) => Recovered[b] = home[b]
<1>1. ASSUME NEW i \in 1..hn
      PROVE  Recovered[hblock[i]] = dlog[i]
  <2>1. hblock[i] \in Block /\ HeadSlots(hblock[i]) = {i}
    BY DEF IInv, Header, HeadSlots
  <2>2. (CHOOSE k \in {i} : \A j \in {i} : j <= k) = i
    OBVIOUS
  <2>3. QED BY <2>1, <2>2 DEF Recovered
<1>2. ASSUME NEW b \in Block, \A i \in 1..hn : hblock[i] # b
      PROVE  Recovered[b] = home[b]
  BY <1>2 DEF Recovered, HeadSlots
<1>3. QED BY <1>1, <1>2

\* The same in the next state.
LEMMA RecoveredAtNext ==
  ASSUME IInv'
  PROVE  /\ \A i \in 1..hn' : Recovered'[hblock'[i]] = dlog'[i]
         /\ \A b \in Block : (\A i \in 1..hn' : hblock'[i] # b) => Recovered'[b] = home'[b]
<1>1. ASSUME NEW i \in 1..hn'
      PROVE  Recovered'[hblock'[i]] = dlog'[i]
  <2>1. hblock'[i] \in Block /\ {k \in 1..hn' : hblock'[k] = hblock'[i]} = {i}
    BY DEF IInv, Header
  <2>2. (CHOOSE k \in {i} : \A j \in {i} : j <= k) = i
    OBVIOUS
  <2>3. QED BY <2>1, <2>2 DEF Recovered, HeadSlots
<1>2. ASSUME NEW b \in Block, \A i \in 1..hn' : hblock'[i] # b
      PROVE  Recovered'[b] = home'[b]
  BY <1>2 DEF Recovered, HeadSlots
<1>3. QED BY <1>1, <1>2

\* With an empty header the disk is what it says it is.
LEMMA RecoveredEmpty ==
  ASSUME IInv, hn = 0
  PROVE  Recovered = home
<1>1. \A b \in Block : Recovered[b] = home[b]
  BY RecoveredAt
<1>2. home \in [Block -> Val]
  BY DEF IInv, TypeOK
<1>3. QED BY <1>1, <1>2 DEF Recovered

\* The same in the next state.
LEMMA RecoveredEmptyNext ==
  ASSUME IInv', hn' = 0
  PROVE  Recovered' = home'
<1>1. \A b \in Block : Recovered'[b] = home'[b]
  BY RecoveredAtNext
<1>2. home' \in [Block -> Val]
  BY DEF IInv, TypeOK
<1>3. QED BY <1>1, <1>2 DEF Recovered

\* A block that is neither in the log nor being modified reads as on disk.
LEMMA CleanReads ==
  ASSUME IInv, NEW b \in Block, ~InLog(b), ~Locked(b)
  PROVE  Visible[b] = home[b]
  BY DEF IInv, Buffers, Locked, Visible, bread

\* When everything in the log was copied or nothing is in it, and nobody holds
\* a buffer, readers see what is on disk.
LEMMA AllClean ==
  ASSUME IInv, \A b \in Block : ~InLog(b) /\ ~Locked(b)
  PROVE  Visible = home
<1>1. \A b \in Block : Visible[b] = home[b]
  BY CleanReads
<1>2. home \in [Block -> Val]
  BY DEF IInv, TypeOK
<1>3. QED BY <1>1, <1>2 DEF Visible

\* A home block is only ever overwritten by what the committed header records
\* for it (log.c install_trans after write_head).
THEOREM WritesAhead == Spec => WriteAhead
<1> DEFINE WA == \A b \in Block :
                   home'[b] # home[b] =>
                     \E i \in 1..hn : hblock[i] = b /\ dlog[i] = home'[b]
<1>1. IInv /\ [Next]_vars => [WA]_vars
  <2> SUFFICES ASSUME IInv, [Next]_vars
               PROVE  WA
    OBVIOUS
  <2>1. CASE install_trans
    <3>1. /\ tail \in 1..n /\ n = hn /\ hblock[tail] = block[tail]
          /\ block[tail] \in Block /\ home \in [Block -> Val]
          /\ home' = [home EXCEPT ![block[tail]] = dlog[tail]]
      BY <2>1 DEF IInv, TypeOK, LogSlot, Loops, Header, LogEntries, install_trans
    <3>2. QED BY <3>1
  <2>2. CASE ~install_trans
    <3>1. home' = home
      BY <2>2 DEF Next, vars, disk, begin_op, log_write, brelse, end_op, modify,
                  Fetch, Recycle, commit, write_log, write_head, erase, finish,
                  read_head, Crash
    <3>2. QED BY <3>1
  <2>3. QED BY <2>1, <2>2
<1>2. QED
  BY Invariance, <1>1, PTL DEF Spec, WriteAhead

\* At rest everything written is durable and no pin is left (log.c end_op,
\* commit).
THEOREM QuietDurable == Spec => []QuietIsDurable
<1>1. IInv => QuietIsDurable
  <2> SUFFICES ASSUME IInv, phase = "normal", ActiveProcs = {}
               PROVE  Visible = Recovered /\ \A b \in Block : pin[b] = 0
    BY DEF QuietIsDurable
  <2>1. n = 0 /\ hn = 0
    BY DEF IInv, Quiet, Header
  <2>2. \A b \in Block : ~InLog(b) /\ ~Locked(b)
    <3>1. \A p \in Proc : bufOf[p] = NoBlock
      BY DEF IInv, Locks, ActiveProcs, InOp, Holding
    <3>2. QED BY <2>1, <3>1, LogAssumption DEF InLog, Locked
  <2>3. QED
    BY <2>1, <2>2, RecoveredEmpty, AllClean DEF IInv, Pins
<1>2. QED
  BY Invariance, <1>1, PTL

-----------------------------------------------------------------------------
(***************************************************************************)
(* Refinement.                                                             *)
(***************************************************************************)

Current == IF recovering THEN Recovered ELSE Visible

\* Steps that change neither the disk's recovered contents, nor what readers
\* see, nor who is in an operation.
LEMMA StutterStep ==
  ASSUME ActiveProcs' = ActiveProcs, Current' = Current, Recovered' = Recovered
  PROVE  UNCHANGED A!avars
  BY DEF A!avars, Current

\* begin_op and end_op are Begin and End of AtomicDisk, or stutter.
LEMMA RefineOps ==
  ASSUME IInv, NEW p \in Proc
  PROVE  /\ begin_op(p) => [A!Next]_(A!avars)
         /\ log_write(p) => [A!Next]_(A!avars)
         /\ brelse(p) => [A!Next]_(A!avars)
         /\ end_op(p) => [A!Next]_(A!avars)
         /\ finish(p) => [A!Next]_(A!avars)
<1> USE DEF disk, loghdr, procs, control
<1>1. pc \in [Proc -> {"idle", "sleep", "woken", "commit"} \cup InOp]
  BY DEF IInv, TypeOK
<1>2. ASSUME UNCHANGED <<disk, cache, recovering>>
      PROVE  Current' = Current /\ Recovered' = Recovered
  BY <1>2 DEF Current, Recovered, HeadSlots, Visible, bread
<1>3. ASSUME begin_op(p)
      PROVE  [A!Next]_(A!avars)
  <2>1. Current' = Current /\ Recovered' = Recovered
    BY <1>2, <1>3 DEF begin_op
  <2>2. CASE pc' = [pc EXCEPT ![p] = "sleep"]
    <3>1. ActiveProcs' = ActiveProcs
      BY <1>1, <1>3, <2>2 DEF ActiveProcs, InOp, begin_op
    <3>2. QED BY <2>1, <3>1, StutterStep
  <2>3. CASE pc' = [pc EXCEPT ![p] = "op"]
    <3>1. ActiveProcs' = ActiveProcs \cup {p} /\ p \notin ActiveProcs
      BY <1>1, <1>3, <2>3 DEF ActiveProcs, InOp, begin_op
    <3>2. A!Begin(p)
      BY <2>1, <3>1 DEF A!Begin, Current
    <3>3. QED BY <3>2 DEF A!Next
  <2>4. QED BY <1>3, <2>2, <2>3 DEF begin_op
<1>4. ASSUME log_write(p) \/ brelse(p) \/ finish(p)
      PROVE  [A!Next]_(A!avars)
  <2>1. UNCHANGED <<disk, cache, recovering>>
    BY <1>4 DEF log_write, brelse, finish
  <2>2. \A q \in Proc : pc'[q] \in InOp <=> pc[q] \in InOp
    BY <1>1, <1>4 DEF InOp, log_write, brelse, finish, WakeupAnd
  <2>3. ActiveProcs' = ActiveProcs
    BY <2>2 DEF ActiveProcs
  <2>4. QED BY <1>2, <2>1, <2>3, StutterStep
<1>5. ASSUME end_op(p)
      PROVE  [A!Next]_(A!avars)
  <2>1. Current' = Current /\ Recovered' = Recovered
    BY <1>2, <1>5 DEF end_op
  <2>2. ~committing
    BY <1>5, EndNotCommitting
  <2>3. \A q \in Proc : pc'[q] \in InOp <=> pc[q] \in InOp /\ q # p
    BY <1>1, <1>5, <2>2 DEF InOp, end_op, WakeupAnd
  <2>4. p \in ActiveProcs /\ ActiveProcs' = ActiveProcs \ {p}
    BY <1>5, <2>3 DEF ActiveProcs, InOp, end_op
  <2>5. A!End(p)
    BY <2>1, <2>4 DEF A!End, Current
  <2>6. QED BY <2>5 DEF A!Next
<1>6. QED BY <1>3, <1>4, <1>5

\* modify is a Write of AtomicDisk; fetching, recycling and logging stutter.
LEMMA RefineBuffers ==
  ASSUME IInv, NEW c \in Block
  PROVE  /\ Fetch(c) \/ Recycle(c) => [A!Next]_(A!avars)
         /\ \A p \in Proc, v \in Val : modify(p, c, v) => [A!Next]_(A!avars)
<1> USE DEF disk, loghdr, procs, control
<1>1. cache \in [Block -> Val \cup {NotCached}]
  BY DEF IInv, TypeOK
<1>2. ASSUME UNCHANGED disk
      PROVE  Recovered' = Recovered
  BY <1>2 DEF Recovered, HeadSlots
<1>3. ASSUME Fetch(c) \/ Recycle(c)
      PROVE  [A!Next]_(A!avars)
  <2>1. /\ UNCHANGED <<disk, pc, recovering>>
        /\ \/ cache[c] = NotCached /\ cache' = [cache EXCEPT ![c] = home[c]]
           \/ /\ pin[c] = 0 /\ ~Locked(c)
              /\ cache' = [cache EXCEPT ![c] = NotCached]
    BY <1>3 DEF Fetch, Recycle, bread
  <2>2. ~InLog(c) /\ ~Locked(c)
    BY <2>1 DEF IInv, Pins, Buffers
  <2>3. bread(c) = home[c]
    BY <2>2 DEF IInv, Buffers, Locked, bread
  <2>4. \A b \in Block : bread(b)' = bread(b)
    <3>1. ASSUME NEW b \in Block, b # c
          PROVE  bread(b)' = bread(b)
      BY <1>1, <2>1, <3>1 DEF bread
    <3>2. bread(c)' = home'[c]
      BY <1>1, <2>1 DEF bread
    <3>3. QED BY <2>1, <2>3, <3>1, <3>2
  <2>5. Visible' = Visible
    BY <2>4 DEF Visible
  <2>6. ActiveProcs' = ActiveProcs
    BY <2>1 DEF ActiveProcs
  <2>7. QED BY <1>2, <2>1, <2>5, <2>6, StutterStep DEF Current
<1>4. ASSUME NEW p \in Proc, NEW v \in Val, modify(p, c, v)
      PROVE  [A!Next]_(A!avars)
  <2>1. ActiveProcs' = ActiveProcs /\ p \in ActiveProcs
    BY <1>4 DEF modify, ActiveProcs, InOp, IInv, TypeOK
  <2>2. ~recovering /\ UNCHANGED <<disk, recovering>>
    BY <1>4, <2>1 DEF IInv, Flags, modify
  <2>3. v # NotCached
    BY LogAssumption
  <2>4. Visible' = [Visible EXCEPT ![c] = v]
    BY <1>1, <1>4, <2>2, <2>3 DEF Visible, bread, modify
  <2>5. Recovered' = Recovered
    BY <1>2, <2>2
  <2>6. A!Write(p, c, v)
    BY <2>1, <2>2, <2>4, <2>5 DEF A!Write
  <2>7. QED BY <2>6 DEF A!Next
<1>5. QED BY <1>3, <1>4

\* write_head is the commit point: the header makes the whole group durable.
LEMMA RefineCommitPoint ==
  ASSUME IInv, IInv', write_head
  PROVE  A!Commit
<1> USE DEF disk, loghdr, procs, control
<1>1. /\ UNCHANGED <<home, dlog, cache, n, block, pc, recovering>>
      /\ phase = "write_head" /\ ~recovering
      /\ n \in 1..LOGSIZE
      /\ hn' = n
      /\ \A i \in 1..n : hblock'[i] = block[i]
  BY LogAssumption DEF IInv, TypeOK, LogSlot, Flags, Loops, write_head, WriteHead
<1>2. ActiveProcs = {} /\ ActiveProcs' = {}
  BY <1>1 DEF IInv, Flags, ActiveProcs
<1>3. Visible' = Visible
  BY <1>1 DEF Visible, bread
<1>4. \A b \in Block : Recovered'[b] = Visible[b]
  <2>1. ASSUME NEW i \in 1..n
        PROVE  Recovered'[block[i]] = Visible[block[i]]
    <3>1. Recovered'[block[i]] = dlog[i]
      BY <1>1, RecoveredAtNext
    <3>2. dlog[i] = cache[block[i]] /\ block[i] \in Block
      BY <1>1 DEF IInv, Progress, LogEntries
    <3>3. InLog(block[i])
      BY <1>1 DEF InLog
    <3>4. cache[block[i]] # NotCached
      BY <3>2, <3>3 DEF IInv, Buffers
    <3>5. QED BY <3>1, <3>2, <3>4 DEF Visible, bread
  <2>2. ASSUME NEW b \in Block, \A i \in 1..n : block[i] # b
        PROVE  Recovered'[b] = Visible[b]
    <3>1. Recovered'[b] = home'[b]
      BY <1>1, <2>2, RecoveredAtNext
    <3>2. ~InLog(b)
      BY <2>2 DEF InLog
    <3>3. ~Locked(b)
      BY <1>1, NobodyHolds
    <3>4. QED BY <1>1, <3>1, <3>2, <3>3, CleanReads
  <2>3. QED BY <2>1, <2>2
<1>5. Recovered' = Visible
  BY <1>4 DEF Recovered, Visible
<1>6. QED
  BY <1>1, <1>2, <1>3, <1>5 DEF A!Commit

\* Installing a block changes neither what readers see nor what a crash leaves.
LEMMA RefineInstall ==
  ASSUME IInv, IInv', install_trans
  PROVE  UNCHANGED A!avars
<1> USE DEF disk, loghdr, procs, control
<1> DEFINE c == block[tail]
<1>1. /\ UNCHANGED <<dlog, hn, hblock, n, block, pc, recovering>>
      /\ phase = "install"
      /\ tail \in 1..n /\ n = hn /\ hblock[tail] = c
      /\ c \in Block
      /\ home \in [Block -> Val] /\ dlog \in [LogSlot -> Val]
      /\ cache \in [Block -> Val \cup {NotCached}]
      /\ home' = [home EXCEPT ![c] = dlog[tail]]
      /\ cache' = [cache EXCEPT ![c] = dlog[tail]]
      /\ tail \in LogSlot
  BY DEF IInv, TypeOK, LogSlot, Loops, LogEntries, Header, install_trans
<1>2. ActiveProcs' = ActiveProcs
  BY <1>1 DEF ActiveProcs
<1>3. Recovered' = Recovered
  <2>1. ASSUME NEW b \in Block
        PROVE  Recovered'[b] = Recovered[b]
    <3>1. CASE \E i \in 1..hn : hblock[i] = b
      BY <1>1, <3>1, RecoveredAt, RecoveredAtNext
    <3>2. CASE \A i \in 1..hn : hblock[i] # b
      <4>1. b # c
        BY <1>1, <3>2
      <4>2. QED BY <1>1, <3>2, <4>1, RecoveredAt, RecoveredAtNext
    <3>3. QED BY <3>1, <3>2
  <2>2. QED BY <2>1 DEF Recovered
<1>4. ~recovering => Visible' = Visible
  <2> SUFFICES ASSUME ~recovering
               PROVE  Visible' = Visible
    OBVIOUS
  <2>1. cache[c] = dlog[tail]
    BY <1>1 DEF IInv, Progress
  <2>2. dlog[tail] # NotCached
    BY <1>1, LogAssumption
  <2>3. \A b \in Block : bread(b)' = bread(b)
    BY <1>1, <2>1, <2>2 DEF bread
  <2>4. QED BY <2>3 DEF Visible
<1>5. QED BY <1>1, <1>2, <1>3, <1>4, StutterStep DEF Current

\* Erasing the header changes nothing that readers or recovery can see.
LEMMA RefineErase ==
  ASSUME IInv, IInv', erase
  PROVE  UNCHANGED A!avars
<1> USE DEF disk, loghdr, procs, control
<1>1. /\ UNCHANGED <<home, dlog, cache, pc>>
      /\ phase = "erase" /\ hn' = 0 /\ recovering' = FALSE
      /\ home \in [Block -> Val]
  BY DEF IInv, TypeOK, erase, WriteHead
<1>2. ActiveProcs' = ActiveProcs
  BY <1>1 DEF ActiveProcs
<1>3. Recovered' = home
  BY <1>1, RecoveredEmptyNext
<1>4. \A b \in Block : Recovered[b] = home[b]
  <2>1. ASSUME NEW i \in 1..hn
        PROVE  Recovered[hblock[i]] = home[hblock[i]]
    BY <1>1, RecoveredAt DEF IInv, Header, Progress
  <2>2. QED BY <2>1, RecoveredAt
<1>5. Recovered = home
  BY <1>1, <1>4 DEF Recovered
<1>6. Visible' = Visible /\ Visible = home
  <2>1. \A b \in Block : ~InLog(b) /\ ~Locked(b)
    BY <1>1, NobodyHolds DEF InLog
  <2>2. QED BY <1>1, <2>1, AllClean DEF Visible, bread
<1>7. QED BY <1>1, <1>2, <1>3, <1>5, <1>6, StutterStep DEF Current

\* The remaining steps of commit() and boot stutter.
LEMMA RefineQuietSteps ==
  ASSUME IInv, IInv', commit \/ write_log \/ read_head
  PROVE  UNCHANGED A!avars
<1> USE DEF disk, loghdr, procs, control
<1>1. ActiveProcs' = ActiveProcs
  BY DEF commit, write_log, read_head, ActiveProcs
<1>2. CASE commit \/ read_head
  <2>1. UNCHANGED <<disk, cache, recovering>>
    BY <1>2 DEF commit, read_head
  <2>2. QED
    BY <1>1, <2>1, StutterStep DEF Current, Recovered, HeadSlots, Visible, bread
<1>3. CASE write_log
  <2>1. /\ UNCHANGED <<home, hn, hblock, recovering>>
        /\ hn = 0 /\ ~recovering
        /\ tail \in 1..n /\ block[tail] \in Block
        /\ cache \in [Block -> Val \cup {NotCached}]
        /\ phase = "write_log"
    BY <1>3 DEF IInv, TypeOK, LogSlot, Flags, Header, Loops, LogEntries, write_log
  <2>2. InLog(block[tail])
    BY <2>1 DEF InLog
  <2>3. cache[block[tail]] # NotCached
    BY <2>1, <2>2 DEF IInv, Buffers
  <2>4. cache' = cache
    BY <1>3, <2>1, <2>3 DEF write_log, bread
  <2>5. Recovered' = Recovered
    BY <2>1, RecoveredEmpty, RecoveredEmptyNext
  <2>6. Visible' = Visible
    BY <2>1, <2>4 DEF Visible, bread
  <2>7. QED BY <1>1, <2>1, <2>5, <2>6, StutterStep DEF Current
<1>4. QED BY <1>2, <1>3

\* A crash is AtomicDisk's Crash: readers go back to the durable contents.
LEMMA RefineCrash ==
  ASSUME Crash
  PROVE  A!Crash
<1>1. ActiveProcs' = {}
  BY DEF Crash, ActiveProcs, InOp
<1>2. recovering' = TRUE /\ Recovered' = Recovered
  BY DEF Crash, disk, Recovered, HeadSlots
<1>3. QED BY <1>1, <1>2 DEF A!Crash

\* The log implements AtomicDisk: under any interleaving of operations and any
\* crashes, groups of whole operations become durable at once, only while no
\* operation runs, and a crash loses exactly what came after (log.c).
THEOREM Refinement == Spec => ImplementsAtomicDisk
<1>1. Init => A!Init
  <2> SUFFICES ASSUME Init
               PROVE  A!Init
    OBVIOUS
  <2>1. ActiveProcs = {} /\ recovering /\ hn = 0 /\ home \in [Block -> Val]
    BY DEF Init, ActiveProcs, InOp
  <2>2. Recovered = home
    BY <2>1, InitIInv, RecoveredEmpty
  <2>3. QED BY <2>1, <2>2 DEF A!Init
<1>2. IInv /\ IInv' /\ [Next]_vars => [A!Next]_(A!avars)
  <2> SUFFICES ASSUME IInv, IInv', [Next]_vars
               PROVE  [A!Next]_(A!avars)
    OBVIOUS
  <2>1. CASE UNCHANGED vars
    BY <2>1, StutterStep DEF vars, disk, loghdr, procs, control, ActiveProcs,
                             Current, Recovered, HeadSlots, Visible, bread
  <2>2. CASE write_head
    BY <2>2, RefineCommitPoint DEF A!Next
  <2>3. CASE Crash
    BY <2>3, RefineCrash DEF A!Next
  <2>4. CASE install_trans \/ erase \/ commit \/ write_log \/ read_head
    BY <2>4, RefineInstall, RefineErase, RefineQuietSteps
  <2>5. CASE \E p \in Proc : \/ begin_op(p) \/ log_write(p) \/ brelse(p)
                             \/ end_op(p) \/ finish(p)
    BY <2>5, RefineOps
  <2>6. CASE \/ \E b \in Block : Fetch(b) \/ Recycle(b)
             \/ \E p \in Proc, b \in Block, v \in Val : modify(p, b, v)
    BY <2>6, RefineBuffers
  <2>7. QED BY <2>1, <2>2, <2>3, <2>4, <2>5, <2>6 DEF Next
<1>3. QED
  BY Invariance, <1>1, <1>2, PTL DEF Spec, A!Spec, ImplementsAtomicDisk
=============================================================================
