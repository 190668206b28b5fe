---------------------------- MODULE DeviceProofs ----------------------------
(***************************************************************************)
(* Proofs about the devices.  Disk, the buffer cache and the disk driver:  *)
(* a process that has a buffer sees the latest contents of the block, and  *)
(* descriptors are neither lost nor used twice, for any number of          *)
(* processes, blocks, buffers and descriptors.  Console, for any number of *)
(* processes, any load and any size of the buffers: no CPU waits for a     *)
(* lock of the process it interrupted, no sleeper misses its wakeup, and   *)
(* the input ring with its three wrapping indices is the line discipline   *)
(* of Lines.                                                               *)
(***************************************************************************)
EXTENDS Disk, Console, RingLemmas, FiniteSetTheorems

-----------------------------------------------------------------------------
(***************************************************************************)
(* Disk: the inductive invariant, in parts.                                *)
(***************************************************************************)

DiskPCs == {"idle", "lock", "rw", "wait", "have", "unpin", "release", "relse"}
Holding == {"rw", "wait", "have", "unpin", "release"}
Desc == 0 .. NUM - 1

BufRec == [blk : Block \cup {NoBlock}, valid : BOOLEAN, disk : BOOLEAN, refcnt : Nat,
           pins : {0, 1}, data : Nat, holder : DProc \cup {NoBlock}]
ProcRec == [pc : DiskPCs, b : 0 .. NBUF, job : {NoBlock, "read", "write", "pin", "flush"},
            write : BOOLEAN, idx : Nat, asleep : BOOLEAN]
InfoRec == [b : 0 .. NBUF, ids : Seq(Desc), write : BOOLEAN, status : {0, 255}]

DiskType ==
  /\ buf \in [Buf -> BufRec]
  /\ lru \in [Buf -> Buf]
  /\ pr \in [DProc -> ProcRec]
  /\ dfree \subseteq Desc
  /\ info \in [Desc -> InfoRec]
  /\ avail \in Seq(Desc)
  /\ used \in Seq(Desc)
  /\ dev \in [busy : SUBSET Desc, irq : BOOLEAN]
  /\ vlock \in BOOLEAN
  /\ disk \in [Block -> Nat]
  /\ latest \in [Block -> Nat]

\* Every buffer is in the list.
Listed == \A b \in Buf : \E i \in Buf : lru[i] = b

\* One copy of each block.
OneBuffer == \A b, c \in Buf : buf[b].blk = buf[c].blk /\ buf[b].blk # NoBlock => b = c

\* A process in a call has a buffer, which is for some block.
HasBuffer == \A p \in DProc : pr[p].pc # "idle" => pr[p].b \in Buf /\ B(p).blk \in Block

Holders ==
  \A b \in Buf : \A p \in DProc : buf[b].holder = p <=> pr[p].b = b /\ pr[p].pc \in Holding

\* A reference for each process in a call and one for a pin.
Users(b) == {p \in DProc : pr[p].pc # "idle" /\ pr[p].b = b}
Refs == \A b \in Buf : buf[b].refcnt = buf[b].pins + Cardinality(Users(b))

Pinned == {b \in Buf : buf[b].pins > 0}
FewPins == Cardinality(Pinned) <= MaxPin

\* Contents that are valid are the latest.
Contents ==
  \A b \in Buf : /\ buf[b].valid => buf[b].blk \in Block /\ buf[b].data = latest[buf[b].blk]
                 /\ buf[b].pins = 1 => buf[b].valid

\* What a process knows about the buffer it holds.
HeldBy(p) ==
  /\ pr[p].write => pr[p].pc \in {"rw", "wait"}
  /\ pr[p].pc \in {"have", "unpin", "release"} => B(p).valid
  /\ pr[p].pc \in {"rw", "wait"} => (B(p).valid <=> pr[p].write)
  /\ pr[p].pc \in {"rw", "wait"} /\ pr[p].write /\ pr[p].job = "flush" => B(p).pins = 1
  /\ pr[p].pc = "unpin" => B(p).pins = 1
Held == \A p \in DProc : HeldBy(p)

\* A block differs from its copy only while that is pinned or being written.
Dirty(b) == buf[b].pins = 1 \/ \E p \in DProc : pr[p].b = b /\ pr[p].write
Clean == \A k \in Block : disk[k] = latest[k] \/ \E b \in Buf : buf[b].blk = k /\ Dirty(b)

\* The device is done with the request of p.
Moved(p) == pr[p].pc = "wait" /\ (~B(p).disk \/ pr[p].idx \in ToSet(used))
Transferred ==
  \A p \in DProc :
    /\ Moved(p) /\ ~pr[p].write => B(p).data = latest[B(p).blk]
    /\ Moved(p) /\ pr[p].write => disk[B(p).blk] = latest[B(p).blk]
    /\ pr[p].pc = "unpin" => disk[B(p).blk] = latest[B(p).blk]

CacheInv == /\ Listed /\ OneBuffer /\ HasBuffer /\ Holders /\ Refs /\ FewPins
            /\ Contents /\ Held /\ Clean /\ Transferred
-----------------------------------------------------------------------------
Waiting == {p \in DProc : pr[p].pc = "wait"}
Chain(p) == ToSet(info[pr[p].idx].ids)

\* A waiting process has a chain of three descriptors that are not free.
ChainOf(p) ==
  LET c == info[pr[p].idx] IN
  /\ pr[p].idx \in Desc
  /\ c.b = pr[p].b /\ c.write = pr[p].write
  /\ Len(c.ids) = 3 /\ c.ids[1] = pr[p].idx
  /\ c.ids[1] # c.ids[2] /\ c.ids[2] # c.ids[3] /\ c.ids[1] # c.ids[3]
  /\ Chain(p) \cap dfree = {}
Chains == \A p \in Waiting : ChainOf(p)

\* No descriptor is in two chains.
Apart == \A p, q \in Waiting : p # q => Chain(p) \cap Chain(q) = {}

\* No descriptor is lost.
Kept == \A d \in Desc : d \in dfree \/ \E p \in Waiting : d \in Chain(p)
Counted == Cardinality(dfree) + 3 * Cardinality(Waiting) = NUM

\* What the rings and the device have in hand is the chain of a process whose
\* buffer is marked.
InFlight == {p \in Waiting : B(p).disk}
Rings == \A d \in dev.busy \cup ToSet(avail) \cup ToSet(used) : \E p \in InFlight : pr[p].idx = d

NoTwice(s) == \A i, j \in 1 .. Len(s) : s[i] = s[j] => i = j
Once ==
  /\ NoTwice(avail) /\ NoTwice(used)
  /\ dev.busy \cap ToSet(avail) = {} /\ dev.busy \cap ToSet(used) = {} /\ ToSet(avail) \cap ToSet(used) = {}
Status == \A d \in ToSet(used) : info[d].status = 0
Load == Len(avail) + Cardinality(dev.busy) + Len(used) = Cardinality(InFlight)

DriverInv == ~dpanic /\ Chains /\ Apart /\ Kept /\ Counted /\ Rings /\ Once /\ Status /\ Load

IInv == DiskType /\ CacheInv /\ DriverInv
-----------------------------------------------------------------------------
\* Where a process is and what it has; only whether it sleeps may change.
SameProc(p) == /\ pr'[p].pc = pr[p].pc /\ pr'[p].b = pr[p].b /\ pr'[p].job = pr[p].job
               /\ pr'[p].write = pr[p].write /\ pr'[p].idx = pr[p].idx
OtherProcs(p) == \A q \in DProc : q # p => SameProc(q)
OtherBufs(b) == \A c \in Buf : c # b => buf'[c] = buf[c]

\* What a step makes of the state of one process, and of one buffer.
ProcIs(p, pc, b, job, wr, idx) ==
  /\ pr'[p].pc = pc /\ pr'[p].b = b /\ pr'[p].job = job /\ pr'[p].write = wr /\ pr'[p].idx = idx
BufIs(b, blk, valid, dsk, refcnt, pins, data, holder) ==
  /\ buf'[b].blk = blk /\ buf'[b].valid = valid /\ buf'[b].disk = dsk /\ buf'[b].refcnt = refcnt
  /\ buf'[b].pins = pins /\ buf'[b].data = data /\ buf'[b].holder = holder

\* A step that leaves the driver alone and no waiting process or its buffer
\* differently placed.
LEMMA DriverFrame ==
  ASSUME IInv, DiskType', UNCHANGED <<dfree, info, avail, used, dpanic>>, dev'.busy = dev.busy,
         \A q \in DProc : pr'[q].pc = "wait" <=> pr[q].pc = "wait",
         \A q \in DProc : pr[q].pc = "wait" =>
           pr'[q].b = pr[q].b /\ pr'[q].write = pr[q].write /\ pr'[q].idx = pr[q].idx /\ B(q)'.disk = B(q).disk
  PROVE  DriverInv'
<1>1. Waiting' = Waiting /\ InFlight' = InFlight
  BY DEF Waiting, InFlight, B
<1>2. \A q \in Waiting : pr'[q].b = pr[q].b /\ pr'[q].write = pr[q].write /\ pr'[q].idx = pr[q].idx
  BY DEF Waiting
<1>3. \A q \in Waiting : Chain(q)' = Chain(q)
  BY <1>2 DEF Chain
<1>4. ~dpanic' /\ Counted' /\ Once' /\ Status' /\ Load'
  BY <1>1 DEF IInv, DriverInv, Counted, Once, Status, Load, NoTwice
<1>5. Chains'
  BY <1>1, <1>2, <1>3 DEF IInv, DriverInv, Chains, ChainOf
<1>6. Apart' /\ Kept'
  BY <1>1, <1>3 DEF IInv, DriverInv, Apart, Kept
<1>7. Rings'
  BY <1>1, <1>2 DEF IInv, DriverInv, Rings, InFlight
<1> QED
  BY <1>4, <1>5, <1>6, <1>7 DEF DriverInv

\* A step that changes only who sleeps and what the driver has in hand.
LEMMA CacheFrame ==
  ASSUME IInv, UNCHANGED <<buf, lru, disk, latest, used>>, \A q \in DProc : SameProc(q)
  PROVE  CacheInv'
<1>1. Listed' /\ OneBuffer'
  BY DEF IInv, CacheInv, Listed, OneBuffer
<1>2. \A q \in DProc : B(q)' = B(q)
  BY DEF SameProc, B
<1>3. HasBuffer' /\ Holders'
  BY <1>2 DEF IInv, CacheInv, HasBuffer, Holders, SameProc
<1>4. \A c \in Buf : Users(c)' = Users(c)
  BY DEF Users, SameProc
<1>5. Refs' /\ FewPins' /\ Contents'
  BY <1>4 DEF IInv, CacheInv, Refs, FewPins, Contents, Pinned
<1>6. Held'
  BY <1>2 DEF IInv, CacheInv, Held, HeldBy, SameProc
<1>7. Clean'
  BY DEF IInv, CacheInv, Clean, Dirty, SameProc
<1>8. Transferred'
  BY <1>2 DEF IInv, CacheInv, Transferred, Moved, SameProc
<1> QED
  BY <1>1, <1>3, <1>5, <1>6, <1>7, <1>8 DEF CacheInv

\* Wakeups change only who sleeps.
LEMMA WakeupSame ==
  ASSUME DiskType, NEW pc, NEW b, NEW f, f \in [DProc -> ProcRec]
  PROVE  /\ wakeup(f, pc, b) \in [DProc -> ProcRec]
         /\ \A q \in DProc : /\ wakeup(f, pc, b)[q].pc = f[q].pc
                            /\ wakeup(f, pc, b)[q].b = f[q].b
                            /\ wakeup(f, pc, b)[q].job = f[q].job
                            /\ wakeup(f, pc, b)[q].write = f[q].write
                            /\ wakeup(f, pc, b)[q].idx = f[q].idx
  BY DEF wakeup, ProcRec
-----------------------------------------------------------------------------
LEMMA UsersSame ==
  ASSUME NEW p \in DProc, OtherProcs(p), pr'[p].b = pr[p].b, pr[p].pc # "idle", pr'[p].pc # "idle"
  PROVE  \A c \in Buf : Users(c)' = Users(c)
  BY DEF Users, OtherProcs, SameProc

\* A process that holds a buffer is the only one.
LEMMA OneHolder ==
  ASSUME IInv, NEW p \in DProc, pr[p].pc \in Holding
  PROVE  /\ pr[p].b \in Buf /\ B(p).holder = p /\ B(p).blk \in Block
         /\ \A q \in DProc : q # p /\ pr[q].pc \in Holding => pr[q].b # pr[p].b
  BY DEF IInv, CacheInv, HasBuffer, Holders, Holding, B

LEMMA FiniteBuf == IsFiniteSet(Buf)
<1>1. 1 \in Int /\ NBUF \in Int
  BY BufAssumption
<1> QED
  BY <1>1, FS_Interval DEF Buf

LEMMA FinitePins == IsFiniteSet(Pinned) /\ Cardinality(Pinned) \in Nat
<1>1. IsFiniteSet(Pinned)
  BY FiniteBuf, FS_Subset DEF Pinned
<1> QED
  BY <1>1, FS_CardinalityType

LEMMA FiniteUsers == \A b : IsFiniteSet(Users(b)) /\ Cardinality(Users(b)) \in Nat
<1> SUFFICES ASSUME NEW b PROVE IsFiniteSet(Users(b)) /\ Cardinality(Users(b)) \in Nat
  OBVIOUS
<1>1. IsFiniteSet(Users(b))
  BY BufAssumption, FS_Subset DEF Users
<1> QED
  BY <1>1, FS_CardinalityType

\* No buffer is pinned that was not.
LEMMA FewPinsKept ==
  ASSUME FewPins, \A c \in Buf : buf'[c].pins > 0 => buf[c].pins > 0
  PROVE  FewPins'
<1>1. Pinned' \subseteq Pinned
  BY DEF Pinned
<1>2. Cardinality(Pinned') <= Cardinality(Pinned) /\ Cardinality(Pinned') \in Nat
  BY <1>1, FinitePins, FS_Subset, FS_CardinalityType
<1> QED
  BY <1>2, FinitePins, BufAssumption DEF FewPins

LEMMA UnpinStep ==
  ASSUME IInv, NEW p \in DProc, bunpin(p)
  PROVE  IInv'
<1> DEFINE b == pr[p].b
           x == buf[b]
<1>1. /\ DiskType /\ Listed /\ OneBuffer /\ HasBuffer /\ Holders /\ Refs /\ FewPins
      /\ Contents /\ Held /\ Clean /\ Transferred
  BY DEF IInv, CacheInv
<1>2. pr[p].pc = "unpin" /\ b \in Buf /\ x.pins = 1 /\ x.refcnt - 1 \in Nat
  BY <1>1, FiniteUsers DEF bunpin, At, HasBuffer, Held, HeldBy, Refs, B
<1>3. OtherProcs(p) /\ ProcIs(p, "release", b, pr[p].job, pr[p].write, pr[p].idx)
  BY <1>1 DEF bunpin, OtherProcs, SameProc, DiskType, ProcIs, ProcRec
<1>4. OtherBufs(b) /\ BufIs(b, x.blk, x.valid, x.disk, x.refcnt - 1, 0, x.data, x.holder)
  BY <1>1, <1>2 DEF bunpin, OtherBufs, DiskType, BufIs, BufRec, B
<1>5. UNCHANGED <<lru, dfree, info, avail, used, dev, vlock, disk, latest, dpanic>>
  BY DEF bunpin
<1>6. \A c \in Buf : Users(c)' = Users(c)
  BY <1>2, <1>3, UsersSame DEF ProcIs
<1>7. DiskType'
  <2>1. pr' \in [DProc -> ProcRec]
    <3>1. pr'[p] \in ProcRec /\ pr' = [pr EXCEPT ![p] = pr'[p]]
      BY <1>1, <1>2 DEF bunpin, DiskType, ProcRec, DiskPCs
    <3> QED
      BY <1>1, <3>1 DEF DiskType
  <2>2. buf' \in [Buf -> BufRec]
    <3>1. x \in BufRec /\ buf' = [buf EXCEPT ![b] = buf'[b]] /\ buf'[b] = [x EXCEPT !.refcnt = x.refcnt - 1, !.pins = 0]
      BY <1>1, <1>2 DEF bunpin, DiskType, B
    <3> HIDE DEF b, x
    <3>2. buf'[b] \in BufRec
      BY <1>2, <3>1 DEF BufRec
    <3> QED
      BY <1>1, <1>2, <3>1, <3>2 DEF DiskType
  <2> QED
    BY <1>1, <1>5, <2>1, <2>2 DEF DiskType
<1>8. \A q \in DProc : q # p /\ pr[q].pc \in Holding => pr[q].b # b
  BY <1>2, OneHolder DEF Holding
<1>9. Listed' /\ OneBuffer'
  BY <1>1, <1>2, <1>4, <1>5 DEF Listed, OneBuffer, OtherBufs, BufIs
<1>10. HasBuffer' /\ Holders'
  BY <1>1, <1>2, <1>3, <1>4 DEF HasBuffer, Holders, Holding, OtherProcs, OtherBufs, SameProc, B, BufIs, ProcIs
<1>11. Refs'
  BY <1>1, <1>2, <1>4, <1>6, FiniteUsers DEF Refs, OtherBufs, BufIs
<1>12. FewPins'
  BY <1>1, <1>2, <1>4, FewPinsKept DEF OtherBufs, BufIs
<1>13. Contents'
  BY <1>1, <1>2, <1>4, <1>5 DEF Contents, OtherBufs, BufIs
<1>14. Held'
  <2>1. \A q \in DProc : q # p /\ pr[q].pc \in Holding => B(q)' = B(q)
    BY <1>1, <1>3, <1>4, <1>8 DEF HasBuffer, Holding, OtherProcs, OtherBufs, SameProc, B
  <2>2. \A q \in DProc : q # p => HeldBy(q)'
    BY <1>1, <1>3, <2>1 DEF Held, HeldBy, Holding, OtherProcs, SameProc
  <2>3. HeldBy(p)'
    BY <1>1, <1>2, <1>3, <1>4 DEF Held, HeldBy, ProcIs, BufIs, B
  <2> QED
    BY <2>2, <2>3 DEF Held
<1>15. Clean'
  BY <1>1, <1>2, <1>3, <1>4, <1>5 DEF Clean, Dirty, Transferred, Held, HeldBy, OtherProcs, OtherBufs, SameProc, B, BufIs, ProcIs
<1>16. Transferred'
  BY <1>1, <1>2, <1>3, <1>4, <1>5, <1>8 DEF Transferred, Moved, Holding, HasBuffer, OtherProcs, OtherBufs, SameProc, B, BufIs, ProcIs
<1>17. DriverInv'
  <2>1. \A q \in DProc : pr'[q].pc = "wait" <=> pr[q].pc = "wait"
    BY <1>2, <1>3 DEF OtherProcs, SameProc, ProcIs
  <2>2. \A q \in DProc : pr[q].pc = "wait" =>
           pr'[q].b = pr[q].b /\ pr'[q].write = pr[q].write /\ pr'[q].idx = pr[q].idx /\ B(q)'.disk = B(q).disk
    BY <1>1, <1>2, <1>3, <1>4 DEF HasBuffer, OtherProcs, OtherBufs, SameProc, B, BufIs, ProcIs
  <2> QED
    BY <1>5, <1>7, <2>1, <2>2, DriverFrame
<1> QED
  BY <1>7, <1>9, <1>10, <1>11, <1>12, <1>13, <1>14, <1>15, <1>16, <1>17 DEF IInv, CacheInv

LEMMA FlushStep ==
  ASSUME IInv, NEW p \in DProc, flush(p)
  PROVE  IInv'
<1> DEFINE b == pr[p].b
           x == buf[b]
<1>1. /\ DiskType /\ Listed /\ OneBuffer /\ HasBuffer /\ Holders /\ Refs /\ FewPins
      /\ Contents /\ Held /\ Clean /\ Transferred
  BY DEF IInv, CacheInv
<1>2. pr[p].pc = "have" /\ b \in Buf /\ x.pins = 1 /\ x.valid
  BY <1>1 DEF flush, At, HasBuffer, Held, HeldBy, Refs, B, DiskType, BufRec
<1>3. OtherProcs(p) /\ ProcIs(p, "rw", b, pr[p].job, TRUE, pr[p].idx)
  BY <1>1 DEF flush, OtherProcs, SameProc, DiskType, ProcIs, ProcRec
<1>4. OtherBufs(b) /\ BufIs(b, x.blk, x.valid, x.disk, x.refcnt, x.pins, x.data, x.holder)
  BY <1>1, <1>2 DEF flush, OtherBufs, DiskType, BufIs, BufRec, B
<1>5. UNCHANGED <<lru, dfree, info, avail, used, dev, vlock, disk, latest, dpanic>>
  BY DEF flush
<1>6. \A c \in Buf : Users(c)' = Users(c)
  BY <1>2, <1>3, UsersSame DEF ProcIs
<1>7. DiskType'
  <2>1. pr' \in [DProc -> ProcRec]
    <3>1. pr'[p] \in ProcRec /\ pr' = [pr EXCEPT ![p] = pr'[p]]
      BY <1>1, <1>2 DEF flush, DiskType, ProcRec, DiskPCs
    <3> QED
      BY <1>1, <3>1 DEF DiskType
  <2>2. buf' \in [Buf -> BufRec]
    BY <1>1 DEF flush, DiskType
  <2> QED
    BY <1>1, <1>5, <2>1, <2>2 DEF DiskType
<1>8. \A q \in DProc : q # p /\ pr[q].pc \in Holding => pr[q].b # b
  BY <1>2, OneHolder DEF Holding
<1>9. Listed' /\ OneBuffer'
  BY <1>1, <1>2, <1>4, <1>5 DEF Listed, OneBuffer, OtherBufs, BufIs
<1>10. HasBuffer' /\ Holders'
  BY <1>1, <1>2, <1>3, <1>4 DEF HasBuffer, Holders, Holding, OtherProcs, OtherBufs, SameProc, B, BufIs, ProcIs
<1>11. Refs'
  BY <1>1, <1>2, <1>4, <1>6, FiniteUsers DEF Refs, OtherBufs, BufIs
<1>12. FewPins'
  BY <1>1, <1>2, <1>4, FewPinsKept DEF OtherBufs, BufIs
<1>13. Contents'
  BY <1>1, <1>2, <1>4, <1>5 DEF Contents, OtherBufs, BufIs
<1>14. Held'
  <2>1. \A q \in DProc : q # p /\ pr[q].pc \in Holding => B(q)' = B(q)
    BY <1>1, <1>3, <1>4, <1>8 DEF HasBuffer, Holding, OtherProcs, OtherBufs, SameProc, B
  <2>2. \A q \in DProc : q # p => HeldBy(q)'
    BY <1>1, <1>3, <2>1 DEF Held, HeldBy, Holding, OtherProcs, SameProc
  <2>3. HeldBy(p)'
    BY <1>1, <1>2, <1>3, <1>4 DEF Held, HeldBy, ProcIs, BufIs, B
  <2> QED
    BY <2>2, <2>3 DEF Held
<1>15. Clean'
  BY <1>1, <1>2, <1>3, <1>4, <1>5 DEF Clean, Dirty, Transferred, Held, HeldBy, OtherProcs, OtherBufs, SameProc, B, BufIs, ProcIs
<1>16. Transferred'
  BY <1>1, <1>2, <1>3, <1>4, <1>5, <1>8 DEF Transferred, Moved, Holding, HasBuffer, OtherProcs, OtherBufs, SameProc, B, BufIs, ProcIs
<1>17. DriverInv'
  <2>1. \A q \in DProc : pr'[q].pc = "wait" <=> pr[q].pc = "wait"
    BY <1>2, <1>3 DEF OtherProcs, SameProc, ProcIs
  <2>2. \A q \in DProc : pr[q].pc = "wait" =>
           pr'[q].b = pr[q].b /\ pr'[q].write = pr[q].write /\ pr'[q].idx = pr[q].idx /\ B(q)'.disk = B(q).disk
    BY <1>1, <1>2, <1>3, <1>4 DEF HasBuffer, OtherProcs, OtherBufs, SameProc, B, BufIs, ProcIs
  <2> QED
    BY <1>5, <1>7, <2>1, <2>2, DriverFrame
<1> QED
  BY <1>7, <1>9, <1>10, <1>11, <1>12, <1>13, <1>14, <1>15, <1>16, <1>17 DEF IInv, CacheInv

LEMMA WriteStep ==
  ASSUME IInv, NEW p \in DProc, bwrite(p)
  PROVE  IInv'
<1> DEFINE b == pr[p].b
           x == buf[b]
<1>1. /\ DiskType /\ Listed /\ OneBuffer /\ HasBuffer /\ Holders /\ Refs /\ FewPins
      /\ Contents /\ Held /\ Clean /\ Transferred
  BY DEF IInv, CacheInv
<1>2. pr[p].pc = "have" /\ pr[p].job = "write" /\ b \in Buf /\ x.valid /\ x.blk \in Block
  BY <1>1 DEF bwrite, At, HasBuffer, Held, HeldBy, Refs, B
<1>3. OtherProcs(p) /\ ProcIs(p, "rw", b, pr[p].job, TRUE, pr[p].idx)
  BY <1>1 DEF bwrite, OtherProcs, SameProc, DiskType, ProcIs, ProcRec
<1>4. OtherBufs(b) /\ BufIs(b, x.blk, x.valid, x.disk, x.refcnt, x.pins, x.data + 1, x.holder)
  BY <1>1, <1>2 DEF bwrite, OtherBufs, DiskType, BufIs, BufRec, B
<1>5. UNCHANGED <<lru, dfree, info, avail, used, dev, vlock, disk, dpanic>>
  BY DEF bwrite
<1>6. /\ latest' \in [Block -> Nat] /\ latest'[x.blk] = latest[x.blk] + 1
      /\ \A k \in Block : k # x.blk => latest'[k] = latest[k]
  BY <1>1, <1>2 DEF bwrite, B, DiskType
<1>7. \A c \in Buf : Users(c)' = Users(c)
  BY <1>2, <1>3, UsersSame DEF ProcIs
<1>8. DiskType'
  <2>1. pr' \in [DProc -> ProcRec]
    <3>1. pr'[p] \in ProcRec /\ pr' = [pr EXCEPT ![p] = pr'[p]]
      BY <1>1, <1>2 DEF bwrite, DiskType, ProcRec, DiskPCs
    <3> QED
      BY <1>1, <3>1 DEF DiskType
  <2>2. buf' \in [Buf -> BufRec]
    <3>1. x \in BufRec /\ buf' = [buf EXCEPT ![b] = buf'[b]] /\ buf'[b] = [x EXCEPT !.data = x.data + 1]
      BY <1>1, <1>2 DEF bwrite, DiskType, B
    <3> HIDE DEF b, x
    <3>2. buf'[b] \in BufRec
      BY <1>2, <3>1 DEF BufRec
    <3> QED
      BY <1>1, <1>2, <3>1, <3>2 DEF DiskType
  <2> QED
    BY <1>6, <1>1, <1>5, <2>1, <2>2 DEF DiskType
<1>9. \A q \in DProc : q # p /\ pr[q].pc \in Holding => pr[q].b # b
  BY <1>2, OneHolder DEF Holding
<1>10. Listed' /\ OneBuffer'
  BY <1>1, <1>2, <1>4, <1>5 DEF Listed, OneBuffer, OtherBufs, BufIs
<1>11. HasBuffer' /\ Holders'
  BY <1>1, <1>2, <1>3, <1>4 DEF HasBuffer, Holders, Holding, OtherProcs, OtherBufs, SameProc, B, BufIs, ProcIs
<1>12. Refs'
  BY <1>1, <1>2, <1>4, <1>7, FiniteUsers DEF Refs, OtherBufs, BufIs
<1>13. FewPins'
  BY <1>1, <1>2, <1>4, FewPinsKept DEF OtherBufs, BufIs
<1>14. Contents'
  <2>1. x.data = latest[x.blk]
    BY <1>1, <1>2 DEF Contents
  <2>2. \A c \in Buf : c # b /\ buf[c].valid => buf[c].blk \in Block /\ buf[c].blk # x.blk
    BY <1>1, <1>2, NameAssumption DEF Contents, OneBuffer, NoBlock
  <2>3. buf'[b].blk = x.blk /\ buf'[b].data = latest'[x.blk] /\ buf'[b].valid
    BY <1>2, <1>4, <1>6, <2>1 DEF BufIs
  <2>4. \A c \in Buf : c # b => buf'[c] = buf[c] /\ (buf[c].valid => latest'[buf[c].blk] = latest[buf[c].blk])
    BY <1>4, <1>6, <2>2 DEF OtherBufs
  <2> QED
    BY <1>1, <1>2, <2>3, <2>4 DEF Contents
<1>15. Held'
  <2>1. \A q \in DProc : q # p /\ pr[q].pc \in Holding => B(q)' = B(q)
    BY <1>1, <1>3, <1>4, <1>9 DEF HasBuffer, Holding, OtherProcs, OtherBufs, SameProc, B
  <2>2. \A q \in DProc : q # p => HeldBy(q)'
    BY <1>1, <1>3, <2>1 DEF Held, HeldBy, Holding, OtherProcs, SameProc
  <2>3. HeldBy(p)'
    BY <1>1, <1>2, <1>3, <1>4 DEF Held, HeldBy, ProcIs, BufIs, B
  <2> QED
    BY <2>2, <2>3 DEF Held
<1>16. Clean'
  BY <1>1, <1>2, <1>3, <1>4, <1>5, <1>6 DEF Clean, Dirty, OneBuffer, Held, HeldBy, OtherProcs, OtherBufs, SameProc, BufIs, ProcIs
<1>17. Transferred'
  <2>1. \A q \in DProc : q # p /\ pr[q].pc \in Holding => B(q)' = B(q) /\ B(q).blk \in Block /\ B(q).blk # x.blk
    BY <1>1, <1>2, <1>3, <1>4, <1>9, NameAssumption DEF OneBuffer, Holding, HasBuffer, OtherProcs, OtherBufs, SameProc, B, NoBlock
  <2> QED
    BY <1>1, <1>2, <1>3, <1>5, <1>6, <2>1 DEF Transferred, Moved, Holding, OtherProcs, SameProc, ProcIs
<1>18. DriverInv'
  <2>1. \A q \in DProc : pr'[q].pc = "wait" <=> pr[q].pc = "wait"
    BY <1>2, <1>3 DEF OtherProcs, SameProc, ProcIs
  <2>2. \A q \in DProc : pr[q].pc = "wait" =>
           pr'[q].b = pr[q].b /\ pr'[q].write = pr[q].write /\ pr'[q].idx = pr[q].idx /\ B(q)'.disk = B(q).disk
    BY <1>1, <1>2, <1>3, <1>4 DEF HasBuffer, OtherProcs, OtherBufs, SameProc, B, BufIs, ProcIs
  <2> QED
    BY <1>5, <1>8, <2>1, <2>2, DriverFrame
<1> QED
  BY <1>8, <1>10, <1>11, <1>12, <1>13, <1>14, <1>15, <1>16, <1>17, <1>18 DEF IInv, CacheInv

LEMMA PinStep ==
  ASSUME IInv, NEW p \in DProc, bpin(p)
  PROVE  IInv'
<1> DEFINE b == pr[p].b
           x == buf[b]
<1>1. /\ DiskType /\ Listed /\ OneBuffer /\ HasBuffer /\ Holders /\ Refs /\ FewPins
      /\ Contents /\ Held /\ Clean /\ Transferred
  BY DEF IInv, CacheInv
<1>2. /\ pr[p].pc = "have" /\ pr[p].job = "pin" /\ ~pr[p].write
      /\ b \in Buf /\ x.valid /\ x.blk \in Block /\ x.pins \in {0, 1} /\ x.refcnt \in Nat
  BY <1>1 DEF bpin, At, HasBuffer, Held, HeldBy, Refs, B, DiskType, BufRec
<1>3. OtherProcs(p) /\ ProcIs(p, "release", b, pr[p].job, pr[p].write, pr[p].idx)
  BY <1>1 DEF bpin, OtherProcs, SameProc, DiskType, ProcIs, ProcRec
<1>4. OtherBufs(b) /\ BufIs(b, x.blk, x.valid, x.disk, x.refcnt + 1 - x.pins, 1, x.data + 1, x.holder)
  <2>1. x \in BufRec /\ buf' = [buf EXCEPT ![b] = buf'[b]]
    BY <1>1, <1>2 DEF bpin, DiskType, B
  <2>2. buf'[b] = [x EXCEPT !.data = x.data + 1, !.refcnt = x.refcnt + 1 - x.pins, !.pins = 1]
    BY <1>1, <1>2 DEF bpin, DiskType, B
  <2>3. OtherBufs(b)
    BY <1>1, <2>1 DEF OtherBufs, DiskType
  <2> HIDE DEF x
  <2> QED
    BY <2>1, <2>2, <2>3 DEF BufIs, BufRec
<1>5. UNCHANGED <<lru, dfree, info, avail, used, dev, vlock, disk, dpanic>>
  BY DEF bpin
<1>6. /\ latest' \in [Block -> Nat] /\ latest'[x.blk] = latest[x.blk] + 1
      /\ \A k \in Block : k # x.blk => latest'[k] = latest[k]
  BY <1>1, <1>2 DEF bpin, B, DiskType
<1>7. x.refcnt + 1 - x.pins \in Nat
  BY <1>2
<1>8. \A c \in Buf : Users(c)' = Users(c)
  BY <1>2, <1>3, UsersSame DEF ProcIs
<1>9. DiskType'
  <2>1. pr' \in [DProc -> ProcRec]
    <3>1. pr'[p] \in ProcRec /\ pr' = [pr EXCEPT ![p] = pr'[p]]
      BY <1>1, <1>2 DEF bpin, DiskType, ProcRec, DiskPCs
    <3> QED
      BY <1>1, <3>1 DEF DiskType
  <2>2. buf' \in [Buf -> BufRec]
    <3> DEFINE r == x.refcnt + 1 - x.pins
               d == x.data + 1
    <3>0. x \in BufRec
      BY <1>1, <1>2 DEF DiskType
    <3>1. /\ x \in BufRec /\ r \in Nat /\ d \in Nat
          /\ buf' = [buf EXCEPT ![b] = buf'[b]] /\ buf'[b] = [x EXCEPT !.data = d, !.refcnt = r, !.pins = 1]
      <4>1. r \in Nat /\ d \in Nat
        BY <1>7, <3>0 DEF BufRec
      <4>2. buf' = [buf EXCEPT ![b] = buf'[b]] /\ buf'[b] = [x EXCEPT !.data = d, !.refcnt = r, !.pins = 1]
        BY <1>1, <1>2 DEF bpin, DiskType, B
      <4> QED
        BY <3>0, <4>1, <4>2
    <3> HIDE DEF b, x, r, d
    <3>2. buf'[b] \in BufRec
      BY <3>1 DEF BufRec
    <3> QED
      BY <1>1, <1>2, <3>1, <3>2 DEF DiskType
  <2> QED
    BY <1>6, <1>1, <1>5, <2>1, <2>2 DEF DiskType
<1>10. \A q \in DProc : q # p /\ pr[q].pc \in Holding => pr[q].b # b
  BY <1>2, OneHolder DEF Holding
<1>11. Listed' /\ OneBuffer'
  BY <1>1, <1>2, <1>4, <1>5 DEF Listed, OneBuffer, OtherBufs, BufIs
<1>12. HasBuffer' /\ Holders'
  BY <1>1, <1>2, <1>3, <1>4 DEF HasBuffer, Holders, Holding, OtherProcs, OtherBufs, SameProc, B, BufIs, ProcIs
<1>13. Refs'
  BY <1>1, <1>2, <1>4, <1>8, FiniteUsers DEF Refs, OtherBufs, BufIs
<1>14. FewPins'
  <2>1. CASE x.pins = 1
    BY <1>1, <1>2, <1>4, <2>1, FewPinsKept DEF OtherBufs, BufIs
  <2>2. CASE x.pins = 0
    <3>1. Pinned' = Pinned \cup {b} /\ b \notin Pinned
      BY <1>2, <1>4, <2>2 DEF Pinned, OtherBufs, BufIs
    <3>2. Cardinality(Pinned) < MaxPin
      BY <2>2 DEF bpin, B, Pinned
    <3>3. Cardinality(Pinned') = Cardinality(Pinned) + 1
      BY <3>1, FinitePins, FS_AddElement
    <3> QED
      BY <3>2, <3>3, FinitePins, BufAssumption DEF FewPins
  <2> QED
    BY <1>2, <2>1, <2>2
<1>15. Contents'
  <2>1. x.data = latest[x.blk]
    BY <1>1, <1>2 DEF Contents
  <2>2. \A c \in Buf : c # b /\ buf[c].valid => buf[c].blk \in Block /\ buf[c].blk # x.blk
    BY <1>1, <1>2, NameAssumption DEF Contents, OneBuffer, NoBlock
  <2>3. buf'[b].blk = x.blk /\ buf'[b].data = latest'[x.blk] /\ buf'[b].valid
    BY <1>2, <1>4, <1>6, <2>1 DEF BufIs
  <2>4. \A c \in Buf : c # b => buf'[c] = buf[c] /\ (buf[c].valid => latest'[buf[c].blk] = latest[buf[c].blk])
    BY <1>4, <1>6, <2>2 DEF OtherBufs
  <2> QED
    BY <1>1, <1>2, <2>3, <2>4 DEF Contents
<1>16. Held'
  <2>1. \A q \in DProc : q # p /\ pr[q].pc \in Holding => B(q)' = B(q)
    BY <1>1, <1>3, <1>4, <1>10 DEF HasBuffer, Holding, OtherProcs, OtherBufs, SameProc, B
  <2>2. \A q \in DProc : q # p => HeldBy(q)'
    BY <1>1, <1>3, <2>1 DEF Held, HeldBy, Holding, OtherProcs, SameProc
  <2>3. HeldBy(p)'
    BY <1>1, <1>2, <1>3, <1>4 DEF Held, HeldBy, ProcIs, BufIs, B
  <2> QED
    BY <2>2, <2>3 DEF Held
<1>17. Clean'
  BY <1>1, <1>2, <1>3, <1>4, <1>5, <1>6 DEF Clean, Dirty, OneBuffer, Held, HeldBy, OtherProcs, OtherBufs, SameProc, BufIs, ProcIs
<1>18. Transferred'
  <2>1. \A q \in DProc : q # p /\ pr[q].pc \in Holding => B(q)' = B(q) /\ B(q).blk \in Block /\ B(q).blk # x.blk
    BY <1>1, <1>2, <1>3, <1>4, <1>10, NameAssumption DEF OneBuffer, Holding, HasBuffer, OtherProcs, OtherBufs, SameProc, B, NoBlock
  <2> QED
    BY <1>1, <1>2, <1>3, <1>5, <1>6, <2>1 DEF Transferred, Moved, Holding, OtherProcs, SameProc, ProcIs
<1>19. DriverInv'
  <2>1. \A q \in DProc : pr'[q].pc = "wait" <=> pr[q].pc = "wait"
    BY <1>2, <1>3 DEF OtherProcs, SameProc, ProcIs
  <2>2. \A q \in DProc : pr[q].pc = "wait" =>
           pr'[q].b = pr[q].b /\ pr'[q].write = pr[q].write /\ pr'[q].idx = pr[q].idx /\ B(q)'.disk = B(q).disk
    BY <1>1, <1>2, <1>3, <1>4 DEF HasBuffer, OtherProcs, OtherBufs, SameProc, B, BufIs, ProcIs
  <2> QED
    BY <1>5, <1>9, <2>1, <2>2, DriverFrame
<1> QED
  BY <1>9, <1>11, <1>12, <1>13, <1>14, <1>15, <1>16, <1>17, <1>18, <1>19 DEF IInv, CacheInv

LEMMA ReleaseStep ==
  ASSUME IInv, NEW p \in DProc, releasesleep(p)
  PROVE  IInv'
<1> DEFINE b == pr[p].b
           x == buf[b]
<1>1. /\ DiskType /\ Listed /\ OneBuffer /\ HasBuffer /\ Holders /\ Refs /\ FewPins
      /\ Contents /\ Held /\ Clean /\ Transferred
  BY DEF IInv, CacheInv
<1>2. pr[p].pc \in {"have", "release"} /\ b \in Buf /\ ~pr[p].write
  BY <1>1 DEF releasesleep, At, HasBuffer, Held, HeldBy, Refs, B, Finished
<1>3. OtherProcs(p) /\ ProcIs(p, "relse", b, pr[p].job, pr[p].write, pr[p].idx)
  <2> DEFINE f == [pr EXCEPT ![p].pc = "relse"]
  <2>1. /\ f \in [DProc -> ProcRec] /\ f[p].pc = "relse" /\ f[p].b = b /\ f[p].job = pr[p].job
        /\ f[p].write = pr[p].write /\ f[p].idx = pr[p].idx /\ \A q \in DProc : q # p => f[q] = pr[q]
    BY <1>1 DEF DiskType, ProcRec, DiskPCs
  <2>2. pr' = wakeup(f, "lock", b)
    BY DEF releasesleep
  <2> HIDE DEF f
  <2> QED
    BY <1>1, <2>1, <2>2, WakeupSame DEF OtherProcs, SameProc, ProcIs
<1>4. OtherBufs(b) /\ BufIs(b, x.blk, x.valid, x.disk, x.refcnt, x.pins, x.data, NoBlock)
  BY <1>1, <1>2 DEF releasesleep, OtherBufs, DiskType, BufIs, BufRec, B
<1>5. UNCHANGED <<lru, dfree, info, avail, used, dev, vlock, disk, latest, dpanic>>
  BY DEF releasesleep
<1>6. \A c \in Buf : Users(c)' = Users(c)
  BY <1>2, <1>3, UsersSame DEF ProcIs
<1>7. DiskType'
  <2>1. pr' \in [DProc -> ProcRec]
    <3> DEFINE f == [pr EXCEPT ![p].pc = "relse"]
    <3>1. f \in [DProc -> ProcRec]
      <4>1. pr[p] \in ProcRec /\ f = [pr EXCEPT ![p] = [pr[p] EXCEPT !.pc = "relse"]]
        BY <1>1 DEF DiskType
      <4>2. [pr[p] EXCEPT !.pc = "relse"] \in ProcRec
        BY <4>1 DEF ProcRec, DiskPCs
      <4> HIDE DEF f
      <4> QED
        BY <1>1, <4>1, <4>2 DEF DiskType
    <3>2. pr' = wakeup(f, "lock", b)
      BY DEF releasesleep
    <3> HIDE DEF f
    <3> QED
      BY <1>1, <3>1, <3>2, WakeupSame
  <2>2. buf' \in [Buf -> BufRec]
    <3>1. x \in BufRec /\ buf' = [buf EXCEPT ![b] = buf'[b]] /\ buf'[b] = [x EXCEPT !.holder = NoBlock]
      BY <1>1, <1>2 DEF releasesleep, DiskType, B
    <3> HIDE DEF b, x
    <3>2. buf'[b] \in BufRec
      BY <1>2, <3>1 DEF BufRec
    <3> QED
      BY <1>1, <1>2, <3>1, <3>2 DEF DiskType
  <2> QED
    BY <1>1, <1>5, <2>1, <2>2 DEF DiskType
<1>8. \A q \in DProc : q # p /\ pr[q].pc \in Holding => pr[q].b # b
  BY <1>2, OneHolder DEF Holding
<1>9. Listed' /\ OneBuffer'
  BY <1>1, <1>2, <1>4, <1>5 DEF Listed, OneBuffer, OtherBufs, BufIs
<1>10. HasBuffer' /\ Holders'
  BY <1>1, <1>2, <1>3, <1>4, <1>8, NameAssumption DEF HasBuffer, Holders, Holding, NoBlock, OtherProcs, OtherBufs, SameProc, B, BufIs, ProcIs
<1>11. Refs'
  BY <1>1, <1>2, <1>4, <1>6, FiniteUsers DEF Refs, OtherBufs, BufIs
<1>12. FewPins'
  BY <1>1, <1>2, <1>4, FewPinsKept DEF OtherBufs, BufIs
<1>13. Contents'
  BY <1>1, <1>2, <1>4, <1>5 DEF Contents, OtherBufs, BufIs
<1>14. Held'
  <2>1. \A q \in DProc : q # p /\ pr[q].pc \in Holding => B(q)' = B(q)
    BY <1>1, <1>3, <1>4, <1>8 DEF HasBuffer, Holding, OtherProcs, OtherBufs, SameProc, B
  <2>2. \A q \in DProc : q # p => HeldBy(q)'
    BY <1>1, <1>3, <2>1 DEF Held, HeldBy, Holding, OtherProcs, SameProc
  <2>3. HeldBy(p)'
    BY <1>1, <1>2, <1>3, <1>4 DEF Held, HeldBy, ProcIs, BufIs, B
  <2> QED
    BY <2>2, <2>3 DEF Held
<1>15. Clean'
  BY <1>1, <1>2, <1>3, <1>4, <1>5 DEF Clean, Dirty, Transferred, Held, HeldBy, OtherProcs, OtherBufs, SameProc, B, BufIs, ProcIs
<1>16. Transferred'
  BY <1>1, <1>2, <1>3, <1>4, <1>5, <1>8 DEF Transferred, Moved, Holding, HasBuffer, OtherProcs, OtherBufs, SameProc, B, BufIs, ProcIs
<1>17. DriverInv'
  <2>1. \A q \in DProc : pr'[q].pc = "wait" <=> pr[q].pc = "wait"
    BY <1>2, <1>3 DEF OtherProcs, SameProc, ProcIs
  <2>2. \A q \in DProc : pr[q].pc = "wait" =>
           pr'[q].b = pr[q].b /\ pr'[q].write = pr[q].write /\ pr'[q].idx = pr[q].idx /\ B(q)'.disk = B(q).disk
    BY <1>1, <1>2, <1>3, <1>4 DEF HasBuffer, OtherProcs, OtherBufs, SameProc, B, BufIs, ProcIs
  <2> QED
    BY <1>5, <1>7, <2>1, <2>2, DriverFrame
<1> QED
  BY <1>7, <1>9, <1>10, <1>11, <1>12, <1>13, <1>14, <1>15, <1>16, <1>17 DEF IInv, CacheInv

LEMMA TakeStep ==
  ASSUME IInv, NEW p \in DProc, acquiresleep(p), B(p).holder = NoBlock
  PROVE  IInv'
<1> DEFINE b == pr[p].b
           x == buf[b]
<1>1. /\ DiskType /\ Listed /\ OneBuffer /\ HasBuffer /\ Holders /\ Refs /\ FewPins
      /\ Contents /\ Held /\ Clean /\ Transferred
  BY DEF IInv, CacheInv
<1>2. pr[p].pc = "lock" /\ b \in Buf /\ x.holder = NoBlock /\ ~pr[p].write
  BY <1>1 DEF acquiresleep, At, HasBuffer, Held, HeldBy, Refs, B
<1>3. OtherProcs(p) /\ ProcIs(p, IF x.valid THEN "have" ELSE "rw", b, pr[p].job, pr[p].write, pr[p].idx)
  BY <1>1, <1>2 DEF acquiresleep, OtherProcs, SameProc, DiskType, ProcIs, ProcRec, B
<1>4. OtherBufs(b) /\ BufIs(b, x.blk, x.valid, x.disk, x.refcnt, x.pins, x.data, p)
  BY <1>1, <1>2 DEF acquiresleep, OtherBufs, DiskType, BufIs, BufRec, B
<1>5. UNCHANGED <<lru, dfree, info, avail, used, dev, vlock, disk, latest, dpanic>>
  BY DEF acquiresleep
<1>6. \A c \in Buf : Users(c)' = Users(c)
  BY <1>2, <1>3, UsersSame DEF ProcIs
<1>7. DiskType'
  <2>1. pr' \in [DProc -> ProcRec]
    <3>1. pr[p] \in ProcRec /\ pr' = [pr EXCEPT ![p] = pr'[p]]
      BY <1>1, <1>2 DEF acquiresleep, DiskType, B
    <3>2. pr'[p] = [pr[p] EXCEPT !.pc = IF x.valid THEN "have" ELSE "rw"]
      BY <1>1, <1>2 DEF acquiresleep, DiskType, B
    <3>3. pr'[p] \in ProcRec
      BY <3>1, <3>2 DEF ProcRec, DiskPCs
    <3> QED
      BY <1>1, <3>1, <3>3 DEF DiskType
  <2>2. buf' \in [Buf -> BufRec]
    <3>1. x \in BufRec /\ buf' = [buf EXCEPT ![b] = buf'[b]] /\ buf'[b] = [x EXCEPT !.holder = p]
      BY <1>1, <1>2 DEF acquiresleep, DiskType, B
    <3> HIDE DEF b, x
    <3>2. buf'[b] \in BufRec
      BY <1>2, <3>1 DEF BufRec
    <3> QED
      BY <1>1, <1>2, <3>1, <3>2 DEF DiskType
  <2> QED
    BY <1>1, <1>5, <2>1, <2>2 DEF DiskType
<1>8. \A q \in DProc : q # p /\ pr[q].pc \in Holding => pr[q].b # b
  BY <1>1, <1>2, NameAssumption DEF Holders, NoBlock
<1>9. Listed' /\ OneBuffer'
  BY <1>1, <1>2, <1>4, <1>5 DEF Listed, OneBuffer, OtherBufs, BufIs
<1>10. HasBuffer' /\ Holders'
  BY <1>1, <1>2, <1>3, <1>4, <1>8, NameAssumption DEF HasBuffer, Holders, Holding, NoBlock, OtherProcs, OtherBufs, SameProc, B, BufIs, ProcIs
<1>11. Refs'
  BY <1>1, <1>2, <1>4, <1>6, FiniteUsers DEF Refs, OtherBufs, BufIs
<1>12. FewPins'
  BY <1>1, <1>2, <1>4, FewPinsKept DEF OtherBufs, BufIs
<1>13. Contents'
  BY <1>1, <1>2, <1>4, <1>5 DEF Contents, OtherBufs, BufIs
<1>14. Held'
  <2>1. \A q \in DProc : q # p /\ pr[q].pc \in Holding => B(q)' = B(q)
    BY <1>1, <1>3, <1>4, <1>8 DEF HasBuffer, Holding, OtherProcs, OtherBufs, SameProc, B
  <2>2. \A q \in DProc : q # p => HeldBy(q)'
    BY <1>1, <1>3, <2>1 DEF Held, HeldBy, Holding, OtherProcs, SameProc
  <2>3. HeldBy(p)'
    BY <1>1, <1>2, <1>3, <1>4 DEF Held, HeldBy, ProcIs, BufIs, B
  <2> QED
    BY <2>2, <2>3 DEF Held
<1>15. Clean'
  BY <1>1, <1>2, <1>3, <1>4, <1>5 DEF Clean, Dirty, Transferred, Held, HeldBy, OtherProcs, OtherBufs, SameProc, B, BufIs, ProcIs
<1>16. Transferred'
  BY <1>1, <1>2, <1>3, <1>4, <1>5, <1>8 DEF Transferred, Moved, Holding, HasBuffer, OtherProcs, OtherBufs, SameProc, B, BufIs, ProcIs
<1>17. DriverInv'
  <2>1. \A q \in DProc : pr'[q].pc = "wait" <=> pr[q].pc = "wait"
    BY <1>2, <1>3 DEF OtherProcs, SameProc, ProcIs
  <2>2. \A q \in DProc : pr[q].pc = "wait" =>
           pr'[q].b = pr[q].b /\ pr'[q].write = pr[q].write /\ pr'[q].idx = pr[q].idx /\ B(q)'.disk = B(q).disk
    BY <1>1, <1>2, <1>3, <1>4 DEF HasBuffer, OtherProcs, OtherBufs, SameProc, B, BufIs, ProcIs
  <2> QED
    BY <1>5, <1>7, <2>1, <2>2, DriverFrame
<1> QED
  BY <1>7, <1>9, <1>10, <1>11, <1>12, <1>13, <1>14, <1>15, <1>16, <1>17 DEF IInv, CacheInv

\* The list still has every buffer when one is moved to its front.
LEMMA FrontListed ==
  ASSUME NEW b \in Buf, Listed, lru \in [Buf -> Buf], lru' = ToFront(b)
  PROVE  Listed' /\ lru' \in [Buf -> Buf]
<1> DEFINE k == CHOOSE i \in Buf : lru[i] = b
<1>1. k \in Buf /\ lru[k] = b
  BY DEF Listed
<1>2. lru' = [i \in Buf |-> IF i = 1 THEN b ELSE IF i <= k THEN lru[i - 1] ELSE lru[i]]
  BY DEF ToFront
<1> HIDE DEF k
<1>3. NBUF \in Nat
  BY BufAssumption
<1>4. lru' \in [Buf -> Buf]
  <2>1. \A i \in Buf : i # 1 => i - 1 \in Buf
    BY <1>3 DEF Buf
  <2> QED
    BY <1>2, <2>1
<1>5. ASSUME NEW c \in Buf PROVE \E i \in Buf : lru'[i] = c
  <2>1. PICK i \in Buf : lru[i] = c
    BY DEF Listed
  <2>2. CASE i = k
    <3>1. 1 \in Buf
      BY <1>1, <1>3 DEF Buf
    <3> QED
      BY <1>1, <1>2, <2>1, <2>2, <3>1
  <2>3. CASE i > k
    <3>1. i # 1 /\ ~(i <= k)
      BY <1>1, <1>3, <2>3 DEF Buf
    <3> QED
      BY <1>2, <2>1, <3>1
  <2>4. CASE i < k
    <3>1. i + 1 \in Buf /\ i + 1 # 1 /\ i + 1 <= k /\ (i + 1) - 1 = i
      BY <1>1, <1>3, <2>4 DEF Buf
    <3> QED
      BY <1>2, <2>1, <3>1
  <2> QED
    BY <1>1, <1>3, <2>2, <2>3, <2>4 DEF Buf
<1> QED
  BY <1>4, <1>5 DEF Listed

LEMMA DropStep ==
  ASSUME IInv, NEW p \in DProc, brelse(p)
  PROVE  IInv'
<1> DEFINE b == pr[p].b
           x == buf[b]
<1>1. /\ DiskType /\ Listed /\ OneBuffer /\ HasBuffer /\ Holders /\ Refs /\ FewPins
      /\ Contents /\ Held /\ Clean /\ Transferred
  BY DEF IInv, CacheInv
<1>2. /\ pr[p].pc = "relse" /\ b \in Buf /\ p \in Users(b) /\ x.pins \in {0, 1}
      /\ x.refcnt = x.pins + Cardinality(Users(b)) /\ ~pr[p].write
  BY <1>1 DEF brelse, At, HasBuffer, Held, HeldBy, Refs, B, DiskType, BufRec, Users
<1>3. OtherProcs(p) /\ ProcIs(p, "idle", 0, NoBlock, FALSE, 0)
  BY <1>1, <1>2 DEF brelse, OtherProcs, SameProc, DiskType, ProcIs, Resting
<1>4. OtherBufs(b) /\ BufIs(b, x.blk, x.valid, x.disk, x.refcnt - 1, x.pins, x.data, x.holder)
  BY <1>1, <1>2 DEF brelse, OtherBufs, DiskType, BufIs, BufRec, B
<1>5. UNCHANGED <<dfree, info, avail, used, dev, vlock, disk, latest, dpanic>>
  BY DEF brelse
<1>6. Listed' /\ lru' \in [Buf -> Buf]
  BY <1>1, <1>2, FrontListed DEF brelse, Listed, DiskType
<1>7. 0 \notin Buf
  BY DEF Buf
<1>8. PICK u \in Buf : u = b
  BY <1>2
<1>9. /\ Users(u)' = Users(u) \ {p} /\ \A c \in Buf : c # u => Users(c)' = Users(c)
      /\ Cardinality(Users(u)') = Cardinality(Users(u)) - 1 /\ x.refcnt - 1 \in Nat
  <2>1. Users(u)' = Users(u) \ {p} /\ \A c \in Buf : c # u => Users(c)' = Users(c)
    <3>1. \A q \in DProc : q # p => (pr'[q].pc = pr[q].pc /\ pr'[q].b = pr[q].b)
      BY <1>3 DEF OtherProcs, SameProc
    <3>2. pr'[p].pc = "idle"
      BY <1>3 DEF ProcIs
    <3>3. \A q \in DProc : q # p => \A c \in Buf : q \in Users(c)' <=> q \in Users(c)
      BY <3>1 DEF Users
    <3>4. \A c \in Buf : p \notin Users(c)' /\ (p \in Users(c) <=> c = u)
      BY <1>2, <1>8, <3>2 DEF Users
    <3>5. \A c \in Buf : Users(c) \subseteq DProc /\ Users(c)' \subseteq DProc
      BY DEF Users
    <3>6. Users(u)' = Users(u) \ {p}
      BY <3>3, <3>4, <3>5
    <3>7. ASSUME NEW c \in Buf, c # u PROVE Users(c)' = Users(c)
      <4>1. \A q \in DProc : q \in Users(c)' <=> q \in Users(c)
        BY <3>3, <3>4, <3>7
      <4> QED
        BY <3>5, <4>1
    <3> QED
      BY <3>6, <3>7
  <2>2. Cardinality(Users(u) \ {p}) = Cardinality(Users(u)) - 1
    BY <1>2, <1>8, FiniteUsers, FS_RemoveElement
  <2>3. Cardinality(Users(u) \ {p}) \in Nat
    BY FiniteUsers, FS_RemoveElement, FS_CardinalityType
  <2> QED
    BY <1>2, <1>8, <2>1, <2>2, <2>3, FiniteUsers
<1>10. DiskType'
  <2>1. pr' \in [DProc -> ProcRec]
    <3>1. Resting \in ProcRec
      BY BufAssumption DEF ProcRec, DiskPCs, Resting
    <3> QED
      BY <1>1, <3>1 DEF brelse, DiskType
  <2>2. buf' \in [Buf -> BufRec]
    <3>1. x \in BufRec /\ buf' = [buf EXCEPT ![b] = buf'[b]] /\ buf'[b] = [x EXCEPT !.refcnt = x.refcnt - 1]
      BY <1>1, <1>2 DEF brelse, DiskType, B
    <3> HIDE DEF b, x
    <3>2. buf'[b] \in BufRec
      BY <1>2, <3>1, <1>9 DEF BufRec
    <3> QED
      BY <1>1, <1>2, <3>1, <3>2 DEF DiskType
  <2> QED
    BY <1>6, <1>1, <1>5, <2>1, <2>2 DEF DiskType
<1>11. Listed' /\ OneBuffer'
  BY <1>1, <1>2, <1>4, <1>6 DEF OneBuffer, OtherBufs, BufIs
<1>12. HasBuffer' /\ Holders'
  BY <1>1, <1>2, <1>3, <1>4, <1>7 DEF HasBuffer, Holders, Holding, OtherProcs, OtherBufs, SameProc, B, BufIs, ProcIs
<1>13. Refs'
  <2>1. buf'[u].refcnt = buf'[u].pins + Cardinality(Users(u)')
    BY <1>2, <1>4, <1>9, <1>8, FiniteUsers DEF BufIs
  <2>2. \A c \in Buf : c # u => buf'[c].refcnt = buf'[c].pins + Cardinality(Users(c)')
    BY <1>1, <1>4, <1>9, <1>8 DEF Refs, OtherBufs
  <2> QED
    BY <2>1, <2>2 DEF Refs
<1>14. FewPins'
  BY <1>1, <1>2, <1>4, FewPinsKept DEF OtherBufs, BufIs
<1>15. Contents'
  BY <1>1, <1>2, <1>4, <1>5 DEF Contents, OtherBufs, BufIs
<1>16. Held'
  BY <1>1, <1>2, <1>3, <1>4 DEF Held, HeldBy, HasBuffer, OtherProcs, OtherBufs, SameProc, B, BufIs, ProcIs
<1>17. Clean'
  BY <1>1, <1>2, <1>3, <1>4, <1>5 DEF Clean, Dirty, Transferred, Held, HeldBy, OtherProcs, OtherBufs, SameProc, B, BufIs, ProcIs
<1>18. Transferred'
  BY <1>1, <1>2, <1>3, <1>4, <1>5 DEF Transferred, Moved, HasBuffer, OtherProcs, OtherBufs, SameProc, B, BufIs, ProcIs
<1>19. DriverInv'
  <2>1. \A q \in DProc : pr'[q].pc = "wait" <=> pr[q].pc = "wait"
    BY <1>2, <1>3 DEF OtherProcs, SameProc, ProcIs
  <2>2. \A q \in DProc : pr[q].pc = "wait" =>
           pr'[q].b = pr[q].b /\ pr'[q].write = pr[q].write /\ pr'[q].idx = pr[q].idx /\ B(q)'.disk = B(q).disk
    BY <1>1, <1>2, <1>3, <1>4 DEF HasBuffer, OtherProcs, OtherBufs, SameProc, B, BufIs, ProcIs
  <2> QED
    BY <1>5, <1>10, <2>1, <2>2, DriverFrame
<1> QED
  BY <1>10, <1>11, <1>12, <1>13, <1>14, <1>15, <1>16, <1>17, <1>18, <1>19 DEF IInv, CacheInv

-----------------------------------------------------------------------------
\* A finite set of numbers has a least and a greatest element.
LEMMA MinInSet ==
  ASSUME NEW S, IsFiniteSet(S), S \subseteq Int, S # {}
  PROVE  Min(S) \in S
<1> DEFINE below(x) == {y \in S : y <= x}
           T == {below(x) : x \in S}
           R == StrictSubsetOrdering(S)
<1>1. IsWellFoundedOn(R, SUBSET S)
  BY FS_FiniteSubsetsOfFinite, FS_StrictSubsetOrderingWellFounded
<1>2. T \subseteq SUBSET S /\ T # {}
  OBVIOUS
<1>3. \E m \in T : \A n \in T : ~(<<n, m>> \in R)
  <2> HIDE DEF R, T
  <2> QED
    BY <1>1, <1>2, WFMin
<1>4. PICK x \in S : \A y \in S : ~(<<below(y), below(x)>> \in R)
  BY <1>3
<1>5. \A y \in S : x <= y
  <2> SUFFICES ASSUME NEW y \in S, ~(x <= y) PROVE FALSE
    OBVIOUS
  <2>1. x \in Int /\ y \in Int /\ y < x
    OBVIOUS
  <2>2. \A z \in S : z \in Int /\ (z <= y => z <= x)
    BY <2>1
  <2>3. below(y) \subseteq below(x)
    BY <2>2
  <2>4. x \in below(x) /\ x \notin below(y)
    BY <2>1
  <2>5. <<below(y), below(x)>> \in R
    BY <2>3, <2>4 DEF StrictSubsetOrdering
  <2> QED
    BY <1>4, <2>5
<1> QED
  BY <1>5 DEF Min

LEMMA MaxInSet ==
  ASSUME NEW S, IsFiniteSet(S), S \subseteq Int, S # {}
  PROVE  Max(S) \in S
<1> DEFINE above(x) == {y \in S : y >= x}
           T == {above(x) : x \in S}
           R == StrictSubsetOrdering(S)
<1>1. IsWellFoundedOn(R, SUBSET S)
  BY FS_FiniteSubsetsOfFinite, FS_StrictSubsetOrderingWellFounded
<1>2. T \subseteq SUBSET S /\ T # {}
  OBVIOUS
<1>3. \E m \in T : \A n \in T : ~(<<n, m>> \in R)
  <2> HIDE DEF R, T
  <2> QED
    BY <1>1, <1>2, WFMin
<1>4. PICK x \in S : \A y \in S : ~(<<above(y), above(x)>> \in R)
  BY <1>3
<1>5. \A y \in S : x >= y
  <2> SUFFICES ASSUME NEW y \in S, ~(x >= y) PROVE FALSE
    OBVIOUS
  <2>1. x \in Int /\ y \in Int /\ y > x
    OBVIOUS
  <2>2. \A z \in S : z \in Int /\ (z >= y => z >= x)
    BY <2>1
  <2>3. above(y) \subseteq above(x)
    BY <2>2
  <2>4. x \in above(x) /\ x \notin above(y)
    BY <2>1
  <2>5. <<above(y), above(x)>> \in R
    BY <2>3, <2>4 DEF StrictSubsetOrdering
  <2> QED
    BY <1>4, <2>5
<1> QED
  BY <1>5 DEF Max

\* The buffer that bget() recycles is one that nobody refers to.
LEMMA LeastRecent ==
  ASSUME IInv, Recyclable # {}
  PROVE  lru[Max(Recyclable)] \in Buf /\ buf[lru[Max(Recyclable)]].refcnt = 0
<1>1. DiskType
  BY DEF IInv
<1>2. IsFiniteSet(Recyclable) /\ Recyclable \subseteq Int
  <2>1. Recyclable \subseteq Buf /\ Buf \subseteq Int
    BY BufAssumption DEF Recyclable, Buf
  <2> QED
    BY <2>1, FiniteBuf, FS_Subset
<1>3. Max(Recyclable) \in Recyclable
  BY <1>2, MaxInSet
<1> QED
  BY <1>1, <1>3 DEF Recyclable, DiskType

\* A process enters with a buffer that has the block, or with one that nobody refers
\* to and that gets the block.
LEMMA GetStep ==
  ASSUME IInv, NEW p \in DProc, NEW job \in Jobs[p], bget(p, job[1], job[2])
  PROVE  IInv'
<1> DEFINE blk == job[1]
<1>1. /\ DiskType /\ Listed /\ OneBuffer /\ HasBuffer /\ Holders /\ Refs /\ FewPins
      /\ Contents /\ Held /\ Clean /\ Transferred
  BY DEF IInv, CacheInv
<1>2. blk \in Block /\ job[2] \in {"read", "write", "pin", "flush"} /\ blk # NoBlock /\ pr[p].pc = "idle"
  BY JobAssumption, NameAssumption DEF NoBlock, bget, At
<1>3. PICK b \in Buf :
        /\ b = IF Cached(blk) # {} THEN CHOOSE c \in Cached(blk) : TRUE ELSE lru[Max(Recyclable)]
        /\ Cached(blk) # {} => buf[b].blk = blk
        /\ Cached(blk) = {} => buf[b].refcnt = 0
  BY <1>2, LeastRecent DEF bget, Cached
<1> DEFINE x == buf[b]
<1>4. OtherProcs(p) /\ ProcIs(p, "lock", b, job[2], FALSE, 0) /\ pr' \in [DProc -> ProcRec]
  <2> DEFINE r == [Resting EXCEPT !.pc = "lock", !.b = b, !.job = job[2]]
  <2>1. r \in ProcRec /\ r.pc = "lock" /\ r.b = b /\ r.job = job[2] /\ r.write = FALSE /\ r.idx = 0
    <3>1. Resting \in ProcRec /\ Resting.write = FALSE /\ Resting.idx = 0
      BY BufAssumption DEF Resting, ProcRec, DiskPCs
    <3>2. b \in 0 .. NBUF
      BY BufAssumption DEF Buf
    <3> QED
      BY <1>2, <3>1, <3>2 DEF ProcRec, DiskPCs
  <2>2. pr' = [pr EXCEPT ![p] = r]
    BY <1>3 DEF bget
  <2> HIDE DEF r
  <2> QED
    BY <1>1, <2>1, <2>2 DEF DiskType, OtherProcs, SameProc, ProcIs
<1>5. UNCHANGED <<lru, dfree, info, avail, used, dev, vlock, disk, latest, dpanic>>
  BY DEF bget
<1>6. x \in BufRec
  BY <1>1 DEF DiskType
<1>7. /\ OtherBufs(b) /\ buf' \in [Buf -> BufRec]
      /\ Cached(blk) # {} => BufIs(b, x.blk, x.valid, x.disk, x.refcnt + 1, x.pins, x.data, x.holder)
      /\ Cached(blk) = {} => BufIs(b, blk, FALSE, x.disk, 1, x.pins, x.data, x.holder)
  <2>1. CASE Cached(blk) # {}
    <3>1. buf' = [buf EXCEPT ![b] = [x EXCEPT !.refcnt = x.refcnt + 1]]
      BY <1>1, <1>3, <2>1 DEF bget, DiskType
    <3>2. [x EXCEPT !.refcnt = x.refcnt + 1] \in BufRec
      BY <1>6 DEF BufRec
    <3> QED
      BY <1>1, <1>6, <2>1, <3>1, <3>2 DEF DiskType, OtherBufs, BufIs, BufRec
  <2>2. CASE Cached(blk) = {}
    <3>1. buf' = [buf EXCEPT ![b] = [x EXCEPT !.blk = blk, !.valid = FALSE, !.refcnt = 1]]
      BY <1>1, <1>3, <2>2 DEF bget, DiskType
    <3>2. [x EXCEPT !.blk = blk, !.valid = FALSE, !.refcnt = 1] \in BufRec
      BY <1>2, <1>6 DEF BufRec
    <3> QED
      BY <1>1, <1>6, <2>2, <3>1, <3>2 DEF DiskType, OtherBufs, BufIs, BufRec
  <2> QED
    BY <2>1, <2>2
<1>8. DiskType'
  BY <1>1, <1>4, <1>5, <1>7 DEF DiskType
<1>9. Cached(blk) = {} => Users(b) = {} /\ x.pins = 0 /\ \A q \in DProc : pr[q].pc # "idle" => pr[q].b # b
  <2> SUFFICES ASSUME Cached(blk) = {} PROVE Users(b) = {} /\ x.pins = 0 /\ \A q \in DProc : pr[q].pc # "idle" => pr[q].b # b
    OBVIOUS
  <2>1. x.pins \in Nat /\ x.refcnt = 0 /\ x.refcnt = x.pins + Cardinality(Users(b))
    BY <1>1, <1>3, <1>6 DEF Refs, BufRec
  <2>2. x.pins = 0 /\ Cardinality(Users(b)) = 0
    BY <2>1, FiniteUsers
  <2>3. Users(b) = {}
    BY <2>2, FiniteUsers, FS_EmptySet
  <2> QED
    BY <2>2, <2>3 DEF Users
\* The buffer of another process that is in a call changes its count at most.
<1>10. \A q \in DProc : q # p /\ pr[q].pc # "idle" =>
        /\ B(q)'.blk = B(q).blk /\ B(q)'.valid = B(q).valid /\ B(q)'.disk = B(q).disk
        /\ B(q)'.pins = B(q).pins /\ B(q)'.data = B(q).data
  BY <1>1, <1>4, <1>7, <1>9 DEF HasBuffer, OtherProcs, OtherBufs, SameProc, B, BufIs
<1>11. Listed' /\ OneBuffer'
  BY <1>1, <1>2, <1>5, <1>7 DEF Listed, OneBuffer, OtherBufs, BufIs, Cached
<1>12. HasBuffer'
  <2>1. B(p)'.blk = blk
    BY <1>3, <1>4, <1>7 DEF B, BufIs, ProcIs
  <2> QED
    BY <1>1, <1>2, <1>4, <1>10, <2>1 DEF HasBuffer, OtherProcs, SameProc, ProcIs
<1>13. Holders'
  BY <1>1, <1>2, <1>4, <1>7 DEF Holders, Holding, OtherProcs, OtherBufs, SameProc, BufIs, ProcIs
<1>14. Refs'
  <2>1. \A q \in DProc : q # p => \A c \in Buf : q \in Users(c)' <=> q \in Users(c)
    BY <1>4 DEF Users, OtherProcs, SameProc
  <2>2. \A c \in Buf : p \notin Users(c) /\ (p \in Users(c)' <=> c = b)
    BY <1>2, <1>4 DEF Users, ProcIs
  <2>3. \A c \in Buf : Users(c) \subseteq DProc /\ Users(c)' \subseteq DProc
    BY DEF Users
  <2>4. Users(b)' = Users(b) \cup {p}
    BY <2>1, <2>2, <2>3
  <2>5. ASSUME NEW c \in Buf, c # b PROVE Users(c)' = Users(c)
    <3>1. \A q \in DProc : q \in Users(c)' <=> q \in Users(c)
      BY <2>1, <2>2, <2>5
    <3> QED
      BY <2>3, <3>1
  <2>6. Cardinality(Users(b)') = Cardinality(Users(b)) + 1
    BY <2>2, <2>4, FiniteUsers, FS_AddElement
  <2>7. buf'[b].refcnt = buf'[b].pins + Cardinality(Users(b)')
    <3>1. CASE Cached(blk) # {}
      BY <1>1, <1>6, <1>7, <2>6, <3>1, FiniteUsers DEF Refs, BufIs, BufRec
    <3>2. CASE Cached(blk) = {}
      <4>1. Cardinality(Users(b)) = 0
        BY <1>9, <3>2, FS_EmptySet
      <4> QED
        BY <1>7, <1>9, <2>6, <3>2, <4>1 DEF BufIs
    <3> QED
      BY <3>1, <3>2
  <2> QED
    BY <1>1, <1>7, <2>5, <2>7 DEF Refs, OtherBufs
<1>15. FewPins'
  BY <1>1, <1>7, FewPinsKept DEF OtherBufs, BufIs
<1>16. Contents'
  BY <1>1, <1>5, <1>7, <1>9 DEF Contents, OtherBufs, BufIs
<1>17. Held'
  <2>1. \A q \in DProc : q # p /\ pr[q].pc # "idle" => HeldBy(q)'
    BY <1>1, <1>4, <1>10 DEF Held, HeldBy, OtherProcs, SameProc
  <2>2. \A q \in DProc : q # p /\ pr[q].pc = "idle" => HeldBy(q)'
    BY <1>1, <1>4 DEF Held, HeldBy, OtherProcs, SameProc
  <2>3. HeldBy(p)'
    BY <1>4 DEF HeldBy, ProcIs
  <2> QED
    BY <2>1, <2>2, <2>3 DEF Held
<1>18. Clean'
  <2>1. \A c \in Buf : Dirty(c) => Dirty(c)' /\ buf'[c].blk = buf[c].blk
    BY <1>1, <1>2, <1>4, <1>7, <1>9 DEF Dirty, Held, HeldBy, OtherProcs, OtherBufs, SameProc, BufIs
  <2> QED
    BY <1>1, <1>5, <2>1 DEF Clean
<1>19. Transferred'
  BY <1>1, <1>4, <1>5, <1>10 DEF Transferred, Moved, OtherProcs, SameProc, ProcIs
<1>20. DriverInv'
  <2>1. \A q \in DProc : pr'[q].pc = "wait" <=> pr[q].pc = "wait"
    BY <1>2, <1>4 DEF OtherProcs, SameProc, ProcIs
  <2>2. \A q \in DProc : pr[q].pc = "wait" =>
           pr'[q].b = pr[q].b /\ pr'[q].write = pr[q].write /\ pr'[q].idx = pr[q].idx /\ B(q)'.disk = B(q).disk
    BY <1>2, <1>4, <1>10 DEF OtherProcs, SameProc
  <2> QED
    BY <1>5, <1>8, <2>1, <2>2, DriverFrame
<1> QED
  BY <1>8, <1>11, <1>12, <1>13, <1>14, <1>15, <1>16, <1>17, <1>18, <1>19, <1>20 DEF IInv, CacheInv

-----------------------------------------------------------------------------
\* Steps after which only somebody sleeps or is awake.
LEMMA SleepStep ==
  ASSUME IInv, NEW p \in DProc, NEW a \in BOOLEAN, pr' = [pr EXCEPT ![p].asleep = a],
         UNCHANGED <<buf, lru, dfree, info, avail, used, dev, vlock, disk, latest, dpanic>>
  PROVE  IInv'
<1>1. DiskType
  BY DEF IInv
<1>2. pr' \in [DProc -> ProcRec] /\ \A q \in DProc : SameProc(q)
  BY <1>1 DEF DiskType, ProcRec, SameProc
<1>3. DiskType'
  BY <1>1, <1>2 DEF DiskType
<1>4. CacheInv'
  BY <1>2, CacheFrame
<1>5. DriverInv'
  BY <1>2, <1>3, DriverFrame DEF SameProc, B
<1> QED
  BY <1>3, <1>4, <1>5 DEF IInv

\* A request that finds too few descriptors, and gives back those it got.
LEMMA ShortStep ==
  ASSUME IInv, NEW p \in DProc, virtio_disk_rw(p), ~(Cardinality(dfree) >= 3)
  PROVE  IInv'
<1>1. DiskType
  BY DEF IInv
<1>2. UNCHANGED <<buf, lru, dfree, info, avail, used, dev, vlock, disk, latest, dpanic>>
  BY DEF virtio_disk_rw
<1> DEFINE f == IF dfree = {} THEN pr ELSE wakeup(pr, "rw", 0)
<1>3. f \in [DProc -> ProcRec] /\ \A q \in DProc : /\ f[q].pc = pr[q].pc /\ f[q].b = pr[q].b /\ f[q].job = pr[q].job
                                                   /\ f[q].write = pr[q].write /\ f[q].idx = pr[q].idx
  BY <1>1, WakeupSame DEF DiskType
<1>4. pr' = [f EXCEPT ![p].asleep = TRUE]
  BY DEF virtio_disk_rw
<1> HIDE DEF f
<1>5. pr' \in [DProc -> ProcRec] /\ \A q \in DProc : SameProc(q)
  BY <1>3, <1>4 DEF ProcRec, SameProc
<1>6. DiskType'
  BY <1>1, <1>2, <1>5 DEF DiskType
<1>7. CacheInv'
  BY <1>2, <1>5, CacheFrame
<1>8. DriverInv'
  BY <1>2, <1>5, <1>6, DriverFrame DEF SameProc, B
<1> QED
  BY <1>6, <1>7, <1>8 DEF IInv

\* The handler starts and ends.
LEMMA HandlerStep ==
  ASSUME IInv, virtio_disk_intr \/ intr_done
  PROVE  IInv'
<1>1. DiskType
  BY DEF IInv
<1>2. UNCHANGED <<buf, lru, pr, dfree, info, avail, used, disk, latest, dpanic>> /\ dev'.busy = dev.busy
  BY <1>1 DEF virtio_disk_intr, intr_done, DiskType
<1>3. DiskType'
  BY <1>1 DEF DiskType, virtio_disk_intr, intr_done
<1>4. CacheInv'
  BY <1>2, CacheFrame DEF SameProc
<1>5. DriverInv'
  BY <1>2, <1>3, DriverFrame DEF B
<1> QED
  BY <1>3, <1>4, <1>5 DEF IInv
-----------------------------------------------------------------------------
\* Rings: an entry is added that is not in the ring yet, and the first one is taken.
LEMMA RingAdd ==
  ASSUME NEW S, NEW s \in Seq(S), NEW e \in S
  PROVE  /\ Append(s, e) \in Seq(S) /\ Len(Append(s, e)) = Len(s) + 1 /\ Len(s) \in Nat
         /\ ToSet(Append(s, e)) = ToSet(s) \cup {e}
         /\ NoTwice(s) /\ e \notin ToSet(s) => NoTwice(Append(s, e))
<1>1. /\ Append(s, e) \in Seq(S) /\ Len(Append(s, e)) = Len(s) + 1 /\ Len(s) \in Nat
      /\ \A i \in 1 .. Len(s) : Append(s, e)[i] = s[i]
      /\ Append(s, e)[Len(s) + 1] = e
  OBVIOUS
<1>2. 1 .. Len(s) + 1 = 1 .. Len(s) \cup {Len(s) + 1} /\ DOMAIN s = 1 .. Len(s) /\ DOMAIN Append(s, e) = 1 .. Len(s) + 1
  BY <1>1
<1>3. ToSet(Append(s, e)) = ToSet(s) \cup {e}
  BY <1>1, <1>2 DEF ToSet
<1>4. ASSUME NoTwice(s), e \notin ToSet(s) PROVE NoTwice(Append(s, e))
  <2>1. \A i \in 1 .. Len(s) : s[i] # e
    BY <1>2, <1>4 DEF ToSet
  <2> QED
    BY <1>1, <1>2, <1>4, <2>1 DEF NoTwice
<1> QED
  BY <1>1, <1>3, <1>4

LEMMA RingTake ==
  ASSUME NEW S, NEW s \in Seq(S), s # <<>>
  PROVE  /\ Head(s) \in S /\ Head(s) \in ToSet(s) /\ Tail(s) \in Seq(S) /\ Len(s) \in Nat /\ Len(Tail(s)) = Len(s) - 1
         /\ NoTwice(s) => NoTwice(Tail(s)) /\ ToSet(Tail(s)) = ToSet(s) \ {Head(s)}
<1>1. /\ Tail(s) \in Seq(S) /\ Len(s) \in Nat \ {0} /\ Len(Tail(s)) = Len(s) - 1
      /\ \A i \in 1 .. Len(s) - 1 : Tail(s)[i] = s[i + 1]
      /\ Head(s) = s[1] /\ 1 \in 1 .. Len(s)
  OBVIOUS
<1>2. Head(s) \in S /\ DOMAIN s = 1 .. Len(s) /\ DOMAIN Tail(s) = 1 .. Len(s) - 1
  BY <1>1
<1>3. Head(s) \in ToSet(s)
  BY <1>1, <1>2 DEF ToSet
<1>4. ASSUME NoTwice(s) PROVE NoTwice(Tail(s)) /\ ToSet(Tail(s)) = ToSet(s) \ {Head(s)}
  <2>1. \A i \in 1 .. Len(s) - 1 : i + 1 \in 1 .. Len(s) /\ i + 1 # 1
    BY <1>1
  <2>2. NoTwice(Tail(s))
    <3> SUFFICES ASSUME NEW i \in 1 .. Len(s) - 1, NEW j \in 1 .. Len(s) - 1, Tail(s)[i] = Tail(s)[j]
                 PROVE  i = j
      BY <1>1 DEF NoTwice
    <3>1. s[i + 1] = s[j + 1]
      BY <1>1
    <3>2. i + 1 = j + 1
      BY <1>4, <2>1, <3>1 DEF NoTwice
    <3> QED
      BY <3>2
  <2>3. \A i \in 1 .. Len(s) - 1 : Tail(s)[i] \in ToSet(s) /\ Tail(s)[i] # Head(s)
    BY <1>1, <1>2, <1>4, <2>1 DEF ToSet, NoTwice
  <2>4. \A i \in 1 .. Len(s) : s[i] # Head(s) => \E j \in 1 .. Len(s) - 1 : Tail(s)[j] = s[i]
    <3> SUFFICES ASSUME NEW i \in 1 .. Len(s), s[i] # Head(s) PROVE \E j \in 1 .. Len(s) - 1 : Tail(s)[j] = s[i]
      OBVIOUS
    <3>1. i - 1 \in 1 .. Len(s) - 1 /\ (i - 1) + 1 = i
      BY <1>1
    <3> QED
      BY <1>1, <3>1
  <2>5. ToSet(Tail(s)) \subseteq ToSet(s) \ {Head(s)}
    BY <1>2, <2>3 DEF ToSet
  <2>6. ToSet(s) \ {Head(s)} \subseteq ToSet(Tail(s))
    BY <1>2, <2>4 DEF ToSet
  <2> QED
    BY <2>2, <2>5, <2>6
<1> QED
  BY <1>1, <1>2, <1>3, <1>4

LEMMA FiniteDesc == IsFiniteSet(Desc)
<1>1. 0 \in Int /\ NUM - 1 \in Int
  BY NumAssumption
<1> QED
  BY <1>1, FS_Interval DEF Desc

LEMMA FiniteWaiting ==
  /\ IsFiniteSet(Waiting) /\ Cardinality(Waiting) \in Nat
  /\ IsFiniteSet(InFlight) /\ Cardinality(InFlight) \in Nat
<1>1. IsFiniteSet(Waiting) /\ IsFiniteSet(InFlight)
  BY BufAssumption, FS_Subset DEF Waiting, InFlight
<1> QED
  BY <1>1, FS_CardinalityType

\* The device takes an entry.
LEMMA DeviceTakeStep ==
  ASSUME IInv, DeviceTake
  PROVE  IInv'
<1>1. DiskType /\ CacheInv /\ DriverInv
  BY DEF IInv
<1> DEFINE h == Head(avail)
<1>2. UNCHANGED <<buf, lru, pr, dfree, info, used, vlock, disk, latest, dpanic>> /\ avail' = Tail(avail)
  BY DEF DeviceTake
<1>3. /\ h \in Desc /\ h \in ToSet(avail) /\ avail' \in Seq(Desc) /\ Len(avail) \in Nat /\ Len(avail') = Len(avail) - 1
      /\ NoTwice(avail') /\ ToSet(avail') = ToSet(avail) \ {h}
  BY <1>1, <1>2, RingTake DEF DiskType, DeviceTake, DriverInv, Once
<1>4. dev' \in [busy : SUBSET Desc, irq : BOOLEAN] /\ dev'.busy = dev.busy \cup {h}
  BY <1>1, <1>3 DEF DeviceTake, DiskType
<1> HIDE DEF h
<1>5. DiskType'
  BY <1>1, <1>2, <1>3, <1>4 DEF DiskType
<1>6. CacheInv'
  BY <1>2, CacheFrame DEF SameProc
<1>7. Waiting' = Waiting /\ InFlight' = InFlight /\ \A q \in DProc : Chain(q)' = Chain(q)
  BY <1>2 DEF Waiting, InFlight, Chain, B
<1>8. ~dpanic' /\ Chains' /\ Apart' /\ Kept' /\ Counted' /\ Status'
  <2>1. ~dpanic' /\ Counted' /\ Status'
    BY <1>1, <1>2, <1>7 DEF DriverInv, Counted, Status
  <2>2. Chains'
    BY <1>1, <1>2, <1>7 DEF DriverInv, Chains, ChainOf, Waiting
  <2>3. Apart' /\ Kept'
    BY <1>1, <1>2, <1>7 DEF DriverInv, Apart, Kept, Waiting
  <2> QED
    BY <2>1, <2>2, <2>3
<1>9. Rings' /\ Once'
  BY <1>1, <1>2, <1>3, <1>4, <1>7 DEF DriverInv, Rings, Once
<1>10. Load'
  <2>1. IsFiniteSet(dev.busy) /\ h \notin dev.busy
    <3>1. dev.busy \subseteq Desc
      BY <1>1 DEF DiskType
    <3>2. h \notin dev.busy
      BY <1>1, <1>3 DEF DriverInv, Once
    <3> QED
      BY <3>1, <3>2, FiniteDesc, FS_Subset
  <2>2. Cardinality(dev.busy \cup {h}) = Cardinality(dev.busy) + 1 /\ Cardinality(dev.busy) \in Nat
    BY <2>1, FS_AddElement, FS_CardinalityType
  <2>3. Len(used) \in Nat
    BY <1>1 DEF DiskType
  <2> QED
    BY <1>1, <1>2, <1>3, <1>4, <1>7, <2>2, <2>3 DEF DriverInv, Load
<1> QED
  BY <1>5, <1>6, <1>8, <1>9, <1>10 DEF IInv, DriverInv

\* Waiting processes have chains with different heads, and their own buffers.
LEMMA HeadInChain ==
  ASSUME IInv
  PROVE  \A q \in Waiting : pr[q].idx \in Chain(q)
<1>1. \A q \in Waiting : 1 \in DOMAIN info[pr[q].idx].ids /\ info[pr[q].idx].ids[1] = pr[q].idx
  BY DEF IInv, DriverInv, Chains, ChainOf, DiskType, InfoRec
<1> QED
  BY <1>1 DEF Chain, ToSet

LEMMA OneHead ==
  ASSUME IInv, NEW p \in Waiting, NEW q \in Waiting, p # q
  PROVE  pr[p].idx # pr[q].idx /\ pr[p].b # pr[q].b
<1>1. pr[p].idx \in Chain(p) /\ pr[q].idx \in Chain(q)
  BY HeadInChain
<1>2. pr[p].idx # pr[q].idx
  BY <1>1 DEF IInv, DriverInv, Apart
<1>3. pr[p].b # pr[q].b
  BY OneHolder DEF Waiting, Holding
<1> QED
  BY <1>2, <1>3

\* The handler reports a finished request.
LEMMA ReportStep ==
  ASSUME IInv, intr_used
  PROVE  IInv'
<1>1. /\ DiskType /\ Listed /\ OneBuffer /\ HasBuffer /\ Holders /\ Refs /\ FewPins
      /\ Contents /\ Held /\ Clean /\ Transferred
  BY DEF IInv, CacheInv
<1>2. DriverInv
  BY DEF IInv
<1> DEFINE id == Head(used)
<1>3. /\ UNCHANGED <<lru, dfree, info, avail, dev, vlock, disk, latest>> /\ used' = Tail(used)
      /\ pr' = wakeup(pr, "wait", info[id].b)
  BY DEF intr_used
<1>4. /\ id \in Desc /\ id \in ToSet(used) /\ used' \in Seq(Desc) /\ Len(used) \in Nat /\ Len(used') = Len(used) - 1
      /\ NoTwice(used') /\ ToSet(used') = ToSet(used) \ {id}
  BY <1>1, <1>2, <1>3, RingTake DEF DiskType, intr_used, DriverInv, Once
<1>5. pr' \in [DProc -> ProcRec] /\ \A q \in DProc : SameProc(q)
  BY <1>1, <1>3, WakeupSame DEF DiskType, SameProc
<1>6. PICK p \in InFlight : pr[p].idx = id
  BY <1>2, <1>4 DEF DriverInv, Rings
<1>7. PICK b \in Buf : b = pr[p].b
  BY <1>1, <1>6 DEF HasBuffer, InFlight, Waiting
<1>8. p \in DProc /\ p \in Waiting /\ pr[p].pc = "wait" /\ info[id].b = b /\ info[id].status = 0
  BY <1>2, <1>4, <1>6, <1>7 DEF InFlight, Waiting, DriverInv, Chains, ChainOf, Status
<1>9. buf' = [buf EXCEPT ![b].disk = FALSE] /\ ~dpanic'
  <2>1. b # 0
    BY DEF Buf
  <2> QED
    BY <1>2, <1>8, <2>1 DEF intr_used, DriverInv
<1> HIDE DEF id
<1> DEFINE x == buf[b]
<1>10. OtherBufs(b) /\ BufIs(b, x.blk, x.valid, FALSE, x.refcnt, x.pins, x.data, x.holder) /\ buf' \in [Buf -> BufRec]
  <2>1. x \in BufRec /\ buf' = [buf EXCEPT ![b] = [x EXCEPT !.disk = FALSE]]
    BY <1>1, <1>9 DEF DiskType
  <2>2. [x EXCEPT !.disk = FALSE] \in BufRec
    BY <2>1 DEF BufRec
  <2>3. OtherBufs(b) /\ buf' \in [Buf -> BufRec] /\ buf'[b] = [x EXCEPT !.disk = FALSE]
    BY <1>1, <2>1, <2>2 DEF DiskType, OtherBufs
  <2> HIDE DEF x
  <2> QED
    BY <2>1, <2>3 DEF BufIs, BufRec
<1>11. DiskType'
  BY <1>1, <1>3, <1>4, <1>5, <1>10 DEF DiskType
<1>12. \A c \in Buf : Users(c)' = Users(c)
  BY <1>5 DEF Users, SameProc
<1>13. \A c \in Buf : /\ buf'[c].blk = buf[c].blk /\ buf'[c].valid = buf[c].valid /\ buf'[c].refcnt = buf[c].refcnt
                      /\ buf'[c].pins = buf[c].pins /\ buf'[c].data = buf[c].data /\ buf'[c].holder = buf[c].holder
  BY <1>10 DEF OtherBufs, BufIs
<1>14. Listed' /\ OneBuffer' /\ HasBuffer' /\ Holders'
  <2>1. Listed' /\ OneBuffer'
    BY <1>1, <1>3, <1>13 DEF Listed, OneBuffer
  <2>2. HasBuffer'
    BY <1>1, <1>5, <1>13 DEF HasBuffer, SameProc, B
  <2>3. Holders'
    BY <1>1, <1>5, <1>13 DEF Holders, SameProc
  <2> QED
    BY <2>1, <2>2, <2>3
<1>15. Refs' /\ Contents'
  BY <1>1, <1>3, <1>12, <1>13 DEF Refs, Contents
<1>16. FewPins'
  BY <1>1, <1>13, FewPinsKept
<1>17. Held'
  <2>1. \A q \in DProc : pr[q].pc # "idle" => B(q)'.valid = B(q).valid /\ B(q)'.pins = B(q).pins
    BY <1>1, <1>5, <1>13 DEF HasBuffer, SameProc, B
  <2> QED
    BY <1>1, <1>5, <2>1 DEF Held, HeldBy, SameProc
<1>18. Clean'
  BY <1>1, <1>3, <1>5, <1>13 DEF Clean, Dirty, SameProc
<1>19. Transferred'
  <2>1. \A q \in DProc : pr[q].pc # "idle" => B(q)'.data = B(q).data /\ B(q)'.blk = B(q).blk
    BY <1>1, <1>5, <1>13 DEF HasBuffer, SameProc, B
  <2>2. \A q \in DProc : pr[q].pc # "idle" /\ q # p /\ pr[q].pc = "wait" => B(q)' = B(q)
    BY <1>1, <1>5, <1>7, <1>8, <1>10, OneHead DEF HasBuffer, SameProc, OtherBufs, B, Waiting
  <2>3. Moved(p)
    BY <1>4, <1>6, <1>8 DEF Moved
  <2>4. \A q \in DProc : Moved(q)' => Moved(q)
    BY <1>4, <1>5, <2>2, <2>3 DEF Moved, SameProc
  <2> QED
    BY <1>1, <1>3, <1>5, <2>1, <2>4 DEF Transferred, SameProc, Moved
<1>20. Waiting' = Waiting /\ \A q \in DProc : Chain(q)' = Chain(q)
  BY <1>3, <1>5 DEF Waiting, Chain, SameProc
<1>21. ~dpanic' /\ Chains' /\ Apart' /\ Kept' /\ Counted' /\ Status'
  <2>1. ~dpanic' /\ Counted' /\ Status'
    BY <1>2, <1>3, <1>4, <1>9, <1>20 DEF DriverInv, Counted, Status
  <2>2. Chains'
    BY <1>2, <1>3, <1>5, <1>20 DEF DriverInv, Chains, ChainOf, Waiting, SameProc
  <2>3. Apart' /\ Kept'
    BY <1>2, <1>3, <1>20 DEF DriverInv, Apart, Kept, Waiting
  <2> QED
    BY <2>1, <2>2, <2>3
<1>22. Once'
  BY <1>2, <1>3, <1>4 DEF DriverInv, Once
<1>23. InFlight' = InFlight \ {p}
  <2>1. \A q \in Waiting : q # p => B(q)' = B(q)
    BY <1>1, <1>5, <1>7, <1>8, <1>10, OneHead DEF HasBuffer, SameProc, OtherBufs, B, Waiting
  <2>2. ~B(p)'.disk
    BY <1>5, <1>7, <1>8, <1>10 DEF BufIs, SameProc, B
  <2> QED
    BY <1>8, <1>20, <2>1, <2>2 DEF InFlight
<1>24. Rings'
  <2> SUFFICES ASSUME NEW d \in dev.busy \cup ToSet(avail) \cup ToSet(used'), TRUE
               PROVE  \E q \in InFlight' : pr'[q].idx = d
    BY <1>3 DEF Rings
  <2>1. d # id
    BY <1>2, <1>4 DEF DriverInv, Once
  <2>2. PICK q \in InFlight : pr[q].idx = d
    BY <1>2, <1>4 DEF DriverInv, Rings
  <2> QED
    BY <1>5, <1>6, <1>23, <2>1, <2>2 DEF SameProc, InFlight, Waiting
<1>25. Load'
  <2>1. Cardinality(InFlight \ {p}) = Cardinality(InFlight) - 1
    BY <1>6, FiniteWaiting, FS_RemoveElement
  <2>2. Len(avail) \in Nat
    BY <1>1 DEF DiskType
  <2>3. Cardinality(dev.busy) \in Nat
    BY <1>1, FiniteDesc, FS_Subset, FS_CardinalityType DEF DiskType
  <2> QED
    BY <1>2, <1>3, <1>4, <1>23, <2>1, <2>2, <2>3, FiniteWaiting DEF DriverInv, Load
<1> QED
  BY <1>11, <1>14, <1>15, <1>16, <1>17, <1>18, <1>19, <1>21, <1>22, <1>24, <1>25 DEF IInv, CacheInv, DriverInv

\* The device finishes a request: what it moves is the latest contents of the block.
LEMMA FinishStep ==
  ASSUME IInv, NEW head \in Desc, DeviceFinish(head)
  PROVE  IInv'
<1>1. /\ DiskType /\ Listed /\ OneBuffer /\ HasBuffer /\ Holders /\ Refs /\ FewPins
      /\ Contents /\ Held /\ Clean /\ Transferred
  BY DEF IInv, CacheInv
<1>2. DriverInv
  BY DEF IInv
<1>3. UNCHANGED <<lru, pr, dfree, avail, vlock, latest, dpanic>> /\ used' = Append(used, head) /\ head \in dev.busy
  BY DEF DeviceFinish
<1>4. PICK p \in InFlight : pr[p].idx = head
  BY <1>2, <1>3 DEF DriverInv, Rings
<1>5. PICK b \in Buf : b = pr[p].b
  BY <1>1, <1>4 DEF HasBuffer, InFlight, Waiting
<1> DEFINE x == buf[b]
<1>6. /\ p \in DProc /\ p \in Waiting /\ pr[p].pc = "wait" /\ info[head].b = b /\ info[head].write = pr[p].write
      /\ x.disk /\ x.blk \in Block /\ (x.valid <=> pr[p].write)
  BY <1>1, <1>2, <1>4, <1>5 DEF InFlight, Waiting, DriverInv, Chains, ChainOf, HasBuffer, Held, HeldBy, B
<1>7. /\ head \notin ToSet(avail) /\ head \notin ToSet(used)
      /\ used' \in Seq(Desc) /\ Len(used) \in Nat /\ Len(used') = Len(used) + 1
      /\ NoTwice(used') /\ ToSet(used') = ToSet(used) \cup {head}
  BY <1>1, <1>2, <1>3, RingAdd DEF DiskType, DriverInv, Once
<1>8. dev' \in [busy : SUBSET Desc, irq : BOOLEAN] /\ dev'.busy = dev.busy \ {head}
  BY <1>1 DEF DeviceFinish, DiskType
<1>9. /\ info' \in [Desc -> InfoRec] /\ info'[head].status = 0
      /\ \A d \in Desc : /\ info'[d].b = info[d].b /\ info'[d].ids = info[d].ids /\ info'[d].write = info[d].write
                         /\ d # head => info'[d].status = info[d].status
  <2>1. info' = [info EXCEPT ![head] = [info[head] EXCEPT !.status = 0]] /\ info[head] \in InfoRec
    BY <1>1 DEF DeviceFinish, DiskType
  <2>2. [info[head] EXCEPT !.status = 0] \in InfoRec
    BY <2>1 DEF InfoRec
  <2> QED
    BY <1>1, <2>1, <2>2 DEF DiskType, InfoRec
<1>10. b # 0
  BY DEF Buf
<1>11. /\ x \in BufRec
       /\ pr[p].write => buf' = buf /\ disk' = [disk EXCEPT ![x.blk] = x.data]
       /\ ~pr[p].write => disk' = disk /\ buf' = [buf EXCEPT ![b].data = disk[x.blk]]
  BY <1>1, <1>6, <1>10 DEF DeviceFinish, DiskType
<1>12. /\ OtherBufs(b) /\ buf' \in [Buf -> BufRec]
       /\ BufIs(b, x.blk, x.valid, x.disk, x.refcnt, x.pins, IF pr[p].write THEN x.data ELSE disk[x.blk], x.holder)
  <2>1. CASE pr[p].write
    BY <1>1, <1>11, <2>1 DEF DiskType, OtherBufs, BufIs
  <2>2. CASE ~pr[p].write
    <3>1. disk[x.blk] \in Nat
      BY <1>1, <1>6 DEF DiskType
    <3> DEFINE v == disk[x.blk]
    <3>2. buf' = [buf EXCEPT ![b] = [x EXCEPT !.data = v]]
      BY <1>1, <1>11, <2>2 DEF DiskType
    <3> HIDE DEF v, x
    <3>3. [x EXCEPT !.data = v] \in BufRec
      BY <1>11, <3>1 DEF BufRec, v
    <3>4. OtherBufs(b) /\ buf' \in [Buf -> BufRec] /\ buf'[b] = [x EXCEPT !.data = v]
      BY <1>1, <3>2, <3>3 DEF DiskType, OtherBufs
    <3>5. BufIs(b, x.blk, x.valid, x.disk, x.refcnt, x.pins, v, x.holder)
      BY <1>11, <3>4 DEF BufIs, BufRec
    <3> QED
      BY <2>2, <3>4, <3>5 DEF v
  <2> QED
    BY <2>1, <2>2
<1>13. disk' \in [Block -> Nat] /\ (\A k \in Block : k # x.blk => disk'[k] = disk[k])
  <2>1. x.data \in Nat
    BY <1>11 DEF BufRec
  <2> QED
    BY <1>1, <1>11, <2>1 DEF DiskType
\* A block that is read is not dirty, and one that is written has valid contents.
<1>14. IF pr[p].write THEN x.data = latest[x.blk] /\ disk'[x.blk] = latest[x.blk]
       ELSE disk'[x.blk] = disk[x.blk] /\ disk[x.blk] = latest[x.blk]
  <2>1. CASE pr[p].write
    BY <1>1, <1>6, <1>11, <2>1 DEF Contents, DiskType
  <2>2. CASE ~pr[p].write
    <3>1. \A q \in DProc : pr[q].b = b => ~pr[q].write
      BY <1>1, <1>5, <1>6, <2>2, OneHead DEF Held, HeldBy, Waiting, Holders, Holding
    <3>2. ~Dirty(b)
      BY <1>1, <1>6, <2>2, <3>1 DEF Dirty, Contents
    <3>3. \A c \in Buf : buf[c].blk = x.blk => c = b
      BY <1>1, <1>6, NameAssumption DEF OneBuffer, NoBlock
    <3> QED
      BY <1>1, <1>6, <1>11, <2>2, <3>2, <3>3 DEF Clean
  <2> QED
    BY <2>1, <2>2
<1>15. DiskType'
  BY <1>1, <1>3, <1>7, <1>8, <1>9, <1>12, <1>13 DEF DiskType
<1>16. \A c \in Buf : /\ buf'[c].blk = buf[c].blk /\ buf'[c].valid = buf[c].valid /\ buf'[c].refcnt = buf[c].refcnt
                      /\ buf'[c].pins = buf[c].pins /\ buf'[c].holder = buf[c].holder /\ buf'[c].disk = buf[c].disk
                      /\ c # b => buf'[c].data = buf[c].data
  BY <1>12 DEF OtherBufs, BufIs
<1>17. Listed' /\ OneBuffer' /\ HasBuffer' /\ Holders'
  <2>1. Listed' /\ OneBuffer'
    BY <1>1, <1>3, <1>16 DEF Listed, OneBuffer
  <2>2. HasBuffer'
    BY <1>1, <1>3, <1>16 DEF HasBuffer, B
  <2>3. Holders'
    BY <1>1, <1>3, <1>16 DEF Holders
  <2> QED
    BY <2>1, <2>2, <2>3
<1>18. Refs'
  BY <1>1, <1>3, <1>16 DEF Refs, Users
<1>19. FewPins'
  BY <1>1, <1>16, FewPinsKept
<1>20. Contents'
  <2>1. buf'[b].valid => buf'[b].data = latest[x.blk]
    BY <1>6, <1>12, <1>14 DEF BufIs
  <2> QED
    BY <1>1, <1>3, <1>16, <2>1 DEF Contents
<1>21. Held'
  <2>1. \A q \in DProc : pr[q].pc # "idle" => B(q)'.valid = B(q).valid /\ B(q)'.pins = B(q).pins
    BY <1>1, <1>3, <1>16 DEF HasBuffer, B
  <2> QED
    BY <1>1, <1>3, <2>1 DEF Held, HeldBy
<1>22. Clean'
  <2>1. \A k \in Block : disk'[k] = disk[k] \/ disk'[k] = latest[k]
    BY <1>13, <1>14
  <2>2. \A c \in Buf : Dirty(c) => Dirty(c)'
    BY <1>3, <1>16 DEF Dirty
  <2> QED
    BY <1>1, <1>3, <1>16, <2>1, <2>2 DEF Clean
<1>23. Transferred'
  <2>1. \A q \in Waiting : q # p => B(q)' = B(q) /\ (Moved(q)' => Moved(q))
    BY <1>1, <1>3, <1>4, <1>5, <1>6, <1>7, <1>12, OneHead DEF HasBuffer, OtherBufs, B, Waiting, Moved
  <2>2. \A k \in Block : disk[k] = latest[k] => disk'[k] = latest[k]
    BY <1>13, <1>14
  <2>3. \A q \in DProc : pr[q].pc # "idle" => B(q).blk \in Block /\ B(q)'.blk = B(q).blk
    BY <1>1, <1>3, <1>16 DEF HasBuffer, B
  <2>4. IF pr[p].write THEN disk'[B(p)'.blk] = latest[B(p)'.blk] ELSE B(p)'.data = latest[B(p)'.blk]
    BY <1>3, <1>5, <1>12, <1>14 DEF B, BufIs
  <2> QED
    BY <1>1, <1>3, <2>1, <2>2, <2>3, <2>4 DEF Transferred, Moved, Waiting
<1>24. Waiting' = Waiting /\ InFlight' = InFlight
  BY <1>1, <1>3, <1>16 DEF Waiting, InFlight, B, HasBuffer
<1>25. \A q \in Waiting : pr[q].idx \in Desc /\ Chain(q)' = Chain(q)
  BY <1>2, <1>3, <1>9 DEF Chain, DriverInv, Chains, ChainOf
<1>26. ~dpanic' /\ Chains' /\ Apart' /\ Kept' /\ Counted' /\ Status'
  <2>1. ~dpanic' /\ Counted'
    BY <1>2, <1>3, <1>24 DEF DriverInv, Counted
  <2>2. Status'
    <3>1. ToSet(used) \subseteq Desc
      BY <1>1 DEF DiskType, ToSet
    <3> QED
      BY <1>2, <1>7, <1>9, <3>1 DEF DriverInv, Status
  <2>3. Chains'
    BY <1>2, <1>3, <1>9, <1>24, <1>25 DEF DriverInv, Chains, ChainOf
  <2>4. Apart' /\ Kept'
    BY <1>2, <1>3, <1>24, <1>25 DEF DriverInv, Apart, Kept
  <2> QED
    BY <2>1, <2>2, <2>3, <2>4
<1>27. Rings' /\ Once'
  BY <1>2, <1>3, <1>7, <1>8, <1>24 DEF DriverInv, Rings, Once
<1>28. Load'
  <2>1. IsFiniteSet(dev.busy)
    BY <1>1, FiniteDesc, FS_Subset DEF DiskType
  <2>2. Cardinality(dev.busy \ {head}) = Cardinality(dev.busy) - 1 /\ Cardinality(dev.busy) \in Nat
    BY <1>3, <2>1, FS_RemoveElement, FS_CardinalityType
  <2>3. Len(avail) \in Nat
    BY <1>1 DEF DiskType
  <2> QED
    BY <1>2, <1>3, <1>7, <1>8, <1>24, <2>2, <2>3, FiniteWaiting DEF DriverInv, Load
<1> QED
  BY <1>15, <1>17, <1>18, <1>19, <1>20, <1>21, <1>22, <1>23, <1>26, <1>27, <1>28 DEF IInv, CacheInv, DriverInv

\* alloc3_desc() returns three different free descriptors.
LEMMA AllocThree ==
  ASSUME dfree \subseteq Desc, Cardinality(dfree) >= 3
  PROVE  \E i, j, k \in dfree : alloc3_desc = <<i, j, k>> /\ i # j /\ j # k /\ i # k
<1> DEFINE i == Min(dfree)
           j == Min(dfree \ {i})
           k == Min(dfree \ {i, j})
<1>1. IsFiniteSet(dfree) /\ dfree \subseteq Int /\ Cardinality(dfree) \in Nat
  <2>1. Desc \subseteq Int
    BY NumAssumption DEF Desc
  <2>2. IsFiniteSet(dfree)
    BY FiniteDesc, FS_Subset
  <2> QED
    BY <2>1, <2>2, FS_CardinalityType
<1>2. dfree # {}
  BY FS_EmptySet
<1>3. i \in dfree
  BY <1>1, <1>2, MinInSet
<1> HIDE DEF i
<1>4. IsFiniteSet(dfree \ {i}) /\ Cardinality(dfree \ {i}) = Cardinality(dfree) - 1
  BY <1>1, <1>3, FS_RemoveElement
<1>5. dfree \ {i} # {}
  BY <1>1, <1>4, FS_EmptySet
<1>6. j \in dfree \ {i}
  BY <1>1, <1>4, <1>5, MinInSet
<1> HIDE DEF j
<1>7. /\ dfree \ {i, j} = (dfree \ {i}) \ {j}
      /\ IsFiniteSet((dfree \ {i}) \ {j}) /\ Cardinality((dfree \ {i}) \ {j}) = Cardinality(dfree \ {i}) - 1
  BY <1>4, <1>6, FS_RemoveElement
<1>8. dfree \ {i, j} # {}
  BY <1>1, <1>4, <1>7, FS_EmptySet
<1>9. k \in dfree \ {i, j}
  <2>1. IsFiniteSet(dfree \ {i, j}) /\ dfree \ {i, j} \subseteq Int
    BY <1>1, <1>7
  <2> QED
    BY <1>8, <2>1, MinInSet
<1> HIDE DEF k
<1>10. alloc3_desc = <<i, j, k>>
  BY DEF alloc3_desc, alloc_desc, i, j, k
<1> QED
  BY <1>3, <1>6, <1>9, <1>10

\* Taking three elements out of a finite set, and putting three into it.
LEMMA TakeThree ==
  ASSUME NEW S, IsFiniteSet(S), NEW i, NEW j, NEW k, i \in S, j \in S, k \in S, i # j, j # k, i # k
  PROVE  IsFiniteSet(S \ {i, j, k}) /\ Cardinality(S \ {i, j, k}) = Cardinality(S) - 3
<1>1. IsFiniteSet(S \ {i}) /\ Cardinality(S \ {i}) = Cardinality(S) - 1
  BY FS_RemoveElement
<1>2. IsFiniteSet((S \ {i}) \ {j}) /\ Cardinality((S \ {i}) \ {j}) = Cardinality(S \ {i}) - 1
  BY <1>1, FS_RemoveElement
<1>3. /\ IsFiniteSet(((S \ {i}) \ {j}) \ {k})
      /\ Cardinality(((S \ {i}) \ {j}) \ {k}) = Cardinality((S \ {i}) \ {j}) - 1
  BY <1>2, FS_RemoveElement
<1>4. ((S \ {i}) \ {j}) \ {k} = S \ {i, j, k}
  OBVIOUS
<1>5. Cardinality(S) \in Nat
  BY FS_CardinalityType
<1> DEFINE a == Cardinality(S \ {i})
           c == Cardinality((S \ {i}) \ {j})
           d == Cardinality(((S \ {i}) \ {j}) \ {k})
           n == Cardinality(S)
<1>6. a = n - 1 /\ c = a - 1 /\ d = c - 1 /\ n \in Nat
  BY <1>1, <1>2, <1>3, <1>5
<1>7. d = n - 3
  <2> HIDE DEF a, c, d, n
  <2> QED
    BY <1>6
<1> QED
  BY <1>3, <1>4, <1>7

\* A request is put on the ring.
LEMMA RequestStep ==
  ASSUME IInv, NEW p \in DProc, virtio_disk_rw(p), Cardinality(dfree) >= 3
  PROVE  IInv'
<1> DEFINE b == pr[p].b
           x == buf[b]
<1>1. /\ DiskType /\ Listed /\ OneBuffer /\ HasBuffer /\ Holders /\ Refs /\ FewPins
      /\ Contents /\ Held /\ Clean /\ Transferred
  BY DEF IInv, CacheInv
<1>2. pr[p].pc = "rw" /\ b \in Buf /\ x.blk \in Block
  BY <1>1 DEF virtio_disk_rw, At, HasBuffer, Held, HeldBy, Refs, B
<1>3. OtherProcs(p) /\ ProcIs(p, "wait", b, pr[p].job, pr[p].write, alloc3_desc[1])
  BY <1>1 DEF virtio_disk_rw, OtherProcs, SameProc, DiskType, ProcIs, ProcRec
<1>4. OtherBufs(b) /\ BufIs(b, x.blk, x.valid, TRUE, x.refcnt, x.pins, x.data, x.holder)
  <2>1. buf' = [buf EXCEPT ![b].disk = TRUE]
    BY DEF virtio_disk_rw
  <2> QED
    BY <1>1, <1>2, <2>1 DEF OtherBufs, DiskType, BufIs, BufRec
<1>5. UNCHANGED <<lru, used, dev, vlock, disk, latest, dpanic>>
  BY DEF virtio_disk_rw
<1>6. PICK i \in dfree, j \in dfree, k \in dfree : alloc3_desc = <<i, j, k>> /\ i # j /\ j # k /\ i # k
  BY <1>1, AllocThree DEF DiskType
<1>7. /\ i \in Desc /\ j \in Desc /\ k \in Desc /\ ToSet(<<i, j, k>>) = {i, j, k} /\ <<i, j, k>> \in Seq(Desc)
      /\ dfree' = dfree \ {i, j, k} /\ avail' = Append(avail, i)
      /\ info' = [info EXCEPT ![i] = [b |-> b, ids |-> <<i, j, k>>, write |-> pr[p].write, status |-> 255]]
  <2>1. i \in Desc /\ j \in Desc /\ k \in Desc
    BY <1>1 DEF DiskType
  <2>2. ToSet(<<i, j, k>>) = {i, j, k}
    BY DEF ToSet
  <2>3. <<i, j, k>> \in Seq(Desc)
    BY <2>1
  <2> QED
    BY <1>6, <2>1, <2>2, <2>3 DEF virtio_disk_rw
<1>8. info' \in [Desc -> InfoRec] /\ avail' \in Seq(Desc) /\ dfree' \subseteq Desc
  <2>1. [b |-> b, ids |-> <<i, j, k>>, write |-> pr[p].write, status |-> 255] \in InfoRec
    <3>1. b \in 0 .. NBUF /\ pr[p].write \in BOOLEAN
      BY <1>1 DEF DiskType, ProcRec
    <3> QED
      BY <1>7, <3>1 DEF InfoRec
  <2> QED
    BY <1>1, <1>7, <2>1, RingAdd DEF DiskType
<1>9. \A c \in Buf : Users(c)' = Users(c)
  BY <1>2, <1>3, UsersSame DEF ProcIs
<1>10. DiskType'
  <2>1. pr' \in [DProc -> ProcRec]
    <3>1. pr[p] \in ProcRec /\ i \in Nat
      BY <1>1, <1>7, NumAssumption DEF DiskType, Desc
    <3>2. pr' = [pr EXCEPT ![p] = [pr[p] EXCEPT !.pc = "wait", !.idx = i, !.asleep = TRUE]]
      <4>1. pr' = [pr EXCEPT ![p].pc = "wait", ![p].idx = i, ![p].asleep = TRUE]
        BY <1>6 DEF virtio_disk_rw
      <4> QED
        BY <1>1, <4>1 DEF DiskType
    <3>3. [pr[p] EXCEPT !.pc = "wait", !.idx = i, !.asleep = TRUE] \in ProcRec
      BY <3>1 DEF ProcRec, DiskPCs
    <3> QED
      BY <1>1, <3>2, <3>3 DEF DiskType
  <2>2. buf' \in [Buf -> BufRec]
    <3>1. x \in BufRec /\ buf' = [buf EXCEPT ![b] = buf'[b]] /\ buf'[b] = [x EXCEPT !.disk = TRUE]
      BY <1>1, <1>2 DEF virtio_disk_rw, DiskType, B
    <3> HIDE DEF b, x
    <3>2. buf'[b] \in BufRec
      BY <1>2, <3>1 DEF BufRec
    <3> QED
      BY <1>1, <1>2, <3>1, <3>2 DEF DiskType
  <2> QED
    BY <1>8, <1>1, <1>5, <2>1, <2>2 DEF DiskType
<1>11. \A q \in DProc : q # p /\ pr[q].pc \in Holding => pr[q].b # b
  BY <1>2, OneHolder DEF Holding
\* A free descriptor is in no chain and in no ring.
<1>12. DriverInv
  BY DEF IInv
<1>13. /\ p \notin Waiting /\ Waiting' = Waiting \cup {p}
      /\ \A q \in Waiting : q # p /\ SameProc(q) /\ B(q)' = B(q) /\ pr[q].idx \in Chain(q) /\ pr[q].idx \notin dfree
  <2>1. \A q \in Waiting : pr[q].idx \in Chain(q)
    BY HeadInChain
  <2>2. \A q \in Waiting : pr[q].idx \notin dfree
    BY <1>12, <2>1 DEF DriverInv, Chains, ChainOf
  <2>3. p \notin Waiting /\ Waiting' = Waiting \cup {p}
    BY <1>2, <1>3 DEF Waiting, OtherProcs, SameProc, ProcIs
  <2>4. \A q \in Waiting : q # p /\ SameProc(q) /\ B(q)' = B(q)
    BY <1>1, <1>2, <1>3, <1>4, <1>11 DEF Waiting, HasBuffer, Holding, OtherProcs, OtherBufs, SameProc, B
  <2> QED
    BY <2>1, <2>2, <2>3, <2>4
<1>14. i \notin dev.busy \cup ToSet(avail) \cup ToSet(used)
  BY <1>12, <1>13 DEF DriverInv, Rings, InFlight
<1>15. Listed' /\ OneBuffer'
  BY <1>1, <1>2, <1>4, <1>5 DEF Listed, OneBuffer, OtherBufs, BufIs
<1>16. HasBuffer' /\ Holders'
  BY <1>1, <1>2, <1>3, <1>4 DEF HasBuffer, Holders, Holding, OtherProcs, OtherBufs, SameProc, B, BufIs, ProcIs
<1>17. Refs'
  BY <1>1, <1>2, <1>4, <1>9, FiniteUsers DEF Refs, OtherBufs, BufIs
<1>18. FewPins'
  BY <1>1, <1>2, <1>4, FewPinsKept DEF OtherBufs, BufIs
<1>19. Contents'
  BY <1>1, <1>2, <1>4, <1>5 DEF Contents, OtherBufs, BufIs
<1>20. Held'
  <2>1. \A q \in DProc : q # p /\ pr[q].pc \in Holding => B(q)' = B(q)
    BY <1>1, <1>3, <1>4, <1>11 DEF HasBuffer, Holding, OtherProcs, OtherBufs, SameProc, B
  <2>2. \A q \in DProc : q # p => HeldBy(q)'
    BY <1>1, <1>3, <2>1 DEF Held, HeldBy, Holding, OtherProcs, SameProc
  <2>3. HeldBy(p)'
    BY <1>1, <1>2, <1>3, <1>4 DEF Held, HeldBy, ProcIs, BufIs, B
  <2> QED
    BY <2>2, <2>3 DEF Held
<1>21. Clean'
  BY <1>1, <1>2, <1>3, <1>4, <1>5 DEF Clean, Dirty, Transferred, Held, HeldBy, OtherProcs, OtherBufs, SameProc, B, BufIs, ProcIs
<1>22. Transferred'
  <2>1. \A q \in DProc : q # p /\ pr[q].pc \in Holding => B(q)' = B(q)
    BY <1>1, <1>3, <1>4, <1>11 DEF HasBuffer, Holding, OtherProcs, OtherBufs, SameProc, B
  <2>2. ~Moved(p)'
    <3>1. i \notin ToSet(used)
      BY <1>14
    <3> QED
      BY <1>3, <1>4, <1>5, <1>6, <3>1 DEF Moved, ProcIs, BufIs, B
  <2> QED
    BY <1>1, <1>3, <1>5, <2>1, <2>2 DEF Transferred, Moved, Holding, OtherProcs, SameProc, ProcIs
<1>23. DriverInv'
  <2>1. \A q \in Waiting : info'[pr'[q].idx] = info[pr[q].idx] /\ Chain(q)' = Chain(q)
    BY <1>1, <1>13, <1>7 DEF SameProc, Chain, DiskType
  <2>2. Chain(p)' = {i, j, k} /\ pr'[p].idx = i /\ pr'[p].b = b /\ pr'[p].write = pr[p].write
    BY <1>1, <1>3, <1>6, <1>7 DEF Chain, ProcIs, DiskType
  <2>3. ~dpanic'
    BY <1>5, <1>12 DEF DriverInv
  <2>4. Chains'
    <3>1. \A q \in Waiting : ChainOf(q)'
      BY <1>12, <1>13, <1>7, <2>1 DEF DriverInv, Chains, ChainOf, SameProc
    <3>2. info'[i] = [b |-> b, ids |-> <<i, j, k>>, write |-> pr[p].write, status |-> 255]
      BY <1>1, <1>7 DEF DiskType
    <3>3. ChainOf(p)'
      BY <1>6, <1>7, <2>2, <3>2 DEF ChainOf
    <3> QED
      BY <1>13, <3>1, <3>3 DEF Chains
  <2>5. Apart'
    <3>1. \A q \in Waiting : Chain(q) \cap dfree = {}
      BY <1>12 DEF DriverInv, Chains, ChainOf
    <3>2. \A q \in Waiting : Chain(q)' \cap Chain(p)' = {}
      BY <2>1, <2>2, <3>1
    <3> QED
      BY <1>12, <1>13, <2>1, <3>2 DEF DriverInv, Apart
  <2>6. Kept'
    BY <1>12, <1>13, <1>7, <2>1, <2>2 DEF DriverInv, Kept
  <2>7. Counted'
    <3>1. IsFiniteSet(dfree)
      BY <1>1, FiniteDesc, FS_Subset DEF DiskType
    <3>2. Cardinality(dfree') = Cardinality(dfree) - 3 /\ Cardinality(dfree) \in Nat
      BY <1>6, <1>7, <3>1, TakeThree, FS_CardinalityType
    <3>3. Cardinality(Waiting') = Cardinality(Waiting) + 1
      BY <1>13, FiniteWaiting, FS_AddElement
    <3> QED
      BY <1>12, <3>2, <3>3, FiniteWaiting, NumAssumption DEF DriverInv, Counted
  <2>8. InFlight' = InFlight \cup {p} /\ p \notin InFlight
    <3>1. B(p)'.disk
      BY <1>3, <1>4 DEF ProcIs, BufIs, B
    <3> QED
      BY <1>13, <3>1 DEF InFlight
  <2>9. /\ ToSet(avail') = ToSet(avail) \cup {i} /\ NoTwice(avail') /\ Len(avail') = Len(avail) + 1
        /\ Len(avail) \in Nat /\ Len(used) \in Nat
    BY <1>1, <1>12, <1>7, <1>14, RingAdd DEF DiskType, DriverInv, Once
  <2>10. Rings'
    <3>1. \A d \in dev.busy \cup ToSet(avail) \cup ToSet(used) : \E q \in InFlight' : pr'[q].idx = d
      BY <1>12, <1>13, <2>8 DEF DriverInv, Rings, InFlight, SameProc
    <3> QED
      BY <1>5, <2>2, <2>8, <2>9, <3>1 DEF Rings
  <2>11. Once'
    BY <1>12, <1>5, <1>14, <2>9 DEF DriverInv, Once
  <2>12. Status'
    <3>1. \A d \in ToSet(used) : d # i /\ d \in Desc
      BY <1>1, <1>14 DEF DiskType, ToSet
    <3> QED
      BY <1>1, <1>12, <1>5, <1>7, <3>1 DEF DriverInv, Status, DiskType
  <2>13. Load'
    <3>1. Cardinality(InFlight') = Cardinality(InFlight) + 1
      BY <2>8, FiniteWaiting, FS_AddElement
    <3>2. Cardinality(dev.busy) \in Nat
      BY <1>1, FiniteDesc, FS_Subset, FS_CardinalityType DEF DiskType
    <3> QED
      BY <1>12, <1>5, <2>9, <3>1, <3>2, FiniteWaiting DEF DriverInv, Load
  <2> QED
    BY <2>3, <2>4, <2>5, <2>6, <2>7, <2>10, <2>11, <2>12, <2>13 DEF DriverInv
<1> QED
  BY <1>10, <1>15, <1>16, <1>17, <1>18, <1>19, <1>20, <1>21, <1>22, <1>23 DEF IInv, CacheInv

LEMMA AddThree ==
  ASSUME NEW S, IsFiniteSet(S), NEW i, NEW j, NEW k, i \notin S, j \notin S, k \notin S, i # j, j # k, i # k
  PROVE  IsFiniteSet(S \cup {i, j, k}) /\ Cardinality(S \cup {i, j, k}) = Cardinality(S) + 3
<1>1. IsFiniteSet(S \cup {i}) /\ Cardinality(S \cup {i}) = Cardinality(S) + 1
  BY FS_AddElement
<1>2. IsFiniteSet((S \cup {i}) \cup {j}) /\ Cardinality((S \cup {i}) \cup {j}) = Cardinality(S \cup {i}) + 1
  BY <1>1, FS_AddElement
<1>3. /\ IsFiniteSet(((S \cup {i}) \cup {j}) \cup {k})
      /\ Cardinality(((S \cup {i}) \cup {j}) \cup {k}) = Cardinality((S \cup {i}) \cup {j}) + 1
  BY <1>2, FS_AddElement
<1>4. ((S \cup {i}) \cup {j}) \cup {k} = S \cup {i, j, k}
  OBVIOUS
<1>5. Cardinality(S) \in Nat
  BY FS_CardinalityType
<1> DEFINE a == Cardinality(S \cup {i})
           c == Cardinality((S \cup {i}) \cup {j})
           d == Cardinality(((S \cup {i}) \cup {j}) \cup {k})
           n == Cardinality(S)
<1>6. a = n + 1 /\ c = a + 1 /\ d = c + 1 /\ n \in Nat
  BY <1>1, <1>2, <1>3, <1>5
<1>7. d = n + 3
  <2> HIDE DEF a, c, d, n
  <2> QED
    BY <1>6
<1> QED
  BY <1>3, <1>4, <1>7

\* A process sees that its request is done and gives back the descriptors.
LEMMA DoneStep ==
  ASSUME IInv, NEW p \in DProc, virtio_disk_done(p), ~B(p).disk
  PROVE  IInv'
<1> DEFINE b == pr[p].b
           x == buf[b]
<1>1. /\ DiskType /\ Listed /\ OneBuffer /\ HasBuffer /\ Holders /\ Refs /\ FewPins
      /\ Contents /\ Held /\ Clean /\ Transferred
  BY DEF IInv, CacheInv
<1>2. /\ pr[p].pc = "wait" /\ b \in Buf /\ ~x.disk /\ x.blk \in Block /\ (x.valid <=> pr[p].write) /\ x \in BufRec
      /\ pr[p].write => disk[x.blk] = latest[x.blk]
      /\ ~pr[p].write => x.data = latest[x.blk]
      /\ pr[p].write /\ pr[p].job = "flush" => x.pins = 1
  BY <1>1 DEF virtio_disk_done, At, HasBuffer, Held, HeldBy, Refs, B, Transferred, Moved, DiskType
<1>3. OtherProcs(p) /\ ProcIs(p, IF ~pr[p].write THEN "have" ELSE IF pr[p].job = "flush" THEN "unpin" ELSE "release", b, pr[p].job, FALSE, 0)
  <2> DEFINE g == IF ~pr[p].write THEN "have" ELSE IF pr[p].job = "flush" THEN "unpin" ELSE "release"
             f == [pr EXCEPT ![p].pc = g, ![p].write = FALSE, ![p].idx = 0]
  <2>1. pr' = wakeup(f, "rw", 0)
    BY DEF virtio_disk_done, B
  <2>2. g \in DiskPCs
    BY DEF DiskPCs
  <2> HIDE DEF g
  <2>3. /\ f \in [DProc -> ProcRec] /\ f[p].pc = g /\ f[p].b = b /\ f[p].job = pr[p].job
        /\ f[p].write = FALSE /\ f[p].idx = 0 /\ \A q \in DProc : q # p => f[q] = pr[q]
    <3>1. pr[p] \in ProcRec
      BY <1>1 DEF DiskType
    <3>2. f = [pr EXCEPT ![p] = [pr[p] EXCEPT !.pc = g, !.write = FALSE, !.idx = 0]]
      BY <1>1 DEF DiskType
    <3>3. [pr[p] EXCEPT !.pc = g, !.write = FALSE, !.idx = 0] \in ProcRec
      BY <2>2, <3>1 DEF ProcRec
    <3> HIDE DEF f
    <3> QED
      BY <1>1, <3>1, <3>2, <3>3 DEF DiskType, ProcRec
  <2> HIDE DEF f
  <2>4. pr' \in [DProc -> ProcRec]
    BY <1>1, <2>1, <2>3, WakeupSame
  <2> QED
    BY <1>1, <2>1, <2>3, <2>4, WakeupSame DEF OtherProcs, SameProc, ProcIs, g
<1>4. OtherBufs(b) /\ BufIs(b, x.blk, (IF pr[p].write THEN x.valid ELSE TRUE), x.disk, x.refcnt, x.pins, x.data, x.holder)
  <2>1. CASE pr[p].write
    BY <1>1, <1>2, <2>1 DEF virtio_disk_done, OtherBufs, BufIs, B
  <2>2. CASE ~pr[p].write
    <3>1. buf' = [buf EXCEPT ![b].valid = TRUE]
      BY <2>2 DEF virtio_disk_done, B
    <3> QED
      BY <1>1, <1>2, <2>2, <3>1 DEF OtherBufs, DiskType, BufIs, BufRec
  <2> QED
    BY <2>1, <2>2
<1>5. UNCHANGED <<lru, avail, used, dev, vlock, disk, latest>>
  BY DEF virtio_disk_done
<1>6. DriverInv /\ p \in Waiting /\ p \notin InFlight
  BY <1>2 DEF IInv, Waiting, InFlight, B
<1>7. PICK i \in Desc, j \in Desc, k \in Desc :
        /\ i = pr[p].idx /\ info[i].ids = <<i, j, k>> /\ i # j /\ j # k /\ i # k
        /\ Chain(p) = {i, j, k} /\ Chain(p) \cap dfree = {}
  <2> DEFINE s == info[pr[p].idx].ids
  <2>1. pr[p].idx \in Desc /\ s \in Seq(Desc) /\ Len(s) = 3 /\ s[1] = pr[p].idx /\ s[1] # s[2] /\ s[2] # s[3] /\ s[1] # s[3] /\ Chain(p) \cap dfree = {}
    BY <1>1, <1>6 DEF DriverInv, Chains, ChainOf, DiskType, InfoRec
  <2>2. s = <<s[1], s[2], s[3]>> /\ s[2] \in Desc /\ s[3] \in Desc
    <3> HIDE DEF s
    <3> QED
      BY <2>1
  <2>3. Chain(p) = {s[1], s[2], s[3]}
    <3>1. Chain(p) = ToSet(s)
      BY DEF Chain
    <3> HIDE DEF s
    <3> QED
      BY <2>1, <3>1 DEF ToSet
  <2> QED
    BY <2>1, <2>2, <2>3
<1>8. /\ dfree' = dfree \cup {i, j, k} /\ ~dpanic'
      /\ info' = [info EXCEPT ![i] = NoChain]
  <2>1. ToSet(info[i].ids) = {i, j, k} /\ info[i].ids # <<>>
    BY <1>7 DEF Chain
  <2> QED
    BY <1>2, <1>6, <1>7, <2>1 DEF virtio_disk_done, free_chain, B, DriverInv
<1>9. info' \in [Desc -> InfoRec] /\ dfree' \subseteq Desc
  <2>1. NoChain \in InfoRec
    BY BufAssumption DEF NoChain, InfoRec
  <2> QED
    BY <1>1, <1>7, <1>8, <2>1 DEF DiskType
<1>10. \A c \in Buf : Users(c)' = Users(c)
  BY <1>2, <1>3, UsersSame DEF ProcIs
<1>11. DiskType'
  <2>1. pr' \in [DProc -> ProcRec]
    <3> DEFINE g == IF ~pr[p].write THEN "have" ELSE IF pr[p].job = "flush" THEN "unpin" ELSE "release"
               f == [pr EXCEPT ![p].pc = g, ![p].write = FALSE, ![p].idx = 0]
    <3>1. pr' = wakeup(f, "rw", 0)
      BY DEF virtio_disk_done, B
    <3>2. g \in DiskPCs /\ pr[p] \in ProcRec
      BY <1>1 DEF DiskPCs, DiskType
    <3> HIDE DEF g
    <3>3. f = [pr EXCEPT ![p] = [pr[p] EXCEPT !.pc = g, !.write = FALSE, !.idx = 0]]
      BY <1>1 DEF DiskType
    <3>4. [pr[p] EXCEPT !.pc = g, !.write = FALSE, !.idx = 0] \in ProcRec
      BY <3>2 DEF ProcRec
    <3>5. f \in [DProc -> ProcRec]
      BY <1>1, <3>3, <3>4 DEF DiskType
    <3> HIDE DEF f
    <3> QED
      BY <1>1, <3>1, <3>5, WakeupSame
  <2>2. buf' \in [Buf -> BufRec]
    <3>1. [x EXCEPT !.valid = TRUE] \in BufRec
      BY <1>2 DEF BufRec
    <3> QED
      BY <1>1, <1>2, <3>1 DEF virtio_disk_done, DiskType, B
  <2> QED
    BY <1>9, <1>1, <1>5, <2>1, <2>2 DEF DiskType
<1>12. \A q \in DProc : q # p /\ pr[q].pc \in Holding => pr[q].b # b
  BY <1>2, OneHolder DEF Holding
<1>13. Listed' /\ OneBuffer'
  BY <1>1, <1>2, <1>4, <1>5 DEF Listed, OneBuffer, OtherBufs, BufIs
<1>14. HasBuffer' /\ Holders'
  BY <1>1, <1>2, <1>3, <1>4 DEF HasBuffer, Holders, Holding, OtherProcs, OtherBufs, SameProc, B, BufIs, ProcIs
<1>15. Refs'
  BY <1>1, <1>2, <1>4, <1>10, FiniteUsers DEF Refs, OtherBufs, BufIs
<1>16. FewPins'
  BY <1>1, <1>2, <1>4, FewPinsKept DEF OtherBufs, BufIs
<1>17. Contents'
  BY <1>1, <1>2, <1>4, <1>5 DEF Contents, OtherBufs, BufIs
<1>18. Held'
  <2>1. \A q \in DProc : q # p /\ pr[q].pc \in Holding => B(q)' = B(q)
    BY <1>1, <1>3, <1>4, <1>12 DEF HasBuffer, Holding, OtherProcs, OtherBufs, SameProc, B
  <2>2. \A q \in DProc : q # p => HeldBy(q)'
    BY <1>1, <1>3, <2>1 DEF Held, HeldBy, Holding, OtherProcs, SameProc
  <2>3. HeldBy(p)'
    BY <1>1, <1>2, <1>3, <1>4 DEF Held, HeldBy, ProcIs, BufIs, B
  <2> QED
    BY <2>2, <2>3 DEF Held
<1>19. Clean'
  <2>1. PICK u \in Buf : u = b
    BY <1>2
  <2>2. \A c \in Buf : c # u /\ Dirty(c) => Dirty(c)' /\ buf'[c].blk = buf[c].blk
    BY <1>1, <1>3, <1>4, <2>1 DEF Dirty, OtherProcs, OtherBufs, SameProc
  <2>3. Dirty(u) => Dirty(u)' \/ disk[buf[u].blk] = latest[buf[u].blk]
    <3>1. CASE x.pins = 1
      BY <1>3, <1>4, <2>1, <3>1 DEF Dirty, BufIs, ProcIs
    <3>2. CASE x.pins # 1
      BY <1>1, <1>2, <1>12, <2>1, <3>2 DEF Dirty, Held, HeldBy, Holding
    <3> QED
      BY <3>1, <3>2
  <2>4. buf'[u].blk = buf[u].blk
    BY <1>4, <2>1 DEF BufIs
  <2> HIDE DEF b, x
  <2> QED
    BY <1>1, <1>5, <2>2, <2>3, <2>4 DEF Clean
<1>20. Transferred'
  <2>1. \A q \in DProc : q # p /\ pr[q].pc \in Holding => B(q)' = B(q)
    BY <1>1, <1>3, <1>4, <1>12 DEF HasBuffer, Holding, OtherProcs, OtherBufs, SameProc, B
  <2>2. B(p)'.blk = x.blk /\ pr'[p].pc # "wait" /\ (pr'[p].pc = "unpin" => pr[p].write)
    BY <1>3, <1>4 DEF ProcIs, BufIs, B
  <2> QED
    BY <1>1, <1>2, <1>3, <1>5, <2>1, <2>2 DEF Transferred, Moved, Holding, OtherProcs, SameProc
<1>21. DriverInv'
  <2>1. Waiting' = Waiting \ {p}
    BY <1>2, <1>3 DEF Waiting, OtherProcs, SameProc, ProcIs
  <2>2. \A q \in Waiting : q # p => SameProc(q) /\ B(q)' = B(q) /\ pr[q].idx # i /\ pr[q].idx \in Desc
    <3>1. \A q \in Waiting : q # p => SameProc(q) /\ B(q)' = B(q)
      BY <1>1, <1>3, <1>4, <1>12 DEF Waiting, HasBuffer, Holding, OtherProcs, OtherBufs, SameProc, B
    <3>2. \A q \in Waiting : q # p => pr[q].idx # i /\ pr[q].idx \in Desc
      BY <1>6, <1>7, OneHead DEF DriverInv, Chains, ChainOf
    <3> QED
      BY <3>1, <3>2
  <2>3. \A q \in Waiting : q # p => info'[pr'[q].idx] = info[pr[q].idx] /\ Chain(q)' = Chain(q)
    BY <1>1, <1>8, <2>2 DEF SameProc, Chain, DiskType
  <2>4. InFlight' = InFlight
    BY <1>6, <2>1, <2>2 DEF InFlight
  <2>5. \A q \in Waiting : q # p => Chain(q) \cap Chain(p) = {} /\ Chain(q) \cap dfree = {}
    BY <1>6 DEF DriverInv, Apart, Chains, ChainOf
  <2>6. Chains'
    <3>1. \A q \in Waiting : q # p => Chain(q)' \cap dfree' = {}
      BY <1>7, <1>8, <2>3, <2>5
    <3> QED
      BY <1>6, <2>1, <2>2, <2>3, <3>1 DEF DriverInv, Chains, ChainOf, SameProc
  <2>7. Apart' /\ Kept'
    <3>1. Apart'
      BY <1>6, <2>1, <2>3 DEF DriverInv, Apart
    <3>2. Kept'
      BY <1>6, <1>7, <1>8, <2>1, <2>3 DEF DriverInv, Kept
    <3> QED
      BY <3>1, <3>2
  <2>8. Counted'
    <3>1. IsFiniteSet(dfree) /\ i \notin dfree /\ j \notin dfree /\ k \notin dfree
      BY <1>1, <1>7, FiniteDesc, FS_Subset DEF DiskType
    <3>2. Cardinality(dfree') = Cardinality(dfree) + 3 /\ Cardinality(dfree) \in Nat
      BY <1>7, <1>8, <3>1, AddThree, FS_CardinalityType
    <3>3. Cardinality(Waiting') = Cardinality(Waiting) - 1
      BY <1>6, <2>1, FiniteWaiting, FS_RemoveElement
    <3> QED
      BY <1>6, <3>2, <3>3, FiniteWaiting, NumAssumption DEF DriverInv, Counted
  <2>9. Rings'
    BY <1>6, <1>5, <2>2, <2>4 DEF DriverInv, Rings, InFlight, SameProc
  <2>10. Once' /\ Load'
    BY <1>6, <1>5, <2>4 DEF DriverInv, Once, Load
  <2>11. Status'
    <3>1. \A d \in ToSet(used) : d # i
      BY <1>6, <1>7, <2>2 DEF DriverInv, Rings, InFlight
    <3>2. \A d \in ToSet(used) : d \in Desc
      BY <1>1 DEF DiskType, ToSet
    <3> QED
      BY <1>1, <1>6, <1>5, <1>8, <3>1, <3>2 DEF DriverInv, Status, DiskType
  <2> QED
    BY <1>8, <2>6, <2>7, <2>8, <2>9, <2>10, <2>11 DEF DriverInv
<1> QED
  BY <1>11, <1>13, <1>14, <1>15, <1>16, <1>17, <1>18, <1>19, <1>20, <1>21 DEF IInv, CacheInv

LEMMA DescCount == Cardinality(Desc) = NUM
<1>1. 0 \in Int /\ NUM - 1 \in Int
  BY NumAssumption
<1>2. Cardinality(Desc) = IF 0 > NUM - 1 THEN 0 ELSE NUM - 1 - 0 + 1
  BY <1>1, FS_Interval DEF Desc
<1> QED
  BY <1>2, NumAssumption

\* The state that binit() and virtio_disk_init() leave.
LEMMA InitIInv == DiskInit => IInv
<1> SUFFICES ASSUME DiskInit PROVE IInv
  OBVIOUS
<1>1. /\ \A b \in Buf : /\ buf[b].blk = NoBlock /\ ~buf[b].valid /\ ~buf[b].disk /\ buf[b].refcnt = 0
                        /\ buf[b].pins = 0 /\ buf[b].data = 0 /\ buf[b].holder = NoBlock
      /\ \A p \in DProc : pr[p].pc = "idle" /\ pr[p].b = 0 /\ ~pr[p].write
      /\ avail = <<>> /\ used = <<>> /\ dev.busy = {} /\ dfree = Desc /\ ~dpanic /\ latest = disk
  BY DEF DiskInit, Resting, Desc
<1>2. 0 \notin Buf /\ NoBlock \notin DProc
  BY NameAssumption DEF Buf, NoBlock
<1>3. DiskType
  <2>1. Resting \in ProcRec /\ NoChain \in InfoRec
    BY BufAssumption DEF Resting, NoChain, ProcRec, InfoRec, DiskPCs, NoBlock
  <2>2. buf \in [Buf -> BufRec] /\ pr \in [DProc -> ProcRec] /\ info \in [Desc -> InfoRec]
    <3>1. buf \in [Buf -> BufRec]
      BY DEF DiskInit, BufRec
    <3> QED
      BY <2>1, <3>1 DEF DiskInit, Desc
  <2>3. lru \in [Buf -> Buf]
    BY BufAssumption DEF DiskInit, Buf
  <2>4. dev \in [busy : SUBSET Desc, irq : BOOLEAN] /\ avail \in Seq(Desc) /\ used \in Seq(Desc)
    BY DEF DiskInit
  <2>5. disk \in [Block -> Nat] /\ latest \in [Block -> Nat] /\ vlock \in BOOLEAN
    BY DEF DiskInit
  <2> QED
    BY <1>1, <2>2, <2>3, <2>4, <2>5 DEF DiskType
<1>4. Listed
  <2>1. \A b \in Buf : NBUF + 1 - b \in Buf /\ lru[NBUF + 1 - b] = b
    BY BufAssumption DEF DiskInit, Buf
  <2> QED
    BY <2>1 DEF Listed
<1>5. OneBuffer /\ HasBuffer /\ Holders
  BY <1>1, <1>2 DEF OneBuffer, HasBuffer, Holders, Holding
<1>6. Refs /\ FewPins
  <2>1. (\A b \in Buf : Users(b) = {}) /\ Pinned = {}
    BY <1>1 DEF Users, Pinned
  <2>2. Cardinality({}) = 0
    BY FS_EmptySet
  <2>3. Refs
    <3>1. \A b \in Buf : Cardinality(Users(b)) = 0
      BY <2>1, <2>2, Zenon
    <3> QED
      BY <1>1, <3>1 DEF Refs
  <2>4. FewPins
    BY <2>1, <2>2, BufAssumption DEF FewPins
  <2> QED
    BY <2>3, <2>4
<1>7. Contents /\ Held /\ Clean /\ Transferred
  BY <1>1 DEF Contents, Held, HeldBy, Clean, Transferred, Moved
<1>8. Waiting = {} /\ InFlight = {} /\ ToSet(avail) = {} /\ ToSet(used) = {}
  BY <1>1 DEF Waiting, InFlight, ToSet
<1>9. Chains /\ Apart /\ Kept /\ Rings /\ Once /\ Status
  BY <1>1, <1>8 DEF Chains, Apart, Kept, Rings, Once, NoTwice, Status
<1>10. Counted /\ Load
  <2> QED
    BY <1>1, <1>8, DescCount, FS_EmptySet, NumAssumption DEF Counted, Load
<1> QED
  BY <1>1, <1>3, <1>4, <1>5, <1>6, <1>7, <1>9, <1>10 DEF IInv, CacheInv, DriverInv

LEMMA NextIInv == IInv /\ [DiskNext]_diskvars => IInv'
<1> SUFFICES ASSUME IInv, [DiskNext]_diskvars PROVE IInv'
  OBVIOUS
<1>1. ASSUME NEW p \in DProc, NEW job \in Jobs[p], bget(p, job[1], job[2]) PROVE IInv'
  BY <1>1, GetStep
<1>2. ASSUME NEW p \in DProc, kill(p) PROVE IInv'
  BY <1>2, SleepStep DEF kill
<1>3. ASSUME NEW p \in DProc, acquiresleep(p) PROVE IInv'
  <2>1. CASE B(p).holder = NoBlock
    BY <1>3, <2>1, TakeStep
  <2>2. CASE B(p).holder # NoBlock
    BY <1>3, <2>2, SleepStep DEF acquiresleep
  <2> QED
    BY <2>1, <2>2
<1>4. ASSUME NEW p \in DProc, bwrite(p) \/ bpin(p) \/ flush(p) \/ bunpin(p) PROVE IInv'
  BY <1>4, WriteStep, PinStep, FlushStep, UnpinStep
<1>5. ASSUME NEW p \in DProc, releasesleep(p) \/ brelse(p) PROVE IInv'
  BY <1>5, ReleaseStep, DropStep
<1>6. ASSUME NEW p \in DProc, virtio_disk_rw(p) PROVE IInv'
  BY <1>6, RequestStep, ShortStep
<1>7. ASSUME NEW p \in DProc, virtio_disk_done(p) PROVE IInv'
  <2>1. CASE B(p).disk
    BY <1>7, <2>1, SleepStep DEF virtio_disk_done
  <2>2. CASE ~B(p).disk
    BY <1>7, <2>2, DoneStep
  <2> QED
    BY <2>1, <2>2
<1>8. CASE Device
  <2>1. dev.busy \subseteq Desc
    BY DEF IInv, DiskType
  <2> QED
    BY <1>8, <2>1, DeviceTakeStep, FinishStep DEF Device
<1>9. CASE Handler
  BY <1>9, HandlerStep, ReportStep DEF Handler
<1>10. ASSUME UNCHANGED <<buf, lru, pr, dfree, info, avail, used, dev, vlock, disk, latest, dpanic>> PROVE IInv'
  <2>1. DiskType'
    BY <1>10 DEF IInv, DiskType
  <2>2. CacheInv'
    BY <1>10, <2>1, CacheFrame DEF SameProc
  <2>3. DriverInv'
    BY <1>10, <2>1, DriverFrame DEF B
  <2> QED
    BY <2>1, <2>2, <2>3 DEF IInv
<1>11. ASSUME NEW p \in DProc, NEW blk, bget_panic(p, blk) PROVE IInv'
  BY <1>10, <1>11 DEF bget_panic
<1>12. CASE UNCHANGED diskvars
  BY <1>10, <1>12 DEF diskvars
<1> QED
  BY <1>1, <1>2, <1>3, <1>4, <1>5, <1>6, <1>7, <1>8, <1>9, <1>11, <1>12 DEF DiskNext, DiskStep
-----------------------------------------------------------------------------
LEMMA Invariance == DiskSpec => []IInv
  BY InitIInv, NextIInv, PTL DEF DiskSpec

\* A process that bread() gave a buffer sees in it what the last holder of the block
\* left there, and no block is in two buffers: for any processes, blocks
\* and number of buffers
\* (bget(), brelse(), bpin() and bunpin() in bio.c, virtio_disk_rw()).
THEOREM BuffersAreLatest == DiskSpec => []HolderSeesLatest
<1>1. IInv => HolderSeesLatest
  <2> SUFFICES ASSUME IInv PROVE HolderSeesLatest
    OBVIOUS
  <2>1. DiskType /\ OneBuffer /\ HasBuffer /\ Holders /\ Contents /\ Held
    BY DEF IInv, CacheInv
  <2>2. \A p \in DProc : pr[p].pc \in {"have", "unpin", "release"} =>
          pr[p].b \in Buf /\ B(p).valid /\ B(p).holder = p
    BY <2>1 DEF HasBuffer, Holders, Holding, Held, HeldBy, B
  <2>3. \A p \in DProc : pr[p].pc \in {"have", "unpin", "release"} => B(p).data = latest[B(p).blk]
    BY <2>1, <2>2 DEF Contents, B
  <2> QED
    BY <2>1, <2>2, <2>3 DEF HolderSeesLatest, OneBuffer, DiskType
<1> QED
  BY <1>1, Invariance, PTL

\* The driver neither loses a descriptor nor uses one twice, its rings and the
\* device name only chains of processes that wait, and no panic of free_desc() or
\* virtio_disk_intr() is reached, for any number of processes and descriptors
\* (alloc3_desc(), free_chain(), virtio_disk_rw() in virtio_disk.c).
THEOREM DescriptorsAreOwned == DiskSpec => []DescriptorsOwned
<1>1. IInv => DescriptorsOwned
  <2> SUFFICES ASSUME IInv PROVE DescriptorsOwned
    OBVIOUS
  <2>1. DiskType /\ DriverInv
    BY DEF IInv
  <2>2. dfree \cup UNION {Chain(p) : p \in Waiting} = Desc
    <3>1. \A p \in Waiting : Chain(p) \subseteq Desc
      <4>1. \A p \in Waiting : info[pr[p].idx].ids \in Seq(Desc)
        BY <2>1 DEF DriverInv, Chains, ChainOf, DiskType, InfoRec
      <4> QED
        BY <4>1 DEF Chain, ToSet
    <3> QED
      BY <2>1, <3>1 DEF DiskType, DriverInv, Kept
  <2>3. \A p \in Waiting : info[pr[p].idx].b = pr[p].b
    BY <2>1 DEF DriverInv, Chains, ChainOf
  <2>4. dev.busy \cup ToSet(avail) \cup ToSet(used) \subseteq {pr[p].idx : p \in Waiting}
    BY <2>1 DEF DriverInv, Rings, InFlight
  <2>5. Len(avail) + Cardinality(dev.busy) + Len(used) <= NUM \div 3
    <3>1. Cardinality(InFlight) <= Cardinality(Waiting)
      BY FiniteWaiting, FS_Subset DEF InFlight
    <3>2. Cardinality(dfree) \in Nat
      BY <2>1, FiniteDesc, FS_Subset, FS_CardinalityType DEF DiskType
    <3> DEFINE f == Cardinality(dfree)
               w == Cardinality(Waiting)
               m == Cardinality(InFlight)
    <3>3. f + 3 * w = NUM /\ w \in Nat /\ m \in Nat /\ m <= w /\ f \in Nat
      BY <2>1, <3>1, <3>2, FiniteWaiting DEF DriverInv, Counted
    <3>4. Len(avail) + Cardinality(dev.busy) + Len(used) = m
      BY <2>1 DEF DriverInv, Load
    <3> HIDE DEF f, w, m
    <3>5. m <= NUM \div 3
      BY <3>3, NumAssumption
    <3> QED
      BY <3>4, <3>5
  <2>6. DOMAIN info = Desc /\ Cardinality(Desc) = NUM
    BY <2>1, DescCount DEF DiskType
  <2> QED
    BY <2>1, <2>2, <2>3, <2>4, <2>5, <2>6 DEF DescriptorsOwned, DriverInv, Counted, Waiting, Chain
<1> QED
  BY <1>1, Invariance, PTL

\* bget() stops the kernel only when every buffer is in a call or pinned by the log.
StopsOnlyInUse ==
  stuck' # stuck => \A b \in Buf : buf[b].pins > 0 \/ \E p \in DProc : pr[p].pc # "idle" /\ pr[p].b = b

\* No reference is lost: when bget() in bio.c panics for want of a buffer, each of
\* them is between bget() and brelse() of some process or pinned by log_write(), for
\* any number of buffers and processes.  With NBUF = LOGSIZE = 30 and NPROC = 64 in
\* param.h that can happen.
THEOREM OutOfBuffersOnlyInUse == DiskSpec => [][StopsOnlyInUse]_diskvars
<1>1. IInv /\ [DiskNext]_diskvars => [StopsOnlyInUse]_diskvars
  <2> SUFFICES ASSUME IInv, DiskNext, stuck' # stuck,
                      NEW b \in Buf, ~(buf[b].pins > 0)
               PROVE  \E p \in DProc : pr[p].pc # "idle" /\ pr[p].b = b
    BY DEF StopsOnlyInUse, diskvars
  <2>1. Recyclable = {}
    <3>1. ASSUME NEW p \in DProc, DiskStep(p) \/ kill(p), stuck' # stuck PROVE FALSE
      BY <3>1 DEF DiskStep, acquiresleep, bwrite, bpin, flush, bunpin, releasesleep, brelse, virtio_disk_rw,
                  virtio_disk_done, kill
    <3>2. ASSUME NEW p \in DProc, NEW job \in Jobs[p], bget(p, job[1], job[2]), stuck' # stuck PROVE FALSE
      BY <3>2 DEF bget
    <3>3. ASSUME Device \/ Handler, stuck' # stuck PROVE FALSE
      BY <3>3 DEF Device, DeviceTake, DeviceFinish, Handler, virtio_disk_intr, intr_used, intr_done
    <3>4. ASSUME NEW p \in DProc, NEW blk, bget_panic(p, blk) PROVE Recyclable = {}
      BY <3>4 DEF bget_panic
    <3> QED
      BY <3>1, <3>2, <3>3, <3>4 DEF DiskNext
  <2>2. DiskType /\ Listed /\ Refs
    BY DEF IInv, CacheInv
  <2>3. buf[b].refcnt # 0
    BY <2>1, <2>2 DEF Recyclable, Listed
  <2>4. buf[b].pins = 0
    BY <2>2 DEF DiskType, BufRec
  <2>5. Users(b) # {}
    BY <2>2, <2>3, <2>4, FS_EmptySet DEF Refs
  <2> QED
    BY <2>5 DEF Users
<1> QED
  BY <1>1, Invariance, PTL DEF DiskSpec

-----------------------------------------------------------------------------
(***************************************************************************)
(* Console: the inductive invariant, in parts.                             *)
(***************************************************************************)

CPCs == {"user", "racq", "rloop", "rsleep", "rasleep", "rdone", "wacq", "wloop", "wasleep"}
Stops == {"none", "rx", "cons", "echo", "tx"}
Index == 0 .. CUINT - 1
Chars == {"x", NL, EOF, "nul"}
Typed == {"x", "cr", NL, EOF, "bs", "kill", "dump", "nul"}

ConsType ==
  /\ cons \in [buf : Ring(INPUT_BUF_SIZE, Chars), r : Index, w : Index, e : Index,
               lock : CProc \cup {Free, "intr"}]
  /\ tx \in [n : 0 .. TX_BUF_SIZE, lock : CProc \cup {Free}]
  /\ uart \in [rx : Typed \cup {"none"}, busy : BOOLEAN, txint : BOOLEAN]
  /\ cp \in [CProc -> [pc : CPCs, n : Int, target : Int]]
  /\ noff \in [CProc -> Int]
  /\ hand \in [cpu : CProc \cup {Free}, at : Stops, c : Typed, echo : BOOLEAN]

\* Who holds which lock, and that interrupts are off on the CPU of a holder.
Reading == {"rloop", "rsleep", "rdone"}
Locks ==
  /\ \A p \in CProc : /\ cons.lock = p <=> cp[p].pc \in Reading
                      /\ tx.lock = p <=> cp[p].pc = "wloop"
                      /\ noff[p] = IF cp[p].pc \in Reading \cup {"wloop"} THEN 1 ELSE 0
  /\ cons.lock = "intr" <=> hand.at = "echo"

\* The handler has interrupted a process that holds no lock.
Interrupted == hand.cpu # Free => noff[hand.cpu] = 0

\* A reader that sleeps, or is about to, has nothing to read, and a writer that
\* sleeps has no room.
Sleeps ==
  \A p \in CProc : /\ cp[p].pc \in {"rsleep", "rasleep"} => cons.r = cons.w
                   /\ cp[p].pc = "wasleep" => tx.n = TX_BUF_SIZE

\* The indices follow each other around the ring, and e does not lap r.
Ordered == Diff(cons.w, cons.r) + Diff(cons.e, cons.w) <= INPUT_BUF_SIZE

CInv ==
  /\ ConsType
  /\ Locks
  /\ Interrupted
  /\ Sleeps
  /\ Ordered

-----------------------------------------------------------------------------
(***************************************************************************)
(* The indices.                                                            *)
(***************************************************************************)

LEMMA Sizes ==
  /\ CUINT \in Nat \ {0} /\ INPUT_BUF_SIZE \in Nat \ {0} /\ INPUT_BUF_SIZE < CUINT
  /\ TX_BUF_SIZE \in Nat \ {0}
  BY IndexAssumption

LEMMA DiffIs ==
  ASSUME NEW i \in Index, NEW j \in Index
  PROVE  /\ Diff(i, j) = IF j <= i THEN i - j ELSE i + CUINT - j
         /\ Diff(i, j) \in Index
         /\ Diff(i, j) = 0 <=> i = j
<1>1. i \in 0..CUINT - 1 /\ j \in 0..CUINT - 1 /\ CUINT \in Nat \ {0}
  BY Sizes DEF Index
<1>2. Diff(i, j) = IF j <= i THEN i - j ELSE i + CUINT - j
  BY <1>1, ModDiff DEF Diff
<1> QED
  BY <1>1, <1>2 DEF Index

LEMMA IncIs ==
  ASSUME NEW i \in Index
  PROVE  /\ Inc(i) \in Index
         /\ Inc(i) = IF i + 1 < CUINT THEN i + 1 ELSE 0
<1>1. i \in 0..CUINT - 1 /\ CUINT \in Nat \ {0} /\ 1 \in 0..CUINT - 1
  BY Sizes DEF Index
<1>2. (i + 1) % CUINT = IF i + 1 < CUINT THEN i + 1 ELSE i + 1 - CUINT
  BY <1>1, ModPlus
<1> QED
  BY <1>1, <1>2 DEF Index, Inc

\* The index before i: the backspace key.
Dec(i) == (i - 1) % CUINT

LEMMA DecIs ==
  ASSUME NEW i \in Index
  PROVE  /\ Dec(i) \in Index
         /\ Dec(i) = IF 1 <= i THEN i - 1 ELSE CUINT - 1
<1>1. i \in 0..CUINT - 1 /\ CUINT \in Nat \ {0} /\ 1 \in 0..CUINT - 1
  BY Sizes DEF Index
<1>2. (i - 1) % CUINT = IF 1 <= i THEN i - 1 ELSE i + CUINT - 1
  BY <1>1, ModDiff
<1> QED
  BY <1>1, <1>2 DEF Index, Dec

\* Taking a byte, storing one and erasing one, whatever index wraps on the way.
LEMMA TakeIndex ==
  ASSUME NEW r \in Index, NEW w \in Index, r # w
  PROVE  Diff(w, Inc(r)) = Diff(w, r) - 1 /\ Diff(w, r) > 0
<1> DEFINE q == Inc(r)
<1>1. q \in Index /\ q = IF r + 1 < CUINT THEN r + 1 ELSE 0
  BY IncIs
<1> HIDE DEF q
<1>2. /\ Diff(w, r) = IF r <= w THEN w - r ELSE w + CUINT - r
      /\ Diff(w, q) = IF q <= w THEN w - q ELSE w + CUINT - q
  BY <1>1, DiffIs
<1>3. Diff(w, q) = Diff(w, r) - 1 /\ Diff(w, r) > 0
  BY <1>1, <1>2, Sizes DEF Index
<1> QED
  BY <1>3 DEF q

LEMMA StoreIndex ==
  ASSUME NEW i \in Index, NEW e \in Index, Diff(e, i) < CUINT - 1
  PROVE  Diff(Inc(e), i) = Diff(e, i) + 1
<1> DEFINE q == Inc(e)
<1>1. q \in Index /\ q = IF e + 1 < CUINT THEN e + 1 ELSE 0
  BY IncIs
<1> HIDE DEF q
<1>2. /\ Diff(e, i) = IF i <= e THEN e - i ELSE e + CUINT - i
      /\ Diff(q, i) = IF i <= q THEN q - i ELSE q + CUINT - i
  BY <1>1, DiffIs
<1>3. Diff(q, i) = Diff(e, i) + 1
  BY <1>1, <1>2, Sizes DEF Index
<1> QED
  BY <1>3 DEF q

LEMMA EraseIndex ==
  ASSUME NEW w \in Index, NEW e \in Index, Diff(e, w) > 0
  PROVE  Diff(Dec(e), w) = Diff(e, w) - 1
<1> DEFINE q == Dec(e)
<1>1. q \in Index /\ q = IF 1 <= e THEN e - 1 ELSE CUINT - 1
  BY DecIs
<1> HIDE DEF q
<1>2. /\ Diff(e, w) = IF w <= e THEN e - w ELSE e + CUINT - w
      /\ Diff(q, w) = IF w <= q THEN q - w ELSE q + CUINT - w
  BY <1>1, DiffIs
<1>3. Diff(q, w) = Diff(e, w) - 1
  BY <1>1, <1>2, Sizes DEF Index
<1> QED
  BY <1>3 DEF q

LEMMA SumIndex ==
  ASSUME NEW r \in Index, NEW w \in Index, NEW e \in Index,
         Diff(w, r) + Diff(e, w) <= INPUT_BUF_SIZE
  PROVE  Diff(e, r) = Diff(w, r) + Diff(e, w)
<1>1. /\ Diff(w, r) = IF r <= w THEN w - r ELSE w + CUINT - r
      /\ Diff(e, w) = IF w <= e THEN e - w ELSE e + CUINT - w
      /\ Diff(e, r) = IF r <= e THEN e - r ELSE e + CUINT - r
  BY DiffIs
<1> QED
  BY <1>1, Sizes DEF Index

-----------------------------------------------------------------------------
(***************************************************************************)
(* What consoleintr() does to the ring.                                    *)
(***************************************************************************)

\* The key is dropped.
Dropped == UNCHANGED <<cons.buf, cons.w, cons.e>>

Killed == cons'.e = cons.w /\ UNCHANGED <<cons.buf, cons.w>>

Erased ==
  /\ Diff(cons.e, cons.w) > 0
  /\ cons'.e = Dec(cons.e)
  /\ UNCHANGED <<cons.buf, cons.w>>

\* Byte c is stored, and the line handed over when it has ended or the ring is full.
ConsKept(c) ==
  /\ Diff(cons.e, cons.r) < INPUT_BUF_SIZE
  /\ cons'.buf = Store(cons.buf, INPUT_BUF_SIZE, cons.e, c)
  /\ cons'.e = Inc(cons.e)
  /\ cons'.w = IF c \in {NL, EOF} \/ Diff(Inc(cons.e), cons.r) = INPUT_BUF_SIZE
               THEN Inc(cons.e) ELSE cons.w

LEMMA Editing ==
  ASSUME CInv, consoleintr_done
  PROVE  /\ cons'.lock = Free /\ cons'.r = cons.r
         /\ Dropped \/ Killed \/ Erased \/ \E c \in {"x", NL, EOF} : ConsKept(c)
         /\ cons' = [buf |-> cons'.buf, r |-> cons'.r, w |-> cons'.w, e |-> cons'.e,
                     lock |-> cons'.lock]
         /\ cp' = IF cons'.w # cons.w THEN Woken(cp, "rasleep", "racq") ELSE cp
<1> DEFINE c == IF hand.c = "cr" THEN NL ELSE hand.c
<1>1. c \in {"x", NL, EOF, "bs", "kill", "dump", "nul"}
  BY DEF CInv, ConsType, Typed
<1>2. CASE c = "kill"
  BY <1>2 DEF consoleintr_done, CInv, ConsType, Killed
<1>3. CASE c = "bs"
  BY <1>3 DEF consoleintr_done, CInv, ConsType, Erased, Dropped, Editable, Dec
<1>4. CASE c \in {"dump", "nul"}
  BY <1>4 DEF consoleintr_done, CInv, ConsType, Dropped
<1>5. CASE c \in {"x", NL, EOF}
  <2>1. /\ cons' = Stored(c)
        /\ cp' = IF cons'.w # cons.w THEN Woken(cp, "rasleep", "racq") ELSE cp
    BY <1>5 DEF consoleintr_done, NL, EOF
  <2>2. CASE Room
    BY <1>5, <2>1, <2>2 DEF Stored, Room, ConsKept, Store, Wrap, Cell, CInv,
      ConsType
  <2>3. CASE ~Room
    BY <2>1, <2>3 DEF Stored, Dropped, CInv, ConsType
  <2> QED
    BY <2>2, <2>3
<1> QED
  BY <1>1, <1>2, <1>3, <1>4, <1>5

-----------------------------------------------------------------------------
(***************************************************************************)
(* The invariant is inductive.                                             *)
(***************************************************************************)

LEMMA Names == Free \notin CProc /\ "intr" \notin CProc /\ Free # "intr"
  BY FreeAssumption

LEMMA InitCInv == ConsInit => CInv
<1> SUFFICES ASSUME ConsInit PROVE CInv
  OBVIOUS
<1> USE Names DEF ConsInit
<1>1. ConsType
  <2>1. 0 \in Index
    BY Sizes DEF Index
  <2> QED
    BY <2>1, Sizes DEF ConsType, Ring, Chars, CPCs, Stops, Typed, Away,
      NoHandler
<1>2. Locks /\ Interrupted
  BY DEF Locks, Reading, Away, Interrupted, NoHandler
<1>3. Sleeps /\ Ordered
  <2>1. Diff(0, 0) = 0 /\ 0 \in Nat
    BY Sizes, DiffIs DEF Index
  <2> QED
    BY <2>1, Sizes DEF Sleeps, Away, Ordered
<1> QED
  BY <1>1, <1>2, <1>3 DEF CInv

LEMMA ReaderStep ==
  ASSUME CInv, NEW p \in CProc,
         consoleread(p) \/ consoleread_none(p) \/ consoleread_sleep(p) \/
             consoleread_byte(p) \/ consoleread_fault(p) \/ consoleread_done(p)
  PROVE  CInv'
<1> USE Names
<1>1. CASE consoleread(p)
  <2>1. ConsType'
    BY <1>1 DEF CInv, ConsType, CPCs, consoleread, CAt, push_off, Goto
  <2>2. Locks'
    BY <1>1 DEF CInv, ConsType, Locks, Reading, consoleread, CAt, push_off, Goto
  <2>3. Interrupted'
    BY <1>1 DEF CInv, ConsType, Interrupted, consoleread, CAt, push_off
  <2>4. Sleeps'
    BY <1>1 DEF CInv, ConsType, Sleeps, consoleread, CAt, push_off, Goto
  <2>5. Ordered'
    BY <1>1 DEF CInv, ConsType, Ordered, consoleread, CAt, push_off
  <2> QED
    BY <2>1, <2>2, <2>3, <2>4, <2>5 DEF CInv
<1>2. CASE consoleread_none(p)
  <2>1. ConsType'
    BY <1>2 DEF CInv, ConsType, CPCs, consoleread_none, CAt, pop_off, Goto, Away
  <2>2. Locks'
    BY <1>2 DEF CInv, ConsType, Locks, Reading, consoleread_none, CAt, pop_off,
      Goto, Away
  <2>3. Interrupted'
    BY <1>2 DEF CInv, ConsType, Interrupted, consoleread_none, CAt, pop_off
  <2>4. Sleeps'
    BY <1>2 DEF CInv, ConsType, Reading, Sleeps, consoleread_none, CAt, pop_off,
      Goto, Away
  <2>5. Ordered'
    BY <1>2 DEF CInv, ConsType, Ordered, consoleread_none, CAt, pop_off
  <2> QED
    BY <2>1, <2>2, <2>3, <2>4, <2>5 DEF CInv
<1>3. CASE consoleread_sleep(p)
  <2>1. ConsType'
    BY <1>3 DEF CInv, ConsType, CPCs, consoleread_sleep, CAt, pop_off, Goto
  <2>2. Locks'
    BY <1>3 DEF CInv, ConsType, Locks, Reading, consoleread_sleep, CAt, pop_off,
      Goto
  <2>3. Interrupted'
    BY <1>3 DEF CInv, ConsType, Interrupted, consoleread_sleep, CAt, pop_off
  <2>4. Sleeps'
    BY <1>3 DEF CInv, ConsType, Sleeps, consoleread_sleep, CAt, pop_off, Goto
  <2>5. Ordered'
    BY <1>3 DEF CInv, ConsType, Ordered, consoleread_sleep, CAt, pop_off
  <2> QED
    BY <2>1, <2>2, <2>3, <2>4, <2>5 DEF CInv
<1>4. CASE consoleread_byte(p)
  <2>1. ConsType'
    <3>1. cons.r \in Index /\ Inc(cons.r) \in Index
      BY IncIs DEF CInv, ConsType
    <3>2. cons' \in [buf : Ring(INPUT_BUF_SIZE, Chars), r : Index, w : Index, e : Index,
                     lock : CProc \cup {Free, "intr"}]
      BY <1>4, <3>1 DEF CInv, ConsType, consoleread_byte
    <3>3. cp' \in [CProc -> [pc : CPCs, n : Int, target : Int]]
      <4> DEFINE c == cons.buf[Cell(cons.r)]
                 l == IF c \in {EOF, NL} THEN "rdone" ELSE "rloop"
                 m == IF c = EOF THEN cp[p].n ELSE cp[p].n - 1
      <4>1. cp[p] \in [pc : CPCs, n : Int, target : Int]
        BY DEF CInv, ConsType
      <4>2. l \in CPCs /\ m \in Int
        BY <4>1 DEF CPCs
      <4>3. cp' = [cp EXCEPT ![p].pc = l, ![p].n = m]
        BY <1>4 DEF consoleread_byte
      <4> HIDE DEF c, l, m
      <4> QED
        BY <4>1, <4>2, <4>3 DEF CInv, ConsType
    <3> QED
      BY <1>4, <3>2, <3>3 DEF CInv, ConsType, consoleread_byte
  <2>2. Locks'
    BY <1>4 DEF CInv, ConsType, Locks, Reading, consoleread_byte, CAt
  <2>3. Interrupted'
    BY <1>4 DEF CInv, ConsType, Interrupted, consoleread_byte, CAt
  <2>4. Sleeps'
    BY <1>4 DEF CInv, ConsType, Sleeps, consoleread_byte, CAt
  <2>5. Ordered'
    <3>1. cons.r \in Index /\ cons.w \in Index /\ cons.e \in Index /\ cons.r # cons.w
      BY <1>4 DEF CInv, ConsType, consoleread_byte
    <3>2. cons'.r \in {cons.r, Inc(cons.r)} /\ cons'.w = cons.w /\ cons'.e = cons.e
      BY <1>4 DEF CInv, ConsType, consoleread_byte
    <3>3. Diff(cons.w, Inc(cons.r)) = Diff(cons.w, cons.r) - 1
      BY <3>1, TakeIndex <3>4. Diff(cons.w, cons.r) \in Int /\ Diff(cons.e,
        cons.w) \in Int <4>1. Diff(cons.w, cons.r) \in Index /\ Diff(cons.e,
        cons.w) \in Index BY <3>1, DiffIs <4> QED BY <4>1, Sizes DEF Index
    <3> QED
      BY <3>2, <3>3, <3>4, Sizes DEF CInv, Ordered
  <2> QED
    BY <2>1, <2>2, <2>3, <2>4, <2>5 DEF CInv
<1>5. CASE consoleread_fault(p)
  <2>1. ConsType'
    <3>1. cons.r \in Index /\ Inc(cons.r) \in Index
      BY IncIs DEF CInv, ConsType
    <3> QED
      BY <1>5, <3>1 DEF CInv, ConsType, CPCs, consoleread_fault, Goto
  <2>2. Locks'
    BY <1>5 DEF CInv, ConsType, Locks, Reading, consoleread_fault, CAt, Goto
  <2>3. Interrupted'
    BY <1>5 DEF CInv, ConsType, Interrupted, consoleread_fault, CAt
  <2>4. Sleeps'
    BY <1>5 DEF CInv, ConsType, Sleeps, consoleread_fault, CAt, Goto
  <2>5. Ordered'
    <3>1. cons.r \in Index /\ cons.w \in Index /\ cons.e \in Index /\ cons.r # cons.w
      BY <1>5 DEF CInv, ConsType, consoleread_fault
    <3>2. cons'.r \in {cons.r, Inc(cons.r)} /\ cons'.w = cons.w /\ cons'.e = cons.e
      BY <1>5 DEF CInv, ConsType, consoleread_fault
    <3>3. Diff(cons.w, Inc(cons.r)) = Diff(cons.w, cons.r) - 1
      BY <3>1, TakeIndex <3>4. Diff(cons.w, cons.r) \in Int /\ Diff(cons.e,
        cons.w) \in Int <4>1. Diff(cons.w, cons.r) \in Index /\ Diff(cons.e,
        cons.w) \in Index BY <3>1, DiffIs <4> QED BY <4>1, Sizes DEF Index
    <3> QED
      BY <3>2, <3>3, <3>4, Sizes DEF CInv, Ordered
  <2> QED
    BY <2>1, <2>2, <2>3, <2>4, <2>5 DEF CInv
<1>6. CASE consoleread_done(p)
  <2>1. ConsType'
    BY <1>6 DEF CInv, ConsType, CPCs, consoleread_done, CAt, pop_off, Away
  <2>2. Locks'
    BY <1>6 DEF CInv, ConsType, Locks, Reading, consoleread_done, CAt, pop_off,
      Away
  <2>3. Interrupted'
    BY <1>6 DEF CInv, ConsType, Interrupted, consoleread_done, CAt, pop_off
  <2>4. Sleeps'
    BY <1>6 DEF CInv, ConsType, Sleeps, consoleread_done, CAt, pop_off, Away
  <2>5. Ordered'
    BY <1>6 DEF CInv, ConsType, Ordered, consoleread_done, CAt, pop_off
  <2> QED
    BY <2>1, <2>2, <2>3, <2>4, <2>5 DEF CInv
<1> QED
  BY <1>1, <1>2, <1>3, <1>4, <1>5, <1>6

LEMMA WriterStep ==
  ASSUME CInv, NEW p \in CProc,
         uartputc(p) \/ uartputc_sleep(p) \/ uartputc_put(p) \/
             consolewrite_done(p)
  PROVE  CInv'
<1> USE Names
<1>1. CASE uartputc(p)
  <2>1. ConsType'
    BY <1>1 DEF CInv, ConsType, CPCs, uartputc, CAt, push_off, Goto
  <2>2. Locks'
    BY <1>1 DEF CInv, ConsType, Locks, Reading, uartputc, CAt, push_off, Goto
  <2>3. Interrupted'
    BY <1>1 DEF CInv, ConsType, Interrupted, uartputc, CAt, push_off
  <2>4. Sleeps'
    BY <1>1 DEF CInv, ConsType, Sleeps, uartputc, CAt, push_off, Goto
  <2>5. Ordered'
    BY <1>1 DEF CInv, ConsType, Ordered, uartputc, CAt, push_off
  <2> QED
    BY <2>1, <2>2, <2>3, <2>4, <2>5 DEF CInv
<1>2. CASE uartputc_sleep(p)
  <2>1. ConsType'
    BY <1>2 DEF CInv, ConsType, CPCs, uartputc_sleep, CAt, pop_off, Goto
  <2>2. Locks'
    BY <1>2 DEF CInv, ConsType, Locks, Reading, uartputc_sleep, CAt, pop_off,
      Goto
  <2>3. Interrupted'
    BY <1>2 DEF CInv, ConsType, Interrupted, uartputc_sleep, CAt, pop_off
  <2>4. Sleeps'
    BY <1>2 DEF CInv, ConsType, Sleeps, uartputc_sleep, CAt, pop_off, Goto
  <2>5. Ordered'
    BY <1>2 DEF CInv, ConsType, Ordered, uartputc_sleep, CAt, pop_off
  <2> QED
    BY <2>1, <2>2, <2>3, <2>4, <2>5 DEF CInv
<1>3. CASE uartputc_put(p)
  <2>1. ConsType'
    <3>1. tx' \in [n : 0 .. TX_BUF_SIZE, lock : CProc \cup {Free}]
      BY <1>3, Sizes DEF CInv, ConsType, uartputc_put, uartstart_tx
    <3>2. uart' \in [rx : Typed \cup {"none"}, busy : BOOLEAN, txint : BOOLEAN]
      BY <1>3 DEF CInv, ConsType, uartputc_put, uartstart_uart
    <3>3. cp' \in [CProc -> [pc : CPCs, n : Int, target : Int]]
      <4> DEFINE f == [cp EXCEPT ![p].pc = "wacq", ![p].n = @ - 1]
      <4>1. f \in [CProc -> [pc : CPCs, n : Int, target : Int]]
        <5> DEFINE m == cp[p].n - 1
        <5>1. cp[p] \in [pc : CPCs, n : Int, target : Int] /\ m \in Int /\ "wacq" \in CPCs
          BY DEF CInv, ConsType, CPCs
        <5>2. f = [cp EXCEPT ![p].pc = "wacq", ![p].n = m]
          OBVIOUS
        <5> HIDE DEF m, f
        <5> QED
          BY <5>1, <5>2 DEF CInv, ConsType
      <4>2. cp' = f \/ cp' = Woken(f, "wasleep", "wacq")
        BY <1>3 DEF uartputc_put, uartstart_wake
      <4> HIDE DEF f
      <4> QED
        BY <4>1, <4>2 DEF Woken, CPCs
    <3>4. noff' \in [CProc -> Int]
      BY <1>3 DEF CInv, ConsType, uartputc_put, pop_off
    <3> QED
      BY <1>3, <3>1, <3>2, <3>3, <3>4 DEF CInv, ConsType, uartputc_put
  <2>2. Locks'
    BY <1>3 DEF CInv, ConsType, Locks, Reading, uartputc_put, CAt, pop_off,
      uartstart_tx, uartstart_uart, uartstart_wake, Woken
  <2>3. Interrupted'
    BY <1>3 DEF CInv, ConsType, Interrupted, uartputc_put, CAt, pop_off,
      uartstart_tx, uartstart_uart, uartstart_wake
  <2>4. Sleeps'
    BY <1>3 DEF CInv, ConsType, Sleeps, uartputc_put, CAt, pop_off,
      uartstart_tx, uartstart_uart, uartstart_wake, Woken
  <2>5. Ordered'
    BY <1>3 DEF CInv, ConsType, Ordered, uartputc_put, CAt, pop_off,
      uartstart_tx, uartstart_uart, uartstart_wake
  <2> QED
    BY <2>1, <2>2, <2>3, <2>4, <2>5 DEF CInv
<1>4. CASE consolewrite_done(p)
  <2>1. ConsType'
    BY <1>4 DEF CInv, ConsType, CPCs, consolewrite_done, CAt, Away
  <2>2. Locks'
    BY <1>4 DEF CInv, ConsType, Locks, Reading, consolewrite_done, CAt, Away
  <2>3. Interrupted'
    BY <1>4 DEF CInv, ConsType, Interrupted, consolewrite_done, CAt
  <2>4. Sleeps'
    BY <1>4 DEF CInv, ConsType, Sleeps, consolewrite_done, CAt, Away
  <2>5. Ordered'
    BY <1>4 DEF CInv, ConsType, Ordered, consolewrite_done, CAt
  <2> QED
    BY <2>1, <2>2, <2>3, <2>4, <2>5 DEF CInv
<1> QED
  BY <1>1, <1>2, <1>3, <1>4

LEMMA CallStep ==
  ASSUME CInv, NEW p \in CProc, NEW n \in ReadLens \cup WriteLens,
         read(p, n) \/ write(p, n)
  PROVE  CInv'
<1> USE Names
<1>1. CASE read(p, n)
  <2>1. ConsType'
    <3>1. n \in Int
      BY LengthAssumption <3> QED BY <1>1, <3>1 DEF CInv, ConsType, CPCs, read
  <2>2. Locks'
    BY <1>1 DEF CInv, ConsType, Locks, Reading, read, CAt
  <2>3. Interrupted'
    BY <1>1 DEF CInv, ConsType, Interrupted, read, CAt
  <2>4. Sleeps'
    BY <1>1 DEF CInv, ConsType, Sleeps, read, CAt
  <2>5. Ordered'
    BY <1>1 DEF CInv, ConsType, Ordered, read, CAt
  <2> QED
    BY <2>1, <2>2, <2>3, <2>4, <2>5 DEF CInv
<1>2. CASE write(p, n)
  <2>1. ConsType'
    <3>1. n \in Int
      BY LengthAssumption <3> QED BY <1>2, <3>1 DEF CInv, ConsType, CPCs, write
  <2>2. Locks'
    BY <1>2 DEF CInv, ConsType, Locks, Reading, write, CAt
  <2>3. Interrupted'
    BY <1>2 DEF CInv, ConsType, Interrupted, write, CAt
  <2>4. Sleeps'
    BY <1>2 DEF CInv, ConsType, Sleeps, write, CAt
  <2>5. Ordered'
    BY <1>2 DEF CInv, ConsType, Ordered, write, CAt
  <2> QED
    BY <2>1, <2>2, <2>3, <2>4, <2>5 DEF CInv
<1> QED
  BY <1>1, <1>2

LEMMA EventStep ==
  ASSUME CInv, NEW p \in CProc,
         ckill(p) \/ devintr(p)
  PROVE  CInv'
<1> USE Names
<1>1. CASE ckill(p)
  <2>1. ConsType'
    BY <1>1 DEF CInv, ConsType, CPCs, ckill
  <2>2. Locks'
    BY <1>1 DEF CInv, ConsType, Locks, Reading, ckill
  <2>3. Interrupted'
    BY <1>1 DEF CInv, ConsType, Interrupted, ckill
  <2>4. Sleeps'
    BY <1>1 DEF CInv, ConsType, Sleeps, ckill
  <2>5. Ordered'
    BY <1>1 DEF CInv, ConsType, Ordered, ckill
  <2> QED
    BY <2>1, <2>2, <2>3, <2>4, <2>5 DEF CInv
<1>2. CASE devintr(p)
  <2>1. ConsType'
    BY <1>2 DEF CInv, ConsType, Stops, devintr, plic_claim
  <2>2. Locks'
    BY <1>2 DEF CInv, ConsType, Locks, devintr, plic_claim, NoHandler
  <2>3. Interrupted'
    BY <1>2 DEF CInv, ConsType, Interrupted, devintr, plic_claim
  <2>4. Sleeps'
    BY <1>2 DEF CInv, ConsType, Sleeps, devintr, plic_claim
  <2>5. Ordered'
    BY <1>2 DEF CInv, ConsType, Ordered, devintr, plic_claim
  <2> QED
    BY <2>1, <2>2, <2>3, <2>4, <2>5 DEF CInv
<1> QED
  BY <1>1, <1>2

LEMMA ConsHandlerStep ==
  ASSUME CInv,
         uartgetc \/ consoleintr \/ uartputc_sync \/ consoleintr_done \/ uartintr
             \/ Sent
  PROVE  CInv'
<1> USE Names
<1>1. CASE uartgetc
  <2>1. ConsType'
    BY <1>1 DEF CInv, ConsType, Stops, uartgetc
  <2>2. Locks'
    BY <1>1 DEF CInv, ConsType, Locks, uartgetc
  <2>3. Interrupted'
    BY <1>1 DEF CInv, ConsType, Interrupted, uartgetc
  <2>4. Sleeps'
    BY <1>1 DEF CInv, ConsType, Sleeps, uartgetc
  <2>5. Ordered'
    BY <1>1 DEF CInv, ConsType, Ordered, uartgetc
  <2> QED
    BY <2>1, <2>2, <2>3, <2>4, <2>5 DEF CInv
<1>2. CASE consoleintr
  <2>1. ConsType'
    <3>1. cons' \in [buf : Ring(INPUT_BUF_SIZE, Chars), r : Index, w : Index, e : Index,
                     lock : CProc \cup {Free, "intr"}]
      BY <1>2 DEF CInv, ConsType, consoleintr
    <3>2. hand' \in [cpu : CProc \cup {Free}, at : Stops, c : Typed, echo : BOOLEAN]
      <4> DEFINE b == CASE hand.c \in {"kill", "bs"} -> Editable > 0
                        [] hand.c = "dump" -> TRUE
                        [] OTHER -> hand.c # "nul" /\ Room
      <4>1. b \in BOOLEAN
        <5>1. CASE hand.c \in {"kill", "bs"}
          <6>1. CASE Editable > 0
            BY <5>1, <6>1 <6>2. CASE ~(Editable > 0) <7>1. b = FALSE BY <5>1,
              <6>2 <7> QED BY <7>1 <6> QED BY <6>1, <6>2 <5>2. CASE hand.c =
              "dump" BY <5>2 <5>3. CASE hand.c \notin {"kill", "bs", "dump"}
              <6>1. CASE hand.c # "nul" /\ Room BY <5>3, <6>1 <6>2. CASE
              ~(hand.c # "nul" /\ Room) BY <5>3, <6>2 <6> QED BY <6>1, <6>2 <5>
              QED BY <5>1, <5>2, <5>3 <4>2. hand' = [hand EXCEPT !.at = "echo",
              !.echo = b] BY <1>2 DEF consoleintr
      <4> HIDE DEF b
      <4> QED
        BY <4>1, <4>2 DEF CInv, ConsType, Stops
    <3> QED
      BY <1>2, <3>1, <3>2 DEF CInv, ConsType, consoleintr
  <2>2. Locks'
    BY <1>2 DEF CInv, ConsType, Locks, consoleintr
  <2>3. Interrupted'
    BY <1>2 DEF CInv, ConsType, Interrupted, consoleintr
  <2>4. Sleeps'
    BY <1>2 DEF CInv, ConsType, Sleeps, consoleintr
  <2>5. Ordered'
    BY <1>2 DEF CInv, ConsType, Ordered, consoleintr
  <2> QED
    BY <2>1, <2>2, <2>3, <2>4, <2>5 DEF CInv
<1>3. CASE uartputc_sync
  <2>1. ConsType'
    BY <1>3 DEF CInv, ConsType, uartputc_sync
  <2>2. Locks'
    BY <1>3 DEF CInv, ConsType, Locks, uartputc_sync
  <2>3. Interrupted'
    BY <1>3 DEF CInv, ConsType, Interrupted, uartputc_sync
  <2>4. Sleeps'
    BY <1>3 DEF CInv, ConsType, Sleeps, uartputc_sync
  <2>5. Ordered'
    BY <1>3 DEF CInv, ConsType, Ordered, uartputc_sync
  <2> QED
    BY <2>1, <2>2, <2>3, <2>4, <2>5 DEF CInv
<1>4. CASE consoleintr_done
  <2>1. ConsType'
    <3>1. cons.r \in Index /\ cons.w \in Index /\ cons.e \in Index
      BY DEF CInv, ConsType
    <3>2. cons'.w \in Index /\ cons'.e \in Index
      BY <1>4, <3>1, Editing, IncIs, DecIs DEF Dropped, Killed, Erased, ConsKept
    <3>3. cons'.buf \in Ring(INPUT_BUF_SIZE, Chars)
      <4>1. ASSUME NEW c \in {"x", NL, EOF}
            PROVE  Store(cons.buf, INPUT_BUF_SIZE, cons.e, c) \in Ring(INPUT_BUF_SIZE, Chars)
        BY DEF CInv, ConsType, Store, Ring, Chars
      <4> QED
        BY <1>4, <4>1, Editing DEF CInv, ConsType, Dropped, Killed, Erased, ConsKept
    <3>4. cons' \in [buf : Ring(INPUT_BUF_SIZE, Chars), r : Index, w : Index, e : Index,
                     lock : CProc \cup {Free, "intr"}]
      BY <1>4, <3>1, <3>2, <3>3, Editing <3>5. cp' \in [CProc -> [pc : CPCs, n :
        Int, target : Int]] BY <1>4, Editing DEF CInv, ConsType, CPCs, Woken
    <3>6. hand' \in [cpu : CProc \cup {Free}, at : Stops, c : Typed, echo : BOOLEAN]
      BY <1>4 DEF CInv, ConsType, Stops, Typed, consoleintr_done
    <3>7. UNCHANGED <<tx, uart, noff>>
      BY <1>4 DEF consoleintr_done
    <3> QED
      BY <3>4, <3>5, <3>6, <3>7 DEF CInv, ConsType
  <2>2. Locks'
    <3>1. /\ cons.lock = "intr" /\ cons'.lock = Free /\ hand'.at = "rx"
          /\ UNCHANGED <<tx, noff>>
      BY <1>4, Editing DEF CInv, ConsType, Locks, consoleintr_done
    <3>2. \A p \in CProc : \/ cp'[p].pc = cp[p].pc
                           \/ cp[p].pc = "rasleep" /\ cp'[p].pc = "racq"
      BY <1>4, Editing DEF CInv, ConsType, Woken
    <3> QED
      BY <3>1, <3>2 DEF CInv, Locks, Reading
  <2>3. Interrupted'
    BY <1>4 DEF CInv, ConsType, Interrupted, consoleintr_done
  <2>4. Sleeps'
    <3>1. /\ cons.lock = "intr" /\ cons'.r = cons.r /\ UNCHANGED tx
      BY <1>4, Editing DEF CInv, Locks, consoleintr_done
    <3>2. \A p \in CProc : \/ cp'[p].pc = cp[p].pc
                           \/ cp[p].pc = "rasleep" /\ cp'[p].pc = "racq"
      BY <1>4, Editing DEF CInv, ConsType, Woken
    <3>3. cons'.w # cons.w => \A p \in CProc : cp'[p].pc # "rasleep"
      BY <1>4, Editing DEF CInv, ConsType, Woken
    <3>4. \A p \in CProc : cp'[p].pc # "rsleep"
      BY <3>1, <3>2 DEF CInv, Locks, Reading
    <3> QED
      BY <3>1, <3>2, <3>3, <3>4 DEF CInv, Sleeps
  <2>5. Ordered'
    <3>1. cons.r \in Index /\ cons.w \in Index /\ cons.e \in Index
      BY DEF CInv, ConsType
    <3>2. /\ Diff(cons.w, cons.r) \in Nat /\ Diff(cons.e, cons.w) \in Nat
          /\ Diff(cons.w, cons.r) + Diff(cons.e, cons.w) <= INPUT_BUF_SIZE
          /\ Diff(cons.e, cons.r) = Diff(cons.w, cons.r) + Diff(cons.e, cons.w)
      <4>1. Diff(cons.w, cons.r) \in Index /\ Diff(cons.e, cons.w) \in Index
        BY <3>1, DiffIs <4>2. Diff(cons.w, cons.r) \in Nat /\ Diff(cons.e,
          cons.w) \in Nat BY <4>1, Sizes DEF Index
      <4> QED
        BY <3>1, <4>2, SumIndex DEF CInv, Ordered
    <3>3. CASE Dropped
      BY <1>4, <3>2, <3>3, Editing DEF Dropped, Ordered
    <3>4. CASE Killed
      <4>1. Diff(cons.w, cons.w) = 0
        BY <3>1, DiffIs <4>2. cons'.r = cons.r /\ cons'.w = cons.w /\ cons'.e =
          cons.w BY <1>4, <3>4, Editing DEF Killed
      <4> QED
        BY <3>2, <4>1, <4>2, Sizes DEF Ordered
    <3>5. CASE Erased
      <4>1. Diff(Dec(cons.e), cons.w) = Diff(cons.e, cons.w) - 1
        BY <3>1, <3>5, EraseIndex DEF Erased
      <4> QED
        BY <1>4, <3>2, <3>5, <4>1, Editing, Sizes DEF Erased, Ordered
    <3>6. ASSUME NEW c \in {"x", NL, EOF}, ConsKept(c)
          PROVE  Ordered'
      <4>1. /\ Diff(Inc(cons.e), cons.r) = Diff(cons.e, cons.r) + 1
            /\ Diff(Inc(cons.e), cons.w) = Diff(cons.e, cons.w) + 1
        BY <3>1, <3>2, <3>6, StoreIndex, Sizes DEF ConsKept
      <4>2. Diff(Inc(cons.e), Inc(cons.e)) = 0
        BY <3>1, IncIs, DiffIs <4>3. cons'.r = cons.r /\ cons'.e = Inc(cons.e)
          /\ cons'.w \in {cons.w, Inc(cons.e)} BY <1>4, <3>6, Editing DEF ConsKept
      <4> QED
        BY <3>2, <3>6, <4>1, <4>2, <4>3, Sizes DEF ConsKept, Ordered
    <3> QED
      BY <1>4, <3>3, <3>4, <3>5, <3>6, Editing <2> QED BY <2>1, <2>2, <2>3,
        <2>4, <2>5 DEF CInv
<1>5. CASE uartintr
  <2>1. ConsType'
    <3>1. tx' \in [n : 0 .. TX_BUF_SIZE, lock : CProc \cup {Free}]
      BY <1>5, Sizes DEF CInv, ConsType, uartintr, uartstart_tx
    <3>2. uart' \in [rx : Typed \cup {"none"}, busy : BOOLEAN, txint : BOOLEAN]
      BY <1>5 DEF CInv, ConsType, uartintr, uartstart_uart
    <3>3. cp' \in [CProc -> [pc : CPCs, n : Int, target : Int]]
      BY <1>5 DEF CInv, ConsType, CPCs, uartintr, uartstart_wake, Woken
    <3>4. hand' \in [cpu : CProc \cup {Free}, at : Stops, c : Typed, echo : BOOLEAN]
      BY <1>5 DEF uartintr, NoHandler, Stops, Typed
    <3> QED
      BY <1>5, <3>1, <3>2, <3>3, <3>4 DEF CInv, ConsType, uartintr
  <2>2. Locks'
    BY <1>5 DEF CInv, ConsType, Locks, Reading, uartintr, uartstart_tx,
      uartstart_uart, uartstart_wake, Woken, NoHandler
  <2>3. Interrupted'
    BY <1>5 DEF CInv, ConsType, Interrupted, uartintr, uartstart_tx,
      uartstart_uart, uartstart_wake, NoHandler
  <2>4. Sleeps'
    BY <1>5 DEF CInv, ConsType, Sleeps, uartintr, uartstart_tx, uartstart_uart,
      uartstart_wake, Woken
  <2>5. Ordered'
    BY <1>5 DEF CInv, ConsType, Ordered, uartintr, uartstart_tx, uartstart_uart,
      uartstart_wake
  <2> QED
    BY <2>1, <2>2, <2>3, <2>4, <2>5 DEF CInv
<1>6. CASE Sent
  <2>1. ConsType'
    BY <1>6 DEF CInv, ConsType, Sent
  <2>2. Locks'
    BY <1>6 DEF CInv, ConsType, Locks, Sent
  <2>3. Interrupted'
    BY <1>6 DEF CInv, ConsType, Interrupted, Sent
  <2>4. Sleeps'
    BY <1>6 DEF CInv, ConsType, Sleeps, Sent
  <2>5. Ordered'
    BY <1>6 DEF CInv, ConsType, Ordered, Sent
  <2> QED
    BY <2>1, <2>2, <2>3, <2>4, <2>5 DEF CInv
<1> QED
  BY <1>1, <1>2, <1>3, <1>4, <1>5, <1>6

LEMMA TypeStep ==
  ASSUME CInv, NEW c \in Keys, Type(c)
  PROVE  CInv'
<1>1. c \in Typed
  BY KeysAssumption DEF Typed, NL, EOF
<1>2. ConsType'
  BY <1>1 DEF CInv, ConsType, Type
<1>3. Locks' /\ Interrupted' /\ Sleeps' /\ Ordered'
  BY DEF CInv, Locks, Interrupted, Sleeps, Ordered, Type
<1> QED
  BY <1>2, <1>3 DEF CInv

LEMMA NextCInv == CInv /\ [ConsNext]_consvars => CInv'
<1> SUFFICES ASSUME CInv, [ConsNext]_consvars PROVE CInv'
  OBVIOUS
<1>1. CASE UNCHANGED consvars
  BY <1>1 DEF consvars, CInv, ConsType, Locks, Interrupted, Sleeps, Ordered
<1>2. CASE ConsNext
  BY <1>2, ReaderStep, WriterStep, CallStep, EventStep, ConsHandlerStep, TypeStep
    DEF ConsNext, ConsStep, UartHandler
<1> QED
  BY <1>1, <1>2

LEMMA ConsInvariance == ConsSpec => []CInv
  BY InitCInv, NextCInv, PTL DEF ConsSpec

\* No CPU spins on a lock of the process that it interrupted, and no wakeup of a
\* reader or a writer is lost (spinlock.c push_off, console.c, uart.c).
THEOREM InterruptsAreSafe == ConsSpec => []NoSelfDeadlock
<1>1. CInv => NoSelfDeadlock
  <2> SUFFICES ASSUME CInv PROVE NoSelfDeadlock
    OBVIOUS
  <2>1. hand.cpu # Free => cons.lock # hand.cpu /\ tx.lock # hand.cpu
    BY DEF CInv, ConsType, Locks, Interrupted
  <2> QED
    BY <2>1 DEF CInv, Sleeps, NoSelfDeadlock
<1> QED
  BY <1>1, ConsInvariance, PTL

-----------------------------------------------------------------------------
(***************************************************************************)
(* The ring implements the line discipline of Lines.                       *)
(***************************************************************************)

\* The bytes that read() may take and those that can still be erased, as stretches
\* of the ring.
Pend == Cells(cons.buf, INPUT_BUF_SIZE, cons.r, Diff(cons.w, cons.r))
Edit == Cells(cons.buf, INPUT_BUF_SIZE, cons.w, Diff(cons.e, cons.w))

LEMMA PendIs == Pend = Bytes(cons.r, cons.w) /\ Pend' = Bytes(cons.r, cons.w)'
  BY DEF Pend, Bytes, Cells, Wrap, Cell

LEMMA EditIs == Edit = Bytes(cons.w, cons.e) /\ Edit' = Bytes(cons.w, cons.e)'
  BY DEF Edit, Bytes, Cells, Wrap, Cell

\* What the facts about rings need.
LEMMA RingTyped ==
  ASSUME CInv
  PROVE  /\ INPUT_BUF_SIZE \in Nat \ {0} /\ CUINT \in Nat /\ CUINT % INPUT_BUF_SIZE = 0
         /\ cons.buf \in Ring(INPUT_BUF_SIZE, Chars)
         /\ cons.r \in Index /\ cons.w \in Index /\ cons.e \in Index
         /\ Diff(cons.w, cons.r) \in Nat /\ Diff(cons.e, cons.w) \in Nat
         /\ Diff(cons.w, cons.r) + Diff(cons.e, cons.w) <= INPUT_BUF_SIZE
         /\ Diff(cons.e, cons.r) = Diff(cons.w, cons.r) + Diff(cons.e, cons.w)
<1>1. cons.r \in Index /\ cons.w \in Index /\ cons.e \in Index
  BY DEF CInv, ConsType
<1>2. Diff(cons.w, cons.r) \in Index /\ Diff(cons.e, cons.w) \in Index
  BY <1>1, DiffIs
<1>3. Diff(cons.w, cons.r) \in Nat /\ Diff(cons.e, cons.w) \in Nat
  BY <1>2, Sizes DEF Index
<1>4. INPUT_BUF_SIZE \in Nat \ {0} /\ CUINT \in Nat /\ CUINT % INPUT_BUF_SIZE = 0
  BY IndexAssumption
<1> QED
  BY <1>1, <1>3, <1>4, SumIndex DEF CInv, ConsType, Ordered

\* An index in the ring and the one Diff cells before it name the same cell.
LEMMA SameCells ==
  ASSUME CInv, NEW i \in Index, NEW j \in Index, NEW d, NEW n \in Nat
  PROVE  /\ Cells(d, INPUT_BUF_SIZE, i + Diff(j, i), n) = Cells(d, INPUT_BUF_SIZE, j, n)
         /\ Wrap(i + Diff(j, i), INPUT_BUF_SIZE) = Wrap(j, INPUT_BUF_SIZE)
<1>1. Diff(j, i) = IF i <= j THEN j - i ELSE j + CUINT - i
  BY DiffIs
<1>2. j \in Int /\ i \in Int
  BY Sizes DEF Index
<1>3. i + Diff(j, i) = j \/ i + Diff(j, i) = j + CUINT
  BY <1>1, <1>2, Sizes
<1>4. /\ Cells(d, INPUT_BUF_SIZE, j + CUINT, n) = Cells(d, INPUT_BUF_SIZE, j, n)
      /\ Wrap(j + CUINT, INPUT_BUF_SIZE) = Wrap(j, INPUT_BUF_SIZE)
  BY <1>2, RingTyped, CellsWrap, WrapShift
<1> QED
  BY <1>3, <1>4

\* consoleread() takes the first byte that was handed over.
LEMMA RefineTake ==
  ASSUME CInv, cons'.r = Inc(cons.r), cons.r # cons.w,
         cons'.buf = cons.buf, cons'.w = cons.w, cons'.e = cons.e
  PROVE  L!Take
<1> DEFINE n == Diff(cons.w, cons.r)
<1>1. Diff(cons'.w, cons'.r) = n - 1 /\ n > 0 /\ n \in Nat /\ n - 1 \in Nat
  BY RingTyped, TakeIndex
<1> HIDE DEF n
<1>2. Tail(Pend) = Cells(cons.buf, INPUT_BUF_SIZE, cons.r + 1, n - 1) /\ Pend # <<>>
  <2>1. cons.r \in Int
    BY RingTyped, Sizes DEF Index
  <2>2. Pend = Cells(cons.buf, INPUT_BUF_SIZE, cons.r, n)
    BY DEF Pend, n
  <2>3. INPUT_BUF_SIZE \in Nat \ {0} /\ cons.buf \in Ring(INPUT_BUF_SIZE, Chars)
    BY RingTyped
  <2>4. /\ Tail(Cells(cons.buf, INPUT_BUF_SIZE, cons.r, n))
             = Cells(cons.buf, INPUT_BUF_SIZE, cons.r + 1, n - 1)
        /\ Cells(cons.buf, INPUT_BUF_SIZE, cons.r, n) # <<>>
    BY <1>1, <2>1, <2>3, CellsTail
  <2> QED
    BY <2>2, <2>4
<1>3. Cells(cons.buf, INPUT_BUF_SIZE, cons.r + 1, n - 1)
        = Cells(cons.buf, INPUT_BUF_SIZE, Inc(cons.r), n - 1)
  <2>1. cons.r + 1 = Inc(cons.r) \/ cons.r + 1 = Inc(cons.r) + CUINT
    <3>1. cons.r \in Index /\ cons.r \in Nat
      BY RingTyped, Sizes DEF Index
    <3>2. Inc(cons.r) = IF cons.r + 1 < CUINT THEN cons.r + 1 ELSE 0
      BY <3>1, IncIs <3>3. cons.r <= CUINT - 1 /\ CUINT \in Nat BY <3>1, Sizes
        DEF Index
    <3> QED
      BY <3>1, <3>2, <3>3 <2>2. Inc(cons.r) \in Int BY RingTyped, IncIs, Sizes
        DEF Index
  <2>3. Cells(cons.buf, INPUT_BUF_SIZE, Inc(cons.r) + CUINT, n - 1)
          = Cells(cons.buf, INPUT_BUF_SIZE, Inc(cons.r), n - 1)
    BY <1>1, <2>2, RingTyped, CellsWrap
  <2> QED
    BY <2>1, <2>3
<1>4. Pend' = Tail(Pend)
  BY <1>1, <1>2, <1>3 DEF Pend
<1>5. Edit' = Edit
  BY DEF Edit
<1> QED
  BY <1>2, <1>4, <1>5, PendIs, EditIs DEF L!Take

\* The kill key empties the line under edit, backspace takes its last byte.
LEMMA RefineKill ==
  ASSUME CInv, Killed, cons'.r = cons.r
  PROVE  L!Kill
<1>1. Diff(cons.w, cons.w) = 0
  BY RingTyped, DiffIs
<1>2. Edit' = <<>>
  <2>1. Edit' = Cells(cons.buf, INPUT_BUF_SIZE, cons.w, 0)
    BY <1>1 DEF Edit, Killed
  <2> QED
    BY <2>1 DEF Cells
<1>3. Pend' = Pend
  BY DEF Pend, Killed
<1> QED
  BY <1>2, <1>3, PendIs, EditIs DEF L!Kill

LEMMA RefineErase ==
  ASSUME CInv, Erased, cons'.r = cons.r
  PROVE  L!Erase
<1> DEFINE n == Diff(cons.e, cons.w)
<1>1. Diff(cons'.e, cons'.w) = n - 1 /\ n > 0 /\ n \in Nat
  BY RingTyped, EraseIndex DEF Erased
<1>2. Edit = Cells(cons.buf, INPUT_BUF_SIZE, cons.w, n)
  BY DEF Edit
<1> HIDE DEF n
<1>3. cons.w \in Int
  BY RingTyped, Sizes DEF Index
<1>4. Len(Edit) = n /\ Edit \in Seq(Chars)
  BY <1>1, <1>2, <1>3, RingTyped, CellsSeq
<1>5. SubSeq(Edit, 1, n - 1) = Cells(cons.buf, INPUT_BUF_SIZE, cons.w, n - 1)
  BY <1>1, <1>2, <1>3, RingTyped, CellsFront
<1>6. Edit' = SubSeq(Edit, 1, Len(Edit) - 1) /\ Edit # <<>>
  BY <1>1, <1>4, <1>5 DEF Edit, Erased
<1>7. Pend' = Pend
  BY DEF Pend, Erased
<1> QED
  BY <1>6, <1>7, PendIs, EditIs DEF L!Erase, L!Front

\* A key is added to the line, and the line handed over when it ends.
LEMMA RefineKey ==
  ASSUME CInv, NEW c \in {"x", NL, EOF}, ConsKept(c), cons'.r = cons.r
  PROVE  L!Key(c)
<1> DEFINE m == Diff(cons.w, cons.r)
           n == Diff(cons.e, cons.w)
           P == INPUT_BUF_SIZE
           b == cons'.buf
<1>1. m \in Nat /\ n \in Nat /\ m + n < P /\ Diff(cons.e, cons.r) = m + n
  BY RingTyped DEF ConsKept
<1>2. /\ cons.r \in Int /\ cons.w \in Int /\ P \in Nat \ {0} /\ c \in Chars
      /\ cons.buf \in Ring(P, Chars)
  BY RingTyped, Sizes DEF Index, Chars
<1>3. /\ b = Store(cons.buf, P, cons.r + (m + n), c)
      /\ b = Store(cons.buf, P, cons.w + n, c)
  <2>1. /\ Wrap(cons.r + (m + n), P) = Wrap(cons.e, P)
        /\ Wrap(cons.w + n, P) = Wrap(cons.e, P)
    BY <1>1, RingTyped, SameCells <2> QED BY <2>1 DEF ConsKept, Store
<1>4. /\ Pend = Cells(cons.buf, P, cons.r, m)
      /\ Edit = Cells(cons.buf, P, cons.w, n)
      /\ Edit = Cells(cons.buf, P, cons.r + m, n)
  BY <1>1, RingTyped, SameCells DEF Pend, Edit
<1>5. /\ Diff(Inc(cons.e), cons.r) = m + n + 1
      /\ Diff(Inc(cons.e), cons.w) = n + 1
      /\ Diff(Inc(cons.e), Inc(cons.e)) = 0
  BY <1>1, RingTyped, StoreIndex, IncIs, DiffIs, Sizes
<1> HIDE DEF m, n, P, b
<1>6. Len(Pend) = m /\ Len(Edit) = n
  BY <1>1, <1>2, <1>4, CellsSeq
<1>7. Cells(b, P, cons.r, m) = Pend /\ Cells(b, P, cons.r, m + n + 1) = Append(Pend \o Edit, c)
  <2> DEFINE i == cons.r
             d == cons.buf
             j == cons.r + m
             x == cons.r + (m + n)
  <2>1. /\ j \in Int /\ j <= i + m /\ i + m <= j
        /\ x \in Int /\ x <= j + n /\ j + n <= x
        /\ i \in Int /\ d \in Ring(P, Chars)
    BY <1>1, <1>2 <2>2. b = Store(d, P, x, c) /\ Pend = Cells(d, P, i, m) /\
      Edit = Cells(d, P, j, n) BY <1>3, <1>4 <2> HIDE DEF i, j, d, x
  <2>3. /\ Cells(Store(d, P, x, c), P, i, m) = Cells(d, P, i, m)
        /\ Cells(Store(d, P, x, c), P, i, m + n + 1)
             = Append(Cells(d, P, i, m) \o Cells(d, P, j, n), c)
    BY <1>1, <1>2, <2>1, CellsTwo <2> QED BY <2>2, <2>3 DEF i
<1>8. Cells(b, P, cons.w, n + 1) = Append(Edit, c)
  <2>1. n < P
    BY <1>1, <1>2
  <2>2. Cells(Store(cons.buf, P, cons.w + n, c), P, cons.w, n + 1)
          = Append(Cells(cons.buf, P, cons.w, n), c)
    BY <1>1, <1>2, <2>1, CellsStore
  <2> QED
    BY <1>3, <1>4, <2>2
<1>9. CASE c \in {NL, EOF} \/ m + n + 1 = P
  <2>1. cons'.w = Inc(cons.e) /\ cons'.e = Inc(cons.e)
    BY <1>5, <1>9 DEF ConsKept, P
  <2>2. Pend' = Append(Pend \o Edit, c)
    BY <1>5, <1>7, <2>1 DEF Pend, P, b
  <2>3. Edit' = <<>>
    <3>1. Edit' = Cells(b, P, Inc(cons.e), 0)
      BY <1>5, <2>1 DEF Edit, P, b
    <3> QED
      BY <3>1 DEF Cells
  <2> QED
    BY <1>1, <1>6, <1>9, <2>2, <2>3, PendIs, EditIs DEF L!Key, P
<1>10. CASE ~(c \in {NL, EOF} \/ m + n + 1 = P)
  <2>1. cons'.w = cons.w /\ cons'.e = Inc(cons.e)
    BY <1>5, <1>10 DEF ConsKept, P
  <2>2. Edit' = Append(Edit, c)
    BY <1>5, <1>8, <2>1 DEF Edit, P, b
  <2>3. Pend' = Pend
    BY <1>7, <2>1 DEF Pend, P, b, m
  <2> QED
    BY <1>1, <1>6, <1>10, <2>2, <2>3, PendIs, EditIs DEF L!Key, P
<1> QED
  BY <1>9, <1>10

\* No other step touches the ring.
LEMMA RefineNext ==
  ASSUME CInv, [ConsNext]_consvars
  PROVE  [(\E c \in {NL, EOF} \cup {"x"} : L!Key(c)) \/ L!Erase \/ L!Kill \/ L!Take]_
           <<Bytes(cons.r, cons.w), Bytes(cons.w, cons.e)>>
<1> DEFINE Abs == (\E c \in {NL, EOF} \cup {"x"} : L!Key(c)) \/ L!Erase \/ L!Kill \/ L!Take
           Same == UNCHANGED <<Bytes(cons.r, cons.w), Bytes(cons.w, cons.e)>>
<1>1. ASSUME UNCHANGED <<cons.buf, cons.r, cons.w, cons.e>>
      PROVE  Same
  BY <1>1 DEF Bytes
<1>2. ASSUME NEW p \in CProc, consoleread_byte(p) \/ consoleread_fault(p)
      PROVE  Abs \/ Same
  <2>1. /\ cons'.r \in {cons.r, Inc(cons.r)} /\ cons.r # cons.w
        /\ cons'.buf = cons.buf /\ cons'.w = cons.w /\ cons'.e = cons.e
    BY <1>2 DEF CInv, ConsType, consoleread_byte, consoleread_fault
  <2> QED
    BY <1>1, <2>1, RefineTake
<1>3. CASE consoleintr_done
  <2>1. /\ cons'.r = cons.r
        /\ Dropped \/ Killed \/ Erased \/ \E c \in {"x", NL, EOF} : ConsKept(c)
    BY <1>3, Editing <2>2. CASE Dropped BY <1>1, <2>1, <2>2 DEF Dropped
  <2>3. CASE Killed
    BY <2>1, <2>3, RefineKill
  <2>4. CASE Erased
    BY <2>1, <2>4, RefineErase
  <2>5. ASSUME NEW c \in {"x", NL, EOF}, ConsKept(c)
        PROVE  Abs
    BY <2>1, <2>5, RefineKey
  <2> QED
    BY <2>1, <2>2, <2>3, <2>4, <2>5
<1>4. ASSUME NEW p \in CProc,
             \/ consoleread(p) \/ consoleread_none(p) \/ consoleread_sleep(p)
             \/ consoleread_done(p)
      PROVE  Same
  BY <1>1, <1>4 DEF CInv, ConsType, consoleread, consoleread_none,
    consoleread_sleep, consoleread_done
<1>5. ASSUME NEW p \in CProc,
             \/ uartputc(p) \/ uartputc_sleep(p) \/ uartputc_put(p) \/ consolewrite_done(p)
             \/ ckill(p) \/ devintr(p)
             \/ \E n \in ReadLens : read(p, n)
             \/ \E n \in WriteLens : write(p, n)
      PROVE  Same
  BY <1>1, <1>5 DEF uartputc, uartputc_sleep, uartputc_put, consolewrite_done,
    ckill, devintr, read, write
<1>6. CASE (\E c \in Keys : Type(c)) \/ Sent \/ uartgetc \/ uartputc_sync \/ uartintr
  BY <1>1, <1>6 DEF Type, Sent, uartgetc, uartputc_sync, uartintr
<1>7. CASE consoleintr
  BY <1>1, <1>7 DEF CInv, ConsType, consoleintr
<1>8. CASE UNCHANGED consvars
  BY <1>1, <1>8 DEF consvars
<1> QED
  BY <1>2, <1>3, <1>4, <1>5, <1>6, <1>7, <1>8 DEF ConsNext, ConsStep,
    UartHandler

\* The ring with its three wrapping indices is a queue of bytes handed over and a line
\* under edit, for any sizes with CUINT a multiple of INPUT_BUF_SIZE (console.c
\* consoleread, consoleintr).
THEOREM RingIsLines == ConsSpec => ImplementsLines
<1>1. ConsInit => L!LinesInit
  <2> SUFFICES ASSUME ConsInit PROVE L!LinesInit
    OBVIOUS
  <2>1. CInv /\ cons.r = 0 /\ cons.w = 0 /\ cons.e = 0
    BY InitCInv DEF ConsInit
  <2>2. Diff(cons.w, cons.r) = 0 /\ Diff(cons.e, cons.w) = 0
    BY <2>1, RingTyped, DiffIs <2>3. Pend = <<>> /\ Edit = <<>> BY <2>2 DEF
      Pend, Edit, Cells
  <2> QED
    BY <2>3, PendIs, EditIs DEF L!LinesInit
<1>2. CInv /\ [ConsNext]_consvars =>
        [(\E c \in {NL, EOF} \cup {"x"} : L!Key(c)) \/ L!Erase \/ L!Kill \/ L!Take]_
          <<Bytes(cons.r, cons.w), Bytes(cons.w, cons.e)>>
  BY RefineNext
<1> QED
  BY ConsInvariance, <1>1, <1>2, PTL DEF ConsSpec, ImplementsLines, L!LinesSpec
=============================================================================
