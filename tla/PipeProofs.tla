----------------------------- MODULE PipeProofs -----------------------------
(***************************************************************************)
(* Proofs about Pipe for any number of processes, any size of the ring,    *)
(* any width of the counters and any kills: the page is freed once and not *)
(* used afterwards, no wakeup is lost, and the ring implements ByteStream. *)
(***************************************************************************)
EXTENDS Pipe, RingLemmas, SequenceTheorems

(***************************************************************************)
(* The inductive invariant, in parts.                                      *)
(***************************************************************************)

\* Labels at which a process holds pi->lock, is in pipewrite(), in piperead().
HoldPC == {"write", "wfull", "wait", "rempty", "read", "read_end"}
WritePC == {"wacq", "write", "wfull", "wsleep"}
ReadPC == {"racq", "wait", "rempty", "rsleep", "read", "read_end"}

\* pi->lock is held by the process that is between acquire() and release().
Locking == \A p \in Proc : pc[p] \in HoldPC <=> lock = p

\* A process in pipe code still has the descriptor it came in by, so its end is
\* not closed under it.
Descriptors ==
  \A p \in Proc : /\ pc[p] \in WritePC => p \in wfd
                  /\ pc[p] \in ReadPC => p \in rfd

\* The flag of an end is cleared by the process that gave up the last descriptor,
\* and there is only one such process.
Closing ==
  \A p \in Proc : /\ pc[p] = "wclose" => wfd = {} /\ writeopen
                  /\ pc[p] = "rclose" => rfd = {} /\ readopen

OneCloser ==
  \A p, q \in Proc : /\ pc[p] = "wclose" /\ pc[q] = "wclose" => p = q
                     /\ pc[p] = "rclose" /\ pc[q] = "rclose" => p = q

\* A closed end has no descriptor left, and the second one to be closed frees the
\* page.
Flags ==
  /\ ~writeopen => wfd = {}
  /\ ~readopen => rfd = {}
  /\ freed = IF readopen \/ writeopen THEN 0 ELSE 1

\* The ring holds at most PIPESIZE bytes.
Bounded == Count <= PIPESIZE

\* About to sleep, the condition still holds, as the lock was not given up.
Reasons ==
  \A p \in Proc : /\ pc[p] = "rempty" => Empty /\ writeopen
                  /\ pc[p] = "wfull" => Full /\ readopen

\* Someone was killed.
Killing == \E q \in Proc : killed[q]

\* A sleeper has its reason to sleep, or the holder of the lock will wake it.
Sleepers ==
  \A p \in Proc :
    /\ pc[p] = "rsleep" => /\ writeopen
                           /\ Empty \/ Killing \/ \E q \in Proc : pc[q] = "write"
                           /\ \A q \in Proc : pc[q] # "wfull"
    /\ pc[p] = "wsleep" => /\ readopen
                           /\ Full \/ \E q \in Proc : pc[q] \in {"read", "read_end"}

IInv ==
  /\ TypeOK
  /\ Locking
  /\ Descriptors
  /\ Closing
  /\ OneCloser
  /\ Flags
  /\ Bounded
  /\ Reasons
  /\ Sleepers

-----------------------------------------------------------------------------
(***************************************************************************)
(* The ring: its counters, and the cells they name.                        *)
(***************************************************************************)

\* The sizes, without the divisibility.
LEMMA Sizes == UINT \in Nat \ {0} /\ PIPESIZE \in 1..UINT - 1 /\ 1 \in 0..UINT - 1
  BY PipeAssumption

\* The number of bytes in the ring, without the wrap.
LEMMA CountIs ==
  ASSUME TypeOK
  PROVE  /\ Count = IF nread <= nwrite THEN nwrite - nread ELSE nwrite + UINT - nread
         /\ Count \in 0..UINT - 1
         /\ Empty <=> Count = 0
<1>1. nread \in 0..UINT - 1 /\ nwrite \in 0..UINT - 1
  BY DEF TypeOK
<1>2. Count = IF nread <= nwrite THEN nwrite - nread ELSE nwrite + UINT - nread
  BY <1>1, Sizes, ModAhead DEF Count
<1> QED
  BY <1>1, <1>2, Sizes DEF Empty

\* The ring is full when it holds PIPESIZE bytes.
LEMMA FullIs ==
  ASSUME TypeOK
  PROVE  Full <=> Count = PIPESIZE
<1>1. nread \in 0..UINT - 1 /\ nwrite \in 0..UINT - 1 /\ PIPESIZE \in 0..UINT - 1
  BY Sizes DEF TypeOK
<1>2. (nread + PIPESIZE) % UINT =
         IF nread + PIPESIZE < UINT THEN nread + PIPESIZE ELSE nread + PIPESIZE - UINT
  BY <1>1, Sizes, ModPlus
<1> QED
  BY <1>1, <1>2, CountIs, Sizes DEF Full

\* A counter that is incremented.
LEMMA Increment ==
  ASSUME NEW k \in 0..UINT - 1
  PROVE  /\ (k + 1) % UINT = IF k + 1 < UINT THEN k + 1 ELSE 0
         /\ (k + 1) % UINT \in 0..UINT - 1
<1>1. (k + 1) % UINT = IF k + 1 < UINT THEN k + 1 ELSE k + 1 - UINT
  BY Sizes, ModPlus
<1> QED
  BY <1>1, Sizes

\* nwrite++ on a ring that is not full, and nread++ on one that is not empty.
LEMMA ByteIn ==
  ASSUME TypeOK, Bounded, ~Full, nwrite' = (nwrite + 1) % UINT, nread' = nread
  PROVE  Count' = Count + 1 /\ Count < PIPESIZE
<1>1. nread \in 0..UINT - 1 /\ nwrite \in 0..UINT - 1
  BY DEF TypeOK
<1>2. nwrite' = (IF nwrite + 1 < UINT THEN nwrite + 1 ELSE 0) /\ nwrite' \in 0..UINT - 1
  BY <1>1, Increment
<1>3. Count' = IF nread <= nwrite' THEN nwrite' - nread ELSE nwrite' + UINT - nread
  BY <1>1, <1>2, Sizes, ModAhead DEF Count
<1>4. Count < PIPESIZE
  BY CountIs, FullIs, Sizes DEF Bounded
<1> QED
  BY <1>1, <1>2, <1>3, <1>4, CountIs, Sizes

LEMMA ByteOut ==
  ASSUME TypeOK, ~Empty, nread' = (nread + 1) % UINT, nwrite' = nwrite
  PROVE  Count' = Count - 1 /\ Count > 0
<1>1. nread \in 0..UINT - 1 /\ nwrite \in 0..UINT - 1
  BY DEF TypeOK
<1>2. nread' = (IF nread + 1 < UINT THEN nread + 1 ELSE 0) /\ nread' \in 0..UINT - 1
  BY <1>1, Increment
<1>3. Count' = IF nread' <= nwrite THEN nwrite - nread' ELSE nwrite + UINT - nread'
  BY <1>1, <1>2, Sizes, ModAhead DEF Count
<1> QED
  BY <1>1, <1>2, <1>3, CountIs, Sizes

-----------------------------------------------------------------------------
(***************************************************************************)
(* The invariant is inductive.                                             *)
(***************************************************************************)

LEMMA InitIInv ==
  ASSUME Init
  PROVE  IInv
<1> USE PipeAssumption
<1>1. TypeOK
  BY DEF Init, TypeOK, PCs
<1>2. Count = 0
  BY <1>1, CountIs DEF Init, Empty
<1>3. Locking /\ Descriptors /\ Closing /\ OneCloser /\ Flags
  BY DEF Init, Locking, HoldPC, Descriptors, WritePC, ReadPC, Closing, OneCloser, Flags
<1>4. Bounded /\ Reasons /\ Sleepers
  BY <1>2 DEF Init, Bounded, Reasons, Sleepers
<1> QED
  BY <1>1, <1>3, <1>4 DEF IInv

\* A step of pipewrite().
LEMMA WriterStep ==
  ASSUME IInv, NEW p \in Proc,
            \/ (\E len \in 0..MaxN : pipewrite(p, len))
            \/ pipewrite_acquire(p)
            \/ pipewrite_fail(p)
            \/ pipewrite_full(p)
            \/ pipewrite_sleep(p)
            \/ (\E ch \in Byte : pipewrite_byte(p, ch))
            \/ pipewrite_done(p)
  PROVE  IInv'
<1> USE PipeAssumption DEF IInv, ring, ends, fds
<1>1. ASSUME NEW len \in 0..MaxN, pipewrite(p, len)
      PROVE  IInv'
  <2>1. TypeOK'
    BY <1>1 DEF TypeOK, PCs, pipewrite
  <2>2. Locking' /\ Descriptors'
    BY <1>1 DEF TypeOK, Locking, HoldPC, Descriptors, WritePC, ReadPC, PCs,
        pipewrite
  <2>3. Closing' /\ OneCloser' /\ Flags'
    BY <1>1 DEF TypeOK, Descriptors, Closing, OneCloser, Flags, PCs, pipewrite
  <2>4. Bounded'
    BY <1>1 DEF Bounded, Count, pipewrite
  <2>5. Reasons' /\ Sleepers'
    BY <1>1 DEF TypeOK, Locking, HoldPC, Descriptors, Closing, Flags, WritePC,
        ReadPC, Reasons, Sleepers, Killing, Empty, Full, pipewrite
  <2> QED
    BY <2>1, <2>2, <2>3, <2>4, <2>5
<1>2. ASSUME pipewrite_acquire(p)
      PROVE  IInv'
  <2>1. TypeOK'
    BY <1>2 DEF TypeOK, PCs, pipewrite_acquire, acquire
  <2>2. Locking' /\ Descriptors'
    BY <1>2 DEF TypeOK, Locking, HoldPC, Descriptors, WritePC, ReadPC, PCs,
        pipewrite_acquire, acquire
  <2>3. Closing' /\ OneCloser' /\ Flags'
    BY <1>2 DEF TypeOK, Descriptors, Closing, OneCloser, Flags, PCs,
        pipewrite_acquire, acquire
  <2>4. Bounded'
    BY <1>2 DEF Bounded, Count, pipewrite_acquire, acquire
  <2>5. Reasons' /\ Sleepers'
    BY <1>2 DEF TypeOK, Locking, HoldPC, Descriptors, Closing, Flags, WritePC,
        ReadPC, Reasons, Sleepers, Killing, Empty, Full, pipewrite_acquire,
        acquire
  <2> QED
    BY <2>1, <2>2, <2>3, <2>4, <2>5
<1>3. ASSUME pipewrite_fail(p)
      PROVE  IInv'
  <2>1. TypeOK'
    BY <1>3 DEF TypeOK, PCs, pipewrite_fail, In
  <2>2. Locking' /\ Descriptors'
    BY <1>3 DEF TypeOK, Locking, HoldPC, Descriptors, WritePC, ReadPC, PCs,
        pipewrite_fail, In
  <2>3. Closing' /\ OneCloser' /\ Flags'
    BY <1>3 DEF TypeOK, Descriptors, Closing, OneCloser, Flags, PCs,
        pipewrite_fail, In
  <2>4. Bounded'
    BY <1>3 DEF Bounded, Count, pipewrite_fail, In
  <2>5. Reasons' /\ Sleepers'
    BY <1>3 DEF TypeOK, Locking, HoldPC, Descriptors, Closing, Flags, WritePC,
        ReadPC, Reasons, Sleepers, Killing, Empty, Full, pipewrite_fail, In
  <2> QED
    BY <2>1, <2>2, <2>3, <2>4, <2>5
<1>4. ASSUME pipewrite_full(p)
      PROVE  IInv'
  <2>1. TypeOK'
    BY <1>4 DEF TypeOK, PCs, pipewrite_full, In, WakeReadersAnd, WakeupAnd
  <2>2. Locking' /\ Descriptors'
    BY <1>4 DEF TypeOK, Locking, HoldPC, Descriptors, WritePC, ReadPC, PCs,
        pipewrite_full, In, WakeReadersAnd, WakeupAnd
  <2>3. Closing' /\ OneCloser' /\ Flags'
    BY <1>4 DEF TypeOK, Descriptors, Closing, OneCloser, Flags, PCs,
        pipewrite_full, In, WakeReadersAnd, WakeupAnd
  <2>4. Bounded'
    BY <1>4 DEF Bounded, Count, pipewrite_full, In, WakeReadersAnd, WakeupAnd
  <2>5. Reasons' /\ Sleepers'
    BY <1>4 DEF TypeOK, Locking, HoldPC, Descriptors, Closing, Flags, WritePC,
        ReadPC, Reasons, Sleepers, Killing, Empty, Full, pipewrite_full, In,
        WakeReadersAnd, WakeupAnd
  <2> QED
    BY <2>1, <2>2, <2>3, <2>4, <2>5
<1>5. ASSUME pipewrite_sleep(p)
      PROVE  IInv'
  <2>1. TypeOK'
    BY <1>5 DEF TypeOK, PCs, pipewrite_sleep, sleep, In
  <2>2. Locking' /\ Descriptors'
    BY <1>5 DEF TypeOK, Locking, HoldPC, Descriptors, WritePC, ReadPC, PCs,
        pipewrite_sleep, sleep, In
  <2>3. Closing' /\ OneCloser' /\ Flags'
    BY <1>5 DEF TypeOK, Descriptors, Closing, OneCloser, Flags, PCs,
        pipewrite_sleep, sleep, In
  <2>4. Bounded'
    BY <1>5 DEF Bounded, Count, pipewrite_sleep, sleep, In
  <2>5. Reasons' /\ Sleepers'
    BY <1>5 DEF TypeOK, Locking, HoldPC, Descriptors, Closing, Flags, WritePC,
        ReadPC, Reasons, Sleepers, Killing, Empty, Full, pipewrite_sleep, sleep,
        In
  <2> QED
    BY <2>1, <2>2, <2>3, <2>4, <2>5
<1>6. ASSUME NEW ch \in Byte, pipewrite_byte(p, ch)
      PROVE  IInv'
  <2>1. TypeOK'
    <3>1. nwrite' \in 0..UINT - 1
      BY <1>6, Increment DEF TypeOK, pipewrite_byte
    <3>2. data' \in [0..PIPESIZE - 1 -> Byte]
      BY <1>6 DEF TypeOK, pipewrite_byte
    <3> QED
      BY <1>6, <3>1, <3>2 DEF TypeOK, PCs, pipewrite_byte, In
  <2>2. Locking' /\ Descriptors'
    BY <1>6 DEF TypeOK, Locking, HoldPC, Descriptors, WritePC, ReadPC, PCs,
        pipewrite_byte, In
  <2>3. Closing' /\ OneCloser' /\ Flags'
    BY <1>6 DEF TypeOK, Descriptors, Closing, OneCloser, Flags, PCs,
        pipewrite_byte, In
  <2>4. Bounded'
    <3>1. Count' = Count + 1 /\ Count < PIPESIZE
      BY <1>6, ByteIn DEF pipewrite_byte
    <3> QED
      BY <3>1, CountIs, Sizes DEF Bounded
  <2>5. Reasons' /\ Sleepers'
    BY <1>6 DEF TypeOK, Locking, HoldPC, Descriptors, Closing, Flags, WritePC,
        ReadPC, Reasons, Sleepers, Killing, Empty, Full, pipewrite_byte, In
  <2> QED
    BY <2>1, <2>2, <2>3, <2>4, <2>5
<1>7. ASSUME pipewrite_done(p)
      PROVE  IInv'
  <2>1. TypeOK'
    BY <1>7 DEF TypeOK, PCs, pipewrite_done, In, WakeReadersAnd, WakeupAnd
  <2>2. Locking' /\ Descriptors'
    BY <1>7 DEF TypeOK, Locking, HoldPC, Descriptors, WritePC, ReadPC, PCs,
        pipewrite_done, In, WakeReadersAnd, WakeupAnd
  <2>3. Closing' /\ OneCloser' /\ Flags'
    BY <1>7 DEF TypeOK, Descriptors, Closing, OneCloser, Flags, PCs,
        pipewrite_done, In, WakeReadersAnd, WakeupAnd
  <2>4. Bounded'
    BY <1>7 DEF Bounded, Count, pipewrite_done, In, WakeReadersAnd, WakeupAnd
  <2>5. Reasons' /\ Sleepers'
    BY <1>7 DEF TypeOK, Locking, HoldPC, Descriptors, Closing, Flags, WritePC,
        ReadPC, Reasons, Sleepers, Killing, Empty, Full, pipewrite_done, In,
        WakeReadersAnd, WakeupAnd
  <2> QED
    BY <2>1, <2>2, <2>3, <2>4, <2>5
<1> QED
  BY <1>1, <1>2, <1>3, <1>4, <1>5, <1>6, <1>7

\* A step of piperead().
LEMMA ReaderStep ==
  ASSUME IInv, NEW p \in Proc,
            \/ (\E len \in 0..MaxN : piperead(p, len))
            \/ piperead_acquire(p)
            \/ piperead_wait(p)
            \/ piperead_killed(p)
            \/ piperead_sleep(p)
            \/ piperead_byte(p)
            \/ piperead_done(p)
  PROVE  IInv'
<1> USE PipeAssumption DEF IInv, ring, ends, fds
<1>1. ASSUME NEW len \in 0..MaxN, piperead(p, len)
      PROVE  IInv'
  <2>1. TypeOK'
    BY <1>1 DEF TypeOK, PCs, piperead
  <2>2. Locking' /\ Descriptors'
    BY <1>1 DEF TypeOK, Locking, HoldPC, Descriptors, WritePC, ReadPC, PCs,
        piperead
  <2>3. Closing' /\ OneCloser' /\ Flags'
    BY <1>1 DEF TypeOK, Descriptors, Closing, OneCloser, Flags, PCs, piperead
  <2>4. Bounded'
    BY <1>1 DEF Bounded, Count, piperead
  <2>5. Reasons' /\ Sleepers'
    BY <1>1 DEF TypeOK, Locking, HoldPC, Descriptors, Closing, Flags, WritePC,
        ReadPC, Reasons, Sleepers, Killing, Empty, Full, piperead
  <2> QED
    BY <2>1, <2>2, <2>3, <2>4, <2>5
<1>2. ASSUME piperead_acquire(p)
      PROVE  IInv'
  <2>1. TypeOK'
    BY <1>2 DEF TypeOK, PCs, piperead_acquire, acquire
  <2>2. Locking' /\ Descriptors'
    BY <1>2 DEF TypeOK, Locking, HoldPC, Descriptors, WritePC, ReadPC, PCs,
        piperead_acquire, acquire
  <2>3. Closing' /\ OneCloser' /\ Flags'
    BY <1>2 DEF TypeOK, Descriptors, Closing, OneCloser, Flags, PCs,
        piperead_acquire, acquire
  <2>4. Bounded'
    BY <1>2 DEF Bounded, Count, piperead_acquire, acquire
  <2>5. Reasons' /\ Sleepers'
    BY <1>2 DEF TypeOK, Locking, HoldPC, Descriptors, Closing, Flags, WritePC,
        ReadPC, Reasons, Sleepers, Killing, Empty, Full, piperead_acquire,
        acquire
  <2> QED
    BY <2>1, <2>2, <2>3, <2>4, <2>5
<1>3. ASSUME piperead_wait(p)
      PROVE  IInv'
  <2>1. TypeOK'
    BY <1>3 DEF TypeOK, PCs, piperead_wait, In
  <2>2. Locking' /\ Descriptors'
    BY <1>3 DEF TypeOK, Locking, HoldPC, Descriptors, WritePC, ReadPC, PCs,
        piperead_wait, In
  <2>3. Closing' /\ OneCloser' /\ Flags'
    BY <1>3 DEF TypeOK, Descriptors, Closing, OneCloser, Flags, PCs,
        piperead_wait, In
  <2>4. Bounded'
    BY <1>3 DEF Bounded, Count, piperead_wait, In
  <2>5. Reasons' /\ Sleepers'
    BY <1>3 DEF TypeOK, Locking, HoldPC, Descriptors, Closing, Flags, WritePC,
        ReadPC, Reasons, Sleepers, Killing, Empty, Full, piperead_wait, In
  <2> QED
    BY <2>1, <2>2, <2>3, <2>4, <2>5
<1>4. ASSUME piperead_killed(p)
      PROVE  IInv'
  <2>1. TypeOK'
    BY <1>4 DEF TypeOK, PCs, piperead_killed, In
  <2>2. Locking' /\ Descriptors'
    BY <1>4 DEF TypeOK, Locking, HoldPC, Descriptors, WritePC, ReadPC, PCs,
        piperead_killed, In
  <2>3. Closing' /\ OneCloser' /\ Flags'
    BY <1>4 DEF TypeOK, Descriptors, Closing, OneCloser, Flags, PCs,
        piperead_killed, In
  <2>4. Bounded'
    BY <1>4 DEF Bounded, Count, piperead_killed, In
  <2>5. Reasons' /\ Sleepers'
    BY <1>4 DEF TypeOK, Locking, HoldPC, Descriptors, Closing, Flags, WritePC,
        ReadPC, Reasons, Sleepers, Killing, Empty, Full, piperead_killed, In
  <2> QED
    BY <2>1, <2>2, <2>3, <2>4, <2>5
<1>5. ASSUME piperead_sleep(p)
      PROVE  IInv'
  <2>1. TypeOK'
    BY <1>5 DEF TypeOK, PCs, piperead_sleep, sleep, In
  <2>2. Locking' /\ Descriptors'
    BY <1>5 DEF TypeOK, Locking, HoldPC, Descriptors, WritePC, ReadPC, PCs,
        piperead_sleep, sleep, In
  <2>3. Closing' /\ OneCloser' /\ Flags'
    BY <1>5 DEF TypeOK, Descriptors, Closing, OneCloser, Flags, PCs,
        piperead_sleep, sleep, In
  <2>4. Bounded'
    BY <1>5 DEF Bounded, Count, piperead_sleep, sleep, In
  <2>5. Reasons' /\ Sleepers'
    BY <1>5 DEF TypeOK, Locking, HoldPC, Descriptors, Closing, Flags, WritePC,
        ReadPC, Reasons, Sleepers, Killing, Empty, Full, piperead_sleep, sleep,
        In
  <2> QED
    BY <2>1, <2>2, <2>3, <2>4, <2>5
<1>6. ASSUME piperead_byte(p)
      PROVE  IInv'
  <2>1. TypeOK'
    <3>1. nread' \in 0..UINT - 1
      BY <1>6, Increment DEF TypeOK, piperead_byte
    <3>2. left' \in [Proc -> 0..MaxN] /\ pc' \in [Proc -> PCs]
      <4>1. left[p] > 0 => left[p] - 1 \in 0..MaxN
        BY DEF TypeOK
      <4>2. CASE left' = [left EXCEPT ![p] = @ - 1] /\ UNCHANGED pc
        BY <1>6, <4>1, <4>2 DEF TypeOK, piperead_byte
      <4>3. CASE pc' = [pc EXCEPT ![p] = "read_end"] /\ UNCHANGED left
        BY <4>3 DEF TypeOK, PCs
      <4> QED
        BY <1>6, <4>2, <4>3 DEF piperead_byte
    <3>3. UNCHANGED <<data, nwrite, ends, lock, freed, fds, killed>>
      BY <1>6 DEF piperead_byte
    <3> QED
      BY <3>1, <3>2, <3>3 DEF TypeOK, ends, fds
  <2>2. Locking' /\ Descriptors'
    BY <1>6 DEF TypeOK, Locking, HoldPC, Descriptors, WritePC, ReadPC, PCs,
        piperead_byte, In
  <2>3. Closing' /\ OneCloser' /\ Flags'
    BY <1>6 DEF TypeOK, Descriptors, Closing, OneCloser, Flags, PCs,
        piperead_byte, In
  <2>4. Bounded'
    <3>1. Count' = Count - 1
      BY <1>6, ByteOut DEF piperead_byte
    <3> QED
      BY <3>1, CountIs, Sizes DEF Bounded
  <2>5. Reasons' /\ Sleepers'
    BY <1>6 DEF TypeOK, Locking, HoldPC, Descriptors, Closing, Flags, WritePC,
        ReadPC, Reasons, Sleepers, Killing, Empty, Full, piperead_byte, In
  <2> QED
    BY <2>1, <2>2, <2>3, <2>4, <2>5
<1>7. ASSUME piperead_done(p)
      PROVE  IInv'
  <2>1. TypeOK'
    BY <1>7 DEF TypeOK, PCs, piperead_done, In, WakeWritersAnd, WakeupAnd
  <2>2. Locking' /\ Descriptors'
    BY <1>7 DEF TypeOK, Locking, HoldPC, Descriptors, WritePC, ReadPC, PCs,
        piperead_done, In, WakeWritersAnd, WakeupAnd
  <2>3. Closing' /\ OneCloser' /\ Flags'
    BY <1>7 DEF TypeOK, Descriptors, Closing, OneCloser, Flags, PCs,
        piperead_done, In, WakeWritersAnd, WakeupAnd
  <2>4. Bounded'
    BY <1>7 DEF Bounded, Count, piperead_done, In, WakeWritersAnd, WakeupAnd
  <2>5. Reasons' /\ Sleepers'
    BY <1>7 DEF TypeOK, Locking, HoldPC, Descriptors, Closing, Flags, WritePC,
        ReadPC, Reasons, Sleepers, Killing, Empty, Full, piperead_done, In,
        WakeWritersAnd, WakeupAnd
  <2> QED
    BY <2>1, <2>2, <2>3, <2>4, <2>5
<1> QED
  BY <1>1, <1>2, <1>3, <1>4, <1>5, <1>6, <1>7

\* fork(), fileclose() with pipeclose(), and kill().
LEMMA DescriptorStep ==
  ASSUME IInv, NEW p \in Proc,
            \/ (\E q \in Proc : fork(p, q))
            \/ close_write(p)
            \/ close_read(p)
            \/ pipeclose(p)
            \/ kill(p)
  PROVE  IInv'
<1> USE PipeAssumption DEF IInv, ring, ends, fds
<1>1. ASSUME NEW q \in Proc, fork(p, q)
      PROVE  IInv'
  <2>1. TypeOK'
    BY <1>1 DEF TypeOK, PCs, fork
  <2>2. Locking' /\ Descriptors'
    BY <1>1 DEF TypeOK, Locking, HoldPC, Descriptors, WritePC, ReadPC, PCs, fork
  <2>3. Closing' /\ OneCloser' /\ Flags'
    BY <1>1 DEF TypeOK, Descriptors, Closing, OneCloser, Flags, PCs, fork
  <2>4. Bounded'
    BY <1>1 DEF Bounded, Count, fork
  <2>5. Reasons' /\ Sleepers'
    BY <1>1 DEF TypeOK, Locking, HoldPC, Descriptors, Closing, Flags, WritePC,
        ReadPC, Reasons, Sleepers, Killing, Empty, Full, fork
  <2> QED
    BY <2>1, <2>2, <2>3, <2>4, <2>5
<1>2. ASSUME close_write(p)
      PROVE  IInv'
  <2>1. TypeOK'
    BY <1>2 DEF TypeOK, PCs, close_write
  <2>2. Locking' /\ Descriptors'
    BY <1>2 DEF TypeOK, Locking, HoldPC, Descriptors, WritePC, ReadPC, PCs,
        close_write
  <2>3. Closing' /\ OneCloser' /\ Flags'
    BY <1>2 DEF TypeOK, Descriptors, Closing, OneCloser, Flags, PCs, close_write
  <2>4. Bounded'
    BY <1>2 DEF Bounded, Count, close_write
  <2>5. Reasons' /\ Sleepers'
    BY <1>2 DEF TypeOK, Locking, HoldPC, Descriptors, Closing, Flags, WritePC,
        ReadPC, Reasons, Sleepers, Killing, Empty, Full, close_write
  <2> QED
    BY <2>1, <2>2, <2>3, <2>4, <2>5
<1>3. ASSUME close_read(p)
      PROVE  IInv'
  <2>1. TypeOK'
    BY <1>3 DEF TypeOK, PCs, close_read
  <2>2. Locking' /\ Descriptors'
    BY <1>3 DEF TypeOK, Locking, HoldPC, Descriptors, WritePC, ReadPC, PCs,
        close_read
  <2>3. Closing' /\ OneCloser' /\ Flags'
    BY <1>3 DEF TypeOK, Descriptors, Closing, OneCloser, Flags, PCs, close_read
  <2>4. Bounded'
    BY <1>3 DEF Bounded, Count, close_read
  <2>5. Reasons' /\ Sleepers'
    BY <1>3 DEF TypeOK, Locking, HoldPC, Descriptors, Closing, Flags, WritePC,
        ReadPC, Reasons, Sleepers, Killing, Empty, Full, close_read
  <2> QED
    BY <2>1, <2>2, <2>3, <2>4, <2>5
<1>4. ASSUME pipeclose(p)
      PROVE  IInv'
  <2>1. TypeOK'
    <3>1. pc' \in [Proc -> PCs] /\ freed' \in Nat
      BY <1>4 DEF TypeOK, PCs, pipeclose, WakeReadersAnd, WakeWritersAnd, WakeupAnd
    <3>2. readopen' \in BOOLEAN /\ writeopen' \in BOOLEAN
      BY <1>4 DEF TypeOK, pipeclose
    <3> QED
      BY <1>4, <3>1, <3>2 DEF TypeOK, pipeclose
  <2>2. Locking' /\ Descriptors'
    BY <1>4 DEF TypeOK, Locking, HoldPC, Descriptors, WritePC, ReadPC, PCs,
        pipeclose, WakeReadersAnd, WakeWritersAnd, WakeupAnd
  <2>3. Closing' /\ OneCloser' /\ Flags'
    <3>1. CASE pc[p] = "wclose"
      <4>1. ~writeopen' /\ readopen' = readopen /\ wfd' = {} /\ rfd' = rfd
        BY <1>4, <3>1 DEF pipeclose, Closing
      <4>2. \A q \in Proc : /\ pc'[q] # "wclose"
                            /\ pc'[q] = "rclose" => pc[q] = "rclose"
        BY <1>4, <3>1 DEF TypeOK, OneCloser, pipeclose, WakeReadersAnd, WakeupAnd
      <4>3. Closing'
        BY <4>1, <4>2 DEF Closing
      <4>4. OneCloser'
        BY <4>2 DEF OneCloser
      <4>5. Flags'
        BY <1>4, <3>1, <4>1 DEF TypeOK, pipeclose, Closing, Flags
      <4> QED
        BY <4>3, <4>4, <4>5
    <3>2. CASE pc[p] = "rclose"
      <4>1. ~readopen' /\ writeopen' = writeopen /\ wfd' = wfd /\ rfd' = {}
        BY <1>4, <3>2 DEF pipeclose, Closing
      <4>2. \A q \in Proc : /\ pc'[q] # "rclose"
                            /\ pc'[q] = "wclose" => pc[q] = "wclose"
        BY <1>4, <3>2 DEF TypeOK, OneCloser, pipeclose, WakeWritersAnd, WakeupAnd
      <4>3. Closing'
        BY <4>1, <4>2 DEF Closing
      <4>4. OneCloser'
        BY <4>2 DEF OneCloser
      <4>5. Flags'
        BY <1>4, <3>2, <4>1 DEF TypeOK, pipeclose, Closing, Flags
      <4> QED
        BY <4>3, <4>4, <4>5
    <3> QED
      BY <1>4, <3>1, <3>2 DEF pipeclose
  <2>4. Bounded'
    BY <1>4 DEF Bounded, Count, pipeclose, WakeReadersAnd, WakeWritersAnd,
        WakeupAnd
  <2>5. Reasons' /\ Sleepers'
    BY <1>4 DEF TypeOK, Locking, HoldPC, Descriptors, Closing, Flags, WritePC,
        ReadPC, Reasons, Sleepers, Killing, Empty, Full, pipeclose,
        WakeReadersAnd, WakeWritersAnd, WakeupAnd
  <2> QED
    BY <2>1, <2>2, <2>3, <2>4, <2>5
<1>5. ASSUME kill(p)
      PROVE  IInv'
  <2>1. TypeOK'
    BY <1>5 DEF TypeOK, PCs, kill
  <2>2. Locking' /\ Descriptors'
    BY <1>5 DEF TypeOK, Locking, HoldPC, Descriptors, WritePC, ReadPC, PCs, kill
  <2>3. Closing' /\ OneCloser' /\ Flags'
    BY <1>5 DEF TypeOK, Descriptors, Closing, OneCloser, Flags, PCs, kill
  <2>4. Bounded'
    BY <1>5 DEF Bounded, Count, kill
  <2>5. Reasons' /\ Sleepers'
    BY <1>5 DEF TypeOK, Locking, HoldPC, Descriptors, Closing, Flags, WritePC,
        ReadPC, Reasons, Sleepers, Killing, Empty, Full, kill
  <2> QED
    BY <2>1, <2>2, <2>3, <2>4, <2>5
<1> QED
  BY <1>1, <1>2, <1>3, <1>4, <1>5

LEMMA NextIInv ==
  ASSUME IInv, [Next]_vars
  PROVE  IInv'
<1>1. CASE Next
  BY <1>1, WriterStep, ReaderStep, DescriptorStep DEF Next, Busy
<1>2. CASE UNCHANGED vars
  <2>1. Count' = Count /\ Empty' = Empty /\ Full' = Full
    BY <1>2 DEF vars, ring, Count, Empty, Full
  <2>2. TypeOK' /\ Locking' /\ Descriptors' /\ Closing' /\ OneCloser' /\ Flags'
    BY <1>2 DEF IInv, vars, ring, ends, fds, TypeOK, Locking, Descriptors, Closing,
          OneCloser, Flags
  <2>3. Bounded' /\ Reasons' /\ Sleepers'
    BY <1>2, <2>1 DEF IInv, vars, ring, ends, fds, Bounded, Reasons, Sleepers, Killing
  <2> QED
    BY <2>2, <2>3 DEF IInv
<1> QED
  BY <1>1, <1>2

LEMMA Invariance == Spec => []IInv
<1>1. Init => IInv
  BY InitIInv
<1>2. IInv /\ [Next]_vars => IInv'
  BY NextIInv
<1> QED
  BY <1>1, <1>2, PTL DEF Spec

-----------------------------------------------------------------------------
(***************************************************************************)
(* The theorems.                                                           *)
(***************************************************************************)

\* The page of the pipe is freed at most once, and when it is, no process is in
\* pipe code or can come back to it, for any number of processes that share the
\* pipe by fork() (file.c fileclose, pipe.c pipeclose).
THEOREM FreedOnce == Spec => []NoUseAfterFree
<1>1. IInv => NoUseAfterFree
  <2> SUFFICES ASSUME IInv
               PROVE  NoUseAfterFree
    OBVIOUS
  <2>1. freed <= 1 /\ (freed = 1 => ~readopen /\ ~writeopen)
    BY DEF IInv, Flags
  <2>2. ~readopen /\ ~writeopen => wfd = {} /\ rfd = {}
    BY DEF IInv, Flags
  <2>3. ~readopen /\ ~writeopen => \A p \in Proc : pc[p] \in {"none", "idle"}
    BY <2>2 DEF IInv, TypeOK, PCs, Closing, Descriptors, WritePC, ReadPC
  <2> QED
    BY <2>1, <2>2, <2>3 DEF NoUseAfterFree
<1> QED
  BY Invariance, <1>1, PTL

\* No sleeping reader or writer is left behind by a wakeup that came too early, for
\* any number of readers, writers and closers; only the return of a killed writer
\* can strand bytes (pipe.c pipewrite, piperead, pipeclose).
THEOREM NoWakeupIsLost == Spec => []NoLostWakeup
<1>1. IInv => NoLostWakeup
  BY PipeAssumption DEF IInv, NoLostWakeup, Sleepers, Killing, Locking, HoldPC
<1> QED
  BY Invariance, <1>1, PTL

-----------------------------------------------------------------------------
(***************************************************************************)
(* The ring implements the queue of ByteStream.                            *)
(***************************************************************************)

\* The queue the ring stands for, as a stretch of its cells.
Queue == Cells(data, PIPESIZE, nread, Count)

\* It is the queue that S names.
LEMMA QueueIs == Queue = [k \in 1..Count |-> data[(nread + k - 1) % PIPESIZE]]
  BY DEF Queue, Cells, Wrap

\* What the facts about rings need.
LEMMA RingTyped ==
  ASSUME TypeOK
  PROVE  /\ data \in Ring(PIPESIZE, Byte) /\ nread \in Int /\ Count \in Nat
         /\ PIPESIZE \in Nat \ {0} /\ UINT \in Nat /\ UINT % PIPESIZE = 0
<1>1. PIPESIZE \in Nat \ {0} /\ UINT \in Nat /\ UINT % PIPESIZE = 0
  BY PipeAssumption
<1> QED
  BY <1>1, CountIs, Sizes DEF TypeOK, Ring

\* The cell that the next byte is written to lies right behind the queue, however
\* the two counters have wrapped.
LEMMA WriteCell ==
  ASSUME TypeOK
  PROVE  nwrite % PIPESIZE = Wrap(nread + Count, PIPESIZE)
<1>1. nread \in 0..UINT - 1 /\ nwrite \in 0..UINT - 1
  BY DEF TypeOK
<1>2. nread + Count = nwrite \/ nread + Count = nwrite + UINT
  BY <1>1, Sizes, CountIs
<1>3. Wrap(nwrite + UINT, PIPESIZE) = Wrap(nwrite, PIPESIZE)
  <2>1. nwrite \in Int
    BY <1>1
  <2> QED
    BY <2>1, RingTyped, WrapShift
<1> QED
  BY <1>2, <1>3 DEF Wrap

\* pipewrite() puts a byte at the end of the queue.
LEMMA RefinePut ==
  ASSUME IInv, NEW p \in Proc, NEW ch \in Byte, pipewrite_byte(p, ch)
  PROVE  S!Put(ch)
<1>0. TypeOK
  BY DEF IInv
<1>1. writeopen /\ readopen /\ UNCHANGED <<writeopen, readopen>>
  BY DEF IInv, Descriptors, WritePC, Flags, pipewrite_byte, In, ends
<1>2. Count' = Count + 1 /\ Count < PIPESIZE
  BY <1>0, ByteIn DEF IInv, pipewrite_byte
<1>3. data' = Store(data, PIPESIZE, nread + Count, ch) /\ nread' = nread
  BY <1>0, WriteCell DEF pipewrite_byte, Store
<1>4. Cells(data', PIPESIZE, nread, Count + 1) = Append(Queue, ch)
  <2>1. /\ data \in Ring(PIPESIZE, Byte) /\ nread \in Int /\ Count \in Nat
        /\ PIPESIZE \in Nat \ {0} /\ Count < PIPESIZE
    BY <1>0, <1>2, RingTyped
  <2>2. Cells(Store(data, PIPESIZE, nread + Count, ch), PIPESIZE, nread, Count + 1)
          = Append(Cells(data, PIPESIZE, nread, Count), ch)
    BY <2>1, CellsStore
  <2> QED
    BY <1>3, <2>2 DEF Queue
<1>5. Queue' = Append(Queue, ch)
  BY <1>2, <1>3, <1>4 DEF Queue
<1>6. Len(Queue) = Count
  BY <1>0, RingTyped, CellsSeq DEF Queue
<1>7. Queue' = [k \in 1..Count |-> data[(nread + k - 1) % PIPESIZE]]'
  BY DEF Queue, Cells, Wrap
<1> QED
  BY <1>1, <1>2, <1>5, <1>6, <1>7, QueueIs DEF S!Put

\* piperead() takes the byte at the head of the queue.
LEMMA RefineGet ==
  ASSUME IInv, NEW p \in Proc, piperead_byte(p)
  PROVE  S!Get
<1>0. TypeOK
  BY DEF IInv
<1>1. readopen /\ UNCHANGED <<writeopen, readopen>>
  BY DEF IInv, Descriptors, ReadPC, Flags, piperead_byte, In, ends
<1>2. Count' = Count - 1 /\ Count > 0
  BY <1>0, ByteOut DEF piperead_byte
<1>3. data' = data /\ nread' = (nread + 1) % UINT
  BY DEF piperead_byte
<1>4. nread + 1 = nread' \/ nread + 1 = nread' + UINT
  <2>1. nread \in 0..UINT - 1
    BY <1>0 DEF TypeOK
  <2> QED
    BY <1>3, <2>1, Increment, Sizes
<1>5. nread' \in Int /\ Count - 1 \in Nat
  <2>1. nread \in 0..UINT - 1
    BY <1>0 DEF TypeOK
  <2> QED
    BY <1>0, <1>2, <1>3, <2>1, Increment, RingTyped, Sizes
<1>6. Cells(data, PIPESIZE, nread + 1, Count - 1) = Cells(data, PIPESIZE, nread', Count - 1)
  <2>1. Cells(data, PIPESIZE, nread' + UINT, Count - 1) = Cells(data, PIPESIZE, nread', Count - 1)
    BY <1>0, <1>5, RingTyped, CellsWrap
  <2> QED
    BY <1>4, <2>1
<1>7. Tail(Queue) = Cells(data, PIPESIZE, nread + 1, Count - 1) /\ Queue # <<>>
  BY <1>0, <1>2, RingTyped, CellsTail DEF Queue
<1>8. Queue' = Tail(Queue)
  BY <1>2, <1>3, <1>6, <1>7 DEF Queue
<1>9. Queue' = [k \in 1..Count |-> data[(nread + k - 1) % PIPESIZE]]'
  BY DEF Queue, Cells, Wrap
<1> QED
  BY <1>1, <1>7, <1>8, <1>9, QueueIs DEF S!Get

\* No other step moves a byte, and only pipeclose() closes an end.
LEMMA RefineNext ==
  ASSUME IInv, [Next]_vars
  PROVE  [S!Next]_(S!svars)
<1>1. ASSUME NEW p \in Proc, NEW ch \in Byte, pipewrite_byte(p, ch)
      PROVE  S!Next
  BY <1>1, RefinePut DEF S!Next
<1>2. ASSUME NEW p \in Proc, piperead_byte(p)
      PROVE  S!Next
  BY <1>2, RefineGet DEF S!Next
<1>3. ASSUME NEW p \in Proc, pipeclose(p)
      PROVE  S!Next
  <2>1. UNCHANGED <<data, nread, Count>>
    BY <1>3 DEF pipeclose, ring, Count
  <2>2. \/ writeopen' = FALSE /\ readopen' = readopen
        \/ readopen' = FALSE /\ writeopen' = writeopen
    BY <1>3 DEF pipeclose
  <2> QED
    BY <2>1, <2>2 DEF S!Next, S!CloseWrite, S!CloseRead
<1>4. ASSUME UNCHANGED <<ring, ends>>
      PROVE  UNCHANGED S!svars
  BY <1>4 DEF ring, ends, S!svars, Count
<1>5. CASE Next
  <2> SUFFICES ASSUME NEW p \in Proc,
                      ~(\E ch \in Byte : pipewrite_byte(p, ch)),
                      ~piperead_byte(p), ~pipeclose(p),
                      \/ Busy(p)
                      \/ \E len \in 0..MaxN : pipewrite(p, len) \/ piperead(p, len)
                      \/ \E q \in Proc : fork(p, q)
                      \/ close_write(p) \/ close_read(p) \/ kill(p)
               PROVE  UNCHANGED <<ring, ends>>
    BY <1>1, <1>2, <1>3, <1>4, <1>5 DEF Next, Busy
  <2>1. CASE \/ pipewrite_acquire(p) \/ pipewrite_fail(p) \/ pipewrite_full(p)
             \/ pipewrite_sleep(p) \/ pipewrite_done(p)
    BY <2>1 DEF pipewrite_acquire, pipewrite_fail, pipewrite_full, pipewrite_sleep,
        pipewrite_done, acquire, sleep
  <2>2. CASE \/ piperead_acquire(p) \/ piperead_wait(p) \/ piperead_killed(p)
             \/ piperead_sleep(p) \/ piperead_done(p)
    BY <2>2 DEF piperead_acquire, piperead_wait, piperead_killed, piperead_sleep,
        piperead_done, acquire, sleep
  <2>3. CASE \/ \E len \in 0..MaxN : pipewrite(p, len) \/ piperead(p, len)
             \/ \E q \in Proc : fork(p, q)
             \/ close_write(p) \/ close_read(p) \/ kill(p)
    BY <2>3 DEF pipewrite, piperead, fork, close_write, close_read, kill
  <2> QED
    BY <2>1, <2>2, <2>3 DEF Busy
<1>6. CASE UNCHANGED vars
  BY <1>4, <1>6 DEF vars
<1> QED
  BY <1>5, <1>6

\* The ring buffer with its two wrapping counters is a bounded first-in first-out
\* queue of bytes, for any size and width with UINT a multiple of PIPESIZE and any
\* number of readers and writers (pipe.c pipewrite, piperead, pipeclose).
THEOREM RingIsByteStream == Spec => ImplementsByteStream
<1>1. Init => S!Init
  <2> SUFFICES ASSUME Init
               PROVE  S!Init
    OBVIOUS
  <2>1. TypeOK /\ Count = 0
    BY InitIInv, CountIs DEF IInv, Init, Empty
  <2>2. Len(Queue) = 0 /\ Queue \in Seq(Byte)
    BY <2>1, RingTyped, CellsSeq DEF Queue
  <2>3. Queue = <<>>
    BY <2>2
  <2> QED
    BY <2>3, QueueIs DEF Init, S!Init
<1>2. IInv /\ [Next]_vars => [S!Next]_(S!svars)
  BY RefineNext
<1> QED
  BY Invariance, <1>1, <1>2, PTL DEF Spec, ImplementsByteStream, S!Spec
=============================================================================
