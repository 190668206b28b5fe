------------------------------ MODULE MmDriver ------------------------------
(* The malloc exercise: the allocator mem-allocator/mm.c, the simulated memory
   system memlib.c under it, and the driver mdriver.c that runs a trace of
   requests three times: to check it, to measure its use of space, to time it.

   The trace is chosen request by request while it is checked, and replayed as
   it was.  Time is not modelled.                                             *)
EXTENDS Integers, Sequences, FiniteSets

CONSTANTS
  ALIGNMENT,  \* bytes
  WordLen,    \* sizeof(size_t)
  MAX_HEAP,   \* bytes of the simulated memory
  Index,      \* block numbers of a trace
  Sizes,      \* sizes of requests
  TraceLen    \* bound on num_ops

ASSUME MmAssumption == ALIGNMENT > 0 /\ WordLen > 0 /\ 0 \notin Sizes

VARIABLES
  phase,   \* "valid", "util", "speed", "done"; "invalid" or "error" after a failure
  trace,   \* the requests: type, index, size
  opnum,   \* requests of this phase that are done
  mm,      \* the memory: mem_brk, the size word of each header, the bytes
  block,   \* trace->blocks and trace->block_sizes, of the blocks in use
  ranges,  \* the range list: lo and hi of each payload
  why,     \* what eval_mm_valid() found
  total    \* total_size and max_total_size of eval_mm_util()

mmvars == <<phase, trace, opnum, mm, block, ranges, why, total>>

ALIGN(n) == ((n + ALIGNMENT - 1) \div ALIGNMENT) * ALIGNMENT
SIZE_T_SIZE == ALIGN(WordLen)
EmptyHeap == [brk |-> 0, word |-> <<>>, data |-> [a \in 0 .. MAX_HEAP - 1 |-> "junk"]]

MmInit ==
  /\ phase = "valid"
  /\ trace = <<>> /\ opnum = 0
  /\ mm = EmptyHeap
  /\ block = <<>>
  /\ ranges = {}
  /\ why = "none"
  /\ total = [now |-> 0, max |-> 0]

With(f, a, v) == [b \in DOMAIN f \cup {a} |-> IF b = a THEN v ELSE f[b]]
Without(f, a) == [b \in DOMAIN f \ {a} |-> f[b]]
-----------------------------------------------------------------------------
\* Mutant: there is no room for the size word.
newsize_Bare(size) == ALIGN(size)

newsize(size) == ALIGN(size + SIZE_T_SIZE)

\* mem_sbrk() has the memory for mm_malloc(size).
Enough(m, size) == m.brk + newsize(size) <= MAX_HEAP

\* mm_malloc(): the memory afterwards, and the pointer it returns.
mm_malloc(m, size) == [m EXCEPT !.brk = @ + newsize(size), !.word = With(@, m.brk, size)]
payload(m) == m.brk + SIZE_T_SIZE

\* mm_realloc(): a new block with as much of the old payload as fits; mm_free() does
\* nothing.
mm_realloc(m, oldptr, size) ==
  LET old == m.word[oldptr - SIZE_T_SIZE]
      copySize == IF size < old THEN size ELSE old
      p == payload(m)
  IN  [mm_malloc(m, size) EXCEPT
         !.data = [a \in DOMAIN m.data |-> IF a \in p .. p + copySize - 1 THEN m.data[oldptr + a - p] ELSE m.data[a]]]

\* memset() of a payload with the number of its block.
Filled(m, p, size, index) ==
  [m EXCEPT !.data = [a \in DOMAIN m.data |-> IF a \in p .. p + size - 1 THEN index ELSE m.data[a]]]
-----------------------------------------------------------------------------
\* The requests that may come next in a trace file.
read_trace ==
  {r \in [type : {"alloc", "realloc", "free"}, index : Index, size : Sizes] :
    IF r.type = "alloc" THEN r.index \notin DOMAIN block ELSE r.index \in DOMAIN block}

\* add_range() accepts the payload: aligned, inside the heap, no end of it inside
\* another payload.
add_range(m, rs, lo, size) ==
  LET hi == lo + size - 1
  IN  /\ lo % ALIGNMENT = 0
      /\ lo \in 0 .. m.brk - 1 /\ hi \in 0 .. m.brk - 1
      /\ \A r \in rs : lo \notin r.lo .. r.hi /\ hi \notin r.lo .. r.hi

NewRange(lo, size) == [lo |-> lo, hi |-> lo + size - 1]
remove_range(lo) == {r \in ranges : r.lo # lo}

\* eval_mm_valid() stops at an error.
malloc_error(reason) ==
  /\ phase' = "invalid" /\ why' = reason
  /\ UNCHANGED <<trace, opnum, mm, block, ranges, total>>

\* The block is accepted: it is filled and remembered.
Accept(r, m, p, rs) ==
  /\ mm' = Filled(m, p, r.size, r.index)
  /\ block' = With(block, r.index, [ptr |-> p, size |-> r.size])
  /\ ranges' = rs \cup {NewRange(p, r.size)}
  /\ trace' = Append(trace, r) /\ opnum' = opnum + 1
  /\ UNCHANGED <<phase, why, total>>

\* One request of eval_mm_valid().
valid_alloc(r) ==
  LET p == payload(mm)
      m == mm_malloc(mm, r.size)
  IN  /\ r.type = "alloc"
      /\ IF ~Enough(mm, r.size) THEN malloc_error("memory")
         ELSE IF ~add_range(m, ranges, p, r.size) THEN malloc_error("range")
         ELSE Accept(r, m, p, ranges)

valid_realloc(r) ==
  LET old == block[r.index]
      p == payload(mm)
      m == mm_realloc(mm, old.ptr, r.size)
      rs == remove_range(old.ptr)
      kept == IF r.size < old.size THEN r.size ELSE old.size
  IN  /\ r.type = "realloc"
      /\ IF ~Enough(mm, r.size) THEN malloc_error("memory")
         ELSE IF ~add_range(m, rs, p, r.size) THEN malloc_error("range")
         ELSE IF \E a \in p .. p + kept - 1 : m.data[a] # r.index THEN malloc_error("data")
         ELSE Accept(r, m, p, rs)

valid_free(r) ==
  /\ r.type = "free"
  /\ ranges' = remove_range(block[r.index].ptr)
  /\ block' = Without(block, r.index)
  /\ trace' = Append(trace, r) /\ opnum' = opnum + 1
  /\ UNCHANGED <<phase, mm, why, total>>

eval_mm_valid ==
  /\ phase = "valid" /\ opnum < TraceLen
  /\ \E r \in read_trace : valid_alloc(r) \/ valid_realloc(r) \/ valid_free(r)

mem_reset_brk(m) == [m EXCEPT !.brk = 0]

\* A phase is over: the next one starts with an empty heap (mem_reset_brk(), mm_init()).
\* The range list is left as it is.
next_phase ==
  /\ phase \in {"valid", "util", "speed"}
  /\ phase = "valid" \/ opnum = Len(trace)
  /\ phase' = CASE phase = "valid" -> "util" [] phase = "util" -> "speed" [] phase = "speed" -> "done"
  /\ opnum' = 0
  /\ mm' = IF phase = "speed" THEN mm ELSE mem_reset_brk(mm)
  /\ UNCHANGED <<trace, block, ranges, why, total>>

\* total_size and its maximum after a change by n.
Counted(n) == [now |-> total.now + n, max |-> IF total.now + n > total.max THEN total.now + n ELSE total.max]

\* The next request is made again in this phase: app_error() when it fails.
Replay(counted) ==
  LET r == trace[opnum + 1]
  IN  /\ opnum < Len(trace)
      /\ opnum' = opnum + 1
      /\ IF r.type # "free" /\ ~Enough(mm, r.size)
         THEN phase' = "error" /\ UNCHANGED <<mm, block, total>>
         ELSE /\ CASE r.type = "alloc" -> mm' = mm_malloc(mm, r.size)
                   [] r.type = "realloc" -> mm' = mm_realloc(mm, block[r.index].ptr, r.size)
                   [] r.type = "free" -> mm' = mm
              /\ block' = IF r.type = "free" THEN Without(block, r.index)
                          ELSE With(block, r.index, [ptr |-> payload(mm), size |-> r.size])
              /\ total' = counted
              /\ UNCHANGED phase
      /\ UNCHANGED <<trace, ranges, why>>

\* One request of eval_mm_util(): the sizes of the live blocks are added up.
eval_mm_util ==
  LET r == trace[opnum + 1]
      old == IF r.type = "alloc" THEN 0 ELSE block[r.index].size
      new == IF r.type = "free" THEN 0 ELSE r.size
  IN  phase = "util" /\ Replay(Counted(new - old))

\* One request of eval_mm_speed().
eval_mm_speed == phase = "speed" /\ Replay(total)

MmNext == eval_mm_valid \/ next_phase \/ eval_mm_util \/ eval_mm_speed

MmSpec == MmInit /\ [][MmNext]_mmvars
-----------------------------------------------------------------------------
\* The driver refuses a trace for lack of memory only, what it has accepted runs
\* again without app_error(), and the utilization it reports is at most 1.  Payloads
\* of live blocks never overlap, not even when one contains the other, which
\* add_range() does not test, and each keeps its contents (eval_mm_valid(),
\* eval_mm_util()).
TraceAccepted ==
  /\ phase # "error" /\ why \in {"none", "memory"}
  /\ \A r, s \in ranges : r = s \/ r.hi < s.lo \/ s.hi < r.lo
  /\ phase = "valid" => \A k \in DOMAIN block :
       \A a \in block[k].ptr .. block[k].ptr + block[k].size - 1 : mm.data[a] = k
  /\ phase = "util" => total.max <= mm.brk
=============================================================================
