------------------------------- MODULE Paging -------------------------------
(* The demand paging exercises CLab/mmap1.c and CLab/mmap2.c.  A table of square
   roots is larger than the address space the program may use; a SIGSEGV handler
   maps a page when it is touched and unmaps another.  mmap1 keeps one page,
   mmap2 a cache of pages with a replacement policy.

   The table has NPages pages of PageLen entries.  A page in memory is known by
   the index of the square root in its first entry.                           *)
EXTENDS Integers, Sequences, FiniteSets, FiniteSetsExt

CONSTANTS
  NPages, PageLen,  \* MAX_SQRTS = NPages * PageLen
  Calls,            \* command lines: prog, workload, cache_slots, policy
  Rounds,           \* bound of the loop of a test routine
  Stride,           \* step of the sparse workload (1000)
  Limit             \* pages that fit under RLIMIT_AS

ASSUME SizeAssumption ==
  /\ {NPages, PageLen} \subseteq Nat \ {0} /\ NPages * PageLen > 1
  /\ {Rounds, Stride, Limit} \subseteq Nat

\* main() takes any other name of a policy for LRU.
ASSUME CommandAssumption ==
  Calls \subseteq [prog : {"mmap1", "mmap2"}, workload : Int, slots : Int, policy : {"LRU", "MRU", "Clock"}]

VARIABLES
  call,     \* the command line
  at,       \* "main", "setup", "loop", "read", "fault", "done" or "failed"
  i, pos,   \* of the test routine
  cache,    \* the cached pages: base, last_acc, access_bit
  hand,     \* clock_hand, an index from 0
  counter,  \* access_counter
  mem,      \* mapped pages and their first square root
  stats     \* total_accesses, page_faults, evictions

pagevars == <<call, at, i, pos, cache, hand, counter, mem, stats>>

MAX_SQRTS == NPages * PageLen
Page(n) == n \div PageLen

PageInit ==
  /\ call \in Calls
  /\ at = "main"
  /\ i = 0 /\ pos = 0
  /\ cache = <<>>
  /\ hand = 0
  /\ counter = 0
  /\ mem = <<>>
  /\ stats = [total |-> 0, faults |-> 0, evictions |-> 0]

\* main() of mmap1.
main1 ==
  /\ at = "main" /\ call.prog = "mmap1"
  /\ at' = "setup"
  /\ UNCHANGED <<call, i, pos, cache, hand, counter, mem, stats>>

\* main() of mmap2: a cache without slots is refused.
main2 ==
  /\ at = "main" /\ call.prog = "mmap2"
  /\ at' = IF call.slots <= 0 THEN "failed" ELSE "setup"
  /\ UNCHANGED <<call, i, pos, cache, hand, counter, mem, stats>>

\* The region of the table is mapped and unmapped again, the address space limited
\* and the handler installed, or one of these calls fails.
setup_sqrt_region ==
  /\ at = "setup"
  /\ at' \in {"loop", "failed"}
  /\ UNCHANGED <<call, i, pos, cache, hand, counter, mem, stats>>

\* The three workloads: positions that the next round may look at, and the step of
\* i.  rand() % (MAX_SQRTS - 1) on even rounds and the next entry on odd ones ...
test_sqrt_region == [pos |-> IF i % 2 = 0 THEN 0 .. MAX_SQRTS - 2 ELSE {pos + 1}, step |-> 1]

\* ... one entry after the other ...
test_sqrt_region_1 == [pos |-> {i % (MAX_SQRTS - 1)}, step |-> 1]

\* ... or every 1000th.
test_sqrt_region_1000 == [pos |-> {i % (MAX_SQRTS - 1)}, step |-> Stride]

Workload ==
  CASE call.workload = 1 -> test_sqrt_region_1
    [] call.workload = 2 -> test_sqrt_region_1000
    [] OTHER -> test_sqrt_region

\* A round of the workload chooses its position ...
next_entry ==
  /\ at = "loop" /\ i < Rounds
  /\ pos' \in Workload.pos
  /\ at' = "read"
  /\ stats' = [stats EXCEPT !.total = @ + 1]
  /\ UNCHANGED <<call, i, cache, hand, counter, mem>>

\* ... and reads the entry, which faults when its page is not mapped and ends the
\* program when the square root is wrong.
read_entry ==
  /\ at = "read"
  /\ IF Page(pos) \notin DOMAIN mem THEN at' = "fault" /\ UNCHANGED i
     ELSE IF mem[Page(pos)] + (pos % PageLen) # pos THEN at' = "failed" /\ UNCHANGED i
     ELSE at' = "loop" /\ i' = i + Workload.step
  /\ UNCHANGED <<call, pos, cache, hand, counter, mem, stats>>

test_done ==
  /\ at = "loop" /\ i >= Rounds
  /\ at' = "done"
  /\ UNCHANGED <<call, i, pos, cache, hand, counter, mem, stats>>
-----------------------------------------------------------------------------
Slots == IF call.prog = "mmap1" THEN 1 ELSE call.slots
Full == Len(cache) >= Slots

\* Steps of the clock hand until it is at a page whose bit is not set; it clears
\* the bits on its way, so it stops after one turn at the latest.
Sweep == Min({k \in 0 .. Slots : k = Slots \/ cache[((hand + k) % Slots) + 1].access_bit = 0})

\* The slot that is given up, when the cache is full; mmap1 has only one.
Victim ==
  IF call.prog = "mmap1" THEN 1 ELSE
  CASE call.policy = "LRU" -> CHOOSE v \in 1 .. Slots : \A w \in 1 .. Slots : cache[v].last_acc <= cache[w].last_acc
    [] call.policy = "MRU" -> CHOOSE v \in 1 .. Slots : \A w \in 1 .. Slots : cache[v].last_acc >= cache[w].last_acc
    [] call.policy = "Clock" -> ((hand + Sweep) % Slots) + 1

\* The cache once the clock hand has passed over it.
Swept ==
  [s \in 1 .. Len(cache) |->
    IF Full /\ call.policy = "Clock" /\ \E k \in 0 .. Sweep - 1 : s = ((hand + k) % Slots) + 1
    THEN [cache[s] EXCEPT !.access_bit = 0] ELSE cache[s]]

\* The record of the page that comes in.
Entry(page) == [base |-> page, last_acc |-> counter + 1, access_bit |-> IF call.policy = "Clock" THEN 1 ELSE 0]

\* Mutant: the victim stays mapped.
Unmapped_Kept == mem

\* The memory after munmap() of the victim.
Unmapped == IF Full THEN [q \in DOMAIN mem \ {cache[Victim].base} |-> mem[q]] ELSE mem

\* handle_sigsegv() makes room, records the page, maps it and fills it.  mmap() fails
\* when the address space is used up, and the program ends.
load_page ==
  LET page == Page(pos)
      fits == Cardinality(DOMAIN Unmapped) < Limit
      first == page * PageLen
  IN  /\ at = "fault"
      /\ cache' = IF Full THEN [Swept EXCEPT ![Victim] = Entry(page)] ELSE Append(cache, Entry(page))
      /\ hand' = IF Full /\ call.policy = "Clock" THEN (hand + Sweep + 1) % Slots ELSE hand
      /\ counter' = counter + 1
      /\ stats' = [stats EXCEPT !.faults = @ + 1, !.evictions = IF Full THEN @ + 1 ELSE @]
      /\ mem' = IF fits THEN [q \in DOMAIN Unmapped \cup {page} |-> IF q = page THEN first ELSE mem[q]] ELSE Unmapped
      /\ at' = IF fits THEN "read" ELSE "failed"
      /\ UNCHANGED <<call, i, pos>>

\* The handler.  Only that of mmap2 looks whether the address is in the table at all,
\* and ends the program when it is not.
handle_sigsegv ==
  IF call.prog = "mmap2" /\ Page(pos) \notin 0 .. NPages - 1
  THEN /\ at = "fault"
       /\ at' = "failed"
       /\ UNCHANGED <<call, i, pos, cache, hand, counter, mem, stats>>
  ELSE load_page

PageNext == main1 \/ main2 \/ setup_sqrt_region \/ next_entry \/ read_entry \/ test_done \/ handle_sigsegv

PageSpec == PageInit /\ [][PageNext]_pagevars
-----------------------------------------------------------------------------
\* The records and the mapped pages agree: one record per mapped page, no more than
\* the slots, the counts add up, and no program ends with a failure unless it was
\* given no slots or more slots than memory, or could not set up the region.  In
\* particular no page is filled with wrong values, no access leaves the table at its
\* end, and munmap() is always called on a mapped page (handle_sigsegv()).
CacheIsMemory ==
  LET bases == {cache[s].base : s \in 1 .. Len(cache)}
  IN  /\ at # "failed" => bases = DOMAIN mem
      /\ Cardinality(bases) = Len(cache)
      /\ Len(cache) <= Max({Slots, 0})
      /\ stats.evictions = stats.faults - Len(cache)
      /\ DOMAIN mem \subseteq 0 .. NPages - 1
      /\ at = "failed" => Slots <= 0 \/ Slots > Limit \/ stats.total = 0

\* The page that goes out is the one that came in first under LRU and Clock, and
\* the one that came in last under MRU: both last_acc and access_bit are set by
\* the fault handler only, so no policy sees the accesses that hit.
EvictionOrder ==
  [][\A s \in 1 .. Len(cache) : cache'[s].base # cache[s].base =>
       \A w \in 1 .. Len(cache) :
         IF call.policy = "MRU" THEN cache[s].last_acc >= cache[w].last_acc ELSE cache[s].last_acc <= cache[w].last_acc]_pagevars
=============================================================================
