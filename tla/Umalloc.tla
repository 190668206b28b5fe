------------------------------ MODULE Umalloc -------------------------------
(* malloc() and free() of the xv6 user programs (user/umalloc.c), the storage
   allocator of Kernighan and Ritchie: a circular list of free blocks in address
   order, first fit from where the last search ended.

   Memory is counted in headers.  A block at address a consists of the units
   a .. a + size - 1, the header first; base, the empty block the list starts
   with, is at address 0.  The program calls sbrk() itself too, so that the
   blocks malloc() gets from sbrk() need not touch.                           *)
EXTENDS Integers, FiniteSets, FiniteSetsExt

CONSTANTS
  HeapStart,  \* address of the first unit sbrk() hands out
  HeapEnd,    \* and of the first one it refuses
  MinCore,    \* units morecore() asks for at least (4096)
  HeaderLen,  \* sizeof(Header)
  IntUnits,   \* 2^32 / sizeof(Header): sbrk() takes an int
  Requests,   \* values of nbytes
  MaxOps      \* bound on the calls

ASSUME HeapAssumption == 0 < HeapStart /\ HeapStart <= HeapEnd /\ MinCore > 0 /\ HeaderLen > 0 /\ IntUnits > 0

VARIABLES
  hdr,    \* the header at each address: ptr and size
  freep,  \* start of the free list, NULL before the first call of malloc()
  brk,    \* where sbrk() gives out the next unit
  core,   \* units malloc() got from sbrk()
  live,   \* headers of the blocks the program has, with the units it asked for
  ops,    \* calls so far
  beyond  \* a header was written beyond what sbrk() gave

heapvars == <<hdr, freep, brk, core, live, ops, beyond>>

NULL == -1
base == 0
Addr == 0 .. HeapEnd

HeapInit ==
  /\ hdr = [a \in Addr |-> [ptr |-> NULL, size |-> 0]]
  /\ freep = NULL
  /\ brk = HeapStart
  /\ core = {}
  /\ live = <<>>
  /\ ops = 0
  /\ beyond = FALSE

\* The address that k steps along the list h lead to from p.
Step(h, p, k) ==
  LET walk[j \in 0 .. k] == IF j = 0 THEN p ELSE h[walk[j - 1]].ptr
  IN  walk[k]

\* The free block before the place of bp: p < bp < p->ptr, or p is the last block
\* and bp lies outside the list.
Before(h, fp, bp) ==
  LET fits(p) == \/ p < bp /\ bp < h[p].ptr
                 \/ p >= h[p].ptr /\ (bp > p \/ bp < h[p].ptr)
  IN  Step(h, fp, Min({k \in Addr : fits(Step(h, fp, k))}))

\* Mutant: the block is joined to the one after it only.
freed_Upper(h, fp, bp) ==
  LET p == Before(h, fp, bp)
      next == h[p].ptr
      b == IF bp + h[bp].size = next
           THEN [ptr |-> h[next].ptr, size |-> h[bp].size + h[next].size]
           ELSE [ptr |-> next, size |-> h[bp].size]
  IN  [h |-> [h EXCEPT ![bp] = b, ![p].ptr = bp], fp |-> p]

\* free() of the block with header bp, in the list h that starts at fp: the block
\* is linked in after p, joined to the block after it and to the one before it.
freed(h, fp, bp) ==
  LET p == Before(h, fp, bp)
      next == h[p].ptr
      b == IF bp + h[bp].size = next
           THEN [ptr |-> h[next].ptr, size |-> h[bp].size + h[next].size]
           ELSE [ptr |-> next, size |-> h[bp].size]
      q == IF p + h[p].size = bp
           THEN [ptr |-> b.ptr, size |-> h[p].size + b.size]
           ELSE [ptr |-> bp, size |-> h[p].size]
  IN  [h |-> [h EXCEPT ![bp] = b, ![p] = q], fp |-> p]

\* Steps from fp to the first block with at least n units; none when the search
\* comes back to fp without having found one.
Search(h, fp, n) ==
  LET back == Min({k \in Addr \ {0} : Step(h, fp, k) = fp})
  IN  {k \in 1 .. back : h[Step(h, fp, k)].size >= n}

\* A block of n units out of the list: a block of that size as a whole, or the end
\* of a larger one.
taken(h, fp, n) ==
  LET k == Min(Search(h, fp, n))
      prev == Step(h, fp, k - 1)
      p == h[prev].ptr
  IN  IF h[p].size = n
      THEN [h |-> [h EXCEPT ![prev].ptr = h[p].ptr], fp |-> prev, at |-> p]
      ELSE LET q == p + h[p].size - n
           IN  [h |-> [h EXCEPT ![p].size = @ - n, ![q].size = n], fp |-> prev, at |-> q]

\* Units for a request of nbytes and its header.
nunits(nbytes) == ((nbytes + HeaderLen - 1) \div HeaderLen) + 1

\* The units morecore() asks for, and what sbrk(int) makes of their length in bytes.
coreunits(n) == IF n < MinCore THEN MinCore ELSE n
AsInt(u) == ((u + IntUnits \div 2) % IntUnits) - IntUnits \div 2

\* sbrk(): more memory, or less, but a negative size wraps and changes nothing.
Refused(d) == d > 0 /\ brk + d > HeapEnd
sbrk(d) == IF brk + d < 0 THEN brk ELSE brk + d

\* The list after morecore() has freed the new units into it.
morecore(h, fp, n) == freed([h EXCEPT ![brk].size = coreunits(n)], fp, brk)

\* malloc(): the list is set up on the first call; when no block is large enough
\* sbrk() is asked for more, and the call fails when that fails.  When the int was
\* too short for the request, sbrk() succeeds with less, or gives memory back, and
\* the new header is for memory the program does not have: it faults or goes on
\* with what is not its own, and is followed no further.
malloc(nbytes) ==
  LET n == nunits(nbytes)
      h == IF freep = NULL THEN [hdr EXCEPT ![base] = [ptr |-> base, size |-> 0]] ELSE hdr
      fp == IF freep = NULL THEN base ELSE freep
      units == coreunits(n)
      more == Search(h, fp, n) = {}
      fails == more /\ Refused(AsInt(units))
      short == more /\ ~fails /\ AsInt(units) # units
      m == IF more THEN morecore(h, fp, n) ELSE [h |-> h, fp |-> fp]
      t == taken(m.h, m.fp, n)
  IN  /\ ops < MaxOps /\ ops' = ops + 1
      /\ ~beyond /\ beyond' = short
      /\ IF fails \/ short THEN hdr' = h /\ freep' = fp /\ UNCHANGED <<core, live>>
         ELSE /\ hdr' = t.h
              /\ freep' = t.fp
              /\ live' = [a \in DOMAIN live \cup {t.at} |-> IF a = t.at THEN n ELSE live[a]]
              /\ core' = IF more THEN core \cup (brk .. brk + units - 1) ELSE core
      /\ brk' = IF more /\ ~fails THEN sbrk(AsInt(units)) ELSE brk

\* free() of a block the program got from malloc().
free(bp) ==
  LET f == freed(hdr, freep, bp)
  IN  /\ ops < MaxOps /\ ops' = ops + 1
      /\ bp \in DOMAIN live /\ ~beyond
      /\ hdr' = f.h
      /\ freep' = f.fp
      /\ live' = [a \in DOMAIN live \ {bp} |-> live[a]]
      /\ UNCHANGED <<brk, core, beyond>>

\* The program takes a unit from sbrk() for itself.
sbrk_direct ==
  /\ ops < MaxOps /\ ops' = ops + 1
  /\ ~beyond /\ ~Refused(1)
  /\ brk' = sbrk(1)
  /\ UNCHANGED <<hdr, freep, core, live, beyond>>

HeapNext ==
  \/ \E nbytes \in Requests : malloc(nbytes)
  \/ \E bp \in Addr : free(bp)
  \/ sbrk_direct

HeapSpec == HeapInit /\ [][HeapNext]_heapvars
-----------------------------------------------------------------------------
\* Blocks of the free list.
FreeList == IF freep = NULL THEN {} ELSE {Step(hdr, freep, k) : k \in Addr}
Extent(a, n) == a .. a + n - 1

\* The memory malloc() got from sbrk() is exactly divided among the free blocks and
\* the blocks of the program, each at least as large as was asked for: nothing is
\* handed out twice and nothing is lost, in any order of calls.  The list goes
\* round in address order, and neighbours are joined: no free block ends where
\* another one begins (free(), malloc()); as long as every request fits sbrk()'s int.
HeapPartition ==
  ~beyond =>
  LET free_ext == {Extent(a, hdr[a].size) : a \in FreeList \ {base}}
      live_ext == {Extent(a, live[a]) : a \in DOMAIN live}
      blocks == FreeList \ {base}
  IN  /\ UNION (free_ext \cup live_ext) = core
      /\ MapThenSumSet(LAMBDA a : hdr[a].size, blocks) + MapThenSumSet(LAMBDA a : live[a], DOMAIN live) = Cardinality(core)
      /\ freep # NULL => /\ base \in FreeList
                         /\ Cardinality({a \in FreeList : hdr[a].ptr <= a}) = 1
      /\ \A a \in blocks : a + hdr[a].size \notin blocks
=============================================================================
