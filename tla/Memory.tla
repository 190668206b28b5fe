------------------------------- MODULE Memory -------------------------------
(* Physical memory and page tables: the frames of kalloc.c, the three-level
   page tables of vm.c, and the calls that build, copy, grow, replace and free
   an address space (fork, exec, sbrk, exit and wait).

   kmem.lock makes kalloc() and kfree() atomic and is never held across two
   calls.  One step of the model is one turn of a loop of vm.c: it takes or
   returns a few frames and touches nothing else that is shared, so another
   process's step can always be moved before it.  Any kalloc() may find the
   list empty because the other processes hold the frames.

   Sizes (p->sz) are in bytes, virtual addresses in pages.                   *)
EXTENDS Integers, Sequences, FiniteSets, Functions

CONSTANTS
  ProcSlot,   \* entries of the process table
  initslot,   \* the slot of the first process
  Frame,      \* physical pages between end and PHYSTOP, a set of integers > 0
  PTES,       \* entries of a page-table page (512)
  PGSIZE,     \* bytes in a page
  USERSTACK,  \* pages of user stack
  UINT,       \* sizes are computed modulo UINT (2^64)
  Image,      \* programs: sequences of segments [vaddr, memsz, filesz, perm]
  Delta,      \* arguments of sbrk()
  CallBound   \* bound on the number of calls of fork, exec and sbrk

ASSUME SlotAssumption == initslot \in ProcSlot /\ 0 \notin Frame /\ Frame \subseteq Int
ASSUME TableAssumption == {PTES, PGSIZE, USERSTACK, UINT, CallBound} \subseteq Nat \ {0}

\* Physical memory is far smaller than the virtual address space (memlayout.h,
\* riscv.h), so no process can grow into its trap pages.
ASSUME MemoryAssumption == IsFiniteSet(Frame) /\ Cardinality(Frame) < PTES * PTES * PTES - 2

\* Program headers that exec() accepts; exec_header stands for the others.
ASSUME ImageAssumption ==
  \A img \in Image :
    /\ img \in Seq([vaddr : Nat, memsz : Nat, filesz : Nat, perm : SUBSET {"W", "X"}])
    /\ \A s \in Range(img) : s.filesz <= s.memsz /\ s.vaddr % PGSIZE = 0

ASSUME DeltaAssumption == Delta \subseteq Int

VARIABLES
  freelist, \* how many times each frame is on kmem.freelist
  tab,      \* page tables: p->pagetable ("cur") and the one exec() builds ("new")
  tf,       \* p->trapframe
  st,       \* p->state, with RUNNABLE, RUNNING and SLEEPING in one
  sz,       \* p->sz
  parent,   \* p->parent
  syscall,  \* the call each process is in, and where
  panic,    \* panic() was called
  calls     \* calls made so far

memvars == <<freelist, tab, tf, st, sz, parent, syscall, panic, calls>>

NoCall == [op |-> "none"]
NoTable == [root |-> 0, dir |-> <<>>, leaf |-> <<>>]

PGROUNDUP(x) == ((x + PGSIZE - 1) \div PGSIZE) * PGSIZE
Pages(from, to) == (PGROUNDUP(from) \div PGSIZE) .. (PGROUNDUP(to) \div PGSIZE) - 1
TRAMPOLINE == PTES * PTES * PTES - 1
TRAPFRAME == TRAMPOLINE - 1

Put(f, k, v) == [x \in DOMAIN f \cup {k} |-> IF x = k THEN v ELSE f[x]]

(* A piece of kernel code works on a record m of the free list, one page table
   and what became of it: ok is FALSE once an allocation failed.             *)
Mem(pt) == [free |-> freelist, pt |-> pt, ok |-> TRUE, panic |-> FALSE]

Avail(m) == {f \in Frame : m.free[f] > 0}

\* The frame the next kalloc() returns: which one does not matter.
NextFrame(m) == CHOOSE f \in Avail(m) : TRUE

\* m after kalloc(): ok says whether there was a frame.
kalloc(m) ==
  IF Avail(m) = {} THEN [m EXCEPT !.ok = FALSE]
                   ELSE [m EXCEPT !.free[NextFrame(m)] = @ - 1]

\* The free list after kfree() of every frame that the function fs yields.
kfree(fr, fs) ==
  [f \in Frame |-> fr[f] + Cardinality({x \in DOMAIN fs : fs[x] = f})]

\* The page-table pages below the root on the way to va, highest first.
Upper(va) == <<2, va \div (PTES * PTES)>>
Lower(va) == <<1, va \div PTES>>

\* One turn of the loop in walk() with alloc set.
Descend(m, node) ==
  IF ~m.ok \/ node \in DOMAIN m.pt.dir THEN m
  ELSE LET k == kalloc(m) IN
       IF k.ok THEN [k EXCEPT !.pt.dir = Put(@, node, NextFrame(m))] ELSE k

walk(m, va) == Descend(Descend(m, Upper(va)), Lower(va))

\* walk() without alloc, and the valid bit of the entry it finds.
Mapped(pt, va) == va \in DOMAIN pt.leaf

\* mappages() of one page; panics on an entry that is valid already.
mappages(m, va, pa, perm) ==
  LET w == walk(m, va) IN
  IF ~w.ok THEN w
  ELSE IF Mapped(w.pt, va) THEN [w EXCEPT !.panic = TRUE]
  ELSE [w EXCEPT !.pt.leaf = Put(@, va, [pa |-> pa, perm |-> perm])]

\* uvmunmap(): panics unless every page is mapped.
uvmunmap(m, vas, do_free) ==
  IF \E va \in vas : ~Mapped(m.pt, va) THEN [m EXCEPT !.panic = TRUE]
  ELSE [m EXCEPT !.pt.leaf = Restrict(@, DOMAIN @ \ vas),
                 !.free = IF do_free THEN kfree(@, [va \in vas |-> m.pt.leaf[va].pa])
                                     ELSE @]

uvmdealloc(m, oldsz, newsz) ==
  IF newsz >= oldsz THEN m ELSE uvmunmap(m, Pages(newsz, oldsz), TRUE)

\* freewalk(): panics when a page is still mapped.
freewalk(m) ==
  IF DOMAIN m.pt.leaf # {} THEN [m EXCEPT !.panic = TRUE]
  ELSE [m EXCEPT !.pt = NoTable,
                 !.free = kfree(kfree(@, m.pt.dir), [x \in {0} |-> m.pt.root])]

uvmfree(m, size) == freewalk(uvmunmap(m, Pages(0, size), TRUE))

proc_freepagetable(m, size) ==
  LET a == uvmunmap(m, {TRAMPOLINE}, FALSE)
      b == uvmunmap(a, {TRAPFRAME}, FALSE)
      c == uvmfree(b, size)
  IN  [c EXCEPT !.panic = a.panic \/ b.panic \/ c.panic]

\* uvmcreate(): a root page, or ok is FALSE.
uvmcreate ==
  LET k == kalloc(Mem(NoTable)) IN
  IF k.ok THEN [k EXCEPT !.pt.root = NextFrame(Mem(NoTable))] ELSE k

\* proc_pagetable(): a table with the two pages of the trap path, everything
\* undone when a page-table page cannot be had.
proc_pagetable(frame) ==
  LET c == uvmcreate
      t == mappages(c, TRAMPOLINE, 0, {"X"})
      u == mappages(t, TRAPFRAME, frame, {"W"})
  IN  IF ~c.ok THEN c
      ELSE IF ~t.ok THEN uvmfree(t, 0)
      ELSE IF ~u.ok THEN uvmfree(uvmunmap(u, {TRAMPOLINE}, FALSE), 0)
      ELSE u

\* Mutant: the page that could not be mapped is not returned.
uvmalloc_page_Leak(m, va, perm) ==
  LET k == kalloc(m) IN
  IF ~k.ok THEN k ELSE mappages(k, va, NextFrame(m), perm)

\* One turn of the loops of uvmalloc() and uvmcopy(): a new page at va, given
\* back when it cannot be mapped.
uvmalloc_page(m, va, perm) ==
  LET k == kalloc(m)
      w == mappages(k, va, NextFrame(m), perm)
  IN  IF ~k.ok THEN k
      ELSE IF w.ok THEN w
      ELSE [w EXCEPT !.free = kfree(@, [x \in {0} |-> NextFrame(m)])]
-----------------------------------------------------------------------------
\* Frames proc_mapstacks() takes: a kernel stack for each slot.
proc_mapstacks == {f \in Frame : Cardinality({g \in Frame : g < f}) \in 1 .. Cardinality(ProcSlot)}

\* Frames kvmmake() takes for good: the root of the kernel's page table and the
\* kernel stacks.  The pages below the root are not counted.
kvmmake == {f \in Frame : \A g \in Frame : f <= g} \cup proc_mapstacks

\* kinit() puts every frame on the free list; kvmmake() then takes its own.
kinit == [f \in Frame |-> IF f \in kvmmake THEN 0 ELSE 1]

\* uvmfirst(): one page at address 0 for initcode.
uvmfirst(m) == uvmalloc_page(m, 0, {"W", "X", "U"})

\* userinit() has given the first process a trapframe, a page table and one page.
MemInit ==
  LET start == [free |-> kinit, pt |-> NoTable, ok |-> TRUE, panic |-> FALSE]
      t == kalloc(start)
      r == kalloc(t)
      root == [r EXCEPT !.pt.root = NextFrame(t)]
      trap == mappages(mappages(root, TRAMPOLINE, 0, {"X"}), TRAPFRAME, NextFrame(start), {"W"})
      m == uvmfirst(trap)
  IN  /\ m.ok
      /\ freelist = m.free
      /\ tab = [i \in ProcSlot \X {"cur", "new"} |-> IF i = <<initslot, "cur">> THEN m.pt ELSE NoTable]
      /\ tf = [p \in ProcSlot |-> IF p = initslot THEN NextFrame(start) ELSE 0]
      /\ st = [p \in ProcSlot |-> IF p = initslot THEN "RUNNABLE" ELSE "UNUSED"]
      /\ sz = [p \in ProcSlot |-> IF p = initslot THEN PGSIZE ELSE 0]
      /\ parent = [p \in ProcSlot |-> 0]
      /\ syscall = [p \in ProcSlot |-> NoCall]
      /\ panic = FALSE
      /\ calls = 0

\* Process p may start a call.
MayCall(p) ==
  /\ st[p] = "RUNNABLE" /\ syscall[p] = NoCall
  /\ calls < CallBound /\ calls' = calls + 1

\* m is the outcome of this step for page table i.
Becomes(m, i) ==
  /\ freelist' = m.free
  /\ tab' = [tab EXCEPT ![i] = m.pt]
  /\ panic' = (panic \/ m.panic)

Return(p) == syscall' = [syscall EXCEPT ![p] = NoCall]
-----------------------------------------------------------------------------
\* freeproc(): the trapframe goes first, then the page table if there is one.
freeproc(q) ==
  LET m == [Mem(tab[<<q, "cur">>]) EXCEPT
              !.free = IF tf[q] # 0 THEN kfree(@, [x \in {0} |-> tf[q]]) ELSE @]
  IN  /\ Becomes(IF m.pt.root # 0 THEN proc_freepagetable(m, sz[q]) ELSE m, <<q, "cur">>)
      /\ tf' = [tf EXCEPT ![q] = 0]
      /\ sz' = [sz EXCEPT ![q] = 0]
      /\ parent' = [parent EXCEPT ![q] = 0]
      /\ st' = [st EXCEPT ![q] = "UNUSED"]

\* fork() finds a slot and allocproc() takes a page for the trapframe.
fork(p, np) ==
  /\ MayCall(p)
  /\ st[np] = "UNUSED"
  /\ LET k == kalloc(Mem(NoTable)) IN
     IF k.ok
     THEN /\ freelist' = k.free
          /\ tf' = [tf EXCEPT ![np] = NextFrame(Mem(NoTable))]
          /\ st' = [st EXCEPT ![np] = "USED"]
          /\ syscall' = [syscall EXCEPT ![p] = [op |-> "fork", np |-> np, i |-> -1]]
     ELSE UNCHANGED <<freelist, tf, st, syscall>>
  /\ UNCHANGED <<tab, sz, parent, panic>>

\* allocproc() makes the page table, or gives the slot back.
fork_pagetable(p) ==
  LET np == syscall[p].np
      m == proc_pagetable(tf[np])
  IN  /\ syscall[p].op = "fork" /\ syscall[p].i = -1
      /\ IF m.ok
         THEN /\ Becomes(m, <<np, "cur">>)
              /\ syscall' = [syscall EXCEPT ![p].i = 0]
              /\ UNCHANGED <<tf, st, sz, parent>>
         ELSE freeproc(np) /\ Return(p)
      /\ UNCHANGED calls

\* Mutant: the pages copied so far stay mapped when a later one fails.
uvmcopy_Kept(p) ==
  LET np == syscall[p].np
      i == syscall[p].i
      m == uvmalloc_page(Mem(tab[<<np, "cur">>]), i, tab[<<p, "cur">>].leaf[i].perm)
  IN  /\ syscall[p].op = "fork" /\ syscall[p].i >= 0 /\ i * PGSIZE < sz[p]
      /\ Becomes(m, <<np, "cur">>)
      /\ syscall' = [syscall EXCEPT ![p].i = IF m.ok THEN @ + 1 ELSE -2]
      /\ UNCHANGED <<tf, st, sz, parent, calls>>

\* One turn of uvmcopy(): page i of the parent is copied with its flags; on
\* failure the pages copied so far are unmapped and freed.
uvmcopy(p) ==
  LET np == syscall[p].np
      i == syscall[p].i
      old == tab[<<p, "cur">>]
      m == uvmalloc_page(Mem(tab[<<np, "cur">>]), i, old.leaf[i].perm)
  IN  /\ syscall[p].op = "fork" /\ i >= 0 /\ i * PGSIZE < sz[p]
      /\ IF ~Mapped(old, i)
         THEN panic' = TRUE /\ UNCHANGED <<freelist, tab, syscall>>
         ELSE /\ Becomes(IF m.ok THEN m ELSE uvmunmap(m, 0 .. i - 1, TRUE), <<np, "cur">>)
              /\ syscall' = [syscall EXCEPT ![p].i = IF m.ok THEN i + 1 ELSE -2]
      /\ UNCHANGED <<tf, st, sz, parent, calls>>

\* uvmcopy() failed: fork() frees the slot.
fork_fail(p) ==
  /\ syscall[p].op = "fork" /\ syscall[p].i = -2
  /\ freeproc(syscall[p].np)
  /\ Return(p)
  /\ UNCHANGED calls

\* Everything is copied: the child gets its size and may run.
fork_done(p) ==
  LET np == syscall[p].np
  IN  /\ syscall[p].op = "fork" /\ syscall[p].i >= 0 /\ syscall[p].i * PGSIZE >= sz[p]
      /\ sz' = [sz EXCEPT ![np] = sz[p]]
      /\ parent' = [parent EXCEPT ![np] = p]
      /\ st' = [st EXCEPT ![np] = "RUNNABLE"]
      /\ Return(p)
      /\ UNCHANGED <<freelist, tab, tf, panic, calls>>
-----------------------------------------------------------------------------
\* growproc() as sbrk(n) calls it.  Shrinking is done at once; a sum that wraps
\* below zero is a large size and changes nothing.
sbrk(p, n) ==
  LET newsz == (sz[p] + n) % UINT
      m == Mem(tab[<<p, "cur">>])
  IN  /\ MayCall(p)
      /\ IF n < 0
         THEN /\ Becomes(uvmdealloc(m, sz[p], newsz), <<p, "cur">>)
              /\ sz' = [sz EXCEPT ![p] = IF newsz < @ THEN newsz ELSE @]
              /\ UNCHANGED syscall
         ELSE /\ syscall' = [syscall EXCEPT ![p] = [op |-> "sbrk", at |-> "grow", from |-> PGROUNDUP(sz[p]),
                                              a |-> PGROUNDUP(sz[p]), to |-> newsz, perm |-> {"W", "U"}]]
              /\ UNCHANGED <<freelist, tab, sz, panic>>
      /\ UNCHANGED <<tf, st, parent>>

\* exec() has read a good ELF header and asks for a page table.
exec(p, img) ==
  LET m == proc_pagetable(tf[p])
  IN  /\ MayCall(p)
      /\ Becomes(m, <<p, "new">>)
      /\ syscall' = IF m.ok THEN [syscall EXCEPT ![p] = [op |-> "exec", at |-> "next", img |-> img, seg |-> 1, sz |-> 0,
                                                   from |-> 0, a |-> 0, to |-> 0, perm |-> {}]]
                         ELSE syscall
      /\ UNCHANGED <<tf, st, sz, parent>>

ExecAt(p, at) == syscall[p].op = "exec" /\ syscall[p].at = at

\* What exec() asks uvmalloc() for next: a segment, or after the last one the
\* guard page and the stack.
Wanted(c) ==
  IF c.seg <= Len(c.img)
  THEN [from |-> c.sz, to |-> c.img[c.seg].vaddr + c.img[c.seg].memsz, perm |-> c.img[c.seg].perm \cup {"U"}]
  ELSE [from |-> PGROUNDUP(c.sz), to |-> PGROUNDUP(c.sz) + (USERSTACK + 1) * PGSIZE, perm |-> {"W", "U"}]

\* exec() calls uvmalloc(), which returns at once when the size would shrink;
\* size 0 is taken for a failure.
exec_next(p) ==
  LET c == syscall[p]
      w == Wanted(c)
  IN  /\ ExecAt(p, "next")
      /\ syscall' = [syscall EXCEPT ![p] =
           IF w.to < w.from THEN [c EXCEPT !.at = "load"]
           ELSE IF w.to = 0 THEN [c EXCEPT !.at = "bad"]
           ELSE [c EXCEPT !.at = "grow", !.from = PGROUNDUP(w.from), !.a = PGROUNDUP(w.from), !.to = w.to, !.perm = w.perm]]
      /\ UNCHANGED <<freelist, tab, tf, st, sz, parent, panic, calls>>

\* The program header cannot be read, or its sizes or its address are not allowed.
exec_header(p) ==
  /\ ExecAt(p, "next") /\ syscall[p].seg <= Len(syscall[p].img)
  /\ syscall' = [syscall EXCEPT ![p].at = "bad"]
  /\ UNCHANGED <<freelist, tab, tf, st, sz, parent, panic, calls>>

\* The page table that uvmalloc() works on.
Work(p) == <<p, IF syscall[p].op = "exec" THEN "new" ELSE "cur">>

\* Mutant: the pages allocated so far stay when a later one fails.
uvmalloc_Kept(p) ==
  LET c == syscall[p]
      m == uvmalloc_page(Mem(tab[Work(p)]), c.a \div PGSIZE, c.perm)
  IN  /\ c.op \in {"sbrk", "exec"} /\ c.at = "grow" /\ c.a < c.to
      /\ Becomes(m, Work(p))
      /\ syscall' = [syscall EXCEPT ![p] = IF m.ok THEN [c EXCEPT !.a = @ + PGSIZE]
                                     ELSE IF c.op = "exec" THEN [c EXCEPT !.at = "bad"] ELSE NoCall]
      /\ UNCHANGED <<tf, st, sz, parent, calls>>

\* One turn of the loop of uvmalloc(): a page at a; when there is none the pages
\* added by this call are freed, sbrk() returns -1 and exec() goes to bad.
uvmalloc(p) ==
  LET c == syscall[p]
      m == uvmalloc_page(Mem(tab[Work(p)]), c.a \div PGSIZE, c.perm)
  IN  /\ c.op \in {"sbrk", "exec"} /\ c.at = "grow" /\ c.a < c.to
      /\ Becomes(IF m.ok THEN m ELSE uvmdealloc(m, c.a, c.from), Work(p))
      /\ syscall' = [syscall EXCEPT ![p] = IF m.ok THEN [c EXCEPT !.a = @ + PGSIZE]
                                     ELSE IF c.op = "exec" THEN [c EXCEPT !.at = "bad"] ELSE NoCall]
      /\ UNCHANGED <<tf, st, sz, parent, calls>>

\* uvmalloc() has reached newsz in growproc(): the size is stored.
sbrk_done(p) ==
  /\ syscall[p].op = "sbrk" /\ syscall[p].a >= syscall[p].to
  /\ sz' = [sz EXCEPT ![p] = IF syscall[p].to < @ THEN @ ELSE syscall[p].to]
  /\ Return(p)
  /\ UNCHANGED <<freelist, tab, tf, st, parent, panic, calls>>

\* uvmalloc() has reached newsz in exec(): the segment is loaded next; above the
\* stack's guard page uvmclear() takes the user bit away.
exec_grown(p) ==
  LET c == syscall[p]
      guard == c.from \div PGSIZE
      new == tab[<<p, "new">>]
  IN  /\ ExecAt(p, "grow") /\ c.a >= c.to
      /\ IF c.seg <= Len(c.img)
         THEN syscall' = [syscall EXCEPT ![p] = [c EXCEPT !.sz = c.to, !.at = "load"]] /\ UNCHANGED <<tab, panic>>
         ELSE /\ syscall' = [syscall EXCEPT ![p] = [c EXCEPT !.sz = c.to, !.at = "args"]]
              /\ tab' = [tab EXCEPT ![<<p, "new">>].leaf[guard].perm = @ \ {"U"}]
              /\ panic' = (panic \/ ~Mapped(new, guard))
      /\ UNCHANGED <<freelist, tf, st, sz, parent, calls>>

\* walkaddr() finds a user page.
walkaddr(pt, va) == Mapped(pt, va) /\ "U" \in pt.leaf[va].perm

\* loadseg() reads the segment into its pages, or the file ends too early.
loadseg(p, ok) ==
  LET c == syscall[p]
      s == c.img[c.seg]
  IN  /\ ExecAt(p, "load")
      /\ panic' = (panic \/ \E va \in Pages(s.vaddr, s.vaddr + s.filesz) : ~walkaddr(tab[<<p, "new">>], va))
      /\ syscall' = [syscall EXCEPT ![p] = IF ok THEN [c EXCEPT !.seg = @ + 1, !.at = "next"]
                                           ELSE [c EXCEPT !.at = "bad"]]
      /\ UNCHANGED <<freelist, tab, tf, st, sz, parent, calls>>

\* copyout() of bytes [from, to): every page must be a writable user page.
copyout(pt, from, to) ==
  \A va \in (from \div PGSIZE) .. ((to - 1) \div PGSIZE) :
    walkaddr(pt, va) /\ "W" \in pt.leaf[va].perm

\* exec() pushes need bytes of arguments.  They must fit the stack and be
\* written; then the new image replaces the old one, which is freed.
exec_args(p, need) ==
  LET c == syscall[p]
      new == tab[<<p, "new">>]
      sp == c.sz - need
      m == proc_freepagetable(Mem(tab[<<p, "cur">>]), sz[p])
  IN  /\ ExecAt(p, "args")
      /\ IF sp < c.sz - USERSTACK * PGSIZE \/ ~copyout(new, sp, c.sz)
         THEN /\ syscall' = [syscall EXCEPT ![p].at = "bad"]
              /\ UNCHANGED <<freelist, tab, sz, panic>>
         ELSE /\ tab' = [tab EXCEPT ![<<p, "cur">>] = new, ![<<p, "new">>] = NoTable]
              /\ sz' = [sz EXCEPT ![p] = c.sz]
              /\ freelist' = m.free /\ panic' = (panic \/ m.panic)
              /\ Return(p)
      /\ UNCHANGED <<tf, st, parent, calls>>

\* The label bad in exec(): the new page table is freed with what it maps.
exec_bad(p) ==
  /\ ExecAt(p, "bad")
  /\ Becomes(proc_freepagetable(Mem(tab[<<p, "new">>]), syscall[p].sz), <<p, "new">>)
  /\ Return(p)
  /\ UNCHANGED <<tf, st, sz, parent, calls>>
-----------------------------------------------------------------------------
\* exit() keeps the memory, gives the children to init and leaves a zombie.
exit(p) ==
  /\ st[p] = "RUNNABLE" /\ syscall[p] = NoCall /\ p # initslot
  /\ st' = [st EXCEPT ![p] = "ZOMBIE"]
  /\ parent' = [q \in ProcSlot |-> IF parent[q] = p THEN initslot ELSE parent[q]]
  /\ UNCHANGED <<freelist, tab, tf, sz, syscall, panic, calls>>

\* wait(addr) finds a zombie child: the status is copied to the page of addr
\* (addr 0 asks for no status) and the child is freed unless that fails.
wait(p, q, addr) ==
  /\ st[p] = "RUNNABLE" /\ syscall[p] = NoCall
  /\ st[q] = "ZOMBIE" /\ parent[q] = p
  /\ addr # 0 => copyout(tab[<<p, "cur">>], addr, addr + 1)
  /\ freeproc(q)
  /\ UNCHANGED <<syscall, calls>>

MemNext ==
  \E p \in ProcSlot :
    \/ \E np \in ProcSlot : fork(p, np)
    \/ fork_pagetable(p) \/ uvmcopy(p) \/ fork_fail(p) \/ fork_done(p)
    \/ \E n \in Delta : sbrk(p, n)
    \/ sbrk_done(p)
    \/ \E img \in Image : exec(p, img)
    \/ exec_next(p) \/ exec_header(p) \/ uvmalloc(p) \/ exec_grown(p) \/ exec_bad(p)
    \/ \E ok \in BOOLEAN : loadseg(p, ok)
    \/ \E need \in 1 .. (USERSTACK + 1) * PGSIZE : exec_args(p, need)
    \/ exit(p)
    \/ \E q \in ProcSlot, addr \in {0, PGSIZE} : wait(p, q, addr)

MemSpec == MemInit /\ [][MemNext]_memvars
-----------------------------------------------------------------------------
UserPages(pt) == DOMAIN pt.leaf \ {TRAMPOLINE, TRAPFRAME}
Tables == {i \in DOMAIN tab : tab[i].root # 0}

\* What has a frame: the kernel for good, a trapframe, and each page table for its
\* own pages and the user pages it maps.
TableClaim(i) ==
  {<<"root", i>>} \cup {<<"dir", i, n>> : n \in DOMAIN tab[i].dir} \cup {<<"page", i, va>> : va \in UserPages(tab[i])}

KernelClaims == {<<"kernel", f>> : f \in kvmmake}
TrapClaims == {<<"trapframe", p>> : p \in {q \in ProcSlot : tf[q] # 0}}
Claims == KernelClaims \cup TrapClaims \cup UNION {TableClaim(i) : i \in Tables}

Claimed(c) ==
  CASE c[1] = "kernel" -> c[2]
    [] c[1] = "trapframe" -> tf[c[2]]
    [] c[1] = "root" -> tab[c[2]].root
    [] c[1] = "dir" -> tab[c[2]].dir[c[3]]
    [] c[1] = "page" -> tab[c[2]].leaf[c[3]].pa

\* Every frame is free once or has exactly one owner: whatever allocation fails in
\* fork(), exec() or sbrk(), the undo paths neither lose a frame nor free one
\* twice, and no frame is mapped by two processes (kalloc.c, vm.c, exec.c).
FramesOwned ==
  LET all == Claims
  IN  /\ \A c \in all : Claimed(c) \in Frame
      /\ \A f \in Frame : freelist[f] + Cardinality({c \in all : Claimed(c) = f}) = 1

\* None of the panics of uvmunmap(), mappages(), freewalk(), uvmcopy(), uvmclear()
\* and loadseg() is reached: the sizes the callers keep agree with what is mapped
\* on every path, the error paths included.
NoVmPanic == ~panic

\* The pages mapped for a process are those below p->sz (and, while sbrk() grows
\* it, the ones added so far), all of them its own to use except a guard page;
\* the trap pages are mapped without the user bit and the trapframe is the one
\* the process owns.  A failed exec() or sbrk() leaves exactly that.
ImageMatches ==
  \A p \in ProcSlot : st[p] \in {"RUNNABLE", "ZOMBIE"} =>
    LET pt == tab[<<p, "cur">>]
        top == IF syscall[p].op = "sbrk" THEN syscall[p].a ELSE sz[p]
    IN  /\ UserPages(pt) = Pages(0, top)
        /\ {TRAMPOLINE, TRAPFRAME} \subseteq DOMAIN pt.leaf
        /\ \A va \in {TRAMPOLINE, TRAPFRAME} : "U" \notin pt.leaf[va].perm
        /\ pt.leaf[TRAPFRAME].pa = tf[p]
        /\ Cardinality({va \in UserPages(pt) : "U" \notin pt.leaf[va].perm}) <= 1
=============================================================================
