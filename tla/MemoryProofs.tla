---------------------------- MODULE MemoryProofs ----------------------------
(***************************************************************************)
(* Proofs about Memory, for any process table, memory, page size and       *)
(* programs: every frame is free once or has one owner, whatever           *)
(* allocation fails; no panic of vm.c is reached; and the pages of a       *)
(* process are those below p->sz.                                          *)
(***************************************************************************)
EXTENDS Memory, FiniteSetTheorems, TLAPS

-----------------------------------------------------------------------------
(***************************************************************************)
(* The inductive invariant.                                                *)
(***************************************************************************)

\* Pages up to size x, rounded up.
Up(x) == (x + PGSIZE - 1) \div PGSIZE

Pte == [pa : Frame \cup {0}, perm : SUBSET {"W", "X", "U"}]
Dirs == UNION {[D -> Frame] : D \in SUBSET ({1, 2} \X Nat)}
Leaves == UNION {[D -> Pte] : D \in SUBSET Nat}
PageTable == [root : Frame \cup {0}, dir : Dirs, leaf : Leaves]

Table == ProcSlot \X {"cur", "new"}

\* The frames that a table has, one for each claim.
Own(pt) ==
  IF pt.root = 0 THEN {}
  ELSE {pt.root} \cup Range(pt.dir) \cup {pt.leaf[va].pa : va \in UserPages(pt)}

Distinct(pt) ==
  /\ \A n \in DOMAIN pt.dir : pt.dir[n] # pt.root
  /\ \A n, k \in DOMAIN pt.dir : pt.dir[n] = pt.dir[k] => n = k
  /\ \A va \in UserPages(pt) :
       /\ pt.leaf[va].pa \in Frame /\ pt.leaf[va].pa # pt.root
       /\ \A n \in DOMAIN pt.dir : pt.dir[n] # pt.leaf[va].pa
       /\ \A vb \in UserPages(pt) : pt.leaf[va].pa = pt.leaf[vb].pa => va = vb

\* The frames of the free list fr, those of pt and those in R are all frames, once.
Apart(fr, pt, R) ==
  /\ fr \in [Frame -> {0, 1}] /\ R \subseteq Frame
  /\ \A f \in Own(pt) : fr[f] = 0 /\ f \notin R
  /\ \A f \in R : fr[f] = 0
  /\ \A f \in Frame : fr[f] = 1 \/ f \in Own(pt) \/ f \in R

\* With tables t and trapframes g, the frames that are neither free nor in table i.
Traps(g) == {g[p] : p \in {q \in ProcSlot : g[q] # 0}}
Others(t, g, i) == kvmmake \cup Traps(g) \cup UNION {Own(t[j]) : j \in Table \ {i}}

\* Every frame is in one place, and each trapframe belongs to one slot.
Keep(fr, t, g) ==
  /\ fr \in [Frame -> {0, 1}]
  /\ t \in [Table -> PageTable] /\ g \in [ProcSlot -> Frame \cup {0}]
  /\ \A i \in Table : Distinct(t[i]) /\ Apart(fr, t[i], Others(t, g, i))
  /\ \A p \in ProcSlot : g[p] \notin kvmmake
  /\ \A p, q \in ProcSlot : g[p] = g[q] /\ g[p] # 0 => p = q

Owned == Keep(freelist, tab, tf)

\* A table with n user pages and the trap pages, for a process with trapframe f.
Spans(pt, n, f) ==
  /\ pt.root # 0 /\ DOMAIN pt.leaf = (0 .. n - 1) \cup {TRAMPOLINE, TRAPFRAME}
  /\ pt.leaf[TRAPFRAME].pa = f
  /\ "U" \notin pt.leaf[TRAMPOLINE].perm /\ "U" \notin pt.leaf[TRAPFRAME].perm

\* At most one page is out of the user's reach, the guard page below the stack.
Guarded(pt, n) ==
  \A va, vb \in 0 .. n - 1 :
    "U" \notin pt.leaf[va].perm /\ "U" \notin pt.leaf[vb].perm => va = vb

Usable(pt, n) == \A va \in 0 .. n - 1 : "U" \in pt.leaf[va].perm

\* uvmalloc() is between from, the end of what was there, and to.
Growing(c, old) ==
  /\ c.from = Up(old) * PGSIZE
  /\ \E k \in Nat : c.a = k * PGSIZE
  /\ c.a >= c.from
  /\ c.a = c.from \/ c.a < c.to + PGSIZE

ForkCall == [op : {"fork"}, np : ProcSlot, i : Int]
SbrkCall == [op : {"sbrk"}, at : {"grow"}, from : Nat, a : Nat, to : Nat, perm : {{"W", "U"}}]
ExecCall == [op : {"exec"}, at : {"next", "grow", "load", "args", "bad"}, img : Image, seg : Nat \ {0},
             sz : Nat, from : Nat, a : Nat, to : Nat, perm : SUBSET {"W", "X", "U"}]
Call == {NoCall} \cup ForkCall \cup SbrkCall \cup ExecCall

Types ==
  /\ st \in [ProcSlot -> {"UNUSED", "USED", "RUNNABLE", "ZOMBIE"}]
  /\ sz \in [ProcSlot -> Nat]
  /\ syscall \in [ProcSlot -> Call]
  /\ panic = FALSE

\* The image pt that exec() builds for the trapframe f, by where the call c is.
ExecOK(c, pt, f) ==
  LET n == IF c.at = "grow" THEN c.a \div PGSIZE ELSE Up(c.sz)
  IN  /\ Spans(pt, n, f) /\ Guarded(pt, n)
      /\ c.at \in {"next", "grow", "load"} => Usable(pt, n) /\ c.seg <= Len(c.img) + 1
      /\ c.at = "grow" => /\ Growing(c, c.sz) /\ c.to = Wanted(c).to /\ c.to >= c.sz
                          /\ "U" \in c.perm
      /\ c.at = "load" => c.seg <= Len(c.img) /\ c.img[c.seg].vaddr + c.img[c.seg].memsz <= c.sz

\* A process of size n in the call c has pages up to here.
Top(c, n) == IF c.op = "sbrk" THEN c.a \div PGSIZE ELSE Up(n)

\* A slot in state s with trapframe f and size n, its tables and its call; only a
\* running process is in a call.
SlotOK(s, f, n, cur, new, c) ==
  /\ s = "UNUSED" => f = 0 /\ cur = NoTable /\ n = 0
  /\ s = "USED" => f # 0 /\ n = 0
  /\ s \in {"RUNNABLE", "ZOMBIE"} => f # 0 /\ Spans(cur, Top(c, n), f) /\ Guarded(cur, Top(c, n))
  /\ s # "RUNNABLE" => c = NoCall
  /\ c.op # "exec" => new = NoTable
  /\ c.op = "sbrk" => Growing(c, n)
  /\ c.op = "exec" => ExecOK(c, new, f)

\* The child of a process of size n in the call c of fork(), by how far the copy
\* has come.
ChildOK(c, n, cur, s, f, pt) ==
  /\ s = "USED" /\ c.i \in -2 .. Up(n)
  /\ c.i = -1 => pt = NoTable
  /\ c.i = -2 => Spans(pt, 0, f)
  /\ c.i >= 0 => Spans(pt, c.i, f) /\ \A va \in 0 .. c.i - 1 : pt.leaf[va].perm = cur.leaf[va].perm

Slots ==
  \A p \in ProcSlot : SlotOK(st[p], tf[p], sz[p], tab[<<p, "cur">>], tab[<<p, "new">>], syscall[p])

Forks ==
  \A p \in ProcSlot : syscall[p].op = "fork" =>
    LET np == syscall[p].np
    IN  /\ ChildOK(syscall[p], sz[p], tab[<<p, "cur">>], st[np], tf[np], tab[<<np, "cur">>])
        /\ \A q \in ProcSlot : syscall[q].op = "fork" /\ syscall[q].np = np => q = p

MInv == Types /\ Owned /\ Slots /\ Forks

-----------------------------------------------------------------------------
(***************************************************************************)
(* Functions, free lists and page tables.                                  *)
(***************************************************************************)

\* The outcome of a piece of kernel code that leaves the frames R to others.
Rec(m) == m \in [free : [Frame -> Nat], pt : PageTable, ok : BOOLEAN, panic : BOOLEAN]

Sound(m, R) == Rec(m) /\ Distinct(m.pt) /\ Apart(m.free, m.pt, R)

LEMMA PutIs ==
  ASSUME NEW f, NEW k, NEW v
  PROVE  /\ DOMAIN Put(f, k, v) = DOMAIN f \cup {k}
         /\ Put(f, k, v)[k] = v
         /\ \A x \in DOMAIN f : x # k => Put(f, k, v)[x] = f[x]
         /\ Put(f, k, v) \in [DOMAIN f \cup {k} -> {v} \cup {f[x] : x \in DOMAIN f}]
BY DEF Put

LEMMA DirsIs ==
  ASSUME NEW d
  PROVE  d \in Dirs <=> /\ DOMAIN d \subseteq {1, 2} \X Nat
                        /\ d \in [DOMAIN d -> Frame]
BY DEF Dirs

LEMMA LeavesIs ==
  ASSUME NEW l
  PROVE  l \in Leaves <=> DOMAIN l \subseteq Nat /\ l \in [DOMAIN l -> Pte]
BY DEF Leaves

LEMMA PutDir ==
  ASSUME NEW d \in Dirs, NEW n \in {1, 2} \X Nat, NEW f \in Frame
  PROVE  Put(d, n, f) \in Dirs
<1>1. DOMAIN d \subseteq {1, 2} \X Nat /\ d \in [DOMAIN d -> Frame]
  BY DirsIs
<1>2. PICK e : e = Put(d, n, f)
  OBVIOUS
<1>3. DOMAIN e = DOMAIN d \cup {n} /\ e \in [DOMAIN d \cup {n} -> {f} \cup {d[x] : x \in DOMAIN d}]
  BY <1>2 DEF Put
<1>4. DOMAIN e \subseteq {1, 2} \X Nat /\ e \in [DOMAIN e -> Frame]
  BY <1>1, <1>3
<1> QED
  BY <1>2, <1>4, DirsIs

LEMMA PutLeaf ==
  ASSUME NEW l \in Leaves, NEW va \in Nat, NEW e \in Pte
  PROVE  Put(l, va, e) \in Leaves
<1>1. DOMAIN l \subseteq Nat /\ l \in [DOMAIN l -> Pte]
  BY LeavesIs
<1>2. PICK k : k = Put(l, va, e)
  OBVIOUS
<1>3. DOMAIN k = DOMAIN l \cup {va} /\ k \in [DOMAIN l \cup {va} -> {e} \cup {l[x] : x \in DOMAIN l}]
  BY <1>2, PutIs
<1>4. DOMAIN k \subseteq Nat /\ k \in [DOMAIN k -> Pte]
  BY <1>1, <1>3
<1> QED
  BY <1>2, <1>4, LeavesIs

LEMMA RestrictLeaf ==
  ASSUME NEW l \in Leaves, NEW S \in SUBSET DOMAIN l
  PROVE  /\ Restrict(l, S) \in Leaves /\ DOMAIN Restrict(l, S) = S
         /\ \A x \in S : Restrict(l, S)[x] = l[x]
<1>1. DOMAIN l \subseteq Nat /\ l \in [DOMAIN l -> Pte]
  BY LeavesIs
<1>2. PICK k : k = Restrict(l, S)
  OBVIOUS
<1>3. DOMAIN k = S /\ \A x \in S : k[x] = l[x]
  BY <1>2 DEF Restrict
<1>4. k \in [S -> Pte]
  BY <1>1, <1>2 DEF Restrict
<1>5. DOMAIN k \subseteq Nat /\ k \in [DOMAIN k -> Pte]
  BY <1>1, <1>3, <1>4
<1> QED
  BY <1>2, <1>3, <1>5, LeavesIs

\* kfree() of frames that are not free, none of them twice.
LEMMA KfreeIs ==
  ASSUME NEW fr \in [Frame -> {0, 1}], NEW fs,
         \A x, y \in DOMAIN fs : fs[x] = fs[y] => x = y,
         \A x \in DOMAIN fs : fs[x] \in Frame => fr[fs[x]] = 0
  PROVE  /\ kfree(fr, fs) \in [Frame -> {0, 1}]
         /\ \A g \in Frame : kfree(fr, fs)[g] = 1 <=> fr[g] = 1 \/ \E x \in DOMAIN fs : fs[x] = g
<1>1. ASSUME NEW g \in Frame
      PROVE  /\ fr[g] + Cardinality({x \in DOMAIN fs : fs[x] = g}) \in {0, 1}
             /\ fr[g] + Cardinality({x \in DOMAIN fs : fs[x] = g}) = 1
                  <=> fr[g] = 1 \/ \E x \in DOMAIN fs : fs[x] = g
  <2>1. CASE \E x \in DOMAIN fs : fs[x] = g
    <3>1. PICK x \in DOMAIN fs : fs[x] = g
      BY <2>1
    <3>2. {y \in DOMAIN fs : fs[y] = g} = {x}
      BY <3>1
    <3>3. Cardinality({x}) = 1
      BY FS_Singleton
    <3>4. fr[g] = 0
      BY <3>1
    <3> QED
      BY <2>1, <3>2, <3>3, <3>4
  <2>2. CASE ~\E x \in DOMAIN fs : fs[x] = g
    <3>1. {y \in DOMAIN fs : fs[y] = g} = {}
      BY <2>2
    <3>2. Cardinality({}) = 0
      BY FS_EmptySet
    <3> QED
      BY <2>2, <3>1, <3>2
  <2> QED
    BY <2>1, <2>2
<1> QED
  BY <1>1 DEF kfree

LEMMA OneFrame ==
  ASSUME NEW f
  PROVE  LET fs == [x \in {0} |-> f]
         IN  /\ \A x, y \in DOMAIN fs : fs[x] = fs[y] => x = y
             /\ \A x \in DOMAIN fs : fs[x] = f
             /\ \A g : (\E x \in DOMAIN fs : fs[x] = g) <=> g = f
OBVIOUS

-----------------------------------------------------------------------------
(***************************************************************************)
(* kalloc.c and vm.c keep every frame in one place.                        *)
(***************************************************************************)

LEMMA SoundIs ==
  ASSUME NEW m, NEW R, Sound(m, R)
  PROVE  /\ m.free \in [Frame -> {0, 1}] /\ R \subseteq Frame
         /\ m.pt \in PageTable /\ m.ok \in BOOLEAN /\ m.panic \in BOOLEAN
         /\ m.pt.dir \in Dirs /\ m.pt.leaf \in Leaves /\ m.pt.root \in Frame \cup {0}
         /\ Distinct(m.pt) /\ Apart(m.free, m.pt, R)
BY DEF Sound, Rec, Apart, PageTable

LEMMA KallocIs ==
  ASSUME NEW m, NEW R, Sound(m, R), m.ok
  PROVE  /\ kalloc(m).pt = m.pt /\ kalloc(m).panic = m.panic
         /\ ~kalloc(m).ok => Sound(kalloc(m), R)
         /\ kalloc(m).ok => /\ NextFrame(m) \in Frame /\ NextFrame(m) \notin R
                            /\ NextFrame(m) \notin Own(m.pt)
                            /\ Sound(kalloc(m), R \cup {NextFrame(m)})
<1>1. m \in [free : [Frame -> Nat], pt : PageTable, ok : BOOLEAN, panic : BOOLEAN]
  BY DEF Sound, Rec
<1>2. m.free \in [Frame -> {0, 1}]
  BY SoundIs
<1>3. CASE Avail(m) = {}
  <2>1. kalloc(m) = [m EXCEPT !.ok = FALSE]
    BY <1>3 DEF kalloc
  <2>2. /\ Rec(kalloc(m)) /\ kalloc(m).pt = m.pt /\ kalloc(m).panic = m.panic
        /\ kalloc(m).free = m.free /\ kalloc(m).ok = FALSE
    BY <1>1, <2>1 DEF Rec
  <2> QED
    BY <2>2 DEF Sound
<1>4. CASE Avail(m) # {}
  <2>1. PICK f : f = NextFrame(m)
    OBVIOUS
  <2>2. f \in Avail(m)
    <3>1. \E g : g \in Avail(m)
      BY <1>4
    <3> QED
      BY <2>1, <3>1 DEF NextFrame
  <2>3. f \in Frame /\ m.free[f] = 1
    BY <1>2, <2>2 DEF Avail
  <2>4. kalloc(m) = [m EXCEPT !.free[f] = @ - 1]
    BY <1>4, <2>1 DEF kalloc
  <2>5. kalloc(m) = [m EXCEPT !.free = [m.free EXCEPT ![f] = m.free[f] - 1]]
    BY <1>1, <2>3, <2>4
  <2>6. m.free[f] - 1 = 0
    BY <2>3
  <2>7. [m.free EXCEPT ![f] = 0] \in [Frame -> {0, 1}]
    BY <1>2, <2>3
  <2>8. PICK fr \in [Frame -> {0, 1}] : fr = [m.free EXCEPT ![f] = m.free[f] - 1]
    BY <2>6, <2>7
  <2>9. fr[f] = 0 /\ \A g \in Frame : g # f => fr[g] = m.free[g]
    BY <1>2, <2>3, <2>8
  <2>10. fr \in [Frame -> Nat]
    OBVIOUS
  <2>11. /\ Rec(kalloc(m)) /\ kalloc(m).pt = m.pt /\ kalloc(m).panic = m.panic
        /\ kalloc(m).free = fr /\ kalloc(m).ok = m.ok
    BY <1>1, <2>5, <2>8, <2>10 DEF Rec
  <2>12. Apart(m.free, m.pt, R) /\ Distinct(m.pt)
    BY DEF Sound
  <2>13. f \notin R /\ f \notin Own(m.pt)
    BY <2>3, <2>12 DEF Apart
  <2>14. Own(m.pt) \subseteq Frame
    BY <2>12, SoundIs, DirsIs DEF Own, Distinct, Range
  <2>15. Apart(fr, m.pt, R \cup {f})
    BY <2>3, <2>9, <2>12, <2>13, <2>14 DEF Apart
  <2>16. Sound(kalloc(m), R \cup {f})
    BY <2>11, <2>12, <2>15 DEF Sound
  <2> QED
    BY <2>1, <2>3, <2>11, <2>13, <2>16
<1> QED
  BY <1>3, <1>4

LEMMA OwnFrames ==
  ASSUME NEW pt \in PageTable, Distinct(pt)
  PROVE  Own(pt) \subseteq Frame
<1>1. pt.dir \in Dirs /\ pt.root \in Frame \cup {0}
  BY DEF PageTable
<1> QED
  BY <1>1, DirsIs DEF Own, Distinct, Range

\* kfree() of one frame that nobody else has.
LEMMA GiveBack ==
  ASSUME NEW m, NEW R, Sound(m, R), NEW f \in R, NEW fs, fs = [x \in {0} |-> f], NEW fr, fr = kfree(m.free, fs),
         NEW m2, m2 = [m EXCEPT !.free = fr]
  PROVE  Sound(m2, R \ {f}) /\ m2.pt = m.pt /\ m2.ok = m.ok /\ m2.panic = m.panic /\ m2.free = fr
<1>1. m \in [free : [Frame -> Nat], pt : PageTable, ok : BOOLEAN, panic : BOOLEAN]
  BY DEF Sound, Rec
<1>2. m.free \in [Frame -> {0, 1}] /\ Apart(m.free, m.pt, R) /\ Distinct(m.pt)
  BY SoundIs
<1>3. f \in Frame /\ m.free[f] = 0 /\ f \notin Own(m.pt)
  BY <1>2 DEF Apart
<1>4. /\ \A x, y \in DOMAIN fs : fs[x] = fs[y] => x = y
      /\ \A x \in DOMAIN fs : fs[x] = f
      /\ \A g : (\E x \in DOMAIN fs : fs[x] = g) <=> g = f
  BY OneFrame
<1>5. \A x \in DOMAIN fs : fs[x] \in Frame => m.free[fs[x]] = 0
  BY <1>3, <1>4
<1>6. /\ kfree(m.free, fs) \in [Frame -> {0, 1}]
      /\ \A g \in Frame : kfree(m.free, fs)[g] = 1 <=> m.free[g] = 1 \/ \E x \in DOMAIN fs : fs[x] = g
  BY <1>2, <1>4, <1>5, KfreeIs
<1>7. fr \in [Frame -> {0, 1}] /\ \A g \in Frame : fr[g] = 1 <=> m.free[g] = 1 \/ g = f
  BY <1>4, <1>6
<1>8. fr \in [Frame -> Nat]
  BY <1>7
<1>9. Rec(m2) /\ m2.pt = m.pt /\ m2.ok = m.ok /\ m2.panic = m.panic /\ m2.free = fr
  BY <1>1, <1>8 DEF Rec
<1>10. Own(m.pt) \subseteq Frame
  BY <1>1, <1>2, OwnFrames
<1>11. ASSUME NEW g \in Frame
       PROVE  /\ fr[g] \in {0, 1} /\ m.free[g] \in {0, 1}
              /\ fr[g] = 0 => m.free[g] = 0
              /\ g # f => fr[g] = m.free[g]
  BY <1>2, <1>7
<1>12. Apart(fr, m.pt, R \ {f})
  BY <1>2, <1>3, <1>7, <1>10, <1>11 DEF Apart
<1> QED
  BY <1>2, <1>9, <1>12 DEF Sound

LEMMA DivNat ==
  ASSUME NEW a \in Nat, NEW b \in Nat \ {0}
  PROVE  a \div b \in Nat
BY Z3

\* A page-table page taken for a node of the table.
LEMMA NodeAdded ==
  ASSUME NEW pt \in PageTable, NEW fr, NEW R, NEW f, NEW node \in {1, 2} \X Nat,
         Distinct(pt), Apart(fr, pt, R \cup {f}), f \in Frame, f \notin R, f \notin Own(pt), pt.root # 0,
         node \notin DOMAIN pt.dir,
         NEW q, q = [pt EXCEPT !.dir = Put(pt.dir, node, f)]
  PROVE  q \in PageTable /\ q.root = pt.root /\ q.leaf = pt.leaf /\ Distinct(q) /\ Apart(fr, q, R)
<1>1. pt.dir \in Dirs /\ pt.leaf \in Leaves
  BY DEF PageTable
<1>2. PICK d : d = Put(pt.dir, node, f)
  OBVIOUS
<1>3. d \in Dirs
  BY <1>1, <1>2, PutDir
<1>4. q \in PageTable /\ q.root = pt.root /\ q.leaf = pt.leaf /\ q.dir = d
  BY <1>2, <1>3 DEF PageTable
<1>5. DOMAIN d = DOMAIN pt.dir \cup {node} /\ d[node] = f /\ \A x \in DOMAIN pt.dir : d[x] = pt.dir[x]
  BY <1>2 DEF Put
<1>6. Range(d) = Range(pt.dir) \cup {f}
  BY <1>5 DEF Range
<1>7. UserPages(q) = UserPages(pt)
  BY <1>4 DEF UserPages
<1>8. Own(q) = Own(pt) \cup {f}
  BY <1>4, <1>6, <1>7 DEF Own
<1>9. /\ f # pt.root /\ \A n \in DOMAIN pt.dir : pt.dir[n] # f
      /\ \A va \in UserPages(pt) : pt.leaf[va].pa # f
  BY DEF Own, Range
<1>10. Distinct(q)
  <2>1. \A n \in DOMAIN d : d[n] # pt.root
    BY <1>5, <1>9 DEF Distinct
  <2>2. \A n, k \in DOMAIN d : d[n] = d[k] => n = k
    BY <1>5, <1>9 DEF Distinct
  <2>3. \A va \in UserPages(pt) : \A n \in DOMAIN d : d[n] # pt.leaf[va].pa
    BY <1>5, <1>9 DEF Distinct
  <2> QED
    BY <1>4, <1>7, <2>1, <2>2, <2>3 DEF Distinct
<1>11. Apart(fr, q, R)
  BY <1>8 DEF Apart
<1> QED
  BY <1>4, <1>10, <1>11

LEMMA DescendIs ==
  ASSUME NEW m, NEW R, Sound(m, R), NEW node \in {1, 2} \X Nat, m.pt.root # 0,
         NEW w, w = Descend(m, node)
  PROVE  /\ Sound(w, R) /\ w.pt.root = m.pt.root /\ w.pt.leaf = m.pt.leaf /\ w.panic = m.panic
         /\ w.ok => m.ok
<1>1. CASE ~m.ok \/ node \in DOMAIN m.pt.dir
  BY <1>1 DEF Descend
<1>2. CASE m.ok /\ node \notin DOMAIN m.pt.dir
  <2>1. PICK k : k = kalloc(m)
    OBVIOUS
  <2>2. PICK f : f = NextFrame(m)
    OBVIOUS
  <2>3. /\ k.pt = m.pt /\ k.panic = m.panic
        /\ ~k.ok => Sound(k, R)
        /\ k.ok => f \in Frame /\ f \notin R /\ f \notin Own(m.pt) /\ Sound(k, R \cup {f})
    BY <1>2, <2>1, <2>2, KallocIs
  <2>4. CASE ~k.ok
    BY <1>2, <2>1, <2>3, <2>4 DEF Descend
  <2>5. CASE k.ok
    <3>1. w = [k EXCEPT !.pt.dir = Put(@, node, f)]
      BY <1>2, <2>1, <2>2, <2>5 DEF Descend
    <3>2. k \in [free : [Frame -> Nat], pt : PageTable, ok : BOOLEAN, panic : BOOLEAN]
      BY <2>3, <2>5 DEF Sound, Rec
    <3>3. PICK q : q = [k.pt EXCEPT !.dir = Put(k.pt.dir, node, f)]
      OBVIOUS
    <3>4. w = [k EXCEPT !.pt = q]
      BY <3>1, <3>2, <3>3 DEF PageTable
    <3>5. Distinct(k.pt) /\ Apart(k.free, k.pt, R \cup {f}) /\ k.pt \in PageTable
      BY <2>3, <2>5, SoundIs
    <3>6. q \in PageTable /\ q.root = k.pt.root /\ q.leaf = k.pt.leaf /\ Distinct(q) /\ Apart(k.free, q, R)
      BY <1>2, <2>3, <2>5, <3>3, <3>5, NodeAdded
    <3>7. Rec(w) /\ w.pt = q /\ w.free = k.free /\ w.panic = k.panic /\ w.ok = k.ok
      BY <3>2, <3>4, <3>6 DEF Rec
    <3> QED
      BY <1>2, <2>3, <3>6, <3>7 DEF Sound
  <2> QED
    BY <2>4, <2>5
<1> QED
  BY <1>1, <1>2, SoundIs

LEMMA WalkIs ==
  ASSUME NEW m, NEW R, Sound(m, R), NEW va \in Nat, m.pt.root # 0,
         NEW w, w = walk(m, va)
  PROVE  /\ Sound(w, R) /\ w.pt.root = m.pt.root /\ w.pt.leaf = m.pt.leaf /\ w.panic = m.panic
         /\ w.ok => m.ok
<1>1. PTES \in Nat \ {0} /\ PTES * PTES \in Nat \ {0}
  BY TableAssumption, Z3
<1>2. Upper(va) \in {1, 2} \X Nat /\ Lower(va) \in {1, 2} \X Nat
  BY <1>1, DivNat DEF Upper, Lower
<1>3. PICK u : u = Descend(m, Upper(va))
  OBVIOUS
<1>4. /\ Sound(u, R) /\ u.pt.root = m.pt.root /\ u.pt.leaf = m.pt.leaf /\ u.panic = m.panic
      /\ u.ok => m.ok
  BY <1>2, <1>3, DescendIs
<1>5. w = Descend(u, Lower(va))
  BY <1>3 DEF walk
<1>6. /\ Sound(w, R) /\ w.pt.root = u.pt.root /\ w.pt.leaf = u.pt.leaf /\ w.panic = u.panic
      /\ w.ok => u.ok
  BY <1>2, <1>4, <1>5, DescendIs
<1> QED
  BY <1>4, <1>6

Trap == {TRAMPOLINE, TRAPFRAME}

LEMMA TrapNat == TRAPFRAME \in Nat /\ TRAMPOLINE = TRAPFRAME + 1 /\ TRAPFRAME > 0 /\ TRAMPOLINE \in Nat
<1>1. PICK c \in Nat : c = Cardinality(Frame)
  BY MemoryAssumption, FS_CardinalityType
<1>2. PICK b : b = PTES * PTES * PTES - 2
  OBVIOUS
<1>3. b \in Int
  BY <1>2, TableAssumption
<1>4. c < b
  BY <1>1, <1>2, MemoryAssumption
<1>5. TRAPFRAME = b
  BY <1>2, <1>3, TableAssumption DEF TRAPFRAME, TRAMPOLINE
<1>6. TRAMPOLINE = b + 1
  BY <1>2, <1>3, TableAssumption DEF TRAMPOLINE
<1> QED
  BY <1>1, <1>3, <1>4, <1>5, <1>6

\* The leaf of a user page takes a frame.
LEMMA LeafAdded ==
  ASSUME NEW pt \in PageTable, NEW fr, NEW R, NEW f, NEW va \in Nat \ Trap, NEW perm \in SUBSET {"W", "X", "U"},
         Distinct(pt), Apart(fr, pt, R \cup {f}), f \in Frame, f \notin R, f \notin Own(pt), pt.root # 0,
         va \notin DOMAIN pt.leaf,
         NEW q, q = [pt EXCEPT !.leaf = Put(pt.leaf, va, [pa |-> f, perm |-> perm])]
  PROVE  /\ q \in PageTable /\ q.root = pt.root /\ q.leaf = Put(pt.leaf, va, [pa |-> f, perm |-> perm])
         /\ Distinct(q) /\ Apart(fr, q, R)
<1>1. pt.dir \in Dirs /\ pt.leaf \in Leaves
  BY DEF PageTable
<1>2. PICK l : l = Put(pt.leaf, va, [pa |-> f, perm |-> perm])
  OBVIOUS
<1>3. [pa |-> f, perm |-> perm] \in Pte
  BY DEF Pte
<1>4. l \in Leaves
  BY <1>1, <1>2, <1>3, PutLeaf
<1>5. q \in PageTable /\ q.root = pt.root /\ q.leaf = l /\ q.dir = pt.dir
  BY <1>2, <1>4 DEF PageTable
<1>6. /\ DOMAIN l = DOMAIN pt.leaf \cup {va} /\ l[va].pa = f
      /\ \A x \in DOMAIN pt.leaf : l[x] = pt.leaf[x]
  BY <1>2 DEF Put
<1>7. UserPages(q) = UserPages(pt) \cup {va}
  BY <1>5, <1>6 DEF UserPages, Trap
<1>8. \A x \in UserPages(pt) : x # va /\ q.leaf[x] = pt.leaf[x]
  BY <1>5, <1>6 DEF UserPages
<1>9. {q.leaf[x].pa : x \in UserPages(q)} = {pt.leaf[x].pa : x \in UserPages(pt)} \cup {f}
  BY <1>5, <1>6, <1>7, <1>8
<1>10. Own(q) = Own(pt) \cup {f}
  BY <1>5, <1>9 DEF Own
<1>11. /\ f # pt.root /\ \A n \in DOMAIN pt.dir : pt.dir[n] # f
       /\ \A x \in UserPages(pt) : pt.leaf[x].pa # f
  BY DEF Own, Range
<1>12. q.leaf[va].pa = f
  BY <1>5, <1>6
<1>13. Distinct(q)
  <2>1. \A x \in UserPages(q) :
          /\ q.leaf[x].pa \in Frame /\ q.leaf[x].pa # pt.root
          /\ \A n \in DOMAIN pt.dir : pt.dir[n] # q.leaf[x].pa
    BY <1>7, <1>8, <1>11, <1>12 DEF Distinct
  <2>2. \A x, y \in UserPages(q) : q.leaf[x].pa = q.leaf[y].pa => x = y
    BY <1>7, <1>8, <1>11, <1>12 DEF Distinct
  <2> QED
    BY <1>5, <2>1, <2>2 DEF Distinct
<1>14. Apart(fr, q, R)
  BY <1>10 DEF Apart
<1> QED
  BY <1>2, <1>5, <1>13, <1>14

\* Leaves that change at the trap pages only.
LEMMA LeafTrap ==
  ASSUME NEW pt \in PageTable, NEW fr, NEW R, Distinct(pt), Apart(fr, pt, R),
         NEW l \in Leaves, DOMAIN l \ Trap = UserPages(pt),
         \A x \in UserPages(pt) : l[x].pa = pt.leaf[x].pa,
         NEW q, q = [pt EXCEPT !.leaf = l]
  PROVE  q \in PageTable /\ q.root = pt.root /\ q.leaf = l /\ q.dir = pt.dir /\ Distinct(q) /\ Apart(fr, q, R)
<1>1. q \in PageTable /\ q.root = pt.root /\ q.leaf = l /\ q.dir = pt.dir
  BY DEF PageTable
<1>2. UserPages(q) = UserPages(pt)
  BY <1>1 DEF UserPages, Trap
<1>3. {q.leaf[x].pa : x \in UserPages(q)} = {pt.leaf[x].pa : x \in UserPages(pt)}
  BY <1>1, <1>2
<1>4. Own(q) = Own(pt)
  BY <1>1, <1>3 DEF Own
<1>5. Distinct(q)
  BY <1>1, <1>2 DEF Distinct
<1>6. Apart(fr, q, R)
  BY <1>4 DEF Apart
<1> QED
  BY <1>1, <1>5, <1>6

LEMMA MappagesIs ==
  ASSUME NEW m, NEW R, NEW f, Sound(m, R \cup {f}), f \in Frame, f \notin R, f \notin Own(m.pt),
         NEW va \in Nat \ Trap, NEW perm \in SUBSET {"W", "X", "U"},
         m.pt.root # 0, va \notin DOMAIN m.pt.leaf,
         NEW w, w = mappages(m, va, f, perm)
  PROVE  /\ w.pt.root = m.pt.root /\ w.panic = m.panic /\ w.ok \in BOOLEAN
         /\ ~w.ok => Sound(w, R \cup {f}) /\ w.pt.leaf = m.pt.leaf
         /\ w.ok => Sound(w, R) /\ m.ok /\ w.pt.leaf = Put(m.pt.leaf, va, [pa |-> f, perm |-> perm])
<1>1. PICK k : k = walk(m, va)
  OBVIOUS
<1>2. /\ Sound(k, R \cup {f}) /\ k.pt.root = m.pt.root /\ k.pt.leaf = m.pt.leaf /\ k.panic = m.panic
      /\ k.ok => m.ok
  BY <1>1, WalkIs
<1>3. k.ok \in BOOLEAN
  BY <1>2, SoundIs
<1>4. CASE ~k.ok
  BY <1>1, <1>2, <1>3, <1>4 DEF mappages
<1>5. CASE k.ok
  <2>1. w = [k EXCEPT !.pt.leaf = Put(@, va, [pa |-> f, perm |-> perm])]
    BY <1>1, <1>2, <1>5 DEF mappages, Mapped
  <2>2. k \in [free : [Frame -> Nat], pt : PageTable, ok : BOOLEAN, panic : BOOLEAN]
    BY <1>2 DEF Sound, Rec
  <2>3. PICK q : q = [k.pt EXCEPT !.leaf = Put(k.pt.leaf, va, [pa |-> f, perm |-> perm])]
    OBVIOUS
  <2>4. w = [k EXCEPT !.pt = q]
    BY <2>1, <2>2, <2>3 DEF PageTable
  <2>5. Distinct(k.pt) /\ Apart(k.free, k.pt, R \cup {f}) /\ k.pt \in PageTable
    BY <1>2, SoundIs
  <2>6. f \notin Own(k.pt)
    BY <2>5 DEF Apart
  <2>7. /\ q \in PageTable /\ q.root = k.pt.root /\ q.leaf = Put(k.pt.leaf, va, [pa |-> f, perm |-> perm])
        /\ Distinct(q) /\ Apart(k.free, q, R)
    BY <1>2, <2>3, <2>5, <2>6, LeafAdded
  <2>8. Rec(w) /\ w.pt = q /\ w.free = k.free /\ w.panic = k.panic /\ w.ok = k.ok
    BY <2>2, <2>4, <2>7 DEF Rec
  <2> QED
    BY <1>2, <1>3, <1>5, <2>7, <2>8 DEF Sound
<1> QED
  BY <1>3, <1>4, <1>5

\* mappages() of a trap page, which has no frame of its own.
LEMMA MaptrapIs ==
  ASSUME NEW m, NEW R, Sound(m, R), NEW va \in Trap, NEW f \in Frame \cup {0}, NEW perm \in SUBSET {"W", "X", "U"},
         m.pt.root # 0, va \notin DOMAIN m.pt.leaf,
         NEW w, w = mappages(m, va, f, perm)
  PROVE  /\ Sound(w, R) /\ w.pt.root = m.pt.root /\ w.panic = m.panic /\ w.ok \in BOOLEAN
         /\ ~w.ok => w.pt.leaf = m.pt.leaf
         /\ w.ok => m.ok /\ w.pt.leaf = Put(m.pt.leaf, va, [pa |-> f, perm |-> perm])
<1>1. PICK k : k = walk(m, va)
  OBVIOUS
<1>2. va \in Nat
  BY TrapNat DEF Trap
<1>3. /\ Sound(k, R) /\ k.pt.root = m.pt.root /\ k.pt.leaf = m.pt.leaf /\ k.panic = m.panic
      /\ k.ok => m.ok
  BY <1>2, <1>1, WalkIs
<1>4. k.ok \in BOOLEAN
  BY <1>3, SoundIs
<1>5. CASE ~k.ok
  BY <1>1, <1>3, <1>4, <1>5 DEF mappages
<1>6. CASE k.ok
  <2>1. w = [k EXCEPT !.pt.leaf = Put(@, va, [pa |-> f, perm |-> perm])]
    BY <1>1, <1>3, <1>6 DEF mappages, Mapped
  <2>2. k \in [free : [Frame -> Nat], pt : PageTable, ok : BOOLEAN, panic : BOOLEAN]
    BY <1>3 DEF Sound, Rec
  <2>3. PICK l : l = Put(k.pt.leaf, va, [pa |-> f, perm |-> perm])
    OBVIOUS
  <2>4. PICK q : q = [k.pt EXCEPT !.leaf = l]
    OBVIOUS
  <2>5. w = [k EXCEPT !.pt = q]
    BY <2>1, <2>2, <2>3, <2>4 DEF PageTable
  <2>6. Distinct(k.pt) /\ Apart(k.free, k.pt, R) /\ k.pt \in PageTable /\ k.pt.leaf \in Leaves
    BY <1>3, SoundIs
  <2>7. [pa |-> f, perm |-> perm] \in Pte
    BY DEF Pte
  <2>8. l \in Leaves
    BY <1>2, <2>3, <2>6, <2>7, PutLeaf
  <2>9. DOMAIN l = DOMAIN k.pt.leaf \cup {va} /\ \A x \in DOMAIN k.pt.leaf : x # va => l[x] = k.pt.leaf[x]
    BY <2>3 DEF Put
  <2>10. DOMAIN l \ Trap = UserPages(k.pt) /\ \A x \in UserPages(k.pt) : l[x].pa = k.pt.leaf[x].pa
    BY <2>9 DEF UserPages, Trap
  <2>11. q \in PageTable /\ q.root = k.pt.root /\ q.leaf = l /\ Distinct(q) /\ Apart(k.free, q, R)
    BY <2>4, <2>6, <2>8, <2>10, LeafTrap
  <2>12. Rec(w) /\ w.pt = q /\ w.free = k.free /\ w.panic = k.panic /\ w.ok = k.ok
    BY <2>2, <2>5, <2>11 DEF Rec
  <2> QED
    BY <1>3, <1>4, <1>6, <2>3, <2>11, <2>12 DEF Sound
<1> QED
  BY <1>4, <1>5, <1>6

LEMMA UvmallocPageIs ==
  ASSUME NEW m, NEW R, Sound(m, R), m.ok, NEW va \in Nat \ Trap, NEW perm \in SUBSET {"W", "X", "U"},
         m.pt.root # 0, va \notin DOMAIN m.pt.leaf,
         NEW w, w = uvmalloc_page(m, va, perm)
  PROVE  /\ Sound(w, R) /\ w.pt.root = m.pt.root /\ w.panic = m.panic
         /\ ~w.ok => w.pt.leaf = m.pt.leaf
         /\ w.ok => \E f \in Frame : w.pt.leaf = Put(m.pt.leaf, va, [pa |-> f, perm |-> perm])
<1>1. PICK k : k = kalloc(m)
  OBVIOUS
<1>2. PICK f : f = NextFrame(m)
  OBVIOUS
<1>3. /\ k.pt = m.pt /\ k.panic = m.panic
      /\ ~k.ok => Sound(k, R)
      /\ k.ok => f \in Frame /\ f \notin R /\ f \notin Own(m.pt) /\ Sound(k, R \cup {f})
  BY <1>1, <1>2, KallocIs
<1>4. CASE ~k.ok
  BY <1>1, <1>3, <1>4 DEF uvmalloc_page
<1>5. CASE k.ok
  <2>1. PICK u : u = mappages(k, va, f, perm)
    OBVIOUS
  <2>2. /\ u.pt.root = k.pt.root /\ u.panic = k.panic /\ u.ok \in BOOLEAN
        /\ ~u.ok => Sound(u, R \cup {f}) /\ u.pt.leaf = k.pt.leaf
        /\ u.ok => Sound(u, R) /\ k.ok /\ u.pt.leaf = Put(k.pt.leaf, va, [pa |-> f, perm |-> perm])
    BY <1>3, <1>5, <2>1, MappagesIs
  <2>3. CASE u.ok
    <3>1. w = u
      BY <1>1, <1>2, <1>5, <2>1, <2>3 DEF uvmalloc_page
    <3> QED
      BY <1>3, <1>5, <2>2, <2>3, <3>1
  <2>4. CASE ~u.ok
    <3>1. w = [u EXCEPT !.free = kfree(@, [x \in {0} |-> f])]
      BY <1>1, <1>2, <1>5, <2>1, <2>4 DEF uvmalloc_page
    <3>2. PICK fs : fs = [x \in {0} |-> f]
      OBVIOUS
    <3>3. PICK fr : fr = kfree(u.free, fs)
      OBVIOUS
    <3>4. w = [u EXCEPT !.free = fr]
      BY <3>1, <3>3, <3>2
    <3>5. PICK Q : Q = R \cup {f}
      OBVIOUS
    <3>6. Sound(u, Q) /\ f \in Q /\ Q \ {f} = R
      BY <1>3, <1>5, <2>2, <2>4, <3>5
    <3>7. Sound(w, Q \ {f}) /\ w.pt = u.pt /\ w.ok = u.ok /\ w.panic = u.panic
      BY <3>3, <3>4, <3>6, <3>2, GiveBack
    <3> QED
      BY <1>3, <2>2, <2>4, <3>6, <3>7
  <2> QED
    BY <2>2, <2>3, <2>4
<1> QED
  BY <1>4, <1>5

Unmap(m, vas) == uvmunmap(m, vas, TRUE)
Untrap(m, vas) == uvmunmap(m, vas, FALSE)

\* uvmunmap() of user pages, which gives their frames back.
LEMMA UvmunmapIs ==
  ASSUME NEW m, NEW R, Sound(m, R), NEW vas, vas \subseteq UserPages(m.pt), m.pt.root # 0,
         NEW w, w = Unmap(m, vas)
  PROVE  /\ Sound(w, R) /\ w.pt.root = m.pt.root /\ w.panic = m.panic /\ w.ok = m.ok
         /\ DOMAIN w.pt.leaf = DOMAIN m.pt.leaf \ vas /\ \A x \in DOMAIN w.pt.leaf : w.pt.leaf[x] = m.pt.leaf[x]
<1>1. m \in [free : [Frame -> Nat], pt : PageTable, ok : BOOLEAN, panic : BOOLEAN]
  BY DEF Sound, Rec
<1>2. /\ m.free \in [Frame -> {0, 1}] /\ R \subseteq Frame
      /\ m.pt.dir \in Dirs /\ m.pt.leaf \in Leaves /\ m.pt.root \in Frame
      /\ Distinct(m.pt) /\ Apart(m.free, m.pt, R)
  BY SoundIs
<1>3. vas \subseteq DOMAIN m.pt.leaf
  BY DEF UserPages
<1>4. PICK l : l = Restrict(m.pt.leaf, DOMAIN m.pt.leaf \ vas)
  OBVIOUS
<1>5. l \in Leaves /\ DOMAIN l = DOMAIN m.pt.leaf \ vas /\ \A x \in DOMAIN l : l[x] = m.pt.leaf[x]
  BY <1>2, <1>4, RestrictLeaf
<1>6. PICK fs : fs = [va \in vas |-> m.pt.leaf[va].pa]
  OBVIOUS
<1>7. DOMAIN fs = vas /\ \A va \in vas : fs[va] = m.pt.leaf[va].pa
  BY <1>6
<1>8. PICK fr : fr = kfree(m.free, fs)
  OBVIOUS
<1>9. PICK q : q = [m.pt EXCEPT !.leaf = l]
  OBVIOUS
<1>10. ~\E va \in vas : ~Mapped(m.pt, va)
  BY <1>3 DEF Mapped
<1>11. w = [m EXCEPT !.pt.leaf = Restrict(@, DOMAIN @ \ vas), !.free = kfree(@, [va \in vas |-> m.pt.leaf[va].pa])]
  BY <1>10 DEF Unmap, uvmunmap
<1>12. w = [m EXCEPT !.pt = q, !.free = fr]
  BY <1>1, <1>4, <1>6, <1>8, <1>9, <1>11 DEF PageTable
<1>13. \A x, y \in DOMAIN fs : fs[x] = fs[y] => x = y
  BY <1>2, <1>7 DEF Distinct
<1>14. \A x \in DOMAIN fs : fs[x] \in Own(m.pt)
  BY <1>7 DEF Own
<1>15. \A x \in DOMAIN fs : fs[x] \in Frame => m.free[fs[x]] = 0
  BY <1>2, <1>14 DEF Apart
<1>16. /\ fr \in [Frame -> {0, 1}]
       /\ \A g \in Frame : fr[g] = 1 <=> m.free[g] = 1 \/ \E x \in DOMAIN fs : fs[x] = g
  BY <1>2, <1>8, <1>13, <1>15, KfreeIs
<1>17. q \in PageTable /\ q.root = m.pt.root /\ q.leaf = l /\ q.dir = m.pt.dir
  BY <1>1, <1>5, <1>9 DEF PageTable
<1>18. UserPages(q) = UserPages(m.pt) \ vas /\ \A x \in UserPages(q) : q.leaf[x] = m.pt.leaf[x]
  BY <1>5, <1>17 DEF UserPages
<1>19. fr \in [Frame -> Nat]
  BY <1>16
<1>20. Rec(w) /\ w.pt = q /\ w.free = fr /\ w.ok = m.ok /\ w.panic = m.panic
  BY <1>1, <1>12, <1>17, <1>19 DEF Rec
<1>21. Distinct(q)
  BY <1>2, <1>17, <1>18 DEF Distinct
<1>22. \A g : g \in Own(q) <=> g \in Own(m.pt) /\ ~\E x \in vas : fs[x] = g
  <2>1. ASSUME NEW g, g \in Own(q)
        PROVE  g \in Own(m.pt) /\ ~\E x \in vas : fs[x] = g
    <3>1. g = m.pt.root \/ g \in Range(m.pt.dir) \/ \E y \in UserPages(m.pt) \ vas : g = m.pt.leaf[y].pa
      BY <1>17, <1>18, <2>1 DEF Own
    <3>2. g \in Own(m.pt)
      BY <3>1 DEF Own
    <3>3. \A x \in vas : fs[x] # g
      BY <1>2, <1>7, <3>1 DEF Distinct, Range
    <3> QED
      BY <3>2, <3>3
  <2>2. ASSUME NEW g, g \in Own(m.pt), ~\E x \in vas : fs[x] = g
        PROVE  g \in Own(q)
    <3>1. g = m.pt.root \/ g \in Range(m.pt.dir) \/ \E y \in UserPages(m.pt) : g = m.pt.leaf[y].pa
      BY <2>2 DEF Own
    <3>2. g = m.pt.root \/ g \in Range(m.pt.dir) \/ \E y \in UserPages(m.pt) \ vas : g = m.pt.leaf[y].pa
      BY <1>7, <2>2, <3>1
    <3> QED
      BY <1>17, <1>18, <3>2 DEF Own
  <2> QED
    BY <2>1, <2>2
<1>23. Apart(fr, q, R)
  <2>1. \A f \in Frame : fr[f] \in {0, 1} /\ m.free[f] \in {0, 1}
    BY <1>2, <1>16
  <2>2. Own(m.pt) \subseteq Frame
    BY <1>1, <1>2, OwnFrames
  <2>3. \A f \in Own(q) : fr[f] = 0 /\ f \notin R
    BY <1>2, <1>7, <1>16, <1>22, <2>1, <2>2 DEF Apart
  <2>4. \A f \in R : fr[f] = 0
    <3> SUFFICES ASSUME NEW f \in R PROVE fr[f] = 0
      OBVIOUS
    <3>1. f \in Frame /\ m.free[f] = 0 /\ f \notin Own(m.pt)
      BY <1>2 DEF Apart
    <3>2. ~\E x \in DOMAIN fs : fs[x] = f
      BY <1>14, <3>1
    <3> QED
      BY <1>16, <2>1, <3>1, <3>2
  <2>5. \A f \in Frame : fr[f] = 1 \/ f \in Own(q) \/ f \in R
    BY <1>2, <1>7, <1>16, <1>22 DEF Apart
  <2> QED
    BY <1>2, <1>16, <2>3, <2>4, <2>5 DEF Apart
<1> QED
  BY <1>5, <1>17, <1>20, <1>21, <1>23 DEF Sound

\* uvmunmap() of trap pages, which keeps their frames.
LEMMA UntrapIs ==
  ASSUME NEW m, NEW R, Sound(m, R), NEW vas, vas \subseteq DOMAIN m.pt.leaf, vas \subseteq Trap,
         NEW w, w = Untrap(m, vas)
  PROVE  /\ Sound(w, R) /\ w.pt.root = m.pt.root /\ w.panic = m.panic /\ w.ok = m.ok
         /\ DOMAIN w.pt.leaf = DOMAIN m.pt.leaf \ vas /\ \A x \in DOMAIN w.pt.leaf : w.pt.leaf[x] = m.pt.leaf[x]
<1>1. m \in [free : [Frame -> Nat], pt : PageTable, ok : BOOLEAN, panic : BOOLEAN]
  BY DEF Sound, Rec
<1>2. m.pt.leaf \in Leaves /\ Distinct(m.pt) /\ Apart(m.free, m.pt, R)
  BY SoundIs
<1>3. PICK l : l = Restrict(m.pt.leaf, DOMAIN m.pt.leaf \ vas)
  OBVIOUS
<1>4. l \in Leaves /\ DOMAIN l = DOMAIN m.pt.leaf \ vas /\ \A x \in DOMAIN l : l[x] = m.pt.leaf[x]
  BY <1>2, <1>3, RestrictLeaf
<1>5. PICK q : q = [m.pt EXCEPT !.leaf = l]
  OBVIOUS
<1>6. ~\E va \in vas : ~Mapped(m.pt, va)
  BY DEF Mapped
<1>7. w = [m EXCEPT !.pt.leaf = Restrict(@, DOMAIN @ \ vas), !.free = @]
  BY <1>6 DEF Untrap, uvmunmap
<1>8. w = [m EXCEPT !.pt = q]
  BY <1>1, <1>3, <1>5, <1>7 DEF PageTable
<1>9. DOMAIN l \ Trap = UserPages(m.pt) /\ \A x \in UserPages(m.pt) : l[x].pa = m.pt.leaf[x].pa
  BY <1>4 DEF UserPages, Trap
<1>10. q \in PageTable /\ q.root = m.pt.root /\ q.leaf = l /\ Distinct(q) /\ Apart(m.free, q, R)
  BY <1>1, <1>2, <1>4, <1>5, <1>9, LeafTrap
<1>11. Rec(w) /\ w.pt = q /\ w.free = m.free /\ w.panic = m.panic /\ w.ok = m.ok
  BY <1>1, <1>8, <1>10 DEF Rec
<1> QED
  BY <1>4, <1>10, <1>11 DEF Sound

LEMMA NoTableIs ==
  NoTable \in PageTable /\ Distinct(NoTable) /\ Own(NoTable) = {} /\ NoTable.root = 0 /\ NoTable.leaf = <<>>
    /\ DOMAIN NoTable.leaf = {}
<1>1. DOMAIN <<>> = {}
  OBVIOUS
<1>2. <<>> \in [{} -> Frame] /\ <<>> \in [{} -> Pte]
  OBVIOUS
<1>3. <<>> \in Dirs /\ <<>> \in Leaves /\ DOMAIN <<>> = {}
  BY <1>1, <1>2 DEF Dirs, Leaves
<1>4. NoTable \in PageTable
  BY <1>3 DEF NoTable, PageTable
<1> QED
  BY <1>3, <1>4 DEF NoTable, Distinct, Own, UserPages

LEMMA FreewalkIs ==
  ASSUME NEW m, NEW R, Sound(m, R), DOMAIN m.pt.leaf = {}, m.pt.root # 0,
         NEW w, w = freewalk(m)
  PROVE  Sound(w, R) /\ w.pt = NoTable /\ w.panic = m.panic /\ w.ok = m.ok
<1>1. m \in [free : [Frame -> Nat], pt : PageTable, ok : BOOLEAN, panic : BOOLEAN]
  BY DEF Sound, Rec
<1>2. /\ m.free \in [Frame -> {0, 1}] /\ R \subseteq Frame
      /\ m.pt.dir \in Dirs /\ m.pt.root \in Frame
      /\ Distinct(m.pt) /\ Apart(m.free, m.pt, R)
  BY SoundIs
<1>3. PICK d : d = m.pt.dir
  OBVIOUS
<1>4. PICK r : r = m.pt.root
  OBVIOUS
<1>5. PICK fr : fr = kfree(m.free, d)
  OBVIOUS
<1>6. PICK fs : fs = [x \in {0} |-> r]
  OBVIOUS
<1>7. PICK f2 : f2 = kfree(fr, fs)
  OBVIOUS
<1>8. w = [m EXCEPT !.pt = NoTable, !.free = f2]
  BY <1>3, <1>4, <1>5, <1>6, <1>7 DEF freewalk
<1>9. Own(m.pt) = {r} \cup Range(d)
  BY <1>3, <1>4 DEF Own, UserPages
<1>10. /\ \A x, y \in DOMAIN d : d[x] = d[y] => x = y
       /\ \A x \in DOMAIN d : d[x] # r /\ d[x] \in Frame
  BY <1>2, <1>3, <1>4, DirsIs DEF Distinct
<1>11. \A x \in DOMAIN d : d[x] \in Frame => m.free[d[x]] = 0
  BY <1>2, <1>9 DEF Apart, Range
<1>12. /\ fr \in [Frame -> {0, 1}]
       /\ \A g \in Frame : fr[g] = 1 <=> m.free[g] = 1 \/ \E x \in DOMAIN d : d[x] = g
  BY <1>2, <1>5, <1>10, <1>11, KfreeIs
<1>13. r \in Frame /\ m.free[r] = 0
  BY <1>2, <1>4, <1>9 DEF Apart
<1>14. fr[r] = 0
  BY <1>10, <1>12, <1>13
<1>15. /\ \A x, y \in DOMAIN fs : fs[x] = fs[y] => x = y
       /\ \A x \in DOMAIN fs : fs[x] = r
       /\ \A g : (\E x \in DOMAIN fs : fs[x] = g) <=> g = r
  BY <1>6, OneFrame
<1>16. \A x \in DOMAIN fs : fs[x] \in Frame => fr[fs[x]] = 0
  BY <1>14, <1>15
<1>17. /\ f2 \in [Frame -> {0, 1}]
       /\ \A g \in Frame : f2[g] = 1 <=> fr[g] = 1 \/ g = r
  BY <1>7, <1>12, <1>15, <1>16, KfreeIs
<1>18. \A g \in Frame : f2[g] = 1 <=> m.free[g] = 1 \/ g \in Own(m.pt)
  BY <1>9, <1>12, <1>17 DEF Range
<1>19. f2 \in [Frame -> Nat]
  BY <1>17
<1>20. Rec(w) /\ w.pt = NoTable /\ w.free = f2 /\ w.panic = m.panic /\ w.ok = m.ok
  BY <1>1, <1>8, <1>19, NoTableIs DEF Rec
<1>21. \A f \in Frame : f2[f] \in {0, 1} /\ m.free[f] \in {0, 1}
  BY <1>2, <1>17
<1>22. Apart(f2, NoTable, R)
  BY <1>2, <1>17, <1>18, <1>21, NoTableIs DEF Apart
<1> QED
  BY <1>20, <1>22, NoTableIs DEF Sound

-----------------------------------------------------------------------------
(***************************************************************************)
(* Sizes in bytes and in pages.                                            *)
(***************************************************************************)

LEMMA DivIs ==
  ASSUME NEW a \in Nat, NEW b \in Nat \ {0}, NEW k \in Nat, k * b <= a, a < k * b + b
  PROVE  a \div b = k
BY Z3

LEMMA DivBounds ==
  ASSUME NEW a \in Nat, NEW b \in Nat \ {0}
  PROVE  a \div b \in Nat /\ (a \div b) * b <= a /\ a < (a \div b) * b + b
BY Z3

LEMMA Page == PGSIZE \in Nat /\ PGSIZE > 0
BY TableAssumption

LEMMA UpIs ==
  ASSUME NEW x \in Nat
  PROVE  /\ Up(x) \in Nat /\ Up(x) * PGSIZE \in Nat
         /\ x <= Up(x) * PGSIZE /\ Up(x) * PGSIZE < x + PGSIZE
<1>1. PICK g \in Nat : g = PGSIZE /\ g > 0
  BY Page
<1>2. PICK a \in Nat : a = x + g - 1
  BY <1>1
<1>3. PICK k \in Nat : k = a \div g /\ k * g <= a /\ a < k * g + g
  BY <1>1, DivBounds
<1>4. Up(x) = k
  BY <1>1, <1>2, <1>3 DEF Up
<1>5. PICK e \in Nat : e = k * g
  OBVIOUS
<1>6. x <= e /\ e < x + g
  BY <1>1, <1>2, <1>3, <1>5
<1> QED
  BY <1>1, <1>4, <1>5, <1>6

\* The only multiple of PGSIZE in the page of x.
LEMMA UpUnique ==
  ASSUME NEW x \in Nat, NEW k \in Nat, x <= k * PGSIZE, k * PGSIZE < x + PGSIZE
  PROVE  Up(x) = k
<1>1. PICK g \in Nat : g = PGSIZE /\ g > 0
  BY Page
<1>2. PICK a \in Nat : a = x + g - 1
  BY <1>1
<1>3. PICK e \in Nat : e = k * g
  BY <1>1
<1>4. e <= a /\ a < e + g
  BY <1>1, <1>2, <1>3
<1>5. a \div g = k
  BY <1>1, <1>3, <1>4, DivIs
<1> QED
  BY <1>1, <1>2, <1>5 DEF Up

LEMMA MulDiv ==
  ASSUME NEW k \in Nat
  PROVE  (k * PGSIZE) \div PGSIZE = k /\ k * PGSIZE \in Nat /\ Up(k * PGSIZE) = k
<1>1. PICK g \in Nat : g = PGSIZE /\ g > 0
  BY Page
<1>2. PICK e \in Nat : e = k * g
  BY <1>1
<1>3. e \div g = k
  BY <1>1, <1>2, DivIs
<1>4. Up(e) = k
  BY <1>1, <1>2, UpUnique
<1> QED
  BY <1>1, <1>2, <1>3, <1>4

LEMMA MulLess ==
  ASSUME NEW j \in Nat, NEW k \in Nat
  PROVE  /\ j < k <=> j * PGSIZE < k * PGSIZE
         /\ j <= k <=> j * PGSIZE <= k * PGSIZE
         /\ (j + 1) * PGSIZE = j * PGSIZE + PGSIZE
         /\ j < k => j * PGSIZE + PGSIZE <= k * PGSIZE
         /\ j * PGSIZE \in Nat
<1>1. PICK g \in Nat : g = PGSIZE /\ g > 0
  BY Page
<1>2. (j + 1) * g = j * g + g /\ j * g \in Nat /\ k * g \in Nat
  BY Z3
<1>3. j < k => j * g + g <= k * g
  <2> SUFFICES ASSUME j < k PROVE j * g + g <= k * g
    OBVIOUS
  <2>1. PICK d \in Nat : k = j + 1 + d
    <3>1. k - j - 1 \in Nat /\ k = j + 1 + (k - j - 1)
      OBVIOUS
    <3> QED
      BY <3>1
  <2>2. k * g = j * g + g + d * g /\ d * g \in Nat
    BY <2>1, Z3
  <2> QED
    BY <1>2, <2>2
<1>4. k <= j => k * g <= j * g
  <2> SUFFICES ASSUME k <= j PROVE k * g <= j * g
    OBVIOUS
  <2>1. PICK d \in Nat : j = k + d
    <3>1. j - k \in Nat /\ j = k + (j - k)
      OBVIOUS
    <3> QED
      BY <3>1
  <2>2. j * g = k * g + d * g /\ d * g \in Nat
    BY <2>1, Z3
  <2> QED
    BY <1>2, <2>2
<1>5. PICK jg \in Nat : jg = j * g
  OBVIOUS
<1>6. PICK kg \in Nat : kg = k * g
  OBVIOUS
<1>7. (j < k => jg + g <= kg) /\ (k <= j => kg <= jg)
  BY <1>3, <1>4, <1>5, <1>6
<1>8. (j < k <=> jg < kg) /\ (j <= k <=> jg <= kg)
  <2>1. CASE j < k
    BY <1>1, <1>7, <2>1
  <2>2. CASE j = k
    BY <1>5, <1>6, <2>2
  <2>3. CASE k < j
    <3>1. PICK d \in Nat : j = k + 1 + d
      <4>1. j - k - 1 \in Nat /\ j = k + 1 + (j - k - 1)
        BY <2>3
      <4> QED
        BY <4>1
    <3>2. j * g = k * g + g + d * g /\ d * g \in Nat
      BY <3>1, Z3
    <3>3. kg + g <= jg
      BY <1>5, <1>6, <3>2
    <3> QED
      BY <1>1, <2>3, <3>3
  <2> QED
    BY <2>1, <2>2, <2>3
<1> QED
  BY <1>1, <1>2, <1>5, <1>6, <1>7, <1>8

\* What is at or above x, and what is below it.
LEMMA UpLess ==
  ASSUME NEW x \in Nat, NEW k \in Nat
  PROVE  (k * PGSIZE < x => k < Up(x)) /\ (x <= k * PGSIZE => Up(x) <= k)
<1>1. Up(x) \in Nat /\ x <= Up(x) * PGSIZE /\ Up(x) * PGSIZE < x + PGSIZE /\ Up(x) * PGSIZE \in Nat
  BY UpIs
<1>2. PICK u \in Nat : u = Up(x)
  BY <1>1
<1>3. k * PGSIZE \in Nat /\ u * PGSIZE \in Nat /\ PGSIZE \in Nat
  BY MulLess, Page
<1>4. k < u <=> k * PGSIZE < u * PGSIZE
  BY MulLess
<1>5. k < u => k * PGSIZE + PGSIZE <= u * PGSIZE
  BY MulLess
<1>6. k * PGSIZE < x => k < u
  BY <1>1, <1>2, <1>3, <1>4
<1>7. x <= k * PGSIZE => ~(k < u)
  BY <1>1, <1>2, <1>3, <1>5
<1> QED
  BY <1>2, <1>6, <1>7

LEMMA UpMono ==
  ASSUME NEW x \in Nat, NEW y \in Nat, x <= y
  PROVE  Up(x) <= Up(y)
<1>1. Up(y) \in Nat /\ y <= Up(y) * PGSIZE /\ Up(y) * PGSIZE \in Nat
  BY UpIs
<1>2. x <= Up(y) * PGSIZE
  BY <1>1
<1> QED
  BY <1>1, <1>2, UpLess

LEMMA UpZero == Up(0) = 0
<1>1. 0 <= 0 * PGSIZE /\ 0 * PGSIZE < 0 + PGSIZE
  BY Page
<1> QED
  BY <1>1, UpUnique

LEMMA RoundIs ==
  ASSUME NEW x \in Nat
  PROVE  PGROUNDUP(x) = Up(x) * PGSIZE /\ PGROUNDUP(x) \div PGSIZE = Up(x)
BY UpIs, MulDiv DEF PGROUNDUP, Up

LEMMA PagesIs ==
  ASSUME NEW x \in Nat, NEW y \in Nat
  PROVE  Pages(x, y) = Up(x) .. Up(y) - 1
BY RoundIs DEF Pages

-----------------------------------------------------------------------------
(***************************************************************************)
(* Tables with n user pages and the trap pages.                            *)
(***************************************************************************)

\* There are fewer frames than pages below the trap pages.
LEMMA BelowTraps ==
  ASSUME NEW pt \in PageTable, Distinct(pt), NEW n \in Nat, NEW f, Spans(pt, n, f)
  PROVE  n < TRAPFRAME /\ UserPages(pt) = 0 .. n - 1 /\ n \notin DOMAIN pt.leaf /\ n \in Nat \ Trap
<1>1. TRAPFRAME \in Nat /\ TRAMPOLINE = TRAPFRAME + 1 /\ TRAPFRAME > 0
  BY TrapNat
<1>2. DOMAIN pt.leaf = (0 .. n - 1) \cup {TRAMPOLINE, TRAPFRAME}
  BY DEF Spans
<1>3. n < TRAPFRAME
  <2> SUFFICES ASSUME n >= TRAPFRAME PROVE FALSE
    BY <1>1
  <2>1. PICK S : S = 0 .. TRAPFRAME - 1
    OBVIOUS
  <2>2. S \subseteq UserPages(pt)
    BY <1>1, <1>2, <2>1 DEF UserPages
  <2>3. PICK g : g = [va \in S |-> pt.leaf[va].pa]
    OBVIOUS
  <2>4. \A va \in S : pt.leaf[va].pa \in Frame
    BY <2>2 DEF Distinct
  <2>5. g \in [S -> Frame] /\ \A a, b \in S : g[a] = g[b] => a = b
    BY <2>2, <2>3, <2>4 DEF Distinct
  <2>6. g \in Injection(S, Frame)
    BY <2>5 DEF Injection, IsInjective
  <2>7. IsFiniteSet(Frame)
    BY MemoryAssumption
  <2>8. Cardinality(S) <= Cardinality(Frame)
    BY <2>6, <2>7, FS_Injection
  <2>9. Cardinality(S) = TRAPFRAME
    <3>1. 0 \in Int /\ TRAPFRAME - 1 \in Int
      BY <1>1
    <3>2. Cardinality(0 .. TRAPFRAME - 1) = IF 0 > TRAPFRAME - 1 THEN 0 ELSE (TRAPFRAME - 1) - 0 + 1
      BY <3>1, FS_Interval
    <3> QED
      BY <1>1, <2>1, <3>2
  <2>10. Cardinality(Frame) < TRAPFRAME
    <3>1. PTES * PTES * PTES \in Int
      BY TableAssumption
    <3>2. TRAPFRAME = PTES * PTES * PTES - 2
      BY <3>1 DEF TRAPFRAME, TRAMPOLINE
    <3> QED
      BY <3>2, MemoryAssumption
  <2>11. Cardinality(Frame) \in Nat
    BY <2>7, FS_CardinalityType
  <2> QED
    BY <1>1, <2>8, <2>9, <2>10, <2>11
<1>4. UserPages(pt) = 0 .. n - 1
  BY <1>1, <1>2, <1>3 DEF UserPages
<1>5. n \notin DOMAIN pt.leaf /\ n \in Nat \ Trap
  BY <1>1, <1>2, <1>3 DEF Trap
<1> QED
  BY <1>3, <1>4, <1>5

\* A table with n user pages and no trap page.
Only(pt, n) == DOMAIN pt.leaf = 0 .. n - 1 /\ UserPages(pt) = 0 .. n - 1

LEMMA UvmfreeIs ==
  ASSUME NEW m, NEW R, Sound(m, R), m.pt.root # 0, NEW size \in Nat,
         Only(m.pt, Up(size)),
         NEW w, w = uvmfree(m, size)
  PROVE  Sound(w, R) /\ w.pt = NoTable /\ w.panic = m.panic /\ w.ok = m.ok
<1>1. Pages(0, size) = 0 .. Up(size) - 1
  BY PagesIs, UpZero
<1>2. PICK vas : vas = Pages(0, size)
  OBVIOUS
<1>3. PICK u : u = Unmap(m, vas)
  OBVIOUS
<1>4. vas \subseteq UserPages(m.pt)
  BY <1>1, <1>2 DEF Only
<1>5. /\ Sound(u, R) /\ u.pt.root = m.pt.root /\ u.panic = m.panic /\ u.ok = m.ok
      /\ DOMAIN u.pt.leaf = DOMAIN m.pt.leaf \ vas /\ \A x \in DOMAIN u.pt.leaf : u.pt.leaf[x] = m.pt.leaf[x]
  BY <1>3, <1>4, UvmunmapIs
<1>6. DOMAIN m.pt.leaf \ vas = {}
  BY <1>1, <1>2 DEF Only
<1>7. DOMAIN u.pt.leaf = {}
  BY <1>5, <1>6
<1>8. w = freewalk(u)
  BY <1>2, <1>3 DEF uvmfree, Unmap
<1> QED
  BY <1>5, <1>7, <1>8, FreewalkIs

LEMMA ProcFreepagetableIs ==
  ASSUME NEW m, NEW R, Sound(m, R), NEW size \in Nat, NEW f, Spans(m.pt, Up(size), f), m.panic = FALSE,
         NEW w, w = proc_freepagetable(m, size)
  PROVE  Sound(w, R) /\ w.pt = NoTable /\ w.panic = FALSE
<1>1. PICK n \in Nat : n = Up(size)
  BY UpIs
<1>2. m.pt \in PageTable /\ Distinct(m.pt) /\ m.pt.leaf \in Leaves
  BY SoundIs
<1>3. UserPages(m.pt) = 0 .. n - 1 /\ n < TRAPFRAME
  BY <1>1, <1>2, BelowTraps
<1>4. DOMAIN m.pt.leaf = (0 .. n - 1) \cup {TRAMPOLINE, TRAPFRAME} /\ m.pt.root # 0
  BY <1>1 DEF Spans
<1>5. TRAPFRAME \in Nat /\ TRAMPOLINE = TRAPFRAME + 1
  BY TrapNat
<1>6. PICK a : a = Untrap(m, {TRAMPOLINE})
  OBVIOUS
<1>7. /\ Sound(a, R) /\ a.pt.root = m.pt.root /\ a.panic = m.panic
      /\ DOMAIN a.pt.leaf = DOMAIN m.pt.leaf \ {TRAMPOLINE} /\ \A x \in DOMAIN a.pt.leaf : a.pt.leaf[x] = m.pt.leaf[x]
  BY <1>4, <1>6, UntrapIs DEF Trap
<1>8. DOMAIN a.pt.leaf = (0 .. n - 1) \cup {TRAPFRAME}
  <2>1. DOMAIN a.pt.leaf = DOMAIN m.pt.leaf \ {TRAMPOLINE}
    BY <1>7
  <2> QED
    BY <1>3, <1>4, <1>5, <2>1
<1>9. PICK b : b = Untrap(a, {TRAPFRAME})
  OBVIOUS
<1>10. /\ Sound(b, R) /\ b.pt.root = a.pt.root /\ b.panic = a.panic
       /\ DOMAIN b.pt.leaf = DOMAIN a.pt.leaf \ {TRAPFRAME} /\ \A x \in DOMAIN b.pt.leaf : b.pt.leaf[x] = a.pt.leaf[x]
  BY <1>7, <1>8, <1>9, UntrapIs DEF Trap
<1>11. DOMAIN b.pt.leaf = 0 .. n - 1
  <2>1. DOMAIN b.pt.leaf = DOMAIN a.pt.leaf \ {TRAPFRAME}
    BY <1>10
  <2> QED
    BY <1>3, <1>5, <1>8, <2>1
<1>12. UserPages(b.pt) = 0 .. n - 1
  BY <1>3, <1>5, <1>11 DEF UserPages
<1>13. PICK c : c = uvmfree(b, size)
  OBVIOUS
<1>14. Sound(c, R) /\ c.pt = NoTable /\ c.panic = b.panic
  <2>1. Only(b.pt, Up(size))
    BY <1>1, <1>11, <1>12 DEF Only
  <2> QED
    BY <1>4, <1>7, <1>10, <1>13, <2>1, UvmfreeIs
<1>15. w = [c EXCEPT !.panic = a.panic \/ b.panic \/ c.panic]
  BY <1>6, <1>9, <1>13 DEF proc_freepagetable, Untrap
<1>16. w = [c EXCEPT !.panic = FALSE]
  BY <1>7, <1>10, <1>14, <1>15
<1>17. c \in [free : [Frame -> Nat], pt : PageTable, ok : BOOLEAN, panic : BOOLEAN]
  BY <1>14 DEF Sound, Rec
<1>18. Rec(w) /\ w.pt = c.pt /\ w.free = c.free /\ w.panic = FALSE
  BY <1>16, <1>17 DEF Rec
<1> QED
  BY <1>14, <1>18 DEF Sound

\* An empty table takes a root.
LEMMA RootTaken ==
  ASSUME NEW k, NEW R, NEW f, Sound(k, R \cup {f}), f \in Frame, f \notin R, k.pt = NoTable,
         NEW q \in PageTable, q.root = f, DOMAIN q.leaf = {}, DOMAIN q.dir = {},
         NEW c, c = [k EXCEPT !.pt = q]
  PROVE  Sound(c, R) /\ c.ok = k.ok /\ c.panic = k.panic /\ c.pt = q
<1>1. k \in [free : [Frame -> Nat], pt : PageTable, ok : BOOLEAN, panic : BOOLEAN]
  BY DEF Sound, Rec
<1>2. Range(q.dir) = {}
  BY DEF Range
<1>3. UserPages(q) = {}
  BY DEF UserPages
<1>4. f # 0
  BY SlotAssumption
<1>5. Own(q) = {f}
  BY <1>2, <1>3, <1>4 DEF Own
<1>6. Distinct(q)
  BY <1>3 DEF Distinct
<1>7. Apart(k.free, NoTable, R \cup {f})
  BY SoundIs
<1>8. Apart(k.free, q, R)
  BY <1>5, <1>7, NoTableIs DEF Apart
<1>9. Rec(c) /\ c.pt = q /\ c.free = k.free /\ c.ok = k.ok /\ c.panic = k.panic
  BY <1>1 DEF Rec
<1> QED
  BY <1>6, <1>8, <1>9 DEF Sound

LEMMA ProcPagetableIs ==
  ASSUME NEW R, Sound(Mem(NoTable), R), NEW f \in Frame, NEW w, w = proc_pagetable(f)
  PROVE  /\ Sound(w, R) /\ w.panic = FALSE
         /\ w.ok => Spans(w.pt, 0, f)
         /\ ~w.ok => w.pt = NoTable
<1>1. PICK m0 : m0 = Mem(NoTable)
  OBVIOUS
<1>2. Sound(m0, R) /\ m0.ok /\ m0.panic = FALSE /\ m0.pt = NoTable
  BY <1>1 DEF Mem
<1>3. PICK k : k = kalloc(m0)
  OBVIOUS
<1>4. PICK r : r = NextFrame(m0)
  OBVIOUS
<1>5. /\ k.pt = NoTable /\ k.panic = FALSE
      /\ ~k.ok => Sound(k, R)
      /\ k.ok => r \in Frame /\ r \notin R /\ Sound(k, R \cup {r})
  BY <1>2, <1>3, <1>4, KallocIs
<1>6. PICK c : c = uvmcreate
  OBVIOUS
<1>7. TRAPFRAME \in Nat /\ TRAMPOLINE = TRAPFRAME + 1
  BY TrapNat
<1>8. CASE ~k.ok
  <2>1. c = k
    BY <1>1, <1>3, <1>6, <1>8 DEF uvmcreate
  <2>2. w = k
    BY <1>6, <1>8, <2>1 DEF proc_pagetable
  <2> QED
    BY <1>5, <1>8, <2>2
<1>9. CASE k.ok
  <2>1. c = [k EXCEPT !.pt.root = r]
    BY <1>1, <1>3, <1>4, <1>6, <1>9 DEF uvmcreate
  <2>2. Sound(c, R) /\ c.ok = k.ok /\ c.panic = k.panic /\ c.pt.root = r /\ DOMAIN c.pt.leaf = {}
    <3>1. PICK q : q = [NoTable EXCEPT !.root = r]
      OBVIOUS
    <3>2. k \in [free : [Frame -> Nat], pt : PageTable, ok : BOOLEAN, panic : BOOLEAN]
      BY <1>5, <1>9 DEF Sound, Rec
    <3>3. c = [k EXCEPT !.pt = q]
      BY <1>5, <2>1, <3>1, <3>2 DEF PageTable
    <3>4. q \in PageTable /\ q.root = r /\ DOMAIN q.leaf = {} /\ DOMAIN q.dir = {}
      BY <1>5, <1>9, <3>1, NoTableIs DEF PageTable, NoTable
    <3>5. Sound(k, R \cup {r}) /\ r \in Frame /\ r \notin R /\ k.pt = NoTable
      BY <1>5, <1>9
    <3>6. Sound(c, R) /\ c.ok = k.ok /\ c.panic = k.panic /\ c.pt = q
      BY <3>3, <3>4, <3>5, RootTaken
    <3> QED
      BY <3>4, <3>6
  <2>3. r # 0
    BY <1>5, <1>9, SlotAssumption
  <2>4. PICK t : t = mappages(c, TRAMPOLINE, 0, {"X"})
    OBVIOUS
  <2>5. /\ Sound(t, R) /\ t.pt.root = r /\ t.panic = FALSE /\ t.ok \in BOOLEAN
        /\ ~t.ok => DOMAIN t.pt.leaf = {}
        /\ t.ok => t.pt.leaf = Put(c.pt.leaf, TRAMPOLINE, [pa |-> 0, perm |-> {"X"}])
    <3>1. PICK perm \in SUBSET {"W", "X", "U"} : perm = {"X"}
      OBVIOUS
    <3>2. PICK va \in Trap : va = TRAMPOLINE
      BY DEF Trap
    <3>3. PICK z \in Frame \cup {0} : z = 0
      OBVIOUS
    <3>4. t = mappages(c, va, z, perm) /\ va \notin DOMAIN c.pt.leaf /\ c.pt.root # 0
      BY <2>2, <2>3, <2>4, <3>1, <3>2, <3>3
    <3>5. /\ Sound(t, R) /\ t.pt.root = c.pt.root /\ t.panic = c.panic /\ t.ok \in BOOLEAN
          /\ ~t.ok => t.pt.leaf = c.pt.leaf
          /\ t.ok => t.pt.leaf = Put(c.pt.leaf, va, [pa |-> z, perm |-> perm])
      BY <2>2, <3>4, MaptrapIs
    <3> QED
      BY <1>5, <2>2, <3>1, <3>2, <3>5, <3>3
  <2>6. CASE ~t.ok
    <3>1. w = uvmfree(t, 0)
      BY <1>6, <1>9, <2>2, <2>4, <2>6 DEF proc_pagetable
    <3>2. 0 .. Up(0) - 1 = {}
      BY UpZero
    <3>3. Only(t.pt, Up(0))
      BY <2>5, <2>6, <3>2 DEF Only, UserPages
    <3>4. Sound(w, R) /\ w.pt = NoTable /\ w.panic = t.panic /\ w.ok = t.ok
      BY <2>3, <2>5, <3>1, <3>3, UvmfreeIs
    <3> QED
      BY <2>5, <2>6, <3>4
  <2>7. CASE t.ok
    <3>1. DOMAIN t.pt.leaf = {TRAMPOLINE} /\ t.pt.leaf[TRAMPOLINE].perm = {"X"}
      BY <2>2, <2>5, <2>7 DEF Put
    <3>2. PICK u : u = mappages(t, TRAPFRAME, f, {"W"})
      OBVIOUS
    <3>3. /\ Sound(u, R) /\ u.pt.root = r /\ u.panic = FALSE /\ u.ok \in BOOLEAN
          /\ ~u.ok => u.pt.leaf = t.pt.leaf
          /\ u.ok => u.pt.leaf = Put(t.pt.leaf, TRAPFRAME, [pa |-> f, perm |-> {"W"}])
      <4>1. PICK perm \in SUBSET {"W", "X", "U"} : perm = {"W"}
        OBVIOUS
      <4>2. PICK va \in Trap : va = TRAPFRAME
        BY DEF Trap
      <4>3. u = mappages(t, va, f, perm) /\ va \notin DOMAIN t.pt.leaf /\ t.pt.root # 0
        BY <1>7, <2>3, <2>5, <3>1, <3>2, <4>1, <4>2
      <4>4. /\ Sound(u, R) /\ u.pt.root = t.pt.root /\ u.panic = t.panic /\ u.ok \in BOOLEAN
            /\ ~u.ok => u.pt.leaf = t.pt.leaf
            /\ u.ok => u.pt.leaf = Put(t.pt.leaf, va, [pa |-> f, perm |-> perm])
        BY <2>5, <4>3, MaptrapIs
      <4> QED
        BY <2>5, <4>1, <4>2, <4>4
    <3>4. CASE u.ok
      <4>1. w = u
        BY <1>6, <1>9, <2>2, <2>4, <2>7, <3>2, <3>4 DEF proc_pagetable
      <4>2. /\ DOMAIN u.pt.leaf = {TRAMPOLINE, TRAPFRAME}
            /\ u.pt.leaf[TRAPFRAME] = [pa |-> f, perm |-> {"W"}]
            /\ u.pt.leaf[TRAMPOLINE] = t.pt.leaf[TRAMPOLINE]
        BY <1>7, <3>1, <3>3, <3>4 DEF Put
      <4>3. (0 .. 0 - 1) \cup {TRAMPOLINE, TRAPFRAME} = {TRAMPOLINE, TRAPFRAME}
        OBVIOUS
      <4>4. "U" \notin {"W"} /\ "U" \notin {"X"}
        OBVIOUS
      <4>5. Spans(u.pt, 0, f)
        BY <2>3, <3>1, <3>3, <4>2, <4>3, <4>4 DEF Spans
      <4> QED
        BY <3>3, <3>4, <4>1, <4>5
    <3>5. CASE ~u.ok
      <4>1. PICK b : b = Untrap(u, {TRAMPOLINE})
        OBVIOUS
      <4>2. w = uvmfree(b, 0)
        BY <1>6, <1>9, <2>2, <2>4, <2>7, <3>2, <3>5, <4>1 DEF proc_pagetable, Untrap
      <4>3. /\ Sound(b, R) /\ b.pt.root = u.pt.root /\ b.panic = u.panic /\ b.ok = u.ok
            /\ DOMAIN b.pt.leaf = DOMAIN u.pt.leaf \ {TRAMPOLINE}
        BY <3>1, <3>3, <3>5, <4>1, UntrapIs DEF Trap
      <4>4. DOMAIN b.pt.leaf = {}
        BY <3>1, <3>3, <3>5, <4>3
      <4>5. 0 .. Up(0) - 1 = {}
        BY UpZero
      <4>6. Only(b.pt, Up(0))
        BY <4>4, <4>5 DEF Only, UserPages
      <4>7. Sound(w, R) /\ w.pt = NoTable /\ w.panic = b.panic /\ w.ok = b.ok
        BY <2>3, <3>3, <4>2, <4>3, <4>6, UvmfreeIs
      <4> QED
        BY <3>3, <3>5, <4>3, <4>7
    <3> QED
      BY <3>3, <3>4, <3>5
  <2> QED
    BY <2>5, <2>6, <2>7
<1>10. k.ok \in BOOLEAN
  <2>1. k.ok => Sound(k, R \cup {r})
    BY <1>5
  <2>2. ~k.ok => Sound(k, R)
    BY <1>5
  <2> QED
    BY <2>1, <2>2, SoundIs
<1> QED
  BY <1>8, <1>9

-----------------------------------------------------------------------------
(***************************************************************************)
(* A step that changes one page table keeps every frame in one place.      *)
(***************************************************************************)

LEMMA KeepSound ==
  ASSUME NEW fr, NEW t, NEW g, Keep(fr, t, g), NEW i \in Table,
         NEW m, m = [free |-> fr, pt |-> t[i], ok |-> TRUE, panic |-> FALSE]
  PROVE  Sound(m, Others(t, g, i))
<1>1. fr \in [Frame -> {0, 1}] /\ t[i] \in PageTable /\ Distinct(t[i]) /\ Apart(fr, t[i], Others(t, g, i))
  BY DEF Keep
<1>2. fr \in [Frame -> Nat]
  BY <1>1
<1>3. Rec(m)
  BY <1>1, <1>2 DEF Rec
<1> QED
  BY <1>1, <1>3 DEF Sound

LEMMA KeepStep ==
  ASSUME NEW fr, NEW t, NEW g, Keep(fr, t, g), NEW i \in Table,
         NEW h \in [ProcSlot -> Frame \cup {0}],
         \A p \in ProcSlot : h[p] \notin kvmmake,
         \A p, q \in ProcSlot : h[p] = h[q] /\ h[p] # 0 => p = q,
         \A j \in Table : j # i => \A f \in Own(t[j]) : f \notin Traps(h),
         NEW m, Sound(m, Others(t, h, i)),
         NEW t2, t2 = [t EXCEPT ![i] = m.pt]
  PROVE  Keep(m.free, t2, h)
<1>1. /\ m.free \in [Frame -> {0, 1}] /\ m.pt \in PageTable /\ Distinct(m.pt)
      /\ Apart(m.free, m.pt, Others(t, h, i))
  BY SoundIs
<1>2. t \in [Table -> PageTable]
  BY DEF Keep
<1>3. t2 \in [Table -> PageTable] /\ t2[i] = m.pt /\ \A j \in Table : j # i => t2[j] = t[j]
  BY <1>1, <1>2
<1>4. ASSUME NEW j \in Table
      PROVE  Distinct(t2[j]) /\ Apart(m.free, t2[j], Others(t2, h, j))
  <2>1. CASE j = i
    <3>1. Others(t2, h, i) = Others(t, h, i)
      BY <1>3 DEF Others
    <3> QED
      BY <1>1, <1>3, <2>1, <3>1
  <2>2. CASE j # i
    <3>1. t2[j] = t[j] /\ Distinct(t[j]) /\ Apart(fr, t[j], Others(t, g, j)) /\ t[j] \in PageTable
      BY <1>2, <1>3, <2>2 DEF Keep
    <3>2. Own(t[j]) \subseteq Frame
      BY <3>1, OwnFrames
    <3>3. \A f : f \in Others(t, h, i) <=> \/ f \in kvmmake \/ f \in Traps(h)
                                            \/ \E k \in Table : k # i /\ f \in Own(t[k])
      BY DEF Others
    <3>4. \A f : f \in Others(t2, h, j) <=> \/ f \in kvmmake \/ f \in Traps(h) \/ f \in Own(m.pt)
                                             \/ \E k \in Table : k # i /\ k # j /\ f \in Own(t[k])
      BY <1>3, <2>2 DEF Others
    <3>5. \A f : f \in Others(t, g, j) <=> \/ f \in kvmmake \/ f \in Traps(g)
                                            \/ \E k \in Table : k # j /\ f \in Own(t[k])
      BY DEF Others
    <3>6. \A f \in Own(t[j]) : m.free[f] = 0 /\ f \notin Others(t2, h, j)
      <4> SUFFICES ASSUME NEW f \in Own(t[j]) PROVE m.free[f] = 0 /\ f \notin Others(t2, h, j)
        OBVIOUS
      <4>1. f \in Others(t, h, i)
        BY <2>2, <3>3
      <4>2. m.free[f] = 0 /\ f \notin Own(m.pt)
        BY <1>1, <4>1 DEF Apart
      <4>3. f \notin Others(t, g, j)
        BY <3>1 DEF Apart
      <4>4. f \notin Traps(h)
        BY <2>2
      <4> QED
        BY <3>4, <3>5, <4>2, <4>3, <4>4
    <3>7. ASSUME NEW f, f \in Others(t2, h, j)
          PROVE  f \in Frame /\ m.free[f] = 0
      <4>1. f \in Others(t, h, i) \/ f \in Own(m.pt)
        BY <3>3, <3>4, <3>7
      <4>2. Own(m.pt) \subseteq Frame
        BY <1>1, OwnFrames
      <4> QED
        BY <1>1, <4>1, <4>2 DEF Apart
    <3>8. \A f \in Frame : m.free[f] = 1 \/ f \in Own(t[j]) \/ f \in Others(t2, h, j)
      <4> SUFFICES ASSUME NEW f \in Frame PROVE m.free[f] = 1 \/ f \in Own(t[j]) \/ f \in Others(t2, h, j)
        OBVIOUS
      <4>1. m.free[f] = 1 \/ f \in Own(m.pt) \/ f \in Others(t, h, i)
        BY <1>1 DEF Apart
      <4> QED
        BY <3>3, <3>4, <4>1
    <3>9. Apart(m.free, t[j], Others(t2, h, j))
      BY <1>1, <3>6, <3>7, <3>8 DEF Apart
    <3> QED
      BY <3>1, <3>9
  <2> QED
    BY <2>1, <2>2
<1> QED
  BY <1>1, <1>3, <1>4 DEF Keep

\* The same when no trapframe changes.
LEMMA KeepTable ==
  ASSUME NEW fr, NEW t, NEW g, Keep(fr, t, g), NEW i \in Table,
         NEW m, Sound(m, Others(t, g, i)),
         NEW t2, t2 = [t EXCEPT ![i] = m.pt]
  PROVE  Keep(m.free, t2, g)
<1>1. ASSUME NEW j \in Table, NEW f \in Own(t[j])
      PROVE  f \notin Traps(g)
  <2>1. Apart(fr, t[j], Others(t, g, j))
    BY DEF Keep
  <2>2. f \notin Others(t, g, j)
    BY <2>1 DEF Apart
  <2> QED
    BY <2>2 DEF Others
<1>2. /\ g \in [ProcSlot -> Frame \cup {0}] /\ \A p \in ProcSlot : g[p] \notin kvmmake
      /\ \A p, q \in ProcSlot : g[p] = g[q] /\ g[p] # 0 => p = q
  BY DEF Keep
<1> QED
  BY <1>1, <1>2, KeepStep

\* A table moves to an empty place.
LEMMA KeepMove ==
  ASSUME NEW fr, NEW t, NEW g, Keep(fr, t, g), NEW i \in Table, NEW j \in Table, i # j, t[i] = NoTable,
         NEW t2 \in [Table -> PageTable], t2[i] = t[j], t2[j] = NoTable,
         \A k \in Table : k # i /\ k # j => t2[k] = t[k]
  PROVE  Keep(fr, t2, g)
<1>1. Own(t[i]) = {} /\ Own(t2[j]) = {} /\ Own(t2[i]) = Own(t[j])
  BY NoTableIs
<1>2. Others(t2, g, i) = Others(t, g, j)
  <2>1. ASSUME NEW f
        PROVE  (\E k \in Table \ {i} : f \in Own(t2[k])) <=> (\E k \in Table \ {j} : f \in Own(t[k]))
    BY <1>1
  <2> QED
    BY <2>1 DEF Others
<1>3. Others(t2, g, j) = Others(t, g, i)
  <2>1. ASSUME NEW f
        PROVE  (\E k \in Table \ {j} : f \in Own(t2[k])) <=> (\E k \in Table \ {i} : f \in Own(t[k]))
    BY <1>1
  <2> QED
    BY <2>1 DEF Others
<1>4. ASSUME NEW n \in Table, n # i, n # j
      PROVE  Others(t2, g, n) = Others(t, g, n)
  <2>1. ASSUME NEW f
        PROVE  (\E k \in Table \ {n} : f \in Own(t2[k])) <=> (\E k \in Table \ {n} : f \in Own(t[k]))
    BY <1>1, <1>4
  <2> QED
    BY <2>1 DEF Others
<1>5. ASSUME NEW n \in Table
      PROVE  Distinct(t2[n]) /\ Apart(fr, t2[n], Others(t2, g, n))
  <2>1. \A k \in Table : Distinct(t[k]) /\ Apart(fr, t[k], Others(t, g, k))
    BY DEF Keep
  <2>2. CASE n = i
    BY <1>2, <2>1, <2>2
  <2>3. CASE n = j
    BY <1>3, <2>1, <2>3
  <2>4. CASE n # i /\ n # j
    BY <1>4, <2>1, <2>4
  <2> QED
    BY <2>2, <2>3, <2>4
<1> QED
  BY <1>5 DEF Keep

\* The pages from k on go.
LEMMA SpansCut ==
  ASSUME NEW pt \in PageTable, Distinct(pt), NEW n \in Nat, NEW k \in Nat, k <= n, NEW f, Spans(pt, n, f),
         NEW q, q.root = pt.root, DOMAIN q.leaf = DOMAIN pt.leaf \ (k .. n - 1),
         \A x \in DOMAIN q.leaf : q.leaf[x] = pt.leaf[x]
  PROVE  Spans(q, k, f) /\ \A va \in 0 .. k - 1 : q.leaf[va] = pt.leaf[va]
<1>1. n < TRAPFRAME /\ TRAPFRAME \in Nat /\ TRAMPOLINE = TRAPFRAME + 1
  BY BelowTraps, TrapNat
<1>2. DOMAIN pt.leaf = (0 .. n - 1) \cup {TRAMPOLINE, TRAPFRAME}
  BY DEF Spans
<1>3. DOMAIN q.leaf = (0 .. k - 1) \cup {TRAMPOLINE, TRAPFRAME}
  <2>1. \A x : x \in DOMAIN q.leaf <=> x \in (0 .. k - 1) \cup {TRAMPOLINE, TRAPFRAME}
    BY <1>1, <1>2
  <2> QED
    BY <1>1, <1>2
<1>4. q.leaf[TRAMPOLINE] = pt.leaf[TRAMPOLINE] /\ q.leaf[TRAPFRAME] = pt.leaf[TRAPFRAME]
  BY <1>3
<1>5. \A va \in 0 .. k - 1 : q.leaf[va] = pt.leaf[va]
  BY <1>3
<1> QED
  BY <1>3, <1>4, <1>5 DEF Spans

\* Page n is mapped.
LEMMA SpansAdd ==
  ASSUME NEW pt \in PageTable, Distinct(pt), NEW n \in Nat, NEW f, Spans(pt, n, f),
         NEW q, q.root = pt.root, NEW e, DOMAIN q.leaf = DOMAIN pt.leaf \cup {n}, q.leaf[n] = e,
         \A x \in DOMAIN pt.leaf : x # n => q.leaf[x] = pt.leaf[x]
  PROVE  Spans(q, n + 1, f) /\ q.leaf[n] = e /\ \A va \in 0 .. n - 1 : q.leaf[va] = pt.leaf[va]
<1>1. n < TRAPFRAME /\ TRAPFRAME \in Nat /\ TRAMPOLINE = TRAPFRAME + 1
  BY BelowTraps, TrapNat
<1>2. DOMAIN pt.leaf = (0 .. n - 1) \cup {TRAMPOLINE, TRAPFRAME}
  BY DEF Spans
<1>3. DOMAIN q.leaf = (0 .. (n + 1) - 1) \cup {TRAMPOLINE, TRAPFRAME}
  BY <1>2
<1>4. q.leaf[TRAMPOLINE] = pt.leaf[TRAMPOLINE] /\ q.leaf[TRAPFRAME] = pt.leaf[TRAPFRAME]
  BY <1>1, <1>2
<1>5. \A va \in 0 .. n - 1 : q.leaf[va] = pt.leaf[va]
  BY <1>2
<1> QED
  BY <1>3, <1>4, <1>5 DEF Spans

LEMMA GuardedSame ==
  ASSUME NEW pt, NEW q, NEW n \in Nat, NEW k \in Nat, k <= n, \A va \in 0 .. k - 1 : q.leaf[va] = pt.leaf[va]
  PROVE  (Guarded(pt, n) => Guarded(q, k)) /\ (Usable(pt, n) => Usable(q, k))
<1>1. \A va \in 0 .. k - 1 : va \in 0 .. n - 1
  OBVIOUS
<1>2. Guarded(pt, n) => Guarded(q, k)
  BY <1>1 DEF Guarded
<1>3. Usable(pt, n) => Usable(q, k)
  BY <1>1 DEF Usable
<1> QED
  BY <1>2, <1>3

LEMMA GuardedAdd ==
  ASSUME NEW pt, NEW q, NEW n \in Nat, \A va \in 0 .. n - 1 : q.leaf[va] = pt.leaf[va], "U" \in q.leaf[n].perm
  PROVE  (Guarded(pt, n) => Guarded(q, n + 1)) /\ (Usable(pt, n) => Usable(q, n + 1))
<1>1. \A va \in 0 .. (n + 1) - 1 : va = n \/ va \in 0 .. n - 1
  OBVIOUS
<1>2. Guarded(pt, n) => Guarded(q, n + 1)
  BY <1>1 DEF Guarded
<1>3. Usable(pt, n) => Usable(q, n + 1)
  BY <1>1 DEF Usable
<1> QED
  BY <1>2, <1>3

LEMMA UsableGuarded ==
  ASSUME NEW pt, NEW n, Usable(pt, n)
  PROVE  Guarded(pt, n)
BY DEF Usable, Guarded

LEMMA UvmdeallocIs ==
  ASSUME NEW m, NEW R, Sound(m, R), NEW old \in Nat, NEW new \in Nat, new < old, NEW f, Spans(m.pt, Up(old), f),
         NEW w, w = uvmdealloc(m, old, new)
  PROVE  /\ Sound(w, R) /\ w.panic = m.panic /\ w.ok = m.ok /\ Spans(w.pt, Up(new), f)
         /\ Up(new) <= Up(old) /\ \A va \in 0 .. Up(new) - 1 : w.pt.leaf[va] = m.pt.leaf[va]
<1>1. PICK n \in Nat : n = Up(old)
  BY UpIs
<1>2. PICK k \in Nat : k = Up(new)
  BY UpIs
<1>3. k <= n
  BY <1>1, <1>2, UpMono
<1>4. PICK vas : vas = k .. n - 1
  OBVIOUS
<1>5. w = Unmap(m, vas)
  <2>1. Pages(new, old) = vas
    BY <1>1, <1>2, <1>4, PagesIs
  <2>2. ~(new >= old)
    OBVIOUS
  <2> QED
    BY <2>1, <2>2 DEF uvmdealloc, Unmap
<1>6. m.pt \in PageTable /\ Distinct(m.pt)
  BY SoundIs
<1>7. UserPages(m.pt) = 0 .. n - 1
  BY <1>1, <1>6, BelowTraps
<1>8. vas \subseteq UserPages(m.pt)
  BY <1>4, <1>7
<1>9. m.pt.root # 0
  BY DEF Spans
<1>10. /\ Sound(w, R) /\ w.pt.root = m.pt.root /\ w.panic = m.panic /\ w.ok = m.ok
       /\ DOMAIN w.pt.leaf = DOMAIN m.pt.leaf \ vas /\ \A x \in DOMAIN w.pt.leaf : w.pt.leaf[x] = m.pt.leaf[x]
  BY <1>5, <1>8, <1>9, UvmunmapIs
<1>11. Spans(w.pt, k, f) /\ \A va \in 0 .. k - 1 : w.pt.leaf[va] = m.pt.leaf[va]
  BY <1>1, <1>3, <1>4, <1>6, <1>10, SpansCut
<1> QED
  BY <1>1, <1>2, <1>3, <1>10, <1>11

-----------------------------------------------------------------------------
(***************************************************************************)
(* Steps of one process, and of a process and its child.                   *)
(***************************************************************************)

LEMMA CallIs ==
  ASSUME NEW c \in Call
  PROVE  /\ c.op \in {"none", "fork", "sbrk", "exec"}
         /\ c.op = "none" <=> c = NoCall
         /\ c.op = "fork" => c \in ForkCall
         /\ c.op = "sbrk" => c \in SbrkCall
         /\ c.op = "exec" => c \in ExecCall
BY DEF Call, NoCall, ForkCall, SbrkCall, ExecCall

\* Nothing of slot q changes.
Same(q) ==
  /\ st'[q] = st[q] /\ tf'[q] = tf[q] /\ sz'[q] = sz[q] /\ syscall'[q] = syscall[q]
  /\ tab'[<<q, "cur">>] = tab[<<q, "cur">>] /\ tab'[<<q, "new">>] = tab[<<q, "new">>]

LEMMA OneSlot ==
  ASSUME MInv, NEW p \in ProcSlot, st[p] # "USED", Types', Owned',
         \A q \in ProcSlot : q # p => Same(q),
         SlotOK(st'[p], tf'[p], sz'[p], tab'[<<p, "cur">>], tab'[<<p, "new">>], syscall'[p]),
         syscall'[p].op # "fork"
  PROVE  MInv'
<1>1. Slots'
  BY DEF MInv, Slots, Same
<1>2. Forks'
  <2> SUFFICES ASSUME NEW q \in ProcSlot, syscall'[q].op = "fork"
               PROVE  /\ ChildOK(syscall'[q], sz'[q], tab'[<<q, "cur">>], st'[syscall'[q].np], tf'[syscall'[q].np],
                                 tab'[<<syscall'[q].np, "cur">>])
                      /\ \A r \in ProcSlot : syscall'[r].op = "fork" /\ syscall'[r].np = syscall'[q].np => r = q
    BY DEF Forks
  <2>1. q # p /\ Same(q) /\ syscall[q].op = "fork" /\ syscall[q] \in Call
    BY DEF Same, MInv, Types
  <2>2. PICK np \in ProcSlot : np = syscall[q].np
    BY <2>1, CallIs DEF ForkCall
  <2>3. /\ ChildOK(syscall[q], sz[q], tab[<<q, "cur">>], st[np], tf[np], tab[<<np, "cur">>])
        /\ \A r \in ProcSlot : syscall[r].op = "fork" /\ syscall[r].np = np => r = q
    BY <2>1, <2>2 DEF MInv, Forks
  <2>4. np # p
    BY <2>3 DEF ChildOK
  <2>5. Same(np)
    BY <2>4
  <2>6. \A r \in ProcSlot : syscall'[r].op = "fork" => r # p /\ syscall'[r] = syscall[r]
    BY DEF Same
  <2> QED
    BY <2>1, <2>2, <2>3, <2>5, <2>6 DEF Same
<1> QED
  BY <1>1, <1>2 DEF MInv

LEMMA TwoSlots ==
  ASSUME MInv, NEW p \in ProcSlot, NEW np \in ProcSlot, p # np, st[p] = "RUNNABLE", Types', Owned',
         \A q \in ProcSlot : q # p /\ q # np => Same(q),
         \A q \in ProcSlot : q # p /\ syscall[q].op = "fork" => syscall[q].np # np,
         SlotOK(st'[p], tf'[p], sz'[p], tab'[<<p, "cur">>], tab'[<<p, "new">>], syscall'[p]),
         SlotOK(st'[np], tf'[np], sz'[np], tab'[<<np, "cur">>], tab'[<<np, "new">>], syscall'[np]),
         syscall'[np].op # "fork",
         syscall'[p].op = "fork" =>
           /\ syscall'[p].np = np
           /\ ChildOK(syscall'[p], sz'[p], tab'[<<p, "cur">>], st'[np], tf'[np], tab'[<<np, "cur">>])
  PROVE  MInv'
<1>1. Slots'
  BY DEF MInv, Slots, Same
<1>2. Forks'
  <2> SUFFICES ASSUME NEW q \in ProcSlot, syscall'[q].op = "fork"
               PROVE  /\ ChildOK(syscall'[q], sz'[q], tab'[<<q, "cur">>], st'[syscall'[q].np], tf'[syscall'[q].np],
                                 tab'[<<syscall'[q].np, "cur">>])
                      /\ \A r \in ProcSlot : syscall'[r].op = "fork" /\ syscall'[r].np = syscall'[q].np => r = q
    BY DEF Forks
  <2>1. \A r \in ProcSlot : syscall'[r].op = "fork" /\ r # p => syscall'[r] = syscall[r] /\ syscall[r].op = "fork"
    BY DEF Same
  <2>2. CASE q = p
    <3>1. \A r \in ProcSlot : syscall'[r].op = "fork" /\ syscall'[r].np = np => r = p
      BY <2>1
    <3> QED
      BY <2>2, <3>1
  <2>3. CASE q # p
    <3>1. q # np /\ Same(q) /\ syscall[q].op = "fork" /\ syscall[q] \in Call /\ syscall'[q] = syscall[q]
      BY <2>1, <2>3 DEF MInv, Types
    <3>2. PICK k \in ProcSlot : k = syscall[q].np
      BY <3>1, CallIs DEF ForkCall
    <3>3. /\ ChildOK(syscall[q], sz[q], tab[<<q, "cur">>], st[k], tf[k], tab[<<k, "cur">>])
          /\ \A r \in ProcSlot : syscall[r].op = "fork" /\ syscall[r].np = k => r = q
      BY <3>1, <3>2 DEF MInv, Forks
    <3>4. k # p /\ k # np
      BY <2>3, <3>1, <3>2, <3>3 DEF ChildOK
    <3>5. Same(k)
      BY <3>4
    <3>6. \A r \in ProcSlot : syscall'[r].op = "fork" /\ syscall'[r].np = k => r = q
      BY <2>1, <3>3, <3>4
    <3> QED
      BY <3>1, <3>2, <3>3, <3>5, <3>6 DEF Same
  <2> QED
    BY <2>2, <2>3
<1> QED
  BY <1>1, <1>2 DEF MInv

LEMMA MemSound ==
  ASSUME Owned, NEW i \in Table
  PROVE  Sound(Mem(tab[i]), Others(tab, tf, i))
BY KeepSound DEF Owned, Mem

LEMMA BecomesOwned ==
  ASSUME Owned, NEW i \in Table, NEW m, Sound(m, Others(tab, tf, i)), Becomes(m, i), tf' = tf
  PROVE  /\ Owned' /\ tab'[i] = m.pt /\ m.pt \in PageTable /\ Distinct(m.pt)
         /\ \A j \in Table : j # i => tab'[j] = tab[j]
         /\ panic' = (panic \/ m.panic)
<1>1. freelist' = m.free /\ tab' = [tab EXCEPT ![i] = m.pt] /\ panic' = (panic \/ m.panic)
  BY DEF Becomes
<1>2. tab \in [Table -> PageTable]
  BY DEF Owned, Keep
<1>3. Keep(freelist', tab', tf)
  BY <1>1, KeepTable DEF Owned
<1>4. Owned'
  BY <1>3 DEF Owned
<1> QED
  BY <1>1, <1>2, <1>4, SoundIs

-----------------------------------------------------------------------------
(***************************************************************************)
(* Every step keeps the invariant.                                         *)
(***************************************************************************)

LEMMA Has ==
  ASSUME MInv, NEW p \in ProcSlot
  PROVE  /\ SlotOK(st[p], tf[p], sz[p], tab[<<p, "cur">>], tab[<<p, "new">>], syscall[p])
         /\ syscall[p] \in Call /\ sz[p] \in Nat /\ tf[p] \in Frame \cup {0}
         /\ st[p] \in {"UNUSED", "USED", "RUNNABLE", "ZOMBIE"}
         /\ <<p, "cur">> \in Table /\ <<p, "new">> \in Table
         /\ tab[<<p, "cur">>] \in PageTable /\ Distinct(tab[<<p, "cur">>])
         /\ tab[<<p, "new">>] \in PageTable /\ Distinct(tab[<<p, "new">>])
<1>1. <<p, "cur">> \in Table /\ <<p, "new">> \in Table
  BY DEF Table
<1>2. SlotOK(st[p], tf[p], sz[p], tab[<<p, "cur">>], tab[<<p, "new">>], syscall[p])
  BY DEF MInv, Slots
<1> QED
  BY <1>1, <1>2 DEF MInv, Types, Owned, Keep

LEMMA SomeCall ==
  ASSUME MInv, NEW p \in ProcSlot, syscall[p].op # "none"
  PROVE  st[p] = "RUNNABLE"
<1>1. SlotOK(st[p], tf[p], sz[p], tab[<<p, "cur">>], tab[<<p, "new">>], syscall[p])
  BY Has
<1>2. syscall[p] # NoCall
  BY DEF NoCall
<1> QED
  BY <1>1, <1>2 DEF SlotOK

LEMMA ExitStep ==
  ASSUME MInv, NEW p \in ProcSlot, exit(p)
  PROVE  MInv'
<1>1. st[p] = "RUNNABLE" /\ syscall[p] = NoCall /\ st' = [st EXCEPT ![p] = "ZOMBIE"]
      /\ UNCHANGED <<freelist, tab, tf, sz, syscall, panic>>
  BY DEF exit
<1>2. Types' /\ Owned'
  BY <1>1 DEF MInv, Types, Owned
<1>3. \A q \in ProcSlot : q # p => Same(q)
  BY <1>1 DEF Same, MInv, Types
<1>4. SlotOK(st'[p], tf'[p], sz'[p], tab'[<<p, "cur">>], tab'[<<p, "new">>], syscall'[p])
  <2>1. SlotOK("RUNNABLE", tf[p], sz[p], tab[<<p, "cur">>], tab[<<p, "new">>], NoCall)
    BY <1>1, Has
  <2>2. SlotOK("ZOMBIE", tf[p], sz[p], tab[<<p, "cur">>], tab[<<p, "new">>], NoCall)
    BY <2>1 DEF SlotOK
  <2> QED
    BY <1>1, <2>2 DEF MInv, Types
<1>5. syscall'[p].op # "fork"
  BY <1>1 DEF NoCall
<1> QED
  BY <1>1, <1>2, <1>3, <1>4, <1>5, OneSlot

\* A step in which only the call of process p changes.
LEMMA OnlyCall ==
  ASSUME MInv, NEW p \in ProcSlot, st[p] = "RUNNABLE", NEW c \in Call,
         syscall' = [syscall EXCEPT ![p] = c], UNCHANGED <<freelist, tab, tf, st, sz>>, panic' = FALSE,
         c.op # "fork",
         SlotOK("RUNNABLE", tf[p], sz[p], tab[<<p, "cur">>], tab[<<p, "new">>], c)
  PROVE  MInv'
<1>1. Types' /\ Owned'
  BY DEF MInv, Types, Owned
<1>2. syscall'[p] = c
  BY DEF MInv, Types
<1>3. \A q \in ProcSlot : q # p => Same(q)
  BY DEF Same, MInv, Types
<1> QED
  BY <1>1, <1>2, <1>3, OneSlot

LEMMA SbrkDown ==
  ASSUME MInv, NEW p \in ProcSlot, NEW n \in Delta, sbrk(p, n), n < 0
  PROVE  MInv'
<1>1. PICK new \in Nat : new = (sz[p] + n) % UINT
  <2>1. sz[p] \in Nat
    BY Has
  <2>2. n \in Int
    BY DeltaAssumption
  <2>3. UINT \in Nat \ {0}
    BY TableAssumption
  <2>4. (sz[p] + n) % UINT \in Nat
    BY <2>1, <2>2, <2>3
  <2> QED
    BY <2>4
<1>2. PICK i \in Table : i = <<p, "cur">>
  BY Has
<1>3. PICK m : m = Mem(tab[i])
  OBVIOUS
<1>4. Sound(m, Others(tab, tf, i)) /\ m.panic = FALSE /\ m.pt = tab[i]
  BY <1>3, MemSound DEF MInv, Mem
<1>5. PICK w : w = uvmdealloc(m, sz[p], new)
  OBVIOUS
<1>6. /\ st[p] = "RUNNABLE" /\ syscall[p] = NoCall /\ Becomes(w, i)
      /\ sz' = [sz EXCEPT ![p] = IF new < @ THEN new ELSE @]
      /\ UNCHANGED <<syscall, tf, st>>
  BY <1>1, <1>2, <1>3, <1>5 DEF sbrk, MayCall
<1>7. sz[p] \in Nat
  BY Has
<1>8. SlotOK("RUNNABLE", tf[p], sz[p], tab[i], tab[<<p, "new">>], NoCall)
  BY <1>2, <1>6, Has
<1>9. tf[p] # 0 /\ Spans(tab[i], Up(sz[p]), tf[p]) /\ Guarded(tab[i], Up(sz[p])) /\ tab[<<p, "new">>] = NoTable
  BY <1>8 DEF SlotOK, Top, NoCall
<1>10. PICK size \in Nat : size = IF new < sz[p] THEN new ELSE sz[p]
  BY <1>7
<1>11. Sound(w, Others(tab, tf, i)) /\ w.panic = FALSE /\ Spans(w.pt, Up(size), tf[p]) /\ Guarded(w.pt, Up(size))
  <2>1. CASE new < sz[p]
    <3>1. /\ Sound(w, Others(tab, tf, i)) /\ w.panic = FALSE /\ Spans(w.pt, Up(new), tf[p])
          /\ Up(new) <= Up(sz[p]) /\ \A va \in 0 .. Up(new) - 1 : w.pt.leaf[va] = m.pt.leaf[va]
      BY <1>4, <1>5, <1>7, <1>9, <2>1, UvmdeallocIs
    <3>2. Guarded(w.pt, Up(new))
      <4>1. PICK k \in Nat : k = Up(new)
        BY UpIs
      <4>2. PICK o \in Nat : o = Up(sz[p])
        BY <1>7, UpIs
      <4>3. k <= o /\ Guarded(m.pt, o) /\ \A va \in 0 .. k - 1 : w.pt.leaf[va] = m.pt.leaf[va]
        BY <1>4, <1>9, <3>1, <4>1, <4>2
      <4> QED
        BY <4>1, <4>3, GuardedSame
    <3> QED
      BY <1>10, <2>1, <3>1, <3>2
  <2>2. CASE ~(new < sz[p])
    <3>1. new >= sz[p]
      BY <1>7, <2>2
    <3>2. w = m
      BY <1>5, <3>1 DEF uvmdealloc
    <3> QED
      BY <1>4, <1>9, <1>10, <2>2, <3>2
  <2> QED
    BY <2>1, <2>2
<1>12. /\ Owned' /\ tab'[i] = w.pt
       /\ \A j \in Table : j # i => tab'[j] = tab[j]
       /\ panic' = (panic \/ w.panic)
  BY <1>6, <1>11, BecomesOwned DEF MInv
<1>13. sz' = [sz EXCEPT ![p] = size]
  BY <1>6, <1>10 DEF MInv, Types
<1>14. Types'
  BY <1>6, <1>11, <1>12, <1>13 DEF MInv, Types
<1>15. \A q \in ProcSlot : q # p => Same(q)
  BY <1>2, <1>6, <1>12, <1>13 DEF Same, MInv, Types, Table
<1>16. /\ st'[p] = "RUNNABLE" /\ tf'[p] = tf[p] /\ sz'[p] = size /\ tab'[<<p, "cur">>] = w.pt
       /\ tab'[<<p, "new">>] = NoTable /\ syscall'[p] = NoCall
  BY <1>2, <1>6, <1>9, <1>12, <1>13 DEF MInv, Types, Table
<1>17. SlotOK("RUNNABLE", tf[p], size, w.pt, NoTable, NoCall)
  BY <1>9, <1>11 DEF SlotOK, Top, NoCall
<1>18. syscall'[p].op # "fork"
  BY <1>16 DEF NoCall
<1> QED
  BY <1>6, <1>12, <1>14, <1>15, <1>16, <1>17, <1>18, OneSlot

LEMMA SbrkUp ==
  ASSUME MInv, NEW p \in ProcSlot, NEW n \in Delta, sbrk(p, n), ~(n < 0)
  PROVE  MInv'
<1>1. PICK new \in Nat : new = (sz[p] + n) % UINT
  <2>1. sz[p] \in Nat
    BY Has
  <2>2. n \in Int
    BY DeltaAssumption
  <2>3. UINT \in Nat \ {0}
    BY TableAssumption
  <2>4. (sz[p] + n) % UINT \in Nat
    BY <2>1, <2>2, <2>3
  <2> QED
    BY <2>4
<1>2. PICK u \in Nat : u = Up(sz[p])
  BY Has, UpIs
<1>3. PICK a \in Nat : a = u * PGSIZE
  BY MulDiv
<1>4. PGROUNDUP(sz[p]) = a /\ a \div PGSIZE = u
  BY <1>2, <1>3, Has, RoundIs, MulDiv
<1>5. PICK c : c = [op |-> "sbrk", at |-> "grow", from |-> a, a |-> a, to |-> new, perm |-> {"W", "U"}]
  OBVIOUS
<1>6. c \in Call /\ c.op = "sbrk" /\ c.from = a /\ c.a = a /\ c.to = new
  BY <1>5 DEF Call, SbrkCall
<1>7. /\ st[p] = "RUNNABLE" /\ syscall[p] = NoCall /\ syscall' = [syscall EXCEPT ![p] = c]
      /\ UNCHANGED <<freelist, tab, tf, st, sz, panic>>
  BY <1>1, <1>4, <1>5 DEF sbrk, MayCall
<1>8. SlotOK("RUNNABLE", tf[p], sz[p], tab[<<p, "cur">>], tab[<<p, "new">>], NoCall)
  BY <1>7, Has
<1>9. /\ tf[p] # 0 /\ Spans(tab[<<p, "cur">>], u, tf[p]) /\ Guarded(tab[<<p, "cur">>], u)
      /\ tab[<<p, "new">>] = NoTable
  BY <1>2, <1>8 DEF SlotOK, Top, NoCall
<1>10. Growing(c, sz[p])
  BY <1>2, <1>3, <1>6 DEF Growing
<1>11. Top(c, sz[p]) = u
  BY <1>4, <1>6 DEF Top
<1>12. SlotOK("RUNNABLE", tf[p], sz[p], tab[<<p, "cur">>], tab[<<p, "new">>], c)
  BY <1>6, <1>9, <1>10, <1>11 DEF SlotOK
<1>13. panic' = FALSE
  BY <1>7 DEF MInv, Types
<1> QED
  BY <1>6, <1>7, <1>12, <1>13, OnlyCall

\* The size that uvmalloc() has reached.
LEMMA GrowingIs ==
  ASSUME NEW c, NEW old \in Nat, Growing(c, old), c.a \in Nat, c.to \in Nat, c.from \in Nat
  PROVE  /\ c.a = (c.a \div PGSIZE) * PGSIZE /\ c.a \div PGSIZE \in Nat /\ Up(c.a) = c.a \div PGSIZE
         /\ c.from = Up(old) * PGSIZE /\ Up(c.from) = Up(old) /\ Up(old) <= c.a \div PGSIZE
         /\ c.from \div PGSIZE = Up(old)
         /\ c.a >= c.to /\ c.to >= old => Up(c.to) = c.a \div PGSIZE
         /\ c.a >= c.to /\ c.to < old => Up(old) = c.a \div PGSIZE
<1>1. PICK k \in Nat : c.a = k * PGSIZE
  BY DEF Growing
<1>2. c.a \div PGSIZE = k /\ Up(c.a) = k
  BY <1>1, MulDiv
<1>3. PICK u \in Nat : u = Up(old)
  BY UpIs
<1>4. c.from = u * PGSIZE /\ Up(c.from) = u /\ c.from \div PGSIZE = u
  BY <1>3, MulDiv DEF Growing
<1>5. c.a >= c.from /\ (c.a = c.from \/ c.a < c.to + PGSIZE)
  BY DEF Growing
<1>6. u <= k
  BY <1>1, <1>4, <1>5, MulLess
<1>7. old <= c.from /\ c.from < old + PGSIZE
  BY <1>3, <1>4, UpIs
<1>8. ASSUME c.a >= c.to, c.to >= old
      PROVE  Up(c.to) = k
  <2>1. c.a < c.to + PGSIZE
    BY <1>5, <1>7, <1>8, Page
  <2> QED
    BY <1>1, <1>8, <2>1, UpUnique
<1>9. ASSUME c.a >= c.to, c.to < old
      PROVE  u = k
  <2>1. CASE c.a = c.from
    BY <1>1, <1>2, <1>4, <2>1
  <2>2. CASE c.a # c.from
    <3>1. u < k
      BY <1>1, <1>4, <1>6, <2>2
    <3>2. u * PGSIZE + PGSIZE <= k * PGSIZE
      BY <3>1, MulLess
    <3>3. c.from + PGSIZE <= c.a /\ c.a < c.to + PGSIZE /\ PGSIZE \in Nat
      BY <1>1, <1>4, <1>5, <2>2, <3>2, Page
    <3> QED
      BY <1>7, <1>9, <3>3
  <2> QED
    BY <2>1, <2>2
<1> QED
  BY <1>1, <1>2, <1>3, <1>4, <1>6, <1>8, <1>9

LEMMA SbrkDoneStep ==
  ASSUME MInv, NEW p \in ProcSlot, sbrk_done(p)
  PROVE  MInv'
<1>1. PICK c : c = syscall[p]
  OBVIOUS
<1>2. c \in SbrkCall /\ c \in Call /\ c.op = "sbrk" /\ c.a >= c.to /\ c.a \in Nat /\ c.to \in Nat /\ c.from \in Nat
  BY <1>1, Has, CallIs DEF sbrk_done, SbrkCall
<1>3. st[p] = "RUNNABLE"
  BY <1>1, <1>2, SomeCall
<1>4. SlotOK("RUNNABLE", tf[p], sz[p], tab[<<p, "cur">>], tab[<<p, "new">>], c)
  BY <1>1, <1>3, Has
<1>5. PICK size \in Nat : size = IF c.to < sz[p] THEN sz[p] ELSE c.to
  BY <1>2, Has
<1>6. Growing(c, sz[p])
  BY <1>2, <1>4 DEF SlotOK
<1>7. Up(size) = c.a \div PGSIZE
  <2>1. PICK o \in Nat : o = sz[p]
    BY Has
  <2>2. /\ c.a >= c.to /\ c.to >= o => Up(c.to) = c.a \div PGSIZE
        /\ c.a >= c.to /\ c.to < o => Up(o) = c.a \div PGSIZE
    BY <1>2, <1>6, <2>1, GrowingIs
  <2> QED
    BY <1>2, <1>5, <2>1, <2>2
<1>8. Top(c, sz[p]) = Up(size)
  BY <1>2, <1>7 DEF Top
<1>9. /\ tf[p] # 0 /\ Spans(tab[<<p, "cur">>], Up(size), tf[p]) /\ Guarded(tab[<<p, "cur">>], Up(size))
      /\ tab[<<p, "new">>] = NoTable
  BY <1>2, <1>4, <1>8 DEF SlotOK
<1>10. SlotOK("RUNNABLE", tf[p], size, tab[<<p, "cur">>], tab[<<p, "new">>], NoCall)
  BY <1>9 DEF SlotOK, Top, NoCall
<1>11. /\ sz' = [sz EXCEPT ![p] = size] /\ syscall' = [syscall EXCEPT ![p] = NoCall]
       /\ UNCHANGED <<freelist, tab, tf, st, panic>>
  BY <1>1, <1>5 DEF sbrk_done, Return, MInv, Types
<1>12. NoCall \in Call
  BY DEF Call
<1>13. Types' /\ Owned'
  BY <1>11, <1>12 DEF MInv, Types, Owned
<1>14. \A q \in ProcSlot : q # p => Same(q)
  BY <1>11 DEF Same, MInv, Types
<1>15. sz'[p] = size /\ syscall'[p] = NoCall /\ syscall'[p].op # "fork"
  BY <1>11 DEF MInv, Types, NoCall
<1> QED
  BY <1>3, <1>10, <1>11, <1>13, <1>14, <1>15, OneSlot

LEMMA SegmentIs ==
  ASSUME NEW img \in Image
  PROVE  /\ Len(img) \in Nat
         /\ \A k \in 1 .. Len(img) :
              /\ img[k].vaddr \in Nat /\ img[k].memsz \in Nat /\ img[k].filesz \in Nat
              /\ img[k].perm \in SUBSET {"W", "X"} /\ img[k].filesz <= img[k].memsz
<1>1. PICK S : S = [vaddr : Nat, memsz : Nat, filesz : Nat, perm : SUBSET {"W", "X"}]
  OBVIOUS
<1>2. img \in Seq(S) /\ \A s \in Range(img) : s.filesz <= s.memsz
  BY <1>1, ImageAssumption
<1>3. Len(img) \in Nat /\ DOMAIN img = 1 .. Len(img) /\ \A k \in 1 .. Len(img) : img[k] \in S
  BY <1>2
<1>4. \A k \in 1 .. Len(img) : img[k] \in Range(img)
  BY <1>3 DEF Range
<1>5. ASSUME NEW k \in 1 .. Len(img)
      PROVE  /\ img[k].vaddr \in Nat /\ img[k].memsz \in Nat /\ img[k].filesz \in Nat
             /\ img[k].perm \in SUBSET {"W", "X"}
  <2>1. PICK s \in S : s = img[k]
    BY <1>3
  <2> QED
    BY <1>1, <2>1
<1> QED
  BY <1>2, <1>3, <1>4, <1>5

LEMMA WantedIs ==
  ASSUME NEW c \in ExecCall, NEW w, w = Wanted(c)
  PROVE  /\ w.from \in Nat /\ w.to \in Nat /\ w.perm \in SUBSET {"W", "X", "U"} /\ "U" \in w.perm
         /\ Up(w.from) = Up(c.sz) /\ c.sz <= w.from
         /\ c.seg <= Len(c.img) => w.to = c.img[c.seg].vaddr + c.img[c.seg].memsz /\ w.from = c.sz
         /\ ~(c.seg <= Len(c.img)) => w.to > w.from /\ w.to = Up(c.sz) * PGSIZE + (USERSTACK + 1) * PGSIZE
<1>1. c.sz \in Nat /\ c.seg \in Nat \ {0} /\ c.img \in Image
  BY DEF ExecCall
<1>2. CASE c.seg <= Len(c.img)
  <2>1. Len(c.img) \in Nat
    BY <1>1, SegmentIs
  <2>2. c.seg \in 1 .. Len(c.img)
    BY <1>1, <1>2, <2>1
  <2>3. /\ c.img[c.seg].vaddr \in Nat /\ c.img[c.seg].memsz \in Nat
        /\ c.img[c.seg].perm \in SUBSET {"W", "X"}
    BY <1>1, <2>2, SegmentIs
  <2>4. /\ w.from = c.sz /\ w.to = c.img[c.seg].vaddr + c.img[c.seg].memsz
        /\ w.perm = c.img[c.seg].perm \cup {"U"}
    BY <1>2 DEF Wanted
  <2> QED
    BY <1>1, <1>2, <2>3, <2>4
<1>3. CASE ~(c.seg <= Len(c.img))
  <2>1. PICK u \in Nat : u = Up(c.sz)
    BY <1>1, UpIs
  <2>2. PICK a \in Nat : a = u * PGSIZE
    BY MulDiv
  <2>3. PGROUNDUP(c.sz) = a /\ Up(a) = u /\ c.sz <= a
    BY <1>1, <2>1, <2>2, RoundIs, MulDiv, UpIs
  <2>4. PICK b \in Nat : b = (USERSTACK + 1) * PGSIZE /\ b > 0
    <3>1. PICK v \in Nat : v = USERSTACK /\ v > 0
      BY TableAssumption
    <3>2. v * PGSIZE \in Nat /\ (v + 1) * PGSIZE = v * PGSIZE + PGSIZE
      BY MulLess
    <3> QED
      BY <3>1, <3>2, Page
  <2>5. w.from = a /\ w.to = a + b /\ w.perm = {"W", "U"}
    BY <1>3, <2>3, <2>4 DEF Wanted
  <2> QED
    BY <1>1, <1>3, <2>1, <2>2, <2>3, <2>4, <2>5
<1> QED
  BY <1>2, <1>3

LEMMA InExec ==
  ASSUME MInv, NEW p \in ProcSlot, syscall[p].op = "exec"
  PROVE  /\ st[p] = "RUNNABLE" /\ syscall[p] \in ExecCall /\ syscall[p] \in Call
         /\ ExecOK(syscall[p], tab[<<p, "new">>], tf[p])
         /\ tf[p] # 0 /\ tf[p] \in Frame
         /\ Spans(tab[<<p, "cur">>], Up(sz[p]), tf[p]) /\ Guarded(tab[<<p, "cur">>], Up(sz[p]))
<1>1. st[p] = "RUNNABLE"
  BY SomeCall
<1>2. SlotOK("RUNNABLE", tf[p], sz[p], tab[<<p, "cur">>], tab[<<p, "new">>], syscall[p])
  BY <1>1, Has
<1>3. syscall[p] \in Call /\ tf[p] \in Frame \cup {0}
  BY Has
<1> QED
  BY <1>1, <1>2, <1>3, CallIs DEF SlotOK, Top

\* A step of exec() in which only the call changes.
LEMMA ExecCallStep ==
  ASSUME MInv, NEW p \in ProcSlot, syscall[p].op = "exec", NEW c \in ExecCall,
         syscall' = [syscall EXCEPT ![p] = c], UNCHANGED <<freelist, tab, tf, st, sz>>, panic' = FALSE,
         ExecOK(c, tab[<<p, "new">>], tf[p])
  PROVE  MInv'
<1>1. /\ st[p] = "RUNNABLE" /\ tf[p] # 0
      /\ Spans(tab[<<p, "cur">>], Up(sz[p]), tf[p]) /\ Guarded(tab[<<p, "cur">>], Up(sz[p]))
  BY InExec
<1>2. c.op = "exec" /\ c \in Call
  BY DEF ExecCall, Call
<1>3. SlotOK("RUNNABLE", tf[p], sz[p], tab[<<p, "cur">>], tab[<<p, "new">>], c)
  BY <1>1, <1>2 DEF SlotOK, Top
<1> QED
  BY <1>1, <1>2, <1>3, OnlyCall

\* exec() gives up: the image stays as far as it has come.
LEMMA ToBad ==
  ASSUME NEW c \in ExecCall, c.at # "grow", NEW pt, NEW f, ExecOK(c, pt, f), NEW b, b = [c EXCEPT !.at = "bad"]
  PROVE  b \in ExecCall /\ ExecOK(b, pt, f)
<1>1. b \in ExecCall /\ b.at = "bad" /\ b.sz = c.sz
  BY DEF ExecCall
<1>2. Spans(pt, Up(c.sz), f) /\ Guarded(pt, Up(c.sz))
  BY DEF ExecOK
<1> QED
  BY <1>1, <1>2 DEF ExecOK

LEMMA ExecHeaderStep ==
  ASSUME MInv, NEW p \in ProcSlot, exec_header(p)
  PROVE  MInv'
<1>1. PICK c : c = syscall[p]
  OBVIOUS
<1>2. c.op = "exec" /\ c.at = "next" /\ c \in ExecCall /\ ExecOK(c, tab[<<p, "new">>], tf[p])
  BY <1>1, InExec DEF exec_header, ExecAt
<1>3. PICK b : b = [c EXCEPT !.at = "bad"]
  OBVIOUS
<1>4. b \in ExecCall /\ ExecOK(b, tab[<<p, "new">>], tf[p])
  BY <1>2, <1>3, ToBad
<1>5. /\ syscall' = [syscall EXCEPT ![p] = b]
      /\ UNCHANGED <<freelist, tab, tf, st, sz, panic>>
  BY <1>1, <1>3 DEF exec_header, MInv, Types
<1>6. panic' = FALSE
  BY <1>5 DEF MInv, Types
<1> QED
  BY <1>1, <1>2, <1>4, <1>5, <1>6, ExecCallStep

LEMMA ExecNextStep ==
  ASSUME MInv, NEW p \in ProcSlot, exec_next(p)
  PROVE  MInv'
<1>1. PICK c : c = syscall[p]
  OBVIOUS
<1>2. c.op = "exec" /\ c.at = "next" /\ c \in ExecCall /\ ExecOK(c, tab[<<p, "new">>], tf[p])
  BY <1>1, InExec DEF exec_next, ExecAt
<1>3. PICK w : w = Wanted(c)
  OBVIOUS
<1>4. /\ w.from \in Nat /\ w.to \in Nat /\ w.perm \in SUBSET {"W", "X", "U"} /\ "U" \in w.perm
      /\ Up(w.from) = Up(c.sz) /\ c.sz <= w.from
      /\ c.seg <= Len(c.img) => w.to = c.img[c.seg].vaddr + c.img[c.seg].memsz /\ w.from = c.sz
      /\ ~(c.seg <= Len(c.img)) => w.to > w.from
  BY <1>2, <1>3, WantedIs
<1>5. c.sz \in Nat
  BY <1>2 DEF ExecCall
<1>6. PICK pt : pt = tab[<<p, "new">>]
  OBVIOUS
<1>7. /\ Spans(pt, Up(c.sz), tf[p]) /\ Guarded(pt, Up(c.sz)) /\ Usable(pt, Up(c.sz)) /\ c.seg <= Len(c.img) + 1
  BY <1>2, <1>6 DEF ExecOK
<1>8. PICK b : b = IF w.to < w.from THEN [c EXCEPT !.at = "load"]
                   ELSE IF w.to = 0 THEN [c EXCEPT !.at = "bad"]
                   ELSE [c EXCEPT !.at = "grow", !.from = PGROUNDUP(w.from), !.a = PGROUNDUP(w.from), !.to = w.to, !.perm = w.perm]
  OBVIOUS
<1>9. /\ syscall' = [syscall EXCEPT ![p] = b]
      /\ UNCHANGED <<freelist, tab, tf, st, sz, panic>>
  BY <1>1, <1>3, <1>8 DEF exec_next, MInv, Types
<1>10. b \in ExecCall /\ ExecOK(b, pt, tf[p])
  <2>1. CASE w.to < w.from
    <3>1. c.seg <= Len(c.img) /\ c.img[c.seg].vaddr + c.img[c.seg].memsz <= c.sz
      BY <1>4, <2>1
    <3>2. b \in ExecCall /\ b.at = "load" /\ b.sz = c.sz /\ b.seg = c.seg /\ b.img = c.img
      BY <1>2, <1>8, <2>1 DEF ExecCall
    <3> QED
      BY <1>7, <3>1, <3>2 DEF ExecOK
  <2>2. CASE ~(w.to < w.from) /\ w.to = 0
    BY <1>2, <1>6, <1>8, <2>2, ToBad
  <2>3. CASE ~(w.to < w.from) /\ w.to # 0
    <3>1. PICK u \in Nat : u = Up(c.sz)
      BY <1>5, UpIs
    <3>2. PICK a \in Nat : a = u * PGSIZE
      BY MulDiv
    <3>3. PGROUNDUP(w.from) = a /\ a \div PGSIZE = u
      BY <1>4, <3>1, <3>2, RoundIs, MulDiv
    <3>4. b = [c EXCEPT !.at = "grow", !.from = a, !.a = a, !.to = w.to, !.perm = w.perm]
      BY <1>8, <2>3, <3>3
    <3>5. /\ b \in ExecCall /\ b.at = "grow" /\ b.sz = c.sz /\ b.seg = c.seg /\ b.img = c.img
          /\ b.from = a /\ b.a = a /\ b.to = w.to /\ b.perm = w.perm
      BY <1>2, <1>4, <3>4 DEF ExecCall
    <3>6. Growing(b, b.sz)
      BY <3>1, <3>2, <3>5 DEF Growing
    <3>7. b.to = Wanted(b).to
      BY <1>3, <3>5 DEF Wanted
    <3>8. b.to >= b.sz
      BY <1>4, <1>5, <2>3, <3>5
    <3>9. Spans(pt, b.a \div PGSIZE, tf[p]) /\ Guarded(pt, b.a \div PGSIZE) /\ Usable(pt, b.a \div PGSIZE)
      BY <1>7, <3>1, <3>3, <3>5
    <3> QED
      BY <1>4, <1>7, <3>5, <3>6, <3>7, <3>8, <3>9 DEF ExecOK
  <2> QED
    BY <2>1, <2>2, <2>3
<1>11. panic' = FALSE
  BY <1>9 DEF MInv, Types
<1> QED
  BY <1>1, <1>2, <1>6, <1>9, <1>10, <1>11, ExecCallStep

LEMMA LoadsegStep ==
  ASSUME MInv, NEW p \in ProcSlot, NEW ok \in BOOLEAN, loadseg(p, ok)
  PROVE  MInv'
<1>1. PICK c : c = syscall[p]
  OBVIOUS
<1>2. c.op = "exec" /\ c.at = "load" /\ c \in ExecCall /\ ExecOK(c, tab[<<p, "new">>], tf[p])
  BY <1>1, InExec DEF loadseg, ExecAt
<1>3. PICK pt : pt = tab[<<p, "new">>]
  OBVIOUS
<1>4. /\ Spans(pt, Up(c.sz), tf[p]) /\ Guarded(pt, Up(c.sz)) /\ Usable(pt, Up(c.sz)) /\ c.seg <= Len(c.img) + 1
      /\ c.seg <= Len(c.img) /\ c.img[c.seg].vaddr + c.img[c.seg].memsz <= c.sz
  BY <1>2, <1>3 DEF ExecOK
<1>5. c.sz \in Nat /\ c.seg \in Nat \ {0} /\ c.img \in Image
  BY <1>2 DEF ExecCall
<1>6. Len(c.img) \in Nat
  BY <1>5, SegmentIs
<1>7. PICK s : s = c.img[c.seg]
  OBVIOUS
<1>8. s.vaddr \in Nat /\ s.memsz \in Nat /\ s.filesz \in Nat /\ s.filesz <= s.memsz
  <2>1. c.seg \in 1 .. Len(c.img)
    BY <1>4, <1>5, <1>6
  <2> QED
    BY <1>5, <1>7, <2>1, SegmentIs
<1>9. \A va \in Pages(s.vaddr, s.vaddr + s.filesz) : walkaddr(pt, va)
  <2>1. PICK lo \in Nat : lo = Up(s.vaddr)
    BY <1>8, UpIs
  <2>2. PICK e \in Nat : e = s.vaddr + s.filesz
    BY <1>8
  <2>3. PICK hi \in Nat : hi = Up(e)
    BY <2>2, UpIs
  <2>4. PICK n \in Nat : n = Up(c.sz)
    BY <1>5, UpIs
  <2>5. hi <= n
    <3>1. e <= c.sz
      BY <1>4, <1>5, <1>7, <1>8, <2>2
    <3> QED
      BY <1>5, <2>3, <2>4, <3>1, UpMono
  <2>6. Pages(s.vaddr, e) = lo .. hi - 1
    BY <1>8, <2>1, <2>3, PagesIs
  <2>7. \A va \in lo .. hi - 1 : va \in 0 .. n - 1
    BY <2>5
  <2>8. \A va \in 0 .. n - 1 : va \in DOMAIN pt.leaf /\ "U" \in pt.leaf[va].perm
    BY <1>4, <2>4 DEF Spans, Usable
  <2> QED
    BY <2>2, <2>6, <2>7, <2>8 DEF walkaddr, Mapped
<1>10. PICK b : b = IF ok THEN [c EXCEPT !.seg = @ + 1, !.at = "next"] ELSE [c EXCEPT !.at = "bad"]
  OBVIOUS
<1>11. /\ syscall' = [syscall EXCEPT ![p] = b]
       /\ panic' = (panic \/ \E va \in Pages(s.vaddr, s.vaddr + s.filesz) : ~walkaddr(pt, va))
       /\ UNCHANGED <<freelist, tab, tf, st, sz>>
  BY <1>1, <1>3, <1>7, <1>10 DEF loadseg
<1>12. panic' = FALSE
  BY <1>9, <1>11 DEF MInv, Types
<1>13. b \in ExecCall /\ ExecOK(b, pt, tf[p])
  <2>1. CASE ok
    <3>1. b = [c EXCEPT !.seg = c.seg + 1, !.at = "next"]
      BY <1>2, <1>10, <2>1
    <3>2. c.seg + 1 \in Nat \ {0}
      BY <1>5
    <3>3. b \in ExecCall /\ b.at = "next" /\ b.sz = c.sz /\ b.seg = c.seg + 1 /\ b.img = c.img
      BY <1>2, <3>1, <3>2 DEF ExecCall
    <3>4. b.seg <= Len(b.img) + 1
      BY <1>4, <1>5, <1>6, <3>3
    <3> QED
      BY <1>4, <3>3, <3>4 DEF ExecOK
  <2>2. CASE ~ok
    BY <1>2, <1>3, <1>10, <2>2, ToBad
  <2> QED
    BY <2>1, <2>2
<1> QED
  BY <1>1, <1>2, <1>3, <1>11, <1>12, <1>13, ExecCallStep

LEMMA ExecStep ==
  ASSUME MInv, NEW p \in ProcSlot, NEW img \in Image, exec(p, img)
  PROVE  MInv'
<1>1. PICK i \in Table : i = <<p, "new">>
  BY Has
<1>2. st[p] = "RUNNABLE" /\ syscall[p] = NoCall
  BY DEF exec, MayCall
<1>3. SlotOK("RUNNABLE", tf[p], sz[p], tab[<<p, "cur">>], tab[<<p, "new">>], NoCall)
  BY <1>2, Has
<1>4. /\ tf[p] # 0 /\ Spans(tab[<<p, "cur">>], Up(sz[p]), tf[p]) /\ Guarded(tab[<<p, "cur">>], Up(sz[p]))
      /\ tab[i] = NoTable
  BY <1>1, <1>3 DEF SlotOK, Top, NoCall
<1>5. tf[p] \in Frame
  BY <1>4, Has
<1>6. Sound(Mem(NoTable), Others(tab, tf, i))
  BY <1>1, <1>4, MemSound DEF MInv
<1>7. PICK m : m = proc_pagetable(tf[p])
  OBVIOUS
<1>8. /\ Sound(m, Others(tab, tf, i)) /\ m.panic = FALSE
      /\ m.ok => Spans(m.pt, 0, tf[p])
      /\ ~m.ok => m.pt = NoTable
  BY <1>5, <1>6, <1>7, ProcPagetableIs
<1>9. PICK c : c = [op |-> "exec", at |-> "next", img |-> img, seg |-> 1, sz |-> 0,
                    from |-> 0, a |-> 0, to |-> 0, perm |-> {}]
  OBVIOUS
<1>10. /\ Becomes(m, i) /\ syscall' = (IF m.ok THEN [syscall EXCEPT ![p] = c] ELSE syscall)
       /\ UNCHANGED <<tf, st, sz>>
  BY <1>1, <1>7, <1>9 DEF exec
<1>11. /\ Owned' /\ tab'[i] = m.pt
       /\ \A j \in Table : j # i => tab'[j] = tab[j]
       /\ panic' = (panic \/ m.panic)
  BY <1>8, <1>10, BecomesOwned DEF MInv
<1>12. c \in ExecCall
  BY <1>9 DEF ExecCall
<1>13. c \in Call /\ NoCall \in Call
  BY <1>12 DEF Call
<1>14. Types'
  BY <1>8, <1>10, <1>11, <1>13 DEF MInv, Types
<1>15. \A q \in ProcSlot : q # p => Same(q)
  BY <1>1, <1>10, <1>11 DEF Same, MInv, Types, Table
<1>16. /\ st'[p] = "RUNNABLE" /\ tf'[p] = tf[p] /\ sz'[p] = sz[p] /\ tab'[<<p, "cur">>] = tab[<<p, "cur">>]
       /\ tab'[<<p, "new">>] = m.pt /\ syscall'[p] = (IF m.ok THEN c ELSE NoCall)
  BY <1>1, <1>2, <1>10, <1>11 DEF MInv, Types, Table
<1>17. CASE m.ok
  <2>1. ExecOK(c, m.pt, tf[p])
    <3>1. /\ c.at = "next" /\ c.sz = 0 /\ c.seg = 1 /\ c.img = img /\ Up(0) = 0
      BY <1>9, UpZero
    <3>2. Guarded(m.pt, 0) /\ Usable(m.pt, 0)
      BY DEF Guarded, Usable
    <3>3. 1 <= Len(img) + 1
      BY SegmentIs
    <3> QED
      BY <1>8, <1>17, <3>1, <3>2, <3>3 DEF ExecOK
  <2>2. c.op = "exec"
    BY <1>9
  <2>3. SlotOK("RUNNABLE", tf[p], sz[p], tab[<<p, "cur">>], m.pt, c)
    BY <1>4, <2>1, <2>2 DEF SlotOK, Top
  <2>4. syscall'[p].op # "fork"
    BY <1>16, <1>17, <2>2
  <2> QED
    BY <1>2, <1>11, <1>14, <1>15, <1>16, <1>17, <2>3, <2>4, OneSlot
<1>18. CASE ~m.ok
  <2>1. SlotOK("RUNNABLE", tf[p], sz[p], tab[<<p, "cur">>], m.pt, NoCall)
    BY <1>3, <1>8, <1>18 DEF SlotOK, NoCall
  <2>2. syscall'[p].op # "fork"
    BY <1>16, <1>18 DEF NoCall
  <2> QED
    BY <1>2, <1>11, <1>14, <1>15, <1>16, <1>18, <2>1, <2>2, OneSlot
<1> QED
  BY <1>17, <1>18

LEMMA ExecBadStep ==
  ASSUME MInv, NEW p \in ProcSlot, exec_bad(p)
  PROVE  MInv'
<1>1. PICK i \in Table : i = <<p, "new">>
  BY Has
<1>2. PICK c : c = syscall[p]
  OBVIOUS
<1>3. c.op = "exec" /\ c.at = "bad" /\ c \in ExecCall /\ ExecOK(c, tab[i], tf[p])
  BY <1>1, <1>2, InExec DEF exec_bad, ExecAt
<1>4. /\ st[p] = "RUNNABLE" /\ tf[p] # 0
      /\ Spans(tab[<<p, "cur">>], Up(sz[p]), tf[p]) /\ Guarded(tab[<<p, "cur">>], Up(sz[p]))
  BY <1>2, <1>3, InExec
<1>5. PICK size \in Nat : size = c.sz
  BY <1>3 DEF ExecCall
<1>6. Spans(tab[i], Up(size), tf[p])
  BY <1>3, <1>5 DEF ExecOK
<1>7. PICK m : m = Mem(tab[i])
  OBVIOUS
<1>8. Sound(m, Others(tab, tf, i)) /\ m.panic = FALSE /\ m.pt = tab[i]
  BY <1>7, MemSound DEF MInv, Mem
<1>9. PICK w : w = proc_freepagetable(m, size)
  OBVIOUS
<1>10. Sound(w, Others(tab, tf, i)) /\ w.pt = NoTable /\ w.panic = FALSE
  BY <1>6, <1>8, <1>9, ProcFreepagetableIs
<1>11. Becomes(w, i) /\ syscall' = [syscall EXCEPT ![p] = NoCall] /\ UNCHANGED <<tf, st, sz>>
  BY <1>1, <1>2, <1>5, <1>7, <1>9 DEF exec_bad, Return
<1>12. /\ Owned' /\ tab'[i] = w.pt
       /\ \A j \in Table : j # i => tab'[j] = tab[j]
       /\ panic' = (panic \/ w.panic)
  BY <1>10, <1>11, BecomesOwned DEF MInv
<1>13. NoCall \in Call
  BY DEF Call
<1>14. Types'
  BY <1>10, <1>11, <1>12, <1>13 DEF MInv, Types
<1>15. \A q \in ProcSlot : q # p => Same(q)
  BY <1>1, <1>11, <1>12 DEF Same, MInv, Types, Table
<1>16. /\ st'[p] = "RUNNABLE" /\ tf'[p] = tf[p] /\ sz'[p] = sz[p] /\ tab'[<<p, "cur">>] = tab[<<p, "cur">>]
       /\ tab'[<<p, "new">>] = NoTable /\ syscall'[p] = NoCall
  BY <1>1, <1>4, <1>10, <1>11, <1>12 DEF MInv, Types, Table
<1>17. SlotOK("RUNNABLE", tf[p], sz[p], tab[<<p, "cur">>], NoTable, NoCall)
  BY <1>4 DEF SlotOK, Top, NoCall
<1>18. syscall'[p].op # "fork"
  BY <1>16 DEF NoCall
<1> QED
  BY <1>4, <1>12, <1>14, <1>15, <1>16, <1>17, <1>18, OneSlot

\* uvmclear(): a page loses its user bit and nothing else.
LEMMA UvmclearIs ==
  ASSUME NEW pt \in PageTable, NEW fr, NEW R, Distinct(pt), Apart(fr, pt, R), NEW n \in Nat, NEW f, Spans(pt, n, f),
         NEW guard \in 0 .. n - 1, Usable(pt, n),
         NEW q, q = [pt EXCEPT !.leaf[guard].perm = @ \ {"U"}]
  PROVE  q \in PageTable /\ Distinct(q) /\ Apart(fr, q, R) /\ Spans(q, n, f) /\ Guarded(q, n)
<1>1. pt.leaf \in Leaves
  BY DEF PageTable
<1>2. n < TRAPFRAME /\ UserPages(pt) = 0 .. n - 1 /\ TRAPFRAME \in Nat /\ TRAMPOLINE = TRAPFRAME + 1
  BY BelowTraps, TrapNat
<1>3. DOMAIN pt.leaf = (0 .. n - 1) \cup {TRAMPOLINE, TRAPFRAME}
  BY DEF Spans
<1>4. guard \in DOMAIN pt.leaf /\ guard # TRAMPOLINE /\ guard # TRAPFRAME /\ guard \in Nat
  BY <1>2, <1>3
<1>5. pt.leaf \in [DOMAIN pt.leaf -> Pte]
  BY <1>1, LeavesIs
<1>6. PICK e \in Pte : e = pt.leaf[guard]
  BY <1>4, <1>5
<1>7. PICK e2 : e2 = [e EXCEPT !.perm = e.perm \ {"U"}]
  OBVIOUS
<1>8. e2 \in Pte /\ e2.pa = e.pa
  BY <1>7 DEF Pte
<1>9. PICK l : l = [pt.leaf EXCEPT ![guard] = e2]
  OBVIOUS
<1>10. l \in [DOMAIN pt.leaf -> Pte] /\ l[guard] = e2 /\ \A x \in DOMAIN pt.leaf : x # guard => l[x] = pt.leaf[x]
  BY <1>4, <1>5, <1>8, <1>9
<1>11. DOMAIN l = DOMAIN pt.leaf /\ l \in Leaves
  <2>1. DOMAIN l = DOMAIN pt.leaf
    BY <1>10
  <2>2. DOMAIN pt.leaf \subseteq Nat
    BY <1>1, LeavesIs
  <2> QED
    BY <1>10, <2>1, <2>2, LeavesIs
<1>12. q = [pt EXCEPT !.leaf = l]
  BY <1>4, <1>5, <1>6, <1>7, <1>9 DEF PageTable, Pte
<1>13. DOMAIN l \ Trap = UserPages(pt) /\ \A x \in UserPages(pt) : l[x].pa = pt.leaf[x].pa
  BY <1>6, <1>8, <1>10, <1>11 DEF UserPages, Trap
<1>14. q \in PageTable /\ q.root = pt.root /\ q.leaf = l /\ q.dir = pt.dir /\ Distinct(q) /\ Apart(fr, q, R)
  BY <1>11, <1>12, <1>13, LeafTrap
<1>15. l[TRAMPOLINE] = pt.leaf[TRAMPOLINE] /\ l[TRAPFRAME] = pt.leaf[TRAPFRAME]
  BY <1>3, <1>4, <1>10
<1>16. Spans(q, n, f)
  BY <1>11, <1>14, <1>15 DEF Spans
<1>17. \A va \in 0 .. n - 1 : va # guard => "U" \in l[va].perm
  BY <1>3, <1>10 DEF Usable
<1>18. Guarded(q, n)
  BY <1>14, <1>17 DEF Guarded
<1> QED
  BY <1>14, <1>16, <1>18

LEMMA ExecGrownStep ==
  ASSUME MInv, NEW p \in ProcSlot, exec_grown(p)
  PROVE  MInv'
<1>1. PICK i \in Table : i = <<p, "new">>
  BY Has
<1>2. PICK c : c = syscall[p]
  OBVIOUS
<1>3. c.op = "exec" /\ c.at = "grow" /\ c \in ExecCall /\ ExecOK(c, tab[i], tf[p]) /\ c.a >= c.to
  BY <1>1, <1>2, InExec DEF exec_grown, ExecAt
<1>4. c.sz \in Nat /\ c.to \in Nat /\ c.a \in Nat /\ c.from \in Nat /\ c.img \in Image /\ c.seg \in Nat \ {0}
  BY <1>3 DEF ExecCall
<1>5. PICK n : n = c.a \div PGSIZE
  OBVIOUS
<1>6. /\ Spans(tab[i], n, tf[p]) /\ Guarded(tab[i], n) /\ Usable(tab[i], n) /\ c.seg <= Len(c.img) + 1
      /\ Growing(c, c.sz) /\ c.to = Wanted(c).to /\ c.to >= c.sz
  BY <1>3, <1>5 DEF ExecOK
<1>7. n \in Nat /\ Up(c.to) = n /\ c.from \div PGSIZE = Up(c.sz) /\ c.from = Up(c.sz) * PGSIZE
  BY <1>3, <1>4, <1>5, <1>6, GrowingIs
<1>8. CASE c.seg <= Len(c.img)
  <2>1. PICK b : b = [c EXCEPT !.sz = c.to, !.at = "load"]
    OBVIOUS
  <2>2. b \in ExecCall /\ b.at = "load" /\ b.sz = c.to /\ b.seg = c.seg /\ b.img = c.img
    BY <1>3, <1>4, <2>1 DEF ExecCall
  <2>3. c.to = c.img[c.seg].vaddr + c.img[c.seg].memsz
    BY <1>3, <1>6, <1>8, WantedIs
  <2>4. ExecOK(b, tab[i], tf[p])
    BY <1>4, <1>6, <1>7, <1>8, <2>2, <2>3 DEF ExecOK
  <2>5. /\ syscall' = [syscall EXCEPT ![p] = b] /\ UNCHANGED <<freelist, tab, tf, st, sz, panic>>
    BY <1>2, <1>8, <2>1 DEF exec_grown
  <2>6. panic' = FALSE
    BY <2>5 DEF MInv, Types
  <2> QED
    BY <1>1, <1>2, <1>3, <2>2, <2>4, <2>5, <2>6, ExecCallStep
<1>9. CASE ~(c.seg <= Len(c.img))
  <2>1. PICK guard : guard = c.from \div PGSIZE
    OBVIOUS
  <2>2. PICK pt : pt = tab[i]
    OBVIOUS
  <2>3. PICK q : q = [pt EXCEPT !.leaf[guard].perm = @ \ {"U"}]
    OBVIOUS
  <2>4. PICK b : b = [c EXCEPT !.sz = c.to, !.at = "args"]
    OBVIOUS
  <2>5. pt \in PageTable /\ Distinct(pt)
    BY <1>1, <2>2, Has
  <2>6. guard \in 0 .. n - 1
    <3>1. PICK u \in Nat : u = Up(c.sz)
      BY <1>4, UpIs
    <3>2. c.to = u * PGSIZE + (USERSTACK + 1) * PGSIZE
      BY <1>3, <1>6, <1>9, <3>1, WantedIs
    <3>3. PICK v \in Nat : v = USERSTACK
      BY TableAssumption
    <3>4. (v + 1) * PGSIZE = v * PGSIZE + PGSIZE /\ v * PGSIZE \in Nat /\ u * PGSIZE \in Nat /\ PGSIZE \in Nat /\ PGSIZE > 0
      BY MulLess, Page
    <3>5. u * PGSIZE < c.to
      BY <3>2, <3>3, <3>4
    <3>6. u < Up(c.to)
      BY <1>4, <3>5, UpLess
    <3> QED
      BY <1>7, <2>1, <3>1, <3>6
  <2>7. Apart(freelist, pt, Others(tab, tf, i)) /\ freelist \in [Frame -> {0, 1}]
    BY <2>2 DEF MInv, Owned, Keep
  <2>8. q \in PageTable /\ Distinct(q) /\ Apart(freelist, q, Others(tab, tf, i)) /\ Spans(q, n, tf[p]) /\ Guarded(q, n)
    BY <1>6, <1>7, <2>2, <2>3, <2>5, <2>6, <2>7, UvmclearIs
  <2>9. PICK m : m = [free |-> freelist, pt |-> q, ok |-> TRUE, panic |-> FALSE]
    OBVIOUS
  <2>10. Sound(m, Others(tab, tf, i)) /\ m.pt = q /\ m.free = freelist
    <3>1. freelist \in [Frame -> Nat]
      BY <2>7
    <3> QED
      BY <2>8, <2>9, <3>1 DEF Sound, Rec
  <2>11. Mapped(pt, guard)
    BY <1>6, <2>2, <2>6 DEF Mapped, Spans
  <2>12. /\ syscall' = [syscall EXCEPT ![p] = b] /\ panic' = (panic \/ ~Mapped(pt, guard))
         /\ tab' = [tab EXCEPT ![i].leaf[guard].perm = @ \ {"U"}]
         /\ UNCHANGED <<freelist, tf, st, sz>>
    BY <1>1, <1>2, <1>9, <2>1, <2>2, <2>4 DEF exec_grown
  <2>13. panic' = FALSE
    BY <2>11, <2>12 DEF MInv, Types
  <2>14. tab' = [tab EXCEPT ![i] = q]
    BY <2>2, <2>3, <2>12
  <2>15. Becomes(m, i)
    <3>1. m.panic = FALSE
      BY <2>9
    <3> QED
      BY <2>10, <2>12, <2>13, <2>14, <3>1 DEF Becomes, MInv, Types
  <2>16. /\ Owned' /\ tab'[i] = q
         /\ \A j \in Table : j # i => tab'[j] = tab[j]
    BY <2>10, <2>12, <2>15, BecomesOwned DEF MInv
  <2>17. b \in ExecCall /\ b.at = "args" /\ b.sz = c.to /\ b.op = "exec"
    BY <1>3, <1>4, <2>4 DEF ExecCall
  <2>18. b \in Call
    BY <2>17 DEF Call
  <2>19. ExecOK(b, q, tf[p])
    BY <1>7, <2>8, <2>17 DEF ExecOK
  <2>20. /\ st[p] = "RUNNABLE" /\ tf[p] # 0
         /\ Spans(tab[<<p, "cur">>], Up(sz[p]), tf[p]) /\ Guarded(tab[<<p, "cur">>], Up(sz[p]))
    BY <1>2, <1>3, InExec
  <2>21. SlotOK("RUNNABLE", tf[p], sz[p], tab[<<p, "cur">>], q, b)
    BY <2>17, <2>19, <2>20 DEF SlotOK, Top
  <2>22. Types'
    BY <2>12, <2>13, <2>18 DEF MInv, Types
  <2>23. \A x \in ProcSlot : x # p => Same(x)
    BY <1>1, <2>12, <2>16 DEF Same, MInv, Types, Table
  <2>24. /\ st'[p] = "RUNNABLE" /\ tf'[p] = tf[p] /\ sz'[p] = sz[p] /\ tab'[<<p, "cur">>] = tab[<<p, "cur">>]
         /\ tab'[<<p, "new">>] = q /\ syscall'[p] = b
    BY <1>1, <2>12, <2>16, <2>20 DEF MInv, Types, Table
  <2>25. syscall'[p].op # "fork"
    BY <2>17, <2>24
  <2> QED
    BY <2>16, <2>20, <2>21, <2>22, <2>23, <2>24, <2>25, OneSlot
<1> QED
  BY <1>8, <1>9

LEMMA ExecArgsStep ==
  ASSUME MInv, NEW p \in ProcSlot, NEW need, exec_args(p, need)
  PROVE  MInv'
<1>1. PICK i \in Table : i = <<p, "cur">>
  BY Has
<1>2. PICK j \in Table : j = <<p, "new">>
  BY Has
<1>3. PICK c : c = syscall[p]
  OBVIOUS
<1>4. c.op = "exec" /\ c.at = "args" /\ c \in ExecCall /\ ExecOK(c, tab[j], tf[p])
  BY <1>2, <1>3, InExec DEF exec_args, ExecAt
<1>5. st[p] = "RUNNABLE" /\ tf[p] # 0 /\ Spans(tab[i], Up(sz[p]), tf[p])
  BY <1>1, <1>3, <1>4, InExec
<1>6. PICK m : m = Mem(tab[i])
  OBVIOUS
<1>7. Sound(m, Others(tab, tf, i)) /\ m.panic = FALSE /\ m.pt = tab[i]
  BY <1>6, MemSound DEF MInv, Mem
<1>8. PICK w : w = proc_freepagetable(m, sz[p])
  OBVIOUS
<1>9. Sound(w, Others(tab, tf, i)) /\ w.pt = NoTable /\ w.panic = FALSE
  <2>1. sz[p] \in Nat
    BY Has
  <2> QED
    BY <1>5, <1>7, <1>8, <2>1, ProcFreepagetableIs
<1>10. \/ /\ syscall' = [syscall EXCEPT ![p].at = "bad"]
          /\ UNCHANGED <<freelist, tab, sz, panic>>
       \/ /\ tab' = [tab EXCEPT ![i] = tab[j], ![j] = NoTable]
          /\ sz' = [sz EXCEPT ![p] = c.sz]
          /\ freelist' = w.free /\ panic' = (panic \/ w.panic)
          /\ syscall' = [syscall EXCEPT ![p] = NoCall]
  BY <1>1, <1>2, <1>3, <1>6, <1>8 DEF exec_args, Return
<1>11. UNCHANGED <<tf, st>>
  BY DEF exec_args
<1>12. CASE /\ syscall' = [syscall EXCEPT ![p].at = "bad"]
            /\ UNCHANGED <<freelist, tab, sz, panic>>
  <2>1. PICK b : b = [c EXCEPT !.at = "bad"]
    OBVIOUS
  <2>2. b \in ExecCall /\ ExecOK(b, tab[j], tf[p])
    BY <1>4, <2>1, ToBad
  <2>3. syscall' = [syscall EXCEPT ![p] = b]
    BY <1>3, <1>12, <2>1
  <2>4. panic' = FALSE
    BY <1>12 DEF MInv, Types
  <2> QED
    BY <1>2, <1>3, <1>4, <1>11, <1>12, <2>2, <2>3, <2>4, ExecCallStep
<1>13. CASE /\ tab' = [tab EXCEPT ![i] = tab[j], ![j] = NoTable]
            /\ sz' = [sz EXCEPT ![p] = c.sz]
            /\ freelist' = w.free /\ panic' = (panic \/ w.panic)
            /\ syscall' = [syscall EXCEPT ![p] = NoCall]
  <2>1. i # j
    BY <1>1, <1>2
  <2>2. tab \in [Table -> PageTable]
    BY DEF MInv, Owned, Keep
  <2>3. PICK t1 : t1 = [tab EXCEPT ![i] = w.pt]
    OBVIOUS
  <2>4. Keep(w.free, t1, tf)
    BY <1>9, <2>3, KeepTable DEF MInv, Owned
  <2>5. t1[i] = NoTable /\ \A k \in Table : k # i => t1[k] = tab[k]
    BY <1>9, <2>2, <2>3
  <2>6. /\ tab' \in [Table -> PageTable] /\ tab'[i] = tab[j] /\ tab'[j] = NoTable
        /\ \A k \in Table : k # i /\ k # j => tab'[k] = tab[k]
    BY <1>13, <2>1, <2>2, NoTableIs
  <2>7. Keep(w.free, tab', tf)
    <3>1. tab'[i] = t1[j] /\ \A k \in Table : k # i /\ k # j => tab'[k] = t1[k]
      BY <2>1, <2>5, <2>6
    <3> QED
      BY <2>1, <2>4, <2>5, <2>6, <3>1, KeepMove
  <2>8. Owned'
    BY <1>11, <1>13, <2>7 DEF Owned
  <2>9. c.sz \in Nat /\ NoCall \in Call
    BY <1>4 DEF ExecCall, Call
  <2>10. Types'
    BY <1>9, <1>11, <1>13, <2>9 DEF MInv, Types
  <2>11. \A q \in ProcSlot : q # p => Same(q)
    BY <1>1, <1>2, <1>11, <1>13, <2>6 DEF Same, MInv, Types, Table
  <2>12. /\ st'[p] = "RUNNABLE" /\ tf'[p] = tf[p] /\ sz'[p] = c.sz /\ tab'[<<p, "cur">>] = tab[j]
         /\ tab'[<<p, "new">>] = NoTable /\ syscall'[p] = NoCall
    BY <1>1, <1>2, <1>5, <1>11, <1>13, <2>6 DEF MInv, Types, Table
  <2>13. Spans(tab[j], Up(c.sz), tf[p]) /\ Guarded(tab[j], Up(c.sz))
    BY <1>4 DEF ExecOK
  <2>14. SlotOK("RUNNABLE", tf[p], c.sz, tab[j], NoTable, NoCall)
    BY <1>5, <2>13 DEF SlotOK, Top, NoCall
  <2>15. syscall'[p].op # "fork"
    BY <2>12 DEF NoCall
  <2> QED
    BY <1>5, <2>8, <2>10, <2>11, <2>12, <2>14, <2>15, OneSlot
<1> QED
  BY <1>10, <1>12, <1>13

\* A page is added at the end of a table, or the table stays as it is.
Grown(w, m, R, n, f, perm) ==
  /\ Sound(w, R) /\ w.panic = FALSE
  /\ w.ok => /\ Spans(w.pt, n + 1, f) /\ w.pt.leaf[n].perm = perm
             /\ \A va \in 0 .. n - 1 : w.pt.leaf[va] = m.pt.leaf[va]
  /\ ~w.ok => Spans(w.pt, n, f) /\ w.pt.leaf = m.pt.leaf

LEMMA GrowPage ==
  ASSUME NEW m, NEW R, Sound(m, R), m.ok, m.panic = FALSE, NEW n \in Nat, NEW f, Spans(m.pt, n, f),
         NEW perm \in SUBSET {"W", "X", "U"}, NEW w, w = uvmalloc_page(m, n, perm)
  PROVE  Grown(w, m, R, n, f, perm)
<1>1. m.pt \in PageTable /\ Distinct(m.pt)
  BY SoundIs
<1>2. n \notin DOMAIN m.pt.leaf /\ n \in Nat \ Trap
  BY <1>1, BelowTraps
<1>3. m.pt.root # 0
  BY DEF Spans
<1>4. /\ Sound(w, R) /\ w.pt.root = m.pt.root /\ w.panic = m.panic
      /\ ~w.ok => w.pt.leaf = m.pt.leaf
      /\ w.ok => \E g \in Frame : w.pt.leaf = Put(m.pt.leaf, n, [pa |-> g, perm |-> perm])
  BY <1>2, <1>3, UvmallocPageIs
<1>5. CASE w.ok
  <2>1. PICK g \in Frame : w.pt.leaf = Put(m.pt.leaf, n, [pa |-> g, perm |-> perm])
    BY <1>4, <1>5
  <2>2. PICK e : e = [pa |-> g, perm |-> perm]
    OBVIOUS
  <2>3. Spans(w.pt, n + 1, f) /\ w.pt.leaf[n] = e /\ \A va \in 0 .. n - 1 : w.pt.leaf[va] = m.pt.leaf[va]
    <3>1. /\ DOMAIN w.pt.leaf = DOMAIN m.pt.leaf \cup {n} /\ w.pt.leaf[n] = e
          /\ \A x \in DOMAIN m.pt.leaf : x # n => w.pt.leaf[x] = m.pt.leaf[x]
      BY <2>1, <2>2 DEF Put
    <3>2. w.pt.root = m.pt.root
      BY <1>4
    <3> QED
      BY <1>1, <3>1, <3>2, SpansAdd
  <2> QED
    BY <1>4, <1>5, <2>2, <2>3 DEF Grown
<1>6. CASE ~w.ok
  BY <1>4, <1>6 DEF Spans, Grown
<1> QED
  BY <1>5, <1>6

\* The pages added by this call go again.
LEMMA GrowUndo ==
  ASSUME NEW m, NEW R, Sound(m, R), m.panic = FALSE, NEW f,
         NEW c, NEW old \in Nat, Growing(c, old), c.a \in Nat, c.to \in Nat, c.from \in Nat,
         Spans(m.pt, c.a \div PGSIZE, f), Guarded(m.pt, c.a \div PGSIZE),
         NEW w, w = uvmdealloc(m, c.a, c.from)
  PROVE  Sound(w, R) /\ w.panic = FALSE /\ Spans(w.pt, Up(old), f) /\ Guarded(w.pt, Up(old))
<1>1. /\ Up(c.a) = c.a \div PGSIZE /\ Up(c.from) = Up(old) /\ c.a \div PGSIZE \in Nat
  BY GrowingIs
<1>2. CASE c.from < c.a
  <2>1. /\ Sound(w, R) /\ w.panic = m.panic /\ Spans(w.pt, Up(c.from), f)
        /\ Up(c.from) <= Up(c.a) /\ \A va \in 0 .. Up(c.from) - 1 : w.pt.leaf[va] = m.pt.leaf[va]
    <3>1. PICK a \in Nat : a = c.a
      OBVIOUS
    <3>2. PICK b \in Nat : b = c.from
      OBVIOUS
    <3>3. b < a /\ Spans(m.pt, Up(a), f) /\ w = uvmdealloc(m, a, b)
      BY <1>1, <1>2, <3>1, <3>2
    <3>4. /\ Sound(w, R) /\ w.panic = m.panic /\ Spans(w.pt, Up(b), f)
          /\ Up(b) <= Up(a) /\ \A va \in 0 .. Up(b) - 1 : w.pt.leaf[va] = m.pt.leaf[va]
      BY <3>3, UvmdeallocIs
    <3> QED
      BY <3>1, <3>2, <3>4
  <2>2. PICK k \in Nat : k = Up(c.from)
    BY UpIs
  <2>3. PICK n \in Nat : n = Up(c.a)
    BY UpIs
  <2>4. Guarded(w.pt, k)
    <3>1. k <= n /\ Guarded(m.pt, n) /\ \A va \in 0 .. k - 1 : w.pt.leaf[va] = m.pt.leaf[va]
      BY <1>1, <2>1, <2>2, <2>3
    <3> QED
      BY <3>1, GuardedSame
  <2> QED
    BY <1>1, <2>1, <2>2, <2>4
<1>3. CASE ~(c.from < c.a)
  <2>1. c.from >= c.a /\ c.a = c.from
    BY <1>3 DEF Growing
  <2>2. w = m
    BY <2>1 DEF uvmdealloc
  <2> QED
    BY <1>1, <2>1, <2>2
<1> QED
  BY <1>2, <1>3

LEMMA GrowMore ==
  ASSUME NEW c, NEW old \in Nat, Growing(c, old), c.a \in Nat, c.to \in Nat, c.from \in Nat, c.a < c.to,
         NEW b, b.a = c.a + PGSIZE, b.from = c.from, b.to = c.to
  PROVE  Growing(b, old) /\ b.a \div PGSIZE = (c.a \div PGSIZE) + 1 /\ b.a \in Nat
<1>1. PICK k \in Nat : c.a = k * PGSIZE
  BY DEF Growing
<1>2. c.a \div PGSIZE = k
  BY <1>1, MulDiv
<1>3. b.a = (k + 1) * PGSIZE /\ k + 1 \in Nat
  BY <1>1, MulLess
<1>4. b.a \div PGSIZE = k + 1 /\ b.a \in Nat
  BY <1>3, MulDiv
<1>5. PGSIZE \in Nat
  BY Page
<1>6. Growing(b, old)
  BY <1>3, <1>4, <1>5 DEF Growing
<1> QED
  BY <1>2, <1>4, <1>6

\* What uvmalloc() is called for, by sbrk() or by exec().
LEMMA InUvmalloc ==
  ASSUME MInv, NEW p \in ProcSlot, syscall[p].op \in {"sbrk", "exec"}, syscall[p].at = "grow",
         NEW c, c = syscall[p], NEW old, old = (IF c.op = "exec" THEN c.sz ELSE sz[p]),
         NEW i, i = Work(p)
  PROVE  /\ i \in Table /\ old \in Nat /\ Growing(c, old) /\ st[p] = "RUNNABLE"
         /\ c.a \in Nat /\ c.to \in Nat /\ c.from \in Nat
         /\ c.perm \in SUBSET {"W", "X", "U"} /\ "U" \in c.perm
         /\ Spans(tab[i], c.a \div PGSIZE, tf[p]) /\ Guarded(tab[i], c.a \div PGSIZE)
<1>1. /\ st[p] = "RUNNABLE" /\ c \in Call /\ sz[p] \in Nat
      /\ SlotOK("RUNNABLE", tf[p], sz[p], tab[<<p, "cur">>], tab[<<p, "new">>], c)
      /\ <<p, "cur">> \in Table /\ <<p, "new">> \in Table
  BY SomeCall, Has
<1>2. CASE c.op = "sbrk"
  <2>1. c \in SbrkCall
    BY <1>1, <1>2, CallIs
  <2>2. c.a \in Nat /\ c.to \in Nat /\ c.from \in Nat /\ c.perm = {"W", "U"}
    BY <2>1 DEF SbrkCall
  <2>3. i = <<p, "cur">> /\ old = sz[p]
    BY <1>2 DEF Work
  <2>4. Growing(c, sz[p]) /\ Spans(tab[<<p, "cur">>], c.a \div PGSIZE, tf[p]) /\ Guarded(tab[<<p, "cur">>], c.a \div PGSIZE)
    BY <1>1, <1>2 DEF SlotOK, Top
  <2> QED
    BY <1>1, <2>2, <2>3, <2>4
<1>3. CASE c.op = "exec"
  <2>1. c \in ExecCall /\ ExecOK(c, tab[<<p, "new">>], tf[p]) /\ c.at = "grow"
    BY <1>3, InExec
  <2>2. c.a \in Nat /\ c.to \in Nat /\ c.from \in Nat /\ c.sz \in Nat /\ c.perm \in SUBSET {"W", "X", "U"}
    BY <2>1 DEF ExecCall
  <2>3. i = <<p, "new">> /\ old = c.sz
    BY <1>3 DEF Work
  <2>4. /\ Growing(c, c.sz) /\ "U" \in c.perm
        /\ Spans(tab[<<p, "new">>], c.a \div PGSIZE, tf[p]) /\ Guarded(tab[<<p, "new">>], c.a \div PGSIZE)
    BY <2>1 DEF ExecOK
  <2> QED
    BY <1>1, <2>2, <2>3, <2>4
<1> QED
  BY <1>2, <1>3

\* A step in which table i of process p becomes pt and its call b.
LEMMA TableAndCall ==
  ASSUME MInv, NEW p \in ProcSlot, st[p] = "RUNNABLE", NEW i \in {<<p, "cur">>, <<p, "new">>},
         NEW w, Sound(w, Others(tab, tf, i)), w.panic = FALSE, Becomes(w, i),
         NEW b \in Call, b.op # "fork", syscall' = [syscall EXCEPT ![p] = b], UNCHANGED <<tf, st, sz>>,
         SlotOK("RUNNABLE", tf[p], sz[p],
                IF i = <<p, "cur">> THEN w.pt ELSE tab[<<p, "cur">>],
                IF i = <<p, "new">> THEN w.pt ELSE tab[<<p, "new">>], b)
  PROVE  MInv'
<1>1. i \in Table
  BY DEF Table
<1>2. /\ Owned' /\ tab'[i] = w.pt
      /\ \A j \in Table : j # i => tab'[j] = tab[j]
      /\ panic' = (panic \/ w.panic)
  BY <1>1, BecomesOwned DEF MInv
<1>3. Types'
  BY <1>2 DEF MInv, Types
<1>4. \A q \in ProcSlot : q # p => Same(q)
  BY <1>2 DEF Same, MInv, Types, Table
<1>5. /\ st'[p] = "RUNNABLE" /\ tf'[p] = tf[p] /\ sz'[p] = sz[p] /\ syscall'[p] = b
      /\ tab'[<<p, "cur">>] = IF i = <<p, "cur">> THEN w.pt ELSE tab[<<p, "cur">>]
      /\ tab'[<<p, "new">>] = IF i = <<p, "new">> THEN w.pt ELSE tab[<<p, "new">>]
  BY <1>2 DEF MInv, Types, Table
<1> QED
  BY <1>2, <1>3, <1>4, <1>5, OneSlot

LEMMA UvmallocStep ==
  ASSUME MInv, NEW p \in ProcSlot, uvmalloc(p)
  PROVE  MInv'
<1>1. PICK c : c = syscall[p]
  OBVIOUS
<1>2. PICK i : i = Work(p)
  OBVIOUS
<1>3. PICK old : old = IF c.op = "exec" THEN c.sz ELSE sz[p]
  OBVIOUS
<1>4. c.op \in {"sbrk", "exec"} /\ c.at = "grow" /\ c.a < c.to
  BY <1>1 DEF uvmalloc
<1>5. /\ i \in Table /\ old \in Nat /\ Growing(c, old) /\ st[p] = "RUNNABLE"
      /\ c.a \in Nat /\ c.to \in Nat /\ c.from \in Nat
      /\ c.perm \in SUBSET {"W", "X", "U"} /\ "U" \in c.perm
      /\ Spans(tab[i], c.a \div PGSIZE, tf[p]) /\ Guarded(tab[i], c.a \div PGSIZE)
  BY <1>1, <1>2, <1>3, <1>4, InUvmalloc
<1>6. PICK n \in Nat : n = c.a \div PGSIZE
  BY <1>5, GrowingIs
<1>7. PICK m0 : m0 = Mem(tab[i])
  OBVIOUS
<1>8. Sound(m0, Others(tab, tf, i)) /\ m0.panic = FALSE /\ m0.pt = tab[i] /\ m0.ok
  BY <1>5, <1>7, MemSound DEF MInv, Mem
<1>9. PICK m : m = uvmalloc_page(m0, n, c.perm)
  OBVIOUS
<1>10. /\ Sound(m, Others(tab, tf, i)) /\ m.panic = FALSE
       /\ m.ok => /\ Spans(m.pt, n + 1, tf[p]) /\ m.pt.leaf[n].perm = c.perm
                  /\ \A va \in 0 .. n - 1 : m.pt.leaf[va] = tab[i].leaf[va]
       /\ ~m.ok => Spans(m.pt, n, tf[p]) /\ m.pt.leaf = tab[i].leaf
  <2>1. PICK perm \in SUBSET {"W", "X", "U"} : perm = c.perm
    BY <1>5
  <2>2. PICK f : f = tf[p]
    OBVIOUS
  <2>3. Spans(m0.pt, n, f) /\ m = uvmalloc_page(m0, n, perm)
    BY <1>5, <1>6, <1>8, <1>9, <2>1, <2>2
  <2>4. /\ Sound(m, Others(tab, tf, i)) /\ m.panic = FALSE
        /\ m.ok => /\ Spans(m.pt, n + 1, f) /\ m.pt.leaf[n].perm = perm
                   /\ \A va \in 0 .. n - 1 : m.pt.leaf[va] = m0.pt.leaf[va]
        /\ ~m.ok => Spans(m.pt, n, f) /\ m.pt.leaf = m0.pt.leaf
    <3>1. PICK R : R = Others(tab, tf, i)
      OBVIOUS
    <3>2. Sound(m0, R) /\ m0.ok /\ m0.panic = FALSE
      BY <1>8, <3>1
    <3>3. Grown(m, m0, R, n, f, perm)
      BY <2>3, <3>2, GrowPage
    <3> QED
      BY <3>1, <3>3 DEF Grown
  <2> QED
    BY <1>8, <2>1, <2>2, <2>4
<1>11. PICK w : w = IF m.ok THEN m ELSE uvmdealloc(m, c.a, c.from)
  OBVIOUS
<1>12. PICK b : b = IF m.ok THEN [c EXCEPT !.a = @ + PGSIZE]
                    ELSE IF c.op = "exec" THEN [c EXCEPT !.at = "bad"] ELSE NoCall
  OBVIOUS
<1>13. Becomes(w, i) /\ syscall' = [syscall EXCEPT ![p] = b] /\ UNCHANGED <<tf, st, sz>>
  BY <1>1, <1>2, <1>6, <1>7, <1>9, <1>11, <1>12 DEF uvmalloc
<1>14. CASE m.ok
  <2>1. w = m
    BY <1>11, <1>14
  <2>2. Guarded(m.pt, n + 1) /\ (Usable(tab[i], n) => Usable(m.pt, n + 1))
    <3>1. PICK pt : pt = tab[i]
      OBVIOUS
    <3>2. Guarded(pt, n) /\ (\A va \in 0 .. n - 1 : m.pt.leaf[va] = pt.leaf[va]) /\ "U" \in m.pt.leaf[n].perm
      BY <1>5, <1>6, <1>10, <1>14, <3>1
    <3> QED
      BY <3>1, <3>2, GuardedAdd
  <2>3. b = [c EXCEPT !.a = c.a + PGSIZE] /\ c.a + PGSIZE \in Nat
    BY <1>5, <1>12, <1>14, Page
  <2>4. CASE c.op = "sbrk"
    <3>1. c \in SbrkCall /\ i = <<p, "cur">> /\ old = sz[p]
      BY <1>1, <1>2, <1>3, <2>4, Has, CallIs DEF Work
    <3>2. b \in SbrkCall /\ b.op = "sbrk" /\ b.a = c.a + PGSIZE /\ b.from = c.from /\ b.to = c.to
      BY <2>3, <3>1 DEF SbrkCall
    <3>3. Growing(b, old) /\ b.a \div PGSIZE = n + 1
      BY <1>4, <1>5, <1>6, <3>2, GrowMore
    <3>4. SlotOK("RUNNABLE", tf[p], sz[p], tab[<<p, "cur">>], tab[<<p, "new">>], c)
      BY <1>1, <1>5, Has
    <3>5. tf[p] # 0 /\ tab[<<p, "new">>] = NoTable
      BY <2>4, <3>4 DEF SlotOK
    <3>6. SlotOK("RUNNABLE", tf[p], sz[p], m.pt, tab[<<p, "new">>], b)
      BY <1>10, <1>14, <2>2, <3>1, <3>2, <3>3, <3>5 DEF SlotOK, Top
    <3>7. b \in Call
      BY <3>2 DEF Call
    <3>8. <<p, "cur">> # <<p, "new">>
      OBVIOUS
    <3> QED
      BY <1>5, <1>10, <1>13, <2>1, <3>1, <3>2, <3>6, <3>7, <3>8, TableAndCall
  <2>5. CASE c.op = "exec"
    <3>1. c \in ExecCall /\ i = <<p, "new">> /\ old = c.sz
      BY <1>1, <1>2, <1>3, <2>5, Has, CallIs DEF Work
    <3>2. ExecOK(c, tab[i], tf[p])
      BY <1>1, <2>5, <3>1, InExec
    <3>3. /\ b \in ExecCall /\ b.op = "exec" /\ b.at = "grow" /\ b.a = c.a + PGSIZE /\ b.from = c.from /\ b.to = c.to
          /\ b.sz = c.sz /\ b.seg = c.seg /\ b.img = c.img /\ b.perm = c.perm
      BY <1>4, <2>3, <3>1 DEF ExecCall
    <3>4. Growing(b, old) /\ b.a \div PGSIZE = n + 1
      BY <1>4, <1>5, <1>6, <3>3, GrowMore
    <3>5. Wanted(b) = Wanted(c)
      BY <3>3 DEF Wanted
    <3>6. Usable(tab[i], n) /\ c.seg <= Len(c.img) + 1 /\ c.to = Wanted(c).to /\ c.to >= c.sz
      BY <1>4, <1>6, <3>2 DEF ExecOK
    <3>7. ExecOK(b, m.pt, tf[p])
      BY <1>5, <1>10, <1>14, <2>2, <3>1, <3>3, <3>4, <3>5, <3>6 DEF ExecOK
    <3>8. tf[p] # 0 /\ Spans(tab[<<p, "cur">>], Up(sz[p]), tf[p]) /\ Guarded(tab[<<p, "cur">>], Up(sz[p]))
      BY <1>1, <2>5, InExec
    <3>9. SlotOK("RUNNABLE", tf[p], sz[p], tab[<<p, "cur">>], m.pt, b)
      BY <3>3, <3>7, <3>8 DEF SlotOK, Top
    <3>10. b \in Call
      BY <3>3 DEF Call
    <3>11. <<p, "cur">> # <<p, "new">>
      OBVIOUS
    <3> QED
      BY <1>5, <1>10, <1>13, <2>1, <3>1, <3>3, <3>9, <3>10, <3>11, TableAndCall
  <2> QED
    BY <1>4, <2>4, <2>5
<1>15. CASE ~m.ok
  <2>1. w = uvmdealloc(m, c.a, c.from)
    BY <1>11, <1>15
  <2>2. Guarded(m.pt, c.a \div PGSIZE)
    BY <1>5, <1>10, <1>15 DEF Guarded
  <2>3. Sound(w, Others(tab, tf, i)) /\ w.panic = FALSE /\ Spans(w.pt, Up(old), tf[p]) /\ Guarded(w.pt, Up(old))
    BY <1>5, <1>6, <1>10, <1>15, <2>1, <2>2, GrowUndo
  <2>4. CASE c.op = "sbrk"
    <3>1. b = NoCall /\ i = <<p, "cur">> /\ old = sz[p]
      BY <1>1, <1>2, <1>3, <1>12, <1>15, <2>4 DEF Work
    <3>2. SlotOK("RUNNABLE", tf[p], sz[p], tab[<<p, "cur">>], tab[<<p, "new">>], c)
      BY <1>1, <1>5, Has
    <3>3. tf[p] # 0 /\ tab[<<p, "new">>] = NoTable
      BY <2>4, <3>2 DEF SlotOK
    <3>4. SlotOK("RUNNABLE", tf[p], sz[p], w.pt, tab[<<p, "new">>], NoCall)
      BY <2>3, <3>1, <3>3 DEF SlotOK, Top, NoCall
    <3>5. NoCall \in Call /\ NoCall.op # "fork"
      BY DEF Call, NoCall
    <3>6. <<p, "cur">> # <<p, "new">>
      OBVIOUS
    <3> QED
      BY <1>5, <1>13, <2>3, <3>1, <3>4, <3>5, <3>6, TableAndCall
  <2>5. CASE c.op = "exec"
    <3>1. c \in ExecCall /\ i = <<p, "new">> /\ old = c.sz /\ b = [c EXCEPT !.at = "bad"]
      BY <1>1, <1>2, <1>3, <1>12, <1>15, <2>5, Has, CallIs DEF Work
    <3>2. b \in ExecCall /\ b.op = "exec" /\ b.at = "bad" /\ b.sz = c.sz
      BY <3>1 DEF ExecCall
    <3>3. ExecOK(b, w.pt, tf[p])
      BY <2>3, <3>1, <3>2 DEF ExecOK
    <3>4. tf[p] # 0 /\ Spans(tab[<<p, "cur">>], Up(sz[p]), tf[p]) /\ Guarded(tab[<<p, "cur">>], Up(sz[p]))
      BY <1>1, <2>5, InExec
    <3>5. SlotOK("RUNNABLE", tf[p], sz[p], tab[<<p, "cur">>], w.pt, b)
      BY <3>2, <3>3, <3>4 DEF SlotOK, Top
    <3>6. b \in Call
      BY <3>2 DEF Call
    <3>7. <<p, "cur">> # <<p, "new">>
      OBVIOUS
    <3> QED
      BY <1>5, <1>13, <2>3, <3>1, <3>2, <3>5, <3>6, <3>7, TableAndCall
  <2> QED
    BY <1>4, <2>4, <2>5
<1> QED
  BY <1>14, <1>15

\* Slot q was given back.
Freed(q) ==
  /\ Owned' /\ panic' = FALSE /\ tab'[<<q, "cur">>] = NoTable
  /\ \A j \in Table : j # <<q, "cur">> => tab'[j] = tab[j]
  /\ tf' = [tf EXCEPT ![q] = 0] /\ sz' = [sz EXCEPT ![q] = 0] /\ st' = [st EXCEPT ![q] = "UNUSED"]

\* The trapframe and the memory of slot q are given back.
LEMMA FreeprocIs ==
  ASSUME MInv, NEW q \in ProcSlot, freeproc(q), tf[q] # 0, NEW pt, pt = tab[<<q, "cur">>],
         pt = NoTable \/ Spans(pt, Up(sz[q]), tf[q])
  PROVE  Freed(q)
<1>1. PICK i : i = <<q, "cur">>
  OBVIOUS
<1>2. tab[i] = NoTable \/ Spans(tab[i], Up(sz[q]), tf[q])
  BY <1>1
<1>3. i \in Table /\ sz[q] \in Nat /\ tf[q] \in Frame
  BY <1>1, Has
<1>4. PICK f \in Frame : f = tf[q]
  BY <1>3
<1>5. Keep(freelist, tab, tf)
  BY DEF MInv, Owned
<1>6. PICK h : h = [tf EXCEPT ![q] = 0]
  OBVIOUS
<1>7. tf \in [ProcSlot -> Frame \cup {0}] /\ tab \in [Table -> PageTable]
  BY <1>5 DEF Keep
<1>8. /\ h \in [ProcSlot -> Frame \cup {0}] /\ h[q] = 0
      /\ \A p \in ProcSlot : p # q => h[p] = tf[p]
  BY <1>6, <1>7
<1>9. f # 0 /\ 0 \notin Frame
  BY <1>4, SlotAssumption
<1>10. \A g : g \in Traps(tf) <=> \E p \in ProcSlot : tf[p] = g /\ g # 0
  BY DEF Traps
<1>11. \A g : g \in Traps(h) <=> \E p \in ProcSlot : h[p] = g /\ g # 0
  BY DEF Traps
<1>12. \A p, r \in ProcSlot : tf[p] = tf[r] /\ tf[p] # 0 => p = r
  BY <1>5 DEF Keep
<1>13. \A g : g \in Traps(h) <=> g \in Traps(tf) /\ g # f
  BY <1>4, <1>8, <1>9, <1>10, <1>11, <1>12
<1>14. f \in Traps(tf) /\ f \notin kvmmake
  BY <1>4, <1>5, <1>9, <1>10 DEF Keep
<1>15. ASSUME NEW j \in Table, NEW g \in Own(tab[j])
       PROVE  g \notin Traps(tf)
  <2>1. Apart(freelist, tab[j], Others(tab, tf, j))
    BY <1>5 DEF Keep
  <2>2. g \notin Others(tab, tf, j)
    BY <2>1 DEF Apart
  <2> QED
    BY <2>2 DEF Others
<1>16. PICK R : R = Others(tab, tf, i)
  OBVIOUS
<1>17. f \in R /\ R \ {f} = Others(tab, h, i)
  <2>1. f \in R
    BY <1>14, <1>16 DEF Others
  <2>2. \A g : g \in R <=> g \in kvmmake \/ g \in Traps(tf) \/ \E j \in Table \ {i} : g \in Own(tab[j])
    BY <1>16 DEF Others
  <2>3. \A g : g \in Others(tab, h, i) <=> g \in kvmmake \/ g \in Traps(h) \/ \E j \in Table \ {i} : g \in Own(tab[j])
    BY DEF Others
  <2>4. \A j \in Table : f \notin Own(tab[j])
    BY <1>14, <1>15
  <2>5. \A g : g \in R \ {f} <=> g \in Others(tab, h, i)
    BY <1>13, <1>14, <2>2, <2>3, <2>4
  <2> QED
    BY <2>1, <2>5
<1>18. PICK m0 : m0 = Mem(tab[i])
  OBVIOUS
<1>19. Sound(m0, R) /\ m0.panic = FALSE /\ m0.pt = tab[i]
  BY <1>3, <1>16, <1>18, MemSound DEF MInv, Mem
<1>20. PICK fs : fs = [x \in {0} |-> f]
  OBVIOUS
<1>21. PICK fr : fr = kfree(m0.free, fs)
  OBVIOUS
<1>22. PICK m : m = [m0 EXCEPT !.free = fr]
  OBVIOUS
<1>23. Sound(m, R \ {f}) /\ m.pt = m0.pt /\ m.panic = m0.panic
  BY <1>17, <1>19, <1>20, <1>21, <1>22, GiveBack
<1>24. PICK w : w = IF m.pt.root # 0 THEN proc_freepagetable(m, sz[q]) ELSE m
  OBVIOUS
<1>25. Sound(w, Others(tab, h, i)) /\ w.pt = NoTable /\ w.panic = FALSE
  <2>1. CASE tab[i] = NoTable
    <3>1. w = m
      BY <1>19, <1>23, <1>24, <2>1, NoTableIs
    <3> QED
      BY <1>17, <1>19, <1>23, <2>1, <3>1
  <2>2. CASE Spans(tab[i], Up(sz[q]), tf[q])
    <3>1. m.pt.root # 0 /\ Spans(m.pt, Up(sz[q]), f)
      BY <1>4, <1>19, <1>23, <2>2 DEF Spans
    <3>2. w = proc_freepagetable(m, sz[q])
      BY <1>24, <3>1
    <3>3. PICK Q : Q = R \ {f}
      OBVIOUS
    <3>4. Sound(m, Q) /\ m.panic = FALSE
      BY <1>19, <1>23, <3>3
    <3>5. Sound(w, Q) /\ w.pt = NoTable /\ w.panic = FALSE
      BY <1>3, <3>1, <3>2, <3>4, ProcFreepagetableIs
    <3> QED
      BY <1>17, <3>3, <3>5
  <2> QED
    BY <1>2, <2>1, <2>2
<1>26. /\ Becomes(w, i) /\ tf' = h /\ sz' = [sz EXCEPT ![q] = 0] /\ st' = [st EXCEPT ![q] = "UNUSED"]
  <2>1. m = [Mem(tab[i]) EXCEPT !.free = IF tf[q] # 0 THEN kfree(@, [x \in {0} |-> tf[q]]) ELSE @]
    BY <1>4, <1>9, <1>18, <1>20, <1>21, <1>22
  <2> QED
    BY <1>6, <1>24, <1>1, <2>1 DEF freeproc
<1>27. freelist' = w.free /\ tab' = [tab EXCEPT ![i] = w.pt] /\ panic' = (panic \/ w.panic)
  BY <1>26 DEF Becomes
<1>28. \A p \in ProcSlot : h[p] \notin kvmmake
  <2>1. \A p \in ProcSlot : tf[p] \notin kvmmake
    BY <1>5 DEF Keep
  <2>2. 0 \notin kvmmake
    BY <1>9 DEF kvmmake, proc_mapstacks
  <2> QED
    BY <1>8, <2>1, <2>2
<1>29. \A p, r \in ProcSlot : h[p] = h[r] /\ h[p] # 0 => p = r
  BY <1>8, <1>12
<1>30. \A j \in Table : j # i => \A g \in Own(tab[j]) : g \notin Traps(h)
  BY <1>13, <1>15
<1>31. Keep(w.free, tab', h)
  BY <1>3, <1>5, <1>8, <1>25, <1>27, <1>28, <1>29, <1>30, KeepStep
<1>32. Owned'
  BY <1>26, <1>27, <1>31 DEF Owned
<1>33. panic' = FALSE
  BY <1>25, <1>27 DEF MInv, Types
<1> QED
  BY <1>3, <1>6, <1>7, <1>25, <1>26, <1>27, <1>32, <1>33, <1>1 DEF Freed

\* An unused slot has nothing.
LEMMA Empty == SlotOK("UNUSED", 0, 0, NoTable, NoTable, NoCall)
BY DEF SlotOK, NoCall

LEMMA WaitStep ==
  ASSUME MInv, NEW p \in ProcSlot, NEW q \in ProcSlot, NEW addr, wait(p, q, addr)
  PROVE  MInv'
<1>1. st[q] = "ZOMBIE" /\ freeproc(q) /\ UNCHANGED syscall
  BY DEF wait
<1>2. SlotOK("ZOMBIE", tf[q], sz[q], tab[<<q, "cur">>], tab[<<q, "new">>], syscall[q])
  BY <1>1, Has
<1>3. syscall[q] = NoCall
  BY <1>2 DEF SlotOK
<1>4. tf[q] # 0 /\ Spans(tab[<<q, "cur">>], Up(sz[q]), tf[q]) /\ tab[<<q, "new">>] = NoTable
  BY <1>2, <1>3 DEF SlotOK, Top, NoCall
<1>5. PICK i : i = <<q, "cur">>
  OBVIOUS
<1>6. /\ Owned' /\ panic' = FALSE /\ tab'[i] = NoTable
      /\ \A j \in Table : j # i => tab'[j] = tab[j]
      /\ tf' = [tf EXCEPT ![q] = 0] /\ sz' = [sz EXCEPT ![q] = 0] /\ st' = [st EXCEPT ![q] = "UNUSED"]
  <2>1. Freed(q)
    BY <1>1, <1>4, FreeprocIs
  <2> QED
    BY <1>5, <2>1 DEF Freed
<1>7. tf \in [ProcSlot -> Frame \cup {0}]
  BY DEF MInv, Owned, Keep
<1>8. Types'
  BY <1>1, <1>6 DEF MInv, Types
<1>9. \A r \in ProcSlot : r # q => Same(r)
  BY <1>1, <1>5, <1>6, <1>7 DEF Same, MInv, Types, Table
<1>10. /\ st'[q] = "UNUSED" /\ tf'[q] = 0 /\ sz'[q] = 0 /\ tab'[<<q, "cur">>] = NoTable
       /\ tab'[<<q, "new">>] = NoTable /\ syscall'[q] = NoCall
  BY <1>1, <1>3, <1>4, <1>5, <1>6, <1>7 DEF MInv, Types, Table
<1>11. syscall'[q].op # "fork"
  BY <1>10 DEF NoCall
<1> QED
  BY <1>1, <1>6, <1>8, <1>9, <1>10, <1>11, Empty, OneSlot

LEMMA InFork ==
  ASSUME MInv, NEW p \in ProcSlot, syscall[p].op = "fork"
  PROVE  /\ syscall[p].np \in ProcSlot /\ syscall[p].np # p /\ syscall[p] \in ForkCall /\ st[p] = "RUNNABLE"
         /\ st[syscall[p].np] = "USED"
         /\ \A q \in ProcSlot : q # p /\ syscall[q].op = "fork" => syscall[q].np # syscall[p].np
         /\ ChildOK(syscall[p], sz[p], tab[<<p, "cur">>], st[syscall[p].np], tf[syscall[p].np],
                    tab[<<syscall[p].np, "cur">>])
         /\ syscall[syscall[p].np] = NoCall /\ tab[<<syscall[p].np, "new">>] = NoTable
         /\ tf[syscall[p].np] # 0 /\ tf[syscall[p].np] \in Frame /\ sz[syscall[p].np] = 0
         /\ tf[p] # 0 /\ Spans(tab[<<p, "cur">>], Up(sz[p]), tf[p]) /\ Guarded(tab[<<p, "cur">>], Up(sz[p]))
         /\ tab[<<p, "new">>] = NoTable
<1>1. syscall[p] \in ForkCall /\ st[p] = "RUNNABLE"
  BY SomeCall, Has, CallIs
<1>2. PICK np \in ProcSlot : np = syscall[p].np
  BY <1>1 DEF ForkCall
<1>3. /\ ChildOK(syscall[p], sz[p], tab[<<p, "cur">>], st[np], tf[np], tab[<<np, "cur">>])
      /\ \A q \in ProcSlot : syscall[q].op = "fork" /\ syscall[q].np = np => q = p
  BY <1>2 DEF MInv, Forks
<1>4. st[np] = "USED"
  BY <1>3 DEF ChildOK
<1>5. SlotOK("USED", tf[np], sz[np], tab[<<np, "cur">>], tab[<<np, "new">>], syscall[np])
  BY <1>4, Has
<1>6. syscall[np] = NoCall /\ tab[<<np, "new">>] = NoTable /\ tf[np] # 0 /\ sz[np] = 0
  BY <1>5 DEF SlotOK, NoCall
<1>7. tf[np] \in Frame
  BY <1>6, Has
<1>8. SlotOK("RUNNABLE", tf[p], sz[p], tab[<<p, "cur">>], tab[<<p, "new">>], syscall[p])
  BY <1>1, Has
<1>9. /\ tf[p] # 0 /\ Spans(tab[<<p, "cur">>], Up(sz[p]), tf[p]) /\ Guarded(tab[<<p, "cur">>], Up(sz[p]))
      /\ tab[<<p, "new">>] = NoTable
  BY <1>8 DEF SlotOK, Top
<1> QED
  BY <1>1, <1>2, <1>3, <1>4, <1>6, <1>7, <1>9

\* fork() gives its child back.
LEMMA ForkUndone ==
  ASSUME MInv, NEW p \in ProcSlot, syscall[p].op = "fork", NEW np \in ProcSlot, np = syscall[p].np, Freed(np), Return(p)
  PROVE  MInv'
<1>1. /\ np # p /\ st[p] = "RUNNABLE" /\ syscall[np] = NoCall /\ tab[<<np, "new">>] = NoTable
      /\ \A q \in ProcSlot : q # p /\ syscall[q].op = "fork" => syscall[q].np # np
      /\ tf[p] # 0 /\ Spans(tab[<<p, "cur">>], Up(sz[p]), tf[p]) /\ Guarded(tab[<<p, "cur">>], Up(sz[p]))
      /\ tab[<<p, "new">>] = NoTable
  BY InFork
<1>2. /\ Owned' /\ panic' = FALSE /\ tab'[<<np, "cur">>] = NoTable
      /\ \A j \in Table : j # <<np, "cur">> => tab'[j] = tab[j]
      /\ tf' = [tf EXCEPT ![np] = 0] /\ sz' = [sz EXCEPT ![np] = 0] /\ st' = [st EXCEPT ![np] = "UNUSED"]
  BY DEF Freed
<1>3. syscall' = [syscall EXCEPT ![p] = NoCall]
  BY DEF Return
<1>4. tf \in [ProcSlot -> Frame \cup {0}]
  BY DEF MInv, Owned, Keep
<1>5. NoCall \in Call
  BY DEF Call
<1>6. Types'
  BY <1>2, <1>3, <1>5 DEF MInv, Types
<1>7. \A r \in ProcSlot : r # p /\ r # np => Same(r)
  BY <1>2, <1>3, <1>4 DEF Same, MInv, Types, Table
<1>8. /\ st'[np] = "UNUSED" /\ tf'[np] = 0 /\ sz'[np] = 0 /\ tab'[<<np, "cur">>] = NoTable
      /\ tab'[<<np, "new">>] = NoTable /\ syscall'[np] = NoCall
  BY <1>1, <1>2, <1>3, <1>4 DEF MInv, Types, Table
<1>9. /\ st'[p] = "RUNNABLE" /\ tf'[p] = tf[p] /\ sz'[p] = sz[p] /\ tab'[<<p, "cur">>] = tab[<<p, "cur">>]
      /\ tab'[<<p, "new">>] = NoTable /\ syscall'[p] = NoCall
  BY <1>1, <1>2, <1>3, <1>4 DEF MInv, Types, Table
<1>10. SlotOK("RUNNABLE", tf[p], sz[p], tab[<<p, "cur">>], NoTable, NoCall)
  BY <1>1 DEF SlotOK, Top, NoCall
<1>11. syscall'[np].op # "fork" /\ syscall'[p].op # "fork"
  BY <1>8, <1>9 DEF NoCall
<1>12. SlotOK(st'[p], tf'[p], sz'[p], tab'[<<p, "cur">>], tab'[<<p, "new">>], syscall'[p])
  BY <1>9, <1>10
<1>13. SlotOK(st'[np], tf'[np], sz'[np], tab'[<<np, "cur">>], tab'[<<np, "new">>], syscall'[np])
  BY <1>8, Empty
<1> QED
  BY <1>1, <1>2, <1>6, <1>7, <1>11, <1>12, <1>13, TwoSlots

LEMMA ForkFailStep ==
  ASSUME MInv, NEW p \in ProcSlot, fork_fail(p)
  PROVE  MInv'
<1>1. syscall[p].op = "fork" /\ syscall[p].i = -2 /\ freeproc(syscall[p].np) /\ Return(p)
  BY DEF fork_fail
<1>2. PICK np \in ProcSlot : np = syscall[p].np
  BY <1>1, InFork
<1>3. /\ ChildOK(syscall[p], sz[p], tab[<<p, "cur">>], st[np], tf[np], tab[<<np, "cur">>])
      /\ tf[np] # 0 /\ sz[np] = 0
  BY <1>1, <1>2, InFork
<1>4. Spans(tab[<<np, "cur">>], Up(sz[np]), tf[np])
  BY <1>1, <1>3, UpZero DEF ChildOK
<1>5. Freed(np)
  BY <1>1, <1>2, <1>3, <1>4, FreeprocIs
<1> QED
  BY <1>1, <1>2, <1>5, ForkUndone

LEMMA ForkDoneStep ==
  ASSUME MInv, NEW p \in ProcSlot, fork_done(p)
  PROVE  MInv'
<1>1. PICK c : c = syscall[p]
  OBVIOUS
<1>2. /\ c.op = "fork" /\ c.i >= 0 /\ c.i * PGSIZE >= sz[p] /\ Return(p)
      /\ sz' = [sz EXCEPT ![c.np] = sz[p]] /\ st' = [st EXCEPT ![c.np] = "RUNNABLE"]
      /\ UNCHANGED <<freelist, tab, tf, panic>>
  BY <1>1 DEF fork_done
<1>3. PICK np \in ProcSlot : np = c.np
  BY <1>1, <1>2, InFork
<1>4. /\ np # p /\ st[p] = "RUNNABLE" /\ syscall[np] = NoCall /\ tab[<<np, "new">>] = NoTable
      /\ \A q \in ProcSlot : q # p /\ syscall[q].op = "fork" => syscall[q].np # np
      /\ ChildOK(c, sz[p], tab[<<p, "cur">>], st[np], tf[np], tab[<<np, "cur">>])
      /\ tf[p] # 0 /\ Spans(tab[<<p, "cur">>], Up(sz[p]), tf[p]) /\ Guarded(tab[<<p, "cur">>], Up(sz[p]))
      /\ tab[<<p, "new">>] = NoTable /\ tf[np] # 0 /\ c \in ForkCall
  BY <1>1, <1>2, <1>3, InFork
<1>5. syscall' = [syscall EXCEPT ![p] = NoCall]
  BY <1>2 DEF Return
<1>6. sz[p] \in Nat /\ c.i \in Nat
  BY <1>2, <1>4, Has DEF ForkCall
<1>7. c.i = Up(sz[p])
  <2>1. Up(sz[p]) <= c.i /\ Up(sz[p]) \in Nat
    BY <1>2, <1>6, UpLess, UpIs, MulLess
  <2>2. c.i <= Up(sz[p])
    BY <1>4, <1>6, <2>1 DEF ChildOK
  <2> QED
    BY <1>6, <2>1, <2>2
<1>8. /\ Spans(tab[<<np, "cur">>], Up(sz[p]), tf[np])
      /\ \A va \in 0 .. Up(sz[p]) - 1 : tab[<<np, "cur">>].leaf[va].perm = tab[<<p, "cur">>].leaf[va].perm
  BY <1>2, <1>4, <1>7 DEF ChildOK
<1>9. Guarded(tab[<<np, "cur">>], Up(sz[p]))
  BY <1>4, <1>8 DEF Guarded
<1>10. NoCall \in Call
  BY DEF Call
<1>11. Types'
  BY <1>2, <1>3, <1>5, <1>6, <1>10 DEF MInv, Types
<1>12. Owned'
  BY <1>2 DEF MInv, Owned
<1>13. \A r \in ProcSlot : r # p /\ r # np => Same(r)
  BY <1>2, <1>3, <1>5 DEF Same, MInv, Types
<1>14. /\ st'[np] = "RUNNABLE" /\ tf'[np] = tf[np] /\ sz'[np] = sz[p] /\ tab'[<<np, "cur">>] = tab[<<np, "cur">>]
       /\ tab'[<<np, "new">>] = NoTable /\ syscall'[np] = NoCall
  BY <1>2, <1>3, <1>4, <1>5 DEF MInv, Types
<1>15. /\ st'[p] = "RUNNABLE" /\ tf'[p] = tf[p] /\ sz'[p] = sz[p] /\ tab'[<<p, "cur">>] = tab[<<p, "cur">>]
       /\ tab'[<<p, "new">>] = NoTable /\ syscall'[p] = NoCall
  BY <1>2, <1>3, <1>4, <1>5 DEF MInv, Types
<1>16. SlotOK("RUNNABLE", tf[p], sz[p], tab[<<p, "cur">>], NoTable, NoCall)
  BY <1>4 DEF SlotOK, Top, NoCall
<1>17. SlotOK("RUNNABLE", tf[np], sz[p], tab[<<np, "cur">>], NoTable, NoCall)
  BY <1>4, <1>8, <1>9 DEF SlotOK, Top, NoCall
<1>18. SlotOK(st'[p], tf'[p], sz'[p], tab'[<<p, "cur">>], tab'[<<p, "new">>], syscall'[p])
  BY <1>15, <1>16
<1>19. SlotOK(st'[np], tf'[np], sz'[np], tab'[<<np, "cur">>], tab'[<<np, "new">>], syscall'[np])
  BY <1>14, <1>17
<1>20. syscall'[np].op # "fork" /\ syscall'[p].op # "fork"
  BY <1>14, <1>15 DEF NoCall
<1> QED
  BY <1>4, <1>11, <1>12, <1>13, <1>18, <1>19, <1>20, TwoSlots

\* The child's table becomes w and the call of fork() b.
LEMMA ChildAndCall ==
  ASSUME MInv, NEW p \in ProcSlot, syscall[p].op = "fork", NEW np \in ProcSlot, np = syscall[p].np,
         NEW i, i = <<np, "cur">>,
         NEW w, Sound(w, Others(tab, tf, i)), w.panic = FALSE, Becomes(w, i),
         NEW b \in ForkCall, b.np = np, syscall' = [syscall EXCEPT ![p] = b], UNCHANGED <<tf, st, sz>>,
         ChildOK(b, sz[p], tab[<<p, "cur">>], "USED", tf[np], w.pt)
  PROVE  MInv'
<1>1. /\ np # p /\ st[p] = "RUNNABLE" /\ syscall[np] = NoCall /\ tab[<<np, "new">>] = NoTable
      /\ \A q \in ProcSlot : q # p /\ syscall[q].op = "fork" => syscall[q].np # np
      /\ tf[p] # 0 /\ Spans(tab[<<p, "cur">>], Up(sz[p]), tf[p]) /\ Guarded(tab[<<p, "cur">>], Up(sz[p]))
      /\ tab[<<p, "new">>] = NoTable /\ tf[np] # 0 /\ sz[np] = 0 /\ st[np] = "USED"
  BY InFork
<1>2. i \in Table
  BY DEF Table
<1>3. /\ Owned' /\ tab'[i] = w.pt
      /\ \A j \in Table : j # i => tab'[j] = tab[j]
      /\ panic' = (panic \/ w.panic)
  BY <1>2, BecomesOwned DEF MInv
<1>4. b \in Call /\ b.op = "fork"
  BY DEF Call, ForkCall
<1>5. Types'
  BY <1>3, <1>4 DEF MInv, Types
<1>6. \A r \in ProcSlot : r # p /\ r # np => Same(r)
  BY <1>3 DEF Same, MInv, Types, Table
<1>7. /\ st'[np] = "USED" /\ tf'[np] = tf[np] /\ sz'[np] = 0 /\ tab'[<<np, "cur">>] = w.pt
      /\ tab'[<<np, "new">>] = NoTable /\ syscall'[np] = NoCall
  BY <1>1, <1>3 DEF MInv, Types, Table
<1>8. /\ st'[p] = "RUNNABLE" /\ tf'[p] = tf[p] /\ sz'[p] = sz[p] /\ tab'[<<p, "cur">>] = tab[<<p, "cur">>]
      /\ tab'[<<p, "new">>] = NoTable /\ syscall'[p] = b
  BY <1>1, <1>3 DEF MInv, Types, Table
<1>9. SlotOK("RUNNABLE", tf[p], sz[p], tab[<<p, "cur">>], NoTable, b)
  BY <1>1, <1>4 DEF SlotOK, Top
<1>10. SlotOK("USED", tf[np], 0, w.pt, NoTable, NoCall)
  BY <1>1 DEF SlotOK, NoCall
<1>11. SlotOK(st'[p], tf'[p], sz'[p], tab'[<<p, "cur">>], tab'[<<p, "new">>], syscall'[p])
  BY <1>8, <1>9
<1>12. SlotOK(st'[np], tf'[np], sz'[np], tab'[<<np, "cur">>], tab'[<<np, "new">>], syscall'[np])
  BY <1>7, <1>10
<1>13. ChildOK(syscall'[p], sz'[p], tab'[<<p, "cur">>], st'[np], tf'[np], tab'[<<np, "cur">>])
  BY <1>7, <1>8
<1>14. syscall'[np].op # "fork" /\ syscall'[p].np = np
  BY <1>7, <1>8 DEF NoCall
<1> QED
  BY <1>1, <1>3, <1>5, <1>6, <1>11, <1>12, <1>13, <1>14, TwoSlots

LEMMA ForkPagetableStep ==
  ASSUME MInv, NEW p \in ProcSlot, fork_pagetable(p)
  PROVE  MInv'
<1>1. PICK c : c = syscall[p]
  OBVIOUS
<1>2. c.op = "fork" /\ c.i = -1
  BY <1>1 DEF fork_pagetable
<1>3. PICK np \in ProcSlot : np = c.np
  BY <1>1, <1>2, InFork
<1>4. /\ ChildOK(c, sz[p], tab[<<p, "cur">>], st[np], tf[np], tab[<<np, "cur">>])
      /\ tf[np] # 0 /\ tf[np] \in Frame /\ sz[np] = 0 /\ c \in ForkCall
  BY <1>1, <1>2, <1>3, InFork
<1>5. tab[<<np, "cur">>] = NoTable
  BY <1>2, <1>4 DEF ChildOK
<1>6. PICK m : m = proc_pagetable(tf[np])
  OBVIOUS
<1>7. CASE m.ok
  <2>1. PICK i : i = <<np, "cur">>
    OBVIOUS
  <2>2. i \in Table
    BY <2>1 DEF Table
  <2>3. PICK R : R = Others(tab, tf, i)
    OBVIOUS
  <2>4. Sound(Mem(NoTable), R)
    BY <1>5, <2>1, <2>2, <2>3, MemSound DEF MInv
  <2>5. Sound(m, R) /\ m.panic = FALSE /\ Spans(m.pt, 0, tf[np])
    BY <1>4, <1>6, <1>7, <2>4, ProcPagetableIs
  <2>6. PICK b : b = [c EXCEPT !.i = 0]
    OBVIOUS
  <2>7. Becomes(m, i) /\ syscall' = [syscall EXCEPT ![p] = b] /\ UNCHANGED <<tf, st, sz>>
    BY <1>1, <1>3, <1>6, <1>7, <2>1, <2>6 DEF fork_pagetable, MInv, Types
  <2>8. b \in ForkCall /\ b.np = np /\ b.i = 0
    BY <1>3, <1>4, <2>6 DEF ForkCall
  <2>9. 0 \in -2 .. Up(sz[p])
    <3>1. Up(sz[p]) \in Nat
      BY Has, UpIs
    <3> QED
      BY <3>1
  <2>10. ChildOK(b, sz[p], tab[<<p, "cur">>], "USED", tf[np], m.pt)
    BY <2>5, <2>8, <2>9 DEF ChildOK
  <2> QED
    BY <1>1, <1>2, <1>3, <2>1, <2>3, <2>5, <2>7, <2>8, <2>10, ChildAndCall
<1>8. CASE ~m.ok
  <2>1. freeproc(np) /\ Return(p)
    BY <1>1, <1>3, <1>6, <1>8 DEF fork_pagetable
  <2>2. Freed(np)
    BY <1>4, <1>5, <2>1, FreeprocIs
  <2> QED
    BY <1>1, <1>2, <1>3, <2>1, <2>2, ForkUndone
<1> QED
  BY <1>7, <1>8

LEMMA UvmcopyStep ==
  ASSUME MInv, NEW p \in ProcSlot, uvmcopy(p)
  PROVE  MInv'
<1>1. PICK c : c = syscall[p]
  OBVIOUS
<1>2. PICK n : n = c.i
  OBVIOUS
<1>3. c.op = "fork" /\ n >= 0 /\ n * PGSIZE < sz[p] /\ UNCHANGED <<tf, st, sz>>
  BY <1>1, <1>2 DEF uvmcopy
<1>4. PICK np \in ProcSlot : np = c.np
  BY <1>1, <1>3, InFork
<1>5. /\ ChildOK(c, sz[p], tab[<<p, "cur">>], st[np], tf[np], tab[<<np, "cur">>])
      /\ Spans(tab[<<p, "cur">>], Up(sz[p]), tf[p]) /\ c \in ForkCall
  BY <1>1, <1>3, <1>4, InFork
<1>6. PICK old \in PageTable : old = tab[<<p, "cur">>]
  BY Has
<1>7. PICK i : i = <<np, "cur">>
  OBVIOUS
<1>8. n \in Nat /\ sz[p] \in Nat
  <2>1. n \in Int
    BY <1>2, <1>5 DEF ForkCall
  <2>2. sz[p] \in Nat
    BY Has
  <2> QED
    BY <1>3, <2>1, <2>2
<1>9. n < Up(sz[p]) /\ Up(sz[p]) \in Nat
  BY <1>3, <1>8, UpLess, UpIs
<1>10. n \in DOMAIN old.leaf
  BY <1>5, <1>6, <1>8, <1>9 DEF Spans
<1>11. PICK perm \in SUBSET {"W", "X", "U"} : perm = old.leaf[n].perm
  <2>1. old.leaf \in Leaves
    BY DEF PageTable
  <2>2. old.leaf[n] \in Pte
    BY <1>10, <2>1, LeavesIs
  <2> QED
    BY <2>2 DEF Pte
<1>12. PICK f : f = tf[np]
  OBVIOUS
<1>13. /\ Spans(tab[i], n, f)
       /\ \A va \in 0 .. n - 1 : tab[i].leaf[va].perm = old.leaf[va].perm
  BY <1>2, <1>3, <1>5, <1>6, <1>7, <1>12 DEF ChildOK
<1>14. i \in Table
  BY <1>7 DEF Table
<1>15. PICK R : R = Others(tab, tf, i)
  OBVIOUS
<1>16. PICK m0 : m0 = Mem(tab[i])
  OBVIOUS
<1>17. Sound(m0, R) /\ m0.panic = FALSE /\ m0.pt = tab[i] /\ m0.ok
  BY <1>14, <1>15, <1>16, MemSound DEF MInv, Mem
<1>18. PICK m : m = uvmalloc_page(m0, n, perm)
  OBVIOUS
<1>19. Grown(m, m0, R, n, f, perm)
  BY <1>8, <1>13, <1>17, <1>18, GrowPage
<1>20. PICK w : w = IF m.ok THEN m ELSE uvmunmap(m, 0 .. n - 1, TRUE)
  OBVIOUS
<1>21. PICK b : b = [c EXCEPT !.i = IF m.ok THEN n + 1 ELSE -2]
  OBVIOUS
<1>22. Becomes(w, i) /\ syscall' = [syscall EXCEPT ![p] = b]
  <2>1. Mapped(old, n)
    BY <1>10 DEF Mapped
  <2> QED
    BY <2>1, <1>1, <1>2, <1>4, <1>6, <1>7, <1>11, <1>16, <1>18, <1>20, <1>21 DEF uvmcopy, MInv, Types
<1>23. b \in ForkCall /\ b.np = np /\ b.i = IF m.ok THEN n + 1 ELSE -2
  BY <1>4, <1>5, <1>8, <1>21 DEF ForkCall
<1>24. CASE m.ok
  <2>1. w = m /\ b.i = n + 1
    BY <1>20, <1>23, <1>24
  <2>2. /\ Sound(m, R) /\ m.panic = FALSE
        /\ Spans(m.pt, n + 1, f) /\ m.pt.leaf[n].perm = perm
        /\ \A va \in 0 .. n - 1 : m.pt.leaf[va] = m0.pt.leaf[va]
    BY <1>19, <1>24 DEF Grown
  <2>3. ASSUME NEW va \in 0 .. n
        PROVE  m.pt.leaf[va].perm = old.leaf[va].perm
    <3>1. CASE va = n
      BY <1>11, <2>2, <3>1
    <3>2. CASE va \in 0 .. n - 1
      BY <1>13, <1>17, <2>2, <3>2
    <3> QED
      BY <1>8, <3>1, <3>2
  <2>4. n + 1 \in -2 .. Up(sz[p]) /\ b.i - 1 = n /\ b.i >= 0 /\ b.i # -1 /\ b.i # -2
    BY <1>8, <1>9, <2>1
  <2>5. ChildOK(b, sz[p], old, "USED", f, m.pt)
    BY <2>1, <2>2, <2>3, <2>4 DEF ChildOK
  <2> QED
    BY <1>1, <1>3, <1>4, <1>6, <1>7, <1>12, <1>15, <1>22, <1>23, <2>1, <2>2, <2>5, ChildAndCall
<1>25. CASE ~m.ok
  <2>1. PICK vas : vas = 0 .. n - 1
    OBVIOUS
  <2>2. w = Unmap(m, vas) /\ b.i = -2
    BY <1>20, <1>23, <1>25, <2>1 DEF Unmap
  <2>3. Sound(m, R) /\ m.panic = FALSE /\ Spans(m.pt, n, f)
    BY <1>19, <1>25 DEF Grown
  <2>4. m.pt \in PageTable /\ Distinct(m.pt)
    BY <2>3, SoundIs
  <2>5. vas \subseteq UserPages(m.pt) /\ m.pt.root # 0
    BY <1>8, <2>1, <2>3, <2>4, BelowTraps DEF Spans
  <2>6. /\ Sound(w, R) /\ w.pt.root = m.pt.root /\ w.panic = m.panic
        /\ DOMAIN w.pt.leaf = DOMAIN m.pt.leaf \ vas /\ \A x \in DOMAIN w.pt.leaf : w.pt.leaf[x] = m.pt.leaf[x]
    BY <2>2, <2>3, <2>5, UvmunmapIs
  <2>7. PICK q : q = w.pt
    OBVIOUS
  <2>8. Spans(q, 0, f)
    <3>1. PICK pt : pt = m.pt
      OBVIOUS
    <3>2. /\ q.root = pt.root /\ DOMAIN q.leaf = DOMAIN pt.leaf \ (0 .. n - 1)
          /\ \A x \in DOMAIN q.leaf : q.leaf[x] = pt.leaf[x]
      BY <2>1, <2>6, <2>7, <3>1
    <3>3. pt \in PageTable /\ Distinct(pt) /\ Spans(pt, n, f)
      BY <2>3, <2>4, <3>1
    <3>4. 0 \in Nat /\ 0 <= n
      BY <1>8
    <3> QED
      BY <1>8, <3>2, <3>3, <3>4, SpansCut
  <2>9. -2 \in -2 .. Up(sz[p]) /\ ~(-2 >= 0) /\ -2 # -1
    BY <1>9
  <2>10. ChildOK(b, sz[p], old, "USED", f, w.pt)
    BY <2>2, <2>7, <2>8, <2>9 DEF ChildOK
  <2>11. w.panic = FALSE
    BY <2>3, <2>6
  <2> QED
    BY <1>1, <1>3, <1>4, <1>6, <1>7, <1>12, <1>15, <1>22, <1>23, <2>6, <2>10, <2>11, ChildAndCall
<1> QED
  BY <1>24, <1>25

\* A slot takes a frame from the free list for its trapframe.
LEMMA TakeTrapframe ==
  ASSUME NEW fr, NEW t, NEW g, Keep(fr, t, g), NEW np \in ProcSlot, g[np] = 0, NEW i \in Table, t[i] = NoTable,
         NEW f \in Frame, f \notin Others(t, g, i),
         NEW k, Sound(k, Others(t, g, i) \cup {f}), k.pt = NoTable,
         NEW h, h = [g EXCEPT ![np] = f]
  PROVE  Keep(k.free, t, h)
<1>1. /\ g \in [ProcSlot -> Frame \cup {0}] /\ t \in [Table -> PageTable]
      /\ \A p \in ProcSlot : g[p] \notin kvmmake
      /\ \A p, q \in ProcSlot : g[p] = g[q] /\ g[p] # 0 => p = q
  BY DEF Keep
<1>2. /\ h \in [ProcSlot -> Frame \cup {0}] /\ h[np] = f
      /\ \A p \in ProcSlot : p # np => h[p] = g[p]
  BY <1>1
<1>3. f # 0
  BY SlotAssumption
<1>4. \A x : x \in Traps(g) <=> \E p \in ProcSlot : g[p] = x /\ x # 0
  BY DEF Traps
<1>5. \A x : x \in Traps(h) <=> \E p \in ProcSlot : h[p] = x /\ x # 0
  BY DEF Traps
<1>6. \A x : x \in Traps(h) <=> x \in Traps(g) \/ x = f
  BY <1>2, <1>3, <1>4, <1>5
<1>7. \A x : x \in Others(t, g, i) <=> x \in kvmmake \/ x \in Traps(g) \/ \E j \in Table \ {i} : x \in Own(t[j])
  BY DEF Others
<1>8. \A x : x \in Others(t, h, i) <=> x \in kvmmake \/ x \in Traps(h) \/ \E j \in Table \ {i} : x \in Own(t[j])
  BY DEF Others
<1>9. Others(t, h, i) = Others(t, g, i) \cup {f}
  <2>1. \A x : x \in Others(t, h, i) <=> x \in Others(t, g, i) \/ x = f
    BY <1>6, <1>7, <1>8
  <2> QED
    BY <2>1
<1>10. f \notin kvmmake /\ f \notin Traps(g) /\ \A j \in Table : j # i => f \notin Own(t[j])
  BY <1>7
<1>11. ASSUME NEW j \in Table, NEW x \in Own(t[j])
       PROVE  x \notin Traps(g)
  <2>1. Apart(fr, t[j], Others(t, g, j))
    BY DEF Keep
  <2>2. x \notin Others(t, g, j)
    BY <2>1 DEF Apart
  <2> QED
    BY <2>2 DEF Others
<1>12. \A p \in ProcSlot : h[p] \notin kvmmake
  BY <1>1, <1>2, <1>10
<1>13. \A p, q \in ProcSlot : h[p] = h[q] /\ h[p] # 0 => p = q
  BY <1>1, <1>2, <1>3, <1>4, <1>10
<1>14. \A j \in Table : j # i => \A x \in Own(t[j]) : x \notin Traps(h)
  BY <1>6, <1>10, <1>11
<1>15. Sound(k, Others(t, h, i))
  BY <1>9
<1>16. t = [t EXCEPT ![i] = k.pt]
  BY <1>1
<1> QED
  BY <1>2, <1>12, <1>13, <1>14, <1>15, <1>16, KeepStep

LEMMA ForkStep ==
  ASSUME MInv, NEW p \in ProcSlot, NEW np \in ProcSlot, fork(p, np)
  PROVE  MInv'
<1>1. /\ st[p] = "RUNNABLE" /\ syscall[p] = NoCall /\ st[np] = "UNUSED" /\ p # np
      /\ UNCHANGED <<tab, sz, panic>>
  BY DEF fork, MayCall
<1>2. PICK m0 : m0 = Mem(NoTable)
  OBVIOUS
<1>3. PICK k : k = kalloc(m0)
  OBVIOUS
<1>4. CASE ~k.ok
  <2>1. UNCHANGED <<freelist, tab, tf, st, sz, syscall, panic>>
    BY <1>1, <1>2, <1>3, <1>4 DEF fork
  <2> QED
    BY <2>1 DEF MInv, Types, Owned, Slots, Forks
<1>5. CASE k.ok
  <2>1. PICK f : f = NextFrame(m0)
    OBVIOUS
  <2>2. PICK b : b = [op |-> "fork", np |-> np, i |-> -1]
    OBVIOUS
  <2>3. /\ freelist' = k.free /\ tf' = [tf EXCEPT ![np] = f] /\ st' = [st EXCEPT ![np] = "USED"]
        /\ syscall' = [syscall EXCEPT ![p] = b]
    BY <1>2, <1>3, <1>5, <2>1, <2>2 DEF fork
  <2>4. SlotOK("UNUSED", tf[np], sz[np], tab[<<np, "cur">>], tab[<<np, "new">>], syscall[np])
    BY <1>1, Has
  <2>5. tf[np] = 0 /\ tab[<<np, "cur">>] = NoTable /\ sz[np] = 0 /\ syscall[np] = NoCall /\ tab[<<np, "new">>] = NoTable
    BY <2>4 DEF SlotOK, NoCall
  <2>6. PICK i \in Table : i = <<np, "cur">>
    BY DEF Table
  <2>7. PICK R : R = Others(tab, tf, i)
    OBVIOUS
  <2>8. Sound(m0, R) /\ m0.ok /\ m0.pt = NoTable
    BY <1>2, <2>5, <2>6, <2>7, MemSound DEF MInv, Mem
  <2>9. f \in Frame /\ f \notin R /\ Sound(k, R \cup {f}) /\ k.pt = NoTable
    BY <1>3, <1>5, <2>1, <2>8, KallocIs
  <2>10. Keep(freelist, tab, tf)
    BY DEF MInv, Owned
  <2>11. Keep(k.free, tab, tf')
    BY <2>3, <2>5, <2>6, <2>7, <2>9, <2>10, TakeTrapframe
  <2>12. Owned'
    BY <1>1, <2>3, <2>11 DEF Owned
  <2>13. b \in ForkCall /\ b.op = "fork" /\ b.np = np /\ b.i = -1
    BY <2>2 DEF ForkCall
  <2>14. b \in Call
    BY <2>13 DEF Call
  <2>15. Types'
    BY <1>1, <2>3, <2>14 DEF MInv, Types
  <2>16. tf \in [ProcSlot -> Frame \cup {0}]
    BY <2>10 DEF Keep
  <2>17. \A r \in ProcSlot : r # p /\ r # np => Same(r)
    BY <1>1, <2>3, <2>16 DEF Same, MInv, Types
  <2>18. \A q \in ProcSlot : q # p /\ syscall[q].op = "fork" => syscall[q].np # np
    BY <1>1, InFork
  <2>19. SlotOK("RUNNABLE", tf[p], sz[p], tab[<<p, "cur">>], tab[<<p, "new">>], NoCall)
    BY <1>1, Has
  <2>20. SlotOK("RUNNABLE", tf[p], sz[p], tab[<<p, "cur">>], tab[<<p, "new">>], b)
    BY <2>13, <2>19 DEF SlotOK, Top, NoCall
  <2>21. f # 0
    BY <2>9, SlotAssumption
  <2>22. SlotOK("USED", f, 0, NoTable, NoTable, NoCall)
    BY <2>21 DEF SlotOK, NoCall
  <2>23. /\ st'[np] = "USED" /\ tf'[np] = f /\ sz'[np] = 0 /\ tab'[<<np, "cur">>] = NoTable
         /\ tab'[<<np, "new">>] = NoTable /\ syscall'[np] = NoCall
    BY <1>1, <2>3, <2>5, <2>16 DEF MInv, Types
  <2>24. /\ st'[p] = "RUNNABLE" /\ tf'[p] = tf[p] /\ sz'[p] = sz[p] /\ tab'[<<p, "cur">>] = tab[<<p, "cur">>]
         /\ tab'[<<p, "new">>] = tab[<<p, "new">>] /\ syscall'[p] = b
    BY <1>1, <2>3, <2>16 DEF MInv, Types
  <2>25. SlotOK(st'[p], tf'[p], sz'[p], tab'[<<p, "cur">>], tab'[<<p, "new">>], syscall'[p])
    BY <2>20, <2>24
  <2>26. SlotOK(st'[np], tf'[np], sz'[np], tab'[<<np, "cur">>], tab'[<<np, "new">>], syscall'[np])
    BY <2>22, <2>23
  <2>27. -1 \in -2 .. Up(sz[p])
    <3>1. Up(sz[p]) \in Nat
      BY Has, UpIs
    <3> QED
      BY <3>1
  <2>28. ChildOK(b, sz[p], tab[<<p, "cur">>], "USED", f, NoTable)
    BY <2>13, <2>27 DEF ChildOK
  <2>29. ChildOK(syscall'[p], sz'[p], tab'[<<p, "cur">>], st'[np], tf'[np], tab'[<<np, "cur">>])
    BY <2>23, <2>24, <2>28
  <2>30. syscall'[np].op # "fork" /\ syscall'[p].np = np
    BY <2>13, <2>23, <2>24 DEF NoCall
  <2> QED
    BY <1>1, <2>12, <2>15, <2>17, <2>18, <2>25, <2>26, <2>29, <2>30, TwoSlots
<1> QED
  BY <1>4, <1>5

-----------------------------------------------------------------------------
(***************************************************************************)
(* The first process.                                                      *)
(***************************************************************************)

\* A failure is never forgotten.
LEMMA StaysBad ==
  ASSUME NEW m, "ok" \in DOMAIN m, "free" \in DOMAIN m, ~m.ok, NEW k, k = kalloc(m)
  PROVE  "ok" \in DOMAIN k /\ "free" \in DOMAIN k /\ ~k.ok
BY DEF kalloc

LEMMA BadMap ==
  ASSUME NEW m, ~m.ok, NEW va, NEW pa, NEW perm
  PROVE  mappages(m, va, pa, perm) = m
<1>1. \A node : Descend(m, node) = m
  BY DEF Descend
<1>2. walk(m, va) = m
  BY <1>1 DEF walk
<1> QED
  BY <1>2 DEF mappages

\* userinit() maps the two trap pages into a table that has no page yet.
LEMMA TrapsMapped ==
  ASSUME NEW c, NEW R, Sound(c, R), c.panic = FALSE, c.pt.root # 0, DOMAIN c.pt.leaf = {}, NEW f \in Frame,
         NEW t, t = mappages(c, TRAMPOLINE, 0, {"X"}), NEW u, u = mappages(t, TRAPFRAME, f, {"W"}), u.ok
  PROVE  Sound(u, R) /\ u.panic = FALSE /\ Spans(u.pt, 0, f)
<1>1. TRAPFRAME \in Nat /\ TRAMPOLINE = TRAPFRAME + 1
  BY TrapNat
<1>2. /\ Sound(t, R) /\ t.pt.root = c.pt.root /\ t.panic = FALSE /\ t.ok \in BOOLEAN
      /\ ~t.ok => DOMAIN t.pt.leaf = {}
      /\ t.ok => t.pt.leaf = Put(c.pt.leaf, TRAMPOLINE, [pa |-> 0, perm |-> {"X"}])
  <2>1. PICK perm \in SUBSET {"W", "X", "U"} : perm = {"X"}
    OBVIOUS
  <2>2. PICK va \in Trap : va = TRAMPOLINE
    BY DEF Trap
  <2>3. PICK z \in Frame \cup {0} : z = 0
    OBVIOUS
  <2>4. t = mappages(c, va, z, perm) /\ va \notin DOMAIN c.pt.leaf
    BY <2>1, <2>2, <2>3
  <2>5. /\ Sound(t, R) /\ t.pt.root = c.pt.root /\ t.panic = c.panic /\ t.ok \in BOOLEAN
        /\ ~t.ok => t.pt.leaf = c.pt.leaf
        /\ t.ok => t.pt.leaf = Put(c.pt.leaf, va, [pa |-> z, perm |-> perm])
    BY <2>4, MaptrapIs
  <2> QED
    BY <2>1, <2>2, <2>3, <2>5
<1>3. t.ok
  <2>1. SUFFICES ASSUME ~t.ok PROVE FALSE
    OBVIOUS
  <2>2. u = t
    BY <2>1, BadMap
  <2> QED
    BY <2>1, <2>2
<1>4. DOMAIN t.pt.leaf = {TRAMPOLINE} /\ t.pt.leaf[TRAMPOLINE].perm = {"X"}
  BY <1>2, <1>3 DEF Put
<1>5. /\ Sound(u, R) /\ u.pt.root = c.pt.root /\ u.panic = FALSE
      /\ u.pt.leaf = Put(t.pt.leaf, TRAPFRAME, [pa |-> f, perm |-> {"W"}])
  <2>1. PICK perm \in SUBSET {"W", "X", "U"} : perm = {"W"}
    OBVIOUS
  <2>2. PICK va \in Trap : va = TRAPFRAME
    BY DEF Trap
  <2>3. u = mappages(t, va, f, perm) /\ va \notin DOMAIN t.pt.leaf /\ t.pt.root # 0
    BY <1>1, <1>2, <1>4, <2>1, <2>2
  <2>4. /\ Sound(u, R) /\ u.pt.root = t.pt.root /\ u.panic = t.panic
        /\ u.ok => u.pt.leaf = Put(t.pt.leaf, va, [pa |-> f, perm |-> perm])
    BY <1>2, <2>3, MaptrapIs
  <2> QED
    BY <1>2, <2>1, <2>2, <2>4
<1>6. /\ DOMAIN u.pt.leaf = {TRAMPOLINE, TRAPFRAME}
      /\ u.pt.leaf[TRAPFRAME] = [pa |-> f, perm |-> {"W"}]
      /\ u.pt.leaf[TRAMPOLINE] = t.pt.leaf[TRAMPOLINE]
  BY <1>1, <1>4, <1>5 DEF Put
<1>7. (0 .. 0 - 1) \cup {TRAMPOLINE, TRAPFRAME} = {TRAMPOLINE, TRAPFRAME}
  OBVIOUS
<1>8. "U" \notin {"W"} /\ "U" \notin {"X"}
  OBVIOUS
<1>9. Spans(u.pt, 0, f)
  BY <1>4, <1>5, <1>6, <1>7, <1>8 DEF Spans
<1> QED
  BY <1>5, <1>9

\* Before the first process there are the free list and the kernel's own frames.
LEMMA KeepNothing ==
  ASSUME NEW t, t = [j \in Table |-> NoTable], NEW g, g = [p \in ProcSlot |-> 0]
  PROVE  Keep(kinit, t, g) /\ \A i \in Table : Others(t, g, i) = kvmmake
<1>1. kvmmake \subseteq Frame /\ 0 \notin Frame
  BY SlotAssumption DEF kvmmake, proc_mapstacks
<1>2. kinit \in [Frame -> {0, 1}] /\ \A f \in Frame : kinit[f] = 0 <=> f \in kvmmake
  BY DEF kinit
<1>3. Traps(g) = {}
  BY DEF Traps
<1>4. \A i \in Table : t[i] = NoTable
  OBVIOUS
<1>5. ASSUME NEW i \in Table
      PROVE  Others(t, g, i) = kvmmake
  BY <1>3, <1>4, NoTableIs DEF Others
<1>6. ASSUME NEW i \in Table
      PROVE  Distinct(t[i]) /\ Apart(kinit, t[i], Others(t, g, i))
  <2>1. Own(t[i]) = {} /\ Distinct(t[i])
    BY <1>4, NoTableIs
  <2> QED
    BY <1>1, <1>2, <1>5, <2>1 DEF Apart
<1>7. t \in [Table -> PageTable] /\ g \in [ProcSlot -> Frame \cup {0}]
  BY NoTableIs
<1> QED
  BY <1>1, <1>2, <1>5, <1>6, <1>7 DEF Keep

LEMMA InitInv == MemInit => MInv
<1> SUFFICES ASSUME MemInit PROVE MInv
  OBVIOUS
<1>1. PICK m0 : m0 = [free |-> kinit, pt |-> NoTable, ok |-> TRUE, panic |-> FALSE]
  OBVIOUS
<1>2. PICK t : t = kalloc(m0)
  OBVIOUS
<1>3. PICK f : f = NextFrame(m0)
  OBVIOUS
<1>4. PICK k : k = kalloc(t)
  OBVIOUS
<1>5. PICK r : r = NextFrame(t)
  OBVIOUS
<1>6. PICK c : c = [k EXCEPT !.pt.root = r]
  OBVIOUS
<1>7. PICK v : v = mappages(c, TRAMPOLINE, 0, {"X"})
  OBVIOUS
<1>8. PICK u : u = mappages(v, TRAPFRAME, f, {"W"})
  OBVIOUS
<1>9. PICK m : m = uvmalloc_page(u, 0, {"W", "X", "U"})
  OBVIOUS
<1>10. /\ m.ok
       /\ freelist = m.free
       /\ tab = [i \in ProcSlot \X {"cur", "new"} |-> IF i = <<initslot, "cur">> THEN m.pt ELSE NoTable]
       /\ tf = [p \in ProcSlot |-> IF p = initslot THEN f ELSE 0]
       /\ st = [p \in ProcSlot |-> IF p = initslot THEN "RUNNABLE" ELSE "UNUSED"]
       /\ sz = [p \in ProcSlot |-> IF p = initslot THEN PGSIZE ELSE 0]
       /\ syscall = [p \in ProcSlot |-> NoCall]
       /\ panic = FALSE
  BY <1>1, <1>2, <1>3, <1>4, <1>5, <1>6, <1>7, <1>8, <1>9 DEF MemInit, uvmfirst
<1>11. "ok" \in DOMAIN m0 /\ "free" \in DOMAIN m0
  BY <1>1
<1>12. "ok" \in DOMAIN t /\ "free" \in DOMAIN t
  BY <1>2, <1>11 DEF kalloc
<1>13. "ok" \in DOMAIN k /\ "free" \in DOMAIN k
  BY <1>4, <1>12 DEF kalloc
<1>14. "ok" \in DOMAIN c /\ "free" \in DOMAIN c /\ c.ok = k.ok
  BY <1>6, <1>13
<1>15. k.ok
  <2>1. SUFFICES ASSUME ~k.ok PROVE FALSE
    OBVIOUS
  <2>2. v = c
    BY <1>7, <1>14, <2>1, BadMap
  <2>3. u = c
    BY <1>8, <1>14, <2>1, <2>2, BadMap
  <2>4. ~kalloc(u).ok
    BY <1>14, <2>1, <2>3, StaysBad
  <2>5. m = kalloc(u)
    BY <1>9, <2>4 DEF uvmalloc_page
  <2> QED
    BY <1>10, <2>4, <2>5
<1>16. t.ok
  BY <1>4, <1>12, <1>15, StaysBad
<1>17. PICK T0 : T0 = [j \in Table |-> NoTable]
  OBVIOUS
<1>18. PICK g0 : g0 = [p \in ProcSlot |-> 0]
  OBVIOUS
<1>19. Keep(kinit, T0, g0) /\ \A i \in Table : Others(T0, g0, i) = kvmmake
  BY <1>17, <1>18, KeepNothing
<1>20. PICK i \in Table : i = <<initslot, "cur">>
  BY SlotAssumption DEF Table
<1>21. T0[i] = NoTable /\ g0[initslot] = 0
  BY <1>17, <1>18, SlotAssumption
<1>22. PICK R : R = Others(T0, g0, i)
  OBVIOUS
<1>23. Sound(m0, R) /\ m0.ok /\ m0.pt = NoTable /\ m0.panic = FALSE
  BY <1>1, <1>19, <1>21, <1>22, KeepSound
<1>24. f \in Frame /\ f \notin R /\ Sound(t, R \cup {f}) /\ t.pt = NoTable /\ t.panic = FALSE
  BY <1>2, <1>3, <1>16, <1>23, KallocIs
<1>25. PICK h : h = [g0 EXCEPT ![initslot] = f]
  OBVIOUS
<1>26. h = tf
  BY <1>10, <1>18, <1>25
<1>27. Keep(t.free, T0, h)
  BY <1>19, <1>21, <1>22, <1>24, <1>25, SlotAssumption, TakeTrapframe
<1>28. PICK Q : Q = Others(T0, h, i)
  OBVIOUS
<1>29. Sound(t, Q)
  <2>1. PICK x : x = [free |-> t.free, pt |-> T0[i], ok |-> TRUE, panic |-> FALSE]
    OBVIOUS
  <2>2. Sound(x, Q)
    BY <1>27, <1>28, <2>1, KeepSound
  <2>3. x.free = t.free /\ x.pt = t.pt
    BY <1>21, <1>24, <2>1
  <2> QED
    BY <1>24, <2>2, <2>3 DEF Sound
<1>30. r \in Frame /\ r \notin Q /\ Sound(k, Q \cup {r}) /\ k.pt = NoTable /\ k.panic = FALSE
  BY <1>4, <1>5, <1>15, <1>16, <1>24, <1>29, KallocIs
<1>31. Sound(c, Q) /\ c.panic = FALSE /\ c.pt.root = r /\ DOMAIN c.pt.leaf = {}
  <2>1. PICK q : q = [NoTable EXCEPT !.root = r]
    OBVIOUS
  <2>2. k \in [free : [Frame -> Nat], pt : PageTable, ok : BOOLEAN, panic : BOOLEAN]
    BY <1>30 DEF Sound, Rec
  <2>3. c = [k EXCEPT !.pt = q]
    BY <1>6, <1>30, <2>1, <2>2 DEF PageTable
  <2>4. q \in PageTable /\ q.root = r /\ DOMAIN q.leaf = {} /\ DOMAIN q.dir = {}
    BY <1>30, <2>1, NoTableIs DEF PageTable, NoTable
  <2>5. Sound(c, Q) /\ c.ok = k.ok /\ c.panic = k.panic /\ c.pt = q
    BY <1>30, <2>3, <2>4, RootTaken
  <2> QED
    BY <1>30, <2>4, <2>5
<1>32. u.ok
  <2>1. SUFFICES ASSUME ~u.ok PROVE FALSE
    OBVIOUS
  <2>2. "ok" \in DOMAIN u /\ "free" \in DOMAIN u
    <3>1. PICK perm \in SUBSET {"W", "X", "U"} : perm = {"X"}
      OBVIOUS
    <3>2. PICK va \in Trap : va = TRAMPOLINE
      BY DEF Trap
    <3>3. PICK z \in Frame \cup {0} : z = 0
      OBVIOUS
    <3>4. v = mappages(c, va, z, perm) /\ va \notin DOMAIN c.pt.leaf /\ c.pt.root # 0
      BY <1>7, <1>30, <1>31, <3>1, <3>2, <3>3, SlotAssumption
    <3>5. /\ Sound(v, Q) /\ v.pt.root = c.pt.root
          /\ ~v.ok => v.pt.leaf = c.pt.leaf
          /\ v.ok => v.pt.leaf = Put(c.pt.leaf, va, [pa |-> z, perm |-> perm])
      BY <1>31, <3>4, MaptrapIs
    <3>6. PICK vb \in Trap : vb = TRAPFRAME
      BY DEF Trap
    <3>7. vb # va
      BY <3>2, <3>6, TrapNat
    <3>8. vb \notin DOMAIN v.pt.leaf
      BY <1>31, <3>5, <3>7 DEF Put
    <3>9. PICK pw \in SUBSET {"W", "X", "U"} : pw = {"W"}
      OBVIOUS
    <3>10. u = mappages(v, vb, f, pw) /\ v.pt.root # 0
      BY <1>8, <3>4, <3>5, <3>6, <3>9
    <3>11. Sound(u, Q)
      BY <1>24, <3>5, <3>8, <3>10, MaptrapIs
    <3> QED
      BY <3>11 DEF Sound, Rec
  <2>3. ~kalloc(u).ok
    BY <2>1, <2>2, StaysBad
  <2>4. m = kalloc(u)
    BY <1>9, <2>3 DEF uvmalloc_page
  <2> QED
    BY <1>10, <2>3, <2>4
<1>33. Sound(u, Q) /\ u.panic = FALSE /\ Spans(u.pt, 0, f)
  <2>1. c.pt.root # 0 /\ f \in Frame
    BY <1>24, <1>30, <1>31, SlotAssumption
  <2>2. Sound(c, Q) /\ c.panic = FALSE /\ DOMAIN c.pt.leaf = {}
    BY <1>31
  <2> QED
    BY <1>7, <1>8, <1>32, <2>1, <2>2, TrapsMapped
<1>34. /\ Sound(m, Q) /\ m.panic = FALSE /\ Spans(m.pt, 1, f)
  <2>1. PICK perm \in SUBSET {"W", "X", "U"} : perm = {"W", "X", "U"}
    OBVIOUS
  <2>2. PICK n \in Nat : n = 0
    OBVIOUS
  <2>3. m = uvmalloc_page(u, n, perm) /\ Spans(u.pt, n, f)
    BY <1>9, <1>33, <2>1, <2>2
  <2>4. Grown(m, u, Q, n, f, perm)
    BY <1>32, <1>33, <2>3, GrowPage
  <2>5. n + 1 = 1
    BY <2>2
  <2> QED
    BY <1>10, <2>4, <2>5 DEF Grown
<1>35. Keep(m.free, tab, tf)
  <2>1. tab = [T0 EXCEPT ![i] = m.pt]
    BY <1>10, <1>17, <1>20 DEF Table
  <2> QED
    BY <1>26, <1>27, <1>28, <1>34, <2>1, KeepTable
<1>36. Owned
  BY <1>10, <1>35 DEF Owned
<1>37. NoCall \in Call /\ NoCall.op = "none"
  BY DEF Call, NoCall
<1>38. Types
  BY <1>10, <1>37, Page DEF Types
<1>39. Up(PGSIZE) = 1
  <2>1. PICK n \in Nat : n = 1
    OBVIOUS
  <2>2. Up(n * PGSIZE) = n
    BY MulDiv
  <2>3. n * PGSIZE = PGSIZE
    BY <2>1, Page
  <2> QED
    BY <2>1, <2>2, <2>3
<1>40. Guarded(m.pt, 1)
  BY DEF Guarded
<1>41. SlotOK("RUNNABLE", f, PGSIZE, m.pt, NoTable, NoCall)
  BY <1>24, <1>34, <1>37, <1>39, <1>40, SlotAssumption DEF SlotOK, Top
<1>42. Slots
  <2>1. SUFFICES ASSUME NEW p \in ProcSlot
                 PROVE  SlotOK(st[p], tf[p], sz[p], tab[<<p, "cur">>], tab[<<p, "new">>], syscall[p])
    BY DEF Slots
  <2>2. tab[<<p, "new">>] = NoTable /\ syscall[p] = NoCall
    BY <1>10
  <2>3. CASE p = initslot
    <3>1. st[p] = "RUNNABLE" /\ tf[p] = f /\ sz[p] = PGSIZE /\ tab[<<p, "cur">>] = m.pt
      BY <1>10, <2>3
    <3> QED
      BY <1>41, <2>2, <3>1
  <2>4. CASE p # initslot
    <3>1. st[p] = "UNUSED" /\ tf[p] = 0 /\ sz[p] = 0 /\ tab[<<p, "cur">>] = NoTable
      BY <1>10, <2>4
    <3> QED
      BY <2>2, <3>1, Empty
  <2> QED
    BY <2>3, <2>4
<1>43. Forks
  BY <1>10, <1>37 DEF Forks
<1> QED
  BY <1>36, <1>38, <1>42, <1>43 DEF MInv

-----------------------------------------------------------------------------
(***************************************************************************)
(* Every step keeps the invariant.                                         *)
(***************************************************************************)

LEMMA StepInv == MInv /\ [MemNext]_memvars => MInv'
<1> SUFFICES ASSUME MInv, [MemNext]_memvars PROVE MInv'
  OBVIOUS
<1>1. CASE UNCHANGED memvars
  BY <1>1 DEF memvars, MInv, Types, Owned, Slots, Forks
<1>2. ASSUME NEW p \in ProcSlot, NEW np \in ProcSlot, fork(p, np) PROVE MInv'
  BY <1>2, ForkStep
<1>3. ASSUME NEW p \in ProcSlot, fork_pagetable(p) PROVE MInv'
  BY <1>3, ForkPagetableStep
<1>4. ASSUME NEW p \in ProcSlot, uvmcopy(p) PROVE MInv'
  BY <1>4, UvmcopyStep
<1>5. ASSUME NEW p \in ProcSlot, fork_fail(p) PROVE MInv'
  BY <1>5, ForkFailStep
<1>6. ASSUME NEW p \in ProcSlot, fork_done(p) PROVE MInv'
  BY <1>6, ForkDoneStep
<1>7. ASSUME NEW p \in ProcSlot, NEW n \in Delta, sbrk(p, n) PROVE MInv'
  BY <1>7, SbrkDown, SbrkUp
<1>8. ASSUME NEW p \in ProcSlot, sbrk_done(p) PROVE MInv'
  BY <1>8, SbrkDoneStep
<1>9. ASSUME NEW p \in ProcSlot, NEW img \in Image, exec(p, img) PROVE MInv'
  BY <1>9, ExecStep
<1>10. ASSUME NEW p \in ProcSlot, exec_next(p) PROVE MInv'
  BY <1>10, ExecNextStep
<1>11. ASSUME NEW p \in ProcSlot, exec_header(p) PROVE MInv'
  BY <1>11, ExecHeaderStep
<1>12. ASSUME NEW p \in ProcSlot, uvmalloc(p) PROVE MInv'
  BY <1>12, UvmallocStep
<1>13. ASSUME NEW p \in ProcSlot, exec_grown(p) PROVE MInv'
  BY <1>13, ExecGrownStep
<1>14. ASSUME NEW p \in ProcSlot, exec_bad(p) PROVE MInv'
  BY <1>14, ExecBadStep
<1>15. ASSUME NEW p \in ProcSlot, NEW ok \in BOOLEAN, loadseg(p, ok) PROVE MInv'
  BY <1>15, LoadsegStep
<1>16. ASSUME NEW p \in ProcSlot, NEW need \in 1 .. (USERSTACK + 1) * PGSIZE, exec_args(p, need) PROVE MInv'
  BY <1>16, ExecArgsStep
<1>17. ASSUME NEW p \in ProcSlot, exit(p) PROVE MInv'
  BY <1>17, ExitStep
<1>18. ASSUME NEW p \in ProcSlot, NEW q \in ProcSlot, NEW addr \in {0, PGSIZE}, wait(p, q, addr) PROVE MInv'
  BY <1>18, WaitStep
<1> QED
  BY <1>1, <1>2, <1>3, <1>4, <1>5, <1>6, <1>7, <1>8, <1>9, <1>10, <1>11, <1>12, <1>13, <1>14, <1>15, <1>16,
     <1>17, <1>18 DEF MemNext

LEMMA Invariant == MemSpec => []MInv
<1>1. MemInit => MInv
  BY InitInv
<1>2. MInv /\ [MemNext]_memvars => MInv'
  BY StepInv
<1> QED
  BY <1>1, <1>2, PTL DEF MemSpec

\* None of the panics of vm.c and exec.c is reached, for any number of processes,
\* frames and programs and whatever allocation fails: the sizes that fork(),
\* exec(), sbrk() and their error paths keep agree with what is mapped.
THEOREM NoVmPanicAlways == MemSpec => []NoVmPanic
<1>1. MInv => NoVmPanic
  BY DEF MInv, Types, NoVmPanic
<1> QED
  BY <1>1, Invariant, PTL

\* The pages of a process are those below p->sz and its trap pages, at most one of
\* them out of its reach, at every point where another process can see it.
THEOREM ImageMatchesAlways == MemSpec => []ImageMatches
<1>1. ASSUME MInv, NEW p \in ProcSlot, st[p] \in {"RUNNABLE", "ZOMBIE"},
             NEW pt, pt = tab[<<p, "cur">>],
             NEW top, top = IF syscall[p].op = "sbrk" THEN syscall[p].a ELSE sz[p]
      PROVE  /\ UserPages(pt) = Pages(0, top)
             /\ {TRAMPOLINE, TRAPFRAME} \subseteq DOMAIN pt.leaf
             /\ \A va \in {TRAMPOLINE, TRAPFRAME} : "U" \notin pt.leaf[va].perm
             /\ pt.leaf[TRAPFRAME].pa = tf[p]
             /\ Cardinality({va \in UserPages(pt) : "U" \notin pt.leaf[va].perm}) <= 1
  <2>1. PICK c : c = syscall[p]
    OBVIOUS
  <2>2. PICK n : n = Top(c, sz[p])
    OBVIOUS
  <2>3. SlotOK(st[p], tf[p], sz[p], pt, tab[<<p, "new">>], c) /\ pt \in PageTable /\ Distinct(pt) /\ c \in Call /\ sz[p] \in Nat
    BY <1>1, <2>1, Has
  <2>4. Spans(pt, n, tf[p]) /\ Guarded(pt, n)
    BY <1>1, <2>2, <2>3 DEF SlotOK
  <2>5. top \in Nat /\ n = Up(top) /\ n \in Nat
    <3>1. CASE c.op = "sbrk"
      <4>1. c \in SbrkCall /\ Growing(c, sz[p])
        BY <2>3, <3>1, CallIs DEF SlotOK
      <4>2. c.a \in Nat /\ c.to \in Nat /\ c.from \in Nat
        BY <4>1 DEF SbrkCall
      <4>3. Up(c.a) = c.a \div PGSIZE /\ c.a \div PGSIZE \in Nat
        BY <2>3, <4>1, <4>2, GrowingIs
      <4> QED
        BY <1>1, <2>1, <2>2, <3>1, <4>2, <4>3 DEF Top
    <3>2. CASE c.op # "sbrk"
      BY <1>1, <2>1, <2>2, <2>3, <3>2, UpIs DEF Top
    <3> QED
      BY <3>1, <3>2
  <2>6. UserPages(pt) = 0 .. n - 1
    BY <2>3, <2>4, <2>5, BelowTraps
  <2>7. Pages(0, top) = 0 .. n - 1
    <3>1. PICK z \in Nat : z = 0
      OBVIOUS
    <3>2. Pages(z, top) = Up(z) .. Up(top) - 1
      BY <2>5, PagesIs
    <3> QED
      BY <2>5, <3>1, <3>2, UpZero
  <2>8. PICK S : S = {va \in UserPages(pt) : "U" \notin pt.leaf[va].perm}
    OBVIOUS
  <2>9. \A va, vb \in S : va = vb
    BY <2>4, <2>6, <2>8 DEF Guarded
  <2>10. Cardinality(S) <= 1
    <3>1. CASE S = {}
      BY <3>1, FS_EmptySet
    <3>2. CASE S # {}
      <4>1. PICK x : x \in S
        BY <3>2
      <4>2. S = {x}
        BY <2>9, <4>1
      <4> QED
        BY <4>2, FS_Singleton
    <3> QED
      BY <3>1, <3>2
  <2> QED
    BY <2>4, <2>6, <2>7, <2>8, <2>10 DEF Spans
<1>2. MInv => ImageMatches
  BY <1>1 DEF ImageMatches
<1> QED
  BY <1>2, Invariant, PTL

-----------------------------------------------------------------------------
(***************************************************************************)
(* Claims and frames.                                                      *)
(***************************************************************************)

LEMMA ClaimIs ==
  /\ \A f : Claimed(<<"kernel", f>>) = f
  /\ \A p : Claimed(<<"trapframe", p>>) = tf[p]
  /\ \A i : Claimed(<<"root", i>>) = tab[i].root
  /\ \A i, n : Claimed(<<"dir", i, n>>) = tab[i].dir[n]
  /\ \A i, va : Claimed(<<"page", i, va>>) = tab[i].leaf[va].pa
<1>1. \A f : Claimed(<<"kernel", f>>) = f
  BY DEF Claimed
<1>2. \A p : Claimed(<<"trapframe", p>>) = tf[p]
  BY DEF Claimed
<1>3. \A i : Claimed(<<"root", i>>) = tab[i].root
  BY DEF Claimed
<1>4. \A i, n : Claimed(<<"dir", i, n>>) = tab[i].dir[n]
  BY DEF Claimed
<1>5. \A i, va : Claimed(<<"page", i, va>>) = tab[i].leaf[va].pa
  BY DEF Claimed
<1> QED
  BY <1>1, <1>2, <1>3, <1>4, <1>5

LEMMA ClaimsAre ==
  ASSUME DOMAIN tab = Table
  PROVE  \A c : c \in Claims <=>
                  \/ \E f \in kvmmake : c = <<"kernel", f>>
                  \/ \E p \in ProcSlot : tf[p] # 0 /\ c = <<"trapframe", p>>
                  \/ \E i \in Table : tab[i].root # 0 /\ c \in TableClaim(i)
<1>1. \A c : c \in KernelClaims <=> \E f \in kvmmake : c = <<"kernel", f>>
  BY DEF KernelClaims
<1>2. \A c : c \in TrapClaims <=> \E p \in ProcSlot : tf[p] # 0 /\ c = <<"trapframe", p>>
  BY DEF TrapClaims
<1>3. \A i : i \in Tables <=> i \in Table /\ tab[i].root # 0
  BY DEF Tables
<1>4. \A c : c \in Claims <=> c \in KernelClaims \/ c \in TrapClaims \/ \E i \in Tables : c \in TableClaim(i)
  BY DEF Claims
<1> QED
  BY <1>1, <1>2, <1>3, <1>4

\* The claims of one table are to the frames it has, each to its own.
LEMMA TableClaims ==
  ASSUME NEW i, Distinct(tab[i]), tab[i].root # 0
  PROVE  /\ \A c \in TableClaim(i) : Claimed(c) \in Own(tab[i])
         /\ \A f \in Own(tab[i]) : \E c \in TableClaim(i) : Claimed(c) = f
         /\ \A c, d \in TableClaim(i) : Claimed(c) = Claimed(d) => c = d
<1>1. PICK pt : pt = tab[i]
  OBVIOUS
<1>2. \A c : c \in TableClaim(i) <=>
               \/ c = <<"root", i>>
               \/ \E n \in DOMAIN pt.dir : c = <<"dir", i, n>>
               \/ \E va \in UserPages(pt) : c = <<"page", i, va>>
  BY <1>1 DEF TableClaim
<1>3. \A f : f \in Own(pt) <=>
               \/ f = pt.root
               \/ \E n \in DOMAIN pt.dir : f = pt.dir[n]
               \/ \E va \in UserPages(pt) : f = pt.leaf[va].pa
  BY <1>1 DEF Own, Range
<1>4. /\ Claimed(<<"root", i>>) = pt.root
      /\ \A n : Claimed(<<"dir", i, n>>) = pt.dir[n]
      /\ \A va : Claimed(<<"page", i, va>>) = pt.leaf[va].pa
  BY <1>1, ClaimIs
<1>5. \A c \in TableClaim(i) : Claimed(c) \in Own(pt)
  BY <1>2, <1>3, <1>4
<1>6. ASSUME NEW f \in Own(pt)
      PROVE  \E c \in TableClaim(i) : Claimed(c) = f
  <2>1. CASE f = pt.root
    <3>1. <<"root", i>> \in TableClaim(i)
      BY <1>2
    <3> QED
      BY <1>4, <2>1, <3>1
  <2>2. CASE \E n \in DOMAIN pt.dir : f = pt.dir[n]
    <3>1. PICK n \in DOMAIN pt.dir : f = pt.dir[n]
      BY <2>2
    <3>2. <<"dir", i, n>> \in TableClaim(i)
      BY <1>2
    <3> QED
      BY <1>4, <3>1, <3>2
  <2>3. CASE \E va \in UserPages(pt) : f = pt.leaf[va].pa
    <3>1. PICK va \in UserPages(pt) : f = pt.leaf[va].pa
      BY <2>3
    <3>2. <<"page", i, va>> \in TableClaim(i)
      BY <1>2
    <3> QED
      BY <1>4, <3>1, <3>2
  <2> QED
    BY <1>3, <2>1, <2>2, <2>3
<1>7. Distinct(pt)
  BY <1>1
<1>8. ASSUME NEW c \in TableClaim(i), NEW d \in TableClaim(i), Claimed(c) = Claimed(d)
      PROVE  c = d
  <2>1. CASE c = <<"root", i>>
    BY <1>2, <1>4, <1>7, <1>8, <2>1 DEF Distinct
  <2>2. CASE \E n \in DOMAIN pt.dir : c = <<"dir", i, n>>
    BY <1>2, <1>4, <1>7, <1>8, <2>2 DEF Distinct
  <2>3. CASE \E va \in UserPages(pt) : c = <<"page", i, va>>
    BY <1>2, <1>4, <1>7, <1>8, <2>3 DEF Distinct
  <2> QED
    BY <1>2, <2>1, <2>2, <2>3
<1> QED
  BY <1>1, <1>5, <1>6, <1>8

\* A frame is free, the kernel's, one slot's trapframe or in one table.
LEMMA Places ==
  ASSUME Owned
  PROVE  /\ \A f \in Frame : freelist[f] \in {0, 1}
         /\ \A f \in kvmmake : f \in Frame /\ freelist[f] = 0
         /\ \A p \in ProcSlot : tf[p] # 0 => tf[p] \in Frame /\ freelist[tf[p]] = 0 /\ tf[p] \notin kvmmake
         /\ \A p, q \in ProcSlot : tf[p] # 0 /\ tf[p] = tf[q] => p = q
         /\ \A i \in Table : \A f \in Own(tab[i]) :
              /\ f \in Frame /\ freelist[f] = 0 /\ f \notin kvmmake
              /\ \A p \in ProcSlot : tf[p] # f
              /\ \A j \in Table : f \in Own(tab[j]) => j = i
         /\ \A f \in Frame : \/ freelist[f] = 1
                             \/ f \in kvmmake
                             \/ \E p \in ProcSlot : tf[p] = f
                             \/ \E i \in Table : f \in Own(tab[i])
<1>1. Keep(freelist, tab, tf)
  BY DEF Owned
<1>2. \A i \in Table : tab[i] \in PageTable /\ Distinct(tab[i]) /\ Apart(freelist, tab[i], Others(tab, tf, i))
  BY <1>1 DEF Keep
<1>3. \A i, x : x \in Others(tab, tf, i) <=>
                  \/ x \in kvmmake
                  \/ \E p \in ProcSlot : tf[p] = x /\ x # 0
                  \/ \E j \in Table \ {i} : x \in Own(tab[j])
  BY DEF Others, Traps
<1>4. PICK a \in Table : a = <<initslot, "cur">>
  BY SlotAssumption DEF Table
<1>5. /\ freelist \in [Frame -> {0, 1}]
      /\ \A f \in Others(tab, tf, a) : freelist[f] = 0
      /\ \A f \in Frame : freelist[f] = 1 \/ f \in Own(tab[a]) \/ f \in Others(tab, tf, a)
      /\ Others(tab, tf, a) \subseteq Frame
  BY <1>2, <1>4 DEF Apart
<1>6. 0 \notin Frame
  BY SlotAssumption
<1>7. /\ \A p \in ProcSlot : tf[p] \notin kvmmake
      /\ \A p, q \in ProcSlot : tf[p] # 0 /\ tf[p] = tf[q] => p = q
  BY <1>1 DEF Keep
<1>8. \A f \in kvmmake : f \in Frame /\ freelist[f] = 0
  BY <1>3, <1>5
<1>9. \A p \in ProcSlot : tf[p] # 0 => tf[p] \in Frame /\ freelist[tf[p]] = 0
  BY <1>3, <1>5
<1>10. ASSUME NEW i \in Table, NEW f \in Own(tab[i])
       PROVE  /\ f \in Frame /\ freelist[f] = 0 /\ f \notin kvmmake
              /\ \A p \in ProcSlot : tf[p] # f
              /\ \A j \in Table : f \in Own(tab[j]) => j = i
  <2>1. f \in Frame
    BY <1>2, OwnFrames
  <2>2. freelist[f] = 0 /\ f \notin Others(tab, tf, i)
    BY <1>2 DEF Apart
  <2> QED
    BY <1>3, <1>6, <2>1, <2>2
<1>11. ASSUME NEW f \in Frame
       PROVE  \/ freelist[f] = 1
              \/ f \in kvmmake
              \/ \E p \in ProcSlot : tf[p] = f
              \/ \E i \in Table : f \in Own(tab[i])
  BY <1>3, <1>4, <1>5
<1> QED
  BY <1>5, <1>7, <1>8, <1>9, <1>10, <1>11

\* Every frame is free once or has exactly one owner, for any number of processes,
\* frames and programs: no path through fork(), exec(), sbrk(), exit() and wait()
\* loses a frame, frees one twice or lets two processes map the same one.
THEOREM FramesOwnedAlways == MemSpec => []FramesOwned
<1> USE DEF FramesOwned
<1>1. MInv => FramesOwned
  <2> SUFFICES ASSUME MInv PROVE FramesOwned
    OBVIOUS
  <2>1. Owned /\ DOMAIN tab = Table /\ \A i \in Table : Distinct(tab[i])
    BY DEF MInv, Owned, Keep
  <2>2. \A c : c \in Claims <=>
                 \/ \E f \in kvmmake : c = <<"kernel", f>>
                 \/ \E p \in ProcSlot : tf[p] # 0 /\ c = <<"trapframe", p>>
                 \/ \E i \in Table : tab[i].root # 0 /\ c \in TableClaim(i)
    BY <2>1, ClaimsAre
  <2>3. \A i \in Table : tab[i].root # 0 =>
          /\ \A c \in TableClaim(i) : Claimed(c) \in Own(tab[i])
          /\ \A f \in Own(tab[i]) : \E c \in TableClaim(i) : Claimed(c) = f
          /\ \A c, d \in TableClaim(i) : Claimed(c) = Claimed(d) => c = d
    BY <2>1, TableClaims
  <2>4. \A i \in Table : \A f : f \in Own(tab[i]) => tab[i].root # 0
    BY DEF Own
  <2>5. /\ \A f : Claimed(<<"kernel", f>>) = f
        /\ \A p : Claimed(<<"trapframe", p>>) = tf[p]
    BY ClaimIs
  <2>6. \A c \in Claims : Claimed(c) \in Frame /\ freelist[Claimed(c)] = 0
    BY <2>1, <2>2, <2>3, <2>5, Places
  <2>7. ASSUME NEW c \in Claims, NEW d \in Claims, Claimed(c) = Claimed(d)
        PROVE  c = d
    <3>1. CASE \E f \in kvmmake : c = <<"kernel", f>>
      BY <2>1, <2>2, <2>3, <2>5, <2>7, <3>1, Places
    <3>2. CASE \E p \in ProcSlot : tf[p] # 0 /\ c = <<"trapframe", p>>
      BY <2>1, <2>2, <2>3, <2>5, <2>7, <3>2, Places
    <3>3. CASE \E i \in Table : tab[i].root # 0 /\ c \in TableClaim(i)
      BY <2>1, <2>2, <2>3, <2>5, <2>7, <3>3, Places
    <3> QED
      BY <2>2, <3>1, <3>2, <3>3
  <2>8. ASSUME NEW f \in Frame
        PROVE  freelist[f] = 1 \/ \E c \in Claims : Claimed(c) = f
    <3>1. CASE f \in kvmmake
      BY <2>2, <2>5, <3>1
    <3>2. CASE \E p \in ProcSlot : tf[p] = f
      BY <2>2, <2>5, <3>2, SlotAssumption
    <3>3. CASE \E i \in Table : f \in Own(tab[i])
      BY <2>2, <2>3, <2>4, <3>3
    <3> QED
      BY <2>1, <3>1, <3>2, <3>3, Places
  <2>9. ASSUME NEW f \in Frame
        PROVE  freelist[f] + Cardinality({c \in Claims : Claimed(c) = f}) = 1
    <3>1. PICK S : S = {c \in Claims : Claimed(c) = f}
      OBVIOUS
    <3>2. freelist[f] \in {0, 1}
      BY <2>1, Places
    <3>3. CASE freelist[f] = 1
      <4>1. S = {}
        BY <2>6, <3>1, <3>3
      <4> QED
        BY <3>1, <3>3, <4>1, FS_EmptySet
    <3>4. CASE freelist[f] = 0
      <4>1. PICK c \in Claims : Claimed(c) = f
        BY <2>8, <3>4
      <4>2. S = {c}
        BY <2>7, <3>1, <4>1
      <4>3. Cardinality(S) = 1
        BY <4>2, FS_Singleton
      <4> QED
        BY <3>1, <3>4, <4>3
    <3> QED
      BY <3>2, <3>3, <3>4
  <2> QED
    BY <2>6, <2>9
<1> QED
  BY <1>1, Invariant, PTL
=============================================================================
