---------------------------- MODULE InodeProofs ----------------------------
(* Theorems about the inode table and the directories: reference counts, cached
   copies and blocks, whatever paths the system calls are given; and links, locks
   and freed inodes as long as no path leads through "..", for any number of
   processes, inodes, names and blocks.                                       *)
EXTENDS Inode, FiniteSetTheorems, TLAPS

InodeRec == [type : Types, nlink : Int, blk : SUBSET Block]
EntryRec == [inum : Inum, ref : Nat, valid : BOOLEAN, type : Types, nlink : Int,
             blk : SUBSET Block]
Table == [Entry -> EntryRec]
DiskInodes == [Inum -> InodeRec]

\* TypeOK, but for link counts that might have become negative.
Typed ==
  /\ dinode \in DiskInodes
  /\ dents \in [Inum -> [AllNames -> Inum \cup {0}]]
  /\ bitmap \subseteq Block
  /\ itable \in Table
  /\ lock \in [Entry -> Proc \cup {None}]
  /\ cwd \in [Proc -> Entry]
  /\ fd \in [Proc -> Entry \cup {None}]
  /\ pr \in [Proc -> Process]
  /\ ncalls \in 0..MaxCalls

Putting == {"iput", "ifree", "iref"}
Conts == {"idle", "walk", "link_put", "link_bad", "create_old", "create_ret",
          "unlink_last", "unlock_dp"}

\* The label that the process is at, or comes to when its iput() is done.
Stage(r) == IF r.pc \in Putting THEN r.cont ELSE r.pc

\* nameiparent(), not namei()
ByParent(r) == r.second \/ r.call.op \in {"create", "mkdir", "unlink"}

Walking(r) == Stage(r) \in {"walk", "found"}
HasIp(r) == \/ Stage(r) \in {"link_new", "link_bad", "link_put", "create_new", "create_old",
                             "create_ret", "unlink_ip", "unlink_last"}
            \/ Walking(r) /\ r.second
HasDp(r) == Stage(r) \in {"create_new", "unlink_ip", "unlock_dp"}

\* Which local variables point to an inode at which label.
Shape(r) ==
  /\ r.pc \in Putting => r.cont \in Conts
  /\ r.put # None <=> r.pc \in Putting
  /\ r.cur # None <=> Walking(r)
  /\ r.ip # None <=> HasIp(r)
  /\ r.dp # None <=> HasDp(r)
  /\ r.pc = "idle" => r = Idle
  /\ r.pc = "ifree" => r.put # r.ip /\ r.put # r.dp
  /\ Stage(r) = "link_new" => r.call.op = "link"
  /\ Stage(r) # "idle" => r.call \in Calls /\ (r.second => r.call.op = "link")
  /\ Stage(r) = "create_new" => r.call.op \in {"create", "mkdir"}
  /\ Stage(r) \in {"create_new", "unlink_ip"} \/ (Stage(r) = "found" /\ ByParent(r))
       => Len(r.path) = 1
Shapes == \A p \in Proc : Shape(pr[p])

\* The process with record r has the lock of entry e while it waits for something.
Holds(r, e) ==
  \/ r.dp = e
  \/ r.ip = e /\ Stage(r) \in {"unlink_last", "create_ret"}
  \/ r.put = e /\ r.pc = "ifree"
Locking == \A p \in Proc : \A e \in Entry : lock[e] = p <=> Holds(pr[p], e)
HeldValid == \A p \in Proc : \A e \in Entry : Holds(pr[p], e) => itable[e].valid

Counted == \A e \in Entry : itable[e].ref = Holders(e)

\* One entry for an inode, and valid entries are copies of allocated inodes.
Sound(t, d) ==
  /\ t \in Table /\ d \in DiskInodes
  /\ \A e, f \in Entry : t[e].ref > 0 /\ t[f].ref > 0 /\ t[e].inum = t[f].inum => e = f
  /\ \A e \in Entry :
       t[e].ref > 0 /\ t[e].valid =>
         /\ t[e].type = d[t[e].inum].type /\ t[e].type # "free"
         /\ t[e].nlink = d[t[e].inum].nlink
         /\ t[e].blk = d[t[e].inum].blk

TableInv ==
  Typed /\ Shapes /\ Locking /\ HeldValid /\ Counted /\ Sound(itable, dinode) /\ BlocksOwned

-----------------------------------------------------------------------------
(* Counting pointers.                                                        *)

One(x, e) == IF x = e THEN 1 ELSE 0

\* The pointers to entry e of a process with current directory c, file f and record r.
Refs(c, f, r, e) ==
  One(c, e) + One(f, e) + One(r.cur, e) + One(r.ip, e) + One(r.dp, e) + One(r.put, e)

\* A set of processes that loses or gains at most p.
LEMMA CardStep ==
  ASSUME NEW S \in SUBSET Proc, NEW T \in SUBSET Proc, NEW p \in Proc,
         \A q \in Proc : q # p => (q \in S <=> q \in T)
  PROVE  /\ Cardinality(S) \in Nat /\ Cardinality(T) \in Nat
         /\ Cardinality(T) = Cardinality(S) + (IF p \in T THEN 1 ELSE 0)
                                            - (IF p \in S THEN 1 ELSE 0)
<1>1. IsFiniteSet(S) /\ IsFiniteSet(T)
  BY FS_Subset, InodeAssumption
<1>2. Cardinality(S) \in Nat /\ Cardinality(T) \in Nat
  BY <1>1, FS_CardinalityType
<1>3. S \ {p} = T \ {p}
  OBVIOUS
<1>4. /\ Cardinality(S \ {p}) = IF p \in S THEN Cardinality(S) - 1 ELSE Cardinality(S)
      /\ Cardinality(T \ {p}) = IF p \in T THEN Cardinality(T) - 1 ELSE Cardinality(T)
  BY <1>1, FS_RemoveElement
<1> QED
  BY <1>2, <1>3, <1>4

\* A set of processes counts each of two processes in it.
LEMMA CardTwo ==
  ASSUME NEW S \in SUBSET Proc, NEW p \in Proc, NEW q \in Proc, p # q
  PROVE  /\ Cardinality(S) \in Nat
         /\ Cardinality(S) >= (IF p \in S THEN 1 ELSE 0) + (IF q \in S THEN 1 ELSE 0)
<1>1. IsFiniteSet(S) /\ IsFiniteSet(S \ {p}) /\ IsFiniteSet((S \ {p}) \ {q})
  BY FS_Subset, InodeAssumption
<1>2. /\ Cardinality(S) \in Nat /\ Cardinality(S \ {p}) \in Nat
      /\ Cardinality((S \ {p}) \ {q}) \in Nat
  BY <1>1, FS_CardinalityType
<1>3. Cardinality(S \ {p}) = IF p \in S THEN Cardinality(S) - 1 ELSE Cardinality(S)
  BY <1>1, FS_RemoveElement
<1>4. Cardinality((S \ {p}) \ {q}) =
        IF q \in S \ {p} THEN Cardinality(S \ {p}) - 1 ELSE Cardinality(S \ {p})
  BY <1>1, FS_RemoveElement
<1>5. q \in S \ {p} <=> q \in S
  OBVIOUS
<1> QED
  BY <1>2, <1>3, <1>4, <1>5

LEMMA CardOne ==
  ASSUME NEW S \in SUBSET Proc, NEW p \in Proc
  PROVE  /\ Cardinality(S) \in Nat
         /\ Cardinality(S) >= (IF p \in S THEN 1 ELSE 0)
<1>1. IsFiniteSet(S) /\ IsFiniteSet(S \ {p})
  BY FS_Subset, InodeAssumption
<1>2. Cardinality(S) \in Nat /\ Cardinality(S \ {p}) \in Nat
  BY <1>1, FS_CardinalityType
<1>3. Cardinality(S \ {p}) = IF p \in S THEN Cardinality(S) - 1 ELSE Cardinality(S)
  BY <1>1, FS_RemoveElement
<1> QED
  BY <1>2, <1>3

CountAt(c, e) == Cardinality({p \in Proc : c[p] = e})
LocalAt(r, f, e) == Cardinality({p \in Proc : r[p][f] = e})

LEMMA HoldersIs ==
  ASSUME NEW e
  PROVE  Holders(e) = CountAt(cwd, e) + CountAt(fd, e) + LocalAt(pr, "cur", e)
                      + LocalAt(pr, "ip", e) + LocalAt(pr, "dp", e) + LocalAt(pr, "put", e)
  BY DEF Holders, CountAt, LocalAt

\* A pointer of a process is counted.
LEMMA CountOne ==
  ASSUME NEW c, NEW p \in Proc, NEW e
  PROVE  CountAt(c, e) \in Nat /\ CountAt(c, e) >= One(c[p], e)
<1> DEFINE S == {q \in Proc : c[q] = e}
<1>1. S \in SUBSET Proc /\ (p \in S <=> c[p] = e)
  OBVIOUS
<1> HIDE DEF S
<1>2. Cardinality(S) \in Nat /\ Cardinality(S) >= IF p \in S THEN 1 ELSE 0
  BY <1>1, CardOne
<1>3. CountAt(c, e) = Cardinality(S)
  BY DEF CountAt, S
<1> QED
  BY <1>1, <1>2, <1>3 DEF One

LEMMA LocalOne ==
  ASSUME NEW c, NEW f, NEW p \in Proc, NEW e
  PROVE  LocalAt(c, f, e) \in Nat /\ LocalAt(c, f, e) >= One(c[p][f], e)
<1> DEFINE S == {q \in Proc : c[q][f] = e}
<1>1. S \in SUBSET Proc /\ (p \in S <=> c[p][f] = e)
  OBVIOUS
<1> HIDE DEF S
<1>2. Cardinality(S) \in Nat /\ Cardinality(S) >= IF p \in S THEN 1 ELSE 0
  BY <1>1, CardOne
<1>3. LocalAt(c, f, e) = Cardinality(S)
  BY DEF LocalAt, S
<1> QED
  BY <1>1, <1>2, <1>3 DEF One

LEMMA CountTwo ==
  ASSUME NEW c, NEW p \in Proc, NEW q \in Proc, p # q, NEW e
  PROVE  CountAt(c, e) \in Nat /\ CountAt(c, e) >= One(c[p], e) + One(c[q], e)
<1> DEFINE S == {x \in Proc : c[x] = e}
<1>1. S \in SUBSET Proc /\ (p \in S <=> c[p] = e) /\ (q \in S <=> c[q] = e)
  OBVIOUS
<1> HIDE DEF S
<1>2. /\ Cardinality(S) \in Nat
      /\ Cardinality(S) >= (IF p \in S THEN 1 ELSE 0) + (IF q \in S THEN 1 ELSE 0)
  BY <1>1, CardTwo
<1>3. CountAt(c, e) = Cardinality(S)
  BY DEF CountAt, S
<1> QED
  BY <1>1, <1>2, <1>3 DEF One

LEMMA LocalTwo ==
  ASSUME NEW c, NEW f, NEW p \in Proc, NEW q \in Proc, p # q, NEW e
  PROVE  LocalAt(c, f, e) \in Nat /\ LocalAt(c, f, e) >= One(c[p][f], e) + One(c[q][f], e)
<1> DEFINE S == {x \in Proc : c[x][f] = e}
<1>1. S \in SUBSET Proc /\ (p \in S <=> c[p][f] = e) /\ (q \in S <=> c[q][f] = e)
  OBVIOUS
<1> HIDE DEF S
<1>2. /\ Cardinality(S) \in Nat
      /\ Cardinality(S) >= (IF p \in S THEN 1 ELSE 0) + (IF q \in S THEN 1 ELSE 0)
  BY <1>1, CardTwo
<1>3. LocalAt(c, f, e) = Cardinality(S)
  BY DEF LocalAt, S
<1> QED
  BY <1>1, <1>2, <1>3 DEF One

\* A step that moves one pointer of one process.
LEMMA CountStep ==
  ASSUME NEW c, NEW p \in Proc, NEW e, NEW b, \A q \in Proc : q # p => b[q] = c[q]
  PROVE  CountAt(b, e) = CountAt(c, e) + One(b[p], e) - One(c[p], e)
<1> DEFINE S == {q \in Proc : c[q] = e}
           T == {q \in Proc : b[q] = e}
<1>1. /\ S \in SUBSET Proc /\ (p \in S <=> c[p] = e)
      /\ T \in SUBSET Proc /\ (p \in T <=> b[p] = e)
      /\ \A q \in Proc : q # p => (q \in S <=> q \in T)
  OBVIOUS
<1> HIDE DEF S, T
<1>2. /\ Cardinality(S) \in Nat /\ Cardinality(T) \in Nat
      /\ Cardinality(T) = Cardinality(S) + (IF p \in T THEN 1 ELSE 0)
                                         - (IF p \in S THEN 1 ELSE 0)
  BY <1>1, CardStep
<1>3. CountAt(c, e) = Cardinality(S) /\ CountAt(b, e) = Cardinality(T)
  BY DEF CountAt, S, T
<1> QED
  BY <1>1, <1>2, <1>3 DEF One

LEMMA LocalStep ==
  ASSUME NEW c, NEW f, NEW p \in Proc, NEW e, NEW b, \A q \in Proc : q # p => b[q] = c[q]
  PROVE  LocalAt(b, f, e) = LocalAt(c, f, e) + One(b[p][f], e) - One(c[p][f], e)
<1> DEFINE S == {q \in Proc : c[q][f] = e}
           T == {q \in Proc : b[q][f] = e}
<1>1. /\ S \in SUBSET Proc /\ (p \in S <=> c[p][f] = e)
      /\ T \in SUBSET Proc /\ (p \in T <=> b[p][f] = e)
      /\ \A q \in Proc : q # p => (q \in S <=> q \in T)
  OBVIOUS
<1> HIDE DEF S, T
<1>2. /\ Cardinality(S) \in Nat /\ Cardinality(T) \in Nat
      /\ Cardinality(T) = Cardinality(S) + (IF p \in T THEN 1 ELSE 0)
                                         - (IF p \in S THEN 1 ELSE 0)
  BY <1>1, CardStep
<1>3. LocalAt(c, f, e) = Cardinality(S) /\ LocalAt(b, f, e) = Cardinality(T)
  BY DEF LocalAt, S, T
<1> QED
  BY <1>1, <1>2, <1>3 DEF One

\* What a process points to is counted, and what two of them point to twice.
LEMMA HoldersOne ==
  ASSUME NEW p \in Proc, NEW e
  PROVE  Holders(e) \in Nat /\ Holders(e) >= Refs(cwd[p], fd[p], pr[p], e)
<1> HIDE DEF One
<1>1. /\ CountAt(cwd, e) \in Nat /\ CountAt(cwd, e) >= One(cwd[p], e)
      /\ CountAt(fd, e) \in Nat /\ CountAt(fd, e) >= One(fd[p], e)
  BY CountOne
<1>2. /\ LocalAt(pr, "cur", e) \in Nat /\ LocalAt(pr, "cur", e) >= One(pr[p].cur, e)
      /\ LocalAt(pr, "ip", e) \in Nat /\ LocalAt(pr, "ip", e) >= One(pr[p].ip, e)
      /\ LocalAt(pr, "dp", e) \in Nat /\ LocalAt(pr, "dp", e) >= One(pr[p].dp, e)
      /\ LocalAt(pr, "put", e) \in Nat /\ LocalAt(pr, "put", e) >= One(pr[p].put, e)
  BY LocalOne
<1>3. \A x : One(x, e) \in Nat
  BY DEF One
<1> QED
  BY <1>1, <1>2, <1>3, HoldersIs DEF Refs

LEMMA HoldersTwo ==
  ASSUME NEW p \in Proc, NEW q \in Proc, p # q, NEW e
  PROVE  Holders(e) >= Refs(cwd[p], fd[p], pr[p], e) + Refs(cwd[q], fd[q], pr[q], e)
<1>1. /\ CountAt(cwd, e) \in Nat /\ CountAt(cwd, e) >= One(cwd[p], e) + One(cwd[q], e)
      /\ CountAt(fd, e) \in Nat /\ CountAt(fd, e) >= One(fd[p], e) + One(fd[q], e)
  BY CountTwo
<1>2. /\ LocalAt(pr, "cur", e) \in Nat
      /\ LocalAt(pr, "cur", e) >= One(pr[p].cur, e) + One(pr[q].cur, e)
      /\ LocalAt(pr, "ip", e) \in Nat
      /\ LocalAt(pr, "ip", e) >= One(pr[p].ip, e) + One(pr[q].ip, e)
      /\ LocalAt(pr, "dp", e) \in Nat
      /\ LocalAt(pr, "dp", e) >= One(pr[p].dp, e) + One(pr[q].dp, e)
      /\ LocalAt(pr, "put", e) \in Nat
      /\ LocalAt(pr, "put", e) >= One(pr[p].put, e) + One(pr[q].put, e)
  BY LocalTwo
<1>3. \A x : One(x, e) \in Nat
  BY DEF One
<1> QED
  BY <1>1, <1>2, <1>3, HoldersIs DEF Refs

\* A step of process p after which its directory is c, its file f and its record r.
Moves(p, c, f, r) ==
  /\ c \in Entry /\ f \in Entry \cup {None} /\ r \in Process
  /\ cwd' = [cwd EXCEPT ![p] = c] /\ fd' = [fd EXCEPT ![p] = f] /\ pr' = [pr EXCEPT ![p] = r]

\* A step of one process moves only its pointers.
LEMMA HoldersStep ==
  ASSUME Typed, NEW p \in Proc, NEW c, NEW f, NEW r, Moves(p, c, f, r), NEW e
  PROVE  Holders(e)' = Holders(e) + Refs(c, f, r, e) - Refs(cwd[p], fd[p], pr[p], e)
<1>1. /\ cwd'[p] = c /\ \A q \in Proc : q # p => cwd'[q] = cwd[q]
      /\ fd'[p] = f /\ \A q \in Proc : q # p => fd'[q] = fd[q]
      /\ pr'[p] = r /\ \A q \in Proc : q # p => pr'[q] = pr[q]
  BY DEF Typed, Moves
<1>2. /\ CountAt(cwd, e) \in Nat /\ CountAt(fd, e) \in Nat
      /\ LocalAt(pr, "cur", e) \in Nat /\ LocalAt(pr, "ip", e) \in Nat
      /\ LocalAt(pr, "dp", e) \in Nat /\ LocalAt(pr, "put", e) \in Nat
  BY CountOne, LocalOne
<1>3. /\ CountAt(cwd', e) = CountAt(cwd, e) + One(c, e) - One(cwd[p], e)
      /\ CountAt(fd', e) = CountAt(fd, e) + One(f, e) - One(fd[p], e)
  <2>1. PICK b : b = cwd'
    OBVIOUS
  <2>2. PICK d : d = fd'
    OBVIOUS
  <2>3. /\ CountAt(b, e) = CountAt(cwd, e) + One(b[p], e) - One(cwd[p], e)
        /\ CountAt(d, e) = CountAt(fd, e) + One(d[p], e) - One(fd[p], e)
    <3>1. /\ \A q \in Proc : q # p => b[q] = cwd[q]
          /\ \A q \in Proc : q # p => d[q] = fd[q]
      BY <1>1, <2>1, <2>2
    <3> QED
      BY <3>1, CountStep
  <2> QED
    BY <1>1, <2>1, <2>2, <2>3
<1>4. /\ LocalAt(pr', "cur", e) = LocalAt(pr, "cur", e) + One(r.cur, e) - One(pr[p].cur, e)
      /\ LocalAt(pr', "ip", e) = LocalAt(pr, "ip", e) + One(r.ip, e) - One(pr[p].ip, e)
      /\ LocalAt(pr', "dp", e) = LocalAt(pr, "dp", e) + One(r.dp, e) - One(pr[p].dp, e)
      /\ LocalAt(pr', "put", e) = LocalAt(pr, "put", e) + One(r.put, e) - One(pr[p].put, e)
  <2>1. PICK b : b = pr'
    OBVIOUS
  <2>2. \A q \in Proc : q # p => b[q] = pr[q]
    BY <1>1, <2>1
  <2>3. \A g : LocalAt(b, g, e) = LocalAt(pr, g, e) + One(b[p][g], e) - One(pr[p][g], e)
    BY <2>2, LocalStep
  <2> QED
    BY <1>1, <2>1, <2>3
<1>5. \A x : One(x, e) \in Nat
  BY DEF One
<1>6. Holders(e)' = CountAt(cwd', e) + CountAt(fd', e) + LocalAt(pr', "cur", e)
                    + LocalAt(pr', "ip", e) + LocalAt(pr', "dp", e) + LocalAt(pr', "put", e)
  BY DEF Holders, CountAt, LocalAt
<1> QED
  BY <1>2, <1>3, <1>4, <1>5, <1>6, HoldersIs DEF Refs

-----------------------------------------------------------------------------
(* The inode table.                                                          *)

\* The table changes only where there are no references, or from disk to copy.
Kept(t, u) ==
  \A x \in Entry : t[x].ref > 0 => u[x].inum = t[x].inum /\ (t[x].valid => u[x].valid)

\* The record n is what entry e of table t may become: a copy of an allocated inode.
CopyOf(t, e, n) ==
  /\ n \in EntryRec /\ n.inum = t[e].inum /\ n.ref = t[e].ref
  /\ n.valid /\ n.type # "free"

\* Function f with g at x.
With(f, x, g) == [f EXCEPT ![x] = g]

\* An entry that is read from the disk.
LEMMA LoadSound ==
  ASSUME NEW t, NEW d, Sound(t, d), NEW e \in Entry, NEW n, CopyOf(t, e, n), t[e].ref > 0,
         n.type = d[n.inum].type, n.nlink = d[n.inum].nlink, n.blk = d[n.inum].blk
  PROVE  /\ Sound(With(t, e, n), d)
         /\ Kept(t, With(t, e, n))
         /\ \A x \in Entry : With(t, e, n)[x].ref = t[x].ref
<1> PICK u : u = With(t, e, n)
  OBVIOUS
<1>1. t \in Table /\ d \in DiskInodes
  BY DEF Sound
<1>2. u \in Table /\ u[e] = n /\ \A x \in Entry : x # e => u[x] = t[x]
  BY <1>1 DEF Table, CopyOf, With
<1>3. \A x \in Entry : u[x].ref = t[x].ref /\ u[x].inum = t[x].inum
  BY <1>2 DEF CopyOf
<1>4. Sound(u, d)
  <2>1. \A x, y \in Entry : u[x].ref > 0 /\ u[y].ref > 0 /\ u[x].inum = u[y].inum => x = y
    BY <1>3 DEF Sound
  <2>2. ASSUME NEW x \in Entry, u[x].ref > 0, u[x].valid
        PROVE  /\ u[x].type = d[u[x].inum].type /\ u[x].type # "free"
               /\ u[x].nlink = d[u[x].inum].nlink /\ u[x].blk = d[u[x].inum].blk
    <3>1. CASE x = e
      BY <1>2, <3>1 DEF CopyOf
    <3>2. CASE x # e
      BY <1>2, <2>2, <3>2 DEF Sound
    <3> QED
      BY <3>1, <3>2
  <2> QED
    BY <1>1, <1>2, <2>1, <2>2 DEF Sound
<1>5. Kept(t, u)
  BY <1>2, <1>3 DEF Kept, CopyOf
<1> QED
  BY <1>3, <1>4, <1>5

\* An entry that is changed here and on disk.
LEMMA UpdateSound ==
  ASSUME NEW t, NEW d, Sound(t, d), NEW e \in Entry, NEW n, CopyOf(t, e, n), t[e].ref > 0
  PROVE  /\ Sound(With(t, e, n), With(d, n.inum, iupdate(n)))
         /\ Kept(t, With(t, e, n))
         /\ \A x \in Entry : With(t, e, n)[x].ref = t[x].ref
<1> PICK u : u = With(t, e, n)
  OBVIOUS
<1> PICK c : c = With(d, n.inum, iupdate(n))
  OBVIOUS
<1>1. t \in Table /\ d \in DiskInodes
  BY DEF Sound
<1>2. u \in Table /\ u[e] = n /\ \A x \in Entry : x # e => u[x] = t[x]
  BY <1>1 DEF Table, CopyOf, With
<1>3. \A x \in Entry : u[x].ref = t[x].ref /\ u[x].inum = t[x].inum
  BY <1>2 DEF CopyOf
<1>4. n.inum \in Inum /\ iupdate(n) \in InodeRec
  BY DEF CopyOf, EntryRec, InodeRec, iupdate
<1>5. /\ c \in DiskInodes /\ c[n.inum] = iupdate(n)
      /\ \A i \in Inum : i # n.inum => c[i] = d[i]
  BY <1>1, <1>4 DEF DiskInodes, With
<1>6. Sound(u, c)
  <2>1. \A x, y \in Entry : u[x].ref > 0 /\ u[y].ref > 0 /\ u[x].inum = u[y].inum => x = y
    BY <1>3 DEF Sound
  <2>2. ASSUME NEW x \in Entry, u[x].ref > 0, u[x].valid
        PROVE  /\ u[x].type = c[u[x].inum].type /\ u[x].type # "free"
               /\ u[x].nlink = c[u[x].inum].nlink /\ u[x].blk = c[u[x].inum].blk
    <3>1. CASE x = e
      BY <1>2, <1>5, <3>1 DEF CopyOf, iupdate
    <3>2. CASE x # e
      <4>1. u[x].inum \in Inum /\ u[x].inum # n.inum
        BY <1>2, <1>3, <2>1, <2>2, <3>2 DEF Table, EntryRec
      <4> QED
        BY <1>2, <1>5, <2>2, <3>2, <4>1 DEF Sound
    <3> QED
      BY <3>1, <3>2
  <2> QED
    BY <1>2, <1>5, <2>1, <2>2 DEF Sound
<1>7. Kept(t, u)
  BY <1>2, <1>3 DEF Kept, CopyOf
<1> QED
  BY <1>3, <1>6, <1>7

\* One more reference, or one less.
RefIs(t, e, k) == [t EXCEPT ![e].ref = k]

LEMMA RefSound ==
  ASSUME NEW t, NEW d, Sound(t, d), NEW e \in Entry, t[e].ref > 0, NEW k \in Nat
  PROVE  /\ Sound(RefIs(t, e, k), d)
         /\ Kept(t, RefIs(t, e, k))
         /\ \A x \in Entry : RefIs(t, e, k)[x].ref = IF x = e THEN k ELSE t[x].ref
<1> PICK u : u = RefIs(t, e, k)
  OBVIOUS
<1>1. t \in Table /\ d \in DiskInodes
  BY DEF Sound
<1>2. /\ u \in Table /\ u[e] = [t[e] EXCEPT !.ref = k]
      /\ \A x \in Entry : x # e => u[x] = t[x]
  BY <1>1 DEF Table, EntryRec, RefIs
<1>3. /\ u[e].ref = k /\ u[e].inum = t[e].inum /\ u[e].valid = t[e].valid
      /\ u[e].type = t[e].type /\ u[e].nlink = t[e].nlink /\ u[e].blk = t[e].blk
  BY <1>1, <1>2 DEF Table, EntryRec
<1>4. Sound(u, d)
  <2>1. \A x \in Entry :
          /\ u[x].ref > 0 => t[x].ref > 0
          /\ u[x].inum = t[x].inum /\ u[x].valid = t[x].valid
          /\ u[x].type = t[x].type /\ u[x].nlink = t[x].nlink /\ u[x].blk = t[x].blk
    BY <1>2, <1>3
  <2> QED
    BY <1>1, <1>2, <2>1 DEF Sound
<1>5. Kept(t, u)
  BY <1>2, <1>3 DEF Kept
<1> QED
  BY <1>2, <1>3, <1>4, <1>5

\* An inode that is taken from the free ones.
LEMMA AllocSound ==
  ASSUME NEW t, NEW d, Sound(t, d), NEW i \in Inum, d[i].type = "free", NEW n \in InodeRec
  PROVE  Sound(t, With(d, i, n))
<1> PICK c : c = With(d, i, n)
  OBVIOUS
<1>1. t \in Table /\ d \in DiskInodes
  BY DEF Sound
<1>2. c \in DiskInodes /\ \A j \in Inum : j # i => c[j] = d[j]
  BY <1>1 DEF DiskInodes, With
<1>3. \A e \in Entry : t[e].inum \in Inum
  BY <1>1 DEF Table, EntryRec
<1>4. \A e \in Entry : t[e].ref > 0 /\ t[e].valid => t[e].inum # i
  BY DEF Sound
<1> QED
  BY <1>1, <1>2, <1>3, <1>4 DEF Sound

\* An inode that is freed, with its entry.
Cleared(t, e) == [t EXCEPT ![e].type = "free", ![e].blk = {}, ![e].valid = FALSE]

LEMMA FreeSound ==
  ASSUME NEW t, NEW d, Sound(t, d), NEW e \in Entry, t[e].ref > 0, NEW n \in InodeRec
  PROVE  /\ Sound(Cleared(t, e), With(d, t[e].inum, n))
         /\ \A x \in Entry : Cleared(t, e)[x].ref = t[x].ref /\ Cleared(t, e)[x].inum = t[x].inum
         /\ \A x \in Entry : x # e => Cleared(t, e)[x] = t[x]
<1> PICK u : u = Cleared(t, e)
  OBVIOUS
<1> PICK c : c = With(d, t[e].inum, n)
  OBVIOUS
<1>1. t \in Table /\ d \in DiskInodes
  BY DEF Sound
<1>2. /\ u \in Table /\ u[e].valid = FALSE /\ u[e].ref = t[e].ref /\ u[e].inum = t[e].inum
      /\ \A x \in Entry : x # e => u[x] = t[x]
  BY <1>1 DEF Table, EntryRec, Types, Cleared
<1>3. \A x \in Entry : u[x].inum \in Inum
  BY <1>2 DEF Table, EntryRec
<1>4. c \in DiskInodes /\ \A j \in Inum : j # t[e].inum => c[j] = d[j]
  BY <1>1, <1>2, <1>3 DEF DiskInodes, With
<1>5. \A x, y \in Entry : u[x].ref > 0 /\ u[y].ref > 0 /\ u[x].inum = u[y].inum => x = y
  <2>1. \A x \in Entry : u[x].ref = t[x].ref /\ u[x].inum = t[x].inum
    BY <1>2
  <2> QED
    BY <2>1 DEF Sound
<1>6. ASSUME NEW x \in Entry, u[x].ref > 0, u[x].valid
      PROVE  /\ u[x].type = c[u[x].inum].type /\ u[x].type # "free"
             /\ u[x].nlink = c[u[x].inum].nlink /\ u[x].blk = c[u[x].inum].blk
  <2>1. x # e
    BY <1>2, <1>6
  <2>2. u[x] = t[x] /\ t[x].inum # t[e].inum /\ t[x].inum \in Inum
    BY <1>2, <1>3, <1>6, <2>1 DEF Sound
  <2> QED
    BY <1>4, <1>6, <2>2 DEF Sound
<1>7. Sound(u, c)
  BY <1>2, <1>4, <1>5, <1>6 DEF Sound
<1> QED
  BY <1>2, <1>7

\* A set of numbers has a least element.
LEMMA LeastInSet ==
  ASSUME NEW S, IsFiniteSet(S), S \subseteq Int, S # {}
  PROVE  Min(S) \in S
<1> DEFINE below(x) == {y \in S : y <= x}
           T == {below(x) : x \in S}
           R == StrictSubsetOrdering(S)
<1>1. IsWellFoundedOn(R, SUBSET S)
  BY FS_FiniteSubsetsOfFinite, FS_StrictSubsetOrderingWellFounded
<1>2. T \subseteq SUBSET S /\ T # {}
  OBVIOUS
<1>3. \E m \in T : \A n \in T : ~(<<n, m>> \in R)
  <2> HIDE DEF R, T
  <2> QED
    BY <1>1, <1>2, WFMin
<1>4. PICK x \in S : \A y \in S : ~(<<below(y), below(x)>> \in R)
  BY <1>3
<1>5. \A y \in S : x <= y
  <2> SUFFICES ASSUME NEW y \in S, ~(x <= y) PROVE FALSE
    OBVIOUS
  <2>1. x \in Int /\ y \in Int /\ y < x
    OBVIOUS
  <2>2. \A z \in S : z \in Int /\ (z <= y => z <= x)
    BY <2>1
  <2>3. below(y) \subseteq below(x)
    BY <2>2
  <2>4. x \in below(x) /\ x \notin below(y)
    BY <2>1
  <2>5. <<below(y), below(x)>> \in R
    BY <2>3, <2>4 DEF StrictSubsetOrdering
  <2> QED
    BY <1>4, <2>5
<1> QED
  BY <1>5 DEF Min

LEMMA FiniteInum == IsFiniteSet(Inum) /\ Cardinality(Inum) = NINUM
<1>1. 1 \in Int /\ NINUM \in Int /\ NINUM >= 1
  BY InodeAssumption
<1> QED
  BY <1>1, FS_Interval DEF Inum

\* iget() finds the entry of the inode, or one that nobody uses: there are as many
\* entries as inodes, and no inode has two.
LEMMA SlotIs ==
  ASSUME Sound(itable, dinode), NEW i \in Inum
  PROVE  /\ Slot(i) \in Entry
         /\ itable[Slot(i)].ref > 0 => itable[Slot(i)].inum = i
         /\ itable[Slot(i)].ref = 0 =>
              \A x \in Entry : itable[x].ref > 0 => itable[x].inum # i
<1> DEFINE held == {e \in Entry : itable[e].ref > 0 /\ itable[e].inum = i}
           none == {e \in Entry : itable[e].ref = 0}
<1>1. \A e \in Entry : itable[e].ref \in Nat /\ itable[e].inum \in Inum
  BY DEF Sound, Table, EntryRec
<1>2. CASE held # {}
  <2>1. Slot(i) = CHOOSE e \in held : TRUE
    BY <1>2 DEF Slot
  <2>2. Slot(i) \in held
    BY <1>2, <2>1
  <2> QED
    BY <1>1, <2>2
<1>3. CASE held = {}
  <2>1. Slot(i) = Min(none)
    BY <1>3 DEF Slot
  <2>2. none # {}
    <3> SUFFICES ASSUME none = {} PROVE FALSE
      OBVIOUS
    <3> DEFINE g == [e \in Entry |-> itable[e].inum]
    <3>1. \A e \in Entry : itable[e].ref > 0
      BY <1>1
    <3>2. \A e \in Entry : itable[e].inum # i
      BY <1>3, <3>1
    <3>3. g \in [Entry -> Inum \ {i}]
      BY <1>1, <3>2
    <3>4. \A x, y \in Entry : g[x] = g[y] => x = y
      BY <3>1 DEF Sound
    <3>5. /\ IsFiniteSet(Inum \ {i})
          /\ Cardinality(Inum \ {i}) = NINUM - 1
      BY FiniteInum, FS_RemoveElement
    <3>6. IsFiniteSet(Entry) /\ Cardinality(Entry) = NINUM
      BY FiniteInum DEF Inum, Entry
    <3>7. Cardinality(Inum \ {i}) < Cardinality(Entry)
      BY <3>5, <3>6, InodeAssumption
    <3> HIDE DEF g
    <3>8. \E x, y \in Entry : x # y /\ g[x] = g[y]
      BY <3>3, <3>5, <3>6, <3>7, FS_PigeonHole
    <3> QED
      BY <3>4, <3>8
  <2>3. IsFiniteSet(none) /\ none \subseteq Int
    <3>1. IsFiniteSet(Entry) /\ none \in SUBSET Entry
      BY FiniteInum DEF Inum, Entry
    <3>2. none \subseteq Int
      BY InodeAssumption DEF Entry
    <3> HIDE DEF none
    <3> QED
      BY <3>1, <3>2, FS_Subset
  <2> HIDE DEF none
  <2>4. Slot(i) \in none
    BY <2>1, <2>2, <2>3, LeastInSet
  <2> QED
    BY <1>1, <1>3, <2>4 DEF none
<1> QED
  BY <1>2, <1>3

\* A new entry.
Taken(o, i) == [o EXCEPT !.inum = i, !.ref = 1, !.valid = FALSE]

LEMMA NewEntry ==
  ASSUME NEW o \in EntryRec, NEW i \in Inum
  PROVE  /\ Taken(o, i) \in EntryRec
         /\ Taken(o, i).inum = i /\ Taken(o, i).ref = 1 /\ ~Taken(o, i).valid
         /\ Taken(o, i).type = o.type /\ Taken(o, i).nlink = o.nlink
         /\ Taken(o, i).blk = o.blk
<1>1. PICK n : n = Taken(o, i)
  OBVIOUS
<1>2. /\ n \in EntryRec /\ n.inum = i /\ n.ref = 1 /\ ~n.valid
      /\ n.type = o.type /\ n.nlink = o.nlink /\ n.blk = o.blk
  BY <1>1 DEF EntryRec, Taken
<1> QED
  BY <1>1, <1>2

\* The table after iget().
LEMMA GetSound ==
  ASSUME Sound(itable, dinode), NEW i \in Inum, NEW t, NEW d, Sound(t, d),
         \A x \in Entry : t[x].ref = itable[x].ref /\ t[x].inum = itable[x].inum
  PROVE  /\ Sound(iget(t, i), d) /\ Kept(t, iget(t, i))
         /\ iget(t, i)[Slot(i)].inum = i /\ Slot(i) \in Entry
         /\ \A x \in Entry : iget(t, i)[x].ref = t[x].ref + One(Slot(i), x)
         /\ \A x \in Entry : x # Slot(i) => iget(t, i)[x] = t[x]
<1>1. PICK s : s = Slot(i)
  OBVIOUS
<1>2. PICK n : n = IF t[s].ref > 0 THEN [t[s] EXCEPT !.ref = t[s].ref + 1]
                 ELSE [t[s] EXCEPT !.inum = i, !.ref = 1, !.valid = FALSE]
  OBVIOUS
<1>3. PICK u : u = [t EXCEPT ![s] = n]
  OBVIOUS
<1>4. iget(t, i) = u
  BY <1>1, <1>2, <1>3, Zenon DEF iget
<1>5. /\ s \in Entry
      /\ t[s].ref > 0 => t[s].inum = i
      /\ t[s].ref = 0 => \A x \in Entry : t[x].ref > 0 => t[x].inum # i
  BY <1>1, SlotIs
<1>6. t \in Table /\ d \in DiskInodes
  BY DEF Sound
<1>7. t[s] \in EntryRec /\ t[s].ref \in Nat
  BY <1>5, <1>6 DEF Table, EntryRec
<1>8. /\ n \in EntryRec /\ n.inum = i /\ n.ref = t[s].ref + 1
      /\ n.type = t[s].type /\ n.nlink = t[s].nlink /\ n.blk = t[s].blk
      /\ n.valid => t[s].ref > 0 /\ t[s].valid
      /\ t[s].ref > 0 /\ t[s].valid => n.valid
  <2>1. CASE t[s].ref > 0
    <3>1. n = [t[s] EXCEPT !.ref = t[s].ref + 1]
      BY <1>2, <2>1
    <3> QED
      BY <1>5, <1>7, <2>1, <3>1 DEF EntryRec
  <2>2. CASE t[s].ref = 0
    <3>1. n = Taken(t[s], i)
      BY <1>2, <2>2 DEF Taken
    <3>2. /\ n \in EntryRec /\ n.inum = i /\ n.ref = 1 /\ ~n.valid
          /\ n.type = t[s].type /\ n.nlink = t[s].nlink /\ n.blk = t[s].blk
      BY <1>7, <3>1, NewEntry
    <3> QED
      BY <2>2, <3>2
  <2> QED
    BY <1>7, <2>1, <2>2
<1>9. u \in Table /\ u[s] = n /\ \A x \in Entry : x # s => u[x] = t[x]
  BY <1>5, <1>6, <1>8, <1>3 DEF Table
<1>10. Sound(u, d)
  <2>1. ASSUME NEW x \in Entry, NEW y \in Entry, u[x].ref > 0, u[y].ref > 0,
               u[x].inum = u[y].inum
        PROVE  x = y
    BY <1>5, <1>7, <1>8, <1>9, <2>1 DEF Sound
  <2>2. ASSUME NEW x \in Entry, u[x].ref > 0, u[x].valid
        PROVE  /\ u[x].type = d[u[x].inum].type /\ u[x].type # "free"
               /\ u[x].nlink = d[u[x].inum].nlink /\ u[x].blk = d[u[x].inum].blk
    BY <1>5, <1>8, <1>9, <2>2 DEF Sound
  <2> QED
    BY <1>6, <1>9, <2>1, <2>2 DEF Sound
<1>11. Kept(t, u)
  BY <1>5, <1>8, <1>9 DEF Kept
<1>12. \A x \in Entry : t[x].ref \in Nat
  BY <1>6 DEF Table, EntryRec
<1>13. \A x \in Entry : u[x].ref = t[x].ref + One(s, x)
  <2> TAKE x \in Entry
  <2>1. CASE x = s
    <3>1. One(s, x) = 1
      BY <2>1 DEF One
    <3> QED
      BY <1>8, <1>9, <2>1, <3>1
  <2>2. CASE x # s
    <3>1. One(s, x) = 0
      BY <2>2 DEF One
    <3> QED
      BY <1>9, <1>12, <2>2, <3>1
  <2> QED
    BY <2>1, <2>2
<1> QED
  BY <1>4, <1>5, <1>8, <1>9, <1>10, <1>11, <1>13, <1>1
-----------------------------------------------------------------------------
(* The records of processes.                                                 *)

\* The fields of record r.
Fields(r, pc, cont, call, second, path, cur, ip, dp, put) ==
  /\ r \in Process
  /\ r.pc = pc /\ r.cont = cont /\ r.call = call /\ r.second = second /\ r.path = path
  /\ r.cur = cur /\ r.ip = ip /\ r.dp = dp /\ r.put = put

LEMMA IdleIs ==
  Fields(Idle, "idle", "idle", None, FALSE, <<>>, None, None, None, None)
<1>1. <<>> \in Seq(AllNames)
  OBVIOUS
<1> QED
  BY <1>1 DEF Fields, Idle, Process, Labels

LEMMA AtLabel ==
  ASSUME NEW r \in Process, NEW l \in Labels
  PROVE  Fields([r EXCEPT !.pc = l], l, r.cont, r.call, r.second, r.path,
                r.cur, r.ip, r.dp, r.put)
<1>1. PICK s : s = [r EXCEPT !.pc = l]
  OBVIOUS
<1>2. Fields(s, l, r.cont, r.call, r.second, r.path, r.cur, r.ip, r.dp, r.put)
  BY <1>1 DEF Fields, Process
<1> QED
  BY <1>1, <1>2

LEMMA PutIs ==
  ASSUME NEW r \in Process, NEW e \in Entry, NEW l \in Labels
  PROVE  Fields(PutThen(r, e, l), "iput", l, r.call, r.second, r.path,
                r.cur, r.ip, r.dp, e)
<1>1. PICK s : s = PutThen(r, e, l)
  OBVIOUS
<1>2. Fields(s, "iput", l, r.call, r.second, r.path, r.cur, r.ip, r.dp, e)
  BY <1>1 DEF Fields, Process, PutThen, Labels
<1> QED
  BY <1>1, <1>2

LEMMA NoCurIs ==
  ASSUME NEW r \in Process
  PROVE  Fields([r EXCEPT !.cur = None], r.pc, r.cont, r.call, r.second, r.path,
                None, r.ip, r.dp, r.put)
<1>1. PICK s : s = [r EXCEPT !.cur = None]
  OBVIOUS
<1>2. Fields(s, r.pc, r.cont, r.call, r.second, r.path, None, r.ip, r.dp, r.put)
  BY <1>1 DEF Fields, Process
<1> QED
  BY <1>1, <1>2

LEMMA NoIpIs ==
  ASSUME NEW r \in Process
  PROVE  Fields([r EXCEPT !.ip = None], r.pc, r.cont, r.call, r.second, r.path,
                r.cur, None, r.dp, r.put)
<1>1. PICK s : s = [r EXCEPT !.ip = None]
  OBVIOUS
<1>2. Fields(s, r.pc, r.cont, r.call, r.second, r.path, r.cur, None, r.dp, r.put)
  BY <1>1 DEF Fields, Process
<1> QED
  BY <1>1, <1>2

LEMMA NoDpIs ==
  ASSUME NEW r \in Process
  PROVE  Fields([r EXCEPT !.dp = None], r.pc, r.cont, r.call, r.second, r.path,
                r.cur, r.ip, None, r.put)
<1>1. PICK s : s = [r EXCEPT !.dp = None]
  OBVIOUS
<1>2. Fields(s, r.pc, r.cont, r.call, r.second, r.path, r.cur, r.ip, None, r.put)
  BY <1>1 DEF Fields, Process
<1> QED
  BY <1>1, <1>2

LEMMA IpIs ==
  ASSUME NEW r \in Process, NEW e \in Entry
  PROVE  Fields([r EXCEPT !.ip = e], r.pc, r.cont, r.call, r.second, r.path,
                r.cur, e, r.dp, r.put)
<1>1. PICK s : s = [r EXCEPT !.ip = e]
  OBVIOUS
<1>2. Fields(s, r.pc, r.cont, r.call, r.second, r.path, r.cur, e, r.dp, r.put)
  BY <1>1 DEF Fields, Process
<1> QED
  BY <1>1, <1>2

\* namex() has one element less to go.
LEMMA CurIs ==
  ASSUME NEW r \in Process, NEW e \in Entry, r.path # <<>>
  PROVE  Fields([r EXCEPT !.cur = e, !.path = Tail(r.path)], r.pc, r.cont, r.call, r.second,
                Tail(r.path), e, r.ip, r.dp, r.put)
<1>1. Tail(r.path) \in Seq(AllNames)
  BY DEF Process
<1>2. PICK t : t = Tail(r.path)
  OBVIOUS
<1>3. PICK s : s = [r EXCEPT !.cur = e, !.path = t]
  OBVIOUS
<1>4. Fields(s, r.pc, r.cont, r.call, r.second, t, e, r.ip, r.dp, r.put)
  BY <1>1, <1>2, <1>3 DEF Fields, Process
<1> QED
  BY <1>2, <1>3, <1>4

\* A walk starts.
LEMMA StartIs ==
  ASSUME NEW c \in Calls, NEW q \in Seq(AllNames), NEW e \in Entry
  PROVE  Fields([Idle EXCEPT !.pc = "walk", !.call = c, !.path = q, !.cur = e],
                "walk", "idle", c, FALSE, q, e, None, None, None)
<1>1. PICK s : s = [Idle EXCEPT !.pc = "walk", !.call = c, !.path = q, !.cur = e]
  OBVIOUS
<1>2. Fields(s, "walk", "idle", c, FALSE, q, e, None, None, None)
  BY <1>1 DEF Fields, Process, Idle, Labels
<1> QED
  BY <1>1, <1>2

LEMMA SecondIs ==
  ASSUME NEW r \in Process, NEW q \in Seq(AllNames), NEW e \in Entry
  PROVE  Fields([r EXCEPT !.pc = "walk", !.second = TRUE, !.path = q, !.cur = e],
                "walk", r.cont, r.call, TRUE, q, e, r.ip, r.dp, r.put)
<1>1. PICK s : s = [r EXCEPT !.pc = "walk", !.second = TRUE, !.path = q, !.cur = e]
  OBVIOUS
<1>2. Fields(s, "walk", r.cont, r.call, TRUE, q, e, r.ip, r.dp, r.put)
  BY <1>1 DEF Fields, Process, Labels
<1> QED
  BY <1>1, <1>2

LEMMA LinkIs ==
  ASSUME NEW r \in Process, NEW e \in Entry
  PROVE  Fields([r EXCEPT !.pc = "link_new", !.ip = e, !.cur = None],
                "link_new", r.cont, r.call, r.second, r.path, None, e, r.dp, r.put)
<1>1. PICK s : s = [r EXCEPT !.pc = "link_new", !.ip = e, !.cur = None]
  OBVIOUS
<1>2. Fields(s, "link_new", r.cont, r.call, r.second, r.path, None, e, r.dp, r.put)
  BY <1>1 DEF Fields, Process, Labels
<1> QED
  BY <1>1, <1>2

LEMMA LocksIs ==
  ASSUME NEW r \in Process, NEW l \in Labels, NEW d \in Entry, NEW e \in Entry
  PROVE  Fields([r EXCEPT !.pc = l, !.dp = d, !.cur = None, !.ip = e],
                l, r.cont, r.call, r.second, r.path, None, e, d, r.put)
<1>1. PICK s : s = [r EXCEPT !.pc = l, !.dp = d, !.cur = None, !.ip = e]
  OBVIOUS
<1>2. Fields(s, l, r.cont, r.call, r.second, r.path, None, e, d, r.put)
  BY <1>1 DEF Fields, Process, Labels
<1> QED
  BY <1>1, <1>2

LEMMA AfterPutIs ==
  ASSUME NEW r \in Process, r.cont # "idle"
  PROVE  Fields(AfterPut(r), r.cont, r.cont, r.call, r.second, r.path,
                r.cur, r.ip, r.dp, None)
<1>1. PICK s : s = AfterPut(r)
  OBVIOUS
<1>2. Fields(s, r.cont, r.cont, r.call, r.second, r.path, r.cur, r.ip, r.dp, None)
  BY <1>1 DEF Fields, Process, AfterPut
<1> QED
  BY <1>1, <1>2

\* iput() of cur, of ip or of dp.
LEMMA PutCurIs ==
  ASSUME NEW r \in Process, NEW e \in Entry, NEW l \in Labels
  PROVE  Fields(PutThen([r EXCEPT !.cur = None], e, l), "iput", l, r.call, r.second, r.path,
                None, r.ip, r.dp, e)
<1>1. PICK s : s = [r EXCEPT !.cur = None]
  OBVIOUS
<1>2. Fields(s, r.pc, r.cont, r.call, r.second, r.path, None, r.ip, r.dp, r.put)
  BY <1>1, NoCurIs
<1>3. Fields(PutThen(s, e, l), "iput", l, s.call, s.second, s.path, s.cur, s.ip, s.dp, e)
  BY <1>2, PutIs DEF Fields
<1> QED
  BY <1>1, <1>2, <1>3 DEF Fields

LEMMA PutIpIs ==
  ASSUME NEW r \in Process, NEW e \in Entry, NEW l \in Labels
  PROVE  Fields(PutThen([r EXCEPT !.ip = None], e, l), "iput", l, r.call, r.second, r.path,
                r.cur, None, r.dp, e)
<1>1. PICK s : s = [r EXCEPT !.ip = None]
  OBVIOUS
<1>2. Fields(s, r.pc, r.cont, r.call, r.second, r.path, r.cur, None, r.dp, r.put)
  BY <1>1, NoIpIs
<1>3. Fields(PutThen(s, e, l), "iput", l, s.call, s.second, s.path, s.cur, s.ip, s.dp, e)
  BY <1>2, PutIs DEF Fields
<1> QED
  BY <1>1, <1>2, <1>3 DEF Fields

LEMMA PutDpIs ==
  ASSUME NEW r \in Process, NEW e \in Entry, NEW l \in Labels
  PROVE  Fields(PutThen([r EXCEPT !.dp = None], e, l), "iput", l, r.call, r.second, r.path,
                r.cur, r.ip, None, e)
<1>1. PICK s : s = [r EXCEPT !.dp = None]
  OBVIOUS
<1>2. Fields(s, r.pc, r.cont, r.call, r.second, r.path, r.cur, r.ip, None, r.put)
  BY <1>1, NoDpIs
<1>3. Fields(PutThen(s, e, l), "iput", l, s.call, s.second, s.path, s.cur, s.ip, s.dp, e)
  BY <1>2, PutIs DEF Fields
<1> QED
  BY <1>1, <1>2, <1>3 DEF Fields
-----------------------------------------------------------------------------
(* What a step of one process has to show.                                   *)

LEMMA OneIs ==
  /\ \A x, e : One(x, e) \in {0, 1}
  /\ \A e : One(e, e) = 1
  /\ \A e \in Entry : One(None, e) = 0
  BY InodeAssumption DEF One, Entry

\* What a process points to is referenced.
LEMMA Pointed ==
  ASSUME TableInv, NEW p \in Proc
  PROVE  /\ cwd[p] \in Entry /\ itable[cwd[p]].ref > 0
         /\ fd[p] # None => fd[p] \in Entry /\ itable[fd[p]].ref > 0
         /\ pr[p].cur # None => pr[p].cur \in Entry /\ itable[pr[p].cur].ref > 0
         /\ pr[p].ip # None => pr[p].ip \in Entry /\ itable[pr[p].ip].ref > 0
         /\ pr[p].dp # None => pr[p].dp \in Entry /\ itable[pr[p].dp].ref > 0
         /\ pr[p].put # None => pr[p].put \in Entry /\ itable[pr[p].put].ref > 0
<1>1. /\ cwd[p] \in Entry /\ fd[p] \in Entry \cup {None} /\ pr[p] \in Process
      /\ pr[p].cur \in Entry \cup {None} /\ pr[p].ip \in Entry \cup {None}
      /\ pr[p].dp \in Entry \cup {None} /\ pr[p].put \in Entry \cup {None}
  BY DEF TableInv, Typed, Process
<1>2. ASSUME NEW e \in Entry, \/ e = cwd[p] \/ e = fd[p] \/ e = pr[p].cur
                              \/ e = pr[p].ip \/ e = pr[p].dp \/ e = pr[p].put
      PROVE  itable[e].ref > 0
  <2>1. itable[e].ref \in Nat /\ itable[e].ref >= Refs(cwd[p], fd[p], pr[p], e)
    BY HoldersOne DEF TableInv, Counted
  <2>2. Refs(cwd[p], fd[p], pr[p], e) >= 1
    BY <1>2, OneIs DEF Refs
  <2>3. Refs(cwd[p], fd[p], pr[p], e) \in Int
    BY OneIs DEF Refs
  <2> QED
    BY <2>1, <2>2, <2>3
<1> QED
  BY <1>1, <1>2

\* ilock() leaves a copy of the inode on disk.
LEMMA LoadedIs ==
  ASSUME Sound(itable, dinode), NEW e \in Entry, itable[e].ref > 0
  PROVE  /\ Loaded(e) \in EntryRec /\ Loaded(e).inum = itable[e].inum
         /\ Loaded(e).ref = itable[e].ref /\ Loaded(e).valid
         /\ Loaded(e).inum \in Inum
         /\ Loaded(e).type = dinode[Loaded(e).inum].type
         /\ Loaded(e).nlink = dinode[Loaded(e).inum].nlink
         /\ Loaded(e).blk = dinode[Loaded(e).inum].blk
         /\ itable[e].valid => Loaded(e) = itable[e]
<1>1. itable[e] \in EntryRec /\ itable[e].inum \in Inum /\ dinode \in DiskInodes
  BY DEF Sound, Table, EntryRec
<1>2. CASE itable[e].valid
  <2>1. Loaded(e) = itable[e]
    BY <1>2 DEF Loaded
  <2> QED
    BY <1>1, <1>2, <2>1 DEF Sound
<1>3. CASE ~itable[e].valid
  <2>1. PICK d : d = dinode[itable[e].inum]
    OBVIOUS
  <2>2. d.type \in Types /\ d.nlink \in Int /\ d.blk \in SUBSET Block
    BY <1>1, <2>1 DEF DiskInodes, InodeRec
  <2>3. PICK o : o = itable[e]
    OBVIOUS
  <2>4. PICK n : n = [o EXCEPT !.valid = TRUE, !.type = d.type, !.nlink = d.nlink,
                              !.blk = d.blk]
    OBVIOUS
  <2>5. Loaded(e) = n
    BY <1>3, <2>1, <2>3, <2>4 DEF Loaded
  <2>6. /\ n \in EntryRec /\ n.inum = o.inum /\ n.ref = o.ref /\ n.valid
        /\ n.type = d.type /\ n.nlink = d.nlink /\ n.blk = d.blk
    <3>1. o \in EntryRec
      BY <1>1, <2>3
    <3> QED
      BY <2>2, <2>4, <3>1 DEF EntryRec
  <2> QED
    BY <1>1, <1>3, <2>1, <2>3, <2>5, <2>6
<1> QED
  BY <1>2, <1>3

\* References change as pointers do.
Balanced(p, c, f, r) ==
  \A x \in Entry :
    itable'[x].ref + Refs(cwd[p], fd[p], pr[p], x) = itable[x].ref + Refs(c, f, r, x)

\* Process p takes and releases its own locks only.
LocksMove(p, r) ==
  /\ lock' \in [Entry -> Proc \cup {None}]
  /\ \A x \in Entry : lock'[x] = p <=> Holds(r, x)
  /\ \A x \in Entry : lock'[x] = lock[x] \/ (lock[x] \in {None, p} /\ lock'[x] \in {None, p})

\* Locked entries stay valid.
StayValid(p, r) ==
  /\ \A x \in Entry : Holds(r, x) => itable'[x].valid
  /\ \A x \in Entry : itable[x].ref > 0 /\ itable[x].valid => itable'[x].valid \/ lock[x] = p

LEMMA StepTable ==
  ASSUME TableInv, NEW p \in Proc, NEW c, NEW f, NEW r, Moves(p, c, f, r), Shape(r),
         Sound(itable', dinode'), Balanced(p, c, f, r), LocksMove(p, r), StayValid(p, r),
         BlocksOwned', bitmap' \subseteq Block, ncalls' \in 0..MaxCalls,
         dents' \in [Inum -> [AllNames -> Inum \cup {0}]]
  PROVE  TableInv'
<1>1. Typed'
  BY DEF Moves, TableInv, Typed, LocksMove, Sound
<1>2. cwd'[p] = c /\ fd'[p] = f /\ pr'[p] = r /\ \A q \in Proc : q # p => pr'[q] = pr[q]
  BY DEF Moves, TableInv, Typed
<1>3. Shapes'
  BY <1>2 DEF TableInv, Shapes
<1>4. Counted'
  <2> SUFFICES ASSUME NEW x \in Entry PROVE itable'[x].ref = Holders(x)'
    BY DEF Counted
  <2>1. Holders(x)' = Holders(x) + Refs(c, f, r, x) - Refs(cwd[p], fd[p], pr[p], x)
    BY HoldersStep DEF TableInv
  <2>2. itable[x].ref = Holders(x) /\ Holders(x) \in Nat
    BY HoldersOne DEF TableInv, Counted
  <2>3. itable'[x].ref \in Nat
    BY <1>1 DEF Typed, Table, EntryRec
  <2>4. Refs(c, f, r, x) \in Int /\ Refs(cwd[p], fd[p], pr[p], x) \in Int
    BY OneIs DEF Refs
  <2>5. itable'[x].ref + Refs(cwd[p], fd[p], pr[p], x) = itable[x].ref + Refs(c, f, r, x)
    BY DEF Balanced
  <2>6. itable'[x].ref = Holders(x) + Refs(c, f, r, x) - Refs(cwd[p], fd[p], pr[p], x)
    <3>1. PICK t \in Nat : t = itable'[x].ref
      BY <2>3
    <3>2. PICK h \in Nat : h = Holders(x)
      BY <2>2
    <3>3. PICK a \in Int : a = Refs(c, f, r, x)
      BY <2>4
    <3>4. PICK b \in Int : b = Refs(cwd[p], fd[p], pr[p], x)
      BY <2>4
    <3>5. t + b = h + a
      BY <2>2, <2>5, <3>1, <3>2, <3>3, <3>4, Zenon
    <3>6. t = h + a - b
      BY <3>5
    <3> QED
      BY <3>1, <3>2, <3>3, <3>4, <3>6, Zenon
  <2> QED
    BY <2>1, <2>6, Zenon
<1>5. Locking'
  <2> SUFFICES ASSUME NEW q \in Proc, NEW x \in Entry
               PROVE  lock'[x] = q <=> Holds(pr'[q], x)
    BY DEF Locking
  <2>1. CASE q = p
    BY <1>2, <2>1 DEF LocksMove
  <2>2. CASE q # p
    <3>1. lock[x] = q <=> Holds(pr[q], x)
      BY DEF TableInv, Locking
    <3>2. q # None
      BY InodeAssumption
    <3>3. lock'[x] = q <=> lock[x] = q
      BY <2>2, <3>2 DEF LocksMove
    <3> QED
      BY <1>2, <2>2, <3>1, <3>3
  <2> QED
    BY <2>1, <2>2
<1>6. HeldValid'
  <2> SUFFICES ASSUME NEW q \in Proc, NEW x \in Entry, Holds(pr'[q], x)
               PROVE  itable'[x].valid
    BY DEF HeldValid
  <2>1. CASE q = p
    BY <1>2, <2>1 DEF StayValid
  <2>2. CASE q # p
    <3>1. Holds(pr[q], x) /\ lock[x] = q /\ itable[x].valid
      BY <1>2, <2>2 DEF TableInv, HeldValid, Locking
    <3>2. itable[x].ref > 0
      BY <3>1, Pointed, InodeAssumption DEF Holds, Entry
    <3> QED
      BY <2>2, <3>1, <3>2 DEF StayValid
  <2> QED
    BY <2>1, <2>2
<1> QED
  BY <1>1, <1>3, <1>4, <1>5, <1>6 DEF TableInv
\* The inodes keep their blocks, and none is freed.
BlocksKept ==
  \A i \in Inum : /\ dinode'[i].blk = dinode[i].blk
                  /\ dinode'[i].type = "free" => dinode[i].type = "free"

LEMMA BlocksSame ==
  ASSUME BlocksOwned, bitmap' = bitmap, BlocksKept
  PROVE  BlocksOwned'
<1>1. \A i \in Inum : dinode'[i].blk = dinode[i].blk
  BY DEF BlocksKept
<1>2. UNION {dinode'[i].blk : i \in Inum} = UNION {dinode[i].blk : i \in Inum}
  BY <1>1
<1>3. \A i, j \in Inum : i # j => dinode'[i].blk \cap dinode'[j].blk = {}
  BY <1>1 DEF BlocksOwned
<1>4. \A i \in Inum : dinode'[i].type = "free" => dinode'[i].blk = {}
  BY <1>1 DEF BlocksOwned, BlocksKept
<1> QED
  BY <1>2, <1>3, <1>4 DEF BlocksOwned

\* What is left alone by most steps.
Rest == bitmap' = bitmap /\ ncalls' = ncalls
DentsOK == dents' \in [Inum -> [AllNames -> Inum \cup {0}]]

\* The process has the same number of pointers to every entry.
SameRefs(p, c, f, r) ==
  \A x \in Entry : Refs(c, f, r, x) = Refs(cwd[p], fd[p], pr[p], x)
SameHolds(p, r) == \A x \in Entry : Holds(r, x) <=> Holds(pr[p], x)

LEMMA RefsInt ==
  ASSUME NEW c, NEW f, NEW r, NEW x
  PROVE  Refs(c, f, r, x) \in Int
  BY OneIs DEF Refs

LEMMA LocksSame ==
  ASSUME TableInv, NEW p \in Proc, NEW r, lock' = lock, SameHolds(p, r)
  PROVE  LocksMove(p, r)
<1>1. lock \in [Entry -> Proc \cup {None}]
  BY DEF TableInv, Typed
<1>2. \A x \in Entry : lock[x] = p <=> Holds(pr[p], x)
  BY DEF TableInv, Locking
<1> QED
  BY <1>1, <1>2 DEF LocksMove, SameHolds

LEMMA ValidSame ==
  ASSUME TableInv, NEW p \in Proc, NEW r, Kept(itable, itable'),
         \A x \in Entry : Holds(r, x) => Holds(pr[p], x) \/ itable'[x].valid
  PROVE  StayValid(p, r)
<1>1. \A x \in Entry : itable[x].ref > 0 /\ itable[x].valid => itable'[x].valid
  BY DEF Kept
<1>2. ASSUME NEW x \in Entry, Holds(pr[p], x) PROVE itable[x].ref > 0 /\ itable[x].valid
  <2>1. itable[x].ref > 0
    BY <1>2, Pointed, InodeAssumption DEF Holds, Entry
  <2> QED
    BY <1>2, <2>1 DEF TableInv, HeldValid
<1> QED
  BY <1>1, <1>2 DEF StayValid

\* A step that changes neither the table nor the disk inodes.
LEMMA SameStep ==
  ASSUME TableInv, NEW p \in Proc, NEW c, NEW f, NEW r, Moves(p, c, f, r), Shape(r),
         itable' = itable, dinode' = dinode, DentsOK, Rest, SameRefs(p, c, f, r),
         LocksMove(p, r), \A x \in Entry : Holds(r, x) => Holds(pr[p], x)
  PROVE  TableInv' /\ Kept(itable, itable')
<1>1. Sound(itable', dinode') /\ Kept(itable, itable') /\ BlocksKept
  BY DEF TableInv, Kept, BlocksKept
<1>2. Balanced(p, c, f, r)
  BY DEF Balanced, SameRefs
<1>3. BlocksOwned'
  BY <1>1, BlocksSame DEF TableInv, Rest
<1>4. StayValid(p, r)
  BY <1>1, ValidSame
<1>5. bitmap' \subseteq Block /\ ncalls' \in 0..MaxCalls
  BY DEF TableInv, Typed, Rest
<1> QED
  BY <1>1, <1>2, <1>3, <1>4, <1>5, StepTable DEF DentsOK

\* A step that reads an inode into its entry.
LEMMA LoadStep ==
  ASSUME TableInv, NEW p \in Proc, NEW c, NEW f, NEW r, Moves(p, c, f, r), Shape(r),
         NEW e \in Entry, itable[e].ref > 0, Loaded(e).type # "free",
         itable' = [itable EXCEPT ![e] = Loaded(e)],
         dinode' = dinode, DentsOK, Rest, SameRefs(p, c, f, r), lock' = lock, SameHolds(p, r)
  PROVE  TableInv' /\ Kept(itable, itable')
<1>1. PICK n : n = Loaded(e)
  OBVIOUS
<1>2. /\ CopyOf(itable, e, n) /\ n.type = dinode[n.inum].type
      /\ n.nlink = dinode[n.inum].nlink /\ n.blk = dinode[n.inum].blk
  BY <1>1, LoadedIs DEF TableInv, CopyOf
<1>3. /\ Sound(itable', dinode') /\ Kept(itable, itable')
      /\ \A x \in Entry : itable'[x].ref = itable[x].ref
  <2>1. Sound(itable, dinode)
    BY DEF TableInv
  <2>2. /\ Sound(With(itable, e, n), dinode) /\ Kept(itable, With(itable, e, n))
        /\ \A x \in Entry : With(itable, e, n)[x].ref = itable[x].ref
    BY <1>2, <2>1, LoadSound
  <2>3. itable' = With(itable, e, n) /\ dinode' = dinode
    BY <1>1 DEF With
  <2> QED
    BY <2>2, <2>3, Zenon
<1>4. BlocksOwned'
  BY BlocksSame DEF TableInv, Rest, BlocksKept
<1>5. Balanced(p, c, f, r)
  BY <1>3 DEF Balanced, SameRefs
<1>6. LocksMove(p, r) /\ StayValid(p, r)
  BY <1>3, LocksSame, ValidSame DEF SameHolds
<1>7. bitmap' \subseteq Block /\ ncalls' \in 0..MaxCalls
  BY DEF TableInv, Typed, Rest
<1> QED
  BY <1>3, <1>4, <1>5, <1>6, <1>7, StepTable DEF DentsOK

\* A step that changes an inode here and on disk.
LEMMA UpdateStep ==
  ASSUME TableInv, NEW p \in Proc, NEW c, NEW f, NEW r, Moves(p, c, f, r), Shape(r),
         NEW e \in Entry, itable[e].ref > 0, NEW n, CopyOf(itable, e, n), Update(e, n),
         DentsOK, ncalls' = ncalls, bitmap' \subseteq Block, BlocksOwned',
         SameRefs(p, c, f, r), LocksMove(p, r),
         \A x \in Entry : Holds(r, x) => Holds(pr[p], x)
  PROVE  TableInv' /\ Kept(itable, itable')
<1>1. /\ Sound(itable', dinode') /\ Kept(itable, itable')
      /\ \A x \in Entry : itable'[x].ref = itable[x].ref
  <2>1. Sound(itable, dinode)
    BY DEF TableInv
  <2>2. /\ Sound(With(itable, e, n), With(dinode, n.inum, iupdate(n)))
        /\ Kept(itable, With(itable, e, n))
        /\ \A x \in Entry : With(itable, e, n)[x].ref = itable[x].ref
    BY <2>1, UpdateSound
  <2>3. itable' = With(itable, e, n) /\ dinode' = With(dinode, n.inum, iupdate(n))
    BY DEF Update, With
  <2> QED
    BY <2>2, <2>3, Zenon
<1>2. Balanced(p, c, f, r)
  BY <1>1 DEF Balanced, SameRefs
<1>3. StayValid(p, r)
  BY <1>1, ValidSame
<1>4. ncalls' \in 0..MaxCalls
  BY DEF TableInv, Typed
<1> QED
  BY <1>1, <1>2, <1>3, <1>4, StepTable DEF DentsOK

\* A step that gets one more reference, from iget() or idup().
LEMMA GetStep ==
  ASSUME TableInv, NEW p \in Proc, NEW c, NEW f, NEW r, Moves(p, c, f, r), Shape(r),
         NEW s \in Entry, Sound(itable', dinode'), Kept(itable, itable'),
         \A x \in Entry : itable'[x].ref = itable[x].ref + One(s, x),
         \A x \in Entry : Refs(c, f, r, x) = Refs(cwd[p], fd[p], pr[p], x) + One(s, x),
         LocksMove(p, r),
         \A x \in Entry : Holds(r, x) => Holds(pr[p], x) \/ itable'[x].valid,
         bitmap' = bitmap, BlocksKept, ncalls' \in 0..MaxCalls, dents' = dents
  PROVE  TableInv'
<1>1. \A x \in Entry : itable[x].ref \in Nat /\ One(s, x) \in Int
  BY OneIs DEF TableInv, Typed, Table, EntryRec
<1>2. Balanced(p, c, f, r)
  BY <1>1, RefsInt DEF Balanced
<1>3. BlocksOwned'
  BY BlocksSame DEF TableInv
<1>4. StayValid(p, r)
  BY ValidSame
<1>5. bitmap' \subseteq Block /\ dents' \in [Inum -> [AllNames -> Inum \cup {0}]]
  BY DEF TableInv, Typed
<1> QED
  BY <1>2, <1>3, <1>4, <1>5, StepTable
-----------------------------------------------------------------------------
(* The steps of a process, one by one.                                       *)

LEMMA ProcessIs ==
  ASSUME TableInv, NEW p \in Proc
  PROVE  /\ pr[p] \in Process /\ Shape(pr[p]) /\ cwd[p] \in Entry
         /\ fd[p] \in Entry \cup {None} /\ pr[p].cont \in Labels /\ pr[p].pc \in Labels
         /\ pr[p].path \in Seq(AllNames) /\ pr[p].second \in BOOLEAN
         /\ Sound(itable, dinode) /\ DOMAIN cwd = Proc /\ DOMAIN fd = Proc /\ DOMAIN pr = Proc
  BY DEF TableInv, Shapes, Typed, Process

\* Only the record of p changes.
LEMMA RecordMoves ==
  ASSUME TableInv, NEW p \in Proc, NEW r \in Process, cwd' = cwd, fd' = fd,
         pr' = [pr EXCEPT ![p] = r]
  PROVE  Moves(p, cwd[p], fd[p], r)
  BY ProcessIs DEF Moves, TableInv, Typed

LEMMA DentsSame ==
  ASSUME TableInv, dents' = dents
  PROVE  DentsOK
  BY DEF TableInv, Typed, DentsOK

\* namex() or its caller drops the inode that the walk has reached.
LEMMA PutCur ==
  ASSUME TableInv, NEW p \in Proc, pr[p].pc \in {"walk", "found"}, NEW l,
         IF pr[p].second THEN l \in {"link_bad", "link_put"} ELSE l = "idle",
         NEW r, r = PutThen([pr[p] EXCEPT !.cur = None], pr[p].cur, l)
  PROVE  /\ r \in Process /\ Shape(r) /\ SameRefs(p, cwd[p], fd[p], r) /\ SameHolds(p, r)
         /\ pr[p].cur \in Entry /\ itable[pr[p].cur].ref > 0
         /\ Fields(r, "iput", l, pr[p].call, pr[p].second, pr[p].path,
                   None, pr[p].ip, pr[p].dp, pr[p].cur)
<1>1. /\ pr[p] \in Process /\ Shape(pr[p]) /\ l \in Labels
  BY ProcessIs DEF Labels
<1>2. pr[p].cur # None /\ pr[p].dp = None /\ pr[p].put = None
  BY <1>1 DEF Shape, Walking, HasDp, Stage, Putting
<1>3. pr[p].cur \in Entry /\ itable[pr[p].cur].ref > 0
  BY <1>2, Pointed
<1>4. Fields(r, "iput", l, pr[p].call, pr[p].second, pr[p].path,
             None, pr[p].ip, pr[p].dp, pr[p].cur)
  BY <1>1, <1>3, PutCurIs
<1>5. Shape(r)
  BY <1>1, <1>2, <1>3, <1>4, InodeAssumption
     DEF Shape, Walking, HasDp, HasIp, Stage, Putting, Conts, Fields, ByParent, Entry
<1>6. SameRefs(p, cwd[p], fd[p], r)
  BY <1>2, <1>4, OneIs DEF SameRefs, Refs, Fields
<1>7. SameHolds(p, r)
  BY <1>2, <1>4 DEF SameHolds, Holds, Stage, Fields, Putting
<1> QED
  BY <1>3, <1>4, <1>5, <1>6, <1>7 DEF Fields
LEMMA WalkFailStep ==
  ASSUME TableInv, NEW p \in Proc, walk_fail(p)
  PROVE  TableInv' /\ Kept(itable, itable')
<1>1. PICK r : r = PutThen([pr[p] EXCEPT !.cur = None], pr[p].cur, FailTo(p))
  OBVIOUS
<1>2. /\ pr[p].pc = "walk" /\ Loaded(pr[p].cur).type # "free" /\ Rest
      /\ itable' = [itable EXCEPT ![pr[p].cur] = Loaded(pr[p].cur)]
      /\ dinode' = dinode /\ dents' = dents /\ lock' = lock /\ cwd' = cwd /\ fd' = fd
      /\ pr' = [pr EXCEPT ![p] = r]
  BY <1>1 DEF walk_fail, At, Locks, disk, Rest
<1>3. IF pr[p].second THEN FailTo(p) \in {"link_bad", "link_put"} ELSE FailTo(p) = "idle"
  BY DEF FailTo
<1>4. /\ r \in Process /\ Shape(r) /\ SameRefs(p, cwd[p], fd[p], r) /\ SameHolds(p, r)
      /\ pr[p].cur \in Entry /\ itable[pr[p].cur].ref > 0
  BY <1>1, <1>2, <1>3, PutCur
<1>5. Moves(p, cwd[p], fd[p], r) /\ DentsOK
  BY <1>2, <1>4, RecordMoves, DentsSame
<1> QED
  BY <1>2, <1>4, <1>5, LoadStep

LEMMA WalkParentStep ==
  ASSUME TableInv, NEW p \in Proc, walk_parent(p)
  PROVE  TableInv' /\ Kept(itable, itable')
<1>1. PICK r : r = [pr[p] EXCEPT !.pc = "found"]
  OBVIOUS
<1>2. /\ pr[p].pc = "walk" /\ Loaded(pr[p].cur).type # "free" /\ Rest /\ Len(pr[p].path) = 1
      /\ itable' = [itable EXCEPT ![pr[p].cur] = Loaded(pr[p].cur)]
      /\ dinode' = dinode /\ dents' = dents /\ lock' = lock /\ cwd' = cwd /\ fd' = fd
      /\ pr' = [pr EXCEPT ![p] = r]
  BY <1>1 DEF walk_parent, At, Locks, disk, Rest
<1>3. pr[p] \in Process /\ Shape(pr[p])
  BY ProcessIs
<1>4. Fields(r, "found", pr[p].cont, pr[p].call, pr[p].second, pr[p].path,
             pr[p].cur, pr[p].ip, pr[p].dp, pr[p].put)
  BY <1>1, <1>3, AtLabel DEF Labels
<1>5. pr[p].cur \in Entry /\ itable[pr[p].cur].ref > 0
  BY <1>2, <1>3, Pointed DEF Shape, Walking, Stage, Putting
<1>6. Shape(r)
  BY <1>2, <1>3, <1>4
     DEF Shape, Walking, HasDp, HasIp, Stage, Putting, Conts, Fields, ByParent
<1>7. SameRefs(p, cwd[p], fd[p], r) /\ SameHolds(p, r)
  BY <1>2, <1>4 DEF SameRefs, Refs, SameHolds, Holds, Stage, Fields, Putting
<1>8. Moves(p, cwd[p], fd[p], r) /\ DentsOK
  BY <1>2, <1>4, RecordMoves, DentsSame DEF Fields
<1> QED
  BY <1>2, <1>5, <1>6, <1>7, <1>8, LoadStep

LEMMA WalkEndStep ==
  ASSUME TableInv, NEW p \in Proc, walk_end(p)
  PROVE  TableInv' /\ Kept(itable, itable')
<1>1. PICK r : r = IF Parent(p)
                   THEN PutThen([pr[p] EXCEPT !.cur = None], pr[p].cur, FailTo(p))
                   ELSE [pr[p] EXCEPT !.pc = "found"]
  OBVIOUS
<1>2. /\ pr[p].pc = "walk" /\ Rest /\ itable' = itable
      /\ dinode' = dinode /\ dents' = dents /\ lock' = lock /\ cwd' = cwd /\ fd' = fd
      /\ pr' = [pr EXCEPT ![p] = r]
  BY <1>1 DEF walk_end, At, disk, mem, Rest
<1>3. pr[p] \in Process /\ Shape(pr[p])
  BY ProcessIs
<1>4. r \in Process /\ Shape(r) /\ SameRefs(p, cwd[p], fd[p], r) /\ SameHolds(p, r)
  <2>1. CASE Parent(p)
    <3>1. IF pr[p].second THEN FailTo(p) \in {"link_bad", "link_put"} ELSE FailTo(p) = "idle"
      BY DEF FailTo
    <3>2. r = PutThen([pr[p] EXCEPT !.cur = None], pr[p].cur, FailTo(p))
      BY <1>1, <2>1
    <3> QED
      BY <1>2, <3>1, <3>2, PutCur
  <2>2. CASE ~Parent(p)
    <3>1. r = [pr[p] EXCEPT !.pc = "found"]
      BY <1>1, <2>2
    <3>2. Fields(r, "found", pr[p].cont, pr[p].call, pr[p].second, pr[p].path,
                 pr[p].cur, pr[p].ip, pr[p].dp, pr[p].put)
      BY <1>3, <3>1, AtLabel DEF Labels
    <3>3. ~ByParent(r)
      BY <2>2, <3>2 DEF Parent, ByParent, Fields
    <3>4. Shape(r)
      BY <1>2, <1>3, <3>2, <3>3
         DEF Shape, Walking, HasDp, HasIp, Stage, Putting, Conts, Fields
    <3> QED
      BY <1>2, <3>2, <3>4 DEF SameRefs, Refs, SameHolds, Holds, Stage, Fields, Putting
  <2> QED
    BY <2>1, <2>2
<1>5. Moves(p, cwd[p], fd[p], r) /\ DentsOK /\ LocksMove(p, r)
  BY <1>2, <1>4, RecordMoves, DentsSame, LocksSame
<1> QED
  BY <1>2, <1>4, <1>5, SameStep DEF SameHolds

\* What a call on an idle process starts from.
LEMMA IdleOf ==
  ASSUME TableInv, NEW p \in Proc, pr[p].pc = "idle"
  PROVE  pr[p] = Idle /\ \A x \in Entry : ~Holds(pr[p], x)
<1>1. pr[p] = Idle
  BY ProcessIs DEF Shape
<1> QED
  BY <1>1, IdleIs, InodeAssumption DEF Holds, Fields, Entry

LEMMA CloseStep ==
  ASSUME TableInv, NEW p \in Proc, close(p)
  PROVE  TableInv' /\ Kept(itable, itable')
<1>1. PICK r : r = PutThen(pr[p], fd[p], "idle")
  OBVIOUS
<1>2. /\ pr[p].pc = "idle" /\ Rest /\ itable' = itable /\ fd[p] # None
      /\ dinode' = dinode /\ dents' = dents /\ lock' = lock /\ cwd' = cwd
      /\ fd' = [fd EXCEPT ![p] = None] /\ pr' = [pr EXCEPT ![p] = r]
  BY <1>1 DEF close, At, disk, mem, Rest
<1>3. pr[p] \in Process /\ Shape(pr[p]) /\ pr[p] = Idle /\ \A x \in Entry : ~Holds(pr[p], x)
  BY <1>2, ProcessIs, IdleOf
<1>4. fd[p] \in Entry
  BY <1>2, ProcessIs
<1>5. Fields(r, "iput", "idle", None, FALSE, <<>>, None, None, None, fd[p])
  <2>1. "idle" \in Labels
    BY DEF Labels
  <2>2. Fields(r, "iput", "idle", pr[p].call, pr[p].second, pr[p].path,
               pr[p].cur, pr[p].ip, pr[p].dp, fd[p])
    BY <1>1, <1>3, <1>4, <2>1, PutIs
  <2> QED
    BY <1>3, <2>2, IdleIs DEF Fields
<1>6. Shape(r)
  BY <1>2, <1>4, <1>5, InodeAssumption
     DEF Shape, Walking, HasDp, HasIp, Stage, Putting, Conts, Fields, ByParent, Entry
<1>7. SameRefs(p, cwd[p], None, r)
  BY <1>3, <1>5, IdleIs, OneIs DEF SameRefs, Refs, Fields
<1>8. SameHolds(p, r)
  BY <1>3, <1>5, InodeAssumption DEF SameHolds, Holds, Stage, Fields, Putting, Entry
<1>9. Moves(p, cwd[p], None, r) /\ DentsOK /\ LocksMove(p, r)
  <2>1. cwd' = [cwd EXCEPT ![p] = cwd[p]]
    BY <1>2 DEF TableInv, Typed
  <2> QED
    BY <1>2, <1>5, <1>8, <2>1, ProcessIs, DentsSame, LocksSame DEF Fields, Moves
<1> QED
  BY <1>2, <1>6, <1>7, <1>8, <1>9, SameStep DEF SameHolds
\* The caller drops ip.
LEMMA PutIp ==
  ASSUME TableInv, NEW p \in Proc,
         pr[p].pc \in {"link_put", "link_bad", "unlink_ip", "create_new", "unlink_last",
                      "create_ret", "create_old"},
         NEW l, l = IF pr[p].dp = None THEN "idle" ELSE "unlock_dp",
         NEW r, r = PutThen([pr[p] EXCEPT !.ip = None], pr[p].ip, l)
  PROVE  /\ r \in Process /\ Shape(r) /\ SameRefs(p, cwd[p], fd[p], r)
         /\ pr[p].ip \in Entry /\ itable[pr[p].ip].ref > 0
         /\ (pr[p].dp = None <=> pr[p].pc \notin {"unlink_ip", "create_new"})
         /\ \A x \in Entry : Holds(r, x) <=> pr[p].dp = x
         /\ Fields(r, "iput", l, pr[p].call, pr[p].second, pr[p].path,
                   None, None, pr[p].dp, pr[p].ip)
<1>1. /\ pr[p] \in Process /\ Shape(pr[p]) /\ l \in Labels
  BY ProcessIs DEF Labels
<1>2. /\ pr[p].cur = None /\ pr[p].put = None /\ pr[p].ip # None
      /\ (pr[p].dp = None <=> pr[p].pc \notin {"unlink_ip", "create_new"})
  BY <1>1 DEF Shape, Walking, HasDp, HasIp, Stage, Putting
<1>3. pr[p].ip \in Entry /\ itable[pr[p].ip].ref > 0
  BY <1>2, Pointed
<1>4. Fields(r, "iput", l, pr[p].call, pr[p].second, pr[p].path,
             None, None, pr[p].dp, pr[p].ip)
  <2>1. Fields(r, "iput", l, pr[p].call, pr[p].second, pr[p].path,
               pr[p].cur, None, pr[p].dp, pr[p].ip)
    BY <1>1, <1>3, PutIpIs
  <2> QED
    BY <1>2, <2>1
<1>5. Shape(r)
  BY <1>1, <1>2, <1>3, <1>4, InodeAssumption
     DEF Shape, Walking, HasDp, HasIp, Stage, Putting, Conts, Fields, ByParent, Entry
<1>6. SameRefs(p, cwd[p], fd[p], r)
  BY <1>2, <1>4, OneIs DEF SameRefs, Refs, Fields
<1>7. \A x \in Entry : Holds(r, x) <=> pr[p].dp = x
  BY <1>2, <1>4, InodeAssumption DEF Holds, Stage, Fields, Putting, Entry
<1> QED
  BY <1>2, <1>3, <1>4, <1>5, <1>6, <1>7 DEF Fields

LEMMA LinkPutStep ==
  ASSUME TableInv, NEW p \in Proc, link_put(p)
  PROVE  TableInv' /\ Kept(itable, itable')
<1>1. PICK r : r = PutThen([pr[p] EXCEPT !.ip = None], pr[p].ip, "idle")
  OBVIOUS
<1>2. /\ pr[p].pc = "link_put" /\ Rest /\ itable' = itable
      /\ dinode' = dinode /\ dents' = dents /\ lock' = lock /\ cwd' = cwd /\ fd' = fd
      /\ pr' = [pr EXCEPT ![p] = r]
  BY <1>1 DEF link_put, At, disk, mem, Rest
<1>3. pr[p].dp = None /\ Shape(pr[p])
  BY <1>2, ProcessIs DEF Shape, HasDp, Stage, Putting
<1>4. /\ r \in Process /\ Shape(r) /\ SameRefs(p, cwd[p], fd[p], r)
      /\ \A x \in Entry : Holds(r, x) <=> pr[p].dp = x
  BY <1>1, <1>2, <1>3, PutIp
<1>5. SameHolds(p, r)
  BY <1>2, <1>3, <1>4, InodeAssumption
     DEF SameHolds, Holds, Stage, Putting, Entry, Shape
<1>6. Moves(p, cwd[p], fd[p], r) /\ DentsOK /\ LocksMove(p, r)
  BY <1>2, <1>4, <1>5, RecordMoves, DentsSame, LocksSame
<1> QED
  BY <1>2, <1>4, <1>5, <1>6, SameStep DEF SameHolds

\* What a process that holds one lock, and no other, does to the lock table.
LEMMA Unlocks ==
  ASSUME TableInv, NEW p \in Proc, NEW r, NEW e \in Entry,
         lock' = [lock EXCEPT ![e] = None], Holds(pr[p], e),
         \A x \in Entry : Holds(r, x) <=> Holds(pr[p], x) /\ x # e
  PROVE  LocksMove(p, r)
<1>1. lock \in [Entry -> Proc \cup {None}] /\ \A x \in Entry : lock[x] = p <=> Holds(pr[p], x)
  BY DEF TableInv, Typed, Locking
<1>2. /\ lock' \in [Entry -> Proc \cup {None}] /\ lock'[e] = None
      /\ \A x \in Entry : x # e => lock'[x] = lock[x]
  BY <1>1
<1>3. p # None
  BY InodeAssumption
<1> QED
  BY <1>1, <1>2, <1>3 DEF LocksMove

LEMMA CreateRetStep ==
  ASSUME TableInv, NEW p \in Proc, create_ret(p)
  PROVE  TableInv' /\ Kept(itable, itable')
<1>1. PICK e : e = pr[p].ip
  OBVIOUS
<1>2. PICK r : r = PutThen([pr[p] EXCEPT !.ip = None], pr[p].ip, "idle")
  OBVIOUS
<1>3. /\ pr[p].pc = "create_ret" /\ Rest /\ itable' = itable
      /\ dinode' = dinode /\ dents' = dents /\ cwd' = cwd
      /\ lock' = [lock EXCEPT ![e] = None]
      /\ \/ /\ fd[p] = None /\ fd' = [fd EXCEPT ![p] = e] /\ pr' = [pr EXCEPT ![p] = Idle]
         \/ fd' = fd /\ pr' = [pr EXCEPT ![p] = r]
  BY <1>1, <1>2 DEF create_ret, At, disk, Rest
<1>4. pr[p].dp = None /\ Shape(pr[p]) /\ pr[p].put = None /\ pr[p].cur = None
  BY <1>3, ProcessIs DEF Shape, HasDp, Stage, Putting, Walking
<1>5. /\ r \in Process /\ Shape(r) /\ SameRefs(p, cwd[p], fd[p], r) /\ e \in Entry
      /\ \A x \in Entry : Holds(r, x) <=> pr[p].dp = x
  BY <1>1, <1>2, <1>3, <1>4, PutIp
<1>6. /\ \A x \in Entry : Holds(pr[p], x) <=> x = e
      /\ \A x \in Entry : ~Holds(r, x) /\ ~Holds(Idle, x)
  BY <1>1, <1>3, <1>4, <1>5, IdleIs, InodeAssumption
     DEF Holds, Stage, Putting, Entry, Fields
<1>7. LocksMove(p, r) /\ LocksMove(p, Idle)
  BY <1>3, <1>5, <1>6, Unlocks
<1>8. DentsOK
  BY <1>3, DentsSame
<1>9. CASE fd' = fd /\ pr' = [pr EXCEPT ![p] = r]
  <2>1. Moves(p, cwd[p], fd[p], r)
    BY <1>3, <1>5, <1>9, RecordMoves
  <2> QED
    BY <1>3, <1>5, <1>6, <1>7, <1>8, <2>1, SameStep
<1>10. CASE fd[p] = None /\ fd' = [fd EXCEPT ![p] = e] /\ pr' = [pr EXCEPT ![p] = Idle]
  <2>1. Moves(p, cwd[p], e, Idle)
    <3>1. cwd' = [cwd EXCEPT ![p] = cwd[p]]
      BY <1>3 DEF TableInv, Typed
    <3> QED
      BY <1>5, <1>10, <3>1, ProcessIs, IdleIs DEF Moves, Fields
  <2>2. SameRefs(p, cwd[p], e, Idle)
    BY <1>1, <1>4, <1>10, IdleIs, OneIs DEF SameRefs, Refs, Fields
  <2>3. Shape(Idle)
    BY IdleIs
       DEF Shape, Walking, HasDp, HasIp, Stage, Putting, Conts, Fields, ByParent
  <2> QED
    BY <1>3, <1>6, <1>7, <1>8, <2>1, <2>2, <2>3, SameStep
<1> QED
  BY <1>3, <1>9, <1>10

LEMMA CreateOldStep ==
  ASSUME TableInv, NEW p \in Proc, create_old(p)
  PROVE  TableInv' /\ Kept(itable, itable')
<1>1. PICK e : e = pr[p].ip
  OBVIOUS
<1>2. PICK r : r = PutThen([pr[p] EXCEPT !.ip = None], pr[p].ip, "idle")
  OBVIOUS
<1>3. /\ pr[p].pc = "create_old" /\ Rest /\ Loaded(e).type # "free"
      /\ itable' = [itable EXCEPT ![e] = Loaded(e)]
      /\ dinode' = dinode /\ dents' = dents /\ cwd' = cwd /\ lock' = lock
      /\ \/ /\ fd[p] = None /\ fd' = [fd EXCEPT ![p] = e] /\ pr' = [pr EXCEPT ![p] = Idle]
         \/ fd' = fd /\ pr' = [pr EXCEPT ![p] = r]
  BY <1>1, <1>2 DEF create_old, At, disk, Rest, Locks
<1>4. pr[p].dp = None /\ Shape(pr[p]) /\ pr[p].put = None /\ pr[p].cur = None
  BY <1>3, ProcessIs DEF Shape, HasDp, Stage, Putting, Walking
<1>5. /\ r \in Process /\ Shape(r) /\ SameRefs(p, cwd[p], fd[p], r) /\ e \in Entry
      /\ itable[e].ref > 0 /\ \A x \in Entry : Holds(r, x) <=> pr[p].dp = x
  BY <1>1, <1>2, <1>3, <1>4, PutIp
<1>6. SameHolds(p, r) /\ SameHolds(p, Idle)
  BY <1>3, <1>4, <1>5, IdleIs, InodeAssumption
     DEF SameHolds, Holds, Stage, Putting, Entry, Fields
<1>7. DentsOK
  BY <1>3, DentsSame
<1>8. CASE fd' = fd /\ pr' = [pr EXCEPT ![p] = r]
  <2>1. Moves(p, cwd[p], fd[p], r)
    BY <1>3, <1>5, <1>8, RecordMoves
  <2> QED
    BY <1>3, <1>5, <1>6, <1>7, <2>1, LoadStep
<1>9. CASE fd[p] = None /\ fd' = [fd EXCEPT ![p] = e] /\ pr' = [pr EXCEPT ![p] = Idle]
  <2>1. Moves(p, cwd[p], e, Idle)
    <3>1. cwd' = [cwd EXCEPT ![p] = cwd[p]]
      BY <1>3 DEF TableInv, Typed
    <3> QED
      BY <1>5, <1>9, <3>1, ProcessIs, IdleIs DEF Moves, Fields
  <2>2. SameRefs(p, cwd[p], e, Idle)
    BY <1>1, <1>4, <1>9, IdleIs, OneIs DEF SameRefs, Refs, Fields
  <2>3. Shape(Idle)
    BY IdleIs
       DEF Shape, Walking, HasDp, HasIp, Stage, Putting, Conts, Fields, ByParent
  <2> QED
    BY <1>3, <1>5, <1>6, <1>7, <2>1, <2>2, <2>3, LoadStep
<1> QED
  BY <1>3, <1>8, <1>9

LEMMA UnlinkBusyStep ==
  ASSUME TableInv, NEW p \in Proc, unlink_busy(p)
  PROVE  TableInv' /\ Kept(itable, itable')
<1>1. PICK e : e = pr[p].ip
  OBVIOUS
<1>2. PICK r : r = PutThen([pr[p] EXCEPT !.ip = None], pr[p].ip, "unlock_dp")
  OBVIOUS
<1>3. /\ pr[p].pc = "unlink_ip" /\ Rest /\ Loaded(e).type # "free"
      /\ itable' = [itable EXCEPT ![e] = Loaded(e)]
      /\ dinode' = dinode /\ dents' = dents /\ cwd' = cwd /\ lock' = lock
      /\ fd' = fd /\ pr' = [pr EXCEPT ![p] = r]
  BY <1>1, <1>2 DEF unlink_busy, At, disk, Rest, Locks
<1>4. pr[p].dp # None /\ Shape(pr[p]) /\ pr[p].put = None
  BY <1>3, ProcessIs DEF Shape, HasDp, Stage, Putting
<1>5. /\ r \in Process /\ Shape(r) /\ SameRefs(p, cwd[p], fd[p], r) /\ e \in Entry
      /\ itable[e].ref > 0 /\ \A x \in Entry : Holds(r, x) <=> pr[p].dp = x
  BY <1>1, <1>2, <1>3, <1>4, PutIp
<1>6. SameHolds(p, r)
  BY <1>3, <1>4, <1>5, InodeAssumption DEF SameHolds, Holds, Stage, Putting, Entry
<1>7. Moves(p, cwd[p], fd[p], r) /\ DentsOK
  BY <1>3, <1>5, RecordMoves, DentsSame
<1> QED
  BY <1>3, <1>5, <1>6, <1>7, LoadStep

\* The caller drops dp.
LEMMA PutDp ==
  ASSUME TableInv, NEW p \in Proc,
         pr[p].pc \in {"unlink_ip", "create_new", "unlock_dp"},
         NEW l, l = IF pr[p].pc = "unlock_dp" THEN "idle"
                    ELSE IF pr[p].pc = "unlink_ip" THEN "unlink_last" ELSE "create_ret",
         NEW r, r = PutThen([pr[p] EXCEPT !.dp = None], pr[p].dp, l)
  PROVE  /\ r \in Process /\ Shape(r) /\ SameRefs(p, cwd[p], fd[p], r)
         /\ pr[p].dp \in Entry /\ itable[pr[p].dp].ref > 0
         /\ pr[p].pc # "unlock_dp" => pr[p].ip \in Entry /\ itable[pr[p].ip].ref > 0
         /\ \A x \in Entry : Holds(pr[p], x) <=> x = pr[p].dp
         /\ \A x \in Entry : Holds(r, x) <=> pr[p].pc # "unlock_dp" /\ x = pr[p].ip
         /\ Fields(r, "iput", l, pr[p].call, pr[p].second, pr[p].path,
                   None, pr[p].ip, None, pr[p].dp)
<1>1. /\ pr[p] \in Process /\ Shape(pr[p]) /\ l \in Labels
  BY ProcessIs DEF Labels
<1>2. /\ pr[p].cur = None /\ pr[p].put = None /\ pr[p].dp # None
      /\ (pr[p].ip = None <=> pr[p].pc = "unlock_dp")
  BY <1>1 DEF Shape, Walking, HasDp, HasIp, Stage, Putting
<1>3. /\ pr[p].dp \in Entry /\ itable[pr[p].dp].ref > 0
      /\ pr[p].pc # "unlock_dp" => pr[p].ip \in Entry /\ itable[pr[p].ip].ref > 0
  BY <1>2, Pointed
<1>4. Fields(r, "iput", l, pr[p].call, pr[p].second, pr[p].path,
             None, pr[p].ip, None, pr[p].dp)
  <2>1. Fields(r, "iput", l, pr[p].call, pr[p].second, pr[p].path,
               pr[p].cur, pr[p].ip, None, pr[p].dp)
    BY <1>1, <1>3, PutDpIs
  <2> QED
    BY <1>2, <2>1
<1>5. Shape(r)
  BY <1>1, <1>2, <1>3, <1>4, InodeAssumption
     DEF Shape, Walking, HasDp, HasIp, Stage, Putting, Conts, Fields, ByParent, Entry
<1>6. SameRefs(p, cwd[p], fd[p], r)
  BY <1>2, <1>4, OneIs DEF SameRefs, Refs, Fields
<1>7. /\ \A x \in Entry : Holds(pr[p], x) <=> x = pr[p].dp
      /\ \A x \in Entry : Holds(r, x) <=> pr[p].pc # "unlock_dp" /\ x = pr[p].ip
  BY <1>2, <1>4, InodeAssumption DEF Holds, Stage, Fields, Putting, Entry
<1> QED
  BY <1>2, <1>3, <1>4, <1>5, <1>6, <1>7 DEF Fields

LEMMA UnlockDpStep ==
  ASSUME TableInv, NEW p \in Proc, unlock_dp(p)
  PROVE  TableInv' /\ Kept(itable, itable')
<1>1. PICK e : e = pr[p].dp
  OBVIOUS
<1>2. PICK r : r = PutThen([pr[p] EXCEPT !.dp = None], pr[p].dp, "idle")
  OBVIOUS
<1>3. /\ pr[p].pc = "unlock_dp" /\ Rest /\ itable' = itable
      /\ dinode' = dinode /\ dents' = dents /\ cwd' = cwd /\ fd' = fd
      /\ lock' = [lock EXCEPT ![e] = None] /\ pr' = [pr EXCEPT ![p] = r]
  BY <1>1, <1>2 DEF unlock_dp, At, disk, Rest
<1>4. /\ r \in Process /\ Shape(r) /\ SameRefs(p, cwd[p], fd[p], r) /\ e \in Entry
      /\ \A x \in Entry : Holds(pr[p], x) <=> x = e
      /\ \A x \in Entry : ~Holds(r, x)
  BY <1>1, <1>2, <1>3, PutDp
<1>5. Moves(p, cwd[p], fd[p], r) /\ DentsOK /\ LocksMove(p, r)
  BY <1>3, <1>4, RecordMoves, DentsSame, Unlocks
<1> QED
  BY <1>3, <1>4, <1>5, SameStep
\* An inode loses its blocks, and the bitmap with it.
LEMMA BlocksFreed ==
  ASSUME BlocksOwned, NEW i \in Inum, bitmap' = bitmap \ dinode[i].blk, dinode'[i].blk = {},
         \A j \in Inum : j # i => dinode'[j] = dinode[j]
  PROVE  BlocksOwned'
<1>1. \A j \in Inum : dinode'[j].blk = IF j = i THEN {} ELSE dinode[j].blk
  OBVIOUS
<1>2. \A j, k \in Inum : j # k => dinode'[j].blk \cap dinode'[k].blk = {}
  BY <1>1 DEF BlocksOwned
<1>3. \A j \in Inum : dinode'[j].type = "free" => dinode'[j].blk = {}
  BY DEF BlocksOwned
<1>4. bitmap' = UNION {dinode'[j].blk : j \in Inum}
  <2>1. ASSUME NEW b, b \in bitmap' PROVE b \in UNION {dinode'[j].blk : j \in Inum}
    <3>1. PICK j \in Inum : b \in dinode[j].blk
      BY <2>1 DEF BlocksOwned
    <3>2. j # i
      BY <2>1, <3>1
    <3> QED
      BY <3>1, <3>2
  <2>2. ASSUME NEW j \in Inum, NEW b \in dinode'[j].blk PROVE b \in bitmap'
    <3>1. j # i /\ b \in dinode[j].blk
      BY <1>1
    <3>2. b \in bitmap /\ b \notin dinode[i].blk
      BY <3>1 DEF BlocksOwned
    <3> QED
      BY <3>2
  <2> QED
    BY <2>1, <2>2
<1> QED
  BY <1>2, <1>3, <1>4 DEF BlocksOwned

\* An inode gets a free block.
LEMMA BlocksAdded ==
  ASSUME BlocksOwned, NEW i \in Inum, NEW b, b \notin bitmap, bitmap' = bitmap \cup {b},
         dinode'[i].blk = dinode[i].blk \cup {b}, dinode'[i].type # "free",
         \A j \in Inum : j # i => dinode'[j] = dinode[j]
  PROVE  BlocksOwned'
<1>1. \A j \in Inum : b \notin dinode[j].blk
  BY DEF BlocksOwned
<1>2. \A j, k \in Inum : j # k => dinode'[j].blk \cap dinode'[k].blk = {}
  BY <1>1 DEF BlocksOwned
<1>3. \A j \in Inum : dinode'[j].type = "free" => dinode'[j].blk = {}
  BY DEF BlocksOwned
<1>4. bitmap' = UNION {dinode'[j].blk : j \in Inum}
  <2>1. ASSUME NEW x, x \in bitmap' PROVE x \in UNION {dinode'[j].blk : j \in Inum}
    <3>1. CASE x = b
      BY <3>1
    <3>2. CASE x # b
      <4>1. PICK j \in Inum : x \in dinode[j].blk
        BY <2>1, <3>2 DEF BlocksOwned
      <4> QED
        BY <4>1
    <3> QED
      BY <3>1, <3>2
  <2>2. ASSUME NEW j \in Inum, NEW x \in dinode'[j].blk PROVE x \in bitmap'
    <3>1. x = b \/ x \in dinode[j].blk
      OBVIOUS
    <3> QED
      BY <3>1 DEF BlocksOwned
  <2> QED
    BY <2>1, <2>2
<1> QED
  BY <1>2, <1>3, <1>4 DEF BlocksOwned

\* An entry with another link count, and one with other blocks.
Linked(n, k) == [n EXCEPT !.nlink = k]
Filled(n, b) == [n EXCEPT !.blk = b]

LEMMA LinkedIs ==
  ASSUME NEW t, NEW e, NEW n, CopyOf(t, e, n), NEW k \in Int
  PROVE  /\ CopyOf(t, e, Linked(n, k)) /\ Linked(n, k).nlink = k /\ Linked(n, k).inum = n.inum
         /\ Linked(n, k).type = n.type /\ Linked(n, k).blk = n.blk
<1>1. PICK m : m = Linked(n, k)
  OBVIOUS
<1>2. n \in EntryRec
  BY DEF CopyOf
<1>3. /\ m \in EntryRec /\ m.inum = n.inum /\ m.ref = n.ref /\ m.valid = n.valid
      /\ m.nlink = k /\ m.type = n.type /\ m.blk = n.blk
  BY <1>1, <1>2 DEF EntryRec, Linked
<1> QED
  BY <1>1, <1>3 DEF CopyOf

LEMMA FilledIs ==
  ASSUME NEW t, NEW e, NEW n, CopyOf(t, e, n), NEW b \in SUBSET Block
  PROVE  /\ CopyOf(t, e, Filled(n, b)) /\ Filled(n, b).nlink = n.nlink
         /\ Filled(n, b).inum = n.inum /\ Filled(n, b).type = n.type /\ Filled(n, b).blk = b
<1>1. PICK m : m = Filled(n, b)
  OBVIOUS
<1>2. n \in EntryRec
  BY DEF CopyOf
<1>3. /\ m \in EntryRec /\ m.inum = n.inum /\ m.ref = n.ref /\ m.valid = n.valid
      /\ m.nlink = n.nlink /\ m.type = n.type /\ m.blk = b
  BY <1>1, <1>2 DEF EntryRec, Filled
<1> QED
  BY <1>1, <1>3 DEF CopyOf

\* An update on disk.
LEMMA UpdateDisk ==
  ASSUME Sound(itable, dinode), NEW e \in Entry, NEW n, CopyOf(itable, e, n), Update(e, n)
  PROVE  /\ n.inum \in Inum /\ n.inum = itable[e].inum
         /\ dinode'[n.inum].type = n.type /\ dinode'[n.inum].nlink = n.nlink
         /\ dinode'[n.inum].blk = n.blk
         /\ \A j \in Inum : j # n.inum => dinode'[j] = dinode[j]
<1>1. n.inum \in Inum /\ n.inum = itable[e].inum
  BY DEF CopyOf, EntryRec
<1>2. dinode'[n.inum] = iupdate(n) /\ \A j \in Inum : j # n.inum => dinode'[j] = dinode[j]
  BY <1>1 DEF Sound, DiskInodes, Update
<1> QED
  BY <1>1, <1>2 DEF iupdate

\* ilock() of an inode that a process points to.
LEMMA LockedCopy ==
  ASSUME TableInv, NEW e \in Entry, itable[e].ref > 0, Loaded(e).type # "free"
  PROVE  /\ CopyOf(itable, e, Loaded(e)) /\ Loaded(e).inum \in Inum
         /\ Loaded(e).inum = itable[e].inum
         /\ Loaded(e).nlink \in Int /\ Loaded(e).blk \in SUBSET Block
         /\ Loaded(e).type = dinode[Loaded(e).inum].type
         /\ Loaded(e).nlink = dinode[Loaded(e).inum].nlink
         /\ Loaded(e).blk = dinode[Loaded(e).inum].blk
<1>1. Sound(itable, dinode)
  BY DEF TableInv
<1>2. PICK n : n = Loaded(e)
  OBVIOUS
<1>3. /\ n \in EntryRec /\ n.inum = itable[e].inum /\ n.ref = itable[e].ref /\ n.valid
      /\ n.inum \in Inum /\ n.type = dinode[n.inum].type /\ n.nlink = dinode[n.inum].nlink
      /\ n.blk = dinode[n.inum].blk
  BY <1>1, <1>2, LoadedIs
<1>4. n.nlink \in Int /\ n.blk \in SUBSET Block
  BY <1>3 DEF EntryRec
<1> QED
  BY <1>2, <1>3, <1>4 DEF CopyOf

\* A change of a link count leaves the blocks alone.
LEMMA LinkedBlocks ==
  ASSUME TableInv, NEW e \in Entry, NEW n, CopyOf(itable, e, n), Update(e, n),
         n.type = dinode[n.inum].type, n.blk = dinode[n.inum].blk
  PROVE  BlocksKept
<1>1. Sound(itable, dinode)
  BY DEF TableInv
<1>2. /\ n.inum \in Inum /\ dinode'[n.inum].type = n.type /\ dinode'[n.inum].blk = n.blk
      /\ \A j \in Inum : j # n.inum => dinode'[j] = dinode[j]
  BY <1>1, UpdateDisk
<1> QED
  BY <1>2 DEF BlocksKept

\* A change of a link count.
LEMMA LinkedStep ==
  ASSUME TableInv, NEW p \in Proc, NEW c, NEW f, NEW r, Moves(p, c, f, r), Shape(r),
         NEW e \in Entry, itable[e].ref > 0, Loaded(e).type # "free",
         NEW k \in Int, Update(e, Linked(Loaded(e), k)), DentsOK, Rest,
         SameRefs(p, c, f, r), LocksMove(p, r),
         \A x \in Entry : Holds(r, x) => Holds(pr[p], x)
  PROVE  /\ TableInv' /\ Kept(itable, itable')
         /\ dinode'[itable[e].inum].type = dinode[itable[e].inum].type
         /\ dinode'[itable[e].inum].nlink = k
         /\ \A j \in Inum : j # itable[e].inum => dinode'[j] = dinode[j]
<1>1. PICK o : o = Loaded(e)
  OBVIOUS
<1>2. PICK n : n = Linked(o, k)
  OBVIOUS
<1>3. /\ CopyOf(itable, e, o) /\ o.type = dinode[o.inum].type /\ o.blk = dinode[o.inum].blk
      /\ o.inum = itable[e].inum
  BY <1>1, LockedCopy
<1>4. /\ CopyOf(itable, e, n) /\ n.inum = o.inum /\ n.type = o.type /\ n.blk = o.blk
      /\ n.nlink = k
  BY <1>2, <1>3, LinkedIs
<1>5. Update(e, n) /\ Sound(itable, dinode)
  BY <1>1, <1>2 DEF TableInv
<1>6. BlocksKept
  BY <1>3, <1>4, <1>5, LinkedBlocks
<1>7. BlocksOwned'
  BY <1>6, BlocksSame DEF TableInv, Rest
<1>8. ncalls' = ncalls /\ bitmap' \subseteq Block
  BY DEF TableInv, Typed, Rest
<1>9. TableInv' /\ Kept(itable, itable')
  BY <1>4, <1>5, <1>7, <1>8, UpdateStep
<1> QED
  BY <1>3, <1>4, <1>5, <1>9, UpdateDisk
\* Only link has a second path.
LEMMA SecondLinks ==
  ASSUME NEW r, Shape(r), Stage(r) # "idle", r.call.op # "link"
  PROVE  ~r.second
  BY DEF Shape

LEMMA ChdirStep ==
  ASSUME TableInv, NEW p \in Proc, chdir(p)
  PROVE  TableInv' /\ Kept(itable, itable')
<1>1. PICK e : e = pr[p].cur
  OBVIOUS
<1>2. PICK r : r = PutThen([pr[p] EXCEPT !.cur = None],
                           IF Loaded(e).type = "dir" THEN cwd[p] ELSE e, "idle")
  OBVIOUS
<1>3. /\ pr[p].pc = "found" /\ Rest /\ Loaded(e).type # "free" /\ pr[p].call.op = "chdir"
      /\ itable' = [itable EXCEPT ![e] = Loaded(e)]
      /\ dinode' = dinode /\ dents' = dents /\ lock' = lock /\ fd' = fd
      /\ cwd' = IF Loaded(e).type = "dir" THEN [cwd EXCEPT ![p] = e] ELSE cwd
      /\ pr' = [pr EXCEPT ![p] = r]
  BY <1>1, <1>2 DEF chdir, In, At, Locks, disk, Rest
<1>4. pr[p] \in Process /\ Shape(pr[p]) /\ cwd[p] \in Entry /\ fd[p] \in Entry \cup {None}
  BY ProcessIs
<1>5. pr[p].cur # None /\ pr[p].dp = None /\ pr[p].put = None
  BY <1>3, <1>4 DEF Shape, Walking, HasDp, Stage, Putting
<1>6. e \in Entry /\ itable[e].ref > 0
  BY <1>1, <1>5, Pointed
<1>7. ~pr[p].second
  BY <1>3, <1>4, SecondLinks DEF Stage, Putting
<1>8. CASE Loaded(e).type = "dir"
  <2>1. r = PutThen([pr[p] EXCEPT !.cur = None], cwd[p], "idle") /\ "idle" \in Labels
    BY <1>2, <1>8 DEF Labels
  <2>2. Fields(r, "iput", "idle", pr[p].call, pr[p].second, pr[p].path,
               None, pr[p].ip, pr[p].dp, cwd[p])
    BY <1>4, <2>1, PutCurIs
  <2>3. Shape(r)
    BY <1>3, <1>4, <1>5, <1>7, <2>2, InodeAssumption
       DEF Shape, Walking, HasDp, HasIp, Stage, Putting, Conts, Fields, ByParent, Entry
  <2>4. SameRefs(p, e, fd[p], r)
    BY <1>1, <1>5, <2>2, OneIs DEF SameRefs, Refs, Fields
  <2>5. SameHolds(p, r)
    BY <1>3, <1>5, <2>2 DEF SameHolds, Holds, Stage, Fields, Putting
  <2>6. Moves(p, e, fd[p], r)
    <3>1. fd' = [fd EXCEPT ![p] = fd[p]]
      BY <1>3 DEF TableInv, Typed
    <3>2. r \in Process /\ cwd' = [cwd EXCEPT ![p] = e]
      BY <1>3, <1>8, <2>2 DEF Fields
    <3> QED
      BY <1>3, <1>4, <1>6, <3>1, <3>2 DEF Moves
  <2>7. DentsOK
    BY <1>3, DentsSame
  <2> QED
    BY <1>3, <1>6, <2>3, <2>4, <2>5, <2>6, <2>7, LoadStep
<1>9. CASE Loaded(e).type # "dir"
  <2>1. r = PutThen([pr[p] EXCEPT !.cur = None], pr[p].cur, "idle")
    BY <1>1, <1>2, <1>9
  <2>2. /\ r \in Process /\ Shape(r) /\ SameRefs(p, cwd[p], fd[p], r) /\ SameHolds(p, r)
    BY <1>3, <1>7, <2>1, PutCur
  <2>3. Moves(p, cwd[p], fd[p], r) /\ DentsOK
    BY <1>3, <1>9, <2>2, RecordMoves, DentsSame
  <2> QED
    BY <1>3, <1>6, <2>2, <2>3, LoadStep
<1> QED
  BY <1>8, <1>9

LEMMA OpenStep ==
  ASSUME TableInv, NEW p \in Proc, open(p)
  PROVE  TableInv' /\ Kept(itable, itable')
<1>1. PICK e : e = pr[p].cur
  OBVIOUS
<1>2. PICK r : r = PutThen([pr[p] EXCEPT !.cur = None], pr[p].cur, "idle")
  OBVIOUS
<1>3. /\ pr[p].pc = "found" /\ Loaded(e).type # "free" /\ pr[p].call.op = "open"
      /\ dents' = dents /\ lock' = lock /\ cwd' = cwd /\ ncalls' = ncalls
      /\ \/ /\ fd[p] = None /\ fd' = [fd EXCEPT ![p] = e] /\ Update(e, Filled(Loaded(e), {}))
            /\ bitmap' = bitmap \ Loaded(e).blk /\ pr' = [pr EXCEPT ![p] = Idle]
         \/ /\ itable' = [itable EXCEPT ![e] = Loaded(e)] /\ pr' = [pr EXCEPT ![p] = r]
            /\ dinode' = dinode /\ bitmap' = bitmap /\ fd' = fd
  BY <1>1, <1>2 DEF open, In, At, Locks, itrunc, Filled, bfree
<1>4. pr[p] \in Process /\ Shape(pr[p])
  BY ProcessIs
<1>5. pr[p].cur # None /\ pr[p].dp = None /\ pr[p].put = None
  BY <1>3, <1>4 DEF Shape, Walking, HasDp, Stage, Putting
<1>6. e \in Entry /\ itable[e].ref > 0
  BY <1>1, <1>5, Pointed
<1>7. ~pr[p].second
  BY <1>3, <1>4, SecondLinks DEF Stage, Putting
<1>8. pr[p].ip = None
  BY <1>3, <1>4, <1>7 DEF Shape, HasIp, Stage, Putting
<1>9. CASE /\ itable' = [itable EXCEPT ![e] = Loaded(e)] /\ pr' = [pr EXCEPT ![p] = r]
           /\ dinode' = dinode /\ bitmap' = bitmap /\ fd' = fd
  <2>1. /\ r \in Process /\ Shape(r) /\ SameRefs(p, cwd[p], fd[p], r) /\ SameHolds(p, r)
    BY <1>2, <1>3, <1>7, PutCur
  <2>2. Moves(p, cwd[p], fd[p], r) /\ DentsOK /\ Rest
    BY <1>3, <1>9, <2>1, RecordMoves, DentsSame DEF Rest
  <2> QED
    BY <1>3, <1>6, <1>9, <2>1, <2>2, LoadStep
<1>10. CASE /\ fd[p] = None /\ fd' = [fd EXCEPT ![p] = e] /\ Update(e, Filled(Loaded(e), {}))
            /\ bitmap' = bitmap \ Loaded(e).blk /\ pr' = [pr EXCEPT ![p] = Idle]
  <2>1. PICK o : o = Loaded(e)
    OBVIOUS
  <2>2. PICK n : n = Filled(o, {})
    OBVIOUS
  <2>3. CopyOf(itable, e, o) /\ o.blk = dinode[o.inum].blk /\ o.inum \in Inum
    BY <1>3, <1>6, <2>1, LockedCopy
  <2>4. CopyOf(itable, e, n) /\ n.inum = o.inum /\ n.blk = {}
    BY <2>2, <2>3, FilledIs
  <2>5. Update(e, n) /\ Sound(itable, dinode) /\ bitmap' = bitmap \ dinode[n.inum].blk
    BY <1>10, <2>1, <2>2, <2>3, <2>4 DEF TableInv
  <2>6. dinode'[n.inum].blk = {} /\ \A j \in Inum : j # n.inum => dinode'[j] = dinode[j]
    BY <1>6, <2>4, <2>5, UpdateDisk
  <2>7. BlocksOwned'
    BY <2>3, <2>4, <2>5, <2>6, BlocksFreed DEF TableInv
  <2>8. bitmap' \subseteq Block
    BY <1>10 DEF TableInv, Typed
  <2>9. Moves(p, cwd[p], e, Idle)
    <3>1. cwd' = [cwd EXCEPT ![p] = cwd[p]]
      BY <1>3 DEF TableInv, Typed
    <3> QED
      BY <1>6, <1>10, <3>1, ProcessIs, IdleIs DEF Moves, Fields
  <2>10. SameRefs(p, cwd[p], e, Idle)
    BY <1>1, <1>5, <1>8, <1>10, IdleIs, OneIs DEF SameRefs, Refs, Fields
  <2>11. Shape(Idle)
    BY IdleIs
       DEF Shape, Walking, HasDp, HasIp, Stage, Putting, Conts, Fields, ByParent
  <2>12. SameHolds(p, Idle)
    BY <1>3, <1>5, IdleIs, InodeAssumption
       DEF SameHolds, Holds, Stage, Putting, Entry, Fields
  <2>13. LocksMove(p, Idle) /\ DentsOK
    BY <1>3, <2>12, LocksSame, DentsSame
  <2> QED
    BY <1>3, <1>6, <2>4, <2>5, <2>7, <2>8, <2>9, <2>10, <2>11, <2>12, <2>13, UpdateStep
       DEF SameHolds
<1> QED
  BY <1>3, <1>9, <1>10

LEMMA WriteStep ==
  ASSUME TableInv, NEW p \in Proc, NEW b \in Block, write(p, b)
  PROVE  TableInv' /\ Kept(itable, itable')
<1>1. PICK e : e = fd[p]
  OBVIOUS
<1>2. PICK o : o = Loaded(e)
  OBVIOUS
<1>3. PICK n : n = Filled(o, o.blk \cup {b})
  OBVIOUS
<1>4. /\ pr[p].pc = "idle" /\ Loaded(e).type # "free" /\ e # None
      /\ dents' = dents /\ lock' = lock /\ cwd' = cwd /\ ncalls' = ncalls /\ fd' = fd
      /\ pr' = pr /\ b \notin bitmap /\ bitmap' = bitmap \cup {b} /\ Update(e, n)
  BY <1>1, <1>2, <1>3 DEF write, At, Locks, balloc, bmap, Filled
<1>5. e \in Entry /\ itable[e].ref > 0
  BY <1>1, <1>4, Pointed
<1>6. /\ CopyOf(itable, e, o) /\ o.inum \in Inum /\ o.blk = dinode[o.inum].blk
      /\ o.blk \in SUBSET Block /\ o.type # "free"
  BY <1>2, <1>4, <1>5, LockedCopy
<1>7. /\ CopyOf(itable, e, n) /\ n.inum = o.inum /\ n.blk = o.blk \cup {b} /\ n.type = o.type
  BY <1>3, <1>6, FilledIs
<1>8. Sound(itable, dinode) /\ BlocksOwned
  BY DEF TableInv
<1>9. /\ dinode'[n.inum].blk = dinode[n.inum].blk \cup {b} /\ dinode'[n.inum].type # "free"
      /\ \A j \in Inum : j # n.inum => dinode'[j] = dinode[j]
  BY <1>4, <1>5, <1>6, <1>7, <1>8, UpdateDisk
<1>10. BlocksOwned'
  BY <1>4, <1>6, <1>7, <1>8, <1>9, BlocksAdded
<1>11. bitmap' \subseteq Block
  BY <1>4 DEF TableInv, Typed
<1>12. Moves(p, cwd[p], fd[p], pr[p])
  BY <1>4, ProcessIs DEF Moves, TableInv, Typed
<1>13. Shape(pr[p]) /\ SameRefs(p, cwd[p], fd[p], pr[p]) /\ SameHolds(p, pr[p])
  BY ProcessIs DEF SameRefs, SameHolds
<1>14. LocksMove(p, pr[p]) /\ DentsOK
  BY <1>4, <1>13, LocksSame, DentsSame
<1> QED
  BY <1>4, <1>5, <1>7, <1>10, <1>11, <1>12, <1>13, <1>14, UpdateStep DEF SameHolds

LEMMA LinkStep ==
  ASSUME TableInv, NEW p \in Proc, link(p)
  PROVE  TableInv' /\ Kept(itable, itable')
<1>1. PICK e : e = pr[p].cur
  OBVIOUS
<1>2. PICK r : r = PutThen([pr[p] EXCEPT !.cur = None], pr[p].cur, "idle")
  OBVIOUS
<1>3. PICK s : s = [pr[p] EXCEPT !.pc = "link_new", !.ip = e, !.cur = None]
  OBVIOUS
<1>4. /\ pr[p].pc = "found" /\ Loaded(e).type # "free" /\ ~pr[p].second /\ pr[p].call.op = "link"
      /\ dents' = dents /\ lock' = lock /\ cwd' = cwd /\ Rest /\ fd' = fd
      /\ \/ /\ itable' = [itable EXCEPT ![e] = Loaded(e)] /\ pr' = [pr EXCEPT ![p] = r]
            /\ dinode' = dinode
         \/ /\ Update(e, Linked(Loaded(e), Loaded(e).nlink + 1)) /\ pr' = [pr EXCEPT ![p] = s]
  BY <1>1, <1>2, <1>3 DEF link, In, At, Locks, Linked, Rest
<1>5. pr[p] \in Process /\ Shape(pr[p])
  BY ProcessIs
<1>6. pr[p].cur # None /\ pr[p].dp = None /\ pr[p].put = None /\ pr[p].ip = None
  BY <1>4, <1>5 DEF Shape, Walking, HasDp, HasIp, Stage, Putting
<1>7. e \in Entry /\ itable[e].ref > 0
  BY <1>1, <1>6, Pointed
<1>8. DentsOK
  BY <1>4, DentsSame
<1>9. CASE /\ itable' = [itable EXCEPT ![e] = Loaded(e)] /\ pr' = [pr EXCEPT ![p] = r]
           /\ dinode' = dinode
  <2>1. /\ r \in Process /\ Shape(r) /\ SameRefs(p, cwd[p], fd[p], r) /\ SameHolds(p, r)
    BY <1>2, <1>4, PutCur
  <2>2. Moves(p, cwd[p], fd[p], r)
    BY <1>4, <1>9, <2>1, RecordMoves
  <2> QED
    BY <1>4, <1>7, <1>8, <1>9, <2>1, <2>2, LoadStep
<1>10. CASE /\ Update(e, Linked(Loaded(e), Loaded(e).nlink + 1)) /\ pr' = [pr EXCEPT ![p] = s]
  <2>1. Fields(s, "link_new", pr[p].cont, pr[p].call, pr[p].second, pr[p].path,
               None, e, pr[p].dp, pr[p].put)
    BY <1>3, <1>5, <1>7, LinkIs
  <2>2. Shape(s)
    BY <1>4, <1>5, <1>6, <1>7, <2>1, InodeAssumption
       DEF Shape, Walking, HasDp, HasIp, Stage, Putting, Conts, Fields, ByParent, Entry
  <2>3. SameRefs(p, cwd[p], fd[p], s) /\ SameHolds(p, s)
    BY <1>1, <1>4, <1>6, <2>1, OneIs
       DEF SameRefs, Refs, Fields, SameHolds, Holds, Stage, Putting
  <2>4. Moves(p, cwd[p], fd[p], s)
    BY <1>4, <1>10, <2>1, RecordMoves DEF Fields
  <2>5. Loaded(e).nlink + 1 \in Int
    BY <1>4, <1>7, LockedCopy
  <2>6. LocksMove(p, s)
    BY <1>4, <2>3, LocksSame
  <2> QED
    BY <1>4, <1>7, <1>8, <1>10, <2>2, <2>3, <2>4, <2>5, <2>6, LinkedStep DEF SameHolds
<1> QED
  BY <1>4, <1>9, <1>10
LEMMA LinkBadStep ==
  ASSUME TableInv, NEW p \in Proc, link_bad(p)
  PROVE  TableInv' /\ Kept(itable, itable')
<1>1. PICK e : e = pr[p].ip
  OBVIOUS
<1>2. PICK r : r = PutThen([pr[p] EXCEPT !.ip = None], pr[p].ip, "idle")
  OBVIOUS
<1>3. /\ pr[p].pc = "link_bad" /\ Rest /\ Loaded(e).type # "free"
      /\ Update(e, Linked(Loaded(e), Loaded(e).nlink - 1))
      /\ dents' = dents /\ cwd' = cwd /\ lock' = lock /\ fd' = fd /\ pr' = [pr EXCEPT ![p] = r]
  BY <1>1, <1>2 DEF link_bad, At, Rest, Locks, Linked
<1>4. pr[p].dp = None /\ Shape(pr[p]) /\ pr[p].put = None
  BY <1>3, ProcessIs DEF Shape, HasDp, Stage, Putting
<1>5. /\ r \in Process /\ Shape(r) /\ SameRefs(p, cwd[p], fd[p], r) /\ e \in Entry
      /\ itable[e].ref > 0 /\ \A x \in Entry : Holds(r, x) <=> pr[p].dp = x
  BY <1>1, <1>2, <1>3, <1>4, PutIp
<1>6. SameHolds(p, r)
  BY <1>3, <1>4, <1>5, InodeAssumption DEF SameHolds, Holds, Stage, Putting, Entry
<1>7. Moves(p, cwd[p], fd[p], r) /\ DentsOK /\ LocksMove(p, r)
  BY <1>3, <1>5, <1>6, RecordMoves, DentsSame, LocksSame
<1>8. Loaded(e).nlink - 1 \in Int
  BY <1>3, <1>5, LockedCopy
<1> QED
  BY <1>3, <1>5, <1>6, <1>7, <1>8, LinkedStep DEF SameHolds

LEMMA CreateFailStep ==
  ASSUME TableInv, NEW p \in Proc, create_fail(p)
  PROVE  TableInv' /\ Kept(itable, itable')
<1>1. PICK e : e = pr[p].ip
  OBVIOUS
<1>2. PICK r : r = PutThen([pr[p] EXCEPT !.ip = None], pr[p].ip, "unlock_dp")
  OBVIOUS
<1>3. /\ pr[p].pc = "create_new" /\ Rest /\ Loaded(e).type # "free"
      /\ Update(e, Linked(Loaded(e), 0))
      /\ dents' = dents /\ cwd' = cwd /\ lock' = lock /\ fd' = fd /\ pr' = [pr EXCEPT ![p] = r]
  BY <1>1, <1>2 DEF create_fail, At, Rest, Locks, Linked
<1>4. pr[p].dp # None /\ Shape(pr[p]) /\ pr[p].put = None
  BY <1>3, ProcessIs DEF Shape, HasDp, Stage, Putting
<1>5. /\ r \in Process /\ Shape(r) /\ SameRefs(p, cwd[p], fd[p], r) /\ e \in Entry
      /\ itable[e].ref > 0 /\ \A x \in Entry : Holds(r, x) <=> pr[p].dp = x
  BY <1>1, <1>2, <1>3, <1>4, PutIp
<1>6. SameHolds(p, r)
  BY <1>3, <1>4, <1>5, InodeAssumption DEF SameHolds, Holds, Stage, Putting, Entry
<1>7. Moves(p, cwd[p], fd[p], r) /\ DentsOK /\ LocksMove(p, r)
  BY <1>3, <1>5, <1>6, RecordMoves, DentsSame, LocksSame
<1>8. 0 \in Int
  OBVIOUS
<1> QED
  BY <1>3, <1>5, <1>6, <1>7, <1>8, LinkedStep DEF SameHolds

\* What a process holds locked is loaded.
LEMMA HeldLoaded ==
  ASSUME TableInv, NEW p \in Proc, NEW e \in Entry, Holds(pr[p], e)
  PROVE  /\ Loaded(e) = itable[e] /\ Loaded(e).type # "free" /\ itable[e].ref > 0
         /\ itable[e].valid
<1>1. itable[e].ref > 0
  BY Pointed, InodeAssumption DEF Holds, Entry
<1>2. itable[e].valid
  BY DEF TableInv, HeldValid
<1>3. Loaded(e) = itable[e]
  BY <1>2 DEF Loaded
<1> QED
  BY <1>1, <1>2, <1>3 DEF TableInv, Sound

LEMMA UnlinkLastStep ==
  ASSUME TableInv, NEW p \in Proc, unlink_last(p)
  PROVE  TableInv' /\ Kept(itable, itable')
<1>1. PICK e : e = pr[p].ip
  OBVIOUS
<1>2. PICK r : r = PutThen([pr[p] EXCEPT !.ip = None], pr[p].ip, "idle")
  OBVIOUS
<1>3. /\ pr[p].pc = "unlink_last" /\ Rest
      /\ Update(e, Linked(itable[e], itable[e].nlink - 1))
      /\ dents' = dents /\ cwd' = cwd /\ fd' = fd /\ pr' = [pr EXCEPT ![p] = r]
      /\ lock' = [lock EXCEPT ![e] = None]
  BY <1>1, <1>2 DEF unlink_last, At, Rest, Linked
<1>4. pr[p].dp = None /\ Shape(pr[p]) /\ pr[p].put = None
  BY <1>3, ProcessIs DEF Shape, HasDp, Stage, Putting
<1>5. /\ r \in Process /\ Shape(r) /\ SameRefs(p, cwd[p], fd[p], r) /\ e \in Entry
      /\ itable[e].ref > 0 /\ \A x \in Entry : Holds(r, x) <=> pr[p].dp = x
  BY <1>1, <1>2, <1>3, <1>4, PutIp
<1>6. /\ \A x \in Entry : Holds(pr[p], x) <=> x = e
      /\ \A x \in Entry : ~Holds(r, x)
  BY <1>1, <1>3, <1>4, <1>5, InodeAssumption DEF Holds, Stage, Putting, Entry
<1>7. Moves(p, cwd[p], fd[p], r) /\ DentsOK /\ LocksMove(p, r)
  BY <1>3, <1>5, <1>6, RecordMoves, DentsSame, Unlocks
<1>8. Loaded(e) = itable[e] /\ Loaded(e).type # "free"
  BY <1>5, <1>6, HeldLoaded
<1>9. itable[e].nlink - 1 \in Int /\ Update(e, Linked(Loaded(e), itable[e].nlink - 1))
  BY <1>3, <1>5, <1>8, LockedCopy
<1> QED
  BY <1>3, <1>5, <1>6, <1>7, <1>8, <1>9, LinkedStep

LEMMA LinkDirStep ==
  ASSUME TableInv, NEW p \in Proc, link_dir(p)
  PROVE  TableInv' /\ Kept(itable, itable')
<1>1. PICK e : e = pr[p].cur
  OBVIOUS
<1>2. PICK l : /\ l \in {"link_put", "link_bad"}
               /\ pr' = [pr EXCEPT ![p] = PutThen([pr[p] EXCEPT !.cur = None], pr[p].cur, l)]
  BY DEF link_dir
<1>3. PICK r : r = PutThen([pr[p] EXCEPT !.cur = None], pr[p].cur, l)
  OBVIOUS
<1>4. /\ pr[p].pc = "found" /\ Rest /\ Loaded(e).type # "free" /\ pr[p].second
      /\ itable' = [itable EXCEPT ![e] = Loaded(e)] /\ dinode' = dinode
      /\ cwd' = cwd /\ lock' = lock /\ fd' = fd /\ pr' = [pr EXCEPT ![p] = r]
      /\ dents' = dents \/ dents' = dirlink(Loaded(e).inum, Head(pr[p].path), itable[pr[p].ip].inum)
  BY <1>1, <1>2, <1>3 DEF link_dir, At, Rest, Locks
<1>5. /\ r \in Process /\ Shape(r) /\ SameRefs(p, cwd[p], fd[p], r) /\ SameHolds(p, r)
      /\ e \in Entry /\ itable[e].ref > 0
  BY <1>1, <1>2, <1>3, <1>4, PutCur
<1>6. DentsOK
  <2>1. dents \in [Inum -> [AllNames -> Inum \cup {0}]] /\ itable \in Table
    BY DEF TableInv, Typed
  <2>2. pr[p].ip \in Entry
    BY <1>4, ProcessIs, Pointed DEF Shape, HasIp, Walking, Stage, Putting
  <2>3. itable[pr[p].ip].inum \in Inum
    BY <2>1, <2>2 DEF Table, EntryRec
  <2> QED
    BY <1>4, <2>1, <2>3 DEF DentsOK, dirlink
<1>7. Moves(p, cwd[p], fd[p], r)
  BY <1>4, <1>5, RecordMoves
<1> QED
  BY <1>4, <1>5, <1>6, <1>7, LoadStep

-----------------------------------------------------------------------------
(* Steps that get a reference.                                               *)

\* ilock() of e followed by iget() of i, with a disk that only gained an inode.
LEMMA LoadGet ==
  ASSUME TableInv, NEW e \in Entry, itable[e].ref > 0, Loaded(e).type # "free",
         NEW i \in Inum, NEW t, t = With(itable, e, Loaded(e)), NEW d, Sound(itable, d),
         d[itable[e].inum] = dinode[itable[e].inum]
  PROVE  /\ Sound(iget(t, i), d) /\ Kept(itable, iget(t, i))
         /\ iget(t, i)[Slot(i)].inum = i /\ Slot(i) \in Entry /\ iget(t, i)[e].valid
         /\ \A x \in Entry : iget(t, i)[x].ref = itable[x].ref + One(Slot(i), x)
<1>1. PICK n : n = Loaded(e)
  OBVIOUS
<1>2. /\ CopyOf(itable, e, n) /\ n.inum = itable[e].inum /\ n.type = d[n.inum].type
      /\ n.nlink = d[n.inum].nlink /\ n.blk = d[n.inum].blk
  BY <1>1, LockedCopy
<1>3. /\ Sound(t, d) /\ Kept(itable, t) /\ \A x \in Entry : t[x].ref = itable[x].ref
  BY <1>1, <1>2, LoadSound
<1>4. \A x \in Entry : t[x].ref = itable[x].ref /\ t[x].inum = itable[x].inum
  <2>1. itable \in Table
    BY DEF TableInv, Typed
  <2>2. t[e] = n /\ \A x \in Entry : x # e => t[x] = itable[x]
    BY <1>1, <2>1 DEF With, Table
  <2> QED
    BY <1>2, <1>3, <2>2
<1>5. Sound(itable, dinode)
  BY DEF TableInv
<1>6. /\ Sound(iget(t, i), d) /\ Kept(t, iget(t, i))
      /\ iget(t, i)[Slot(i)].inum = i /\ Slot(i) \in Entry
      /\ \A x \in Entry : iget(t, i)[x].ref = t[x].ref + One(Slot(i), x)
  BY <1>3, <1>4, <1>5, GetSound
<1>7. Kept(itable, iget(t, i))
  BY <1>3, <1>4, <1>6 DEF Kept
<1>8. iget(t, i)[e].valid
  <2>1. itable \in Table
    BY DEF TableInv, Typed
  <2>2. t[e] = n
    BY <1>1, <2>1 DEF With, Table
  <2> QED
    BY <1>2, <1>3, <1>6, <2>2 DEF Kept, CopyOf
<1> QED
  BY <1>4, <1>6, <1>7, <1>8

LEMMA NamexStep ==
  ASSUME TableInv, NEW p \in Proc, namex(p)
  PROVE  TableInv' /\ Kept(itable, itable')
<1>1. PICK e : e = pr[p].cur
  OBVIOUS
<1>2. PICK i : i = dirlookup(Loaded(e).inum, Head(pr[p].path))
  OBVIOUS
<1>3. PICK s : s = Slot(i)
  OBVIOUS
<1>4. PICK o : o = [pr[p] EXCEPT !.cur = s, !.path = Tail(pr[p].path)]
  OBVIOUS
<1>5. PICK r : r = PutThen(o, e, "walk")
  OBVIOUS
<1>6. PICK t : t = With(itable, e, Loaded(e))
  OBVIOUS
<1>7. /\ pr[p].pc = "walk" /\ pr[p].path # <<>> /\ Loaded(e).type # "free" /\ i # 0 /\ Rest
      /\ itable' = iget(t, i) /\ dinode' = dinode /\ dents' = dents /\ cwd' = cwd /\ fd' = fd
      /\ lock' = lock /\ pr' = [pr EXCEPT ![p] = r]
  BY <1>1, <1>2, <1>3, <1>4, <1>5, <1>6 DEF namex, At, Locks, With, disk, Rest
<1>8. pr[p] \in Process /\ Shape(pr[p]) /\ pr[p].path \in Seq(AllNames)
  BY ProcessIs
<1>9. pr[p].cur # None /\ pr[p].dp = None /\ pr[p].put = None
  BY <1>7, <1>8 DEF Shape, Walking, HasDp, HasIp, Stage, Putting
<1>10. e \in Entry /\ itable[e].ref > 0
  BY <1>1, <1>9, Pointed
<1>11. i \in Inum
  <2>1. Loaded(e).inum \in Inum
    BY <1>7, <1>10, LockedCopy
  <2>2. Head(pr[p].path) \in AllNames
    BY <1>7, <1>8
  <2> QED
    BY <1>2, <1>7, <2>1, <2>2 DEF dirlookup, TableInv, Typed
<1>12. Sound(itable, dinode)
  BY DEF TableInv
<1>13. /\ Sound(itable', dinode') /\ Kept(itable, itable') /\ s \in Entry
       /\ \A x \in Entry : itable'[x].ref = itable[x].ref + One(s, x)
  BY <1>3, <1>6, <1>7, <1>10, <1>11, <1>12, LoadGet
<1>14. Fields(o, pr[p].pc, pr[p].cont, pr[p].call, pr[p].second, Tail(pr[p].path), s,
              pr[p].ip, pr[p].dp, pr[p].put)
  BY <1>4, <1>7, <1>8, <1>13, CurIs
<1>15. Fields(r, "iput", "walk", pr[p].call, pr[p].second, Tail(pr[p].path), s,
              pr[p].ip, pr[p].dp, e)
  <2>1. "walk" \in Labels
    BY DEF Labels
  <2>2. Fields(r, "iput", "walk", o.call, o.second, o.path, o.cur, o.ip, o.dp, e)
    BY <1>5, <1>10, <1>14, <2>1, PutIs DEF Fields
  <2> QED
    BY <1>14, <2>2 DEF Fields
<1>16. Shape(r)
  BY <1>7, <1>8, <1>9, <1>10, <1>13, <1>15, InodeAssumption
     DEF Shape, Walking, HasDp, HasIp, Stage, Putting, Conts, Fields, ByParent, Entry
<1>17. \A x \in Entry : Refs(cwd[p], fd[p], r, x) = Refs(cwd[p], fd[p], pr[p], x) + One(s, x)
  BY <1>1, <1>9, <1>15, OneIs DEF Refs, Fields
<1>18. SameHolds(p, r)
  BY <1>7, <1>9, <1>15 DEF SameHolds, Holds, Stage, Fields, Putting
<1>19. LocksMove(p, r) /\ Moves(p, cwd[p], fd[p], r)
  BY <1>7, <1>15, <1>18, LocksSame, RecordMoves DEF Fields
<1>20. bitmap' = bitmap /\ BlocksKept /\ ncalls' \in 0..MaxCalls
  BY <1>7 DEF Rest, BlocksKept, TableInv, Typed
<1> QED
  BY <1>7, <1>13, <1>16, <1>17, <1>18, <1>19, <1>20, GetStep DEF SameHolds
\* A process that holds no lock takes one.
LEMMA Takes ==
  ASSUME TableInv, NEW p \in Proc, NEW r, NEW e \in Entry,
         lock[e] = None, lock' = [lock EXCEPT ![e] = p], \A x \in Entry : ~Holds(pr[p], x),
         \A x \in Entry : Holds(r, x) <=> x = e
  PROVE  LocksMove(p, r)
<1>1. lock \in [Entry -> Proc \cup {None}] /\ \A x \in Entry : lock[x] # p
  BY DEF TableInv, Typed, Locking
<1>2. /\ lock' \in [Entry -> Proc \cup {None}] /\ lock'[e] = p
      /\ \A x \in Entry : x # e => lock'[x] = lock[x]
  BY <1>1
<1> QED
  BY <1>1, <1>2 DEF LocksMove

\* What a process has at "found" when it knows the parent directory.
LEMMA FoundIs ==
  ASSUME TableInv, NEW p \in Proc, pr[p].pc = "found",
         pr[p].call.op \in {"create", "mkdir", "unlink"}
  PROVE  /\ pr[p].cur \in Entry /\ itable[pr[p].cur].ref > 0
         /\ pr[p].dp = None /\ pr[p].put = None /\ pr[p].ip = None /\ ~pr[p].second
         /\ pr[p].call \in Calls /\ Len(pr[p].path) = 1 /\ Head(pr[p].path) \in AllNames
         /\ \A x \in Entry : ~Holds(pr[p], x)
<1>1. pr[p] \in Process /\ Shape(pr[p]) /\ pr[p].path \in Seq(AllNames)
  BY ProcessIs
<1>2. Stage(pr[p]) = "found"
  BY DEF Stage, Putting
<1>3. ~pr[p].second
  BY <1>1, <1>2, SecondLinks
<1>4. /\ pr[p].dp = None /\ pr[p].put = None /\ pr[p].ip = None /\ pr[p].cur # None
      /\ pr[p].call \in Calls /\ Len(pr[p].path) = 1
  BY <1>1, <1>2, <1>3 DEF Shape, Walking, HasDp, HasIp, Putting, ByParent
<1>5. Head(pr[p].path) \in AllNames
  BY <1>1, <1>4
<1>6. \A x \in Entry : ~Holds(pr[p], x)
  BY <1>4, InodeAssumption DEF Holds, Entry
<1> QED
  BY <1>3, <1>4, <1>5, <1>6, Pointed

\* The process keeps the directory locked and has the inode as well.
Both(r, l, e, s) == [r EXCEPT !.pc = l, !.dp = e, !.cur = None, !.ip = s]

LEMMA LockBoth ==
  ASSUME TableInv, NEW p \in Proc, pr[p].pc = "found", NEW l,
         \/ l = "unlink_ip" /\ pr[p].call.op = "unlink"
         \/ l = "create_new" /\ pr[p].call.op \in {"create", "mkdir"},
         NEW s \in Entry, NEW e \in Entry, e = pr[p].cur,
         NEW r, r = Both(pr[p], l, e, s)
  PROVE  /\ Fields(r, l, pr[p].cont, pr[p].call, pr[p].second, pr[p].path, None, s, e, None)
         /\ Shape(r) /\ \A x \in Entry : Holds(r, x) <=> x = e
         /\ \A x \in Entry : Refs(cwd[p], fd[p], r, x) = Refs(cwd[p], fd[p], pr[p], x) + One(s, x)
<1>1. pr[p] \in Process /\ Shape(pr[p]) /\ l \in Labels
  BY ProcessIs DEF Labels
<1>2. /\ pr[p].dp = None /\ pr[p].put = None /\ pr[p].ip = None /\ ~pr[p].second
      /\ pr[p].call \in Calls /\ Len(pr[p].path) = 1
  BY FoundIs
<1>3. Fields(r, l, pr[p].cont, pr[p].call, pr[p].second, pr[p].path, None, s, e, None)
  BY <1>1, <1>2, LocksIs DEF Both
<1>4. Shape(r)
  BY <1>1, <1>2, <1>3, InodeAssumption
     DEF Shape, Walking, HasDp, HasIp, Stage, Putting, Conts, Fields, ByParent, Entry
<1>5. \A x \in Entry : Holds(r, x) <=> x = e
  BY <1>3, InodeAssumption DEF Holds, Stage, Fields, Putting, Entry
<1>6. \A x \in Entry : Refs(cwd[p], fd[p], r, x) = Refs(cwd[p], fd[p], pr[p], x) + One(s, x)
  BY <1>2, <1>3, OneIs DEF Refs, Fields
<1> QED
  BY <1>3, <1>4, <1>5, <1>6

LEMMA UnlinkStep ==
  ASSUME TableInv, NEW p \in Proc, unlink(p)
  PROVE  TableInv' /\ Kept(itable, itable')
<1>1. PICK e : e = pr[p].cur
  OBVIOUS
<1>2. PICK i : i = dirlookup(Loaded(e).inum, Head(pr[p].path))
  OBVIOUS
<1>3. PICK s : s = Slot(i)
  OBVIOUS
<1>4. PICK t : t = With(itable, e, Loaded(e))
  OBVIOUS
<1>5. PICK r : r = PutThen([pr[p] EXCEPT !.cur = None], pr[p].cur, "idle")
  OBVIOUS
<1>6. PICK u : u = Both(pr[p], "unlink_ip", e, s)
  OBVIOUS
<1>7. /\ pr[p].pc = "found" /\ pr[p].call.op = "unlink" /\ Loaded(e).type # "free" /\ Rest
      /\ lock[e] = None
      /\ dinode' = dinode /\ dents' = dents /\ cwd' = cwd /\ fd' = fd
      /\ \/ /\ itable' = [itable EXCEPT ![e] = Loaded(e)] /\ pr' = [pr EXCEPT ![p] = r]
            /\ lock' = lock
         \/ /\ i # 0 /\ itable' = iget(t, i) /\ lock' = [lock EXCEPT ![e] = p]
            /\ pr' = [pr EXCEPT ![p] = u]
  BY <1>1, <1>2, <1>3, <1>4, <1>5, <1>6 DEF unlink, In, At, Locks, With, disk, Rest, Both
<1>8. /\ e \in Entry /\ itable[e].ref > 0 /\ ~pr[p].second /\ Head(pr[p].path) \in AllNames
      /\ \A x \in Entry : ~Holds(pr[p], x)
  BY <1>1, <1>7, FoundIs
<1>9. CASE /\ itable' = [itable EXCEPT ![e] = Loaded(e)] /\ pr' = [pr EXCEPT ![p] = r]
           /\ lock' = lock
  <2>1. /\ r \in Process /\ Shape(r) /\ SameRefs(p, cwd[p], fd[p], r) /\ SameHolds(p, r)
    BY <1>5, <1>7, <1>8, PutCur
  <2>2. Moves(p, cwd[p], fd[p], r) /\ DentsOK
    BY <1>7, <1>9, <2>1, RecordMoves, DentsSame
  <2> QED
    BY <1>7, <1>8, <1>9, <2>1, <2>2, LoadStep
<1>10. CASE /\ i # 0 /\ itable' = iget(t, i) /\ lock' = [lock EXCEPT ![e] = p]
            /\ pr' = [pr EXCEPT ![p] = u]
  <2>1. i \in Inum
    <3>1. Loaded(e).inum \in Inum
      BY <1>7, <1>8, LockedCopy
    <3> QED
      BY <1>2, <1>8, <1>10, <3>1 DEF dirlookup, TableInv, Typed
  <2>2. Sound(itable, dinode)
    BY DEF TableInv
  <2>3. /\ Sound(itable', dinode') /\ Kept(itable, itable') /\ s \in Entry /\ itable'[e].valid
        /\ \A x \in Entry : itable'[x].ref = itable[x].ref + One(s, x)
    BY <1>3, <1>4, <1>7, <1>8, <1>10, <2>1, <2>2, LoadGet
  <2>4. /\ Fields(u, "unlink_ip", pr[p].cont, pr[p].call, pr[p].second, pr[p].path, None, s, e,
                  None)
        /\ Shape(u) /\ \A x \in Entry : Holds(u, x) <=> x = e
        /\ \A x \in Entry : Refs(cwd[p], fd[p], u, x) = Refs(cwd[p], fd[p], pr[p], x) + One(s, x)
    <3>1. pr[p].pc = "found" /\ pr[p].call.op = "unlink" /\ e \in Entry /\ s \in Entry
      BY <1>7, <1>8, <2>3
    <3> QED
      BY <1>1, <1>6, <3>1, LockBoth
  <2>5. LocksMove(p, u) /\ Moves(p, cwd[p], fd[p], u)
    BY <1>7, <1>8, <1>10, <2>4, Takes, RecordMoves DEF Fields
  <2>6. bitmap' = bitmap /\ BlocksKept /\ ncalls' \in 0..MaxCalls
    BY <1>7 DEF Rest, BlocksKept, TableInv, Typed
  <2> QED
    BY <1>7, <1>8, <2>3, <2>4, <2>5, <2>6, GetStep
<1> QED
  BY <1>7, <1>9, <1>10

LEMMA CreateStep ==
  ASSUME TableInv, NEW p \in Proc, create(p)
  PROVE  TableInv' /\ Kept(itable, itable')
<1>1. PICK e : e = pr[p].cur
  OBVIOUS
<1>2. PICK i : i = dirlookup(Loaded(e).inum, Head(pr[p].path))
  OBVIOUS
<1>3. PICK s : s = Slot(i)
  OBVIOUS
<1>4. PICK t : t = With(itable, e, Loaded(e))
  OBVIOUS
<1>5. PICK o : o = [pr[p] EXCEPT !.cur = None]
  OBVIOUS
<1>6. PICK u : u = PutThen([o EXCEPT !.ip = s], e, "create_old")
  OBVIOUS
<1>7. PICK r : r = PutThen([pr[p] EXCEPT !.cur = None], pr[p].cur, "idle")
  OBVIOUS
<1>8. /\ pr[p].pc = "found" /\ pr[p].call.op \in {"create", "mkdir", "unlink"}
      /\ Loaded(e).type # "free" /\ Rest /\ lock' = lock
      /\ dinode' = dinode /\ dents' = dents /\ cwd' = cwd /\ fd' = fd
      /\ \/ /\ i # 0 /\ itable' = iget(t, i) /\ pr' = [pr EXCEPT ![p] = u]
         \/ /\ itable' = [itable EXCEPT ![e] = Loaded(e)] /\ pr' = [pr EXCEPT ![p] = r]
  BY <1>1, <1>2, <1>3, <1>4, <1>5, <1>6, <1>7
     DEF create, Creates, In, At, Locks, With, disk, Rest
<1>9. /\ e \in Entry /\ itable[e].ref > 0 /\ ~pr[p].second /\ Head(pr[p].path) \in AllNames
      /\ pr[p].dp = None /\ pr[p].put = None /\ pr[p].ip = None
      /\ \A x \in Entry : ~Holds(pr[p], x)
  BY <1>1, <1>8, FoundIs
<1>10. CASE /\ itable' = [itable EXCEPT ![e] = Loaded(e)] /\ pr' = [pr EXCEPT ![p] = r]
  <2>1. /\ r \in Process /\ Shape(r) /\ SameRefs(p, cwd[p], fd[p], r) /\ SameHolds(p, r)
    BY <1>7, <1>8, <1>9, PutCur
  <2>2. Moves(p, cwd[p], fd[p], r) /\ DentsOK
    BY <1>8, <1>10, <2>1, RecordMoves, DentsSame
  <2> QED
    BY <1>8, <1>9, <1>10, <2>1, <2>2, LoadStep
<1>11. CASE i # 0 /\ itable' = iget(t, i) /\ pr' = [pr EXCEPT ![p] = u]
  <2>1. i \in Inum
    <3>1. Loaded(e).inum \in Inum
      BY <1>8, <1>9, LockedCopy
    <3> QED
      BY <1>2, <1>9, <1>11, <3>1 DEF dirlookup, TableInv, Typed
  <2>2. Sound(itable, dinode)
    BY DEF TableInv
  <2>3. /\ Sound(itable', dinode') /\ Kept(itable, itable') /\ s \in Entry
        /\ \A x \in Entry : itable'[x].ref = itable[x].ref + One(s, x)
    BY <1>3, <1>4, <1>8, <1>9, <1>11, <2>1, <2>2, LoadGet
  <2>4. Fields(o, pr[p].pc, pr[p].cont, pr[p].call, pr[p].second, pr[p].path,
               None, pr[p].ip, pr[p].dp, pr[p].put)
    BY <1>5, ProcessIs, NoCurIs
  <2>5. PICK v : v = [o EXCEPT !.ip = s]
    OBVIOUS
  <2>6. Fields(v, o.pc, o.cont, o.call, o.second, o.path, o.cur, s, o.dp, o.put)
    BY <2>3, <2>4, <2>5, IpIs DEF Fields
  <2>7. Fields(u, "iput", "create_old", v.call, v.second, v.path, v.cur, v.ip, v.dp, e)
    <3>1. "create_old" \in Labels
      BY DEF Labels
    <3>2. v \in Process
      BY <2>6 DEF Fields
    <3>3. u = PutThen(v, e, "create_old")
      BY <1>6, <2>5
    <3> QED
      BY <1>9, <3>1, <3>2, <3>3, PutIs
  <2>8. Fields(u, "iput", "create_old", pr[p].call, pr[p].second, pr[p].path, None, s, None, e)
    BY <1>9, <2>4, <2>6, <2>7 DEF Fields
  <2>9. Shape(u)
    <3>1. Shape(pr[p])
      BY ProcessIs
    <3> QED
      BY <1>8, <1>9, <2>3, <2>8, <3>1, InodeAssumption
         DEF Shape, Walking, HasDp, HasIp, Stage, Putting, Conts, Fields, ByParent, Entry
  <2>10. \A x \in Entry : Refs(cwd[p], fd[p], u, x) = Refs(cwd[p], fd[p], pr[p], x) + One(s, x)
    BY <1>1, <1>9, <2>8, OneIs DEF Refs, Fields
  <2>11. SameHolds(p, u)
    BY <1>9, <2>8, InodeAssumption DEF SameHolds, Holds, Stage, Fields, Putting, Entry
  <2>12. LocksMove(p, u) /\ Moves(p, cwd[p], fd[p], u)
    BY <1>8, <1>11, <2>8, <2>11, LocksSame, RecordMoves DEF Fields
  <2>13. bitmap' = bitmap /\ BlocksKept /\ ncalls' \in 0..MaxCalls
    BY <1>8 DEF Rest, BlocksKept, TableInv, Typed
  <2> QED
    BY <1>8, <2>3, <2>9, <2>10, <2>11, <2>12, <2>13, GetStep DEF SameHolds
<1> QED
  BY <1>8, <1>10, <1>11

\* ialloc() finds an inode when there is one.
LEMMA FreeIs ==
  ASSUME FreeInums # {}
  PROVE  Min(FreeInums) \in Inum /\ dinode[Min(FreeInums)].type = "free"
<1>1. PICK S : S = FreeInums
  OBVIOUS
<1>2. S \in SUBSET Inum /\ S # {} /\ \A i \in S : dinode[i].type = "free"
  BY <1>1 DEF FreeInums
<1>3. IsFiniteSet(S)
  BY <1>2, FiniteInum, FS_Subset
<1>4. S \subseteq Int
  BY <1>2, InodeAssumption DEF Inum
<1>5. Min(S) \in S
  BY <1>2, <1>3, <1>4, LeastInSet
<1> QED
  BY <1>1, <1>2, <1>5

LEMMA IallocStep ==
  ASSUME TableInv, NEW p \in Proc, ialloc(p)
  PROVE  TableInv' /\ Kept(itable, itable')
<1>1. PICK e : e = pr[p].cur
  OBVIOUS
<1>2. PICK i : i = Min(FreeInums)
  OBVIOUS
<1>3. PICK s : s = Slot(i)
  OBVIOUS
<1>4. PICK t : t = With(itable, e, Loaded(e))
  OBVIOUS
<1>5. PICK n : n = [Free EXCEPT !.type = IF pr[p].call.op = "mkdir" THEN "dir" ELSE "file"]
  OBVIOUS
<1>6. PICK d : d = With(dinode, i, n)
  OBVIOUS
<1>7. PICK u : u = Both(pr[p], "create_new", e, s)
  OBVIOUS
<1>8. /\ pr[p].pc = "found" /\ pr[p].call.op \in {"create", "mkdir"}
      /\ Loaded(e).type # "free" /\ Rest /\ lock[e] = None /\ FreeInums # {}
      /\ dinode' = d /\ dents' = dents /\ cwd' = cwd /\ fd' = fd
      /\ itable' = iget(t, i) /\ pr' = [pr EXCEPT ![p] = u] /\ lock' = [lock EXCEPT ![e] = p]
  BY <1>1, <1>2, <1>3, <1>4, <1>5, <1>6, <1>7
     DEF ialloc, Creates, In, At, Locks, With, Both, Rest
<1>9. e \in Entry /\ itable[e].ref > 0 /\ \A x \in Entry : ~Holds(pr[p], x)
  BY <1>1, <1>8, FoundIs
<1>10. i \in Inum /\ dinode[i].type = "free"
  BY <1>2, <1>8, FreeIs
<1>11. n \in InodeRec /\ n.blk = {} /\ n.type # "free" /\ n.nlink = 0
  BY <1>5 DEF Free, InodeRec, Types
<1>12. Sound(itable, dinode) /\ Sound(itable, d)
  BY <1>6, <1>10, <1>11, AllocSound DEF TableInv
<1>13. d[i] = n /\ \A j \in Inum : j # i => d[j] = dinode[j]
  BY <1>6, <1>10, <1>12 DEF With, Sound, DiskInodes
<1>14. d[itable[e].inum] = dinode[itable[e].inum]
  <2>1. itable[e].inum \in Inum /\ itable[e].inum # i
    BY <1>8, <1>9, <1>10, LockedCopy
  <2> QED
    BY <1>13, <2>1
<1>15. /\ Sound(itable', dinode') /\ Kept(itable, itable') /\ s \in Entry /\ itable'[e].valid
       /\ \A x \in Entry : itable'[x].ref = itable[x].ref + One(s, x)
  BY <1>3, <1>4, <1>8, <1>9, <1>10, <1>12, <1>14, LoadGet
<1>16. /\ Fields(u, "create_new", pr[p].cont, pr[p].call, pr[p].second, pr[p].path, None, s, e,
                 None)
       /\ Shape(u) /\ \A x \in Entry : Holds(u, x) <=> x = e
       /\ \A x \in Entry : Refs(cwd[p], fd[p], u, x) = Refs(cwd[p], fd[p], pr[p], x) + One(s, x)
  <2>1. pr[p].pc = "found" /\ pr[p].call.op \in {"create", "mkdir"} /\ e \in Entry /\ s \in Entry
    BY <1>8, <1>9, <1>15
  <2> QED
    BY <1>1, <1>7, <2>1, LockBoth
<1>17. LocksMove(p, u) /\ Moves(p, cwd[p], fd[p], u)
  BY <1>8, <1>9, <1>16, Takes, RecordMoves DEF Fields
<1>18. bitmap' = bitmap /\ BlocksKept /\ ncalls' \in 0..MaxCalls
  <2>1. dinode[i].blk = {}
    BY <1>10 DEF TableInv, BlocksOwned
  <2> QED
    BY <1>8, <1>11, <1>13, <2>1 DEF Rest, BlocksKept, TableInv, Typed
<1> QED
  BY <1>8, <1>9, <1>15, <1>16, <1>17, <1>18, GetStep

\* The start of namex(): a reference to the root or to the current directory.
LEMMA FirstGet ==
  ASSUME TableInv, NEW p \in Proc, NEW pa, NEW t, t = FirstRef(p, pa), NEW s, s = First(p, pa)
  PROVE  /\ Sound(t, dinode) /\ Kept(itable, t) /\ s \in Entry
         /\ \A x \in Entry : t[x].ref = itable[x].ref + One(s, x)
         /\ IF pa.abs THEN t[s].inum = ROOTINO ELSE s = cwd[p]
<1>1. Sound(itable, dinode)
  BY DEF TableInv
<1>2. CASE pa.abs
  <2>1. t = iget(itable, ROOTINO) /\ s = Slot(ROOTINO)
    BY <1>2 DEF FirstRef, First
  <2>2. ROOTINO \in Inum
    BY InodeAssumption DEF ROOTINO, Inum
  <2> QED
    BY <1>1, <1>2, <2>1, <2>2, GetSound
<1>3. CASE ~pa.abs
  <2>1. s = cwd[p] /\ s \in Entry /\ itable[s].ref > 0
    BY <1>3, Pointed DEF First
  <2>2. itable \in Table /\ itable[s].ref \in Nat
    BY <1>1, <2>1 DEF Sound, Table, EntryRec
  <2>3. PICK k \in Nat : k = itable[s].ref + 1
    BY <2>2
  <2>4. t = RefIs(itable, s, k)
    BY <1>3, <2>1, <2>3 DEF FirstRef, idup, RefIs
  <2>5. /\ Sound(t, dinode) /\ Kept(itable, t)
        /\ \A x \in Entry : t[x].ref = IF x = s THEN k ELSE itable[x].ref
    BY <1>1, <2>1, <2>4, RefSound
  <2>6. \A x \in Entry : itable[x].ref \in Nat
    BY <2>2 DEF Table, EntryRec
  <2> QED
    BY <1>3, <2>1, <2>3, <2>5, <2>6 DEF One
<1> QED
  BY <1>2, <1>3

LEMMA StartStep ==
  ASSUME TableInv, NEW p \in Proc, NEW c \in Calls, start(p, c)
  PROVE  TableInv' /\ Kept(itable, itable')
<1>1. PICK s : s = First(p, c.path)
  OBVIOUS
<1>2. PICK t : t = FirstRef(p, c.path)
  OBVIOUS
<1>3. PICK q : q = c.path.elems
  OBVIOUS
<1>4. PICK r : r = [Idle EXCEPT !.pc = "walk", !.call = c, !.path = q, !.cur = s]
  OBVIOUS
<1>5. /\ pr[p].pc = "idle" /\ ncalls < MaxCalls /\ ncalls' = ncalls + 1 /\ bitmap' = bitmap
      /\ itable' = t /\ dinode' = dinode /\ dents' = dents /\ cwd' = cwd /\ fd' = fd
      /\ lock' = lock /\ pr' = [pr EXCEPT ![p] = r]
  BY <1>1, <1>2, <1>3, <1>4 DEF start, At, disk
<1>6. /\ Sound(itable', dinode') /\ Kept(itable, itable') /\ s \in Entry
      /\ \A x \in Entry : itable'[x].ref = itable[x].ref + One(s, x)
  BY <1>1, <1>2, <1>5, FirstGet
<1>7. q \in Seq(AllNames)
  BY <1>3, CallsAssumption DEF PathName
<1>8. Fields(r, "walk", "idle", c, FALSE, q, s, None, None, None)
  BY <1>4, <1>6, <1>7, StartIs
<1>9. pr[p] = Idle /\ \A x \in Entry : ~Holds(pr[p], x)
  BY <1>5, IdleOf
<1>10. Shape(r)
  BY <1>6, <1>8, InodeAssumption
     DEF Shape, Walking, HasDp, HasIp, Stage, Putting, Conts, Fields, ByParent, Entry
<1>11. \A x \in Entry : Refs(cwd[p], fd[p], r, x) = Refs(cwd[p], fd[p], pr[p], x) + One(s, x)
  BY <1>8, <1>9, IdleIs, OneIs DEF Refs, Fields
<1>12. SameHolds(p, r)
  BY <1>8, <1>9, InodeAssumption DEF SameHolds, Holds, Stage, Fields, Putting, Entry
<1>13. LocksMove(p, r) /\ Moves(p, cwd[p], fd[p], r)
  BY <1>5, <1>8, <1>12, LocksSame, RecordMoves DEF Fields
<1>14. BlocksKept /\ ncalls' \in 0..MaxCalls
  BY <1>5, InodeAssumption DEF BlocksKept, TableInv, Typed
<1> QED
  BY <1>5, <1>6, <1>10, <1>11, <1>12, <1>13, <1>14, GetStep DEF SameHolds

\* The walk of the second path starts.
Second(r, q, s) == [r EXCEPT !.pc = "walk", !.second = TRUE, !.path = q, !.cur = s]

LEMMA LinkNewStep ==
  ASSUME TableInv, NEW p \in Proc, link_new(p)
  PROVE  TableInv' /\ Kept(itable, itable')
<1>1. PICK s : s = First(p, pr[p].call.new)
  OBVIOUS
<1>2. PICK t : t = FirstRef(p, pr[p].call.new)
  OBVIOUS
<1>3. PICK q : q = pr[p].call.new.elems
  OBVIOUS
<1>4. PICK r : r = Second(pr[p], q, s)
  OBVIOUS
<1>5. /\ pr[p].pc = "link_new" /\ Rest
      /\ itable' = t /\ dinode' = dinode /\ dents' = dents /\ cwd' = cwd /\ fd' = fd
      /\ lock' = lock /\ pr' = [pr EXCEPT ![p] = r]
  BY <1>1, <1>2, <1>3, <1>4 DEF link_new, At, disk, Rest, Second
<1>6. /\ Sound(itable', dinode') /\ Kept(itable, itable') /\ s \in Entry
      /\ \A x \in Entry : itable'[x].ref = itable[x].ref + One(s, x)
  BY <1>1, <1>2, <1>5, FirstGet
<1>7. pr[p] \in Process /\ Shape(pr[p])
  BY ProcessIs
<1>8. pr[p].call \in Calls /\ pr[p].call.op = "link"
  BY <1>5, <1>7 DEF Shape, Stage, Putting
<1>9. q \in Seq(AllNames)
  BY <1>3, <1>8, CallsAssumption DEF PathName
<1>10. Fields(r, "walk", pr[p].cont, pr[p].call, TRUE, q, s, pr[p].ip, pr[p].dp, pr[p].put)
  BY <1>4, <1>6, <1>7, <1>9, SecondIs DEF Second
<1>11. pr[p].cur = None /\ pr[p].dp = None /\ pr[p].put = None /\ pr[p].ip # None
  BY <1>5, <1>7 DEF Shape, Walking, HasDp, HasIp, Stage, Putting
<1>12. Shape(r)
  BY <1>5, <1>6, <1>8, <1>10, <1>11, InodeAssumption
     DEF Shape, Walking, HasDp, HasIp, Stage, Putting, Conts, Fields, ByParent, Entry
<1>13. \A x \in Entry : Refs(cwd[p], fd[p], r, x) = Refs(cwd[p], fd[p], pr[p], x) + One(s, x)
  BY <1>10, <1>11, OneIs DEF Refs, Fields
<1>14. SameHolds(p, r)
  BY <1>5, <1>10, <1>11, InodeAssumption DEF SameHolds, Holds, Stage, Fields, Putting, Entry
<1>15. LocksMove(p, r) /\ Moves(p, cwd[p], fd[p], r)
  BY <1>5, <1>10, <1>14, LocksSame, RecordMoves DEF Fields
<1>16. bitmap' = bitmap /\ BlocksKept /\ ncalls' \in 0..MaxCalls
  BY <1>5 DEF Rest, BlocksKept, TableInv, Typed
<1> QED
  BY <1>5, <1>6, <1>12, <1>13, <1>14, <1>15, <1>16, GetStep DEF SameHolds

-----------------------------------------------------------------------------
(* Steps that change two inodes, or drop a reference.                        *)

\* The lock of the directory goes, that of the inode stays.
LEMMA SwapLocks ==
  ASSUME TableInv, NEW p \in Proc, NEW r, NEW e \in Entry, NEW d \in Entry, lock[e] = None,
         \A x \in Entry : Holds(pr[p], x) <=> x = d, \A x \in Entry : Holds(r, x) <=> x = e,
         lock' = [lock EXCEPT ![d] = None, ![e] = p]
  PROVE  LocksMove(p, r) /\ e # d
<1>1. lock \in [Entry -> Proc \cup {None}] /\ \A x \in Entry : lock[x] = p <=> x = d
  BY DEF TableInv, Typed, Locking
<1>2. p # None
  BY InodeAssumption
<1>3. e # d
  BY <1>1, <1>2
<1>4. /\ lock' \in [Entry -> Proc \cup {None}] /\ lock'[e] = p /\ lock'[d] = None
      /\ \A x \in Entry : x # e /\ x # d => lock'[x] = lock[x]
  BY <1>1, <1>3
<1> QED
  BY <1>1, <1>2, <1>3, <1>4 DEF LocksMove

\* Entry e is read or changed, then entry d, which the process has locked.
LEMMA TwoStep ==
  ASSUME TableInv, NEW p \in Proc, NEW r, Moves(p, cwd[p], fd[p], r), Shape(r),
         NEW e \in Entry, NEW d \in Entry, e # d, itable[e].ref > 0, Holds(pr[p], d),
         NEW n, CopyOf(itable, e, n), NEW k \in Int, NEW t, t = With(itable, e, n),
         NEW b, Sound(t, b), NEW dn, dn = Linked(itable[d], k),
         \A j \in Inum : b[j].type = dinode[j].type /\ b[j].blk = dinode[j].blk,
         itable' = With(t, d, dn), dinode' = With(b, dn.inum, iupdate(dn)), DentsOK, Rest,
         SameRefs(p, cwd[p], fd[p], r), LocksMove(p, r), \A x \in Entry : Holds(r, x) <=> x = e
  PROVE  /\ TableInv' /\ Kept(itable, itable') /\ dn.inum = itable[d].inum
         /\ dn.inum \in Inum /\ dn.inum # itable[e].inum
         /\ dinode'[itable[d].inum].nlink = k
         /\ \A j \in Inum : j # itable[d].inum => dinode'[j] = b[j]
         /\ \A j \in Inum : dinode'[j].type = dinode[j].type
<1>1. itable[d].ref > 0 /\ itable[d].valid /\ itable[d].type # "free" /\ Loaded(d) = itable[d]
  BY HeldLoaded
<1>2. CopyOf(itable, d, itable[d])
  BY <1>1, LockedCopy
<1>3. itable \in Table /\ Sound(itable, dinode)
  BY DEF TableInv, Sound
<1>4. t[e] = n /\ \A x \in Entry : x # e => t[x] = itable[x]
  BY <1>3 DEF With, Table
<1>5. CopyOf(t, d, itable[d]) /\ t[d].ref > 0
  BY <1>1, <1>2, <1>4 DEF CopyOf
<1>6. /\ CopyOf(t, d, dn) /\ dn.inum = itable[d].inum /\ dn.type = itable[d].type
      /\ dn.blk = itable[d].blk /\ dn.nlink = k
  BY <1>5, LinkedIs
<1>7. /\ Sound(itable', dinode') /\ Kept(t, itable')
      /\ \A x \in Entry : itable'[x].ref = t[x].ref
  BY <1>5, <1>6, UpdateSound
<1>8. \A x \in Entry : t[x].ref = itable[x].ref /\ t[x].inum = itable[x].inum
  BY <1>4 DEF CopyOf
<1>9. Kept(itable, itable') /\ itable'[e].valid
  <2>1. Kept(itable, t)
    BY <1>4 DEF Kept, CopyOf
  <2>2. Kept(itable, itable')
    BY <1>7, <1>8, <2>1 DEF Kept
  <2>3. itable'[e].valid
    BY <1>4, <1>7, <1>8 DEF Kept, CopyOf
  <2> QED
    BY <2>2, <2>3
<1>10. dn.inum \in Inum /\ dn.inum # itable[e].inum
  BY <1>1, <1>3, <1>6 DEF Sound, CopyOf, EntryRec
<1>11. dinode'[dn.inum] = iupdate(dn) /\ \A j \in Inum : j # dn.inum => dinode'[j] = b[j]
  BY <1>10 DEF With, Sound, DiskInodes
<1>12. /\ iupdate(dn).type = dn.type /\ iupdate(dn).blk = dn.blk /\ iupdate(dn).nlink = k
  BY <1>6 DEF iupdate
<1>13. itable[d].type = dinode[dn.inum].type /\ itable[d].blk = dinode[dn.inum].blk
  BY <1>1, <1>3, <1>6 DEF Sound
<1>14. \A j \in Inum : dinode'[j].type = dinode[j].type /\ dinode'[j].blk = dinode[j].blk
  BY <1>6, <1>11, <1>12, <1>13
<1>15. BlocksOwned'
  BY <1>14, BlocksSame DEF TableInv, Rest, BlocksKept
<1>16. Balanced(p, cwd[p], fd[p], r)
  BY <1>7, <1>8 DEF Balanced, SameRefs
<1>17. StayValid(p, r)
  BY <1>9, ValidSame
<1>18. bitmap' \subseteq Block /\ ncalls' \in 0..MaxCalls
  BY DEF TableInv, Typed, Rest
<1>19. TableInv'
  BY <1>7, <1>15, <1>16, <1>17, <1>18, StepTable DEF DentsOK
<1> QED
  BY <1>6, <1>9, <1>10, <1>11, <1>12, <1>14, <1>19

\* Link counts after a step that has ip and its parent dp locked: i has count k, and
\* the parent i2 has m links more.
CountsAre(i, i2, k, m) ==
  /\ i \in Inum /\ i2 \in Inum /\ i # i2
  /\ dinode'[i].nlink = k /\ dinode'[i2].nlink = dinode[i2].nlink + m
  /\ \A j \in Inum : j \notin {i, i2} => dinode'[j].nlink = dinode[j].nlink
  /\ \A j \in Inum : dinode'[j].type = dinode[j].type

LEMMA UnlinkIpStep ==
  ASSUME TableInv, NEW p \in Proc, unlink_ip(p)
  PROVE  /\ TableInv' /\ Kept(itable, itable')
         /\ pr[p].ip \in Entry /\ pr[p].dp \in Entry
         /\ \E i, i2, m : /\ i = itable[pr[p].ip].inum /\ i2 = itable[pr[p].dp].inum
                          /\ m = IF dinode[i].type = "dir" THEN -1 ELSE 0
                          /\ CountsAre(i, i2, dinode[i].nlink, m)
                          /\ dents' = dirlink(i2, Head(pr[p].path), 0)
                          /\ dinode[i].type = "dir" => isdirempty(i)
<1>1. PICK e : e = pr[p].ip
  OBVIOUS
<1>2. PICK d : d = pr[p].dp
  OBVIOUS
<1>3. PICK n : n = Loaded(e)
  OBVIOUS
<1>4. PICK k : k = itable[d].nlink - IF n.type = "dir" THEN 1 ELSE 0
  OBVIOUS
<1>5. PICK dn : dn = Linked(itable[d], k)
  OBVIOUS
<1>6. PICK t : t = With(itable, e, n)
  OBVIOUS
<1>7. PICK r : r = PutThen([pr[p] EXCEPT !.dp = None], pr[p].dp, "unlink_last")
  OBVIOUS
<1>8. /\ pr[p].pc = "unlink_ip" /\ n.type # "free" /\ lock[e] = None /\ Rest
      /\ n.type = "dir" => isdirempty(n.inum)
      /\ dents' = dirlink(dn.inum, Head(pr[p].path), 0)
      /\ itable' = [itable EXCEPT ![e] = n, ![d] = dn]
      /\ dinode' = [dinode EXCEPT ![dn.inum] = iupdate(dn)]
      /\ lock' = [lock EXCEPT ![d] = None, ![e] = p] /\ pr' = [pr EXCEPT ![p] = r]
      /\ cwd' = cwd /\ fd' = fd
  BY <1>1, <1>2, <1>3, <1>4, <1>5, <1>7 DEF unlink_ip, At, Locks, Linked, Rest
<1>9. /\ r \in Process /\ Shape(r) /\ SameRefs(p, cwd[p], fd[p], r)
      /\ d \in Entry /\ itable[d].ref > 0 /\ e \in Entry /\ itable[e].ref > 0
      /\ \A x \in Entry : Holds(pr[p], x) <=> x = d
      /\ \A x \in Entry : Holds(r, x) <=> x = e
  BY <1>1, <1>2, <1>7, <1>8, PutDp
<1>10. LocksMove(p, r) /\ e # d /\ Moves(p, cwd[p], fd[p], r) /\ Holds(pr[p], d)
  BY <1>8, <1>9, SwapLocks, RecordMoves
<1>11. /\ CopyOf(itable, e, n) /\ n.type = dinode[n.inum].type /\ n.nlink = dinode[n.inum].nlink
       /\ n.blk = dinode[n.inum].blk
  BY <1>3, <1>8, <1>9, LockedCopy
<1>12. Sound(itable, dinode) /\ itable \in Table
  BY DEF TableInv, Sound
<1>13. Sound(t, dinode)
  BY <1>6, <1>9, <1>11, <1>12, LoadSound
<1>14. k \in Int
  BY <1>4, <1>9, <1>12 DEF Table, EntryRec
<1>15. PICK b : b = dinode
  OBVIOUS
<1>16. itable' = With(t, d, dn) /\ dinode' = With(b, dn.inum, iupdate(dn)) /\ Rest
  BY <1>6, <1>8, <1>15 DEF With
<1>17. DentsOK
  BY <1>8 DEF DentsOK, dirlink, TableInv, Typed
<1>18. /\ \A j \in Inum : b[j].type = dinode[j].type /\ b[j].blk = dinode[j].blk
       /\ Sound(t, b)
  BY <1>13, <1>15
<1>19. /\ TableInv' /\ Kept(itable, itable') /\ dn.inum = itable[d].inum
       /\ dn.inum \in Inum /\ dn.inum # itable[e].inum
       /\ dinode'[itable[d].inum].nlink = k
       /\ \A j \in Inum : j # itable[d].inum => dinode'[j] = b[j]
       /\ \A j \in Inum : dinode'[j].type = dinode[j].type
  BY <1>5, <1>6, <1>9, <1>10, <1>11, <1>14, <1>16, <1>17, <1>18, TwoStep
<1>20. PICK i : i = itable[e].inum
  OBVIOUS
<1>21. PICK i2 : i2 = itable[d].inum
  OBVIOUS
<1>22. PICK m : m = IF dinode[i].type = "dir" THEN -1 ELSE 0
  OBVIOUS
<1>23. n.inum = i /\ i \in Inum /\ n.type = dinode[i].type
  BY <1>3, <1>8, <1>9, <1>11, <1>20, LockedCopy
<1>24. dinode'[i2].nlink = dinode[i2].nlink + m
  <2>1. itable[d].nlink = dinode[i2].nlink /\ dinode[i2].nlink \in Int
    BY <1>9, <1>10, <1>12, <1>21, HeldLoaded DEF Sound, Table, EntryRec, DiskInodes, InodeRec
  <2> QED
    BY <1>4, <1>19, <1>21, <1>22, <1>23, <2>1
<1>25. CountsAre(i, i2, dinode[i].nlink, m)
  BY <1>15, <1>19, <1>20, <1>21, <1>23, <1>24 DEF CountsAre
<1>26. dents' = dirlink(i2, Head(pr[p].path), 0) /\ (dinode[i].type = "dir" => isdirempty(i))
  BY <1>8, <1>19, <1>21, <1>23
<1> QED
  BY <1>1, <1>2, <1>9, <1>19, <1>20, <1>21, <1>22, <1>25, <1>26

LEMMA CreateNewStep ==
  ASSUME TableInv, NEW p \in Proc, create_new(p)
  PROVE  /\ TableInv' /\ Kept(itable, itable')
         /\ pr[p].ip \in Entry /\ pr[p].dp \in Entry
         /\ \E i, i2, m : /\ i = itable[pr[p].ip].inum /\ i2 = itable[pr[p].dp].inum
                          /\ m = IF pr[p].call.op = "mkdir" THEN 1 ELSE 0
                          /\ CountsAre(i, i2, 1, m)
                          /\ dents' = [dents EXCEPT ![i2][Head(pr[p].path)] = i,
                                         ![i] = IF pr[p].call.op = "mkdir"
                                                THEN [NoDents EXCEPT !["."] = i, ![".."] = i2]
                                                ELSE @]
<1>1. PICK e : e = pr[p].ip
  OBVIOUS
<1>2. PICK d : d = pr[p].dp
  OBVIOUS
<1>3. PICK n : n = Linked(Loaded(e), 1)
  OBVIOUS
<1>4. PICK k : k = itable[d].nlink + IF pr[p].call.op = "mkdir" THEN 1 ELSE 0
  OBVIOUS
<1>5. PICK dn : dn = Linked(itable[d], k)
  OBVIOUS
<1>6. PICK t : t = With(itable, e, n)
  OBVIOUS
<1>7. PICK b : b = With(dinode, n.inum, iupdate(n))
  OBVIOUS
<1>8. PICK r : r = PutThen([pr[p] EXCEPT !.dp = None], pr[p].dp, "create_ret")
  OBVIOUS
<1>9. PICK dots : dots = [NoDents EXCEPT !["."] = n.inum, ![".."] = dn.inum]
  OBVIOUS
<1>10. /\ pr[p].pc = "create_new" /\ Loaded(e).type # "free" /\ lock[e] = None /\ Rest
       /\ dents' = [dents EXCEPT ![dn.inum][Head(pr[p].path)] = n.inum,
                                 ![n.inum] = IF pr[p].call.op = "mkdir" THEN dots ELSE @]
       /\ itable' = [itable EXCEPT ![e] = n, ![d] = dn]
       /\ dinode' = [dinode EXCEPT ![n.inum] = iupdate(n), ![dn.inum] = iupdate(dn)]
       /\ lock' = [lock EXCEPT ![d] = None, ![e] = p] /\ pr' = [pr EXCEPT ![p] = r]
       /\ cwd' = cwd /\ fd' = fd
  BY <1>1, <1>2, <1>3, <1>4, <1>5, <1>8, <1>9 DEF create_new, At, Locks, Linked, Rest
<1>11. /\ r \in Process /\ Shape(r) /\ SameRefs(p, cwd[p], fd[p], r)
       /\ d \in Entry /\ itable[d].ref > 0 /\ e \in Entry /\ itable[e].ref > 0
       /\ \A x \in Entry : Holds(pr[p], x) <=> x = d
       /\ \A x \in Entry : Holds(r, x) <=> x = e
  <2>1. pr[p].pc = "create_new"
    BY <1>10
  <2> QED
    BY <1>1, <1>2, <1>8, <2>1, PutDp
<1>12. LocksMove(p, r) /\ e # d /\ Moves(p, cwd[p], fd[p], r) /\ Holds(pr[p], d)
  BY <1>10, <1>11, SwapLocks, RecordMoves
<1>13. PICK o : o = Loaded(e)
  OBVIOUS
<1>14. /\ CopyOf(itable, e, o) /\ o.type = dinode[o.inum].type /\ o.blk = dinode[o.inum].blk
  BY <1>10, <1>11, <1>13, LockedCopy
<1>15. n = Linked(o, 1) /\ 1 \in Int
  BY <1>3, <1>13
<1>16. /\ CopyOf(itable, e, n) /\ n.type = o.type /\ n.blk = o.blk /\ n.inum = o.inum
  BY <1>14, <1>15, LinkedIs
<1>17. Sound(itable, dinode) /\ itable \in Table
  BY DEF TableInv, Sound
<1>18. Sound(t, b)
  BY <1>6, <1>7, <1>11, <1>16, <1>17, UpdateSound
<1>19. n.inum \in Inum /\ dn.inum \in Inum
  <2>1. n.inum \in Inum
    BY <1>16 DEF CopyOf, EntryRec
  <2>2. itable[d] \in EntryRec
    BY <1>11, <1>17 DEF Table
  <2>3. dn.inum = itable[d].inum
    BY <1>5, <2>2 DEF Linked, EntryRec
  <2> QED
    BY <2>1, <2>2, <2>3 DEF EntryRec
<1>20. \A j \in Inum : b[j].type = dinode[j].type /\ b[j].blk = dinode[j].blk
  <2>1. b[n.inum] = iupdate(n) /\ \A j \in Inum : j # n.inum => b[j] = dinode[j]
    BY <1>7, <1>17, <1>19 DEF With, Sound, DiskInodes
  <2>2. iupdate(n).type = n.type /\ iupdate(n).blk = n.blk
    BY DEF iupdate
  <2> QED
    BY <1>14, <1>16, <2>1, <2>2
<1>21. k \in Int
  BY <1>4, <1>11, <1>17 DEF Table, EntryRec
<1>22. itable' = With(t, d, dn) /\ dinode' = With(b, dn.inum, iupdate(dn)) /\ Rest
  BY <1>6, <1>7, <1>10 DEF With
<1>23. DentsOK
  <2>1. dots \in [AllNames -> Inum \cup {0}]
    BY <1>9, <1>19 DEF NoDents
  <2>2. dents \in [Inum -> [AllNames -> Inum \cup {0}]]
    BY DEF TableInv, Typed
  <2> QED
    BY <1>10, <1>19, <2>1, <2>2 DEF DentsOK
<1>24. /\ TableInv' /\ Kept(itable, itable') /\ dn.inum = itable[d].inum
       /\ dn.inum \in Inum /\ dn.inum # itable[e].inum
       /\ dinode'[itable[d].inum].nlink = k
       /\ \A j \in Inum : j # itable[d].inum => dinode'[j] = b[j]
       /\ \A j \in Inum : dinode'[j].type = dinode[j].type
  BY <1>5, <1>6, <1>11, <1>12, <1>16, <1>18, <1>20, <1>21, <1>22, <1>23, TwoStep
<1>25. PICK i : i = itable[e].inum
  OBVIOUS
<1>26. PICK i2 : i2 = itable[d].inum
  OBVIOUS
<1>27. PICK m : m = IF pr[p].call.op = "mkdir" THEN 1 ELSE 0
  OBVIOUS
<1>28. n.inum = i /\ i \in Inum /\ dn.inum = i2 /\ i # i2 /\ i2 \in Inum
  BY <1>10, <1>11, <1>13, <1>16, <1>19, <1>24, <1>25, <1>26, LockedCopy
<1>29. dinode'[i2].nlink = dinode[i2].nlink + m
  <2>1. itable[d].nlink = dinode[i2].nlink
    BY <1>11, <1>12, <1>17, <1>26, HeldLoaded DEF Sound
  <2> QED
    BY <1>4, <1>24, <1>26, <1>27, <2>1
<1>30. b[i].nlink = 1 /\ \A j \in Inum : j # i => b[j] = dinode[j]
  <2>1. b[n.inum] = iupdate(n) /\ \A j \in Inum : j # n.inum => b[j] = dinode[j]
    BY <1>7, <1>17, <1>19 DEF With, Sound, DiskInodes
  <2>2. iupdate(n).nlink = 1
    BY <1>14, <1>15, LinkedIs DEF iupdate
  <2> QED
    BY <1>28, <2>1, <2>2
<1>31. CountsAre(i, i2, 1, m)
  BY <1>24, <1>26, <1>28, <1>29, <1>30 DEF CountsAre
<1>32. dents' = [dents EXCEPT ![i2][Head(pr[p].path)] = i,
                   ![i] = IF pr[p].call.op = "mkdir"
                          THEN [NoDents EXCEPT !["."] = i, ![".."] = i2] ELSE @]
  BY <1>9, <1>10, <1>28
<1> QED
  BY <1>1, <1>2, <1>11, <1>24, <1>25, <1>26, <1>27, <1>31, <1>32

\* The end of iput(): the process goes on without the pointer.
LEMMA PutDone ==
  ASSUME TableInv, NEW p \in Proc, pr[p].pc \in {"iput", "iref"}, NEW r, r = AfterPut(pr[p])
  PROVE  /\ r \in Process /\ Shape(r) /\ pr[p].put \in Entry /\ itable[pr[p].put].ref > 0
         /\ SameHolds(p, r)
         /\ \A x \in Entry : Refs(cwd[p], fd[p], pr[p], x)
                               = Refs(cwd[p], fd[p], r, x) + One(pr[p].put, x)
<1>1. pr[p] \in Process /\ Shape(pr[p]) /\ pr[p].cont \in Conts /\ Stage(pr[p]) = pr[p].cont
  BY ProcessIs DEF Shape, Stage, Putting
<1>2. pr[p].put \in Entry /\ itable[pr[p].put].ref > 0
  BY <1>1, Pointed DEF Shape, Putting
<1>3. CASE pr[p].cont = "idle"
  <2>1. r = Idle
    BY <1>3 DEF AfterPut
  <2>2. pr[p].cur = None /\ pr[p].ip = None /\ pr[p].dp = None
    BY <1>1, <1>3 DEF Shape, Walking, HasIp, HasDp
  <2>3. Fields(r, "idle", "idle", None, FALSE, <<>>, None, None, None, None)
    BY <2>1, IdleIs
  <2>4. Shape(r)
    BY <2>1, <2>3
       DEF Shape, Walking, HasDp, HasIp, Stage, Putting, Conts, Fields, ByParent
  <2>5. SameHolds(p, r)
    BY <2>2, <2>3, InodeAssumption DEF SameHolds, Holds, Stage, Fields, Putting, Entry
  <2>6. \A x \in Entry : Refs(cwd[p], fd[p], pr[p], x)
                           = Refs(cwd[p], fd[p], r, x) + One(pr[p].put, x)
    BY <2>2, <2>3, OneIs DEF Refs, Fields
  <2> QED
    BY <1>2, <2>3, <2>4, <2>5, <2>6 DEF Fields
<1>4. CASE pr[p].cont # "idle"
  <2>1. Fields(r, pr[p].cont, pr[p].cont, pr[p].call, pr[p].second, pr[p].path,
               pr[p].cur, pr[p].ip, pr[p].dp, None)
    BY <1>1, <1>4, AfterPutIs
  <2>2. Stage(r) = pr[p].cont /\ r.pc \notin Putting
    BY <1>1, <2>1 DEF Stage, Putting, Conts, Fields
  <2>3. Shape(r)
    BY <1>1, <1>4, <2>1, <2>2
       DEF Shape, Walking, HasDp, HasIp, Putting, Conts, Fields, ByParent
  <2>4. SameHolds(p, r)
    BY <1>1, <2>1, <2>2 DEF SameHolds, Holds, Fields, Putting
  <2>5. \A x \in Entry : Refs(cwd[p], fd[p], pr[p], x)
                           = Refs(cwd[p], fd[p], r, x) + One(pr[p].put, x)
    BY <2>1, OneIs DEF Refs, Fields
  <2> QED
    BY <1>2, <2>1, <2>3, <2>4, <2>5 DEF Fields
<1> QED
  BY <1>3, <1>4

\* A reference goes, and the pointer with it.
LEMMA DropStep ==
  ASSUME TableInv, NEW p \in Proc, pr[p].pc \in {"iput", "iref"},
         itable' = [itable EXCEPT ![pr[p].put].ref = itable[pr[p].put].ref - 1],
         pr' = [pr EXCEPT ![p] = AfterPut(pr[p])], dinode' = dinode, dents' = dents, Rest,
         lock' = lock, cwd' = cwd, fd' = fd
  PROVE  TableInv' /\ Kept(itable, itable')
<1>1. PICK r : r = AfterPut(pr[p])
  OBVIOUS
<1>2. PICK e : e = pr[p].put
  OBVIOUS
<1>3. /\ r \in Process /\ Shape(r) /\ e \in Entry /\ itable[e].ref > 0 /\ SameHolds(p, r)
      /\ \A x \in Entry : Refs(cwd[p], fd[p], pr[p], x) = Refs(cwd[p], fd[p], r, x) + One(e, x)
  BY <1>1, <1>2, PutDone
<1>4. Sound(itable, dinode) /\ \A x \in Entry : itable[x].ref \in Nat
  BY DEF TableInv, Sound, Table, EntryRec
<1>5. PICK k \in Nat : k = itable[e].ref - 1
  BY <1>3, <1>4
<1>6. itable' = RefIs(itable, e, k)
  BY <1>2, <1>5 DEF RefIs
<1>7. /\ Sound(itable', dinode') /\ Kept(itable, itable')
      /\ \A x \in Entry : itable'[x].ref = IF x = e THEN k ELSE itable[x].ref
  <2>1. /\ Sound(RefIs(itable, e, k), dinode) /\ Kept(itable, RefIs(itable, e, k))
        /\ \A x \in Entry : RefIs(itable, e, k)[x].ref = IF x = e THEN k ELSE itable[x].ref
    BY <1>3, <1>4, RefSound
  <2>2. dinode' = dinode
    OBVIOUS
  <2> QED
    BY <1>6, <2>1, <2>2, Zenon
<1>8. Balanced(p, cwd[p], fd[p], r)
  <2> SUFFICES ASSUME NEW x \in Entry
               PROVE  itable'[x].ref + Refs(cwd[p], fd[p], pr[p], x)
                        = itable[x].ref + Refs(cwd[p], fd[p], r, x)
    BY DEF Balanced
  <2>1. PICK a \in Int : a = Refs(cwd[p], fd[p], r, x)
    BY RefsInt
  <2>2. Refs(cwd[p], fd[p], pr[p], x) = a + One(e, x)
    BY <1>3, <2>1
  <2>3. itable'[x].ref + (a + One(e, x)) = itable[x].ref + a
    BY <1>4, <1>5, <1>7, <2>1 DEF One
  <2> QED
    BY <2>1, <2>2, <2>3, Zenon
<1>9. Moves(p, cwd[p], fd[p], r) /\ LocksMove(p, r) /\ DentsOK
  BY <1>1, <1>3, RecordMoves, LocksSame, DentsSame
<1>10. StayValid(p, r)
  BY <1>3, <1>7, ValidSame DEF SameHolds
<1>11. BlocksOwned'
  BY BlocksSame DEF TableInv, Rest, BlocksKept
<1>12. bitmap' \subseteq Block /\ ncalls' \in 0..MaxCalls
  BY DEF TableInv, Typed, Rest
<1> QED
  BY <1>3, <1>7, <1>8, <1>9, <1>10, <1>11, <1>12, StepTable DEF DentsOK

LEMMA IrefStep ==
  ASSUME TableInv, NEW p \in Proc, iref(p)
  PROVE  TableInv' /\ Kept(itable, itable')
<1>1. /\ pr[p].pc = "iref" /\ Rest /\ dinode' = dinode /\ dents' = dents /\ lock' = lock
      /\ cwd' = cwd /\ fd' = fd
      /\ itable' = [itable EXCEPT ![pr[p].put].ref = itable[pr[p].put].ref - 1]
      /\ pr' = [pr EXCEPT ![p] = AfterPut(pr[p])]
  BY DEF iref, At, Rest, disk
<1> QED
  BY <1>1, DropStep

\* The only pointer of a process to an entry with one reference.
LEMMA OnlyPointer ==
  ASSUME TableInv, NEW p \in Proc, NEW e \in Entry, e = pr[p].put, itable[e].ref = 1
  PROVE  /\ cwd[p] # e /\ fd[p] # e /\ pr[p].cur # e /\ pr[p].ip # e /\ pr[p].dp # e
         /\ \A q \in Proc : q # p => /\ cwd[q] # e /\ fd[q] # e /\ pr[q].cur # e
                                     /\ pr[q].ip # e /\ pr[q].dp # e /\ pr[q].put # e
<1>1. Holders(e) = 1
  BY DEF TableInv, Counted
<1>2. Refs(cwd[p], fd[p], pr[p], e) <= 1
  BY <1>1, HoldersOne, RefsInt
<1>3. /\ cwd[p] # e /\ fd[p] # e /\ pr[p].cur # e /\ pr[p].ip # e /\ pr[p].dp # e
      /\ Refs(cwd[p], fd[p], pr[p], e) >= 1
  BY <1>2, OneIs DEF Refs
<1>4. ASSUME NEW q \in Proc, q # p
      PROVE  /\ cwd[q] # e /\ fd[q] # e /\ pr[q].cur # e
             /\ pr[q].ip # e /\ pr[q].dp # e /\ pr[q].put # e
  <2>1. 1 >= Refs(cwd[p], fd[p], pr[p], e) + Refs(cwd[q], fd[q], pr[q], e)
    BY <1>1, <1>4, HoldersTwo
  <2>2. Refs(cwd[q], fd[q], pr[q], e) <= 0
    BY <1>3, <2>1, RefsInt
  <2> QED
    BY <2>2, OneIs DEF Refs
<1> QED
  BY <1>3, <1>4

LEMMA IputStep ==
  ASSUME TableInv, NEW p \in Proc, iput(p)
  PROVE  TableInv' /\ Kept(itable, itable')
<1>1. PICK e : e = pr[p].put
  OBVIOUS
<1>2. PICK r : r = [pr[p] EXCEPT !.pc = "ifree"]
  OBVIOUS
<1>3. /\ pr[p].pc = "iput" /\ Rest /\ dinode' = dinode /\ dents' = dents
      /\ cwd' = cwd /\ fd' = fd
      /\ \/ /\ itable[e].ref = 1 /\ itable[e].valid /\ lock[e] = None
            /\ lock' = [lock EXCEPT ![e] = p] /\ pr' = [pr EXCEPT ![p] = r] /\ itable' = itable
         \/ /\ itable' = [itable EXCEPT ![pr[p].put].ref = itable[pr[p].put].ref - 1]
            /\ pr' = [pr EXCEPT ![p] = AfterPut(pr[p])] /\ lock' = lock
  BY <1>1, <1>2 DEF iput, At, Rest, disk
<1>4. CASE /\ itable' = [itable EXCEPT ![pr[p].put].ref = itable[pr[p].put].ref - 1]
           /\ pr' = [pr EXCEPT ![p] = AfterPut(pr[p])] /\ lock' = lock
  BY <1>3, <1>4, DropStep
<1>5. CASE /\ itable[e].ref = 1 /\ itable[e].valid /\ lock[e] = None
           /\ lock' = [lock EXCEPT ![e] = p] /\ pr' = [pr EXCEPT ![p] = r] /\ itable' = itable
  <2>1. pr[p] \in Process /\ Shape(pr[p])
    BY ProcessIs
  <2>2. e \in Entry
    BY <1>1, <1>3, <2>1, Pointed DEF Shape, Putting
  <2>3. pr[p].ip # e /\ pr[p].dp # e
    BY <1>1, <1>5, <2>2, OnlyPointer
  <2>4. Fields(r, "ifree", pr[p].cont, pr[p].call, pr[p].second, pr[p].path,
               pr[p].cur, pr[p].ip, pr[p].dp, e)
    BY <1>1, <1>2, <2>1, AtLabel DEF Labels
  <2>5. Shape(r)
    BY <1>1, <1>3, <2>1, <2>2, <2>3, <2>4
       DEF Shape, Walking, HasDp, HasIp, Stage, Putting, Conts, Fields, ByParent
  <2>6. SameRefs(p, cwd[p], fd[p], r)
    BY <1>1, <2>4 DEF SameRefs, Refs, Fields
  <2>7. \A x \in Entry : Holds(r, x) <=> Holds(pr[p], x) \/ x = e
    BY <1>1, <1>3, <2>4 DEF Holds, Stage, Putting, Fields
  <2>8. LocksMove(p, r)
    <3>1. /\ lock \in [Entry -> Proc \cup {None}]
          /\ \A x \in Entry : lock[x] = p <=> Holds(pr[p], x)
      BY DEF TableInv, Typed, Locking
    <3>2. /\ lock' \in [Entry -> Proc \cup {None}] /\ lock'[e] = p
          /\ \A x \in Entry : x # e => lock'[x] = lock[x]
      BY <1>5, <2>2, <3>1
    <3> QED
      BY <1>5, <2>7, <3>1, <3>2 DEF LocksMove
  <2>9. StayValid(p, r)
    BY <1>5, <2>7 DEF StayValid, TableInv, HeldValid
  <2>10. Moves(p, cwd[p], fd[p], r) /\ DentsOK
    BY <1>3, <1>5, <2>4, RecordMoves, DentsSame DEF Fields
  <2>11. Balanced(p, cwd[p], fd[p], r)
    BY <1>5, <2>6 DEF Balanced, SameRefs
  <2>12. BlocksOwned'
    BY <1>3, BlocksSame DEF TableInv, Rest, BlocksKept
  <2>13. bitmap' \subseteq Block /\ ncalls' \in 0..MaxCalls /\ Sound(itable', dinode')
    BY <1>3, <1>5 DEF TableInv, Typed, Rest
  <2>14. Kept(itable, itable')
    BY <1>5 DEF Kept
  <2> QED
    BY <2>5, <2>8, <2>9, <2>10, <2>11, <2>12, <2>13, <2>14, StepTable DEF DentsOK
<1> QED
  BY <1>3, <1>4, <1>5

LEMMA IfreeStep ==
  ASSUME TableInv, NEW p \in Proc, ifree(p)
  PROVE  TableInv' /\ \A x \in Entry : itable'[x].inum = itable[x].inum
<1>1. PICK e : e = pr[p].put
  OBVIOUS
<1>2. PICK i : i = itable[e].inum
  OBVIOUS
<1>3. PICK n : n = [dinode[i] EXCEPT !.type = "free", !.nlink = itable[e].nlink, !.blk = {}]
  OBVIOUS
<1>4. PICK r : r = [pr[p] EXCEPT !.pc = "iref"]
  OBVIOUS
<1>5. /\ pr[p].pc = "ifree" /\ ncalls' = ncalls /\ cwd' = cwd /\ fd' = fd
      /\ dinode' = With(dinode, i, n) /\ dents' = [dents EXCEPT ![i] = NoDents]
      /\ bitmap' = bitmap \ itable[e].blk /\ itable' = Cleared(itable, e)
      /\ lock' = [lock EXCEPT ![e] = None] /\ pr' = [pr EXCEPT ![p] = r]
  BY <1>1, <1>2, <1>3, <1>4 DEF ifree, At, With, Cleared, bfree
<1>6. pr[p] \in Process /\ Shape(pr[p])
  BY ProcessIs
<1>7. e \in Entry /\ pr[p].ip # e /\ pr[p].dp # e
  BY <1>1, <1>5, <1>6, Pointed DEF Shape, Putting
<1>8. Holds(pr[p], e)
  BY <1>1, <1>5 DEF Holds
<1>9. itable[e].ref > 0 /\ itable[e].valid
  BY <1>7, <1>8, HeldLoaded
<1>10. /\ Sound(itable, dinode) /\ i \in Inum /\ itable[e].nlink \in Int
       /\ itable[e].blk = dinode[i].blk /\ dinode[i] \in InodeRec
  BY <1>2, <1>7, <1>9 DEF TableInv, Sound, Table, EntryRec, DiskInodes
<1>11. n \in InodeRec /\ n.blk = {}
  BY <1>3, <1>10 DEF InodeRec, Types
<1>12. /\ Sound(itable', dinode')
       /\ \A x \in Entry : itable'[x].ref = itable[x].ref /\ itable'[x].inum = itable[x].inum
       /\ \A x \in Entry : x # e => itable'[x] = itable[x]
  BY <1>2, <1>5, <1>7, <1>9, <1>10, <1>11, FreeSound
<1>13. dinode'[i] = n /\ \A j \in Inum : j # i => dinode'[j] = dinode[j]
  BY <1>5, <1>10 DEF With, Sound, DiskInodes
<1>14. BlocksOwned'
  BY <1>5, <1>10, <1>11, <1>13, BlocksFreed DEF TableInv
<1>15. Fields(r, "iref", pr[p].cont, pr[p].call, pr[p].second, pr[p].path,
              pr[p].cur, pr[p].ip, pr[p].dp, e)
  BY <1>1, <1>4, <1>6, AtLabel DEF Labels
<1>16. Shape(r)
  BY <1>1, <1>5, <1>6, <1>15
     DEF Shape, Walking, HasDp, HasIp, Stage, Putting, Conts, Fields, ByParent
<1>17. Balanced(p, cwd[p], fd[p], r)
  BY <1>1, <1>12, <1>15 DEF Balanced, Refs, Fields
<1>18. \A x \in Entry : Holds(r, x) <=> Holds(pr[p], x) /\ x # e
  BY <1>1, <1>5, <1>7, <1>15 DEF Holds, Stage, Putting, Fields
<1>19. LocksMove(p, r)
  BY <1>5, <1>7, <1>8, <1>18, Unlocks
<1>20. StayValid(p, r)
  <2>1. lock[e] = p
    BY <1>7, <1>8 DEF TableInv, Locking
  <2> QED
    BY <1>12, <1>18, <2>1 DEF StayValid, TableInv, HeldValid
<1>21. Moves(p, cwd[p], fd[p], r)
  BY <1>5, <1>15, RecordMoves DEF Fields
<1>22. bitmap' \subseteq Block /\ ncalls' \in 0..MaxCalls /\ DentsOK
  BY <1>5, <1>10 DEF TableInv, Typed, DentsOK, NoDents
<1> QED
  BY <1>12, <1>14, <1>16, <1>17, <1>19, <1>20, <1>21, <1>22, StepTable DEF DentsOK

-----------------------------------------------------------------------------
(* The table's invariant.                                                    *)

LEMMA InitTable ==
  ASSUME Init
  PROVE  TableInv
<1>1. 1 \in Inum /\ 1 \in Entry
  BY InodeAssumption DEF Inum, Entry
<1>2. IsFiniteSet(Proc) /\ Cardinality(Proc) \in Nat
  BY InodeAssumption, FS_CardinalityType
<1>3. \A p \in Proc : pr[p] = Idle /\ cwd[p] = 1 /\ fd[p] = None
  BY DEF Init
<1>4. Typed
  <2>1. dinode \in DiskInodes
    <3>1. Free \in InodeRec /\ [Free EXCEPT !.type = "dir", !.nlink = 1] \in InodeRec
      <4>1. Free \in InodeRec
        BY DEF InodeRec, Free, Types
      <4>2. PICK n : n = [Free EXCEPT !.type = "dir", !.nlink = 1]
        OBVIOUS
      <4>3. n = [type |-> "dir", nlink |-> 1, blk |-> {}]
        BY <4>2 DEF Free
      <4>4. n \in InodeRec
        BY <4>3 DEF InodeRec, Types
      <4> QED
        BY <4>1, <4>2, <4>4
    <3> QED
      BY <3>1 DEF Init, DiskInodes
  <2>2. dents \in [Inum -> [AllNames -> Inum \cup {0}]]
    BY <1>1 DEF Init, NoDents, ROOTINO
  <2>3. itable \in Table
    BY <1>1, <1>2 DEF Init, Table, EntryRec, Types
  <2>4. pr \in [Proc -> Process]
    BY IdleIs DEF Init, Fields
  <2>5. /\ bitmap \subseteq Block /\ lock \in [Entry -> Proc \cup {None}]
        /\ cwd \in [Proc -> Entry] /\ fd \in [Proc -> Entry \cup {None}]
        /\ ncalls \in 0..MaxCalls
    BY <1>1, InodeAssumption DEF Init
  <2> QED
    BY <2>1, <2>2, <2>3, <2>4, <2>5 DEF Typed
<1>5. Shapes
  BY <1>3, IdleIs
     DEF Shapes, Shape, Walking, HasDp, HasIp, Stage, Putting, Conts, Fields, ByParent
<1>6. Locking /\ HeldValid
  BY <1>3, IdleIs, InodeAssumption
     DEF Locking, HeldValid, Init, Holds, Fields, Entry
<1>7. Counted
  <2> SUFFICES ASSUME NEW e \in Entry PROVE itable[e].ref = Holders(e)
    BY DEF Counted
  <2>1. e # None
    BY InodeAssumption DEF Entry
  <2>2. {p \in Proc : cwd[p] = e} = IF e = 1 THEN Proc ELSE {}
    BY <1>3
  <2>3. /\ {p \in Proc : fd[p] = e} = {} /\ {p \in Proc : pr[p]["cur"] = e} = {}
        /\ {p \in Proc : pr[p]["ip"] = e} = {} /\ {p \in Proc : pr[p]["dp"] = e} = {}
        /\ {p \in Proc : pr[p]["put"] = e} = {}
    BY <1>3, <2>1, IdleIs DEF Fields
  <2>4. Cardinality({}) = 0
    BY FS_EmptySet
  <2>5. CountAt(cwd, e) = IF e = 1 THEN Cardinality(Proc) ELSE 0
    BY <2>2, <2>4 DEF CountAt
  <2>6. /\ CountAt(fd, e) = 0 /\ LocalAt(pr, "cur", e) = 0 /\ LocalAt(pr, "ip", e) = 0
        /\ LocalAt(pr, "dp", e) = 0 /\ LocalAt(pr, "put", e) = 0
    BY <2>3, <2>4 DEF CountAt, LocalAt
  <2>7. Holders(e) = IF e = 1 THEN Cardinality(Proc) ELSE 0
    BY <1>2, <2>5, <2>6, HoldersIs
  <2> QED
    BY <2>7 DEF Init
<1>8. Sound(itable, dinode)
  <2>1. \A e \in Entry : itable[e].valid = FALSE /\ (itable[e].ref > 0 => e = 1)
    BY DEF Init
  <2> QED
    BY <1>4, <2>1 DEF Sound, Typed
<1>9. BlocksOwned
  <2>1. \A i \in Inum : dinode[i].blk = {}
    BY DEF Init, Free
  <2> QED
    BY <2>1 DEF BlocksOwned, Init
<1> QED
  BY <1>4, <1>5, <1>6, <1>7, <1>8, <1>9 DEF TableInv

\* A step that changes nothing.
LEMMA StutterTable ==
  ASSUME TableInv, UNCHANGED vars
  PROVE  TableInv'
  BY DEF TableInv, Typed, Shapes, Locking, HeldValid, Counted, Holders, BlocksOwned, vars,
         disk, mem

LEMMA NextTable ==
  ASSUME TableInv, [Next]_vars
  PROVE  TableInv'
<1>1. ASSUME NEW p \in Proc, iput(p) \/ ifree(p) \/ iref(p)
      PROVE  TableInv'
  BY <1>1, IputStep, IfreeStep, IrefStep
<1>2. ASSUME NEW p \in Proc, walk_fail(p) \/ namex(p) \/ walk_parent(p) \/ walk_end(p)
      PROVE  TableInv'
  BY <1>2, WalkFailStep, NamexStep, WalkParentStep, WalkEndStep
<1>3. ASSUME NEW p \in Proc, open(p) \/ chdir(p) \/ close(p)
      PROVE  TableInv'
  BY <1>3, OpenStep, ChdirStep, CloseStep
<1>4. ASSUME NEW p \in Proc, link(p) \/ link_new(p) \/ link_dir(p) \/ link_put(p) \/ link_bad(p)
      PROVE  TableInv'
  BY <1>4, LinkStep, LinkNewStep, LinkDirStep, LinkPutStep, LinkBadStep
<1>5. ASSUME NEW p \in Proc,
             unlink(p) \/ unlink_busy(p) \/ unlock_dp(p) \/ unlink_ip(p) \/ unlink_last(p)
      PROVE  TableInv'
  BY <1>5, UnlinkStep, UnlinkBusyStep, UnlockDpStep, UnlinkIpStep, UnlinkLastStep
<1>6. ASSUME NEW p \in Proc,
             \/ create(p) \/ ialloc(p) \/ create_new(p) \/ create_fail(p) \/ create_ret(p)
             \/ create_old(p)
      PROVE  TableInv'
  BY <1>6, CreateStep, IallocStep, CreateNewStep, CreateFailStep, CreateRetStep, CreateOldStep
<1>7. ASSUME NEW p \in Proc, NEW c \in Calls, start(p, c)
      PROVE  TableInv'
  BY <1>7, StartStep
<1>8. ASSUME NEW p \in Proc, NEW b \in Block, write(p, b)
      PROVE  TableInv'
  BY <1>8, WriteStep
<1>9. CASE UNCHANGED vars
  BY <1>9, StutterTable
<1>10. CASE Next
  BY <1>1, <1>2, <1>3, <1>4, <1>5, <1>6, <1>7, <1>8, <1>10 DEF Next
<1> QED
  BY <1>9, <1>10

LEMMA TableInvariant == Spec => []TableInv
<1>1. Init => TableInv
  BY InitTable
<1>2. TableInv /\ [Next]_vars => TableInv'
  BY NextTable
<1> QED
  BY <1>1, <1>2, PTL DEF Spec

\* ip->ref is the number of pointers to the entry and no inode has two entries, after
\* any steps of any processes (fs.c iget, idup, iput).
THEOREM RefExactAlways == Spec => []RefExact
<1>1. TableInv => RefExact
  BY DEF TableInv, RefExact, Counted, Sound
<1> QED
  BY <1>1, TableInvariant, PTL

\* The copy in a valid entry is the inode on disk, also after the inode was freed and
\* allocated again (fs.c ilock, iupdate, iput).
THEOREM CopyFreshAlways == Spec => []CopyFresh
<1>1. ASSUME TableInv PROVE CopyFresh
  <2> SUFFICES ASSUME NEW e \in Entry, itable[e].ref > 0, itable[e].valid
               PROVE  iupdate(itable[e]) = dinode[itable[e].inum]
    BY DEF CopyFresh
  <2>1. PICK d : d = dinode[itable[e].inum]
    OBVIOUS
  <2>2. itable[e].type = d.type /\ itable[e].nlink = d.nlink /\ itable[e].blk = d.blk
    BY <1>1, <2>1 DEF TableInv, Sound
  <2>3. d \in InodeRec
    BY <1>1, <2>1 DEF TableInv, Sound, Table, EntryRec, DiskInodes
  <2>4. d = [type |-> d.type, nlink |-> d.nlink, blk |-> d.blk]
    BY <2>3 DEF InodeRec
  <2> QED
    BY <2>1, <2>2, <2>4 DEF iupdate
<1> QED
  BY <1>1, TableInvariant, PTL

\* A block in use belongs to exactly one inode, and no block of an inode is free
\* (fs.c balloc, bfree, itrunc).
THEOREM BlocksOwnedAlways == Spec => []BlocksOwned
<1>1. TableInv => BlocksOwned
  BY DEF TableInv
<1> QED
  BY <1>1, TableInvariant, PTL

-----------------------------------------------------------------------------
(* Links, directories and freed inodes.                                      *)

\* No path leads through "..".
NoDotDot ==
  \A c \in Calls : /\ \A k \in 1..Len(c.path.elems) : c.path.elems[k] # ".."
                   /\ \A k \in 1..Len(c.new.elems) : c.new.elems[k] # ".."

\* The process uses entry x, other than to drop the reference after ifree().
Points(c, f, r, x) ==
  \/ x = c \/ x = f \/ x = r.cur \/ x = r.ip \/ x = r.dp
  \/ x = r.put /\ r.pc # "iref"

Ino(x) == itable[x].inum
TypeOf(x) == dinode[Ino(x)].type

\* The directory has its entry ".".
Dotted(i) == dents[i]["."] = i

\* link() has raised the link count of ip and has not made the entry yet.
Linking(r) == Stage(r) \in {"link_new", "link_bad"} \/ (Walking(r) /\ r.second)

\* Entry x is about to be freed, or to get its first link.
Alone(r, x) == (r.pc = "ifree" /\ x = r.put) \/ (r.pc = "create_new" /\ x = r.ip)

\* What process p relies on, with current directory c, file f and record r.
Relies(c, f, r) ==
  /\ \A k \in 1..Len(r.path) : r.path[k] # ".."
  /\ \A x \in Entry : Points(c, f, r, x) => TypeOf(x) # "free"
  /\ TypeOf(c) = "dir"
  /\ r.dp # None => TypeOf(r.dp) = "dir"
  /\ r.pc = "found" /\ ByParent(r) => TypeOf(r.cur) = "dir"
  /\ Linking(r) => TypeOf(r.ip) = "file"
  /\ \A x \in Entry : x \in {c, r.cur, r.dp} /\ TypeOf(x) = "dir" => Dotted(Ino(x))
  /\ r.pc = "unlink_ip" =>
       Head(r.path) \in Name /\ dents[Ino(r.dp)][Head(r.path)] = Ino(r.ip)
  /\ r.pc = "create_new" =>
       /\ Head(r.path) \in Name /\ r.ip # r.dp
       /\ TypeOf(r.ip) = IF r.call.op = "mkdir" THEN "dir" ELSE "file"
       /\ dents[Ino(r.ip)] = NoDents
  /\ \A x \in Entry : Alone(r, x) => dinode[Ino(x)].nlink = 0
  /\ r.pc = "ifree" => r.put \notin {c, f, r.cur, r.ip, r.dp}
  
\* What another process, with c, f and r, leaves alone.
Apart(s, c, f, r) == \A x \in Entry : Alone(s, x) => ~Points(c, f, r, x)

Reliable == \A p \in Proc : Relies(cwd[p], fd[p], pr[p])
Apartness == \A p, q \in Proc : p # q => Apart(pr[q], cwd[p], fd[p], pr[p])

\* Free inodes have no links, only directories have entries, and directories with
\* links have their ".".
Tidy ==
  \A i \in Inum : /\ dinode[i].type = "free" => dinode[i].nlink = 0
                  /\ dinode[i].type # "dir" => dents[i] = NoDents
                  /\ dinode[i].type = "dir" /\ dinode[i].nlink > 0 => Dotted(i)

\* Directories form no cycle: among any of them, one has none of them as an entry.
Acyclic ==
  \A S \in SUBSET Inum : S # {} => \E i \in S : \A n \in Name : dents[i][n] \notin S

\* Who accounts for the links of inode i: names, subdirectories by their "..", and
\* system calls between their steps.
Subs(i) == {m \in Name : dents[i][m] # 0 /\ dinode[dents[i][m]].type = "dir"}
Claiming(r) == Linking(r) \/ Stage(r) = "unlink_last"
Users(i) == {p \in Proc : Claiming(pr[p]) /\ Ino(pr[p].ip) = i}
Claims(i) == Cardinality(Links(i)) + Cardinality(Subs(i)) + Cardinality(Users(i))
             + IF i = ROOTINO THEN 1 ELSE 0
Stakes == \A i \in Inum : Claims(i) <= dinode[i].nlink

TreeInv == Reliable /\ Apartness /\ Tidy /\ Acyclic /\ Stakes

-----------------------------------------------------------------------------
(* What a step of process p has to show.                                     *)

Uses(p, x) == Points(cwd[p], fd[p], pr[p], x)

\* The entries in use keep their inodes.
SameIno == \A x \in Entry : itable[x].ref > 0 => itable'[x].inum = itable[x].inum

SameInode(i) ==
  /\ dinode'[i].type = dinode[i].type /\ dinode'[i].nlink = dinode[i].nlink
  /\ dents'[i] = dents[i]

\* A step of p changes an inode that is free, that only p uses, or that p has locked.
Touches(p) ==
  \A i \in Inum :
    \/ SameInode(i)
    \/ dinode[i].type = "free"
    \/ \E x \in Entry :
         /\ Uses(p, x) /\ Ino(x) = i
         /\ \/ Alone(pr[p], x)
            \/ /\ dinode'[i].type = dinode[i].type /\ dents'[i]["."] = dents[i]["."]
               /\ dents'[i] = dents[i] \/ lock[x] \in {None, p}

\* A new pointer is to an inode that was free, or that has links.
NewPointers(p, c, f, r) ==
  \A x \in Entry :
    Points(c, f, r, x) =>
      Uses(p, x) \/ dinode[itable'[x].inum].type = "free" \/ dinode[itable'[x].inum].nlink > 0

LEMMA UsedIs ==
  ASSUME TableInv, NEW p \in Proc, NEW x \in Entry, Uses(p, x)
  PROVE  itable[x].ref > 0 /\ Ino(x) \in Inum
<1>1. x # None
  BY InodeAssumption DEF Entry
<1>2. itable[x].ref > 0
  BY <1>1, Pointed DEF Uses, Points
<1> QED
  BY <1>2 DEF Ino, TableInv, Typed, Table, EntryRec

\* Entries with the same inode are the same.
LEMMA OneEntry ==
  ASSUME TableInv, NEW x \in Entry, NEW y \in Entry, itable[x].ref > 0, itable[y].ref > 0,
         Ino(x) = Ino(y)
  PROVE  x = y
  BY DEF TableInv, Sound, Ino

\* What another process uses stays as it is.
LEMMA OtherUses ==
  ASSUME TableInv, TreeInv, NEW p \in Proc, SameIno, Touches(p), NEW q \in Proc, q # p,
         NEW x \in Entry, Uses(q, x)
  PROVE  /\ itable'[x].inum = Ino(x) /\ Ino(x) \in Inum
         /\ dinode'[Ino(x)].type = dinode[Ino(x)].type /\ dinode[Ino(x)].type # "free"
         /\ dents'[Ino(x)]["."] = dents[Ino(x)]["."]
         /\ x = pr[q].dp => dents'[Ino(x)] = dents[Ino(x)]
         /\ Alone(pr[q], x) => SameInode(Ino(x))
<1>1. itable[x].ref > 0 /\ Ino(x) \in Inum
  BY UsedIs
<1>2. itable'[x].inum = Ino(x)
  BY <1>1 DEF SameIno, Ino
<1>3. dinode[Ino(x)].type # "free"
  BY DEF TreeInv, Reliable, Relies, Uses, TypeOf
<1>4. CASE SameInode(Ino(x))
  BY <1>1, <1>2, <1>3, <1>4 DEF SameInode
<1>5. CASE ~SameInode(Ino(x))
  <2>1. PICK y \in Entry :
          /\ Uses(p, y) /\ Ino(y) = Ino(x)
          /\ \/ Alone(pr[p], y)
             \/ /\ dinode'[Ino(x)].type = dinode[Ino(x)].type
                /\ dents'[Ino(x)]["."] = dents[Ino(x)]["."]
                /\ dents'[Ino(x)] = dents[Ino(x)] \/ lock[y] \in {None, p}
    BY <1>1, <1>3, <1>5 DEF Touches
  <2>2. itable[y].ref > 0
    BY <2>1, UsedIs
  <2>3. y = x
    BY <1>1, <2>1, <2>2, OneEntry
  <2>4. ~Alone(pr[p], x)
    BY DEF TreeInv, Apartness, Apart, Uses
  <2>5. ~Alone(pr[q], x)
    BY <2>1, <2>3 DEF TreeInv, Apartness, Apart, Uses
  <2>6. x = pr[q].dp => lock[x] = q
    BY DEF TableInv, Locking, Holds
  <2>7. q # None
    BY InodeAssumption
  <2> QED
    BY <1>1, <1>2, <1>3, <2>1, <2>3, <2>4, <2>5, <2>6, <2>7
<1> QED
  BY <1>4, <1>5

LEMMA OtherRelies ==
  ASSUME TableInv, TreeInv, NEW p \in Proc, SameIno, Touches(p), NEW q \in Proc, q # p,
         NEW c, NEW f, NEW r, c = cwd[q], f = fd[q], r = pr[q]
  PROVE  Relies(c, f, r)'
<1>1. Relies(c, f, r)
  BY DEF TreeInv, Reliable
<1>2. \A x \in Entry :
        Points(c, f, r, x) =>
          /\ itable'[x].inum = itable[x].inum
          /\ dinode'[itable[x].inum].type = dinode[itable[x].inum].type
          /\ dents'[itable[x].inum]["."] = dents[itable[x].inum]["."]
          /\ x = r.dp => dents'[itable[x].inum] = dents[itable[x].inum]
          /\ Alone(r, x) => SameInode(itable[x].inum)
  BY OtherUses DEF Uses, Ino
<1>3. c \in Entry /\ r \in Process /\ Shape(r)
  BY ProcessIs
<1>4. /\ r.cur \in Entry \cup {None} /\ r.ip \in Entry \cup {None} /\ r.dp \in Entry \cup {None}
      /\ r.put \in Entry \cup {None}
  BY <1>3 DEF Process
<1>5. \A x \in Entry : Alone(r, x) => Points(c, f, r, x)
  BY DEF Alone, Points
<1>6. \A k \in 1..Len(r.path) : r.path[k] # ".."
  BY <1>1 DEF Relies
<1>7. \A x \in Entry : Points(c, f, r, x) => TypeOf(x)' # "free"
  BY <1>1, <1>2 DEF Relies, TypeOf, Ino
<1>8. TypeOf(c)' = "dir"
  BY <1>1, <1>2, <1>3 DEF Relies, TypeOf, Ino, Points
<1>9. r.dp # None => TypeOf(r.dp)' = "dir"
  BY <1>1, <1>2, <1>4 DEF Relies, TypeOf, Ino, Points
<1>10. r.pc = "found" /\ ByParent(r) => TypeOf(r.cur)' = "dir"
  <2>1. r.pc = "found" => r.cur \in Entry
    BY <1>3, <1>4 DEF Shape, Walking, Stage, Putting
  <2> QED
    BY <1>1, <1>2, <2>1 DEF Relies, TypeOf, Ino, Points
<1>11. Linking(r) => TypeOf(r.ip)' = "file"
  <2>1. Linking(r) => r.ip \in Entry
    BY <1>3, <1>4 DEF Shape, HasIp, Linking
  <2> QED
    BY <1>1, <1>2, <2>1 DEF Relies, TypeOf, Ino, Points
<1>12. \A x \in Entry : x \in {c, r.cur, r.dp} /\ TypeOf(x)' = "dir" => Dotted(Ino(x))'
  <2> SUFFICES ASSUME NEW x \in Entry, x \in {c, r.cur, r.dp}, TypeOf(x)' = "dir"
               PROVE  Dotted(Ino(x))'
    OBVIOUS
  <2>1. Points(c, f, r, x)
    BY DEF Points
  <2>2. TypeOf(x) = "dir"
    BY <1>2, <2>1 DEF TypeOf, Ino
  <2>3. Dotted(Ino(x))
    BY <1>1, <2>2 DEF Relies
  <2> QED
    BY <1>2, <2>1, <2>3 DEF Dotted, Ino
<1>13. r.pc = "unlink_ip" =>
         Head(r.path) \in Name /\ dents'[itable'[r.dp].inum][Head(r.path)] = itable'[r.ip].inum
  <2>1. r.pc = "unlink_ip" => r.dp \in Entry /\ r.ip \in Entry
    BY <1>3, <1>4 DEF Shape, HasIp, HasDp, Stage, Putting
  <2> QED
    BY <1>1, <1>2, <2>1 DEF Relies, Points, Ino
<1>14. r.pc = "create_new" =>
         /\ Head(r.path) \in Name /\ r.ip # r.dp
         /\ dinode'[itable'[r.ip].inum].type = IF r.call.op = "mkdir" THEN "dir" ELSE "file"
         /\ dents'[itable'[r.ip].inum] = NoDents
  <2>1. r.pc = "create_new" => r.ip \in Entry
    BY <1>3, <1>4 DEF Shape, HasIp, HasDp, Stage, Putting
  <2>2. r.pc = "create_new" => Points(c, f, r, r.ip) /\ Alone(r, r.ip)
    BY DEF Points, Alone
  <2> QED
    BY <1>1, <1>2, <2>1, <2>2 DEF Relies, Ino, TypeOf, SameInode
<1>15. \A x \in Entry : Alone(r, x) => dinode'[itable'[x].inum].nlink = 0
  BY <1>1, <1>2, <1>5 DEF Relies, Ino, SameInode
<1>16. r.pc = "ifree" => r.put \notin {c, f, r.cur, r.ip, r.dp}
  BY <1>1 DEF Relies
<1> QED
  BY <1>6, <1>7, <1>8, <1>9, <1>10, <1>11, <1>12, <1>13, <1>14, <1>15, <1>16
     DEF Relies, Ino, TypeOf

LEMMA TreeStep ==
  ASSUME TableInv, TreeInv, NEW p \in Proc, NEW c, NEW f, NEW r, Moves(p, c, f, r), SameIno,
         Touches(p), NewPointers(p, c, f, r), Relies(c, f, r)',
         \A q \in Proc : q # p => Apart(r, cwd[q], fd[q], pr[q]),
         Tidy', Acyclic', Stakes'
  PROVE  TreeInv'
<1>1. /\ cwd'[p] = c /\ fd'[p] = f /\ pr'[p] = r
      /\ \A q \in Proc : q # p => cwd'[q] = cwd[q] /\ fd'[q] = fd[q] /\ pr'[q] = pr[q]
  BY DEF Moves, TableInv, Typed
<1>2. Reliable'
  <2> SUFFICES ASSUME NEW q \in Proc
               PROVE  Relies(cwd[q], fd[q], pr[q])'
    BY DEF Reliable
  <2>1. CASE q = p
    BY <1>1, <2>1 DEF Relies
  <2>2. CASE q # p
    <3>1. PICK d : d = cwd[q]
      OBVIOUS
    <3>2. PICK g : g = fd[q]
      OBVIOUS
    <3>3. PICK s : s = pr[q]
      OBVIOUS
    <3>4. Relies(d, g, s)'
      BY <2>2, <3>1, <3>2, <3>3, OtherRelies
    <3>5. cwd'[q] = d /\ fd'[q] = g /\ pr'[q] = s
      BY <1>1, <2>2, <3>1, <3>2, <3>3
    <3> QED
      BY <3>4, <3>5
  <2> QED
    BY <2>1, <2>2
<1>3. Apartness'
  <2> SUFFICES ASSUME NEW a \in Proc, NEW q \in Proc, a # q, NEW x \in Entry,
                      Alone(pr'[q], x), Points(cwd'[a], fd'[a], pr'[a], x)
               PROVE  FALSE
    BY DEF Apartness, Apart
  <2>1. CASE q = p
    <3>1. Alone(r, x) /\ Points(cwd[a], fd[a], pr[a], x)
      BY <1>1, <2>1
    <3> QED
      BY <2>1, <3>1 DEF Apart
  <2>2. CASE q # p /\ a # p
    <3>1. Alone(pr[q], x) /\ Points(cwd[a], fd[a], pr[a], x)
      BY <1>1, <2>2
    <3> QED
      BY <3>1 DEF TreeInv, Apartness, Apart
  <2>3. CASE q # p /\ a = p
    <3>1. Alone(pr[q], x) /\ Points(c, f, r, x)
      BY <1>1, <2>3
    <3>2. ~Uses(p, x)
      BY <2>3, <3>1 DEF TreeInv, Apartness, Apart, Uses
    <3>3. Uses(q, x)
      BY <3>1 DEF Uses, Points, Alone
    <3>4. itable'[x].inum = Ino(x) /\ dinode[Ino(x)].type # "free"
      BY <2>3, <3>3, OtherUses
    <3>5. dinode[Ino(x)].nlink = 0
      BY <3>1 DEF TreeInv, Reliable, Relies
    <3> QED
      BY <3>1, <3>2, <3>4, <3>5 DEF NewPointers
  <2> QED
    BY <2>1, <2>2, <2>3
<1> QED
  BY <1>2, <1>3 DEF TreeInv

-----------------------------------------------------------------------------
(* Counting links.                                                           *)

LEMMA CardSub ==
  ASSUME NEW S, IsFiniteSet(S), NEW T, T \subseteq S
  PROVE  /\ Cardinality(S) \in Nat /\ Cardinality(T) \in Nat
         /\ Cardinality(T) <= Cardinality(S)
<1>1. IsFiniteSet(T) /\ Cardinality(T) <= Cardinality(S)
  BY FS_Subset
<1> QED
  BY <1>1, FS_CardinalityType

LEMMA CardAdd ==
  ASSUME NEW S, IsFiniteSet(S), NEW T, NEW x, T \subseteq S \cup {x}
  PROVE  /\ Cardinality(S) \in Nat /\ Cardinality(T) \in Nat
         /\ Cardinality(T) <= Cardinality(S) + 1
<1>1. /\ IsFiniteSet(S \cup {x})
      /\ Cardinality(S \cup {x}) = IF x \in S THEN Cardinality(S) ELSE Cardinality(S) + 1
  BY FS_AddElement
<1>2. Cardinality(T) \in Nat /\ Cardinality(T) <= Cardinality(S \cup {x})
  BY <1>1, CardSub
<1>3. Cardinality(S) \in Nat
  BY FS_CardinalityType
<1> QED
  BY <1>1, <1>2, <1>3

LEMMA CardDel ==
  ASSUME NEW S, IsFiniteSet(S), NEW T, NEW x \in S, T \subseteq S \ {x}
  PROVE  /\ Cardinality(S) \in Nat /\ Cardinality(T) \in Nat
         /\ Cardinality(T) <= Cardinality(S) - 1
<1>1. IsFiniteSet(S \ {x}) /\ Cardinality(S \ {x}) = Cardinality(S) - 1
  BY FS_RemoveElement
<1>2. Cardinality(T) \in Nat /\ Cardinality(T) <= Cardinality(S \ {x})
  BY <1>1, CardSub
<1>3. Cardinality(S) \in Nat
  BY FS_CardinalityType
<1> QED
  BY <1>1, <1>2, <1>3

LEMMA ClaimsFinite ==
  ASSUME NEW i
  PROVE  /\ IsFiniteSet(Links(i)) /\ IsFiniteSet(Subs(i)) /\ IsFiniteSet(Users(i))
         /\ Cardinality(Links(i)) \in Nat /\ Cardinality(Subs(i)) \in Nat
         /\ Cardinality(Users(i)) \in Nat
<1>1. IsFiniteSet(Inum \X Name)
  BY FiniteInum, FS_Product, InodeAssumption
<1>2. Links(i) \in SUBSET (Inum \X Name) /\ Subs(i) \in SUBSET Name /\ Users(i) \in SUBSET Proc
  BY DEF Links, Subs, Users
<1>3. IsFiniteSet(Name) /\ IsFiniteSet(Proc)
  BY InodeAssumption
<1>4. PICK X : X = Inum \X Name
  OBVIOUS
<1>5. IsFiniteSet(X) /\ Links(i) \in SUBSET X
  BY <1>1, <1>2, <1>4
<1>6. IsFiniteSet(Links(i)) /\ IsFiniteSet(Subs(i)) /\ IsFiniteSet(Users(i))
  BY <1>2, <1>3, <1>5, FS_Subset
<1> QED
  BY <1>6, FS_CardinalityType

LEMMA ClaimsFinite2 ==
  ASSUME NEW i
  PROVE  /\ IsFiniteSet(Links(i)') /\ IsFiniteSet(Subs(i)') /\ IsFiniteSet(Users(i)')
         /\ Cardinality(Links(i)') \in Nat /\ Cardinality(Subs(i)') \in Nat
         /\ Cardinality(Users(i)') \in Nat
<1>1. IsFiniteSet(Inum \X Name)
  BY FiniteInum, FS_Product, InodeAssumption
<1>2. /\ Links(i)' \in SUBSET (Inum \X Name) /\ Subs(i)' \in SUBSET Name
      /\ Users(i)' \in SUBSET Proc
  BY DEF Links, Subs, Users
<1>3. IsFiniteSet(Name) /\ IsFiniteSet(Proc)
  BY InodeAssumption
<1>4. PICK X : X = Inum \X Name
  OBVIOUS
<1>5. IsFiniteSet(X) /\ Links(i)' \in SUBSET X
  BY <1>1, <1>2, <1>4
<1>6. IsFiniteSet(Links(i)') /\ IsFiniteSet(Subs(i)') /\ IsFiniteSet(Users(i)')
  BY <1>2, <1>3, <1>5, FS_Subset
<1> QED
  BY <1>6, FS_CardinalityType

\* Claims on an inode that change with its link count.
LEMMA ClaimStep ==
  ASSUME Typed, Typed', Stakes, NEW i \in Inum, NEW a \in Int, NEW b \in Int, NEW d \in Int,
         Cardinality(Links(i)') <= Cardinality(Links(i)) + a,
         Cardinality(Subs(i)') <= Cardinality(Subs(i)) + b,
         Cardinality(Users(i)') <= Cardinality(Users(i)) + d,
         dinode'[i].nlink >= dinode[i].nlink + a + b + d
  PROVE  Claims(i)' <= dinode'[i].nlink
<1>1. PICK x \in Nat : x = Cardinality(Links(i))
  BY ClaimsFinite
<1>2. PICK y \in Nat : y = Cardinality(Subs(i))
  BY ClaimsFinite
<1>3. PICK z \in Nat : z = Cardinality(Users(i))
  BY ClaimsFinite
<1>4. PICK u \in Nat : u = Cardinality(Links(i)')
  BY ClaimsFinite2
<1>5. PICK v \in Nat : v = Cardinality(Subs(i)')
  BY ClaimsFinite2
<1>6. PICK w \in Nat : w = Cardinality(Users(i)')
  BY ClaimsFinite2
<1>7. PICK n \in Int : n = dinode[i].nlink
  BY DEF Typed, DiskInodes, InodeRec
<1>8. PICK m \in Int : m = dinode'[i].nlink
  BY DEF Typed, DiskInodes, InodeRec
<1>9. PICK o \in Int : o = IF i = ROOTINO THEN 1 ELSE 0
  OBVIOUS
<1>10. x + y + z + o <= n
  BY <1>1, <1>2, <1>3, <1>7, <1>9, Zenon DEF Stakes, Claims
<1>11. u <= x + a /\ v <= y + b /\ w <= z + d /\ m >= n + a + b + d
  BY <1>1, <1>2, <1>3, <1>4, <1>5, <1>6, <1>7, <1>8, Zenon
<1>12. u + v + w + o <= m
  BY <1>10, <1>11
<1> QED
  BY <1>4, <1>5, <1>6, <1>8, <1>9, <1>12, Zenon DEF Claims

\* Claims on an inode that get no more.
LEMMA ClaimKept ==
  ASSUME Typed, Typed', Stakes, NEW i \in Inum, dinode'[i].nlink = dinode[i].nlink,
         Links(i)' \subseteq Links(i), Subs(i)' \subseteq Subs(i), Users(i)' \subseteq Users(i)
  PROVE  Claims(i)' <= dinode'[i].nlink
<1>1. /\ Cardinality(Links(i)') <= Cardinality(Links(i)) + 0
      /\ Cardinality(Subs(i)') <= Cardinality(Subs(i)) + 0
      /\ Cardinality(Users(i)') <= Cardinality(Users(i)) + 0
  <2>1. /\ Cardinality(Links(i)') <= Cardinality(Links(i))
        /\ Cardinality(Subs(i)') <= Cardinality(Subs(i))
        /\ Cardinality(Users(i)') <= Cardinality(Users(i))
    BY ClaimsFinite, CardSub
  <2>2. \A n \in Nat : n + 0 = n
    OBVIOUS
  <2> QED
    BY <2>1, <2>2, ClaimsFinite
<1>2. dinode'[i].nlink >= dinode[i].nlink + 0 + 0 + 0
  <2>1. dinode[i].nlink \in Int
    BY DEF Typed, DiskInodes, InodeRec
  <2> QED
    BY <2>1
<1> QED
  BY <1>1, <1>2, ClaimStep

\* An inode with a name, the root, and one that a call is about to link have links.
LEMMA HasLinks ==
  ASSUME Typed, Stakes, NEW i \in Inum
  PROVE  /\ dinode[i].nlink \in Nat
         /\ Links(i) # {} => dinode[i].nlink > 0
         /\ Subs(i) # {} => dinode[i].nlink > 0
         /\ Users(i) # {} => dinode[i].nlink > 0
         /\ i = ROOTINO => dinode[i].nlink > 0
<1>1. PICK x \in Nat : x = Cardinality(Links(i))
  BY ClaimsFinite
<1>2. PICK y \in Nat : y = Cardinality(Subs(i))
  BY ClaimsFinite
<1>3. PICK z \in Nat : z = Cardinality(Users(i))
  BY ClaimsFinite
<1>4. PICK n \in Int : n = dinode[i].nlink
  BY DEF Typed, DiskInodes, InodeRec
<1>5. PICK o \in Nat : o = IF i = ROOTINO THEN 1 ELSE 0
  OBVIOUS
<1>6. x + y + z + o <= n
  BY <1>1, <1>2, <1>3, <1>4, <1>5, Zenon DEF Stakes, Claims
<1>7. n \in Nat /\ (x > 0 => n > 0) /\ (y > 0 => n > 0) /\ (z > 0 => n > 0) /\ (o > 0 => n > 0)
  BY <1>6
<1>8. /\ Links(i) # {} => x # 0
      /\ Subs(i) # {} => y # 0
      /\ Users(i) # {} => z # 0
  BY <1>1, <1>2, <1>3, ClaimsFinite, FS_EmptySet
<1> QED
  BY <1>4, <1>5, <1>7, <1>8

-----------------------------------------------------------------------------
(* Steps that leave inodes and directories alone.                            *)

LEMMA KeptIno ==
  ASSUME Kept(itable, itable')
  PROVE  SameIno
  BY DEF Kept, SameIno

\* A process that accounts for a link has the inode.
LEMMA ClaimingIp ==
  ASSUME NEW r \in Process, Shape(r), Claiming(r)
  PROVE  r.ip \in Entry
<1>1. r.ip # None
  BY DEF Shape, Claiming, Linking, HasIp
<1> QED
  BY <1>1 DEF Process

LEMMA UsersStep ==
  ASSUME TableInv, NEW p \in Proc, NEW c, NEW f, NEW r, Moves(p, c, f, r), SameIno, NEW i
  PROVE  /\ \A q \in Proc : q # p => (q \in Users(i)' <=> q \in Users(i))
         /\ p \in Users(i)' <=> Claiming(r) /\ itable'[r.ip].inum = i
         /\ p \in Users(i) <=> Claiming(pr[p]) /\ Ino(pr[p].ip) = i
<1>1. pr'[p] = r /\ \A q \in Proc : q # p => pr'[q] = pr[q]
  BY DEF Moves, TableInv, Typed
<1>2. \A q \in Proc : q # p /\ Claiming(pr[q]) => itable'[pr[q].ip].inum = itable[pr[q].ip].inum
  <2> SUFFICES ASSUME NEW q \in Proc, Claiming(pr[q])
               PROVE  itable'[pr[q].ip].inum = itable[pr[q].ip].inum
    OBVIOUS
  <2>1. pr[q].ip \in Entry
    BY ProcessIs, ClaimingIp
  <2>2. Uses(q, pr[q].ip)
    BY DEF Uses, Points
  <2> QED
    BY <2>1, <2>2, UsedIs DEF SameIno
<1>3. \A q \in Proc : q \in Users(i)' <=> Claiming(pr'[q]) /\ itable'[pr'[q].ip].inum = i
  BY DEF Users, Ino
<1>4. \A q \in Proc : q \in Users(i) <=> Claiming(pr[q]) /\ itable[pr[q].ip].inum = i
  BY DEF Users, Ino
<1> QED
  BY <1>1, <1>2, <1>3, <1>4 DEF Ino

\* The claim of a process stays.
LEMMA UsersSame ==
  ASSUME TableInv, NEW p \in Proc, NEW c, NEW f, NEW r, Moves(p, c, f, r), SameIno, NEW i,
         Claiming(r) <=> Claiming(pr[p]), Claiming(r) => r.ip = pr[p].ip
  PROVE  Users(i)' = Users(i)
<1>1. /\ \A q \in Proc : q # p => (q \in Users(i)' <=> q \in Users(i))
      /\ p \in Users(i)' <=> Claiming(r) /\ itable'[r.ip].inum = i
      /\ p \in Users(i) <=> Claiming(pr[p]) /\ Ino(pr[p].ip) = i
  BY UsersStep
<1>2. Claiming(pr[p]) => itable'[pr[p].ip].inum = Ino(pr[p].ip)
  <2> SUFFICES ASSUME Claiming(pr[p])
               PROVE  itable'[pr[p].ip].inum = Ino(pr[p].ip)
    OBVIOUS
  <2>1. pr[p].ip \in Entry
    BY ProcessIs, ClaimingIp
  <2>2. Uses(p, pr[p].ip)
    BY DEF Uses, Points
  <2> QED
    BY <2>1, <2>2, UsedIs DEF SameIno, Ino
<1>3. Users(i)' \subseteq Proc /\ Users(i) \subseteq Proc
  BY DEF Users
<1>4. \A q \in Proc : q \in Users(i)' <=> q \in Users(i)
  BY <1>1, <1>2
<1> QED
  BY <1>3, <1>4

\* Names and subdirectories stay.
LEMMA NamesSame ==
  ASSUME TableInv, NEW i \in Inum, \A j \in Inum : SameInode(j)
  PROVE  Links(i)' = Links(i) /\ Subs(i)' = Subs(i)
<1>1. Links(i)' = Links(i)
  BY DEF Links, SameInode
<1>2. \A m \in Name : dents[i][m] \in Inum \cup {0}
  BY DEF TableInv, Typed, AllNames
<1>3. Subs(i)' = Subs(i)
  BY <1>2 DEF Subs, SameInode
<1> QED
  BY <1>1, <1>3

\* A new entry names an inode that has no entries itself.
LEMMA AcyclicStep ==
  ASSUME Acyclic,
         \A i \in Inum : \A n \in Name :
           \/ dents'[i][n] = dents[i][n] \/ dents'[i][n] = 0
           \/ \A m \in Name : dents'[dents'[i][n]][m] = 0
  PROVE  Acyclic'
<1> SUFFICES ASSUME NEW S \in SUBSET Inum, S # {}
             PROVE  \E i \in S : \A n \in Name : dents'[i][n] \notin S
  BY DEF Acyclic
<1>1. 0 \notin S
  BY DEF Inum
<1>2. CASE \E i \in S : \A n \in Name : dents'[i][n] = 0
  BY <1>1, <1>2
<1>3. CASE ~\E i \in S : \A n \in Name : dents'[i][n] = 0
  <2>1. PICK i \in S : \A n \in Name : dents[i][n] \notin S
    BY DEF Acyclic
  <2>2. \A n \in Name : dents'[i][n] \notin S
    BY <1>1, <1>3, <2>1
  <2> QED
    BY <2>2
<1> QED
  BY <1>2, <1>3

LEMMA TidySame ==
  ASSUME Tidy, Acyclic, \A i \in Inum : SameInode(i)
  PROVE  Tidy' /\ Acyclic'
<1>1. Tidy'
  BY DEF Tidy, SameInode, Dotted
<1>2. Acyclic'
  BY AcyclicStep DEF SameInode
<1> QED
  BY <1>1, <1>2

LEMMA QuietTree ==
  ASSUME TableInv, TableInv', TreeInv, NEW p \in Proc, NEW c, NEW f, NEW r,
         Moves(p, c, f, r), SameIno, \A i \in Inum : SameInode(i),
         \A k \in 1..Len(r.path) : r.path[k] # "..",
         \A x \in Entry :
           Points(c, f, r, x) => Uses(p, x) \/ dinode[itable'[x].inum].nlink > 0,
         \A x \in Entry :
           x \in {c, r.cur, r.dp} =>
             x \in {cwd[p], pr[p].cur, pr[p].dp} \/ dinode[itable'[x].inum].nlink > 0,
         dinode[itable'[c].inum].type = "dir",
         r.dp # None => dinode[itable'[r.dp].inum].type = "dir",
         r.pc = "found" /\ ByParent(r) => dinode[itable'[r.cur].inum].type = "dir",
         Claiming(r) <=> Claiming(pr[p]), Claiming(r) => r.ip = pr[p].ip,
         Linking(r) => Linking(pr[p]),
         r.pc = "unlink_ip" =>
           Head(r.path) \in Name /\ dents[itable'[r.dp].inum][Head(r.path)] = itable'[r.ip].inum,
         r.pc \notin {"ifree", "create_new"}
  PROVE  TreeInv'
<1>1. Touches(p) /\ NewPointers(p, c, f, r)
  BY DEF Touches, NewPointers
<1>2. Tidy' /\ Acyclic'
  BY TidySame DEF TreeInv
<1>3. Stakes'
  <2> SUFFICES ASSUME NEW i \in Inum PROVE Claims(i)' <= dinode'[i].nlink
    BY DEF Stakes
  <2>1. Links(i)' = Links(i) /\ Subs(i)' = Subs(i) /\ Users(i)' = Users(i)
    BY NamesSame, UsersSame
  <2>2. Typed /\ Typed' /\ Stakes /\ dinode'[i].nlink = dinode[i].nlink
    BY DEF TableInv, TreeInv, SameInode
  <2> QED
    BY <2>1, <2>2, ClaimKept
<1>4. \A x \in Entry : ~Alone(r, x)
  BY DEF Alone
<1>5. \A x \in Entry : itable'[x].inum \in Inum
  BY DEF TableInv, Typed, Table, EntryRec
<1>6. c \in Entry /\ r \in Process /\ Shape(r)
  BY DEF Moves, TableInv, Shapes, Typed
<1>7. /\ r.cur \in Entry \cup {None} /\ r.ip \in Entry \cup {None} /\ r.dp \in Entry \cup {None}
  BY <1>6 DEF Process
<1>8. ASSUME NEW x \in Entry, Uses(p, x)
      PROVE  itable'[x].inum = Ino(x)
  BY <1>8, UsedIs DEF SameIno, Ino
<1>9. Relies(cwd[p], fd[p], pr[p])
  BY DEF TreeInv, Reliable
<1>10. \A x \in Entry : Points(c, f, r, x) => dinode'[itable'[x].inum].type # "free"
  <2> SUFFICES ASSUME NEW x \in Entry, Points(c, f, r, x)
               PROVE  dinode[itable'[x].inum].type # "free"
    BY <1>5 DEF SameInode
  <2>1. CASE Uses(p, x)
    <3>1. dinode[Ino(x)].type # "free"
      BY <1>9, <2>1 DEF Relies, Uses, TypeOf
    <3> QED
      BY <1>8, <2>1, <3>1
  <2>2. CASE dinode[itable'[x].inum].nlink > 0
    BY <1>5, <2>2 DEF TreeInv, Tidy
  <2> QED
    BY <2>1, <2>2
<1>11. \A x \in Entry :
         x \in {c, r.cur, r.dp} /\ TypeOf(x)' = "dir" => Dotted(Ino(x))'
  <2> SUFFICES ASSUME NEW x \in Entry, x \in {c, r.cur, r.dp}, TypeOf(x)' = "dir"
               PROVE  Dotted(Ino(x))'
    OBVIOUS
  <2>1. dinode[itable'[x].inum].type = "dir"
    BY <1>5 DEF SameInode, TypeOf, Ino
  <2>2. CASE x \in {cwd[p], pr[p].cur, pr[p].dp}
    <3>1. Uses(p, x)
      BY <2>2 DEF Uses, Points
    <3>2. itable'[x].inum = Ino(x)
      BY <1>8, <3>1
    <3>3. Dotted(Ino(x))
      BY <1>9, <2>1, <2>2, <3>2 DEF Relies, TypeOf
    <3> QED
      BY <1>5, <3>2, <3>3 DEF Dotted, Ino, SameInode
  <2>3. CASE dinode[itable'[x].inum].nlink > 0
    <3>1. Dotted(itable'[x].inum)
      BY <1>5, <2>1, <2>3 DEF TreeInv, Tidy
    <3> QED
      BY <1>5, <3>1 DEF Dotted, Ino, SameInode
  <2> QED
    BY <2>2, <2>3
<1>12. Linking(r) => TypeOf(r.ip)' = "file"
  <2> SUFFICES ASSUME Linking(r) PROVE TypeOf(r.ip)' = "file"
    OBVIOUS
  <2>1. Claiming(r) /\ r.ip = pr[p].ip /\ r.ip \in Entry
    BY <1>6, ClaimingIp DEF Claiming
  <2>2. Uses(p, r.ip) /\ TypeOf(pr[p].ip) = "file"
    BY <1>9, <2>1 DEF Uses, Points, Relies
  <2> QED
    BY <1>5, <1>8, <2>1, <2>2 DEF TypeOf, Ino, SameInode
<1>13. /\ TypeOf(c)' = "dir"
       /\ r.dp # None => TypeOf(r.dp)' = "dir"
       /\ r.pc = "found" /\ ByParent(r) => TypeOf(r.cur)' = "dir"
  <2>1. r.pc = "found" => r.cur \in Entry
    BY <1>6, <1>7 DEF Shape, Walking, Stage, Putting
  <2> QED
    BY <1>5, <1>6, <1>7, <2>1 DEF TypeOf, Ino, SameInode
<1>14. r.pc = "unlink_ip" =>
         /\ Head(r.path) \in Name
         /\ dents'[itable'[r.dp].inum][Head(r.path)] = itable'[r.ip].inum
  <2>1. r.pc = "unlink_ip" => r.dp \in Entry
    BY <1>6, <1>7 DEF Shape, HasDp, Stage, Putting
  <2> QED
    BY <1>5, <2>1 DEF SameInode
<1>15. Relies(c, f, r)'
  BY <1>4, <1>10, <1>11, <1>12, <1>13, <1>14 DEF Relies, Ino, TypeOf
<1> QED
  BY <1>1, <1>2, <1>3, <1>4, <1>15, TreeStep DEF Apart

\* A process that gets no new pointer.
LEMMA PlainTree ==
  ASSUME TableInv, TableInv', TreeInv, NEW p \in Proc, NEW c, NEW f, NEW r,
         Moves(p, c, f, r), SameIno, \A i \in Inum : SameInode(i),
         \A x \in Entry : Points(c, f, r, x) => Uses(p, x),
         c = cwd[p] \/ (c = pr[p].cur /\ TypeOf(c) = "dir"),
         r.cur \in {None, pr[p].cur}, r.dp \in {None, pr[p].dp},
         r.path = pr[p].path \/ r.path = <<>>,
         r.pc = "found" /\ ByParent(r) => TypeOf(r.cur) = "dir",
         Claiming(r) <=> Claiming(pr[p]), Claiming(r) => r.ip = pr[p].ip,
         Linking(r) => Linking(pr[p]),
         r.pc \notin {"unlink_ip", "ifree", "create_new"}
  PROVE  TreeInv'
<1>1. Relies(cwd[p], fd[p], pr[p])
  BY DEF TreeInv, Reliable
<1>2. \A x \in Entry : Uses(p, x) => itable'[x].inum = Ino(x)
  BY UsedIs DEF SameIno, Ino
<1>3. c \in Entry /\ r \in Process /\ Shape(r)
  BY DEF Moves, TableInv, Shapes, Typed
<1>4. /\ r.cur \in Entry \cup {None} /\ r.dp \in Entry \cup {None}
  BY <1>3 DEF Process
<1>5. \A k \in 1..Len(r.path) : r.path[k] # ".."
  BY <1>1 DEF Relies
<1>6. \A x \in Entry : x \in {c, r.cur, r.dp} => x \in {cwd[p], pr[p].cur, pr[p].dp}
  BY InodeAssumption DEF Entry
<1>7. dinode[itable'[c].inum].type = "dir"
  <2>1. Uses(p, c) /\ TypeOf(c) = "dir"
    BY <1>1 DEF Uses, Points, Relies
  <2> QED
    BY <1>2, <1>3, <2>1 DEF TypeOf
<1>8. r.dp # None => dinode[itable'[r.dp].inum].type = "dir"
  <2> SUFFICES ASSUME r.dp # None PROVE dinode[itable'[r.dp].inum].type = "dir"
    OBVIOUS
  <2>1. r.dp \in Entry /\ r.dp = pr[p].dp /\ Uses(p, r.dp) /\ TypeOf(r.dp) = "dir"
    BY <1>1, <1>4 DEF Relies, Uses, Points
  <2> QED
    BY <1>2, <2>1 DEF TypeOf
<1>9. r.pc = "found" /\ ByParent(r) => dinode[itable'[r.cur].inum].type = "dir"
  <2> SUFFICES ASSUME r.pc = "found", ByParent(r)
               PROVE  dinode[itable'[r.cur].inum].type = "dir"
    OBVIOUS
  <2>1. r.cur \in Entry
    BY <1>3, <1>4 DEF Shape, Walking, Stage, Putting
  <2>2. Points(c, f, r, r.cur)
    BY DEF Points
  <2> QED
    BY <1>2, <2>1, <2>2 DEF TypeOf
<1> QED
  BY <1>5, <1>6, <1>7, <1>8, <1>9, QuietTree

LEMMA DiskSame ==
  ASSUME dinode' = dinode, dents' = dents
  PROVE  \A i \in Inum : SameInode(i)
  BY DEF SameInode

\* The caller drops cur, and fails.
LEMMA PutCurTree ==
  ASSUME TableInv, TableInv', TreeInv, NEW p \in Proc, pr[p].pc \in {"walk", "found"},
         NEW l, l = IF pr[p].second THEN "link_bad" ELSE "idle",
         NEW r, r = PutThen([pr[p] EXCEPT !.cur = None], pr[p].cur, l),
         cwd' = cwd, fd' = fd, pr' = [pr EXCEPT ![p] = r], Kept(itable, itable'),
         \A i \in Inum : SameInode(i)
  PROVE  TreeInv'
<1>1. IF pr[p].second THEN l \in {"link_bad", "link_put"} ELSE l = "idle"
  OBVIOUS
<1>2. /\ r \in Process
      /\ Fields(r, "iput", l, pr[p].call, pr[p].second, pr[p].path,
                None, pr[p].ip, pr[p].dp, pr[p].cur)
  BY <1>1, PutCur
<1>3. PICK c : c = cwd[p]
  OBVIOUS
<1>4. PICK f : f = fd[p]
  OBVIOUS
<1>5. Moves(p, c, f, r) /\ SameIno
  BY <1>2, <1>3, <1>4, RecordMoves, KeptIno
<1>6. \A x \in Entry : Points(c, f, r, x) => Uses(p, x)
  BY <1>2, <1>3, <1>4, InodeAssumption DEF Points, Uses, Fields, Entry
<1>7. /\ r.cur = None /\ r.dp = pr[p].dp /\ r.path = pr[p].path /\ r.pc = "iput"
      /\ r.ip = pr[p].ip
  BY <1>2 DEF Fields
<1>8. /\ Claiming(r) <=> Claiming(pr[p])
      /\ Linking(r) => Linking(pr[p])
  BY <1>2 DEF Fields, Claiming, Linking, Stage, Putting, Walking
<1> QED
  BY <1>3, <1>5, <1>6, <1>7, <1>8, PlainTree

LEMMA WalkFailTree ==
  ASSUME TableInv, TreeInv, NEW p \in Proc, walk_fail(p)
  PROVE  TreeInv'
<1>1. PICK r : r = PutThen([pr[p] EXCEPT !.cur = None], pr[p].cur, FailTo(p))
  OBVIOUS
<1>2. /\ pr[p].pc = "walk" /\ dinode' = dinode /\ dents' = dents /\ cwd' = cwd /\ fd' = fd
      /\ pr' = [pr EXCEPT ![p] = r]
  BY <1>1 DEF walk_fail, At, disk
<1>3. TableInv' /\ Kept(itable, itable') /\ \A i \in Inum : SameInode(i)
  BY <1>2, WalkFailStep, DiskSame
<1>4. PICK l : l = FailTo(p)
  OBVIOUS
<1>5. l = IF pr[p].second THEN "link_bad" ELSE "idle"
  BY <1>4 DEF FailTo
<1> QED
  BY <1>1, <1>2, <1>3, <1>4, <1>5, PutCurTree

\* The end of the path.
LEMMA FoundTree ==
  ASSUME TableInv, TableInv', TreeInv, NEW p \in Proc, pr[p].pc = "walk",
         NEW r, r = [pr[p] EXCEPT !.pc = "found"],
         ByParent(pr[p]) => TypeOf(pr[p].cur) = "dir",
         cwd' = cwd, fd' = fd, pr' = [pr EXCEPT ![p] = r], Kept(itable, itable'),
         \A i \in Inum : SameInode(i)
  PROVE  TreeInv'
<1>1. pr[p] \in Process /\ "found" \in Labels
  BY ProcessIs DEF Labels
<1>2. Fields(r, "found", pr[p].cont, pr[p].call, pr[p].second, pr[p].path,
             pr[p].cur, pr[p].ip, pr[p].dp, pr[p].put)
  BY <1>1, AtLabel
<1>3. PICK c : c = cwd[p]
  OBVIOUS
<1>4. PICK f : f = fd[p]
  OBVIOUS
<1>5. Moves(p, c, f, r) /\ SameIno
  BY <1>2, <1>3, <1>4, RecordMoves, KeptIno DEF Fields
<1>6. \A x \in Entry : Points(c, f, r, x) => Uses(p, x)
  BY <1>2, <1>3, <1>4 DEF Points, Uses, Fields
<1>7. /\ r.cur = pr[p].cur /\ r.dp = pr[p].dp /\ r.path = pr[p].path /\ r.pc = "found"
      /\ r.ip = pr[p].ip /\ (ByParent(r) => TypeOf(r.cur) = "dir")
  BY <1>2 DEF Fields, ByParent
<1>8. /\ Claiming(r) <=> Claiming(pr[p])
      /\ Linking(r) => Linking(pr[p])
  BY <1>2 DEF Fields, Claiming, Linking, Stage, Putting, Walking
<1> QED
  BY <1>3, <1>5, <1>6, <1>7, <1>8, PlainTree

LEMMA CurIsPointed ==
  ASSUME TableInv, NEW p \in Proc, pr[p].pc \in {"walk", "found"}
  PROVE  pr[p].cur \in Entry /\ itable[pr[p].cur].ref > 0 /\ pr[p].put = None
         /\ pr[p].dp = None
<1>1. pr[p].cur # None /\ pr[p].put = None /\ pr[p].dp = None
  BY ProcessIs DEF Shape, Walking, Stage, Putting, HasDp
<1> QED
  BY <1>1, Pointed

LEMMA WalkParentTree ==
  ASSUME TableInv, TreeInv, NEW p \in Proc, walk_parent(p)
  PROVE  TreeInv'
<1>1. PICK r : r = [pr[p] EXCEPT !.pc = "found"]
  OBVIOUS
<1>2. /\ pr[p].pc = "walk" /\ dinode' = dinode /\ dents' = dents /\ cwd' = cwd /\ fd' = fd
      /\ pr' = [pr EXCEPT ![p] = r] /\ Loaded(pr[p].cur).type = "dir"
  BY <1>1 DEF walk_parent, At, disk
<1>3. TableInv' /\ Kept(itable, itable') /\ \A i \in Inum : SameInode(i)
  BY <1>2, WalkParentStep, DiskSame
<1>4. TypeOf(pr[p].cur) = "dir"
  BY <1>2, CurIsPointed, LoadedIs DEF TableInv, TypeOf, Ino
<1> QED
  BY <1>1, <1>2, <1>3, <1>4, FoundTree

LEMMA WalkEndTree ==
  ASSUME TableInv, TreeInv, NEW p \in Proc, walk_end(p)
  PROVE  TreeInv'
<1>1. PICK r : r = IF Parent(p)
                   THEN PutThen([pr[p] EXCEPT !.cur = None], pr[p].cur, FailTo(p))
                   ELSE [pr[p] EXCEPT !.pc = "found"]
  OBVIOUS
<1>2. /\ pr[p].pc = "walk" /\ dinode' = dinode /\ dents' = dents /\ cwd' = cwd /\ fd' = fd
      /\ pr' = [pr EXCEPT ![p] = r]
  BY <1>1 DEF walk_end, At, disk
<1>3. TableInv' /\ Kept(itable, itable') /\ \A i \in Inum : SameInode(i)
  BY <1>2, WalkEndStep, DiskSame
<1>4. CASE Parent(p)
  <2>1. PICK l : l = FailTo(p)
    OBVIOUS
  <2>2. l = IF pr[p].second THEN "link_bad" ELSE "idle"
    BY <2>1 DEF FailTo
  <2>3. r = PutThen([pr[p] EXCEPT !.cur = None], pr[p].cur, l)
    BY <1>1, <1>4, <2>1
  <2> QED
    BY <1>2, <1>3, <2>2, <2>3, PutCurTree
<1>5. CASE ~Parent(p)
  <2>1. r = [pr[p] EXCEPT !.pc = "found"] /\ ~ByParent(pr[p])
    BY <1>1, <1>5 DEF Parent, ByParent
  <2> QED
    BY <1>2, <1>3, <2>1, FoundTree
<1> QED
  BY <1>4, <1>5

\* The caller drops ip, and the link count stays.
LEMMA PutIpTree ==
  ASSUME TableInv, TableInv', TreeInv, NEW p \in Proc,
         pr[p].pc \in {"link_put", "unlink_ip", "create_new", "create_ret", "create_old"},
         NEW l, l = IF pr[p].dp = None THEN "idle" ELSE "unlock_dp",
         NEW r, r = PutThen([pr[p] EXCEPT !.ip = None], pr[p].ip, l),
         cwd' = cwd, fd' = fd, pr' = [pr EXCEPT ![p] = r], Kept(itable, itable'),
         \A i \in Inum : SameInode(i)
  PROVE  TreeInv'
<1>1. /\ r \in Process
      /\ Fields(r, "iput", l, pr[p].call, pr[p].second, pr[p].path,
                None, None, pr[p].dp, pr[p].ip)
  BY PutIp
<1>2. PICK c : c = cwd[p]
  OBVIOUS
<1>3. PICK f : f = fd[p]
  OBVIOUS
<1>4. Moves(p, c, f, r) /\ SameIno
  BY <1>1, <1>2, <1>3, RecordMoves, KeptIno
<1>5. \A x \in Entry : Points(c, f, r, x) => Uses(p, x)
  BY <1>1, <1>2, <1>3, InodeAssumption DEF Points, Uses, Fields, Entry
<1>6. /\ r.cur = None /\ r.dp = pr[p].dp /\ r.path = pr[p].path /\ r.pc = "iput"
  BY <1>1 DEF Fields
<1>7. ~Claiming(r) /\ ~Claiming(pr[p]) /\ ~Linking(r)
  BY <1>1 DEF Fields, Claiming, Linking, Stage, Putting, Walking
<1> QED
  BY <1>2, <1>4, <1>5, <1>6, <1>7, PlainTree

\* The process opens its inode, and the call ends.
LEMMA OpenedTree ==
  ASSUME TableInv, TableInv', TreeInv, NEW p \in Proc, NEW e \in Entry, Uses(p, e),
         ~Claiming(pr[p]), cwd' = cwd, fd' = [fd EXCEPT ![p] = e],
         pr' = [pr EXCEPT ![p] = Idle], Kept(itable, itable'), \A i \in Inum : SameInode(i)
  PROVE  TreeInv'
<1>1. PICK c : c = cwd[p]
  OBVIOUS
<1>2. PICK r : r = Idle
  OBVIOUS
<1>3. Fields(r, "idle", "idle", None, FALSE, <<>>, None, None, None, None)
  BY <1>2, IdleIs
<1>4. Moves(p, c, e, r) /\ SameIno
  <2>1. cwd' = [cwd EXCEPT ![p] = c]
    BY <1>1 DEF TableInv, Typed
  <2> QED
    BY <1>1, <1>2, <1>3, <2>1, ProcessIs, KeptIno DEF Moves, Fields
<1>5. \A x \in Entry : Points(c, e, r, x) => Uses(p, x)
  <2> SUFFICES ASSUME NEW x \in Entry, Points(c, e, r, x) PROVE Uses(p, x)
    OBVIOUS
  <2>1. x = c \/ x = e
    BY <1>3, InodeAssumption DEF Points, Fields, Entry
  <2> QED
    BY <1>1, <2>1 DEF Uses, Points
<1>6. /\ r.cur = None /\ r.dp = None /\ r.path = <<>> /\ r.pc = "idle"
      /\ ~Claiming(r) /\ ~Linking(r)
  BY <1>3 DEF Fields, Claiming, Linking, Stage, Putting, Walking
<1> QED
  BY <1>1, <1>4, <1>5, <1>6, PlainTree

LEMMA LinkPutTree ==
  ASSUME TableInv, TreeInv, NEW p \in Proc, link_put(p)
  PROVE  TreeInv'
<1>1. PICK r : r = PutThen([pr[p] EXCEPT !.ip = None], pr[p].ip, "idle")
  OBVIOUS
<1>2. /\ pr[p].pc = "link_put" /\ dinode' = dinode /\ dents' = dents /\ cwd' = cwd
      /\ fd' = fd /\ pr' = [pr EXCEPT ![p] = r]
  BY <1>1 DEF link_put, At, disk, mem
<1>3. pr[p].dp = None
  BY <1>2, ProcessIs DEF Shape, HasDp, Stage, Putting
<1>4. TableInv' /\ Kept(itable, itable') /\ \A i \in Inum : SameInode(i)
  BY <1>2, LinkPutStep, DiskSame
<1> QED
  BY <1>1, <1>2, <1>3, <1>4, PutIpTree

LEMMA UnlinkBusyTree ==
  ASSUME TableInv, TreeInv, NEW p \in Proc, unlink_busy(p)
  PROVE  TreeInv'
<1>1. PICK r : r = PutThen([pr[p] EXCEPT !.ip = None], pr[p].ip, "unlock_dp")
  OBVIOUS
<1>2. /\ pr[p].pc = "unlink_ip" /\ dinode' = dinode /\ dents' = dents /\ cwd' = cwd
      /\ fd' = fd /\ pr' = [pr EXCEPT ![p] = r]
  BY <1>1 DEF unlink_busy, At, disk
<1>3. pr[p].dp # None
  BY <1>2, ProcessIs DEF Shape, HasDp, Stage, Putting
<1>4. TableInv' /\ Kept(itable, itable') /\ \A i \in Inum : SameInode(i)
  BY <1>2, UnlinkBusyStep, DiskSame
<1> QED
  BY <1>1, <1>2, <1>3, <1>4, PutIpTree

\* A step that changes one inode through its entry.
LEMMA UpdateInode ==
  ASSUME TableInv, NEW e \in Entry, itable[e].ref > 0, Loaded(e).type # "free",
         NEW k \in Int, Update(e, Linked(Loaded(e), k)), dents' = dents
  PROVE  /\ itable[e].inum \in Inum /\ dinode[itable[e].inum].nlink = Loaded(e).nlink
         /\ dinode[itable[e].inum].type = Loaded(e).type
         /\ dinode'[itable[e].inum].type = dinode[itable[e].inum].type
         /\ dinode'[itable[e].inum].nlink = k
         /\ \A i \in Inum : i # itable[e].inum => SameInode(i)
<1>1. PICK o : o = Loaded(e)
  OBVIOUS
<1>2. PICK n : n = Linked(o, k)
  OBVIOUS
<1>3. /\ CopyOf(itable, e, o) /\ o.inum \in Inum /\ o.inum = itable[e].inum
      /\ o.nlink = dinode[o.inum].nlink /\ o.type = dinode[o.inum].type
  BY <1>1, LockedCopy
<1>4. CopyOf(itable, e, n) /\ n.nlink = k /\ n.inum = o.inum /\ n.type = o.type
  BY <1>2, <1>3, LinkedIs
<1>5. Update(e, n) /\ Sound(itable, dinode)
  BY <1>1, <1>2 DEF TableInv
<1>6. /\ dinode'[n.inum].type = n.type /\ dinode'[n.inum].nlink = n.nlink
      /\ \A j \in Inum : j # n.inum => dinode'[j] = dinode[j]
  BY <1>4, <1>5, UpdateDisk
<1> QED
  BY <1>1, <1>3, <1>4, <1>6 DEF SameInode

LEMMA CreateFailTree ==
  ASSUME TableInv, TreeInv, NEW p \in Proc, create_fail(p)
  PROVE  TreeInv'
<1>1. PICK e : e = pr[p].ip
  OBVIOUS
<1>2. PICK r : r = PutThen([pr[p] EXCEPT !.ip = None], pr[p].ip, "unlock_dp")
  OBVIOUS
<1>3. /\ pr[p].pc = "create_new" /\ Loaded(e).type # "free" /\ dents' = dents
      /\ Update(e, Linked(Loaded(e), 0))
      /\ cwd' = cwd /\ fd' = fd /\ pr' = [pr EXCEPT ![p] = r]
  BY <1>1, <1>2 DEF create_fail, At, Locks, Linked
<1>4. pr[p].dp # None /\ pr[p].ip # None
  BY <1>3, ProcessIs DEF Shape, HasDp, HasIp, Stage, Putting
<1>5. e \in Entry /\ itable[e].ref > 0
  BY <1>1, <1>4, Pointed
<1>6. TableInv' /\ Kept(itable, itable')
  BY CreateFailStep
<1>7. Alone(pr[p], e)
  BY <1>1, <1>3 DEF Alone
<1>8. dinode[itable[e].inum].nlink = 0
  BY <1>5, <1>7 DEF TreeInv, Reliable, Relies, Ino
<1>9. \A i \in Inum : SameInode(i)
  <2>1. /\ dinode'[itable[e].inum].type = dinode[itable[e].inum].type
        /\ dinode'[itable[e].inum].nlink = 0
        /\ \A i \in Inum : i # itable[e].inum => SameInode(i)
    BY <1>3, <1>5, UpdateInode
  <2> QED
    BY <1>3, <1>8, <2>1 DEF SameInode
<1> QED
  BY <1>2, <1>3, <1>4, <1>6, <1>9, PutIpTree

LEMMA CreateRetTree ==
  ASSUME TableInv, TreeInv, NEW p \in Proc, create_ret(p)
  PROVE  TreeInv'
<1>1. PICK e : e = pr[p].ip
  OBVIOUS
<1>2. PICK r : r = PutThen([pr[p] EXCEPT !.ip = None], pr[p].ip, "idle")
  OBVIOUS
<1>3. /\ pr[p].pc = "create_ret" /\ dinode' = dinode /\ dents' = dents /\ cwd' = cwd
      /\ \/ fd' = [fd EXCEPT ![p] = e] /\ pr' = [pr EXCEPT ![p] = Idle]
         \/ fd' = fd /\ pr' = [pr EXCEPT ![p] = r]
  BY <1>1, <1>2 DEF create_ret, At, disk
<1>4. pr[p].dp = None /\ pr[p].ip # None
  BY <1>3, ProcessIs DEF Shape, HasDp, HasIp, Stage, Putting
<1>5. e \in Entry /\ Uses(p, e)
  BY <1>1, <1>4, Pointed DEF Uses, Points
<1>6. TableInv' /\ Kept(itable, itable') /\ \A i \in Inum : SameInode(i)
  BY <1>3, CreateRetStep, DiskSame
<1>7. ~Claiming(pr[p])
  BY <1>3 DEF Claiming, Linking, Stage, Putting, Walking
<1>8. CASE fd' = fd /\ pr' = [pr EXCEPT ![p] = r]
  BY <1>2, <1>3, <1>4, <1>6, <1>8, PutIpTree
<1>9. CASE fd' = [fd EXCEPT ![p] = e] /\ pr' = [pr EXCEPT ![p] = Idle]
  BY <1>3, <1>5, <1>6, <1>7, <1>9, OpenedTree
<1> QED
  BY <1>3, <1>8, <1>9

LEMMA CreateOldTree ==
  ASSUME TableInv, TreeInv, NEW p \in Proc, create_old(p)
  PROVE  TreeInv'
<1>1. PICK e : e = pr[p].ip
  OBVIOUS
<1>2. PICK r : r = PutThen([pr[p] EXCEPT !.ip = None], pr[p].ip, "idle")
  OBVIOUS
<1>3. /\ pr[p].pc = "create_old" /\ dinode' = dinode /\ dents' = dents /\ cwd' = cwd
      /\ \/ fd' = [fd EXCEPT ![p] = e] /\ pr' = [pr EXCEPT ![p] = Idle]
         \/ fd' = fd /\ pr' = [pr EXCEPT ![p] = r]
  BY <1>1, <1>2 DEF create_old, At, disk
<1>4. pr[p].dp = None /\ pr[p].ip # None
  BY <1>3, ProcessIs DEF Shape, HasDp, HasIp, Stage, Putting
<1>5. e \in Entry /\ Uses(p, e)
  BY <1>1, <1>4, Pointed DEF Uses, Points
<1>6. TableInv' /\ Kept(itable, itable') /\ \A i \in Inum : SameInode(i)
  BY <1>3, CreateOldStep, DiskSame
<1>7. ~Claiming(pr[p])
  BY <1>3 DEF Claiming, Linking, Stage, Putting, Walking
<1>8. CASE fd' = fd /\ pr' = [pr EXCEPT ![p] = r]
  BY <1>2, <1>3, <1>4, <1>6, <1>8, PutIpTree
<1>9. CASE fd' = [fd EXCEPT ![p] = e] /\ pr' = [pr EXCEPT ![p] = Idle]
  BY <1>3, <1>5, <1>6, <1>7, <1>9, OpenedTree
<1> QED
  BY <1>3, <1>8, <1>9

LEMMA OpenTree ==
  ASSUME TableInv, TreeInv, NEW p \in Proc, open(p)
  PROVE  TreeInv'
<1>1. PICK e : e = pr[p].cur
  OBVIOUS
<1>2. PICK r : r = PutThen([pr[p] EXCEPT !.cur = None], pr[p].cur, "idle")
  OBVIOUS
<1>3. /\ pr[p].pc = "found" /\ Loaded(e).type # "free" /\ pr[p].call.op = "open"
      /\ dents' = dents /\ cwd' = cwd
      /\ \/ /\ fd' = [fd EXCEPT ![p] = e] /\ Update(e, Filled(Loaded(e), {}))
            /\ pr' = [pr EXCEPT ![p] = Idle]
         \/ pr' = [pr EXCEPT ![p] = r] /\ dinode' = dinode /\ fd' = fd
  BY <1>1, <1>2 DEF open, In, At, Locks, itrunc, Filled
<1>4. e \in Entry /\ itable[e].ref > 0 /\ Uses(p, e)
  BY <1>1, <1>3, CurIsPointed DEF Uses, Points
<1>5. ~pr[p].second
  BY <1>3, ProcessIs, SecondLinks DEF Stage, Putting
<1>6. ~Claiming(pr[p])
  BY <1>3, <1>5 DEF Claiming, Linking, Stage, Putting, Walking
<1>7. TableInv' /\ Kept(itable, itable')
  BY OpenStep
<1>8. CASE pr' = [pr EXCEPT ![p] = r] /\ dinode' = dinode /\ fd' = fd
  <2>1. \A i \in Inum : SameInode(i)
    BY <1>3, <1>8, DiskSame
  <2> QED
    BY <1>2, <1>3, <1>5, <1>7, <1>8, <2>1, PutCurTree
<1>9. CASE /\ fd' = [fd EXCEPT ![p] = e] /\ Update(e, Filled(Loaded(e), {}))
           /\ pr' = [pr EXCEPT ![p] = Idle]
  <2>1. PICK o : o = Loaded(e)
    OBVIOUS
  <2>2. PICK n : n = Filled(o, {})
    OBVIOUS
  <2>3. /\ CopyOf(itable, e, o) /\ o.inum \in Inum /\ o.type = dinode[o.inum].type
        /\ o.nlink = dinode[o.inum].nlink
    BY <1>3, <1>4, <2>1, LockedCopy
  <2>4. CopyOf(itable, e, n) /\ n.inum = o.inum /\ n.type = o.type /\ n.nlink = o.nlink
    BY <2>2, <2>3, FilledIs
  <2>5. Update(e, n) /\ Sound(itable, dinode)
    BY <1>9, <2>1, <2>2 DEF TableInv
  <2>6. /\ dinode'[n.inum].type = n.type /\ dinode'[n.inum].nlink = n.nlink
        /\ \A j \in Inum : j # n.inum => dinode'[j] = dinode[j]
    BY <1>4, <2>4, <2>5, UpdateDisk
  <2>7. \A i \in Inum : SameInode(i)
    BY <1>3, <2>3, <2>4, <2>6 DEF SameInode
  <2> QED
    BY <1>3, <1>4, <1>6, <1>7, <1>9, <2>7, OpenedTree
<1> QED
  BY <1>3, <1>8, <1>9

LEMMA WriteTree ==
  ASSUME TableInv, TreeInv, NEW p \in Proc, NEW b \in Block, write(p, b)
  PROVE  TreeInv'
<1>1. PICK e : e = fd[p]
  OBVIOUS
<1>2. PICK o : o = Loaded(e)
  OBVIOUS
<1>3. PICK n : n = Filled(o, o.blk \cup {b})
  OBVIOUS
<1>4. /\ pr[p].pc = "idle" /\ Loaded(e).type # "free" /\ e # None
      /\ dents' = dents /\ cwd' = cwd /\ fd' = fd /\ pr' = pr /\ Update(e, n)
  BY <1>1, <1>2, <1>3 DEF write, At, Locks, balloc, bmap, Filled
<1>5. e \in Entry /\ itable[e].ref > 0
  BY <1>1, <1>4, Pointed
<1>6. /\ CopyOf(itable, e, o) /\ o.inum \in Inum /\ o.type = dinode[o.inum].type
      /\ o.nlink = dinode[o.inum].nlink /\ o.blk \in SUBSET Block
  BY <1>2, <1>4, <1>5, LockedCopy
<1>7. /\ CopyOf(itable, e, n) /\ n.inum = o.inum /\ n.type = o.type /\ n.nlink = o.nlink
  BY <1>3, <1>6, FilledIs
<1>8. Sound(itable, dinode)
  BY DEF TableInv
<1>9. /\ dinode'[n.inum].type = n.type /\ dinode'[n.inum].nlink = n.nlink
      /\ \A j \in Inum : j # n.inum => dinode'[j] = dinode[j]
  BY <1>4, <1>5, <1>7, <1>8, UpdateDisk
<1>10. \A i \in Inum : SameInode(i)
  BY <1>4, <1>6, <1>7, <1>9 DEF SameInode
<1>11. TableInv' /\ SameIno
  BY WriteStep, KeptIno
<1>12. PICK c : c = cwd[p]
  OBVIOUS
<1>13. PICK f : f = fd[p]
  OBVIOUS
<1>14. PICK r : r = pr[p]
  OBVIOUS
<1>15. Moves(p, c, f, r)
  BY <1>4, <1>12, <1>13, <1>14, ProcessIs DEF Moves, TableInv, Typed
<1>16. \A x \in Entry : Points(c, f, r, x) => Uses(p, x)
  BY <1>12, <1>13, <1>14 DEF Uses
<1>17. r.pc = "idle"
  BY <1>4, <1>14
<1> QED
  BY <1>10, <1>11, <1>12, <1>14, <1>15, <1>16, <1>17, PlainTree

LEMMA ChdirTree ==
  ASSUME TableInv, TreeInv, NEW p \in Proc, chdir(p)
  PROVE  TreeInv'
<1>1. PICK e : e = pr[p].cur
  OBVIOUS
<1>2. PICK r : r = PutThen([pr[p] EXCEPT !.cur = None],
                           IF Loaded(e).type = "dir" THEN cwd[p] ELSE e, "idle")
  OBVIOUS
<1>3. /\ pr[p].pc = "found" /\ pr[p].call.op = "chdir"
      /\ dinode' = dinode /\ dents' = dents /\ fd' = fd
      /\ cwd' = IF Loaded(e).type = "dir" THEN [cwd EXCEPT ![p] = e] ELSE cwd
      /\ pr' = [pr EXCEPT ![p] = r]
  BY <1>1, <1>2 DEF chdir, In, At, disk
<1>4. e \in Entry /\ itable[e].ref > 0 /\ Uses(p, e) /\ pr[p].dp = None
  BY <1>1, <1>3, CurIsPointed DEF Uses, Points
<1>5. ~pr[p].second
  BY <1>3, ProcessIs, SecondLinks DEF Stage, Putting
<1>6. ~Claiming(pr[p])
  BY <1>3, <1>5 DEF Claiming, Linking, Stage, Putting, Walking
<1>7. TableInv' /\ Kept(itable, itable') /\ \A i \in Inum : SameInode(i)
  BY <1>3, ChdirStep, DiskSame
<1>8. CASE Loaded(e).type # "dir"
  <2>1. r = PutThen([pr[p] EXCEPT !.cur = None], pr[p].cur, "idle") /\ cwd' = cwd
    BY <1>1, <1>2, <1>3, <1>8
  <2> QED
    BY <1>3, <1>5, <1>7, <2>1, PutCurTree
<1>9. CASE Loaded(e).type = "dir"
  <2>1. PICK d : d = cwd[p]
    OBVIOUS
  <2>2. d \in Entry /\ "idle" \in Labels /\ pr[p] \in Process
    BY <2>1, ProcessIs DEF Labels
  <2>3. r = PutThen([pr[p] EXCEPT !.cur = None], d, "idle")
    BY <1>2, <1>9, <2>1
  <2>4. Fields(r, "iput", "idle", pr[p].call, pr[p].second, pr[p].path,
               None, pr[p].ip, pr[p].dp, d)
    BY <2>2, <2>3, PutCurIs
  <2>5. PICK f : f = fd[p]
    OBVIOUS
  <2>6. Moves(p, e, f, r) /\ SameIno
    <3>1. fd' = [fd EXCEPT ![p] = f] /\ f \in Entry \cup {None}
      BY <1>3, <2>5 DEF TableInv, Typed
    <3>2. r \in Process /\ cwd' = [cwd EXCEPT ![p] = e]
      BY <1>3, <1>9, <2>4 DEF Fields
    <3> QED
      BY <1>3, <1>4, <1>7, <3>1, <3>2, KeptIno DEF Moves
  <2>7. \A x \in Entry : Points(e, f, r, x) => Uses(p, x)
    BY <1>1, <2>1, <2>4, <2>5, InodeAssumption DEF Points, Uses, Fields, Entry
  <2>8. TypeOf(e) = "dir" /\ e = pr[p].cur
    BY <1>1, <1>4, <1>9, LoadedIs DEF TableInv, TypeOf, Ino
  <2>9. /\ r.cur = None /\ r.dp = pr[p].dp /\ r.path = pr[p].path /\ r.pc = "iput"
        /\ ~Claiming(r) /\ ~Linking(r)
    BY <2>4 DEF Fields, Claiming, Linking, Stage, Putting, Walking
  <2> QED
    BY <1>6, <1>7, <2>6, <2>7, <2>8, <2>9, PlainTree
<1> QED
  BY <1>8, <1>9

LEMMA CloseTree ==
  ASSUME TableInv, TreeInv, NEW p \in Proc, close(p)
  PROVE  TreeInv'
<1>1. PICK d : d = fd[p]
  OBVIOUS
<1>2. PICK r : r = PutThen(pr[p], d, "idle")
  OBVIOUS
<1>3. /\ pr[p].pc = "idle" /\ d # None /\ dinode' = dinode /\ dents' = dents /\ cwd' = cwd
      /\ fd' = [fd EXCEPT ![p] = None] /\ pr' = [pr EXCEPT ![p] = r]
  BY <1>1, <1>2 DEF close, At, disk
<1>4. TableInv' /\ SameIno /\ \A i \in Inum : SameInode(i)
  BY <1>3, CloseStep, DiskSame, KeptIno
<1>5. d \in Entry /\ "idle" \in Labels /\ pr[p] \in Process
  BY <1>1, <1>3, ProcessIs DEF Labels
<1>6. Fields(r, "iput", "idle", pr[p].call, pr[p].second, pr[p].path,
             pr[p].cur, pr[p].ip, pr[p].dp, d)
  BY <1>2, <1>5, PutIs
<1>7. PICK c : c = cwd[p]
  OBVIOUS
<1>8. Moves(p, c, None, r)
  <2>1. cwd' = [cwd EXCEPT ![p] = c] /\ c \in Entry
    BY <1>3, <1>7 DEF TableInv, Typed
  <2> QED
    BY <1>3, <1>6, <2>1 DEF Moves, Fields
<1>9. \A x \in Entry : Points(c, None, r, x) => Uses(p, x)
  BY <1>1, <1>6, <1>7, InodeAssumption DEF Points, Uses, Fields, Entry
<1>10. /\ r.cur = pr[p].cur /\ r.dp = pr[p].dp /\ r.path = pr[p].path /\ r.pc = "iput"
       /\ ~Claiming(r) /\ ~Linking(r)
  BY <1>6 DEF Fields, Claiming, Linking, Stage, Putting, Walking
<1>11. ~Claiming(pr[p])
  BY <1>3 DEF Claiming, Linking, Stage, Putting, Walking
<1> QED
  BY <1>4, <1>7, <1>8, <1>9, <1>10, <1>11, PlainTree

LEMMA UnlockDpTree ==
  ASSUME TableInv, TreeInv, NEW p \in Proc, unlock_dp(p)
  PROVE  TreeInv'
<1>1. PICK r : r = PutThen([pr[p] EXCEPT !.dp = None], pr[p].dp, "idle")
  OBVIOUS
<1>2. /\ pr[p].pc = "unlock_dp" /\ dinode' = dinode /\ dents' = dents /\ cwd' = cwd
      /\ fd' = fd /\ pr' = [pr EXCEPT ![p] = r]
  BY <1>1 DEF unlock_dp, At, disk
<1>3. TableInv' /\ SameIno /\ \A i \in Inum : SameInode(i)
  BY <1>2, UnlockDpStep, DiskSame, KeptIno
<1>4. /\ r \in Process
      /\ Fields(r, "iput", "idle", pr[p].call, pr[p].second, pr[p].path,
                None, pr[p].ip, None, pr[p].dp)
  BY <1>1, <1>2, PutDp
<1>5. PICK c : c = cwd[p]
  OBVIOUS
<1>6. PICK f : f = fd[p]
  OBVIOUS
<1>7. Moves(p, c, f, r)
  BY <1>2, <1>4, <1>5, <1>6, RecordMoves
<1>8. \A x \in Entry : Points(c, f, r, x) => Uses(p, x)
  BY <1>4, <1>5, <1>6, InodeAssumption DEF Points, Uses, Fields, Entry
<1>9. /\ r.cur = None /\ r.dp = None /\ r.path = pr[p].path /\ r.pc = "iput"
      /\ ~Claiming(r) /\ ~Linking(r)
  BY <1>4 DEF Fields, Claiming, Linking, Stage, Putting, Walking
<1>10. ~Claiming(pr[p])
  BY <1>2 DEF Claiming, Linking, Stage, Putting, Walking
<1> QED
  BY <1>3, <1>5, <1>7, <1>8, <1>9, <1>10, PlainTree

\* The iput() is done.
LEMMA DropTree ==
  ASSUME TableInv, TableInv', TreeInv, NEW p \in Proc, pr[p].pc \in {"iput", "iref"},
         pr' = [pr EXCEPT ![p] = AfterPut(pr[p])], dinode' = dinode, dents' = dents,
         cwd' = cwd, fd' = fd, Kept(itable, itable')
  PROVE  TreeInv'
<1>1. PICK r : r = AfterPut(pr[p])
  OBVIOUS
<1>2. r \in Process
  BY <1>1, PutDone
<1>3. PICK c : c = cwd[p]
  OBVIOUS
<1>4. PICK f : f = fd[p]
  OBVIOUS
<1>5. Moves(p, c, f, r) /\ SameIno /\ \A i \in Inum : SameInode(i)
  BY <1>1, <1>2, <1>3, <1>4, RecordMoves, KeptIno, DiskSame
<1>6. pr[p] \in Process /\ Shape(pr[p]) /\ pr[p].cont \in Conts
  BY ProcessIs DEF Shape, Putting
<1>7. CASE pr[p].cont = "idle"
  <2>1. Fields(r, "idle", "idle", None, FALSE, <<>>, None, None, None, None)
    BY <1>1, <1>7, IdleIs DEF AfterPut
  <2>2. \A x \in Entry : Points(c, f, r, x) => Uses(p, x)
    BY <1>3, <1>4, <2>1, InodeAssumption DEF Points, Uses, Fields, Entry
  <2>3. /\ r.cur = None /\ r.dp = None /\ r.path = <<>> /\ r.pc = "idle"
        /\ ~Claiming(r) /\ ~Linking(r)
    BY <2>1 DEF Fields, Claiming, Linking, Stage, Putting, Walking
  <2>4. ~Claiming(pr[p])
    BY <1>7 DEF Claiming, Linking, Stage, Putting, Walking
  <2> QED
    BY <1>3, <1>5, <2>2, <2>3, <2>4, PlainTree
<1>8. CASE pr[p].cont # "idle"
  <2>1. Fields(r, pr[p].cont, pr[p].cont, pr[p].call, pr[p].second, pr[p].path,
               pr[p].cur, pr[p].ip, pr[p].dp, None)
    BY <1>1, <1>6, <1>8, AfterPutIs
  <2>2. \A x \in Entry : Points(c, f, r, x) => Uses(p, x)
    BY <1>3, <1>4, <2>1, InodeAssumption DEF Points, Uses, Fields, Entry
  <2>3. /\ r.cur = pr[p].cur /\ r.dp = pr[p].dp /\ r.path = pr[p].path /\ r.ip = pr[p].ip
        /\ r.pc \notin {"found", "unlink_ip", "ifree", "create_new"}
    BY <1>6, <2>1 DEF Fields, Conts
  <2>4. Stage(r) = Stage(pr[p]) /\ r.second = pr[p].second
    BY <1>6, <2>1 DEF Fields, Conts, Stage, Putting
  <2>5. (Claiming(r) <=> Claiming(pr[p])) /\ (Linking(r) => Linking(pr[p]))
    BY <2>4 DEF Claiming, Linking, Walking
  <2> QED
    BY <1>3, <1>5, <2>2, <2>3, <2>5, PlainTree
<1> QED
  BY <1>7, <1>8

LEMMA IrefTree ==
  ASSUME TableInv, TreeInv, NEW p \in Proc, iref(p)
  PROVE  TreeInv'
<1>1. /\ pr[p].pc = "iref" /\ dinode' = dinode /\ dents' = dents /\ cwd' = cwd /\ fd' = fd
      /\ pr' = [pr EXCEPT ![p] = AfterPut(pr[p])]
  BY DEF iref, At, disk
<1>2. TableInv' /\ Kept(itable, itable')
  BY IrefStep
<1> QED
  BY <1>1, <1>2, DropTree

-----------------------------------------------------------------------------
(* Steps that change inodes and directories.                                 *)

\* What p relies on, when it gets no new pointer.
LEMMA SelfRelies ==
  ASSUME TableInv, TreeInv, NEW p \in Proc, NEW c, c = cwd[p], NEW f, NEW r \in Process, SameIno,
         \A x \in Entry :
           Points(c, f, r, x) => Uses(p, x) /\ dinode'[Ino(x)].type = dinode[Ino(x)].type,
         \A x \in Entry : x \in {c, r.cur, r.dp} => dents'[Ino(x)]["."] = dents[Ino(x)]["."],
         r.cur \in {None, pr[p].cur}, r.dp \in {None, pr[p].dp}, r.path = pr[p].path,
         r.pc \notin {"found", "unlink_ip", "create_new"},
         Linking(r) => r.ip \in Entry /\ TypeOf(r.ip) = "file",
         r.pc = "ifree" =>
           r.put \notin {c, f, r.cur, r.ip, r.dp} /\ dinode'[Ino(r.put)].nlink = 0
  PROVE  Relies(c, f, r)'
<1>1. Relies(cwd[p], fd[p], pr[p])
  BY DEF TreeInv, Reliable
<1>2. \A x \in Entry : Points(c, f, r, x) =>
        itable'[x].inum = itable[x].inum
        /\ dinode'[itable[x].inum].type = dinode[itable[x].inum].type
  BY UsedIs DEF SameIno, Ino
<1>3. c \in Entry /\ r.cur \in Entry \cup {None} /\ r.dp \in Entry \cup {None}
      /\ r.put \in Entry \cup {None}
  BY ProcessIs DEF Process
<1>4. \A k \in 1..Len(r.path) : r.path[k] # ".."
  BY <1>1 DEF Relies
<1>5. \A x \in Entry : Points(c, f, r, x) => TypeOf(x)' # "free"
  <2>1. \A x \in Entry : Points(c, f, r, x) => TypeOf(x) # "free"
    BY <1>1 DEF Relies, Uses
  <2> QED
    BY <1>2, <2>1 DEF TypeOf, Ino
<1>6. TypeOf(c)' = "dir"
  <2>1. TypeOf(c) = "dir" /\ Points(c, f, r, c)
    BY <1>1 DEF Relies, Points
  <2> QED
    BY <1>2, <1>3, <2>1 DEF TypeOf, Ino
<1>7. r.dp # None => TypeOf(r.dp)' = "dir"
  <2>1. r.dp # None => TypeOf(r.dp) = "dir" /\ Points(c, f, r, r.dp) /\ r.dp \in Entry
    BY <1>1, <1>3 DEF Relies, Points
  <2> QED
    BY <1>2, <2>1 DEF TypeOf, Ino
<1>8. Linking(r) => TypeOf(r.ip)' = "file"
  <2>1. Points(c, f, r, r.ip)
    BY DEF Points
  <2> QED
    BY <1>2, <2>1 DEF TypeOf, Ino
<1>9. \A x \in Entry : x \in {c, r.cur, r.dp} /\ TypeOf(x)' = "dir" => Dotted(Ino(x))'
  <2> SUFFICES ASSUME NEW x \in Entry, x \in {c, r.cur, r.dp}, TypeOf(x)' = "dir"
               PROVE  Dotted(Ino(x))'
    OBVIOUS
  <2>1. Points(c, f, r, x) /\ x \in {cwd[p], pr[p].cur, pr[p].dp}
    BY InodeAssumption DEF Points, Entry
  <2>2. TypeOf(x) = "dir"
    BY <1>2, <2>1 DEF TypeOf, Ino
  <2>3. Dotted(Ino(x))
    BY <1>1, <2>1, <2>2 DEF Relies
  <2> QED
    BY <1>2, <2>1, <2>3 DEF Dotted, Ino
<1>10. \A x \in Entry : Alone(r, x) => dinode'[itable'[x].inum].nlink = 0
  <2>1. \A x \in Entry : Alone(r, x) => x = r.put /\ r.pc = "ifree" /\ Points(c, f, r, x)
    BY DEF Alone, Points
  <2> QED
    BY <1>2, <2>1 DEF Ino
<1> QED
  BY <1>4, <1>5, <1>6, <1>7, <1>8, <1>9, <1>10 DEF Relies, Ino, TypeOf

\* Stakes, when nobody gets a new claim.
LEMMA StakesKept ==
  ASSUME TableInv, TableInv', TreeInv, NEW p \in Proc, NEW c, NEW f, NEW r, Moves(p, c, f, r),
         SameIno, Claiming(r) <=> Claiming(pr[p]), Claiming(r) => r.ip = pr[p].ip,
         \A i \in Inum : /\ dinode'[i].nlink = dinode[i].nlink
                         /\ Links(i)' \subseteq Links(i) /\ Subs(i)' \subseteq Subs(i)
  PROVE  Stakes'
<1> SUFFICES ASSUME NEW i \in Inum PROVE Claims(i)' <= dinode'[i].nlink
  BY DEF Stakes
<1>1. Users(i)' = Users(i)
  BY UsersSame
<1>2. Typed /\ Typed' /\ Stakes
  BY DEF TableInv, TreeInv
<1> QED
  BY <1>1, <1>2, ClaimKept

LEMMA IputTree ==
  ASSUME TableInv, TreeInv, NEW p \in Proc, iput(p)
  PROVE  TreeInv'
<1>1. PICK e : e = pr[p].put
  OBVIOUS
<1>2. PICK r : r = [pr[p] EXCEPT !.pc = "ifree"]
  OBVIOUS
<1>3. /\ pr[p].pc = "iput" /\ dinode' = dinode /\ dents' = dents /\ cwd' = cwd /\ fd' = fd
      /\ \/ /\ itable[e].ref = 1 /\ itable[e].valid /\ itable[e].nlink = 0
            /\ pr' = [pr EXCEPT ![p] = r]
         \/ pr' = [pr EXCEPT ![p] = AfterPut(pr[p])]
  BY <1>1, <1>2 DEF iput, At, disk
<1>4. TableInv' /\ Kept(itable, itable')
  BY IputStep
<1>5. CASE pr' = [pr EXCEPT ![p] = AfterPut(pr[p])]
  BY <1>3, <1>4, <1>5, DropTree
<1>6. CASE /\ itable[e].ref = 1 /\ itable[e].valid /\ itable[e].nlink = 0
           /\ pr' = [pr EXCEPT ![p] = r]
  <2>1. pr[p] \in Process /\ Shape(pr[p]) /\ "ifree" \in Labels
    BY ProcessIs DEF Labels
  <2>2. e \in Entry
    BY <1>1, <1>3, <2>1, Pointed DEF Shape, Putting
  <2>3. Fields(r, "ifree", pr[p].cont, pr[p].call, pr[p].second, pr[p].path,
               pr[p].cur, pr[p].ip, pr[p].dp, e)
    BY <1>1, <1>2, <2>1, AtLabel
  <2>4. /\ e \notin {cwd[p], fd[p], pr[p].cur, pr[p].ip, pr[p].dp}
        /\ \A q \in Proc : q # p => ~Uses(q, e)
    BY <1>1, <1>6, <2>2, OnlyPointer DEF Uses, Points
  <2>5. PICK c : c = cwd[p]
    OBVIOUS
  <2>6. PICK f : f = fd[p]
    OBVIOUS
  <2>7. Moves(p, c, f, r) /\ SameIno /\ \A i \in Inum : SameInode(i)
    BY <1>3, <1>4, <1>6, <2>3, <2>5, <2>6, RecordMoves, KeptIno, DiskSame DEF Fields
  <2>8. \A x \in Entry : Points(c, f, r, x) => Uses(p, x)
    BY <1>1, <1>3, <2>3, <2>5, <2>6 DEF Points, Uses, Fields
  <2>9. dinode[Ino(e)].nlink = 0
    BY <1>6, <2>2 DEF TableInv, Sound, Ino
  <2>10. /\ r.cur = pr[p].cur /\ r.dp = pr[p].dp /\ r.path = pr[p].path /\ r.ip = pr[p].ip
         /\ r.pc = "ifree" /\ r.put = e /\ r \in Process /\ Stage(r) = Stage(pr[p])
         /\ r.second = pr[p].second
    BY <1>3, <2>3 DEF Fields, Stage, Putting
  <2>11. (Claiming(r) <=> Claiming(pr[p])) /\ (Linking(r) <=> Linking(pr[p]))
    BY <2>10 DEF Claiming, Linking, Walking
  <2>12. Linking(r) => r.ip \in Entry /\ TypeOf(r.ip) = "file"
    <3>1. Linking(pr[p]) => pr[p].ip \in Entry
      BY <2>1, ClaimingIp DEF Claiming
    <3> QED
      BY <2>10, <2>11, <3>1 DEF TreeInv, Reliable, Relies
  <2>13. Relies(c, f, r)'
    <3>1. e \notin {c, f, r.cur, r.ip, r.dp} /\ dinode'[Ino(e)].nlink = 0
      BY <1>3, <2>4, <2>5, <2>6, <2>9, <2>10
    <3> QED
      BY <1>3, <2>5, <2>7, <2>8, <2>10, <2>12, <3>1, SelfRelies
  <2>14. \A q \in Proc : q # p => Apart(r, cwd[q], fd[q], pr[q])
    BY <2>4, <2>10 DEF Apart, Alone, Uses
  <2>15. Touches(p) /\ NewPointers(p, c, f, r)
    BY <2>7, <2>8 DEF Touches, NewPointers
  <2>16. Tidy' /\ Acyclic'
    BY <2>7, TidySame DEF TreeInv
  <2>17. Stakes'
    <3>1. \A i \in Inum : /\ dinode'[i].nlink = dinode[i].nlink
                          /\ Links(i)' \subseteq Links(i) /\ Subs(i)' \subseteq Subs(i)
      BY <1>3, <2>7, NamesSame
    <3> QED
      BY <1>4, <2>7, <2>10, <2>11, <3>1, StakesKept
  <2> QED
    BY <2>7, <2>13, <2>14, <2>15, <2>16, <2>17, TreeStep
<1> QED
  BY <1>3, <1>5, <1>6

LEMMA IfreeTree ==
  ASSUME TableInv, TreeInv, NEW p \in Proc, ifree(p)
  PROVE  TreeInv'
<1>1. PICK e : e = pr[p].put
  OBVIOUS
<1>2. PICK i : i = itable[e].inum
  OBVIOUS
<1>3. PICK n : n = [dinode[i] EXCEPT !.type = "free", !.nlink = itable[e].nlink, !.blk = {}]
  OBVIOUS
<1>4. PICK r : r = [pr[p] EXCEPT !.pc = "iref"]
  OBVIOUS
<1>5. /\ pr[p].pc = "ifree" /\ cwd' = cwd /\ fd' = fd
      /\ dinode' = With(dinode, i, n) /\ dents' = With(dents, i, NoDents)
      /\ pr' = [pr EXCEPT ![p] = r]
  BY <1>1, <1>2, <1>3, <1>4 DEF ifree, At, With
<1>6. pr[p] \in Process /\ Shape(pr[p]) /\ "iref" \in Labels
  BY ProcessIs DEF Labels
<1>7. e \in Entry
  BY <1>1, <1>5, <1>6, Pointed DEF Shape, Putting
<1>8. Holds(pr[p], e) /\ Uses(p, e) /\ Alone(pr[p], e)
  BY <1>1, <1>5 DEF Holds, Uses, Points, Alone
<1>9. itable[e].ref > 0 /\ itable[e].valid
  BY <1>7, <1>8, HeldLoaded
<1>10. /\ i \in Inum /\ itable[e].nlink = dinode[i].nlink /\ dinode[i] \in InodeRec
       /\ dinode \in DiskInodes /\ dents \in [Inum -> [AllNames -> Inum \cup {0}]]
  BY <1>2, <1>7, <1>9 DEF TableInv, Sound, Table, EntryRec, DiskInodes, Typed
<1>11. dinode[i].nlink = 0
  BY <1>2, <1>7, <1>8 DEF TreeInv, Reliable, Relies, Ino
<1>12. n.type = "free" /\ n.nlink = 0
  BY <1>3, <1>10, <1>11 DEF InodeRec
<1>13. /\ dinode'[i].type = "free" /\ dinode'[i].nlink = 0 /\ dents'[i] = NoDents
       /\ \A j \in Inum : j # i => dinode'[j] = dinode[j] /\ dents'[j] = dents[j]
  BY <1>5, <1>10, <1>12 DEF With, DiskInodes
<1>14. Fields(r, "iref", pr[p].cont, pr[p].call, pr[p].second, pr[p].path,
              pr[p].cur, pr[p].ip, pr[p].dp, e)
  BY <1>1, <1>4, <1>6, AtLabel
<1>15. PICK c : c = cwd[p]
  OBVIOUS
<1>16. PICK f : f = fd[p]
  OBVIOUS
<1>17. TableInv' /\ SameIno
  BY IfreeStep DEF SameIno
<1>18. Moves(p, c, f, r)
  BY <1>5, <1>14, <1>15, <1>16, RecordMoves DEF Fields
<1>19. e \notin {c, f, r.cur, r.ip, r.dp}
  BY <1>1, <1>5, <1>14, <1>15, <1>16 DEF TreeInv, Reliable, Relies, Fields
<1>20. /\ r.cur = pr[p].cur /\ r.dp = pr[p].dp /\ r.path = pr[p].path /\ r.ip = pr[p].ip
       /\ r.pc = "iref" /\ r.put = e /\ r \in Process /\ Stage(r) = Stage(pr[p])
       /\ r.second = pr[p].second
  BY <1>5, <1>14 DEF Fields, Stage, Putting
<1>21. \A x \in Entry : Points(c, f, r, x) => Uses(p, x) /\ x # e
  BY <1>15, <1>16, <1>19, <1>20 DEF Points, Uses
<1>22. \A x \in Entry : Points(c, f, r, x) => Ino(x) \in Inum /\ Ino(x) # i
  BY <1>2, <1>7, <1>8, <1>21, UsedIs, OneEntry DEF Ino
<1>23. (Claiming(r) <=> Claiming(pr[p])) /\ (Linking(r) <=> Linking(pr[p]))
  BY <1>20 DEF Claiming, Linking, Walking
<1>24. Linking(r) => r.ip \in Entry /\ TypeOf(r.ip) = "file"
  <2>1. Linking(pr[p]) => pr[p].ip \in Entry
    BY <1>6, ClaimingIp DEF Claiming
  <2> QED
    BY <1>20, <1>23, <2>1 DEF TreeInv, Reliable, Relies
<1>25. Relies(c, f, r)'
  <2>1. \A x \in Entry :
          Points(c, f, r, x) => Uses(p, x) /\ dinode'[Ino(x)].type = dinode[Ino(x)].type
    BY <1>13, <1>21, <1>22
  <2>2. \A x \in Entry : x \in {c, r.cur, r.dp} => dents'[Ino(x)]["."] = dents[Ino(x)]["."]
    BY <1>13, <1>22 DEF Points
  <2> QED
    BY <1>15, <1>17, <1>20, <1>24, <2>1, <2>2, SelfRelies
<1>26. \A q \in Proc : q # p => Apart(r, cwd[q], fd[q], pr[q])
  BY <1>20 DEF Apart, Alone
<1>27. Touches(p)
  BY <1>2, <1>7, <1>8, <1>13 DEF Touches, SameInode, Ino
<1>28. NewPointers(p, c, f, r)
  BY <1>21 DEF NewPointers
<1>29. Tidy'
  BY <1>13 DEF TreeInv, Tidy, Dotted
<1>30. \A j \in Inum : \A m \in Name : dents'[j][m] = 0 \/ dents'[j][m] = dents[j][m]
  BY <1>13 DEF NoDents, AllNames
<1>31. Acyclic'
  BY <1>30, AcyclicStep DEF TreeInv
<1>32. Stakes'
  <2>1. ASSUME NEW j \in Inum
        PROVE  /\ dinode'[j].nlink = dinode[j].nlink
               /\ Links(j)' \subseteq Links(j) /\ Subs(j)' \subseteq Subs(j)
    <3>1. dinode'[j].nlink = dinode[j].nlink
      BY <1>11, <1>13
    <3>2. Links(j)' \subseteq Links(j)
      <4>1. j # 0
        BY DEF Inum
      <4> QED
        BY <1>30, <4>1 DEF Links
    <3>3. Subs(j)' \subseteq Subs(j)
      <4>1. \A m \in Name : dents[j][m] \in Inum \cup {0}
        BY <1>10 DEF AllNames
      <4> QED
        BY <1>13, <1>30, <4>1 DEF Subs
    <3> QED
      BY <3>1, <3>2, <3>3
  <2> QED
    BY <1>17, <1>18, <1>20, <1>23, <2>1, StakesKept
<1> QED
  BY <1>17, <1>18, <1>25, <1>26, <1>27, <1>28, <1>29, <1>31, <1>32, TreeStep

-----------------------------------------------------------------------------
(* Steps that get a reference.                                               *)

\* What dirlookup() finds has links, or is the directory itself.
LEMMA LookupIs ==
  ASSUME TableInv, TreeInv, NEW p \in Proc, NEW e \in Entry, e = pr[p].cur, TypeOf(e) = "dir",
         NEW nm \in AllNames, nm # "..", NEW i, i = dents[Ino(e)][nm], i # 0
  PROVE  /\ i \in Inum /\ (nm \in Name => dinode[i].nlink > 0)
         /\ dinode[i].nlink > 0 \/ Slot(i) = e
<1>1. Uses(p, e)
  BY DEF Uses, Points
<1>2. itable[e].ref > 0 /\ Ino(e) \in Inum
  BY <1>1, UsedIs
<1>3. i \in Inum
  BY <1>2 DEF TableInv, Typed
<1>4. CASE nm \in Name
  <2>1. <<Ino(e), nm>> \in Links(i)
    BY <1>2, <1>4 DEF Links
  <2>2. Typed /\ Stakes
    BY DEF TableInv, TreeInv
  <2> QED
    BY <1>3, <2>1, <2>2, HasLinks
<1>5. CASE nm = "."
  <2>1. i = Ino(e)
    BY <1>5 DEF TreeInv, Reliable, Relies, Dotted
  <2>2. Sound(itable, dinode)
    BY DEF TableInv
  <2>3. Slot(i) \in Entry /\ itable[Slot(i)].ref > 0 /\ itable[Slot(i)].inum = i
    <3>1. /\ Slot(i) \in Entry /\ (itable[Slot(i)].ref > 0 => itable[Slot(i)].inum = i)
          /\ itable[Slot(i)].ref # 0
      BY <1>2, <1>3, <2>1, <2>2, SlotIs DEF Ino
    <3>2. itable[Slot(i)].ref \in Nat
      BY <2>2, <3>1 DEF Sound, Table, EntryRec
    <3> QED
      BY <3>1, <3>2
  <2>4. Slot(i) = e
    BY <1>2, <2>1, <2>3, OneEntry DEF Ino
  <2>5. nm \notin Name
    BY <1>5, InodeAssumption
  <2> QED
    BY <1>3, <2>4, <2>5
<1> QED
  BY <1>4, <1>5 DEF AllNames

\* The process gets a pointer s to an inode that has links.
LEMMA GetTree ==
  ASSUME TableInv, TableInv', TreeInv, NEW p \in Proc, NEW r \in Process, NEW s \in Entry,
         cwd' = cwd, fd' = fd, pr' = [pr EXCEPT ![p] = r], Kept(itable, itable'),
         dinode' = dinode, dents' = dents,
         \A k \in 1..Len(r.path) : r.path[k] # "..",
         \A x \in Entry : Points(cwd[p], fd[p], r, x) => Uses(p, x) \/ x = s,
         s \in {cwd[p], pr[p].cur} \/ dinode[itable'[s].inum].nlink > 0,
         r.cur \in {None, s}, r.dp \in {None, pr[p].cur},
         r.dp # None => TypeOf(r.dp) = "dir",
         Claiming(r) <=> Claiming(pr[p]), Claiming(r) => r.ip = pr[p].ip,
         Linking(r) => Linking(pr[p]),
         r.pc = "unlink_ip" =>
           Head(r.path) \in Name /\ dents[Ino(r.dp)][Head(r.path)] = itable'[r.ip].inum,
         r.pc \notin {"found", "ifree", "create_new"}
  PROVE  TreeInv'
<1>1. PICK c : c = cwd[p]
  OBVIOUS
<1>2. PICK f : f = fd[p]
  OBVIOUS
<1>3. Moves(p, c, f, r) /\ SameIno /\ \A i \in Inum : SameInode(i)
  BY <1>1, <1>2, RecordMoves, KeptIno, DiskSame
<1>4. \A x \in Entry :
        Points(c, f, r, x) => Uses(p, x) \/ dinode[itable'[x].inum].nlink > 0
  <2>1. s \in {cwd[p], pr[p].cur} => Uses(p, s)
    BY DEF Uses, Points
  <2> QED
    BY <1>1, <1>2, <2>1
<1>5. \A x \in Entry :
        x \in {c, r.cur, r.dp} =>
          x \in {cwd[p], pr[p].cur, pr[p].dp} \/ dinode[itable'[x].inum].nlink > 0
  BY <1>1, InodeAssumption DEF Entry
<1>6. c \in Entry /\ r.dp \in Entry \cup {None}
  BY <1>1, ProcessIs DEF Process
<1>7. dinode[itable'[c].inum].type = "dir"
  <2>1. Uses(p, c) /\ TypeOf(c) = "dir"
    BY <1>1 DEF Uses, Points, TreeInv, Reliable, Relies
  <2> QED
    BY <1>3, <1>6, <2>1, UsedIs DEF SameIno, TypeOf, Ino
<1>8. r.dp # None => itable'[r.dp].inum = Ino(r.dp) /\ dinode[itable'[r.dp].inum].type = "dir"
  <2>1. r.dp # None => r.dp \in Entry /\ Uses(p, r.dp)
    BY <1>6 DEF Uses, Points
  <2> QED
    BY <1>3, <2>1, UsedIs DEF SameIno, TypeOf, Ino
<1>9. r.pc = "unlink_ip" => r.dp # None
  <2>1. Shape(r)
    BY <1>3 DEF Moves, TableInv, Shapes, Typed
  <2> QED
    BY <2>1 DEF Shape, HasDp, Stage, Putting
<1>10. r.pc = "unlink_ip" =>
         Head(r.path) \in Name /\ dents[itable'[r.dp].inum][Head(r.path)] = itable'[r.ip].inum
  BY <1>8, <1>9
<1> QED
  BY <1>3, <1>4, <1>5, <1>7, <1>8, <1>10, QuietTree

LEMMA NamexTree ==
  ASSUME TableInv, TreeInv, NEW p \in Proc, namex(p)
  PROVE  TreeInv'
<1>1. PICK e : e = pr[p].cur
  OBVIOUS
<1>2. PICK i : i = dirlookup(Loaded(e).inum, Head(pr[p].path))
  OBVIOUS
<1>3. PICK s : s = Slot(i)
  OBVIOUS
<1>4. PICK o : o = [pr[p] EXCEPT !.cur = s, !.path = Tail(pr[p].path)]
  OBVIOUS
<1>5. PICK r : r = PutThen(o, e, "walk")
  OBVIOUS
<1>6. PICK t : t = With(itable, e, Loaded(e))
  OBVIOUS
<1>7. /\ pr[p].pc = "walk" /\ pr[p].path # <<>> /\ Loaded(e).type = "dir" /\ i # 0
      /\ itable' = iget(t, i) /\ dinode' = dinode /\ dents' = dents /\ cwd' = cwd /\ fd' = fd
      /\ pr' = [pr EXCEPT ![p] = r]
  BY <1>1, <1>2, <1>3, <1>4, <1>5, <1>6 DEF namex, At, With, disk
<1>8. TableInv' /\ Kept(itable, itable')
  BY NamexStep
<1>9. pr[p] \in Process /\ Shape(pr[p]) /\ pr[p].path \in Seq(AllNames)
  BY ProcessIs
<1>10. e \in Entry /\ itable[e].ref > 0 /\ pr[p].dp = None
  BY <1>1, <1>7, CurIsPointed
<1>11. Loaded(e).inum = Ino(e) /\ TypeOf(e) = "dir"
  BY <1>7, <1>10, LoadedIs DEF TableInv, Ino, TypeOf
<1>12. \A k \in 1..Len(pr[p].path) : pr[p].path[k] # ".."
  BY DEF TreeInv, Reliable, Relies
<1>13. PICK nm : nm = Head(pr[p].path)
  OBVIOUS
<1>14. nm \in AllNames /\ nm # ".."
  BY <1>7, <1>9, <1>12, <1>13
<1>15. i = dents[Ino(e)][nm]
  BY <1>2, <1>11, <1>13 DEF dirlookup
<1>16. i \in Inum /\ (dinode[i].nlink > 0 \/ s = e)
  BY <1>1, <1>3, <1>7, <1>10, <1>11, <1>14, <1>15, LookupIs
<1>17. itable'[s].inum = i /\ s \in Entry
  <2>1. Sound(itable, dinode) /\ Loaded(e).type # "free"
    BY <1>7 DEF TableInv
  <2> QED
    BY <1>3, <1>6, <1>7, <1>10, <1>16, <2>1, LoadGet
<1>18. Fields(o, pr[p].pc, pr[p].cont, pr[p].call, pr[p].second, Tail(pr[p].path), s,
              pr[p].ip, pr[p].dp, pr[p].put)
  BY <1>4, <1>7, <1>9, <1>17, CurIs
<1>19. Fields(r, "iput", "walk", pr[p].call, pr[p].second, Tail(pr[p].path), s,
              pr[p].ip, pr[p].dp, e)
  <2>1. "walk" \in Labels
    BY DEF Labels
  <2>2. Fields(r, "iput", "walk", o.call, o.second, o.path, o.cur, o.ip, o.dp, e)
    BY <1>5, <1>10, <1>18, <2>1, PutIs DEF Fields
  <2> QED
    BY <1>18, <2>2 DEF Fields
<1>20. \A k \in 1..Len(r.path) : r.path[k] # ".."
  <2>1. r.path = Tail(pr[p].path)
    BY <1>19 DEF Fields
  <2> QED
    BY <1>7, <1>9, <1>12, <2>1
<1>21. \A x \in Entry : Points(cwd[p], fd[p], r, x) => Uses(p, x) \/ x = s
  BY <1>1, <1>19 DEF Points, Uses, Fields
<1>22. /\ r.cur = s /\ r.dp = None /\ r.ip = pr[p].ip /\ r.pc = "iput" /\ r \in Process
       /\ Stage(r) = "walk" /\ Stage(pr[p]) = "walk" /\ r.second = pr[p].second
  BY <1>7, <1>10, <1>19 DEF Fields, Stage, Putting
<1>23. (Claiming(r) <=> Claiming(pr[p])) /\ (Linking(r) => Linking(pr[p]))
  BY <1>22 DEF Claiming, Linking, Walking
<1>24. s \in {cwd[p], pr[p].cur} \/ dinode[itable'[s].inum].nlink > 0
  BY <1>1, <1>16, <1>17
<1> QED
  BY <1>7, <1>8, <1>17, <1>20, <1>21, <1>22, <1>23, <1>24, GetTree

\* The root has links.
LEMMA FirstLinked ==
  ASSUME TableInv, TreeInv, NEW p \in Proc, NEW pa, NEW t, t = FirstRef(p, pa),
         NEW s, s = First(p, pa)
  PROVE  s \in Entry /\ (s = cwd[p] \/ dinode[t[s].inum].nlink > 0)
<1>1. s \in Entry /\ IF pa.abs THEN t[s].inum = ROOTINO ELSE s = cwd[p]
  BY FirstGet
<1>2. ROOTINO \in Inum
  BY InodeAssumption DEF ROOTINO, Inum
<1>3. dinode[ROOTINO].nlink > 0
  BY <1>2, HasLinks DEF TableInv, TreeInv
<1> QED
  BY <1>1, <1>3

LEMMA StartTree ==
  ASSUME TableInv, TreeInv, NoDotDot, NEW p \in Proc, NEW c \in Calls, start(p, c)
  PROVE  TreeInv'
<1>1. PICK s : s = First(p, c.path)
  OBVIOUS
<1>2. PICK t : t = FirstRef(p, c.path)
  OBVIOUS
<1>3. PICK q : q = c.path.elems
  OBVIOUS
<1>4. PICK r : r = [Idle EXCEPT !.pc = "walk", !.call = c, !.path = q, !.cur = s]
  OBVIOUS
<1>5. /\ pr[p].pc = "idle" /\ itable' = t /\ dinode' = dinode /\ dents' = dents
      /\ cwd' = cwd /\ fd' = fd /\ pr' = [pr EXCEPT ![p] = r]
  BY <1>1, <1>2, <1>3, <1>4 DEF start, At, disk
<1>6. TableInv' /\ Kept(itable, itable')
  BY StartStep
<1>7. s \in Entry /\ (s = cwd[p] \/ dinode[itable'[s].inum].nlink > 0)
  BY <1>1, <1>2, <1>5, FirstLinked
<1>8. q \in Seq(AllNames) /\ \A k \in 1..Len(q) : q[k] # ".."
  BY <1>3, CallsAssumption DEF PathName, NoDotDot
<1>9. Fields(r, "walk", "idle", c, FALSE, q, s, None, None, None)
  BY <1>4, <1>7, <1>8, StartIs
<1>10. \A x \in Entry : Points(cwd[p], fd[p], r, x) => Uses(p, x) \/ x = s
  BY <1>9, InodeAssumption DEF Points, Uses, Fields, Entry
<1>11. /\ r.cur = s /\ r.dp = None /\ r.pc = "walk" /\ r \in Process /\ r.path = q
       /\ ~Claiming(r) /\ ~Linking(r)
  BY <1>9 DEF Fields, Claiming, Linking, Stage, Putting, Walking
<1>12. ~Claiming(pr[p])
  BY <1>5 DEF Claiming, Linking, Stage, Putting, Walking
<1> QED
  BY <1>5, <1>6, <1>7, <1>8, <1>10, <1>11, <1>12, GetTree

LEMMA LinkNewTree ==
  ASSUME TableInv, TreeInv, NoDotDot, NEW p \in Proc, link_new(p)
  PROVE  TreeInv'
<1>1. PICK s : s = First(p, pr[p].call.new)
  OBVIOUS
<1>2. PICK t : t = FirstRef(p, pr[p].call.new)
  OBVIOUS
<1>3. PICK q : q = pr[p].call.new.elems
  OBVIOUS
<1>4. PICK r : r = Second(pr[p], q, s)
  OBVIOUS
<1>5. /\ pr[p].pc = "link_new" /\ itable' = t /\ dinode' = dinode /\ dents' = dents
      /\ cwd' = cwd /\ fd' = fd /\ pr' = [pr EXCEPT ![p] = r]
  BY <1>1, <1>2, <1>3, <1>4 DEF link_new, At, disk, Second
<1>6. TableInv' /\ Kept(itable, itable')
  BY LinkNewStep
<1>7. s \in Entry /\ (s = cwd[p] \/ dinode[itable'[s].inum].nlink > 0)
  BY <1>1, <1>2, <1>5, FirstLinked
<1>8. pr[p] \in Process /\ Shape(pr[p])
  BY ProcessIs
<1>9. pr[p].call \in Calls /\ pr[p].dp = None
  BY <1>5, <1>8 DEF Shape, Stage, Putting, HasDp
<1>10. q \in Seq(AllNames) /\ \A k \in 1..Len(q) : q[k] # ".."
  BY <1>3, <1>9, CallsAssumption DEF PathName, NoDotDot
<1>11. Fields(r, "walk", pr[p].cont, pr[p].call, TRUE, q, s, pr[p].ip, pr[p].dp, pr[p].put)
  BY <1>4, <1>7, <1>8, <1>10, SecondIs DEF Second
<1>12. \A x \in Entry : Points(cwd[p], fd[p], r, x) => Uses(p, x) \/ x = s
  BY <1>5, <1>11 DEF Points, Uses, Fields
<1>13. /\ r.cur = s /\ r.dp = None /\ r.pc = "walk" /\ r \in Process /\ r.path = q
       /\ r.ip = pr[p].ip /\ Claiming(r) /\ Linking(r)
  BY <1>9, <1>11 DEF Fields, Claiming, Linking, Stage, Putting, Walking
<1>14. Claiming(pr[p]) /\ Linking(pr[p])
  BY <1>5 DEF Claiming, Linking, Stage, Putting, Walking
<1> QED
  BY <1>5, <1>6, <1>7, <1>10, <1>12, <1>13, <1>14, GetTree

LEMMA UnlinkTree ==
  ASSUME TableInv, TreeInv, NEW p \in Proc, unlink(p)
  PROVE  TreeInv'
<1>1. PICK e : e = pr[p].cur
  OBVIOUS
<1>2. PICK nm : nm = Head(pr[p].path)
  OBVIOUS
<1>3. PICK i : i = dirlookup(Loaded(e).inum, nm)
  OBVIOUS
<1>4. PICK s : s = Slot(i)
  OBVIOUS
<1>5. PICK t : t = With(itable, e, Loaded(e))
  OBVIOUS
<1>6. PICK r : r = PutThen([pr[p] EXCEPT !.cur = None], pr[p].cur, "idle")
  OBVIOUS
<1>7. PICK u : u = Both(pr[p], "unlink_ip", e, s)
  OBVIOUS
<1>8. /\ pr[p].pc = "found" /\ pr[p].call.op = "unlink" /\ Loaded(e).type # "free"
      /\ dinode' = dinode /\ dents' = dents /\ cwd' = cwd /\ fd' = fd
      /\ \/ pr' = [pr EXCEPT ![p] = r]
         \/ /\ i # 0 /\ nm \notin {".", ".."} /\ itable' = iget(t, i)
            /\ pr' = [pr EXCEPT ![p] = u]
  BY <1>1, <1>2, <1>3, <1>4, <1>5, <1>6, <1>7 DEF unlink, In, At, Locks, With, disk, Both
<1>9. TableInv' /\ Kept(itable, itable') /\ \A j \in Inum : SameInode(j)
  BY <1>8, UnlinkStep, DiskSame
<1>10. /\ e \in Entry /\ itable[e].ref > 0 /\ ~pr[p].second /\ nm \in AllNames
  BY <1>1, <1>2, <1>8, FoundIs
<1>11. CASE pr' = [pr EXCEPT ![p] = r]
  BY <1>6, <1>8, <1>9, <1>10, <1>11, PutCurTree
<1>12. CASE /\ i # 0 /\ nm \notin {".", ".."} /\ itable' = iget(t, i)
            /\ pr' = [pr EXCEPT ![p] = u]
  <2>1. TypeOf(e) = "dir"
    BY <1>1, <1>8 DEF TreeInv, Reliable, Relies, ByParent
  <2>2. nm \in Name /\ nm # ".."
    BY <1>10, <1>12 DEF AllNames
  <2>3. i = dents[Ino(e)][nm]
    BY <1>3, <1>8, <1>10, LockedCopy DEF dirlookup, Ino
  <2>4. i \in Inum /\ dinode[i].nlink > 0
    BY <1>1, <1>10, <1>12, <2>1, <2>2, <2>3, LookupIs
  <2>5. itable'[s].inum = i /\ s \in Entry
    <3>1. Sound(itable, dinode)
      BY DEF TableInv
    <3> QED
      BY <1>4, <1>5, <1>8, <1>10, <1>12, <2>4, <3>1, LoadGet
  <2>6. Fields(u, "unlink_ip", pr[p].cont, pr[p].call, pr[p].second, pr[p].path, None, s, e,
               None)
    <3>1. pr[p].pc = "found" /\ pr[p].call.op = "unlink" /\ e \in Entry /\ s \in Entry
      BY <1>8, <1>10, <2>5
    <3> QED
      BY <1>1, <1>7, <3>1, LockBoth
  <2>7. \A x \in Entry : Points(cwd[p], fd[p], u, x) => Uses(p, x) \/ x = s
    BY <1>1, <2>6, InodeAssumption DEF Points, Uses, Fields, Entry
  <2>8. /\ u.cur = None /\ u.dp = e /\ u.ip = s /\ u.pc = "unlink_ip" /\ u \in Process
        /\ u.path = pr[p].path /\ ~Claiming(u) /\ ~Linking(u)
    BY <2>6 DEF Fields, Claiming, Linking, Stage, Putting, Walking
  <2>9. ~Claiming(pr[p])
    BY <1>8, <1>10 DEF Claiming, Linking, Stage, Putting, Walking
  <2>10. \A k \in 1..Len(u.path) : u.path[k] # ".."
    BY <2>8 DEF TreeInv, Reliable, Relies
  <2>11. Head(u.path) \in Name /\ dents[Ino(u.dp)][Head(u.path)] = itable'[u.ip].inum
    BY <1>2, <2>2, <2>3, <2>5, <2>8
  <2> QED
    BY <1>1, <1>8, <1>9, <1>12, <2>1, <2>4, <2>5, <2>7, <2>8, <2>9, <2>10, <2>11, GetTree
<1> QED
  BY <1>8, <1>11, <1>12

LEMMA CreateTree ==
  ASSUME TableInv, TreeInv, NEW p \in Proc, create(p)
  PROVE  TreeInv'
<1>1. PICK e : e = pr[p].cur
  OBVIOUS
<1>2. PICK nm : nm = Head(pr[p].path)
  OBVIOUS
<1>3. PICK i : i = dirlookup(Loaded(e).inum, nm)
  OBVIOUS
<1>4. PICK s : s = Slot(i)
  OBVIOUS
<1>5. PICK t : t = With(itable, e, Loaded(e))
  OBVIOUS
<1>6. PICK o : o = [pr[p] EXCEPT !.cur = None]
  OBVIOUS
<1>7. PICK u : u = PutThen([o EXCEPT !.ip = s], e, "create_old")
  OBVIOUS
<1>8. PICK r : r = PutThen([pr[p] EXCEPT !.cur = None], pr[p].cur, "idle")
  OBVIOUS
<1>9. /\ pr[p].pc = "found" /\ pr[p].call.op \in {"create", "mkdir", "unlink"}
      /\ Loaded(e).type # "free"
      /\ dinode' = dinode /\ dents' = dents /\ cwd' = cwd /\ fd' = fd
      /\ \/ /\ i # 0 /\ itable' = iget(t, i) /\ pr' = [pr EXCEPT ![p] = u]
         \/ pr' = [pr EXCEPT ![p] = r]
  BY <1>1, <1>2, <1>3, <1>4, <1>5, <1>6, <1>7, <1>8
     DEF create, Creates, In, At, Locks, With, disk
<1>10. TableInv' /\ Kept(itable, itable') /\ \A j \in Inum : SameInode(j)
  BY <1>9, CreateStep, DiskSame
<1>11. /\ e \in Entry /\ itable[e].ref > 0 /\ ~pr[p].second /\ nm \in AllNames
       /\ pr[p].dp = None /\ pr[p].put = None /\ pr[p].ip = None /\ Len(pr[p].path) = 1
  BY <1>1, <1>2, <1>9, FoundIs
<1>12. CASE pr' = [pr EXCEPT ![p] = r]
  BY <1>8, <1>9, <1>10, <1>11, <1>12, PutCurTree
<1>13. CASE i # 0 /\ itable' = iget(t, i) /\ pr' = [pr EXCEPT ![p] = u]
  <2>1. TypeOf(e) = "dir"
    BY <1>1, <1>9 DEF TreeInv, Reliable, Relies, ByParent
  <2>2. \A k \in 1..Len(pr[p].path) : pr[p].path[k] # ".."
    BY DEF TreeInv, Reliable, Relies
  <2>3. nm # ".."
    BY <1>2, <1>11, <2>2
  <2>4. i = dents[Ino(e)][nm]
    BY <1>3, <1>9, <1>11, LockedCopy DEF dirlookup, Ino
  <2>5. i \in Inum /\ (dinode[i].nlink > 0 \/ s = e)
    BY <1>1, <1>4, <1>11, <1>13, <2>1, <2>3, <2>4, LookupIs
  <2>6. itable'[s].inum = i /\ s \in Entry
    <3>1. Sound(itable, dinode)
      BY DEF TableInv
    <3> QED
      BY <1>4, <1>5, <1>9, <1>11, <1>13, <2>5, <3>1, LoadGet
  <2>7. Fields(o, pr[p].pc, pr[p].cont, pr[p].call, pr[p].second, pr[p].path,
               None, pr[p].ip, pr[p].dp, pr[p].put)
    BY <1>6, ProcessIs, NoCurIs
  <2>8. PICK v : v = [o EXCEPT !.ip = s]
    OBVIOUS
  <2>9. Fields(v, o.pc, o.cont, o.call, o.second, o.path, o.cur, s, o.dp, o.put)
    BY <2>6, <2>7, <2>8, IpIs DEF Fields
  <2>10. Fields(u, "iput", "create_old", v.call, v.second, v.path, v.cur, v.ip, v.dp, e)
    <3>1. "create_old" \in Labels /\ v \in Process
      BY <2>9 DEF Labels, Fields
    <3>2. u = PutThen(v, e, "create_old")
      BY <1>7, <2>8
    <3> QED
      BY <1>11, <3>1, <3>2, PutIs
  <2>11. Fields(u, "iput", "create_old", pr[p].call, pr[p].second, pr[p].path, None, s, None, e)
    BY <1>11, <2>7, <2>9, <2>10 DEF Fields
  <2>12. \A x \in Entry : Points(cwd[p], fd[p], u, x) => Uses(p, x) \/ x = s
    BY <1>1, <2>11, InodeAssumption DEF Points, Uses, Fields, Entry
  <2>13. /\ u.cur = None /\ u.dp = None /\ u.pc = "iput" /\ u \in Process
         /\ u.path = pr[p].path /\ ~Claiming(u) /\ ~Linking(u)
    BY <2>11 DEF Fields, Claiming, Linking, Stage, Putting, Walking
  <2>14. ~Claiming(pr[p])
    BY <1>9, <1>11 DEF Claiming, Linking, Stage, Putting, Walking
  <2>15. s \in {cwd[p], pr[p].cur} \/ dinode[itable'[s].inum].nlink > 0
    BY <1>1, <2>5, <2>6
  <2> QED
    BY <1>9, <1>10, <1>13, <2>2, <2>6, <2>12, <2>13, <2>14, <2>15, GetTree
<1> QED
  BY <1>9, <1>12, <1>13

-----------------------------------------------------------------------------
(* Steps that count links, or change directories.                            *)

LEMMA NamesKept ==
  ASSUME TableInv, dents' = dents, \A j \in Inum : dinode'[j].type = dinode[j].type,
         NEW i \in Inum
  PROVE  Links(i)' = Links(i) /\ Subs(i)' = Subs(i)
<1>1. Links(i)' = Links(i)
  BY DEF Links
<1>2. \A m \in Name : dents[i][m] \in Inum \cup {0}
  BY DEF TableInv, Typed, AllNames
<1>3. Subs(i)' = Subs(i)
  BY <1>2 DEF Subs
<1> QED
  BY <1>1, <1>3

\* A step that changes the link count of one inode, by d.
LEMMA CountTree ==
  ASSUME TableInv, TableInv', TreeInv, NEW p \in Proc, NEW c, c = cwd[p], NEW f, NEW r,
         Moves(p, c, f, r), SameIno, NEW e \in Entry, Uses(p, e), NEW i \in Inum, i = Ino(e),
         dents' = dents, \A j \in Inum : dinode'[j].type = dinode[j].type,
         \A j \in Inum : j # i => dinode'[j].nlink = dinode[j].nlink,
         NEW d \in Int, dinode'[i].nlink = dinode[i].nlink + d,
         Cardinality(Users(i)') <= Cardinality(Users(i)) + d,
         \A j \in Inum : j # i => Users(j)' \subseteq Users(j),
         dinode[i].type = "dir" => dinode[i].nlink > 0,
         \A x \in Entry : Points(c, f, r, x) => Uses(p, x),
         r.cur \in {None, pr[p].cur}, r.dp \in {None, pr[p].dp}, r.path = pr[p].path,
         r.pc \notin {"found", "unlink_ip", "create_new", "ifree"},
         Linking(r) => r.ip \in Entry /\ TypeOf(r.ip) = "file"
  PROVE  TreeInv'
<1>1. itable[e].ref > 0 /\ dinode[i].type # "free"
  BY UsedIs DEF TreeInv, Reliable, Relies, Uses, TypeOf
<1>2. r \in Process
  BY DEF Moves
<1>3. Relies(c, f, r)'
  <2>1. \A x \in Entry :
          Points(c, f, r, x) => Uses(p, x) /\ dinode'[Ino(x)].type = dinode[Ino(x)].type
    BY UsedIs
  <2>2. \A x \in Entry : x \in {c, r.cur, r.dp} => dents'[Ino(x)]["."] = dents[Ino(x)]["."]
    OBVIOUS
  <2> QED
    BY <1>2, <2>1, <2>2, SelfRelies
<1>4. \A q \in Proc : q # p => Apart(r, cwd[q], fd[q], pr[q])
  BY DEF Apart, Alone
<1>5. Touches(p)
  BY DEF Touches, SameInode
<1>6. NewPointers(p, c, f, r)
  BY DEF NewPointers
<1>7. Tidy'
  <2> SUFFICES ASSUME NEW j \in Inum
               PROVE  /\ dinode'[j].type = "free" => dinode'[j].nlink = 0
                      /\ dinode'[j].type # "dir" => dents'[j] = NoDents
                      /\ dinode'[j].type = "dir" /\ dinode'[j].nlink > 0 => dents'[j]["."] = j
    BY DEF Tidy, Dotted
  <2>1. /\ dinode[j].type = "free" => dinode[j].nlink = 0
        /\ dinode[j].type # "dir" => dents[j] = NoDents
        /\ dinode[j].type = "dir" /\ dinode[j].nlink > 0 => dents[j]["."] = j
    BY DEF TreeInv, Tidy, Dotted
  <2>2. CASE j = i
    BY <1>1, <2>1, <2>2
  <2>3. CASE j # i
    BY <2>1, <2>3
  <2> QED
    BY <2>2, <2>3
<1>8. Acyclic'
  BY AcyclicStep DEF TreeInv
<1>9. Stakes'
  <2> SUFFICES ASSUME NEW j \in Inum PROVE Claims(j)' <= dinode'[j].nlink
    BY DEF Stakes
  <2>1. Links(j)' = Links(j) /\ Subs(j)' = Subs(j)
    BY NamesKept
  <2>2. Typed /\ Typed' /\ Stakes
    BY DEF TableInv, TreeInv
  <2>3. CASE j # i
    <3>1. /\ dinode'[j].nlink = dinode[j].nlink /\ Links(j)' \subseteq Links(j)
          /\ Subs(j)' \subseteq Subs(j) /\ Users(j)' \subseteq Users(j)
      BY <2>1, <2>3
    <3> QED
      BY <2>2, <3>1, ClaimKept
  <2>4. CASE j = i
    <3>1. /\ Cardinality(Links(j)') <= Cardinality(Links(j)) + 0
          /\ Cardinality(Subs(j)') <= Cardinality(Subs(j)) + 0
      BY <2>1, ClaimsFinite
    <3>2. Cardinality(Users(j)') <= Cardinality(Users(j)) + d
      BY <2>4
    <3>3. dinode'[j].nlink >= dinode[j].nlink + 0 + 0 + d
      <4>1. dinode[j].nlink \in Int
        BY <2>2 DEF Typed, DiskInodes, InodeRec
      <4> QED
        BY <2>4, <4>1
    <3> QED
      BY <2>2, <3>1, <3>2, <3>3, ClaimStep
  <2> QED
    BY <2>3, <2>4
<1> QED
  BY <1>3, <1>4, <1>5, <1>6, <1>7, <1>8, <1>9, TreeStep

LEMMA LinkTree ==
  ASSUME TableInv, TreeInv, NEW p \in Proc, link(p)
  PROVE  TreeInv'
<1>1. PICK e : e = pr[p].cur
  OBVIOUS
<1>2. PICK r : r = PutThen([pr[p] EXCEPT !.cur = None], pr[p].cur, "idle")
  OBVIOUS
<1>3. PICK s : s = [pr[p] EXCEPT !.pc = "link_new", !.ip = e, !.cur = None]
  OBVIOUS
<1>4. /\ pr[p].pc = "found" /\ Loaded(e).type # "free" /\ ~pr[p].second
      /\ dents' = dents /\ cwd' = cwd /\ fd' = fd
      /\ \/ pr' = [pr EXCEPT ![p] = r] /\ dinode' = dinode
         \/ /\ Loaded(e).type # "dir"
            /\ Update(e, Linked(Loaded(e), Loaded(e).nlink + 1)) /\ pr' = [pr EXCEPT ![p] = s]
  BY <1>1, <1>2, <1>3 DEF link, In, At, Locks, Linked
<1>5. pr[p] \in Process /\ Shape(pr[p])
  BY ProcessIs
<1>6. pr[p].dp = None /\ pr[p].put = None /\ pr[p].ip = None
  BY <1>4, <1>5 DEF Shape, Walking, HasDp, HasIp, Stage, Putting
<1>7. e \in Entry /\ itable[e].ref > 0 /\ Uses(p, e)
  BY <1>1, <1>4, CurIsPointed DEF Uses, Points
<1>8. TableInv' /\ Kept(itable, itable')
  BY LinkStep
<1>9. CASE pr' = [pr EXCEPT ![p] = r] /\ dinode' = dinode
  <2>1. \A i \in Inum : SameInode(i)
    BY <1>4, <1>9, DiskSame
  <2> QED
    BY <1>2, <1>4, <1>8, <1>9, <2>1, PutCurTree
<1>10. CASE /\ Loaded(e).type # "dir"
            /\ Update(e, Linked(Loaded(e), Loaded(e).nlink + 1)) /\ pr' = [pr EXCEPT ![p] = s]
  <2>1. Fields(s, "link_new", pr[p].cont, pr[p].call, pr[p].second, pr[p].path,
               None, e, pr[p].dp, pr[p].put)
    BY <1>3, <1>5, <1>7, LinkIs
  <2>2. PICK k \in Int : k = Loaded(e).nlink + 1
    BY <1>4, <1>7, LockedCopy
  <2>3. /\ Ino(e) \in Inum /\ dinode[Ino(e)].nlink = Loaded(e).nlink
        /\ dinode[Ino(e)].type = Loaded(e).type
        /\ dinode'[Ino(e)].type = dinode[Ino(e)].type
        /\ dinode'[Ino(e)].nlink = k
        /\ \A i \in Inum : i # Ino(e) => SameInode(i)
    BY <1>4, <1>7, <1>10, <2>2, UpdateInode DEF Ino
  <2>4. dinode'[Ino(e)].nlink = dinode[Ino(e)].nlink + 1
    BY <2>2, <2>3
  <2>5. TypeOf(e) = "file"
    <3>1. dinode[Ino(e)].type \in Types
      BY <2>3 DEF TableInv, Typed, DiskInodes, InodeRec
    <3> QED
      BY <1>4, <1>10, <2>3, <3>1 DEF TypeOf, Types
  <2>6. PICK c : c = cwd[p]
    OBVIOUS
  <2>7. PICK f : f = fd[p]
    OBVIOUS
  <2>8. Moves(p, c, f, s) /\ SameIno
    BY <1>4, <1>8, <1>10, <2>1, <2>6, <2>7, RecordMoves, KeptIno DEF Fields
  <2>9. /\ s.cur = None /\ s.dp = None /\ s.path = pr[p].path /\ s.pc = "link_new" /\ s.ip = e
        /\ s.put = None
    BY <1>6, <2>1 DEF Fields
  <2>10. \A x \in Entry : Points(c, f, s, x) => Uses(p, x)
    BY <1>1, <2>6, <2>7, <2>9, InodeAssumption DEF Points, Uses, Entry
  <2>11. itable'[e].inum = Ino(e)
    BY <1>7, <2>8 DEF SameIno, Ino
  <2>12. PICK i : i = Ino(e)
    OBVIOUS
  <2>13. i \in Inum /\ \A j \in Inum : j # i => SameInode(j)
    BY <2>3, <2>12
  <2>14. /\ dinode'[i].nlink = dinode[i].nlink + 1
         /\ dinode[i].type # "dir" /\ \A j \in Inum : dinode'[j].type = dinode[j].type
    BY <2>3, <2>4, <2>5, <2>12 DEF TypeOf, SameInode
  <2>15. ~Claiming(pr[p]) /\ Linking(s)
    BY <1>4, <2>9 DEF Claiming, Linking, Stage, Putting, Walking
  <2>16. Users(i)' \subseteq Users(i) \cup {p}
    BY <2>8, UsersStep DEF Users
  <2>17. Cardinality(Users(i)') <= Cardinality(Users(i)) + 1
    BY <2>16, ClaimsFinite, CardAdd
  <2>18. ASSUME NEW j \in Inum, j # i
         PROVE  Users(j)' \subseteq Users(j)
    <3>1. /\ \A q \in Proc : q # p => (q \in Users(j)' <=> q \in Users(j))
          /\ p \in Users(j)' <=> Claiming(s) /\ itable'[s.ip].inum = j
      BY <2>8, UsersStep
    <3>2. p \notin Users(j)'
      BY <2>9, <2>11, <2>12, <2>18, <3>1
    <3> QED
      BY <3>1, <3>2 DEF Users
  <2>19. \A j \in Inum : j # i => dinode'[j].nlink = dinode[j].nlink
    BY <2>13 DEF SameInode
  <2> QED
    BY <1>4, <1>7, <1>8, <2>5, <2>6, <2>8, <2>9, <2>10, <2>12, <2>13, <2>14, <2>17, <2>18,
       <2>19, CountTree
<1> QED
  BY <1>4, <1>9, <1>10

\* The caller takes a link from ip and drops it.
LEMMA UncountTree ==
  ASSUME TableInv, TableInv', TreeInv, NEW p \in Proc, pr[p].pc \in {"link_bad", "unlink_last"},
         NEW e, e = pr[p].ip, NEW r, r = PutThen([pr[p] EXCEPT !.ip = None], pr[p].ip, "idle"),
         Loaded(e).type # "free", Update(e, Linked(Loaded(e), Loaded(e).nlink - 1)),
         dents' = dents, cwd' = cwd, fd' = fd, pr' = [pr EXCEPT ![p] = r], Kept(itable, itable')
  PROVE  TreeInv'
<1>1. pr[p].dp = None
  BY ProcessIs DEF Shape, HasDp, Stage, Putting
<1>2. /\ r \in Process /\ e \in Entry /\ itable[e].ref > 0
      /\ Fields(r, "iput", "idle", pr[p].call, pr[p].second, pr[p].path,
                None, None, pr[p].dp, pr[p].ip)
  BY <1>1, PutIp
<1>3. Uses(p, e)
  BY DEF Uses, Points
<1>4. PICK k \in Int : k = Loaded(e).nlink - 1
  BY <1>2, LockedCopy
<1>5. PICK i : i = Ino(e)
  OBVIOUS
<1>6. /\ i \in Inum /\ dinode[i].nlink = Loaded(e).nlink
      /\ dinode'[i].type = dinode[i].type
      /\ dinode'[i].nlink = k
      /\ \A j \in Inum : j # i => SameInode(j)
  BY <1>2, <1>4, <1>5, UpdateInode DEF Ino
<1>7. PICK d \in Int : d = -1
  OBVIOUS
<1>8. /\ dinode'[i].nlink = dinode[i].nlink + d
      /\ \A j \in Inum : dinode'[j].type = dinode[j].type
      /\ \A j \in Inum : j # i => dinode'[j].nlink = dinode[j].nlink
  <2>1. dinode[i].nlink \in Int
    BY <1>6 DEF TableInv, Typed, DiskInodes, InodeRec
  <2> QED
    BY <1>4, <1>6, <1>7, <2>1 DEF SameInode
<1>9. PICK c : c = cwd[p]
  OBVIOUS
<1>10. PICK f : f = fd[p]
  OBVIOUS
<1>11. Moves(p, c, f, r) /\ SameIno
  BY <1>2, <1>9, <1>10, RecordMoves, KeptIno
<1>12. /\ r.cur = None /\ r.dp = None /\ r.path = pr[p].path /\ r.pc = "iput" /\ ~Linking(r)
       /\ ~Claiming(r)
  BY <1>1, <1>2 DEF Fields, Claiming, Linking, Stage, Putting, Walking
<1>13. \A x \in Entry : Points(c, f, r, x) => Uses(p, x)
  BY <1>2, <1>9, <1>10, InodeAssumption DEF Points, Uses, Fields, Entry
<1>14. Claiming(pr[p])
  BY DEF Claiming, Linking, Stage, Putting
<1>15. p \in Users(i)
  BY <1>5, <1>14 DEF Users
<1>16. \A j \in Inum : Users(j)' \subseteq Users(j) \ {p}
  <2> SUFFICES ASSUME NEW j \in Inum PROVE Users(j)' \subseteq Users(j) \ {p}
    OBVIOUS
  <2>1. /\ \A q \in Proc : q # p => (q \in Users(j)' <=> q \in Users(j))
        /\ p \in Users(j)' <=> Claiming(r) /\ itable'[r.ip].inum = j
    BY <1>11, UsersStep
  <2>2. p \notin Users(j)'
    BY <1>12, <2>1
  <2> QED
    BY <2>1, <2>2 DEF Users
<1>17. Cardinality(Users(i)') <= Cardinality(Users(i)) + d
  <2>1. Users(i)' \subseteq Users(i) \ {p}
    BY <1>6, <1>16
  <2>2. Cardinality(Users(i)') <= Cardinality(Users(i)) - 1
    BY <1>15, <2>1, ClaimsFinite, CardDel
  <2>3. PICK a \in Nat : a = Cardinality(Users(i))
    BY ClaimsFinite
  <2> QED
    BY <1>7, <2>2, <2>3
<1>18. dinode[i].nlink > 0
  BY <1>6, <1>15, HasLinks DEF TableInv, TreeInv
<1>19. \A j \in Inum : j # i => Users(j)' \subseteq Users(j)
  BY <1>16
<1>20. e \in Entry /\ i \in Inum
  BY <1>2, <1>6
<1> QED
  BY <1>3, <1>5, <1>8, <1>9, <1>11, <1>12, <1>13, <1>17, <1>18, <1>19, <1>20, CountTree

LEMMA LinkBadTree ==
  ASSUME TableInv, TreeInv, NEW p \in Proc, link_bad(p)
  PROVE  TreeInv'
<1>1. PICK e : e = pr[p].ip
  OBVIOUS
<1>2. PICK r : r = PutThen([pr[p] EXCEPT !.ip = None], pr[p].ip, "idle")
  OBVIOUS
<1>3. /\ pr[p].pc = "link_bad" /\ Loaded(e).type # "free"
      /\ Update(e, Linked(Loaded(e), Loaded(e).nlink - 1))
      /\ dents' = dents /\ cwd' = cwd /\ fd' = fd /\ pr' = [pr EXCEPT ![p] = r]
  BY <1>1, <1>2 DEF link_bad, At, Locks, Linked
<1>4. TableInv' /\ Kept(itable, itable')
  BY LinkBadStep
<1> QED
  BY <1>1, <1>2, <1>3, <1>4, UncountTree

LEMMA UnlinkLastTree ==
  ASSUME TableInv, TreeInv, NEW p \in Proc, unlink_last(p)
  PROVE  TreeInv'
<1>1. PICK e : e = pr[p].ip
  OBVIOUS
<1>2. PICK r : r = PutThen([pr[p] EXCEPT !.ip = None], pr[p].ip, "idle")
  OBVIOUS
<1>3. /\ pr[p].pc = "unlink_last" /\ Update(e, Linked(itable[e], itable[e].nlink - 1))
      /\ dents' = dents /\ cwd' = cwd /\ fd' = fd /\ pr' = [pr EXCEPT ![p] = r]
  BY <1>1, <1>2 DEF unlink_last, At, Linked
<1>4. TableInv' /\ Kept(itable, itable')
  BY UnlinkLastStep
<1>5. pr[p].ip # None
  BY <1>3, ProcessIs DEF Shape, HasIp, Stage, Putting
<1>6. e \in Entry /\ Holds(pr[p], e)
  BY <1>1, <1>3, <1>5, Pointed DEF Holds, Stage, Putting
<1>7. Loaded(e) = itable[e] /\ Loaded(e).type # "free"
  BY <1>6, HeldLoaded
<1>8. Update(e, Linked(Loaded(e), Loaded(e).nlink - 1))
  BY <1>3, <1>7
<1> QED
  BY <1>1, <1>2, <1>3, <1>4, <1>7, <1>8, UncountTree

\* The directories after one entry changed.
EntryIs(d, nm, v) ==
  /\ dents'[d][nm] = v
  /\ \A m \in AllNames : m # nm => dents'[d][m] = dents[d][m]
  /\ \A j \in Inum : j # d => dents'[j] = dents[j]

LEMMA DirlinkIs ==
  ASSUME TableInv, NEW d \in Inum, NEW nm \in AllNames, NEW v, dents' = dirlink(d, nm, v)
  PROVE  EntryIs(d, nm, v)
  BY DEF TableInv, Typed, dirlink, EntryIs

LEMMA LinkDirTree ==
  ASSUME TableInv, TreeInv, NEW p \in Proc, link_dir(p)
  PROVE  TreeInv'
<1>1. PICK e : e = pr[p].cur
  OBVIOUS
<1>2. PICK nm : nm = Head(pr[p].path)
  OBVIOUS
<1>3. PICK y : y = pr[p].ip
  OBVIOUS
<1>4. PICK r : r = PutThen([pr[p] EXCEPT !.cur = None], pr[p].cur, "link_put")
  OBVIOUS
<1>5. PICK u : u = PutThen([pr[p] EXCEPT !.cur = None], pr[p].cur, "link_bad")
  OBVIOUS
<1>6. /\ pr[p].pc = "found" /\ Loaded(e).type # "free" /\ pr[p].second /\ lock[e] = None
      /\ dinode' = dinode /\ cwd' = cwd /\ fd' = fd
      /\ \/ dents' = dents /\ pr' = [pr EXCEPT ![p] = u]
         \/ /\ dirlookup(Loaded(e).inum, nm) = 0 /\ pr' = [pr EXCEPT ![p] = r]
            /\ dents' = dirlink(Loaded(e).inum, nm, itable[y].inum)
  BY <1>1, <1>2, <1>3, <1>4, <1>5 DEF link_dir, At, Locks
<1>7. TableInv' /\ Kept(itable, itable')
  BY LinkDirStep
<1>8. CASE dents' = dents /\ pr' = [pr EXCEPT ![p] = u]
  <2>1. \A i \in Inum : SameInode(i)
    BY <1>6, <1>8, DiskSame
  <2> QED
    BY <1>5, <1>6, <1>7, <1>8, <2>1, PutCurTree
<1>9. CASE /\ dirlookup(Loaded(e).inum, nm) = 0 /\ pr' = [pr EXCEPT ![p] = r]
           /\ dents' = dirlink(Loaded(e).inum, nm, itable[y].inum)
  <2>1. pr[p] \in Process /\ Shape(pr[p]) /\ pr[p].path \in Seq(AllNames)
    BY ProcessIs
  <2>2. /\ e \in Entry /\ itable[e].ref > 0 /\ y \in Entry /\ itable[y].ref > 0
        /\ Len(pr[p].path) = 1
    <3>1. pr[p].ip # None /\ Len(pr[p].path) = 1
      BY <1>6, <2>1 DEF Shape, HasIp, Walking, Stage, Putting, ByParent
    <3> QED
      BY <1>1, <1>3, <1>6, <3>1, CurIsPointed, Pointed
  <2>3. PICK d : d = Ino(e)
    OBVIOUS
  <2>4. PICK i : i = Ino(y)
    OBVIOUS
  <2>5. d \in Inum /\ i \in Inum /\ Loaded(e).inum = d
    BY <2>2, <2>3, <2>4, LoadedIs DEF TableInv, Typed, Table, EntryRec, Ino
  <2>6. nm \in AllNames /\ nm # ".."
    <3>1. \A k \in 1..Len(pr[p].path) : pr[p].path[k] # ".."
      BY DEF TreeInv, Reliable, Relies
    <3> QED
      BY <1>2, <2>1, <2>2, <3>1
  <2>7. Linking(pr[p]) /\ Claiming(pr[p])
    BY <1>6 DEF Claiming, Linking, Walking, Stage, Putting
  <2>8. dinode[d].type = "dir" /\ dinode[i].type = "file" /\ dents[d]["."] = d
    <3>1. TypeOf(e) = "dir"
      BY <1>1, <1>6 DEF TreeInv, Reliable, Relies, ByParent
    <3>2. TypeOf(y) = "file"
      BY <1>3, <2>7 DEF TreeInv, Reliable, Relies
    <3>3. Dotted(Ino(e))
      BY <1>1, <2>2, <3>1 DEF TreeInv, Reliable, Relies
    <3> QED
      BY <2>3, <2>4, <3>1, <3>2, <3>3 DEF TypeOf, Dotted
  <2>9. nm \in Name
    <3>1. dents[d][nm] = 0 /\ d # 0
      BY <1>9, <2>5 DEF dirlookup, Inum
    <3> QED
      BY <2>6, <2>8, <3>1 DEF AllNames
  <2>10. EntryIs(d, nm, i) /\ dents[d][nm] = 0
    <3>1. dents' = dirlink(d, nm, i)
      BY <1>9, <2>4, <2>5 DEF Ino
    <3> QED
      BY <1>9, <2>5, <2>6, <3>1, DirlinkIs DEF dirlookup
  <2>11. /\ r \in Process
         /\ Fields(r, "iput", "link_put", pr[p].call, pr[p].second, pr[p].path,
                   None, pr[p].ip, pr[p].dp, pr[p].cur)
    BY <1>4, <1>6, PutCur
  <2>12. PICK c : c = cwd[p]
    OBVIOUS
  <2>13. PICK f : f = fd[p]
    OBVIOUS
  <2>14. Moves(p, c, f, r) /\ SameIno
    BY <1>6, <1>7, <1>9, <2>11, <2>12, <2>13, RecordMoves, KeptIno
  <2>15. /\ r.cur = None /\ r.dp = pr[p].dp /\ r.path = pr[p].path /\ r.pc = "iput"
         /\ ~Linking(r) /\ ~Claiming(r)
    BY <2>11 DEF Fields, Claiming, Linking, Stage, Putting, Walking
  <2>16. \A x \in Entry : Points(c, f, r, x) => Uses(p, x)
    BY <2>11, <2>12, <2>13, InodeAssumption DEF Points, Uses, Fields, Entry
  <2>17. \A j \in Inum : dents'[j]["."] = dents[j]["."]
    <3>1. nm # "." /\ "." \in AllNames
      BY <2>9, InodeAssumption DEF AllNames
    <3> QED
      BY <2>5, <2>10, <3>1 DEF EntryIs
  <2>18. Relies(c, f, r)'
    <3>1. \A x \in Entry :
            Points(c, f, r, x) => Uses(p, x) /\ dinode'[Ino(x)].type = dinode[Ino(x)].type
      BY <1>6, <2>16
    <3>2. \A x \in Entry : x \in {c, r.cur, r.dp} => dents'[Ino(x)]["."] = dents[Ino(x)]["."]
      <4>1. \A x \in Entry : Ino(x) \in Inum
        BY DEF TableInv, Typed, Table, EntryRec, Ino
      <4> QED
        BY <2>17, <4>1
    <3> QED
      BY <2>11, <2>12, <2>14, <2>15, <3>1, <3>2, SelfRelies
  <2>19. \A q \in Proc : q # p => Apart(r, cwd[q], fd[q], pr[q])
    BY <2>15 DEF Apart, Alone
  <2>20. Touches(p)
    <3>1. Uses(p, e)
      BY <1>1 DEF Uses, Points
    <3>2. \A j \in Inum : j # d => SameInode(j)
      BY <1>6, <2>10 DEF SameInode, EntryIs
    <3> QED
      BY <1>6, <2>2, <2>3, <2>17, <3>1, <3>2 DEF Touches
  <2>21. NewPointers(p, c, f, r)
    BY <2>16 DEF NewPointers
  <2>22. Tidy'
    <3>1. \A j \in Inum : dinode[j].type # "dir" => dents'[j] = dents[j]
      BY <2>8, <2>10 DEF EntryIs
    <3> QED
      BY <1>6, <2>17, <3>1 DEF TreeInv, Tidy, Dotted
  <2>23. dents'[i] = NoDents /\ dents[i] = NoDents /\ i # d
    BY <2>5, <2>8, <2>10 DEF EntryIs, TreeInv, Tidy
  <2>24. \A j \in Inum : \A m \in Name :
           dents'[j][m] = dents[j][m] \/ (j = d /\ m = nm /\ dents'[j][m] = i)
    BY <2>10 DEF EntryIs, AllNames
  <2>25. Acyclic'
    <3>1. \A x \in Name : dents'[i][x] = 0
      BY <2>23 DEF NoDents, AllNames
    <3> QED
      BY <2>24, <3>1, AcyclicStep DEF TreeInv
  <2>26. Stakes'
    <3> SUFFICES ASSUME NEW j \in Inum PROVE Claims(j)' <= dinode'[j].nlink
      BY DEF Stakes
    <3>1. Typed /\ Typed' /\ Stakes /\ dinode'[j].nlink = dinode[j].nlink
      BY <1>6, <1>7 DEF TableInv, TreeInv
    <3>2. Subs(j)' \subseteq Subs(j)
      <4>1. Subs(j)' = {m \in Name : dents'[j][m] # 0 /\ dinode[dents'[j][m]].type = "dir"}
        BY <1>6 DEF Subs
      <4> QED
        BY <2>8, <2>24, <4>1 DEF Subs
    <3>3. /\ \A q \in Proc : q # p => (q \in Users(j)' <=> q \in Users(j))
          /\ p \in Users(j)' <=> Claiming(r) /\ itable'[r.ip].inum = j
          /\ p \in Users(j) <=> Claiming(pr[p]) /\ Ino(pr[p].ip) = j
      BY <2>14, UsersStep
    <3>4. Users(j)' \subseteq Users(j) \ {p}
      BY <2>15, <3>3 DEF Users
    <3>5. CASE j # i
      <4>1. Links(j)' \subseteq Links(j)
        BY <2>24, <3>5 DEF Links
      <4> QED
        BY <3>1, <3>2, <3>4, <4>1, ClaimKept
    <3>6. CASE j = i
      <4>1. p \in Users(j)
        BY <1>3, <2>4, <2>7, <3>3, <3>6
      <4>2. Links(j)' \subseteq Links(j) \cup {<<d, nm>>}
        BY <2>24 DEF Links
      <4>3. /\ Cardinality(Links(j)') <= Cardinality(Links(j)) + 1
            /\ Cardinality(Users(j)') <= Cardinality(Users(j)) - 1
            /\ Cardinality(Subs(j)') <= Cardinality(Subs(j))
        BY <3>2, <3>4, <4>1, <4>2, ClaimsFinite, CardAdd, CardDel, CardSub
      <4>4. /\ Cardinality(Users(j)') <= Cardinality(Users(j)) + (-1)
            /\ Cardinality(Subs(j)') <= Cardinality(Subs(j)) + 0
        <5>1. PICK a \in Nat : a = Cardinality(Users(j))
          BY ClaimsFinite
        <5>2. PICK b \in Nat : b = Cardinality(Subs(j))
          BY ClaimsFinite
        <5> QED
          BY <4>3, <5>1, <5>2
      <4>5. dinode'[j].nlink >= dinode[j].nlink + 1 + 0 + (-1)
        <5>1. dinode[j].nlink \in Int
          BY <3>1 DEF Typed, DiskInodes, InodeRec
        <5> QED
          BY <3>1, <5>1
      <4>6. 1 \in Int /\ 0 \in Int /\ -1 \in Int
        OBVIOUS
      <4> QED
        BY <3>1, <4>3, <4>4, <4>5, <4>6, ClaimStep
    <3> QED
      BY <3>5, <3>6
  <2> QED
    BY <1>7, <2>14, <2>18, <2>19, <2>20, <2>21, <2>22, <2>25, <2>26, TreeStep
<1> QED
  BY <1>6, <1>8, <1>9

\* What the names in directories other than dots become.
LEMMA SubsStep ==
  ASSUME TableInv, \A j \in Inum : dinode'[j].type = dinode[j].type, NEW j \in Inum,
         NEW S \in SUBSET Name, \A m \in Name : dents'[j][m] = dents[j][m] \/ m \in S
  PROVE  /\ Subs(j)' \subseteq Subs(j) \cup S
         /\ (\A m \in S : dents'[j][m] = 0) => Subs(j)' \subseteq Subs(j) \ S
<1>1. Subs(j)' = {m \in Name : dents'[j][m] # 0 /\ dinode'[dents'[j][m]].type = "dir"}
  BY DEF Subs
<1>2. \A m \in Name : dents[j][m] \in Inum \cup {0}
  BY DEF TableInv, Typed, AllNames
<1>3. \A m \in Name : m \notin S /\ m \in Subs(j)' => m \in Subs(j)
  BY <1>1, <1>2 DEF Subs
<1> QED
  BY <1>1, <1>3

LEMMA UnlinkIpTree ==
  ASSUME TableInv, TreeInv, NEW p \in Proc, unlink_ip(p)
  PROVE  TreeInv'
<1>1. PICK e : e = pr[p].ip
  OBVIOUS
<1>2. PICK d : d = pr[p].dp
  OBVIOUS
<1>3. PICK nm : nm = Head(pr[p].path)
  OBVIOUS
<1>4. PICK r : r = PutThen([pr[p] EXCEPT !.dp = None], pr[p].dp, "unlink_last")
  OBVIOUS
<1>5. /\ pr[p].pc = "unlink_ip" /\ cwd' = cwd /\ fd' = fd /\ pr' = [pr EXCEPT ![p] = r]
  BY <1>4 DEF unlink_ip, At
<1>6. TableInv' /\ Kept(itable, itable') /\ e \in Entry /\ d \in Entry
  BY <1>1, <1>2, UnlinkIpStep
<1>7. PICK i, i2, k : /\ i = Ino(e) /\ i2 = Ino(d)
                      /\ k = IF dinode[i].type = "dir" THEN -1 ELSE 0
                      /\ CountsAre(i, i2, dinode[i].nlink, k)
                      /\ dents' = dirlink(i2, nm, 0)
  BY <1>1, <1>2, <1>3, UnlinkIpStep DEF Ino
<1>8. /\ r \in Process
      /\ Fields(r, "iput", "unlink_last", pr[p].call, pr[p].second, pr[p].path,
                None, pr[p].ip, None, pr[p].dp)
      /\ Holds(pr[p], d)
  BY <1>2, <1>4, <1>5, <1>6, PutDp
<1>9. i \in Inum /\ i2 \in Inum /\ i # i2 /\ k \in Int
  BY <1>7 DEF CountsAre
<1>10. /\ nm \in Name /\ nm \in AllNames /\ dents[i2][nm] = i /\ dinode[i2].type = "dir"
       /\ dents[i2]["."] = i2
  <2>1. nm \in Name /\ dents[Ino(d)][nm] = Ino(e)
    BY <1>1, <1>2, <1>3, <1>5 DEF TreeInv, Reliable, Relies
  <2>2. TypeOf(d) = "dir" /\ Dotted(Ino(d))
    BY <1>2, <1>6, InodeAssumption DEF TreeInv, Reliable, Relies, Entry
  <2> QED
    BY <1>7, <2>1, <2>2 DEF TypeOf, Dotted, AllNames
<1>11. EntryIs(i2, nm, 0)
  BY <1>7, <1>9, <1>10, DirlinkIs
<1>12. PICK c : c = cwd[p]
  OBVIOUS
<1>13. PICK f : f = fd[p]
  OBVIOUS
<1>14. Moves(p, c, f, r) /\ SameIno
  BY <1>5, <1>6, <1>8, <1>12, <1>13, RecordMoves, KeptIno
<1>15. /\ r.cur = None /\ r.dp = None /\ r.path = pr[p].path /\ r.pc = "iput" /\ r.ip = e
       /\ ~Linking(r) /\ Claiming(r) /\ ~Claiming(pr[p])
  BY <1>1, <1>5, <1>8 DEF Fields, Claiming, Linking, Stage, Putting, Walking
<1>16. \A x \in Entry : Points(c, f, r, x) => Uses(p, x)
  BY <1>8, <1>12, <1>13, InodeAssumption DEF Points, Uses, Fields, Entry
<1>17. \A j \in Inum : /\ dents'[j]["."] = dents[j]["."] /\ dinode'[j].type = dinode[j].type
                       /\ j # i2 => SameInode(j)
  <2>1. nm # "." /\ "." \in AllNames
    BY <1>10, InodeAssumption DEF AllNames
  <2>2. \A j \in Inum : j # i2 => dents'[j] = dents[j]
    BY <1>11 DEF EntryIs
  <2>3. /\ \A j \in Inum : dinode'[j].type = dinode[j].type
        /\ \A j \in Inum : j # i2 => dinode'[j].nlink = dinode[j].nlink
    BY <1>7 DEF CountsAre
  <2>4. dents'[i2]["."] = dents[i2]["."]
    BY <1>11, <2>1 DEF EntryIs
  <2> QED
    BY <2>2, <2>3, <2>4 DEF SameInode
<1>18. \A j \in Inum : \A m \in Name :
         dents'[j][m] = dents[j][m] \/ (j = i2 /\ m = nm /\ dents'[j][m] = 0)
  BY <1>11 DEF EntryIs, AllNames
<1>19. Relies(c, f, r)'
  <2>1. \A x \in Entry : Ino(x) \in Inum
    BY DEF TableInv, Typed, Table, EntryRec, Ino
  <2>2. \A x \in Entry :
          Points(c, f, r, x) => Uses(p, x) /\ dinode'[Ino(x)].type = dinode[Ino(x)].type
    BY <1>16, <1>17, <2>1
  <2>3. \A x \in Entry : x \in {c, r.cur, r.dp} => dents'[Ino(x)]["."] = dents[Ino(x)]["."]
    BY <1>17, <2>1
  <2> QED
    BY <1>8, <1>12, <1>14, <1>15, <2>2, <2>3, SelfRelies
<1>20. \A q \in Proc : q # p => Apart(r, cwd[q], fd[q], pr[q])
  BY <1>15 DEF Apart, Alone
<1>21. Touches(p)
  <2>1. Uses(p, d) /\ lock[d] = p
    BY <1>2, <1>6, <1>8 DEF Uses, Points, TableInv, Locking
  <2> QED
    BY <1>6, <1>7, <1>17, <2>1 DEF Touches
<1>22. NewPointers(p, c, f, r)
  BY <1>16 DEF NewPointers
<1>23. Tidy'
  <2> SUFFICES ASSUME NEW j \in Inum
               PROVE  /\ dinode'[j].type = "free" => dinode'[j].nlink = 0
                      /\ dinode'[j].type # "dir" => dents'[j] = NoDents
                      /\ dinode'[j].type = "dir" /\ dinode'[j].nlink > 0 => dents'[j]["."] = j
    BY DEF Tidy, Dotted
  <2>1. CASE j = i2
    BY <1>10, <1>17, <2>1
  <2>2. CASE j # i2
    BY <1>17, <2>2 DEF TreeInv, Tidy, Dotted, SameInode
  <2> QED
    BY <2>1, <2>2
<1>24. Acyclic'
  BY <1>18, AcyclicStep DEF TreeInv
<1>25. Stakes'
  <2> SUFFICES ASSUME NEW j \in Inum PROVE Claims(j)' <= dinode'[j].nlink
    BY DEF Stakes
  <2>1. Typed /\ Typed' /\ Stakes /\ dinode[j].nlink \in Int
    BY <1>6 DEF TableInv, TreeInv, Typed, DiskInodes, InodeRec
  <2>2. /\ \A q \in Proc : q # p => (q \in Users(j)' <=> q \in Users(j))
        /\ p \in Users(j)' <=> Claiming(r) /\ itable'[r.ip].inum = j
    BY <1>14, UsersStep
  <2>3. itable'[r.ip].inum = i
    <3>1. itable[e].ref > 0
      BY <1>1, <1>6, Pointed, InodeAssumption DEF Entry
    <3> QED
      BY <1>6, <1>7, <1>14, <1>15, <3>1 DEF SameIno, Ino
  <2>4. Users(j)' \subseteq Users(j) \cup {p} /\ (j # i => Users(j)' \subseteq Users(j))
    BY <2>2, <2>3 DEF Users
  <2>5. j # i2 => Subs(j)' = Subs(j)
    <3>1. \A m \in Name : j # i2 => dents'[j][m] = dents[j][m]
      BY <1>18
    <3>2. Subs(j)' = {m \in Name : dents'[j][m] # 0 /\ dinode'[dents'[j][m]].type = "dir"}
      BY DEF Subs
    <3>3. \A m \in Name : dents[j][m] \in Inum \cup {0}
      BY DEF TableInv, Typed, AllNames
    <3> QED
      BY <1>17, <3>1, <3>2, <3>3 DEF Subs
  <2>6. Links(j)' \subseteq Links(j) \ {<<i2, nm>>}
    <3>1. Links(j)' = {l \in Inum \X Name : dents'[l[1]][l[2]] = j}
      BY DEF Links
    <3>2. \A l \in Inum \X Name : dents'[l[1]][l[2]] = j => dents[l[1]][l[2]] = j
      BY <1>18 DEF Inum
    <3>3. dents'[i2][nm] = 0 /\ j # 0
      BY <1>11 DEF EntryIs, Inum
    <3> QED
      BY <3>1, <3>2, <3>3 DEF Links
  <2>7. CASE j = i
    <3>1. <<i2, nm>> \in Links(j)
      BY <1>9, <1>10, <2>7 DEF Links
    <3>2. /\ Cardinality(Links(j)') <= Cardinality(Links(j)) - 1
          /\ Cardinality(Users(j)') <= Cardinality(Users(j)) + 1
          /\ Cardinality(Subs(j)') = Cardinality(Subs(j))
      BY <1>9, <2>4, <2>5, <2>6, <2>7, <3>1, ClaimsFinite, CardAdd, CardDel
    <3>3. PICK x, y, z \in Int : x = -1 /\ y = 0 /\ z = 1
      OBVIOUS
    <3>4. /\ Cardinality(Links(j)') <= Cardinality(Links(j)) + x
          /\ Cardinality(Subs(j)') <= Cardinality(Subs(j)) + y
          /\ Cardinality(Users(j)') <= Cardinality(Users(j)) + z
      <4>1. PICK a, b \in Nat : a = Cardinality(Links(j)) /\ b = Cardinality(Subs(j))
        BY ClaimsFinite
      <4> QED
        BY <3>2, <3>3, <4>1
    <3>5. dinode'[j].nlink >= dinode[j].nlink + x + y + z
      <4>1. dinode'[j].nlink = dinode[j].nlink
        BY <1>7, <2>7 DEF CountsAre
      <4> QED
        BY <2>1, <3>3, <4>1
    <3> QED
      BY <2>1, <3>4, <3>5, ClaimStep
  <2>8. CASE j = i2
    <3>1. /\ Cardinality(Links(j)') <= Cardinality(Links(j))
          /\ Cardinality(Users(j)') <= Cardinality(Users(j))
      BY <1>9, <2>4, <2>6, <2>8, ClaimsFinite, CardSub
    <3>2. Subs(j)' \subseteq Subs(j) \ {nm}
      <4>1. PICK S \in SUBSET Name : S = {nm}
        BY <1>10
      <4>2. \A m \in Name : dents'[j][m] = dents[j][m] \/ m \in S
        BY <1>18, <4>1
      <4>3. \A m \in S : dents'[j][m] = 0
        BY <1>11, <2>8, <4>1 DEF EntryIs
      <4>4. Subs(j)' \subseteq Subs(j) \ S
        BY <1>17, <4>2, <4>3, SubsStep
      <4> QED
        BY <4>1, <4>4
    <3>3. Cardinality(Subs(j)') <= Cardinality(Subs(j)) + k
      <4>1. CASE dinode[i].type = "dir"
        <5>1. nm \in Subs(j) /\ k = -1
          BY <1>7, <1>9, <1>10, <2>8, <4>1 DEF Subs, Inum
        <5>2. Cardinality(Subs(j)') <= Cardinality(Subs(j)) - 1 /\ Cardinality(Subs(j)) \in Nat
          BY <3>2, <5>1, ClaimsFinite, CardDel
        <5>3. PICK a \in Nat : a = Cardinality(Subs(j))
          BY <5>2
        <5> QED
          BY <5>1, <5>2, <5>3
      <4>2. CASE dinode[i].type # "dir"
        <5>1. Cardinality(Subs(j)') <= Cardinality(Subs(j)) /\ Cardinality(Subs(j)) \in Nat
          BY <3>2, ClaimsFinite, CardSub
        <5>2. k = 0
          BY <1>7, <4>2
        <5>3. PICK a \in Nat : a = Cardinality(Subs(j))
          BY <5>1
        <5> QED
          BY <5>1, <5>2, <5>3
      <4> QED
        BY <4>1, <4>2
    <3>4. PICK x \in Int : x = 0
      OBVIOUS
    <3>5. /\ Cardinality(Links(j)') <= Cardinality(Links(j)) + x
          /\ Cardinality(Users(j)') <= Cardinality(Users(j)) + x
      <4>1. PICK a, b \in Nat : a = Cardinality(Links(j)) /\ b = Cardinality(Users(j))
        BY ClaimsFinite
      <4> QED
        BY <3>1, <3>4, <4>1
    <3>6. dinode'[j].nlink >= dinode[j].nlink + x + k + x
      <4>1. dinode'[j].nlink = dinode[j].nlink + k
        BY <1>7, <2>8 DEF CountsAre
      <4> QED
        BY <1>9, <2>1, <3>4, <4>1
    <3> QED
      BY <1>9, <2>1, <3>3, <3>5, <3>6, ClaimStep
  <2>9. CASE j # i /\ j # i2
    <3>1. /\ dinode'[j].nlink = dinode[j].nlink /\ Links(j)' \subseteq Links(j)
          /\ Subs(j)' \subseteq Subs(j) /\ Users(j)' \subseteq Users(j)
      BY <1>17, <2>4, <2>5, <2>6, <2>9 DEF SameInode
    <3> QED
      BY <2>1, <3>1, ClaimKept
  <2> QED
    BY <2>7, <2>8, <2>9
<1> QED
  BY <1>6, <1>14, <1>19, <1>20, <1>21, <1>22, <1>23, <1>24, <1>25, TreeStep

LEMMA CreateNewTree ==
  ASSUME TableInv, TreeInv, NEW p \in Proc, create_new(p)
  PROVE  TreeInv'
<1>1. PICK e : e = pr[p].ip
  OBVIOUS
<1>2. PICK d : d = pr[p].dp
  OBVIOUS
<1>3. PICK nm : nm = Head(pr[p].path)
  OBVIOUS
<1>4. PICK r : r = PutThen([pr[p] EXCEPT !.dp = None], pr[p].dp, "create_ret")
  OBVIOUS
<1>5. /\ pr[p].pc = "create_new" /\ cwd' = cwd /\ fd' = fd /\ pr' = [pr EXCEPT ![p] = r]
  BY <1>4 DEF create_new, At
<1>6. TableInv' /\ Kept(itable, itable') /\ e \in Entry /\ d \in Entry
  BY <1>1, <1>2, CreateNewStep
<1>7. PICK i, i2, k : /\ i = Ino(e) /\ i2 = Ino(d)
                      /\ k = IF pr[p].call.op = "mkdir" THEN 1 ELSE 0
                      /\ CountsAre(i, i2, 1, k)
                      /\ dents' = [dents EXCEPT ![i2][nm] = i,
                                     ![i] = IF pr[p].call.op = "mkdir"
                                            THEN [NoDents EXCEPT !["."] = i, ![".."] = i2]
                                            ELSE @]
  BY <1>1, <1>2, <1>3, CreateNewStep DEF Ino
<1>8. /\ r \in Process
      /\ Fields(r, "iput", "create_ret", pr[p].call, pr[p].second, pr[p].path,
                None, pr[p].ip, None, pr[p].dp)
      /\ Holds(pr[p], d)
  <2>1. pr[p].pc = "create_new"
    BY <1>5
  <2> QED
    BY <1>2, <1>4, <1>6, <2>1, PutDp
<1>9. i \in Inum /\ i2 \in Inum /\ i # i2 /\ k \in Int
  BY <1>7 DEF CountsAre
<1>10. /\ nm \in Name /\ dents[i] = NoDents /\ dinode[i].nlink = 0 /\ dinode[i2].type = "dir"
       /\ dents[i2]["."] = i2
       /\ dinode[i].type = IF pr[p].call.op = "mkdir" THEN "dir" ELSE "file"
  <2>1. /\ nm \in Name /\ dents[Ino(e)] = NoDents
        /\ TypeOf(e) = IF pr[p].call.op = "mkdir" THEN "dir" ELSE "file"
    BY <1>1, <1>3, <1>5 DEF TreeInv, Reliable, Relies
  <2>2. TypeOf(d) = "dir" /\ Dotted(Ino(d))
    BY <1>2, <1>6, InodeAssumption DEF TreeInv, Reliable, Relies, Entry
  <2>3. dinode[Ino(e)].nlink = 0
    BY <1>1, <1>5, <1>6 DEF TreeInv, Reliable, Relies, Alone
  <2> QED
    BY <1>7, <2>1, <2>2, <2>3 DEF TypeOf, Dotted
<1>11. /\ dents'[i2][nm] = i /\ \A m \in AllNames : m # nm => dents'[i2][m] = dents[i2][m]
       /\ dents'[i] = IF pr[p].call.op = "mkdir"
                      THEN [NoDents EXCEPT !["."] = i, ![".."] = i2] ELSE NoDents
       /\ \A j \in Inum : j \notin {i, i2} => dents'[j] = dents[j]
  <2>1. dents \in [Inum -> [AllNames -> Inum \cup {0}]] /\ nm \in AllNames
    BY <1>10 DEF TableInv, Typed, AllNames
  <2> QED
    BY <1>7, <1>9, <1>10, <2>1
<1>12. /\ \A m \in Name : dents'[i][m] = 0 /\ dents[i][m] = 0
       /\ pr[p].call.op = "mkdir" => dents'[i]["."] = i
       /\ dents[i]["."] = 0 /\ dents'[i2]["."] = i2
  <2>1. nm # "." /\ "." \in AllNames /\ Name \subseteq AllNames /\ "." \notin Name
        /\ ".." \notin Name /\ "." # ".."
    BY <1>10, InodeAssumption DEF AllNames
  <2> QED
    BY <1>10, <1>11, <2>1 DEF NoDents
<1>13. PICK c : c = cwd[p]
  OBVIOUS
<1>14. PICK f : f = fd[p]
  OBVIOUS
<1>15. Moves(p, c, f, r) /\ SameIno
  BY <1>5, <1>6, <1>8, <1>13, <1>14, RecordMoves, KeptIno
<1>16. /\ r.cur = None /\ r.dp = None /\ r.path = pr[p].path /\ r.pc = "iput" /\ r.ip = e
       /\ ~Linking(r) /\ ~Claiming(r) /\ ~Claiming(pr[p])
  BY <1>1, <1>5, <1>8 DEF Fields, Claiming, Linking, Stage, Putting, Walking
<1>17. \A x \in Entry : Points(c, f, r, x) => Uses(p, x)
  BY <1>8, <1>13, <1>14, InodeAssumption DEF Points, Uses, Fields, Entry
<1>18. \A j \in Inum : /\ dinode'[j].type = dinode[j].type
                       /\ j \notin {i, i2} => SameInode(j)
                       /\ j # i => dents'[j]["."] = dents[j]["."]
  <2>1. /\ \A j \in Inum : dinode'[j].type = dinode[j].type
        /\ \A j \in Inum : j \notin {i, i2} => dinode'[j].nlink = dinode[j].nlink
    BY <1>7 DEF CountsAre
  <2> QED
    BY <1>10, <1>11, <1>12, <2>1 DEF SameInode
<1>19. \A j \in Inum : \A m \in Name :
         dents'[j][m] = dents[j][m] \/ (j = i2 /\ m = nm /\ dents'[j][m] = i)
  BY <1>11, <1>12 DEF AllNames
<1>20. Relies(c, f, r)'
  <2>1. \A x \in Entry : Ino(x) \in Inum
    BY DEF TableInv, Typed, Table, EntryRec, Ino
  <2>2. \A x \in Entry :
          Points(c, f, r, x) => Uses(p, x) /\ dinode'[Ino(x)].type = dinode[Ino(x)].type
    BY <1>17, <1>18, <2>1
  <2>3. c \in Entry /\ Ino(c) # i
    <3>1. c \in Entry /\ Dotted(Ino(c))
      BY <1>13, ProcessIs DEF TreeInv, Reliable, Relies
    <3>2. 0 \notin Inum
      BY DEF Inum
    <3> QED
      BY <1>9, <1>12, <3>1, <3>2 DEF Dotted
  <2>4. \A x \in Entry : x \in {c, r.cur, r.dp} => dents'[Ino(x)]["."] = dents[Ino(x)]["."]
    <3>1. None \notin Entry
      BY InodeAssumption DEF Entry
    <3> QED
      BY <1>16, <1>18, <2>1, <2>3, <3>1
  <2> QED
    BY <1>8, <1>13, <1>15, <1>16, <2>2, <2>4, SelfRelies
<1>21. \A q \in Proc : q # p => Apart(r, cwd[q], fd[q], pr[q])
  BY <1>16 DEF Apart, Alone
<1>22. Touches(p)
  <2>1. Uses(p, d) /\ lock[d] = p /\ Uses(p, e) /\ Alone(pr[p], e)
    BY <1>1, <1>2, <1>5, <1>6, <1>8 DEF Uses, Points, Alone, TableInv, Locking
  <2> QED
    BY <1>6, <1>7, <1>9, <1>18, <2>1 DEF Touches
<1>23. NewPointers(p, c, f, r)
  BY <1>17 DEF NewPointers
<1>24. Tidy'
  <2> SUFFICES ASSUME NEW j \in Inum
               PROVE  /\ dinode'[j].type = "free" => dinode'[j].nlink = 0
                      /\ dinode'[j].type # "dir" => dents'[j] = NoDents
                      /\ dinode'[j].type = "dir" /\ dinode'[j].nlink > 0 => dents'[j]["."] = j
    BY DEF Tidy, Dotted
  <2>1. CASE j = i2
    BY <1>10, <1>12, <1>18, <2>1
  <2>2. CASE j = i
    BY <1>10, <1>11, <1>12, <1>18, <2>2
  <2>3. CASE j # i /\ j # i2
    BY <1>18, <2>3 DEF TreeInv, Tidy, Dotted, SameInode
  <2> QED
    BY <2>1, <2>2, <2>3
<1>25. Acyclic'
  BY <1>12, <1>19, AcyclicStep DEF TreeInv
<1>26. Stakes'
  <2> SUFFICES ASSUME NEW j \in Inum PROVE Claims(j)' <= dinode'[j].nlink
    BY DEF Stakes
  <2>1. Typed /\ Typed' /\ Stakes /\ dinode[j].nlink \in Int
    BY <1>6 DEF TableInv, TreeInv, Typed, DiskInodes, InodeRec
  <2>2. Users(j)' = Users(j)
    BY <1>15, <1>16, UsersSame
  <2>3. Subs(j)' \subseteq Subs(j) \cup {nm}
        /\ (j # i2 \/ dinode[i].type # "dir" => Subs(j)' \subseteq Subs(j))
    <3>1. Subs(j)' = {m \in Name : dents'[j][m] # 0 /\ dinode'[dents'[j][m]].type = "dir"}
      BY DEF Subs
    <3>2. \A m \in Name : dents[j][m] \in Inum \cup {0}
      BY DEF TableInv, Typed, AllNames
    <3>3. \A m \in Name : m \in Subs(j)' =>
            m \in Subs(j) \/ (m = nm /\ j = i2 /\ dinode[i].type = "dir")
      BY <1>9, <1>18, <1>19, <3>1, <3>2 DEF Subs
    <3> QED
      BY <3>1, <3>3
  <2>4. /\ Links(j)' \subseteq Links(j) \cup {<<i2, nm>>}
        /\ j # i => Links(j)' \subseteq Links(j)
    BY <1>19 DEF Links
  <2>5. PICK x \in Int : x = 0
    OBVIOUS
  <2>6. PICK a, b, z \in Nat : /\ a = Cardinality(Links(j)) /\ b = Cardinality(Subs(j))
                               /\ z = Cardinality(Users(j))
    BY ClaimsFinite
  <2>7. Cardinality(Users(j)') <= Cardinality(Users(j)) + x
    BY <2>2, <2>5, <2>6
  <2>8. CASE j = i
    <3>1. PICK y \in Int : y = 1
      OBVIOUS
    <3>2. /\ Cardinality(Links(j)') <= Cardinality(Links(j)) + 1
          /\ Cardinality(Subs(j)') <= Cardinality(Subs(j))
      BY <1>9, <2>3, <2>4, <2>8, ClaimsFinite, CardAdd, CardSub
    <3>3. /\ Cardinality(Links(j)') <= Cardinality(Links(j)) + y
          /\ Cardinality(Subs(j)') <= Cardinality(Subs(j)) + x
      BY <2>5, <2>6, <3>1, <3>2
    <3>4. dinode'[j].nlink >= dinode[j].nlink + y + x + x
      <4>1. dinode'[j].nlink = 1
        BY <1>7, <2>8 DEF CountsAre
      <4> QED
        BY <1>10, <2>5, <2>8, <3>1, <4>1
    <3> QED
      BY <2>1, <2>7, <3>3, <3>4, ClaimStep
  <2>9. CASE j = i2
    <3>1. /\ Cardinality(Links(j)') <= Cardinality(Links(j))
      BY <1>9, <2>4, <2>9, ClaimsFinite, CardSub
    <3>2. Cardinality(Links(j)') <= Cardinality(Links(j)) + x
      BY <2>5, <2>6, <3>1
    <3>3. Cardinality(Subs(j)') <= Cardinality(Subs(j)) + k
      <4>1. CASE pr[p].call.op = "mkdir"
        <5>1. Cardinality(Subs(j)') <= Cardinality(Subs(j)) + 1
          BY <2>3, ClaimsFinite, CardAdd
        <5>2. k = 1
          BY <1>7, <4>1
        <5> QED
          BY <5>1, <5>2
      <4>2. CASE pr[p].call.op # "mkdir"
        <5>1. Cardinality(Subs(j)') <= Cardinality(Subs(j))
          BY <1>10, <2>3, <4>2, ClaimsFinite, CardSub
        <5>2. k = 0
          BY <1>7, <4>2
        <5> QED
          BY <2>6, <5>1, <5>2
      <4> QED
        BY <4>1, <4>2
    <3>4. dinode'[j].nlink >= dinode[j].nlink + x + k + x
      <4>1. dinode'[j].nlink = dinode[j].nlink + k
        BY <1>7, <2>9 DEF CountsAre
      <4> QED
        BY <1>9, <2>1, <2>5, <4>1
    <3> QED
      BY <1>9, <2>1, <2>7, <3>2, <3>3, <3>4, ClaimStep
  <2>10. CASE j # i /\ j # i2
    <3>1. /\ dinode'[j].nlink = dinode[j].nlink /\ Links(j)' \subseteq Links(j)
          /\ Subs(j)' \subseteq Subs(j) /\ Users(j)' \subseteq Users(j)
      BY <1>18, <2>2, <2>3, <2>4, <2>10 DEF SameInode
    <3> QED
      BY <2>1, <3>1, ClaimKept
  <2> QED
    BY <2>8, <2>9, <2>10
<1> QED
  BY <1>6, <1>15, <1>20, <1>21, <1>22, <1>23, <1>24, <1>25, <1>26, TreeStep

LEMMA IallocTree ==
  ASSUME TableInv, TreeInv, NEW p \in Proc, ialloc(p)
  PROVE  TreeInv'
<1>1. PICK e : e = pr[p].cur
  OBVIOUS
<1>2. PICK i : i = Min(FreeInums)
  OBVIOUS
<1>3. PICK s : s = Slot(i)
  OBVIOUS
<1>4. PICK t : t = With(itable, e, Loaded(e))
  OBVIOUS
<1>5. PICK ty : ty = IF pr[p].call.op = "mkdir" THEN "dir" ELSE "file"
  OBVIOUS
<1>6. PICK n : n = [Free EXCEPT !.type = ty]
  OBVIOUS
<1>7. PICK u : u = Both(pr[p], "create_new", e, s)
  OBVIOUS
<1>8. PICK nm : nm = Head(pr[p].path)
  OBVIOUS
<1>9. /\ pr[p].pc = "found" /\ pr[p].call.op \in {"create", "mkdir"} /\ Loaded(e).type # "free"
      /\ FreeInums # {} /\ dirlookup(Loaded(e).inum, nm) = 0
      /\ dinode' = With(dinode, i, n) /\ dents' = dents /\ cwd' = cwd /\ fd' = fd
      /\ itable' = iget(t, i) /\ pr' = [pr EXCEPT ![p] = u]
  BY <1>1, <1>2, <1>3, <1>4, <1>5, <1>6, <1>7, <1>8
     DEF ialloc, Creates, In, At, Locks, With, Both
<1>10. TableInv' /\ Kept(itable, itable')
  BY IallocStep
<1>11. /\ e \in Entry /\ itable[e].ref > 0 /\ ~pr[p].second /\ Len(pr[p].path) = 1
       /\ nm \in AllNames
  BY <1>1, <1>8, <1>9, FoundIs
<1>12. i \in Inum /\ dinode[i].type = "free"
  BY <1>2, <1>9, FreeIs
<1>13. dinode[i].nlink = 0 /\ dents[i] = NoDents
  BY <1>12 DEF TreeInv, Tidy
<1>14. /\ dinode'[i].type = ty /\ dinode'[i].nlink = 0
       /\ \A j \in Inum : j # i => dinode'[j] = dinode[j]
  <2>1. n.type = ty /\ n.nlink = 0
    BY <1>6 DEF Free
  <2>2. dinode \in DiskInodes
    BY DEF TableInv, Typed
  <2> QED
    BY <1>9, <1>12, <2>1, <2>2 DEF With, DiskInodes
<1>15. itable'[s].inum = i /\ s \in Entry
  <2>1. dinode[itable[e].inum] = dinode[itable[e].inum] /\ Sound(itable, dinode)
    BY DEF TableInv
  <2> QED
    BY <1>3, <1>4, <1>9, <1>11, <1>12, <2>1, LoadGet
<1>16. Fields(u, "create_new", pr[p].cont, pr[p].call, pr[p].second, pr[p].path, None, s, e, None)
  <2>1. pr[p].pc = "found" /\ pr[p].call.op \in {"create", "mkdir"} /\ e \in Entry /\ s \in Entry
    BY <1>9, <1>11, <1>15
  <2> QED
    BY <1>1, <1>7, <2>1, LockBoth
<1>17. PICK c : c = cwd[p]
  OBVIOUS
<1>18. PICK f : f = fd[p]
  OBVIOUS
<1>19. Moves(p, c, f, u) /\ SameIno
  BY <1>9, <1>10, <1>16, <1>17, <1>18, RecordMoves, KeptIno DEF Fields
<1>20. /\ u.cur = None /\ u.dp = e /\ u.path = pr[p].path /\ u.pc = "create_new" /\ u.ip = s
       /\ u.put = None /\ u.call = pr[p].call
       /\ ~Linking(u) /\ ~Claiming(u) /\ ~Claiming(pr[p])
  BY <1>9, <1>11, <1>16 DEF Fields, Claiming, Linking, Stage, Putting, Walking
<1>21. \A x \in Entry : Points(c, f, u, x) => Uses(p, x) \/ x = s
  BY <1>1, <1>17, <1>18, <1>20, InodeAssumption DEF Points, Uses, Entry
<1>22. \A q \in Proc : \A x \in Entry : Uses(q, x) =>
         /\ itable'[x].inum = Ino(x) /\ Ino(x) \in Inum /\ Ino(x) # i
         /\ dinode'[Ino(x)] = dinode[Ino(x)]
  <2> SUFFICES ASSUME NEW q \in Proc, NEW x \in Entry, Uses(q, x)
               PROVE  /\ itable'[x].inum = Ino(x) /\ Ino(x) \in Inum /\ Ino(x) # i
                      /\ dinode'[Ino(x)] = dinode[Ino(x)]
    OBVIOUS
  <2>1. itable[x].ref > 0 /\ Ino(x) \in Inum
    BY UsedIs
  <2>2. dinode[Ino(x)].type # "free"
    BY DEF TreeInv, Reliable, Relies, Uses, TypeOf
  <2> QED
    BY <1>12, <1>14, <1>19, <2>1, <2>2 DEF SameIno, Ino
<1>23. Uses(p, e) /\ Uses(p, c) /\ c \in Entry
  BY <1>1, <1>17, ProcessIs DEF Uses, Points
<1>24. TypeOf(e) = "dir" /\ TypeOf(c) = "dir" /\ Dotted(Ino(e)) /\ Dotted(Ino(c))
  <2>1. Relies(cwd[p], fd[p], pr[p])
    BY DEF TreeInv, Reliable
  <2>2. TypeOf(e) = "dir" /\ TypeOf(c) = "dir"
    BY <1>1, <1>9, <1>17, <2>1 DEF Relies, ByParent
  <2> QED
    BY <1>1, <1>11, <1>17, <1>23, <2>1, <2>2 DEF Relies
<1>25. nm \in Name
  <2>1. \A k \in 1..Len(pr[p].path) : pr[p].path[k] # ".."
    BY DEF TreeInv, Reliable, Relies
  <2>2. pr[p].path \in Seq(AllNames)
    BY ProcessIs
  <2>3. nm # ".."
    BY <1>8, <1>11, <2>1, <2>2
  <2>4. dents[Ino(e)][nm] = 0 /\ Ino(e) # 0
    BY <1>9, <1>11, <1>22, <1>23, LockedCopy DEF dirlookup, Ino, Inum
  <2> QED
    BY <1>11, <1>24, <2>3, <2>4 DEF AllNames, Dotted
<1>26. Relies(c, f, u)'
  <2>1. \A k \in 1..Len(u.path) : u.path[k] # ".."
    BY <1>20 DEF TreeInv, Reliable, Relies
  <2>2. ty \in {"dir", "file"} /\ TypeOf(s)' = ty /\ dents'[itable'[s].inum] = NoDents
    BY <1>5, <1>9, <1>13, <1>14, <1>15 DEF TypeOf, Ino
  <2>3. \A x \in Entry : Uses(p, x) => TypeOf(x)' = TypeOf(x) /\ TypeOf(x) # "free"
    <3>1. \A x \in Entry : Uses(p, x) => TypeOf(x) # "free"
      BY DEF TreeInv, Reliable, Relies, Uses
    <3> QED
      BY <1>22, <3>1 DEF TypeOf, Ino
  <2>4. \A x \in Entry : Points(c, f, u, x) => TypeOf(x)' # "free"
    BY <1>21, <2>2, <2>3
  <2>5. TypeOf(c)' = "dir" /\ TypeOf(e)' = "dir"
    BY <1>11, <1>23, <1>24, <2>3
  <2>6. \A x \in Entry : x \in {c, u.cur, u.dp} => Dotted(Ino(x))'
    <3>1. \A x \in Entry : x \in {c, u.cur, u.dp} => x \in {c, e}
      BY <1>20, InodeAssumption DEF Entry
    <3>2. \A x \in Entry : x \in {c, e} => dents[Ino(x)]["."] = Ino(x) /\ itable'[x].inum = Ino(x)
      BY <1>22, <1>23, <1>24 DEF Dotted
    <3> QED
      BY <1>9, <3>1, <3>2 DEF Dotted, Ino
  <2>7. s # e
    BY <1>11, <1>15, <1>22, <1>23
  <2>8. \A x \in Entry : Alone(u, x) => dinode'[itable'[x].inum].nlink = 0
    BY <1>14, <1>15, <1>20 DEF Alone
  <2> QED
    BY <1>5, <1>8, <1>20, <1>25, <2>1, <2>2, <2>4, <2>5, <2>6, <2>7, <2>8
       DEF Relies, Ino, TypeOf
<1>27. \A q \in Proc : q # p => Apart(u, cwd[q], fd[q], pr[q])
  <2>1. \A q \in Proc : ~Uses(q, s)
    BY <1>15, <1>22
  <2> QED
    BY <1>20, <2>1 DEF Apart, Alone, Uses
<1>28. Touches(p)
  BY <1>9, <1>12, <1>14 DEF Touches, SameInode
<1>29. NewPointers(p, c, f, u)
  BY <1>12, <1>15, <1>21 DEF NewPointers
<1>30. Tidy'
  <2> SUFFICES ASSUME NEW j \in Inum
               PROVE  /\ dinode'[j].type = "free" => dinode'[j].nlink = 0
                      /\ dinode'[j].type # "dir" => dents'[j] = NoDents
                      /\ dinode'[j].type = "dir" /\ dinode'[j].nlink > 0 => dents'[j]["."] = j
    BY DEF Tidy, Dotted
  <2>1. CASE j = i
    BY <1>9, <1>13, <1>14, <2>1
  <2>2. CASE j # i
    BY <1>9, <1>14, <2>2 DEF TreeInv, Tidy, Dotted
  <2> QED
    BY <2>1, <2>2
<1>31. Acyclic'
  BY <1>9, AcyclicStep DEF TreeInv
<1>32. Stakes'
  <2>1. Links(i) = {}
    BY <1>12, <1>13, HasLinks DEF TableInv, TreeInv
  <2>2. ASSUME NEW j \in Inum
        PROVE  /\ dinode'[j].nlink = dinode[j].nlink
               /\ Links(j)' \subseteq Links(j) /\ Subs(j)' \subseteq Subs(j)
    <3>1. dinode'[j].nlink = dinode[j].nlink
      BY <1>13, <1>14
    <3>2. Links(j)' = Links(j)
      BY <1>9 DEF Links
    <3>3. \A m \in Name : dents[j][m] # i
      <4>1. \A l \in Inum \X Name : dents[l[1]][l[2]] # i
        BY <2>1 DEF Links
      <4>2. ASSUME NEW m \in Name PROVE dents[j][m] # i
        <5>1. <<j, m>> \in Inum \X Name /\ <<j, m>>[1] = j /\ <<j, m>>[2] = m
          OBVIOUS
        <5> QED
          BY <4>1, <5>1
      <4> QED
        BY <4>2
    <3>4. \A m \in Name : dents[j][m] \in Inum \cup {0}
      BY DEF TableInv, Typed, AllNames
    <3>5. Subs(j)' = {m \in Name : dents[j][m] # 0 /\ dinode'[dents[j][m]].type = "dir"}
      BY <1>9 DEF Subs
    <3>6. Subs(j)' \subseteq Subs(j)
      BY <1>14, <3>3, <3>4, <3>5 DEF Subs
    <3> QED
      BY <3>1, <3>2, <3>6
  <2> QED
    BY <1>10, <1>19, <1>20, <2>2, StakesKept
<1> QED
  BY <1>10, <1>19, <1>26, <1>27, <1>28, <1>29, <1>30, <1>31, <1>32, TreeStep

-----------------------------------------------------------------------------
(* The invariant.                                                            *)

LEMMA InitTree ==
  ASSUME Init
  PROVE  TreeInv
<1>1. 1 \in Inum /\ 1 \in Entry /\ None \notin Entry
  BY InodeAssumption DEF Inum, Entry
<1>2. /\ Idle.pc = "idle" /\ Idle.path = <<>> /\ Idle.cur = None /\ Idle.ip = None
      /\ Idle.dp = None /\ Idle.put = None
  BY DEF Idle
<1>3. \A p \in Proc : pr[p] = Idle /\ cwd[p] = 1 /\ fd[p] = None
  BY DEF Init
<1>4. \A x : ~Alone(Idle, x)
  BY <1>2 DEF Alone
<1>5. ~Linking(Idle) /\ ~Claiming(Idle)
  BY <1>2 DEF Linking, Claiming, Stage, Putting, Walking
<1>6. "." \in AllNames /\ ".." \in AllNames /\ "." # ".." /\ Name \subseteq AllNames
      /\ "." \notin Name /\ ".." \notin Name
  BY InodeAssumption DEF AllNames
<1>7. /\ dinode[1].type = "dir" /\ dinode[1].nlink = 1
      /\ \A i \in Inum : i # 1 => dinode[i].type = "free" /\ dinode[i].nlink = 0
  BY <1>1 DEF Init, ROOTINO, Free
<1>8. /\ dents[1]["."] = 1
      /\ \A i \in Inum : \A m \in Name : dents[i][m] = 0
      /\ \A i \in Inum : i # 1 => dents[i] = NoDents
  BY <1>1, <1>6 DEF Init, ROOTINO, NoDents
<1>9. itable[1].inum = 1
  BY <1>1 DEF Init
<1>10. Relies(1, None, Idle)
  <2>1. \A x \in Entry : Points(1, None, Idle, x) => x = 1
    BY <1>1, <1>2 DEF Points
  <2>2. TypeOf(1) = "dir" /\ Dotted(Ino(1))
    BY <1>7, <1>8, <1>9 DEF TypeOf, Ino, Dotted
  <2>3. \A k \in 1..Len(Idle.path) : FALSE
    BY <1>2
  <2>4. \A x \in Entry : x \in {1, Idle.cur, Idle.dp} => x = 1
    BY <1>1, <1>2
  <2> QED
    BY <1>2, <1>4, <1>5, <2>1, <2>2, <2>3, <2>4 DEF Relies
<1>11. Reliable /\ Apartness
  BY <1>3, <1>4, <1>10 DEF Reliable, Apartness, Apart
<1>12. Tidy
  BY <1>7, <1>8 DEF Tidy, Dotted
<1>13. Acyclic
  <2>1. 0 \notin Inum
    BY DEF Inum
  <2> QED
    BY <1>8, <2>1 DEF Acyclic
<1>14. Stakes
  <2> SUFFICES ASSUME NEW i \in Inum PROVE Claims(i) <= dinode[i].nlink
    BY DEF Stakes
  <2>1. i # 0
    BY DEF Inum
  <2>2. Links(i) = {} /\ Subs(i) = {} /\ Users(i) = {}
    BY <1>3, <1>5, <1>8, <2>1 DEF Links, Subs, Users
  <2>3. Claims(i) = IF i = 1 THEN 1 ELSE 0
    BY <2>2, FS_EmptySet DEF Claims, ROOTINO
  <2> QED
    BY <1>7, <2>3
<1> QED
  BY <1>11, <1>12, <1>13, <1>14 DEF TreeInv

LEMMA StutterTree ==
  ASSUME TreeInv, UNCHANGED vars
  PROVE  TreeInv'
<1>1. Reliable' /\ Apartness'
  BY DEF TreeInv, Reliable, Apartness, Relies, TypeOf, Ino, Dotted, vars, disk, mem
<1>2. Tidy' /\ Acyclic'
  BY DEF TreeInv, Tidy, Acyclic, Dotted, vars, disk
<1>3. Stakes'
  BY DEF TreeInv, Stakes, Claims, Links, Subs, Users, Ino, vars, disk, mem
<1> QED
  BY <1>1, <1>2, <1>3 DEF TreeInv

LEMMA NextTree ==
  ASSUME NoDotDot, TableInv, TreeInv, [Next]_vars
  PROVE  TreeInv'
<1>1. ASSUME NEW p \in Proc, iput(p) \/ ifree(p) \/ iref(p)
      PROVE  TreeInv'
  BY <1>1, IputTree, IfreeTree, IrefTree
<1>2. ASSUME NEW p \in Proc, walk_fail(p) \/ namex(p) \/ walk_parent(p) \/ walk_end(p)
      PROVE  TreeInv'
  BY <1>2, WalkFailTree, NamexTree, WalkParentTree, WalkEndTree
<1>3. ASSUME NEW p \in Proc, open(p) \/ chdir(p) \/ close(p)
      PROVE  TreeInv'
  BY <1>3, OpenTree, ChdirTree, CloseTree
<1>4. ASSUME NEW p \in Proc, link(p) \/ link_new(p) \/ link_dir(p) \/ link_put(p) \/ link_bad(p)
      PROVE  TreeInv'
  BY <1>4, LinkTree, LinkNewTree, LinkDirTree, LinkPutTree, LinkBadTree
<1>5. ASSUME NEW p \in Proc,
             unlink(p) \/ unlink_busy(p) \/ unlock_dp(p) \/ unlink_ip(p) \/ unlink_last(p)
      PROVE  TreeInv'
  BY <1>5, UnlinkTree, UnlinkBusyTree, UnlockDpTree, UnlinkIpTree, UnlinkLastTree
<1>6. ASSUME NEW p \in Proc,
             \/ create(p) \/ ialloc(p) \/ create_new(p) \/ create_fail(p) \/ create_ret(p)
             \/ create_old(p)
      PROVE  TreeInv'
  BY <1>6, CreateTree, IallocTree, CreateNewTree, CreateFailTree, CreateRetTree, CreateOldTree
<1>7. ASSUME NEW p \in Proc, NEW c \in Calls, start(p, c)
      PROVE  TreeInv'
  BY <1>7, StartTree
<1>8. ASSUME NEW p \in Proc, NEW b \in Block, write(p, b)
      PROVE  TreeInv'
  BY <1>8, WriteTree
<1>9. CASE UNCHANGED vars
  BY <1>9, StutterTree
<1>10. CASE Next
  BY <1>1, <1>2, <1>3, <1>4, <1>5, <1>6, <1>7, <1>8, <1>10 DEF Next
<1> QED
  BY <1>9, <1>10

LEMMA TreeInvariant ==
  ASSUME NoDotDot
  PROVE  Spec => [](TableInv /\ TreeInv)
<1>1. Init => TableInv /\ TreeInv
  BY InitTable, InitTree
<1>2. TableInv /\ TreeInv /\ [Next]_vars => TableInv' /\ TreeInv'
  BY NextTable, NextTree
<1> QED
  BY <1>1, <1>2, PTL DEF Spec

\* No directory entry outlives its inode, and the inodes of open files and current
\* directories stay allocated, whatever link, unlink, create and iput() of other
\* processes do in between, as long as no path leads through "..".
THEOREM NoDanglingAlways ==
  ASSUME NoDotDot
  PROVE  Spec => []NoDangling
<1>1. ASSUME TableInv, TreeInv PROVE NoDangling
  <2>1. Typed /\ Stakes
    BY <1>1 DEF TableInv, TreeInv
  <2>2. ASSUME NEW i \in Inum PROVE Cardinality(Links(i)) <= dinode[i].nlink
    <3>1. PICK x, y, z \in Nat : /\ x = Cardinality(Links(i)) /\ y = Cardinality(Subs(i))
                                 /\ z = Cardinality(Users(i))
      BY ClaimsFinite
    <3>2. PICK o \in Nat : o = IF i = ROOTINO THEN 1 ELSE 0
      OBVIOUS
    <3>3. PICK n \in Int : n = dinode[i].nlink
      BY <2>1 DEF Typed, DiskInodes, InodeRec
    <3>4. x + y + z + o <= n
      BY <2>1, <3>1, <3>2, <3>3, Zenon DEF Stakes, Claims
    <3> QED
      BY <3>1, <3>3, <3>4
  <2>3. \A i \in Inum : Links(i) # {} => dinode[i].type # "free"
    BY <1>1, <2>1, HasLinks DEF TreeInv, Tidy
  <2>4. ASSUME NEW p \in Proc
        PROVE  /\ dinode[itable[cwd[p]].inum].type = "dir"
               /\ fd[p] # None => dinode[itable[fd[p]].inum].type # "free"
    <3>1. Relies(cwd[p], fd[p], pr[p]) /\ fd[p] \in Entry \cup {None}
      BY <1>1, ProcessIs DEF TreeInv, Reliable
    <3> QED
      BY <3>1 DEF Relies, Points, TypeOf, Ino
  <2> QED
    BY <2>2, <2>3, <2>4 DEF NoDangling
<1> QED
  BY <1>1, TreeInvariant, PTL

\* What a process holds while it waits for a lock: the parent of what it waits for.
LEMMA HoldsWanting ==
  ASSUME TableInv, NEW p \in Proc, Wants(p) # None
  PROVE  /\ Wants(p) \in Entry /\ itable[Wants(p)].ref > 0
         /\ Points(cwd[p], fd[p], pr[p], Wants(p))
         /\ \A x \in Entry : Holds(pr[p], x) =>
              /\ x = pr[p].dp /\ Wants(p) = pr[p].ip /\ pr[p].pc \in {"create_new", "unlink_ip"}
<1>1. Shape(pr[p])
  BY ProcessIs
<1>2. \/ pr[p].pc \in {"walk", "found"} /\ Wants(p) = pr[p].cur
      \/ /\ pr[p].pc \in {"link_bad", "create_old", "create_new", "unlink_ip"}
         /\ Wants(p) = pr[p].ip
  BY DEF Wants
<1>3. Wants(p) \in Entry /\ itable[Wants(p)].ref > 0
  BY <1>2, Pointed
<1>4. Points(cwd[p], fd[p], pr[p], Wants(p))
  BY <1>2 DEF Points
<1>5. pr[p].pc \notin {"create_new", "unlink_ip"} => pr[p].dp = None
  BY <1>1, <1>2 DEF Shape, HasDp, Stage, Putting
<1>6. \A x \in Entry : Holds(pr[p], x) => x = pr[p].dp
  BY <1>2 DEF Holds, Stage, Putting
<1>7. None \notin Entry
  BY InodeAssumption DEF Entry
<1> QED
  BY <1>2, <1>3, <1>4, <1>5, <1>6, <1>7

\* Among processes that all wait, each for another one, the inodes they want would be a
\* cycle of directories.
LEMMA NoCircle ==
  ASSUME TableInv, TreeInv, NEW P \in SUBSET Proc, P # {}
  PROVE  \E p \in P : Wants(p) = None \/ lock[Wants(p)] \notin P
<1> SUFFICES ASSUME \A p \in P : Wants(p) # None /\ lock[Wants(p)] \in P
             PROVE  FALSE
  OBVIOUS
<1>1. ASSUME NEW p \in P
      PROVE  /\ Wants(p) \in Entry
             /\ \A x \in Entry : Holds(pr[p], x) =>
                  x = pr[p].dp /\ Wants(p) = pr[p].ip /\ pr[p].pc \in {"create_new", "unlink_ip"}
  BY HoldsWanting
<1>2. ASSUME NEW p \in P
      PROVE  \E q \in P : /\ Wants(p) = pr[q].dp /\ Wants(q) = pr[q].ip
                          /\ pr[q].pc \in {"create_new", "unlink_ip"}
  <2>1. PICK q \in P : q = lock[Wants(p)]
    OBVIOUS
  <2>2. Holds(pr[q], Wants(p))
    BY <1>1, <2>1 DEF TableInv, Locking
  <2> QED
    BY <1>1, <2>1, <2>2
<1>3. ASSUME NEW q \in P, Wants(q) = pr[q].ip, pr[q].pc \in {"create_new", "unlink_ip"}
      PROVE  \E m \in Name : dents[Ino(pr[q].dp)][m] = Ino(Wants(q))
  <2>1. Relies(cwd[q], fd[q], pr[q])
    BY DEF TreeInv, Reliable
  <2>2. pr[q].pc # "create_new"
    <3> SUFFICES ASSUME pr[q].pc = "create_new" PROVE FALSE
      OBVIOUS
    <3>1. Alone(pr[q], pr[q].ip) /\ pr[q].ip # pr[q].dp
      BY <2>1 DEF Relies, Alone
    <3>2. PICK r \in P : Wants(q) = pr[r].dp
      BY <1>2
    <3>3. Points(cwd[r], fd[r], pr[r], pr[q].ip) /\ pr[q].ip \in Entry
      BY <1>1, <1>3, <3>2 DEF Points
    <3>4. r = q
      BY <3>1, <3>3 DEF TreeInv, Apartness, Apart
    <3> QED
      BY <1>3, <3>1, <3>2, <3>4
  <2> QED
    BY <1>3, <2>1, <2>2 DEF Relies
<1>4. PICK S : S = {Ino(Wants(p)) : p \in P}
  OBVIOUS
<1>5. S \in SUBSET Inum /\ S # {}
  <2>1. \A x \in Entry : Ino(x) \in Inum
    BY DEF TableInv, Typed, Table, EntryRec, Ino
  <2> QED
    BY <1>1, <1>4, <2>1
<1>6. PICK i \in S : \A n \in Name : dents[i][n] \notin S
  BY <1>5 DEF TreeInv, Acyclic
<1>7. PICK p \in P : i = Ino(Wants(p))
  BY <1>4, <1>6
<1>8. PICK q \in P : /\ Wants(p) = pr[q].dp /\ Wants(q) = pr[q].ip
                     /\ pr[q].pc \in {"create_new", "unlink_ip"}
  BY <1>2
<1>9. PICK m \in Name : dents[Ino(pr[q].dp)][m] = Ino(Wants(q))
  BY <1>3, <1>8
<1>10. Ino(Wants(q)) \in S
  BY <1>4
<1> QED
  BY <1>6, <1>7, <1>8, <1>9, <1>10

\* Processes that wait for inode locks never wait in a circle, and iput() never waits:
\* directories are locked before what they contain (sysfile.c sys_unlink, create), as
\* long as no path leads through "..".
THEOREM NoWaitCycleAlways ==
  ASSUME NoDotDot
  PROVE  Spec => []NoWaitCycle
<1>1. ASSUME TableInv, TreeInv, NEW P \in SUBSET Proc, P # {}
      PROVE  \E p \in P : Wants(p) = None \/ lock[Wants(p)] \notin P
  BY <1>1, NoCircle
<1>2. ASSUME TableInv, NEW p \in Proc, pr[p].pc = "iput", itable[pr[p].put].ref = 1
      PROVE  lock[pr[p].put] = None
  <2>1. PICK e \in Entry : e = pr[p].put
    BY <1>2, ProcessIs, Pointed DEF Shape, Putting
  <2>2. /\ pr[p].ip # e /\ pr[p].dp # e
        /\ \A q \in Proc : q # p => pr[q].ip # e /\ pr[q].dp # e /\ pr[q].put # e
    BY <1>2, <2>1, OnlyPointer
  <2>3. \A q \in Proc : ~Holds(pr[q], e)
    BY <1>2, <2>2 DEF Holds
  <2>4. \A q \in Proc : lock[e] # q
    BY <1>2, <2>3 DEF TableInv, Locking
  <2> QED
    BY <1>2, <2>1, <2>4 DEF TableInv, Typed
<1>3. TableInv /\ TreeInv => NoWaitCycle
  BY <1>1, <1>2 DEF NoWaitCycle
<1> QED
  BY <1>3, TreeInvariant, PTL

\* ilock() never finds a freed inode ("ilock: no type"), and sys_unlink() never one
\* without links ("unlink: nlink < 1"), as long as no path leads through "..".
THEOREM NoPanicAlways ==
  ASSUME NoDotDot
  PROVE  Spec => []NoPanic
<1>1. ASSUME TableInv, TreeInv, NEW p \in Proc, Wants(p) # None
      PROVE  /\ Loaded(Wants(p)).type # "free"
             /\ pr[p].pc = "unlink_ip" => Loaded(Wants(p)).nlink > 0
  <2>1. PICK e \in Entry : e = Wants(p)
    BY <1>1, HoldsWanting
  <2>2. itable[e].ref > 0 /\ Points(cwd[p], fd[p], pr[p], e)
    BY <1>1, <2>1, HoldsWanting
  <2>3. Relies(cwd[p], fd[p], pr[p]) /\ Sound(itable, dinode) /\ Typed /\ Stakes
    BY <1>1 DEF TreeInv, Reliable, TableInv
  <2>4. TypeOf(e) # "free"
    BY <2>2, <2>3 DEF Relies
  <2>5. /\ Ino(e) \in Inum /\ Loaded(e).type = dinode[Ino(e)].type
        /\ Loaded(e).nlink = dinode[Ino(e)].nlink
    BY <2>2, <2>3, LoadedIs DEF Ino
  <2>6. ASSUME pr[p].pc = "unlink_ip" PROVE dinode[Ino(e)].nlink > 0
    <3>1. e = pr[p].ip /\ pr[p].dp # None
      BY <1>1, <2>1, <2>6, ProcessIs DEF Wants, Shape, HasDp, Stage, Putting
    <3>2. pr[p].dp \in Entry /\ Ino(pr[p].dp) \in Inum
      BY <1>1, <3>1, Pointed DEF TableInv, Typed, Table, EntryRec, Ino
    <3>3. PICK m \in Name : dents[Ino(pr[p].dp)][m] = Ino(e)
      BY <2>3, <2>6, <3>1 DEF Relies
    <3>4. <<Ino(pr[p].dp), m>> \in Links(Ino(e))
      BY <3>2, <3>3 DEF Links
    <3> QED
      BY <2>3, <2>5, <3>4, HasLinks
  <2> QED
    BY <2>1, <2>4, <2>5, <2>6 DEF TypeOf
<1>2. TableInv /\ TreeInv => NoPanic
  BY <1>1 DEF NoPanic
<1> QED
  BY <1>2, TreeInvariant, PTL
=============================================================================
