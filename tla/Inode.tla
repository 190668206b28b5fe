-------------------------------- MODULE Inode --------------------------------
(***************************************************************************)
(* Inodes, directories and the system calls on path names in xv6           *)
(* (kernel/fs.c, kernel/sysfile.c): the inode table with its reference     *)
(* counts and sleep locks, link counts and directory entries on disk, and  *)
(* the freeing of an inode by the iput() that drops the last reference.    *)
(*                                                                         *)
(* A step is one critical section of itable.lock, or what a process does   *)
(* between ilock() and iunlock() without waiting in between.  A lock that  *)
(* is held while the process waits for another one is kept in lock.        *)
(* Module Log is about crashes; here every system call runs to its end.    *)
(***************************************************************************)
EXTENDS Integers, Sequences, FiniteSets, FiniteSetsExt

CONSTANTS Proc,
          NINUM,   \* inodes on disk; the table has an entry for each, so that
                   \* iget() finds one ("iget: no inodes" is left out)
          Name,    \* file names other than "." and ".."
          Block,   \* data blocks
          Calls,   \* the system calls that processes make on path names
          MaxCalls,  \* bound: how many of them are explored
          None

ASSUME InodeAssumption ==
  /\ NINUM \in Nat \ {0} /\ MaxCalls \in Nat
  /\ IsFiniteSet(Proc) /\ IsFiniteSet(Name)
  /\ Name \cap {".", ".."} = {}
  /\ None \notin 1..NINUM /\ None \notin Proc

Inum == 1..NINUM
Entry == 1..NINUM
ROOTINO == 1
AllNames == Name \cup {".", ".."}

\* A path as skipelem() sees it: whether it starts at the root, and its elements.
PathName == [abs : BOOLEAN, elems : Seq(AllNames)]

\* new is the second path of link.
ASSUME CallsAssumption ==
  Calls \subseteq [op : {"create", "mkdir", "chdir", "open", "unlink", "link"},
                  path : PathName, new : PathName]

VARIABLES
  dinode,   \* inodes on disk: type, nlink and blocks
  dents,    \* the entries of each directory, 0 where there is none
  bitmap,   \* blocks in use
  itable,   \* entries: inum, ref, valid and the copy of the disk inode
  lock,     \* who holds ip->lock
  cwd, fd,  \* a process's current directory and its one open file
  pr,       \* where each process is: see Process
  ncalls    \* system calls on path names so far

disk == <<dinode, dents, bitmap>>
mem == <<itable, lock>>
vars == <<disk, mem, cwd, fd, pr, ncalls>>

NoDents == [nm \in AllNames |-> 0]
Free == [type |-> "free", nlink |-> 0, blk |-> {}]

Labels == {"idle", "walk", "found", "iput", "ifree", "iref", "link_new",
           "link_bad", "link_put", "create_new", "create_old", "create_ret",
           "unlink_ip", "unlink_last", "unlock_dp"}

\* pc, and cont for the label after iput; the call and whether it walks its second
\* path; the rest of the path; and the inode pointers in local variables: that of
\* namex (cur), ip, dp, and the argument of iput.
Process ==
  [pc : Labels, cont : Labels, call : Calls \cup {None}, second : BOOLEAN,
   path : Seq(AllNames), cur : Entry \cup {None},
   ip : Entry \cup {None}, dp : Entry \cup {None}, put : Entry \cup {None}]

Idle == [pc |-> "idle", cont |-> "idle", call |-> None, second |-> FALSE,
         path |-> <<>>, cur |-> None, ip |-> None, dp |-> None,
         put |-> None]

Types == {"free", "dir", "file"}

TypeOK ==
  /\ dinode \in [Inum -> [type : Types, nlink : Nat, blk : SUBSET Block]]
  /\ dents \in [Inum -> [AllNames -> Inum \cup {0}]]
  /\ bitmap \subseteq Block
  /\ itable \in [Entry -> [inum : Inum, ref : Nat, valid : BOOLEAN, type : Types,
                           nlink : Nat, blk : SUBSET Block]]
  /\ lock \in [Entry -> Proc \cup {None}]
  /\ cwd \in [Proc -> Entry]
  /\ fd \in [Proc -> Entry \cup {None}]
  /\ pr \in [Proc -> Process]
  /\ ncalls \in 0..MaxCalls

\* An empty file system made by mkfs; every process is in the root directory.
Init ==
  /\ dinode = [i \in Inum |-> IF i = ROOTINO THEN [Free EXCEPT !.type = "dir", !.nlink = 1]
                                             ELSE Free]
  /\ dents = [i \in Inum |-> IF i = ROOTINO
                             THEN [NoDents EXCEPT !["."] = ROOTINO, ![".."] = ROOTINO]
                             ELSE NoDents]
  /\ bitmap = {}
  /\ itable = [e \in Entry |-> [inum |-> 1, ref |-> IF e = 1 THEN Cardinality(Proc) ELSE 0,
                                valid |-> FALSE, type |-> "free", nlink |-> 0, blk |-> {}]]
  /\ lock = [e \in Entry |-> None]
  /\ cwd = [p \in Proc |-> 1]
  /\ fd = [p \in Proc |-> None]
  /\ pr = [p \in Proc |-> Idle]
  /\ ncalls = 0

-----------------------------------------------------------------------------
(* Blocks and directory entries.                                           *)

bfree(bs) == bitmap \ bs

itrunc(n) == [n EXCEPT !.blk = {}]

\* The inode that name nm has in directory d, or 0.
dirlookup(d, nm) == dents[d][nm]

\* The directories after inode i gets name nm in d.
dirlink(d, nm, i) == [dents EXCEPT ![d][nm] = i]

-----------------------------------------------------------------------------
(* The inode table.                                                        *)

\* The entry iget(i) returns: the one that holds inode i, or the first empty one.
Slot(i) ==
  LET held == {e \in Entry : itable[e].ref > 0 /\ itable[e].inum = i}
  IN  IF held # {} THEN CHOOSE e \in held : TRUE
      ELSE Min({e \in Entry : itable[e].ref = 0})

\* The table tab after iget(i).
iget(tab, i) ==
  LET e == Slot(i)
      n == tab[e]
  IN  [tab EXCEPT ![e] = IF n.ref > 0 THEN [n EXCEPT !.ref = n.ref + 1]
                         ELSE [n EXCEPT !.inum = i, !.ref = 1, !.valid = FALSE]]

idup(tab, e) == [tab EXCEPT ![e].ref = @ + 1]

\* The entry as ilock() leaves it: read from the disk if it is not valid.
Loaded(e) ==
  LET d == dinode[itable[e].inum]
  IN  IF itable[e].valid THEN itable[e]
      ELSE [itable[e] EXCEPT !.valid = TRUE, !.type = d.type, !.nlink = d.nlink,
                             !.blk = d.blk]

At(p, l) == pr[p].pc = l

\* ilock(e) gets the lock, and finds an allocated inode.
Locks(e) == lock[e] = None /\ Loaded(e).type # "free"

\* The entry that process p is about to lock, where it may have to wait.
Wants(p) ==
  IF pr[p].pc = "found" \/ (pr[p].pc = "walk" /\ pr[p].path # <<>>) THEN pr[p].cur
  ELSE IF pr[p].pc \in {"link_bad", "create_old", "create_new", "unlink_ip"} THEN pr[p].ip
  ELSE None

\* iupdate(): the disk inode gets the copy in entry n.
iupdate(n) == [type |-> n.type, nlink |-> n.nlink, blk |-> n.blk]

\* Entry e becomes n, here and on disk.
Update(e, n) ==
  /\ itable' = [itable EXCEPT ![e] = n]
  /\ dinode' = [dinode EXCEPT ![n.inum] = iupdate(n)]

\* What a process's record becomes when its iput() is done; idle is end_op() and
\* the return from the system call.
AfterPut(r) == IF r.cont = "idle" THEN Idle ELSE [r EXCEPT !.pc = r.cont, !.put = None]

\* Mutant: other references are not counted.
iput_Any(p) ==
  LET e == pr[p].put IN
  /\ At(p, "iput")
  /\ IF itable[e].valid /\ itable[e].nlink = 0
     THEN /\ lock[e] = None
          /\ lock' = [lock EXCEPT ![e] = p]
          /\ pr' = [pr EXCEPT ![p].pc = "ifree"]
          /\ UNCHANGED itable
     ELSE /\ itable' = [itable EXCEPT ![e].ref = @ - 1]
          /\ pr' = [pr EXCEPT ![p] = AfterPut(@)]
          /\ UNCHANGED lock
  /\ UNCHANGED <<disk, cwd, fd, ncalls>>

iput(p) ==
  LET e == pr[p].put IN
  /\ At(p, "iput")
  /\ IF itable[e].ref = 1 /\ itable[e].valid /\ itable[e].nlink = 0
     THEN /\ lock[e] = None
          /\ lock' = [lock EXCEPT ![e] = p]
          /\ pr' = [pr EXCEPT ![p].pc = "ifree"]
          /\ UNCHANGED itable
     ELSE /\ itable' = [itable EXCEPT ![e].ref = @ - 1]
          /\ pr' = [pr EXCEPT ![p] = AfterPut(@)]
          /\ UNCHANGED lock
  /\ UNCHANGED <<disk, cwd, fd, ncalls>>

\* Mutant: the entry stays valid.
ifree_Valid(p) ==
  LET e == pr[p].put
      i == itable[e].inum
  IN
  /\ At(p, "ifree")
  /\ dinode' = [dinode EXCEPT ![i] = [@ EXCEPT !.type = "free", !.nlink = itable[e].nlink,
                                               !.blk = {}]]
  /\ dents' = [dents EXCEPT ![i] = NoDents]
  /\ bitmap' = bfree(itable[e].blk)
  /\ itable' = [itable EXCEPT ![e].type = "free", ![e].blk = {}]
  /\ lock' = [lock EXCEPT ![e] = None]
  /\ pr' = [pr EXCEPT ![p].pc = "iref"]
  /\ UNCHANGED <<cwd, fd, ncalls>>

\* Without itable.lock: itrunc(), type = 0, iupdate(), valid = 0, releasesleep().
ifree(p) ==
  LET e == pr[p].put
      i == itable[e].inum
  IN
  /\ At(p, "ifree")
  /\ dinode' = [dinode EXCEPT ![i] = [@ EXCEPT !.type = "free", !.nlink = itable[e].nlink,
                                               !.blk = {}]]
  /\ dents' = [dents EXCEPT ![i] = NoDents]
  /\ bitmap' = bfree(itable[e].blk)
  /\ itable' = [itable EXCEPT ![e].type = "free", ![e].blk = {}, ![e].valid = FALSE]
  /\ lock' = [lock EXCEPT ![e] = None]
  /\ pr' = [pr EXCEPT ![p].pc = "iref"]
  /\ UNCHANGED <<cwd, fd, ncalls>>

iref(p) ==
  /\ At(p, "iref")
  /\ itable' = [itable EXCEPT ![pr[p].put].ref = @ - 1]
  /\ pr' = [pr EXCEPT ![p] = AfterPut(@)]
  /\ UNCHANGED <<disk, lock, cwd, fd, ncalls>>

\* iput(e) comes next, and after it label l: what the process's record becomes.
PutThen(r, e, l) == [r EXCEPT !.pc = "iput", !.put = e, !.cont = l]

-----------------------------------------------------------------------------
(* Path names.                                                             *)

First(p, pa) == IF pa.abs THEN Slot(ROOTINO) ELSE cwd[p]

FirstRef(p, pa) == IF pa.abs THEN iget(itable, ROOTINO) ELSE idup(itable, cwd[p])

\* begin_op(), and the start of namex() for the call's first path.
start(p, c) ==
  /\ At(p, "idle") /\ ncalls < MaxCalls
  /\ ncalls' = ncalls + 1
  /\ itable' = FirstRef(p, c.path)
  /\ pr' = [pr EXCEPT ![p] = [Idle EXCEPT !.pc = "walk", !.call = c,
                               !.path = c.path.elems, !.cur = First(p, c.path)]]
  /\ UNCHANGED <<disk, lock, cwd, fd>>

\* nameiparent(), not namei()
Parent(p) == pr[p].second \/ pr[p].call.op \in {"create", "mkdir", "unlink"}

FailTo(p) == IF pr[p].second THEN "link_bad" ELSE "idle"

\* namex() gives up: what it holds is not a directory or has no such entry.
walk_fail(p) ==
  LET e == pr[p].cur
      n == Loaded(e)
      last == Parent(p) /\ Len(pr[p].path) = 1
  IN
  /\ At(p, "walk") /\ pr[p].path # <<>> /\ Locks(e)
  /\ n.type # "dir" \/ (~last /\ dirlookup(n.inum, Head(pr[p].path)) = 0)
  /\ itable' = [itable EXCEPT ![e] = n]
  /\ pr' = [pr EXCEPT ![p] = PutThen([@ EXCEPT !.cur = None], e, FailTo(p))]
  /\ UNCHANGED <<disk, lock, cwd, fd, ncalls>>

\* dirlookup() of the next name, iunlockput() of the directory.
namex(p) ==
  LET e == pr[p].cur
      n == Loaded(e)
      nm == Head(pr[p].path)
      i == dirlookup(n.inum, nm)
  IN
  /\ At(p, "walk") /\ pr[p].path # <<>> /\ Locks(e)
  /\ n.type = "dir" /\ i # 0
  /\ ~(Parent(p) /\ Len(pr[p].path) = 1)
  /\ itable' = iget([itable EXCEPT ![e] = n], i)
  /\ pr' = [pr EXCEPT ![p] = PutThen([@ EXCEPT !.cur = Slot(i),
                                                !.path = Tail(pr[p].path)], e, "walk")]
  /\ UNCHANGED <<disk, lock, cwd, fd, ncalls>>

\* The end of namex(): for nameiparent() one level early.
walk_parent(p) ==
  LET e == pr[p].cur IN
  /\ At(p, "walk") /\ Parent(p) /\ Len(pr[p].path) = 1 /\ Locks(e)
  /\ Loaded(e).type = "dir"
  /\ itable' = [itable EXCEPT ![e] = Loaded(e)]
  /\ pr' = [pr EXCEPT ![p].pc = "found"]
  /\ UNCHANGED <<disk, lock, cwd, fd, ncalls>>

walk_end(p) ==
  /\ At(p, "walk") /\ pr[p].path = <<>>
  /\ pr' = [pr EXCEPT ![p] =
              IF Parent(p) THEN PutThen([@ EXCEPT !.cur = None], @.cur, FailTo(p))
              ELSE [@ EXCEPT !.pc = "found"]]
  /\ UNCHANGED <<disk, mem, cwd, fd, ncalls>>

-----------------------------------------------------------------------------
(* open, chdir, close and write.                                           *)

\* Process p is at label l of system call o.
In(p, l, o) == At(p, l) /\ pr[p].call.op = o

\* Mutant: O_TRUNC forgets the blocks without bfree().
open_NoFree(p) ==
  LET e == pr[p].cur
      n == Loaded(e)
      opens == n.type = "file" /\ fd[p] = None
  IN
  /\ In(p, "found", "open") /\ Locks(e)
  /\ IF opens
     THEN /\ fd' = [fd EXCEPT ![p] = e]
          /\ Update(e, itrunc(n))
          /\ UNCHANGED bitmap
          /\ pr' = [pr EXCEPT ![p] = Idle]
     ELSE /\ itable' = [itable EXCEPT ![e] = n]
          /\ pr' = [pr EXCEPT ![p] = PutThen([@ EXCEPT !.cur = None], e, "idle")]
          /\ UNCHANGED <<dinode, bitmap, fd>>
  /\ UNCHANGED <<dents, lock, cwd, ncalls>>

\* open with O_RDWR | O_TRUNC: a directory is refused, and filealloc() or fdalloc()
\* refuse a second file.
open(p) ==
  LET e == pr[p].cur
      n == Loaded(e)
      opens == n.type = "file" /\ fd[p] = None
  IN
  /\ In(p, "found", "open") /\ Locks(e)
  /\ IF opens
     THEN /\ fd' = [fd EXCEPT ![p] = e]
          /\ Update(e, itrunc(n))
          /\ bitmap' = bfree(n.blk)
          /\ pr' = [pr EXCEPT ![p] = Idle]
     ELSE /\ itable' = [itable EXCEPT ![e] = n]
          /\ pr' = [pr EXCEPT ![p] = PutThen([@ EXCEPT !.cur = None], e, "idle")]
          /\ UNCHANGED <<dinode, bitmap, fd>>
  /\ UNCHANGED <<dents, lock, cwd, ncalls>>

\* Mutant: the old directory keeps its reference.
chdir_NoPut(p) ==
  LET e == pr[p].cur
      isdir == Loaded(e).type = "dir"
  IN
  /\ In(p, "found", "chdir") /\ Locks(e)
  /\ itable' = [itable EXCEPT ![e] = Loaded(e)]
  /\ cwd' = IF isdir THEN [cwd EXCEPT ![p] = e] ELSE cwd
  /\ pr' = [pr EXCEPT ![p] = IF isdir THEN Idle
                                ELSE PutThen([@ EXCEPT !.cur = None], e, "idle")]
  /\ UNCHANGED <<disk, lock, fd, ncalls>>

chdir(p) ==
  LET e == pr[p].cur
      isdir == Loaded(e).type = "dir"
  IN
  /\ In(p, "found", "chdir") /\ Locks(e)
  /\ itable' = [itable EXCEPT ![e] = Loaded(e)]
  /\ cwd' = IF isdir THEN [cwd EXCEPT ![p] = e] ELSE cwd
  /\ pr' = [pr EXCEPT ![p] = PutThen([@ EXCEPT !.cur = None],
                                     IF isdir THEN cwd[p] ELSE e, "idle")]
  /\ UNCHANGED <<disk, lock, fd, ncalls>>

close(p) ==
  /\ At(p, "idle") /\ fd[p] # None
  /\ fd' = [fd EXCEPT ![p] = None]
  /\ pr' = [pr EXCEPT ![p] = PutThen(@, fd[p], "idle")]
  /\ UNCHANGED <<disk, mem, cwd, ncalls>>

\* balloc(): any block that is free.
balloc(b) == b \notin bitmap /\ bitmap' = bitmap \cup {b}

\* The inode n with block b added to ip->addrs.
bmap(n, b) == [n EXCEPT !.blk = @ \cup {b}]

\* filewrite() of a block the file does not have yet.  Other writes, and those that
\* find the disk full, change nothing here.
write(p, b) ==
  LET e == fd[p] IN
  /\ At(p, "idle") /\ e # None
  /\ Locks(e) /\ Loaded(e).type = "file"
  /\ balloc(b)
  /\ Update(e, bmap(Loaded(e), b))
  /\ UNCHANGED <<dents, lock, cwd, fd, pr, ncalls>>

-----------------------------------------------------------------------------
(* link                                                                    *)

\* Mutant: the link is not counted.
link_NoCount(p) ==
  LET e == pr[p].cur
      n == Loaded(e)
  IN
  /\ In(p, "found", "link") /\ ~pr[p].second /\ Locks(e)
  /\ IF n.type = "dir"
     THEN /\ itable' = [itable EXCEPT ![e] = n]
          /\ pr' = [pr EXCEPT ![p] = PutThen([@ EXCEPT !.cur = None], e, "idle")]
          /\ UNCHANGED dinode
     ELSE /\ Update(e, n)
          /\ pr' = [pr EXCEPT ![p].pc = "link_new", ![p].ip = e, ![p].cur = None]
  /\ UNCHANGED <<dents, bitmap, lock, cwd, fd, ncalls>>

link(p) ==
  LET e == pr[p].cur
      n == Loaded(e)
  IN
  /\ In(p, "found", "link") /\ ~pr[p].second /\ Locks(e)
  /\ IF n.type = "dir"
     THEN /\ itable' = [itable EXCEPT ![e] = n]
          /\ pr' = [pr EXCEPT ![p] = PutThen([@ EXCEPT !.cur = None], e, "idle")]
          /\ UNCHANGED dinode
     ELSE /\ Update(e, [n EXCEPT !.nlink = @ + 1])
          /\ pr' = [pr EXCEPT ![p].pc = "link_new", ![p].ip = e, ![p].cur = None]
  /\ UNCHANGED <<dents, bitmap, lock, cwd, fd, ncalls>>

\* nameiparent(new)
link_new(p) ==
  LET pa == pr[p].call.new IN
  /\ At(p, "link_new")
  /\ itable' = FirstRef(p, pa)
  /\ pr' = [pr EXCEPT ![p] = [@ EXCEPT !.pc = "walk", !.second = TRUE,
                                        !.path = pa.elems, !.cur = First(p, pa)]]
  /\ UNCHANGED <<disk, lock, cwd, fd, ncalls>>

\* dirlink(): fails if the name exists or the disk is full.
link_dir(p) ==
  LET e == pr[p].cur
      n == Loaded(e)
      nm == Head(pr[p].path)
  IN
  /\ At(p, "found") /\ pr[p].second /\ Locks(e)
  /\ itable' = [itable EXCEPT ![e] = n]
  /\ \/ /\ dirlookup(n.inum, nm) = 0
        /\ dents' = dirlink(n.inum, nm, itable[pr[p].ip].inum)
        /\ pr' = [pr EXCEPT ![p] = PutThen([@ EXCEPT !.cur = None], e, "link_put")]
     \/ /\ pr' = [pr EXCEPT ![p] = PutThen([@ EXCEPT !.cur = None], e, "link_bad")]
        /\ UNCHANGED dents
  /\ UNCHANGED <<dinode, bitmap, lock, cwd, fd, ncalls>>

link_put(p) ==
  /\ At(p, "link_put")
  /\ pr' = [pr EXCEPT ![p] = PutThen([@ EXCEPT !.ip = None], @.ip, "idle")]
  /\ UNCHANGED <<disk, mem, cwd, fd, ncalls>>

link_bad(p) ==
  LET e == pr[p].ip IN
  /\ At(p, "link_bad") /\ Locks(e)
  /\ Update(e, [Loaded(e) EXCEPT !.nlink = @ - 1])
  /\ pr' = [pr EXCEPT ![p] = PutThen([@ EXCEPT !.ip = None], e, "idle")]
  /\ UNCHANGED <<dents, bitmap, lock, cwd, fd, ncalls>>

-----------------------------------------------------------------------------
(* unlink                                                                  *)

\* The parent directory stays locked while the inode is locked.
unlink(p) ==
  LET e == pr[p].cur
      n == Loaded(e)
      nm == Head(pr[p].path)
      i == dirlookup(n.inum, nm)
  IN
  /\ In(p, "found", "unlink") /\ Locks(e)
  /\ IF nm \in {".", ".."} \/ i = 0
     THEN /\ itable' = [itable EXCEPT ![e] = n]
          /\ pr' = [pr EXCEPT ![p] = PutThen([@ EXCEPT !.cur = None], e, "idle")]
          /\ UNCHANGED lock
     ELSE /\ itable' = iget([itable EXCEPT ![e] = n], i)
          /\ lock' = [lock EXCEPT ![e] = p]
          /\ pr' = [pr EXCEPT ![p] = [@ EXCEPT !.pc = "unlink_ip", !.dp = e, !.cur = None,
                                                !.ip = Slot(i)]]
  /\ UNCHANGED <<disk, cwd, fd, ncalls>>

isdirempty(i) == \A nm \in Name : dents[i][nm] = 0

\* Mutant: return without iunlockput(dp).
unlink_busy_Return(p) ==
  LET e == pr[p].ip
      n == Loaded(e)
  IN
  /\ At(p, "unlink_ip") /\ Locks(e) /\ n.nlink > 0
  /\ n.type = "dir" /\ ~isdirempty(n.inum)
  /\ itable' = [itable EXCEPT ![e] = n]
  /\ pr' = [pr EXCEPT ![p] = PutThen([@ EXCEPT !.ip = None], e, "idle")]
  /\ UNCHANGED <<disk, lock, cwd, fd, ncalls>>

unlink_busy(p) ==
  LET e == pr[p].ip
      n == Loaded(e)
  IN
  /\ At(p, "unlink_ip") /\ Locks(e) /\ n.nlink > 0
  /\ n.type = "dir" /\ ~isdirempty(n.inum)
  /\ itable' = [itable EXCEPT ![e] = n]
  /\ pr' = [pr EXCEPT ![p] = PutThen([@ EXCEPT !.ip = None], e, "unlock_dp")]
  /\ UNCHANGED <<disk, lock, cwd, fd, ncalls>>

unlock_dp(p) ==
  LET d == pr[p].dp IN
  /\ At(p, "unlock_dp")
  /\ lock' = [lock EXCEPT ![d] = None]
  /\ pr' = [pr EXCEPT ![p] = PutThen([@ EXCEPT !.dp = None], d, "idle")]
  /\ UNCHANGED <<disk, itable, cwd, fd, ncalls>>

\* The entry goes, the parent loses the link of "..", iunlockput(dp).
unlink_ip(p) ==
  LET e == pr[p].ip
      d == pr[p].dp
      n == Loaded(e)
      dn == [itable[d] EXCEPT !.nlink = @ - IF n.type = "dir" THEN 1 ELSE 0]
  IN
  /\ At(p, "unlink_ip") /\ Locks(e) /\ n.nlink > 0
  /\ n.type = "dir" => isdirempty(n.inum)
  /\ dents' = dirlink(dn.inum, Head(pr[p].path), 0)
  /\ itable' = [itable EXCEPT ![e] = n, ![d] = dn]
  /\ dinode' = [dinode EXCEPT ![dn.inum] = iupdate(dn)]
  /\ lock' = [lock EXCEPT ![d] = None, ![e] = p]
  /\ pr' = [pr EXCEPT ![p] = PutThen([@ EXCEPT !.dp = None], d, "unlink_last")]
  /\ UNCHANGED <<bitmap, cwd, fd, ncalls>>

unlink_last(p) ==
  LET e == pr[p].ip IN
  /\ At(p, "unlink_last")
  /\ Update(e, [itable[e] EXCEPT !.nlink = @ - 1])
  /\ lock' = [lock EXCEPT ![e] = None]
  /\ pr' = [pr EXCEPT ![p] = PutThen([@ EXCEPT !.ip = None], e, "idle")]
  /\ UNCHANGED <<dents, bitmap, cwd, fd, ncalls>>

-----------------------------------------------------------------------------
(* create() with sys_open() or sys_mkdir() around it.                      *)

FreeInums == {i \in Inum : dinode[i].type = "free"}

Creates(p) == In(p, "found", "create") \/ In(p, "found", "mkdir")

\* The name exists, or there is no free inode.
create(p) ==
  LET e == pr[p].cur
      n == Loaded(e)
      nm == Head(pr[p].path)
      i == dirlookup(n.inum, nm)
      r == [pr[p] EXCEPT !.cur = None]
  IN
  /\ Creates(p) /\ Locks(e)
  /\ i # 0 \/ FreeInums = {}
  /\ IF i # 0
     THEN /\ itable' = iget([itable EXCEPT ![e] = n], i)
          /\ pr' = [pr EXCEPT ![p] = PutThen([r EXCEPT !.ip = Slot(i)],
                                             e, "create_old")]
     ELSE /\ itable' = [itable EXCEPT ![e] = n]
          /\ pr' = [pr EXCEPT ![p] = PutThen(r, e, "idle")]
  /\ UNCHANGED <<disk, lock, cwd, fd, ncalls>>

\* ialloc() takes the first free inode; the parent stays locked.
ialloc(p) ==
  LET e == pr[p].cur
      n == Loaded(e)
      i == Min(FreeInums)
      type == IF pr[p].call.op = "mkdir" THEN "dir" ELSE "file"
  IN
  /\ Creates(p) /\ Locks(e)
  /\ dirlookup(n.inum, Head(pr[p].path)) = 0 /\ FreeInums # {}
  /\ dinode' = [dinode EXCEPT ![i] = [Free EXCEPT !.type = type]]
  /\ itable' = iget([itable EXCEPT ![e] = n], i)
  /\ lock' = [lock EXCEPT ![e] = p]
  /\ pr' = [pr EXCEPT ![p] = [@ EXCEPT !.pc = "create_new", !.dp = e, !.cur = None,
                                        !.ip = Slot(i)]]
  /\ UNCHANGED <<dents, bitmap, cwd, fd, ncalls>>

create_new(p) ==
  LET e == pr[p].ip
      d == pr[p].dp
      mkdir == pr[p].call.op = "mkdir"
      n == [Loaded(e) EXCEPT !.nlink = 1]
      dn == [itable[d] EXCEPT !.nlink = @ + IF mkdir THEN 1 ELSE 0]
      dots == [NoDents EXCEPT !["."] = n.inum, ![".."] = dn.inum]
  IN
  /\ At(p, "create_new") /\ Locks(e)
  /\ itable' = [itable EXCEPT ![e] = n, ![d] = dn]
  /\ dinode' = [dinode EXCEPT ![n.inum] = iupdate(n), ![dn.inum] = iupdate(dn)]
  /\ dents' = [dents EXCEPT ![dn.inum][Head(pr[p].path)] = n.inum,
                            ![n.inum] = IF mkdir THEN dots ELSE @]
  /\ lock' = [lock EXCEPT ![d] = None, ![e] = p]
  /\ pr' = [pr EXCEPT ![p] = PutThen([@ EXCEPT !.dp = None], d, "create_ret")]
  /\ UNCHANGED <<bitmap, cwd, fd, ncalls>>

\* dirlink() fails because the disk is full.
create_fail(p) ==
  LET e == pr[p].ip IN
  /\ At(p, "create_new") /\ Locks(e)
  /\ Update(e, [Loaded(e) EXCEPT !.nlink = 0])
  /\ pr' = [pr EXCEPT ![p] = PutThen([@ EXCEPT !.ip = None], e, "unlock_dp")]
  /\ UNCHANGED <<dents, bitmap, lock, cwd, fd, ncalls>>

\* Back in sys_open() with ip locked, or in sys_mkdir().
create_ret(p) ==
  LET e == pr[p].ip
      r == [pr[p] EXCEPT !.ip = None]
      opens == pr[p].call.op = "create" /\ fd[p] = None
  IN
  /\ At(p, "create_ret")
  /\ lock' = [lock EXCEPT ![e] = None]
  /\ fd' = IF opens THEN [fd EXCEPT ![p] = e] ELSE fd
  /\ pr' = [pr EXCEPT ![p] = IF opens THEN Idle
                                      ELSE PutThen(r, e, "idle")]
  /\ UNCHANGED <<disk, itable, cwd, ncalls>>

create_old(p) ==
  LET e == pr[p].ip
      r == [pr[p] EXCEPT !.ip = None]
      opens == /\ pr[p].call.op = "create" /\ fd[p] = None
               /\ Loaded(e).type = "file"
  IN
  /\ At(p, "create_old") /\ Locks(e)
  /\ itable' = [itable EXCEPT ![e] = Loaded(e)]
  /\ fd' = IF opens THEN [fd EXCEPT ![p] = e] ELSE fd
  /\ pr' = [pr EXCEPT ![p] = IF opens THEN Idle
                                      ELSE PutThen(r, e, "idle")]
  /\ UNCHANGED <<disk, lock, cwd, ncalls>>

-----------------------------------------------------------------------------

Next ==
  \/ \E p \in Proc :
       \/ iput(p) \/ ifree(p) \/ iref(p)
       \/ walk_fail(p) \/ namex(p) \/ walk_parent(p) \/ walk_end(p)
       \/ open(p) \/ chdir(p) \/ close(p)
       \/ link(p) \/ link_new(p) \/ link_dir(p) \/ link_put(p) \/ link_bad(p)
       \/ unlink(p) \/ unlink_busy(p) \/ unlock_dp(p) \/ unlink_ip(p) \/ unlink_last(p)
       \/ create(p) \/ ialloc(p) \/ create_new(p) \/ create_fail(p)
       \/ create_ret(p) \/ create_old(p)
  \/ \E p \in Proc, c \in Calls : start(p, c)
  \/ \E p \in Proc, b \in Block : write(p, b)

Spec == Init /\ [][Next]_vars

-----------------------------------------------------------------------------
(* Properties.                                                             *)

Holders(e) ==
  LET Count(x) == Cardinality({p \in Proc : x[p] = e})
      Local(f) == Cardinality({p \in Proc : pr[p][f] = e})
  IN  Count(cwd) + Count(fd) + Local("cur") + Local("ip") + Local("dp") + Local("put")

\* ip->ref "tracks the number of in-memory pointers to the entry", and no inode
\* has two entries: two processes that use one inode meet at one lock (fs.c iget,
\* idup, iput).
RefExact ==
  /\ \A e \in Entry : itable[e].ref = Holders(e)
  /\ \A e, f \in Entry :
       itable[e].ref > 0 /\ itable[f].ref > 0 /\ itable[e].inum = itable[f].inum => e = f

\* The copy in a valid entry is the inode on disk, also when the inode was freed
\* and allocated again while somebody kept the entry (fs.c iput: valid = 0 before
\* releasesleep; iupdate after every change).
CopyFresh ==
  \A e \in Entry :
    itable[e].ref > 0 /\ itable[e].valid => iupdate(itable[e]) = dinode[itable[e].inum]

\* Entries that name inode i, "." and ".." left out.
Links(i) == {l \in Inum \X Name : dents[l[1]][l[2]] = i}

\* No directory entry outlives its inode: an inode has at least as many links as
\* there are entries for it, whatever link, unlink and create do in between, and
\* the inodes of open files and current directories stay allocated.
NoDangling ==
  /\ \A i \in Inum : Cardinality(Links(i)) <= dinode[i].nlink
  /\ \A i \in Inum : Links(i) # {} => dinode[i].type # "free"
  /\ \A p \in Proc : /\ dinode[itable[cwd[p]].inum].type = "dir"
                     /\ fd[p] # None => dinode[itable[fd[p]].inum].type # "free"

\* iput(): "If that was the last reference and the inode has no links to it, free
\* the inode": an inode without links is free, or there still is a reference whose
\* iput() will free it.
Reclaimed ==
  \A i \in Inum :
    dinode[i].type # "free" /\ dinode[i].nlink = 0 =>
      \E e \in Entry : itable[e].ref > 0 /\ itable[e].inum = i

\* A block in use belongs to exactly one allocated inode, and no block of an inode
\* is free (fs.c balloc, bfree, itrunc: "freeing free block").
BlocksOwned ==
  /\ \A i, j \in Inum : i # j => dinode[i].blk \cap dinode[j].blk = {}
  /\ bitmap = UNION {dinode[i].blk : i \in Inum}
  /\ \A i \in Inum : dinode[i].type = "free" => dinode[i].blk = {}

\* No processes wait for each other's inode locks in a circle, however many they are:
\* directories are locked before what they contain (create, sys_unlink).  And iput()
\* never waits: "this acquiresleep() won't block".
NoWaitCycle ==
  /\ \A P \in SUBSET Proc :
       P # {} => \E p \in P : Wants(p) = None \/ lock[Wants(p)] \notin P
  /\ \A p \in Proc :
       LET e == pr[p].put IN
       /\ pr[p].pc = "iput"
       /\ itable[e].ref = 1 /\ itable[e].valid /\ itable[e].nlink = 0
       => lock[e] = None

\* ilock() never finds a freed inode ("ilock: no type") and unlink never one without
\* links ("unlink: nlink < 1"), as long as no path leads through "..".
NoPanic ==
  \A p \in Proc :
    LET e == Wants(p) IN
    e # None /\ lock[e] = None =>
      /\ Loaded(e).type # "free"
      /\ pr[p].pc = "unlink_ip" => Loaded(e).nlink > 0
=============================================================================
