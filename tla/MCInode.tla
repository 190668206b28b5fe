------------------------------- MODULE MCInode -------------------------------
(* A small instance of Inode for TLC.                                      *)
EXTENDS Inode, TLC

Abs(q) == [abs |-> TRUE, elems |-> q]
Rel(q) == [abs |-> FALSE, elems |-> q]

Call(o, q) == [op |-> o, path |-> q, new |-> q]

\* Files and directories called x, in the root or inside each other, and second
\* links called y.
MCCalls ==
  {Call("create", Rel(<<"x">>)), Call("mkdir", Rel(<<"x">>)),
   Call("chdir", Rel(<<"x">>)), Call("chdir", Abs(<<>>)),
   Call("open", Abs(<<"y">>)),
   Call("unlink", Rel(<<"x">>)), Call("unlink", Rel(<<"y">>)),
   [op |-> "link", path |-> Rel(<<"x">>), new |-> Rel(<<"y">>)]}

\* Fields of the inode table that are written before they are read again: those of
\* an entry without references, and the copy in an entry that is not valid.
View ==
  <<disk, lock, cwd, fd, pr, ncalls,
    [e \in Entry |->
       IF itable[e].ref = 0 THEN <<>>
       ELSE IF ~itable[e].valid THEN <<itable[e].inum, itable[e].ref>>
       ELSE <<itable[e]>>]>>

\* Processes are interchangeable.
Symmetry == Permutations(Proc)
=============================================================================
