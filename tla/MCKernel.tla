------------------------------ MODULE MCKernel ------------------------------
(* The file system layer and the memory of processes under one specification.  They
   share no state, so one of them works while the other one rests: which one is
   chosen at the start.                                                       *)
EXTENDS MCInode, Memory

CONSTANT NFrames

VARIABLE part

\* Page-table pages of three entries and pages of two bytes: 27 virtual pages, more
\* than there are frames.
MCFrame == 1 .. NFrames

Seg(vaddr, memsz, filesz, perm) == [vaddr |-> vaddr, memsz |-> memsz, filesz |-> filesz, perm |-> perm]

\* A text page; text and data with a hole between them; a segment that ends below
\* the one before it; an empty first segment.
MCImage == {<<Seg(0, 1, 1, {"X"})>>,
            <<Seg(0, 1, 1, {"X"}), Seg(4, 2, 1, {"W"})>>,
            <<Seg(2, 2, 2, {"X"}), Seg(0, 1, 1, {"W"})>>,
            <<Seg(0, 0, 0, {"X"})>>}
MCDelta == {-100, -3, -1, 0, 1, 4}

KernelInit == part \in {"files", "memory"} /\ Init /\ MemInit

KernelNext ==
  \/ part = "files" /\ Next /\ UNCHANGED <<part, memvars>>
  \/ part = "memory" /\ MemNext /\ UNCHANGED <<part, vars>>

KernelSpec == KernelInit /\ [][KernelNext]_<<part, vars, memvars>>

KernelView == <<part, View, memvars>>
=============================================================================
