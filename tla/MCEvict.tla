------------------------------ MODULE MCEvict -------------------------------
(* The page cache of mmap2 with a record of when each page was really read, against
   which the replacement policies can be held.                                *)
EXTENDS Paging

VARIABLE used  \* the number of the access that last read each page

MCCalls == [prog : {"mmap2"}, workload : {0}, slots : {2, 3}, policy : {"LRU", "MRU"}]

UseInit == PageInit /\ used = [q \in 0 .. NPages - 1 |-> 0]

\* An access that finds its page is a use; one that faults is repeated after it.
UseNext ==
  /\ PageNext
  /\ used' = IF at = "read" /\ at' = "loop" THEN [used EXCEPT ![Page(pos)] = stats.total] ELSE used

UseSpec == UseInit /\ [][UseNext]_<<pagevars, used>>

=============================================================================
