----------------------------- MODULE MCPrograms -----------------------------
(* Four programs that run by themselves, under one specification: which one runs
   is chosen at the start, the others rest in their initial states.           *)
EXTENDS Shell, Paging, Umalloc, MmDriver

VARIABLE program

Tokens == {"a"} \cup Symbols

\* Every line of up to three tokens and some longer ones; then one more pipeline.
MCTexts ==
  << UNION {[1 .. n -> Tokens] : n \in 0 .. 3} \cup
       {<<"cd ", "a">>, <<"cd">>, <<"a", "cd">>, <<"a", "|", "a", "|", "a">>, <<"a", "&", ";", "a">>,
        <<"(", "a", "|", "a", ")", ">", "a">>, <<"a", "|", "a", "&", ";", "a">>},
     {<<"a", "|", "a">>} >>

\* mmap2 with no slots, fewer slots than pages, and more than fit; and mmap1.
MCCalls ==
  [prog : {"mmap2"}, workload : {0, 1, 2}, slots : {0, 2, 3, 4}, policy : {"LRU", "MRU", "Clock"}]
    \cup {[prog |-> "mmap1", workload |-> 0, slots |-> 1, policy |-> "LRU"]}

Init ==
  /\ program \in {"sh", "mmap", "umalloc", "mm"}
  /\ ShInit /\ PageInit /\ HeapInit /\ MmInit
  /\ program = "mmap" \/ call.prog = "mmap1"

Next ==
  \/ program = "sh" /\ ShNext /\ UNCHANGED <<program, pagevars, heapvars, mmvars>>
  \/ program = "mmap" /\ PageNext /\ UNCHANGED <<program, shvars, heapvars, mmvars>>
  \/ program = "umalloc" /\ HeapNext /\ UNCHANGED <<program, shvars, pagevars, mmvars>>
  \/ program = "mm" /\ MmNext /\ UNCHANGED <<program, shvars, pagevars, heapvars>>

Spec == Init /\ [][Next]_<<program, shvars, pagevars, heapvars, mmvars>> /\ ShFair
=============================================================================
