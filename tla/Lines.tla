------------------------------- MODULE Lines --------------------------------
(* What the console promises its readers: a line is kept back while it can be
   edited, and handed over, in order and whole, once it has ended.            *)
EXTENDS Naturals, Sequences, SequencesExt

CONSTANTS Capacity, Ends, Plain

VARIABLES
  pend,  \* bytes that read() may take
  line   \* bytes that can still be erased

LinesInit == pend = <<>> /\ line = <<>>

\* A key is taken when there is room; the end of a line, or running out of room,
\* hands the line over.
Key(c) ==
  /\ Len(pend) + Len(line) < Capacity
  /\ IF c \in Ends \/ Len(pend) + Len(line) + 1 = Capacity
     THEN pend' = Append(pend \o line, c) /\ line' = <<>>
     ELSE line' = Append(line, c) /\ UNCHANGED pend

\* Backspace takes back the last byte of the line, never one handed over.
Erase == line # <<>> /\ line' = Front(line) /\ UNCHANGED pend

Kill == line' = <<>> /\ UNCHANGED pend

Take == pend # <<>> /\ pend' = Tail(pend) /\ UNCHANGED line

LinesSpec ==
  LinesInit /\ [][(\E c \in Ends \cup Plain : Key(c)) \/ Erase \/ Kill \/ Take]_<<pend, line>>
=============================================================================
