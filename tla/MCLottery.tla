----------------------------- MODULE MCLottery ------------------------------
(* The lottery scheduler and the XMODEM transfer under one specification.  They
   share no state, so one of them works while the other one rests: which one is
   chosen at the start.                                                       *)
EXTENDS Lottery, Xmodem

VARIABLE part

\* Nothing, a part of a packet, a full packet that looks like control bytes, and
\* enough packets for number 4, which is also EOT, and for one more after it.
ShortFiles == {<<>>, <<7>>, <<24, 4>>, <<1, 1, 6, 21, 9, 4, 4, 3, 3>>}

\* What the proofs about the transfer assume of the checksum, for some bytes.
ASSUME ChecksumDetectsSome == Detects(Noise \cup {0, 128, 255})

\* More packets than a packet number can count.
LongFile == [j \in 1 .. 515 |-> (7 * j) % 256]
MCFiles == ShortFiles \cup {LongFile}
MCBudget(f) == IF f = LongFile THEN 0 ELSE 4

PartInit ==
  /\ part \in {"scheduler", "transfer"}
  /\ Init /\ XmInit
  /\ part = "transfer" \/ file = <<>>

PartNext ==
  \/ part = "scheduler" /\ Next /\ UNCHANGED <<part, xvars>>
  \/ part = "transfer" /\ XmNext /\ UNCHANGED <<part, vars>>

Scheduler == part = "scheduler"
Transfer == part = "transfer"

\* The fairness of FairSpec and of XmFairSpec, each where its part works.
PartSpec ==
  /\ PartInit
  /\ [][PartNext]_<<part, vars, xvars>>
  /\ \A c \in CPU :
       /\ WF_vars(Scheduler /\ Step(c))
       /\ WF_vars(Scheduler /\ (yield(c) \/ sleep(c) \/ exit(c)))
       /\ WF_vars(Scheduler /\ \E w \in 0..total_tickets[c] : draw(c, w))
  /\ SF_vars(Scheduler /\ \E c \in CPU : draw(c, 0))
  /\ WF_xvars(Transfer /\ Sender) /\ WF_xvars(Transfer /\ Receiver)

\* A runnable process is run in the end (NoStarvation), where the scheduler is the
\* part that works (proc_our.c scheduler).
LotteryIsFair == Scheduler => NoStarvation
=============================================================================
