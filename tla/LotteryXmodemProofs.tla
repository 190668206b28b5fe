------------------------ MODULE LotteryXmodemProofs -------------------------
(***************************************************************************)
(* Proofs about Lottery and about Xmodem, the two parts of MCLottery.      *)
(*                                                                         *)
(* Lottery, for any number of slots and CPUs and any tickets: a process is *)
(* on one CPU at a time although the CPUs draw independently, and a round  *)
(* switches to each slot at most once.                                     *)
(*                                                                         *)
(* Xmodem, for files, packets and numbers of errors of any size: what the  *)
(* receiver has written is a prefix of the file, and a side that reports   *)
(* success has told the truth.                                             *)
(***************************************************************************)
EXTENDS Lottery, Xmodem, TLAPS

\* A CPU has a process exactly while it runs it.
Runs == \A c \in CPU : phase[c] = "run" <=> cpu[c] # None

\* In a round a CPU has switched at most once to each slot that it has come to.
Ran ==
  \A c \in CPU :
    /\ phase[c] \in {"count", "draw"} => ran[c] = 0
    /\ phase[c] = "draw" => at[c] = 1
    /\ phase[c] = "scan" => ran[c] <= at[c] - 1
    /\ phase[c] \in {"run", "wfi"} => ran[c] <= at[c]

IInv == TypeOK /\ Runs /\ OneCPU /\ Ran

\* The size of the table, without the other constants.
LEMMA Sizes ==
  /\ NPROC \in Nat \ {0} /\ None \notin Slot /\ first \in Tickets
  /\ \A t \in Tickets : t \in Nat
  BY LotteryAssumption DEF Slot

LEMMA InitIInv == Init => IInv
  BY Sizes DEF Slot, Init, IInv, TypeOK, Runs, OneCPU, Ran

\* A CPU that leaves a slot of the second pass keeps the round's bookkeeping.
LEMMA PassSlotStep ==
  ASSUME IInv, NEW c \in CPU, NEW t \in Nat,
         phase[c] \in {"scan", "run"}, PassSlot(c, t)
  PROVE  /\ phase' \in [CPU -> {"count", "draw", "scan", "run", "wfi"}]
         /\ at' \in [CPU -> Slot]
         /\ total_tickets' \in [CPU -> Nat]
         /\ winning_ticket' \in [CPU -> Nat]
         /\ current_ticket' \in [CPU -> Nat]
         /\ found' \in [CPU -> BOOLEAN]
         /\ ran' \in [CPU -> 0..NPROC]
         /\ phase'[c] # "run"
         /\ \A d \in CPU \ {c} : phase'[d] = phase[d]
         /\ Ran'
<1> USE Sizes DEF Slot
<1>1. CASE NewRound(c)
  BY <1>1 DEF IInv, TypeOK, Ran, NewRound
<1>2. CASE at[c] < NPROC /\ ~NewRound(c)
  <2>1. /\ at' = [at EXCEPT ![c] = @ + 1]
        /\ phase' = [phase EXCEPT ![c] = "scan"]
        /\ current_ticket' = [current_ticket EXCEPT ![c] = @ + t]
        /\ UNCHANGED <<total_tickets, winning_ticket, found, ran>>
    BY <1>2 DEF PassSlot
  <2> QED
    BY <1>2, <2>1 DEF IInv, TypeOK, Ran
<1>3. CASE at[c] = NPROC /\ ~NewRound(c)
  <2>1. /\ phase' = [phase EXCEPT ![c] = "wfi"] /\ UNCHANGED at
        /\ current_ticket' = [current_ticket EXCEPT ![c] = @ + t]
        /\ UNCHANGED <<total_tickets, winning_ticket, found, ran>>
    BY <1>3 DEF PassSlot
  <2> QED
    BY <1>3, <2>1 DEF IInv, TypeOK, Ran
<1>4. at[c] \in 1 .. NPROC
  BY DEF IInv, TypeOK
<1>5. at[c] < NPROC \/ at[c] = NPROC
  BY <1>4
<1> QED
  BY <1>1, <1>2, <1>3, <1>5

\* The second pass goes past a slot.
LEMMA PastSlot ==
  ASSUME IInv, NEW c \in CPU, NEW t \in Nat, phase[c] = "scan", PassSlot(c, t),
         UNCHANGED <<state, tickets, cpu, context_switches>>
  PROVE  IInv'
<1>1. TypeOK'
  BY PassSlotStep DEF IInv, TypeOK
<1>2. Runs' /\ Ran'
  BY PassSlotStep DEF IInv, TypeOK, Runs
<1>3. OneCPU'
  BY DEF IInv, OneCPU
<1> QED
  BY <1>1, <1>2, <1>3 DEF IInv

\* The process goes back to its scheduler with state st.
LEMMA SwitchBackStep ==
  ASSUME IInv, NEW c \in CPU, NEW st \in {"RUNNABLE", "SLEEPING", "ZOMBIE"},
         SwitchBack(c, st)
  PROVE  IInv'
<1> USE Sizes DEF Slot
<1>1. cpu[c] \in Slot /\ phase[c] = "run"
  BY DEF SwitchBack, IInv, TypeOK, Runs
<1>2. TypeOK'
  <2>1. context_switches' \in [CPU -> 0..2]
    <3>1. context_switches[c] \in 0..2
      BY DEF IInv, TypeOK
    <3>2. (context_switches[c] + 1) % 3 \in 0..2
      BY <3>1
    <3> QED
      BY <3>2 DEF SwitchBack, IInv, TypeOK
  <2> QED
    BY <1>1, <2>1, PassSlotStep DEF SwitchBack, IInv, TypeOK
<1>3. Runs' /\ Ran'
  BY <1>1, PassSlotStep DEF SwitchBack, IInv, TypeOK, Runs
<1>4. OneCPU'
  BY <1>1 DEF SwitchBack, IInv, TypeOK, OneCPU
<1> QED
  BY <1>2, <1>3, <1>4 DEF IInv

LEMMA NextIInv == IInv /\ [Next]_vars => IInv'
<1> SUFFICES ASSUME IInv, [Next]_vars PROVE IInv'
  OBVIOUS
<1> USE Sizes DEF Slot
<1>1. ASSUME NEW c \in CPU, count(c)
      PROVE  IInv'
  <2>1. total_tickets' \in [CPU -> Nat]
    <3>1. (IF state[at[c]] = "RUNNABLE" THEN tickets[at[c]] ELSE 0) \in Nat
      BY DEF IInv, TypeOK
    <3>2. total_tickets[c] \in Nat
      BY DEF IInv, TypeOK
    <3> QED
      BY <1>1, <3>1, <3>2 DEF IInv, TypeOK, count
  <2>2. at' \in [CPU -> Slot]
    <3>1. at[c] \in Slot /\ (at[c] < NPROC => at[c] + 1 \in Slot) /\ 1 \in Slot
      BY DEF IInv, TypeOK
    <3>2. at \in [CPU -> Slot] /\ at' = [at EXCEPT ![c] = IF at[c] < NPROC THEN at[c] + 1 ELSE 1]
      BY <1>1 DEF IInv, TypeOK, count
    <3>3. (IF at[c] < NPROC THEN at[c] + 1 ELSE 1) \in Slot
      BY <3>1
    <3> QED
      BY <3>2, <3>3
  <2>3. TypeOK'
    BY <1>1, <2>1, <2>2 DEF IInv, TypeOK, count, table
  <2>4. Runs' /\ OneCPU'
    BY <1>1 DEF IInv, TypeOK, Runs, OneCPU, count, table
  <2>5. Ran'
    BY <1>1 DEF IInv, TypeOK, Ran, count
  <2> QED
    BY <2>3, <2>4, <2>5 DEF IInv
<1>2. ASSUME NEW c \in CPU, draw_none(c)
      PROVE  IInv'
  BY <1>2 DEF IInv, TypeOK, Runs, OneCPU, Ran, draw_none, table, locals
<1>3. ASSUME NEW c \in CPU, NEW w \in 0..total_tickets[c], draw(c, w)
      PROVE  IInv'
  BY <1>3 DEF IInv, TypeOK, Runs, OneCPU, Ran, draw, table
<1>4. ASSUME NEW c \in CPU, scan_skip(c)
      PROVE  IInv'
  <2>1. /\ PassSlot(c, 0) /\ 0 \in Nat /\ phase[c] = "scan"
        /\ UNCHANGED <<state, tickets, cpu, context_switches>>
    BY <1>4 DEF scan_skip, table
  <2> QED
    BY <2>1, PastSlot
<1>5. ASSUME NEW c \in CPU, scan_run(c)
      PROVE  IInv'
  <2>1. at[c] \in Slot /\ cpu[c] = None
    BY <1>5 DEF IInv, TypeOK, Runs, scan_run
  <2>2. TypeOK'
    <3>1. ran' \in [CPU -> 0..NPROC]
      BY <1>5 DEF IInv, TypeOK, Ran, scan_run
    <3>2. current_ticket' \in [CPU -> Nat]
      <4>1. tickets[at[c]] \in Nat /\ current_ticket[c] \in Nat
        BY DEF IInv, TypeOK
      <4> QED
        BY <1>5, <4>1 DEF IInv, TypeOK, scan_run
    <3> QED
      BY <1>5, <2>1, <3>1, <3>2 DEF IInv, TypeOK, scan_run
  <2>3. Runs' /\ Ran'
    BY <1>5, <2>1 DEF IInv, TypeOK, Runs, Ran, scan_run
  <2>4. OneCPU'
    <3>1. /\ state' = [state EXCEPT ![at[c]] = "RUNNING"]
          /\ cpu' = [cpu EXCEPT ![c] = at[c]]
          /\ state[at[c]] = "RUNNABLE"
      BY <1>5 DEF scan_run
    <3>2. \A d \in CPU : cpu[d] # at[c]
      BY <2>1, <3>1 DEF IInv, OneCPU
    <3> QED
      BY <2>1, <3>1, <3>2 DEF IInv, TypeOK, OneCPU
  <2> QED
    BY <2>2, <2>3, <2>4 DEF IInv
<1>6. ASSUME NEW c \in CPU, scan_lose(c)
      PROVE  IInv'
  <2>1. tickets[at[c]] \in Nat
    BY DEF IInv, TypeOK
  <2>2. /\ PassSlot(c, tickets[at[c]]) /\ phase[c] = "scan"
        /\ UNCHANGED <<state, tickets, cpu, context_switches>>
    BY <1>6 DEF scan_lose, table
  <2> QED
    BY <2>1, <2>2, PastSlot
<1>7. ASSUME NEW c \in CPU, interrupt(c)
      PROVE  IInv'
  <2>1. TypeOK'
    BY <1>7 DEF IInv, TypeOK, interrupt, NewRound, table
  <2>2. Runs' /\ OneCPU'
    BY <1>7 DEF IInv, TypeOK, Runs, OneCPU, interrupt, NewRound, table
  <2>3. Ran'
    BY <1>7 DEF IInv, TypeOK, Ran, interrupt, NewRound
  <2> QED
    BY <2>1, <2>2, <2>3 DEF IInv
<1>8. ASSUME NEW c \in CPU, yield(c) \/ sleep(c) \/ exit(c)
      PROVE  IInv'
  BY <1>8, SwitchBackStep DEF yield, sleep, exit
<1>9. ASSUME NEW c \in CPU, NEW s \in Slot, wait(c, s)
      PROVE  IInv'
  BY <1>9 DEF IInv, TypeOK, Runs, OneCPU, Ran, wait, freeproc, locals
<1>10. ASSUME NEW c \in CPU, NEW s \in Slot, NEW t \in Tickets, fork(c, s, t)
       PROVE  IInv'
  BY <1>10 DEF IInv, TypeOK, Runs, OneCPU, Ran, fork, allocproc, locals
<1>11. ASSUME NEW s \in Slot, wakeup(s)
       PROVE  IInv'
  BY <1>11 DEF IInv, TypeOK, Runs, OneCPU, Ran, wakeup, locals
<1>12. CASE UNCHANGED vars
  BY <1>12 DEF IInv, TypeOK, Runs, OneCPU, Ran, vars, table, locals
<1> QED
  BY <1>1, <1>2, <1>3, <1>4, <1>5, <1>6, <1>7, <1>8, <1>9, <1>10, <1>11, <1>12
    DEF Next, Step

LEMMA Invariance == Spec => []IInv
  BY InitIInv, NextIInv, PTL DEF Spec

\* Two CPUs whose second passes come to the same winner do not both run it, and a
\* process is RUNNING exactly while a CPU has it (proc_our.c scheduler, sched).
THEOREM OneCPUPerProcess == Spec => []OneCPU
<1>1. IInv => OneCPU
  BY DEF IInv
<1> QED
  BY <1>1, Invariance, PTL

\* A CPU switches to no slot twice in one round, though it may switch to several
\* slots after a single draw (proc_our.c scheduler: the second pass has no break).
THEOREM RoundIsBounded == Spec => [](\A c \in CPU : ran[c] <= at[c])
<1>1. IInv => \A c \in CPU : ran[c] <= at[c]
  <2> SUFFICES ASSUME IInv, NEW c \in CPU PROVE ran[c] <= at[c]
    OBVIOUS
  <2>1. at[c] \in 1..NPROC /\ ran[c] \in 0..NPROC
    BY DEF IInv, TypeOK, Slot
  <2>2. phase[c] \in {"count", "draw", "scan", "run", "wfi"}
    BY DEF IInv, TypeOK
  <2> QED
    BY <2>1, <2>2, Sizes DEF IInv, Ran
<1> QED
  BY <1>1, Invariance, PTL

-----------------------------------------------------------------------------
(***************************************************************************)
(* Xmodem: what is taken from the line and the checksum.                   *)
(***************************************************************************)

Byte == 0..255

\* What the proofs take from the checksum.  get_checksum is a fold, so TLC checks this,
\* for some bytes (MCLottery).
ChecksumDetects == Detects(Byte)

\* The line does not turn a reply into ACK: the protocol could not see that.
NoFalseAck == ACK \notin Noise

-----------------------------------------------------------------------------
(***************************************************************************)
(* The inductive invariant.                                                *)
(***************************************************************************)

Failed == {"InvalidData", "ConnectionAborted", "BrokenPipe"}

Pos(d) == d * LEN
Pad(j) == IF j <= Len(file) THEN file[j] ELSE 0

LineTypes ==
  /\ file \in Files
  /\ toR \in Seq(Byte) /\ toS \in Seq(Byte)
  /\ rbuf \in Seq(Byte) /\ into \in Seq(Byte)

\* There is data after the first d packets.
More(d) == Pos(d) < Len(file)

\* The transmitter has had d packets acknowledged, and the receiver has written a.
Sends(d) ==
  /\ spacket = (d + 1) % 256 /\ Pos(d) < Len(file) + LEN
  /\ offset = IF More(d) THEN Pos(d) ELSE Len(file)
  /\ written = offset

Has(a) ==
  /\ rpacket = (a + 1) % 256 /\ Pos(a) < Len(file) + LEN
  /\ received = Pos(a) /\ Len(into) = Pos(a)
  /\ \A j \in 1..Len(into) : into[j] = Pad(j)

\* A frame as it is on the line, and what is left of it after m bytes.
Frames == Sent(WholePacket, 0) \cup Sent(WholePacket, 1)
Left(F, m) == Len(toR) = LEN + 4 - m /\ \A j \in 1..Len(toR) : toR[j] = F[m + j]

Starting(d, a) ==
  /\ spc = "start" /\ toR = <<>> /\ d = 0 /\ a = 0
  /\ (rpc = "start" /\ toS = <<>>) \/ (rpc = "first" /\ Len(toS) = 1)

\* The transmitter has the turn; it may have to repeat a packet that has arrived.
Turn(d, a) ==
  /\ spc = "write" /\ rpc = "first" /\ toR = <<>> /\ toS = <<>>
  /\ a = d \/ (a = d + 1 /\ More(d))

\* The receiver reads a frame, and so far it is what it expects.
Reading(F) ==
  \/ rpc = "first" /\ Left(F, 0)
  \/ rpc = "number" /\ Left(F, 1)
  \/ rpc = "complement" /\ Left(F, 2) /\ F[2] = rpacket
  \/ rpc = "data" /\ Left(F, 3) /\ F[2] = rpacket /\ F[3] = 255 - rpacket
  \/ /\ rpc = "checksum" /\ Left(F, LEN + 3) /\ F[2] = rpacket /\ F[3] = 255 - rpacket
     /\ rbuf = [j \in 1..LEN |-> F[3 + j]]

Sending(d, a) ==
  /\ spc = "reply" /\ toS = <<>> /\ More(d) /\ a \in {d, d + 1}
  /\ \E F \in Frames : Reading(F)

\* The reply is on the line; ACK means that the packet has arrived.
Replying(d, a) ==
  /\ spc = "reply" /\ rpc = "first" /\ toR = <<>> /\ Len(toS) = 1 /\ More(d)
  /\ (a = d /\ toS[1] # ACK) \/ a = d + 1

\* The end of the file has been reached on both sides.
Ending(d, a) ==
  /\ ~More(d) /\ a = d
  /\ \/ spc = "eot1" /\ rpc = "first" /\ Len(toR) = 1 /\ toS = <<>>
     \/ spc = "eot1" /\ rpc = "number" /\ toR = <<>> /\ toS = <<>>
     \/ spc = "eot1" /\ rpc = "eot" /\ toR = <<>> /\ Len(toS) = 1
     \/ spc = "eot2" /\ rpc = "eot" /\ Len(toR) = 1 /\ toS = <<>>
     \/ spc \in {"eot2", "ok"} \cup Failed /\ rpc = "ok"

\* The receiver took a damaged SOH for EOT; the byte that follows is a packet number.
Misled(d) ==
  /\ rpc = "eot" /\ toR # <<>> /\ (toR[1] = EOT => rpacket \in {EOT, EOT + 1})
  /\ \/ spc \in Failed
     \/ /\ spc \in {"write", "reply"} /\ More(d)
        /\ toS = <<>> \/ (Len(toS) = 1 /\ toS[1] # ACK)

\* It also took the packet number for EOT, and is done.
Fooled(d) ==
  /\ rpc = "ok" /\ rpacket \in {EOT, EOT + 1}
  /\ \/ spc \in Failed
     \/ spc \in {"write", "reply", "eot1"} /\ toS = <<>>
     \/ /\ spc \in {"write", "reply"} /\ More(d)
        /\ Len(toS) = 1 \/ (Len(toS) = 2 /\ toS[1] # ACK)

ReceiverFailed ==
  /\ rpc \in Failed
  /\ \/ spc \in Failed
     \/ /\ spc \in {"write", "reply", "eot1", "eot2"}
        /\ \A j \in 1..Len(toS) : toS[j] # ACK

SenderFailed ==
  /\ spc \in Failed
  /\ (rpc = "first" /\ Len(toR) <= 1) \/ (rpc \in {"number", "eot"} /\ toR = <<>>)

Situation(d, a) ==
  \/ Starting(d, a) \/ Turn(d, a) \/ Sending(d, a) \/ Replying(d, a) \/ Ending(d, a)
  \/ Misled(d) \/ Fooled(d) \/ ReceiverFailed \/ SenderFailed

Stage == \E d, a \in Nat : Sends(d) /\ Has(a) /\ Situation(d, a)

XInv == LineTypes /\ Stage

-----------------------------------------------------------------------------
(***************************************************************************)
(* Sequences.                                                              *)
(***************************************************************************)

LEMMA SeqElement ==
  ASSUME NEW B, NEW s \in Seq(B), NEW i \in 1..Len(s)
  PROVE  s[i] \in B
OBVIOUS

LEMMA SeqEmpty ==
  ASSUME NEW B, NEW s \in Seq(B)
  PROVE  Len(s) \in Nat /\ (Len(s) = 0 <=> s = <<>>)
OBVIOUS

LEMMA SeqCat ==
  ASSUME NEW B, NEW s \in Seq(B), NEW t \in Seq(B), NEW u, u = s \o t
  PROVE  /\ u \in Seq(B) /\ Len(u) = Len(s) + Len(t)
         /\ \A i \in 1..Len(s) : u[i] = s[i]
         /\ \A i \in 1..Len(t) : u[Len(s) + i] = t[i]
<1>1. u \in Seq(B) /\ Len(u) = Len(s) + Len(t)
  OBVIOUS
<1>2. \A i \in 1..Len(s) : u[i] = s[i]
  OBVIOUS
<1>3. \A i \in 1..Len(t) : u[Len(s) + i] = t[i]
  OBVIOUS
<1> QED
  BY <1>1, <1>2, <1>3

LEMMA SeqOne ==
  ASSUME NEW B, NEW x \in B
  PROVE  <<x>> \in Seq(B) /\ Len(<<x>>) = 1 /\ <<x>>[1] = x
OBVIOUS

LEMMA SeqThree ==
  ASSUME NEW B, NEW x \in B, NEW y \in B, NEW z \in B
  PROVE  /\ <<x, y, z>> \in Seq(B) /\ Len(<<x, y, z>>) = 3
         /\ <<x, y, z>>[1] = x /\ <<x, y, z>>[2] = y /\ <<x, y, z>>[3] = z
OBVIOUS

LEMMA SeqFunction ==
  ASSUME NEW B, NEW n \in Nat, NEW f \in [1..n -> B]
  PROVE  f \in Seq(B) /\ Len(f) = n
OBVIOUS

LEMMA SameFunction ==
  ASSUME NEW A, NEW B, NEW f \in [A -> B], NEW g \in [A -> B], \A i \in A : f[i] = g[i]
  PROVE  f = g
OBVIOUS

LEMMA SeqExcept ==
  ASSUME NEW B, NEW s \in Seq(B), NEW k \in 1..Len(s), NEW x \in B
  PROVE  /\ [s EXCEPT ![k] = x] \in Seq(B) /\ Len([s EXCEPT ![k] = x]) = Len(s)
         /\ [s EXCEPT ![k] = x][k] = x
         /\ \A j \in 1..Len(s) : j # k => [s EXCEPT ![k] = x][j] = s[j]
<1>1. PICK n \in Nat : n = Len(s)
  BY SeqEmpty
<1>2. s \in [1..n -> B]
  BY <1>1
<1>3. PICK t : t = [s EXCEPT ![k] = x]
  OBVIOUS
<1>4. t \in [1..n -> B] /\ t[k] = x /\ \A j \in 1..n : j # k => t[j] = s[j]
  BY <1>1, <1>2, <1>3
<1>5. t \in Seq(B) /\ Len(t) = n
  BY <1>4, SeqFunction
<1> QED
  BY <1>1, <1>3, <1>4, <1>5

LEMMA SeqTail ==
  ASSUME NEW B, NEW s \in Seq(B), s # <<>>
  PROVE  /\ Tail(s) \in Seq(B) /\ Len(Tail(s)) = Len(s) - 1 /\ Len(s) \in Nat \ {0}
         /\ Head(s) = s[1] /\ s[1] \in B
         /\ \A j \in 1..(Len(s) - 1) : Tail(s)[j] = s[j + 1]
<1>1. Len(s) \in Nat \ {0}
  OBVIOUS
<1>2. Head(s) = s[1] /\ s[1] \in B
  BY <1>1
<1>3. Tail(s) \in Seq(B) /\ Len(Tail(s)) = Len(s) - 1
  OBVIOUS
<1>4. \A j \in 1..(Len(s) - 1) : Tail(s)[j] = s[j + 1]
  BY <1>1
<1> QED
  BY <1>1, <1>2, <1>3, <1>4

LEMMA SeqRest ==
  ASSUME NEW B, NEW s \in Seq(B), NEW n \in Nat, n <= Len(s)
  PROVE  /\ SubSeq(s, 1, n) \in Seq(B) /\ SubSeq(s, 1, n) = [j \in 1..n |-> s[j]]
         /\ SubSeq(s, n + 1, Len(s)) \in Seq(B) /\ Len(SubSeq(s, n + 1, Len(s))) = Len(s) - n
         /\ \A j \in 1..(Len(s) - n) : SubSeq(s, n + 1, Len(s))[j] = s[n + j]
<1>1. SubSeq(s, 1, n) \in Seq(B)
  OBVIOUS
<1>2. SubSeq(s, 1, n) = [j \in 1..n |-> s[j]]
  OBVIOUS
<1>3. SubSeq(s, n + 1, Len(s)) \in Seq(B) /\ Len(SubSeq(s, n + 1, Len(s))) = Len(s) - n
  OBVIOUS
<1>4. \A j \in 1..(Len(s) - n) : SubSeq(s, n + 1, Len(s))[j] = s[n + j]
  OBVIOUS
<1> QED
  BY <1>1, <1>2, <1>3, <1>4

-----------------------------------------------------------------------------
(***************************************************************************)
(* Positions, frames and what the line makes of them.                      *)
(***************************************************************************)

LEMMA PosFacts ==
  /\ Pos(0) = 0
  /\ \A d \in Nat : Pos(d) \in Nat /\ Pos(d + 1) = Pos(d) + LEN
<1>1. LEN \in Nat
  BY XmodemAssumption
<1> QED
  BY <1>1 DEF Pos

LEMMA FileIs ==
  ASSUME LineTypes
  PROVE  file \in Seq(Byte) /\ Len(file) \in Nat
BY XmodemAssumption, SeqEmpty DEF LineTypes, Byte

LEMMA OffsetIs ==
  ASSUME LineTypes, NEW d \in Nat, Sends(d)
  PROVE  /\ offset \in Nat /\ spacket \in Byte /\ written = offset
         /\ (ReadMax = 0 <=> ~More(d)) /\ (~More(d) => offset = Len(file))
         /\ More(d) => offset = Pos(d)
<1>1. Pos(d) \in Nat /\ Len(file) \in Nat /\ LEN \in Nat \ {0}
  BY PosFacts, FileIs, XmodemAssumption
<1>2. offset \in Nat /\ (More(d) => offset = Pos(d)) /\ (~More(d) => offset = Len(file))
  BY <1>1 DEF Sends
<1>3. More(d) <=> Pos(d) < Len(file)
  BY DEF More
<1>4. ReadMax = 0 <=> ~More(d)
  BY <1>1, <1>2, <1>3 DEF ReadMax
<1>5. spacket \in Byte
  BY DEF Sends, Byte
<1> QED
  BY <1>2, <1>4, <1>5 DEF Sends

LEMMA PacketIs ==
  ASSUME LineTypes, offset \in Nat
  PROVE  Packet \in [1..LEN -> Byte]
<1>1. file \in Seq(Byte) /\ Len(file) \in Nat /\ LEN \in Nat
  BY FileIs, XmodemAssumption
<1>2. ASSUME NEW j \in 1..LEN
      PROVE  (IF offset + j <= Len(file) THEN file[offset + j] ELSE 0) \in Byte
  <2>1. CASE offset + j <= Len(file)
    <3>1. offset + j \in 1..Len(file)
      BY <1>1, <2>1
    <3> QED
      BY <1>1, <2>1, <3>1, SeqElement
  <2>2. CASE ~(offset + j <= Len(file))
    BY <2>2 DEF Byte
  <2> QED
    BY <2>1, <2>2
<1> QED
  BY <1>2 DEF Packet

LEMMA FrameIs ==
  ASSUME LineTypes, ChecksumDetects, offset \in Nat, spacket \in Byte
  PROVE  /\ WholePacket \in Seq(Byte) /\ Len(WholePacket) = LEN + 4
         /\ WholePacket[1] = SOH /\ WholePacket[2] = spacket /\ WholePacket[3] = 255 - spacket
         /\ \A j \in 1..LEN : WholePacket[3 + j] = Packet[j]
         /\ WholePacket[LEN + 4] = get_checksum(Packet)
<1>1. PICK P \in [1..LEN -> Byte] : P = Packet
  BY PacketIs
<1>2. PICK c \in Byte : c = get_checksum(P)
  BY ChecksumDetects DEF ChecksumDetects, Detects, Byte
<1>3. LEN \in Nat
  BY XmodemAssumption
<1>4. P \in Seq(Byte) /\ Len(P) = LEN
  BY <1>3, SeqFunction
<1>5. PICK h : h = <<1, spacket, 255 - spacket>>
  OBVIOUS
<1>6. /\ h \in Seq(Byte) /\ Len(h) = 3
      /\ h[1] = 1 /\ h[2] = spacket /\ h[3] = 255 - spacket
  <2>1. 1 \in Byte /\ 255 - spacket \in Byte
    BY DEF Byte
  <2> QED
    BY <1>5, <2>1, SeqThree
<1>7. PICK hp : hp = h \o P
  OBVIOUS
<1>8. /\ hp \in Seq(Byte) /\ Len(hp) = LEN + 3
      /\ \A j \in 1..3 : hp[j] = h[j]
      /\ \A j \in 1..LEN : hp[3 + j] = P[j]
  <2>1. h \in Seq(Byte) /\ P \in Seq(Byte)
    BY <1>4, <1>6
  <2>2. /\ hp \in Seq(Byte) /\ Len(hp) = Len(h) + Len(P)
        /\ \A j \in 1..Len(h) : hp[j] = h[j]
        /\ \A j \in 1..Len(P) : hp[Len(h) + j] = P[j]
    BY <1>7, <2>1, SeqCat
  <2> QED
    BY <1>3, <1>4, <1>6, <2>2
<1>9. WholePacket = hp \o <<c>>
  BY <1>1, <1>2, <1>5, <1>7 DEF WholePacket, SOH
<1>10. PICK w : w = hp \o <<c>>
  OBVIOUS
<1>11. /\ w \in Seq(Byte) /\ Len(w) = LEN + 4
       /\ \A j \in 1..(LEN + 3) : w[j] = hp[j]
       /\ w[LEN + 4] = c
  <2>1. <<c>> \in Seq(Byte) /\ Len(<<c>>) = 1 /\ <<c>>[1] = c
    BY SeqOne
  <2>2. PICK s : s = <<c>>
    OBVIOUS
  <2>3. /\ w \in Seq(Byte) /\ Len(w) = Len(hp) + Len(s)
        /\ \A j \in 1..Len(hp) : w[j] = hp[j]
        /\ \A j \in 1..Len(s) : w[Len(hp) + j] = s[j]
    BY <1>8, <1>10, <2>1, <2>2, SeqCat
  <2> QED
    BY <1>3, <1>8, <2>1, <2>2, <2>3
<1>12. w[1] = 1 /\ w[2] = spacket /\ w[3] = 255 - spacket
  BY <1>3, <1>6, <1>8, <1>11
<1>13. \A j \in 1..LEN : w[3 + j] = P[j]
  BY <1>3, <1>8, <1>11
<1> QED
  BY <1>1, <1>2, <1>9, <1>10, <1>11, <1>12, <1>13 DEF SOH

\* At most one byte of a frame is damaged.
LEMMA FramesAre ==
  ASSUME LineTypes, ChecksumDetects, offset \in Nat, spacket \in Byte, NEW F \in Frames
  PROVE  /\ F \in Seq(Byte) /\ Len(F) = LEN + 4
         /\ \E k \in 1..(LEN + 4) : \A j \in 1..(LEN + 4) : j # k => F[j] = WholePacket[j]
<1>1. PICK w \in Seq(Byte) : w = WholePacket
  BY FrameIs
<1>2. Len(w) = LEN + 4 /\ LEN \in Nat /\ Noise \subseteq Byte
  BY <1>1, FrameIs, XmodemAssumption DEF Byte
<1>3. F = w \/ \E k \in DOMAIN w, b \in Noise : F = [w EXCEPT ![k] = b]
  BY <1>1 DEF Frames, Sent
<1>4. CASE F = w
  BY <1>1, <1>2, <1>4
<1>5. ASSUME NEW k \in DOMAIN w, NEW b \in Noise, F = [w EXCEPT ![k] = b]
      PROVE  /\ F \in Seq(Byte) /\ Len(F) = LEN + 4 /\ k \in 1..(LEN + 4)
             /\ \A j \in 1..(LEN + 4) : j # k => F[j] = w[j]
  <2>1. k \in 1..Len(w) /\ b \in Byte
    BY <1>2
  <2> QED
    BY <1>2, <1>5, <2>1, SeqExcept
<1> QED
  BY <1>1, <1>3, <1>4, <1>5

LEMMA SameFrames ==
  ASSUME UNCHANGED <<file, offset, spacket>>
  PROVE  Frames' = Frames
BY DEF Frames, Sent, WholePacket, Packet

\* s' is s with one byte behind it.
Longer(s, t, x) ==
  /\ t \in Seq(Byte) /\ Len(t) = Len(s) + 1 /\ t[Len(s) + 1] = x
  /\ \A j \in 1..Len(s) : t[j] = s[j]

LEMMA LongerIs ==
  ASSUME NEW s \in Seq(Byte), NEW q \in Seq(Byte), NEW t, t = s \o q
  PROVE  Len(q) = 1 => Longer(s, t, q[1])
<1>1. /\ t \in Seq(Byte) /\ Len(t) = Len(s) + Len(q)
      /\ \A i \in 1..Len(s) : t[i] = s[i]
      /\ \A i \in 1..Len(q) : t[Len(s) + i] = q[i]
  BY SeqCat
<1>2. Len(s) \in Nat
  BY SeqEmpty
<1> QED
  BY <1>1, <1>2 DEF Longer

LEMMA SentOne ==
  ASSUME NEW b \in Byte, NEW e \in {0, 1}, NEW q \in Sent(<<b>>, e)
  PROVE  q \in Seq(Byte) /\ Len(q) = 1 /\ q[1] \in {b} \cup Noise
<1>1. CASE e = 0
  <2>1. q = <<b>>
    BY <1>1 DEF Sent
  <2> QED
    BY <2>1, SeqOne
<1>2. CASE e = 1
  <2>1. PICK k \in DOMAIN <<b>>, x \in Noise : q = [<<b>> EXCEPT ![k] = x]
    BY <1>2 DEF Sent
  <2>2. k = 1
    OBVIOUS
  <2>3. x \in Byte
    BY XmodemAssumption DEF Byte
  <2>4. PICK s \in Seq(Byte) : s = <<b>> /\ Len(s) = 1
    BY SeqOne
  <2>5. q = [s EXCEPT ![1] = x] /\ 1 \in 1..Len(s)
    BY <2>1, <2>2, <2>4
  <2> QED
    BY <2>3, <2>4, <2>5, SeqExcept
<1> QED
  BY <1>1, <1>2

LEMMA SendSOne ==
  ASSUME LineTypes, NEW b \in Byte, SendS(b)
  PROVE  \E x \in {b} \cup Noise : Longer(toS, toS', x)
<1>1. PICK e \in {0, 1} : \E q \in Sent(<<b>>, e) : toS' = toS \o q
  BY DEF SendS
<1>2. PICK q \in Sent(<<b>>, e) : toS' = toS \o q
  BY <1>1
<1>3. q \in Seq(Byte) /\ Len(q) = 1 /\ q[1] \in {b} \cup Noise
  BY SentOne
<1>4. toS \in Seq(Byte)
  BY DEF LineTypes
<1> QED
  BY <1>2, <1>3, <1>4, LongerIs

LEMMA SendROne ==
  ASSUME LineTypes, NEW b \in Byte, SendR(<<b>>)
  PROVE  \E x \in {b} \cup Noise : Longer(toR, toR', x)
<1>1. PICK e \in {0, 1} : \E q \in Sent(<<b>>, e) : toR' = toR \o q
  BY DEF SendR
<1>2. PICK q \in Sent(<<b>>, e) : toR' = toR \o q
  BY <1>1
<1>3. q \in Seq(Byte) /\ Len(q) = 1 /\ q[1] \in {b} \cup Noise
  BY SentOne
<1>4. toR \in Seq(Byte)
  BY DEF LineTypes
<1> QED
  BY <1>2, <1>3, <1>4, LongerIs

LEMMA SendRFrame ==
  ASSUME LineTypes, ChecksumDetects, offset \in Nat, spacket \in Byte, SendR(WholePacket)
  PROVE  \E F \in Frames : /\ toR' \in Seq(Byte) /\ Len(toR') = Len(toR) + LEN + 4
                           /\ toR # <<>> => toR'[1] = toR[1]
                           /\ toR = <<>> => \A j \in 1..Len(toR') : toR'[j] = F[j]
<1>1. PICK F \in Frames : toR' = toR \o F
  BY DEF SendR, Frames
<1>2. F \in Seq(Byte) /\ Len(F) = LEN + 4 /\ LEN \in Nat
  BY FramesAre, XmodemAssumption
<1>3. toR \in Seq(Byte)
  BY DEF LineTypes
<1>4. /\ toR' \in Seq(Byte) /\ Len(toR') = Len(toR) + Len(F)
      /\ \A i \in 1..Len(toR) : toR'[i] = toR[i]
      /\ \A i \in 1..Len(F) : toR'[Len(toR) + i] = F[i]
  <2>1. F \in Seq(Byte)
    BY <1>2
  <2> QED
    BY <1>1, <1>3, <2>1, SeqCat
<1>5. Len(toR) \in Nat /\ (Len(toR) = 0 <=> toR = <<>>)
  BY <1>3, SeqEmpty
<1> QED
  BY <1>2, <1>4, <1>5

\* Nothing that a step of one side leaves alone changes for the other.
LEMMA SendsKept ==
  ASSUME UNCHANGED <<file, spacket, offset, written>>, NEW d
  PROVE  /\ Sends(d) => Sends(d)'
         /\ More(d)' <=> More(d)
         /\ Frames' = Frames
<1>1. More(d)' <=> More(d)
  BY DEF More
<1> QED
  BY <1>1, SameFrames DEF Sends, More

LEMMA HasKept ==
  ASSUME UNCHANGED <<file, rpacket, received, into>>, NEW a
  PROVE  Has(a) => Has(a)'
BY DEF Has, Pad

\* Which situations a side can be in, by the place it has reached.
LEMMA SenderAt ==
  ASSUME NEW d, NEW a, Situation(d, a)
  PROVE  /\ spc = "start" => Starting(d, a)
         /\ spc = "write" => Turn(d, a) \/ Misled(d) \/ Fooled(d) \/ ReceiverFailed
         /\ spc = "reply" =>
              Sending(d, a) \/ Replying(d, a) \/ Misled(d) \/ Fooled(d) \/ ReceiverFailed
         /\ spc = "eot1" => Ending(d, a) \/ Fooled(d) \/ ReceiverFailed
         /\ spc = "eot2" => Ending(d, a) \/ ReceiverFailed
<1>1. /\ Starting(d, a) => spc = "start"
      /\ Turn(d, a) => spc = "write"
      /\ Sending(d, a) => spc = "reply"
      /\ Replying(d, a) => spc = "reply"
  BY DEF Starting, Turn, Sending, Replying
<1>2. Ending(d, a) => spc \in {"eot1", "eot2", "ok"} \cup Failed
  BY DEF Ending
<1>3. /\ Misled(d) => spc \in {"write", "reply"} \cup Failed
      /\ Fooled(d) => spc \in {"write", "reply", "eot1"} \cup Failed
  BY DEF Misled, Fooled
<1>4. /\ ReceiverFailed => spc \in {"write", "reply", "eot1", "eot2"} \cup Failed
      /\ SenderFailed => spc \in Failed
  BY DEF ReceiverFailed, SenderFailed
<1> QED
  BY <1>1, <1>2, <1>3, <1>4 DEF Situation, Failed

LEMMA ReceiverAt ==
  ASSUME NEW d, NEW a, Situation(d, a)
  PROVE  /\ rpc = "start" => Starting(d, a)
         /\ rpc = "first" /\ toR # <<>> => Sending(d, a) \/ Ending(d, a) \/ SenderFailed
         /\ rpc = "number" /\ toR # <<>> => Sending(d, a)
         /\ rpc \in {"complement", "data", "checksum"} => Sending(d, a)
         /\ rpc = "eot" /\ toR # <<>> => Ending(d, a) \/ Misled(d)
<1>1. /\ Starting(d, a) => rpc \in {"start", "first"} /\ toR = <<>>
      /\ Turn(d, a) => rpc = "first" /\ toR = <<>>
      /\ Replying(d, a) => rpc = "first" /\ toR = <<>>
  BY DEF Starting, Turn, Replying
<1>2. Sending(d, a) => rpc \in {"first", "number", "complement", "data", "checksum"}
  BY DEF Sending, Reading
<1>3. Ending(d, a) => \/ rpc \in {"first", "eot", "ok"}
                      \/ rpc = "number" /\ toR = <<>>
  BY DEF Ending
<1>4. /\ Misled(d) => rpc = "eot"
      /\ Fooled(d) => rpc = "ok"
      /\ ReceiverFailed => rpc \in Failed
  BY DEF Misled, Fooled, ReceiverFailed
<1>5. SenderFailed => rpc = "first" \/ (rpc \in {"number", "eot"} /\ toR = <<>>)
  BY DEF SenderFailed
<1> QED
  BY <1>1, <1>2, <1>3, <1>4, <1>5 DEF Situation, Failed

\* What a side finds after it has read a byte.
LEMMA TookS ==
  ASSUME LineTypes, NEW l, TakeS(l)
  PROVE  /\ spc = l /\ toS' \in Seq(Byte) /\ Len(toS') = Len(toS) - 1 /\ Len(toS) \in Nat \ {0}
         /\ Head(toS) = toS[1] /\ toS[1] \in Byte
         /\ \A j \in 1..(Len(toS) - 1) : toS'[j] = toS[j + 1]
         /\ Len(toS) = 1 => toS' = <<>>
<1>1. toS \in Seq(Byte) /\ toS # <<>> /\ toS' = Tail(toS) /\ spc = l
  BY DEF LineTypes, TakeS
<1>2. /\ toS' \in Seq(Byte) /\ Len(toS') = Len(toS) - 1 /\ Len(toS) \in Nat \ {0}
      /\ Head(toS) = toS[1] /\ toS[1] \in Byte
      /\ \A j \in 1..(Len(toS) - 1) : toS'[j] = toS[j + 1]
  BY <1>1, SeqTail
<1>3. Len(toS') = 0 <=> toS' = <<>>
  BY <1>2, SeqEmpty
<1> QED
  BY <1>1, <1>2, <1>3

LEMMA TookR ==
  ASSUME LineTypes, NEW l, TakeR(l)
  PROVE  /\ rpc = l /\ toR' \in Seq(Byte) /\ Len(toR') = Len(toR) - 1 /\ Len(toR) \in Nat \ {0}
         /\ Head(toR) = toR[1] /\ toR[1] \in Byte
         /\ \A j \in 1..(Len(toR) - 1) : toR'[j] = toR[j + 1]
         /\ Len(toR) = 1 => toR' = <<>>
         /\ toR # <<>>
<1>1. toR \in Seq(Byte) /\ toR # <<>> /\ toR' = Tail(toR) /\ rpc = l
  BY DEF LineTypes, TakeR
<1>2. /\ toR' \in Seq(Byte) /\ Len(toR') = Len(toR) - 1 /\ Len(toR) \in Nat \ {0}
      /\ Head(toR) = toR[1] /\ toR[1] \in Byte
      /\ \A j \in 1..(Len(toR) - 1) : toR'[j] = toR[j + 1]
  BY <1>1, SeqTail
<1>3. Len(toR') = 0 <=> toR' = <<>>
  BY <1>2, SeqEmpty
<1> QED
  BY <1>1, <1>2, <1>3

LEMMA MismatchFails ==
  ASSUME NEW b
  PROVE  Mismatch(b) \in Failed
BY DEF Mismatch, Failed

-----------------------------------------------------------------------------
(***************************************************************************)
(* Every step of the transmitter.                                          *)
(***************************************************************************)

Here(d, a) == LineTypes /\ Sends(d) /\ Has(a) /\ Situation(d, a)

LEMMA S_start ==
  ASSUME NEW d \in Nat, NEW a \in Nat, Here(d, a), s_start
  PROVE  Stage'
<1>1. LineTypes /\ Sends(d) /\ Has(a) /\ Situation(d, a)
  BY DEF Here
<1>2. /\ TakeS("start") /\ toR' = toR /\ UNCHANGED <<file, spacket, offset, written>>
      /\ UNCHANGED <<rpc, rpacket, received, into>>
      /\ spc' = IF Head(toS) = NAK THEN "write" ELSE Mismatch(Head(toS))
  BY DEF s_start, GoS, rvars
<1>3. /\ spc = "start" /\ Len(toS) \in Nat \ {0} /\ (Len(toS) = 1 => toS' = <<>>)
      /\ toS # <<>>
  BY <1>1, <1>2, TookS DEF TakeS
<1>4. Starting(d, a)
  BY <1>1, <1>3, SenderAt
<1>5. rpc = "first" /\ toS' = <<>> /\ toR = <<>> /\ a = d
  BY <1>3, <1>4 DEF Starting
<1>6. Sends(d)' /\ Has(a)'
  BY <1>1, <1>2, SendsKept, HasKept
<1>7. CASE spc' = "write"
  <2>1. Turn(d, a)'
    BY <1>2, <1>5, <1>7 DEF Turn
  <2> QED
    BY <1>6, <2>1 DEF Stage, Situation
<1>8. CASE spc' \in Failed
  <2>1. SenderFailed'
    <3>1. Len(toR') = 0
      BY <1>2, <1>5
    <3> QED
      BY <1>2, <1>5, <1>8, <3>1 DEF SenderFailed
  <2> QED
    BY <1>6, <2>1 DEF Stage, Situation
<1> QED
  BY <1>2, <1>7, <1>8, MismatchFails

LEMMA S_write ==
  ASSUME ChecksumDetects, NEW d \in Nat, NEW a \in Nat, Here(d, a), s_write
  PROVE  Stage'
<1>1. LineTypes /\ Sends(d) /\ Has(a) /\ Situation(d, a)
  BY DEF Here
<1>2. /\ spc = "write" /\ toS' = toS /\ UNCHANGED <<file, spacket, offset, written>>
      /\ UNCHANGED <<rpc, rpacket, received, into>>
  BY DEF s_write, GoS, rvars
<1>3. Sends(d)' /\ Has(a)' /\ (More(d)' <=> More(d)) /\ Frames' = Frames
  BY <1>1, <1>2, SendsKept, HasKept
<1>4. Turn(d, a) \/ Misled(d) \/ Fooled(d) \/ ReceiverFailed
  BY <1>1, <1>2, SenderAt
<1>5. (ReadMax = 0 <=> ~More(d)) /\ offset \in Nat /\ spacket \in Byte
  BY <1>1, OffsetIs
<1>6. CASE More(d)
  <2>1. SendR(WholePacket) /\ spc' = "reply"
    BY <1>5, <1>6 DEF s_write, GoS
  <2>2. PICK F \in Frames : /\ toR' \in Seq(Byte) /\ Len(toR') = Len(toR) + LEN + 4
                            /\ toR # <<>> => toR'[1] = toR[1]
                            /\ toR = <<>> => \A j \in 1..Len(toR') : toR'[j] = F[j]
    BY <1>1, <1>5, <2>1, SendRFrame
  <2>3. toR' # <<>>
    <3>1. Len(toR) \in Nat /\ LEN \in Nat
      BY <1>1, SeqEmpty, XmodemAssumption DEF LineTypes
    <3>2. Len(toR') # 0
      BY <2>2, <3>1
    <3> QED
      BY <2>2, <3>2, SeqEmpty
  <2>4. CASE Turn(d, a)
    <3>1. rpc = "first" /\ toS = <<>> /\ toR = <<>> /\ a \in {d, d + 1}
      BY <2>4 DEF Turn
    <3>2. Len(toR) = 0 /\ LEN \in Nat
      BY <3>1, XmodemAssumption
    <3>3. Left(F, 0)'
      BY <2>2, <3>1, <3>2 DEF Left
    <3>4. Reading(F)'
      BY <1>2, <3>1, <3>3 DEF Reading
    <3>5. Sending(d, a)'
      BY <1>2, <1>3, <1>6, <2>1, <3>1, <3>4 DEF Sending
    <3> QED
      BY <1>3, <3>5 DEF Stage, Situation
  <2>5. CASE Misled(d)
    <3>1. Misled(d)'
      BY <1>2, <1>3, <1>6, <2>1, <2>2, <2>3, <2>5 DEF Misled, Failed
    <3> QED
      BY <1>3, <3>1 DEF Stage, Situation
  <2>6. CASE Fooled(d)
    <3>1. Fooled(d)'
      BY <1>2, <1>3, <1>6, <2>1, <2>6 DEF Fooled, Failed
    <3> QED
      BY <1>3, <3>1 DEF Stage, Situation
  <2>7. CASE ReceiverFailed
    <3>1. ReceiverFailed'
      BY <1>2, <2>1, <2>7 DEF ReceiverFailed, Failed
    <3> QED
      BY <1>3, <3>1 DEF Stage, Situation
  <2> QED
    BY <1>4, <2>4, <2>5, <2>6, <2>7
<1>7. CASE ~More(d)
  <2>1. SendR(<<EOT>>) /\ spc' = "eot1"
    BY <1>5, <1>7 DEF s_write, GoS
  <2>2. ~Misled(d)
    BY <1>2, <1>7 DEF Misled, Failed
  <2>3. CASE Turn(d, a)
    <3>1. rpc = "first" /\ toS = <<>> /\ toR = <<>> /\ a = d
      BY <1>7, <2>3 DEF Turn
    <3>2. EOT \in Byte
      BY DEF EOT, Byte
    <3>3. PICK x \in {EOT} \cup Noise : Longer(toR, toR', x)
      BY <1>1, <2>1, <3>2, SendROne
    <3>4. Len(toR') = 1
      BY <3>1, <3>3 DEF Longer
    <3>5. Ending(d, a)'
      BY <1>2, <1>3, <1>7, <2>1, <3>1, <3>4 DEF Ending
    <3> QED
      BY <1>3, <3>5 DEF Stage, Situation
  <2>4. CASE Fooled(d)
    <3>1. Fooled(d)'
      BY <1>2, <1>7, <2>1, <2>4 DEF Fooled, Failed
    <3> QED
      BY <1>3, <3>1 DEF Stage, Situation
  <2>5. CASE ReceiverFailed
    <3>1. ReceiverFailed'
      BY <1>2, <2>1, <2>5 DEF ReceiverFailed, Failed
    <3> QED
      BY <1>3, <3>1 DEF Stage, Situation
  <2> QED
    BY <1>4, <2>2, <2>3, <2>4, <2>5
<1> QED
  BY <1>6, <1>7

LEMMA NextOffset ==
  ASSUME LineTypes, NEW d \in Nat, Sends(d), More(d), s_ack
  PROVE  Sends(d + 1)'
<1>1. /\ Pos(d) \in Nat /\ Pos(d + 1) = Pos(d) + LEN /\ d + 1 \in Nat
      /\ Len(file) \in Nat /\ LEN \in Nat \ {0}
  BY PosFacts, FileIs, XmodemAssumption
<1>2. offset = Pos(d) /\ written = offset /\ Pos(d) < Len(file)
  BY OffsetIs DEF More
<1>3. /\ offset' = offset + ReadMax /\ written' = written + ReadMax
      /\ spacket' = (spacket + 1) % 256 /\ file' = file
  BY DEF s_ack
<1>4. offset' = IF Pos(d + 1) < Len(file) THEN Pos(d + 1) ELSE Len(file)
  BY <1>1, <1>2, <1>3 DEF ReadMax
<1>5. written' = offset'
  BY <1>2, <1>3
<1>6. Pos(d + 1) < Len(file) + LEN
  BY <1>1, <1>2
<1>7. spacket = (d + 1) % 256
  BY DEF Sends
<1>8. spacket' = (d + 2) % 256
  BY <1>3, <1>7
<1>9. spacket' = ((d + 1) + 1) % 256
  BY <1>8
<1>10. Pos(d + 1)' = Pos(d + 1)
  BY DEF Pos
<1> QED
  BY <1>3, <1>4, <1>5, <1>6, <1>9, <1>10 DEF Sends, More

LEMMA S_ack ==
  ASSUME NEW d \in Nat, NEW a \in Nat, Here(d, a), s_ack
  PROVE  Stage'
<1>1. LineTypes /\ Sends(d) /\ Has(a) /\ Situation(d, a)
  BY DEF Here
<1>2. /\ TakeS("reply") /\ Head(toS) = ACK /\ spc' = "write" /\ toR' = toR
      /\ UNCHANGED <<file, rpc, rpacket, received, into>>
  BY DEF s_ack, rvars
<1>3. /\ spc = "reply" /\ toS[1] = ACK /\ toS # <<>> /\ Len(toS) \in Nat \ {0}
      /\ Len(toS) = 1 => toS' = <<>>
  BY <1>1, <1>2, TookS DEF TakeS
<1>4. Sending(d, a) \/ Replying(d, a) \/ Misled(d) \/ Fooled(d) \/ ReceiverFailed
  BY <1>1, <1>3, SenderAt
<1>5. ~Sending(d, a) /\ ~Misled(d) /\ ~ReceiverFailed
  <2>1. ~Sending(d, a)
    BY <1>3 DEF Sending
  <2>2. ~Misled(d)
    BY <1>3 DEF Misled, Failed
  <2>3. ~ReceiverFailed
    BY <1>3 DEF ReceiverFailed, Failed
  <2> QED
    BY <2>1, <2>2, <2>3
<1>6. Has(a)' /\ d + 1 \in Nat
  BY <1>1, <1>2, HasKept
<1>7. CASE Replying(d, a)
  <2>1. a = d + 1 /\ More(d) /\ rpc = "first" /\ toR = <<>> /\ toS' = <<>>
    BY <1>3, <1>7 DEF Replying
  <2>2. Sends(d + 1)'
    BY <1>1, <2>1, NextOffset
  <2>3. Turn(d + 1, a)'
    BY <1>2, <2>1 DEF Turn
  <2> QED
    BY <1>6, <2>2, <2>3 DEF Stage, Situation
<1>8. CASE Fooled(d)
  <2>1. More(d) /\ rpc = "ok" /\ rpacket \in {EOT, EOT + 1} /\ Len(toS) = 1
    BY <1>3, <1>8 DEF Fooled, Failed
  <2>2. Sends(d + 1)'
    BY <1>1, <2>1, NextOffset
  <2>3. Fooled(d + 1)'
    BY <1>2, <1>3, <2>1 DEF Fooled
  <2> QED
    BY <1>6, <2>2, <2>3 DEF Stage, Situation
<1> QED
  BY <1>4, <1>5, <1>7, <1>8

\* What the failure of the transmitter leaves of each situation.
LEMMA SenderGivesUp ==
  ASSUME NEW d \in Nat, NEW a \in Nat, Here(d, a), spc' \in Failed,
         Misled(d) \/ Fooled(d) \/ ReceiverFailed,
         UNCHANGED <<file, spacket, offset, written, rpc, rpacket, received, into>>,
         toR # <<>> => toR' # <<>> /\ toR'[1] = toR[1]
  PROVE  Stage'
<1>1. LineTypes /\ Sends(d) /\ Has(a)
  BY DEF Here
<1>2. Sends(d)' /\ Has(a)'
  BY <1>1, SendsKept, HasKept
<1>3. ASSUME Misled(d) PROVE Misled(d)'
  BY <1>3 DEF Misled
<1>4. ASSUME Fooled(d) PROVE Fooled(d)'
  BY <1>4 DEF Fooled
<1>5. ASSUME ReceiverFailed PROVE ReceiverFailed'
  BY <1>5 DEF ReceiverFailed
<1> QED
  BY <1>2, <1>3, <1>4, <1>5 DEF Stage, Situation

LEMMA S_nak ==
  ASSUME NEW d \in Nat, NEW a \in Nat, Here(d, a), s_nak
  PROVE  Stage'
<1>1. LineTypes /\ Sends(d) /\ Has(a) /\ Situation(d, a)
  BY DEF Here
<1>2. /\ TakeS("reply") /\ Head(toS) = NAK /\ toR' = toR
      /\ UNCHANGED <<file, spacket, offset, written, rpc, rpacket, received, into>>
      /\ spc' = "write" \/ spc' \in Failed
  BY DEF s_nak, rvars, Failed
<1>3. /\ spc = "reply" /\ toS # <<>> /\ Len(toS) \in Nat \ {0} /\ Len(toS') = Len(toS) - 1
      /\ \A j \in 1..(Len(toS) - 1) : toS'[j] = toS[j + 1]
      /\ Len(toS) = 1 => toS' = <<>>
  BY <1>1, <1>2, TookS DEF TakeS
<1>4. Sends(d)' /\ Has(a)' /\ (More(d)' <=> More(d))
  BY <1>1, <1>2, SendsKept, HasKept
<1>5. ~Sending(d, a)
  BY <1>3 DEF Sending
<1>6. Replying(d, a) \/ Misled(d) \/ Fooled(d) \/ ReceiverFailed
  BY <1>1, <1>3, <1>5, SenderAt
<1>7. CASE Replying(d, a)
  <2>1. More(d) /\ rpc = "first" /\ toR = <<>> /\ toS' = <<>> /\ (a = d \/ a = d + 1)
    BY <1>3, <1>7 DEF Replying
  <2>2. CASE spc' = "write"
    <3>1. Turn(d, a)'
      BY <1>2, <1>4, <2>1, <2>2 DEF Turn
    <3> QED
      BY <1>4, <3>1 DEF Stage, Situation
  <2>3. CASE spc' \in Failed
    <3>1. Len(toR') = 0
      BY <1>2, <2>1
    <3>2. SenderFailed'
      BY <1>2, <2>1, <2>3, <3>1 DEF SenderFailed
    <3> QED
      BY <1>4, <3>2 DEF Stage, Situation
  <2> QED
    BY <1>2, <2>2, <2>3
<1>8. CASE spc' \in Failed /\ ~Replying(d, a)
  BY <1>2, <1>6, <1>8, SenderGivesUp
<1>9. CASE spc' = "write" /\ Misled(d)
  <2>1. More(d) /\ Len(toS) = 1
    BY <1>3, <1>9 DEF Misled, Failed
  <2>2. Misled(d)'
    BY <1>2, <1>3, <1>4, <1>9, <2>1 DEF Misled
  <2> QED
    BY <1>4, <2>2 DEF Stage, Situation
<1>10. CASE spc' = "write" /\ Fooled(d)
  <2>1. More(d) /\ (Len(toS) = 1 \/ Len(toS) = 2)
    BY <1>3, <1>10 DEF Fooled, Failed
  <2>2. toS' = <<>> \/ Len(toS') = 1
    BY <1>3, <2>1
  <2>3. Fooled(d)'
    BY <1>2, <1>4, <1>10, <2>1, <2>2 DEF Fooled
  <2> QED
    BY <1>4, <2>3 DEF Stage, Situation
<1>11. CASE spc' = "write" /\ ReceiverFailed
  <2>1. \A j \in 1..Len(toS) : toS[j] # ACK
    BY <1>3, <1>11 DEF ReceiverFailed, Failed
  <2>2. \A j \in 1..Len(toS') : toS'[j] # ACK
    <3>1. SUFFICES ASSUME NEW j \in 1..Len(toS') PROVE toS'[j] # ACK
      OBVIOUS
    <3>2. j \in 1..(Len(toS) - 1) /\ j + 1 \in 1..Len(toS)
      BY <1>3
    <3> QED
      BY <1>3, <2>1, <3>2
  <2>3. ReceiverFailed'
    BY <1>2, <1>11, <2>2 DEF ReceiverFailed
  <2> QED
    BY <1>4, <2>3 DEF Stage, Situation
<1> QED
  BY <1>2, <1>6, <1>7, <1>8, <1>9, <1>10, <1>11

LEMMA S_bad ==
  ASSUME NEW d \in Nat, NEW a \in Nat, Here(d, a), s_bad
  PROVE  Stage'
<1>1. LineTypes /\ Sends(d) /\ Has(a) /\ Situation(d, a)
  BY DEF Here
<1>2. /\ TakeS("reply") /\ spc' = Mismatch(Head(toS)) /\ (toR' = toR \/ SendR(<<CAN>>))
      /\ UNCHANGED <<file, spacket, offset, written, rpc, rpacket, received, into>>
  BY DEF s_bad, rvars, GoS
<1>3. spc' \in Failed /\ spc = "reply" /\ toS # <<>>
  BY <1>2, MismatchFails DEF TakeS
<1>4. Sends(d)' /\ Has(a)'
  BY <1>1, <1>2, SendsKept, HasKept
<1>5. ~Sending(d, a)
  BY <1>3 DEF Sending
<1>6. Replying(d, a) \/ Misled(d) \/ Fooled(d) \/ ReceiverFailed
  BY <1>1, <1>3, <1>5, SenderAt
<1>7. toR' = toR \/ \E x \in {CAN} \cup Noise : Longer(toR, toR', x)
  <2>1. CAN \in Byte
    BY DEF CAN, Byte
  <2> QED
    BY <1>1, <1>2, <2>1, SendROne
<1>8. Len(toR) \in Nat /\ (Len(toR) = 0 <=> toR = <<>>)
  BY <1>1, SeqEmpty DEF LineTypes
<1>9. CASE Replying(d, a)
  <2>1. rpc = "first" /\ Len(toR) = 0
    BY <1>8, <1>9 DEF Replying
  <2>2. Len(toR') <= 1
    BY <1>7, <2>1 DEF Longer
  <2>3. SenderFailed'
    BY <1>2, <1>3, <2>1, <2>2 DEF SenderFailed
  <2> QED
    BY <1>4, <2>3 DEF Stage, Situation
<1>10. CASE ~Replying(d, a)
  <2>1. ASSUME toR # <<>>
        PROVE  toR' # <<>> /\ toR'[1] = toR[1]
    <3>1. ASSUME NEW x, Longer(toR, toR', x)
          PROVE  toR' # <<>> /\ toR'[1] = toR[1]
      <4>1. toR' \in Seq(Byte) /\ Len(toR') # 0 /\ 1 \in 1..Len(toR)
        BY <1>8, <2>1, <3>1 DEF Longer
      <4>2. toR' # <<>>
        BY <4>1, SeqEmpty
      <4> QED
        BY <3>1, <4>1, <4>2 DEF Longer
    <3> QED
      BY <1>7, <2>1, <3>1
  <2> QED
    BY <1>2, <1>3, <1>6, <1>10, <2>1, SenderGivesUp
<1> QED
  BY <1>9, <1>10

LEMMA S_eot1 ==
  ASSUME NEW d \in Nat, NEW a \in Nat, Here(d, a), s_eot1
  PROVE  Stage'
<1>1. LineTypes /\ Sends(d) /\ Has(a) /\ Situation(d, a)
  BY DEF Here
<1>2. /\ TakeS("eot1")
      /\ \/ spc' = "eot2" /\ SendR(<<EOT>>)
         \/ spc' = Mismatch(Head(toS)) /\ toR' = toR
      /\ UNCHANGED <<file, spacket, offset, written, rpc, rpacket, received, into>>
  BY DEF s_eot1, rvars, GoS
<1>3. /\ spc = "eot1" /\ toS # <<>> /\ Len(toS) \in Nat \ {0} /\ Len(toS') = Len(toS) - 1
      /\ \A j \in 1..(Len(toS) - 1) : toS'[j] = toS[j + 1]
      /\ Len(toS) = 1 => toS' = <<>>
  BY <1>1, <1>2, TookS DEF TakeS
<1>4. Sends(d)' /\ Has(a)' /\ (More(d)' <=> More(d))
  BY <1>1, <1>2, SendsKept, HasKept
<1>5. ~Fooled(d)
  BY <1>3 DEF Fooled, Failed
<1>6. Ending(d, a) \/ ReceiverFailed
  BY <1>1, <1>3, <1>5, SenderAt
<1>7. spc' = "eot2" \/ spc' \in Failed
  BY <1>2, MismatchFails
<1>8. CASE Ending(d, a)
  <2>1. ~More(d) /\ a = d /\ rpc = "eot" /\ toR = <<>> /\ toS' = <<>>
    BY <1>3, <1>8 DEF Ending, Failed
  <2>2. CASE spc' = "eot2"
    <3>1. SendR(<<EOT>>)
      BY <1>2, <2>2, MismatchFails DEF Failed
    <3>2. EOT \in Byte
      BY DEF EOT, Byte
    <3>3. PICK x \in {EOT} \cup Noise : Longer(toR, toR', x)
      BY <1>1, <3>1, <3>2, SendROne
    <3>4. Len(toR') = 1
      BY <2>1, <3>3 DEF Longer
    <3>5. Ending(d, a)'
      BY <1>2, <1>4, <2>1, <2>2, <3>4 DEF Ending
    <3> QED
      BY <1>4, <3>5 DEF Stage, Situation
  <2>3. CASE spc' \in Failed
    <3>1. toR' = <<>>
      BY <1>2, <2>1, <2>3 DEF Failed
    <3>2. SenderFailed'
      BY <1>2, <2>1, <2>3, <3>1 DEF SenderFailed
    <3> QED
      BY <1>4, <3>2 DEF Stage, Situation
  <2> QED
    BY <1>7, <2>2, <2>3
<1>9. CASE ReceiverFailed
  <2>1. \A j \in 1..Len(toS) : toS[j] # ACK
    BY <1>3, <1>9 DEF ReceiverFailed, Failed
  <2>2. \A j \in 1..Len(toS') : toS'[j] # ACK
    <3>1. SUFFICES ASSUME NEW j \in 1..Len(toS') PROVE toS'[j] # ACK
      OBVIOUS
    <3>2. j \in 1..(Len(toS) - 1) /\ j + 1 \in 1..Len(toS)
      BY <1>3
    <3> QED
      BY <1>3, <2>1, <3>2
  <2>3. ReceiverFailed'
    BY <1>2, <1>7, <1>9, <2>2 DEF ReceiverFailed
  <2> QED
    BY <1>4, <2>3 DEF Stage, Situation
<1> QED
  BY <1>6, <1>8, <1>9

LEMMA S_eot2 ==
  ASSUME NEW d \in Nat, NEW a \in Nat, Here(d, a), s_eot2
  PROVE  Stage'
<1>1. LineTypes /\ Sends(d) /\ Has(a) /\ Situation(d, a)
  BY DEF Here
<1>2. /\ TakeS("eot2") /\ toR' = toR
      /\ spc' = IF Head(toS) = ACK THEN "ok" ELSE Mismatch(Head(toS))
      /\ UNCHANGED <<file, spacket, offset, written, rpc, rpacket, received, into>>
  BY DEF s_eot2, rvars, GoS
<1>3. spc = "eot2" /\ toS # <<>> /\ Head(toS) = toS[1] /\ Len(toS) \in Nat \ {0}
  BY <1>1, <1>2, TookS DEF TakeS
<1>4. Sends(d)' /\ Has(a)' /\ (More(d)' <=> More(d))
  BY <1>1, <1>2, SendsKept, HasKept
<1>5. Ending(d, a) \/ ReceiverFailed
  BY <1>1, <1>3, SenderAt
<1>6. CASE Ending(d, a)
  <2>1. ~More(d) /\ a = d /\ rpc = "ok"
    BY <1>3, <1>6 DEF Ending
  <2>2. spc' \in {"eot2", "ok"} \cup Failed
    BY <1>2, MismatchFails
  <2>3. Ending(d, a)'
    BY <1>2, <1>4, <2>1, <2>2 DEF Ending
  <2> QED
    BY <1>4, <2>3 DEF Stage, Situation
<1>7. CASE ReceiverFailed
  <2>1. toS[1] # ACK
    BY <1>3, <1>7 DEF ReceiverFailed, Failed
  <2>2. spc' \in Failed
    BY <1>2, <1>3, <2>1, MismatchFails
  <2>3. ReceiverFailed'
    BY <1>2, <1>7, <2>2 DEF ReceiverFailed
  <2> QED
    BY <1>4, <2>3 DEF Stage, Situation
<1> QED
  BY <1>5, <1>6, <1>7

-----------------------------------------------------------------------------
(***************************************************************************)
(* Every step of the receiver.                                             *)
(***************************************************************************)

\* A reply other than ACK does not become one.
LEMMA NotAck ==
  ASSUME NoFalseAck, LineTypes, NEW b \in {NAK, CAN}, SendS(b)
  PROVE  \E x \in Byte : x # ACK /\ Longer(toS, toS', x)
<1>1. b \in Byte /\ b # ACK
  BY DEF NAK, CAN, ACK, Byte
<1>2. PICK x \in {b} \cup Noise : Longer(toS, toS', x)
  BY <1>1, SendSOne
<1>3. x \in Byte
  BY <1>1, XmodemAssumption DEF Byte
<1> QED
  BY <1>1, <1>2, <1>3 DEF NoFalseAck

LEMMA FirstReply ==
  ASSUME NEW x, Longer(toS, toS', x), toS = <<>>
  PROVE  Len(toS') = 1 /\ toS'[1] = x
<1>1. Len(toS) = 0
  OBVIOUS
<1> QED
  BY <1>1 DEF Longer

\* The receiver fails, and has not sent ACK for what is still unanswered.
LEMMA ReceiverGivesUp ==
  ASSUME NEW d \in Nat, NEW a \in Nat, Here(d, a), rpc' \in Failed,
         UNCHANGED <<file, spc, spacket, offset, written, rpacket, received, into>>,
         \/ spc \in Failed
         \/ /\ spc \in {"write", "reply", "eot1", "eot2"}
            /\ \A j \in 1..Len(toS') : toS'[j] # ACK
  PROVE  Stage'
<1>1. LineTypes /\ Sends(d) /\ Has(a)
  BY DEF Here
<1>2. Sends(d)' /\ Has(a)'
  BY <1>1, SendsKept, HasKept
<1>3. ReceiverFailed'
  BY DEF ReceiverFailed
<1> QED
  BY <1>2, <1>3 DEF Stage, Situation

LEMMA R_start ==
  ASSUME NoFalseAck, NEW d \in Nat, NEW a \in Nat, Here(d, a), r_start
  PROVE  Stage'
<1>1. LineTypes /\ Sends(d) /\ Has(a) /\ Situation(d, a)
  BY DEF Here
<1>2. /\ rpc = "start" /\ rpc' = "first" /\ SendS(NAK) /\ toR' = toR
      /\ UNCHANGED <<file, spc, spacket, offset, written, rpacket, received, into>>
  BY DEF r_start, GoR, svars
<1>3. Starting(d, a)
  BY <1>1, <1>2, ReceiverAt
<1>4. toS = <<>>
  BY <1>2, <1>3 DEF Starting
<1>5. PICK x \in Byte : x # ACK /\ Longer(toS, toS', x)
  BY <1>1, <1>2, NotAck
<1>6. Len(toS') = 1
  BY <1>4, <1>5, FirstReply
<1>7. Sends(d)' /\ Has(a)'
  BY <1>1, <1>2, SendsKept, HasKept
<1>8. Starting(d, a)'
  BY <1>2, <1>3, <1>6 DEF Starting
<1> QED
  BY <1>7, <1>8 DEF Stage, Situation

\* The frame that is being read, its damaged byte, and who has what.
LEMMA FrameNow ==
  ASSUME ChecksumDetects, NEW d \in Nat, NEW a \in Nat, Here(d, a), Sending(d, a)
  PROVE  \E F \in Frames, k \in 1..(LEN + 4) :
           /\ Reading(F) /\ F \in Seq(Byte) /\ Len(F) = LEN + 4
           /\ \A j \in 1..(LEN + 4) : j # k => F[j] = WholePacket[j]
<1>1. LineTypes /\ Sends(d) /\ Has(a)
  BY DEF Here
<1>2. offset \in Nat /\ spacket \in Byte
  BY <1>1, OffsetIs
<1>3. PICK F \in Frames : Reading(F)
  BY DEF Sending
<1>4. /\ F \in Seq(Byte) /\ Len(F) = LEN + 4
      /\ \E k \in 1..(LEN + 4) : \A j \in 1..(LEN + 4) : j # k => F[j] = WholePacket[j]
  BY <1>1, <1>2, FramesAre
<1> QED
  BY <1>3, <1>4

LEMMA LeftAfterOne ==
  ASSUME NEW F, NEW m \in Nat, Left(F, m), LineTypes, NEW l, TakeR(l)
  PROVE  Left(F, m + 1)' /\ toR[1] = F[m + 1]
<1>1. /\ Len(toR') = Len(toR) - 1 /\ Len(toR) \in Nat \ {0}
      /\ \A j \in 1..(Len(toR) - 1) : toR'[j] = toR[j + 1]
  BY TookR
<1>2. LEN \in Nat
  BY XmodemAssumption
<1>3. Len(toR) = LEN + 4 - m /\ \A j \in 1..Len(toR) : toR[j] = F[m + j]
  BY DEF Left
<1>4. Len(toR') = LEN + 4 - (m + 1)
  BY <1>1, <1>2, <1>3
<1>5. ASSUME NEW j \in 1..Len(toR')
      PROVE  toR'[j] = F[(m + 1) + j]
  <2>1. j \in 1..(Len(toR) - 1) /\ j + 1 \in 1..Len(toR) /\ m + (j + 1) = (m + 1) + j
    BY <1>1
  <2> QED
    BY <1>1, <1>3, <2>1
<1>6. 1 \in 1..Len(toR)
  BY <1>1
<1> QED
  BY <1>3, <1>4, <1>5, <1>6 DEF Left

LEMMA R_first ==
  ASSUME ChecksumDetects, NoFalseAck, NEW d \in Nat, NEW a \in Nat, Here(d, a), r_first
  PROVE  Stage'
<1>1. LineTypes /\ Sends(d) /\ Has(a) /\ Situation(d, a)
  BY DEF Here
<1>2. /\ TakeR("first")
      /\ UNCHANGED <<file, spc, spacket, offset, written, rpacket, received, into>>
  BY DEF r_first, GoR, svars
<1>3. \/ toR[1] = SOH /\ rpc' = "number" /\ toS' = toS
      \/ toR[1] = EOT /\ rpc' = "eot" /\ SendS(NAK)
      \/ toR[1] = CAN /\ rpc' = "ConnectionAborted" /\ toS' = toS
      \/ toR[1] \notin {SOH, EOT, CAN} /\ rpc' = "InvalidData" /\ SendS(CAN)
  <2>1. Head(toR) = toR[1]
    BY <1>1, <1>2, TookR
  <2> QED
    BY <2>1 DEF r_first, GoR
<1>4. /\ rpc = "first" /\ toR # <<>> /\ Len(toR) \in Nat \ {0} /\ Len(toR') = Len(toR) - 1
      /\ toR' \in Seq(Byte) /\ (Len(toR) = 1 => toR' = <<>>)
      /\ \A j \in 1..(Len(toR) - 1) : toR'[j] = toR[j + 1]
  BY <1>1, <1>2, TookR
<1>5. Sends(d)' /\ Has(a)' /\ (More(d)' <=> More(d)) /\ Frames' = Frames
  BY <1>1, <1>2, SendsKept, HasKept
<1>6. Sending(d, a) \/ Ending(d, a) \/ SenderFailed
  BY <1>1, <1>4, ReceiverAt
<1>7. CASE rpc' \in Failed
  <2>1. toS' = toS \/ SendS(CAN)
    BY <1>3, <1>7 DEF Failed
  <2>2. CASE spc \in Failed
    BY <1>2, <1>7, <2>2, ReceiverGivesUp
  <2>3. CASE spc \notin Failed
    <3>1. spc \in {"reply", "eot1"} /\ toS = <<>>
      <4>1. Sending(d, a) => spc = "reply" /\ toS = <<>>
        BY DEF Sending
      <4>2. Ending(d, a) => spc = "eot1" /\ toS = <<>>
        BY <1>4 DEF Ending
      <4>3. ~SenderFailed
        BY <2>3 DEF SenderFailed
      <4> QED
        BY <1>6, <4>1, <4>2, <4>3
    <3>2. \A j \in 1..Len(toS') : toS'[j] # ACK
      <4>1. CASE toS' = toS
        BY <3>1, <4>1
      <4>2. CASE SendS(CAN)
        <5>1. PICK x \in Byte : x # ACK /\ Longer(toS, toS', x)
          BY <1>1, <4>2, NotAck
        <5>2. Len(toS') = 1 /\ toS'[1] = x
          BY <3>1, <5>1, FirstReply
        <5> QED
          BY <5>1, <5>2
      <4> QED
        BY <2>1, <4>1, <4>2
    <3> QED
      BY <1>2, <1>7, <3>1, <3>2, ReceiverGivesUp
  <2> QED
    BY <2>2, <2>3
<1>8. CASE rpc' \notin Failed /\ Sending(d, a)
  <2>1. spc = "reply" /\ toS = <<>> /\ More(d) /\ a \in {d, d + 1}
    BY <1>8 DEF Sending
  <2>2. PICK F \in Frames, k \in 1..(LEN + 4) :
          /\ Reading(F) /\ F \in Seq(Byte) /\ Len(F) = LEN + 4
          /\ \A j \in 1..(LEN + 4) : j # k => F[j] = WholePacket[j]
    BY <1>8, FrameNow
  <2>3. Left(F, 0)
    BY <1>4, <2>2 DEF Reading
  <2>4. Left(F, 1)' /\ toR[1] = F[1]
    <3>1. Left(F, 0 + 1)' /\ toR[1] = F[0 + 1]
      BY <1>1, <1>2, <2>3, LeftAfterOne
    <3> QED
      BY <3>1
  <2>5. CASE rpc' = "number"
    <3>1. toS' = toS
      BY <1>3, <2>5
    <3>2. Reading(F)'
      BY <2>4, <2>5 DEF Reading
    <3>3. Sending(d, a)'
      BY <1>2, <1>5, <2>1, <3>1, <3>2 DEF Sending
    <3> QED
      BY <1>5, <3>3 DEF Stage, Situation
  <2>6. CASE rpc' = "eot"
    <3>1. toR[1] = EOT /\ SendS(NAK)
      BY <1>3, <2>6
    <3>2. PICK x \in Byte : x # ACK /\ Longer(toS, toS', x)
      BY <1>1, <3>1, NotAck
    <3>3. Len(toS') = 1 /\ toS'[1] # ACK
      BY <2>1, <3>2, FirstReply
    <3>4. WholePacket[1] = SOH /\ WholePacket[2] = spacket /\ LEN \in Nat
      BY <1>1, OffsetIs, FrameIs, XmodemAssumption
    <3>5. F[2] = spacket
      <4>1. F[1] # WholePacket[1]
        BY <2>4, <3>1, <3>4 DEF SOH, EOT
      <4>2. 1 \in 1..(LEN + 4) /\ 2 \in 1..(LEN + 4)
        BY <3>4
      <4>3. k = 1
        BY <2>2, <4>1, <4>2
      <4> QED
        BY <2>2, <3>4, <4>2, <4>3
    <3>6. toR' # <<>> /\ toR'[1] = F[2]
      <4>1. Len(toR') = LEN + 4 - 1 /\ \A j \in 1..Len(toR') : toR'[j] = F[1 + j]
        BY <2>4 DEF Left
      <4>2. Len(toR') # 0 /\ 1 \in 1..Len(toR')
        BY <3>4, <4>1
      <4>3. toR' # <<>>
        BY <1>4, <4>2, SeqEmpty
      <4> QED
        BY <4>1, <4>2, <4>3
    <3>7. spacket = EOT => rpacket \in {EOT, EOT + 1}
      <4>1. spacket = (d + 1) % 256 /\ rpacket = (a + 1) % 256
        BY <1>1 DEF Sends, Has
      <4> QED
        BY <2>1, <4>1 DEF EOT
    <3>8. Misled(d)'
      BY <1>2, <1>5, <2>1, <2>6, <3>3, <3>5, <3>6, <3>7 DEF Misled
    <3> QED
      BY <1>5, <3>8 DEF Stage, Situation
  <2> QED
    BY <1>3, <1>8, <2>5, <2>6 DEF Failed
<1>9. CASE rpc' \notin Failed /\ Ending(d, a)
  <2>1. ~More(d) /\ a = d /\ spc = "eot1" /\ Len(toR) = 1 /\ toS = <<>>
    BY <1>4, <1>9 DEF Ending
  <2>2. CASE rpc' = "number"
    <3>1. toS' = toS
      BY <1>3, <2>2
    <3>2. Ending(d, a)'
      BY <1>2, <1>4, <1>5, <2>1, <2>2, <3>1 DEF Ending
    <3> QED
      BY <1>5, <3>2 DEF Stage, Situation
  <2>3. CASE rpc' = "eot"
    <3>1. SendS(NAK)
      BY <1>3, <2>3
    <3>2. PICK x \in Byte : x # ACK /\ Longer(toS, toS', x)
      BY <1>1, <3>1, NotAck
    <3>3. Len(toS') = 1
      BY <2>1, <3>2, FirstReply
    <3>4. Ending(d, a)'
      BY <1>2, <1>4, <1>5, <2>1, <2>3, <3>3 DEF Ending
    <3> QED
      BY <1>5, <3>4 DEF Stage, Situation
  <2> QED
    BY <1>3, <1>9, <2>2, <2>3 DEF Failed
<1>10. CASE rpc' \notin Failed /\ SenderFailed
  <2>1. spc \in Failed /\ Len(toR) = 1
    BY <1>4, <1>10 DEF SenderFailed
  <2>2. rpc' \in {"number", "eot"}
    BY <1>3, <1>10 DEF Failed
  <2>3. SenderFailed'
    BY <1>2, <1>4, <2>1, <2>2 DEF SenderFailed
  <2> QED
    BY <1>5, <2>3 DEF Stage, Situation
<1> QED
  BY <1>6, <1>7, <1>8, <1>9, <1>10

\* expect_byte_or_cancel() on a frame: the byte is as expected, or the transfer is over.
LEMMA Expected ==
  ASSUME ChecksumDetects, NoFalseAck, NEW d \in Nat, NEW a \in Nat, Here(d, a),
         NEW l, NEW l1, NEW byte, TakeR(l), ExpectOrCancel(byte, l1), Sending(d, a),
         UNCHANGED <<file, svars>>
  PROVE  \/ toR[1] = byte /\ rpc' = l1 /\ toS' = toS
         \/ Stage'
<1>1. LineTypes /\ Sends(d) /\ Has(a)
  BY DEF Here
<1>2. Head(toR) = toR[1]
  BY <1>1, TookR
<1>3. spc = "reply" /\ toS = <<>>
  BY DEF Sending
<1>4. CASE toR[1] = byte
  BY <1>2, <1>4 DEF ExpectOrCancel, GoR
<1>5. CASE toR[1] # byte
  <2>1. /\ rpc' \in Failed /\ SendS(CAN)
        /\ UNCHANGED <<file, spc, spacket, offset, written, rpacket, received, into>>
    BY <1>2, <1>5, MismatchFails DEF ExpectOrCancel, GoR, svars
  <2>2. PICK x \in Byte : x # ACK /\ Longer(toS, toS', x)
    BY <1>1, <2>1, NotAck
  <2>3. Len(toS') = 1 /\ toS'[1] = x
    BY <1>3, <2>2, FirstReply
  <2>4. \A j \in 1..Len(toS') : toS'[j] # ACK
    BY <2>2, <2>3
  <2> QED
    BY <1>3, <2>1, <2>4, ReceiverGivesUp
<1> QED
  BY <1>4, <1>5

\* The receiver goes on reading the frame.
LEMMA ReadsOn ==
  ASSUME NEW d \in Nat, NEW a \in Nat, Here(d, a), Sending(d, a), NEW F \in Frames,
         Reading(F)', toS' = toS,
         UNCHANGED <<file, spc, spacket, offset, written, rpacket, received, into>>
  PROVE  Stage'
<1>1. LineTypes /\ Sends(d) /\ Has(a)
  BY DEF Here
<1>2. Sends(d)' /\ Has(a)' /\ (More(d)' <=> More(d)) /\ Frames' = Frames
  BY <1>1, SendsKept, HasKept
<1>3. spc = "reply" /\ toS = <<>> /\ More(d) /\ a \in {d, d + 1}
  BY DEF Sending
<1>4. Sending(d, a)'
  BY <1>2, <1>3 DEF Sending
<1> QED
  BY <1>2, <1>4 DEF Stage, Situation

LEMMA R_number ==
  ASSUME ChecksumDetects, NoFalseAck, NEW d \in Nat, NEW a \in Nat, Here(d, a), r_number
  PROVE  Stage'
<1>1. LineTypes /\ Situation(d, a)
  BY DEF Here
<1>2. /\ TakeR("number") /\ ExpectOrCancel(rpacket, "complement")
      /\ UNCHANGED <<file, svars>>
      /\ UNCHANGED <<file, spc, spacket, offset, written, rpacket, received, into>>
  BY DEF r_number, ExpectOrCancel, GoR, svars
<1>3. rpc = "number" /\ toR # <<>>
  BY <1>1, <1>2, TookR
<1>4. Sending(d, a)
  BY <1>1, <1>3, ReceiverAt
<1>5. PICK F \in Frames : Reading(F)
  BY <1>4 DEF Sending
<1>6. Left(F, 1)
  BY <1>3, <1>5 DEF Reading
<1>7. Left(F, 2)' /\ toR[1] = F[2]
  <2>1. Left(F, 1 + 1)' /\ toR[1] = F[1 + 1]
    BY <1>1, <1>2, <1>6, LeftAfterOne
  <2> QED
    BY <2>1
<1>8. CASE toR[1] = rpacket /\ rpc' = "complement" /\ toS' = toS
  <2>1. Reading(F)'
    BY <1>2, <1>7, <1>8 DEF Reading
  <2> QED
    BY <1>2, <1>4, <1>8, <2>1, ReadsOn
<1> QED
  BY <1>2, <1>4, <1>8, Expected

LEMMA R_complement ==
  ASSUME ChecksumDetects, NoFalseAck, NEW d \in Nat, NEW a \in Nat, Here(d, a), r_complement
  PROVE  Stage'
<1>1. LineTypes /\ Situation(d, a)
  BY DEF Here
<1>2. /\ TakeR("complement") /\ ExpectOrCancel(255 - rpacket, "data")
      /\ UNCHANGED <<file, svars>>
      /\ UNCHANGED <<file, spc, spacket, offset, written, rpacket, received, into>>
  BY DEF r_complement, ExpectOrCancel, GoR, svars
<1>3. rpc = "complement" /\ toR # <<>>
  BY <1>1, <1>2, TookR
<1>4. Sending(d, a)
  BY <1>1, <1>3, ReceiverAt
<1>5. PICK F \in Frames : Reading(F)
  BY <1>4 DEF Sending
<1>6. Left(F, 2) /\ F[2] = rpacket
  BY <1>3, <1>5 DEF Reading
<1>7. Left(F, 3)' /\ toR[1] = F[3]
  <2>1. Left(F, 2 + 1)' /\ toR[1] = F[2 + 1]
    BY <1>1, <1>2, <1>6, LeftAfterOne
  <2> QED
    BY <2>1
<1>8. CASE toR[1] = 255 - rpacket /\ rpc' = "data" /\ toS' = toS
  <2>1. Reading(F)'
    BY <1>2, <1>6, <1>7, <1>8 DEF Reading
  <2> QED
    BY <1>2, <1>4, <1>8, <2>1, ReadsOn
<1> QED
  BY <1>2, <1>4, <1>8, Expected

LEMMA R_data ==
  ASSUME NEW d \in Nat, NEW a \in Nat, Here(d, a), r_data
  PROVE  Stage'
<1>1. LineTypes /\ Situation(d, a)
  BY DEF Here
<1>2. /\ rpc = "data" /\ rpc' = "checksum" /\ Len(toR) >= LEN /\ toS' = toS
      /\ rbuf' = SubSeq(toR, 1, LEN) /\ toR' = SubSeq(toR, LEN + 1, Len(toR))
      /\ UNCHANGED <<file, spc, spacket, offset, written, rpacket, received, into>>
  BY DEF r_data, svars
<1>3. Sending(d, a)
  BY <1>1, <1>2, ReceiverAt
<1>4. PICK F \in Frames : Reading(F)
  BY <1>3 DEF Sending
<1>5. Left(F, 3) /\ F[2] = rpacket /\ F[3] = 255 - rpacket
  BY <1>2, <1>4 DEF Reading
<1>6. Len(toR) = LEN + 1 /\ LEN \in Nat /\ \A j \in 1..Len(toR) : toR[j] = F[3 + j]
  BY <1>5, XmodemAssumption DEF Left
<1>7. /\ rbuf' = [j \in 1..LEN |-> toR[j]]
      /\ Len(toR') = Len(toR) - LEN
      /\ \A j \in 1..(Len(toR) - LEN) : toR'[j] = toR[LEN + j]
  <2>1. toR \in Seq(Byte) /\ LEN <= Len(toR)
    BY <1>1, <1>6 DEF LineTypes
  <2> QED
    BY <1>2, <1>6, <2>1, SeqRest
<1>8. rbuf' = [j \in 1..LEN |-> F[3 + j]]
  BY <1>6, <1>7
<1>9. Left(F, LEN + 3)'
  <2>1. Len(toR') = LEN + 4 - (LEN + 3) /\ Len(toR') = 1
    BY <1>6, <1>7
  <2>2. toR'[1] = F[(LEN + 3) + 1]
    <3>1. toR'[1] = toR[LEN + 1] /\ LEN + 1 \in 1..Len(toR) /\ 3 + (LEN + 1) = (LEN + 3) + 1
      BY <1>6, <1>7
    <3> QED
      BY <1>6, <3>1
  <2>3. \A j \in 1..Len(toR') : toR'[j] = F[(LEN + 3) + j]
    <3>1. SUFFICES ASSUME NEW j \in 1..Len(toR')
                   PROVE  toR'[j] = F[(LEN + 3) + j]
      OBVIOUS
    <3>2. Len(toR') = 1
      BY <2>1
    <3>3. j = 1
      BY <3>2
    <3> QED
      BY <2>2, <3>3
  <2> QED
    BY <2>1, <2>3 DEF Left
<1>10. Reading(F)'
  BY <1>2, <1>5, <1>8, <1>9 DEF Reading
<1> QED
  BY <1>2, <1>3, <1>10, ReadsOn

\* At the checksum the frame is of the packet that the receiver expects, since another
\* one would differ in its number and in the complement; and the checksum is that of
\* the bytes that were read only when none of them was damaged.
LEMMA AtChecksum ==
  ASSUME ChecksumDetects, NEW d \in Nat, NEW a \in Nat, Here(d, a), rpc = "checksum"
  PROVE  /\ Sending(d, a) /\ a = d /\ Len(toR) = 1
         /\ toR[1] = get_checksum(rbuf) => rbuf = Packet
<1>1. LineTypes /\ Sends(d) /\ Has(a) /\ Situation(d, a)
  BY DEF Here
<1>2. Sending(d, a)
  BY <1>1, ReceiverAt
<1>3. PICK F \in Frames, k \in 1..(LEN + 4) :
        /\ Reading(F) /\ F \in Seq(Byte) /\ Len(F) = LEN + 4
        /\ \A j \in 1..(LEN + 4) : j # k => F[j] = WholePacket[j]
  BY <1>2, FrameNow
<1>4. /\ Left(F, LEN + 3) /\ F[2] = rpacket /\ F[3] = 255 - rpacket
      /\ rbuf = [j \in 1..LEN |-> F[3 + j]]
  BY <1>3 DEF Reading
<1>5. LEN \in Nat /\ offset \in Nat /\ spacket \in Byte
  BY <1>1, OffsetIs, XmodemAssumption
<1>6. /\ WholePacket[2] = spacket /\ WholePacket[3] = 255 - spacket
      /\ \A j \in 1..LEN : WholePacket[3 + j] = Packet[j]
      /\ WholePacket[LEN + 4] = get_checksum(Packet)
  BY <1>1, <1>5, FrameIs
<1>7. Len(toR) = 1 /\ toR[1] = F[LEN + 4]
  <2>1. Len(toR) = LEN + 4 - (LEN + 3) /\ \A j \in 1..Len(toR) : toR[j] = F[(LEN + 3) + j]
    BY <1>4 DEF Left
  <2>2. Len(toR) = 1 /\ (LEN + 3) + 1 = LEN + 4
    BY <1>5, <2>1
  <2>3. 1 \in 1..Len(toR)
    BY <2>2
  <2> QED
    BY <2>1, <2>2, <2>3
<1>8. a = d
  <2>1. a \in {d, d + 1}
    BY <1>2 DEF Sending
  <2>2. ASSUME a = d + 1
        PROVE  FALSE
    <3>1. spacket = (d + 1) % 256 /\ rpacket = (a + 1) % 256
      BY <1>1 DEF Sends, Has
    <3>2. rpacket # spacket /\ rpacket \in Int /\ spacket \in Int
      BY <2>2, <3>1
    <3>3. F[2] # WholePacket[2] /\ F[3] # WholePacket[3]
      BY <1>4, <1>6, <3>2
    <3>4. 2 \in 1..(LEN + 4) /\ 3 \in 1..(LEN + 4)
      BY <1>5
    <3>5. k = 2 /\ k = 3
      BY <1>3, <3>3, <3>4
    <3> QED
      BY <3>5
  <2> QED
    BY <2>1, <2>2
<1>9. ASSUME toR[1] = get_checksum(rbuf)
      PROVE  rbuf = Packet
  <2>1. Packet \in [1..LEN -> Byte]
    BY <1>1, <1>5, PacketIs
  <2>2. \A j \in 1..LEN : 3 + j \in 1..(LEN + 4) /\ 3 + j # LEN + 4
    BY <1>5
  <2>3. \A j \in 1..LEN : 3 + j # k => rbuf[j] = Packet[j]
    BY <1>3, <1>4, <1>6, <2>2
  <2>4. rbuf \in [1..LEN -> Byte]
    <3>1. \A j \in 1..LEN : F[3 + j] \in Byte
      BY <1>3, <2>2, SeqElement
    <3> QED
      BY <1>4, <3>1
  <2>5. ASSUME NEW i \in 1..LEN, rbuf[i] # Packet[i]
        PROVE  FALSE
    <3>1. k = 3 + i
      BY <2>3, <2>5
    <3>2. \A j \in 1..LEN : j # i => rbuf[j] = Packet[j]
      BY <1>5, <2>3, <3>1
    <3>3. PICK b \in Byte : b = rbuf[i]
      BY <2>4
    <3>4. rbuf = [Packet EXCEPT ![i] = b]
      BY <2>1, <2>4, <3>2, <3>3
    <3>5. get_checksum(rbuf) # get_checksum(Packet)
      <4>1. b # Packet[i]
        BY <2>5, <3>3
      <4>2. get_checksum([Packet EXCEPT ![i] = b]) # get_checksum(Packet)
        BY <2>1, <4>1, Zenon DEF ChecksumDetects, Detects
      <4> QED
        BY <3>4, <4>2, Zenon
    <3>6. F[LEN + 4] = WholePacket[LEN + 4]
      <4>1. LEN + 4 \in 1..(LEN + 4) /\ k # LEN + 4
        BY <1>5, <3>1
      <4> QED
        BY <1>3, <4>1
    <3> QED
      BY <1>6, <1>7, <1>9, <3>5, <3>6
  <2>6. \A i \in 1..LEN : rbuf[i] = Packet[i]
    BY <2>5
  <2> QED
    <3>1. Packet = [i \in 1..LEN |-> Packet[i]] /\ rbuf = [i \in 1..LEN |-> rbuf[i]]
      BY <2>1, <2>4
    <3>2. [i \in 1..LEN |-> rbuf[i]] = [i \in 1..LEN |-> Packet[i]]
      BY <2>6
    <3> QED
      BY <3>1, <3>2
<1> QED
  BY <1>2, <1>7, <1>8, <1>9

LEMMA NextPacket ==
  ASSUME NEW d \in Nat, LineTypes, Sends(d), Has(d), More(d), rbuf = Packet, r_accept
  PROVE  Has(d + 1)'
<1>1. /\ Pos(d) \in Nat /\ Pos(d + 1) = Pos(d) + LEN /\ d + 1 \in Nat
      /\ Len(file) \in Nat /\ LEN \in Nat
  BY PosFacts, FileIs, XmodemAssumption
<1>2. /\ rpacket' = (rpacket + 1) % 256 /\ into' = into \o rbuf
      /\ received' = received + LEN /\ file' = file
  BY DEF r_accept
<1>3. /\ rpacket = (d + 1) % 256 /\ received = Pos(d) /\ Len(into) = Pos(d)
      /\ \A j \in 1..Len(into) : into[j] = Pad(j)
  BY DEF Has
<1>4. offset = Pos(d) /\ offset \in Nat /\ Pos(d) < Len(file)
  BY OffsetIs DEF More
<1>5. into \in Seq(Byte) /\ rbuf \in Seq(Byte)
  BY DEF LineTypes
<1>6. Len(rbuf) = LEN
  <2>1. Packet \in [1..LEN -> Byte]
    BY <1>4, PacketIs
  <2>2. rbuf \in [1..LEN -> Byte]
    BY <2>1
  <2> QED
    BY <1>1, <2>2, SeqFunction
<1>7. /\ Len(into') = Len(into) + Len(rbuf)
      /\ \A i \in 1..Len(into) : into'[i] = into[i]
      /\ \A i \in 1..Len(rbuf) : into'[Len(into) + i] = rbuf[i]
  BY <1>2, <1>5, SeqCat
<1>8. Len(into') = Pos(d + 1) /\ received' = Pos(d + 1)
  BY <1>1, <1>2, <1>3, <1>6, <1>7
<1>9. ASSUME NEW j \in 1..Len(into')
      PROVE  into'[j] = Pad(j)
  <2>1. CASE j \in 1..Len(into)
    BY <1>3, <1>7, <2>1
  <2>2. CASE j \notin 1..Len(into)
    <3>1. j - Pos(d) \in 1..LEN /\ Pos(d) + (j - Pos(d)) = j
      BY <1>1, <1>3, <1>6, <1>7, <2>2
    <3>2. PICK i \in 1..LEN : Pos(d) + i = j
      BY <3>1
    <3>3. into'[j] = rbuf[i]
      BY <1>3, <1>6, <1>7, <3>2
    <3>4. Packet[i] = IF offset + i <= Len(file) THEN file[offset + i] ELSE 0
      BY DEF Packet
    <3>5. rbuf[i] = Pad(j)
      BY <1>4, <3>2, <3>4 DEF Pad
    <3> QED
      BY <3>3, <3>5
  <2> QED
    BY <2>1, <2>2
<1>10. rpacket' = ((d + 1) + 1) % 256
  BY <1>2, <1>3
<1>11. Pos(d + 1) < Len(file) + LEN
  BY <1>1, <1>4
<1>12. Pos(d + 1)' = Pos(d + 1) /\ \A j \in 1..Len(into') : Pad(j)' = Pad(j)
  BY <1>2 DEF Pos, Pad
<1> QED
  BY <1>2, <1>8, <1>9, <1>10, <1>11, <1>12 DEF Has

LEMMA R_accept ==
  ASSUME ChecksumDetects, NEW d \in Nat, NEW a \in Nat, Here(d, a), r_accept
  PROVE  Stage'
<1>1. LineTypes /\ Sends(d) /\ Has(a)
  BY DEF Here
<1>2. /\ TakeR("checksum") /\ Head(toR) = get_checksum(rbuf) /\ SendS(ACK)
      /\ rpc' = "first" /\ UNCHANGED <<file, spc, spacket, offset, written>>
  BY DEF r_accept, svars
<1>3. rpc = "checksum" /\ Head(toR) = toR[1] /\ (Len(toR) = 1 => toR' = <<>>)
  BY <1>1, <1>2, TookR
<1>4. Sending(d, a) /\ a = d /\ toR' = <<>> /\ rbuf = Packet
  BY <1>2, <1>3, AtChecksum
<1>5. spc = "reply" /\ toS = <<>> /\ More(d)
  BY <1>4 DEF Sending
<1>6. Sends(d)' /\ (More(d)' <=> More(d))
  BY <1>1, <1>2, SendsKept
<1>7. Has(d + 1)' /\ d + 1 \in Nat
  BY <1>1, <1>4, <1>5, NextPacket
<1>8. Len(toS') = 1
  <2>1. ACK \in Byte
    BY DEF ACK, Byte
  <2>2. PICK x \in {ACK} \cup Noise : Longer(toS, toS', x)
    BY <1>1, <1>2, <2>1, SendSOne
  <2> QED
    BY <1>5, <2>2, FirstReply
<1>9. Replying(d, d + 1)'
  BY <1>2, <1>4, <1>5, <1>6, <1>8 DEF Replying
<1> QED
  BY <1>6, <1>7, <1>9 DEF Stage, Situation

LEMMA R_reject ==
  ASSUME ChecksumDetects, NoFalseAck, NEW d \in Nat, NEW a \in Nat, Here(d, a), r_reject
  PROVE  Stage'
<1>1. LineTypes /\ Sends(d) /\ Has(a)
  BY DEF Here
<1>2. /\ TakeR("checksum") /\ SendS(NAK) /\ (rpc' = "first" \/ rpc' \in Failed)
      /\ UNCHANGED <<file, spc, spacket, offset, written, rpacket, received, into>>
  BY DEF r_reject, svars, Failed
<1>3. rpc = "checksum" /\ (Len(toR) = 1 => toR' = <<>>)
  BY <1>1, <1>2, TookR
<1>4. Sending(d, a) /\ a = d /\ toR' = <<>>
  BY <1>3, AtChecksum
<1>5. spc = "reply" /\ toS = <<>> /\ More(d)
  BY <1>4 DEF Sending
<1>6. Sends(d)' /\ Has(a)' /\ (More(d)' <=> More(d))
  BY <1>1, <1>2, SendsKept, HasKept
<1>7. PICK x \in Byte : x # ACK /\ Longer(toS, toS', x)
  BY <1>1, <1>2, NotAck
<1>8. Len(toS') = 1 /\ toS'[1] # ACK
  BY <1>5, <1>7, FirstReply
<1>9. CASE rpc' = "first"
  <2>1. Replying(d, a)'
    BY <1>2, <1>4, <1>5, <1>6, <1>8, <1>9 DEF Replying
  <2> QED
    BY <1>6, <2>1 DEF Stage, Situation
<1>10. CASE rpc' \in Failed
  <2>1. \A j \in 1..Len(toS') : toS'[j] # ACK
    BY <1>8
  <2> QED
    BY <1>2, <1>5, <1>10, <2>1, ReceiverGivesUp
<1> QED
  BY <1>2, <1>9, <1>10

LEMMA R_eot ==
  ASSUME NEW d \in Nat, NEW a \in Nat, Here(d, a), r_eot
  PROVE  Stage'
<1>1. LineTypes /\ Sends(d) /\ Has(a) /\ Situation(d, a)
  BY DEF Here
<1>2. /\ TakeR("eot")
      /\ UNCHANGED <<file, spc, spacket, offset, written, rpacket, received, into>>
  BY DEF r_eot, GoR, svars
<1>3. rpc = "eot" /\ toR # <<>> /\ Head(toR) = toR[1]
  BY <1>1, <1>2, TookR
<1>4. \/ toR[1] = EOT /\ SendS(ACK) /\ rpc' = "ok"
      \/ rpc' \in Failed /\ toS' = toS
  BY <1>3, MismatchFails DEF r_eot, GoR
<1>5. Ending(d, a) \/ Misled(d)
  BY <1>1, <1>3, ReceiverAt
<1>6. Sends(d)' /\ Has(a)' /\ (More(d)' <=> More(d))
  BY <1>1, <1>2, SendsKept, HasKept
<1>7. ASSUME Ending(d, a)
      PROVE  spc = "eot2" /\ toS = <<>> /\ ~More(d) /\ a = d
  BY <1>3, <1>7 DEF Ending
<1>8. CASE rpc' \in Failed /\ toS' = toS
  <2>1. CASE Ending(d, a)
    <3>1. \A j \in 1..Len(toS') : toS'[j] # ACK
      BY <1>7, <1>8, <2>1
    <3> QED
      BY <1>2, <1>7, <1>8, <2>1, <3>1, ReceiverGivesUp
  <2>2. CASE Misled(d)
    <3>1. spc \in Failed \/ (spc \in {"write", "reply"} /\ \A j \in 1..Len(toS) : toS[j] # ACK)
      BY <2>2 DEF Misled
    <3> QED
      BY <1>2, <1>8, <3>1, ReceiverGivesUp
  <2> QED
    BY <1>5, <2>1, <2>2
<1>9. CASE toR[1] = EOT /\ SendS(ACK) /\ rpc' = "ok"
  <2>1. CASE Ending(d, a)
    <3>1. Ending(d, a)'
      BY <1>2, <1>6, <1>7, <1>9, <2>1 DEF Ending
    <3> QED
      BY <1>6, <3>1 DEF Stage, Situation
  <2>2. CASE Misled(d)
    <3>1. rpacket \in {EOT, EOT + 1}
      BY <1>9, <2>2 DEF Misled
    <3>2. \/ spc \in Failed
          \/ /\ spc \in {"write", "reply"} /\ More(d)
             /\ Len(toS) = 0 \/ (Len(toS) = 1 /\ toS[1] # ACK)
      BY <2>2 DEF Misled
    <3>3. ACK \in Byte
      BY DEF ACK, Byte
    <3>4. PICK x \in {ACK} \cup Noise : Longer(toS, toS', x)
      BY <1>1, <1>9, <3>3, SendSOne
    <3>5. Fooled(d)'
      <4>1. Len(toS) = 0 => Len(toS') = 1
        BY <3>4 DEF Longer
      <4>2. Len(toS) = 1 => Len(toS') = 2 /\ toS'[1] = toS[1]
        BY <3>4 DEF Longer
      <4> QED
        BY <1>2, <1>6, <1>9, <3>1, <3>2, <4>1, <4>2 DEF Fooled
    <3> QED
      BY <1>6, <3>5 DEF Stage, Situation
  <2> QED
    BY <1>5, <2>1, <2>2
<1> QED
  BY <1>4, <1>8, <1>9

-----------------------------------------------------------------------------
(***************************************************************************)
(* The invariant and what follows from it.                                 *)
(***************************************************************************)

LEMMA TypesStep ==
  ASSUME ChecksumDetects, NEW d \in Nat, LineTypes, Sends(d), XmNext
  PROVE  LineTypes'
<1>1. offset \in Nat /\ spacket \in Byte
  BY OffsetIs
<1>2. ACK \in Byte /\ NAK \in Byte /\ CAN \in Byte /\ EOT \in Byte
  BY DEF ACK, NAK, CAN, EOT, Byte
<1>3. \A l : (TakeS(l) => toS' \in Seq(Byte)) /\ (TakeR(l) => toR' \in Seq(Byte))
  BY TookS, TookR
<1>4. \A b \in Byte : (SendS(b) => toS' \in Seq(Byte)) /\ (SendR(<<b>>) => toR' \in Seq(Byte))
  BY SendSOne, SendROne DEF Longer
<1>5. SendR(WholePacket) => toR' \in Seq(Byte)
  BY <1>1, SendRFrame
<1>6. /\ file \in Files /\ toR \in Seq(Byte) /\ toS \in Seq(Byte)
      /\ rbuf \in Seq(Byte) /\ into \in Seq(Byte)
  BY DEF LineTypes
<1>7. ASSUME Sender
      PROVE  LineTypes'
  <2>1. UNCHANGED <<file, rbuf, into>>
    BY <1>7 DEF Sender, s_start, s_write, s_ack, s_nak, s_bad, s_eot1, s_eot2, rvars
  <2>2. toS' \in Seq(Byte)
    BY <1>3, <1>6, <1>7 DEF Sender, s_start, s_write, s_ack, s_nak, s_bad, s_eot1, s_eot2
  <2>3. toR' \in Seq(Byte)
    BY <1>2, <1>4, <1>5, <1>6, <1>7
    DEF Sender, s_start, s_write, s_ack, s_nak, s_bad, s_eot1, s_eot2
  <2> QED
    BY <1>6, <2>1, <2>2, <2>3 DEF LineTypes
<1>8. ASSUME Receiver
      PROVE  LineTypes'
  <2>1. CASE r_data
    <3>1. /\ rbuf' = SubSeq(toR, 1, LEN) /\ toR' = SubSeq(toR, LEN + 1, Len(toR))
          /\ LEN <= Len(toR) /\ LEN \in Nat /\ UNCHANGED <<file, toS, into>>
      BY <1>6, <2>1, XmodemAssumption, SeqEmpty DEF r_data
    <3>2. rbuf' \in Seq(Byte) /\ toR' \in Seq(Byte)
      BY <1>6, <3>1, SeqRest
    <3> QED
      BY <1>6, <3>1, <3>2 DEF LineTypes
  <2>2. CASE r_accept
    <3>1. into' = into \o rbuf /\ TakeR("checksum") /\ SendS(ACK) /\ UNCHANGED <<file, rbuf>>
      BY <2>2 DEF r_accept
    <3>2. into' \in Seq(Byte)
      BY <1>6, <3>1, SeqCat
    <3> QED
      BY <1>2, <1>3, <1>4, <1>6, <3>1, <3>2 DEF LineTypes
  <2>3. CASE ~r_data /\ ~r_accept
    <3>1. r_start \/ r_first \/ r_number \/ r_complement \/ r_reject \/ r_eot
      BY <1>8, <2>3 DEF Receiver
    <3>2. UNCHANGED <<file, rbuf, into>>
      BY <3>1 DEF r_start, r_first, r_number, r_complement, r_reject, r_eot,
                  ExpectOrCancel, GoR
    <3>3. toS' \in Seq(Byte)
      BY <1>2, <1>4, <1>6, <3>1 DEF r_start, r_first, r_number, r_complement, r_reject, r_eot,
                                     ExpectOrCancel
    <3>4. toR' \in Seq(Byte)
      BY <1>3, <1>6, <3>1 DEF r_start, r_first, r_number, r_complement, r_reject, r_eot
    <3> QED
      BY <1>6, <3>2, <3>3, <3>4 DEF LineTypes
  <2> QED
    BY <2>1, <2>2, <2>3
<1> QED
  BY <1>7, <1>8 DEF XmNext

LEMMA StageInit ==
  ASSUME XmInit
  PROVE  XInv
<1>1. /\ file \in Files /\ toR = <<>> /\ toS = <<>> /\ rbuf = <<>> /\ into = <<>>
      /\ spc = "start" /\ rpc = "start" /\ spacket = 1 /\ rpacket = 1
      /\ offset = 0 /\ written = 0 /\ received = 0
  BY DEF XmInit
<1>2. LineTypes
  BY <1>1 DEF LineTypes
<1>3. Pos(0) = 0 /\ Len(file) \in Nat /\ LEN \in Nat \ {0}
  BY <1>2, PosFacts, FileIs, XmodemAssumption
<1>4. (0 + 1) % 256 = 1
  OBVIOUS
<1>5. Sends(0)
  BY <1>1, <1>3, <1>4 DEF Sends, More
<1>6. Has(0)
  <2>1. Len(into) = 0
    BY <1>1
  <2> QED
    BY <1>1, <1>3, <1>4, <2>1 DEF Has
<1>7. Starting(0, 0)
  BY <1>1 DEF Starting
<1> QED
  BY <1>2, <1>5, <1>6, <1>7 DEF XInv, Stage, Situation

LEMMA StageStep ==
  ASSUME ChecksumDetects, NoFalseAck, XInv, [XmNext]_xvars
  PROVE  XInv'
<1>1. LineTypes
  BY DEF XInv
<1>2. PICK d \in Nat, a \in Nat : Sends(d) /\ Has(a) /\ Situation(d, a)
  BY DEF XInv, Stage
<1>3. Here(d, a)
  BY <1>1, <1>2 DEF Here
<1>4. CASE XmNext
  <2>1. Stage'
    BY <1>3, <1>4, S_start, S_write, S_ack, S_nak, S_bad, S_eot1, S_eot2,
       R_start, R_first, R_number, R_complement, R_data, R_accept, R_reject, R_eot
    DEF XmNext, Sender, Receiver
  <2> QED
    BY <1>1, <1>2, <1>4, <2>1, TypesStep DEF XInv
<1>5. CASE UNCHANGED xvars
  <2>1. UNCHANGED <<file, toR, toS, rbuf, into>>
    BY <1>5 DEF xvars, rvars
  <2>2. LineTypes'
    BY <1>1, <2>1 DEF LineTypes
  <2>3. /\ UNCHANGED <<file, spacket, offset, written, rpacket, received, into>>
        /\ UNCHANGED <<spc, rpc, toR, toS, rbuf>>
    BY <1>5 DEF xvars, svars, rvars
  <2>4. Sends(d)' /\ Has(a)' /\ (More(d)' <=> More(d)) /\ Frames' = Frames
    BY <1>2, <2>3, SendsKept, HasKept
  <2>5. Situation(d, a)'
    <3>1. \A F : Reading(F)' <=> Reading(F)
      BY <2>3 DEF Reading, Left
    <3>2. Sending(d, a)' <=> Sending(d, a)
      BY <2>3, <2>4, <3>1 DEF Sending
    <3>3. /\ Starting(d, a)' <=> Starting(d, a)
          /\ Turn(d, a)' <=> Turn(d, a)
          /\ Replying(d, a)' <=> Replying(d, a)
          /\ Ending(d, a)' <=> Ending(d, a)
      BY <2>3, <2>4 DEF Starting, Turn, Replying, Ending
    <3>4. /\ Misled(d)' <=> Misled(d)
          /\ Fooled(d)' <=> Fooled(d)
          /\ ReceiverFailed' <=> ReceiverFailed
          /\ SenderFailed' <=> SenderFailed
      BY <2>3, <2>4 DEF Misled, Fooled, ReceiverFailed, SenderFailed
    <3> QED
      BY <1>2, <3>2, <3>3, <3>4 DEF Situation
  <2> QED
    BY <2>2, <2>4, <2>5 DEF XInv, Stage
<1> QED
  BY <1>4, <1>5

\* The number of packets of a file.
LEMMA PacketCount ==
  ASSUME LineTypes, NEW a \in Nat, Pos(a) < Len(file) + LEN
  PROVE  /\ Pos(a) <= ((Len(file) + LEN - 1) \div LEN) * LEN
         /\ ~More(a) => Pos(a) = ((Len(file) + LEN - 1) \div LEN) * LEN
<1>1. PICK N \in Nat : N = Len(file)
  BY FileIs
<1>2. PICK L \in Nat \ {0} : L = LEN
  BY XmodemAssumption
<1>3. PICK Q : Q = (N + L - 1) \div L
  OBVIOUS
<1>4. Q \in Nat /\ Q * L <= N + L - 1 /\ N + L - 1 < Q * L + L
  BY <1>1, <1>2, <1>3
<1>5. Pos(a) = a * L /\ a * L < N + L
  BY <1>1, <1>2 DEF Pos
<1>6. a <= Q
  <2>1. ASSUME a > Q
        PROVE  FALSE
    <3>1. a * L >= (Q + 1) * L /\ (Q + 1) * L = Q * L + L
      BY <1>2, <1>4, <2>1
    <3> QED
      BY <1>2, <1>4, <1>5, <3>1
  <2> QED
    BY <1>4, <2>1
<1>7. a * L <= Q * L
  BY <1>2, <1>4, <1>6
<1>8. ASSUME ~(a * L < N)
      PROVE  a * L = Q * L
  <2>1. ASSUME a < Q
        PROVE  FALSE
    <3>1. Q * L >= (a + 1) * L /\ (a + 1) * L = a * L + L
      BY <1>2, <1>4, <2>1
    <3> QED
      BY <1>1, <1>2, <1>4, <1>8, <3>1
  <2> QED
    BY <1>4, <1>6, <2>1
<1> QED
  BY <1>1, <1>2, <1>3, <1>5, <1>7, <1>8 DEF More

LEMMA PaddedIs ==
  ASSUME LineTypes, NEW a \in Nat, Has(a)
  PROVE  /\ IsPrefix(into, Padded)
         /\ ~More(a) => into = Padded
         /\ received = Len(into)
<1>1. PICK n : n = ((Len(file) + LEN - 1) \div LEN) * LEN
  OBVIOUS
<1>2. PICK p : p = Padded
  OBVIOUS
<1>3. /\ Pos(a) < Len(file) + LEN /\ Len(into) = Pos(a) /\ received = Pos(a)
      /\ \A j \in 1..Len(into) : into[j] = Pad(j)
  BY DEF Has
<1>4. Pos(a) <= n /\ (~More(a) => Pos(a) = n)
  BY <1>1, <1>3, PacketCount
<1>5. n \in Nat
  <2>1. Len(file) \in Nat /\ LEN \in Nat \ {0}
    BY FileIs, XmodemAssumption
  <2>2. PICK Q : Q = (Len(file) + LEN - 1) \div LEN
    OBVIOUS
  <2>3. Q \in Nat
    BY <2>1, <2>2
  <2> QED
    BY <1>1, <2>1, <2>2, <2>3
<1>6. p = [j \in 1..n |-> Pad(j)]
  BY <1>1, <1>2 DEF Padded, Pad
<1>7. \A j \in 1..n : Pad(j) \in Byte
  <2>1. file \in Seq(Byte) /\ Len(file) \in Nat
    BY FileIs
  <2>2. ASSUME NEW j \in 1..n
        PROVE  Pad(j) \in Byte
    <3>1. CASE j <= Len(file)
      <4>1. j \in 1..Len(file)
        BY <1>5, <2>1, <3>1
      <4> QED
        BY <2>1, <3>1, <4>1, SeqElement DEF Pad
    <3>2. CASE ~(j <= Len(file))
      BY <3>2 DEF Pad, Byte
    <3> QED
      BY <3>1, <3>2
  <2> QED
    BY <2>2
<1>8. p \in [1..n -> Byte] /\ \A j \in 1..n : p[j] = Pad(j)
  BY <1>6, <1>7
<1>9. p \in Seq(Byte) /\ Len(p) = n
  BY <1>5, <1>8, SeqFunction
<1>10. into \in Seq(Byte) /\ Pos(a) \in Nat
  BY PosFacts DEF LineTypes
<1>11. into \in [1..Pos(a) -> Byte]
  BY <1>3, <1>10
<1>12. \A j \in 1..Pos(a) : j \in 1..n /\ into[j] = p[j]
  BY <1>3, <1>4, <1>5, <1>8, <1>10
<1>13. ASSUME ~More(a)
       PROVE  into = p
  <2>1. Pos(a) = n
    BY <1>4, <1>13
  <2>2. into \in [1..n -> Byte] /\ \A j \in 1..n : into[j] = p[j]
    BY <1>11, <1>12, <2>1
  <2> QED
    <3>1. p = [i \in 1..n |-> p[i]] /\ into = [i \in 1..n |-> into[i]]
      BY <1>8, <2>2
    <3>2. [i \in 1..n |-> into[i]] = [i \in 1..n |-> p[i]]
      BY <2>2
    <3> QED
      BY <3>1, <3>2
<1>14. IsPrefix(into, p)
  <2>1. SubSeq(p, 1, Len(into)) = [j \in 1..Pos(a) |-> p[j]]
    BY <1>3, <1>4, <1>9, <1>10, SeqRest
  <2>2. [j \in 1..Pos(a) |-> p[j]] \in [1..Pos(a) -> Byte]
    BY <1>8, <1>12
  <2>3. into = [j \in 1..Pos(a) |-> p[j]]
    BY <1>11, <1>12, <2>2, SameFunction
  <2>4. Len(into) <= Len(p)
    BY <1>3, <1>4, <1>9
  <2>5. SubSeq(into, 1, Len(into)) = [j \in 1..Pos(a) |-> into[j]]
    BY <1>3, <1>10, SeqRest
  <2>6. SubSeq(into, 1, Len(into)) = into
    BY <1>11, <2>5
  <2> QED
    BY <2>1, <2>3, <2>4, <2>6, Zenon DEF IsPrefix
<1> QED
  BY <1>2, <1>3, <1>13, <1>14

LEMMA InvAlways ==
  ASSUME ChecksumDetects, NoFalseAck
  PROVE  XmSpec => []XInv
<1>1. XmInit => XInv
  BY StageInit
<1>2. XInv /\ [XmNext]_xvars => XInv'
  BY StageStep
<1> QED
  BY <1>1, <1>2, PTL DEF XmSpec

\* Over a line that damages any number of bytes, but no two of one frame and none into
\* ACK, the receiver has written a prefix of the padded file, for every file, packet
\* length, number of attempts and budget of errors (read_packet: packet number,
\* complement and checksum; write_packet: retransmission).
THEOREM DeliveredInOrderAlways ==
  ASSUME ChecksumDetects, NoFalseAck
  PROVE  XmSpec => []DeliveredInOrder
<1>1. ASSUME XInv
      PROVE  DeliveredInOrder
  <2>1. LineTypes
    BY <1>1 DEF XInv
  <2>2. PICK a \in Nat : Has(a)
    BY <1>1 DEF XInv, Stage
  <2> QED
    BY <2>1, <2>2, PaddedIs DEF DeliveredInOrder
<1>2. XmSpec => []XInv
  BY InvAlways
<1> QED
  BY <1>1, <1>2, PTL

\* Under the same conditions a side that reports success has told the truth
\* (receive_with_progress, transmit_with_progress).
THEOREM SuccessIsTrueAlways ==
  ASSUME ChecksumDetects, NoFalseAck
  PROVE  XmSpec => []SuccessIsTrue
<1>1. ASSUME XInv
      PROVE  SuccessIsTrue
  <2>1. LineTypes
    BY <1>1 DEF XInv
  <2>2. PICK d \in Nat, a \in Nat : Sends(d) /\ Has(a) /\ Situation(d, a)
    BY <1>1 DEF XInv, Stage
  <2>3. /\ received = Len(into) /\ (~More(a) => into = Padded)
        /\ written = offset /\ (~More(d) => offset = Len(file))
    BY <2>1, <2>2, PaddedIs, OffsetIs
  <2>4. ASSUME rpc = "ok"
        PROVE  into = Padded \/ rpacket \in {EOT, EOT + 1}
    <3>1. Ending(d, a) \/ Fooled(d)
      <4>1. /\ ~Starting(d, a) /\ ~Turn(d, a) /\ ~Replying(d, a) /\ ~Misled(d)
            /\ ~ReceiverFailed /\ ~SenderFailed
        BY <2>4 DEF Starting, Turn, Replying, Misled, ReceiverFailed, SenderFailed, Failed
      <4>2. ~Sending(d, a)
        BY <2>4 DEF Sending, Reading
      <4> QED
        BY <2>2, <4>1, <4>2 DEF Situation
    <3>2. Ending(d, a) => a = d /\ ~More(d)
      BY DEF Ending
    <3>3. Fooled(d) => rpacket \in {EOT, EOT + 1}
      BY DEF Fooled
    <3> QED
      BY <2>3, <3>1, <3>2, <3>3
  <2>5. ASSUME spc = "ok"
        PROVE  rpc = "ok" /\ into = Padded /\ written = Len(file)
    <3>1. Ending(d, a)
      <4>1. /\ ~Starting(d, a) /\ ~Turn(d, a) /\ ~Replying(d, a) /\ ~Misled(d)
            /\ ~Sending(d, a) /\ ~Fooled(d) /\ ~ReceiverFailed /\ ~SenderFailed
        BY <2>5 DEF Starting, Turn, Replying, Misled, Sending, Fooled, ReceiverFailed,
                    SenderFailed, Failed
      <4> QED
        BY <2>2, <4>1 DEF Situation
    <3>2. a = d /\ ~More(d) /\ rpc = "ok"
      BY <2>5, <3>1 DEF Ending
    <3> QED
      BY <2>3, <3>2
  <2> QED
    BY <2>3, <2>4, <2>5 DEF SuccessIsTrue
<1>2. XmSpec => []XInv
  BY InvAlways
<1> QED
  BY <1>1, <1>2, PTL
=============================================================================
