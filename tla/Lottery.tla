------------------------------- MODULE Lottery -------------------------------
(***************************************************************************)
(* The lottery scheduler of kernel/proc_our.c, built in place of the       *)
(* round-robin one of proc.c when USE_OUR_PROC is set, on several CPUs.    *)
(*                                                                         *)
(* A step is one visit to a slot of the process table under its p->lock.   *)
(* The lock a CPU holds while it runs a process is not modelled: a RUNNING *)
(* slot is passed over or waited for, and is never changed by another CPU. *)
(***************************************************************************)
EXTENDS Integers

CONSTANTS NPROC,    \* slots in the process table
          CPU,
          None,
          Tickets,  \* the values of p->tickets; 50..99 in allocproc()
          first     \* tickets of the first process

ASSUME LotteryAssumption ==
  /\ NPROC \in Nat \ {0}
  /\ None \notin 1..NPROC
  /\ Tickets \subseteq Nat \ {0}
  /\ first \in Tickets

Slot == 1..NPROC

VARIABLES
  state, tickets,    \* fields of struct proc
  cpu,               \* c->proc
  context_switches,  \* c->context_switches
  phase, at,         \* where scheduler() is on a CPU, and p in its loops
  total_tickets, winning_ticket, current_ticket, found,
  ran                \* how many processes the CPU switched to in this round

table == <<state, tickets>>
locals == <<total_tickets, winning_ticket, current_ticket, found, ran>>
vars == <<table, cpu, context_switches, phase, at, locals>>

TypeOK ==
  /\ state \in [Slot -> {"UNUSED", "SLEEPING", "RUNNABLE", "RUNNING", "ZOMBIE"}]
  /\ tickets \in [Slot -> Tickets \cup {0}]
  /\ cpu \in [CPU -> Slot \cup {None}]
  /\ context_switches \in [CPU -> 0..2]
  /\ phase \in [CPU -> {"count", "draw", "scan", "run", "wfi"}]
  /\ at \in [CPU -> Slot]
  /\ total_tickets \in [CPU -> Nat]
  /\ winning_ticket \in [CPU -> Nat]
  /\ current_ticket \in [CPU -> Nat]
  /\ found \in [CPU -> BOOLEAN]
  /\ ran \in [CPU -> 0..NPROC]

Init ==
  /\ state = [s \in Slot |-> IF s = 1 THEN "RUNNABLE" ELSE "UNUSED"]
  /\ tickets = [s \in Slot |-> IF s = 1 THEN first ELSE 0]
  /\ cpu = [c \in CPU |-> None]
  /\ context_switches = [c \in CPU |-> 0]
  /\ phase = [c \in CPU |-> "count"]
  /\ at = [c \in CPU |-> 1]
  /\ total_tickets = [c \in CPU |-> 0]
  /\ winning_ticket = [c \in CPU |-> 0]
  /\ current_ticket = [c \in CPU |-> 0]
  /\ found = [c \in CPU |-> FALSE]
  /\ ran = [c \in CPU |-> 0]

-----------------------------------------------------------------------------
(* One round of scheduler().                                               *)

\* The top of the loop: the locals start from 0 again.
NewRound(c) ==
  /\ phase' = [phase EXCEPT ![c] = "count"]
  /\ at' = [at EXCEPT ![c] = 1]
  /\ total_tickets' = [total_tickets EXCEPT ![c] = 0]
  /\ winning_ticket' = [winning_ticket EXCEPT ![c] = 0]
  /\ current_ticket' = [current_ticket EXCEPT ![c] = 0]
  /\ found' = [found EXCEPT ![c] = FALSE]
  /\ ran' = [ran EXCEPT ![c] = 0]

\* Mutant: the loop over the table ends one slot early.
count_Short(c) ==
  LET p == at[c] IN
  /\ phase[c] = "count"
  /\ total_tickets' = [total_tickets EXCEPT ![c] =
                         @ + IF p < NPROC /\ state[p] = "RUNNABLE"
                             THEN tickets[p] ELSE 0]
  /\ IF p < NPROC
     THEN at' = [at EXCEPT ![c] = p + 1] /\ UNCHANGED phase
     ELSE phase' = [phase EXCEPT ![c] = "draw"] /\ at' = [at EXCEPT ![c] = 1]
  /\ UNCHANGED <<table, cpu, context_switches, winning_ticket, current_ticket, found,
                 ran>>

\* The first pass adds up the tickets of the runnable processes.
count(c) ==
  LET p == at[c] IN
  /\ phase[c] = "count"
  /\ total_tickets' = [total_tickets EXCEPT ![c] =
                         @ + IF state[p] = "RUNNABLE" THEN tickets[p] ELSE 0]
  /\ IF p < NPROC
     THEN at' = [at EXCEPT ![c] = p + 1] /\ UNCHANGED phase
     ELSE phase' = [phase EXCEPT ![c] = "draw"] /\ at' = [at EXCEPT ![c] = 1]
  /\ UNCHANGED <<table, cpu, context_switches, winning_ticket, current_ticket, found,
                 ran>>

\* rand() % total_tickets.  Without tickets the CPU waits for an interrupt.
draw(c, w) ==
  /\ phase[c] = "draw"
  /\ w < total_tickets[c]
  /\ winning_ticket' = [winning_ticket EXCEPT ![c] = w]
  /\ phase' = [phase EXCEPT ![c] = "scan"]
  /\ UNCHANGED <<table, cpu, context_switches, at, total_tickets, current_ticket,
                 found, ran>>

draw_none(c) ==
  /\ phase[c] = "draw"
  /\ total_tickets[c] = 0
  /\ phase' = [phase EXCEPT ![c] = "wfi"]
  /\ UNCHANGED <<table, cpu, context_switches, at, locals>>

\* The CPU leaves slot p of the second pass, t tickets further on.  After the last
\* slot a round in which nothing ran ends in wfi.
PassSlot(c, t) ==
  IF at[c] = NPROC /\ found[c] THEN NewRound(c)
  ELSE /\ IF at[c] < NPROC
          THEN at' = [at EXCEPT ![c] = @ + 1] /\ phase' = [phase EXCEPT ![c] = "scan"]
          ELSE phase' = [phase EXCEPT ![c] = "wfi"] /\ UNCHANGED at
       /\ current_ticket' = [current_ticket EXCEPT ![c] = @ + t]
       /\ UNCHANGED <<total_tickets, winning_ticket, found, ran>>

\* The second pass comes to a slot that is not runnable.
scan_skip(c) ==
  /\ phase[c] = "scan"
  /\ state[at[c]] # "RUNNABLE"
  /\ PassSlot(c, 0)
  /\ UNCHANGED <<table, cpu, context_switches>>

\* The test of the second pass, once the tickets of slot p are added.
Wins(c) == current_ticket[c] + tickets[at[c]] > winning_ticket[c]

\* Mutant: the process is not marked RUNNING.
scan_run_Unmarked(c) ==
  LET p == at[c] IN
  /\ phase[c] = "scan"
  /\ state[p] = "RUNNABLE"
  /\ Wins(c)
  /\ current_ticket' = [current_ticket EXCEPT ![c] = @ + tickets[p]]
  /\ cpu' = [cpu EXCEPT ![c] = p]
  /\ found' = [found EXCEPT ![c] = TRUE]
  /\ ran' = [ran EXCEPT ![c] = @ + 1]
  /\ phase' = [phase EXCEPT ![c] = "run"]
  /\ UNCHANGED <<table, context_switches, at, total_tickets, winning_ticket>>

\* The second pass comes to a runnable slot: run it, or go past it.
scan_run(c) ==
  LET p == at[c] IN
  /\ phase[c] = "scan"
  /\ state[p] = "RUNNABLE"
  /\ Wins(c)
  /\ current_ticket' = [current_ticket EXCEPT ![c] = @ + tickets[p]]
  /\ state' = [state EXCEPT ![p] = "RUNNING"]
  /\ cpu' = [cpu EXCEPT ![c] = p]
  /\ found' = [found EXCEPT ![c] = TRUE]
  /\ ran' = [ran EXCEPT ![c] = @ + 1]
  /\ phase' = [phase EXCEPT ![c] = "run"]
  /\ UNCHANGED <<tickets, context_switches, at, total_tickets, winning_ticket>>

scan_lose(c) ==
  /\ phase[c] = "scan"
  /\ state[at[c]] = "RUNNABLE"
  /\ ~Wins(c)
  /\ PassSlot(c, tickets[at[c]])
  /\ UNCHANGED <<table, cpu, context_switches>>

\* A timer or device interrupt ends wfi.
interrupt(c) ==
  /\ phase[c] = "wfi"
  /\ NewRound(c)
  /\ UNCHANGED <<table, cpu, context_switches>>

-----------------------------------------------------------------------------
(* What the running process does, and its return to the scheduler.         *)

\* Back from swtch(): every third time the counter starts again.
SwitchBack(c, st) ==
  LET p == cpu[c] IN
  /\ phase[c] = "run"
  /\ state' = [state EXCEPT ![p] = st]
  /\ UNCHANGED tickets
  /\ cpu' = [cpu EXCEPT ![c] = None]
  /\ context_switches' = [context_switches EXCEPT ![c] = (@ + 1) % 3]
  /\ PassSlot(c, 0)

yield(c) == SwitchBack(c, "RUNNABLE")

sleep(c) == SwitchBack(c, "SLEEPING")

\* The first process never exits.
exit(c) == cpu[c] # 1 /\ SwitchBack(c, "ZOMBIE")

freeproc(s) ==
  /\ state' = [state EXCEPT ![s] = "UNUSED"]
  /\ tickets' = [tickets EXCEPT ![s] = 0]

\* wait() of the parent, whichever process that is, finds the zombie.
wait(c, s) ==
  /\ phase[c] = "run"
  /\ state[s] = "ZOMBIE"
  /\ freeproc(s)
  /\ UNCHANGED <<cpu, context_switches, phase, at, locals>>

\* allocproc() finds a slot and draws the tickets of the process.
allocproc(s, t) ==
  /\ state[s] = "UNUSED"
  /\ tickets' = [tickets EXCEPT ![s] = t]

\* fork() makes the child runnable.
fork(c, s, t) ==
  /\ phase[c] = "run"
  /\ allocproc(s, t)
  /\ state' = [state EXCEPT ![s] = "RUNNABLE"]
  /\ UNCHANGED <<cpu, context_switches, phase, at, locals>>

\* wakeup() or kill(), from a process or from a device interrupt on any CPU.
wakeup(s) ==
  /\ state[s] = "SLEEPING"
  /\ state' = [state EXCEPT ![s] = "RUNNABLE"]
  /\ UNCHANGED <<tickets, cpu, context_switches, phase, at, locals>>

-----------------------------------------------------------------------------

Step(c) ==
  \/ count(c) \/ draw_none(c)
  \/ scan_skip(c) \/ scan_run(c) \/ scan_lose(c)
  \/ interrupt(c)

Next ==
  \/ \E c \in CPU :
       \/ Step(c) \/ yield(c) \/ sleep(c) \/ exit(c)
       \/ \E w \in 0..total_tickets[c] : draw(c, w)
       \/ \E s \in Slot, t \in Tickets : fork(c, s, t)
       \/ \E s \in Slot : wait(c, s)
  \/ \E s \in Slot : wakeup(s)

Spec == Init /\ [][Next]_vars

\* Every CPU goes on, timer interrupts end every run and every wfi, and among
\* the draws of all CPUs, which share one generator of full period, ticket 0 comes
\* up again and again.
FairSpec ==
  /\ Spec
  /\ \A c \in CPU : WF_vars(Step(c)) /\ WF_vars(yield(c) \/ sleep(c) \/ exit(c))
  /\ \A c \in CPU : WF_vars(\E w \in 0..total_tickets[c] : draw(c, w))
  /\ SF_vars(\E c \in CPU : draw(c, 0))

-----------------------------------------------------------------------------
(* Properties.                                                             *)

\* A process is on at most one CPU, and only RUNNING processes are on one: two
\* CPUs whose passes reach the same winner do not both run it (proc_our.c
\* scheduler, the test of p->state under p->lock).
OneCPU ==
  /\ \A c, d \in CPU : cpu[c] # None /\ cpu[c] = cpu[d] => c = d
  /\ \A s \in Slot : state[s] = "RUNNING" <=> \E c \in CPU : cpu[c] = s

\* "randomly selects a process to run": one draw, one process (proc_our.c
\* scheduler).
OneWinnerPerDraw == \A c \in CPU : ran[c] <= 1

\* A runnable process is run in the end, whatever its slot and tickets and
\* whatever the other CPU takes between the two passes (proc_our.c scheduler).
NoStarvation == \A s \in Slot : state[s] = "RUNNABLE" ~> state[s] = "RUNNING"
=============================================================================
