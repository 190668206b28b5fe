------------------------------- MODULE MCLive -------------------------------
(* The log and the process table under one specification, for what must happen in
   the end.  They share no state, so one of them works while the other one rests:
   which one is chosen at the start.                                          *)
EXTENDS MCLog, Proc

VARIABLE part

all == <<part, vars, procvars>>

Logs == part = "log"
Processes == part = "processes"

\* A step of the log, a step of the process table.
InLog(step) == Logs /\ step /\ UNCHANGED <<part, procvars>>
InTable(step) == Processes /\ step /\ UNCHANGED <<part, vars>>

LiveInit == part \in {"log", "processes"} /\ Init /\ ProcInit
LiveNext == InLog(Next) \/ InTable(ProcNext)

\* The fairness of Log's FairSpec where the log works and that of Proc's where the
\* processes do.  The parts never change over, so one formula states a condition of
\* each: the processes that use the log are numbered like the slots.
Fairness(s) ==
  /\ SF_all(InLog(end_op(s)) \/ InTable(\E c \in CPU : scheduler(c, s)))
  /\ WF_all(InLog(pc[s] = "woken" /\ begin_op(s)) \/ InTable(\E c \in CPU : sched(c, s)))
  /\ WF_all(InLog(log_write(s) \/ brelse(s)) \/ InTable(resume(s)))
  /\ WF_all(InLog(finish(s)) \/ InTable(usertrap(s) \/ (kpc[s] = "user" /\ exit(s))))
  /\ SF_all(InTable(Kernel(s)))
  /\ SF_all(InTable(kpc[s] = "trap" /\ yield(s)))

LiveSpec ==
  /\ LiveInit
  /\ [][LiveNext]_all
  /\ \A s \in Proc : Fairness(s)
  /\ WF_all(InLog(commit \/ write_log \/ write_head \/ install_trans \/ erase \/ read_head))
  /\ SF_all(InTable(wait(initproc)))

\* A process that went to sleep in begin_op is woken unless the machine panicked
\* (SleeperWakes), and boot and commit finish unless crashes never stop
\* (LogReopens), however the operations interleave, where the log is the part that
\* works (log.c begin_op, end_op, recover_from_log).
NobodyWaitsForever == Logs => SleeperWakes /\ LogReopens
=============================================================================
