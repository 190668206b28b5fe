------------------------------- MODULE Shell --------------------------------
(* The shell (user/sh.c): the parser of a command line and runcmd(), which runs
   the parsed command in a tree of processes joined by pipes.

   A line is a sequence of tokens, as gettoken() delivers them: words, and the
   symbols | & ; ( ) < > and + (for >>); "cd " is a first word cd with a space
   after it.  A command is a tuple that starts with
   the name of its struct.  The programs that exec() starts and the kernel's
   fork(), wait(), exit() and descriptors are modelled as far as the shell relies
   on them: descriptors are the lowest free ones, a reader sees the end of a pipe
   when no process has its write end any more.                                *)
EXTENDS Integers, Sequences, FiniteSets, SequencesExt, FiniteSetsExt

CONSTANTS
  Words,     \* words of a line
  Texts,     \* the lines that may be typed first, second ...; then the input ends
  MAXARGS,   \* of struct execcmd
  NPROC      \* processes, the shell among them

VARIABLES
  proc,   \* the processes: where they are, the line in their memory, their command,
          \* descriptors, the array p of runcmd(), parent
  typed   \* lines typed so far

shvars == <<proc, typed>>

Symbols == {"|", "&", ";", "(", ")", "<", ">", "+"}
ErrCmd == <<"err">>
Err == [c |-> ErrCmd, s |-> <<>>]
Failed(r) == r.c = ErrCmd

\* The next token is one of toks.
peek(s, toks) == s # <<>> /\ Head(s) \in toks

\* execcmd() with no arguments yet; an argument is put into the execcmd under the
\* redirections that were parsed before it.
execcmd == <<"exec", <<>>>>
redircmd(c, tok, file) == <<"redir", c, tok, file>>
pipecmd(l, r) == <<"pipe", l, r>>
listcmd(l, r) == <<"list", l, r>>
backcmd(c) == <<"back", c>>

RECURSIVE AddArg(_, _)
AddArg(c, w) == IF c[1] = "redir" THEN <<"redir", AddArg(c[2], w), c[3], c[4]>> ELSE <<"exec", Append(c[2], w)>>

\* Any number of redirections, each with the name of a file.
RECURSIVE parseredirs(_, _)
parseredirs(c, s) ==
  IF ~peek(s, {"<", ">", "+"}) THEN [c |-> c, s |-> s]
  ELSE IF ~peek(Tail(s), Words) THEN Err
  ELSE parseredirs(redircmd(c, s[1], s[2]), Tail(Tail(s)))

\* The loop of parseexec() over the arguments.
RECURSIVE parseargs(_, _, _)
parseargs(ret, argc, s) ==
  IF s = <<>> \/ peek(s, {"|", ")", "&", ";"}) THEN [c |-> ret, s |-> s]
  ELSE IF Head(s) \notin Words \/ argc + 1 >= MAXARGS THEN Err
  ELSE LET r == parseredirs(AddArg(ret, Head(s)), Tail(s))
       IN  IF Failed(r) THEN r ELSE parseargs(r.c, argc + 1, r.s)

\* Every "&" that follows makes the command a background command.
RECURSIVE parsebacks(_, _)
parsebacks(c, s) == IF peek(s, {"&"}) THEN parsebacks(backcmd(c), Tail(s)) ELSE [c |-> c, s |-> s]

RECURSIVE parseline(_), parsepipe(_), parseexec(_), parseblock(_)

\* Mutant: the rest of the pipe is parsed as a line.
parsepipe_Line(s) ==
  LET l == parseexec(s)
      r == parseline(Tail(l.s))
  IN  IF Failed(l) \/ ~peek(l.s, {"|"}) THEN l
      ELSE IF Failed(r) THEN r ELSE [c |-> pipecmd(l.c, r.c), s |-> r.s]

parseline(s) ==
  LET p == parsepipe(s)
      b == parsebacks(p.c, p.s)
      r == parseline(Tail(b.s))
  IN  IF Failed(p) \/ ~peek(b.s, {";"}) THEN IF Failed(p) THEN p ELSE b
      ELSE IF Failed(r) THEN r ELSE [c |-> listcmd(b.c, r.c), s |-> r.s]

parsepipe(s) ==
  LET l == parseexec(s)
      r == parsepipe(Tail(l.s))
  IN  IF Failed(l) \/ ~peek(l.s, {"|"}) THEN l
      ELSE IF Failed(r) THEN r ELSE [c |-> pipecmd(l.c, r.c), s |-> r.s]

parseblock(s) ==
  LET r == parseline(Tail(s))
  IN  IF Failed(r) \/ ~peek(r.s, {")"}) THEN Err ELSE parseredirs(r.c, Tail(r.s))

parseexec(s) ==
  LET r == parseredirs(execcmd, s)
  IN  IF peek(s, {"("}) THEN parseblock(s)
      ELSE IF Failed(r) THEN r ELSE parseargs(r.c, 0, r.s)

\* parsecmd(): nothing may be left over.
parsecmd(s) == LET r == parseline(s) IN IF Failed(r) \/ r.s # <<>> THEN ErrCmd ELSE r.c
-----------------------------------------------------------------------------
Procs == 1 .. NPROC
Shell == 1
TTY == <<"tty">>
Closed == <<"closed">>
NoProc == [pc |-> "none", buf |-> <<>>, cmd |-> ErrCmd, fd |-> <<>>, p |-> <<0, 0>>, parent |-> 0]

\* main() has made sure that three descriptors are open.
Stdio == [f \in 0 .. 4 |-> IF f < 3 THEN TTY ELSE Closed]

ShInit ==
  /\ proc = [q \in Procs |-> IF q = Shell THEN [NoProc EXCEPT !.pc = "prompt", !.fd = Stdio] ELSE NoProc]
  /\ typed = 0

\* The lowest free descriptor of table f; close(); dup() or open() of object o.
lowest(f) == Min({d \in DOMAIN f : f[d] = Closed})
close(f, d) == [f EXCEPT ![d] = Closed]
dup(f, o) == [f EXCEPT ![lowest(f)] = o]

\* The process table after fork() by q of a child that starts at pc with cmd.
Unused == {c \in Procs \ {Shell} : proc[c].pc = "none"}
forked(q, pc, cmd, next) ==
  [proc EXCEPT ![Min(Unused)] = [proc[q] EXCEPT !.pc = pc, !.cmd = cmd, !.parent = q], ![q].pc = next]

\* The process table after exit() of q: its children go to init, which reaps them,
\* and q waits for its own parent.
exited(q) ==
  [c \in Procs |->
    IF c = q THEN IF proc[q].parent = 0 THEN NoProc ELSE [NoProc EXCEPT !.pc = "zombie", !.parent = proc[q].parent]
    ELSE IF proc[c].parent = q THEN IF proc[c].pc = "zombie" THEN NoProc ELSE [proc[c] EXCEPT !.parent = 0]
    ELSE proc[c]]

exits(q) == proc' = exited(q) /\ UNCHANGED typed

\* fork1(): the process goes on at next, or panics when there is no process left.
fork1(q, pc, cmd, next) ==
  /\ proc' = IF Unused = {} THEN exited(q) ELSE forked(q, pc, cmd, next)
  /\ UNCHANGED typed

\* wait(0): a zombie child is reaped; without children the call returns at once.
waits(q, next) ==
  LET kids == {c \in Procs : proc[c].parent = q /\ proc[c].pc # "none"}
      dead == {c \in kids : proc[c].pc = "zombie"}
  IN  /\ kids = {} \/ dead # {}
      /\ IF kids = {} THEN proc' = [proc EXCEPT ![q].pc = next]
         ELSE \E c \in dead : proc' = [proc EXCEPT ![c] = NoProc, ![q].pc = next]
      /\ UNCHANGED typed
-----------------------------------------------------------------------------
\* main(): getcmd() reads a line; "cd" and a space are for the shell itself, while
\* a line of "cd" alone goes to a child; at the end of the input the shell exits.  What the child will parse is already known here.
sh_getcmd(text) ==
  /\ proc[Shell].pc = "prompt"
  /\ typed' = typed + 1
  /\ proc' = [proc EXCEPT ![Shell].buf = text, ![Shell].cmd = parsecmd(text), ![Shell].pc = IF peek(text, {"cd "}) THEN @ ELSE "fork"]

sh_eof == proc[Shell].pc = "prompt" /\ exits(Shell)

sh_fork == proc[Shell].pc = "fork" /\ fork1(Shell, "parse", proc[Shell].cmd, "wait")

sh_wait == proc[Shell].pc = "wait" /\ waits(Shell, "prompt")

\* The child parses the line; panic() when that fails.
sh_parse(q) ==
  /\ proc[q].pc = "parse"
  /\ proc' = IF proc[q].cmd = ErrCmd THEN exited(q) ELSE [proc EXCEPT ![q].pc = "run"]
  /\ UNCHANGED typed

\* runcmd() of q is at a command of this type.
Runs(q, type) == proc[q].pc = "run" /\ proc[q].cmd[1] = type

\* An empty command exits, and so does one whose program cannot be run.
runcmd_exec(q) ==
  /\ Runs(q, "exec")
  /\ \/ exits(q)
     \/ proc[q].cmd[2] # <<>> /\ proc' = [proc EXCEPT ![q].pc = "prog"] /\ UNCHANGED typed

\* close(fd), then open() of the file, which may fail.
Redirected(f, tok, file) ==
  LET fd == IF tok = "<" THEN 0 ELSE 1
  IN  dup(close(f, fd), <<"file", tok, file>>)

runcmd_redir(q) ==
  LET c == proc[q].cmd
  IN  /\ Runs(q, "redir")
      /\ \/ exits(q)
         \/ /\ proc' = [proc EXCEPT ![q].fd = Redirected(@, c[3], c[4]), ![q].cmd = c[2]]
            /\ UNCHANGED typed

runcmd_list(q) ==
  \/ Runs(q, "list") /\ fork1(q, "run", proc[q].cmd[2], "list")
  \/ proc[q].pc = "list" /\ waits(q, "right")
  \/ /\ proc[q].pc = "right"
     /\ proc' = [proc EXCEPT ![q].pc = "run", ![q].cmd = @[3]]
     /\ UNCHANGED typed

\* pipe(): two descriptors of a pipe that no process has a descriptor of.
InUse == {k \in Procs : \E q \in Procs : \E d \in DOMAIN proc[q].fd : proc[q].fd[d] \in {<<"r", k>>, <<"w", k>>}}
sys_pipe(f) ==
  LET k == Min(Procs \ InUse)
      g == dup(f, <<"r", k>>)
  IN  [fd |-> dup(g, <<"w", k>>), p |-> <<lowest(f), lowest(g)>>]

\* panic() when the kernel has no pipe to give.
runcmd_pipe(q) ==
  LET new == sys_pipe(proc[q].fd)
  IN  /\ Runs(q, "pipe")
      /\ \/ exits(q)
         \/ /\ proc' = [proc EXCEPT ![q].pc = "left", ![q].fd = new.fd, ![q].p = new.p]
            /\ UNCHANGED typed

\* Mutant: the shell keeps the write end.
closeboth_Kept(f, p) == close(f, p[1])

\* The process that made the pipe gives up both ends of it.
closeboth(f, p) == close(close(f, p[1]), p[2])

\* The two forks, the close() calls and the two wait() calls of a pipe.
runcmd_ends(q) ==
  LET pr == proc[q]
  IN  \/ pr.pc = "left" /\ fork1(q, "lchild", pr.cmd[2], "rfork")
      \/ pr.pc = "rfork" /\ fork1(q, "rchild", pr.cmd[3], "close")
      \/ /\ pr.pc = "close"
         /\ proc' = [proc EXCEPT ![q].pc = "wait2", ![q].fd = closeboth(@, pr.p)]
         /\ UNCHANGED typed
      \/ pr.pc = "wait2" /\ waits(q, "wait1")
      \/ pr.pc = "wait1" /\ waits(q, "exit")
      \/ pr.pc = "exit" /\ exits(q)

\* The children: one end of the pipe takes the place of standard output or input.
runcmd_child(q) ==
  LET pr == proc[q]
      std == IF pr.pc = "lchild" THEN 1 ELSE 0
      end == IF pr.pc = "lchild" THEN pr.p[2] ELSE pr.p[1]
  IN  /\ pr.pc \in {"lchild", "rchild"}
      /\ proc' = [proc EXCEPT ![q].pc = "run", ![q].fd = close(close(dup(close(pr.fd, std), pr.fd[end]), pr.p[1]), pr.p[2])]
      /\ UNCHANGED typed

runcmd_back(q) == Runs(q, "back") /\ fork1(q, "run", proc[q].cmd[2], "exit")

\* A program reads its standard input to the end and exits: external.
AtEnd(q) ==
  LET in == proc[q].fd[0]
  IN  in[1] = "r" => \A c \in Procs : \A d \in DOMAIN proc[c].fd : proc[c].fd[d] # <<"w", in[2]>>
prog_exit(q) == proc[q].pc = "prog" /\ AtEnd(q) /\ exits(q)

\* A program that does not read all of its input.
prog_early(q) == proc[q].pc = "prog" /\ ~AtEnd(q) /\ exits(q)

runcmd(q) ==
  \/ sh_parse(q) \/ runcmd_exec(q) \/ runcmd_redir(q) \/ runcmd_list(q) \/ runcmd_pipe(q)
  \/ runcmd_ends(q) \/ runcmd_child(q) \/ runcmd_back(q) \/ prog_exit(q)

ShNext ==
  \/ typed < Len(Texts) /\ \E text \in Texts[typed + 1] : sh_getcmd(text)
  \/ sh_eof \/ sh_fork \/ sh_wait
  \/ \E q \in Procs : runcmd(q) \/ prog_early(q)

\* Processes are scheduled.
ShFair == WF_shvars(sh_fork) /\ WF_shvars(sh_wait) /\ \A q \in Procs : WF_shvars(runcmd(q))

ShSpec == ShInit /\ [][ShNext]_shvars /\ ShFair
-----------------------------------------------------------------------------
(* The grammar of a line, as sets of trees over all ways to split the tokens. *)
\* Redirections: a sequence of pairs of a symbol and a word.
IsRedirs(s) == Len(s) % 2 = 0 /\ \A i \in 1 .. Len(s) : IF i % 2 = 1 THEN s[i] \in {"<", ">", "+"} ELSE s[i] \in Words
WithRedirs(c, s) == FoldLeft(LAMBDA t, i : <<"redir", t, s[2 * i - 1], s[2 * i]>>, c, [i \in 1 .. Len(s) \div 2 |-> i])

\* A simple command: words and redirections in any order.
IsSimple(s) ==
  /\ \A i \in 1 .. Len(s) : s[i] \in Words \cup {"<", ">", "+"}
  /\ \A i \in 1 .. Len(s) : s[i] \notin Words => i < Len(s) /\ s[i + 1] \in Words
Argc(s) == Len(SelectSeq(s, LAMBDA w : w \in Words)) - Len(SelectSeq(s, LAMBDA w : w \notin Words))
SimpleTree(s) ==
  LET arg(i) == s[i] \in Words /\ (i = 1 \/ s[i - 1] \in Words)
      sel(P(_)) == FoldLeft(LAMBDA acc, i : IF P(i) THEN Append(acc, s[i]) ELSE acc, <<>>, [i \in 1 .. Len(s) |-> i])
  IN  WithRedirs(<<"exec", sel(arg)>>, sel(LAMBDA i : ~arg(i)))

RECURSIVE LineTrees(_)
LineTrees(s) ==
  LET Exec(u) ==
        (IF IsSimple(u) /\ Argc(u) < MAXARGS THEN {SimpleTree(u)} ELSE {})
        \cup UNION {{WithRedirs(t, SubSeq(u, k + 1, Len(u))) : t \in LineTrees(SubSeq(u, 2, k - 1))} :
                    k \in {j \in 2 .. Len(u) : u[1] = "(" /\ u[j] = ")" /\ IsRedirs(SubSeq(u, j + 1, Len(u)))}}
      Pipe[u \in {SubSeq(s, i, j) : i \in 1 .. Len(s) + 1, j \in 0 .. Len(s)}] ==
        Exec(u) \cup UNION {{<<"pipe", l, r>> : l \in Exec(SubSeq(u, 1, k - 1)), r \in Pipe[SubSeq(u, k + 1, Len(u))]} :
                            k \in {j \in 1 .. Len(u) : u[j] = "|"}}
      Back[u \in {SubSeq(s, 1, j) : j \in 0 .. Len(s)}] ==
        Pipe[u] \cup (IF u # <<>> /\ Last(u) = "&" THEN {<<"back", t>> : t \in Back[Front(u)]} ELSE {})
  IN  Back[s] \cup UNION {{<<"list", l, r>> : l \in Back[SubSeq(s, 1, k - 1)], r \in LineTrees(SubSeq(s, k + 1, Len(s)))} :
                          k \in {j \in 1 .. Len(s) : s[j] = ";"}}

\* The programs a command stands for, with what their standard input and output
\* are joined to.
RECURSIVE Programs(_, _, _)
Programs(c, in, out) ==
  CASE c[1] = "exec" -> {<<c[2], in, out>>}
    [] c[1] = "redir" -> IF c[3] = "<" THEN Programs(c[2], <<"file", c[3], c[4]>>, out)
                         ELSE Programs(c[2], in, <<"file", c[3], c[4]>>)
    [] c[1] = "list" -> Programs(c[2], in, out) \cup Programs(c[3], in, out)
    [] c[1] = "pipe" -> Programs(c[2], in, <<"w">>) \cup Programs(c[3], <<"r">>, out)
    [] c[1] = "back" -> Programs(c[2], in, out)

Kind(o) == IF o[1] \in {"r", "w"} THEN <<o[1]>> ELSE o

\* A line is run when the grammar has exactly one tree for it and refused when it
\* has none; the programs that run are the ones of that tree, each with the input
\* and output the line gives it and no other descriptor of a pipe (parsecmd(),
\* runcmd()).
RunsTheLine ==
  \A q \in Procs :
    LET trees == LineTrees(proc[q].buf)
        fd == proc[q].fd
    IN  /\ proc[q].pc = "parse" => trees = {proc[q].cmd} \ {ErrCmd}
        /\ proc[q].pc = "prog" =>
             /\ \E t \in trees : <<proc[q].cmd[2], Kind(fd[0]), Kind(fd[1])>> \in Programs(t, TTY, TTY)
             /\ fd[2] = TTY /\ fd[3] = Closed /\ fd[4] = Closed

\* After every line the shell prompts again, or exits because there is no process
\* left: no member of a pipeline waits for the end of a pipe that the shell or
\* another member keeps open (runcmd(), main()).
PromptReturns == proc[Shell].pc \in {"fork", "wait"} ~> proc[Shell].pc \in {"prompt", "none"}
=============================================================================
