------------------------------ MODULE Console -------------------------------
(* The console (console.c), the UART driver (uart.c), the spinlocks that turn
   interrupts off (spinlock.c) and the way an interrupt reaches the driver
   (devintr() in trap.c, plic.c).

   Process p runs on CPU p.  A process takes a spinlock in one step and works
   under it in later ones, so an interrupt may arrive in between if the CPU lets
   it.  The interrupt handler runs on one CPU at a time (the PLIC) and stops the
   process there.                                                             *)
EXTENDS Integers, Sequences, FiniteSets

CONSTANTS
  CProc,           \* processes, and their CPUs
  Free,            \* marks a lock nobody holds
  INPUT_BUF_SIZE,  \* bytes of cons.buf
  CUINT,           \* cons.r, cons.w and cons.e are computed modulo CUINT (2^32)
  TX_BUF_SIZE,     \* bytes of uart_tx_buf
  ReadLens,        \* lengths passed to read()
  WriteLens,       \* lengths passed to write()
  Keys,            \* keys that are typed; "x" is any that is not treated specially
  Loads            \* what happens: processes that read once, processes that write
                   \* once, processes that are killed, number of keys typed

ASSUME IndexAssumption ==
  /\ INPUT_BUF_SIZE \in Nat \ {0}
  /\ CUINT \in Nat /\ CUINT > INPUT_BUF_SIZE /\ CUINT % INPUT_BUF_SIZE = 0
  /\ TX_BUF_SIZE \in Nat \ {0}
ASSUME FreeAssumption == Free \notin CProc /\ Free # "intr" /\ "intr" \notin CProc
ASSUME LengthAssumption == ReadLens \cup WriteLens \subseteq Nat
ASSUME KeysAssumption == Keys \subseteq {"x", "cr", "nl", "eof", "bs", "kill", "dump", "nul"}

VARIABLES
  cons,    \* buf, r, w, e, and the holder of cons.lock
  tx,      \* uart_tx_buf between uart_tx_r and uart_tx_w, holder of uart_tx_lock
  uart,    \* the device: rx byte, thr busy, transmit interrupt pending
  cp,      \* each process: where it is, bytes left, bytes asked for
  noff,    \* mycpu()->noff: interrupts are off when it is not 0
  hand,    \* the interrupt handler: its CPU, where it is, the byte, whether to echo
  todo,    \* what of the load has not happened yet
  ckilled  \* processes with p->killed set

consvars == <<cons, tx, uart, cp, noff, hand, todo, ckilled>>

NL == "nl"
EOF == "eof"       \* control-D
NoHandler == [cpu |-> Free, at |-> "none", c |-> "nul", echo |-> FALSE]
Away == [pc |-> "user", n |-> 0, target |-> 0]

\* consoleinit() and uartinit().
ConsInit ==
  /\ cons = [buf |-> [i \in 0 .. INPUT_BUF_SIZE - 1 |-> "nul"], r |-> 0, w |-> 0, e |-> 0, lock |-> Free]
  /\ tx = [n |-> 0, lock |-> Free]
  /\ uart = [rx |-> "none", busy |-> FALSE, txint |-> FALSE]
  /\ cp = [p \in CProc |-> Away]
  /\ noff = [p \in CProc |-> 0]
  /\ hand = NoHandler
  /\ todo \in Loads
  /\ ckilled = {}

\* Process p can take its next step at pc: no handler runs on its CPU.
CAt(p, pc) == cp[p].pc = pc /\ hand.cpu # p
Goto(p, pc) == cp' = [cp EXCEPT ![p].pc = pc]

\* cons.buf[i % INPUT_BUF_SIZE] and differences of the unsigned counters.
Cell(i) == i % INPUT_BUF_SIZE
Diff(i, j) == (i - j) % CUINT
Inc(i) == (i + 1) % CUINT

\* wakeup(&cons.r) and wakeup(&uart_tx_r).
Woken(f, asleep, pc) ==
  [p \in CProc |-> IF f[p].pc = asleep THEN [f[p] EXCEPT !.pc = pc] ELSE f[p]]

\* Mutant: acquire() leaves interrupts on.
push_off_On(p) == UNCHANGED noff

push_off(p) == noff' = [noff EXCEPT ![p] = @ + 1]
pop_off(p) == noff' = [noff EXCEPT ![p] = @ - 1]
-----------------------------------------------------------------------------
\* sys_read() of the console.
read(p, n) ==
  /\ CAt(p, "user") /\ p \in todo.read
  /\ todo' = [todo EXCEPT !.read = @ \ {p}]
  /\ cp' = [cp EXCEPT ![p] = [pc |-> "racq", n |-> n, target |-> n]]
  /\ UNCHANGED <<cons, tx, uart, noff, hand, ckilled>>

\* consoleread() takes cons.lock.
consoleread(p) ==
  /\ CAt(p, "racq") /\ cons.lock = Free
  /\ cons' = [cons EXCEPT !.lock = p]
  /\ push_off(p)
  /\ Goto(p, "rloop")
  /\ UNCHANGED <<tx, uart, hand, todo, ckilled>>

\* Nothing to read: a killed process gives up, another goes on to sleep().
consoleread_none(p) ==
  /\ CAt(p, "rloop") /\ cp[p].n > 0 /\ cons.r = cons.w
  /\ IF p \in ckilled
     THEN /\ cons' = [cons EXCEPT !.lock = Free]
          /\ pop_off(p)
          /\ cp' = [cp EXCEPT ![p] = Away]
     ELSE Goto(p, "rsleep") /\ UNCHANGED <<cons, noff>>
  /\ UNCHANGED <<tx, uart, hand, todo, ckilled>>

\* sleep(&cons.r, &cons.lock).
consoleread_sleep(p) ==
  /\ CAt(p, "rsleep")
  /\ cons' = [cons EXCEPT !.lock = Free]
  /\ pop_off(p)
  /\ Goto(p, "rasleep")
  /\ UNCHANGED <<tx, uart, hand, todo, ckilled>>

\* One byte for the reader.  An end of file ends the call, and is kept for the
\* next one when bytes were already read.
consoleread_byte(p) ==
  LET c == cons.buf[Cell(cons.r)]
      keep == c = EOF /\ cp[p].n < cp[p].target
  IN  /\ CAt(p, "rloop") /\ cp[p].n > 0 /\ cons.r # cons.w
      /\ cons' = [cons EXCEPT !.r = IF keep THEN @ ELSE Inc(@)]
      /\ cp' = [cp EXCEPT ![p].pc = IF c \in {EOF, NL} THEN "rdone" ELSE "rloop",
                          ![p].n = IF c = EOF THEN @ ELSE @ - 1]
      /\ UNCHANGED <<tx, uart, noff, hand, todo, ckilled>>

\* either_copyout() fails: the byte is taken from the buffer, and the call ends
\* without counting it.
consoleread_fault(p) ==
  /\ CAt(p, "rloop") /\ cp[p].n > 0 /\ cons.r # cons.w /\ cons.buf[Cell(cons.r)] # EOF
  /\ cons' = [cons EXCEPT !.r = Inc(@)]
  /\ Goto(p, "rdone")
  /\ UNCHANGED <<tx, uart, noff, hand, todo, ckilled>>

\* The line has ended or n bytes were read.
consoleread_done(p) ==
  /\ CAt(p, "rdone") \/ (CAt(p, "rloop") /\ cp[p].n = 0)
  /\ cons' = [cons EXCEPT !.lock = Free]
  /\ pop_off(p)
  /\ cp' = [cp EXCEPT ![p] = Away]
  /\ UNCHANGED <<tx, uart, hand, todo, ckilled>>

\* kill() of a process: it is woken if it sleeps.
ckill(p) ==
  /\ p \in todo.kill
  /\ todo' = [todo EXCEPT !.kill = @ \ {p}]
  /\ ckilled' = ckilled \cup {p}
  /\ cp' = IF cp[p].pc = "rasleep" THEN [cp EXCEPT ![p].pc = "racq"]
           ELSE IF cp[p].pc = "wasleep" THEN [cp EXCEPT ![p].pc = "wacq"] ELSE cp
  /\ UNCHANGED <<cons, tx, uart, noff, hand>>
-----------------------------------------------------------------------------
\* What uartstart() makes of the transmit buffer t and the device u: a byte moves
\* when there is one and the UART is idle; with none, reading ISR clears the
\* interrupt.
uartstart_tx(t, u) == IF t.n > 0 /\ ~u.busy THEN [t EXCEPT !.n = @ - 1] ELSE t

uartstart_uart(t, u) ==
  IF t.n = 0 THEN [u EXCEPT !.txint = FALSE]
  ELSE IF u.busy THEN u
  ELSE [u EXCEPT !.busy = TRUE, !.txint = FALSE]

\* Mutant: a byte leaves the buffer and nobody is told.
uartstart_wake_None(t, u, f) == f

\* uartstart() wakes the writers when it takes a byte out of the buffer.
uartstart_wake(t, u, f) == IF t.n > 0 /\ ~u.busy THEN Woken(f, "wasleep", "wacq") ELSE f

\* sys_write() of the console; an either_copyin() that fails ends the call as a
\* smaller n would.
write(p, n) ==
  /\ CAt(p, "user") /\ p \in todo.write
  /\ todo' = [todo EXCEPT !.write = @ \ {p}]
  /\ cp' = [cp EXCEPT ![p] = [pc |-> "wacq", n |-> n, target |-> n]]
  /\ UNCHANGED <<cons, tx, uart, noff, hand, ckilled>>

\* uartputc() takes uart_tx_lock.
uartputc(p) ==
  /\ CAt(p, "wacq") /\ cp[p].n > 0 /\ tx.lock = Free
  /\ tx' = [tx EXCEPT !.lock = p]
  /\ push_off(p)
  /\ Goto(p, "wloop")
  /\ UNCHANGED <<cons, uart, hand, todo, ckilled>>

\* The buffer is full: sleep(&uart_tx_r, &uart_tx_lock).
uartputc_sleep(p) ==
  /\ CAt(p, "wloop") /\ tx.n = TX_BUF_SIZE
  /\ tx' = [tx EXCEPT !.lock = Free]
  /\ pop_off(p)
  /\ Goto(p, "wasleep")
  /\ UNCHANGED <<cons, uart, hand, todo, ckilled>>

\* The byte goes into the buffer, the UART is started, the lock released.
uartputc_put(p) ==
  LET t == [n |-> tx.n + 1, lock |-> Free]
  IN  /\ CAt(p, "wloop") /\ tx.n < TX_BUF_SIZE
      /\ tx' = uartstart_tx(t, uart)
      /\ uart' = uartstart_uart(t, uart)
      /\ cp' = uartstart_wake(t, uart, [cp EXCEPT ![p].pc = "wacq", ![p].n = @ - 1])
      /\ pop_off(p)
      /\ UNCHANGED <<cons, hand, todo, ckilled>>

\* consolewrite() has sent all its bytes.
consolewrite_done(p) ==
  /\ CAt(p, "wacq") /\ cp[p].n = 0
  /\ cp' = [cp EXCEPT ![p] = Away]
  /\ UNCHANGED <<cons, tx, uart, noff, hand, todo, ckilled>>
-----------------------------------------------------------------------------
\* The user types a key; the receive register takes one byte.
Type(c) ==
  /\ todo.keys > 0 /\ uart.rx = "none"
  /\ todo' = [todo EXCEPT !.keys = @ - 1]
  /\ uart' = [uart EXCEPT !.rx = c]
  /\ UNCHANGED <<cons, tx, cp, noff, hand, ckilled>>

\* The UART has sent a byte and says that it can take another.
Sent ==
  /\ uart.busy
  /\ uart' = [uart EXCEPT !.busy = FALSE, !.txint = TRUE]
  /\ UNCHANGED <<cons, tx, cp, noff, hand, todo, ckilled>>

\* The PLIC gives the UART's interrupt to one CPU at a time.
plic_claim == (uart.rx # "none" \/ uart.txint) /\ hand = NoHandler

\* kerneltrap() and devintr() on CPU p, where interrupts are on.
devintr(p) ==
  /\ plic_claim /\ noff[p] = 0
  /\ hand' = [NoHandler EXCEPT !.cpu = p, !.at = "rx"]
  /\ UNCHANGED <<cons, tx, uart, cp, noff, todo, ckilled>>

\* uartintr() reads the next byte, or finds none.
uartgetc ==
  /\ hand.at = "rx"
  /\ uart' = [uart EXCEPT !.rx = "none"]
  /\ hand' = IF uart.rx = "none" THEN [hand EXCEPT !.at = "tx"] ELSE [hand EXCEPT !.at = "cons", !.c = uart.rx]
  /\ UNCHANGED <<cons, tx, cp, noff, todo, ckilled>>

Room == Diff(cons.e, cons.r) < INPUT_BUF_SIZE
Editable == Diff(cons.e, cons.w)

\* consoleintr() takes cons.lock; whether it will echo: the bytes of an echo count
\* as one.  Control-P prints the process list.
consoleintr ==
  /\ hand.at = "cons" /\ cons.lock = Free
  /\ cons' = [cons EXCEPT !.lock = "intr"]
  /\ hand' = [hand EXCEPT !.at = "echo",
                !.echo = CASE hand.c \in {"kill", "bs"} -> Editable > 0
                           [] hand.c = "dump" -> TRUE
                           [] OTHER -> hand.c # "nul" /\ Room]
  /\ UNCHANGED <<tx, uart, cp, noff, todo, ckilled>>

\* uartputc_sync(): spin until the UART is idle, then give it the byte.
uartputc_sync ==
  /\ hand.at = "echo" /\ hand.echo /\ ~uart.busy
  /\ uart' = [uart EXCEPT !.busy = TRUE, !.txint = FALSE]
  /\ hand' = [hand EXCEPT !.echo = FALSE]
  /\ UNCHANGED <<cons, tx, cp, noff, todo, ckilled>>

\* Mutant: the space test looks at the bytes being edited only.
Stored_Edit(c) ==
  IF Diff(cons.e, cons.w) < INPUT_BUF_SIZE
  THEN LET e == Inc(cons.e)
           done == c \in {NL, EOF} \/ Diff(e, cons.r) = INPUT_BUF_SIZE
       IN  [cons EXCEPT !.buf[Cell(cons.e)] = c, !.e = e, !.w = IF done THEN e ELSE @, !.lock = Free]
  ELSE [cons EXCEPT !.lock = Free]

\* cons after the byte c is stored: a whole line, an end of file or a full buffer
\* is handed over.
Stored(c) ==
  IF Room
  THEN LET e == Inc(cons.e)
           done == c \in {NL, EOF} \/ Diff(e, cons.r) = INPUT_BUF_SIZE
       IN  [cons EXCEPT !.buf[Cell(cons.e)] = c, !.e = e, !.w = IF done THEN e ELSE @, !.lock = Free]
  ELSE [cons EXCEPT !.lock = Free]

\* The rest of consoleintr(): line editing, wakeup of the readers, release.
consoleintr_done ==
  LET c == IF hand.c = "cr" THEN NL ELSE hand.c
      new == CASE c = "kill" -> [cons EXCEPT !.e = cons.w, !.lock = Free]
               [] c = "bs" -> [cons EXCEPT !.e = IF Editable > 0 THEN (@ - 1) % CUINT ELSE @, !.lock = Free]
               [] c \in {"dump", "nul"} -> [cons EXCEPT !.lock = Free]
               [] OTHER -> Stored(c)
  IN  /\ hand.at = "echo" /\ ~hand.echo
      /\ cons' = new
      /\ cp' = IF new.w # cons.w THEN Woken(cp, "rasleep", "racq") ELSE cp
      /\ hand' = [hand EXCEPT !.at = "rx", !.c = "nul"]
      /\ UNCHANGED <<tx, uart, noff, todo, ckilled>>

\* The end of uartintr(): uartstart() under uart_tx_lock; then plic_complete().
uartintr ==
  /\ hand.at = "tx" /\ tx.lock = Free
  /\ tx' = uartstart_tx(tx, uart)
  /\ uart' = uartstart_uart(tx, uart)
  /\ cp' = uartstart_wake(tx, uart, cp)
  /\ hand' = NoHandler
  /\ UNCHANGED <<cons, noff, todo, ckilled>>
-----------------------------------------------------------------------------
ConsStep(p) ==
  \/ consoleread(p) \/ consoleread_none(p) \/ consoleread_sleep(p) \/ consoleread_byte(p) \/ consoleread_done(p)
  \/ uartputc(p) \/ uartputc_sleep(p) \/ uartputc_put(p) \/ consolewrite_done(p)
UartHandler == uartgetc \/ consoleintr \/ uartputc_sync \/ consoleintr_done \/ uartintr

ConsNext ==
  \/ \E p \in CProc :
       \/ \E n \in ReadLens : read(p, n)
       \/ \E n \in WriteLens : write(p, n)
       \/ ConsStep(p) \/ consoleread_fault(p) \/ ckill(p) \/ devintr(p)
  \/ \E c \in Keys : Type(c)
  \/ Sent
  \/ UartHandler

\* CPUs run, a spinning CPU gets a lock that is free, the UART sends its byte, and
\* some CPU takes a pending interrupt.
ConsFair ==
  /\ \A p \in CProc : SF_consvars(ConsStep(p))
  /\ WF_consvars(Sent)
  /\ SF_consvars(UartHandler)
  /\ WF_consvars(\E p \in CProc : devintr(p))

ConsSpec == ConsInit /\ [][ConsNext]_consvars /\ ConsFair
-----------------------------------------------------------------------------
\* The bytes of cons.buf from index i up to index j.
Bytes(i, j) == [k \in 1 .. Diff(j, i) |-> cons.buf[Cell(i + k - 1)]]

L == INSTANCE Lines WITH Capacity <- INPUT_BUF_SIZE, Ends <- {NL, EOF}, Plain <- {"x"},
                         pend <- Bytes(cons.r, cons.w), line <- Bytes(cons.w, cons.e)

\* The ring and its three wrapping indices behave as a queue of finished lines and
\* one line under edit: no byte is lost, duplicated or overwritten, none is handed
\* over before its line ends or erased after, whatever the order of keys and reads
\* (consoleread(), consoleintr()).
ImplementsLines == L!LinesSpec

\* No CPU spins for ever on a lock that its own interrupted process holds, and no
\* sleeper misses its wakeup: a reader sleeps only when nothing is handed over, a
\* writer only when the transmit buffer is full (spinlock.c, sleep() and wakeup()).
NoSelfDeadlock ==
  /\ hand.cpu # Free => cons.lock # hand.cpu /\ tx.lock # hand.cpu
  /\ \A p \in CProc : /\ cp[p].pc = "rasleep" => cons.r = cons.w
                      /\ cp[p].pc = "wasleep" => tx.n = TX_BUF_SIZE

\* Every write() to the console finishes: the bytes in the buffer are sent by
\* transmit interrupts, also when echoed bytes get in between, and each one that
\* leaves makes room for a sleeping writer.
WriterFinishes == \A p \in CProc : cp[p].pc \in {"wacq", "wloop", "wasleep"} ~> cp[p].pc = "user"
=============================================================================
