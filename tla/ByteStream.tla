----------------------------- MODULE ByteStream -----------------------------
(***************************************************************************)
(* What a pipe promises: a queue of bytes of bounded length between a      *)
(* write end and a read end.  Bytes leave in the order in which they       *)
(* entered, nothing enters after either end is closed, and a closed end    *)
(* stays closed.  Module Pipe is shown to implement this specification.    *)
(***************************************************************************)
EXTENDS Naturals, Sequences

CONSTANTS Byte,     \* the values of a byte
          Capacity  \* most bytes the queue holds

VARIABLES queue, wopen, ropen

svars == <<queue, wopen, ropen>>

Init == queue = <<>> /\ wopen = TRUE /\ ropen = TRUE

Put(ch) ==
  /\ wopen /\ ropen
  /\ Len(queue) < Capacity
  /\ queue' = Append(queue, ch)
  /\ UNCHANGED <<wopen, ropen>>

Get ==
  /\ ropen
  /\ queue # <<>>
  /\ queue' = Tail(queue)
  /\ UNCHANGED <<wopen, ropen>>

CloseWrite == wopen' = FALSE /\ UNCHANGED <<queue, ropen>>

CloseRead == ropen' = FALSE /\ UNCHANGED <<queue, wopen>>

Next == (\E ch \in Byte : Put(ch)) \/ Get \/ CloseWrite \/ CloseRead

Spec == Init /\ [][Next]_svars
=============================================================================
