------------------------------- MODULE Xmodem -------------------------------
(***************************************************************************)
(* The XMODEM file transfer of lib/xmodem: a transmitter (ttywrite on the  *)
(* host) and a receiver (the boot loader) joined by a serial line that     *)
(* keeps the order of the bytes and may change some of them.               *)
(*                                                                         *)
(* Bytes are numbers and have their real values, so data can look like a   *)
(* control byte.  A write never waits; a read waits for ever, since the    *)
(* library has no timeout.                                                 *)
(***************************************************************************)
EXTENDS Integers, Sequences, SequencesExt

CONSTANTS LEN,       \* bytes of data in a packet, 128 in the code
          RETRIES,   \* attempts per packet, 10 in the code
          Files,     \* the byte sequences that may be sent
          Noise,     \* what a damaged byte can become
          Budget(_)  \* bound: bytes the line damages while a file is sent

ASSUME XmodemAssumption ==
  /\ LEN \in Nat \ {0}
  /\ RETRIES \in Nat \ {0}
  /\ Noise \subseteq 0..255
  /\ \A f \in Files : f \in Seq(0..255) /\ Budget(f) \in Nat

SOH == 1
EOT == 4
ACK == 6
NAK == 21
CAN == 24

VARIABLES
  file,         \* the transmitter's data
  toR, toS,     \* bytes on the line, to the receiver and to the transmitter
  errors,       \* bytes damaged so far
  spc, spacket, stries, offset, written,      \* transmitter
  rpc, rpacket, rtries, rbuf, into, received  \* receiver

svars == <<spc, spacket, stries, offset, written>>
rvars == <<rpc, rpacket, rtries, rbuf, into, received>>
xvars == <<file, toR, toS, errors, svars, rvars>>

Results == {"ok", "InvalidData", "ConnectionAborted", "BrokenPipe"}

XmTypeOK ==
  /\ file \in Files
  /\ toR \in Seq(0..255) /\ toS \in Seq(0..255)
  /\ errors \in 0..Budget(file)
  /\ spc \in {"start", "write", "reply", "eot1", "eot2"} \cup Results
  /\ spacket \in 0..255 /\ rpacket \in 0..255
  /\ stries \in 0..RETRIES - 1 /\ rtries \in 0..RETRIES - 1
  /\ offset \in Nat /\ written \in Nat /\ received \in Nat
  /\ rpc \in {"start", "first", "number", "complement", "data", "checksum",
              "eot"} \cup Results
  /\ rbuf \in Seq(0..255) /\ into \in Seq(0..255)

XmInit ==
  /\ file \in Files
  /\ toR = <<>> /\ toS = <<>>
  /\ errors = 0
  /\ spc = "start" /\ spacket = 1 /\ stries = 0 /\ offset = 0 /\ written = 0
  /\ rpc = "start" /\ rpacket = 1 /\ rtries = 0 /\ rbuf = <<>>
  /\ into = <<>> /\ received = 0

-----------------------------------------------------------------------------

get_checksum(buf) == FoldLeft(LAMBDA a, b : (a + b) % 256, 0, buf)

\* What the checksum is for: it changes with any one byte of a packet.
Detects(Bytes) ==
  \A s \in [1..LEN -> Bytes] :
    /\ get_checksum(s) \in 0..255
    /\ \A k \in 1..LEN, b \in Bytes :
         b # s[k] => get_checksum([s EXCEPT ![k] = b]) # get_checksum(s)

\* data.read_max(): how many bytes the next packet takes from the file, and the
\* packet, padded with zeroes.
ReadMax == IF Len(file) - offset < LEN THEN Len(file) - offset ELSE LEN

Packet == [j \in 1..LEN |-> IF offset + j <= Len(file) THEN file[offset + j] ELSE 0]

WholePacket == <<SOH, spacket, 255 - spacket>> \o Packet \o <<get_checksum(Packet)>>

\* What the line makes of bytes written to it: the same bytes, or all but one of
\* them.  One changed byte in a frame is what a sum of bytes is sure to detect.
Sent(bytes, e) ==
  IF e = 0 THEN {bytes}
  ELSE {[bytes EXCEPT ![k] = b] : k \in DOMAIN bytes, b \in Noise} \ {bytes}

\* write_byte() and write_all(), of the transmitter and of the receiver, on a line
\* from which the writer has already taken its input.
SendR(bytes) ==
  \E e \in {0, 1} :
    /\ errors + e <= Budget(file)
    /\ errors' = errors + e
    /\ \E q \in Sent(bytes, e) : toR' = toR \o q

SendS(byte) ==
  \E e \in {0, 1} :
    /\ errors + e <= Budget(file)
    /\ errors' = errors + e
    /\ \E q \in Sent(<<byte>>, e) : toS' = toS \o q

Quiet == UNCHANGED errors

\* expect_byte(): the error for a byte that is not the expected one.
Mismatch(b) == IF b = CAN THEN "ConnectionAborted" ELSE "InvalidData"

-----------------------------------------------------------------------------
(* transmit_with_progress() and write_packet().                            *)

\* read_byte() of the transmitter in state l.
TakeS(l) == spc = l /\ toS # <<>> /\ toS' = Tail(toS)

GoS(l) == spc' = l /\ UNCHANGED <<spacket, stries, offset, written>>

\* The receiver's first NAK starts the transfer.
s_start ==
  /\ TakeS("start")
  /\ GoS(IF Head(toS) = NAK THEN "write" ELSE Mismatch(Head(toS)))
  /\ Quiet
  /\ UNCHANGED <<file, toR, rvars>>

\* One whole packet, or the first EOT when the data is used up.
s_write ==
  /\ spc = "write"
  /\ IF ReadMax = 0 THEN SendR(<<EOT>>) /\ GoS("eot1")
                    ELSE SendR(WholePacket) /\ GoS("reply")
  /\ UNCHANGED <<file, toS, rvars>>

\* ACK: on to the next packet.  NAK: the same packet again, RETRIES times in all.
s_ack ==
  /\ TakeS("reply")
  /\ Head(toS) = ACK
  /\ spc' = "write"
  /\ spacket' = (spacket + 1) % 256
  /\ stries' = 0
  /\ offset' = offset + ReadMax
  /\ written' = written + ReadMax
  /\ Quiet
  /\ UNCHANGED <<file, toR, rvars>>

s_nak ==
  /\ TakeS("reply")
  /\ Head(toS) = NAK
  /\ IF stries + 1 < RETRIES
     THEN spc' = "write" /\ stries' = stries + 1
     ELSE spc' = "BrokenPipe" /\ UNCHANGED stries
  /\ Quiet
  /\ UNCHANGED <<file, toR, spacket, offset, written, rvars>>

\* CAN aborts; any other byte is answered with CAN.
s_bad ==
  /\ TakeS("reply")
  /\ Head(toS) \notin {ACK, NAK}
  /\ GoS(Mismatch(Head(toS)))
  /\ IF Head(toS) = CAN THEN Quiet /\ UNCHANGED toR ELSE SendR(<<CAN>>)
  /\ UNCHANGED <<file, rvars>>

\* Mutant: the answer to the second EOT is not awaited.
s_eot1_Hasty ==
  /\ TakeS("eot1")
  /\ IF Head(toS) = NAK
     THEN SendR(<<EOT>>) /\ GoS("ok")
     ELSE Quiet /\ UNCHANGED toR /\ GoS(Mismatch(Head(toS)))
  /\ UNCHANGED <<file, rvars>>

s_eot1 ==
  /\ TakeS("eot1")
  /\ IF Head(toS) = NAK
     THEN SendR(<<EOT>>) /\ GoS("eot2")
     ELSE Quiet /\ UNCHANGED toR /\ GoS(Mismatch(Head(toS)))
  /\ UNCHANGED <<file, rvars>>

s_eot2 ==
  /\ TakeS("eot2")
  /\ GoS(IF Head(toS) = ACK THEN "ok" ELSE Mismatch(Head(toS)))
  /\ Quiet
  /\ UNCHANGED <<file, toR, rvars>>

-----------------------------------------------------------------------------
(* receive_with_progress() and read_packet().                              *)

TakeR(l) == rpc = l /\ toR # <<>> /\ toR' = Tail(toR)

GoR(l) == rpc' = l /\ UNCHANGED <<rpacket, rtries, rbuf, into, received>>

r_start ==
  /\ rpc = "start"
  /\ SendS(NAK)
  /\ GoR("first")
  /\ UNCHANGED <<file, toR, svars>>

\* SOH starts a packet, EOT ends the transfer, CAN aborts it, and any other byte
\* makes the receiver cancel it.
r_first ==
  LET b == Head(toR) IN
  /\ TakeR("first")
  /\ \/ b = SOH /\ GoR("number") /\ Quiet /\ UNCHANGED toS
     \/ b = EOT /\ GoR("eot") /\ SendS(NAK)
     \/ b = CAN /\ GoR("ConnectionAborted") /\ Quiet /\ UNCHANGED toS
     \/ b \notin {SOH, EOT, CAN} /\ GoR("InvalidData") /\ SendS(CAN)
  /\ UNCHANGED <<file, svars>>

\* expect_byte_or_cancel()
ExpectOrCancel(byte, l) ==
  IF Head(toR) = byte
  THEN GoR(l) /\ Quiet /\ UNCHANGED toS
  ELSE GoR(Mismatch(Head(toR))) /\ SendS(CAN)

r_number ==
  /\ TakeR("number")
  /\ ExpectOrCancel(rpacket, "complement")
  /\ UNCHANGED <<file, svars>>

r_complement ==
  /\ TakeR("complement")
  /\ ExpectOrCancel(255 - rpacket, "data")
  /\ UNCHANGED <<file, svars>>

\* read_exact()
r_data ==
  /\ rpc = "data"
  /\ Len(toR) >= LEN
  /\ rbuf' = SubSeq(toR, 1, LEN)
  /\ toR' = SubSeq(toR, LEN + 1, Len(toR))
  /\ rpc' = "checksum"
  /\ Quiet
  /\ UNCHANGED <<file, toS, svars, rpacket, rtries, into, received>>

\* Mutants: the checksum is not compared, and the packet number wraps early.
r_accept_Unchecked ==
  /\ TakeR("checksum")
  /\ rpacket' = (rpacket + 1) % 256
  /\ SendS(ACK)
  /\ into' = into \o rbuf
  /\ received' = received + LEN
  /\ rtries' = 0
  /\ rpc' = "first"
  /\ UNCHANGED <<file, svars, rbuf>>

r_accept_Wrap ==
  /\ TakeR("checksum")
  /\ Head(toR) = get_checksum(rbuf)
  /\ rpacket' = (rpacket + 1) % 255
  /\ SendS(ACK)
  /\ into' = into \o rbuf
  /\ received' = received + LEN
  /\ rtries' = 0
  /\ rpc' = "first"
  /\ UNCHANGED <<file, svars, rbuf>>

r_accept ==
  /\ TakeR("checksum")
  /\ Head(toR) = get_checksum(rbuf)
  /\ rpacket' = (rpacket + 1) % 256
  /\ SendS(ACK)
  /\ into' = into \o rbuf
  /\ received' = received + LEN
  /\ rtries' = 0
  /\ rpc' = "first"
  /\ UNCHANGED <<file, svars, rbuf>>

r_reject ==
  /\ TakeR("checksum")
  /\ Head(toR) # get_checksum(rbuf)
  /\ SendS(NAK)
  /\ IF rtries + 1 < RETRIES
     THEN rpc' = "first" /\ rtries' = rtries + 1
     ELSE rpc' = "BrokenPipe" /\ UNCHANGED rtries
  /\ UNCHANGED <<file, svars, rpacket, rbuf, into, received>>

r_eot ==
  /\ TakeR("eot")
  /\ IF Head(toR) = EOT
     THEN SendS(ACK) /\ GoR("ok")
     ELSE Quiet /\ UNCHANGED toS /\ GoR(Mismatch(Head(toR)))
  /\ UNCHANGED <<file, svars>>

-----------------------------------------------------------------------------

Sender == s_start \/ s_write \/ s_ack \/ s_nak \/ s_bad \/ s_eot1 \/ s_eot2

Receiver ==
  \/ r_start \/ r_first \/ r_number \/ r_complement
  \/ r_data \/ r_accept \/ r_reject \/ r_eot

XmNext == Sender \/ Receiver

XmSpec == XmInit /\ [][XmNext]_xvars

\* Each side goes on whenever it has input; neither has to wait for the other
\* to be scheduled.
XmFairSpec == XmSpec /\ WF_xvars(Sender) /\ WF_xvars(Receiver)

-----------------------------------------------------------------------------
(* Properties.                                                             *)

\* The file as it arrives: padded with zeroes to a whole number of packets.
Padded ==
  [j \in 1..(((Len(file) + LEN - 1) \div LEN) * LEN) |->
     IF j <= Len(file) THEN file[j] ELSE 0]

\* Whatever the line does, the receiver has written a prefix of the file: no
\* packet twice, none left out, none damaged (lib.rs read_packet: packet
\* number, complement and checksum; write_packet: retransmission).
DeliveredInOrder == IsPrefix(into, Padded)

\* A side that reports success has told the truth.  The receiver returns the
\* number of bytes it wrote, and they are the whole file, unless the byte it took
\* for the second EOT was the number of packet 4, after a damaged SOH: of the packet
\* it expected, or of one it had already and gets again, since its ACK was damaged
\* (receive_with_progress, read_packet).  When the transmitter reports success,
\* the receiver has reported it too and has the whole file; the result is the
\* length without padding (transmit_with_progress).
SuccessIsTrue ==
  /\ rpc = "ok" => received = Len(into) /\ (into = Padded \/ rpacket \in {EOT, EOT + 1})
  /\ spc = "ok" => rpc = "ok" /\ into = Padded /\ written = Len(file)

\* Over a clean line the transfer ends well on both sides, also over the wrap of
\* the packet number (both wrapping_add calls).
Completes == Budget(file) = 0 => <>(spc = "ok" /\ rpc = "ok")
=============================================================================
