----------------------------- MODULE SerialProps -----------------------------
(***************************************************************************)
(* What the serial port has to get right.                                  *)
(***************************************************************************)
EXTENDS Serial

(* Every variable has its type, and no FIFO holds more than it can.        *)
TypeOK ==
  /\ pc \in {"init", "test", "accept", "idle", "poll", "write"}
  /\ step \in 1 .. 9 /\ accepted \in BOOLEAN /\ logs \in 0 .. MaxLogs
  /\ pc \in {"poll", "write"} <=> msg # <<>>
  /\ chip \in {"working", "absent"}
  /\ dlab \in BOOLEAN /\ loop \in BOOLEAN
  /\ divisor \in (0 .. 255) \X (0 .. 255)
  /\ Len(tx) <= FifoDepth /\ Len(rx) <= FifoDepth /\ Len(shift) <= 1

(* Once init_serial has accepted the chip, what the kernel writes goes out *)
(* on the line, in order and without a gap, however slow the line is and   *)
(* wherever an exception breaks off a message for its own; the test byte   *)
(* and what the firmware left never do.  This is so for any firmware that  *)
(* left no test byte of its own in the shift register: looped back, that   *)
(* one is taken for the answer while the driver's is still to be sent.     *)
WireIsLog == accepted => wire \o shift \o tx = sent

(* An accepted port runs at 38400 baud, out of loopback, and its data      *)
(* register is not the divisor latch (serial.c:20-24).                     *)
LineConfigured == accepted => divisor = <<3, 0>> /\ ~dlab /\ ~loop

(* A message that is being logged is written to its end, or else another   *)
(* that interrupts it is: write_serial does not poll for ever, not even    *)
(* for a chip that is not there.                                           *)
LogEnds == msg # <<>> ~> msg = <<>>
=============================================================================
