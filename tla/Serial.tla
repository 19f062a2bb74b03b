------------------------------- MODULE Serial -------------------------------
(***************************************************************************)
(* The serial port, src/src/serial/serial.c: init_serial programs the chip *)
(* and tests it in loopback mode, write_serial polls and writes, and kmain *)
(* logs messages through it whatever init_serial returned.  The chip (a    *)
(* 16550, external) runs at its own pace between the driver's accesses.    *)
(***************************************************************************)
EXTENDS Integers, Sequences

CONSTANTS
  FifoDepth,  \* bytes that each FIFO of the chip holds: 16
  Messages,   \* what is logged: sequences of bytes
  MaxLogs,    \* bound: the number of messages logged
  Firmware    \* what the firmware may have left in a FIFO

ASSUME SerialAssumption ==
  /\ FifoDepth \in Nat \ {0} /\ MaxLogs \in Nat
  /\ Messages \subseteq Seq(0 .. 255) /\ Firmware \subseteq Seq(0 .. 255)

VARIABLES
  \* the driver
  pc,        \* "init", "test", "accept", "idle", "poll" or "write"
  step,      \* the next write of init_serial
  accepted,  \* what init_serial returned; FALSE before
  msg,       \* str: what is left to write of the message being logged
  logs,      \* messages logged so far
  \* the chip
  chip,      \* "working", or "absent": nothing answers on the bus
  dlab,      \* bit 7 of the line control register
  divisor,   \* low and high byte of the divisor latch
  loop,      \* bit 4 of the modem control register
  tx, rx,    \* the FIFOs
  shift,     \* the shift register of the transmitter: at most one byte
  \* history
  wire,      \* the bytes that went out on the line since init_serial returned
  sent       \* the bytes that write_serial wrote

driver == <<pc, step, accepted, msg, logs, sent>>
regs == <<dlab, divisor, loop>>
vars == <<driver, chip, regs, tx, rx, shift, wire>>

TestByte == 174  \* 0xAE

\* Register and value of the outbs of init_serial, up to the test.
InitWrites ==
  <<<<1, 0>>, <<3, 128>>, <<0, 3>>, <<1, 0>>, <<3, 3>>, <<2, 199>>, <<4, 11>>,
    <<4, 30>>, <<0, TestByte>>>>

\* Mutation: DLAB is not set for the divisor.
WritesWithoutDlab == [InitWrites EXCEPT ![2] = <<3, 3>>]

Writes == InitWrites

Init ==
  /\ pc = "init" /\ step = 1 /\ accepted = FALSE /\ msg = <<>> /\ logs = 0
  /\ chip \in {"working", "absent"}
  /\ dlab \in BOOLEAN /\ divisor = <<1, 0>> /\ loop \in BOOLEAN
  /\ tx \in Firmware /\ rx \in Firmware /\ shift \in Firmware
  /\ Len(tx) <= FifoDepth /\ Len(rx) <= FifoDepth /\ Len(shift) <= 1
  /\ wire = <<>> /\ sent = <<>>
-----------------------------------------------------------------------------
(* The chip *)

\* A byte that comes to a full FIFO is lost.
Into(fifo, b) == IF Len(fifo) < FifoDepth THEN Append(fifo, b) ELSE fifo

\* The bit of weight w.
Bit(v, w) == (v \div w) % 2 = 1

\* outb(PORT + reg, v).
Outb(reg, v) ==
  IF chip = "absent" THEN UNCHANGED <<regs, tx, rx>>
  ELSE CASE reg = 0 /\ dlab -> /\ divisor' = <<v, divisor[2]>>
                               /\ UNCHANGED <<dlab, loop, tx, rx>>
         [] reg = 0 /\ ~dlab -> /\ tx' = Into(tx, v)
                                /\ UNCHANGED <<regs, rx>>
         [] reg = 1 /\ dlab -> /\ divisor' = <<divisor[1], v>>
                               /\ UNCHANGED <<dlab, loop, tx, rx>>
         [] reg = 1 /\ ~dlab -> UNCHANGED <<regs, tx, rx>>  \* interrupts: none are used
         [] reg = 2 -> /\ tx' = IF Bit(v, 4) THEN <<>> ELSE tx
                       /\ rx' = IF Bit(v, 2) THEN <<>> ELSE rx
                       /\ UNCHANGED regs
         [] reg = 3 -> /\ dlab' = Bit(v, 128)
                       /\ UNCHANGED <<divisor, loop, tx, rx>>
         [] reg = 4 -> /\ loop' = Bit(v, 16)
                       /\ UNCHANGED <<dlab, divisor, tx, rx>>

\* Mutation: bit 0 of the status, data received, for bit 5.
DataReceived == chip = "absent" \/ rx # <<>>

\* is_transmit_empty: an empty bus reads as 0xFF.
TransmitEmpty == chip = "absent" \/ tx = <<>>

\* The transmitter takes the next byte.
LoadShift ==
  /\ chip = "working" /\ shift = <<>> /\ tx # <<>>
  /\ shift' = <<Head(tx)>> /\ tx' = Tail(tx)
  /\ UNCHANGED <<driver, chip, regs, rx, wire>>

\* It has sent the byte: out on the line, or in loopback to the receiver.
ShiftOut ==
  /\ shift # <<>> /\ chip = "working"
  /\ shift' = <<>>
  /\ IF loop THEN rx' = Into(rx, shift[1]) /\ UNCHANGED wire
     ELSE /\ wire' = IF accepted THEN Append(wire, shift[1]) ELSE wire
          /\ UNCHANGED rx
  /\ UNCHANGED <<driver, chip, regs, tx>>

Chip == LoadShift \/ ShiftOut
-----------------------------------------------------------------------------
(* init_serial *)

Program ==
  /\ pc = "init"
  /\ Outb(Writes[step][1], Writes[step][2])
  /\ IF step < Len(Writes) THEN step' = step + 1 /\ UNCHANGED pc
     ELSE pc' = "test" /\ UNCHANGED step
  /\ UNCHANGED <<accepted, msg, logs, sent, chip, shift, wire>>

\* inb(PORT) gives the oldest byte received, if there is one; a byte other
\* than the one sent makes init_serial return false at once.
TestChip ==
  /\ pc = "test"
  /\ LET read == IF chip = "absent" THEN 255 ELSE IF rx = <<>> THEN 0 ELSE Head(rx)
     IN  pc' = IF read = TestByte THEN "accept" ELSE "idle"
  /\ rx' = IF chip = "working" /\ rx # <<>> THEN Tail(rx) ELSE rx
  /\ UNCHANGED <<step, accepted, msg, logs, sent, chip, regs, tx, shift, wire>>

\* Normal operation, and init_serial returns true.
Accept ==
  /\ pc = "accept"
  /\ Outb(4, 15)
  /\ accepted' = TRUE
  /\ pc' = "idle"
  /\ UNCHANGED <<step, msg, logs, sent, chip, shift, wire>>
-----------------------------------------------------------------------------
(* serial_log and write_serial *)

\* kmain logs a message; or an exception interrupts the one being logged, its
\* handler logs its own, and nobody goes on with the first.  The message of an
\* accepted port comes before lidt, where exceptions reset the machine.
Log ==
  /\ pc = "idle" \/ (pc \in {"poll", "write"} /\ (accepted => logs > 1))
  /\ logs < MaxLogs
  /\ msg' \in Messages
  /\ logs' = logs + 1
  /\ pc' = IF msg' = <<>> THEN "idle" ELSE "poll"
  /\ UNCHANGED <<step, accepted, sent, chip, regs, tx, rx, shift, wire>>

\* Mutation: the status is not waited for.
PollOnce ==
  /\ pc = "poll"
  /\ pc' = "write"
  /\ UNCHANGED <<step, accepted, msg, logs, sent, chip, regs, tx, rx, shift, wire>>

\* The loop of write_serial ends once it reads the transmitter as empty.
Poll ==
  /\ pc = "poll" /\ TransmitEmpty
  /\ pc' = "write"
  /\ UNCHANGED <<step, accepted, msg, logs, sent, chip, regs, tx, rx, shift, wire>>

\* A turn of the loop: the transmitter still holds a byte.
Spin == pc = "poll" /\ ~TransmitEmpty /\ UNCHANGED vars

\* The end of write_serial.
Transmit(a) ==
  /\ Outb(0, a)
  /\ sent' = Append(sent, a)

\* Mutation: the end of the string is not seen.
WriteByteOn ==
  /\ pc = "write"
  /\ Transmit(Head(msg))
  /\ msg' = Tail(msg)
  /\ pc' = "poll"
  /\ UNCHANGED <<step, accepted, logs, chip, shift, wire>>

\* serial_log goes on with the next byte, until the end of the string.
WriteByte ==
  /\ pc = "write"
  /\ Transmit(Head(msg))
  /\ msg' = Tail(msg)
  /\ pc' = IF Tail(msg) = <<>> THEN "idle" ELSE "poll"
  /\ UNCHANGED <<step, accepted, logs, chip, shift, wire>>

\* Every message is written; what follows does not log.
Quiet == pc = "idle" /\ logs = MaxLogs /\ UNCHANGED vars

Driver == Program \/ TestChip \/ Accept \/ Poll \/ WriteByte

Next == Driver \/ Spin \/ Log \/ Chip \/ Quiet

Spec == Init /\ [][Next]_vars

\* The processor keeps executing, and a chip that is there keeps sending.
FairSpec == Spec /\ WF_vars(Driver) /\ WF_vars(Chip)
=============================================================================
