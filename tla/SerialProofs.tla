---------------------------- MODULE SerialProofs ----------------------------
(***************************************************************************)
(* Proofs about the serial port, for every depth of the FIFOs, every       *)
(* message and every pace of the chip: an accepted port is configured as   *)
(* init_serial says, and what goes out on the line is what was logged.     *)
(***************************************************************************)
EXTENDS SerialProps, SequenceTheorems, TLAPS

\* The hypothesis of WireTheorem: the firmware left no byte behind that the
\* self test of init_serial takes for its own.
NoTestByte == \A s \in Firmware : \A k \in 1 .. Len(s) : s[k] # TestByte

-----------------------------------------------------------------------------
(* The inductive invariant *)

Bytes == Seq(0 .. 255)

Types ==
  /\ TypeOK
  /\ msg \in Bytes /\ tx \in Bytes /\ rx \in Bytes /\ shift \in Bytes
  /\ wire \in Bytes /\ sent \in Bytes

\* What the writes of init_serial have done to a chip that is there.
Programmed ==
  chip = "working" =>
    /\ pc = "init" => /\ step \in 3 .. 5 => dlab
                      /\ step >= 4 => divisor[1] = 3
                      /\ step >= 5 => divisor[2] = 0
                      /\ step >= 6 => ~dlab
                      /\ step >= 7 => tx = <<>>
                      /\ step = 9 => loop
    /\ pc # "init" => divisor = <<3, 0>> /\ ~dlab
    /\ pc \in {"test", "accept"} => loop

\* Nothing is logged before init_serial has returned.
Before ==
  /\ pc \in {"init", "test", "accept"} => ~accepted /\ sent = <<>>
  /\ ~accepted => wire = <<>>
  /\ accepted => chip = "working" /\ ~loop
  /\ pc = "accept" => chip = "working"

\* The test byte does not occur.
Clean(s) == \A k \in 1 .. Len(s) : s[k] # TestByte

\* Where the test byte is during the self test: if it has been received, it
\* is gone from the transmitter.
SelfTest ==
  chip = "working" =>
    /\ pc = "init" => Clean(tx) /\ Clean(shift) /\ (step >= 7 => Clean(rx))
    /\ pc = "test" => \/ tx = <<TestByte>> /\ Clean(shift) /\ Clean(rx)
                      \/ tx = <<>> /\ shift = <<TestByte>> /\ Clean(rx)
                      \/ tx = <<>> /\ shift = <<>>
    /\ pc = "accept" => tx = <<>> /\ shift = <<>>

\* The byte about to be written finds the FIFO empty.
RoomToWrite == pc = "write" /\ chip = "working" => tx = <<>>

\* For every firmware.
LineInv == Types /\ Programmed /\ Before

\* For a firmware that left no test byte.
WireInv == LineInv /\ SelfTest /\ RoomToWrite /\ WireIsLog

-----------------------------------------------------------------------------
(* Sequences and FIFOs *)

LEMMA FifoFacts ==
  ASSUME NEW q \in Bytes, NEW b \in 0 .. 255, Len(q) <= FifoDepth
  PROVE  /\ Into(q, b) \in Bytes /\ Len(Into(q, b)) <= FifoDepth
         /\ q = <<>> => Into(q, b) = <<b>>
         /\ Clean(q) /\ b # TestByte => Clean(Into(q, b))
<1>1. /\ Append(q, b) \in Bytes /\ Len(Append(q, b)) = Len(q) + 1 /\ Len(q) \in Nat
      /\ \A k \in 1 .. Len(q) : Append(q, b)[k] = q[k]
      /\ Append(q, b)[Len(q) + 1] = b
  BY AppendProperties, LenProperties DEF Bytes
<1>2. Clean(q) /\ b # TestByte => Clean(Append(q, b))
  BY <1>1 DEF Clean
<1>3. q = <<>> => Append(q, b) = <<b>> /\ Len(q) = 0
  OBVIOUS
<1>4. QED
  BY <1>1, <1>2, <1>3, SerialAssumption DEF Into

LEMMA HeadAndTail ==
  ASSUME NEW q \in Bytes, q # <<>>
  PROVE  /\ Head(q) \in 0 .. 255 /\ Tail(q) \in Bytes /\ <<Head(q)>> \in Bytes
         /\ Len(Tail(q)) = Len(q) - 1 /\ Len(q) \in Nat
         /\ Clean(q) => Clean(Tail(q)) /\ Head(q) # TestByte
         /\ <<Head(q)>> \o Tail(q) = q
<1>1. /\ Head(q) \in 0 .. 255 /\ Tail(q) \in Bytes /\ Head(q) = q[1]
      /\ Len(Tail(q)) = Len(q) - 1 /\ Len(q) \in Nat \ {0}
      /\ \A k \in 1 .. Len(Tail(q)) : Tail(q)[k] = q[k + 1]
  BY HeadTailProperties, EmptySeq DEF Bytes
<1>2. Clean(q) => Clean(Tail(q)) /\ Head(q) # TestByte
  BY <1>1 DEF Clean
<1>3. <<Head(q)>> \in Bytes /\ Len(<<Head(q)>>) = 1 /\ <<Head(q)>>[1] = Head(q)
  BY <1>1 DEF Bytes
<1>4. <<Head(q)>> \o Tail(q) = q
  <2> DEFINE c == <<Head(q)>> \o Tail(q)
  <2>1. /\ c \in Bytes /\ Len(c) = Len(q)
        /\ \A k \in 1 .. Len(q) : c[k] = IF k <= 1 THEN Head(q) ELSE Tail(q)[k - 1]
    BY <1>1, <1>3, ConcatProperties DEF Bytes
  <2>2. \A k \in 1 .. Len(c) : c[k] = q[k]
    BY <1>1, <2>1
  <2>3. QED
    BY <2>1, <2>2, SeqEqual DEF Bytes
<1>5. QED
  BY <1>1, <1>2, <1>3, <1>4

LEMMA Single ==
  ASSUME NEW q \in Bytes, q # <<>>, Len(q) <= 1
  PROVE  q = <<q[1]>> /\ q[1] \in 0 .. 255
<1>1. Len(q) \in Nat \ {0}
  BY EmptySeq DEF Bytes
<1>2. Len(q) = 1 /\ 1 \in 1 .. Len(q)
  BY <1>1
<1>3. q[1] \in 0 .. 255
  BY <1>2, ElementOfSeq DEF Bytes
<1>4. <<q[1]>> \in Bytes /\ Len(<<q[1]>>) = 1 /\ <<q[1]>>[1] = q[1]
  BY <1>3 DEF Bytes
<1>5. \A k \in 1 .. Len(q) : q[k] = <<q[1]>>[k]
  BY <1>2, <1>4
<1>6. QED
  BY <1>2, <1>3, <1>4, <1>5, SeqEqual DEF Bytes

\* Moving the oldest byte on changes nothing of what is on its way.
LEMMA LoadKeepsOrder ==
  ASSUME NEW w \in Bytes, NEW q \in Bytes, q # <<>>
  PROVE  w \o <<Head(q)>> \o Tail(q) = w \o <<>> \o q
<1>1. (w \o <<Head(q)>>) \o Tail(q) = w \o (<<Head(q)>> \o Tail(q))
  BY HeadAndTail, ConcatAssociative DEF Bytes
<1>2. w \o <<>> = w
  BY ConcatEmptySeq DEF Bytes
<1>3. QED
  BY <1>1, <1>2, HeadAndTail

LEMMA ShiftKeepsOrder ==
  ASSUME NEW w \in Bytes, NEW s \in Bytes, NEW q \in Bytes, s # <<>>, Len(s) <= 1
  PROVE  Append(w, s[1]) \o <<>> \o q = w \o s \o q
<1>1. s = <<s[1]>> /\ s[1] \in 0 .. 255
  BY Single
<1>2. Append(w, s[1]) = w \o s /\ Append(w, s[1]) \in Bytes
  BY <1>1, AppendIsConcat, AppendProperties DEF Bytes
<1>3. Append(w, s[1]) \o <<>> = Append(w, s[1])
  BY <1>2, ConcatEmptySeq DEF Bytes
<1>4. QED
  BY <1>2, <1>3

LEMMA WriteKeepsOrder ==
  ASSUME NEW w \in Bytes, NEW s \in Bytes, NEW b \in 0 .. 255
  PROVE  w \o s \o <<b>> = Append(w \o s \o <<>>, b)
<1>1. w \o s \in Bytes
  BY ConcatProperties DEF Bytes
<1>2. (w \o s) \o <<>> = w \o s
  BY <1>1, ConcatEmptySeq DEF Bytes
<1>3. Append(w \o s, b) = (w \o s) \o <<b>>
  BY <1>1, AppendIsConcat DEF Bytes
<1>4. QED
  BY <1>2, <1>3

-----------------------------------------------------------------------------
(* The registers *)

\* A write to the data register, or to the low byte of the divisor.
LEMMA WriteData ==
  ASSUME Types, NEW b \in 0 .. 255, Outb(0, b)
  PROVE  /\ dlab' = dlab /\ loop' = loop /\ rx' = rx
         /\ chip # "working" => divisor' = divisor /\ tx' = tx
         /\ chip = "working" /\ dlab =>
              tx' = tx /\ divisor' = <<b, divisor[2]>>
         /\ chip = "working" /\ ~dlab => tx' = Into(tx, b) /\ divisor' = divisor
         /\ tx' \in Bytes /\ Len(tx') <= FifoDepth
         /\ divisor' \in (0 .. 255) \X (0 .. 255)
<1>1. /\ chip \in {"working", "absent"} /\ dlab \in BOOLEAN
      /\ tx \in Bytes /\ Len(tx) <= FifoDepth
      /\ divisor \in (0 .. 255) \X (0 .. 255)
  BY DEF Types, TypeOK
<1>2. Into(tx, b) \in Bytes /\ Len(Into(tx, b)) <= FifoDepth
  BY <1>1, FifoFacts
<1>3. <<b, divisor[2]>> \in (0 .. 255) \X (0 .. 255)
  BY <1>1
<1>4. ASSUME chip # "working"
      PROVE  dlab' = dlab /\ loop' = loop /\ rx' = rx /\ divisor' = divisor /\ tx' = tx
  BY <1>1, <1>4 DEF Outb, regs
<1>5. ASSUME chip = "working", dlab
      PROVE  /\ dlab' = dlab /\ loop' = loop /\ rx' = rx
             /\ tx' = tx /\ divisor' = <<b, divisor[2]>>
  BY <1>5 DEF Outb
<1>6. ASSUME chip = "working", ~dlab
      PROVE  /\ dlab' = dlab /\ loop' = loop /\ rx' = rx
             /\ tx' = Into(tx, b) /\ divisor' = divisor
  BY <1>6 DEF Outb, regs
<1>7. tx' \in Bytes /\ Len(tx') <= FifoDepth /\ divisor' \in (0 .. 255) \X (0 .. 255)
  BY <1>1, <1>2, <1>3, <1>4, <1>5, <1>6
<1>8. QED
  BY <1>4, <1>5, <1>6, <1>7

\* The control registers, as init_serial writes them.
LEMMA WriteControl ==
  ASSUME chip = "working"
  PROVE  /\ Outb(1, 0) => /\ dlab' = dlab /\ loop' = loop /\ tx' = tx /\ rx' = rx
                          /\ divisor' = IF dlab THEN <<divisor[1], 0>> ELSE divisor
         /\ Outb(3, 128) => dlab' = TRUE /\ UNCHANGED <<divisor, loop, tx, rx>>
         /\ Outb(3, 3) => dlab' = FALSE /\ UNCHANGED <<divisor, loop, tx, rx>>
         /\ Outb(2, 199) => tx' = <<>> /\ rx' = <<>> /\ UNCHANGED <<dlab, divisor, loop>>
         /\ Outb(4, 11) => loop' = FALSE /\ UNCHANGED <<dlab, divisor, tx, rx>>
         /\ Outb(4, 30) => loop' = TRUE /\ UNCHANGED <<dlab, divisor, tx, rx>>
         /\ Outb(4, 15) => loop' = FALSE /\ UNCHANGED <<dlab, divisor, tx, rx>>
<1>1. /\ Bit(128, 128) = TRUE /\ Bit(3, 128) = FALSE
      /\ Bit(199, 4) = TRUE /\ Bit(199, 2) = TRUE
      /\ Bit(11, 16) = FALSE /\ Bit(30, 16) = TRUE /\ Bit(15, 16) = FALSE
  BY DEF Bit
<1>2. /\ Outb(3, 128) => dlab' = TRUE /\ UNCHANGED <<divisor, loop, tx, rx>>
      /\ Outb(3, 3) => dlab' = FALSE /\ UNCHANGED <<divisor, loop, tx, rx>>
  BY <1>1 DEF Outb
<1>3. Outb(2, 199) => tx' = <<>> /\ rx' = <<>> /\ UNCHANGED <<dlab, divisor, loop>>
  BY <1>1 DEF Outb, regs
<1>4. /\ Outb(4, 11) => loop' = FALSE /\ UNCHANGED <<dlab, divisor, tx, rx>>
      /\ Outb(4, 30) => loop' = TRUE /\ UNCHANGED <<dlab, divisor, tx, rx>>
      /\ Outb(4, 15) => loop' = FALSE /\ UNCHANGED <<dlab, divisor, tx, rx>>
  BY <1>1 DEF Outb
<1>5. Outb(1, 0) => /\ dlab' = dlab /\ loop' = loop /\ tx' = tx /\ rx' = rx
                    /\ divisor' = IF dlab THEN <<divisor[1], 0>> ELSE divisor
  <2>1. CASE dlab
    BY <2>1 DEF Outb
  <2>2. CASE ~dlab
    BY <2>2 DEF Outb, regs
  <2>3. QED
    BY <2>1, <2>2
<1>6. QED
  BY <1>2, <1>3, <1>4, <1>5

\* What each write of init_serial is.
LEMMA ProgramWrites ==
  ASSUME Program, step \in 1 .. 9
  PROVE  /\ pc = "init"
         /\ step \in {1, 4} => Outb(1, 0)
         /\ step = 2 => Outb(3, 128)
         /\ step = 3 => Outb(0, 3)
         /\ step = 5 => Outb(3, 3)
         /\ step = 6 => Outb(2, 199)
         /\ step = 7 => Outb(4, 11)
         /\ step = 8 => Outb(4, 30)
         /\ step = 9 => Outb(0, TestByte) /\ pc' = "test" /\ step' = step
         /\ step < 9 => step' = step + 1 /\ pc' = pc
         /\ UNCHANGED <<accepted, msg, logs, sent, chip, shift, wire>>
<1>1. /\ pc = "init" /\ Outb(Writes[step][1], Writes[step][2])
      /\ UNCHANGED <<accepted, msg, logs, sent, chip, shift, wire>>
      /\ IF step < Len(Writes) THEN step' = step + 1 /\ UNCHANGED pc
         ELSE pc' = "test" /\ UNCHANGED step
  BY DEF Program
<1>2. Len(Writes) = 9
  BY DEF Writes, InitWrites
<1>3. /\ step \in {1, 4} => Writes[step] = <<1, 0>>
      /\ step = 2 => Writes[step] = <<3, 128>>
      /\ step = 3 => Writes[step] = <<0, 3>>
      /\ step = 5 => Writes[step] = <<3, 3>>
      /\ step = 6 => Writes[step] = <<2, 199>>
      /\ step = 7 => Writes[step] = <<4, 11>>
      /\ step = 8 => Writes[step] = <<4, 30>>
      /\ step = 9 => Writes[step] = <<0, TestByte>>
  BY DEF Writes, InitWrites
<1>4. \A r, v : Writes[step] = <<r, v>> => Writes[step][1] = r /\ Writes[step][2] = v
  OBVIOUS
<1>5. QED
  BY <1>1, <1>2, <1>3, <1>4

LEMMA AbsentQuiet ==
  ASSUME chip = "absent", NEW r, NEW b, Outb(r, b)
  PROVE  UNCHANGED <<dlab, divisor, loop, tx, rx>>
  BY DEF Outb, regs

-----------------------------------------------------------------------------
(* Configuration: LineInv is inductive *)

LEMMA LineInit == Init => LineInv
<1> SUFFICES ASSUME Init PROVE LineInv
  OBVIOUS
<1>1. Firmware \subseteq Bytes
  BY SerialAssumption DEF Bytes
<1>2. Types
  <2>1. <<1, 0>> \in (0 .. 255) \X (0 .. 255) /\ <<>> \in Bytes /\ 0 \in 0 .. MaxLogs
    BY SerialAssumption DEF Bytes
  <2>2. /\ tx \in Bytes /\ rx \in Bytes /\ shift \in Bytes
        /\ msg = <<>> /\ wire = <<>> /\ sent = <<>> /\ pc = "init"
    BY <1>1 DEF Init
  <2>3. /\ step = 1 /\ accepted = FALSE /\ logs = 0 /\ dlab \in BOOLEAN /\ loop \in BOOLEAN
        /\ chip \in {"working", "absent"} /\ divisor = <<1, 0>>
        /\ Len(tx) <= FifoDepth /\ Len(rx) <= FifoDepth /\ Len(shift) <= 1
    BY DEF Init
  <2>4. TypeOK
    <3>1. pc \in {"poll", "write"} <=> msg # <<>>
      BY <2>2
    <3>2. step \in 1 .. 9
      BY <2>3
    <3>3. accepted \in BOOLEAN
      BY <2>3
    <3>4. divisor \in (0 .. 255) \X (0 .. 255)
      BY <2>1, <2>3, Zenon
    <3>5. QED
      BY <2>1, <2>2, <2>3, <3>1, <3>2, <3>3, <3>4 DEF TypeOK
  <2>5. QED
    BY <2>1, <2>2, <2>4 DEF Types
<1>3. Programmed /\ Before
  BY DEF Init, Programmed, Before
<1>4. QED
  BY <1>2, <1>3 DEF LineInv

LEMMA ProgramLine == LineInv /\ Program => LineInv'
<1> SUFFICES ASSUME LineInv, Program PROVE LineInv'
  OBVIOUS
<1>1. Types /\ TypeOK /\ Programmed /\ Before /\ step \in 1 .. 9
      /\ chip \in {"working", "absent"}
  BY DEF LineInv, Types, TypeOK
<1>2. /\ pc = "init" /\ UNCHANGED <<accepted, msg, logs, sent, chip, shift, wire>>
      /\ step = 9 => pc' = "test" /\ step' = step
      /\ step < 9 => step' = step + 1 /\ pc' = pc
  BY <1>1, ProgramWrites
<1>3. step' \in 1 .. 9 /\ pc' \in {"init", "test"}
  BY <1>1, <1>2
<1>4. Before'
  BY <1>1, <1>2, <1>3 DEF Before
<1>5. CASE chip = "absent"
  <2>1. UNCHANGED <<dlab, divisor, loop, tx, rx>>
    BY <1>5, AbsentQuiet DEF Program
  <2>2. Types'
    BY <1>1, <1>2, <1>3, <2>1 DEF Types, TypeOK, Bytes
  <2>3. Programmed'
    BY <1>2, <1>5 DEF Programmed
  <2>4. QED
    BY <1>4, <2>2, <2>3 DEF LineInv
<1>6. CASE chip = "working"
  <2> DEFINE RegsTyped == /\ dlab' \in BOOLEAN /\ loop' \in BOOLEAN
                          /\ divisor' \in (0 .. 255) \X (0 .. 255)
                          /\ tx' \in Bytes /\ rx' \in Bytes
                          /\ Len(tx') <= FifoDepth /\ Len(rx') <= FifoDepth
  <2>0. /\ dlab \in BOOLEAN /\ loop \in BOOLEAN /\ tx \in Bytes /\ rx \in Bytes
        /\ divisor \in (0 .. 255) \X (0 .. 255)
        /\ Len(tx) <= FifoDepth /\ Len(rx) <= FifoDepth
        /\ <<>> \in Bytes /\ Len(<<>>) <= FifoDepth
    BY <1>1, SerialAssumption DEF Types, TypeOK, Bytes
  <2>1. ASSUME step \in {1, 4} PROVE RegsTyped /\ Programmed'
    <3>1. /\ dlab' = dlab /\ loop' = loop /\ tx' = tx /\ rx' = rx
          /\ divisor' = IF dlab THEN <<divisor[1], 0>> ELSE divisor
      BY <1>1, <1>6, <2>1, ProgramWrites, WriteControl
    <3>2. RegsTyped
      BY <2>0, <3>1
    <3>3. Programmed'
      BY <1>1, <1>2, <1>6, <2>1, <3>1 DEF Programmed
    <3>4. QED
      BY <3>2, <3>3
  <2>2. ASSUME step = 2 PROVE RegsTyped /\ Programmed'
    <3>1. dlab' = TRUE /\ UNCHANGED <<divisor, loop, tx, rx>>
      BY <1>1, <1>6, <2>2, ProgramWrites, WriteControl
    <3>2. QED
      BY <1>1, <1>2, <1>6, <2>0, <2>2, <3>1 DEF Programmed
  <2>3. ASSUME step = 3 PROVE RegsTyped /\ Programmed'
    <3>1. Outb(0, 3) /\ 3 \in 0 .. 255
      BY <1>1, <2>3, ProgramWrites
    <3>2. dlab
      BY <1>1, <1>2, <1>6, <2>3 DEF Programmed
    <3>3. /\ dlab' = dlab /\ loop' = loop /\ tx' = tx /\ rx' = rx
          /\ divisor' = <<3, divisor[2]>> /\ divisor' \in (0 .. 255) \X (0 .. 255)
      BY <1>1, <1>6, <3>1, <3>2, WriteData
    <3>4. QED
      BY <1>1, <1>2, <1>6, <2>0, <2>3, <3>2, <3>3 DEF Programmed
  <2>4. ASSUME step = 5 PROVE RegsTyped /\ Programmed'
    <3>1. dlab' = FALSE /\ UNCHANGED <<divisor, loop, tx, rx>>
      BY <1>1, <1>6, <2>4, ProgramWrites, WriteControl
    <3>2. RegsTyped
      BY <2>0, <3>1
    <3>3. step' = 6 /\ pc' = "init"
      BY <1>2, <2>4
    <3>4. divisor[1] = 3 /\ divisor[2] = 0
      <4>1. divisor[1] = 3
        BY <1>1, <1>2, <1>6, <2>4 DEF Programmed
      <4>2. divisor[2] = 0
        BY <1>1, <1>2, <1>6, <2>4 DEF Programmed
      <4>3. QED
        BY <4>1, <4>2
    <3>5. Programmed'
      BY <3>1, <3>3, <3>4 DEF Programmed
    <3>6. QED
      BY <3>2, <3>5
  <2>5. ASSUME step = 6 PROVE RegsTyped /\ Programmed'
    <3>1. tx' = <<>> /\ rx' = <<>> /\ UNCHANGED <<dlab, divisor, loop>>
      BY <1>1, <1>6, <2>5, ProgramWrites, WriteControl
    <3>2. QED
      BY <1>1, <1>2, <1>6, <2>0, <2>5, <3>1 DEF Programmed
  <2>6. ASSUME step \in {7, 8} PROVE RegsTyped /\ Programmed'
    <3>1. /\ loop' \in BOOLEAN /\ (step = 8 => loop') /\ UNCHANGED <<dlab, divisor, tx, rx>>
      BY <1>1, <1>6, <2>6, ProgramWrites, WriteControl
    <3>2. QED
      BY <1>1, <1>2, <1>6, <2>0, <2>6, <3>1 DEF Programmed
  <2>7. ASSUME step = 9 PROVE RegsTyped /\ Programmed'
    <3>1. Outb(0, TestByte) /\ TestByte \in 0 .. 255
      BY <1>1, <2>7, ProgramWrites DEF TestByte
    <3>2. ~dlab /\ divisor[1] = 3 /\ divisor[2] = 0 /\ loop
      BY <1>1, <1>2, <1>6, <2>7 DEF Programmed
    <3>3. /\ dlab' = dlab /\ loop' = loop /\ rx' = rx /\ divisor' = divisor
          /\ tx' \in Bytes /\ Len(tx') <= FifoDepth
      BY <1>1, <1>6, <3>1, <3>2, WriteData
    <3>4. divisor = <<3, 0>>
      BY <2>0, <3>2
    <3>5. RegsTyped
      BY <2>0, <3>3
    <3>6. Programmed'
      BY <1>2, <2>7, <3>2, <3>3, <3>4 DEF Programmed
    <3>7. QED
      BY <3>5, <3>6
  <2>8. RegsTyped /\ Programmed'
    BY <1>1, <2>1, <2>2, <2>3, <2>4, <2>5, <2>6, <2>7
  <2>9. Types'
    BY <1>1, <1>2, <1>3, <2>8 DEF Types, TypeOK, Bytes
  <2>10. QED
    BY <1>4, <2>8, <2>9 DEF LineInv
<1>7. QED
  BY <1>1, <1>5, <1>6

LEMMA TestLine == LineInv /\ TestChip => LineInv'
<1> SUFFICES ASSUME LineInv, TestChip PROVE LineInv'
  OBVIOUS
<1>1. Types /\ TypeOK /\ Programmed /\ Before
  BY DEF LineInv, Types
<1>2. /\ pc = "test" /\ pc' \in {"accept", "idle"}
      /\ UNCHANGED <<step, accepted, msg, logs, sent, chip, dlab, divisor, loop, tx, shift, wire>>
      /\ rx' = IF chip = "working" /\ rx # <<>> THEN Tail(rx) ELSE rx
  BY DEF TestChip, regs
<1>3. pc' = "accept" => chip = "working"
  <2>1. CASE chip = "absent"
    BY <2>1 DEF TestChip, TestByte
  <2>2. QED
    BY <1>1, <2>1 DEF TypeOK
<1>4. rx' \in Bytes /\ Len(rx') <= FifoDepth
  <2>1. rx \in Bytes /\ Len(rx) <= FifoDepth /\ Len(rx) \in Nat
    BY <1>1, LenProperties DEF Types, TypeOK, Bytes
  <2>2. ASSUME rx # <<>> PROVE Tail(rx) \in Bytes /\ Len(Tail(rx)) <= FifoDepth
    <3>1. Tail(rx) \in Bytes /\ Len(Tail(rx)) = Len(rx) - 1
      BY <2>1, <2>2, HeadAndTail
    <3>2. QED
      BY <2>1, <3>1, SerialAssumption
  <2>3. QED
    BY <1>2, <2>1, <2>2
<1>5. Types'
  <2>1. pc' \notin {"poll", "write"} /\ msg' = <<>> /\ msg' \in Bytes
    BY <1>1, <1>2 DEF Types, TypeOK
  <2>2. TypeOK'
    BY <1>1, <1>2, <1>4, <2>1 DEF TypeOK
  <2>3. QED
    BY <1>1, <1>2, <1>4, <2>1, <2>2 DEF Types
<1>6. Programmed'
  BY <1>1, <1>2 DEF Programmed
<1>7. Before'
  BY <1>1, <1>2, <1>3 DEF Before
<1>8. QED
  BY <1>5, <1>6, <1>7 DEF LineInv

LEMMA AcceptFacts ==
  ASSUME LineInv, Accept
  PROVE  /\ chip = "working" /\ pc = "accept" /\ accepted' = TRUE /\ pc' = "idle"
         /\ loop' = FALSE /\ divisor = <<3, 0>> /\ ~dlab /\ loop /\ ~accepted /\ sent = <<>>
         /\ UNCHANGED <<step, msg, logs, sent, chip, dlab, divisor, tx, rx, shift, wire>>
<1>1. /\ pc = "accept" /\ accepted' = TRUE /\ pc' = "idle" /\ Outb(4, 15)
      /\ UNCHANGED <<step, msg, logs, sent, chip, shift, wire>>
  BY DEF Accept
<1>2. chip = "working" /\ ~accepted /\ sent = <<>>
  BY <1>1 DEF LineInv, Before
<1>3. divisor = <<3, 0>> /\ ~dlab /\ loop
  BY <1>1, <1>2 DEF LineInv, Programmed
<1>4. loop' = FALSE /\ UNCHANGED <<dlab, divisor, tx, rx>>
  BY <1>1, <1>2, WriteControl
<1>5. QED
  BY <1>1, <1>2, <1>3, <1>4

LEMMA AcceptLine == LineInv /\ Accept => LineInv'
<1> SUFFICES ASSUME LineInv, Accept PROVE LineInv'
  OBVIOUS
<1>1. Types /\ TypeOK /\ Programmed /\ Before
  BY DEF LineInv, Types
<1>2. /\ chip = "working" /\ pc = "accept" /\ accepted' = TRUE /\ pc' = "idle"
      /\ loop' = FALSE /\ divisor = <<3, 0>> /\ ~dlab
      /\ UNCHANGED <<step, msg, logs, sent, chip, dlab, divisor, tx, rx, shift, wire>>
  BY AcceptFacts
<1>3. Types'
  <2>1. msg' = <<>>
    BY <1>1, <1>2 DEF TypeOK
  <2>2. TypeOK'
    BY <1>1, <1>2, <2>1 DEF TypeOK
  <2>3. QED
    BY <1>1, <1>2, <2>2 DEF Types
<1>4. Programmed'
  BY <1>2 DEF Programmed
<1>5. Before'
  BY <1>2 DEF Before
<1>6. QED
  BY <1>3, <1>4, <1>5 DEF LineInv

LEMMA PollLine == LineInv /\ Poll => LineInv'
<1> SUFFICES ASSUME LineInv, Poll PROVE LineInv'
  OBVIOUS
<1>1. Types /\ TypeOK /\ Programmed /\ Before
  BY DEF LineInv, Types
<1>2. /\ pc = "poll" /\ pc' = "write"
      /\ UNCHANGED <<step, accepted, msg, logs, sent, chip, dlab, divisor, loop, tx, rx, shift, wire>>
  BY DEF Poll, regs
<1>3. Types'
  <2>1. TypeOK'
    BY <1>1, <1>2 DEF TypeOK
  <2>2. QED
    BY <1>1, <1>2, <2>1 DEF Types
<1>4. Programmed'
  BY <1>1, <1>2 DEF Programmed
<1>5. Before'
  BY <1>1, <1>2 DEF Before
<1>6. QED
  BY <1>3, <1>4, <1>5 DEF LineInv

LEMMA LogFacts ==
  ASSUME Types, Log
  PROVE  /\ pc \in {"idle", "poll", "write"} /\ pc' \in {"idle", "poll"}
         /\ msg' \in Bytes /\ logs' \in 0 .. MaxLogs
         /\ pc' \in {"poll", "write"} <=> msg' # <<>>
         /\ UNCHANGED <<step, accepted, sent, chip, dlab, divisor, loop, tx, rx, shift, wire>>
<1>1. /\ pc \in {"idle", "poll", "write"} /\ logs < MaxLogs
      /\ msg' \in Messages /\ logs' = logs + 1
      /\ pc' = IF msg' = <<>> THEN "idle" ELSE "poll"
      /\ UNCHANGED <<step, accepted, sent, chip, dlab, divisor, loop, tx, rx, shift, wire>>
  BY DEF Log, regs
<1>2. msg' \in Bytes /\ logs' \in 0 .. MaxLogs
  BY <1>1, SerialAssumption DEF Bytes, Types, TypeOK
<1>3. CASE msg' = <<>>
  BY <1>1, <1>2, <1>3
<1>4. CASE msg' # <<>>
  BY <1>1, <1>2, <1>4
<1>5. QED
  BY <1>3, <1>4

LEMMA LogLine == LineInv /\ Log => LineInv'
<1> SUFFICES ASSUME LineInv, Log PROVE LineInv'
  OBVIOUS
<1>1. Types /\ TypeOK /\ Programmed /\ Before
  BY DEF LineInv, Types
<1>2. /\ pc \in {"idle", "poll", "write"} /\ pc' \in {"idle", "poll"}
      /\ msg' \in Bytes /\ logs' \in 0 .. MaxLogs
      /\ pc' \in {"poll", "write"} <=> msg' # <<>>
      /\ UNCHANGED <<step, accepted, sent, chip, dlab, divisor, loop, tx, rx, shift, wire>>
  BY <1>1, LogFacts
<1>3. Types'
  <2>1. TypeOK'
    BY <1>1, <1>2 DEF TypeOK
  <2>2. QED
    BY <1>1, <1>2, <2>1 DEF Types
<1>4. Programmed'
  BY <1>1, <1>2 DEF Programmed
<1>5. Before'
  BY <1>1, <1>2 DEF Before
<1>6. QED
  BY <1>3, <1>4, <1>5 DEF LineInv

\* A byte is written after the programming, so it goes to the FIFO.
LEMMA WriteFacts ==
  ASSUME LineInv, WriteByte
  PROVE  /\ pc = "write" /\ pc' = (IF Tail(msg) = <<>> THEN "idle" ELSE "poll")
         /\ msg # <<>> /\ msg' = Tail(msg) /\ Head(msg) \in 0 .. 255
         /\ Tail(msg) \in Bytes
         /\ sent' = Append(sent, Head(msg)) /\ sent' \in Bytes
         /\ tx' = IF chip = "working" THEN Into(tx, Head(msg)) ELSE tx
         /\ tx' \in Bytes /\ Len(tx') <= FifoDepth
         /\ UNCHANGED <<step, accepted, logs, chip, dlab, divisor, loop, rx, shift, wire>>
<1>1. /\ pc = "write" /\ pc' = (IF Tail(msg) = <<>> THEN "idle" ELSE "poll")
      /\ Outb(0, Head(msg)) /\ msg' = Tail(msg) /\ sent' = Append(sent, Head(msg))
      /\ UNCHANGED <<step, accepted, logs, chip, shift, wire>>
  BY DEF WriteByte, Transmit
<1>2. Types /\ msg \in Bytes /\ sent \in Bytes /\ msg # <<>> /\ dlab \in BOOLEAN
      /\ chip \in {"working", "absent"} /\ (chip = "working" => ~dlab)
  BY <1>1 DEF LineInv, Types, TypeOK, Programmed
<1>3. Head(msg) \in 0 .. 255 /\ Tail(msg) \in Bytes
  BY <1>2, HeadAndTail
<1>4. sent' \in Bytes
  BY <1>1, <1>2, <1>3, AppendProperties DEF Bytes
<1>5. /\ dlab' = dlab /\ loop' = loop /\ rx' = rx
      /\ chip # "working" => divisor' = divisor /\ tx' = tx
      /\ chip = "working" /\ ~dlab => tx' = Into(tx, Head(msg)) /\ divisor' = divisor
      /\ tx' \in Bytes /\ Len(tx') <= FifoDepth
  BY <1>1, <1>2, <1>3, WriteData
<1>6. tx' = IF chip = "working" THEN Into(tx, Head(msg)) ELSE tx
  BY <1>2, <1>5
<1>7. divisor' = divisor
  BY <1>2, <1>5
<1>8. QED
  BY <1>1, <1>2, <1>3, <1>4, <1>5, <1>6, <1>7

LEMMA WriteLine == LineInv /\ WriteByte => LineInv'
<1> SUFFICES ASSUME LineInv, WriteByte PROVE LineInv'
  OBVIOUS
<1>1. Types /\ TypeOK /\ Programmed /\ Before
  BY DEF LineInv, Types
<1>2. /\ pc = "write" /\ pc' = (IF Tail(msg) = <<>> THEN "idle" ELSE "poll")
      /\ msg' = Tail(msg) /\ Tail(msg) \in Bytes /\ sent' \in Bytes
      /\ tx' \in Bytes /\ Len(tx') <= FifoDepth
      /\ UNCHANGED <<step, accepted, logs, chip, dlab, divisor, loop, rx, shift, wire>>
  BY WriteFacts
<1>3. pc' \in {"idle", "poll"} /\ (pc' \in {"poll", "write"} <=> msg' # <<>>)
  <2>1. CASE Tail(msg) = <<>>
    BY <1>2, <2>1
  <2>2. CASE Tail(msg) # <<>>
    BY <1>2, <2>2
  <2>3. QED
    BY <2>1, <2>2
<1>4. Types'
  <2>1. TypeOK'
    BY <1>1, <1>2, <1>3 DEF TypeOK
  <2>2. QED
    BY <1>1, <1>2, <2>1 DEF Types
<1>5. Programmed'
  BY <1>1, <1>2, <1>3 DEF Programmed
<1>6. Before'
  BY <1>1, <1>2, <1>3 DEF Before
<1>7. QED
  BY <1>4, <1>5, <1>6 DEF LineInv

LEMMA LoadFacts ==
  ASSUME Types, LoadShift
  PROVE  /\ chip = "working" /\ shift = <<>> /\ tx # <<>>
         /\ shift' = <<Head(tx)>> /\ tx' = Tail(tx)
         /\ shift' \in Bytes /\ Len(shift') <= 1 /\ tx' \in Bytes /\ Len(tx') <= FifoDepth
         /\ UNCHANGED <<pc, step, accepted, msg, logs, sent, chip, dlab, divisor, loop, rx, wire>>
<1>1. /\ chip = "working" /\ shift = <<>> /\ tx # <<>>
      /\ shift' = <<Head(tx)>> /\ tx' = Tail(tx)
      /\ UNCHANGED <<pc, step, accepted, msg, logs, sent, chip, dlab, divisor, loop, rx, wire>>
  BY DEF LoadShift, driver, regs
<1>2. tx \in Bytes /\ Len(tx) <= FifoDepth
  BY DEF Types, TypeOK
<1>3. /\ Tail(tx) \in Bytes /\ <<Head(tx)>> \in Bytes
      /\ Len(Tail(tx)) = Len(tx) - 1 /\ Len(tx) \in Nat
  BY <1>1, <1>2, HeadAndTail
<1>4. Len(<<Head(tx)>>) = 1
  OBVIOUS
<1>5. QED
  BY <1>1, <1>2, <1>3, <1>4, SerialAssumption

LEMMA LoadLine == LineInv /\ LoadShift => LineInv'
<1> SUFFICES ASSUME LineInv, LoadShift PROVE LineInv'
  OBVIOUS
<1>1. Types /\ TypeOK /\ Programmed /\ Before
  BY DEF LineInv, Types
<1>2. /\ tx # <<>> /\ tx' = Tail(tx)
      /\ shift' \in Bytes /\ Len(shift') <= 1 /\ tx' \in Bytes /\ Len(tx') <= FifoDepth
      /\ UNCHANGED <<pc, step, accepted, msg, logs, sent, chip, dlab, divisor, loop, rx, wire>>
  BY <1>1, LoadFacts
<1>3. Types'
  <2>1. TypeOK'
    BY <1>1, <1>2 DEF TypeOK
  <2>2. QED
    BY <1>1, <1>2, <2>1 DEF Types
<1>4. Programmed'
  BY <1>1, <1>2 DEF Programmed
<1>5. Before'
  BY <1>1, <1>2 DEF Before
<1>6. QED
  BY <1>3, <1>4, <1>5 DEF LineInv

LEMMA ShiftFacts ==
  ASSUME Types, ShiftOut
  PROVE  /\ chip = "working" /\ shift # <<>> /\ shift' = <<>> /\ shift' \in Bytes
         /\ shift[1] \in 0 .. 255
         /\ loop => rx' = Into(rx, shift[1]) /\ wire' = wire
         /\ ~loop => /\ wire' = IF accepted THEN Append(wire, shift[1]) ELSE wire
                     /\ rx' = rx
         /\ rx' \in Bytes /\ Len(rx') <= FifoDepth /\ wire' \in Bytes
         /\ UNCHANGED <<pc, step, accepted, msg, logs, sent, chip, dlab, divisor, loop, tx>>
<1>1. /\ chip = "working" /\ shift # <<>> /\ shift' = <<>>
      /\ loop => rx' = Into(rx, shift[1]) /\ wire' = wire
      /\ ~loop => /\ wire' = IF accepted THEN Append(wire, shift[1]) ELSE wire
                  /\ rx' = rx
      /\ UNCHANGED <<pc, step, accepted, msg, logs, sent, chip, dlab, divisor, loop, tx>>
  BY DEF ShiftOut, driver, regs
<1>2. /\ shift \in Bytes /\ Len(shift) <= 1 /\ rx \in Bytes /\ Len(rx) <= FifoDepth
      /\ wire \in Bytes /\ loop \in BOOLEAN /\ accepted \in BOOLEAN
  BY DEF Types, TypeOK
<1>3. shift[1] \in 0 .. 255
  BY <1>1, <1>2, Single
<1>4. /\ Into(rx, shift[1]) \in Bytes /\ Len(Into(rx, shift[1])) <= FifoDepth
      /\ Append(wire, shift[1]) \in Bytes /\ <<>> \in Bytes
  <2>1. Into(rx, shift[1]) \in Bytes /\ Len(Into(rx, shift[1])) <= FifoDepth
    BY <1>2, <1>3, FifoFacts
  <2>2. Append(wire, shift[1]) \in Bytes
    BY <1>2, <1>3, AppendProperties DEF Bytes
  <2>3. <<>> \in Bytes
    BY DEF Bytes
  <2>4. QED
    BY <2>1, <2>2, <2>3
<1>5. rx' \in Bytes /\ Len(rx') <= FifoDepth /\ wire' \in Bytes
  <2>1. CASE loop
    BY <1>1, <1>2, <1>4, <2>1
  <2>2. CASE ~loop
    BY <1>1, <1>2, <1>4, <2>2
  <2>3. QED
    BY <2>1, <2>2
<1>6. shift' \in Bytes
  BY <1>1, <1>4
<1>7. QED
  BY <1>1, <1>3, <1>5, <1>6

LEMMA ShiftLine == LineInv /\ ShiftOut => LineInv'
<1> SUFFICES ASSUME LineInv, ShiftOut PROVE LineInv'
  OBVIOUS
<1>1. Types /\ TypeOK /\ Programmed /\ Before
  BY DEF LineInv, Types
<1>2. /\ shift' = <<>> /\ shift' \in Bytes
      /\ ~accepted => wire' = wire
      /\ rx' \in Bytes /\ Len(rx') <= FifoDepth /\ wire' \in Bytes
      /\ UNCHANGED <<pc, step, accepted, msg, logs, sent, chip, dlab, divisor, loop, tx>>
  BY <1>1, ShiftFacts
<1>3. Len(shift') <= 1
  BY <1>2
<1>4. Types'
  <2>1. TypeOK'
    BY <1>1, <1>2, <1>3 DEF TypeOK
  <2>2. QED
    BY <1>1, <1>2, <2>1 DEF Types
<1>5. Programmed'
  BY <1>1, <1>2 DEF Programmed
<1>6. Before'
  BY <1>1, <1>2 DEF Before
<1>7. QED
  BY <1>4, <1>5, <1>6 DEF LineInv

LEMMA LineStutter == LineInv /\ UNCHANGED vars => LineInv'
<1> SUFFICES ASSUME LineInv, UNCHANGED vars PROVE LineInv'
  OBVIOUS
<1>1. UNCHANGED <<pc, step, accepted, msg, logs, sent, chip, dlab, divisor, loop, tx, rx,
                  shift, wire>>
  BY DEF vars, driver, regs
<1>2. QED
  BY <1>1 DEF LineInv, Types, TypeOK, Programmed, Before, Bytes

LEMMA LineNext == LineInv /\ [Next]_vars => LineInv'
  BY ProgramLine, TestLine, AcceptLine, PollLine, LogLine, WriteLine, LoadLine, ShiftLine,
     LineStutter
     DEF Next, Driver, Chip, Spin, Quiet

(* At every step the chip's registers hold what the driver has programmed  *)
(* so far, and before that whatever the firmware left.                     *)
THEOREM LineInvariance == Spec => []LineInv
<1>1. Init => LineInv
  BY LineInit
<1>2. LineInv /\ [Next]_vars => LineInv'
  BY LineNext
<1>3. QED
  BY <1>1, <1>2, PTL DEF Spec

(* Every variable keeps its type, for whatever the firmware left.          *)
THEOREM TypeCorrectness == Spec => []TypeOK
<1>1. LineInv => TypeOK
  BY DEF LineInv, Types
<1>2. QED
  BY <1>1, LineInvariance, PTL

(* An accepted port has the line parameters that init_serial programs,     *)
(* whatever the firmware left and however fast the chip works.             *)
THEOREM LineTheorem == Spec => []LineConfigured
<1>1. LineInv => LineConfigured
  <2> SUFFICES ASSUME LineInv, accepted PROVE divisor = <<3, 0>> /\ ~dlab /\ ~loop
    BY DEF LineConfigured
  <2>1. chip = "working" /\ ~loop /\ pc # "init"
    BY DEF LineInv, Before
  <2>2. QED
    BY <2>1 DEF LineInv, Programmed
<1>2. QED
  BY <1>1, LineInvariance, PTL

-----------------------------------------------------------------------------
(* The line: WireInv is inductive if the firmware left no test byte *)

LEMMA WireInit == NoTestByte /\ Init => WireInv
<1> SUFFICES ASSUME NoTestByte, Init PROVE WireInv
  OBVIOUS
<1>1. LineInv
  BY LineInit
<1>2. pc = "init" /\ step = 1 /\ accepted = FALSE /\ tx \in Firmware /\ shift \in Firmware
  BY DEF Init
<1>3. Clean(tx) /\ Clean(shift)
  BY <1>2 DEF NoTestByte, Clean
<1>4. SelfTest
  BY <1>2, <1>3 DEF SelfTest
<1>5. RoomToWrite /\ WireIsLog
  BY <1>2 DEF RoomToWrite, WireIsLog
<1>6. QED
  BY <1>1, <1>4, <1>5 DEF WireInv

\* What a write of init_serial does to the FIFOs of a chip that is there.
LEMMA ProgramFifos ==
  ASSUME LineInv, Program, chip = "working"
  PROVE  /\ step = 6 => tx' = <<>> /\ rx' = <<>>
         /\ step = 9 => tx' = <<TestByte>> /\ rx' = rx
         /\ step \notin {6, 9} => tx' = tx /\ rx' = rx
<1>1. Types /\ step \in 1 .. 9 /\ pc = "init" /\ tx \in Bytes /\ Len(tx) <= FifoDepth
  BY DEF LineInv, Types, TypeOK, Program
<1>2. step = 6 => tx' = <<>> /\ rx' = <<>>
  BY <1>1, ProgramWrites, WriteControl
<1>3. ASSUME step = 9 PROVE tx' = <<TestByte>> /\ rx' = rx
  <2>1. Outb(0, TestByte) /\ TestByte \in 0 .. 255
    BY <1>1, <1>3, ProgramWrites DEF TestByte
  <2>2. ~dlab /\ tx = <<>>
    BY <1>1, <1>3 DEF LineInv, Programmed
  <2>3. tx' = Into(tx, TestByte) /\ rx' = rx
    BY <1>1, <2>1, <2>2, WriteData
  <2>4. Into(tx, TestByte) = <<TestByte>>
    BY <1>1, <2>1, <2>2, FifoFacts
  <2>5. QED
    BY <2>3, <2>4
<1>4. ASSUME step = 3 PROVE tx' = tx /\ rx' = rx
  <2>1. Outb(0, 3) /\ 3 \in 0 .. 255
    BY <1>1, <1>4, ProgramWrites
  <2>2. dlab
    BY <1>1, <1>4 DEF LineInv, Programmed
  <2>3. QED
    BY <1>1, <2>1, <2>2, WriteData
<1>5. step \in {1, 2, 4, 5, 7, 8} => tx' = tx /\ rx' = rx
  BY <1>1, ProgramWrites, WriteControl
<1>6. QED
  BY <1>1, <1>2, <1>3, <1>4, <1>5

LEMMA ProgramWire == WireInv /\ Program => WireInv'
<1> SUFFICES ASSUME WireInv, Program PROVE WireInv'
  OBVIOUS
<1>1. LineInv /\ SelfTest /\ Types /\ step \in 1 .. 9 /\ chip \in {"working", "absent"}
  BY DEF WireInv, LineInv, Types, TypeOK
<1>2. /\ pc = "init" /\ chip' = chip /\ shift' = shift /\ accepted' = accepted
      /\ step = 9 => pc' = "test" /\ step' = step
      /\ step < 9 => step' = step + 1 /\ pc' = pc
  BY <1>1, ProgramWrites
<1>3. LineInv'
  BY <1>1, ProgramLine
<1>4. SelfTest'
  <2>1. CASE chip = "absent"
    BY <1>2, <2>1 DEF SelfTest
  <2>2. CASE chip = "working"
    <3>1. /\ step = 6 => tx' = <<>> /\ rx' = <<>>
          /\ step = 9 => tx' = <<TestByte>> /\ rx' = rx
          /\ step \notin {6, 9} => tx' = tx /\ rx' = rx
      BY <1>1, <2>2, ProgramFifos
    <3>2. Clean(tx) /\ Clean(shift) /\ (step >= 7 => Clean(rx))
      BY <1>1, <1>2, <2>2 DEF SelfTest
    <3>3. Clean(<<>>)
      BY DEF Clean
    <3>4. CASE step = 9
      BY <1>2, <3>1, <3>2, <3>4 DEF SelfTest
    <3>5. CASE step # 9
      <4>1. pc' = "init" /\ step' = step + 1
        BY <1>1, <1>2, <3>5
      <4>2. Clean(tx') /\ Clean(shift')
        BY <1>2, <3>1, <3>2, <3>3, <3>5
      <4>3. step' >= 7 => Clean(rx')
        <5>1. CASE step = 6
          BY <3>1, <3>3, <5>1
        <5>2. CASE step # 6
          BY <1>1, <3>1, <3>2, <3>5, <4>1, <5>2
        <5>3. QED
          BY <5>1, <5>2
      <4>4. QED
        BY <4>1, <4>2, <4>3 DEF SelfTest
    <3>6. QED
      BY <3>4, <3>5
  <2>3. QED
    BY <1>1, <2>1, <2>2
<1>5. pc' \in {"init", "test"} /\ ~accepted'
  BY <1>1, <1>2 DEF LineInv, Before
<1>6. RoomToWrite' /\ WireIsLog'
  BY <1>5 DEF RoomToWrite, WireIsLog
<1>7. QED
  BY <1>3, <1>4, <1>6 DEF WireInv

\* The test is passed only by the test byte, which is then gone from the
\* transmitter.
LEMMA TestWire == WireInv /\ TestChip => WireInv'
<1> SUFFICES ASSUME WireInv, TestChip PROVE WireInv'
  OBVIOUS
<1>1. LineInv /\ SelfTest /\ rx \in Bytes /\ chip \in {"working", "absent"}
  BY DEF WireInv, LineInv, Types, TypeOK
<1>2. /\ pc = "test" /\ pc' \in {"accept", "idle"}
      /\ accepted' = accepted /\ chip' = chip /\ tx' = tx /\ shift' = shift
  BY DEF TestChip, regs
<1>3. LineInv'
  BY <1>1, TestLine
<1>4. ASSUME pc' = "accept", chip = "working" PROVE tx = <<>> /\ shift = <<>>
  <2>1. rx # <<>> /\ Head(rx) = TestByte
    BY <1>4 DEF TestChip, TestByte
  <2>2. ~Clean(rx)
    BY <1>1, <2>1, HeadAndTail
  <2>3. QED
    BY <1>1, <1>2, <1>4, <2>2 DEF SelfTest
<1>5. SelfTest'
  BY <1>2, <1>4 DEF SelfTest
<1>6. ~accepted'
  BY <1>1, <1>2 DEF LineInv, Before
<1>7. RoomToWrite' /\ WireIsLog'
  BY <1>2, <1>6 DEF RoomToWrite, WireIsLog
<1>8. QED
  BY <1>3, <1>5, <1>7 DEF WireInv

LEMMA AcceptWire == WireInv /\ Accept => WireInv'
<1> SUFFICES ASSUME WireInv, Accept PROVE WireInv'
  OBVIOUS
<1>1. LineInv /\ SelfTest
  BY DEF WireInv
<1>2. /\ chip = "working" /\ pc = "accept" /\ pc' = "idle" /\ ~accepted /\ sent = <<>>
      /\ UNCHANGED <<sent, tx, shift, wire>>
  BY <1>1, AcceptFacts
<1>3. LineInv'
  BY <1>1, AcceptLine
<1>4. wire = <<>> /\ tx = <<>> /\ shift = <<>>
  BY <1>1, <1>2 DEF LineInv, Before, SelfTest
<1>5. <<>> \o <<>> \o <<>> = <<>>
  OBVIOUS
<1>6. WireIsLog'
  BY <1>2, <1>4, <1>5 DEF WireIsLog
<1>7. SelfTest' /\ RoomToWrite'
  BY <1>2 DEF SelfTest, RoomToWrite
<1>8. QED
  BY <1>3, <1>6, <1>7 DEF WireInv

LEMMA PollWire == WireInv /\ Poll => WireInv'
<1> SUFFICES ASSUME WireInv, Poll PROVE WireInv'
  OBVIOUS
<1>1. LineInv /\ WireIsLog /\ LineInv'
  BY PollLine DEF WireInv
<1>2. /\ pc' = "write" /\ TransmitEmpty
      /\ UNCHANGED <<accepted, sent, chip, tx, shift, wire>>
  BY DEF Poll, regs
<1>3. RoomToWrite'
  BY <1>2 DEF TransmitEmpty, RoomToWrite
<1>4. WireIsLog'
  BY <1>1, <1>2 DEF WireIsLog
<1>5. SelfTest'
  BY <1>2 DEF SelfTest
<1>6. QED
  BY <1>1, <1>3, <1>4, <1>5 DEF WireInv

LEMMA LogWire == WireInv /\ Log => WireInv'
<1> SUFFICES ASSUME WireInv, Log PROVE WireInv'
  OBVIOUS
<1>1. Types /\ WireIsLog /\ LineInv'
  BY LogLine DEF WireInv, LineInv
<1>2. /\ pc' \in {"idle", "poll"}
      /\ UNCHANGED <<accepted, sent, chip, tx, shift, wire>>
  BY <1>1, LogFacts
<1>3. WireIsLog'
  BY <1>1, <1>2 DEF WireIsLog
<1>4. SelfTest' /\ RoomToWrite'
  BY <1>2 DEF SelfTest, RoomToWrite
<1>5. QED
  BY <1>1, <1>3, <1>4 DEF WireInv

LEMMA WriteWire == WireInv /\ WriteByte => WireInv'
<1> SUFFICES ASSUME WireInv, WriteByte PROVE WireInv'
  OBVIOUS
<1>1. /\ LineInv /\ WireIsLog /\ RoomToWrite /\ LineInv'
      /\ wire \in Bytes /\ shift \in Bytes /\ tx \in Bytes /\ Len(tx) <= FifoDepth
  BY WriteLine DEF WireInv, LineInv, Types, TypeOK
<1>2. /\ pc = "write" /\ pc' = (IF Tail(msg) = <<>> THEN "idle" ELSE "poll")
      /\ Head(msg) \in 0 .. 255
      /\ sent' = Append(sent, Head(msg))
      /\ tx' = IF chip = "working" THEN Into(tx, Head(msg)) ELSE tx
      /\ UNCHANGED <<accepted, chip, shift, wire>>
  BY <1>1, WriteFacts
<1>3. WireIsLog'
  <2>1. SUFFICES ASSUME accepted PROVE wire \o shift \o tx' = sent'
    BY <1>2 DEF WireIsLog
  <2>2. chip = "working"
    BY <1>1, <2>1 DEF LineInv, Before
  <2>3. tx = <<>>
    BY <1>1, <1>2, <2>2 DEF RoomToWrite
  <2>4. tx' = <<Head(msg)>>
    BY <1>1, <1>2, <2>2, <2>3, FifoFacts
  <2>5. wire \o shift \o <<Head(msg)>> = Append(wire \o shift \o <<>>, Head(msg))
    BY <1>1, <1>2, WriteKeepsOrder
  <2>6. wire \o shift \o <<>> = sent
    BY <1>1, <2>1, <2>3 DEF WireIsLog
  <2>7. QED
    BY <1>2, <2>4, <2>5, <2>6
<1>4. pc' \in {"idle", "poll"}
  BY <1>2
<1>5. SelfTest' /\ RoomToWrite'
  BY <1>4 DEF SelfTest, RoomToWrite
<1>6. QED
  BY <1>1, <1>3, <1>5 DEF WireInv

LEMMA LoadWire == WireInv /\ LoadShift => WireInv'
<1> SUFFICES ASSUME WireInv, LoadShift PROVE WireInv'
  OBVIOUS
<1>1. /\ Types /\ SelfTest /\ WireIsLog /\ RoomToWrite /\ LineInv'
      /\ wire \in Bytes /\ tx \in Bytes
  BY LoadLine DEF WireInv, LineInv, Types
<1>2. /\ chip = "working" /\ shift = <<>> /\ tx # <<>>
      /\ shift' = <<Head(tx)>> /\ tx' = Tail(tx)
      /\ UNCHANGED <<pc, step, accepted, sent, chip, rx, wire>>
  BY <1>1, LoadFacts
<1>3. WireIsLog'
  BY <1>1, <1>2, LoadKeepsOrder DEF WireIsLog
<1>4. RoomToWrite'
  BY <1>1, <1>2 DEF RoomToWrite
<1>5. ASSUME pc = "init" PROVE Clean(tx') /\ Clean(shift') /\ (step >= 7 => Clean(rx))
  <2>1. Clean(tx) /\ (step >= 7 => Clean(rx))
    BY <1>1, <1>2, <1>5 DEF SelfTest
  <2>2. Clean(Tail(tx)) /\ Head(tx) # TestByte
    BY <1>1, <1>2, <2>1, HeadAndTail
  <2>3. Clean(<<Head(tx)>>)
    BY <2>2 DEF Clean
  <2>4. QED
    BY <1>2, <2>1, <2>2, <2>3
<1>6. ASSUME pc = "test" PROVE tx' = <<>> /\ shift' = <<TestByte>> /\ Clean(rx)
  <2>1. tx = <<TestByte>> /\ Clean(rx)
    BY <1>1, <1>2, <1>6 DEF SelfTest
  <2>2. Head(<<TestByte>>) = TestByte /\ Tail(<<TestByte>>) = <<>>
    OBVIOUS
  <2>3. QED
    BY <1>2, <2>1, <2>2
<1>7. pc # "accept"
  BY <1>1, <1>2 DEF SelfTest
<1>8. SelfTest'
  BY <1>2, <1>5, <1>6, <1>7 DEF SelfTest
<1>9. QED
  BY <1>1, <1>3, <1>4, <1>8 DEF WireInv

LEMMA ShiftWire == WireInv /\ ShiftOut => WireInv'
<1> SUFFICES ASSUME WireInv, ShiftOut PROVE WireInv'
  OBVIOUS
<1>1. /\ LineInv /\ Types /\ SelfTest /\ WireIsLog /\ RoomToWrite /\ LineInv'
      /\ wire \in Bytes /\ tx \in Bytes /\ shift \in Bytes /\ rx \in Bytes
      /\ Len(shift) <= 1 /\ Len(rx) <= FifoDepth /\ loop \in BOOLEAN
  BY ShiftLine DEF WireInv, LineInv, Types, TypeOK
<1>2. /\ chip = "working" /\ shift # <<>> /\ shift' = <<>> /\ shift[1] \in 0 .. 255
      /\ loop => rx' = Into(rx, shift[1]) /\ wire' = wire
      /\ ~loop => /\ wire' = IF accepted THEN Append(wire, shift[1]) ELSE wire
                  /\ rx' = rx
      /\ UNCHANGED <<pc, step, accepted, sent, chip, loop, tx>>
  BY <1>1, ShiftFacts
<1>3. WireIsLog'
  <2>1. SUFFICES ASSUME accepted PROVE wire' \o <<>> \o tx = sent
    BY <1>2 DEF WireIsLog
  <2>2. ~loop
    BY <1>1, <2>1 DEF LineInv, Before
  <2>3. wire' = Append(wire, shift[1])
    BY <1>2, <2>1, <2>2
  <2>4. Append(wire, shift[1]) \o <<>> \o tx = wire \o shift \o tx
    BY <1>1, <1>2, ShiftKeepsOrder
  <2>5. wire \o shift \o tx = sent
    BY <1>1, <2>1 DEF WireIsLog
  <2>6. QED
    BY <2>3, <2>4, <2>5
<1>4. RoomToWrite'
  BY <1>1, <1>2 DEF RoomToWrite
<1>5. Clean(<<>>)
  BY DEF Clean
<1>6. ASSUME Clean(shift), Clean(rx) PROVE Clean(rx')
  <2>1. 1 \in 1 .. Len(shift)
    BY <1>1, <1>2, EmptySeq, LenProperties DEF Bytes
  <2>2. shift[1] # TestByte
    BY <1>6, <2>1 DEF Clean
  <2>3. Clean(Into(rx, shift[1]))
    BY <1>1, <1>2, <1>6, <2>2, FifoFacts
  <2>4. CASE loop
    BY <1>2, <2>3, <2>4
  <2>5. CASE ~loop
    BY <1>2, <1>6, <2>5
  <2>6. QED
    BY <2>4, <2>5
<1>7. ASSUME pc = "init" PROVE Clean(tx) /\ Clean(shift') /\ (step >= 7 => Clean(rx'))
  BY <1>1, <1>2, <1>5, <1>6, <1>7 DEF SelfTest
<1>8. ASSUME pc = "test"
      PROVE  \/ tx = <<TestByte>> /\ Clean(shift') /\ Clean(rx')
             \/ tx = <<>> /\ shift' = <<>>
  <2>1. CASE tx = <<TestByte>> /\ Clean(shift) /\ Clean(rx)
    BY <1>2, <1>5, <1>6, <2>1
  <2>2. CASE tx = <<>>
    BY <1>2, <2>2
  <2>3. QED
    BY <1>1, <1>2, <1>8, <2>1, <2>2 DEF SelfTest
<1>9. pc # "accept"
  BY <1>1, <1>2 DEF SelfTest
<1>10. SelfTest'
  BY <1>2, <1>7, <1>8, <1>9 DEF SelfTest
<1>11. QED
  BY <1>1, <1>3, <1>4, <1>10 DEF WireInv

LEMMA WireStutter == WireInv /\ UNCHANGED vars => WireInv'
<1> SUFFICES ASSUME WireInv, UNCHANGED vars PROVE WireInv'
  OBVIOUS
<1>1. UNCHANGED <<pc, step, accepted, sent, chip, tx, rx, shift, wire>>
  BY DEF vars, driver, regs
<1>2. LineInv'
  BY LineStutter DEF WireInv
<1>3. QED
  BY <1>1, <1>2 DEF WireInv, SelfTest, RoomToWrite, WireIsLog

LEMMA WireNext == WireInv /\ [Next]_vars => WireInv'
  BY ProgramWire, TestWire, AcceptWire, PollWire, LogWire, WriteWire, LoadWire, ShiftWire,
     WireStutter
     DEF Next, Driver, Chip, Spin, Quiet

(* If no FIFO held a byte 0xAE when the kernel started, what goes out on   *)
(* the line of an accepted port is what was logged, in order and whole.    *)
THEOREM WireTheorem ==
  ASSUME NoTestByte
  PROVE  Spec => []WireIsLog
<1>1. Init => WireInv
  BY NoTestByte, WireInit
<1>2. WireInv /\ [Next]_vars => WireInv'
  BY WireNext
<1>3. WireInv => WireIsLog
  BY DEF WireInv
<1>4. QED
  BY <1>1, <1>2, <1>3, PTL DEF Spec
=============================================================================
