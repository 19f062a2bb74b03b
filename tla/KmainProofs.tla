---------------------------- MODULE KmainProofs ----------------------------
(***************************************************************************)
(* Proofs about the boot and its exceptions, for every set of vectors that *)
(* the processor may raise, every choice of unanswered requests and any    *)
(* depth of nesting: exceptions are read as they were pushed, the last one *)
(* is reported, and nothing is passed in silence.                          *)
(***************************************************************************)
EXTENDS KmainProps, SequenceTheorems, TLAPS

\* The hypothesis of FrameTheorem and TypeCorrectness: the stubs know which
\* vectors the processor pushes an error code for (istubs.asm).
StubsAgree ==
  \A v \in Vectors \cup {PAGEFAULT} : v \in CpuErrors <=> v \in StubErrors

-----------------------------------------------------------------------------
(* The inductive invariant *)

Kinds == {"align", "ss", "rsp", "eflags", "cs", "rip", "err", "zero", "vector", "register"}
Words == Kinds \X Int

Types ==
  /\ stage \in DOMAIN Following \cup {"end"} /\ missing \subseteq Requests
  /\ space \in [Areas \cup Requests -> {"nothing", "kept"}] /\ active \in BOOLEAN
  /\ pc \in {"gates", "log", "handlers", "returned"}
  /\ i \in 0 .. 32 /\ loaded \in BOOLEAN
  /\ idt \in [Gates -> Gates \cup {-1}]
  /\ handlers \in [Gates -> {"none", "page_fault"}]
  /\ mode \in Modes /\ stub \in Gates
  /\ raised \in Seq(Vectors \cup {PAGEFAULT}) /\ stack \in Seq(Words)
  /\ reports \in Seq({"page_fault", "unhandled"} \X Int)
  /\ fr \in 0 .. Len(stack) /\ Len(reports) <= Len(raised)

\* Every gate is set before lidt, and kmain goes on once the callback is.
GatesInv ==
  /\ \A v \in Gates : v < i => idt[v] = v
  /\ loaded <=> pc # "gates"
  /\ loaded => i = 32
  /\ \A v \in Gates : handlers[v] = "page_fault" <=> v = PAGEFAULT /\ pc = "returned"
  /\ stage \in {"check", "serial", "exceptions"} <=> pc # "returned"

\* What a stage that was left has shown to be there.
StageInv ==
  /\ stage # "check" => {"base_revision", "framebuffer"} \cap missing = {}
  /\ stage \in {"hhdm", "font", "memmap", "paging", "puts", "end"} => "kernel_file" \notin missing
  /\ stage \in {"font", "memmap", "paging", "puts", "end"} => "hhdm" \notin missing
  /\ stage \in {"paging", "puts", "end"} => "memmap" \notin missing
  /\ space["image"] = "kept" => "address" \notin missing
  /\ active <=> stage \in {"puts", "end"}
  /\ active => \A a \in {"stack", "screen", "image"} : space[a] = "kept"

Reading == {"dispatch", "page_fault", "unhandled"}

\* The exception that is handled is the latest, and it is not reported yet.
HandlingInv ==
  /\ mode = "kernel" => raised = <<>>
  /\ mode \in {"stub"} \cup Reading => Len(reports) < Len(raised)
  /\ mode = "stub" => stub = Latest
  /\ mode \in Reading => fr = Len(stack) /\ fr >= 16 /\ VecNo = Latest
  /\ mode \in {"page_fault", "unhandled"} =>
       (mode = "page_fault" <=> Latest = PAGEFAULT /\ pc = "returned")
  /\ LatestReported

KmainInv == Types /\ GatesInv /\ StageInv /\ HandlingInv

\* What the processor has pushed is on top of the stack.
TopOfStack ==
  mode = "stub" =>
    LET n == Len(stack)
    IN  IF Latest \in CpuErrors
        THEN n >= 6 /\ stack[n] = Word("err", Len(raised)) /\ stack[n - 1] = Word("rip", Len(raised))
        ELSE n >= 5 /\ stack[n] = Word("rip", Len(raised))

FrameInv ==
  /\ KmainInv /\ TopOfStack /\ FrameAsPushed
  /\ mode \in Reading => fr >= 22

-----------------------------------------------------------------------------
(* What is on the stack *)

LEMMA Vector == /\ PAGEFAULT \in Gates /\ Vectors \cup {PAGEFAULT} \subseteq Gates
                /\ Gates \subseteq Int
  BY VectorAssumption DEF PAGEFAULT, Gates

LEMMA LatestFacts ==
  ASSUME Types, raised # <<>>
  PROVE  Len(raised) \in Nat \ {0} /\ Latest \in Vectors \cup {PAGEFAULT} /\ Latest \in Gates
<1>1. raised \in Seq(Vectors \cup {PAGEFAULT})
  BY DEF Types
<1>2. Len(raised) \in Nat \ {0}
  BY <1>1, EmptySeq
<1>3. Latest \in Vectors \cup {PAGEFAULT}
  BY <1>1, <1>2, ElementOfSeq DEF Latest
<1>4. QED
  BY <1>2, <1>3, Vector

LEMMA Joined ==
  ASSUME NEW s \in Seq(Words), NEW t \in Seq(Words)
  PROVE  /\ s \o t \in Seq(Words) /\ Len(s) \in Nat /\ Len(t) \in Nat
         /\ Len(s \o t) = Len(s) + Len(t)
         /\ \A j \in 1 .. Len(s) : (s \o t)[j] = s[j]
         /\ \A j \in 1 .. Len(t) : (s \o t)[Len(s) + j] = t[j]
<1>1. Len(s) \in Nat /\ Len(t) \in Nat
  BY LenProperties
<1>2. /\ s \o t \in Seq(Words) /\ Len(s \o t) = Len(s) + Len(t)
      /\ \A j \in 1 .. Len(s) + Len(t) :
           (s \o t)[j] = IF j <= Len(s) THEN s[j] ELSE t[j - Len(s)]
  BY ConcatProperties
<1>3. ASSUME NEW j \in 1 .. Len(s) PROVE (s \o t)[j] = s[j]
  BY <1>1, <1>2
<1>4. ASSUME NEW j \in 1 .. Len(t) PROVE (s \o t)[Len(s) + j] = t[j]
  <2>1. Len(s) + j \in 1 .. Len(s) + Len(t) /\ ~(Len(s) + j <= Len(s))
        /\ (Len(s) + j) - Len(s) = j
    BY <1>1
  <2>2. QED
    BY <1>2, <2>1
<1>5. QED
  BY <1>1, <1>2, <1>3, <1>4

\* The words that the processor pushes.
LEMMA PushedFacts ==
  ASSUME NEW v, NEW k \in Int, stack \in Seq(Words)
  PROVE  \E p \in Seq(Words) :
           /\ p = Pushed(v, k) /\ Len(p) >= 5
           /\ v \in CpuErrors => /\ Len(p) >= 6 /\ p[Len(p)] = Word("err", k)
                                 /\ p[Len(p) - 1] = Word("rip", k)
           /\ v \notin CpuErrors => p[Len(p)] = Word("rip", k)
<1>1. /\ Word("align", k) \in Words /\ Word("ss", k) \in Words /\ Word("rsp", k) \in Words
      /\ Word("eflags", k) \in Words /\ Word("cs", k) \in Words /\ Word("rip", k) \in Words
      /\ Word("err", k) \in Words
  BY DEF Word, Words, Kinds
<1>2. PICK a : a = IF Len(stack) % 2 = 1 THEN <<Word("align", k)>> ELSE <<>>
  OBVIOUS
<1>3. PICK b : b = <<Word("ss", k), Word("rsp", k), Word("eflags", k), Word("cs", k),
                     Word("rip", k)>>
  OBVIOUS
<1>4. PICK c : c = IF v \in CpuErrors THEN <<Word("err", k)>> ELSE <<>>
  OBVIOUS
<1>5. a \in Seq(Words)
  <2>1. <<Word("align", k)>> \in Seq(Words) /\ <<>> \in Seq(Words)
    BY <1>1
  <2>2. QED
    BY <1>2, <2>1
<1>6. b \in Seq(Words) /\ Len(b) = 5 /\ b[5] = Word("rip", k)
  BY <1>1, <1>3
<1>7. /\ c \in Seq(Words)
      /\ v \in CpuErrors => Len(c) = 1 /\ c[1] = Word("err", k)
      /\ v \notin CpuErrors => Len(c) = 0
  <2>1. CASE v \in CpuErrors
    BY <1>1, <1>4, <2>1
  <2>2. CASE v \notin CpuErrors
    BY <1>4, <2>2
  <2>3. QED
    BY <2>1, <2>2
<1>8. PICK q : q = a \o b
  OBVIOUS
<1>9. q \in Seq(Words) /\ Len(q) = Len(a) + 5 /\ Len(a) \in Nat /\ q[Len(q)] = Word("rip", k)
  <2>1. /\ q \in Seq(Words) /\ Len(q) = Len(a) + Len(b) /\ Len(a) \in Nat
        /\ \A j \in 1 .. Len(b) : q[Len(a) + j] = b[j]
    BY <1>5, <1>6, <1>8, Joined
  <2>2. q[Len(a) + 5] = b[5]
    BY <1>6, <2>1
  <2>3. QED
    BY <1>6, <2>1, <2>2
<1>10. PICK p : p = q \o c
  OBVIOUS
<1>11. /\ p \in Seq(Words) /\ Len(p) = Len(q) + Len(c) /\ Len(q) \in Nat
       /\ \A j \in 1 .. Len(q) : p[j] = q[j]
       /\ \A j \in 1 .. Len(c) : p[Len(q) + j] = c[j]
  BY <1>7, <1>9, <1>10, Joined
<1>12. p = Pushed(v, k)
  BY <1>2, <1>3, <1>4, <1>8, <1>10 DEF Pushed
<1>13. ASSUME v \in CpuErrors
       PROVE  /\ Len(p) >= 6 /\ p[Len(p)] = Word("err", k) /\ p[Len(p) - 1] = Word("rip", k)
  <2>0. Len(c) = 1 /\ c[1] = Word("err", k)
    BY <1>7, <1>13
  <2>1. Len(c) = 1 /\ c[1] = Word("err", k) /\ Len(p) = Len(q) + 1 /\ Len(q) >= 5
    <3>1. Len(p) = Len(q) + Len(c) /\ Len(q) = Len(a) + 5 /\ Len(a) \in Nat
      BY <1>9, <1>11
    <3>2. QED
      BY <2>0, <3>1
  <2>2. p[Len(q) + 1] = c[1] /\ p[Len(q)] = q[Len(q)] /\ Len(p) - 1 = Len(q)
    BY <1>11, <2>1
  <2>3. QED
    BY <1>9, <1>11, <2>1, <2>2
<1>14. ASSUME v \notin CpuErrors
       PROVE  p[Len(p)] = Word("rip", k)
  <2>1. Len(p) = Len(q) /\ Len(q) >= 5
    BY <1>7, <1>9, <1>11, <1>14
  <2>2. p[Len(q)] = q[Len(q)]
    BY <1>11, <2>1
  <2>3. QED
    BY <1>9, <2>1, <2>2
<1>15. Len(p) >= 5
  BY <1>7, <1>9, <1>11
<1>16. QED
  BY <1>11, <1>12, <1>13, <1>14, <1>15

\* The words that a stub pushes.
LEMMA StubFacts ==
  ASSUME stub \in Int
  PROVE  \E d, v, r \in Seq(Words) :
           /\ d = Dummy /\ v = <<Word("vector", stub)>> /\ r = Registers
           /\ Len(v) = 1 /\ v[1] = Word("vector", stub) /\ Len(r) = 15
           /\ stub \in StubErrors => Len(d) = 0
           /\ stub \notin StubErrors => Len(d) = 1 /\ d[1] = Word("zero", 0)
<1>1. /\ Word("vector", stub) \in Words /\ Word("zero", 0) \in Words
      /\ \A k \in 1 .. 15 : Word("register", k) \in Words
  BY DEF Word, Words, Kinds
<1>2. PICK d : d = Dummy
  OBVIOUS
<1>3. /\ d \in Seq(Words)
      /\ stub \in StubErrors => Len(d) = 0
      /\ stub \notin StubErrors => Len(d) = 1 /\ d[1] = Word("zero", 0)
  <2>1. CASE stub \in StubErrors
    BY <1>2, <2>1 DEF Dummy
  <2>2. CASE stub \notin StubErrors
    BY <1>1, <1>2, <2>2 DEF Dummy
  <2>3. QED
    BY <2>1, <2>2
<1>4. PICK v : v = <<Word("vector", stub)>>
  OBVIOUS
<1>5. v \in Seq(Words) /\ Len(v) = 1 /\ v[1] = Word("vector", stub)
  BY <1>1, <1>4
<1>6. PICK r : r = Registers
  OBVIOUS
<1>7. r \in Seq(Words) /\ Len(r) = 15
  BY <1>1, <1>6 DEF Registers
<1>8. QED
  BY <1>2, <1>3, <1>4, <1>5, <1>6, <1>7

\* The stack that a stub leaves, and the frame that is read from it.
LEMMA StubStack ==
  ASSUME NEW s \in Seq(Words), NEW t, stub \in Int,
         t = s \o Dummy \o <<Word("vector", stub)>> \o Registers
  PROVE  /\ t \in Seq(Words) /\ Len(t) \in Nat /\ Len(s) \in Nat /\ Len(t) >= 16
         /\ t[Len(t) - 15] = Word("vector", stub)
         /\ stub \in StubErrors =>
              /\ Len(t) = Len(s) + 16
              /\ \A j \in 1 .. Len(s) : t[j] = s[j]
         /\ stub \notin StubErrors =>
              /\ Len(t) = Len(s) + 17 /\ t[Len(t) - 16] = Word("zero", 0)
              /\ \A j \in 1 .. Len(s) : t[j] = s[j]
<1>1. PICK d \in Seq(Words), v \in Seq(Words), r \in Seq(Words) :
        /\ d = Dummy /\ v = <<Word("vector", stub)>> /\ r = Registers
        /\ Len(v) = 1 /\ v[1] = Word("vector", stub) /\ Len(r) = 15
        /\ stub \in StubErrors => Len(d) = 0
        /\ stub \notin StubErrors => Len(d) = 1 /\ d[1] = Word("zero", 0)
  BY StubFacts
<1>2. PICK q : q = s \o d
  OBVIOUS
<1>3. /\ q \in Seq(Words) /\ Len(s) \in Nat /\ Len(d) \in Nat /\ Len(q) = Len(s) + Len(d)
      /\ \A j \in 1 .. Len(s) : q[j] = s[j]
      /\ \A j \in 1 .. Len(d) : q[Len(s) + j] = d[j]
  BY <1>2, Joined
<1>4. PICK u : u = q \o v
  OBVIOUS
<1>5. /\ u \in Seq(Words) /\ Len(q) \in Nat /\ Len(u) = Len(q) + 1
      /\ \A j \in 1 .. Len(q) : u[j] = q[j]
      /\ u[Len(q) + 1] = Word("vector", stub)
  <2>1. q \in Seq(Words)
    BY <1>3
  <2>2. /\ u \in Seq(Words) /\ Len(q) \in Nat /\ Len(u) = Len(q) + Len(v)
        /\ \A j \in 1 .. Len(q) : u[j] = q[j]
        /\ \A j \in 1 .. Len(v) : u[Len(q) + j] = v[j]
    BY <1>4, <2>1, Joined
  <2>3. Len(v) = 1 /\ v[1] = Word("vector", stub)
    BY <1>1
  <2>4. u[Len(q) + 1] = v[1]
    BY <2>2, <2>3
  <2>5. QED
    BY <2>2, <2>3, <2>4
<1>6. t = u \o r
  BY <1>1, <1>2, <1>4
<1>7. /\ t \in Seq(Words) /\ Len(u) \in Nat /\ Len(t) = Len(u) + 15
      /\ \A j \in 1 .. Len(u) : t[j] = u[j]
  <2>1. u \in Seq(Words)
    BY <1>5
  <2>2. /\ u \o r \in Seq(Words) /\ Len(u) \in Nat /\ Len(u \o r) = Len(u) + Len(r)
        /\ \A j \in 1 .. Len(u) : (u \o r)[j] = u[j]
    BY <2>1, Joined, Zenon
  <2>3. QED
    BY <1>1, <1>6, <2>2
<1>8. Len(t) = Len(q) + 16 /\ Len(t) - 15 = Len(q) + 1
  BY <1>5, <1>7
<1>9. t[Len(t) - 15] = Word("vector", stub)
  <2>1. Len(q) \in Nat /\ Len(u) = Len(q) + 1
    BY <1>5
  <2>2. Len(q) + 1 \in 1 .. Len(u)
    BY <2>1
  <2>3. t[Len(q) + 1] = u[Len(q) + 1]
    BY <1>7, <2>2
  <2>4. QED
    BY <1>5, <1>8, <2>3
<1>10. ASSUME NEW j \in 1 .. Len(q) PROVE t[j] = q[j]
  <2>1. Len(q) \in Nat /\ Len(u) = Len(q) + 1 /\ u[j] = q[j]
    BY <1>5
  <2>2. j \in 1 .. Len(u)
    BY <2>1
  <2>3. QED
    BY <1>7, <2>1, <2>2
<1>11. \A j \in 1 .. Len(s) : t[j] = s[j]
  BY <1>3, <1>10
<1>12. ASSUME stub \notin StubErrors
       PROVE  Len(t) = Len(s) + 17 /\ t[Len(t) - 16] = Word("zero", 0)
  <2>1. Len(d) = 1 /\ d[1] = Word("zero", 0)
    BY <1>1, <1>12
  <2>2. q[Len(s) + 1] = d[1] /\ Len(q) = Len(s) + 1
    BY <1>3, <2>1
  <2>3. Len(t) = Len(s) + 17 /\ Len(t) - 16 = Len(q)
    BY <1>3, <1>5, <1>8, <2>2
  <2>4. t[Len(q)] = q[Len(q)]
    BY <1>3, <1>5, <1>10, <2>2
  <2>5. QED
    BY <2>1, <2>2, <2>3, <2>4
<1>13. stub \in StubErrors => Len(t) = Len(s) + 16
  BY <1>1, <1>3, <1>8
<1>14. Len(t) \in Nat /\ Len(t) >= 16
  BY <1>5, <1>8
<1>15. QED
  BY <1>3, <1>7, <1>9, <1>11, <1>12, <1>13, <1>14

-----------------------------------------------------------------------------
(* What KmainInv says of There *)

LEMMA AreasThere ==
  ASSUME Types
  PROVE  /\ ~active => Areas \subseteq There
         /\ \A a \in Areas : space[a] = "kept" => a \in There
         /\ \A r \in Requests : r \in There => r \notin missing
<1>1. missing \subseteq Requests
  BY DEF Types
<1>2. \A a \in Areas : a \notin missing
  BY <1>1 DEF Areas, Requests
<1>3. QED
  BY <1>2 DEF There

\* What the kernel needs is there before lidt, and once cr3 is loaded.
LEMMA NeedsThere ==
  ASSUME KmainInv, ~loaded \/ active
  PROVE  Needs \subseteq There
<1>1. Types /\ GatesInv /\ StageInv
  BY DEF KmainInv
<1>2. CASE active
  <2>1. stage \in {"puts", "end"} /\ \A a \in {"stack", "screen", "image"} : space[a] = "kept"
    BY <1>1, <1>2 DEF StageInv
  <2>2. {"stack", "screen", "image"} \subseteq There
    BY <1>1, <2>1, AreasThere DEF Areas
  <2>3. Needs \subseteq {"stack", "screen", "image"}
    <3>1. CASE stage = "puts"
      BY <3>1 DEF Needs, Dereferenced
    <3>2. CASE stage = "end"
      BY <3>2 DEF Needs, Dereferenced
    <3>3. QED
      BY <2>1, <3>1, <3>2
  <2>4. QED
    BY <2>2, <2>3
<1>3. CASE ~active
  <2>1. stage \in {"check", "serial", "exceptions"}
    BY <1>1, <1>3 DEF GatesInv, Types
  <2>2. Needs = {"image", "stack"}
    BY <2>1 DEF Needs, Dereferenced
  <2>3. QED
    BY <1>1, <1>3, <2>2, AreasThere DEF Areas
<1>4. QED
  BY <1>1, <1>2, <1>3 DEF Types

-----------------------------------------------------------------------------
(* Steps of the boot: nothing was raised *)

LEMMA HandlingKept ==
  ASSUME KmainInv, mode = "kernel", UNCHANGED handling
  PROVE  HandlingInv'
<1>1. /\ mode' = "kernel" /\ raised = <<>> /\ raised' = raised
      /\ UNCHANGED <<stub, stack, fr, reports>>
  BY DEF KmainInv, HandlingInv, handling
<1>2. LatestReported'
  BY <1>1 DEF LatestReported
<1>3. QED
  BY <1>1, <1>2 DEF HandlingInv, Reading

LEMMA GatesKept ==
  ASSUME GatesInv, UNCHANGED gates,
         stage' \in {"check", "serial", "exceptions"} <=> stage \in {"check", "serial", "exceptions"}
  PROVE  GatesInv'
  BY DEF GatesInv, gates

\* kmain goes on to the stage that follows.
LEMMA Advances ==
  ASSUME KmainInv, Advance, mode = "kernel", stage # "exceptions",
         stage \in DOMAIN Following, Types', StageInv'
  PROVE  KmainInv'
<1>1. stage' = Following[stage] /\ UNCHANGED gates /\ UNCHANGED handling
  BY DEF Advance
<1>2. stage' \in {"check", "serial", "exceptions"} <=> stage \in {"check", "serial", "exceptions"}
  BY <1>1 DEF Following
<1>3. GatesInv'
  BY <1>1, <1>2, GatesKept DEF KmainInv
<1>4. HandlingInv'
  BY <1>1, HandlingKept
<1>5. QED
  BY <1>3, <1>4 DEF KmainInv

\* A check or an assertion fails, or the boot is at its end.
LEMMA Halts ==
  ASSUME KmainInv, Hcf, mode = "kernel",
         \/ stage = "end" /\ missing = {}
         \/ stage = "check" /\ missing # {}
         \/ stage \in {"memmap", "paging"}
  PROVE  KmainInv'
<1>1. /\ mode' = "halted" /\ UNCHANGED <<gates, stub, stack, fr, raised, reports, boot>>
  BY DEF Hcf
<1>2. UNCHANGED <<pc, i, idt, loaded, handlers, stage, missing, space, active>>
  BY <1>1 DEF gates, boot
<1>3. Types'
  BY <1>1, <1>2 DEF KmainInv, Types, Modes
<1>4. GatesInv' /\ StageInv'
  BY <1>2 DEF KmainInv, GatesInv, StageInv
<1>5. raised = <<>>
  BY DEF KmainInv, HandlingInv
<1>6. LatestReported'
  BY <1>1, <1>2, <1>5 DEF LatestReported
<1>7. HandlingInv'
  BY <1>1, <1>6 DEF HandlingInv, Reading
<1>8. QED
  BY <1>3, <1>4, <1>7 DEF KmainInv

LEMMA InitInv == Init => KmainInv
<1> SUFFICES ASSUME Init PROVE KmainInv
  OBVIOUS
<1>1. /\ pc = "gates" /\ i = 0 /\ idt = [v \in Gates |-> -1] /\ loaded = FALSE
      /\ handlers = [v \in Gates |-> "none"]
      /\ mode = "kernel" /\ stub = 0 /\ stack = <<>> /\ fr = 0
      /\ raised = <<>> /\ reports = <<>> /\ stage = "check" /\ missing \in Unanswered
      /\ space = [a \in Areas \cup Requests |-> "nothing"] /\ active = FALSE
  BY DEF Init, ExceptionsInit, Space!Init
<1>2. Types
  <2>1. missing \subseteq Requests
    BY <1>1, BootAssumption
  <2>2. stage \in DOMAIN Following \cup {"end"}
    BY <1>1 DEF Following
  <2>3. /\ space \in [Areas \cup Requests -> {"nothing", "kept"}] /\ active \in BOOLEAN
        /\ idt \in [Gates -> Gates \cup {-1}] /\ handlers \in [Gates -> {"none", "page_fault"}]
    BY <1>1
  <2>4. mode \in Modes /\ stub \in Gates
    BY <1>1 DEF Modes, Gates
  <2>5. /\ raised \in Seq(Vectors \cup {PAGEFAULT}) /\ stack \in Seq(Words)
        /\ reports \in Seq({"page_fault", "unhandled"} \X Int)
    BY <1>1
  <2>6. fr \in 0 .. Len(stack) /\ Len(reports) <= Len(raised)
    BY <1>1
  <2>7. QED
    BY <1>1, <2>1, <2>2, <2>3, <2>4, <2>5, <2>6 DEF Types
<1>3. GatesInv
  BY <1>1 DEF GatesInv, Gates
<1>4. StageInv
  BY <1>1 DEF StageInv, Areas
<1>5. HandlingInv
  BY <1>1 DEF HandlingInv, LatestReported, Reading
<1>6. QED
  BY <1>2, <1>3, <1>4, <1>5 DEF KmainInv

LEMMA CheckInv == KmainInv /\ Check => KmainInv'
<1> SUFFICES ASSUME KmainInv, Check PROVE KmainInv'
  OBVIOUS
<1>1. /\ mode = "kernel" /\ stage = "check"
      /\ missing \cap {"base_revision", "framebuffer"} # {} => Hcf
      /\ missing \cap {"base_revision", "framebuffer"} = {} => Advance /\ UNCHANGED <<space, active>>
  BY DEF Check, Running
<1>2. CASE missing \cap {"base_revision", "framebuffer"} # {}
  BY <1>1, <1>2, Halts
<1>3. CASE missing \cap {"base_revision", "framebuffer"} = {}
  <2>1. /\ stage' = "serial" /\ missing' = missing /\ UNCHANGED <<space, active>>
        /\ UNCHANGED <<pc, i, idt, loaded, handlers, mode, stub, stack, fr, raised, reports>>
    BY <1>1, <1>3 DEF Advance, Following, gates, handling
  <2>2. Types'
    BY <2>1 DEF KmainInv, Types, Following
  <2>3. StageInv'
    BY <1>1, <1>3, <2>1 DEF KmainInv, StageInv
  <2>4. QED
    BY <1>1, <1>3, <2>2, <2>3, Advances DEF Following
<1>4. QED
  BY <1>2, <1>3

LEMMA StepInv == KmainInv /\ Step => KmainInv'
<1> SUFFICES ASSUME KmainInv, Step PROVE KmainInv'
  OBVIOUS
<1>1. /\ mode = "kernel" /\ stage \in {"serial", "describe", "hhdm", "font", "memmap", "puts"}
      /\ Needs \subseteq There /\ Advance /\ UNCHANGED <<space, active>>
  BY DEF Step
<1>2. /\ stage' = Following[stage] /\ missing' = missing
      /\ UNCHANGED <<pc, i, idt, loaded, handlers, mode, stub, stack, fr, raised, reports>>
  BY <1>1 DEF Advance, gates, handling
<1>3. /\ stage = "serial" => stage' = "exceptions"
      /\ stage = "describe" => stage' = "hhdm"
      /\ stage = "hhdm" => stage' = "font"
      /\ stage = "font" => stage' = "memmap"
      /\ stage = "memmap" => stage' = "paging"
      /\ stage = "puts" => stage' = "end"
  BY <1>2 DEF Following
<1>4. stage' \in DOMAIN Following \cup {"end"} /\ stage \in DOMAIN Following
  BY <1>1, <1>3 DEF Following
<1>5. Types'
  BY <1>1, <1>2, <1>4 DEF KmainInv, Types
<1>6. /\ stage = "describe" => "kernel_file" \in Needs
      /\ stage = "hhdm" => "hhdm" \in Needs
      /\ stage = "memmap" => "memmap" \in Needs
  BY DEF Needs, Dereferenced
<1>7. \A r \in Requests : r \in Needs => r \notin missing
  BY <1>1, AreasThere DEF KmainInv
<1>8. /\ stage = "describe" => "kernel_file" \notin missing
      /\ stage = "hhdm" => "hhdm" \notin missing
      /\ stage = "memmap" => "memmap" \notin missing
  BY <1>6, <1>7 DEF Requests
<1>9. StageInv'
  BY <1>1, <1>2, <1>3, <1>8 DEF KmainInv, StageInv
<1>10. QED
  BY <1>1, <1>4, <1>5, <1>9, Advances

LEMMA SetUpInv == KmainInv /\ SetUpExceptions => KmainInv'
<1> SUFFICES ASSUME KmainInv, SetUpExceptions PROVE KmainInv'
  OBVIOUS
<1>1. /\ mode = "kernel" /\ stage = "exceptions" /\ InitializeExceptions /\ UNCHANGED handling
      /\ stage' = (IF pc' = "returned" THEN "describe" ELSE "exceptions")
      /\ UNCHANGED <<missing, space, active>>
  BY DEF SetUpExceptions, Running, InitializeExceptions, Following
<1>2. UNCHANGED <<mode, stub, stack, fr, raised, reports>>
  BY <1>1 DEF handling
<1>3. Types /\ GatesInv /\ StageInv
  BY DEF KmainInv
<1>4. /\ i \in 0 .. 32 /\ loaded \in BOOLEAN /\ idt \in [Gates -> Gates \cup {-1}]
      /\ handlers \in [Gates -> {"none", "page_fault"}]
  BY <1>3 DEF Types
<1>5. HandlingInv'
  BY <1>1, HandlingKept
<1>6. StageInv'
  <2>1. stage' \in {"describe", "exceptions"}
    BY <1>1
  <2>2. QED
    BY <1>1, <1>3, <2>1 DEF StageInv
<1>7. ASSUME pc' \in {"gates", "log", "handlers", "returned"}, i' \in 0 .. 32,
             loaded' \in BOOLEAN, idt' \in [Gates -> Gates \cup {-1}],
             handlers' \in [Gates -> {"none", "page_fault"}]
      PROVE  Types'
  <2>1. stage' \in DOMAIN Following \cup {"end"}
    BY <1>1 DEF Following
  <2>2. QED
    BY <1>1, <1>2, <1>3, <1>7, <2>1 DEF Types
<1>8. CASE SetGate
  <2>1. /\ pc = "gates" /\ i <= 31 /\ idt' = [idt EXCEPT ![i] = i] /\ i' = i + 1
        /\ UNCHANGED <<pc, loaded, handlers>>
    BY <1>8 DEF SetGate
  <2>2. i \in Gates /\ i' \in 0 .. 32
    BY <1>4, <2>1 DEF Gates
  <2>3. Types'
    BY <1>4, <1>7, <2>1, <2>2
  <2>4. GatesInv'
    <3>1. stage' = "exceptions"
      BY <1>1, <2>1
    <3>2. ASSUME NEW v \in Gates, v < i + 1 PROVE idt'[v] = v
      BY <1>3, <1>4, <2>1, <2>2, <3>2 DEF GatesInv, Gates
    <3>3. loaded' <=> pc' # "gates"
      BY <1>3, <2>1 DEF GatesInv
    <3>4. QED
      BY <1>3, <2>1, <3>1, <3>2, <3>3 DEF GatesInv
  <2>5. QED
    BY <1>5, <1>6, <2>3, <2>4 DEF KmainInv
<1>9. CASE Lidt
  <2>1. /\ pc = "gates" /\ i > 31 /\ loaded' = TRUE /\ pc' = "log"
        /\ UNCHANGED <<i, idt, handlers>>
    BY <1>9 DEF Lidt
  <2>2. Types'
    BY <1>4, <1>7, <2>1
  <2>3. GatesInv'
    <3>1. stage' = "exceptions" /\ i = 32
      BY <1>1, <1>4, <2>1
    <3>2. QED
      BY <1>3, <2>1, <3>1 DEF GatesInv
  <2>4. QED
    BY <1>5, <1>6, <2>2, <2>3 DEF KmainInv
<1>10. CASE LogRegistered
  <2>1. pc = "log" /\ pc' = "handlers" /\ UNCHANGED <<i, idt, loaded, handlers>>
    BY <1>10 DEF LogRegistered
  <2>2. Types'
    BY <1>4, <1>7, <2>1
  <2>3. GatesInv'
    <3>1. stage' = "exceptions"
      BY <1>1, <2>1
    <3>2. QED
      BY <1>3, <2>1, <3>1 DEF GatesInv
  <2>4. QED
    BY <1>5, <1>6, <2>2, <2>3 DEF KmainInv
<1>11. CASE SetHandler
  <2>1. /\ pc = "handlers" /\ handlers' = [handlers EXCEPT ![PAGEFAULT] = "page_fault"]
        /\ pc' = "returned" /\ UNCHANGED <<i, idt, loaded>>
    BY <1>11 DEF SetHandler
  <2>2. handlers' \in [Gates -> {"none", "page_fault"}]
    BY <1>4, <2>1
  <2>3. Types'
    BY <1>4, <1>7, <2>1, <2>2
  <2>4. GatesInv'
    <3>1. stage' = "describe"
      BY <1>1, <2>1
    <3>2. ASSUME NEW v \in Gates
          PROVE  handlers'[v] = "page_fault" <=> v = PAGEFAULT
      <4>1. handlers[v] # "page_fault"
        BY <1>3, <2>1 DEF GatesInv
      <4>2. handlers'[v] = IF v = PAGEFAULT THEN "page_fault" ELSE handlers[v]
        BY <1>4, <2>1
      <4>3. QED
        BY <4>1, <4>2
    <3>3. QED
      BY <1>3, <2>1, <3>1, <3>2 DEF GatesInv
  <2>5. QED
    BY <1>5, <1>6, <2>3, <2>4 DEF KmainInv
<1>12. QED
  BY <1>1, <1>8, <1>9, <1>10, <1>11 DEF InitializeExceptions

\* The image is mapped after the screen, when the response about its address
\* has been dereferenced.
LEMMA MapInv == KmainInv /\ MapArea => KmainInv'
<1> SUFFICES ASSUME KmainInv, MapArea PROVE KmainInv'
  OBVIOUS
<1>1. /\ mode = "kernel" /\ stage = "paging" /\ Needs \subseteq There
      /\ UNCHANGED gates /\ UNCHANGED handling /\ UNCHANGED <<stage, missing>>
  BY DEF MapArea, Running
<1>2. UNCHANGED <<pc, i, idt, loaded, handlers, mode, stub, stack, fr, raised, reports>>
  BY <1>1 DEF gates, handling
<1>3. PICK k \in 1 .. 3 :
        /\ \A j \in 1 .. 3 : space[Mapped[j]] = "kept" <=> j < k
        /\ \/ space' = [space EXCEPT ![Mapped[k]] = "kept"] /\ Space!Map(Mapped[k])
           \/ /\ Mapped[k] = "screen"
              /\ space' = [space EXCEPT !["gdt"] = "kept"] /\ Space!Map("gdt")
  BY DEF MapArea
<1>4. ~active /\ active' = active
  BY <1>3 DEF Space!Map
<1>5. Types /\ GatesInv /\ StageInv /\ space \in [Areas \cup Requests -> {"nothing", "kept"}]
  BY DEF KmainInv, Types
<1>6. Mapped[1] = "stack" /\ Mapped[2] = "screen" /\ Mapped[3] = "image"
  BY DEF Mapped
<1>7. Mapped[k] \in Areas \cup Requests /\ "gdt" \in Areas \cup Requests
      /\ "image" \in Areas \cup Requests
  BY <1>6 DEF Areas
<1>8. PICK a \in Areas \cup Requests :
        /\ space' = [space EXCEPT ![a] = "kept"]
        /\ a = "image" => k = 3
  BY <1>3, <1>6, <1>7
<1>9. Types'
  <2>1. space' \in [Areas \cup Requests -> {"nothing", "kept"}]
    BY <1>5, <1>8
  <2>2. QED
    BY <1>1, <1>2, <1>4, <1>5, <2>1 DEF Types
<1>10. space'["image"] = "kept" => "address" \notin missing
  <2>1. CASE a = "image"
    <3>1. space["screen"] = "kept"
      BY <1>3, <1>6, <1>8, <2>1
    <3>2. "address" \in Needs
      BY <1>1, <3>1 DEF Needs, Dereferenced
    <3>3. "address" \notin missing
      BY <1>1, <1>5, <3>2, AreasThere DEF Requests
    <3>4. QED
      BY <3>3
  <2>2. CASE a # "image"
    <3>1. space'["image"] = space["image"]
      BY <1>5, <1>7, <1>8, <2>2
    <3>2. QED
      BY <1>5, <3>1 DEF StageInv
  <2>3. QED
    BY <2>1, <2>2
<1>11. StageInv'
  BY <1>1, <1>4, <1>5, <1>10 DEF StageInv
<1>12. GatesInv' /\ HandlingInv'
  BY <1>1, <1>5, GatesKept, HandlingKept
<1>13. QED
  BY <1>9, <1>11, <1>12 DEF KmainInv

LEMMA LoadCr3Inv == KmainInv /\ LoadCr3 => KmainInv'
<1> SUFFICES ASSUME KmainInv, LoadCr3 PROVE KmainInv'
  OBVIOUS
<1>1. /\ mode = "kernel" /\ stage = "paging" /\ Space!Activate /\ Advance
  BY DEF LoadCr3, Running
<1>2. /\ ~active /\ active' = TRUE /\ space' = space
      /\ \A a \in {"stack", "screen", "image"} : space[a] = "kept"
  BY <1>1 DEF Space!Activate
<1>3. /\ stage' = "puts" /\ missing' = missing
      /\ UNCHANGED <<pc, i, idt, loaded, handlers, mode, stub, stack, fr, raised, reports>>
  BY <1>1 DEF Advance, Following, gates, handling
<1>4. Types'
  BY <1>2, <1>3 DEF KmainInv, Types, Following
<1>5. StageInv'
  BY <1>1, <1>2, <1>3 DEF KmainInv, StageInv
<1>6. QED
  BY <1>1, <1>4, <1>5, Advances DEF Following

LEMMA AssertionInv == KmainInv /\ AssertionFails => KmainInv'
  BY Halts DEF AssertionFails

LEMMA EndInv == KmainInv /\ End => KmainInv'
<1> SUFFICES ASSUME KmainInv, End PROVE KmainInv'
  OBVIOUS
<1>1. mode = "kernel" /\ stage = "end" /\ Hcf
  BY DEF End, Running
<1>2. active
  BY <1>1 DEF KmainInv, StageInv
<1>3. missing \cap Requests = {}
  <2>1. /\ {"base_revision", "framebuffer"} \cap missing = {}
        /\ "kernel_file" \notin missing /\ "hhdm" \notin missing /\ "memmap" \notin missing
    BY <1>1 DEF KmainInv, StageInv
  <2>2. "address" \notin missing
    BY <1>2 DEF KmainInv, StageInv
  <2>3. QED
    BY <2>1, <2>2 DEF Requests
<1>4. missing = {}
  BY <1>3 DEF KmainInv, Types
<1>5. QED
  BY <1>1, <1>4, Halts

-----------------------------------------------------------------------------
(* Exceptions *)

\* An exception finds its own stub, and its words on top of the stack.
LEMMA Delivered ==
  ASSUME KmainInv, NEW v \in Vectors \cup {PAGEFAULT}, Deliver(v, CanDeliver)
  PROVE  /\ raised' \in Seq(Vectors \cup {PAGEFAULT})
         /\ raised' # <<>> /\ Len(raised') = Len(raised) + 1 /\ Latest' = v
         /\ mode' \in {"stub", "reset"} /\ stub' \in Gates
         /\ mode' = "stub" => stub' = v
         /\ stack' \in Seq(Words) /\ Len(stack') >= Len(stack) /\ Len(stack) \in Nat
         /\ TopOfStack'
         /\ mode' = "reset" => ~loaded \/ ~CanDeliver
         /\ UNCHANGED <<gates, fr, reports>>
<1>1. /\ raised' = Append(raised, v)
      /\ UNCHANGED <<gates, fr, reports>>
      /\ loaded /\ idt[v] # -1 /\ CanDeliver =>
           /\ stack' = stack \o Pushed(v, Len(raised) + 1)
           /\ stub' = idt[v] /\ mode' = "stub"
      /\ ~(loaded /\ idt[v] # -1 /\ CanDeliver) =>
           mode' = "reset" /\ UNCHANGED <<stack, stub>>
  BY DEF Deliver
<1>2. /\ raised \in Seq(Vectors \cup {PAGEFAULT}) /\ stack \in Seq(Words) /\ stub \in Gates
      /\ GatesInv
  BY DEF KmainInv, Types
<1>3. /\ raised' \in Seq(Vectors \cup {PAGEFAULT}) /\ Len(raised') = Len(raised) + 1
      /\ raised'[Len(raised) + 1] = v /\ Len(raised) \in Nat
  BY <1>1, <1>2, AppendProperties, LenProperties
<1>4. Latest' = v /\ raised' # <<>>
  <2>1. Len(raised') # 0
    BY <1>3
  <2>2. raised' # <<>>
    BY <2>1
  <2>3. QED
    BY <1>3, <2>2 DEF Latest
<1>5. v \in Gates /\ v < 32
  BY Vector DEF Gates
<1>6. loaded => idt[v] = v /\ v # -1
  <2>1. v # -1
    BY <1>5 DEF Gates
  <2>2. loaded => v < i
    BY <1>2, <1>5 DEF GatesInv
  <2>3. v < i => idt[v] = v
    BY <1>2, <1>5 DEF GatesInv
  <2>4. QED
    BY <2>1, <2>2, <2>3
<1>7. Len(stack) \in Nat
  BY <1>2, LenProperties
<1>8. CASE loaded /\ idt[v] # -1 /\ CanDeliver
  <2>1. PICK k : k = Len(raised) + 1
    OBVIOUS
  <2>2. k \in Int /\ k = Len(raised')
    BY <1>3, <2>1
  <2>3. PICK p \in Seq(Words) :
          /\ p = Pushed(v, k) /\ Len(p) >= 5
          /\ v \in CpuErrors => /\ Len(p) >= 6 /\ p[Len(p)] = Word("err", k)
                                /\ p[Len(p) - 1] = Word("rip", k)
          /\ v \notin CpuErrors => p[Len(p)] = Word("rip", k)
    BY <1>2, <2>2, PushedFacts
  <2>4. stack' = stack \o p /\ stub' = v /\ mode' = "stub"
    BY <1>1, <1>6, <1>8, <2>1, <2>3
  <2>5. /\ stack \o p \in Seq(Words) /\ Len(p) \in Nat
        /\ Len(stack \o p) = Len(stack) + Len(p)
        /\ \A j \in 1 .. Len(p) : (stack \o p)[Len(stack) + j] = p[j]
    BY <1>2, Joined
  <2>6. /\ stack' \in Seq(Words) /\ Len(stack') = Len(stack) + Len(p)
        /\ \A j \in 1 .. Len(p) : stack'[Len(stack) + j] = p[j]
    BY <2>4, <2>5
  <2>7. ASSUME v \in CpuErrors
        PROVE  /\ Len(stack') >= 6 /\ stack'[Len(stack')] = Word("err", k)
               /\ stack'[Len(stack') - 1] = Word("rip", k)
    <3>1. Len(p) >= 6 /\ p[Len(p)] = Word("err", k) /\ p[Len(p) - 1] = Word("rip", k)
      BY <2>3, <2>7
    <3>2. Len(p) \in 1 .. Len(p) /\ Len(p) - 1 \in 1 .. Len(p)
      BY <2>5, <3>1
    <3>3. /\ stack'[Len(stack) + Len(p)] = p[Len(p)]
          /\ stack'[Len(stack) + (Len(p) - 1)] = p[Len(p) - 1]
      BY <2>6, <3>2
    <3>4. Len(stack) + (Len(p) - 1) = Len(stack') - 1 /\ Len(stack') >= 6
      BY <1>7, <2>5, <2>6, <3>1
    <3>5. QED
      BY <2>6, <3>1, <3>3, <3>4
  <2>8. ASSUME v \notin CpuErrors
        PROVE  Len(stack') >= 5 /\ stack'[Len(stack')] = Word("rip", k)
    <3>1. Len(p) >= 5 /\ p[Len(p)] = Word("rip", k)
      BY <2>3, <2>8
    <3>2. Len(p) \in 1 .. Len(p)
      BY <2>5, <3>1
    <3>3. stack'[Len(stack) + Len(p)] = p[Len(p)]
      BY <2>6, <3>2
    <3>4. Len(stack') >= 5
      BY <1>7, <2>5, <2>6, <3>1
    <3>5. QED
      BY <2>6, <3>1, <3>3, <3>4
  <2>9. TopOfStack'
    BY <1>4, <2>2, <2>7, <2>8 DEF TopOfStack
  <2>10. Len(stack') >= Len(stack)
    BY <1>7, <2>5, <2>6
  <2>11. QED
    BY <1>1, <1>3, <1>4, <1>5, <1>7, <2>4, <2>6, <2>9, <2>10
<1>9. CASE ~(loaded /\ idt[v] # -1 /\ CanDeliver)
  <2>1. mode' = "reset" /\ UNCHANGED <<stack, stub>>
    BY <1>1, <1>9
  <2>2. TopOfStack'
    BY <2>1 DEF TopOfStack
  <2>3. ~loaded \/ ~CanDeliver
    BY <1>6, <1>9
  <2>4. QED
    BY <1>1, <1>2, <1>3, <1>4, <1>7, <2>1, <2>2, <2>3
<1>10. QED
  BY <1>8, <1>9

LEMMA DeliverInv ==
  ASSUME KmainInv, NEW v \in Vectors \cup {PAGEFAULT}, Deliver(v, CanDeliver), UNCHANGED boot
  PROVE  KmainInv'
<1>1. /\ raised' \in Seq(Vectors \cup {PAGEFAULT})
      /\ raised' # <<>> /\ Len(raised') = Len(raised) + 1 /\ Latest' = v
      /\ mode' \in {"stub", "reset"} /\ stub' \in Gates
      /\ mode' = "stub" => stub' = v
      /\ stack' \in Seq(Words) /\ Len(stack') >= Len(stack) /\ Len(stack) \in Nat
      /\ UNCHANGED <<gates, fr, reports>>
  BY Delivered
<1>2. UNCHANGED <<pc, i, idt, loaded, handlers, stage, missing, space, active>>
  BY <1>1 DEF gates, boot
<1>3. /\ fr \in 0 .. Len(stack) /\ Len(reports) <= Len(raised)
      /\ Len(reports) \in Nat /\ Len(raised) \in Nat
  BY LenProperties DEF KmainInv, Types
<1>4. fr' \in 0 .. Len(stack') /\ Len(reports') < Len(raised')
  <2>1. Len(stack') \in Nat
    BY <1>1, LenProperties
  <2>2. QED
    BY <1>1, <1>3, <2>1
<1>5. Types'
  <2>1. mode' \in Modes /\ Len(reports') <= Len(raised')
    <3>1. Len(raised') \in Nat /\ Len(reports') \in Nat
      BY <1>1, <1>3
    <3>2. QED
      BY <1>1, <1>4, <3>1 DEF Modes
  <2>2. reports' \in Seq({"page_fault", "unhandled"} \X Int)
    BY <1>1 DEF KmainInv, Types
  <2>3. QED
    BY <1>1, <1>2, <1>4, <2>1, <2>2 DEF KmainInv, Types
<1>6. GatesInv' /\ StageInv'
  BY <1>2 DEF KmainInv, GatesInv, StageInv
<1>7. LatestReported'
  BY <1>1 DEF LatestReported
<1>8. HandlingInv'
  BY <1>1, <1>4, <1>7 DEF HandlingInv, Reading
<1>9. QED
  BY <1>5, <1>6, <1>8 DEF KmainInv

LEMMA PageFaultInv == KmainInv /\ PageFault => KmainInv'
  BY DeliverInv DEF PageFault

LEMMA RaiseInv == KmainInv /\ Raise => KmainInv'
  BY DeliverInv DEF Raise

\* The exception that a stub, exception_handler or page_fault handles.
LEMMA HandlingTypes ==
  ASSUME KmainInv, mode \in {"stub"} \cup Reading
  PROVE  /\ raised # <<>> /\ Latest \in Gates /\ Latest \in Vectors \cup {PAGEFAULT}
         /\ stack \in Seq(Words) /\ Len(stack) \in Nat
         /\ reports \in Seq({"page_fault", "unhandled"} \X Int)
         /\ Len(reports) \in Nat /\ Len(raised) \in Nat /\ Len(reports) < Len(raised)
<1>1. /\ stack \in Seq(Words) /\ reports \in Seq({"page_fault", "unhandled"} \X Int)
      /\ raised \in Seq(Vectors \cup {PAGEFAULT}) /\ Len(reports) < Len(raised)
  BY DEF KmainInv, Types, HandlingInv
<1>2. Len(stack) \in Nat /\ Len(reports) \in Nat /\ Len(raised) \in Nat
  BY <1>1, LenProperties
<1>3. raised # <<>>
  <2>1. Len(raised) # 0
    BY <1>1, <1>2
  <2>2. QED
    BY <2>1
<1>4. QED
  BY <1>1, <1>2, <1>3, LatestFacts DEF KmainInv

\* What a stub leaves on the stack.
LEMMA StubLeaves ==
  ASSUME KmainInv, Stub
  PROVE  /\ mode = "stub" /\ mode' = "dispatch" /\ stub = Latest
         /\ stack' \in Seq(Words) /\ fr' = Len(stack') /\ fr' \in Nat /\ fr' >= 16
         /\ stack'[fr' - 15] = Word("vector", Latest)
         /\ Latest \in StubErrors =>
              /\ fr' = Len(stack) + 16
              /\ \A j \in 1 .. Len(stack) : stack'[j] = stack[j]
         /\ Latest \notin StubErrors =>
              /\ fr' = Len(stack) + 17 /\ stack'[fr' - 16] = Word("zero", 0)
              /\ \A j \in 1 .. Len(stack) : stack'[j] = stack[j]
         /\ UNCHANGED <<gates, stub, raised, reports>>
<1>1. /\ mode = "stub" /\ mode' = "dispatch" /\ fr' = Len(stack')
      /\ stack' = stack \o Dummy \o <<Word("vector", stub)>> \o Registers
      /\ UNCHANGED <<gates, stub, raised, reports>>
  BY DEF Stub
<1>2. stub = Latest /\ stub \in Int /\ stack \in Seq(Words)
  BY <1>1, HandlingTypes, Vector DEF KmainInv, HandlingInv
<1>3. PICK t : t = stack'
  OBVIOUS
<1>4. t = stack \o Dummy \o <<Word("vector", stub)>> \o Registers
  BY <1>1, <1>3
<1>5. /\ t \in Seq(Words) /\ Len(t) \in Nat /\ Len(stack) \in Nat /\ Len(t) >= 16
      /\ t[Len(t) - 15] = Word("vector", stub)
      /\ stub \in StubErrors =>
           /\ Len(t) = Len(stack) + 16
           /\ \A j \in 1 .. Len(stack) : t[j] = stack[j]
      /\ stub \notin StubErrors =>
           /\ Len(t) = Len(stack) + 17 /\ t[Len(t) - 16] = Word("zero", 0)
           /\ \A j \in 1 .. Len(stack) : t[j] = stack[j]
  BY <1>2, <1>4, StubStack
<1>6. QED
  BY <1>1, <1>2, <1>3, <1>5

LEMMA StubInv == KmainInv /\ Stub /\ UNCHANGED boot => KmainInv'
<1> SUFFICES ASSUME KmainInv, Stub, UNCHANGED boot PROVE KmainInv'
  OBVIOUS
<1>1. /\ mode = "stub" /\ mode' = "dispatch"
      /\ stack' \in Seq(Words) /\ fr' = Len(stack') /\ fr' \in Nat /\ fr' >= 16
      /\ stack'[fr' - 15] = Word("vector", Latest)
      /\ UNCHANGED <<gates, stub, raised, reports>>
  BY StubLeaves
<1>2. UNCHANGED <<pc, i, idt, loaded, handlers, stub, raised, reports, stage, missing, space,
                  active>>
  BY <1>1 DEF gates, boot
<1>3. Types'
  BY <1>1, <1>2 DEF KmainInv, Types, Modes
<1>4. GatesInv' /\ StageInv'
  BY <1>2 DEF KmainInv, GatesInv, StageInv
<1>5. VecNo' = Latest /\ Latest' = Latest
  <2>1. Word("vector", Latest)[2] = Latest
    BY DEF Word
  <2>2. QED
    BY <1>1, <1>2, <2>1 DEF VecNo, Latest
<1>6. Len(reports') < Len(raised')
  BY <1>1, <1>2 DEF KmainInv, HandlingInv
<1>7. LatestReported'
  BY <1>1 DEF LatestReported
<1>8. HandlingInv'
  BY <1>1, <1>5, <1>6, <1>7 DEF HandlingInv, Reading
<1>9. QED
  BY <1>3, <1>4, <1>8 DEF KmainInv

LEMMA DispatchFacts ==
  ASSUME KmainInv, Dispatch
  PROVE  /\ mode = "dispatch" /\ mode' \in {"page_fault", "unhandled"}
         /\ mode' = "page_fault" <=> Latest = PAGEFAULT /\ pc = "returned"
         /\ VecNo = Latest
         /\ UNCHANGED <<gates, stub, stack, fr, raised, reports>>
<1>1. /\ mode = "dispatch"
      /\ mode' = IF handlers[VecNo] = "none" THEN "unhandled" ELSE handlers[VecNo]
      /\ UNCHANGED <<gates, stub, stack, fr, raised, reports>>
  BY DEF Dispatch
<1>2. VecNo = Latest /\ Latest \in Gates
  BY <1>1, HandlingTypes DEF KmainInv, HandlingInv, Reading
<1>3. handlers[Latest] \in {"none", "page_fault"}
  BY <1>2 DEF KmainInv, Types
<1>4. handlers[Latest] = "page_fault" <=> Latest = PAGEFAULT /\ pc = "returned"
  BY <1>2 DEF KmainInv, GatesInv
<1>5. QED
  BY <1>1, <1>2, <1>3, <1>4

LEMMA DispatchInv == KmainInv /\ Dispatch /\ UNCHANGED boot => KmainInv'
<1> SUFFICES ASSUME KmainInv, Dispatch, UNCHANGED boot PROVE KmainInv'
  OBVIOUS
<1>1. /\ mode = "dispatch" /\ mode' \in {"page_fault", "unhandled"}
      /\ mode' = "page_fault" <=> Latest = PAGEFAULT /\ pc = "returned"
      /\ VecNo = Latest
      /\ UNCHANGED <<gates, stub, stack, fr, raised, reports>>
  BY DispatchFacts
<1>2. UNCHANGED <<pc, i, idt, loaded, handlers, stub, stack, fr, raised, reports, stage,
                  missing, space, active>>
  BY <1>1 DEF gates, boot
<1>3. Types'
  BY <1>1, <1>2 DEF KmainInv, Types, Modes
<1>4. GatesInv' /\ StageInv'
  BY <1>2 DEF KmainInv, GatesInv, StageInv
<1>5. /\ fr = Len(stack) /\ fr >= 16 /\ Len(reports) < Len(raised)
      /\ VecNo' = VecNo /\ Latest' = Latest
  BY <1>1, <1>2 DEF KmainInv, HandlingInv, Reading, VecNo, Latest
<1>6. LatestReported'
  BY <1>1 DEF LatestReported
<1>7. HandlingInv'
  BY <1>1, <1>2, <1>5, <1>6 DEF HandlingInv, Reading
<1>8. QED
  BY <1>3, <1>4, <1>7 DEF KmainInv

LEMMA ReportInv == KmainInv /\ Report /\ UNCHANGED boot => KmainInv'
<1> SUFFICES ASSUME KmainInv, Report, UNCHANGED boot PROVE KmainInv'
  OBVIOUS
<1>1. /\ mode \in {"page_fault", "unhandled"} /\ mode' = "halted"
      /\ reports' = Append(reports, <<mode, VecNo>>)
      /\ UNCHANGED <<gates, stub, stack, fr, raised>>
  BY DEF Report
<1>2. UNCHANGED <<pc, i, idt, loaded, handlers, stub, stack, fr, raised, stage, missing, space,
                  active>>
  BY <1>1 DEF gates, boot
<1>3. /\ raised # <<>> /\ Latest \in Int /\ VecNo = Latest
      /\ reports \in Seq({"page_fault", "unhandled"} \X Int)
      /\ Len(reports) \in Nat /\ Len(raised) \in Nat /\ Len(reports) < Len(raised)
      /\ mode = "page_fault" <=> Latest = PAGEFAULT /\ pc = "returned"
  BY <1>1, HandlingTypes, Vector DEF KmainInv, HandlingInv, Reading
<1>4. PICK m : m = <<mode, VecNo>>
  OBVIOUS
<1>5. m \in {"page_fault", "unhandled"} \X Int /\ m[1] = mode /\ m[2] = Latest
  BY <1>1, <1>3, <1>4
<1>6. /\ reports' \in Seq({"page_fault", "unhandled"} \X Int)
      /\ Len(reports') = Len(reports) + 1 /\ reports'[Len(reports) + 1] = m
  BY <1>1, <1>3, <1>4, <1>5, AppendProperties
<1>7. reports' # <<>> /\ reports'[Len(reports')] = m
  <2>1. Len(reports') # 0
    BY <1>3, <1>6
  <2>2. QED
    BY <1>6, <2>1
<1>8. Types'
  <2>1. Len(reports') <= Len(raised')
    BY <1>2, <1>3, <1>6
  <2>2. QED
    BY <1>1, <1>2, <1>6, <2>1 DEF KmainInv, Types, Modes
<1>9. GatesInv' /\ StageInv'
  BY <1>2 DEF KmainInv, GatesInv, StageInv
<1>10. Latest' = Latest
  BY <1>2 DEF Latest
<1>11. LatestReported'
  <2>1. pc' = "returned" => (m[1] = "page_fault" <=> Latest = PAGEFAULT)
    BY <1>2, <1>3, <1>5
  <2>2. QED
    BY <1>2, <1>3, <1>5, <1>7, <1>10, <2>1 DEF LatestReported
<1>12. HandlingInv'
  BY <1>1, <1>11 DEF HandlingInv, Reading
<1>13. QED
  BY <1>8, <1>9, <1>12 DEF KmainInv

LEMMA StutterInv == KmainInv /\ UNCHANGED vars => KmainInv'
<1> SUFFICES ASSUME KmainInv, UNCHANGED vars PROVE KmainInv'
  OBVIOUS
<1>1. UNCHANGED <<pc, i, idt, loaded, handlers, mode, stub, stack, fr, raised, reports, stage,
                  missing, space, active>>
  BY DEF vars, gates, handling, boot
<1>2. Types' /\ GatesInv' /\ StageInv'
  BY <1>1 DEF KmainInv, Types, GatesInv, StageInv
<1>3. HandlingInv'
  BY <1>1 DEF KmainInv, HandlingInv, LatestReported, Latest, VecNo
<1>4. QED
  BY <1>2, <1>3 DEF KmainInv

LEMMA NextInv == KmainInv /\ [Next]_vars => KmainInv'
<1> SUFFICES ASSUME KmainInv, [Next]_vars PROVE KmainInv'
  OBVIOUS
<1>1. CASE Kernel
  BY <1>1, CheckInv, StepInv, SetUpInv, MapInv, LoadCr3Inv, AssertionInv, EndInv, PageFaultInv
     DEF Kernel
<1>2. CASE Handle
  BY <1>2, StubInv, DispatchInv, ReportInv DEF Handle, Handling
<1>3. CASE Raise
  BY <1>3, RaiseInv
<1>4. CASE UNCHANGED vars
  BY <1>4, StutterInv
<1>5. QED
  BY <1>1, <1>2, <1>3, <1>4 DEF Next, Stopped

(* At every step of the boot the IDT, the address space and the handler    *)
(* are as far as the statement of kmain says, whatever exceptions came.    *)
THEOREM Invariance == Spec => []KmainInv
<1>1. Init => KmainInv
  BY InitInv
<1>2. KmainInv /\ [Next]_vars => KmainInv'
  BY NextInv
<1>3. QED
  BY <1>1, <1>2, PTL DEF Spec

(* When the processor halts, the latest exception is the one reported; or  *)
(* the boot has ended with nothing missing, or a check has failed.         *)
THEOREM ReportTheorem == Spec => []LatestReported
<1>1. KmainInv => LatestReported
  BY DEF KmainInv, HandlingInv
<1>2. QED
  BY <1>1, Invariance, PTL

-----------------------------------------------------------------------------
(* Triple faults *)

\* A delivery resets the machine only before lidt, and once cr3 is loaded.
LEMMA ResetBy ==
  ASSUME KmainInv, NEW v \in Vectors \cup {PAGEFAULT}, Deliver(v, CanDeliver), mode' = "reset"
  PROVE  ~loaded \/ (active /\ space["gdt"] = "nothing")
<1>1. ~loaded \/ ~CanDeliver
  BY Delivered
<1>2. SUFFICES ASSUME ~CanDeliver PROVE active /\ space["gdt"] = "nothing"
  BY <1>1
<1>3. Types /\ active \in BOOLEAN
  BY DEF KmainInv, Types
<1>4. active
  <2>1. SUFFICES ASSUME ~active PROVE FALSE
    BY <1>3
  <2>2. Areas \subseteq There
    BY <1>3, <2>1, AreasThere
  <2>3. QED
    BY <1>2, <2>2 DEF CanDeliver, Areas
<1>5. "image" \in There /\ "stack" \in There
  BY <1>3, <1>4, AreasThere DEF KmainInv, StageInv, Areas
<1>6. "gdt" \notin There
  BY <1>2, <1>5 DEF CanDeliver
<1>7. space["gdt"] # "kept"
  BY <1>3, <1>6, AreasThere DEF Areas
<1>8. space["gdt"] \in {"nothing", "kept"}
  BY <1>3 DEF Types, Areas
<1>9. QED
  BY <1>4, <1>7, <1>8

LEMMA ResetStep ==
  ASSUME KmainInv, [Next]_vars, mode' = "reset", ~(UNCHANGED vars)
  PROVE  /\ ~loaded \/ (active /\ space["gdt"] = "nothing")
         /\ mode = "kernel" => Needs \subseteq There
<1>1. \E v \in Vectors \cup {PAGEFAULT} : Deliver(v, CanDeliver)
  <2>1. CASE PageFault
    BY <2>1 DEF PageFault
  <2>2. CASE Raise
    BY <2>2 DEF Raise
  <2>3. CASE Check \/ Step \/ SetUpExceptions \/ MapArea \/ LoadCr3 \/ AssertionFails \/ End
    <3>1. mode = "kernel" /\ (mode' = "halted" \/ mode' = mode)
      BY <2>3 DEF Check, Step, SetUpExceptions, MapArea, LoadCr3, AssertionFails, End, Running,
                  Hcf, Advance, InitializeExceptions, handling
    <3>2. QED
      BY <3>1
  <2>4. CASE Stub
    BY <2>4 DEF Stub
  <2>5. CASE Dispatch
    BY <2>5, DispatchFacts
  <2>6. CASE Report
    BY <2>6 DEF Report
  <2>7. QED
    BY <2>1, <2>2, <2>3, <2>4, <2>5, <2>6
       DEF Next, Kernel, Handle, Handling, Stopped
<1>2. ~loaded \/ (active /\ space["gdt"] = "nothing")
  BY <1>1, ResetBy
<1>3. Needs \subseteq There
  BY <1>2, NeedsThere
<1>4. QED
  BY <1>2, <1>3

(* An exception resets the machine only before lidt or, where the loader's *)
(* GDT is not mapped, after cr3 is loaded; and no access of the kernel's   *)
(* own ever does.                                                          *)
THEOREM ResetTheorem == Spec => NoTripleFault
<1>1. KmainInv /\ [Next]_vars =>
        [mode' = "reset" =>
           /\ ~loaded \/ (active /\ space["gdt"] = "nothing")
           /\ mode = "kernel" => Needs \subseteq There]_vars
  BY ResetStep
<1>2. QED
  BY <1>1, Invariance, PTL DEF Spec, NoTripleFault

-----------------------------------------------------------------------------
(* The frame *)

\* What a stub leaves is the frame of the latest exception.
LEMMA StubFrame ==
  ASSUME StubsAgree, KmainInv, TopOfStack, Stub
  PROVE  FrameAsPushed' /\ fr' >= 22
<1>1. /\ mode = "stub" /\ mode' = "dispatch"
      /\ stack' \in Seq(Words) /\ fr' = Len(stack') /\ fr' \in Nat
      /\ stack'[fr' - 15] = Word("vector", Latest)
      /\ Latest \in StubErrors =>
           /\ fr' = Len(stack) + 16
           /\ \A j \in 1 .. Len(stack) : stack'[j] = stack[j]
      /\ Latest \notin StubErrors =>
           /\ fr' = Len(stack) + 17 /\ stack'[fr' - 16] = Word("zero", 0)
           /\ \A j \in 1 .. Len(stack) : stack'[j] = stack[j]
      /\ UNCHANGED raised
  BY StubLeaves
<1>2. Len(stack) \in Nat /\ (Latest \in CpuErrors <=> Latest \in StubErrors)
  BY <1>1, HandlingTypes DEF StubsAgree
<1>3. Latest' = Latest /\ Len(raised') = Len(raised)
  BY <1>1 DEF Latest
<1>4. VecNo' = Latest
  <2>1. Word("vector", Latest)[2] = Latest
    BY DEF Word
  <2>2. QED
    BY <1>1, <2>1 DEF VecNo
<1>5. CASE Latest \in CpuErrors
  <2>1. /\ Len(stack) >= 6 /\ stack[Len(stack)] = Word("err", Len(raised))
        /\ stack[Len(stack) - 1] = Word("rip", Len(raised))
    BY <1>1, <1>5 DEF TopOfStack
  <2>2. /\ fr' = Len(stack) + 16
        /\ \A j \in 1 .. Len(stack) : stack'[j] = stack[j]
    BY <1>1, <1>2, <1>5
  <2>3. fr' - 16 = Len(stack) /\ fr' - 17 = Len(stack) - 1 /\ fr' >= 22
    BY <1>2, <2>1, <2>2
  <2>4. Len(stack) \in 1 .. Len(stack) /\ Len(stack) - 1 \in 1 .. Len(stack)
    BY <1>2, <2>1
  <2>5. stack'[fr' - 16] = stack[Len(stack)] /\ stack'[fr' - 17] = stack[Len(stack) - 1]
    BY <2>2, <2>3, <2>4
  <2>6. ErrCode' = Word("err", Len(raised)) /\ Rip' = Word("rip", Len(raised))
    BY <2>1, <2>5 DEF ErrCode, Rip
  <2>7. QED
    BY <1>3, <1>4, <1>5, <2>3, <2>6 DEF FrameAsPushed
<1>6. CASE Latest \notin CpuErrors
  <2>1. Len(stack) >= 5 /\ stack[Len(stack)] = Word("rip", Len(raised))
    BY <1>1, <1>6 DEF TopOfStack
  <2>2. /\ fr' = Len(stack) + 17 /\ stack'[fr' - 16] = Word("zero", 0)
        /\ \A j \in 1 .. Len(stack) : stack'[j] = stack[j]
    BY <1>1, <1>2, <1>6
  <2>3. fr' - 17 = Len(stack) /\ fr' >= 22 /\ Len(stack) \in 1 .. Len(stack)
    BY <1>2, <2>1, <2>2
  <2>4. stack'[fr' - 17] = stack[Len(stack)]
    BY <2>2, <2>3
  <2>5. ErrCode' = Word("zero", 0) /\ Rip' = Word("rip", Len(raised))
    BY <2>1, <2>2, <2>4 DEF ErrCode, Rip
  <2>6. QED
    BY <1>3, <1>4, <1>6, <2>3, <2>5 DEF FrameAsPushed
<1>7. QED
  BY <1>5, <1>6

\* The frame stays as it is while it is read.
LEMMA ReadingFrame ==
  ASSUME FrameInv, Dispatch \/ UNCHANGED vars
  PROVE  TopOfStack' /\ FrameAsPushed' /\ (mode' \in Reading => fr' >= 22)
<1>1. CASE Dispatch
  <2>1. /\ mode = "dispatch" /\ mode' \in {"page_fault", "unhandled"}
        /\ UNCHANGED <<stack, fr, raised>>
    BY <1>1, DispatchFacts DEF FrameInv
  <2>2. /\ Latest' = Latest /\ VecNo' = VecNo /\ ErrCode' = ErrCode /\ Rip' = Rip
        /\ Len(raised') = Len(raised)
    BY <2>1 DEF Latest, VecNo, ErrCode, Rip
  <2>3. FrameAsPushed'
    BY <2>1, <2>2 DEF FrameInv, FrameAsPushed
  <2>4. TopOfStack' /\ (mode' \in Reading => fr' >= 22)
    BY <2>1 DEF FrameInv, TopOfStack, Reading
  <2>5. QED
    BY <2>3, <2>4
<1>2. CASE UNCHANGED vars
  <2>1. UNCHANGED <<mode, stack, fr, raised>>
    BY <1>2 DEF vars, handling
  <2>2. /\ Latest' = Latest /\ VecNo' = VecNo /\ ErrCode' = ErrCode /\ Rip' = Rip
        /\ Len(raised') = Len(raised) /\ mode' = mode
    BY <2>1 DEF Latest, VecNo, ErrCode, Rip
  <2>3. FrameAsPushed'
    BY <2>2 DEF FrameInv, FrameAsPushed
  <2>4. TopOfStack' /\ (mode' \in Reading => fr' >= 22)
    BY <2>1, <2>2 DEF FrameInv, TopOfStack
  <2>5. QED
    BY <2>3, <2>4
<1>3. QED
  BY <1>1, <1>2

LEMMA FrameInit == Init => FrameInv
<1> SUFFICES ASSUME Init PROVE FrameInv
  OBVIOUS
<1>1. mode = "kernel"
  BY DEF Init, ExceptionsInit
<1>2. QED
  BY <1>1, InitInv DEF FrameInv, TopOfStack, FrameAsPushed, Reading

LEMMA FrameNext ==
  ASSUME StubsAgree, FrameInv, [Next]_vars
  PROVE  FrameInv'
<1>1. KmainInv' /\ KmainInv
  BY NextInv DEF FrameInv
<1>2. CASE mode' \in {"kernel", "halted", "reset"}
  BY <1>1, <1>2 DEF FrameInv, TopOfStack, FrameAsPushed, Reading
<1>3. CASE PageFault \/ Raise
  <2>1. PICK v \in Vectors \cup {PAGEFAULT} : Deliver(v, CanDeliver)
    BY <1>3 DEF PageFault, Raise
  <2>2. TopOfStack' /\ mode' \in {"stub", "reset"}
    BY <1>1, <2>1, Delivered
  <2>3. QED
    BY <1>1, <2>2 DEF FrameInv, FrameAsPushed, Reading
<1>4. CASE Stub
  <2>1. FrameAsPushed' /\ fr' >= 22 /\ mode' = "dispatch"
    BY <1>1, <1>4, StubFrame, StubLeaves DEF FrameInv
  <2>2. QED
    BY <1>1, <2>1 DEF FrameInv, TopOfStack
<1>5. CASE Dispatch \/ UNCHANGED vars
  BY <1>1, <1>5, ReadingFrame DEF FrameInv
<1>6. CASE Check \/ Step \/ SetUpExceptions \/ MapArea \/ LoadCr3 \/ AssertionFails \/ End
  <2>1. mode = "kernel" /\ (mode' = "halted" \/ mode' = mode)
    BY <1>6 DEF Check, Step, SetUpExceptions, MapArea, LoadCr3, AssertionFails, End, Running,
                Hcf, Advance, InitializeExceptions, handling
  <2>2. QED
    BY <1>2, <2>1
<1>7. CASE Report
  BY <1>2, <1>7 DEF Report
<1>8. QED
  BY <1>3, <1>4, <1>5, <1>6, <1>7 DEF Next, Kernel, Handle, Handling, Stopped

(* Where the stubs know which vectors come with an error code, the frame   *)
(* that exception_handler reads holds the vector, the error code and rip   *)
(* of the exception it handles, however deep exceptions are nested.        *)
THEOREM FrameTheorem ==
  ASSUME StubsAgree
  PROVE  Spec => []FrameAsPushed
<1>1. Init => FrameInv
  BY FrameInit
<1>2. FrameInv /\ [Next]_vars => FrameInv'
  BY FrameNext
<1>3. FrameInv => FrameAsPushed
  BY DEF FrameInv
<1>4. QED
  BY <1>1, <1>2, <1>3, PTL DEF Spec

(* Every variable keeps its type, and a frame is read inside the stack.    *)
THEOREM TypeCorrectness ==
  ASSUME StubsAgree
  PROVE  Spec => []TypeOK
<1>1. Init => FrameInv
  BY FrameInit
<1>2. FrameInv /\ [Next]_vars => FrameInv'
  BY FrameNext
<1>3. FrameInv => TypeOK
  BY DEF FrameInv, KmainInv, Types, HandlingInv, Reading, TypeOK
<1>4. QED
  BY <1>1, <1>2, <1>3, PTL DEF Spec
=============================================================================
