----------------------------- MODULE KmainProps -----------------------------
(***************************************************************************)
(* What the boot and the handling of exceptions have to get right.         *)
(***************************************************************************)
EXTENDS Kmain

Modes ==
  {"kernel", "stub", "dispatch", "page_fault", "unhandled", "halted", "reset"}

\* The exception that came last.
Latest == raised[Len(raised)]

(* Every variable has its type, and a frame is read inside the stack.      *)
TypeOK ==
  /\ stage \in DOMAIN Following \cup {"end"} /\ missing \subseteq Requests
  /\ space \in [Areas \cup Requests -> {"nothing", "kept"}] /\ active \in BOOLEAN
  /\ pc \in {"gates", "log", "handlers", "returned"}
  /\ i \in 0 .. 32 /\ loaded \in BOOLEAN
  /\ idt \in [Gates -> Gates \cup {-1}]
  /\ handlers \in [Gates -> {"none", "page_fault"}]
  /\ mode \in Modes /\ stub \in Gates
  /\ fr \in 0 .. Len(stack)
  /\ mode \in {"dispatch", "page_fault", "unhandled"} => fr = Len(stack) /\ fr >= 22
  /\ Len(reports) <= Len(raised)

(* exception_handler reads the words that were pushed for the exception it *)
(* handles, each under its own name, however deep exceptions are nested:   *)
(* the vector, the error code (zero for a vector without one) and rip.     *)
FrameAsPushed ==
  mode \in {"dispatch", "page_fault", "unhandled"} =>
    /\ VecNo = Latest
    /\ ErrCode = IF Latest \in CpuErrors THEN Word("err", Len(raised)) ELSE Word("zero", 0)
    /\ Rip = Word("rip", Len(raised))

(* Exceptions reset the machine before the IDT is loaded (interrupts.c:40) *)
(* and, where the boot loader's GDT is not near the stack, once cr3 has    *)
(* been (vm.c:66).  The kernel itself never resets it: whatever it touches *)
(* that is not there, it touches in between.                               *)
NoTripleFault ==
  [][mode' = "reset" =>
       /\ ~loaded \/ (active /\ space["gdt"] = "nothing")
       /\ mode = "kernel" => Needs \subseteq There]_vars

(* When the processor halts on an exception, the one that came last is the *)
(* one reported last, and a page fault after initialize_exceptions is      *)
(* reported by page_fault.  When it halts without one, the boot is at its  *)
(* end with nothing missing, or a check or an assertion has failed: a null *)
(* response that nobody checks (kernel.c:39) is never passed in silence.   *)
LatestReported ==
  mode = "halted" =>
    IF raised = <<>>
    THEN \/ stage = "end" /\ missing = {}
         \/ stage = "check" /\ missing # {}
         \/ stage \in {"memmap", "paging"}
    ELSE LET last == reports[Len(reports)]
         IN  /\ reports # <<>> /\ last[2] = Latest
             /\ pc = "returned" => (last[1] = "page_fault" <=> Latest = PAGEFAULT)

(* The boot ends, and so does every exception, whenever it comes: with the *)
(* processor halted, or the machine reset.                                 *)
ExceptionsHalt == []<>(mode \in {"halted", "reset"})
=============================================================================
