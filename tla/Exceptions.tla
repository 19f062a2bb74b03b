----------------------------- MODULE Exceptions -----------------------------
(***************************************************************************)
(* Exceptions: initialize_exceptions and exception_handler of              *)
(* src/src/int/interrupts.c, the stubs of src/src/int/istubs.asm, and      *)
(* page_fault.  The processor (external) pushes words on the stack for an  *)
(* exception, the stub pushes more, and exception_handler reads them all   *)
(* as one intr_frame.  Interrupts are never enabled (interrupts.c:41), and *)
(* only the vectors below 32 have gates: pic_eoi_ack cannot be reached.    *)
(* When exceptions come, Kmain says.                                       *)
(*                                                                         *)
(* A word on the stack is a pair <<kind, number>>, where the number says   *)
(* which exception it belongs to.                                          *)
(***************************************************************************)
EXTENDS Integers, Sequences

CONSTANTS
  Vectors,   \* the exceptions that the processor raises
  CpuErrors  \* those for which it pushes an error code

Gates == 0 .. 31
PAGEFAULT == 14
NMI == 2
MachineCheck == 18

ASSUME VectorAssumption == Vectors \subseteq Gates /\ CpuErrors \subseteq Vectors

VARIABLES
  pc,        \* initialize_exceptions: "gates", "log", "handlers" or "returned"
  i,         \* its loop counter
  idt,       \* the stub that each gate leads to, -1 for an absent gate
  loaded,    \* lidt has been executed
  handlers,  \* the callback for each vector, or "none"
  mode,      \* who runs: "kernel", "stub", "dispatch", "page_fault",
             \* "unhandled", "halted", or "reset" after a triple fault
  stub,      \* the stub that runs
  stack,     \* the words pushed since the first exception
  fr,        \* r15: the height of the stack when the stub had pushed all
  raised,    \* history: the vectors raised, in order
  reports    \* history: what was logged about them

gates == <<pc, i, idt, loaded, handlers>>
handling == <<mode, stub, stack, fr, raised, reports>>

ExceptionsInit ==
  /\ pc = "gates" /\ i = 0
  /\ idt = [v \in Gates |-> -1] /\ loaded = FALSE
  /\ handlers = [v \in Gates |-> "none"]
  /\ mode = "kernel" /\ stub = 0 /\ stack = <<>> /\ fr = 0
  /\ raised = <<>> /\ reports = <<>>
-----------------------------------------------------------------------------
(* initialize_exceptions *)

\* One turn of the loop: idt_set_descriptor(i, exception_stub_table[i], 0x8E).
SetGate ==
  /\ pc = "gates" /\ i <= 31
  /\ idt' = [idt EXCEPT ![i] = i]
  /\ i' = i + 1
  /\ UNCHANGED <<pc, loaded, handlers>>

Lidt ==
  /\ pc = "gates" /\ i > 31
  /\ loaded' = TRUE
  /\ pc' = "log"
  /\ UNCHANGED <<i, idt, handlers>>

\* "Registered exception handlers and loaded IDT!"
LogRegistered ==
  /\ pc = "log"
  /\ pc' = "handlers"
  /\ UNCHANGED <<i, idt, loaded, handlers>>

\* Mutation: the callback is registered for the wrong vector.
SetHandlerElsewhere ==
  /\ pc = "handlers"
  /\ handlers' = [handlers EXCEPT ![13] = "page_fault"]
  /\ pc' = "returned"
  /\ UNCHANGED <<i, idt, loaded>>

SetHandler ==
  /\ pc = "handlers"
  /\ handlers' = [handlers EXCEPT ![PAGEFAULT] = "page_fault"]
  /\ pc' = "returned"
  /\ UNCHANGED <<i, idt, loaded>>

InitializeExceptions ==
  (SetGate \/ Lidt \/ LogRegistered \/ SetHandler) /\ UNCHANGED handling
-----------------------------------------------------------------------------
(* The processor *)

Word(kind, k) == <<kind, k>>

\* The stack is aligned, and the processor's words are pushed on it.
Pushed(v, k) ==
  (IF Len(stack) % 2 = 1 THEN <<Word("align", k)>> ELSE <<>>)
  \o <<Word("ss", k), Word("rsp", k), Word("eflags", k), Word("cs", k), Word("rip", k)>>
  \o (IF v \in CpuErrors THEN <<Word("err", k)>> ELSE <<>>)

\* Exception v.  Without a gate, before lidt, or when the processor cannot
\* read its tables, it ends in a triple fault.
Deliver(v, readable) ==
  /\ raised' = Append(raised, v)
  /\ IF loaded /\ idt[v] # -1 /\ readable
     THEN /\ stack' = stack \o Pushed(v, Len(raised) + 1)
          /\ stub' = idt[v]
          /\ mode' = "stub"
     ELSE mode' = "reset" /\ UNCHANGED <<stack, stub>>
  /\ UNCHANGED <<gates, fr, reports>>
-----------------------------------------------------------------------------
(* The stubs, exception_handler and page_fault *)

\* Mutation: no dummy for the vectors without an error code.
NoStubErrors == Gates

\* The vectors with an exception_err_stub.
StubErrors == {8} \cup (10 .. 14) \cup {17, 30}

Dummy == IF stub \in StubErrors THEN <<>> ELSE <<Word("zero", 0)>>
Registers == [k \in 1 .. 15 |-> Word("register", k)]

\* Mutation: r15 is taken before the registers are pushed.
StubEarly ==
  /\ mode = "stub"
  /\ stack' = stack \o Dummy \o <<Word("vector", stub)>> \o Registers
  /\ fr' = Len(stack)
  /\ mode' = "dispatch"
  /\ UNCHANGED <<gates, stub, raised, reports>>

\* The pushes of a stub; r15 takes the stack pointer, and the call follows.
Stub ==
  /\ mode = "stub"
  /\ stack' = stack \o Dummy \o <<Word("vector", stub)>> \o Registers
  /\ fr' = Len(stack')
  /\ mode' = "dispatch"
  /\ UNCHANGED <<gates, stub, raised, reports>>

\* The members of the intr_frame at r15, above the 15 registers.
VecNo == stack[fr - 15][2]
ErrCode == stack[fr - 16]
Rip == stack[fr - 17]

\* Mutation: a callback that is not there is looked up again.
DispatchAgain ==
  /\ mode = "dispatch"
  /\ mode' = IF handlers[VecNo] = "none" THEN "dispatch" ELSE handlers[VecNo]
  /\ UNCHANGED <<gates, stub, stack, fr, raised, reports>>

\* The callback, or the message for a vector without one.
Dispatch ==
  /\ mode = "dispatch"
  /\ mode' = IF handlers[VecNo] = "none" THEN "unhandled" ELSE handlers[VecNo]
  /\ UNCHANGED <<gates, stub, stack, fr, raised, reports>>

\* page_fault logs cr2; the message of exception_handler names the vector.
Report ==
  /\ mode \in {"page_fault", "unhandled"}
  /\ reports' = Append(reports, <<mode, VecNo>>)
  /\ mode' = "halted"
  /\ UNCHANGED <<gates, stub, stack, fr, raised>>

Handling == Stub \/ Dispatch \/ Report
=============================================================================
