------------------------------- MODULE Kmain -------------------------------
(***************************************************************************)
(* kmain of src/src/boot/kernel.c: the boot as a whole.  Every stage of it *)
(* needs something to be there, a response of the boot loader or a part of *)
(* memory, and touching what is not there is a page fault; the processor   *)
(* may raise other exceptions wherever the code is, also in a handler.     *)
(*                                                                         *)
(* Of the calls kmain makes, initialize_exceptions and the handling of     *)
(* exceptions are those of Exceptions, and initialize_paging is seen as    *)
(* AddressSpace promises it, with an area of memory for a page: Paging     *)
(* implements that.  initialize_memmap and frame_alloc may halt.           *)
(***************************************************************************)
EXTENDS Exceptions

CONSTANTS
  Unanswered,  \* sets of requests the boot loader may leave without a response
  MaxRaised    \* bound: exceptions before the processor raises no more

\* The requests that kmain looks at; a framebuffer response with no
\* framebuffer counts as none.
Requests == {"base_revision", "framebuffer", "kernel_file", "hhdm", "memmap", "address"}

\* What else the boot touches: the loader's GDT is read at every exception.
Areas == {"image", "stack", "screen", "gdt"}

ASSUME BootAssumption ==
  MaxRaised \in Nat /\ \A s \in Unanswered : s \subseteq Requests

VARIABLES
  stage,    \* the call or statement of kmain that is executed
  missing,  \* requests without a response
  space,    \* the new address space: what is mapped in it
  active    \* the processor uses it

boot == <<stage, missing, space, active>>
vars == <<gates, handling, boot>>

\* The new space has to keep these where they were, in the order in which
\* initialize_paging maps them.
Mapped == <<"stack", "screen", "image">>

Space == INSTANCE AddressSpace WITH
           Pages <- Areas \cup Requests, Unmapped <- "nothing",
           wanted <- [a \in {"stack", "screen", "image"} |-> "kept"]

Init ==
  /\ ExceptionsInit
  /\ stage = "check"
  /\ missing \in Unanswered
  /\ Space!Init
-----------------------------------------------------------------------------
(* What a stage needs *)

\* Mutation: the kernel is described before exceptions are set up.
DescribedEarly ==
  [check |-> "serial", serial |-> "describe", describe |-> "exceptions",
   exceptions |-> "hhdm", hhdm |-> "font", font |-> "memmap", memmap |-> "paging",
   paging |-> "puts", puts |-> "end"]

\* The order of kmain.
Following ==
  [check |-> "serial", serial |-> "exceptions", exceptions |-> "describe",
   describe |-> "hhdm", hhdm |-> "font", font |-> "memmap", memmap |-> "paging",
   paging |-> "puts", puts |-> "end"]

\* The responses that are dereferenced, and the framebuffer.
Dereferenced ==
  [describe |-> {"framebuffer", "kernel_file"}, hhdm |-> {"hhdm"},
   font |-> {"framebuffer"}, memmap |-> {"memmap"},
   paging |-> IF space["screen"] = "kept" THEN {"address"} ELSE {"memmap"},
   puts |-> {"screen"}]

Needs ==
  {"image", "stack"} \cup
  IF stage \in DOMAIN Dereferenced THEN Dereferenced[stage] ELSE {}

\* A null pointer is never mapped (base revision 3 of the protocol).
There == {a \in Areas \cup Requests : active => space[a] # "nothing"} \ missing
-----------------------------------------------------------------------------
(* kmain *)

Running(s) == mode = "kernel" /\ stage = s

Advance == stage' = Following[stage] /\ UNCHANGED <<gates, handling, missing>>

Hcf ==
  /\ mode' = "halted"
  /\ UNCHANGED <<gates, stub, stack, fr, raised, reports, boot>>

\* The base revision and the framebuffer are checked, nothing else is.
Check ==
  /\ Running("check")
  /\ IF missing \cap {"base_revision", "framebuffer"} # {} THEN Hcf
     ELSE Advance /\ UNCHANGED <<space, active>>

\* Calls and statements that return: init_serial (true or not), the log,
\* init_font, initialize_memmap and puts.
Step ==
  /\ mode = "kernel"
  /\ stage \in {"serial", "describe", "hhdm", "font", "memmap", "puts"}
  /\ Needs \subseteq There
  /\ Advance /\ UNCHANGED <<space, active>>

\* initialize_exceptions().
SetUpExceptions ==
  /\ Running("exceptions")
  /\ InitializeExceptions
  /\ stage' = IF pc' = "returned" THEN Following[stage] ELSE stage
  /\ UNCHANGED <<missing, space, active>>

\* initialize_paging maps the next of the areas; the boot loader's data that
\* lies on the pages around the stack pointer comes with the stack.
MapArea ==
  /\ Running("paging") /\ Needs \subseteq There
  /\ \E k \in 1 .. 3 :
       /\ \A j \in 1 .. 3 : space[Mapped[j]] = "kept" <=> j < k
       /\ \/ space' = [space EXCEPT ![Mapped[k]] = "kept"] /\ Space!Map(Mapped[k])
          \/ /\ Mapped[k] = "screen"
             /\ space' = [space EXCEPT !["gdt"] = "kept"] /\ Space!Map("gdt")
  /\ UNCHANGED <<gates, handling, stage, missing>>

\* mov %0, %%cr3, and initialize_paging returns.
LoadCr3 == Running("paging") /\ Space!Activate /\ Advance

\* A failed assertion in initialize_memmap or in frame_alloc.
AssertionFails ==
  /\ mode = "kernel" /\ stage \in {"memmap", "paging"}
  /\ Hcf

\* The end of kmain: cli and hcf.
End == Running("end") /\ Hcf
-----------------------------------------------------------------------------
(* Exceptions *)

\* The processor reads the gate from the image and its code segment from the
\* loader's GDT, and pushes on the stack.
CanDeliver == {"image", "stack", "gdt"} \subseteq There

\* The kernel touches what is not there.
PageFault ==
  /\ mode = "kernel" /\ ~(Needs \subseteq There)
  /\ Deliver(PAGEFAULT, CanDeliver)
  /\ UNCHANGED boot

\* Any other exception, from outside.  A halted processor wakes up for an NMI
\* or a machine check, and after one NMI every other is held back until an
\* iretq, which no stub ever reaches.
Raise ==
  \E v \in Vectors :
    /\ Len(raised) < MaxRaised /\ mode # "reset"
    /\ mode = "halted" => v \in {NMI, MachineCheck}
    /\ v = NMI => \A k \in DOMAIN raised : raised[k] # NMI
    /\ Deliver(v, CanDeliver)
    /\ UNCHANGED boot

Handle == Handling /\ UNCHANGED boot

\* hcf, or the machine is reset.
Stopped == mode \in {"halted", "reset"} /\ UNCHANGED vars

Kernel ==
  \/ Check
  \/ Step
  \/ SetUpExceptions
  \/ MapArea
  \/ LoadCr3
  \/ AssertionFails
  \/ End
  \/ PageFault

Next == Kernel \/ Handle \/ Raise \/ Stopped

Spec == Init /\ [][Next]_vars

\* The processor keeps executing; exceptions from outside come or do not.
FairSpec == Spec /\ WF_vars(Kernel \/ Handle)
=============================================================================
