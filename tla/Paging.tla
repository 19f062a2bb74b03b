------------------------------- MODULE Paging -------------------------------
(***************************************************************************)
(* Virtual memory, src/src/memory/vm.c: initialize_paging builds a new     *)
(* four-level page table, page by page through map_page, and loads it into *)
(* cr3.  Every loop iteration of initialize_paging and every level of      *)
(* map_page's walk is a step; the frames come from the physical allocator, *)
(* of which only the promise is used here (FrameSupply).                   *)
(*                                                                         *)
(* Addresses are page numbers.  A table has Fanout entries where the       *)
(* processor's has 512; the index macros drop the sign-extension bits of a *)
(* virtual address, so a virtual page is a number below Fanout^4.          *)
(***************************************************************************)
EXTENDS BootProtocol

CONSTANTS
  Fanout,      \* entries in a table
  Hhdm,        \* hhdmoff: where the boot loader maps all physical memory
  KernelVma,   \* KERNEL_VMA
  StackPages,  \* pages of stack to map: the 16 of initialize_paging
  PointerReach, \* the frames that a pointer shifted in 40 bits tells apart
  Machines     \* what the boot loader may hand over

\* The number of pages that one entry of a table of level l spans.
Reach == <<1, Fanout, Fanout * Fanout, Fanout * Fanout * Fanout>>
VirtualPages == 0 .. Fanout * Reach[4] - 1
Indices == 0 .. Fanout - 1

StackOf(m) == m.rsp - (StackPages - 1) .. m.rsp
KernelFrames(m) == m.physical_base .. m.physical_base + m.kernel_pages - 1

FramebufferPages(m) ==
  UNION {PagesOf(m.map[k]) : k \in {j \in 1 .. Len(m.map) : m.map[j].type = "framebuffer"}}

\* A machine: its memory map r, the pages withheld for the frame bitmap, the
\* physical address r2 the kernel was loaded at, the size of the kernel
\* (KERNEL_END is the first page after it), and the virtual page of the
\* stack pointer.  Stack and kernel are not usable memory, the stack is no
\* framebuffer; the direct map covers all memory and ends below the kernel.
\* Memory is within the reach of the pointers (1 TiB).
IsMachine(m) ==
  /\ LimineMap(m.map)
  /\ m.bitmap \subseteq UsablePages(m.map)
  /\ \A f \in UsablePages(m.map) : f < PointerReach
  /\ m.rsp \in Nat /\ m.physical_base \in Nat /\ m.kernel_pages \in Nat
  /\ \A k \in 1 .. Len(m.map) : Hhdm + EntryEnd(m.map[k]) <= KernelVma
  /\ Hhdm <= m.rsp - (StackPages - 1) /\ m.rsp < KernelVma
  /\ KernelVma + m.kernel_pages \in VirtualPages
  /\ \A f \in UsablePages(m.map) : f \notin KernelFrames(m) /\ Hhdm + f \notin StackOf(m)
  /\ \A f \in FramebufferPages(m) : Hhdm + f \notin StackOf(m)

ASSUME FanoutAssumption == Fanout \in Nat \ {0}
ASSUME LayoutAssumption ==
  /\ Hhdm \in VirtualPages /\ KernelVma \in VirtualPages
  /\ StackPages \in Nat \ {0} /\ PointerReach \in Nat \ {0}
ASSUME MachineAssumption == \A m \in Machines : IsMachine(m)

VARIABLES
  machine,  \* what the boot loader handed over
  pc,       \* the loop of initialize_paging that is running, or its end
  entry,    \* i: the memory map entry looked at, in the framebuffer loop
  done,     \* bytes: pages of the current loop done so far
  call,     \* the call of map_page in progress, or NoCall
  level,    \* the level of the table that call has got to
  table,    \* the frame of that table
  tables,   \* the contents of the page tables, by frame
  pml4,     \* pml4_addr
  cr3,      \* the root the processor uses, 0 for the boot loader's
  free,     \* frames the physical allocator can still hand out
  owned     \* frames it has handed out

progress == <<pc, entry, done>>
walk == <<call, level, table>>
vars == <<machine, progress, walk, tables, pml4, cr3, free, owned>>
-----------------------------------------------------------------------------
(* Tables *)

\* Mutation: the page directory index is taken one bit group too high.
IndexOfWrongLevel(va, l) ==
  (va \div Reach[IF l = 2 THEN 3 ELSE l]) % Fanout

\* PML4_INDEX, PDPT_INDEX, PD_INDEX and PT_INDEX: levels 4 to 1.
Index(va, l) == (va \div Reach[l]) % Fanout

\* The members of pml4e, pdpe, pde and pte that the code writes.
PageEntry ==
  [present : BOOLEAN, rw : BOOLEAN, us : BOOLEAN, pwt : BOOLEAN, nx : BOOLEAN,
   frame : Nat]

NoEntry ==
  [present |-> FALSE, rw |-> FALSE, us |-> FALSE, pwt |-> FALSE, nx |-> FALSE,
   frame |-> 0]

\* A frame that frame_alloc(true) returned.
ZeroedTable == [k \in Indices |-> NoEntry]

\* Mutation: the new table is left out of the walk's protection bits.
PointerNotWritable(e, f) == [e EXCEPT !.present = TRUE, !.frame = f]

\* Mutation: the pointer to a table is made accessible to user mode.
PointerForUser(e, f) ==
  [e EXCEPT !.present = TRUE, !.rw = TRUE, !.us = TRUE, !.frame = f]

\* Mutation: the entry is never marked present.
PointerNotPresent(e, f) == [e EXCEPT !.rw = TRUE, !.frame = f]

\* Mutation: the frame number is rounded up.
PointerToNextFrame(e, f) ==
  [e EXCEPT !.present = TRUE, !.rw = TRUE, !.frame = f + 1]

\* The entry of an upper level after its three assignments.
PointerTo(e, f) == [e EXCEPT !.present = TRUE, !.rw = TRUE, !.frame = f]

\* A call map_page(va, pa, is_supervisor, writable, no_execute, writethru).
Request(va, pa, s, w, nx, wt) ==
  [va |-> va, pa |-> pa, is_supervisor |-> s, writable |-> w, no_execute |-> nx,
   writethru |-> wt]

NoCall == Request(0, 0, FALSE, FALSE, FALSE, FALSE)

\* Mutation: writable and writethru are taken for each other.
PageForSwapped(e, c) ==
  [e EXCEPT !.present = TRUE, !.rw = c.writethru, !.us = c.is_supervisor,
            !.pwt = c.writable, !.nx = c.no_execute, !.frame = c.pa]

\* The entry of the last level after its six assignments.  `us`, the bit
\* that lets user mode in, is set to is_supervisor.
PageFor(e, c) ==
  [e EXCEPT !.present = TRUE, !.rw = c.writable, !.us = c.is_supervisor,
            !.pwt = c.writethru, !.nx = c.no_execute, !.frame = c.pa]

-----------------------------------------------------------------------------
(* frame_alloc, as FrameSupply promises it: a frame above all given before, *)
(* or the processor halts.  initialize_memmap has returned.                 *)

Supply == INSTANCE FrameSupply WITH
            usable <- UsablePages(machine.map),
            state  <- IF pc = "halted" THEN "halted" ELSE "ready"

Init ==
  /\ machine \in Machines
  /\ pc = "pml4" /\ entry = 1 /\ done = 0
  /\ call = NoCall /\ level = 0 /\ table = 0
  /\ tables = [f \in {} |-> ZeroedTable]
  /\ pml4 = 0 /\ cr3 = 0
  /\ free = UsablePages(machine.map) \ machine.bitmap
  /\ owned = {}

\* A failed assertion in frame_alloc ends in hcf.
AllocFails ==
  /\ pc = "pml4" \/ (level > 1 /\ ~tables[table][Index(call.va, level)].present)
  /\ pc' = "halted"
  /\ UNCHANGED <<machine, entry, done, walk, tables, pml4, cr3>>
  /\ Supply!Halt
-----------------------------------------------------------------------------
(* map_page *)

Current == tables[table][Index(call.va, level)]

\* The entry of this level is present: go down to the table it points to.  The
\* bit-field pdpe_ptr keeps its 40 bits when it is shifted by 12 (GCC).
Descend ==
  /\ level > 1 /\ Current.present
  /\ table' = Current.frame % PointerReach
  /\ level' = level - 1
  /\ UNCHANGED <<machine, progress, call, tables, pml4, cr3, free, owned>>

\* It is not: make it point to a zeroed frame, and go down to that.
AddTable ==
  /\ level > 1 /\ ~Current.present
  /\ UNCHANGED <<machine, progress, call, pml4, cr3>>
  /\ \E f \in free :
       /\ Supply!Alloc(f)
       /\ tables' = [g \in DOMAIN tables \cup {f} |->
                       IF g = f THEN ZeroedTable
                       ELSE IF g = table
                       THEN [tables[g] EXCEPT ![Index(call.va, level)] = PointerTo(@, f)]
                       ELSE tables[g]]
       /\ table' = f
  /\ level' = level - 1

\* The last level: set up the page, and return.
WritePage ==
  /\ level = 1
  /\ tables' = [tables EXCEPT ![table][Index(call.va, 1)] = PageFor(@, call)]
  /\ call' = NoCall /\ level' = 0 /\ table' = 0
  /\ UNCHANGED <<machine, progress, pml4, cr3, free, owned>>

MapPage == Descend \/ AddTable \/ WritePage
-----------------------------------------------------------------------------
(* initialize_paging.  No call of map_page is in progress at its own steps. *)

Calls(c) == call' = c /\ level' = 4 /\ table' = pml4

\* pml4_addr = frame_alloc(true).
AllocPml4 ==
  /\ pc = "pml4"
  /\ pc' = "self"
  /\ UNCHANGED <<machine, entry, done, walk, cr3>>
  /\ \E f \in free :
       /\ Supply!Alloc(f)
       /\ pml4' = f
       /\ tables' = [g \in {f} |-> ZeroedTable]

\* The root table is mapped where the boot loader's direct map has it.
MapSelf ==
  /\ pc = "self"
  /\ pc' = "stack"
  /\ Calls(Request(pml4 + Hhdm, pml4, TRUE, TRUE, TRUE, FALSE))
  /\ UNCHANGED <<machine, entry, done, tables, pml4, cr3, free, owned>>

\* Mutation: the physical pages are taken upward.
MapStackPageUpward ==
  /\ pc = "stack" /\ level = 0 /\ done < StackPages
  /\ Calls(Request(machine.rsp - done, machine.rsp - Hhdm + done, TRUE, TRUE, TRUE, FALSE))
  /\ done' = done + 1
  /\ UNCHANGED <<machine, pc, entry, tables, pml4, cr3, free, owned>>

\* One page of stack, from the page of rsp downward.
MapStackPage ==
  /\ pc = "stack" /\ level = 0 /\ done < StackPages
  /\ Calls(Request(machine.rsp - done, machine.rsp - Hhdm - done, TRUE, TRUE, TRUE, FALSE))
  /\ done' = done + 1
  /\ UNCHANGED <<machine, pc, entry, tables, pml4, cr3, free, owned>>

EndStack ==
  /\ pc = "stack" /\ level = 0 /\ done = StackPages
  /\ pc' = "framebuffer" /\ done' = 0
  /\ UNCHANGED <<machine, entry, walk, tables, pml4, cr3, free, owned>>

\* One page of a framebuffer entry.
MapFramebufferPage ==
  /\ pc = "framebuffer" /\ level = 0 /\ entry <= Len(machine.map)
  /\ LET e == machine.map[entry]
     IN  /\ e.type = "framebuffer" /\ done < e.length
         /\ Calls(Request(e.base + Hhdm + done, e.base + done, FALSE, TRUE, TRUE, TRUE))
  /\ done' = done + 1
  /\ UNCHANGED <<machine, pc, entry, tables, pml4, cr3, free, owned>>

\* Mutation: the loop looks at the same entry again.
NextEntryStuck ==
  /\ pc = "framebuffer" /\ level = 0 /\ entry <= Len(machine.map)
  /\ \/ machine.map[entry].type # "framebuffer"
     \/ done = machine.map[entry].length
  /\ done' = 0
  /\ UNCHANGED <<machine, pc, entry, walk, tables, pml4, cr3, free, owned>>

\* The next entry of the memory map.
NextEntry ==
  /\ pc = "framebuffer" /\ level = 0 /\ entry <= Len(machine.map)
  /\ \/ machine.map[entry].type # "framebuffer"
     \/ done = machine.map[entry].length
  /\ entry' = entry + 1 /\ done' = 0
  /\ UNCHANGED <<machine, pc, walk, tables, pml4, cr3, free, owned>>

EndFramebuffer ==
  /\ pc = "framebuffer" /\ level = 0 /\ entry = Len(machine.map) + 1
  /\ pc' = "kernel" /\ done' = 0
  /\ UNCHANGED <<machine, entry, walk, tables, pml4, cr3, free, owned>>

\* The loop over the kernel runs while addr <= &KERNEL_END.
KernelLeft == KernelVma + done <= KernelVma + machine.kernel_pages

MapKernelPage ==
  /\ pc = "kernel" /\ level = 0 /\ KernelLeft
  /\ Calls(Request(KernelVma + done, machine.physical_base + done, TRUE, TRUE, FALSE, FALSE))
  /\ done' = done + 1
  /\ UNCHANGED <<machine, pc, entry, tables, pml4, cr3, free, owned>>

\* mov %0, %%cr3
LoadCr3 ==
  /\ pc = "kernel" /\ level = 0 /\ ~KernelLeft
  /\ cr3' = pml4
  /\ pc' = "done"
  /\ UNCHANGED <<machine, entry, done, walk, tables, pml4, free, owned>>

\* The rest of kmain runs on the new tables, or the processor has halted.
Stopped == pc \in {"done", "halted"} /\ UNCHANGED vars

InitializePaging ==
  \/ AllocPml4
  \/ MapSelf
  \/ MapStackPage
  \/ EndStack
  \/ MapFramebufferPage
  \/ NextEntry
  \/ EndFramebuffer
  \/ MapKernelPage
  \/ LoadCr3

Next == InitializePaging \/ MapPage \/ AllocFails \/ Stopped

Spec == Init /\ [][Next]_vars

\* The processor keeps executing.
FairSpec == Spec /\ WF_vars(InitializePaging \/ MapPage \/ AllocFails)
=============================================================================
