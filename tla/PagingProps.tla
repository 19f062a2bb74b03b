----------------------------- MODULE PagingProps -----------------------------
(***************************************************************************)
(* What initialize_paging and map_page have to get right: the properties   *)
(* the runs of MCPaging check, and the refinement mapping to AddressSpace. *)
(***************************************************************************)
EXTENDS Paging, FiniteSets

-----------------------------------------------------------------------------
(* The processor's view: the translation of a virtual page by the tables.  *)
(* Protection bits are checked at all levels (vm.c:29).                    *)

E4(va) == tables[pml4][Index(va, 4)]
E3(va) == tables[E4(va).frame][Index(va, 3)]
E2(va) == tables[E3(va).frame][Index(va, 2)]
E1(va) == tables[E2(va).frame][Index(va, 1)]

Mapped(va) ==
  pml4 # 0 /\ E4(va).present /\ E3(va).present /\ E2(va).present /\ E1(va).present

Translation(f, w, u, nx) == [frame |-> f, writable |-> w, user |-> u, no_execute |-> nx]
Unmapped == [frame |-> -1]

Translate(va) ==
  IF ~Mapped(va) THEN Unmapped
  ELSE LET path == {E4(va), E3(va), E2(va), E1(va)}
       IN  Translation(E1(va).frame, \A e \in path : e.rw, \A e \in path : e.us,
                       \E e \in path : e.nx)

\* Tables by level: the frames that present entries of the level above name.
Pointers(s) == {p \in s \X Indices : tables[p[1]][p[2]].present}
PointedBy(s) == {tables[p[1]][p[2]].frame : p \in Pointers(s)}

\* The translations without which the kernel cannot go on after the switch,
\* where the boot loader had them: its image, its stack and the framebuffer.
Wanted(m) ==
  [va \in (KernelVma .. KernelVma + m.kernel_pages - 1)
           \cup StackOf(m) \cup {Hhdm + f : f \in FramebufferPages(m)} |->
     IF va >= KernelVma
     THEN Translation(m.physical_base + (va - KernelVma), TRUE, FALSE, FALSE)
     ELSE Translation(va - Hhdm, TRUE, FALSE, TRUE)]
-----------------------------------------------------------------------------
(* Every variable has its type, and a table is held in every frame that    *)
(* was handed out and in no other.                                         *)
TypeOK ==
  /\ machine \in Machines
  /\ pc \in {"pml4", "self", "stack", "framebuffer", "kernel", "done", "halted"}
  /\ entry \in Nat /\ done \in Nat
  /\ level \in 0 .. 4
  /\ DOMAIN tables = owned
  /\ tables \in [owned -> [Indices -> PageEntry]]
  /\ pml4 \in owned \cup {0} /\ cr3 \in {0, pml4}
  /\ table \in owned \cup {0} /\ (level > 0 => table \in owned)
  /\ free \subseteq UsablePages(machine.map) /\ owned \subseteq UsablePages(machine.map)

(* The frames handed out form a tree of four levels: every table but the   *)
(* root is pointed to by one entry, of one table of the level above.  Two  *)
(* parts of the address space never share a table, and no frame leaks.     *)
TablesFormTree ==
  pml4 # 0 =>
    LET l4 == {pml4}
        l3 == PointedBy(l4)
        l2 == PointedBy(l3)
        l1 == PointedBy(l2)
    IN  /\ owned = l4 \cup l3 \cup l2 \cup l1
        /\ Cardinality(owned) = 1 + Cardinality(Pointers(l4 \cup l3 \cup l2))

(* No page is open to user mode, although every last-level entry but the   *)
(* framebuffer's has its us bit set (is_supervisor is stored in it): only  *)
(* the upper levels keep user mode out.                                    *)
SupervisorOnly == \A va \in VirtualPages : Mapped(va) => ~Translate(va).user

(* The virtual addresses remain unchanged (kernel.c:63-64): whatever the   *)
(* new tables map below the kernel is where the direct map has it.  Above  *)
(* are the image, where it was loaded, and the page that follows it, since *)
(* the loop of vm.c:56 includes its end; and nothing else.                 *)
DirectMapKept ==
  \A va \in VirtualPages :
    Mapped(va) =>
      IF va < KernelVma THEN Translate(va).frame = va - Hhdm
      ELSE /\ va <= KernelVma + machine.kernel_pages
           /\ Translate(va).frame = machine.physical_base + (va - KernelVma)

(* The framebuffer, and only the framebuffer, is written through.          *)
FramebufferWrittenThrough ==
  \A va \in VirtualPages :
    Mapped(va) => (E1(va).pwt <=> va \in {Hhdm + f : f \in FramebufferPages(machine)})

(* When map_page returns, its page is mapped as its caller asked: the      *)
(* levels above take no permission away.                                   *)
AsAsked(c) ==
  LET t == Translate(c.va)
  IN  t = Translation(c.pa, c.writable, t.user, c.no_execute)

MapPageAsAsked == [][\A c \in {call} : level = 1 => AsAsked(c)']_vars

(* initialize_paging comes to an end: on the new tables, or halted.        *)
PagingEnds == <>(pc \in {"done", "halted"})
-----------------------------------------------------------------------------
(* The tables implement AddressSpace: a step changes the translation of at *)
(* most the page being mapped, however many tables it adds on the way, and *)
(* cr3 is loaded only when image, stack and framebuffer are in place.      *)

Space == INSTANCE AddressSpace WITH
           Pages  <- VirtualPages,
           space  <- [va \in VirtualPages |-> Translate(va)],
           active <- cr3 # 0,
           wanted <- Wanted(machine)

SpaceSpec == Space!Spec
-----------------------------------------------------------------------------
(* Things the repository says of paging that do not hold.                  *)

(* kernel.c:55-56: "Anything else can be mapped on the fly."  map_page     *)
(* reaches a table through the direct map, so all of them must be there.   *)
MappableOnTheFly ==
  cr3 # 0 => \A t \in owned : Translate(Hhdm + t).frame = t
=============================================================================
