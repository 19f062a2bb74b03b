---------------------------- MODULE FrameSupply ----------------------------
(***************************************************************************)
(* What the physical allocator (src/src/memory/pmem.c) promises the rest   *)
(* of the kernel, with no word about bitmaps, regions or indices.  A frame *)
(* is named by its physical page number.                                   *)
(*                                                                         *)
(* Until the memory map has been read there is nothing to hand out.  From  *)
(* then on every call of frame_alloc gives the caller one free frame,      *)
(* above every frame given before, which nobody else ever gets; a call may *)
(* instead stop the processor (a failed CHASSERT ends in hcf).             *)
(***************************************************************************)
EXTENDS Naturals

VARIABLES
  usable,  \* pages the boot loader reports as usable memory
  state,   \* "booting", "ready" or "halted"
  free,    \* frames that can still be handed out
  owned    \* frames handed out so far

vars == <<usable, state, free, owned>>

TypeOK ==
  /\ usable \subseteq Nat
  /\ state \in {"booting", "ready", "halted"}
  /\ free \subseteq Nat
  /\ owned \subseteq Nat

Init ==
  /\ usable \subseteq Nat
  /\ state = "booting"
  /\ free = {}
  /\ owned = {}

\* initialize_memmap returns: some of the usable pages are now for hand-out.
Open ==
  /\ state = "booting"
  /\ state' = "ready"
  /\ free' \in SUBSET usable
  /\ UNCHANGED <<usable, owned>>

\* frame_alloc returns frame f.
Alloc(f) ==
  /\ state = "ready"
  /\ f \in free
  /\ \A g \in owned : g < f
  /\ free' = free \ {f}
  /\ owned' = owned \cup {f}
  /\ UNCHANGED <<usable, state>>

\* A failed assertion: the processor halts for good.
Halt ==
  /\ state' = "halted"
  /\ UNCHANGED <<usable, free, owned>>

Next == Open \/ Halt \/ \E f \in free : Alloc(f)

Spec == Init /\ [][Next]_vars
=============================================================================
