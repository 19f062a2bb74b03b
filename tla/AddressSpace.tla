---------------------------- MODULE AddressSpace ----------------------------
(***************************************************************************)
(* What building a new address space (src/src/memory/vm.c) promises, with  *)
(* no word about tables: an address space is a translation for every       *)
(* virtual page.  Mapping a page changes the translation of that page and  *)
(* of no other, and nothing is ever unmapped; by the time the processor    *)
(* switches to the new space every page that matters has the translation   *)
(* it has to have; and once the switch is made the space stays as it is.   *)
(***************************************************************************)
CONSTANTS
  Pages,    \* virtual pages
  Unmapped  \* the translation of a page that is not mapped

VARIABLES
  space,   \* the translation of every virtual page
  active,  \* the processor uses the space
  wanted   \* the translations that the space must have to be activated

vars == <<space, active, wanted>>

Init ==
  /\ space = [va \in Pages |-> Unmapped]
  /\ active = FALSE

\* map_page(va, ...) takes effect.
Map(va) ==
  /\ ~active
  /\ space'[va] \notin {Unmapped, space[va]}
  /\ space' = [space EXCEPT ![va] = space'[va]]
  /\ UNCHANGED <<active, wanted>>

\* mov %0, %%cr3
Activate ==
  /\ ~active /\ active' = TRUE
  /\ \A va \in DOMAIN wanted : space[va] = wanted[va]
  /\ UNCHANGED <<space, wanted>>

Next == Activate \/ \E va \in Pages : Map(va)

Spec == Init /\ [][Next]_vars
=============================================================================
