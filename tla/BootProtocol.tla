---------------------------- MODULE BootProtocol ----------------------------
(***************************************************************************)
(* What the Limine boot loader hands to the kernel (src/src/limine.h, and  *)
(* the requests of src/src/boot/requests.h), as far as the kernel looks at *)
(* it.  Addresses and lengths are counted in pages: usable entries are     *)
(* page aligned by the protocol.                                           *)
(***************************************************************************)
EXTENDS Integers, Sequences

EntryTypes == {"usable", "framebuffer", "other"}
Entry == [type : EntryTypes, base : Nat, length : Nat]

EntryEnd(e) == e.base + e.length
Usable(m, k) == m[k].type = "usable"

\* What the Limine protocol guarantees of a memory map: entries are sorted,
\* usable entries overlap nothing, are never empty and never hold page 0.
LimineMap(m) ==
  /\ m \in Seq(Entry)
  /\ \A k \in 1 .. Len(m) : Usable(m, k) => m[k].base > 0 /\ m[k].length > 0
  /\ \A j, k \in 1 .. Len(m) :
       j < k /\ (Usable(m, j) \/ Usable(m, k)) => EntryEnd(m[j]) <= m[k].base

PagesOf(e) == e.base .. EntryEnd(e) - 1

UsablePages(m) == UNION {PagesOf(m[k]) : k \in {j \in 1 .. Len(m) : Usable(m, j)}}
=============================================================================
