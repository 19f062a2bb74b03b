------------------------------ MODULE MCPaging ------------------------------
(***************************************************************************)
(* Machines for model-checking paging.  With Fanout = 3 there are 81       *)
(* virtual pages, of which the direct map has the middle third.  The last  *)
(* usable page of one machine is the last one that pointers reach.         *)
(***************************************************************************)
EXTENDS PagingProps

Block(t, b, n) == [type |-> t, base |-> b, length |-> n]

\* Usable memory in two pieces with the frame bitmap on the first page of
\* the second, and the kernel right below other usable memory or not; the
\* stack, and one or two framebuffers, above.
Machine(first, last, base, size, top, fbs) ==
  [map |-> <<Block("usable", 1, first), Block("other", first + 1, 1),
             Block("usable", first + 2, last - first - 1)>> \o fbs,
   bitmap |-> {first + 2},
   physical_base |-> base, kernel_pages |-> size, rsp |-> Hhdm + top]

OneScreen == <<Block("other", 16, 6), Block("framebuffer", 23, 2)>>
TwoScreens == <<Block("other", 16, 6), Block("framebuffer", 22, 1),
                Block("other", 23, 1), Block("framebuffer", 24, 1)>>

SmallMachines ==
  {Machine(3, 14, 4, 1, 21, OneScreen), Machine(10, 15, 19, 2, 18, OneScreen),
   Machine(10, 14, 16, 3, 21, TwoScreens)}
=============================================================================
