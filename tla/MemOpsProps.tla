----------------------------- MODULE MemOpsProps -----------------------------
(***************************************************************************)
(* What the memory functions have to get right, and the inductive          *)
(* invariant from which it follows.                                        *)
(***************************************************************************)
EXTENDS MemOps

Loops == {"forward", "backward", "fill", "compare"}
Movers == {"memcpy", "memmove"}

(* Every variable has its type, and a call stays inside memory.            *)
TypeOK ==
  /\ pc \in Loops \cup {"idle", "done"}
  /\ fn \in Movers \cup {"none", "memset", "memcmp"}
  /\ mem \in [Addresses -> Byte] /\ before \in [Addresses -> Byte]
  /\ dest \in Nat /\ src \in Nat /\ val \in Nat /\ n \in Nat
  /\ i \in 0 .. n
  /\ result \in {-1, 0, 1}
  /\ Block(dest, n) \subseteq Addresses /\ Block(src, n) \subseteq Addresses

(* When memcpy or memmove returns, dest holds what src held at the call,   *)
(* also where the blocks overlap (memmove), and no other byte is touched.  *)
Moved ==
  pc = "done" /\ fn \in Movers =>
    mem = [a \in Addresses |->
             IF a \in Block(dest, n) THEN before[src + (a - dest)] ELSE before[a]]

(* memset fills its block, and touches no other byte.                      *)
Filled ==
  pc = "done" /\ fn = "memset" =>
    mem = [a \in Addresses |-> IF a \in Block(dest, n) THEN val ELSE before[a]]

(* memcmp orders two blocks by the first byte in which they differ, and    *)
(* finds them equal only when there is none.                               *)
Ordered ==
  pc = "done" /\ fn = "memcmp" =>
    \/ result = 0 /\ \A k \in 0 .. n - 1 : before[dest + k] = before[src + k]
    \/ \E k \in 0 .. n - 1 :
         /\ \A j \in 0 .. k - 1 : before[dest + j] = before[src + j]
         /\ before[dest + k] # before[src + k]
         /\ result = IF before[dest + k] < before[src + k] THEN -1 ELSE 1

-----------------------------------------------------------------------------
(* The invariant of the loops.                                             *)

\* What a mover has done: the bytes in [lo, hi) of the block are copied, and
\* nothing else has changed.
CopiedRange(lo, hi) ==
  \A a \in Addresses :
    mem[a] = IF dest + lo <= a /\ a < dest + hi THEN before[src + (a - dest)]
             ELSE before[a]

\* Which loop runs: memmove runs forward or backward as the blocks lie.
LoopFits ==
  /\ pc = "idle" => mem = before /\ result = 0
  /\ pc = "forward" => fn \in Movers
  /\ pc = "backward" => fn = "memmove"
  /\ pc = "fill" => fn = "memset"
  /\ pc = "compare" => fn = "memcmp" /\ result = 0
  /\ pc = "done" => fn # "none"

ForwardInv ==
  pc = "forward" =>
    /\ CopiedRange(0, i)
    /\ src > dest \/ Block(dest, n) \cap Block(src, n) = {}

BackwardInv == pc = "backward" => src < dest /\ CopiedRange(i, n)

FillInv ==
  pc = "fill" =>
    /\ val \in Byte
    /\ \A a \in Addresses :
         mem[a] = IF dest <= a /\ a < dest + i THEN val ELSE before[a]

CompareInv ==
  pc = "compare" =>
    mem = before /\ \A k \in 0 .. i - 1 : before[dest + k] = before[src + k]

\* TypeOK is the first part, the promises the last.
IndInv ==
  /\ TypeOK
  /\ LoopFits
  /\ ForwardInv
  /\ BackwardInv
  /\ FillInv
  /\ CompareInv
  /\ Moved
  /\ Filled
  /\ Ordered
=============================================================================
