------------------------------- MODULE MemOps -------------------------------
(***************************************************************************)
(* The memory functions of src/src/lib/stdlib.c: memcpy, memset, memmove   *)
(* and memcmp, byte by byte.  A behaviour is one call, on any contents of  *)
(* memory; every turn of a loop is a step.  Addresses are small numbers:   *)
(* no caller's buffer wraps around the end of the address space.           *)
(***************************************************************************)
EXTENDS Integers

CONSTANTS
  Addresses,  \* the addresses of memory
  Sizes,      \* the sizes that are asked for
  Byte        \* the values of a byte

ASSUME MemoryAssumption ==
  Addresses \subseteq Nat /\ Sizes \subseteq Nat /\ Byte \subseteq Nat

VARIABLES
  pc,      \* "idle", the loop that is running, or "done"
  mem,     \* memory
  before,  \* history: memory when the function was called
  fn,      \* the function that was called
  dest,    \* dest, s, or s1
  src,     \* src, or s2
  val,     \* c of memset
  n,       \* n
  i,       \* the loop counter
  result   \* what memcmp returned

args == <<fn, dest, src, val, n>>
vars == <<pc, mem, before, args, i, result>>

\* The n addresses from a.
Block(a, size) == a .. a + size - 1

Init ==
  /\ pc = "idle"
  /\ mem \in [Addresses -> Byte] /\ before = mem
  /\ fn = "none" /\ dest = 0 /\ src = 0 /\ val = 0 /\ n = 0 /\ i = 0 /\ result = 0

-----------------------------------------------------------------------------
(* The calls *)

\* Function f is called on size bytes from d and, unless it is memset, from s.
Called(f, loop, d, s, size, start) ==
  /\ pc = "idle"
  /\ Block(d, size) \subseteq Addresses /\ Block(s, size) \subseteq Addresses
  /\ pc' = loop /\ i' = start
  /\ fn' = f /\ dest' = d /\ src' = s /\ n' = size
  /\ UNCHANGED <<mem, before, result>>

\* As for any memcpy, the caller's blocks do not overlap.
Memcpy(d, s, size) ==
  /\ Block(d, size) \cap Block(s, size) = {}
  /\ Called("memcpy", "forward", d, s, size, 0)
  /\ UNCHANGED val

\* Mutation: always from the first byte to the last.
MemmoveForward(d, s, size) ==
  /\ Called("memmove", "forward", d, s, size, 0)
  /\ UNCHANGED val

\* Mutation: the backward loop starts one byte low.
MemmoveShort(d, s, size) ==
  /\ \/ s > d /\ Called("memmove", "forward", d, s, size, 0)
     \/ s < d /\ Called("memmove", "backward", d, s, size, IF size = 0 THEN 0 ELSE size - 1)
     \/ s = d /\ Called("memmove", "done", d, s, size, 0)
  /\ UNCHANGED val

\* From the side on which dest does not yet cover what is still to be read.
Memmove(d, s, size) ==
  /\ \/ s > d /\ Called("memmove", "forward", d, s, size, 0)
     \/ s < d /\ Called("memmove", "backward", d, s, size, size)
     \/ s = d /\ Called("memmove", "done", d, s, size, 0)
  /\ UNCHANGED val

Memset(d, c, size) ==
  /\ Called("memset", "fill", d, d, size, 0)
  /\ val' = c

Memcmp(d, s, size) ==
  /\ Called("memcmp", "compare", d, s, size, 0)
  /\ UNCHANGED val
-----------------------------------------------------------------------------
(* The loops *)

Forward ==
  /\ pc = "forward" /\ i < n
  /\ mem' = [mem EXCEPT ![dest + i] = mem[src + i]]
  /\ i' = i + 1
  /\ UNCHANGED <<pc, before, args, result>>

Backward ==
  /\ pc = "backward" /\ i > 0
  /\ mem' = [mem EXCEPT ![dest + i - 1] = mem[src + i - 1]]
  /\ i' = i - 1
  /\ UNCHANGED <<pc, before, args, result>>

\* Mutation: the counter starts over from the first byte.
FillFirst ==
  /\ pc = "fill" /\ i < n
  /\ mem' = [mem EXCEPT ![dest] = val]
  /\ i' = i + 1
  /\ UNCHANGED <<pc, before, args, result>>

Fill ==
  /\ pc = "fill" /\ i < n
  /\ mem' = [mem EXCEPT ![dest + i] = val]
  /\ i' = i + 1
  /\ UNCHANGED <<pc, before, args, result>>

\* Mutation: the loop does not stop at a difference.
CompareAll ==
  /\ pc = "compare" /\ i < n
  /\ i' = i + 1
  /\ result' = IF mem[dest + i] = mem[src + i] THEN result
               ELSE IF mem[dest + i] < mem[src + i] THEN -1 ELSE 1
  /\ UNCHANGED <<pc, mem, before, args>>

\* The first difference decides.
Compare ==
  /\ pc = "compare" /\ i < n
  /\ \/ /\ mem[dest + i] = mem[src + i]
        /\ i' = i + 1
        /\ UNCHANGED <<pc, result>>
     \/ /\ mem[dest + i] # mem[src + i]
        /\ result' = IF mem[dest + i] < mem[src + i] THEN -1 ELSE 1
        /\ pc' = "done"
        /\ UNCHANGED i
  /\ UNCHANGED <<mem, before, args>>

\* The loop condition fails: return.
Return ==
  /\ \/ pc \in {"forward", "fill", "compare"} /\ i >= n
     \/ pc = "backward" /\ i <= 0
  /\ pc' = "done"
  /\ UNCHANGED <<mem, before, args, i, result>>

Returned == pc = "done" /\ UNCHANGED vars

Call ==
  \E d, s \in Addresses, size \in Sizes :
    \/ Memcpy(d, s, size)
    \/ Memmove(d, s, size)
    \/ Memcmp(d, s, size)
    \/ \E c \in Byte : Memset(d, c, size)

Loop == Forward \/ Backward \/ Fill \/ Compare \/ Return

Next == Call \/ Loop \/ Returned

Spec == Init /\ [][Next]_vars
=============================================================================
