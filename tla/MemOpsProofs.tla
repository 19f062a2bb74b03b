---------------------------- MODULE MemOpsProofs ----------------------------
(***************************************************************************)
(* The memory functions are right for every memory, every byte and every   *)
(* pair of blocks, overlapping or not.                                     *)
(***************************************************************************)
EXTENDS MemOpsProps, TLAPS

\* The definitions of the invariant's parts.
LEMMA InitInv == Init => IndInv
<1> SUFFICES ASSUME Init PROVE IndInv
  OBVIOUS
<1>1. TypeOK
  BY MemoryAssumption DEF Init, TypeOK, Block, Loops, Movers
<1>2. LoopFits /\ ForwardInv /\ BackwardInv /\ FillInv /\ CompareInv
  BY DEF Init, LoopFits, ForwardInv, BackwardInv, FillInv, CompareInv
<1>3. Moved /\ Filled /\ Ordered
  BY DEF Init, Moved, Filled, Ordered
<1> QED
  BY <1>1, <1>2, <1>3 DEF IndInv

\* A call sets up its loop; nothing is written yet.
LEMMA CallInv ==
  ASSUME IndInv, NEW d \in Addresses, NEW s \in Addresses, NEW size \in Sizes,
         NEW f \in Movers \cup {"memset", "memcmp"},
         NEW loop \in Loops \cup {"done"}, NEW start \in {0, size},
         Called(f, loop, d, s, size, start), val' \in Nat,
         loop = "forward" => /\ f \in Movers /\ start = 0
                             /\ s > d \/ Block(d, size) \cap Block(s, size) = {},
         loop = "backward" => f = "memmove" /\ start = size /\ s < d,
         loop = "fill" => f = "memset" /\ start = 0 /\ val' \in Byte,
         loop = "compare" => f = "memcmp" /\ start = 0,
         loop = "done" => f = "memmove" /\ s = d
  PROVE  IndInv'
<1> USE DEF IndInv, Loops, Movers
<1>1. /\ pc = "idle" /\ mem' = mem /\ before' = before /\ result' = result
      /\ pc' = loop /\ fn' = f /\ dest' = d /\ src' = s /\ n' = size /\ i' = start
      /\ mem = before /\ result = 0
  BY DEF Called, LoopFits
<1>2. /\ d \in Nat /\ s \in Nat /\ size \in Nat
      /\ Block(d, size) \subseteq Addresses /\ Block(s, size) \subseteq Addresses
  BY MemoryAssumption DEF Called
<1>3. TypeOK'
  BY <1>1, <1>2 DEF TypeOK, Block
<1>4. LoopFits'
  BY <1>1 DEF LoopFits
<1>5. ForwardInv'
  BY <1>1, <1>2, MemoryAssumption DEF ForwardInv, CopiedRange, Block
<1>6. BackwardInv'
  BY <1>1, <1>2, MemoryAssumption DEF BackwardInv, CopiedRange
<1>7. FillInv'
  BY <1>1, <1>2, MemoryAssumption DEF FillInv
<1>8. CompareInv'
  BY <1>1, <1>2 DEF CompareInv
<1>9. Moved'
  <2> SUFFICES ASSUME loop = "done"
               PROVE  mem = [a \in Addresses |->
                               IF a \in Block(d, size) THEN before[s + (a - d)] ELSE before[a]]
    BY <1>1 DEF Moved
  <2>1. mem \in [Addresses -> Byte] /\ s = d
    BY DEF TypeOK
  <2>2. \A a \in Addresses : s + (a - d) = a
    BY <1>2, <2>1, MemoryAssumption
  <2> QED
    BY <1>1, <2>1, <2>2
<1>10. Filled' /\ Ordered'
  BY <1>1 DEF Filled, Ordered
<1> QED
  BY <1>3, <1>4, <1>5, <1>6, <1>7, <1>8, <1>9, <1>10

\* One byte forward: src lies above dest, so the byte that is read has not
\* been written; or the blocks are apart.
LEMMA ForwardStep ==
  ASSUME IndInv, Forward PROVE IndInv'
<1> USE DEF IndInv, Loops, Movers
<1>1. /\ pc = "forward" /\ i < n /\ i' = i + 1
      /\ mem' = [mem EXCEPT ![dest + i] = mem[src + i]]
      /\ UNCHANGED <<pc, before, args, result>>
  BY DEF Forward
<1>2. /\ dest \in Nat /\ src \in Nat /\ n \in Nat /\ i \in Nat
      /\ mem \in [Addresses -> Byte] /\ before \in [Addresses -> Byte]
      /\ Block(dest, n) \subseteq Addresses /\ Block(src, n) \subseteq Addresses
  BY DEF TypeOK
<1>3. dest + i \in Addresses /\ src + i \in Addresses
  BY <1>1, <1>2 DEF Block
<1>4. mem[src + i] = before[src + i]
  <2>1. CopiedRange(0, i)
    BY <1>1 DEF ForwardInv
  <2>2. ~(dest + 0 <= src + i /\ src + i < dest + i)
    BY <1>1, <1>2 DEF ForwardInv, Block
  <2> QED
    BY <1>3, <2>1, <2>2 DEF CopiedRange
<1>5. TypeOK'
  BY <1>1, <1>2, <1>3 DEF TypeOK, args
<1>6. LoopFits'
  BY <1>1 DEF LoopFits, args
<1>7. ForwardInv'
  <2>1. CopiedRange(0, i)
    BY <1>1 DEF ForwardInv
  <2>2. CopiedRange(0, i)'
    <3> SUFFICES ASSUME NEW a \in Addresses
                 PROVE  mem'[a] = IF dest + 0 <= a /\ a < dest + (i + 1)
                                  THEN before[src + (a - dest)] ELSE before[a]
      BY <1>1 DEF CopiedRange, args
    <3>1. a \in Nat
      BY MemoryAssumption
    <3>2. CASE a = dest + i
      <4>1. mem'[a] = before[src + i] /\ src + (a - dest) = src + i
        BY <1>1, <1>2, <1>3, <1>4, <3>2
      <4> QED
        BY <1>2, <3>2, <4>1
    <3>3. CASE a # dest + i
      <4>1. mem'[a] = mem[a]
        BY <1>1, <1>2, <3>3
      <4>2. (dest + 0 <= a /\ a < dest + (i + 1)) <=> (dest + 0 <= a /\ a < dest + i)
        BY <1>2, <3>1, <3>3
      <4> QED
        BY <2>1, <4>1, <4>2 DEF CopiedRange
    <3> QED
      BY <3>2, <3>3
  <2> QED
    BY <1>1, <2>2 DEF ForwardInv, args
<1>8. BackwardInv' /\ FillInv' /\ CompareInv'
  BY <1>1 DEF BackwardInv, FillInv, CompareInv
<1>9. Moved' /\ Filled' /\ Ordered'
  BY <1>1 DEF Moved, Filled, Ordered
<1> QED
  BY <1>5, <1>6, <1>7, <1>8, <1>9

\* One byte backward: src lies below dest.
LEMMA BackwardStep ==
  ASSUME IndInv, Backward PROVE IndInv'
<1> USE DEF IndInv, Loops, Movers
<1>1. /\ pc = "backward" /\ i > 0 /\ i' = i - 1
      /\ mem' = [mem EXCEPT ![dest + i - 1] = mem[src + i - 1]]
      /\ UNCHANGED <<pc, before, args, result>>
  BY DEF Backward
<1>2. /\ dest \in Nat /\ src \in Nat /\ n \in Nat /\ i \in Nat /\ i <= n
      /\ mem \in [Addresses -> Byte] /\ before \in [Addresses -> Byte]
      /\ Block(dest, n) \subseteq Addresses /\ Block(src, n) \subseteq Addresses
  BY DEF TypeOK
<1>3. dest + i - 1 \in Addresses /\ src + i - 1 \in Addresses
  BY <1>1, <1>2 DEF Block
<1>4. src < dest /\ CopiedRange(i, n)
  BY <1>1 DEF BackwardInv
<1>5. mem[src + i - 1] = before[src + i - 1]
  <2>1. ~(dest + i <= src + i - 1 /\ src + i - 1 < dest + n)
    BY <1>2, <1>4
  <2> QED
    BY <1>3, <1>4, <2>1 DEF CopiedRange
<1>6. TypeOK'
  BY <1>1, <1>2, <1>3 DEF TypeOK, args
<1>7. LoopFits'
  BY <1>1 DEF LoopFits, args
<1>8. BackwardInv'
  <2>1. CopiedRange(i, n)'
    <3> SUFFICES ASSUME NEW a \in Addresses
                 PROVE  mem'[a] = IF dest + (i - 1) <= a /\ a < dest + n
                                  THEN before[src + (a - dest)] ELSE before[a]
      BY <1>1 DEF CopiedRange, args
    <3>1. a \in Nat
      BY MemoryAssumption
    <3>2. CASE a = dest + i - 1
      <4>1. mem'[a] = before[src + i - 1] /\ src + (a - dest) = src + i - 1
        BY <1>1, <1>2, <1>3, <1>5, <3>2
      <4> QED
        BY <1>1, <1>2, <3>2, <4>1
    <3>3. CASE a # dest + i - 1
      <4>1. mem'[a] = mem[a]
        BY <1>1, <1>2, <3>3
      <4>2. (dest + (i - 1) <= a /\ a < dest + n) <=> (dest + i <= a /\ a < dest + n)
        BY <1>2, <3>1, <3>3
      <4> QED
        BY <1>4, <4>1, <4>2 DEF CopiedRange
    <3> QED
      BY <3>2, <3>3
  <2> QED
    BY <1>1, <1>4, <2>1 DEF BackwardInv, args
<1>9. ForwardInv' /\ FillInv' /\ CompareInv'
  BY <1>1 DEF ForwardInv, FillInv, CompareInv
<1>10. Moved' /\ Filled' /\ Ordered'
  BY <1>1 DEF Moved, Filled, Ordered
<1> QED
  BY <1>6, <1>7, <1>8, <1>9, <1>10

LEMMA FillStep ==
  ASSUME IndInv, Fill PROVE IndInv'
<1> USE DEF IndInv, Loops, Movers
<1>1. /\ pc = "fill" /\ i < n /\ i' = i + 1
      /\ mem' = [mem EXCEPT ![dest + i] = val]
      /\ UNCHANGED <<pc, before, args, result>>
  BY DEF Fill
<1>2. /\ dest \in Nat /\ src \in Nat /\ n \in Nat /\ i \in Nat
      /\ mem \in [Addresses -> Byte] /\ val \in Byte
      /\ Block(dest, n) \subseteq Addresses
  BY <1>1 DEF TypeOK, FillInv
<1>3. dest + i \in Addresses
  BY <1>1, <1>2 DEF Block
<1>4. TypeOK'
  BY <1>1, <1>2, <1>3 DEF TypeOK, args
<1>5. LoopFits'
  BY <1>1 DEF LoopFits, args
<1>6. FillInv'
  <2> SUFFICES ASSUME NEW a \in Addresses
               PROVE  mem'[a] = IF dest <= a /\ a < dest + (i + 1) THEN val ELSE before[a]
    BY <1>1, <1>2 DEF FillInv, args
  <2>1. a \in Nat /\ (mem[a] = IF dest <= a /\ a < dest + i THEN val ELSE before[a])
    BY <1>1, MemoryAssumption DEF FillInv
  <2>2. CASE a = dest + i
    BY <1>1, <1>2, <2>1, <2>2
  <2>3. CASE a # dest + i
    BY <1>1, <1>2, <2>1, <2>3
  <2> QED
    BY <2>2, <2>3
<1>7. ForwardInv' /\ BackwardInv' /\ CompareInv'
  BY <1>1 DEF ForwardInv, BackwardInv, CompareInv
<1>8. Moved' /\ Filled' /\ Ordered'
  BY <1>1 DEF Moved, Filled, Ordered
<1> QED
  BY <1>4, <1>5, <1>6, <1>7, <1>8

LEMMA CompareStep ==
  ASSUME IndInv, Compare PROVE IndInv'
<1> USE DEF IndInv, Loops, Movers
<1>1. /\ pc = "compare" /\ i < n
      /\ UNCHANGED <<mem, before, args>>
  BY DEF Compare
<1>2. /\ dest \in Nat /\ src \in Nat /\ n \in Nat /\ i \in Nat
  BY DEF TypeOK
<1>3. /\ mem = before
      /\ \A k \in 0 .. i - 1 : before[dest + k] = before[src + k]
  BY <1>1 DEF CompareInv
<1>4. \/ before[dest + i] = before[src + i] /\ i' = i + 1 /\ pc' = pc /\ result' = result
      \/ /\ before[dest + i] # before[src + i] /\ pc' = "done" /\ i' = i
         /\ result' = IF before[dest + i] < before[src + i] THEN -1 ELSE 1
  BY <1>3 DEF Compare
<1>5. TypeOK'
  BY <1>1, <1>2, <1>4 DEF TypeOK, args
<1>6. LoopFits'
  BY <1>1, <1>4 DEF LoopFits, args
<1>7. CompareInv'
  BY <1>1, <1>2, <1>3, <1>4 DEF CompareInv, args
<1>8. ForwardInv' /\ BackwardInv' /\ FillInv'
  BY <1>1, <1>4 DEF ForwardInv, BackwardInv, FillInv
<1>9. Moved' /\ Filled'
  BY <1>1, <1>4 DEF Moved, Filled, LoopFits, args
<1>10. Ordered'
  BY <1>1, <1>2, <1>3, <1>4 DEF Ordered, LoopFits, args
<1> QED
  BY <1>5, <1>6, <1>7, <1>8, <1>9, <1>10

\* A loop that is through has done what its function promises.
LEMMA ReturnStep ==
  ASSUME IndInv, Return PROVE IndInv'
<1> USE DEF IndInv, Loops, Movers
<1>1. /\ pc' = "done" /\ UNCHANGED <<mem, before, args, i, result>>
      /\ \/ pc \in {"forward", "fill", "compare"} /\ i >= n
         \/ pc = "backward" /\ i <= 0
  BY DEF Return
<1>2. /\ dest \in Nat /\ src \in Nat /\ n \in Nat /\ i \in Nat /\ i <= n
      /\ mem \in [Addresses -> Byte] /\ before \in [Addresses -> Byte]
  BY DEF TypeOK
<1>3. TypeOK'
  BY <1>1 DEF TypeOK, args
<1>4. LoopFits'
  BY <1>1 DEF LoopFits, args
<1>5. ForwardInv' /\ BackwardInv' /\ FillInv' /\ CompareInv'
  BY <1>1 DEF ForwardInv, BackwardInv, FillInv, CompareInv
<1>6. Moved'
  <2> SUFFICES ASSUME fn \in Movers
               PROVE  mem = [a \in Addresses |->
                        IF a \in Block(dest, n) THEN before[src + (a - dest)] ELSE before[a]]
    BY <1>1 DEF Moved, args
  <2>1. pc \in {"forward", "backward"}
    BY <1>1 DEF LoopFits
  <2>2. CopiedRange(0, n)
    <3>1. CASE pc = "forward"
      BY <1>1, <1>2, <3>1 DEF ForwardInv
    <3>2. CASE pc = "backward"
      BY <1>1, <1>2, <3>2 DEF BackwardInv
    <3> QED
      BY <2>1, <3>1, <3>2
  <2>3. \A a \in Addresses : a \in Block(dest, n) <=> dest + 0 <= a /\ a < dest + n
    BY <1>2, MemoryAssumption DEF Block
  <2> QED
    BY <1>2, <2>2, <2>3 DEF CopiedRange
<1>7. Filled'
  <2> SUFFICES ASSUME fn = "memset"
               PROVE  mem = [a \in Addresses |->
                               IF a \in Block(dest, n) THEN val ELSE before[a]]
    BY <1>1 DEF Filled, args
  <2>1. pc = "fill" /\ i = n
    BY <1>1, <1>2 DEF LoopFits
  <2>2. \A a \in Addresses :
          mem[a] = IF dest <= a /\ a < dest + n THEN val ELSE before[a]
    BY <2>1 DEF FillInv
  <2>3. \A a \in Addresses : a \in Block(dest, n) <=> dest <= a /\ a < dest + n
    BY <1>2, MemoryAssumption DEF Block
  <2> QED
    BY <1>2, <2>2, <2>3
<1>8. Ordered'
  <2> SUFFICES ASSUME fn = "memcmp"
               PROVE  result = 0 /\ \A k \in 0 .. n - 1 : before[dest + k] = before[src + k]
    BY <1>1 DEF Ordered, args
  <2>1. pc = "compare" /\ i = n
    BY <1>1, <1>2 DEF LoopFits
  <2> QED
    BY <2>1 DEF CompareInv, LoopFits
<1> QED
  BY <1>3, <1>4, <1>5, <1>6, <1>7, <1>8

LEMMA Step == IndInv /\ [Next]_vars => IndInv'
<1> SUFFICES ASSUME IndInv, [Next]_vars PROVE IndInv'
  OBVIOUS
<1>1. ASSUME NEW d \in Addresses, NEW s \in Addresses, NEW size \in Sizes,
             Memcpy(d, s, size)
      PROVE  IndInv'
  BY <1>1, CallInv DEF Memcpy, IndInv, TypeOK, Loops, Movers
<1>2. ASSUME NEW d \in Addresses, NEW s \in Addresses, NEW size \in Sizes,
             Memmove(d, s, size)
      PROVE  IndInv'
  <2>1. val' \in Nat
    BY <1>2 DEF Memmove, IndInv, TypeOK
  <2>2. CASE s > d /\ Called("memmove", "forward", d, s, size, 0)
    BY <2>1, <2>2, CallInv DEF Loops, Movers
  <2>3. CASE s < d /\ Called("memmove", "backward", d, s, size, size)
    BY <2>1, <2>3, CallInv DEF Loops, Movers
  <2>4. CASE s = d /\ Called("memmove", "done", d, s, size, 0)
    BY <2>1, <2>4, CallInv DEF Loops, Movers
  <2> QED
    BY <1>2, <2>2, <2>3, <2>4 DEF Memmove
<1>3. ASSUME NEW d \in Addresses, NEW s \in Addresses, NEW size \in Sizes,
             Memcmp(d, s, size)
      PROVE  IndInv'
  BY <1>3, CallInv DEF Memcmp, IndInv, TypeOK, Loops, Movers
<1>4. ASSUME NEW d \in Addresses, NEW size \in Sizes, NEW c \in Byte, Memset(d, c, size)
      PROVE  IndInv'
  <2>1. c \in Nat /\ val' = c
    BY <1>4, MemoryAssumption DEF Memset
  <2> QED
    BY <1>4, <2>1, CallInv DEF Memset, Loops, Movers
<1>5. CASE Loop
  BY <1>5, ForwardStep, BackwardStep, FillStep, CompareStep, ReturnStep DEF Loop
<1>6. CASE UNCHANGED vars
  BY <1>6 DEF vars, args, IndInv, TypeOK, LoopFits, ForwardInv, BackwardInv, FillInv,
              CompareInv, CopiedRange, Moved, Filled, Ordered
<1> QED
  BY <1>1, <1>2, <1>3, <1>4, <1>5, <1>6 DEF Next, Call, Returned

(* In every reachable state the loops have done exactly their part.        *)
THEOREM Invariance == Spec => []IndInv
<1> QED
  BY InitInv, Step, PTL DEF Spec

(* memcpy and memmove copy right, for every overlap that memmove allows.   *)
THEOREM MovesRight == Spec => []Moved
<1>1. IndInv => Moved
  BY DEF IndInv
<1> QED
  BY <1>1, Invariance, PTL

(* memcmp returns the order of the first difference.                       *)
THEOREM ComparesRight == Spec => []Ordered
<1>1. IndInv => Ordered
  BY DEF IndInv
<1> QED
  BY <1>1, Invariance, PTL

(* memset fills its block, and nothing else.                               *)
THEOREM FillsRight == Spec => []Filled
<1>1. IndInv => Filled
  BY DEF IndInv
<1> QED
  BY <1>1, Invariance, PTL
=============================================================================
